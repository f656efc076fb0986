CONSTANTS
    Title = {"terminal", "editor", "files"}
    NONE = "none"
    MAX_WINDOWS = 3
    MAX_Z = 6
SPECIFICATION Spec
PROPERTIES
    DragMovesGrabbed
