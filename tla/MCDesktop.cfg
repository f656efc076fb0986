CONSTANTS
    Title = {"terminal", "editor", "files", "monitor"}
    NONE = "none"
    MAX_WINDOWS = 3
    MAX_Z = 6
    TERM_COLS = 2
    TERM_ROWS = 2
    TERM_MAX_SCROLL = 3
    TAB_STOP = 2
    INPUT_MAX = 2
    TERM_HISTORY = 1
    PROMPT <- MCPrompt
    BANNER <- MCBanner
    Letter = {"x"}
    SPACE = " "
    NL = "n"
    CR = "r"
    TAB = "t"
    BS = "b"
    NUL = "0"
    Texts <- MCTexts
    Deltas <- MCDeltas
    CTX_MAX_ITEMS = 3
    CTX_ITEM_H = 2
    SEP_H = 1
    HEAD = 1
    FOOT = 2
    Callback = {"open", "close"}
    NULL = "null"
    SEPARATOR = "separator"
    Places = {0, 1}
    EDIT_MAX_LINES = 3
    EDIT_MAX_LINE_LEN = 3
    EDIT_TAB = 2
    Moves <- MCMoves
SPECIFICATION DesktopSpec
INVARIANTS
    SomeWindowFocused
    ClickedInFront
    InputBeforeCursor
PROPERTIES
    WindowsKept
    OutputIsInView
    ClicksRunWhatIsDrawn
    EditsPlainText
