-------------------------------- MODULE Vfs --------------------------------
(***************************************************************************)
(* The virtual file system, vfs.c: the table of mounts, the resolution of  *)
(* a path to the longest mounted prefix, and the table of descriptors.     *)
(*                                                                         *)
(* A path is a sequence of characters, since the code compares prefixes    *)
(* and not components.  What the file systems do with the calls that are   *)
(* forwarded to them is theirs; here they succeed or fail.  vfs_read and   *)
(* vfs_write are stubs that return 0.                                      *)
(***************************************************************************)
EXTENDS Integers, FiniteSets, Sequences, SequencesExt

CONSTANTS VFS_MAX_MOUNTS, VFS_MAX_FDS,
          Paths,    \* the paths callers pass
          Fs,       \* the values of fs_data
          DevFs,    \* those of them mounted as VFS_FS_DEVFS
          Offsets,  \* the offsets vfs_seek is called with
          NULL

VfsAssumption == /\ VFS_MAX_MOUNTS \in Nat /\ VFS_MAX_FDS \in Nat
                 /\ \A path \in Paths : path \in Seq(ToSet(path))
                /\ DevFs \subseteq Fs
                 /\ Offsets \subseteq Nat

VARIABLES mounts,       \* slot -> [path, fs, active]
          mount_count,
          fds           \* descriptor -> [active, position]

vars == <<mounts, mount_count, fds>>

Slot == 1 .. VFS_MAX_MOUNTS
Fd == 0 .. VFS_MAX_FDS - 1

(* vfs_init: all bytes zero, an empty path in every slot.                  *)
Init == /\ mounts = [i \in Slot |-> [path |-> << >>, fs |-> NULL, active |-> FALSE]]
        /\ mount_count = 0
        /\ fds = [fd \in Fd |-> [active |-> FALSE, position |-> 0]]

-----------------------------------------------------------------------------
(* The mount table.  A slot that is given back keeps its path.             *)

Covers(i, path) == IsPrefix(mounts[i].path, path)

Covering(path) == {i \in Slot : mounts[i].active /\ Covers(i, path)}

Before(i, j) == LET li == Len(mounts[i].path)
                    lj == Len(mounts[j].path)
                IN li > lj \/ (li = lj /\ i <= j)

(* The longest prefix, of equal ones the first slot: no or one slot.       *)
vfs_find_mount(path) == {i \in Covering(path) : \A j \in Covering(path) : Before(i, j)}

FirstFree(i) == ~mounts[i].active /\ \A j \in Slot : j < i => mounts[j].active

(* The mount helpers come to this when their malloc succeeds.              *)
vfs_mount(path, fs) ==
  \E i \in Slot :
    /\ FirstFree(i)
    /\ mounts' = [mounts EXCEPT ![i] = [path |-> path, fs |-> fs, active |-> TRUE]]
    /\ mount_count' = mount_count + 1
    /\ UNCHANGED fds

MountedAt(path) == {i \in Slot : mounts[i].active /\ mounts[i].path = path}

(* Mutant: the slot mounted there last.                                    *)
LastOf(S) == {i \in S : \A j \in S : j <= i}

FirstOf(S) == {i \in S : \A j \in S : i <= j}

(* Descriptors of files below the mount stay open.                         *)
vfs_umount(path) ==
  \E i \in FirstOf(MountedAt(path)) :
    /\ mounts' = [mounts EXCEPT ![i].active = FALSE]
    /\ mount_count' = mount_count - 1
    /\ UNCHANGED fds

-----------------------------------------------------------------------------
(* Descriptors.                                                            *)

vfs_alloc_fd(fd) == ~fds[fd].active /\ \A e \in Fd : e < fd => fds[e].active

(* Mutant: the position of the last user is left in place.                 *)
OpenedInPlace(fd) == [fds EXCEPT ![fd].active = TRUE]

Opened(fd) == [fds EXCEPT ![fd] = [active |-> TRUE, position |-> 0]]

(* An open that the file system refuses resets the position of the         *)
(* descriptor and gives it back; a device file system has no case in the   *)
(* switch and refuses nothing.  The file itself is dropped: nothing in the *)
(* descriptor refers to it.                                                *)
vfs_open(path) ==
  \E i \in vfs_find_mount(path), fd \in Fd :
    /\ vfs_alloc_fd(fd)
    /\ \/ fds' = Opened(fd)
       \/ mounts[i].fs \notin DevFs /\ fds' = [Opened(fd) EXCEPT ![fd].active = FALSE]
    /\ UNCHANGED <<mounts, mount_count>>

vfs_close(fd) == /\ fds[fd].active
                 /\ fds' = [fds EXCEPT ![fd].active = FALSE]
                 /\ UNCHANGED <<mounts, mount_count>>

(* The descriptor need not be open.                                        *)
vfs_seek(fd, offset) == /\ fds' = [fds EXCEPT ![fd].position = offset]
                        /\ UNCHANGED <<mounts, mount_count>>

(* vfs_mkdir, vfs_unlink, vfs_exists, vfs_rename and vfs_stat ask the file *)
(* system of vfs_find_mount and leave these tables alone, as vfs_tell, the *)
(* stubs and the calls that are refused do.                                *)
Lookup == UNCHANGED <<mounts, mount_count, fds>>

Next == \/ \E path \in Paths : \/ \E fs \in Fs : vfs_mount(path, fs)
                               \/ vfs_umount(path)
                               \/ vfs_open(path)
        \/ \E fd \in Fd : vfs_close(fd) \/ \E offset \in Offsets : vfs_seek(fd, offset)
        \/ Lookup

Spec == Init /\ [][Next]_vars

-----------------------------------------------------------------------------
Answers(path) == {mounts[i] : i \in vfs_find_mount(path)}

(* What a path resolves to changes only when something is mounted below    *)
(* (or again at) the mount that answered so far, or when that mount ends.  *)
(* With several mounts at one path, vfs_umount ends the one that answered  *)
(* for it and no other: the search of vfs_find_mount, which goes on to the *)
(* longest prefix, and the one of vfs_umount agree.                        *)
ResolutionFollowsMounts ==
  [][\A path \in Paths :
       /\ Answers(path)' # Answers(path) =>
            \/ \E i \in Slot : /\ mounts'[i] # mounts[i] /\ mounts'[i].active
                               /\ IsPrefix(mounts'[i].path, path)
                               /\ \A m \in Answers(path) : Len(mounts'[i].path) >= Len(m.path)
            \/ \E i \in vfs_find_mount(path) : ~mounts'[i].active
       /\ vfs_umount(path) =>
            \A i \in Slot : mounts[i].active /\ ~mounts'[i].active <=> i \in vfs_find_mount(path)]_vars

(* A descriptor that is handed out was not in use, starts at offset 0      *)
(* whatever was sought on it while it was closed, and a descriptor in use  *)
(* keeps its position unless it is the one a seek names.                   *)
DescriptorsApart ==
  [][\A fd \in Fd :
       /\ ~fds[fd].active /\ fds'[fd].active => fds'[fd].position = 0
       /\ fds[fd].active /\ fds'[fd] # fds[fd] =>
            /\ \A e \in Fd \ {fd} : fds'[e] = fds[e]
            /\ \/ vfs_close(fd)
               \/ \E offset \in Offsets : vfs_seek(fd, offset)]_vars
=============================================================================
