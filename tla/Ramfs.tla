------------------------------- MODULE Ramfs -------------------------------
(***************************************************************************)
(* The RAM file system, fs/ramfs.c: the tree of inodes, the open files and *)
(* the three counters of ramfs_t.                                          *)
(*                                                                         *)
(* Each call is one action.  free does nothing in this kernel              *)
(* (kernel/generic.c:29), so an inode that was deleted stays readable by   *)
(* the files that are open on it, and its memory is never used again:      *)
(* inodes are numbered in the order of their creation and never reused.    *)
(* The children/next links of a directory are the sequence list, newest    *)
(* first.  A path is the sequence of its names, split by "/"; permissions, *)
(* owners, times and symlink targets are stored and never looked at.       *)
(*                                                                         *)
(* Init is what ramfs_init and ramfs_create_default_structure leave, cut   *)
(* down to the root, one directory and one preloaded file in it.  A failed *)
(* malloc makes a call return with nothing changed, except in ramfs_open,  *)
(* which may have created the file by then.                                *)
(*                                                                         *)
(* Bounds: MAX_NODES inodes are ever created, a file holds MAX_SIZE bytes. *)
(***************************************************************************)
EXTENDS Integers, Sequences, FiniteSets, SequencesExt

CONSTANTS Name,       \* file names
          ETC, HOST,  \* the directory and the file of the default structure
          Hostname,   \* the bytes of that file
          Handle,     \* ramfs_file_t objects
          Byte,       \* the bytes callers write
          JUNK,       \* what is in memory nobody wrote
          Buffers,    \* the buffers callers write
          Counts,     \* the sizes and offsets callers pass
          WIDTH,      \* values of a uint32_t
          TOTAL,      \* ramfs_t.total_size (32 MB)
          MAX_NODES, MAX_SIZE

ASSUME RamfsAssumption == /\ {ETC, HOST} \subseteq Name
                          /\ JUNK \notin Byte
                          /\ Hostname \in Seq(Byte)
                          /\ 0 \notin Handle
                          /\ Buffers \subseteq Seq(Byte)
                          /\ Counts \subseteq Nat
                          /\ WIDTH \in Nat \ {0}
                          /\ MAX_NODES \in Nat /\ MAX_NODES >= 3
                          /\ MAX_SIZE \in Nat /\ MAX_SIZE < WIDTH

VARIABLES n,         \* inodes created: next_inode_id - 1
          name, type, parent, list, data, size,  \* the fields of the inodes
          used, files, dirs,                     \* the counters of ramfs_t
          open, node, pos                        \* the open files

nodeVars == <<n, name, type, parent, list>>
dataVars == <<data, size>>
countVars == <<used, files, dirs>>
fileVars == <<open, node, pos>>
vars == <<n, name, type, parent, list, data, size, used, files, dirs, open, node, pos>>

Node == 1 .. MAX_NODES

NIL == 0

Root == 1

(* A path that names neither "/" nor a name deeper than two directories.   *)
Path == UNION {[1 .. d -> Name] : d \in 1 .. 3}

data_size(f) == Len(data[f])

Init == /\ n = 3
        /\ name = [f \in Node |-> IF f = 3 THEN HOST ELSE ETC]
        /\ type = [f \in Node |-> IF f = 3 THEN "FILE" ELSE "DIR"]
        /\ parent = [f \in Node |-> IF f = 3 THEN 2 ELSE IF f = 2 THEN Root ELSE NIL]
        /\ list = [f \in Node |-> IF f = Root THEN <<2>> ELSE IF f = 2 THEN <<3>> ELSE << >>]
        /\ data = [f \in Node |-> IF f = 3 THEN Hostname ELSE << >>]
        /\ size = [f \in Node |-> Len(data[f])]
        /\ used = 0 /\ files = 1 /\ dirs = 2
        /\ open = {}
        /\ node = [h \in Handle |-> Root]
        /\ pos = [h \in Handle |-> 0]

-----------------------------------------------------------------------------
(* The first entry of the list with that name: the newest.                 *)
Child(f, nm) ==
  LET hits == {i \in DOMAIN list[f] : name[list[f][i]] = nm}
  IN  IF f = NIL \/ hits = {} THEN NIL ELSE list[f][Min(hits)]

find_inode(path) ==
  LET at[d \in 0 .. Len(path)] == IF d = 0 THEN Root ELSE Child(at[d - 1], path[d])
  IN  at[Len(path)]

(* split_path: the directory part and the last name.                       *)
DirOf(path) == find_inode(Front(path))

Prepended(s, f) == <<f>> \o s

(* alloc_inode and add_child.                                              *)
AddNode(nm, ty, p) == /\ n < MAX_NODES
                      /\ n' = n + 1
                      /\ name' = [name EXCEPT ![n + 1] = nm]
                      /\ type' = [type EXCEPT ![n + 1] = ty]
                      /\ parent' = [parent EXCEPT ![n + 1] = p]
                      /\ list' = [list EXCEPT ![p] = Prepended(@, n + 1), ![n + 1] = << >>]
                      /\ data' = [data EXCEPT ![n + 1] = << >>]
                      /\ size' = [size EXCEPT ![n + 1] = 0]

IsDir(f) == f # NIL /\ type[f] = "DIR"

CreateFile(path) == /\ IsDir(DirOf(path))
                    /\ AddNode(Last(path), "FILE", DirOf(path))
                    /\ files' = files + 1
                    /\ UNCHANGED <<used, dirs>>

ramfs_create_file(path) == /\ CreateFile(path)
                           /\ UNCHANGED fileVars

ramfs_create_dir(path) == /\ IsDir(DirOf(path))
                          /\ AddNode(Last(path), "DIR", DirOf(path))
                          /\ dirs' = dirs + 1
                          /\ UNCHANGED <<used, files, fileVars>>

(* A symlink is put under whatever the path leads to, a file too.          *)
ramfs_create_symlink(path) == /\ DirOf(path) # NIL
                              /\ AddNode(Last(path), "SYMLINK", DirOf(path))
                              /\ UNCHANGED <<countVars, fileVars>>

(* Mutants: the parent's list is cut at the node, or left as it is.        *)
CutAt(s, f) == SelectSeq(s, LAMBDA g : g > f)

NotUnlinked(s, f) == s

Unlinked(s, f) == RemoveFirst(s, f)

(* The node goes, and with it everything below it, which stays counted.    *)
ramfs_delete(path) ==
  LET f == find_inode(path)
  IN  /\ f # NIL /\ parent[f] # NIL
      /\ list' = [list EXCEPT ![parent[f]] = Unlinked(@, f)]
      /\ used' = (used - data_size(f)) % WIDTH
      /\ files' = IF type[f] = "FILE" THEN files - 1 ELSE files
      /\ dirs' = IF type[f] = "DIR" THEN dirs - 1 ELSE dirs
      /\ UNCHANGED <<n, name, type, parent, dataVars, fileVars>>

-----------------------------------------------------------------------------
(* The open files.                                                         *)

Opened(h, f) == /\ open' = open \cup {h}
                /\ node' = [node EXCEPT ![h] = f]
                /\ pos' = [pos EXCEPT ![h] = 0]

(* creat stands for flags & 0x01.  With h = NIL the last malloc fails.     *)
ramfs_open(h, path, creat) ==
  /\ h \notin open
  /\ \/ /\ find_inode(path) # NIL
        /\ h # NIL
        /\ Opened(h, find_inode(path))
        /\ UNCHANGED <<nodeVars, dataVars, countVars>>
     \/ /\ find_inode(path) = NIL
        /\ creat
        /\ CreateFile(path)
        /\ IF h # NIL THEN Opened(h, n + 1) ELSE UNCHANGED fileVars

(* The object is gone; node and pos go back to no value in particular.     *)
ramfs_close(h) == /\ h \in open
                  /\ open' = open \ {h}
                  /\ node' = [node EXCEPT ![h] = Root]
                  /\ pos' = [pos EXCEPT ![h] = 0]
                  /\ UNCHANGED <<nodeVars, dataVars, countVars>>

Smaller(a, b) == IF a < b THEN a ELSE b

ramfs_read(h, k) ==
  LET f == node[h]
      available == (size[f] - pos[h]) % WIDTH
      got == Smaller(k, available)
  IN  /\ h \in open
      /\ pos' = [pos EXCEPT ![h] = @ + got]
      /\ UNCHANGED <<nodeVars, dataVars, countVars, open, node>>

Larger(a, b) == IF a < b THEN b ELSE a

(* Mutant: realloc hands out fresh memory and forgets the old block.       *)
GrownFresh(f, len) ==
  [i \in 1 .. Larger(len, data_size(f)) |->
      IF len <= data_size(f) THEN data[f][i] ELSE JUNK]

(* realloc, when the file must grow: the old bytes, then what was there.   *)
Grown(f, len) ==
  [i \in 1 .. Larger(len, data_size(f)) |->
      IF i <= data_size(f) THEN data[f][i] ELSE JUNK]

ramfs_write(h, buf) ==
  LET f == node[h]
      new_size == pos[h] + Len(buf)
  IN  /\ h \in open
      /\ new_size <= MAX_SIZE
      /\ data' = [data EXCEPT ![f] =
            [i \in DOMAIN Grown(f, new_size) |->
               IF i > pos[h] /\ i <= new_size THEN buf[i - pos[h]]
                                              ELSE Grown(f, new_size)[i]]]
      /\ used' = IF new_size > data_size(f) THEN (used + Len(buf)) % WIDTH ELSE used
      /\ pos' = [pos EXCEPT ![h] = new_size]
      /\ size' = [size EXCEPT ![f] = IF new_size > @ THEN new_size ELSE @]
      /\ UNCHANGED <<nodeVars, files, dirs, open, node>>

(* Mutant: any offset will do.                                             *)
SeekAnywhere(h, offset) == offset <= MAX_SIZE

SeekAllowed(h, offset) == offset <= size[node[h]]

ramfs_seek(h, offset) == /\ h \in open
                         /\ SeekAllowed(h, offset)
                         /\ pos' = [pos EXCEPT ![h] = offset]
                         /\ UNCHANGED <<nodeVars, dataVars, countVars, open, node>>

Namespace == \E path \in Path : \/ ramfs_create_file(path)
                                \/ ramfs_create_dir(path)
                                \/ ramfs_create_symlink(path)
                                \/ ramfs_delete(path)

OpenClose == \/ \E h \in Handle : ramfs_close(h)
             \/ \E h \in Handle \cup {NIL}, path \in Path, creat \in BOOLEAN :
                  ramfs_open(h, path, creat)

InputOutput == \E h \in Handle : \/ \E k \in Counts : ramfs_read(h, k)
                                 \/ \E buf \in Buffers : ramfs_write(h, buf)
                                 \/ \E k \in Counts : ramfs_seek(h, k)

(* ramfs_find and ramfs_list_dir, and every call that is refused.          *)
Lookup == UNCHANGED vars

Next == Namespace \/ OpenClose \/ InputOutput \/ Lookup

Spec == Init /\ [][Next]_vars

-----------------------------------------------------------------------------
(* In the list of its parent, which may itself have been deleted.          *)
Listed(f) == f = Root \/ f \in ToSet(list[parent[f]])

Live(ty) == {f \in 1 .. n : type[f] = ty /\ Listed(f)}

(* An inode is in no list but its parent's, and there once; and file_count *)
(* and dir_count are the inodes that are in a list.  The entries of a      *)
(* directory that was deleted with files in it still count.                *)
CountersMatchTree ==
  /\ \A p \in 1 .. n : /\ \A f \in ToSet(list[p]) : parent[f] = p
                        /\ Cardinality(ToSet(list[p])) = Len(list[p])
  /\ files = Cardinality(Live("FILE"))
  /\ dirs = Cardinality(Live("DIR"))

(* Paths lead where the calls on them say: no call but a delete takes an   *)
(* entry out of a list, a delete takes out the one its path leads to and   *)
(* leaves every sibling linked; and what a create makes is what its path   *)
(* finds from then on, also when an older entry has the same name, which   *)
(* the code does not look for.                                             *)
PathsLeadRight ==
  [][/\ \A f \in 1 .. n : Listed(f) /\ ~Listed(f)' =>
          \E path \in Path : ramfs_delete(path) /\ find_inode(path) = f
     /\ n' > n => \A path \in Path : ramfs_create_file(path) \/ ramfs_create_dir(path)
                     => find_inode(path)' = n']_vars

(* No open file stands beyond the end of its inode, whatever other files   *)
(* on the inode, or a delete, do to it: the subtraction of line 214 never  *)
(* wraps and memcpy never copies from behind the block.                    *)
PositionInFile == \A h \in open : pos[h] <= size[node[h]]

(* Growing a file leaves no gap, and the block is as long as the file.     *)
NoJunk == \A f \in 1 .. n : /\ size[f] <= data_size(f)
                            /\ \A i \in 1 .. size[f] : data[f][i] # JUNK

(* Reads stay in the file and no byte that was never written is readable,  *)
(* through seeks, growing writes and deletes of inodes that are open.      *)
OnlyWrittenIsRead == PositionInFile /\ NoJunk

(* A byte of a file changes only when a file open on it is written across  *)
(* it: growing moves the block and keeps the rest.                         *)
BytesKept ==
  [][\A f \in 1 .. n : \A i \in 1 .. size[f] :
       \/ data'[f][i] = data[f][i]
       \/ \E h \in open : node[h] = f /\ pos[h] < i /\ i <= pos'[h]]_vars

(* "Szabad hely", the free space of line 305, is at most the total.        *)
FreeWithinTotal == (TOTAL - used) % WIDTH <= TOTAL
=============================================================================
