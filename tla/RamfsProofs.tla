---------------------------- MODULE RamfsProofs ----------------------------
(***************************************************************************)
(* What is proved of the RAM file system, for every set of names, handles, *)
(* bytes and buffers and every number and size of inodes: the counters     *)
(* agree with the tree, paths lead where the calls on them say, no byte is *)
(* read that was not written, and a byte changes only when it is written.  *)
(*                                                                         *)
(* The argument rests on one fact about the tree: an inode is younger than *)
(* the directory it is in, so that a walk down a path never comes back to  *)
(* a directory it has been in.                                             *)
(***************************************************************************)
EXTENDS Ramfs, RingFacts, FiniteSetTheorems, SequenceTheorems, TLAPS

(* The types of the variables.                                             *)
Typed == /\ n \in 3 .. MAX_NODES
         /\ name \in [Node -> Name]
         /\ type \in [Node -> {"FILE", "DIR", "SYMLINK"}]
         /\ parent \in [Node -> 0 .. MAX_NODES]
         /\ list \in [Node -> Seq(Node)]
         /\ data \in [Node -> Seq(Byte \cup {JUNK})]
         /\ size \in [Node -> Nat]
         /\ used \in Int /\ files \in Int /\ dirs \in Int
         /\ open \subseteq Handle
         /\ node \in [Handle -> Node]
         /\ pos \in [Handle -> Nat]

(* An inode is younger than its parent, and the list of a directory holds  *)
(* inodes that name it as their parent, each once.                         *)
Tree == /\ parent[Root] = NIL
        /\ \A f \in 2 .. n : parent[f] \in 1 .. f - 1
        /\ \A p \in 1 .. n : \A i \in DOMAIN list[p] :
             list[p][i] \in 2 .. n /\ parent[list[p][i]] = p
        /\ \A p \in 1 .. n : \A i, j \in DOMAIN list[p] :
             list[p][i] = list[p][j] => i = j

(* The open files are open on inodes that were created.                    *)
Handles == \A h \in Handle : node[h] \in 1 .. n

Counted == /\ files = Cardinality(Live("FILE"))
           /\ dirs = Cardinality(Live("DIR"))

(* The inductive invariant.                                                *)
Inv == Typed /\ Tree /\ Counted /\ Handles /\ PositionInFile /\ NoJunk

-----------------------------------------------------------------------------
(* A lookup in a directory.                                                *)

(* What a lookup finds is an entry of the directory, younger than it.      *)
ChildIsEntry ==
  \A f \in 0 .. n, nm \in Name :
    LET c == Child(f, nm)
    IN  /\ c \in 0 .. n
        /\ c # NIL => /\ f # NIL /\ f < c
                      /\ c \in ToSet(list[f])
                      /\ parent[c] = f

(* The newest entry of a name is found, or none if there is none.          *)
LEMMA LookupFinds == RamfsAssumption /\ Typed /\ Tree => ChildIsEntry
<1> SUFFICES ASSUME RamfsAssumption, Typed, Tree, NEW f \in 0 .. n, NEW nm \in Name
             PROVE  /\ Child(f, nm) \in 0 .. n
                    /\ Child(f, nm) # NIL => /\ f # NIL /\ f < Child(f, nm)
                                             /\ Child(f, nm) \in ToSet(list[f])
                                             /\ parent[Child(f, nm)] = f
  BY DEF ChildIsEntry
<1> DEFINE hits == {i \in DOMAIN list[f] : name[list[f][i]] = nm}
<1>0. n \in Nat /\ NIL = 0
  BY DEF Typed, NIL
<1>1. CASE f = NIL \/ hits = {}
  <2>1. Child(f, nm) = NIL
    BY <1>1 DEF Child
  <2> QED BY <1>0, <2>1
<1>2. CASE f # NIL /\ hits # {}
  <2>1. f \in 1 .. n /\ f \in Node
    BY <1>0, <1>2 DEF Typed, Node, RamfsAssumption
  <2>2. hits \in SUBSET Nat
    BY <2>1 DEF Typed
  <2> DEFINE m == Min(hits)
  <2>3. m \in hits
    <3>1. \E x \in hits : \A y \in hits : x <= y
      BY <1>2, <2>2, LeastExists
    <3> QED BY <3>1 DEF Min
  <2>4. Child(f, nm) = list[f][m]
    BY <1>2 DEF Child
  <2>5. m \in DOMAIN list[f]
    BY <2>3
  <2> HIDE DEF m, hits
  <2>6. list[f][m] \in 2 .. n /\ parent[list[f][m]] = f
    BY <2>1, <2>5 DEF Tree
  <2>7. parent[list[f][m]] \in 1 .. list[f][m] - 1
    BY <2>6 DEF Tree
  <2>8. list[f][m] \in ToSet(list[f])
    BY <2>5 DEF ToSet
  <2> QED BY <1>0, <1>2, <2>4, <2>6, <2>7, <2>8
<1> QED BY <1>1, <1>2
-----------------------------------------------------------------------------
(* A walk down a path: the inodes that the names lead to, one by one.      *)
IsWalk(at, path) ==
  /\ at \in [0 .. Len(path) -> 0 .. n]
  /\ at[0] = Root
  /\ \A d \in 1 .. Len(path) : at[d] = Child(at[d - 1], path[d])

(* find_inode walks the path.                                              *)
FoundByWalk ==
  \A path \in Seq(Name) : \E at : IsWalk(at, path) /\ find_inode(path) = at[Len(path)]

(* Every path can be walked to its end, and find_inode returns that end.   *)
LEMMA PathIsWalked == RamfsAssumption /\ Typed /\ Tree => FoundByWalk
<1> SUFFICES ASSUME RamfsAssumption, Typed, Tree, NEW path \in Seq(Name)
             PROVE  \E at : IsWalk(at, path) /\ find_inode(path) = at[Len(path)]
  BY DEF FoundByWalk
<1> DEFINE L == Len(path)
           S == 0 .. n
           F == [z \in S \X (1 .. L) |-> Child(z[1], path[z[2]])]
           Loop(h) == [d \in 0 .. L |-> IF d = 0 THEN Root ELSE Child(h[d - 1], path[d])]
           at == CHOOSE h : h = Loop(h)
<1>1. n \in Nat /\ L \in Nat /\ Root \in S
  BY DEF Typed, Root
<1>2. \A f \in S, d \in 1 .. L : Child(f, path[d]) \in S
  <2>1. ChildIsEntry
    BY LookupFinds
  <2>2. \A d \in 1 .. L : path[d] \in Name
    OBVIOUS
  <2> QED BY <2>1, <2>2 DEF ChildIsEntry
<1>3. F \in [S \X (1 .. L) -> S]
  BY <1>2
<1> HIDE DEF S
<1>4. PICK g \in [0 .. L -> S] : g[0] = Root /\ \A d \in 1 .. L : g[d] = F[<<g[d - 1], d>>]
  <2> HIDE DEF L, F
  <2>1. \E g : IsLoop(g, L, S, Root, F)
    BY <1>1, <1>3, LoopExists
  <2> QED BY <2>1 DEF IsLoop
<1>5. g = Loop(g)
  <2>1. ASSUME NEW d \in 0 .. L PROVE g[d] = Loop(g)[d]
    <3>1. CASE d = 0
      BY <1>4, <3>1
    <3>2. CASE d \in 1 .. L
      <4>1. <<g[d - 1], d>> \in S \X (1 .. L)
        <5>1. d - 1 \in 0 .. L
          BY <1>1, <3>2
        <5> QED BY <1>4, <3>2, <5>1
      <4>2. F[<<g[d - 1], d>>] = Child(g[d - 1], path[d])
        BY <4>1
      <4> QED BY <1>4, <3>2, <4>2
    <3> QED BY <3>1, <3>2
  <2>2. g = [d \in 0 .. L |-> g[d]]
    BY <1>4
  <2> HIDE DEF Loop
  <2>3. Loop(g) = [d \in 0 .. L |-> Loop(g)[d]]
    BY DEF Loop
  <2> QED BY <2>1, <2>2, <2>3, Zenon
<1>6. at = Loop(at)
  BY <1>5
<1>7. find_inode(path) = at[L]
  BY DEF find_inode
<1> HIDE DEF at
<1>8. at[0] = Root /\ \A d \in 1 .. L : at[d] = Child(at[d - 1], path[d])
  <2>1. \A d \in 0 .. L : at[d] = Loop(at)[d]
    BY <1>6
  <2> QED BY <1>1, <2>1
<1>9. \A d \in 0 .. L : at[d] \in S
  <2>1. at[0] \in S
    BY <1>1, <1>8
  <2>2. \A d \in 1 .. L : at[d - 1] \in S => at[d] \in S
    BY <1>2, <1>8
  <2> HIDE DEF L
  <2> QED BY <1>1, <2>1, <2>2, LoopInvariant
<1>10. at \in [0 .. L -> S]
  BY <1>6, <1>9
<1> QED BY <1>7, <1>8, <1>10 DEF IsWalk, S

(* On a walk every inode is younger than the ones before it, and there is  *)
(* no way back from NIL.                                                   *)
Descending(at, path) ==
  \A d, e \in 0 .. Len(path) : d < e /\ at[e] # NIL => at[d] # NIL /\ at[d] < at[e]

LEMMA WalkDescends ==
  ASSUME RamfsAssumption, Typed, Tree, NEW path \in Seq(Name), NEW at, IsWalk(at, path)
  PROVE  Descending(at, path)
<1> DEFINE L == Len(path)
<1>1. n \in Nat /\ L \in Nat /\ at \in [0 .. L -> 0 .. n] /\ NIL = 0
  BY DEF Typed, IsWalk, NIL
<1>2. \A d \in 1 .. L : at[d] # NIL => at[d - 1] # NIL /\ at[d - 1] < at[d]
  <2>1. ChildIsEntry
    BY LookupFinds
  <2> SUFFICES ASSUME NEW d \in 1 .. L, at[d] # NIL
               PROVE  at[d - 1] # NIL /\ at[d - 1] < at[d]
    OBVIOUS
  <2>2. at[d] = Child(at[d - 1], path[d]) /\ at[d - 1] \in 0 .. n /\ path[d] \in Name
    BY <1>1 DEF IsWalk
  <2> QED BY <2>1, <2>2 DEF ChildIsEntry
<1> HIDE DEF L
<1> SUFFICES ASSUME NEW d \in 0 .. L
             PROVE  \A e \in 0 .. L : d < e /\ at[e] # NIL => at[d] # NIL /\ at[d] < at[e]
  BY DEF Descending, L
<1> DEFINE Ok == {e \in 0 .. L : d < e /\ at[e] # NIL => at[d] # NIL /\ at[d] < at[e]}
           h == [e \in 0 .. L |-> e]
<1>3. h[0] \in Ok
  BY <1>1
<1>4. \A e \in 1 .. L : h[e - 1] \in Ok => h[e] \in Ok
  <2> SUFFICES ASSUME NEW e \in 1 .. L, e - 1 \in Ok
               PROVE  e \in Ok
    BY <1>1
  <2>1. CASE ~(d < e /\ at[e] # NIL)
    BY <1>1, <2>1
  <2>2. CASE d < e /\ at[e] # NIL
    <3>1. at[e - 1] # NIL /\ at[e - 1] < at[e]
      BY <1>2, <2>2
    <3>2. at[e - 1] \in 0 .. n /\ at[e] \in 0 .. n /\ at[d] \in 0 .. n
      BY <1>1
    <3>3. CASE d = e - 1
      BY <2>2, <3>1, <3>3
    <3>4. CASE d < e - 1
      <4>1. at[d] # NIL /\ at[d] < at[e - 1]
        BY <3>1, <3>4
      <4> QED BY <3>1, <3>2, <4>1
    <3> QED BY <1>1, <2>2, <3>3, <3>4
  <2> QED BY <2>1, <2>2
<1> HIDE DEF Ok
<1>5. \A e \in 0 .. L : h[e] \in Ok
  BY <1>1, <1>3, <1>4, LoopInvariant
<1> QED BY <1>5 DEF Ok
(* A path a caller passes is a nonempty sequence of names, and so is its   *)
(* directory part, perhaps empty.                                          *)
LEMMA PathIsSeq ==
  ASSUME NEW path \in Path
  PROVE  /\ path \in Seq(Name) /\ Len(path) \in Nat \ {0}
         /\ Front(path) \in Seq(Name) /\ Len(Front(path)) = Len(path) - 1
         /\ \A d \in 1 .. Len(path) - 1 : Front(path)[d] = path[d]
         /\ Last(path) = path[Len(path)] /\ Last(path) \in Name
<1>1. PICK d \in 1 .. 3 : path \in [1 .. d -> Name]
  BY DEF Path
<1>2. path \in Seq(Name) /\ Len(path) = d
  BY <1>1
<1> QED BY <1>1, <1>2 DEF Front, Last

(* What a path leads to is a created inode or nothing, and never the root. *)
LEMMA FoundIsListed ==
  ASSUME RamfsAssumption, Typed, Tree, NEW path \in Path
  PROVE  /\ DirOf(path) \in 0 .. n
         /\ find_inode(path) \in 0 .. n
         /\ LET f == find_inode(path)
            IN  f # NIL => /\ f \in 2 .. n
                           /\ parent[f] \in 1 .. f - 1
                           /\ f \in ToSet(list[parent[f]])
<1> DEFINE L == Len(path)
<1>1. /\ path \in Seq(Name) /\ L \in Nat \ {0} /\ Front(path) \in Seq(Name)
      /\ Len(Front(path)) = L - 1
  BY PathIsSeq
<1>2. FoundByWalk /\ ChildIsEntry
  BY PathIsWalked, LookupFinds
<1>3. DirOf(path) \in 0 .. n
  <2>1. PICK at : IsWalk(at, Front(path)) /\ find_inode(Front(path)) = at[L - 1]
    BY <1>1, <1>2 DEF FoundByWalk
  <2>2. L - 1 \in 0 .. Len(Front(path))
    BY <1>1
  <2>3. at[L - 1] \in 0 .. n
    BY <2>1, <2>2 DEF IsWalk
  <2> QED BY <2>1, <2>3 DEF DirOf
<1>4. PICK at : IsWalk(at, path) /\ find_inode(path) = at[L]
  BY <1>1, <1>2 DEF FoundByWalk
<1>5. /\ at[L] \in 0 .. n /\ at[L - 1] \in 0 .. n /\ path[L] \in Name
      /\ at[L] = Child(at[L - 1], path[L])
  BY <1>1, <1>4 DEF IsWalk
<1> DEFINE f == at[L]
           p == at[L - 1]
<1>6. f # NIL => p # NIL /\ p < f /\ f \in ToSet(list[p]) /\ parent[f] = p
  <2>1. PICK nm \in Name : nm = path[L] /\ f = Child(p, nm)
    BY <1>5
  <2> QED BY <1>2, <1>5, <2>1, SMTT(30) DEF ChildIsEntry
<1>7. n \in Nat /\ NIL = 0
  BY DEF Typed, NIL
<1> QED BY <1>3, <1>4, <1>5, <1>6, <1>7

-----------------------------------------------------------------------------
(* The steps that change the tree.                                         *)

(* The list of a directory, one entry longer.                              *)
LEMMA PrependedIs ==
  ASSUME NEW S, NEW s \in Seq(S), NEW f \in S
  PROVE  /\ Prepended(s, f) \in Seq(S) /\ Len(Prepended(s, f)) = Len(s) + 1
         /\ Prepended(s, f)[1] = f
         /\ \A i \in 2 .. Len(s) + 1 : Prepended(s, f)[i] = s[i - 1]
         /\ ToSet(Prepended(s, f)) = ToSet(s) \cup {f}
<1>1. Prepended(s, f) \in Seq(S) /\ Len(Prepended(s, f)) = Len(s) + 1
  BY DEF Prepended
<1>2. Prepended(s, f)[1] = f
  BY DEF Prepended
<1>3. \A i \in 2 .. Len(s) + 1 : Prepended(s, f)[i] = s[i - 1]
  BY DEF Prepended
<1>4. ToSet(Prepended(s, f)) = ToSet(s) \cup {f}
  <2>1. DOMAIN Prepended(s, f) = 1 .. Len(s) + 1 /\ DOMAIN s = 1 .. Len(s) /\ Len(s) \in Nat
    BY <1>1
  <2>2. \A i \in 1 .. Len(s) : i + 1 \in 2 .. Len(s) + 1 /\ Prepended(s, f)[i + 1] = s[i]
    BY <1>3, <2>1
  <2>3. \A i \in 1 .. Len(s) + 1 : i = 1 \/ (i - 1 \in 1 .. Len(s) /\ i \in 2 .. Len(s) + 1)
    BY <2>1
  <2>4. 1 \in 1 .. Len(s) + 1
    BY <2>1
  <2>5. ASSUME NEW x \in ToSet(Prepended(s, f)) PROVE x \in ToSet(s) \cup {f}
    <3>1. PICK i \in 1 .. Len(s) + 1 : x = Prepended(s, f)[i]
      BY <2>1 DEF ToSet
    <3> QED BY <1>2, <1>3, <2>1, <2>3, <3>1 DEF ToSet
  <2>6. ASSUME NEW x \in ToSet(s) PROVE x \in ToSet(Prepended(s, f))
    <3>1. PICK i \in 1 .. Len(s) : x = s[i]
      BY <2>1 DEF ToSet
    <3>2. i + 1 \in 1 .. Len(s) + 1 /\ x = Prepended(s, f)[i + 1]
      BY <2>1, <2>2, <3>1
    <3> QED BY <2>1, <3>2 DEF ToSet
  <2>7. f \in ToSet(Prepended(s, f))
    BY <1>2, <2>1, <2>4 DEF ToSet
  <2> QED BY <2>5, <2>6, <2>7
<1> QED BY <1>1, <1>2, <1>3, <1>4

(* The list of a directory, without one of its entries.                    *)
LEMMA UnlinkedIs ==
  ASSUME NEW S, NEW s \in Seq(S), NEW f \in ToSet(s)
  PROVE  \E k \in 1 .. Len(s) :
           /\ s[k] = f
           /\ Unlinked(s, f) = [i \in 1 .. Len(s) - 1 |-> IF i < k THEN s[i] ELSE s[i + 1]]
<1> DEFINE I == {i \in 1 .. Len(s) : s[i] = f}
           k == Min(I)
<1>1. I # {} /\ I \in SUBSET Nat
  BY DEF ToSet
<1>2. k \in I
  <2>1. \E x \in I : \A y \in I : x <= y
    BY <1>1, LeastExists
  <2> QED BY <2>1 DEF Min
<1>3. Unlinked(s, f) = RemoveAt(s, k)
  BY <1>1 DEF Unlinked, RemoveFirst, SelectInSeq
<1> HIDE DEF k
<1>4. k \in 1 .. Len(s) /\ s[k] = f
  BY <1>2
<1>5. RemoveAt(s, k) = [i \in 1 .. Len(s) - 1 |-> IF i < k THEN s[i] ELSE s[i + 1]]
  <2> DEFINE t == RemoveAt(s, k)
             a == SubSeq(s, 1, k - 1)
             b == SubSeq(s, k + 1, Len(s))
  <2>1. a \in Seq(S) /\ Len(a) = k - 1 /\ \A i \in 1 .. k - 1 : a[i] = s[i]
    BY <1>4
  <2>2. b \in Seq(S) /\ Len(b) = Len(s) - k /\ \A i \in 1 .. Len(s) - k : b[i] = s[k + i]
    BY <1>4
  <2>3. t = a \o b
    BY DEF RemoveAt
  <2> HIDE DEF t, a, b
  <2>4. t \in Seq(S) /\ Len(t) = Len(s) - 1 /\ DOMAIN t = 1 .. Len(s) - 1
    BY <1>4, <2>1, <2>2, <2>3
  <2>5. \A i \in 1 .. Len(s) - 1 : t[i] = IF i < k THEN s[i] ELSE s[i + 1]
    BY <1>4, <2>1, <2>2, <2>3
  <2>6. t = [i \in 1 .. Len(s) - 1 |-> t[i]]
    BY <2>4
  <2> QED BY <2>5, <2>6 DEF t
<1> QED BY <1>3, <1>4, <1>5
(* The fields that say where an inode is, and nothing of the open files.   *)
NodesTyped == /\ n \in 3 .. MAX_NODES
              /\ name \in [Node -> Name]
              /\ type \in [Node -> {"FILE", "DIR", "SYMLINK"}]
              /\ parent \in [Node -> 0 .. MAX_NODES]
              /\ list \in [Node -> Seq(Node)]

(* A new inode comes into the list of its parent, and nothing leaves one.  *)
LEMMA AddKeepsTree ==
  ASSUME RamfsAssumption, Typed, Tree, NEW nm \in Name,
         NEW ty \in {"FILE", "DIR", "SYMLINK"}, NEW p \in 1 .. n, AddNode(nm, ty, p),
         NEW new, new = n + 1
  PROVE  /\ NodesTyped' /\ Tree'
         /\ \A f \in 1 .. n : (Listed(f)' <=> Listed(f)) /\ type'[f] = type[f]
         /\ Listed(new)' /\ type'[new] = ty
<1>1. /\ n \in 3 .. MAX_NODES - 1 /\ n' = n + 1 /\ n \in Nat /\ MAX_NODES \in Nat
      /\ name' = [name EXCEPT ![n + 1] = nm]
      /\ type' = [type EXCEPT ![n + 1] = ty]
      /\ parent' = [parent EXCEPT ![n + 1] = p]
      /\ list' = [list EXCEPT ![p] = Prepended(@, n + 1), ![n + 1] = << >>]
  BY DEF AddNode, Typed, RamfsAssumption
<1>2. /\ Node = 1 .. MAX_NODES /\ NIL = 0 /\ Root = 1
      /\ n + 1 \in Node /\ p \in Node /\ p # n + 1 /\ list[p] \in Seq(Node)
  BY <1>1 DEF Node, NIL, Root, Typed
<1>3. NodesTyped'
  <2>1. Prepended(list[p], n + 1) \in Seq(Node) /\ << >> \in Seq(Node)
    BY <1>2, PrependedIs
  <2>2. n' \in 3 .. MAX_NODES
    BY <1>1
  <2>3. name' \in [Node -> Name] /\ type' \in [Node -> {"FILE", "DIR", "SYMLINK"}]
    BY <1>1 DEF Typed
  <2>4. parent' \in [Node -> 0 .. MAX_NODES]
    <3>1. p \in 0 .. MAX_NODES
      BY <1>1
    <3> QED BY <1>1, <3>1 DEF Typed
  <2>5. list' \in [Node -> Seq(Node)]
    BY <1>1, <1>2, <2>1 DEF Typed
  <2> QED BY <2>2, <2>3, <2>4, <2>5 DEF NodesTyped, Node
<1>4. /\ \A f \in 1 .. n : parent'[f] = parent[f]
      /\ \A f \in 1 .. n : f # p => list'[f] = list[f]
      /\ list'[p] = Prepended(list[p], n + 1)
      /\ list'[n + 1] = << >> /\ parent'[n + 1] = p
      /\ \A f \in 1 .. n : type'[f] = type[f]
      /\ type'[n + 1] = ty
  <2>1. \A f \in 1 .. n : f \in Node /\ f # n + 1
    BY <1>1, <1>2
  <2> QED BY <1>1, <1>2, <2>1 DEF Typed
<1>5. /\ Len(list'[p]) = Len(list[p]) + 1 /\ list'[p] \in Seq(Node)
      /\ list'[p][1] = n + 1
      /\ \A i \in 2 .. Len(list[p]) + 1 : list'[p][i] = list[p][i - 1]
      /\ ToSet(list'[p]) = ToSet(list[p]) \cup {n + 1}
  <2>1. PICK s \in Seq(Node), g \in Node : s = list[p] /\ g = n + 1
    BY <1>2
  <2>2. Prepended(s, g) \in Seq(Node) /\ Len(Prepended(s, g)) = Len(s) + 1
    BY PrependedIs
  <2>3. Prepended(s, g)[1] = g
    BY PrependedIs
  <2>4. \A i \in 2 .. Len(s) + 1 : Prepended(s, g)[i] = s[i - 1]
    BY PrependedIs
  <2>5. ToSet(Prepended(s, g)) = ToSet(s) \cup {g}
    BY PrependedIs
  <2> QED BY <1>4, <2>1, <2>2, <2>3, <2>4, <2>5
<1>6. \A i \in DOMAIN list[p] : list[p][i] \in 2 .. n /\ parent[list[p][i]] = p
  BY DEF Tree
<1>7. Tree'
  <2>1. parent'[Root] = NIL
    BY <1>1, <1>2, <1>4 DEF Tree
  <2>2. \A f \in 2 .. n + 1 : parent'[f] \in 1 .. f - 1
    BY <1>1, <1>4 DEF Tree
  <2>3. ASSUME NEW q \in 1 .. n + 1, NEW i \in DOMAIN list'[q]
        PROVE  list'[q][i] \in 2 .. n + 1 /\ parent'[list'[q][i]] = q
    <3>1. CASE q = n + 1
      BY <1>4, <2>3, <3>1
    <3>2. CASE q = p
      <4>1. i \in 1 .. Len(list[p]) + 1
        BY <1>5, <3>2
      <4>2. CASE i = 1
        <5>1. list'[q][i] = n + 1
          BY <1>5, <3>2, <4>2
        <5>2. parent'[n + 1] = q /\ n + 1 \in 2 .. n + 1
          BY <1>1, <1>4, <3>2
        <5> QED BY <5>1, <5>2
      <4>3. CASE i # 1
        <5>1. list'[p][i] = list[p][i - 1] /\ i - 1 \in DOMAIN list[p]
          <6>1. i \in 2 .. Len(list[p]) + 1 /\ Len(list[p]) \in Nat
            BY <1>2, <4>1, <4>3
          <6>2. i - 1 \in DOMAIN list[p]
            BY <1>2, <6>1
          <6> QED BY <1>5, <6>1, <6>2
        <5>2. list'[p][i] \in 2 .. n /\ parent[list'[p][i]] = p
          BY <1>6, <5>1
        <5> QED BY <1>1, <1>4, <3>2, <5>2
      <4> QED BY <4>2, <4>3
    <3>3. CASE q \in 1 .. n /\ q # p
      <4>1. list'[q] = list[q]
        BY <1>4, <3>3
      <4>2. list[q][i] \in 2 .. n /\ parent[list[q][i]] = q
        BY <2>3, <3>3, <4>1 DEF Tree
      <4> QED BY <1>1, <1>4, <4>1, <4>2
    <3> QED BY <1>1, <3>1, <3>2, <3>3
  <2>4. ASSUME NEW q \in 1 .. n + 1, NEW i \in DOMAIN list'[q], NEW j \in DOMAIN list'[q],
               list'[q][i] = list'[q][j]
        PROVE  i = j
    <3>1. CASE q = n + 1
      BY <1>4, <2>4, <3>1
    <3>2. CASE q = p
      <4>1. i \in 1 .. Len(list[p]) + 1 /\ j \in 1 .. Len(list[p]) + 1
        BY <1>5, <3>2
      <4>2. ASSUME NEW k \in 1 .. Len(list[p]) + 1, k # 1
            PROVE  /\ k - 1 \in DOMAIN list[p] /\ list'[p][k] = list[p][k - 1]
                   /\ list'[p][k] # n + 1
        <5>1. list'[p][k] = list[p][k - 1] /\ k - 1 \in DOMAIN list[p]
          <6>1. k \in 2 .. Len(list[p]) + 1 /\ Len(list[p]) \in Nat
            BY <1>2, <4>2
          <6>2. k - 1 \in DOMAIN list[p]
            BY <1>2, <6>1
          <6> QED BY <1>5, <6>1, <6>2
        <5>2. list[p][k - 1] \in 2 .. n
          BY <1>6, <5>1
        <5> QED BY <1>1, <5>1, <5>2
      <4>3. CASE i = 1 \/ j = 1
        BY <1>5, <2>4, <3>2, <4>1, <4>2, <4>3
      <4>4. CASE i # 1 /\ j # 1
        <5>1. list[p][i - 1] = list[p][j - 1]
          BY <2>4, <3>2, <4>1, <4>2, <4>4
        <5>2. i - 1 = j - 1
          BY <4>1, <4>2, <4>4, <5>1 DEF Tree
        <5> QED BY <4>1, <5>2
      <4> QED BY <4>3, <4>4
    <3>3. CASE q \in 1 .. n /\ q # p
      <4>1. list'[q] = list[q]
        BY <1>4, <3>3
      <4> QED BY <2>4, <3>3, <4>1 DEF Tree
    <3> QED BY <1>1, <3>1, <3>2, <3>3
  <2> QED BY <1>1, <2>1, <2>2, <2>3, <2>4 DEF Tree
<1>8. ASSUME NEW f \in 1 .. n
      PROVE  Listed(f)' <=> Listed(f)
  <2>1. CASE f = Root
    BY <2>1 DEF Listed
  <2>2. CASE f # Root
    <3>1. parent[f] \in 1 .. n /\ parent'[f] = parent[f]
      BY <1>1, <1>2, <1>4, <2>2 DEF Tree
    <3>2. f \in ToSet(list'[parent[f]]) <=> f \in ToSet(list[parent[f]])
      <4>1. CASE parent[f] = p
        <5>1. ToSet(list'[parent[f]]) = ToSet(list[parent[f]]) \cup {n + 1}
          BY <1>5, <4>1
        <5>2. f # n + 1
          BY <1>1
        <5> QED BY <5>1, <5>2
      <4>2. CASE parent[f] # p
        BY <1>4, <3>1, <4>2
      <4> QED BY <4>1, <4>2
    <3> QED BY <2>2, <3>1, <3>2 DEF Listed
  <2> QED BY <2>1, <2>2
<1>9. Listed(new)'
  <2>1. n + 1 \in ToSet(list'[parent'[n + 1]])
    BY <1>4, <1>5
  <2> QED BY <1>1, <2>1 DEF Listed
<1> QED BY <1>3, <1>4, <1>7, <1>8, <1>9
(* An inode that is cut out of its list leaves every other one in its own. *)
LEMMA CutKeepsTree ==
  ASSUME RamfsAssumption, Typed, Tree, NEW f \in 2 .. n, f \in ToSet(list[parent[f]]),
         list' = [list EXCEPT ![parent[f]] = Unlinked(@, f)],
         UNCHANGED <<n, name, type, parent>>
  PROVE  /\ NodesTyped' /\ Tree'
         /\ ~Listed(f)'
         /\ \A g \in 1 .. n : g # f => (Listed(g)' <=> Listed(g))
<1> DEFINE p == parent[f]
           s == list[p]
           t == Unlinked(s, f)
<1>1. /\ n \in 3 .. MAX_NODES /\ n \in Nat /\ Root = 1 /\ Node = 1 .. MAX_NODES
      /\ MAX_NODES \in Nat /\ p \in 1 .. n /\ p \in Node /\ s \in Seq(Node)
      /\ list \in [Node -> Seq(Node)]
  <2>1. n \in 3 .. MAX_NODES /\ MAX_NODES \in Nat
    BY DEF Typed, RamfsAssumption
  <2>2. p \in 1 .. f - 1
    BY DEF Tree
  <2>3. p \in 1 .. n /\ p \in 1 .. MAX_NODES
    BY <2>1, <2>2
  <2>4. list \in [Node -> Seq(Node)] /\ Root = 1 /\ Node = 1 .. MAX_NODES
    BY DEF Typed, Root, Node
  <2>5. s \in Seq(Node)
    BY <2>3, <2>4
  <2> QED BY <2>1, <2>3, <2>4, <2>5
<1>2. list'[p] = t /\ \A q \in 1 .. n : q # p => list'[q] = list[q]
  BY <1>1
<1>3. PICK k \in 1 .. Len(s) :
        s[k] = f /\ t = [i \in 1 .. Len(s) - 1 |-> IF i < k THEN s[i] ELSE s[i + 1]]
  BY <1>1, UnlinkedIs
<1>4. n' = n /\ name' = name /\ type' = type /\ parent' = parent
  OBVIOUS
<1>5. \A i, j \in 1 .. Len(s) : s[i] = s[j] => i = j
  <2>1. DOMAIN list[p] = 1 .. Len(s)
    BY <1>1
  <2>2. \A i, j \in DOMAIN list[p] : list[p][i] = list[p][j] => i = j
    BY <1>1 DEF Tree
  <2> QED BY <2>1, <2>2
<1>6. \A i \in 1 .. Len(s) : s[i] \in 2 .. n /\ parent[s[i]] = p
  <2>1. DOMAIN list[p] = 1 .. Len(s)
    BY <1>1
  <2>2. \A i \in DOMAIN list[p] : list[p][i] \in 2 .. n /\ parent[list[p][i]] = p
    BY <1>1 DEF Tree
  <2> QED BY <2>1, <2>2
<1> DEFINE at(i) == IF i < k THEN i ELSE i + 1
<1>7. /\ t \in Seq(Node) /\ Len(t) = Len(s) - 1 /\ Len(s) \in Nat
      /\ \A i \in 1 .. Len(s) - 1 : at(i) \in 1 .. Len(s) /\ at(i) # k /\ t[i] = s[at(i)]
      /\ \A i, j \in 1 .. Len(s) - 1 : at(i) = at(j) => i = j
      /\ \A m \in 1 .. Len(s) : m # k => \E i \in 1 .. Len(s) - 1 : at(i) = m
  <2>1. Len(s) \in Nat /\ k \in 1 .. Len(s)
    BY <1>1
  <2>2. \A i \in 1 .. Len(s) - 1 : at(i) \in 1 .. Len(s) /\ at(i) # k /\ t[i] = s[at(i)]
    BY <1>3, <2>1
  <2>3. \A i, j \in 1 .. Len(s) - 1 : at(i) = at(j) => i = j
    BY <2>1
  <2>4. ASSUME NEW m \in 1 .. Len(s), m # k
        PROVE  \E i \in 1 .. Len(s) - 1 : at(i) = m
    <3>1. CASE m < k
      <4>1. m \in 1 .. Len(s) - 1 /\ at(m) = m
        BY <2>1, <3>1
      <4> QED BY <4>1
    <3>2. CASE m > k
      <4>1. m - 1 \in 1 .. Len(s) - 1 /\ at(m - 1) = m
        BY <2>1, <3>2
      <4> QED BY <4>1
    <3> QED BY <2>1, <2>4, <3>1, <3>2
  <2>5. \A i \in 1 .. Len(s) - 1 : t[i] \in Node
    <3>1. \A m \in 1 .. Len(s) : s[m] \in Node
      <4>1. s \in Seq(Node)
        BY <1>1
      <4> QED BY ONLY <4>1
    <3> QED BY <2>2, <3>1
  <2>6. t \in Seq(Node) /\ Len(t) = Len(s) - 1
    <3>1. Len(s) - 1 \in Nat
      BY <2>1
    <3>2. t = [i \in 1 .. Len(s) - 1 |-> t[i]]
      BY <1>3
    <3> HIDE DEF t, s
    <3> QED BY <2>5, <3>1, <3>2
  <2> QED BY <2>1, <2>2, <2>3, <2>4, <2>6
<1> HIDE DEF t, at
<1>8. ToSet(t) = ToSet(s) \ {f}
  <2>1. DOMAIN t = 1 .. Len(s) - 1 /\ DOMAIN s = 1 .. Len(s)
    BY <1>1, <1>7
  <2>2. ASSUME NEW x \in ToSet(t) PROVE x \in ToSet(s) /\ x # f
    <3>1. PICK i \in 1 .. Len(s) - 1 : x = t[i]
      BY <2>1 DEF ToSet
    <3>2. at(i) \in 1 .. Len(s) /\ at(i) # k /\ x = s[at(i)]
      BY <1>7, <3>1
    <3>3. x # f
      BY <1>3, <1>5, <3>2
    <3> QED BY <2>1, <3>2, <3>3 DEF ToSet
  <2>3. ASSUME NEW x \in ToSet(s), x # f PROVE x \in ToSet(t)
    <3>1. PICK m \in 1 .. Len(s) : x = s[m]
      BY <2>1 DEF ToSet
    <3>2. m # k
      BY <1>3, <2>3, <3>1
    <3>3. PICK i \in 1 .. Len(s) - 1 : at(i) = m
      BY <1>7, <3>2
    <3>4. t[i] = x
      BY <1>7, <3>1, <3>3
    <3> QED BY <2>1, <3>4 DEF ToSet
  <2> QED BY <2>2, <2>3
<1>9. NodesTyped'
  <2>1. list' \in [Node -> Seq(Node)]
    BY <1>1, <1>7 DEF t
  <2> QED BY <1>4, <2>1 DEF NodesTyped, Typed
<1>10. Tree'
  <2>1. ASSUME NEW q \in 1 .. n, NEW i \in DOMAIN list'[q]
        PROVE  list'[q][i] \in 2 .. n /\ parent[list'[q][i]] = q
    <3>1. CASE q # p
      <4>1. list'[q] = list[q]
        BY <1>2, <3>1
      <4> QED BY <2>1, <4>1 DEF Tree
    <3>2. CASE q = p
      <4>1. i \in 1 .. Len(s) - 1 /\ list'[q][i] = s[at(i)] /\ at(i) \in 1 .. Len(s)
        BY <1>2, <1>7, <2>1, <3>2
      <4> QED BY <1>6, <3>2, <4>1
    <3> QED BY <3>1, <3>2
  <2>2. ASSUME NEW q \in 1 .. n, NEW i \in DOMAIN list'[q], NEW j \in DOMAIN list'[q],
               list'[q][i] = list'[q][j]
        PROVE  i = j
    <3>1. CASE q # p
      <4>1. list'[q] = list[q]
        BY <1>2, <3>1
      <4> QED BY <2>2, <4>1 DEF Tree
    <3>2. CASE q = p
      <4>1. /\ i \in 1 .. Len(s) - 1 /\ list'[q][i] = s[at(i)] /\ at(i) \in 1 .. Len(s)
            /\ j \in 1 .. Len(s) - 1 /\ list'[q][j] = s[at(j)] /\ at(j) \in 1 .. Len(s)
        <5>1. list'[q] = t /\ DOMAIN t = 1 .. Len(s) - 1
          BY <1>2, <1>7, <3>2
        <5>2. i \in 1 .. Len(s) - 1 /\ j \in 1 .. Len(s) - 1
          BY <5>1
        <5>3. t[i] = s[at(i)] /\ at(i) \in 1 .. Len(s)
          BY <1>7, <5>2
        <5>4. t[j] = s[at(j)] /\ at(j) \in 1 .. Len(s)
          BY <1>7, <5>2
        <5> QED BY <5>1, <5>2, <5>3, <5>4
      <4>2. at(i) = at(j)
        BY <1>5, <2>2, <4>1
      <4> QED BY <1>7, <4>1, <4>2
    <3> QED BY <3>1, <3>2
  <2> QED BY <1>4, <2>1, <2>2 DEF Tree
<1>11. f # Root /\ ~(f \in ToSet(list'[parent[f]]))
  BY <1>1, <1>2, <1>8
<1>12. ASSUME NEW g \in 1 .. n, g # f
       PROVE  Listed(g)' <=> Listed(g)
  <2>1. CASE g = Root
    BY <2>1 DEF Listed
  <2>2. CASE g # Root
    <3>1. parent[g] \in 1 .. n
      <4>1. g \in 2 .. n
        BY <1>1, <2>2
      <4>2. parent[g] \in 1 .. g - 1
        BY <4>1 DEF Tree
      <4> QED BY <1>1, <4>2
    <3>2. g \in ToSet(list'[parent[g]]) <=> g \in ToSet(list[parent[g]])
      <4>1. CASE parent[g] = p
        BY <1>2, <1>8, <1>12, <4>1
      <4>2. CASE parent[g] # p
        BY <1>2, <3>1, <4>2
      <4> QED BY <4>1, <4>2
    <3> QED BY <1>4, <2>2, <3>2 DEF Listed
  <2> QED BY <2>1, <2>2
<1> QED BY <1>4, <1>9, <1>10, <1>11, <1>12 DEF Listed
-----------------------------------------------------------------------------
(* The counters.                                                           *)

(* The inodes of a type that are in a list are finitely many.              *)
LEMMA LiveFinite ==
  ASSUME Typed, NEW t
  PROVE  IsFiniteSet(Live(t)) /\ Cardinality(Live(t)) \in Nat
<1>1. n \in Nat
  BY DEF Typed
<1>2. IsFiniteSet(1 .. n)
  BY <1>1, FS_Interval
<1>3. Live(t) \subseteq 1 .. n
  BY DEF Live
<1>4. IsFiniteSet(Live(t))
  BY <1>2, <1>3, FS_Subset
<1> QED BY <1>4, FS_CardinalityType

(* A new inode adds one to the number of its type.                         *)
LEMMA AddCounts ==
  ASSUME RamfsAssumption, Typed, Tree, NEW nm \in Name,
         NEW ty \in {"FILE", "DIR", "SYMLINK"}, NEW p \in 1 .. n, AddNode(nm, ty, p), NEW t
  PROVE  Cardinality(Live(t))' =
           IF t = ty THEN Cardinality(Live(t)) + 1 ELSE Cardinality(Live(t))
<1> DEFINE new == n + 1
<1>1. /\ \A f \in 1 .. n : (Listed(f)' <=> Listed(f)) /\ type'[f] = type[f]
      /\ \A f : f = n + 1 => Listed(f)' /\ type'[f] = ty
  BY AddKeepsTree
<1>2. n' = n + 1 /\ n \in Nat
  BY DEF AddNode, Typed
<1>3. CASE t = ty
  <2>1. Live(t)' = Live(t) \cup {new}
    BY <1>1, <1>2, <1>3 DEF Live
  <2>2. new \notin Live(t)
    BY <1>2 DEF Live
  <2> HIDE DEF new
  <2> QED BY <1>3, <2>1, <2>2, LiveFinite, FS_AddElement
<1>4. CASE t # ty
  <2>1. Live(t)' = Live(t)
    BY <1>1, <1>2, <1>4 DEF Live
  <2> QED BY <1>4, <2>1
<1> QED BY <1>3, <1>4

(* An inode that leaves its list takes one from the number of its type.    *)
LEMMA CutCounts ==
  ASSUME RamfsAssumption, Typed, Tree, NEW f \in 2 .. n, f \in ToSet(list[parent[f]]),
         list' = [list EXCEPT ![parent[f]] = Unlinked(@, f)],
         UNCHANGED <<n, name, type, parent>>, NEW t
  PROVE  Cardinality(Live(t))' =
           IF t = type[f] THEN Cardinality(Live(t)) - 1 ELSE Cardinality(Live(t))
<1>1. /\ ~Listed(f)'
      /\ \A g \in 1 .. n : g # f => (Listed(g)' <=> Listed(g))
  BY CutKeepsTree
<1>2. n' = n /\ type' = type /\ n \in Nat /\ f \in 1 .. n
  BY DEF Typed
<1>3. Listed(f)
  BY DEF Listed
<1>4. CASE t = type[f]
  <2>1. Live(t)' = Live(t) \ {f}
    BY <1>1, <1>2 DEF Live
  <2>2. f \in Live(t)
    BY <1>2, <1>3, <1>4 DEF Live
  <2>3. PICK live, after : live = Live(t) /\ after = Live(t)'
    OBVIOUS
  <2>4. Cardinality(live \ {f}) = Cardinality(live) - 1
    <3>1. IsFiniteSet(live) /\ f \in live
      BY <2>2, <2>3, LiveFinite
    <3> QED BY <3>1, FS_RemoveElement
  <2>5. Cardinality(after) = Cardinality(live) - 1
    BY <2>1, <2>3, <2>4
  <2> QED BY <1>4, <2>3, <2>5
<1>5. CASE t # type[f]
  <2>1. Live(t)' = Live(t)
    BY <1>1, <1>2, <1>5 DEF Live
  <2> QED BY <1>5, <2>1
<1> QED BY <1>4, <1>5

-----------------------------------------------------------------------------
(* The contents.                                                           *)

(* A new inode is empty, and the contents of the others stay.              *)
LEMMA AddKeepsData ==
  ASSUME RamfsAssumption, Typed, Handles, PositionInFile, NoJunk, NEW nm \in Name,
         NEW ty \in {"FILE", "DIR", "SYMLINK"}, NEW p \in 1 .. n, AddNode(nm, ty, p)
  PROVE  /\ data' \in [Node -> Seq(Byte \cup {JUNK})] /\ size' \in [Node -> Nat]
         /\ \A f \in 1 .. n : data'[f] = data[f] /\ size'[f] = size[f]
         /\ NoJunk'
<1>1. /\ n \in 3 .. MAX_NODES - 1 /\ n' = n + 1 /\ MAX_NODES \in Nat
      /\ data' = [data EXCEPT ![n + 1] = << >>]
      /\ size' = [size EXCEPT ![n + 1] = 0]
      /\ data \in [Node -> Seq(Byte \cup {JUNK})] /\ size \in [Node -> Nat]
  BY DEF AddNode, Typed, RamfsAssumption
<1>2. \A f \in 1 .. n + 1 : f \in Node
  BY <1>1 DEF Node
<1>3. data' \in [Node -> Seq(Byte \cup {JUNK})] /\ size' \in [Node -> Nat]
  <2>1. << >> \in Seq(Byte \cup {JUNK}) /\ 0 \in Nat
    OBVIOUS
  <2>2. data' \in [Node -> Seq(Byte \cup {JUNK})]
    BY <1>1, <2>1
  <2>3. size' \in [Node -> Nat]
    BY <1>1, <2>1
  <2> QED BY <2>2, <2>3
<1>4. \A f \in 1 .. n : data'[f] = data[f] /\ size'[f] = size[f]
  BY <1>1, <1>2
<1>5. data'[n + 1] = << >> /\ size'[n + 1] = 0
  BY <1>1, <1>2
<1>6. NoJunk'
  <2> SUFFICES ASSUME NEW f \in 1 .. n + 1
               PROVE  /\ size'[f] <= Len(data'[f])
                      /\ \A i \in 1 .. size'[f] : data'[f][i] # JUNK
    BY <1>1 DEF NoJunk, data_size
  <2>1. CASE f = n + 1
    BY <1>5, <2>1
  <2>2. CASE f \in 1 .. n
    BY <1>4, <2>2 DEF NoJunk, data_size
  <2> QED BY <1>1, <2>1, <2>2
<1> QED BY <1>3, <1>4, <1>6
-----------------------------------------------------------------------------
(* The invariant, call by call.                                            *)

(* Two things are two.                                                     *)
LEMMA PairCounts ==
  ASSUME NEW a, NEW b, a # b
  PROVE  Cardinality({a, b}) = 2
<1>1. IsFiniteSet({a}) /\ Cardinality({a}) = 1
  BY FS_Singleton
<1>2. b \notin {a} /\ {a, b} = {a} \cup {b}
  OBVIOUS
<1>3. Cardinality({a} \cup {b}) = Cardinality({a}) + 1
  BY <1>1, <1>2, FS_AddElement
<1> QED BY <1>1, <1>2, <1>3

(* The default structure.                                                  *)
LEMMA InvInit == RamfsAssumption /\ Init => Inv
<1> SUFFICES ASSUME RamfsAssumption, Init
             PROVE  Inv
  OBVIOUS
<1> USE DEF NIL, Root
<1>1. /\ n = 3 /\ MAX_NODES \in Nat /\ MAX_NODES >= 3 /\ Node = 1 .. MAX_NODES
      /\ 1 \in Node /\ 2 \in Node /\ 3 \in Node
  BY DEF Init, RamfsAssumption, Node
<1>2. /\ name = [f \in Node |-> IF f = 3 THEN HOST ELSE ETC]
      /\ type = [f \in Node |-> IF f = 3 THEN "FILE" ELSE "DIR"]
      /\ parent = [f \in Node |-> IF f = 3 THEN 2 ELSE IF f = 2 THEN Root ELSE NIL]
      /\ list = [f \in Node |-> IF f = Root THEN <<2>> ELSE IF f = 2 THEN <<3>> ELSE << >>]
      /\ data = [f \in Node |-> IF f = 3 THEN Hostname ELSE << >>]
      /\ size = [f \in Node |-> Len(data[f])]
  BY DEF Init
<1>3. Typed
  <2>1. name \in [Node -> Name] /\ type \in [Node -> {"FILE", "DIR", "SYMLINK"}]
    BY <1>2 DEF RamfsAssumption
  <2>2. parent \in [Node -> 0 .. MAX_NODES]
    BY <1>1, <1>2
  <2>3. list \in [Node -> Seq(Node)]
    <3>1. <<2>> \in Seq(Node) /\ <<3>> \in Seq(Node) /\ << >> \in Seq(Node)
      BY <1>1
    <3> QED BY <1>2, <3>1
  <2>4. data \in [Node -> Seq(Byte \cup {JUNK})]
    <3>1. Hostname \in Seq(Byte \cup {JUNK}) /\ << >> \in Seq(Byte \cup {JUNK})
      BY DEF RamfsAssumption
    <3> QED BY <1>2, <3>1
  <2>5. size \in [Node -> Nat]
    <3>1. \A f \in Node : Len(data[f]) \in Nat
      BY <2>4
    <3> QED BY <1>2, <3>1
  <2>6. n \in 3 .. MAX_NODES /\ used \in Int /\ files \in Int /\ dirs \in Int
    BY <1>1 DEF Init
  <2>7. open \subseteq Handle /\ node \in [Handle -> Node] /\ pos \in [Handle -> Nat]
    BY <1>1 DEF Init
  <2> QED BY <2>1, <2>2, <2>3, <2>4, <2>5, <2>6, <2>7 DEF Typed
<1>4. /\ parent[1] = 0 /\ parent[2] = 1 /\ parent[3] = 2
      /\ list[1] = <<2>> /\ list[2] = <<3>> /\ list[3] = << >>
      /\ type[1] = "DIR" /\ type[2] = "DIR" /\ type[3] = "FILE"
  BY <1>1, <1>2
<1>5. \A f \in 1 .. n : f = 1 \/ f = 2 \/ f = 3
  BY <1>1
<1>6. Tree
  BY <1>1, <1>4, <1>5 DEF Tree
<1>7. \A f \in 1 .. n : Listed(f)
  BY <1>4, <1>5 DEF Listed, ToSet
<1>8. Counted
  <2>1. Live("FILE") = {3} /\ Live("DIR") = {1, 2}
    BY <1>1, <1>4, <1>5, <1>7 DEF Live
  <2>2. Cardinality({3}) = 1
    BY FS_Singleton
  <2>3. Cardinality({1, 2}) = 2
    <3>1. 1 # 2
      OBVIOUS
    <3> QED BY <3>1, PairCounts, Zenon
  <2> QED BY <2>1, <2>2, <2>3 DEF Counted, Init
<1>9. Handles /\ PositionInFile
  BY <1>1 DEF Handles, PositionInFile, Init
<1>10. NoJunk
  <2>1. \A i \in 1 .. Len(Hostname) : Hostname[i] # JUNK
    BY DEF RamfsAssumption
  <2>2. data[1] = << >> /\ data[2] = << >> /\ data[3] = Hostname
    BY <1>1, <1>2
  <2>3. \A f \in 1 .. n : size[f] = Len(data[f])
    BY <1>1, <1>2, <1>5
  <2> QED BY <1>5, <2>1, <2>2, <2>3 DEF NoJunk, data_size
<1> QED BY <1>3, <1>6, <1>8, <1>9, <1>10 DEF Inv

(* A call that makes an inode, of whichever type, and counts it.           *)
LEMMA AddKeepsInv ==
  ASSUME RamfsAssumption, Inv, NEW path \in Path, NEW ty \in {"FILE", "DIR", "SYMLINK"},
         DirOf(path) # NIL, AddNode(Last(path), ty, DirOf(path)),
         files' = IF ty = "FILE" THEN files + 1 ELSE files,
         dirs' = IF ty = "DIR" THEN dirs + 1 ELSE dirs,
         used' = used,
         open' \subseteq Handle, node' \in [Handle -> 1 .. n + 1], pos' \in [Handle -> Nat],
         \A h \in open' : \/ h \in open /\ node'[h] = node[h] /\ pos'[h] = pos[h]
                          \/ pos'[h] = 0
  PROVE  Inv'
<1>1. Typed /\ Tree /\ Counted /\ Handles /\ PositionInFile /\ NoJunk
  BY DEF Inv
<1>2. DirOf(path) \in 1 .. n /\ Last(path) \in Name /\ n \in Nat /\ n' = n + 1
  <2>1. DirOf(path) \in 0 .. n /\ n \in Nat
    BY <1>1, FoundIsListed DEF Typed
  <2> QED BY <2>1, PathIsSeq DEF NIL, AddNode
<1>3. NodesTyped' /\ Tree'
  BY <1>1, <1>2, AddKeepsTree
<1>4. /\ data' \in [Node -> Seq(Byte \cup {JUNK})] /\ size' \in [Node -> Nat]
      /\ \A f \in 1 .. n : data'[f] = data[f] /\ size'[f] = size[f]
      /\ NoJunk'
  BY <1>1, <1>2, AddKeepsData
<1>5. Typed'
  <2>1. \A f \in 1 .. n + 1 : f \in Node
    BY <1>2, <1>3 DEF NodesTyped, Node, RamfsAssumption
  <2>2. node' \in [Handle -> Node]
    BY <2>1
  <2>3. used' \in Int /\ files' \in Int /\ dirs' \in Int
    BY <1>1 DEF Typed
  <2> QED BY <1>3, <1>4, <2>2, <2>3 DEF Typed, NodesTyped
<1>6. Counted'
  <2>1. /\ Cardinality(Live("FILE"))' = IF "FILE" = ty THEN Cardinality(Live("FILE")) + 1
                                                       ELSE Cardinality(Live("FILE"))
        /\ Cardinality(Live("DIR"))' = IF "DIR" = ty THEN Cardinality(Live("DIR")) + 1
                                                     ELSE Cardinality(Live("DIR"))
    BY <1>1, <1>2, AddCounts
  <2> QED BY <1>1, <2>1 DEF Counted
<1>7. Handles'
  BY <1>2 DEF Handles
<1>8. PositionInFile'
  <2> SUFFICES ASSUME NEW h \in open'
               PROVE  pos'[h] <= size'[node'[h]]
    BY DEF PositionInFile
  <2>1. CASE h \in open /\ node'[h] = node[h] /\ pos'[h] = pos[h]
    <3>1. node[h] \in 1 .. n
      BY <1>1 DEF Handles
    <3> QED BY <1>1, <1>4, <2>1, <3>1 DEF PositionInFile
  <2>2. CASE pos'[h] = 0
    <3>1. size'[node'[h]] \in Nat
      BY <1>4, <1>5 DEF Typed
    <3> QED BY <2>2, <3>1
  <2> QED BY <2>1, <2>2
<1> QED BY <1>3, <1>4, <1>5, <1>6, <1>7, <1>8 DEF Inv
(* The calls on files touch neither the tree nor the counters.             *)
LEMMA TreeUntouched ==
  ASSUME Typed, Tree, Counted, UNCHANGED <<nodeVars, files, dirs>>
  PROVE  NodesTyped' /\ Tree' /\ Counted' /\ files' \in Int /\ dirs' \in Int
<1>1. /\ n' = n /\ name' = name /\ type' = type /\ parent' = parent /\ list' = list
      /\ files' = files /\ dirs' = dirs
  BY DEF nodeVars
<1>2. NodesTyped'
  BY <1>1 DEF NodesTyped, Typed
<1>3. Tree'
  BY <1>1 DEF Tree
<1>4. Counted'
  BY <1>1 DEF Counted, Live, Listed
<1> QED BY <1>1, <1>2, <1>3, <1>4 DEF Typed

(* A delete takes an inode out of its list, and leaves its contents to the *)
(* files that are open on it.                                              *)
LEMMA DeleteKeepsInv ==
  ASSUME RamfsAssumption, Inv, NEW path \in Path, ramfs_delete(path)
  PROVE  Inv'
<1> DEFINE f == find_inode(path)
<1>1. /\ Typed /\ Tree /\ Counted /\ Handles /\ PositionInFile /\ NoJunk
      /\ n \in Nat /\ WIDTH \in Nat \ {0}
  BY DEF Inv, Typed, RamfsAssumption
<1>2. /\ f # NIL
      /\ list' = [list EXCEPT ![parent[f]] = Unlinked(@, f)]
      /\ used' = (used - data_size(f)) % WIDTH
      /\ files' = IF type[f] = "FILE" THEN files - 1 ELSE files
      /\ dirs' = IF type[f] = "DIR" THEN dirs - 1 ELSE dirs
      /\ UNCHANGED <<n, name, type, parent>>
      /\ UNCHANGED dataVars /\ UNCHANGED fileVars
  BY DEF ramfs_delete
<1>3. f \in 2 .. n /\ f \in ToSet(list[parent[f]])
  BY <1>1, <1>2, FoundIsListed
<1> HIDE DEF f
<1>4. NodesTyped' /\ Tree'
  BY <1>1, <1>2, <1>3, CutKeepsTree
<1>5. Counted'
  <2>1. /\ Cardinality(Live("FILE"))' = IF "FILE" = type[f] THEN Cardinality(Live("FILE")) - 1
                                                            ELSE Cardinality(Live("FILE"))
        /\ Cardinality(Live("DIR"))' = IF "DIR" = type[f] THEN Cardinality(Live("DIR")) - 1
                                                          ELSE Cardinality(Live("DIR"))
    BY <1>1, <1>2, <1>3, CutCounts
  <2> QED BY <1>1, <1>2, <2>1 DEF Counted
<1>6. used' \in Int /\ files' \in Int /\ dirs' \in Int
  <2>1. f \in Node
    BY <1>1, <1>3 DEF Typed, Node, RamfsAssumption
  <2>2. used - data_size(f) \in Int
    BY <1>1, <2>1 DEF data_size, Typed
  <2>3. used' \in 0 .. WIDTH - 1
    BY <1>1, <1>2, <2>2, ModRange
  <2> QED BY <1>1, <1>2, <2>3 DEF Typed
<1>7. Typed'
  BY <1>1, <1>2, <1>4, <1>6 DEF Typed, NodesTyped, dataVars, fileVars
<1>8. Handles' /\ PositionInFile' /\ NoJunk'
  BY <1>1, <1>2 DEF Handles, PositionInFile, NoJunk, data_size, dataVars, fileVars
<1> QED BY <1>4, <1>5, <1>7, <1>8 DEF Inv

(* Opening hands out an inode that is there, or makes one, at position 0.  *)
LEMMA OpenKeepsInv ==
  ASSUME RamfsAssumption, Inv, NEW h \in Handle \cup {NIL}, NEW path \in Path,
         NEW creat \in BOOLEAN, ramfs_open(h, path, creat)
  PROVE  Inv'
<1>1. /\ Typed /\ Tree /\ Counted /\ Handles /\ PositionInFile /\ NoJunk
      /\ open \subseteq Handle /\ node \in [Handle -> Node] /\ pos \in [Handle -> Nat]
      /\ n \in 3 .. MAX_NODES /\ MAX_NODES \in Nat /\ size \in [Node -> Nat]
  BY DEF Inv, Typed, RamfsAssumption
<1>2. node \in [Handle -> 1 .. n]
  BY <1>1 DEF Handles
<1>3. CASE /\ find_inode(path) # NIL /\ h # NIL
           /\ Opened(h, find_inode(path))
           /\ UNCHANGED <<nodeVars, dataVars, countVars>>
  <2> DEFINE f == find_inode(path)
  <2>1. f \in 1 .. n /\ f \in Node /\ h \in Handle
    <3>1. f \in 2 .. n
      BY <1>1, <1>3, FoundIsListed
    <3> QED BY <1>1, <1>3, <3>1 DEF Node
  <2>2. /\ open' = open \cup {h}
        /\ node' = [node EXCEPT ![h] = f]
        /\ pos' = [pos EXCEPT ![h] = 0]
        /\ UNCHANGED <<nodeVars, dataVars, countVars>>
    BY <1>3 DEF Opened
  <2> HIDE DEF f
  <2>3. NodesTyped' /\ Tree' /\ Counted' /\ files' \in Int /\ dirs' \in Int
    BY <1>1, <2>2, TreeUntouched DEF countVars
  <2>4. /\ open' \subseteq Handle /\ node' \in [Handle -> Node]
        /\ pos' \in [Handle -> Nat]
    BY <1>1, <2>1, <2>2
  <2>5. Typed'
    BY <1>1, <2>2, <2>3, <2>4 DEF Typed, NodesTyped, dataVars, countVars
  <2>6. Handles'
    BY <1>1, <2>1, <2>2 DEF Handles, nodeVars
  <2>7. PositionInFile'
    <3>1. \A g \in Handle : size[node'[g]] \in Nat
      BY <1>1, <2>4
    <3> QED BY <1>1, <2>1, <2>2, <3>1 DEF PositionInFile, dataVars
  <2>8. NoJunk'
    BY <1>1, <2>2 DEF NoJunk, data_size, dataVars, nodeVars
  <2> QED BY <2>3, <2>5, <2>6, <2>7, <2>8 DEF Inv
<1>4. CASE /\ CreateFile(path)
           /\ IF h # NIL THEN Opened(h, n + 1) ELSE UNCHANGED fileVars
  <2>1. /\ DirOf(path) # NIL /\ AddNode(Last(path), "FILE", DirOf(path))
        /\ files' = files + 1 /\ dirs' = dirs /\ used' = used
    BY <1>4 DEF CreateFile, IsDir
  <2>2. /\ open' \subseteq Handle
        /\ node' \in [Handle -> 1 .. n + 1]
        /\ pos' \in [Handle -> Nat]
        /\ \A g \in open' : \/ g \in open /\ node'[g] = node[g] /\ pos'[g] = pos[g]
                            \/ pos'[g] = 0
    <3>1. CASE h = NIL
      BY <1>1, <1>2, <1>4, <3>1 DEF fileVars
    <3>2. CASE h # NIL
      <4>1. /\ h \in Handle /\ open' = open \cup {h}
            /\ node' = [node EXCEPT ![h] = n + 1]
            /\ pos' = [pos EXCEPT ![h] = 0]
        BY <1>4, <3>2 DEF Opened
      <4> QED BY <1>1, <1>2, <4>1
    <3> QED BY <3>1, <3>2
  <2> QED BY <2>1, <2>2, AddKeepsInv
<1> QED BY <1>3, <1>4 DEF ramfs_open
(* The other ways to make an inode.                                        *)
LEMMA CreateKeepsInv ==
  ASSUME RamfsAssumption, Inv, NEW path \in Path,
         \/ ramfs_create_file(path)
         \/ ramfs_create_dir(path)
         \/ ramfs_create_symlink(path)
  PROVE  Inv'
<1> DEFINE Adds(ty) == /\ DirOf(path) # NIL /\ AddNode(Last(path), ty, DirOf(path))
                       /\ files' = IF ty = "FILE" THEN files + 1 ELSE files
                       /\ dirs' = IF ty = "DIR" THEN dirs + 1 ELSE dirs
                       /\ used' = used /\ UNCHANGED fileVars
<1>1. ASSUME NEW ty \in {"FILE", "DIR", "SYMLINK"}, Adds(ty)
      PROVE  Inv'
  <2>1. open \subseteq Handle /\ node \in [Handle -> 1 .. n + 1] /\ pos \in [Handle -> Nat]
    <3>1. \A h \in Handle : node[h] \in 1 .. n + 1
      BY DEF Inv, Typed, Handles
    <3> QED BY <3>1 DEF Inv, Typed
  <2> QED BY <1>1, <2>1, AddKeepsInv DEF fileVars
<1>2. Adds("FILE") \/ Adds("DIR") \/ Adds("SYMLINK")
  BY DEF ramfs_create_file, ramfs_create_dir, ramfs_create_symlink, CreateFile, IsDir, countVars,
         fileVars
<1> HIDE DEF Adds
<1> QED BY <1>1, <1>2

(* Closing a file.                                                         *)
LEMMA CloseKeepsInv ==
  ASSUME RamfsAssumption, Inv, NEW h \in Handle, ramfs_close(h)
  PROVE  Inv'
<1>1. /\ Typed /\ Tree /\ Counted /\ Handles /\ PositionInFile /\ NoJunk
      /\ n \in 3 .. MAX_NODES /\ MAX_NODES \in Nat /\ Root \in 1 .. n /\ Root \in Node
  <2>1. n \in 3 .. MAX_NODES /\ MAX_NODES \in Nat
    BY DEF Inv, Typed, RamfsAssumption
  <2>2. Root \in 1 .. n /\ Root \in Node
    BY <2>1 DEF Root, Node
  <2> QED BY <2>1, <2>2 DEF Inv
<1>2. /\ open' = open \ {h}
      /\ node' = [node EXCEPT ![h] = Root]
      /\ pos' = [pos EXCEPT ![h] = 0]
      /\ UNCHANGED <<nodeVars, dataVars, countVars>>
  BY DEF ramfs_close
<1>3. NodesTyped' /\ Tree' /\ Counted' /\ files' \in Int /\ dirs' \in Int
  BY <1>1, <1>2, TreeUntouched DEF countVars
<1>4. open' \subseteq Handle /\ node' \in [Handle -> Node] /\ pos' \in [Handle -> Nat]
  BY <1>1, <1>2 DEF Typed
<1>5. Typed'
  BY <1>1, <1>2, <1>3, <1>4 DEF Typed, NodesTyped, dataVars, countVars
<1>6. Handles'
  BY <1>1, <1>2 DEF Handles, nodeVars, Typed
<1>7. PositionInFile'
  BY <1>1, <1>2 DEF PositionInFile, dataVars, Typed
<1>8. NoJunk'
  BY <1>1, <1>2 DEF NoJunk, data_size, dataVars, nodeVars
<1> QED BY <1>3, <1>5, <1>6, <1>7, <1>8 DEF Inv

(* A file's position moves to a place that is not beyond the end.          *)
LEMMA MoveKeepsInv ==
  ASSUME RamfsAssumption, Inv, NEW h \in Handle, NEW q \in Nat, q <= size[node[h]],
         pos' = [pos EXCEPT ![h] = q],
         UNCHANGED <<nodeVars, dataVars, countVars, open, node>>
  PROVE  Inv'
<1>1. Typed /\ Tree /\ Counted /\ Handles /\ PositionInFile /\ NoJunk
  BY DEF Inv
<1>2. NodesTyped' /\ Tree' /\ Counted' /\ files' \in Int /\ dirs' \in Int
  BY <1>1, TreeUntouched DEF countVars
<1>3. Typed'
  BY <1>1, <1>2 DEF Typed, NodesTyped, dataVars, countVars
<1>4. Handles'
  BY <1>1 DEF Handles, nodeVars
<1>5. PositionInFile'
  BY <1>1 DEF PositionInFile, dataVars, Typed
<1>6. NoJunk'
  BY <1>1 DEF NoJunk, data_size, dataVars, nodeVars
<1> QED BY <1>2, <1>3, <1>4, <1>5, <1>6 DEF Inv

(* A read stays in the file: what it takes for available really is, the    *)
(* subtraction does not wrap.                                              *)
LEMMA ReadKeepsInv ==
  ASSUME RamfsAssumption, Inv, NEW h \in Handle, NEW k \in Counts, ramfs_read(h, k)
  PROVE  Inv'
<1> DEFINE f == node[h]
           left == size[f] - pos[h]
           available == left % WIDTH
           got == Smaller(k, available)
<1>1. /\ h \in open /\ pos' = [pos EXCEPT ![h] = @ + got]
      /\ UNCHANGED <<nodeVars, dataVars, countVars, open, node>>
  BY DEF ramfs_read
<1>2. pos[h] \in Nat /\ size[f] \in Nat /\ pos[h] <= size[f] /\ k \in Nat /\ WIDTH \in Nat \ {0}
  BY <1>1 DEF Inv, Typed, PositionInFile, RamfsAssumption
<1>3. left \in Nat
  BY <1>2
<1> HIDE DEF left
<1>4. available \in Nat /\ available <= left
  BY <1>2, <1>3
<1> HIDE DEF available
<1>5. got \in Nat /\ got <= left
  BY <1>2, <1>3, <1>4 DEF Smaller
<1>6. pos[h] + got \in Nat /\ pos[h] + got <= size[f]
  BY <1>2, <1>5 DEF left
<1>7. pos' = [pos EXCEPT ![h] = pos[h] + got]
  BY <1>1
<1> HIDE DEF got, f
<1> QED BY <1>1, <1>6, <1>7, MoveKeepsInv DEF f

(* A seek goes at most to the end.                                         *)
LEMMA SeekKeepsInv ==
  ASSUME RamfsAssumption, Inv, NEW h \in Handle, NEW k \in Counts, ramfs_seek(h, k)
  PROVE  Inv'
<1>1. k \in Nat /\ k <= size[node[h]]
  BY DEF ramfs_seek, SeekAllowed, RamfsAssumption
<1> QED BY <1>1, MoveKeepsInv DEF ramfs_seek

(* What a write leaves in the block it wrote to.                           *)
LEMMA WriteIs ==
  ASSUME RamfsAssumption, Inv, NEW h \in Handle, NEW buf \in Buffers, ramfs_write(h, buf)
  PROVE  LET f == node[h]
             new_size == pos[h] + Len(buf)
             len == Larger(new_size, Len(data[f]))
             block == data'[f]
         IN  /\ h \in open /\ pos'[h] = new_size
             /\ data' = [data EXCEPT ![f] = block]
             /\ block \in Seq(Byte \cup {JUNK}) /\ Len(block) = len
             /\ \A i \in 1 .. len :
                  block[i] = IF i > pos[h] /\ i <= new_size THEN buf[i - pos[h]]
                             ELSE IF i <= Len(data[f]) THEN data[f][i] ELSE JUNK
<1> DEFINE f == node[h]
           new_size == pos[h] + Len(buf)
           len == Larger(new_size, Len(data[f]))
           grown == Grown(f, new_size)
           new == [i \in DOMAIN grown |->
                     IF i > pos[h] /\ i <= new_size THEN buf[i - pos[h]] ELSE grown[i]]
<1>1. /\ h \in open /\ data' = [data EXCEPT ![f] = new] /\ pos' = [pos EXCEPT ![h] = new_size]
  BY DEF ramfs_write
<1>2. /\ pos \in [Handle -> Nat] /\ f \in Node /\ pos[h] \in Nat
      /\ data \in [Node -> Seq(Byte \cup {JUNK})]
      /\ data[f] \in Seq(Byte \cup {JUNK}) /\ Len(data[f]) \in Nat
      /\ buf \in Seq(Byte) /\ Len(buf) \in Nat
  BY DEF Inv, Typed, RamfsAssumption
<1>3. len \in Nat /\ new_size \in Nat /\ new_size <= len /\ Len(data[f]) <= len
  BY <1>2 DEF Larger
<1>4. /\ DOMAIN grown = 1 .. len
      /\ \A i \in 1 .. len : grown[i] = IF i <= Len(data[f]) THEN data[f][i] ELSE JUNK
  BY DEF Grown, data_size
<1> HIDE DEF grown
<1>5. /\ DOMAIN new = 1 .. len
      /\ \A i \in 1 .. len :
           new[i] = IF i > pos[h] /\ i <= new_size THEN buf[i - pos[h]]
                    ELSE IF i <= Len(data[f]) THEN data[f][i] ELSE JUNK
  BY <1>4
<1>6. \A i \in 1 .. len : new[i] \in Byte \cup {JUNK}
  <2> SUFFICES ASSUME NEW i \in 1 .. len
               PROVE  new[i] \in Byte \cup {JUNK}
    OBVIOUS
  <2> HIDE DEF new
  <2>1. CASE i > pos[h] /\ i <= new_size
    <3>1. i - pos[h] \in 1 .. Len(buf)
      BY <1>2, <2>1
    <3>2. buf[i - pos[h]] \in Byte
      BY <1>2, <3>1
    <3> QED BY <1>5, <2>1, <3>2
  <2>2. CASE ~(i > pos[h] /\ i <= new_size) /\ i <= Len(data[f])
    <3>1. i \in 1 .. Len(data[f])
      BY <1>2, <1>3, <2>2
    <3>2. data[f][i] \in Byte \cup {JUNK}
      BY <1>2, <3>1
    <3> QED BY <1>5, <2>2, <3>2
  <2>3. CASE ~(i > pos[h] /\ i <= new_size) /\ ~(i <= Len(data[f]))
    BY <1>5, <2>3
  <2> QED BY <2>1, <2>2, <2>3
<1>7. new \in Seq(Byte \cup {JUNK}) /\ Len(new) = len
  <2>1. new = [i \in 1 .. len |-> new[i]]
    BY <1>5
  <2> HIDE DEF new, len
  <2>2. new \in [1 .. len -> Byte \cup {JUNK}]
    BY <1>6, <2>1
  <2> QED BY <1>3, <2>2
<1> HIDE DEF new, len, f, new_size
<1>8. data'[f] = new /\ pos'[h] = new_size
  BY <1>1, <1>2
<1> QED BY <1>1, <1>5, <1>7, <1>8 DEF len, f, new_size
(* A write fills the file from its position on, and no gap opens before    *)
(* it, because the position was not beyond the end.                        *)
LEMMA WriteKeepsInv ==
  ASSUME RamfsAssumption, Inv, NEW h \in Handle, NEW buf \in Buffers, ramfs_write(h, buf)
  PROVE  Inv'
<1> DEFINE f == node[h]
           new_size == pos[h] + Len(buf)
           len == Larger(new_size, Len(data[f]))
           block == data'[f]
<1>1. /\ Typed /\ Tree /\ Counted /\ Handles /\ PositionInFile /\ NoJunk
      /\ f \in Node /\ f \in 1 .. n /\ pos[h] \in Nat /\ size[f] \in Nat
      /\ data \in [Node -> Seq(Byte \cup {JUNK})] /\ size \in [Node -> Nat]
      /\ data[f] \in Seq(Byte \cup {JUNK}) /\ Len(data[f]) \in Nat
      /\ buf \in Seq(Byte) /\ Len(buf) \in Nat /\ WIDTH \in Nat \ {0}
      /\ pos \in [Handle -> Nat]
  <2>1. Typed /\ Tree /\ Counted /\ Handles /\ PositionInFile /\ NoJunk
    BY DEF Inv
  <2>2. /\ data \in [Node -> Seq(Byte \cup {JUNK})] /\ size \in [Node -> Nat]
        /\ pos \in [Handle -> Nat] /\ node \in [Handle -> Node] /\ f \in Node
    BY <2>1 DEF Typed
  <2>3. h \in open
    BY DEF ramfs_write
  <2>4. f \in 1 .. n
    BY <2>1, <2>3 DEF Handles
  <2>5. buf \in Seq(Byte) /\ Len(buf) \in Nat /\ WIDTH \in Nat \ {0}
    BY DEF RamfsAssumption
  <2>6. data[f] \in Seq(Byte \cup {JUNK}) /\ Len(data[f]) \in Nat
    BY <2>2
  <2> QED BY <2>1, <2>2, <2>4, <2>5, <2>6
<1>2. /\ h \in open /\ pos'[h] = new_size
      /\ data' = [data EXCEPT ![f] = block]
      /\ block \in Seq(Byte \cup {JUNK}) /\ Len(block) = len
      /\ \A i \in 1 .. len :
           block[i] = IF i > pos[h] /\ i <= new_size THEN buf[i - pos[h]]
                      ELSE IF i <= Len(data[f]) THEN data[f][i] ELSE JUNK
  BY WriteIs
<1>3. /\ used' = IF new_size > data_size(f) THEN (used + Len(buf)) % WIDTH ELSE used
      /\ pos' = [pos EXCEPT ![h] = new_size]
      /\ size' = [size EXCEPT ![f] = IF new_size > @ THEN new_size ELSE @]
      /\ UNCHANGED <<nodeVars, files, dirs, open, node>>
  BY DEF ramfs_write
<1>4. /\ pos[h] <= size[f] /\ size[f] <= Len(data[f])
      /\ \A i \in 1 .. size[f] : data[f][i] # JUNK
  BY <1>1, <1>2 DEF PositionInFile, NoJunk, data_size
<1>5. /\ new_size \in Nat /\ len \in Nat /\ new_size <= len /\ Len(data[f]) <= len
  BY <1>1 DEF Larger
<1> DEFINE size_f == IF new_size > size[f] THEN new_size ELSE size[f]
<1>6. size' = [size EXCEPT ![f] = size_f] /\ size_f \in Nat /\ size_f <= len
  BY <1>1, <1>3, <1>4, <1>5
<1>7. ASSUME NEW i \in 1 .. size_f
      PROVE  block[i] # JUNK
  <2>1. i \in 1 .. len
    <3> HIDE DEF size_f, len
    <3> QED BY <1>5, <1>6
  <2>2. CASE i > pos[h] /\ i <= new_size
    <3>1. i - pos[h] \in 1 .. Len(buf)
      BY <1>1, <2>2
    <3>2. buf[i - pos[h]] \in Byte
      BY <1>1, <3>1
    <3> QED BY <1>2, <2>1, <2>2, <3>2 DEF RamfsAssumption
  <2>3. CASE ~(i > pos[h] /\ i <= new_size)
    <3>1. i \in 1 .. size[f] /\ i <= Len(data[f])
      BY <1>1, <1>4, <1>5, <2>3
    <3> QED BY <1>2, <1>4, <2>1, <2>3, <3>1
  <2> QED BY <2>2, <2>3
<1> HIDE DEF size_f, len, new_size, block, f
<1>8. NodesTyped' /\ Tree' /\ Counted' /\ files' \in Int /\ dirs' \in Int
  BY <1>1, <1>3, TreeUntouched
<1>9. used' \in Int
  <2>1. used \in Int /\ used + Len(buf) \in Int
    BY <1>1 DEF Typed
  <2>2. (used + Len(buf)) % WIDTH \in 0 .. WIDTH - 1
    BY <1>1, <2>1, ModRange
  <2> QED BY <1>3, <2>1, <2>2
<1>10. Typed'
  <2>1. data' \in [Node -> Seq(Byte \cup {JUNK})]
    BY <1>1, <1>2
  <2>2. size' \in [Node -> Nat] /\ pos' \in [Handle -> Nat]
    BY <1>1, <1>3, <1>5, <1>6
  <2>3. open' \subseteq Handle /\ node' \in [Handle -> Node]
    BY <1>1, <1>3 DEF Typed
  <2> QED BY <1>8, <1>9, <2>1, <2>2, <2>3 DEF Typed, NodesTyped
<1>11. Handles'
  BY <1>1, <1>3 DEF Handles, nodeVars
<1>12. PositionInFile'
  <2> SUFFICES ASSUME NEW g \in open
               PROVE  pos'[g] <= size'[node[g]]
    BY <1>3 DEF PositionInFile
  <2>1. g \in Handle /\ node[g] \in Node /\ size[node[g]] \in Nat /\ pos[g] <= size[node[g]]
    BY <1>1 DEF Typed, PositionInFile
  <2>2. size[f] <= size_f /\ new_size <= size_f
    BY <1>1, <1>5 DEF size_f
  <2>3. CASE g = h
    BY <1>1, <1>2, <1>6, <2>2, <2>3 DEF f
  <2>4. CASE g # h
    <3>1. pos'[g] = pos[g] /\ pos[g] \in Nat
      BY <1>1, <1>3, <2>1, <2>4
    <3>2. size[node[g]] <= size'[node[g]]
      BY <1>1, <1>6, <2>1, <2>2
    <3>3. size'[node[g]] \in Nat
      BY <1>1, <1>6, <2>1
    <3> QED BY <2>1, <3>1, <3>2, <3>3
  <2> QED BY <2>3, <2>4
<1>13. NoJunk'
  <2> SUFFICES ASSUME NEW g \in 1 .. n
               PROVE  /\ size'[g] <= Len(data'[g])
                      /\ \A i \in 1 .. size'[g] : data'[g][i] # JUNK
    BY <1>3 DEF NoJunk, data_size, nodeVars
  <2>1. CASE g = f
    BY <1>1, <1>2, <1>6, <1>7, <2>1 DEF block
  <2>2. CASE g # f
    <3>1. size'[g] = size[g] /\ data'[g] = data[g]
      BY <1>1, <1>2, <1>6, <2>2
    <3> QED BY <1>1, <3>1 DEF NoJunk, data_size
  <2> QED BY <2>1, <2>2
<1> QED BY <1>8, <1>10, <1>11, <1>12, <1>13 DEF Inv

(* Every step keeps the invariant.                                         *)
LEMMA InvStep == RamfsAssumption /\ Inv /\ [Next]_vars => Inv'
<1> SUFFICES ASSUME RamfsAssumption, Inv, [Next]_vars
             PROVE  Inv'
  OBVIOUS
<1>1. CASE Namespace
  BY <1>1, CreateKeepsInv, DeleteKeepsInv DEF Namespace
<1>2. CASE OpenClose
  BY <1>2, OpenKeepsInv, CloseKeepsInv DEF OpenClose
<1>3. CASE InputOutput
  BY <1>3, ReadKeepsInv, WriteKeepsInv, SeekKeepsInv DEF InputOutput
<1>4. CASE UNCHANGED vars
  <2>1. /\ UNCHANGED nodeVars /\ UNCHANGED dataVars /\ UNCHANGED countVars
        /\ UNCHANGED fileVars
    BY <1>4 DEF vars, nodeVars, dataVars, countVars, fileVars
  <2>2. Typed /\ Tree /\ Counted /\ Handles /\ PositionInFile /\ NoJunk
    BY DEF Inv
  <2>3. NodesTyped' /\ Tree' /\ Counted' /\ files' \in Int /\ dirs' \in Int
    BY <2>1, <2>2, TreeUntouched DEF countVars
  <2>4. Typed'
    BY <2>1, <2>2, <2>3 DEF Typed, NodesTyped, dataVars, countVars, fileVars
  <2>5. Handles' /\ PositionInFile' /\ NoJunk'
    BY <2>1, <2>2 DEF Handles, PositionInFile, NoJunk, data_size, nodeVars, dataVars, fileVars
  <2> QED BY <2>3, <2>4, <2>5 DEF Inv
<1> QED BY <1>1, <1>2, <1>3, <1>4 DEF Next, Lookup

(* The invariant holds for ever.                                           *)
LEMMA Invariance == Spec => []Inv
<1>1. Init => Inv
  BY RamfsAssumption, InvInit
<1>2. Inv /\ [Next]_vars => Inv'
  BY RamfsAssumption, InvStep
<1> QED BY <1>1, <1>2, PTL DEF Spec

(* file_count and dir_count are the numbers of files and directories that  *)
(* are in a list, and every inode is in at most one list, once: for every  *)
(* tree that calls can build and take apart.                               *)
THEOREM CountersAgree == Spec => []CountersMatchTree
<1>1. Inv => CountersMatchTree
  <2> SUFFICES ASSUME Inv
               PROVE  CountersMatchTree
    OBVIOUS
  <2>1. n \in Nat /\ \A p \in 1 .. n : p \in Node /\ list[p] \in Seq(Node)
    BY RamfsAssumption DEF Inv, Typed, RamfsAssumption, Node
  <2>2. ASSUME NEW p \in 1 .. n, NEW f \in ToSet(list[p])
        PROVE  parent[f] = p
    BY <2>2 DEF Inv, Tree, ToSet
  <2>3. ASSUME NEW p \in 1 .. n
        PROVE  Cardinality(ToSet(list[p])) = Len(list[p])
    <3> DEFINE s == list[p]
    <3>1. s \in Seq(Node) /\ Len(s) \in Nat /\ DOMAIN s = 1 .. Len(s)
      BY <2>1
    <3>2. s \in Bijection(1 .. Len(s), ToSet(s))
      <4>1. \A i, j \in 1 .. Len(s) : s[i] = s[j] => i = j
        BY <3>1 DEF Inv, Tree
      <4> HIDE DEF s
      <4>2. s \in [1 .. Len(s) -> ToSet(s)]
        BY <3>1 DEF ToSet
      <4>3. \A x \in ToSet(s) : \E i \in 1 .. Len(s) : s[i] = x
        BY <3>1 DEF ToSet
      <4>4. s \in Injection(1 .. Len(s), ToSet(s))
        BY <4>1, <4>2 DEF Injection, IsInjective
      <4>5. s \in Surjection(1 .. Len(s), ToSet(s))
        BY <4>2, <4>3 DEF Surjection
      <4> QED BY <4>4, <4>5 DEF Bijection
    <3>3. IsFiniteSet(1 .. Len(s)) /\ Cardinality(1 .. Len(s)) = Len(s)
      BY <3>1, FS_Interval
    <3> HIDE DEF s
    <3>4. ExistsBijection(1 .. Len(s), ToSet(s))
      BY <3>2 DEF ExistsBijection
    <3>5. Cardinality(ToSet(s)) = Cardinality(1 .. Len(s))
      BY <3>3, <3>4, FS_Bijection
    <3> QED BY <3>3, <3>5 DEF s
  <2> QED BY <2>2, <2>3 DEF CountersMatchTree, Inv, Counted
<1> QED BY <1>1, Invariance, PTL

(* No file is read behind its end, and no byte is read that was not        *)
(* written: the subtraction of ramfs_read never wraps, and no call, on     *)
(* this file or another one, opens a gap.                                  *)
THEOREM WrittenIsRead == Spec => []OnlyWrittenIsRead
<1>1. Inv => OnlyWrittenIsRead
  BY DEF Inv, OnlyWrittenIsRead
<1> QED BY <1>1, Invariance, PTL
-----------------------------------------------------------------------------
(* What a step may do to the contents.                                     *)

(* A byte of a file is changed by a write across it, through an open file, *)
(* and by nothing else: no create, delete, open, close, read or seek, and  *)
(* no write elsewhere, moves or loses one.                                 *)
THEOREM OnlyWritesChange == Spec => BytesKept
<1> DEFINE A == \A f \in 1 .. n : \A i \in 1 .. size[f] :
                  \/ data'[f][i] = data[f][i]
                  \/ \E h \in open : node[h] = f /\ pos[h] < i /\ i <= pos'[h]
<1>1. ASSUME RamfsAssumption, Inv, Next
      PROVE  A \/ UNCHANGED vars
  <2>0. Typed /\ Tree /\ Handles /\ PositionInFile /\ NoJunk
    BY <1>1 DEF Inv
  <2>1. data' = data => A
    OBVIOUS
  <2>2. (\A f \in 1 .. n : data'[f] = data[f]) => A
    OBVIOUS
  <2>3. ASSUME NEW path \in Path, NEW ty \in {"FILE", "DIR", "SYMLINK"},
               DirOf(path) # NIL, AddNode(Last(path), ty, DirOf(path))
        PROVE  A
    <3>1. DirOf(path) \in 1 .. n /\ Last(path) \in Name
      <4>1. DirOf(path) \in 0 .. n /\ n \in Nat /\ NIL = 0
        BY <1>1, <2>0, FoundIsListed DEF Typed, NIL
      <4> QED BY <2>3, <4>1, PathIsSeq
    <3> HIDE DEF A
    <3>2. \A f \in 1 .. n : data'[f] = data[f]
      BY <1>1, <2>0, <2>3, <3>1, AddKeepsData
    <3> QED BY <2>2, <3>2
  <2>4. ASSUME NEW h \in Handle, NEW buf \in Buffers, ramfs_write(h, buf)
        PROVE  A
    <3> DEFINE w == node[h]
               len == Larger(pos[h] + Len(buf), Len(data[w]))
               block == data'[w]
    <3>1. /\ h \in open /\ pos'[h] = pos[h] + Len(buf)
          /\ data' = [data EXCEPT ![w] = block]
          /\ \A i \in 1 .. len :
               block[i] = IF i > pos[h] /\ i <= pos[h] + Len(buf) THEN buf[i - pos[h]]
                          ELSE IF i <= Len(data[w]) THEN data[w][i] ELSE JUNK
      BY <1>1, <2>4, WriteIs
    <3>2. pos[h] + Len(buf) \in Nat /\ pos[h] \in Nat /\ w \in Node
      BY <1>1, <2>0 DEF Typed, RamfsAssumption
    <3> SUFFICES ASSUME NEW f \in 1 .. n, NEW i \in 1 .. size[f]
                 PROVE  \/ data'[f][i] = data[f][i]
                        \/ \E g \in open : node[g] = f /\ pos[g] < i /\ i <= pos'[g]
      OBVIOUS
    <3>3. CASE f # w
      <4>1. f \in Node
        BY <1>1, <2>0 DEF Typed, Node, RamfsAssumption
      <4>2. data'[f] = data[f]
        <5> HIDE DEF w, block
        <5> QED BY <2>0, <3>1, <3>3, <4>1 DEF Typed
      <4> QED BY <4>2
    <3>4. CASE f = w
      <4>1. /\ size[w] \in Nat /\ Len(data[w]) \in Nat /\ size[w] <= Len(data[w])
        BY <2>0, <3>2, <3>4 DEF Typed, NoJunk, data_size
      <4> HIDE DEF A
      <4>2. len \in Nat /\ Len(data[w]) <= len
        BY <3>2, <4>1 DEF Larger
      <4> HIDE DEF len
      <4>3. i \in 1 .. len /\ i <= Len(data[w])
        BY <3>4, <4>1, <4>2
      <4>4. CASE i > pos[h] /\ i <= pos[h] + Len(buf)
        BY <3>1, <3>2, <3>4, <4>4
      <4>5. CASE ~(i > pos[h] /\ i <= pos[h] + Len(buf))
        BY <3>1, <3>4, <4>3, <4>5
      <4> QED BY <4>4, <4>5
    <3> QED BY <3>3, <3>4
  <2> HIDE DEF A
  <2>5. CASE Namespace
    <3> SUFFICES ASSUME NEW path \in Path,
                        \/ ramfs_create_file(path) \/ ramfs_create_dir(path)
                        \/ ramfs_create_symlink(path) \/ ramfs_delete(path)
                 PROVE  A
      BY <2>5 DEF Namespace
    <3>1. CASE ramfs_create_file(path)
      BY <2>3, <3>1 DEF ramfs_create_file, CreateFile, IsDir
    <3>2. CASE ramfs_create_dir(path)
      BY <2>3, <3>2 DEF ramfs_create_dir, IsDir
    <3>3. CASE ramfs_create_symlink(path)
      BY <2>3, <3>3 DEF ramfs_create_symlink
    <3>4. CASE ramfs_delete(path)
      BY <2>1, <3>4 DEF ramfs_delete, dataVars
    <3> QED BY <3>1, <3>2, <3>3, <3>4
  <2>6. CASE OpenClose
    <3>1. ASSUME NEW h, ramfs_close(h) PROVE A
      BY <2>1, <3>1 DEF ramfs_close, dataVars
    <3>2. ASSUME NEW h, NEW path \in Path, NEW creat, ramfs_open(h, path, creat) PROVE A
      <4>1. CASE find_inode(path) # NIL
        BY <2>1, <3>2, <4>1 DEF ramfs_open, dataVars
      <4>2. CASE find_inode(path) = NIL
        BY <2>3, <3>2, <4>2 DEF ramfs_open, CreateFile, IsDir
      <4> QED BY <4>1, <4>2
    <3> QED BY <2>6, <3>1, <3>2 DEF OpenClose
  <2>7. CASE InputOutput
    <3>1. ASSUME NEW h, NEW k, ramfs_read(h, k) \/ ramfs_seek(h, k) PROVE A
      BY <2>1, <3>1 DEF ramfs_read, ramfs_seek, dataVars
    <3> QED BY <2>4, <2>7, <3>1 DEF InputOutput
  <2> QED BY <1>1, <2>5, <2>6, <2>7 DEF Next, Lookup
<1>2. Inv /\ [Next]_vars => [A]_vars
  BY RamfsAssumption, <1>1
<1> QED BY <1>2, Invariance, PTL DEF Spec, BytesKept
-----------------------------------------------------------------------------
(* Where paths lead after a create.                                        *)

(* A create changes what is looked up in one directory, and there the new  *)
(* name leads to the new inode, whatever older entry has the same name.    *)
LEMMA AddIsLookedUp ==
  ASSUME RamfsAssumption, Typed, Tree, NEW nm \in Name, NEW ty, NEW p \in 1 .. n,
         AddNode(nm, ty, p)
  PROVE  /\ \A f \in 0 .. n, x \in Name : f # p => Child(f, x)' = Child(f, x)
         /\ Child(p, nm)' = n + 1
<1> DEFINE new == n + 1
<1>1. /\ n \in 3 .. MAX_NODES - 1 /\ MAX_NODES \in Nat /\ n \in Nat /\ NIL = 0
      /\ name' = [name EXCEPT ![new] = nm]
      /\ list' = [list EXCEPT ![p] = Prepended(@, new), ![new] = << >>]
      /\ list \in [Node -> Seq(Node)] /\ name \in [Node -> Name]
  BY DEF AddNode, Typed, RamfsAssumption, NIL
<1>2. new \in Node /\ p \in Node /\ new # p /\ \A f \in 1 .. n : f \in Node /\ f # new
  BY <1>1 DEF Node
<1>3. \A f \in 1 .. n : f # p => list'[f] = list[f]
  <2> HIDE DEF new
  <2> QED BY <1>1, <1>2
<1>4. list'[p] = Prepended(list[p], new)
  <2> HIDE DEF new
  <2> QED BY <1>1, <1>2
<1>5. name'[new] = nm /\ \A f \in 1 .. n : name'[f] = name[f]
  <2> HIDE DEF new
  <2> QED BY <1>1, <1>2
<1>6. ASSUME NEW f \in 0 .. n, NEW x \in Name, f # p
      PROVE  Child(f, x)' = Child(f, x)
  <2>1. CASE f = NIL
    BY <2>1 DEF Child
  <2>2. CASE f # NIL
    <3>1. f \in 1 .. n
      BY <1>1, <2>2
    <3>2. list'[f] = list[f] /\ \A i \in DOMAIN list[f] : list[f][i] \in 1 .. n
      <4>1. \A i \in DOMAIN list[f] : list[f][i] \in 2 .. n
        BY <3>1 DEF Tree
      <4>2. \A i \in 2 .. n : i \in 1 .. n
        BY <1>1
      <4> QED BY <1>3, <1>6, <3>1, <4>1, <4>2
    <3>3. {i \in DOMAIN list'[f] : name'[list'[f][i]] = x}
            = {i \in DOMAIN list[f] : name[list[f][i]] = x}
      BY <1>5, <3>2
    <3> QED BY <3>2, <3>3 DEF Child
  <2> QED BY <2>1, <2>2
<1>7. Child(p, nm)' = new
  <2> DEFINE s == list'[p]
             hits == {i \in DOMAIN s : name'[s[i]] = nm}
  <2>1. s \in Seq(Node) /\ s[1] = new /\ Len(s) = Len(list[p]) + 1 /\ Len(list[p]) \in Nat
    <3>1. list[p] \in Seq(Node) /\ new \in Node
      BY <1>1, <1>2
    <3> HIDE DEF new
    <3>2. PICK t \in Seq(Node), g \in Node : t = list[p] /\ g = new
      BY <3>1
    <3>3. /\ Prepended(t, g) \in Seq(Node) /\ Prepended(t, g)[1] = g
          /\ Len(Prepended(t, g)) = Len(t) + 1
      BY PrependedIs
    <3> QED BY <1>4, <3>1, <3>2, <3>3
  <2> HIDE DEF s
  <2>2. 1 \in hits /\ \A i \in hits : i \in Nat /\ 1 <= i
    BY <1>5, <2>1
  <2> HIDE DEF hits
  <2>3. Min(hits) = 1
    <3>1. Min(hits) \in hits /\ \A y \in hits : Min(hits) <= y
      BY <2>2 DEF Min
    <3> QED BY <2>2, <3>1
  <2>4. p # NIL /\ hits # {}
    BY <1>1, <2>2
  <2>5. Child(p, nm)' = s[Min(hits)]
    BY <2>4 DEF Child, hits, s
  <2> QED BY <2>1, <2>3, <2>5
<1> QED BY <1>6, <1>7

(* What a create makes is what its path finds.                             *)
LEMMA CreatedIsFound ==
  ASSUME RamfsAssumption, Inv, Inv', FoundByWalk', NEW path \in Path, NEW ty,
         NEW p, p = DirOf(path), p # NIL, AddNode(Last(path), ty, p)
  PROVE  find_inode(path)' = n'
<1> DEFINE L == Len(path)
<1>1. /\ path \in Seq(Name) /\ L \in Nat \ {0} /\ Front(path) \in Seq(Name)
      /\ Len(Front(path)) = L - 1 /\ \A d \in 1 .. L - 1 : Front(path)[d] = path[d]
      /\ Last(path) = path[L] /\ Last(path) \in Name
      /\ \A d \in 1 .. L : path[d] \in Name
  BY PathIsSeq
<1>2. Typed /\ Tree /\ n \in Nat /\ NIL = 0 /\ n' = n + 1
  <2>1. Typed /\ Tree
    BY DEF Inv
  <2>2. n \in Nat
    BY <2>1 DEF Typed
  <2>3. NIL = 0 /\ n' = n + 1
    BY DEF AddNode, NIL
  <2> QED BY <2>1, <2>2, <2>3
<1>3. FoundByWalk
  BY <1>2, PathIsWalked
<1>4. PICK at : IsWalk(at, Front(path)) /\ p = at[L - 1]
  BY <1>1, <1>3 DEF FoundByWalk, DirOf
<1>5. PICK to : IsWalk(to, path)' /\ find_inode(path)' = to[L]
  BY <1>1 DEF FoundByWalk
<1>6. p \in 1 .. n
  BY <1>2, FoundIsListed
<1>7. /\ \A f \in 0 .. n, x \in Name : f # p => Child(f, x)' = Child(f, x)
      /\ Child(p, Last(path))' = n + 1
  BY <1>1, <1>2, <1>6, AddIsLookedUp
<1>8. Descending(at, Front(path))
  BY <1>1, <1>2, <1>4, WalkDescends
<1> HIDE DEF L
<1>9. \A d \in 1 .. L - 1 : at[d - 1] \in 0 .. n /\ at[d - 1] # p
  <2> SUFFICES ASSUME NEW d \in 1 .. L - 1
               PROVE  at[d - 1] \in 0 .. n /\ at[d - 1] # p
    OBVIOUS
  <2>1. d - 1 \in 0 .. Len(Front(path)) /\ L - 1 \in 0 .. Len(Front(path)) /\ d - 1 < L - 1
    BY <1>1
  <2>2. at[d - 1] \in 0 .. n
    BY <1>4, <2>1 DEF IsWalk
  <2>3. at[d - 1] < at[L - 1]
    BY <1>2, <1>4, <1>6, <1>8, <2>1 DEF Descending
  <2> QED BY <1>2, <1>4, <1>6, <2>2, <2>3
<1>10. \A d \in 0 .. L - 1 : to[d] = at[d]
  <2> DEFINE Ok == {d \in 0 .. L - 1 : to[d] = at[d]}
             id == [d \in 0 .. L - 1 |-> d]
  <2>1. id[0] \in Ok
    BY <1>1, <1>4, <1>5 DEF IsWalk
  <2>2. \A d \in 1 .. L - 1 : id[d - 1] \in Ok => id[d] \in Ok
    <3> SUFFICES ASSUME NEW d \in 1 .. L - 1, to[d - 1] = at[d - 1]
                 PROVE  to[d] = at[d]
      BY <1>1
    <3>1. d \in 1 .. L /\ path[d] \in Name
      BY <1>1
    <3>2. to[d] = Child(to[d - 1], path[d])'
      BY <1>5, <3>1 DEF IsWalk, L
    <3>3. Child(at[d - 1], path[d])' = Child(at[d - 1], path[d])
      BY <1>7, <1>9, <3>1
    <3>4. at[d] = Child(at[d - 1], path[d])
      BY <1>1, <1>4 DEF IsWalk
    <3> QED BY <3>2, <3>3, <3>4
  <2> DEFINE M == L - 1
  <2>3. M \in Nat /\ \A d \in 0 .. M : id[d] = d
    BY <1>1
  <2> HIDE DEF Ok, id, M
  <2>4. \A d \in 0 .. M : id[d] \in Ok
    BY <2>1, <2>2, <2>3, LoopInvariant DEF M
  <2> QED BY <2>3, <2>4 DEF Ok, M
<1>11. to[L] = Child(to[L - 1], path[L])'
  BY <1>1, <1>5 DEF IsWalk, L
<1>12. to[L - 1] = p
  BY <1>1, <1>4, <1>10
<1>13. Child(p, path[L])' = n + 1
  BY <1>1, <1>7
<1> QED BY <1>2, <1>5, <1>11, <1>12, <1>13
(* No call but a delete takes an entry out of a list, a delete takes out   *)
(* what its path leads to and nothing else, and a create is found under    *)
(* its path, however deep and whatever names are there already.            *)
THEOREM PathsRight == Spec => PathsLeadRight
<1> DEFINE Kept == \A f \in 1 .. n : Listed(f) /\ ~Listed(f)' =>
                     \E path \in Path : ramfs_delete(path) /\ find_inode(path) = f
           Found == n' > n => \A path \in Path :
                      ramfs_create_file(path) \/ ramfs_create_dir(path)
                        => find_inode(path)' = n'
<1>1. ASSUME RamfsAssumption, Inv, Next
      PROVE  Kept
  <2>0. Typed /\ Tree /\ n \in Nat /\ NIL = 0
    BY <1>1 DEF Inv, Typed, NIL
  <2>1. ASSUME UNCHANGED <<parent, list>> PROVE Kept
    BY <2>1 DEF Listed
  <2>2. ASSUME NEW path \in Path, NEW ty \in {"FILE", "DIR", "SYMLINK"},
               DirOf(path) # NIL, AddNode(Last(path), ty, DirOf(path))
        PROVE  Kept
    <3>1. PICK p \in 1 .. n : p = DirOf(path)
      BY <1>1, <2>0, <2>2, FoundIsListed
    <3>2. Last(path) \in Name /\ AddNode(Last(path), ty, p)
      BY <2>2, <3>1, PathIsSeq
    <3>3. PICK new : new = n + 1
      OBVIOUS
    <3>4. \A f \in 1 .. n : Listed(f)' <=> Listed(f)
      BY <1>1, <2>0, <3>2, <3>3, AddKeepsTree
    <3> QED BY <3>4
  <2>3. ASSUME NEW path \in Path, ramfs_delete(path) PROVE Kept
    <3>1. PICK f : f = find_inode(path)
      OBVIOUS
    <3>2. f \in 2 .. n /\ f \in ToSet(list[parent[f]])
      BY <1>1, <2>0, <2>3, <3>1, FoundIsListed DEF ramfs_delete
    <3>3. /\ list' = [list EXCEPT ![parent[f]] = Unlinked(@, f)]
          /\ UNCHANGED <<n, name, type, parent>>
      BY <2>3, <3>1 DEF ramfs_delete
    <3>4. \A g \in 1 .. n : g # f => (Listed(g)' <=> Listed(g))
      BY <1>1, <2>0, <3>2, <3>3, CutKeepsTree
    <3> QED BY <2>3, <3>1, <3>4
  <2> HIDE DEF Kept
  <2>4. CASE Namespace
    BY <2>2, <2>3, <2>4 DEF Namespace, ramfs_create_file, CreateFile, IsDir,
                            ramfs_create_dir, ramfs_create_symlink
  <2>5. CASE OpenClose
    <3>1. ASSUME NEW h, ramfs_close(h) PROVE Kept
      BY <2>1, <3>1 DEF ramfs_close, nodeVars
    <3>2. ASSUME NEW h, NEW path \in Path, NEW creat, ramfs_open(h, path, creat) PROVE Kept
      <4>1. CASE find_inode(path) # NIL
        BY <2>1, <3>2, <4>1 DEF ramfs_open, nodeVars
      <4>2. CASE find_inode(path) = NIL
        BY <2>2, <3>2, <4>2 DEF ramfs_open, CreateFile, IsDir
      <4> QED BY <4>1, <4>2
    <3> QED BY <2>5, <3>1, <3>2 DEF OpenClose
  <2>6. CASE InputOutput
    BY <2>1, <2>6 DEF InputOutput, ramfs_read, ramfs_write, ramfs_seek, nodeVars
  <2>7. CASE UNCHANGED vars
    BY <2>1, <2>7 DEF vars
  <2> QED BY <1>1, <2>4, <2>5, <2>6, <2>7 DEF Next, Lookup
<1>2. ASSUME RamfsAssumption, Inv, Inv', FoundByWalk'
      PROVE  Found
  <2> SUFFICES ASSUME NEW path \in Path, ramfs_create_file(path) \/ ramfs_create_dir(path)
               PROVE  find_inode(path)' = n'
    OBVIOUS
  <2>1. PICK p : p = DirOf(path)
    OBVIOUS
  <2>2. \E ty : p # NIL /\ AddNode(Last(path), ty, p)
    BY <2>1 DEF ramfs_create_file, CreateFile, ramfs_create_dir, IsDir
  <2> QED BY <1>2, <2>1, <2>2, CreatedIsFound
<1>3. Inv => FoundByWalk
  BY RamfsAssumption, PathIsWalked DEF Inv
<1> HIDE DEF Kept, Found
<1>4. Inv /\ Inv' /\ FoundByWalk' /\ [Next]_vars => [Kept /\ Found]_vars
  BY RamfsAssumption, <1>1, <1>2
<1> QED BY <1>3, <1>4, Invariance, PTL DEF Spec, PathsLeadRight, Kept, Found
=============================================================================
