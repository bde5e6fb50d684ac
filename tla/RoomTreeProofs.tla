--------------------------- MODULE RoomTreeProofs ---------------------------
(***************************************************************************)
(* What holds of RoomTree for every set of ids and names.                  *)
(*                                                                         *)
(* The argument: a path is described position by position (AncestorAt),    *)
(* which turns the LIKE pattern into membership among a row's ancestors    *)
(* (PatternIsMembership).  A move then replaces one prefix of the paths    *)
(* below the source (RepathTyped), and the row named at each position of   *)
(* a new path is either untouched, the source, or a row moved by the same  *)
(* replacement (MovedAncestors).  TreeInv is inductive; tombstones follow  *)
(* from it.                                                                *)
(*                                                                         *)
(* RoomTree implements FolderTree: the LIKE pattern of a node finds what   *)
(* lies under it by the pointers, for the rows it matches are closed under *)
(* children, and of those it matches none with the shortest path can be    *)
(* missing from a closed set (UnderIsBeneath).  With that each handler is  *)
(* one step of FolderTree or none.                                         *)
(***************************************************************************)
EXTENDS RoomTreeRefinement, SequenceTheorems, WellFoundedInduction, TLAPS

-----------------------------------------------------------------------------
(* Sequences *)

LEMMA FieldsTyped ==
    ASSUME TypeOK, NEW n \in DOMAIN node
    PROVE  /\ node[n] \in Row
           /\ n \in Ids
           /\ node[n].path \in Seq(Ids)
           /\ childPath(n) \in Seq(Ids)
           /\ Len(childPath(n)) = Len(node[n].path) + 1
           /\ childPath(n)[Len(node[n].path) + 1] = n
           /\ \A i \in 1..Len(node[n].path) : childPath(n)[i] = node[n].path[i]
<1>1. node[n] \in Row /\ n \in Ids
  BY DEF TypeOK
<1>2. node[n].path \in Seq(Ids)
  BY <1>1 DEF Row
<1> QED
  BY <1>1, <1>2, AppendProperties DEF childPath

LEMMA CutTyped ==
    ASSUME NEW p \in Seq(Ids), NEW k \in Nat, k <= Len(p)
    PROVE  /\ SubSeq(p, k + 1, Len(p)) \in Seq(Ids)
           /\ Len(SubSeq(p, k + 1, Len(p))) = Len(p) - k
           /\ \A i \in 1..(Len(p) - k) : SubSeq(p, k + 1, Len(p))[i] = p[k + i]
<1>1. Len(p) \in Nat /\ \A i \in (k + 1)..Len(p) : p[i] \in Ids
  BY LenProperties, ElementOfSeq
<1> QED
  BY <1>1, SubSeqProperties

LEMMA PrefixTyped ==
    ASSUME NEW p \in Seq(Ids), NEW k \in Nat, k <= Len(p)
    PROVE  /\ SubSeq(p, 1, k) \in Seq(Ids)
           /\ Len(SubSeq(p, 1, k)) = k
           /\ \A i \in 1..k : SubSeq(p, 1, k)[i] = p[i]
<1>1. Len(p) \in Nat /\ \A i \in 1..k : p[i] \in Ids
  BY LenProperties, ElementOfSeq
<1> QED
  BY <1>1, SubSeqProperties

-----------------------------------------------------------------------------
(* What a move does to one path. *)

(* A prefix of length k is cut off and another put in its place. *)
Splice(p, k, new) == new \o SubSeq(p, k + 1, Len(p))

LEMMA SpliceTyped ==
    ASSUME NEW p \in Seq(Ids), NEW k \in Nat, k <= Len(p), NEW new \in Seq(Ids)
    PROVE  /\ Splice(p, k, new) \in Seq(Ids)
           /\ Len(Splice(p, k, new)) = Len(new) + (Len(p) - k)
           /\ \A i \in 1..Len(new) : Splice(p, k, new)[i] = new[i]
           /\ \A i \in (Len(new) + 1)..(Len(new) + (Len(p) - k)) :
                  Splice(p, k, new)[i] = p[i - Len(new) + k]
<1> DEFINE rest == SubSeq(p, k + 1, Len(p))
           q == new \o rest
<1>1. Len(p) \in Nat /\ Len(new) \in Nat
  BY LenProperties
<1>2. /\ rest \in Seq(Ids)
      /\ Len(rest) = Len(p) - k
      /\ \A i \in 1..(Len(p) - k) : rest[i] = p[k + i]
  BY CutTyped
<1> HIDE DEF rest
<1>3. /\ q \in Seq(Ids)
      /\ Len(q) = Len(new) + Len(rest)
      /\ \A i \in 1..Len(new) + Len(rest) :
             q[i] = IF i <= Len(new) THEN new[i] ELSE rest[i - Len(new)]
  BY <1>2, ConcatProperties
<1> HIDE DEF q
<1>4. ASSUME NEW i \in 1..Len(new)
      PROVE  q[i] = new[i]
  <2>1. i \in 1..Len(new) + Len(rest) /\ i <= Len(new)
    BY <1>1, <1>2
  <2> QED
    BY <1>3, <2>1
<1>5. ASSUME NEW i \in (Len(new) + 1)..(Len(new) + (Len(p) - k))
      PROVE  q[i] = p[i - Len(new) + k]
  <2>1. i \in 1..Len(new) + Len(rest) /\ ~(i <= Len(new))
    BY <1>1, <1>2
  <2>2. q[i] = rest[i - Len(new)]
    BY <1>3, <2>1
  <2>3. i - Len(new) \in 1..(Len(p) - k)
    BY <1>1, <1>2
  <2>4. rest[i - Len(new)] = p[k + (i - Len(new))]
    BY <1>2, <2>3
  <2>5. k + (i - Len(new)) = i - Len(new) + k
    BY <1>1
  <2> QED
    BY <2>2, <2>4, <2>5
<1>6. q = Splice(p, k, new)
  BY DEF q, rest, Splice
<1> QED
  BY <1>2, <1>3, <1>4, <1>5, <1>6

(* q is p with its first k elements replaced by the l elements d, dst, src. *)
Replaced(q, p, k, l, d, dst, src) ==
    /\ k <= Len(p)
    /\ Len(q) = l + (Len(p) - k)
    /\ \A i \in 1..Len(d) : q[i] = d[i]
    /\ q[l - 1] = dst
    /\ q[l] = src
    /\ \A i \in (l + 1)..Len(q) : q[i] = p[i - l + k]

CutLen(src) == Len(node[src].path) + 1
NewLen(dst) == Len(node[dst].path) + 2

LEMMA LensTyped ==
    ASSUME TypeOK, NEW n \in DOMAIN node
    PROVE  /\ Len(node[n].path) \in Nat
           /\ CutLen(n) \in Nat /\ CutLen(n) = Len(node[n].path) + 1
           /\ NewLen(n) \in Nat /\ NewLen(n) = Len(node[n].path) + 2
<1>1. Len(node[n].path) \in Nat
  BY FieldsTyped, LenProperties
<1> QED
  BY <1>1 DEF CutLen, NewLen

(* A descendant's new path: dst's path, dst, src, then what followed src. *)
LEMMA RepathTyped ==
    ASSUME TypeOK, NEW src \in DOMAIN node, NEW dst \in DOMAIN node,
           NEW m \in Beneath(src)
    PROVE  LET q == Repath(m, childPath(src), Append(childPath(dst), src)) IN
           /\ q \in Seq(Ids)
           /\ Replaced(q, node[m].path, CutLen(src), NewLen(dst),
                       node[dst].path, dst, src)
<1> SUFFICES ASSUME NEW k, k = CutLen(src),
                    NEW l, l = NewLen(dst),
                    NEW q, q = Repath(m, childPath(src), Append(childPath(dst), src))
             PROVE  /\ q \in Seq(Ids)
                    /\ Replaced(q, node[m].path, k, l, node[dst].path, dst, src)
  OBVIOUS
<1> DEFINE new == Append(childPath(dst), src)
<1>1. m \in DOMAIN node /\ node[m].path \in Seq(Ids) /\ Len(node[m].path) \in Nat
  BY FieldsTyped, LenProperties DEF Beneath
<1>2. /\ Len(childPath(src)) = k /\ k \in Nat
      /\ Len(node[dst].path) \in Nat /\ l \in Nat
      /\ l = Len(node[dst].path) + 2
  BY FieldsTyped, LensTyped
<1>3. k <= Len(node[m].path)
  BY <1>2 DEF Beneath, StartsWith
<1>4. /\ childPath(dst) \in Seq(Ids)
      /\ Len(childPath(dst)) = Len(node[dst].path) + 1
      /\ childPath(dst)[Len(node[dst].path) + 1] = dst
      /\ \A i \in 1..Len(node[dst].path) : childPath(dst)[i] = node[dst].path[i]
      /\ src \in Ids
  BY FieldsTyped
<1>5. /\ new \in Seq(Ids)
      /\ Len(new) = Len(childPath(dst)) + 1
      /\ \A i \in 1..Len(childPath(dst)) : new[i] = childPath(dst)[i]
      /\ new[Len(childPath(dst)) + 1] = src
  BY <1>4, AppendProperties
<1>6. q = Splice(node[m].path, k, new)
  BY <1>2 DEF Repath, Splice
<1> DEFINE p == node[m].path
<1> HIDE DEF new, p
<1>7. /\ Len(new) = l
      /\ \A i \in 1..Len(node[dst].path) : new[i] = node[dst].path[i]
      /\ new[l - 1] = dst
      /\ new[l] = src
  <2>1. PICK n \in Nat : n = Len(node[dst].path)
    BY <1>2
  <2>2. l = n + 2 /\ Len(childPath(dst)) = n + 1 /\ Len(new) = n + 2 /\ new[n + 2] = src
    BY <1>2, <1>4, <1>5, <2>1
  <2>3. new[n + 1] = dst /\ \A i \in 1..n : new[i] = node[dst].path[i]
    BY <1>4, <1>5, <2>1, <2>2
  <2> QED
    BY <2>1, <2>2, <2>3
<1>8. /\ q \in Seq(Ids)
      /\ Len(q) = Len(new) + (Len(p) - k)
      /\ \A i \in 1..Len(new) : q[i] = new[i]
      /\ \A i \in (Len(new) + 1)..(Len(new) + (Len(p) - k)) :
             q[i] = p[i - Len(new) + k]
  <2>1. /\ p \in Seq(Ids) /\ k \in Nat /\ k <= Len(p)
        /\ new \in Seq(Ids)
    BY <1>1, <1>2, <1>3, <1>5 DEF p
  <2>2. /\ Splice(p, k, new) \in Seq(Ids)
        /\ Len(Splice(p, k, new)) = Len(new) + (Len(p) - k)
        /\ \A i \in 1..Len(new) : Splice(p, k, new)[i] = new[i]
        /\ \A i \in (Len(new) + 1)..(Len(new) + (Len(p) - k)) :
               Splice(p, k, new)[i] = p[i - Len(new) + k]
    BY <2>1, SpliceTyped
  <2> QED
    BY <1>6, <2>2 DEF p
<1>9. /\ \A i \in 1..Len(node[dst].path) : q[i] = node[dst].path[i]
      /\ q[l - 1] = dst
      /\ q[l] = src
  <2>1. /\ \A i \in 1..l : q[i] = new[i]
        /\ l - 1 \in 1..l /\ l \in 1..l
        /\ \A i \in 1..Len(node[dst].path) : i \in 1..l
    BY <1>2, <1>7, <1>8, SMTT(30)
  <2> QED
    BY <1>7, <2>1
<1>10. \A i \in (l + 1)..Len(q) : q[i] = p[i - l + k]
  BY <1>7, <1>8
<1>11. k <= Len(p) /\ Len(q) = l + (Len(p) - k)
  BY <1>3, <1>7, <1>8 DEF p
<1> QED
  BY <1>8, <1>9, <1>10, <1>11 DEF p, Replaced

-----------------------------------------------------------------------------
(* Type correctness *)

LEMMA InsertTyped ==
    ASSUME TypeOK, NEW n \in Ids, NEW row \in Row, Insert(n, row)
    PROVE  TypeOK'
BY DEF TypeOK, Insert

LEMMA DeleteTyped ==
    ASSUME TypeOK, NEW S, DeleteRows(S)
    PROVE  TypeOK'
BY DEF TypeOK, DeleteRows

LEMMA AddChildTyped ==
    ASSUME TypeOK, NEW room \in Ids, NEW p \in Ids, NEW n \in Ids, NEW nm \in Names,
           NEW type \in {"FOLDER", "FILE"}, NEW status \in {"PENDING", "ACTIVE"},
           AddChild(room, p, n, nm, type, status)
    PROVE  TypeOK'
<1>1. childPath(p) \in Seq(Ids)
  BY FieldsTyped DEF AddChild
<1> DEFINE row == [roomId |-> room, parentId |-> p, type |-> type,
                   name |-> nm, path |-> childPath(p),
                   status |-> status, deleted |-> FALSE]
<1>2. row \in Row
  BY <1>1 DEF Row
<1> QED
  BY <1>2, InsertTyped DEF AddChild

LEMMA MoveTyped ==
    ASSUME TypeOK, NEW src \in Ids, NEW dst \in Ids, Move(src, dst)
    PROVE  TypeOK'
<1>1. src \in DOMAIN node /\ dst \in DOMAIN node
  BY DEF Move, Admits
<1>2. childPath(dst) \in Seq(Ids)
  BY <1>1, FieldsTyped
<1>3. \A m \in Beneath(src) :
        Repath(m, childPath(src), Append(childPath(dst), src)) \in Seq(Ids)
  BY <1>1, RepathTyped
<1>4. \A m \in DOMAIN node : Moved(src, dst)[m] \in Row
  BY <1>2, <1>3 DEF TypeOK, Row, Moved
<1>5. DOMAIN Moved(src, dst) = DOMAIN node /\ Moved(src, dst) \in [DOMAIN node -> Row]
  BY <1>4 DEF Moved
<1> QED
  BY <1>5 DEF Move, TypeOK

THEOREM TypeCorrect == Spec => []TypeOK
<1>1. Init => TypeOK
  BY DEF Init, TypeOK
<1>2. TypeOK /\ [Next]_vars => TypeOK'
  <2> SUFFICES ASSUME TypeOK, [Next]_vars
               PROVE  TypeOK'
    OBVIOUS
  <2>1. ASSUME NEW r \in Ids, NEW nm \in Names, CreateRoom(r, nm)
        PROVE  TypeOK'
    <3> DEFINE row == [roomId |-> r, parentId |-> NoParent, type |-> "FOLDER",
                       name |-> nm, path |-> ROOT_PATH,
                       status |-> "ACTIVE", deleted |-> FALSE]
    <3>1. row \in Row
      BY EmptySeq DEF Row, ROOT_PATH
    <3> QED
      BY <2>1, <3>1, InsertTyped DEF CreateRoom
  <2>2. ASSUME NEW r \in Ids, RemoveRoom(r)
        PROVE  TypeOK'
    BY <2>2, DeleteTyped DEF RemoveRoom
  <2>3. ASSUME NEW r \in Ids, NEW p \in Ids, NEW n \in Ids, NEW nm \in Names,
               CreateFolder(r, p, n, nm) \/ PresignNewFile(r, p, n, nm)
        PROVE  TypeOK'
    BY <2>3, AddChildTyped DEF CreateFolder, PresignNewFile
  <2>4. ASSUME NEW n \in Ids, Confirm(n) \/ RejectUpload(n)
        PROVE  TypeOK'
    <3>1. CASE Confirm(n)
      BY <3>1, ZenonT(30) DEF Confirm, Admits, TypeOK, Row
    <3>2. CASE RejectUpload(n)
      BY <3>2, ZenonT(30) DEF RejectUpload, Admits, TypeOK, Row
    <3> QED
      BY <2>4, <3>1, <3>2
  <2>5. ASSUME NEW n \in Ids, SweepPending(n)
        PROVE  TypeOK'
    BY <2>5, DeleteTyped DEF SweepPending
  <2>6. ASSUME NEW n \in Ids, NEW nm \in Names, Rename(n, nm)
        PROVE  TypeOK'
    BY <2>6, ZenonT(30) DEF Rename, Admits, TypeOK, Row
  <2>7. ASSUME NEW src \in Ids, NEW dst \in Ids, Move(src, dst)
        PROVE  TypeOK'
    BY <2>7, MoveTyped
  <2>8. ASSUME NEW n \in Ids, Remove(n)
        PROVE  TypeOK'
    BY <2>8, ZenonT(60) DEF Remove, TypeOK, Row
  <2>9. CASE UNCHANGED vars
    BY <2>9 DEF vars, TypeOK
  <2> QED
    BY <2>1, <2>2, <2>3, <2>4, <2>5, <2>6, <2>7, <2>8, <2>9 DEF Next
<1> QED
  BY <1>1, <1>2, PTL DEF Spec

-----------------------------------------------------------------------------
(* The tree invariant: what the pointers, the paths, the rooms and the     *)
(* types say of one another.  Paths alone are not inductive: the cascade   *)
(* of a room needs the rooms to be closed, the sweep needs PENDING rows to *)
(* be files and files to be leaves.                                        *)

TreeInv ==
    /\ TypeOK
    /\ PathsAreAncestry
    /\ RoomsAreClosed
    /\ OnlyFoldersHoldNodes

(* Ancestry, one position at a time. *)
LEMMA AncestorAt ==
    ASSUME TypeOK, PathsAreAncestry, NEW m \in DOMAIN node,
           NEW i \in 1..Len(node[m].path)
    PROVE  /\ node[m].path[i] \in DOMAIN node
           /\ Len(node[node[m].path[i]].path) = i - 1
           /\ \A j \in 1..(i - 1) : node[node[m].path[i]].path[j] = node[m].path[j]
           /\ node[m].parentId # NoParent
<1>1. node[m].path \in Seq(Ids) /\ Len(node[m].path) \in Nat
  BY FieldsTyped, LenProperties
<1>2. node[m].path # << >>
  BY <1>1, EmptySeq
<1>3. /\ node[m].parentId # NoParent
      /\ node[m].path[i] \in DOMAIN node
      /\ node[node[m].path[i]].path = SubSeq(node[m].path, 1, i - 1)
  BY <1>2 DEF PathsAreAncestry, PathIsAncestry, ROOT_PATH
<1>4. i - 1 \in Nat /\ i - 1 <= Len(node[m].path)
  BY <1>1
<1>5. /\ Len(SubSeq(node[m].path, 1, i - 1)) = i - 1
      /\ \A j \in 1..(i - 1) : SubSeq(node[m].path, 1, i - 1)[j] = node[m].path[j]
  BY <1>1, <1>4, PrefixTyped
<1> QED
  BY <1>3, <1>5

LEMMA AncestorIdsAt ==
    ASSUME TypeOK, NEW m \in DOMAIN node
    PROVE  \A a : a \in ancestorIds(m) <=> \E i \in 1..Len(node[m].path) : a = node[m].path[i]
<1>1. DOMAIN node[m].path = 1..Len(node[m].path)
  BY FieldsTyped, LenProperties
<1> QED
  BY <1>1 DEF ancestorIds

(* The LIKE pattern finds exactly the rows that name the node as ancestor. *)
LEMMA PatternIsMembership ==
    ASSUME TypeOK, PathsAreAncestry, NEW n \in DOMAIN node, NEW m \in DOMAIN node
    PROVE  m \in Beneath(n) <=> n \in ancestorIds(m)
<1>1. /\ node[n].path \in Seq(Ids) /\ Len(node[n].path) \in Nat
      /\ node[m].path \in Seq(Ids) /\ Len(node[m].path) \in Nat
      /\ Len(childPath(n)) = Len(node[n].path) + 1
      /\ childPath(n)[Len(node[n].path) + 1] = n
      /\ \A i \in 1..Len(node[n].path) : childPath(n)[i] = node[n].path[i]
  BY FieldsTyped, LenProperties
<1>2. ASSUME m \in Beneath(n)
      PROVE  n \in ancestorIds(m)
  <2>1. /\ Len(childPath(n)) <= Len(node[m].path)
        /\ node[m].path[Len(node[n].path) + 1] = n
    BY <1>1, <1>2 DEF Beneath, StartsWith
  <2> QED
    BY <1>1, <2>1, AncestorIdsAt
<1>3. ASSUME n \in ancestorIds(m)
      PROVE  m \in Beneath(n)
  <2>1. PICK i \in 1..Len(node[m].path) : n = node[m].path[i]
    BY <1>3, AncestorIdsAt
  <2>2. /\ Len(node[n].path) = i - 1
        /\ \A j \in 1..(i - 1) : node[n].path[j] = node[m].path[j]
    BY <2>1, AncestorAt
  <2>3. Len(childPath(n)) <= Len(node[m].path)
    BY <1>1, <2>2
  <2>4. ASSUME NEW j \in 1..Len(childPath(n))
        PROVE  node[m].path[j] = childPath(n)[j]
    <3>1. CASE j = i
      BY <1>1, <2>1, <2>2, <3>1
    <3>2. CASE j # i
      <4>1. j \in 1..(i - 1) /\ j \in 1..Len(node[n].path)
        BY <1>1, <2>2, <3>2
      <4>2. node[n].path[j] = node[m].path[j]
        BY <2>2, <4>1
      <4>3. childPath(n)[j] = node[n].path[j]
        BY <1>1, <4>1
      <4> QED
        BY <4>2, <4>3
    <3> QED
      BY <3>1, <3>2
  <2> QED
    BY <2>3, <2>4 DEF Beneath, StartsWith
<1> QED
  BY <1>2, <1>3

(* No node is its own ancestor: the pointers form no cycle. *)
LEMMA NotOwnAncestor ==
    ASSUME TypeOK, PathsAreAncestry, NEW n \in DOMAIN node
    PROVE  n \notin ancestorIds(n)
<1> SUFFICES ASSUME n \in ancestorIds(n)
             PROVE  FALSE
  OBVIOUS
<1>1. PICK i \in 1..Len(node[n].path) : n = node[n].path[i]
  BY AncestorIdsAt
<1>2. Len(node[n].path) = i - 1
  BY <1>1, AncestorAt
<1> QED
  BY <1>2

LEMMA AncestorsNest ==
    ASSUME TypeOK, PathsAreAncestry, NEW m \in DOMAIN node, NEW a \in ancestorIds(m)
    PROVE  a \in DOMAIN node /\ ancestorIds(a) \subseteq ancestorIds(m)
<1>1. PICK i \in 1..Len(node[m].path) : a = node[m].path[i]
  BY AncestorIdsAt
<1>2. /\ a \in DOMAIN node
      /\ Len(node[a].path) = i - 1
      /\ \A j \in 1..(i - 1) : node[a].path[j] = node[m].path[j]
  BY <1>1, AncestorAt
<1>3. Len(node[m].path) \in Nat
  BY FieldsTyped, LenProperties
<1>4. \A j \in 1..(i - 1) : j \in 1..Len(node[m].path)
  BY <1>3
<1> QED
  BY <1>2, <1>4, AncestorIdsAt

(* Ancestors are in the node's room, and the room's root is one of them. *)
LEMMA RoomOfAncestor ==
    ASSUME TypeOK, PathsAreAncestry, RoomsAreClosed,
           NEW m \in DOMAIN node, NEW a \in ancestorIds(m)
    PROVE  /\ node[a].roomId = node[m].roomId
           /\ node[m].roomId \in ancestorIds(m)
<1>1. PICK i \in 1..Len(node[m].path) : a = node[m].path[i]
  BY AncestorIdsAt
<1>2. /\ a \in DOMAIN node
      /\ Len(node[a].path) = i - 1
      /\ \A j \in 1..(i - 1) : node[a].path[j] = node[m].path[j]
  BY <1>1, AncestorAt
<1>3. /\ node[m].path \in Seq(Ids) /\ Len(node[m].path) \in Nat
      /\ node[a].path \in Seq(Ids) /\ Len(node[a].path) \in Nat
  BY <1>2, FieldsTyped, LenProperties
<1>4. 1 \in 1..Len(node[m].path) /\ node[m].path # << >>
  BY <1>3, EmptySeq
<1>5. node[m].path[1] = node[m].roomId
  BY <1>4 DEF RoomsAreClosed
<1>6. node[m].roomId \in ancestorIds(m)
  BY <1>4, <1>5, AncestorIdsAt
<1>7. CASE i = 1
  <2>1. node[m].roomId = a
    BY <1>1, <1>5, <1>7
  <2>2. node[a].parentId = NoParent
    BY <2>1 DEF RoomsAreClosed
  <2> QED
    BY <1>2, <2>1, <2>2 DEF RoomsAreClosed
<1>8. CASE i # 1
  <2>1. 1 \in 1..(i - 1) /\ node[a].path # << >>
    BY <1>2, <1>8, <1>3, EmptySeq
  <2>2. node[a].path[1] = node[a].roomId
    BY <1>2, <2>1 DEF RoomsAreClosed
  <2> QED
    BY <1>2, <1>5, <1>6, <2>1, <2>2
<1> QED
  BY <1>6, <1>7, <1>8

LEMMA DescendantsInScope ==
    ASSUME TypeOK, PathsAreAncestry, RoomsAreClosed, NEW n \in DOMAIN node,
           NEW m \in Beneath(n)
    PROVE  m \in withinScope(node[n].roomId)
<1>1. m \in DOMAIN node
  BY DEF Beneath
<1>2. n \in ancestorIds(m)
  BY <1>1, PatternIsMembership
<1>3. node[n].roomId = node[m].roomId /\ node[m].roomId \in ancestorIds(m)
  BY <1>1, <1>2, RoomOfAncestor
<1>4. node[n].roomId \in DOMAIN node
  BY DEF RoomsAreClosed
<1>5. m \in Beneath(node[n].roomId)
  BY <1>1, <1>3, <1>4, PatternIsMembership
<1> QED
  BY <1>5 DEF withinScope

-----------------------------------------------------------------------------
(* Steps that leave every path, pointer, room and type alone. *)

LEMMA SameShape ==
    ASSUME TreeInv, TypeOK', DOMAIN node' = DOMAIN node,
           \A n \in DOMAIN node :
               /\ node'[n].path = node[n].path
               /\ node'[n].parentId = node[n].parentId
               /\ node'[n].roomId = node[n].roomId
               /\ node'[n].type = node[n].type
               /\ node'[n].status = "PENDING" => node[n].status = "PENDING"
    PROVE  TreeInv'
<1>1. PathsAreAncestry'
  <2> SUFFICES ASSUME NEW n \in DOMAIN node
               PROVE  PathIsAncestry(n)'
    BY DEF PathsAreAncestry
  <2>1. PathIsAncestry(n)
    BY DEF TreeInv, PathsAreAncestry
  <2>2. CASE node[n].parentId = NoParent
    BY <2>1, <2>2 DEF PathIsAncestry
  <2>3. CASE node[n].parentId # NoParent
    BY <2>1, <2>3, SMTT(30) DEF PathIsAncestry
  <2> QED
    BY <2>2, <2>3
<1>2. RoomsAreClosed'
  BY DEF TreeInv, RoomsAreClosed
<1>3. OnlyFoldersHoldNodes'
  BY DEF TreeInv, OnlyFoldersHoldNodes, ancestorIds
<1> QED
  BY <1>1, <1>2, <1>3 DEF TreeInv

(* Rows may go when nothing that stays names one of them. *)
LEMMA DeleteKeeps ==
    ASSUME TreeInv, NEW S, DeleteRows(S),
           \A m \in DOMAIN node \ S :
               /\ ancestorIds(m) \cap S = {}
               /\ node[m].roomId \notin S
    PROVE  TreeInv'
<1>1. /\ DOMAIN node' = DOMAIN node \ S
      /\ \A m \in DOMAIN node' : node'[m] = node[m]
  BY DEF DeleteRows
<1>2. TypeOK'
  BY DeleteTyped DEF TreeInv
<1>3. PathsAreAncestry'
  <2> SUFFICES ASSUME NEW n \in DOMAIN node \ S
               PROVE  PathIsAncestry(n)'
    BY <1>1 DEF PathsAreAncestry
  <2>1. PathIsAncestry(n) /\ node'[n] = node[n]
    BY <1>1 DEF TreeInv, PathsAreAncestry
  <2>2. \A i \in 1..Len(node[n].path) : node[n].path[i] \notin S
    BY AncestorIdsAt DEF TreeInv
  <2>3. CASE node[n].parentId = NoParent
    BY <2>1, <2>3 DEF PathIsAncestry
  <2>4. CASE node[n].parentId # NoParent
    BY <1>1, <2>1, <2>2, <2>4 DEF PathIsAncestry
  <2> QED
    BY <2>3, <2>4
<1>4. RoomsAreClosed'
  BY <1>1 DEF TreeInv, RoomsAreClosed
<1>5. OnlyFoldersHoldNodes'
  BY <1>1 DEF TreeInv, OnlyFoldersHoldNodes, ancestorIds
<1> QED
  BY <1>2, <1>3, <1>4, <1>5 DEF TreeInv

LEMMA RemoveRoomKeeps ==
    ASSUME TreeInv, NEW r \in Ids, RemoveRoom(r)
    PROVE  TreeInv'
<1> DEFINE S == {m \in DOMAIN node : node[m].roomId = r}
<1>1. DeleteRows(S)
  BY DEF RemoveRoom
<1>2. ASSUME NEW m \in DOMAIN node \ S
      PROVE  ancestorIds(m) \cap S = {} /\ node[m].roomId \notin S
  <2>1. \A a \in ancestorIds(m) : node[a].roomId = node[m].roomId
    BY RoomOfAncestor DEF TreeInv
  <2>2. node[node[m].roomId].roomId = node[m].roomId
    BY DEF TreeInv, RoomsAreClosed
  <2> QED
    BY <2>1, <2>2
<1> QED
  BY <1>1, <1>2, DeleteKeeps

LEMMA SweepKeeps ==
    ASSUME TreeInv, NEW n \in Ids, SweepPending(n)
    PROVE  TreeInv'
<1>1. n \in DOMAIN node /\ node[n].type = "FILE" /\ DeleteRows({n})
  BY DEF TreeInv, SweepPending, OnlyFoldersHoldNodes
<1>2. ASSUME NEW m \in DOMAIN node \ {n}
      PROVE  ancestorIds(m) \cap {n} = {} /\ node[m].roomId \notin {n}
  <2>1. n \notin ancestorIds(m)
    BY <1>1 DEF TreeInv, OnlyFoldersHoldNodes
  <2>2. node[m].roomId # n
    BY <1>1 DEF TreeInv, OnlyFoldersHoldNodes, RoomsAreClosed
  <2> QED
    BY <2>1, <2>2
<1> QED
  BY <1>1, <1>2, DeleteKeeps

-----------------------------------------------------------------------------
(* A prefix given position by position is SubSeq. *)
LEMMA IsPrefix ==
    ASSUME NEW p \in Seq(Ids), NEW i \in 1..Len(p), NEW q \in Seq(Ids),
           Len(q) = i - 1, \A j \in 1..(i - 1) : q[j] = p[j]
    PROVE  q = SubSeq(p, 1, i - 1)
<1>1. i - 1 \in Nat /\ i - 1 <= Len(p)
  BY LenProperties
<1>2. /\ SubSeq(p, 1, i - 1) \in Seq(Ids)
      /\ Len(SubSeq(p, 1, i - 1)) = i - 1
      /\ \A j \in 1..(i - 1) : SubSeq(p, 1, i - 1)[j] = p[j]
  BY <1>1, PrefixTyped
<1> DEFINE s == SubSeq(p, 1, i - 1)
<1> HIDE DEF s
<1>3. s \in Seq(Ids) /\ Len(q) = Len(s) /\ \A j \in 1..Len(q) : q[j] = s[j]
  BY <1>2 DEF s
<1>4. q = s
  BY <1>3, SeqEqual
<1> QED
  BY <1>4 DEF s

(* A new row below p, or a new root, disturbs no other row. *)
LEMMA AddChildKeeps ==
    ASSUME TreeInv, NEW room \in Ids, NEW p \in Ids, NEW n \in Ids, NEW nm \in Names,
           NEW type \in {"FOLDER", "FILE"}, NEW status \in {"PENDING", "ACTIVE"},
           status = "PENDING" => type = "FILE",
           AddChild(room, p, n, nm, type, status)
    PROVE  TreeInv'
<1>1. /\ p \in DOMAIN node /\ node[p].roomId = room /\ node[p].type = "FOLDER"
      /\ room \in DOMAIN node
      /\ n \notin DOMAIN node
      /\ DOMAIN node' = DOMAIN node \cup {n}
      /\ \A m \in DOMAIN node : node'[m] = node[m]
      /\ node'[n].path = childPath(p) /\ node'[n].parentId = p
      /\ node'[n].roomId = room
      /\ node'[n].type = type /\ node'[n].status = status
  BY DEF AddChild, Admits, Insert
<1>2. TypeOK'
  BY AddChildTyped DEF TreeInv
<1>3. /\ node[p].path \in Seq(Ids) /\ Len(node[p].path) \in Nat
      /\ childPath(p) \in Seq(Ids)
      /\ Len(childPath(p)) = Len(node[p].path) + 1
      /\ childPath(p)[Len(node[p].path) + 1] = p
      /\ \A i \in 1..Len(node[p].path) : childPath(p)[i] = node[p].path[i]
  BY <1>1, FieldsTyped, LenProperties DEF TreeInv
<1>4. ASSUME NEW i \in 1..Len(childPath(p))
      PROVE  /\ childPath(p)[i] \in DOMAIN node
             /\ Len(node[childPath(p)[i]].path) = i - 1
             /\ \A j \in 1..(i - 1) : node[childPath(p)[i]].path[j] = childPath(p)[j]
             /\ node[childPath(p)[i]].type = "FOLDER"
  <2>1. CASE i = Len(node[p].path) + 1
    BY <1>1, <1>3, <2>1
  <2>2. CASE i # Len(node[p].path) + 1
    <3>1. i \in 1..Len(node[p].path) /\ childPath(p)[i] = node[p].path[i]
      BY <1>3, <2>2
    <3>2. /\ node[p].path[i] \in DOMAIN node
          /\ Len(node[node[p].path[i]].path) = i - 1
          /\ \A j \in 1..(i - 1) : node[node[p].path[i]].path[j] = node[p].path[j]
      BY <1>1, <3>1, AncestorAt DEF TreeInv
    <3>3. node[p].path[i] \in ancestorIds(p)
      BY <1>1, <3>1, AncestorIdsAt DEF TreeInv
    <3>4. node[node[p].path[i]].type = "FOLDER"
      BY <1>1, <3>3 DEF TreeInv, OnlyFoldersHoldNodes
    <3>5. \A j \in 1..(i - 1) : childPath(p)[j] = node[p].path[j]
      BY <1>3, <3>1
    <3> QED
      BY <3>1, <3>2, <3>4, <3>5
  <2> QED
    BY <2>1, <2>2
<1>5. PathsAreAncestry'
  <2>1. PathIsAncestry(n)'
    <3>1. node'[n].parentId # NoParent
      BY <1>1, NoParentAssumption
    <3>2. /\ childPath(p) # << >>
          /\ childPath(p)[Len(childPath(p))] = p
      BY <1>3, EmptySeq
    <3>3. ASSUME NEW i \in 1..Len(childPath(p))
          PROVE  /\ childPath(p)[i] \in DOMAIN node'
                 /\ node'[childPath(p)[i]].path = SubSeq(childPath(p), 1, i - 1)
      <4>1. childPath(p)[i] \in DOMAIN node
        BY <1>4
      <4>2. node[childPath(p)[i]].path \in Seq(Ids)
        BY <4>1, FieldsTyped DEF TreeInv
      <4>3. node[childPath(p)[i]].path = SubSeq(childPath(p), 1, i - 1)
        BY <1>3, <1>4, <4>2, IsPrefix
      <4> QED
        BY <1>1, <4>1, <4>3
    <3> QED
      BY <1>1, <3>1, <3>2, <3>3 DEF PathIsAncestry
  <2>2. ASSUME NEW m \in DOMAIN node
        PROVE  PathIsAncestry(m)'
    <3>1. PathIsAncestry(m) /\ node'[m] = node[m]
      BY <1>1 DEF TreeInv, PathsAreAncestry
    <3>2. CASE node[m].parentId = NoParent
      BY <3>1, <3>2 DEF PathIsAncestry
    <3>3. CASE node[m].parentId # NoParent
      BY <1>1, <3>1, <3>3 DEF PathIsAncestry
    <3> QED
      BY <3>2, <3>3
  <2> QED
    BY <1>1, <2>1, <2>2 DEF PathsAreAncestry
<1>6. RoomsAreClosed'
  <2>1. childPath(p)[1] = room
    <3>1. CASE node[p].path = << >>
      <4>1. node[p].parentId = NoParent
        BY <1>1, <3>1 DEF TreeInv, PathsAreAncestry, PathIsAncestry
      <4>2. p = room
        BY <1>1, <4>1 DEF TreeInv, RoomsAreClosed
      <4> QED
        BY <1>3, <3>1, <4>2, EmptySeq
    <3>2. CASE node[p].path # << >>
      <4>1. node[p].path[1] = room
        BY <1>1, <3>2 DEF TreeInv, RoomsAreClosed
      <4>2. 1 \in 1..Len(node[p].path)
        BY <1>3, <3>2, EmptySeq
      <4> QED
        BY <1>3, <4>1, <4>2
    <3> QED
      BY <3>1, <3>2
  <2>2. node[room].parentId = NoParent
    BY <1>1 DEF TreeInv, RoomsAreClosed
  <2> QED
    BY <1>1, <2>1, <2>2, NoParentAssumption DEF TreeInv, RoomsAreClosed
<1>7. OnlyFoldersHoldNodes'
  <2>1. \A a : a \in ancestorIds(n)' => a \in DOMAIN node /\ node[a].type = "FOLDER"
    <3>1. DOMAIN childPath(p) = 1..Len(childPath(p))
      BY <1>3, LenProperties
    <3> QED
      BY <1>1, <1>4, <3>1 DEF ancestorIds
  <2>2. \A m \in DOMAIN node : ancestorIds(m)' = ancestorIds(m)
    BY <1>1 DEF ancestorIds
  <2> QED
    BY <1>1, <2>1, <2>2, NoParentAssumption DEF TreeInv, OnlyFoldersHoldNodes
<1> QED
  BY <1>2, <1>5, <1>6, <1>7 DEF TreeInv

-----------------------------------------------------------------------------
(* The move. *)

(* What the two UPDATEs write, row by row.  The scope predicate takes      *)
(* nothing away: every descendant is in the room's scope.                  *)
LEMMA MoveEffect ==
    ASSUME TreeInv, NEW src \in Ids, NEW dst \in Ids, Move(src, dst)
    PROVE  /\ src \in DOMAIN node /\ dst \in DOMAIN node
           /\ DOMAIN node' = DOMAIN node
           /\ dst # src /\ dst \notin Beneath(src) /\ src \notin Beneath(src)
           /\ node[dst].type = "FOLDER" /\ node[dst].roomId = node[src].roomId
           /\ node[src].parentId # NoParent
           /\ Live(src) /\ Live(dst)
           /\ node'[src].path = childPath(dst) /\ node'[src].parentId = dst
           /\ \A m \in Beneath(src) :
                 /\ m \in DOMAIN node
                 /\ node'[m].path = Repath(m, childPath(src), Append(childPath(dst), src))
                 /\ node'[m].parentId = node[m].parentId
           /\ \A m \in DOMAIN node \ (Beneath(src) \cup {src}) : node'[m] = node[m]
           /\ \A m \in DOMAIN node :
                 /\ node'[m].roomId = node[m].roomId
                 /\ node'[m].type = node[m].type
                 /\ node'[m].status = node[m].status
                 /\ node'[m].deleted = node[m].deleted
<1>1. /\ src \in DOMAIN node /\ dst \in DOMAIN node
      /\ Live(src) /\ Live(dst)
      /\ dst # src /\ node[dst].type = "FOLDER" /\ node[dst].roomId = node[src].roomId
      /\ src # node[src].roomId
      /\ dst \notin Beneath(src)
      /\ node' = Moved(src, dst)
  BY DEF Move, Admits, Beneath
<1>2. src \notin Beneath(src)
  BY <1>1, NotOwnAncestor, PatternIsMembership DEF TreeInv
<1>3. node[src].parentId # NoParent
  BY <1>1 DEF TreeInv, RoomsAreClosed
<1>4. \A m \in Beneath(src) : m \in DOMAIN node /\ m \in withinScope(node[src].roomId)
  BY <1>1, DescendantsInScope DEF TreeInv, Beneath
<1>5. \A m \in DOMAIN node : node[m] \in Row
  BY DEF TreeInv, TypeOK
<1>6. DOMAIN node' = DOMAIN node
  BY <1>1 DEF Moved
<1>7. /\ node'[src].path = childPath(dst) /\ node'[src].parentId = dst
      /\ node'[src].roomId = node[src].roomId /\ node'[src].type = node[src].type
      /\ node'[src].status = node[src].status /\ node'[src].deleted = node[src].deleted
  BY <1>1, <1>5 DEF Moved, Row
<1>8. ASSUME NEW m \in Beneath(src)
      PROVE  /\ node'[m].path = Repath(m, childPath(src), Append(childPath(dst), src))
             /\ node'[m].parentId = node[m].parentId
             /\ node'[m].roomId = node[m].roomId /\ node'[m].type = node[m].type
             /\ node'[m].status = node[m].status /\ node'[m].deleted = node[m].deleted
  BY <1>1, <1>2, <1>4, <1>5 DEF Moved, Row
<1>9. \A m \in DOMAIN node \ (Beneath(src) \cup {src}) : node'[m] = node[m]
  BY <1>1 DEF Moved
<1> QED
  BY <1>1, <1>2, <1>3, <1>4, <1>6, <1>7, <1>8, <1>9

(* Nothing above a row that stays, such as the destination, moves. *)
LEMMA AboveDestinationStays ==
    ASSUME TreeInv, NEW src \in DOMAIN node, NEW dst \in DOMAIN node,
           dst \notin Beneath(src)
    PROVE  \A a \in ancestorIds(dst) : a # src /\ a \notin Beneath(src)
<1> SUFFICES ASSUME NEW a \in ancestorIds(dst), a = src \/ a \in Beneath(src)
             PROVE  FALSE
  OBVIOUS
<1>1. src \notin ancestorIds(dst)
  BY PatternIsMembership DEF TreeInv
<1>2. a \in DOMAIN node /\ ancestorIds(a) \subseteq ancestorIds(dst)
  BY AncestorsNest DEF TreeInv
<1>3. a \in Beneath(src)
  BY <1>1
<1>4. src \in ancestorIds(a)
  BY <1>2, <1>3, PatternIsMembership DEF TreeInv
<1> QED
  BY <1>1, <1>2, <1>4

(* The row named at position i of m's path after the move is the right one. *)
NamesAncestor(m, i) ==
    LET a == node'[m].path[i] IN
    /\ a \in DOMAIN node
    /\ node[a].type = "FOLDER"
    /\ Live(m) /\ TombstonesReachDown => Live(a)
    /\ Len(node'[a].path) = i - 1
    /\ \A j \in 1..(i - 1) : node'[a].path[j] = node'[m].path[j]

(* The same before the move. *)
LEMMA NamedBefore ==
    ASSUME TreeInv, NEW m \in DOMAIN node, NEW i \in 1..Len(node[m].path),
           NEW a, a = node[m].path[i]
    PROVE  /\ a \in DOMAIN node
           /\ a \in ancestorIds(m)
           /\ node[a].type = "FOLDER"
           /\ Live(m) /\ TombstonesReachDown => Live(a)
           /\ Len(node[a].path) = i - 1
           /\ \A j \in 1..(i - 1) : node[a].path[j] = node[m].path[j]
<1>1. a \in ancestorIds(m)
  BY AncestorIdsAt DEF TreeInv
<1>2. node[a].type = "FOLDER"
  BY <1>1 DEF TreeInv, OnlyFoldersHoldNodes
<1>3. TombstonesReachDown /\ Live(m) => Live(a)
  BY <1>1 DEF TombstonesReachDown
<1> QED
  BY <1>1, <1>2, <1>3, AncestorAt DEF TreeInv

(* Up to and including dst, the path of a moved row is that of a child of  *)
(* dst, and none of these rows moves.                                      *)
LEMMA NamedUpToDestination ==
    ASSUME TreeInv, NEW src \in Ids, NEW dst \in Ids, Move(src, dst),
           NEW m \in DOMAIN node,
           NEW i \in 1..(Len(node[dst].path) + 1),
           \A j \in 1..Len(node[dst].path) : node'[m].path[j] = node[dst].path[j],
           node'[m].path[Len(node[dst].path) + 1] = dst
    PROVE  NamesAncestor(m, i)
<1>0. /\ src \in DOMAIN node /\ dst \in DOMAIN node
      /\ dst # src /\ dst \notin Beneath(src)
      /\ node[dst].type = "FOLDER" /\ Live(dst)
      /\ \A x \in DOMAIN node \ (Beneath(src) \cup {src}) : node'[x] = node[x]
  BY MoveEffect
<1>1. Len(node[dst].path) \in Nat
  BY <1>0, LensTyped DEF TreeInv
<1>2. CASE i = Len(node[dst].path) + 1
  <2>1. node'[dst].path = node[dst].path
    BY <1>0
  <2>2. i - 1 = Len(node[dst].path)
    BY <1>1, <1>2
  <2> QED
    BY <1>0, <1>2, <2>1, <2>2 DEF NamesAncestor
<1>3. CASE i # Len(node[dst].path) + 1
  <2>1. i \in 1..Len(node[dst].path)
    BY <1>1, <1>3
  <2>2. PICK a : a = node[dst].path[i]
    OBVIOUS
  <2>3. /\ a \in DOMAIN node
        /\ a \in ancestorIds(dst)
        /\ node[a].type = "FOLDER"
        /\ Live(dst) /\ TombstonesReachDown => Live(a)
        /\ Len(node[a].path) = i - 1
        /\ \A j \in 1..(i - 1) : node[a].path[j] = node[dst].path[j]
    <3>1. dst \in DOMAIN node /\ TreeInv
      BY <1>0
    <3> QED
      BY ONLY <2>1, <2>2, <3>1, NamedBefore
  <2>4. a # src /\ a \notin Beneath(src)
    BY <1>0, <2>3, AboveDestinationStays
  <2>5. node'[a] = node[a]
    BY <1>0, <2>3, <2>4
  <2>6. node'[m].path[i] = a
    BY <2>1, <2>2
  <2>7. \A j \in 1..(i - 1) : node'[m].path[j] = node[dst].path[j]
    BY <1>1, <2>1
  <2> QED
    BY <1>0, <2>3, <2>5, <2>6, <2>7 DEF NamesAncestor
<1> QED
  BY <1>2, <1>3

LEMMA MovedBelow ==
    ASSUME TreeInv, NEW src \in Ids, NEW dst \in Ids, Move(src, dst),
           NEW m \in Beneath(src), NEW i \in 1..Len(node'[m].path)
    PROVE  NamesAncestor(m, i)
<1>0. /\ src \in DOMAIN node /\ dst \in DOMAIN node /\ m \in DOMAIN node
      /\ Live(src)
      /\ node'[src].path = childPath(dst)
      /\ \A x \in Beneath(src) :
            node'[x].path = Repath(x, childPath(src), Append(childPath(dst), src))
  BY MoveEffect DEF Beneath
<1>1. PICK k, l, p, q, d :
        /\ k = CutLen(src) /\ l = NewLen(dst)
        /\ p = node[m].path /\ q = node'[m].path /\ d = node[dst].path
  OBVIOUS
<1>2. /\ k \in Nat /\ l \in Nat /\ Len(d) \in Nat /\ l = Len(d) + 2
      /\ Len(p) \in Nat
      /\ k = Len(node[src].path) + 1
  BY <1>0, <1>1, LensTyped DEF TreeInv
<1>3. Replaced(q, p, k, l, d, dst, src)
  BY <1>0, <1>1, RepathTyped DEF TreeInv
<1>4. /\ k <= Len(p)
      /\ Len(q) = l + (Len(p) - k)
      /\ \A j \in 1..Len(d) : q[j] = d[j]
      /\ q[l - 1] = dst
      /\ q[l] = src
      /\ \A j \in (l + 1)..Len(q) : q[j] = p[j - l + k]
  BY <1>3 DEF Replaced
<1>5. CASE i <= Len(d) + 1
  <2>1. l - 1 = Len(d) + 1
    BY <1>2
  <2> QED
    BY <1>0, <1>1, <1>2, <1>4, <1>5, <2>1, NamedUpToDestination
<1>6. CASE i = l
  <2>1. /\ Len(childPath(dst)) = Len(d) + 1
        /\ childPath(dst)[Len(d) + 1] = dst
        /\ \A j \in 1..Len(d) : childPath(dst)[j] = d[j]
    BY <1>0, <1>1, FieldsTyped DEF TreeInv
  <2>2. ASSUME NEW j \in 1..(i - 1)
        PROVE  childPath(dst)[j] = q[j]
    <3>1. CASE j = Len(d) + 1
      <4>1. j = l - 1
        BY <1>2, <3>1
      <4> QED
        BY <1>4, <2>1, <3>1, <4>1
    <3>2. CASE j # Len(d) + 1
      <4>1. j \in 1..Len(d)
        BY <1>2, <1>6, <3>2
      <4> QED
        BY <1>4, <2>1, <4>1
    <3> QED
      BY <3>1, <3>2
  <2>3. node[src].type = "FOLDER"
    <3>1. src \in ancestorIds(m)
      BY <1>0, PatternIsMembership DEF TreeInv
    <3> QED
      BY <1>0, <3>1 DEF TreeInv, OnlyFoldersHoldNodes
  <2>4. Len(childPath(dst)) = i - 1
    BY <1>2, <1>6, <2>1
  <2>5. node'[m].path[i] = src
    BY <1>1, <1>4, <1>6
  <2> QED
    BY <1>0, <1>1, <2>2, <2>3, <2>4, <2>5 DEF NamesAncestor
<1>7. CASE i > l
  <2>1. PICK h, a : h = i - l + k /\ a = p[h]
    OBVIOUS
  <2>2. i \in (l + 1)..Len(q) /\ h \in 1..Len(p) /\ h > k
    <3>1. Len(q) = l + (Len(p) - k) /\ k <= Len(p) /\ i \in 1..Len(q)
      BY <1>1, <1>4
    <3>2. Len(p) \in Nat /\ k \in Nat /\ l \in Nat /\ i > l /\ h = i - l + k
      BY <1>2, <1>7, <2>1
    <3> Len(q) \in Int
      BY <3>1, <3>2
    <3>3. PICK n \in Nat, x \in Int : n = Len(p) /\ x = Len(q)
      BY <3>2
    <3>4. i \in (l + 1)..x /\ h \in 1..n /\ h > k
      BY ONLY <3>1, <3>2, <3>3
    <3> QED
      BY <3>3, <3>4
  <2>3. q[i] = a
    BY <1>4, <2>1, <2>2
  <2>4. /\ a \in DOMAIN node
        /\ node[a].type = "FOLDER"
        /\ TombstonesReachDown /\ Live(m) => Live(a)
        /\ Len(node[a].path) = h - 1
        /\ \A j \in 1..(h - 1) : node[a].path[j] = p[j]
    BY <1>0, <1>1, <2>1, <2>2, NamedBefore
  <2>5. a \in Beneath(src)
    <3>1. Len(childPath(src)) = k
      BY <1>0, <1>2, FieldsTyped DEF TreeInv
    <3>2. \A j \in 1..k : p[j] = childPath(src)[j]
      BY <1>1, <3>1 DEF Beneath, StartsWith
    <3>3. k <= Len(node[a].path) /\ \A j \in 1..k : j \in 1..(h - 1)
      BY <1>2, <2>2, <2>4
    <3>4. \A j \in 1..k : node[a].path[j] = childPath(src)[j]
      BY <2>4, <3>2, <3>3
    <3> QED
      BY <2>4, <3>1, <3>3, <3>4 DEF Beneath, StartsWith
  <2>6. PICK qa, pa : qa = node'[a].path /\ pa = node[a].path
    OBVIOUS
  <2>7. Replaced(qa, pa, k, l, d, dst, src)
    BY <1>0, <1>1, <2>5, <2>6, RepathTyped DEF TreeInv
  <2>8. Len(qa) = i - 1 /\ \A j \in 1..(i - 1) : qa[j] = q[j]
    <3>1. Len(pa) = h - 1 /\ \A j \in 1..(h - 1) : pa[j] = p[j]
      BY <2>4, <2>6
    <3>2. Len(qa) = i - 1
      <4>1. Len(qa) = l + ((h - 1) - k)
        BY <2>7, <3>1 DEF Replaced
      <4>2. k \in Nat /\ l \in Nat /\ i \in Int /\ h = i - l + k
        BY <1>2, <2>1, <2>2
      <4> QED
        BY ONLY <4>1, <4>2
    <3>3. ASSUME NEW j \in 1..(i - 1)
          PROVE  qa[j] = q[j]
      <4>1. CASE j \in 1..Len(d)
        BY <1>4, <2>7, <4>1 DEF Replaced
      <4>2. CASE j = l - 1 \/ j = l
        BY <1>4, <2>7, <4>2 DEF Replaced
      <4>3. CASE j > l
        <5>1. j \in (l + 1)..Len(qa) /\ j \in (l + 1)..Len(q)
          BY <1>2, <2>2, <3>2, <4>3
        <5>2. qa[j] = pa[j - l + k] /\ q[j] = p[j - l + k]
          BY <1>4, <2>7, <5>1 DEF Replaced
        <5>3. j - l + k \in 1..(h - 1)
          <6>1. k \in Nat /\ l \in Nat /\ i \in Int /\ h = i - l + k
            BY <1>2, <2>1, <2>2
          <6>2. j \in Int /\ j > l /\ j <= i - 1
            BY <4>3, <6>1
          <6> QED
            BY ONLY <6>1, <6>2
        <5> QED
          BY <3>1, <5>2, <5>3
      <4> QED
        BY <1>2, <4>1, <4>2, <4>3
    <3> QED
      BY <3>2, <3>3
  <2> QED
    BY <1>1, <2>3, <2>4, <2>6, <2>8 DEF NamesAncestor
<1>8. i <= Len(d) + 1 \/ i = l \/ i > l
  BY <1>1, <1>2, <1>4
<1> QED
  BY <1>5, <1>6, <1>7, <1>8

LEMMA MovedAncestors ==
    ASSUME TreeInv, NEW src \in Ids, NEW dst \in Ids, Move(src, dst),
           NEW m \in DOMAIN node, NEW i \in 1..Len(node'[m].path)
    PROVE  NamesAncestor(m, i)
<1>0. /\ src \in DOMAIN node /\ dst \in DOMAIN node
      /\ node'[src].path = childPath(dst)
      /\ \A x \in DOMAIN node \ (Beneath(src) \cup {src}) : node'[x] = node[x]
  BY MoveEffect
<1>1. CASE m = src
  <2>1. /\ Len(childPath(dst)) = Len(node[dst].path) + 1
        /\ childPath(dst)[Len(node[dst].path) + 1] = dst
        /\ \A j \in 1..Len(node[dst].path) : childPath(dst)[j] = node[dst].path[j]
    BY <1>0, FieldsTyped DEF TreeInv
  <2> QED
    BY <1>0, <1>1, <2>1, NamedUpToDestination
<1>2. CASE m \in Beneath(src)
  BY <1>2, MovedBelow
<1>3. CASE m # src /\ m \notin Beneath(src)
  <2>1. node'[m] = node[m]
    BY <1>0, <1>3
  <2>2. PICK a : a = node[m].path[i]
    OBVIOUS
  <2>3. /\ a \in DOMAIN node
        /\ a \in ancestorIds(m)
        /\ node[a].type = "FOLDER"
        /\ Live(m) /\ TombstonesReachDown => Live(a)
        /\ Len(node[a].path) = i - 1
        /\ \A j \in 1..(i - 1) : node[a].path[j] = node[m].path[j]
    BY <2>1, <2>2, NamedBefore
  <2>4. a # src /\ a \notin Beneath(src)
    BY <1>0, <1>3, <2>3, AboveDestinationStays
  <2>5. node'[a] = node[a]
    BY <1>0, <2>3, <2>4
  <2> QED
    BY <2>1, <2>2, <2>3, <2>5 DEF NamesAncestor
<1> QED
  BY <1>1, <1>2, <1>3

LEMMA MoveKeeps ==
    ASSUME TreeInv, NEW src \in Ids, NEW dst \in Ids, Move(src, dst)
    PROVE  TreeInv'
<1>0. /\ src \in DOMAIN node /\ dst \in DOMAIN node
      /\ DOMAIN node' = DOMAIN node
      /\ node[dst].roomId = node[src].roomId
      /\ node[src].parentId # NoParent
      /\ node'[src].path = childPath(dst) /\ node'[src].parentId = dst
      /\ \A m \in Beneath(src) :
            /\ m \in DOMAIN node
            /\ node'[m].path = Repath(m, childPath(src), Append(childPath(dst), src))
            /\ node'[m].parentId = node[m].parentId
      /\ \A m \in DOMAIN node \ (Beneath(src) \cup {src}) : node'[m] = node[m]
      /\ \A m \in DOMAIN node :
            /\ node'[m].roomId = node[m].roomId
            /\ node'[m].type = node[m].type
            /\ node'[m].status = node[m].status
  BY MoveEffect
<1>1. TypeOK'
  BY MoveTyped DEF TreeInv
<1>2. \A m \in DOMAIN node : node'[m].path \in Seq(Ids) /\ Len(node'[m].path) \in Nat
  <2>1. \A m \in DOMAIN node : node'[m] \in Row
    BY <1>0, <1>1 DEF TypeOK
  <2> QED
    BY <2>1, LenProperties DEF Row
<1>3. \A m \in DOMAIN node : \A i \in 1..Len(node'[m].path) : NamesAncestor(m, i)
  BY MovedAncestors
<1>4. /\ node[dst].path \in Seq(Ids) /\ Len(node[dst].path) \in Nat
      /\ Len(childPath(dst)) = Len(node[dst].path) + 1
      /\ childPath(dst)[Len(node[dst].path) + 1] = dst
      /\ \A j \in 1..Len(node[dst].path) : childPath(dst)[j] = node[dst].path[j]
  BY <1>0, FieldsTyped, LensTyped DEF TreeInv
(* A row below src: its path is at least dst, src long, starts where dst's *)
(* starts and ends where it ended.                                         *)
<1>5. ASSUME NEW m \in Beneath(src)
      PROVE  /\ Len(node'[m].path) \in Nat \ {0}
             /\ node'[m].path[Len(node'[m].path)] = node[m].parentId
             /\ node'[m].path[1] = node[m].roomId
             /\ node[m].parentId # NoParent
  <2>1. PICK k, l, p, q, d :
          /\ k = CutLen(src) /\ l = NewLen(dst)
          /\ p = node[m].path /\ q = node'[m].path /\ d = node[dst].path
    OBVIOUS
  <2>2. /\ k \in Nat /\ l \in Nat /\ Len(d) \in Nat /\ l = Len(d) + 2
        /\ Len(p) \in Nat /\ p \in Seq(Ids)
        /\ Len(q) \in Nat
        /\ k = Len(node[src].path) + 1
    BY <1>0, <1>2, <2>1, LensTyped, FieldsTyped DEF TreeInv
  <2>3. Replaced(q, p, k, l, d, dst, src)
    BY <1>0, <2>1, RepathTyped DEF TreeInv
  <2>4. /\ Len(p) \in 1..Len(p) /\ p # << >>
        /\ Len(q) \in Nat /\ Len(q) >= l
        /\ Len(q) = l + (Len(p) - k) /\ k <= Len(p)
    <3>1. Len(q) = l + (Len(p) - k) /\ k <= Len(p)
      BY <2>3 DEF Replaced
    <3>2. k >= 1
      BY <1>0, <2>2, LensTyped DEF TreeInv
    <3>3. PICK x \in Nat, y \in Nat : x = Len(p) /\ y = Len(q)
      BY <2>2
    <3>4. y = l + (x - k) /\ k <= x /\ k \in Nat /\ l \in Nat
      BY <2>2, <3>1, <3>3
    <3>5. x \in 1..x /\ y >= l
      BY ONLY <3>2, <3>3, <3>4
    <3>6. Len(p) \in 1..Len(p) /\ Len(q) >= l
      BY <3>3, <3>5
    <3>7. p # << >>
      BY <3>6, EmptySeq
    <3> QED
      BY <2>2, <3>1, <3>6, <3>7
  <2>5. node[m].parentId # NoParent /\ p[Len(p)] = node[m].parentId
    BY <1>0, <2>1, <2>4 DEF TreeInv, PathsAreAncestry, PathIsAncestry, ROOT_PATH
  <2>6. q[Len(q)] = p[Len(p)]
    <3>1. CASE Len(p) = k
      <4>1. Len(q) = l /\ q[l] = src
        BY <2>2, <2>3, <3>1 DEF Replaced
      <4>2. p[k] = src
        <5>1. /\ Len(childPath(src)) = k /\ childPath(src)[k] = src
          BY <1>0, <2>2, FieldsTyped DEF TreeInv
        <5> QED
          BY <2>1, <2>2, <5>1 DEF Beneath, StartsWith
      <4> QED
        BY <3>1, <4>1, <4>2
    <3>2. CASE Len(p) # k
      <4>1. Len(q) \in (l + 1)..Len(q) /\ Len(q) - l + k = Len(p)
        <5>1. PICK x \in Nat, y \in Nat : x = Len(p) /\ y = Len(q)
          BY <2>2
        <5>2. y = l + (x - k) /\ k <= x /\ x # k /\ k \in Nat /\ l \in Nat
          BY <2>2, <2>4, <3>2, <5>1
        <5>3. y \in (l + 1)..y /\ y - l + k = x
          BY ONLY <5>1, <5>2
        <5> QED
          BY <5>1, <5>3
      <4> QED
        BY <2>3, <4>1 DEF Replaced
    <3> QED
      BY <3>1, <3>2
  <2>7. q[1] = node[m].roomId
    <3>1. node[m].roomId = node[src].roomId
      <4>1. src \in ancestorIds(m)
        BY <1>0, PatternIsMembership DEF TreeInv
      <4> QED
        BY <1>0, <4>1, RoomOfAncestor DEF TreeInv
    <3>2. CASE d = << >>
      <4>1. node[dst].parentId = NoParent
        BY <1>0, <2>1, <3>2 DEF TreeInv, PathsAreAncestry, PathIsAncestry
      <4>2. dst = node[dst].roomId
        BY <1>0, <4>1 DEF TreeInv, RoomsAreClosed
      <4>3. l - 1 = 1 /\ q[l - 1] = dst
        BY <2>2, <2>3, <3>2, EmptySeq DEF Replaced
      <4> QED
        BY <1>0, <3>1, <4>2, <4>3
    <3>3. CASE d # << >>
      <4>1. 1 \in 1..Len(d) /\ d[1] = node[dst].roomId
        BY <1>0, <1>4, <2>1, <3>3, EmptySeq DEF TreeInv, RoomsAreClosed
      <4>2. q[1] = d[1]
        BY <2>3, <4>1 DEF Replaced
      <4> QED
        BY <1>0, <3>1, <4>1, <4>2
    <3> QED
      BY <3>2, <3>3
  <2>8. Len(q) \in Nat \ {0}
    BY <2>2, <2>4
  <2> QED
    BY <2>1, <2>5, <2>6, <2>7, <2>8
<1>6. PathsAreAncestry'
  <2> SUFFICES ASSUME NEW m \in DOMAIN node
               PROVE  PathIsAncestry(m)'
    BY <1>0 DEF PathsAreAncestry
  <2>1. ASSUME NEW i \in 1..Len(node'[m].path)
        PROVE  /\ node'[m].path[i] \in DOMAIN node'
               /\ node'[node'[m].path[i]].path = SubSeq(node'[m].path, 1, i - 1)
    <3>1. PICK a : a = node'[m].path[i]
      OBVIOUS
    <3>2. /\ a \in DOMAIN node
          /\ Len(node'[a].path) = i - 1
          /\ \A j \in 1..(i - 1) : node'[a].path[j] = node'[m].path[j]
      BY <1>3, <3>1 DEF NamesAncestor
    <3>3. node'[a].path \in Seq(Ids) /\ node'[m].path \in Seq(Ids)
      BY <1>2, <3>2
    <3>4. node'[a].path = SubSeq(node'[m].path, 1, i - 1)
      BY <3>2, <3>3, IsPrefix
    <3> QED
      BY <1>0, <3>1, <3>2, <3>4
  <2>2. CASE m = src
    <3>1. /\ node'[m].parentId # NoParent
          /\ node'[m].path # << >>
          /\ node'[m].path[Len(node'[m].path)] = node'[m].parentId
      BY <1>0, <1>4, <2>2, NoParentAssumption, EmptySeq
    <3> QED
      BY <2>1, <3>1 DEF PathIsAncestry
  <2>3. CASE m \in Beneath(src)
    <3>1. /\ node'[m].parentId # NoParent
          /\ node'[m].path # << >>
          /\ node'[m].path[Len(node'[m].path)] = node'[m].parentId
      BY <1>0, <1>5, <2>3, EmptySeq
    <3> QED
      BY <2>1, <3>1 DEF PathIsAncestry
  <2>4. CASE m # src /\ m \notin Beneath(src)
    <3>1. node'[m] = node[m] /\ PathIsAncestry(m)
      BY <1>0, <2>4 DEF TreeInv, PathsAreAncestry
    <3>2. CASE node[m].parentId = NoParent
      BY <3>1, <3>2 DEF PathIsAncestry
    <3>3. CASE node[m].parentId # NoParent
      BY <2>1, <3>1, <3>3 DEF PathIsAncestry
    <3> QED
      BY <3>2, <3>3
  <2> QED
    BY <2>2, <2>3, <2>4
<1>7. RoomsAreClosed'
  <2>1. \A m \in DOMAIN node :
          node'[m].path # << >> => node'[m].path[1] = node[m].roomId
    <3> SUFFICES ASSUME NEW m \in DOMAIN node, node'[m].path # << >>
                 PROVE  node'[m].path[1] = node[m].roomId
      OBVIOUS
    <3>1. CASE m = src
      <4>1. CASE node[dst].path = << >>
        <5>1. node[dst].parentId = NoParent
          BY <1>0, <4>1 DEF TreeInv, PathsAreAncestry, PathIsAncestry
        <5>2. dst = node[dst].roomId
          BY <1>0, <5>1 DEF TreeInv, RoomsAreClosed
        <5> QED
          BY <1>0, <1>4, <3>1, <4>1, <5>2, EmptySeq
      <4>2. CASE node[dst].path # << >>
        <5>1. node[dst].path[1] = node[dst].roomId /\ 1 \in 1..Len(node[dst].path)
          BY <1>0, <1>4, <4>2, EmptySeq DEF TreeInv, RoomsAreClosed
        <5> QED
          BY <1>0, <1>4, <3>1, <5>1
      <4> QED
        BY <4>1, <4>2
    <3>2. CASE m \in Beneath(src)
      BY <1>5, <3>2
    <3>3. CASE m # src /\ m \notin Beneath(src)
      BY <1>0, <3>3 DEF TreeInv, RoomsAreClosed
    <3> QED
      BY <3>1, <3>2, <3>3
  <2>2. \A m \in DOMAIN node :
          (node'[m].parentId = NoParent) <=> (node[m].parentId = NoParent)
    BY <1>0, NoParentAssumption
  <2> QED
    BY <1>0, <2>1, <2>2 DEF TreeInv, RoomsAreClosed
<1>8. OnlyFoldersHoldNodes'
  <2>1. ASSUME NEW m \in DOMAIN node, NEW a \in ancestorIds(m)'
        PROVE  a \in DOMAIN node /\ node[a].type = "FOLDER"
    <3>1. DOMAIN node'[m].path = 1..Len(node'[m].path)
      BY <1>2, LenProperties
    <3>2. PICK i \in 1..Len(node'[m].path) : a = node'[m].path[i]
      BY <3>1 DEF ancestorIds
    <3> QED
      BY <1>3, <3>2 DEF NamesAncestor
  <2>2. \A m \in DOMAIN node :
          (node'[m].parentId = NoParent) => (node[m].parentId = NoParent)
    BY <1>0, NoParentAssumption
  <2> QED
    BY <1>0, <2>1, <2>2 DEF TreeInv, OnlyFoldersHoldNodes
<1> QED
  BY <1>1, <1>6, <1>7, <1>8 DEF TreeInv

-----------------------------------------------------------------------------
(* Every step of the specification keeps the tree invariant. *)
LEMMA StepKeeps ==
    ASSUME TreeInv, [Next]_vars
    PROVE  TreeInv'
<1>1. ASSUME NEW r \in Ids, NEW nm \in Names, CreateRoom(r, nm)
      PROVE  TreeInv'
  <2>1. /\ r \notin DOMAIN node /\ DOMAIN node' = DOMAIN node \cup {r}
        /\ \A m \in DOMAIN node : node'[m] = node[m]
        /\ node'[r].path = << >> /\ node'[r].parentId = NoParent
        /\ node'[r].roomId = r /\ node'[r].type = "FOLDER" /\ node'[r].status = "ACTIVE"
    BY <1>1 DEF CreateRoom, Insert, ROOT_PATH
  <2>2. TypeOK'
    <3> DEFINE row == [roomId |-> r, parentId |-> NoParent, type |-> "FOLDER",
                       name |-> nm, path |-> ROOT_PATH,
                       status |-> "ACTIVE", deleted |-> FALSE]
    <3>1. row \in Row
      BY EmptySeq DEF Row, ROOT_PATH
    <3> QED
      BY <1>1, <3>1, InsertTyped DEF CreateRoom, TreeInv
  <2>3. PathsAreAncestry'
    <3>1. PathIsAncestry(r)'
      BY <2>1 DEF PathIsAncestry, ROOT_PATH
    <3>2. ASSUME NEW m \in DOMAIN node
          PROVE  PathIsAncestry(m)'
      <4>1. PathIsAncestry(m) /\ node'[m] = node[m]
        BY <2>1 DEF TreeInv, PathsAreAncestry
      <4>2. CASE node[m].parentId = NoParent
        BY <4>1, <4>2 DEF PathIsAncestry
      <4>3. CASE node[m].parentId # NoParent
        BY <2>1, <4>1, <4>3 DEF PathIsAncestry
      <4> QED
        BY <4>2, <4>3
    <3> QED
      BY <2>1, <3>1, <3>2 DEF PathsAreAncestry
  <2>4. RoomsAreClosed'
    BY <2>1 DEF TreeInv, RoomsAreClosed
  <2>5. OnlyFoldersHoldNodes'
    <3>1. ancestorIds(r)' = {}
      BY <2>1 DEF ancestorIds
    <3>2. \A m \in DOMAIN node : ancestorIds(m)' = ancestorIds(m)
      BY <2>1 DEF ancestorIds
    <3> QED
      BY <2>1, <3>1, <3>2 DEF TreeInv, OnlyFoldersHoldNodes
  <2> QED
    BY <2>2, <2>3, <2>4, <2>5 DEF TreeInv
<1>2. ASSUME NEW r \in Ids, RemoveRoom(r)
      PROVE  TreeInv'
  BY <1>2, RemoveRoomKeeps
<1>3. ASSUME NEW r \in Ids, NEW p \in Ids, NEW n \in Ids, NEW nm \in Names,
             CreateFolder(r, p, n, nm)
      PROVE  TreeInv'
  BY <1>3, AddChildKeeps DEF CreateFolder
<1>4. ASSUME NEW r \in Ids, NEW p \in Ids, NEW n \in Ids, NEW nm \in Names,
             PresignNewFile(r, p, n, nm)
      PROVE  TreeInv'
  BY <1>4, AddChildKeeps DEF PresignNewFile
<1>5. ASSUME NEW n \in Ids, Confirm(n)
      PROVE  TreeInv'
  <2>1. TypeOK' /\ DOMAIN node' = DOMAIN node
    BY <1>5, ZenonT(30) DEF Confirm, Admits, TreeInv, TypeOK, Row
  <2> QED
    BY <1>5, <2>1, SameShape, SMTT(30) DEF Confirm, Admits, TreeInv, TypeOK, Row
<1>6. ASSUME NEW n \in Ids, RejectUpload(n)
      PROVE  TreeInv'
  <2>1. TypeOK' /\ DOMAIN node' = DOMAIN node
    BY <1>6, ZenonT(30) DEF RejectUpload, Admits, TreeInv, TypeOK, Row
  <2> QED
    BY <1>6, <2>1, SameShape, SMTT(30) DEF RejectUpload, Admits, TreeInv, TypeOK, Row
<1>7. ASSUME NEW n \in Ids, SweepPending(n)
      PROVE  TreeInv'
  BY <1>7, SweepKeeps
<1>8. ASSUME NEW n \in Ids, NEW nm \in Names, Rename(n, nm)
      PROVE  TreeInv'
  <2>1. TypeOK' /\ DOMAIN node' = DOMAIN node
    BY <1>8, ZenonT(30) DEF Rename, Admits, TreeInv, TypeOK, Row
  <2> QED
    BY <1>8, <2>1, SameShape, SMTT(30) DEF Rename, Admits, TreeInv, TypeOK, Row
<1>9. ASSUME NEW src \in Ids, NEW dst \in Ids, Move(src, dst)
      PROVE  TreeInv'
  BY <1>9, MoveKeeps
<1>10. ASSUME NEW n \in Ids, Remove(n)
       PROVE  TreeInv'
  <2>1. TypeOK' /\ DOMAIN node' = DOMAIN node
    BY <1>10, ZenonT(60) DEF Remove, TreeInv, TypeOK, Row
  <2> QED
    BY <1>10, <2>1, SameShape, SMTT(30) DEF Remove, TreeInv, TypeOK, Row
<1>11. CASE UNCHANGED vars
  <2>1. TypeOK' /\ DOMAIN node' = DOMAIN node
    BY <1>11 DEF vars, TreeInv, TypeOK
  <2> QED
    BY <1>11, <2>1, SameShape DEF vars
<1> QED
  BY <1>1, <1>2, <1>3, <1>4, <1>5, <1>6, <1>7, <1>8, <1>9, <1>10, <1>11 DEF Next

(* The tree invariant holds always: it is inductive as it stands. *)
THEOREM TreeCorrect == Spec => []TreeInv
<1>1. Init => TreeInv
  BY DEF Init, TreeInv, TypeOK, PathsAreAncestry, RoomsAreClosed, OnlyFoldersHoldNodes
<1>2. TreeInv /\ [Next]_vars => TreeInv'
  BY StepKeeps
<1> QED
  BY <1>1, <1>2, PTL DEF Spec

(* The materialised path of a node names its ancestors, in order, and      *)
(* nothing else, whatever was created, moved, deleted and swept.           *)
THEOREM PathsCorrect == Spec => []PathsAreAncestry
<1>1. TreeInv => PathsAreAncestry
  BY DEF TreeInv
<1> QED
  BY <1>1, TreeCorrect, PTL

-----------------------------------------------------------------------------
(* Tombstones. *)

(* Only the row of an upload and the rows of one subtree are ever          *)
(* tombstoned; every step otherwise leaves the liveness of rows alone, and *)
(* what it adds it adds below live rows.                                   *)
LEMMA TombstonesStep ==
    ASSUME TreeInv, TombstonesReachDown, [Next]_vars
    PROVE  TombstonesReachDown'
<1>0. \A m \in DOMAIN node : \A a \in ancestorIds(m) :
        /\ a \in DOMAIN node
        /\ node[a].type = "FOLDER"
        /\ Live(m) => Live(a)
  BY DEF TreeInv, OnlyFoldersHoldNodes, TombstonesReachDown
<1>1. ASSUME NEW r \in Ids, NEW nm \in Names, CreateRoom(r, nm)
      PROVE  TombstonesReachDown'
  <2>1. /\ DOMAIN node' = DOMAIN node \cup {r}
        /\ \A m \in DOMAIN node : node'[m] = node[m]
        /\ node'[r].path = << >>
    BY <1>1 DEF CreateRoom, Insert, ROOT_PATH
  <2>2. ancestorIds(r)' = {}
    BY <2>1 DEF ancestorIds
  <2>3. \A m \in DOMAIN node : ancestorIds(m)' = ancestorIds(m) /\ Live(m)' = Live(m)
    BY <2>1 DEF ancestorIds, Live
  <2> QED
    BY <1>0, <2>1, <2>2, <2>3 DEF TombstonesReachDown
<1>2. ASSUME NEW r \in Ids, RemoveRoom(r)
      PROVE  TombstonesReachDown'
  <2>1. TreeInv'
    BY <1>2, RemoveRoomKeeps
  <2>2. \A m \in DOMAIN node' : m \in DOMAIN node /\ node'[m] = node[m]
    BY <1>2 DEF RemoveRoom, DeleteRows
  <2>3. \A m \in DOMAIN node' : \A a \in ancestorIds(m)' : a \in DOMAIN node'
    BY <2>1 DEF TreeInv, OnlyFoldersHoldNodes
  <2>4. \A m \in DOMAIN node' : ancestorIds(m)' = ancestorIds(m) /\ Live(m)' = Live(m)
    BY <2>2 DEF ancestorIds, Live
  <2> QED
    BY <1>0, <2>2, <2>3, <2>4 DEF TombstonesReachDown
<1>3. ASSUME NEW r \in Ids, NEW p \in Ids, NEW n \in Ids, NEW nm \in Names,
             CreateFolder(r, p, n, nm) \/ PresignNewFile(r, p, n, nm)
      PROVE  TombstonesReachDown'
  <2>1. /\ p \in DOMAIN node /\ Live(p) /\ n \notin DOMAIN node
        /\ DOMAIN node' = DOMAIN node \cup {n}
        /\ \A m \in DOMAIN node : node'[m] = node[m]
        /\ node'[n].path = childPath(p)
    BY <1>3 DEF CreateFolder, PresignNewFile, AddChild, Insert
  <2>2. \A m \in DOMAIN node : ancestorIds(m)' = ancestorIds(m) /\ Live(m)' = Live(m)
    BY <2>1 DEF ancestorIds, Live
  <2>3. ancestorIds(n)' \subseteq ancestorIds(p) \cup {p}
    <3>1. /\ Len(node[p].path) \in Nat
          /\ DOMAIN childPath(p) = 1..(Len(node[p].path) + 1)
          /\ childPath(p)[Len(node[p].path) + 1] = p
          /\ \A i \in 1..Len(node[p].path) : childPath(p)[i] = node[p].path[i]
      BY <2>1, FieldsTyped, LenProperties DEF TreeInv
    <3>2. ASSUME NEW i \in 1..(Len(node[p].path) + 1)
          PROVE  childPath(p)[i] \in ancestorIds(p) \cup {p}
      <4>1. CASE i = Len(node[p].path) + 1
        BY <3>1, <4>1
      <4>2. CASE i # Len(node[p].path) + 1
        <5>1. i \in 1..Len(node[p].path)
          BY <3>1, <4>2
        <5> QED
          BY <2>1, <3>1, <5>1, AncestorIdsAt DEF TreeInv
      <4> QED
        BY <4>1, <4>2
    <3> QED
      BY <2>1, <3>1, <3>2 DEF ancestorIds
  <2> QED
    BY <1>0, <2>1, <2>2, <2>3 DEF TombstonesReachDown
<1>4. ASSUME NEW n \in Ids, SweepPending(n)
      PROVE  TombstonesReachDown'
  <2>1. TreeInv'
    BY <1>4, SweepKeeps
  <2>2. \A m \in DOMAIN node' : m \in DOMAIN node /\ node'[m] = node[m]
    BY <1>4 DEF SweepPending, DeleteRows
  <2>3. \A m \in DOMAIN node' : \A a \in ancestorIds(m)' : a \in DOMAIN node'
    BY <2>1 DEF TreeInv, OnlyFoldersHoldNodes
  <2>4. \A m \in DOMAIN node' : ancestorIds(m)' = ancestorIds(m) /\ Live(m)' = Live(m)
    BY <2>2 DEF ancestorIds, Live
  <2> QED
    BY <1>0, <2>2, <2>3, <2>4 DEF TombstonesReachDown
<1>5. ASSUME NEW n \in Ids, Confirm(n) \/ \E nm \in Names : Rename(n, nm)
      PROVE  TombstonesReachDown'
  <2>1. /\ DOMAIN node' = DOMAIN node
        /\ \A m \in DOMAIN node :
              node'[m].path = node[m].path /\ node'[m].deleted = node[m].deleted
    <3>1. CASE Confirm(n)
      BY <3>1 DEF Confirm, Admits, TreeInv, TypeOK, Row
    <3>2. CASE \E nm \in Names : Rename(n, nm)
      BY <3>2 DEF Rename, Admits, TreeInv, TypeOK, Row
    <3> QED
      BY <1>5, <3>1, <3>2
  <2>2. \A m \in DOMAIN node : ancestorIds(m)' = ancestorIds(m) /\ Live(m)' = Live(m)
    BY <2>1 DEF ancestorIds, Live
  <2> QED
    BY <1>0, <2>1, <2>2 DEF TombstonesReachDown
<1>6. ASSUME NEW n \in Ids, RejectUpload(n)
      PROVE  TombstonesReachDown'
  <2>1. /\ n \in DOMAIN node /\ node[n].type = "FILE"
        /\ DOMAIN node' = DOMAIN node
        /\ \A m \in DOMAIN node : node'[m].path = node[m].path
        /\ \A m \in DOMAIN node \ {n} : node'[m].deleted = node[m].deleted
        /\ node'[n].deleted
    BY <1>6 DEF RejectUpload, Admits, TreeInv, OnlyFoldersHoldNodes, TypeOK, Row
  <2>2. \A m \in DOMAIN node : ancestorIds(m)' = ancestorIds(m)
    BY <2>1 DEF ancestorIds
  <2>3. \A m \in DOMAIN node \ {n} : Live(m)' = Live(m)
    BY <2>1 DEF Live
  <2>4. ~Live(n)'
    BY <2>1 DEF Live
  <2> QED
    BY <1>0, <2>1, <2>2, <2>3, <2>4 DEF TombstonesReachDown
<1>7. ASSUME NEW src \in Ids, NEW dst \in Ids, Move(src, dst)
      PROVE  TombstonesReachDown'
  <2>1. /\ DOMAIN node' = DOMAIN node
        /\ \A m \in DOMAIN node : node'[m].deleted = node[m].deleted
    BY <1>7, MoveEffect
  <2>2. \A m \in DOMAIN node : Live(m)' = Live(m)
    BY <2>1 DEF Live
  <2>3. ASSUME NEW m \in DOMAIN node, Live(m), NEW a \in ancestorIds(m)'
        PROVE  a \in DOMAIN node /\ Live(a)
    <3>1. TypeOK'
      BY <1>7, MoveTyped DEF TreeInv
    <3>2. node'[m].path \in Seq(Ids)
      BY <2>1, <3>1 DEF TypeOK, Row
    <3>3. DOMAIN node'[m].path = 1..Len(node'[m].path)
      BY <3>2, LenProperties
    <3>4. PICK i \in 1..Len(node'[m].path) : a = node'[m].path[i]
      BY <3>3 DEF ancestorIds
    <3>5. NamesAncestor(m, i)
      BY <1>7, MovedAncestors
    <3> QED
      BY <2>3, <3>4, <3>5 DEF NamesAncestor
  <2> QED
    BY <2>1, <2>2, <2>3 DEF TombstonesReachDown
<1>8. ASSUME NEW n \in Ids, Remove(n)
      PROVE  TombstonesReachDown'
  <2>1. /\ n \in DOMAIN node
        /\ DOMAIN node' = DOMAIN node
        /\ \A m \in DOMAIN node :
              /\ node'[m].path = node[m].path
              /\ node'[m].deleted = (m \in Doomed(n) \/ node[m].deleted)
    BY <1>8 DEF Remove, Admits, TreeInv, TypeOK, Row
  <2>2. \A m \in DOMAIN node : ancestorIds(m)' = ancestorIds(m)
    BY <2>1 DEF ancestorIds
  <2>3. \A m \in DOMAIN node : Live(m)' <=> Live(m) /\ m \notin Doomed(n)
    BY <2>1 DEF Live
  (* What hangs below a doomed row is doomed with it. *)
  <2>4. ASSUME NEW m \in DOMAIN node, NEW a \in ancestorIds(m), a \in Doomed(n)
        PROVE  m \in Doomed(n)
    <3>1. a = n \/ a \in Beneath(n)
      BY <2>4 DEF Doomed
    <3>2. a \in DOMAIN node /\ ancestorIds(a) \subseteq ancestorIds(m)
      BY AncestorsNest DEF TreeInv
    <3>3. n \in ancestorIds(m)
      BY <2>1, <3>1, <3>2, PatternIsMembership DEF TreeInv
    <3>4. m \in Beneath(n)
      BY <2>1, <3>3, PatternIsMembership DEF TreeInv
    <3>5. m \in withinScope(node[n].roomId)
      BY <2>1, <3>4, DescendantsInScope DEF TreeInv
    <3> QED
      BY <3>4, <3>5 DEF Doomed
  <2> QED
    BY <1>0, <2>1, <2>2, <2>3, <2>4 DEF TombstonesReachDown
<1>9. CASE UNCHANGED vars
  BY <1>9 DEF vars, TombstonesReachDown, Live, ancestorIds
<1> QED
  BY <1>1, <1>2, <1>3, <1>4, <1>5, <1>6, <1>7, <1>8, <1>9 DEF Next

(* Nothing live ever hangs below a tombstone: a delete reaches every       *)
(* descendant, and no create or move slips a live row under a deleted one  *)
(* although both look at the direct parent's deletedAt only.               *)
THEOREM TombstonesCorrect == Spec => []TombstonesReachDown
<1>1. Init => TreeInv /\ TombstonesReachDown
  BY DEF Init, TreeInv, TypeOK, PathsAreAncestry, RoomsAreClosed, OnlyFoldersHoldNodes,
         TombstonesReachDown
<1>2. TreeInv /\ TombstonesReachDown /\ [Next]_vars => (TreeInv /\ TombstonesReachDown)'
  BY StepKeeps, TombstonesStep
<1> QED
  BY <1>1, <1>2, PTL DEF Spec

(* A room's rows keep to the room, whatever is moved within it and         *)
(* whichever other rooms are deleted.                                      *)
THEOREM RoomsCorrect == Spec => []RoomsAreClosed
<1>1. TreeInv => RoomsAreClosed
  BY DEF TreeInv
<1> QED
  BY <1>1, TreeCorrect, PTL

(* What the sweep deletes is a leaf: no path ever names a file.            *)
THEOREM LeavesCorrect == Spec => []OnlyFoldersHoldNodes
<1>1. TreeInv => OnlyFoldersHoldNodes
  BY DEF TreeInv
<1> QED
  BY <1>1, TreeCorrect, PTL

(* The parent pointers form no cycle: no node is above itself.             *)
Acyclic == \A n \in DOMAIN node : n \notin ancestorIds(n)

THEOREM AcyclicCorrect == Spec => []Acyclic
<1>1. TreeInv => Acyclic
  BY NotOwnAncestor DEF TreeInv, Acyclic
<1> QED
  BY <1>1, TreeCorrect, PTL

-----------------------------------------------------------------------------
(* RoomTree implements FolderTree *)

(* Every set of numbers has a smallest. *)
LEMMA Smallest ==
    ASSUME NEW T, T \subseteq Nat, T # {}
    PROVE  \E x \in T : \A y \in T : x <= y
<1>1. PICK x \in T : \A y \in T : ~ (<<y, x>> \in OpToRel(<, Nat))
  BY NatLessThanWellFounded, WFMin
<1>2. \A y \in T : ~ (y < x)
  BY <1>1 DEF OpToRel
<1> QED
  BY <1>2

-----------------------------------------------------------------------------
(* A row's parent is the last its path names; the rest is what the parent's *)
(* path names.                                                             *)
LEMMA ParentIsLast ==
    ASSUME TreeInv, NEW m \in DOMAIN node, node[m].parentId # NoParent
    PROVE  /\ Len(node[m].path) \in Nat /\ Len(node[m].path) > 0
           /\ node[m].path[Len(node[m].path)] = node[m].parentId
           /\ node[m].parentId \in DOMAIN node
           /\ node[m].parentId \in ancestorIds(m)
           /\ Len(node[node[m].parentId].path) = Len(node[m].path) - 1
           /\ \A a \in ancestorIds(m) \ {node[m].parentId} : a \in ancestorIds(node[m].parentId)
<1>1. node[m].path \in Seq(Ids) /\ Len(node[m].path) \in Nat
  BY FieldsTyped, LenProperties DEF TreeInv
<1>2. node[m].path # << >> /\ node[m].path[Len(node[m].path)] = node[m].parentId
  BY DEF TreeInv, PathsAreAncestry, PathIsAncestry
<1>3. Len(node[m].path) > 0
  BY <1>1, <1>2, EmptySeq
<1>4. PICK p, l : p = node[m].parentId /\ l = Len(node[m].path)
  OBVIOUS
<1>5. l \in 1..Len(node[m].path) /\ node[m].path[l] = p
  BY <1>1, <1>2, <1>3, <1>4
<1>6. /\ p \in DOMAIN node
      /\ Len(node[p].path) = l - 1
      /\ \A j \in 1..(l - 1) : node[p].path[j] = node[m].path[j]
  BY <1>5, AncestorAt DEF TreeInv
<1>7. p \in ancestorIds(m)
  BY <1>5, AncestorIdsAt DEF TreeInv
<1>8. ASSUME NEW a \in ancestorIds(m), a # p
      PROVE  a \in ancestorIds(p)
  <2>1. PICK i \in 1..Len(node[m].path) : a = node[m].path[i]
    BY AncestorIdsAt DEF TreeInv
  <2>2. i \in 1..(l - 1)
    BY <1>1, <1>4, <1>5, <1>8, <2>1
  <2> QED
    BY <1>6, <2>1, <2>2, AncestorIdsAt DEF TreeInv
<1> QED
  BY <1>1, <1>2, <1>3, <1>4, <1>6, <1>7, <1>8

(* The LIKE pattern finds exactly what lies under the node. *)
LEMMA UnderIsBeneath ==
    ASSUME TreeInv, NEW n \in DOMAIN node
    PROVE  Beneath(n) = Abstract!Under(n)
<1>0. /\ Beneath(n) \in SUBSET DOMAIN node
      /\ DOMAIN place = DOMAIN node /\ \A c \in DOMAIN node : place[c] = node[c].parentId
      /\ n # NoParent /\ \A c \in DOMAIN node : c # NoParent
  BY NoParentAssumption DEF Beneath, place, TreeInv, TypeOK
<1>1. \A c \in DOMAIN node : c \in Beneath(n) <=> n \in ancestorIds(c)
  BY PatternIsMembership DEF TreeInv
(* The rows the pattern matches are closed under children ... *)
<1>2. ASSUME NEW c \in DOMAIN node, node[c].parentId \in Beneath(n) \cup {n}
      PROVE  c \in Beneath(n)
  <2>1. node[c].parentId # NoParent
    BY <1>0, <1>2
  <2>2. node[c].parentId \in ancestorIds(c) /\ node[c].parentId \in DOMAIN node
    BY <2>1, ParentIsLast
  <2>3. ancestorIds(node[c].parentId) \subseteq ancestorIds(c)
    BY <2>2, AncestorsNest DEF TreeInv
  <2> QED
    BY <1>1, <1>2, <2>2, <2>3
(* ... and in every set that is, for lack of a highest that is not. *)
<1>3. ASSUME NEW S \in SUBSET DOMAIN node,
             \A c \in DOMAIN node : node[c].parentId \in S \cup {n} => c \in S,
             NEW m \in Beneath(n), m \notin S
      PROVE  FALSE
  <2> DEFINE Depths == {Len(node[x].path) : x \in Beneath(n) \ S}
  <2>1. Depths \subseteq Nat /\ Depths # {}
    <3>1. \A x \in DOMAIN node : Len(node[x].path) \in Nat
      BY LensTyped DEF TreeInv
    <3>2. Len(node[m].path) \in Depths
      BY <1>3
    <3>3. \A x \in Beneath(n) \ S : x \in DOMAIN node
      BY <1>0
    <3> QED
      BY <3>1, <3>2, <3>3
  <2>2. PICK x \in Beneath(n) \ S : \A d \in Depths : Len(node[x].path) <= d
    BY <2>1, Smallest
  <2>3. n \in ancestorIds(x) /\ x \in DOMAIN node
    BY <1>0, <1>1, <2>2
  <2>4. node[x].parentId # NoParent
    BY <2>3, AncestorIdsAt, AncestorAt DEF TreeInv
  <2>5. PICK p : p = node[x].parentId
    OBVIOUS
  <2>6. /\ p \in DOMAIN node /\ Len(node[x].path) \in Nat
        /\ Len(node[p].path) = Len(node[x].path) - 1
        /\ n # p => n \in ancestorIds(p)
    BY <2>3, <2>4, <2>5, ParentIsLast
  <2>7. ASSUME p # n, p \notin S
        PROVE  FALSE
    <3>1. p \in Beneath(n) \ S
      BY <1>1, <2>6, <2>7
    <3>2. Len(node[x].path) <= Len(node[p].path)
      BY <2>2, <3>1
    <3> QED
      BY <2>6, <3>2
  <2> QED
    BY <1>3, <2>2, <2>3, <2>5, <2>7
<1> QED
  BY <1>0, <1>2, <1>3 DEF Abstract!Under
-----------------------------------------------------------------------------
(* Each handler is a step of FolderTree. *)

StepInv == TreeInv /\ TombstonesReachDown

(* What is live is visible: nothing above it is tombstoned. *)
LEMMA LiveIsVisible ==
    ASSUME StepInv, NEW n \in DOMAIN node, Live(n)
    PROVE  Abstract!Visible(n)
<1>1. n \in DOMAIN place \ gone
  BY DEF place, gone, Live
<1>2. ASSUME NEW f \in gone
      PROVE  n \notin Abstract!Under(f)
  <2>1. f \in DOMAIN node /\ ~Live(f)
    BY DEF gone, Live
  <2>2. f \notin ancestorIds(n)
    BY <2>1 DEF StepInv, TombstonesReachDown
  <2> QED
    BY <2>1, <2>2, UnderIsBeneath, PatternIsMembership DEF StepInv, TreeInv
<1> QED
  BY <1>1, <1>2 DEF Abstract!Visible

(* Nothing lies under a file. *)
LEMMA FilesAreLeaves ==
    ASSUME TreeInv, NEW n \in DOMAIN node, node[n].status = "PENDING"
    PROVE  /\ Abstract!Under(n) = {}
           /\ node[n].type = "FILE" /\ node[n].parentId # NoParent
<1>1. node[n].type = "FILE" /\ node[n].parentId # NoParent
  BY DEF TreeInv, OnlyFoldersHoldNodes
<1>2. \A m \in DOMAIN node : n \notin ancestorIds(m)
  BY <1>1 DEF TreeInv, OnlyFoldersHoldNodes
<1>3. Beneath(n) = {}
  BY <1>2, PatternIsMembership DEF TreeInv, Beneath
<1> QED
  BY <1>1, <1>3, UnderIsBeneath

LEMMA CreateRoomStep ==
    ASSUME StepInv, NEW r \in Ids, NEW nm \in Names, CreateRoom(r, nm)
    PROVE  Abstract!AddTop(r)
<1>1. /\ r \notin DOMAIN node /\ DOMAIN node' = DOMAIN node \cup {r}
      /\ \A m \in DOMAIN node : node'[m] = node[m]
      /\ node'[r].parentId = NoParent /\ node'[r].type = "FOLDER" /\ ~node'[r].deleted
  BY DEF CreateRoom, Insert
<1>2. place' = [m \in DOMAIN place \cup {r} |-> IF m = r THEN NoParent ELSE place[m]]
  BY <1>1 DEF place
<1>3. UNCHANGED << file, gone >>
  BY <1>1 DEF file, gone
<1> QED
  BY <1>1, <1>2, <1>3 DEF Abstract!AddTop, place

LEMMA AddChildStep ==
    ASSUME StepInv, NEW room \in Ids, NEW p \in Ids, NEW n \in Ids, NEW nm \in Names,
           NEW type \in {"FOLDER", "FILE"}, NEW status, AddChild(room, p, n, nm, type, status)
    PROVE  \E isFile \in BOOLEAN : Abstract!Add(n, p, isFile)
<1>1. /\ n \notin DOMAIN node /\ DOMAIN node' = DOMAIN node \cup {n}
      /\ \A m \in DOMAIN node : node'[m] = node[m]
      /\ node'[n].parentId = p /\ node'[n].type = type /\ ~node'[n].deleted
      /\ p \in DOMAIN node /\ Live(p) /\ node[p].type = "FOLDER"
  BY DEF AddChild, Insert
<1>2. Abstract!Visible(p) /\ p \notin file
  BY <1>1, LiveIsVisible DEF file
<1>3. place' = [m \in DOMAIN place \cup {n} |-> IF m = n THEN p ELSE place[m]]
  BY <1>1 DEF place
<1>4. file' = IF type = "FILE" THEN file \cup {n} ELSE file
  BY <1>1 DEF file
<1>5. gone' = gone
  BY <1>1 DEF gone
<1>6. Abstract!Add(n, p, type = "FILE")
  BY <1>1, <1>2, <1>3, <1>4, <1>5 DEF Abstract!Add, place
<1> QED
  BY <1>6

(* Rows that all go, with what lies under one of them. *)
LEMMA EraseStep ==
    ASSUME NEW n \in DOMAIN node, NEW S, S = {n} \cup Abstract!Under(n), DeleteRows(S)
    PROVE  Abstract!Erase(n)
<1>1. DOMAIN node' = DOMAIN node \ S /\ \A m \in DOMAIN node' : node'[m] = node[m]
  BY DEF DeleteRows
<1>2. place' = [m \in DOMAIN place \ S |-> place[m]]
  BY <1>1 DEF place
<1>3. file' = file \ S /\ gone' = gone \ S
  BY <1>1 DEF file, gone
<1> QED
  BY <1>2, <1>3 DEF Abstract!Erase, place

LEMMA RemoveRoomStep ==
    ASSUME StepInv, NEW r \in Ids, RemoveRoom(r)
    PROVE  Abstract!Erase(r)
<1>1. r \in DOMAIN node /\ node[r].parentId = NoParent /\ node[r].roomId = r
  BY DEF RemoveRoom, StepInv, TreeInv, RoomsAreClosed
<1>2. ASSUME NEW m \in DOMAIN node
      PROVE  node[m].roomId = r <=> m = r \/ m \in Beneath(r)
  <2>1. m \in Beneath(r) <=> r \in ancestorIds(m)
    BY <1>1, PatternIsMembership DEF StepInv, TreeInv
  <2>2. r \in ancestorIds(m) => node[m].roomId = r
    BY <1>1, RoomOfAncestor DEF StepInv, TreeInv
  <2>3. CASE node[m].parentId = NoParent
    BY <1>1, <2>1, <2>2, <2>3 DEF StepInv, TreeInv, RoomsAreClosed
  <2>4. CASE node[m].parentId # NoParent
    <3>1. node[m].roomId \in ancestorIds(m)
      BY <2>4, ParentIsLast, RoomOfAncestor DEF StepInv, TreeInv
    <3> QED
      BY <1>1, <2>1, <2>2, <3>1
  <2> QED
    BY <2>3, <2>4
<1>3. {m \in DOMAIN node : node[m].roomId = r} = {r} \cup Abstract!Under(r)
  BY <1>1, <1>2, UnderIsBeneath DEF StepInv, Beneath
<1> QED
  BY <1>1, <1>3, EraseStep DEF RemoveRoom

LEMMA SweepStep ==
    ASSUME StepInv, NEW n \in Ids, SweepPending(n)
    PROVE  Abstract!Erase(n)
  BY FilesAreLeaves, EraseStep DEF StepInv, SweepPending

(* A tombstone on a node and on what lies under it. *)
LEMMA DiscardStep ==
    ASSUME StepInv, NEW n \in DOMAIN node, Live(n), node[n].parentId # NoParent,
           NEW S, S = {n} \cup Abstract!Under(n),
           DOMAIN node' = DOMAIN node,
           \A m \in DOMAIN node : /\ node'[m].parentId = node[m].parentId
                                  /\ node'[m].type = node[m].type
                                  /\ node'[m].deleted <=> node[m].deleted \/ m \in S
    PROVE  Abstract!Discard(n)
<1>1. S \subseteq DOMAIN node
  BY DEF Abstract!Under, place
<1>2. place' = place /\ file' = file
  BY DEF place, file
<1>3. gone' = gone \cup {n} \cup Abstract!Under(n)
  BY <1>1 DEF gone
<1>4. place[n] # NoParent
  BY DEF place
<1> QED
  BY <1>2, <1>3, <1>4, LiveIsVisible DEF Abstract!Discard
LEMMA RejectStep ==
    ASSUME StepInv, NEW n \in Ids, RejectUpload(n)
    PROVE  Abstract!Discard(n)
<1>1. /\ n \in DOMAIN node /\ Live(n) /\ node[n].status = "PENDING"
      /\ node' = [node EXCEPT ![n].deleted = TRUE]
  BY DEF RejectUpload, Admits
<1>2. DOMAIN node' = DOMAIN node /\ \A m \in DOMAIN node : node[m] \in Row
  BY <1>1, FieldsTyped DEF StepInv, TreeInv
<1>3. Abstract!Under(n) = {} /\ node[n].parentId # NoParent
  BY <1>1, FilesAreLeaves DEF StepInv
<1>4. \A m \in DOMAIN node : /\ node'[m].parentId = node[m].parentId
                             /\ node'[m].type = node[m].type
                             /\ node'[m].deleted <=> node[m].deleted \/ m \in {n}
  BY <1>1, <1>2 DEF Row
<1> QED
  BY <1>1, <1>2, <1>3, <1>4, DiscardStep

LEMMA RemoveStep ==
    ASSUME StepInv, NEW n \in Ids, Remove(n)
    PROVE  Abstract!Discard(n)
<1>1. /\ n \in DOMAIN node /\ Live(n) /\ n # node[n].roomId
      /\ node' = [m \in DOMAIN node |->
                     IF m \in Doomed(n) THEN [node[m] EXCEPT !.deleted = TRUE]
                                        ELSE node[m]]
  BY DEF Remove, Admits
<1>2. \A m \in DOMAIN node : node[m] \in Row
  BY FieldsTyped DEF StepInv, TreeInv
<1>3. node[n].parentId # NoParent
  BY <1>1 DEF StepInv, TreeInv, RoomsAreClosed
<1>4. Doomed(n) = {n} \cup Abstract!Under(n)
  <2>1. node[n].roomId \in ancestorIds(n) /\ node[n].roomId \in DOMAIN node
    BY <1>1, <1>3, ParentIsLast, RoomOfAncestor DEF StepInv, TreeInv, RoomsAreClosed
  <2>2. n \in withinScope(node[n].roomId)
    BY <1>1, <2>1, PatternIsMembership DEF StepInv, TreeInv, withinScope
  <2>3. Beneath(n) \subseteq withinScope(node[n].roomId)
    BY <1>1, DescendantsInScope DEF StepInv, TreeInv
  <2> QED
    BY <1>1, <2>2, <2>3, UnderIsBeneath DEF StepInv, Doomed
<1>5. DOMAIN node' = DOMAIN node
  BY <1>1
<1>6. ASSUME NEW m \in DOMAIN node
      PROVE  /\ node'[m].parentId = node[m].parentId
             /\ node'[m].type = node[m].type
             /\ node'[m].deleted <=> node[m].deleted \/ m \in Doomed(n)
  <2>1. CASE m \in Doomed(n)
    BY <1>1, <1>2, <2>1 DEF Row
  <2>2. CASE m \notin Doomed(n)
    BY <1>1, <2>2
  <2> QED
    BY <2>1, <2>2
<1> QED
  BY <1>1, <1>3, <1>4, <1>5, <1>6, DiscardStep

LEMMA MoveStep ==
    ASSUME StepInv, NEW src \in Ids, NEW dst \in Ids, Move(src, dst)
    PROVE  Abstract!Relocate(src, dst)
<1>1. /\ src \in DOMAIN node /\ dst \in DOMAIN node
      /\ DOMAIN node' = DOMAIN node
      /\ dst # src /\ dst \notin Beneath(src)
      /\ node[dst].type = "FOLDER" /\ node[src].parentId # NoParent
      /\ Live(src) /\ Live(dst)
  BY MoveEffect DEF StepInv
<1>2. /\ node'[src].parentId = dst
      /\ \A m \in DOMAIN node \ {src} : node'[m].parentId = node[m].parentId
  BY MoveEffect DEF StepInv
<1>3. \A m \in DOMAIN node : node'[m].type = node[m].type /\ node'[m].deleted = node[m].deleted
  BY MoveEffect DEF StepInv
<1>4. place' = [place EXCEPT ![src] = dst]
  BY <1>1, <1>2 DEF place
<1>5. UNCHANGED << file, gone >>
  BY <1>1, <1>3 DEF file, gone
<1>6. dst \notin Abstract!Under(src) \cup {src}
  BY <1>1, UnderIsBeneath DEF StepInv
<1>7. Abstract!Visible(src) /\ Abstract!Visible(dst)
  BY <1>1, LiveIsVisible
<1>8. place[src] # NoParent /\ dst \notin file
  BY <1>1 DEF place, file
<1> QED
  BY <1>4, <1>5, <1>6, <1>7, <1>8 DEF Abstract!Relocate

(* Names and statuses are nothing to FolderTree. *)
LEMMA ConfirmStep ==
    ASSUME StepInv, NEW n \in Ids,
           Confirm(n) \/ \E nm \in Names : Rename(n, nm)
    PROVE  UNCHANGED << place, file, gone >>
<1>1. \A m \in DOMAIN node : node[m] \in Row
  BY FieldsTyped DEF StepInv, TreeInv
<1>2. DOMAIN node' = DOMAIN node
  BY DEF Confirm, Rename
<1>3. ASSUME NEW m \in DOMAIN node
      PROVE  /\ node'[m].parentId = node[m].parentId
             /\ node'[m].type = node[m].type
             /\ node'[m].deleted = node[m].deleted
  <2>1. CASE Confirm(n)
    BY <1>1, <2>1 DEF Confirm, Row
  <2>2. ASSUME NEW nm \in Names, Rename(n, nm)
        PROVE  /\ node'[m].parentId = node[m].parentId
               /\ node'[m].type = node[m].type
               /\ node'[m].deleted = node[m].deleted
    BY <1>1, <2>2 DEF Rename, Row
  <2> QED
    BY <2>1, <2>2
<1> QED
  BY <1>2, <1>3 DEF place, file, gone
LEMMA MapsInit == Init => Abstract!Init
<1> SUFFICES ASSUME Init
             PROVE  Abstract!Init
  OBVIOUS
<1>1. DOMAIN node = {}
  BY DEF Init
<1> QED
  BY <1>1 DEF Abstract!Init, place, file, gone

LEMMA MapsStep ==
    ASSUME StepInv, [Next]_vars
    PROVE  [Abstract!Next]_(Abstract!vars)
<1> USE DEF Abstract!Next
<1>1. ASSUME NEW r \in Ids, \/ \E nm \in Names : CreateRoom(r, nm)
                            \/ RemoveRoom(r)
      PROVE  Abstract!Next
  BY <1>1, CreateRoomStep, RemoveRoomStep
<1>2. ASSUME NEW r \in Ids, NEW p \in Ids, NEW n \in Ids, NEW nm \in Names,
             CreateFolder(r, p, n, nm) \/ PresignNewFile(r, p, n, nm)
      PROVE  Abstract!Next
  <2>1. \E isFile \in BOOLEAN : Abstract!Add(n, p, isFile)
    BY <1>2, AddChildStep DEF CreateFolder, PresignNewFile
  <2> QED
    BY <2>1
<1>3. ASSUME NEW n \in Ids, RejectUpload(n) \/ SweepPending(n) \/ Remove(n)
      PROVE  Abstract!Next
  BY <1>3, RejectStep, SweepStep, RemoveStep
<1>4. ASSUME NEW src \in Ids, NEW dst \in Ids, Move(src, dst)
      PROVE  Abstract!Next
  BY <1>4, MoveStep
<1>5. ASSUME NEW n \in Ids, Confirm(n) \/ \E nm \in Names : Rename(n, nm)
      PROVE  UNCHANGED Abstract!vars
  BY <1>5, ConfirmStep DEF Abstract!vars
<1>6. CASE UNCHANGED vars
  BY <1>6 DEF vars, Abstract!vars, place, file, gone
<1> QED
  BY <1>1, <1>2, <1>3, <1>4, <1>5, <1>6 DEF Next

LEMMA StepInvHolds == Spec => []StepInv
<1>1. Init => StepInv
  BY DEF Init, StepInv, TreeInv, TypeOK, PathsAreAncestry, RoomsAreClosed,
         OnlyFoldersHoldNodes, TombstonesReachDown
<1>2. StepInv /\ [Next]_vars => StepInv'
  BY StepKeeps, TombstonesStep DEF StepInv
<1> QED
  BY <1>1, <1>2, PTL DEF Spec

(* The LIKE pattern that node-path.ts builds from a node's own path finds  *)
(* the rows under the node by their parent pointers, all of them and no    *)
(* others, in every state of the table.                                    *)
THEOREM PatternCorrect == Spec => []PatternMatchesSubtree
<1>1. StepInv => PatternMatchesSubtree
  BY UnderIsBeneath DEF StepInv, PatternMatchesSubtree
<1> QED
  BY <1>1, StepInvHolds, PTL

(* Create, move, delete, reject, sweep and the cascade of a room do to the *)
(* rows what FolderTree does to its items: the paths that every query uses *)
(* add nothing to the parent pointers and take nothing from them.          *)
THEOREM RefinementCorrect == Spec => ImplementsFolderTree
<1>1. StepInv /\ [Next]_vars => [Abstract!Next]_(Abstract!vars)
  BY MapsStep
<1> QED
  BY <1>1, MapsInit, StepInvHolds, PTL DEF Spec, ImplementsFolderTree, Abstract!Spec
=============================================================================
