---------------------------- MODULE AccessProofs ----------------------------
(***************************************************************************)
(* What holds of Access for any number of nodes, holders and shares.       *)
(*                                                                         *)
(* The owner's steps are steps of RoomTree, so its tables keep TreeInv and *)
(* TombstonesReachDown.  What a node's parent pointers reach is then what  *)
(* its path names (AroundIs), and every pattern of a query is a question   *)
(* about ancestors (PatternIsMembership).  Of a request under way it is    *)
(* enough to know that its scope's root is a row its own path, read        *)
(* before, names (Scoped): what has been moved since can only make the     *)
(* query that relies on it return less.                                    *)
(***************************************************************************)
EXTENDS Access, RoomTreeProofs, FiniteSetTheorems, WellFoundedInduction

-----------------------------------------------------------------------------
(* What the parent pointers reach *)

(* One step from a set of rows to their parents. *)
Widened(S) == S \cup ({node[m].parentId : m \in S} \ {NoParent})

(* f is the climb from n, step by step. *)
Climbs(f, n, N) == f = [k \in 0..N |-> IF k = 0 THEN {n} ELSE Widened(f[k - 1])]

LEMMA ClimbExists ==
    ASSUME NEW n, NEW N \in Nat
    PROVE  \E f : Climbs(f, n, N)
<1> DEFINE T == {x \in Nat : ~ \E f : Climbs(f, n, x)}
<1> SUFFICES ASSUME T # {} PROVE FALSE
  OBVIOUS
<1>1. PICK x \in T : \A y \in T : x <= y
  <2>1. T \subseteq Nat
    OBVIOUS
  <2> HIDE DEF T
  <2> QED
    BY <2>1, Smallest
<1>2. CASE x = 0
  <2> DEFINE f == [k \in 0..0 |-> {n}]
  <2>1. \A k \in 0..0 : k = 0
    OBVIOUS
  <2>2. f = [k \in 0..0 |-> IF k = 0 THEN {n} ELSE Widened(f[k - 1])]
    BY <2>1
  <2>3. Climbs(f, n, x)
    BY <2>2, <1>2 DEF Climbs
  <2> QED
    BY <2>3
<1>3. CASE x # 0
  <2>1. x - 1 \in Nat /\ x - 1 \notin T /\ x \in Nat
    BY <1>1, <1>3
  <2>2. PICK g : Climbs(g, n, x - 1)
    BY <2>1
  <2> DEFINE f == [k \in 0..x |-> IF k = x THEN Widened(g[x - 1]) ELSE g[k]]
  <2>3. ASSUME NEW k \in 0..x
        PROVE  f[k] = IF k = 0 THEN {n} ELSE Widened(f[k - 1])
    <3>1. CASE k = x
      <4>1. x - 1 \in 0..x /\ x - 1 # x
        BY <2>1
      <4>2. f[x - 1] = g[x - 1]
        BY <4>1
      <4> QED
        BY <3>1, <4>2, <1>3
    <3>2. CASE k # x
      <4>1. k \in 0..(x - 1)
        BY <3>2, <2>1
      <4>2. g[k] = IF k = 0 THEN {n} ELSE Widened(g[k - 1])
        BY <4>1, <2>2 DEF Climbs
      <4>3. k # 0 => k - 1 \in 0..x /\ k - 1 # x
        BY <2>1
      <4>4. f[k] = g[k] /\ (k # 0 => f[k - 1] = g[k - 1])
        BY <3>2, <4>3
      <4> QED
        BY <4>2, <4>4
    <3> QED
      BY <3>1, <3>2
  <2>4. f = [k \in 0..x |-> f[k]]
    OBVIOUS
  <2> HIDE DEF f
  <2>5. f = [k \in 0..x |-> IF k = 0 THEN {n} ELSE Widened(f[k - 1])]
    BY <2>3, <2>4
  <2>6. Climbs(f, n, x)
    BY <2>5 DEF Climbs
  <2> QED
    BY <2>6, <1>1
<1> QED
  BY <1>2, <1>3

(* The folders up to k steps above n. *)
Within(n, k) ==
    {n} \cup {a \in Ids : \E i \in 1..Len(node[n].path) :
                              i > Len(node[n].path) - k /\ a = node[n].path[i]}

LEMMA WithinWidens ==
    ASSUME TypeOK, PathsAreAncestry, NoParentAssumption,
           NEW n \in DOMAIN node, NEW k \in Nat
    PROVE  Widened(Within(n, k)) = Within(n, k + 1)
<1> DEFINE p == node[n].path
           L == Len(p)
<1>1. /\ p \in Seq(Ids) /\ L \in Nat /\ n \in Ids
      /\ \A i \in 1..L : p[i] \in Ids
  BY FieldsTyped, LenProperties, ElementOfSeq
<1>2. node[n].parentId = IF L = 0 THEN NoParent ELSE p[L]
  <2>1. PathIsAncestry(n)
    BY DEF PathsAreAncestry
  <2>2. L = 0 <=> p = << >>
    BY <1>1, EmptySeq
  <2> QED
    BY <2>1, <2>2 DEF PathIsAncestry, ROOT_PATH
<1>3. ASSUME NEW i \in 1..L
      PROVE  node[p[i]].parentId = IF i = 1 THEN NoParent ELSE p[i - 1]
  <2>1. /\ p[i] \in DOMAIN node
        /\ Len(node[p[i]].path) = i - 1
        /\ \A j \in 1..(i - 1) : node[p[i]].path[j] = p[j]
    BY AncestorAt
  <2>2. PathIsAncestry(p[i])
    BY <2>1 DEF PathsAreAncestry
  <2>3. node[p[i]].path \in Seq(Ids)
    BY <2>1, FieldsTyped
  <2>4. i - 1 = 0 <=> node[p[i]].path = << >>
    BY <2>1, <2>3, EmptySeq
  <2> QED
    BY <2>1, <2>2, <2>4, <1>1 DEF PathIsAncestry, ROOT_PATH
<1>4. NoParent \notin Ids
  BY DEF NoParentAssumption
<1>5. \A a : a \in Within(n, k) <=> a = n \/ \E i \in 1..L : i > L - k /\ a = p[i]
  BY <1>1 DEF Within
<1>6. \A a : a \in Within(n, k + 1) <=> a = n \/ \E i \in 1..L : i > L - (k + 1) /\ a = p[i]
  BY <1>1 DEF Within
<1>7. \A a : a \in Widened(Within(n, k)) <=>
          \/ a \in Within(n, k)
          \/ a # NoParent /\ \E m \in Within(n, k) : a = node[m].parentId
  BY DEF Widened
<1> HIDE DEF p, L
<1>8. ASSUME NEW a \in Widened(Within(n, k))
      PROVE  a \in Within(n, k + 1)
  <2>1. CASE a \in Within(n, k)
    BY <2>1, <1>5, <1>6, <1>1
  <2>2. CASE a # NoParent /\ a = node[n].parentId
    <3>1. L # 0 /\ a = p[L]
      BY <2>2, <1>2
    <3>2. L \in 1..L /\ L > L - (k + 1)
      BY <3>1, <1>1
    <3> QED
      BY <3>1, <3>2, <1>6
  <2>3. ASSUME a # NoParent, NEW i \in 1..L, i > L - k, a = node[p[i]].parentId
        PROVE  a \in Within(n, k + 1)
    <3>1. i # 1 /\ a = p[i - 1]
      BY <2>3, <1>3
    <3>2. i - 1 \in 1..L /\ i - 1 > L - (k + 1)
      BY <3>1, <2>3, <1>1
    <3> QED
      BY <3>1, <3>2, <1>6
  <2> QED
    BY <2>1, <2>2, <2>3, <1>5, <1>7
<1>9. ASSUME NEW a \in Within(n, k + 1)
      PROVE  a \in Widened(Within(n, k))
  <2>1. CASE a = n
    BY <2>1, <1>5, <1>7
  <2>2. ASSUME NEW i \in 1..L, i > L - (k + 1), a = p[i]
        PROVE  a \in Widened(Within(n, k))
    <3>1. a # NoParent
      BY <2>2, <1>1, <1>4
    <3>2. CASE i > L - k
      BY <2>2, <3>2, <1>5, <1>7
    <3>3. CASE i = L
      BY <3>3, <3>1, <2>2, <1>1, <1>2, <1>5, <1>7
    <3>4. CASE i # L /\ ~(i > L - k)
      <4>1. i + 1 \in 1..L /\ i + 1 > L - k /\ i + 1 # 1 /\ (i + 1) - 1 = i
        BY <3>4, <2>2, <1>1
      <4>2. p[i + 1] \in Within(n, k) /\ node[p[i + 1]].parentId = p[i]
        BY <4>1, <1>3, <1>5
      <4> QED
        BY <4>2, <3>1, <2>2, <1>7
    <3> QED
      BY <3>2, <3>3, <3>4
  <2> QED
    BY <2>1, <2>2, <1>6
<1> QED
  BY <1>8, <1>9
(* The pointers of a row reach itself and the ancestors its path names,    *)
(* all of them: a path repeats no id, so it is no longer than the climb.   *)
LEMMA PathsAreShort ==
    ASSUME TypeOK, PathsAreAncestry, AccessAssumption, NEW n \in DOMAIN node
    PROVE  Len(node[n].path) <= Cardinality(Ids)
<1>1. /\ node[n].path \in Seq(Ids) /\ Len(node[n].path) \in Nat
      /\ \A i \in 1..Len(node[n].path) : node[n].path[i] \in Ids
  BY FieldsTyped, LenProperties, ElementOfSeq
<1>2. PICK p, L : p = node[n].path /\ L = Len(node[n].path)
  OBVIOUS
<1>3. p \in [1..L -> Ids]
  BY <1>1, <1>2, LenProperties
<1>4. IsFiniteSet(Ids) /\ Cardinality(Ids) \in Nat
  BY FS_CardinalityType DEF AccessAssumption
<1>5. L \in Nat /\ IsFiniteSet(1..L) /\ Cardinality(1..L) = L
  <2>1. 1 \in Int /\ L \in Int /\ L \in Nat
    BY <1>1, <1>2
  <2>2. IsFiniteSet(1..L) /\ Cardinality(1..L) = IF 1 > L THEN 0 ELSE L - 1 + 1
    BY <2>1, FS_Interval
  <2> QED
    BY <2>1, <2>2
<1>6. SUFFICES ASSUME Cardinality(Ids) < L
               PROVE  FALSE
  BY <1>2, <1>4, <1>5
<1>7. \E i, j \in 1..L : i # j /\ p[i] = p[j]
  BY <1>3, <1>4, <1>5, <1>6, FS_PigeonHole
<1>8. \A i \in 1..L : Len(node[p[i]].path) = i - 1
  BY <1>2, AncestorAt
<1> QED
  BY <1>7, <1>8, <1>5

LEMMA AroundIs ==
    ASSUME TypeOK, PathsAreAncestry, AccessAssumption, NoParentAssumption,
           NEW n \in DOMAIN node
    PROVE  Around(n) = {n} \cup ancestorIds(n)
<1> DEFINE N == Cardinality(Ids)
<1>1. N \in Nat /\ Len(node[n].path) \in Nat /\ Len(node[n].path) <= N
  BY FS_CardinalityType, PathsAreShort, FieldsTyped, LenProperties DEF AccessAssumption
<1> DEFINE P(up) == up = [k \in 0..N |->
                IF k = 0 THEN {n}
                ELSE up[k - 1] \cup ({node[m].parentId : m \in up[k - 1]} \ {NoParent})]
           f == CHOOSE up : P(up)
<1>2. Climbs(f, n, N)
  <2>1. PICK g : Climbs(g, n, N)
    BY <1>1, ClimbExists
  <2>2. P(g)
    BY <2>1 DEF Climbs, Widened
  <2> HIDE DEF P
  <2>3. P(f)
    BY <2>2
  <2> USE DEF P
  <2> HIDE DEF f
  <2> QED
    BY <2>3 DEF Climbs, Widened
<1>3. Around(n) = f[N]
  BY DEF Around
<1> HIDE DEF f
<1>4. /\ f[0] = {n}
      /\ \A k \in 1..N : f[k] = Widened(f[k - 1])
  <2>1. \A k \in 0..N : f[k] = IF k = 0 THEN {n} ELSE Widened(f[k - 1])
    BY <1>2 DEF Climbs
  <2>2. 0 \in 0..N /\ \A k \in 1..N : k \in 0..N /\ k # 0
    BY <1>1
  <2> QED
    BY <2>1, <2>2
<1>5. f[N] = Within(n, N)
  <2> DEFINE T == {x \in Nat : x <= N /\ f[x] # Within(n, x)}
  <2> SUFFICES ASSUME T # {} PROVE FALSE
    BY <1>1
  <2>1. PICK x \in T : \A y \in T : x <= y
    <3>1. T \subseteq Nat
      OBVIOUS
    <3> HIDE DEF T
    <3> QED
      BY <3>1, Smallest
  <2>2. CASE x = 0
    <3>1. Within(n, 0) = {n}
      BY <1>1 DEF Within
    <3> QED
      BY <2>1, <2>2, <3>1, <1>4
  <2>3. CASE x # 0
    <3>1. x - 1 \in Nat /\ x \in 1..N /\ x - 1 <= N /\ x - 1 \notin T /\ (x - 1) + 1 = x
      BY <1>1, <2>1, <2>3
    <3>2. f[x - 1] = Within(n, x - 1)
      BY <3>1
    <3>3. Widened(Within(n, x - 1)) = Within(n, x)
      BY <3>1, WithinWidens
    <3> QED
      BY <3>1, <3>2, <3>3, <1>4, <2>1
  <2> QED
    BY <2>2, <2>3
<1>6. Within(n, N) = {n} \cup ancestorIds(n)
  <2>1. \A i \in 1..Len(node[n].path) : node[n].path[i] \in Ids
    BY FieldsTyped, LenProperties, ElementOfSeq
  <2>2. \A i \in 1..Len(node[n].path) : i > Len(node[n].path) - N
    BY <1>1
  <2>3. \A a : a \in ancestorIds(n) <=> \E i \in 1..Len(node[n].path) : a = node[n].path[i]
    BY AncestorIdsAt
  <2> QED
    BY <2>1, <2>2, <2>3 DEF Within
<1> QED
  BY <1>3, <1>5, <1>6

(* Inside a folder lies what its pattern matches. *)
LEMMA InsideIs ==
    ASSUME TypeOK, PathsAreAncestry, AccessAssumption, NoParentAssumption, NEW r
    PROVE  /\ \A m : m \in Inside(r) <=> m \in DOMAIN node /\ r \in ancestorIds(m)
           /\ r \in DOMAIN node => Inside(r) = Beneath(r)
<1>1. \A m \in DOMAIN node : r \in Around(m) \ {m} <=> r \in ancestorIds(m)
  BY AroundIs, NotOwnAncestor
<1>2. \A m : m \in Inside(r) <=> m \in DOMAIN node /\ r \in ancestorIds(m)
  BY <1>1 DEF Inside
<1>3. r \in DOMAIN node => \A m : m \in Beneath(r) <=> m \in DOMAIN node /\ r \in ancestorIds(m)
  BY PatternIsMembership DEF Beneath
<1> QED
  BY <1>2, <1>3
-----------------------------------------------------------------------------
(* What the patterns of the queries match *)

(* A row that matches a pattern made of a path read earlier is below every *)
(* row of that path, whatever has been moved since.                        *)
LEMMA PatternNames ==
    ASSUME TypeOK, NEW p \in Seq(Ids), NEW r \in Ids, NEW m \in DOMAIN node,
           StartsWith(node[m].path, Append(p, r))
    PROVE  Rows(p) \cup {r} \subseteq ancestorIds(m)
<1>1. /\ p \in Seq(Ids) /\ Len(p) \in Nat /\ DOMAIN p = 1..Len(p)
      /\ Len(Append(p, r)) = Len(p) + 1
      /\ Append(p, r)[Len(p) + 1] = r
      /\ \A i \in 1..Len(p) : Append(p, r)[i] = p[i]
  BY LenProperties, AppendProperties
<1>2. Len(node[m].path) \in Nat
  BY FieldsTyped, LenProperties
<1>3. /\ Len(p) + 1 <= Len(node[m].path)
      /\ \A i \in 1..(Len(p) + 1) : node[m].path[i] = Append(p, r)[i]
  BY <1>1 DEF StartsWith
<1>4. ASSUME NEW i \in 1..(Len(p) + 1)
      PROVE  Append(p, r)[i] \in ancestorIds(m)
  BY <1>1, <1>2, <1>3, AncestorIdsAt
<1>5. r \in ancestorIds(m)
  BY <1>1, <1>4
<1>6. \A i \in 1..Len(p) : p[i] \in ancestorIds(m)
  BY <1>1, <1>4
<1> QED
  BY <1>1, <1>5, <1>6 DEF Rows

(* The scope of a row as it is now. *)
LEMMA ScopeIs ==
    ASSUME TypeOK, PathsAreAncestry, AccessAssumption, NoParentAssumption,
           NEW r \in DOMAIN node
    PROVE  rowsWithinScope(r, node[r].path) = {r} \cup Inside(r)
<1>1. rowsWithinScope(r, node[r].path) = {r} \cup Beneath(r)
  BY DEF rowsWithinScope, Beneath, childPath
<1> QED
  BY <1>1, InsideIs

(* The scope of a row, computed from a path it once had, reaches no        *)
(* further than what is below it now.                                      *)
LEMMA StaleScope ==
    ASSUME TypeOK, PathsAreAncestry, AccessAssumption, NoParentAssumption,
           NEW r \in Ids, NEW p \in Seq(Ids)
    PROVE  rowsWithinScope(r, p) \subseteq {r} \cup Inside(r)
BY PatternNames, InsideIs DEF rowsWithinScope

(* A child's path is its parent's, and the parent. *)
LEMMA ChildPathIs ==
    ASSUME TypeOK, PathsAreAncestry, NoParentAssumption, NEW m \in DOMAIN node,
           NEW n \in DOMAIN node, node[m].parentId = n
    PROVE  node[m].path = Append(node[n].path, n) /\ n \in ancestorIds(m)
<1>1. /\ node[m].path \in Seq(Ids) /\ Len(node[m].path) \in Nat
      /\ node[n].path \in Seq(Ids) /\ Len(node[n].path) \in Nat
      /\ childPath(n) \in Seq(Ids)
      /\ Len(childPath(n)) = Len(node[n].path) + 1
      /\ childPath(n)[Len(node[n].path) + 1] = n
      /\ \A i \in 1..Len(node[n].path) : childPath(n)[i] = node[n].path[i]
      /\ n \in Ids
  BY FieldsTyped, LenProperties
<1>2. /\ node[m].path # << >>
      /\ node[m].path[Len(node[m].path)] = n
  <2>1. PathIsAncestry(m)
    BY DEF PathsAreAncestry
  <2>2. n # NoParent
    BY <1>1 DEF NoParentAssumption
  <2> QED
    BY <2>1, <2>2 DEF PathIsAncestry
<1>3. Len(node[m].path) \in 1..Len(node[m].path)
  BY <1>1, <1>2, EmptySeq
<1>4. /\ Len(node[n].path) = Len(node[m].path) - 1
      /\ \A j \in 1..(Len(node[m].path) - 1) : node[n].path[j] = node[m].path[j]
  BY <1>2, <1>3, AncestorAt
<1>5. PICK p, q : p = node[m].path /\ q = childPath(n)
  OBVIOUS
<1>6. /\ p \in Seq(Ids) /\ q \in Seq(Ids) /\ Len(p) = Len(q)
      /\ \A i \in 1..Len(p) : p[i] = q[i]
  BY <1>1, <1>2, <1>3, <1>4, <1>5
<1>7. p = q
  BY <1>6, SeqEqual
<1>8. n \in ancestorIds(m)
  BY <1>2, <1>3, AncestorIdsAt
<1> QED
  BY <1>5, <1>7, <1>8 DEF childPath
-----------------------------------------------------------------------------
(* The invariant *)

(* The scope's root is the requested row or one that its path named when   *)
(* it was read.                                                            *)
Scoped ==
    /\ req.pc # "none" => req.n \in Ids
    /\ req.pc \in {"scope", "ancestors", "handler", "crumbs", "answer"}
          => req.root \in Rows(req.path) \cup {req.n}

AccessInv ==
    /\ TreeInv
    /\ TombstonesReachDown
    /\ AccessTypeOK
    /\ Scoped

(* A step of the owner is a step of RoomTree. *)
LEMMA TreeStep ==
    ASSUME AccessAssumption, [AccessNext]_accessVars
    PROVE  [Next]_vars
<1>1. ASSUME NEW p \in Ids, NEW n \in Ids, OwnerCreates(p, n)
      PROVE  Next
  <2>1. Root \in Ids /\ n \in Names /\ CreateFolder(Root, p, n, n)
    BY <1>1 DEF OwnerCreates, AccessAssumption
  <2> QED
    BY <2>1 DEF Next
<1>2. ASSUME NEW p \in Ids, NEW n \in Ids, OwnerMoves(p, n)
      PROVE  Next
  BY <1>2 DEF OwnerMoves, Next
<1>3. ASSUME NEW n \in Ids, OwnerRemoves(n)
      PROVE  Next
  BY <1>3 DEF OwnerRemoves, Next
<1>4. ASSUME OwnerRemovesRoom
      PROVE  Next
  BY <1>4 DEF OwnerRemovesRoom, Next, AccessAssumption
<1>5. ASSUME UNCHANGED node
      PROVE  [Next]_vars
  BY <1>5 DEF vars
<1>6. ASSUME NEW n \in Ids, NEW h \in Holders, CreateShare(n, h) \/ Revoke(<< n, h >>)
      PROVE  UNCHANGED node
  BY <1>6 DEF CreateShare, Revoke
<1>7. ASSUME NEW n \in Ids, NEW creds \in (SUBSET Holders) \ {{}}, Arrive(n, creds)
      PROVE  UNCHANGED node
  BY <1>7 DEF Arrive
<1>8. ASSUME \/ ReadNode \/ FindGrant \/ ReadScopeRoot \/ CheckNotDeleted
             \/ List \/ Breadcrumbs \/ Rollup \/ Search \/ Reply
      PROVE  UNCHANGED node
  BY <1>8 DEF ReadNode, FindGrant, ReadScopeRoot, CheckNotDeleted, List, Breadcrumbs,
              Rollup, Search, Reply
<1>9. UNCHANGED accessVars => UNCHANGED node
  BY DEF accessVars
<1> QED
  BY <1>1, <1>2, <1>3, <1>4, <1>5, <1>6, <1>7, <1>8, <1>9 DEF AccessNext

LEMMA TreeKeeps ==
    ASSUME AccessAssumption, AccessInv, [AccessNext]_accessVars
    PROVE  TreeInv' /\ TombstonesReachDown'
BY TreeStep, StepKeeps, TombstonesStep DEF AccessInv

(* Only the cascade of the room takes rows away, and it takes their shares *)
(* along.                                                                  *)
SharesTyped ==
    /\ DOMAIN share \subseteq (DOMAIN node) \X Holders
    /\ share \in [DOMAIN share -> {"LIVE", "REVOKED"}]

LEMMA SharesKeep ==
    ASSUME AccessAssumption, AccessInv, [AccessNext]_accessVars
    PROVE  SharesTyped'
<1>0. SharesTyped
  BY DEF AccessInv, AccessTypeOK, SharesTyped
<1>1. ASSUME DOMAIN node \subseteq DOMAIN node', UNCHANGED share
      PROVE  SharesTyped'
  BY <1>0, <1>1 DEF SharesTyped
<1>2. ASSUME NEW p \in Ids, NEW n \in Ids, OwnerCreates(p, n)
      PROVE  SharesTyped'
  BY <1>1, <1>2 DEF OwnerCreates, CreateFolder, AddChild, Insert
<1>3. ASSUME NEW p \in Ids, NEW n \in Ids, OwnerMoves(p, n)
      PROVE  SharesTyped'
  BY <1>1, <1>3 DEF OwnerMoves, Move, Moved
<1>4. ASSUME NEW n \in Ids, OwnerRemoves(n)
      PROVE  SharesTyped'
  BY <1>1, <1>4 DEF OwnerRemoves, Remove
<1>5. ASSUME OwnerRemovesRoom
      PROVE  SharesTyped'
  <2> DEFINE S == {u \in DOMAIN share : u[1] \in DOMAIN node'}
  <2>1. share' = [s \in S |-> share[s]]
    BY <1>5 DEF OwnerRemovesRoom
  <2>2. \A s \in S : s \in (DOMAIN node') \X Holders /\ share[s] \in {"LIVE", "REVOKED"}
    BY <1>0 DEF SharesTyped
  <2> HIDE DEF S
  <2> QED
    BY <2>1, <2>2 DEF SharesTyped
<1>6. ASSUME NEW n \in Ids, NEW h \in Holders, CreateShare(n, h)
      PROVE  SharesTyped'
  <2>1. PICK s : s = << n, h >>
    OBVIOUS
  <2>2. /\ s \in (DOMAIN node) \X Holders
        /\ node' = node
        /\ share' = [u \in DOMAIN share \cup {s} |-> IF u = s THEN "LIVE" ELSE share[u]]
    BY <1>6, <2>1 DEF CreateShare, Admits
  <2> QED
    BY <1>0, <2>2 DEF SharesTyped
<1>7. ASSUME NEW n \in Ids, NEW h \in Holders, Revoke(<< n, h >>)
      PROVE  SharesTyped'
  <2>1. PICK s : s = << n, h >>
    OBVIOUS
  <2>2. s \in DOMAIN share /\ node' = node /\ share' = [share EXCEPT ![s] = "REVOKED"]
    BY <1>7, <2>1 DEF Revoke
  <2> QED
    BY <1>0, <2>2 DEF SharesTyped
<1>8. ASSUME NEW n \in Ids, NEW creds \in (SUBSET Holders) \ {{}}, Arrive(n, creds)
      PROVE  SharesTyped'
  BY <1>1, <1>8 DEF Arrive
<1>9. ASSUME \/ ReadNode \/ FindGrant \/ ReadScopeRoot \/ CheckNotDeleted
             \/ List \/ Breadcrumbs \/ Rollup \/ Search \/ Reply
      PROVE  SharesTyped'
  BY <1>1, <1>9 DEF ReadNode, FindGrant, ReadScopeRoot, CheckNotDeleted, List,
                    Breadcrumbs, Rollup, Search, Reply
<1>10. UNCHANGED accessVars => SharesTyped'
  BY <1>1 DEF accessVars
<1> QED
  BY <1>2, <1>3, <1>4, <1>5, <1>6, <1>7, <1>8, <1>9, <1>10 DEF AccessNext

(* Each query leaves the request typed and its scope named by its path. *)
LEMMA RequestKeeps ==
    ASSUME AccessAssumption, NoParentAssumption, AccessInv, [AccessNext]_accessVars
    PROVE  (req \in Request)' /\ Scoped'
<1>0. req \in Request /\ Scoped /\ TypeOK /\ DOMAIN node \subseteq Ids
  BY DEF AccessInv, AccessTypeOK, TypeOK
<1>1. ASSUME UNCHANGED req
      PROVE  (req \in Request)' /\ Scoped'
  BY <1>0, <1>1 DEF Scoped
<1>2. NoRequest \in Request /\ NoRequest.pc = "none"
  BY EmptySeq DEF NoRequest, Request
<1>3. ASSUME Answer
      PROVE  (req \in Request)' /\ Scoped'
  BY <1>2, <1>3 DEF Answer, Scoped
<1>4. ASSUME NEW n \in Ids, NEW creds \in (SUBSET Holders) \ {{}}, Arrive(n, creds)
      PROVE  (req \in Request)' /\ Scoped'
  BY <1>2, <1>4 DEF Arrive, Scoped, Request
<1>5. ASSUME ReadNode
      PROVE  (req \in Request)' /\ Scoped'
  <2>1. CASE req.n \in DOMAIN node
    <3>1. node[req.n] \in Row
      BY <1>0, <2>1, FieldsTyped
    <3>2. PICK p, d : p = node[req.n].path /\ d = node[req.n].deleted
      OBVIOUS
    <3>3. p \in Seq(Ids) /\ d \in BOOLEAN
      BY <3>1, <3>2 DEF Row
    <3>4. req' = [req EXCEPT !.pc = "grant", !.path = p, !.deleted = d] /\ req.pc = "node"
      BY <1>5, <2>1, <3>2 DEF ReadNode
    <3> QED
      BY <1>0, <3>3, <3>4 DEF Request, Scoped
  <2> QED
    BY <1>3, <1>5, <2>1 DEF ReadNode
<1>6. ASSUME FindGrant
      PROVE  (req \in Request)' /\ Scoped'
  <2>1. ASSUME NEW s \in Deepest(Candidates(req.n, req.path, req.creds)),
               req' = [req EXCEPT !.pc = "scope", !.root = s[1]]
        PROVE  (req \in Request)' /\ Scoped'
    <3>1. s[1] \in Rows(req.path) \cup {req.n} /\ s \in (DOMAIN node) \X Holders
      BY DEF Deepest, Candidates, AccessInv, AccessTypeOK
    <3>2. PICK r : r = s[1]
      OBVIOUS
    <3>3. r \in Ids /\ r \in Rows(req.path) \cup {req.n} /\ req.pc = "grant"
      BY <1>0, <1>6, <3>1, <3>2 DEF FindGrant
    <3>4. req' = [req EXCEPT !.pc = "scope", !.root = r]
      BY <2>1, <3>2
    <3> QED
      BY <1>0, <3>3, <3>4 DEF Request, Scoped
  <2> QED
    BY <1>3, <1>6, <2>1 DEF FindGrant
<1>7. ASSUME ReadScopeRoot
      PROVE  (req \in Request)' /\ Scoped'
  <2>1. CASE /\ req.root \in DOMAIN node
             /\ req' = [req EXCEPT !.pc = "ancestors", !.rootPath = node[req.root].path]
    <3>1. PICK p : p = node[req.root].path
      OBVIOUS
    <3>2. p \in Seq(Ids) /\ req' = [req EXCEPT !.pc = "ancestors", !.rootPath = p]
      BY <1>0, <2>1, <3>1, FieldsTyped
    <3>3. req.pc = "scope"
      BY <1>7 DEF ReadScopeRoot
    <3> QED
      BY <1>0, <3>2, <3>3 DEF Request, Scoped
  <2> QED
    BY <1>3, <1>7, <2>1 DEF ReadScopeRoot
<1>8. ASSUME CheckNotDeleted
      PROVE  (req \in Request)' /\ Scoped'
  <2>1. CASE req' = [req EXCEPT !.pc = "handler"] /\ req.pc = "ancestors"
    BY <1>0, <2>1 DEF Request, Scoped
  <2> QED
    BY <1>3, <1>8, <2>1 DEF CheckNotDeleted, Goto
<1>9. ASSUME NEW S, S \subseteq DOMAIN node, NEW pc \in {"crumbs", "answer"},
             req' = [req EXCEPT !.pc = pc, !.read = S],
             req.pc \in {"handler", "crumbs"}
      PROVE  (req \in Request)' /\ Scoped'
  BY <1>0, <1>9 DEF Request, Scoped
<1>10. ASSUME List
       PROVE  (req \in Request)' /\ Scoped'
  <2> DEFINE S == listChildren(req.n, req.path, req.root, req.rootPath)
  <2>1. S \subseteq DOMAIN node
    BY DEF listChildren, rowsWithinScope
  <2>2. req' = [req EXCEPT !.pc = "crumbs", !.read = S] /\ req.pc = "handler"
    BY <1>10 DEF List
  <2> HIDE DEF S
  <2> QED
    BY <1>9, <2>1, <2>2
<1>11. ASSUME Breadcrumbs
       PROVE  (req \in Request)' /\ Scoped'
  <2> DEFINE S == breadcrumbs(req.path, req.root, req.rootPath)
  <2>1. S \subseteq DOMAIN node
    BY DEF breadcrumbs, rowsWithinScope
  <2>2. req' = [req EXCEPT !.pc = "answer", !.read = S] /\ req.pc = "crumbs"
    BY <1>11 DEF Breadcrumbs
  <2> HIDE DEF S
  <2> QED
    BY <1>9, <2>1, <2>2
<1>12. ASSUME Rollup
       PROVE  (req \in Request)' /\ Scoped'
  <2> DEFINE S == forSubtree(req.n, req.path)
  <2>1. S \subseteq DOMAIN node
    BY DEF forSubtree
  <2>2. req' = [req EXCEPT !.pc = "answer", !.read = S] /\ req.pc = "handler"
    BY <1>12 DEF Rollup
  <2> HIDE DEF S
  <2> QED
    BY <1>9, <2>1, <2>2
<1>13. ASSUME Search
       PROVE  (req \in Request)' /\ Scoped'
  <2> DEFINE S == searchByName(req.root, req.rootPath)
  <2>1. S \subseteq DOMAIN node
    BY DEF searchByName, rowsWithinScope
  <2>2. req' = [req EXCEPT !.pc = "answer", !.read = S] /\ req.pc = "handler"
    BY <1>13 DEF Search
  <2> HIDE DEF S
  <2> QED
    BY <1>9, <2>1, <2>2
<1>14. ASSUME Reply
       PROVE  (req \in Request)' /\ Scoped'
  BY <1>3, <1>14 DEF Reply
<1>15. ASSUME NEW p \in Ids, NEW n \in Ids, OwnerCreates(p, n) \/ OwnerMoves(p, n)
       PROVE  UNCHANGED req
  BY <1>15 DEF OwnerCreates, OwnerMoves
<1>16. ASSUME NEW n \in Ids, OwnerRemoves(n)
       PROVE  UNCHANGED req
  BY <1>16 DEF OwnerRemoves
<1>17. ASSUME OwnerRemovesRoom
       PROVE  UNCHANGED req
  BY <1>17 DEF OwnerRemovesRoom
<1>18. ASSUME NEW n \in Ids, NEW h \in Holders, CreateShare(n, h) \/ Revoke(<< n, h >>)
       PROVE  UNCHANGED req
  BY <1>18 DEF CreateShare, Revoke
<1>19. UNCHANGED accessVars => UNCHANGED req
  BY DEF accessVars
<1> QED
  BY <1>1, <1>4, <1>5, <1>6, <1>7, <1>8, <1>10, <1>11, <1>12, <1>13, <1>14, <1>15,
     <1>16, <1>17, <1>18, <1>19 DEF AccessNext

LEMMA InvStep ==
    ASSUME AccessAssumption, NoParentAssumption, AccessInv, [AccessNext]_accessVars
    PROVE  AccessInv'
<1>1. TypeOK'
  BY TreeKeeps DEF TreeInv
<1>2. AccessTypeOK'
  BY <1>1, SharesKeep, RequestKeeps DEF AccessTypeOK, SharesTyped
<1> QED
  BY <1>2, TreeKeeps, RequestKeeps DEF AccessInv

LEMMA InvInit ==
    ASSUME AccessAssumption, NoParentAssumption, AccessInit
    PROVE  AccessInv
<1>1. PICK row : row = [roomId |-> Root, parentId |-> NoParent, type |-> "FOLDER",
                        name |-> Root, path |-> << >>, status |-> "ACTIVE",
                        deleted |-> FALSE]
  OBVIOUS
<1>2. /\ node = [m \in {Root} |-> row]
      /\ Root \in Ids /\ Root \in Names
  BY <1>1 DEF AccessInit, AccessAssumption
<1>3. row \in Row
  BY <1>1, <1>2, EmptySeq DEF Row
<1>4. DOMAIN node = {Root} /\ node[Root] = row
  BY <1>2
<1>5. TypeOK
  BY <1>2, <1>3, <1>4 DEF TypeOK
<1>6. /\ node[Root].path = << >> /\ node[Root].parentId = NoParent
      /\ node[Root].roomId = Root /\ node[Root].type = "FOLDER"
      /\ node[Root].status = "ACTIVE" /\ ancestorIds(Root) = {}
  BY <1>1, <1>4 DEF ancestorIds
<1>7. PathsAreAncestry /\ RoomsAreClosed /\ OnlyFoldersHoldNodes /\ TombstonesReachDown
  BY <1>4, <1>6 DEF PathsAreAncestry, PathIsAncestry, RoomsAreClosed,
                    OnlyFoldersHoldNodes, TombstonesReachDown, ROOT_PATH
<1>8. AccessTypeOK
  <2>1. DOMAIN share = {} /\ share \in [DOMAIN share -> {"LIVE", "REVOKED"}]
    BY DEF AccessInit
  <2>2. req \in Request
    BY EmptySeq DEF AccessInit, NoRequest, Request
  <2> QED
    BY <1>5, <2>1, <2>2 DEF AccessTypeOK
<1>9. Scoped
  BY DEF AccessInit, NoRequest, Scoped
<1> QED
  BY <1>5, <1>7, <1>8, <1>9 DEF AccessInv, TreeInv
(* The inductive invariant of the room's tables and the viewer's request,  *)
(* for any number of nodes, holders and shares.                            *)
THEOREM AccessCorrect == AccessSpec => []AccessInv
<1>1. AccessInit => AccessInv
  BY InvInit, AccessAssumption, NoParentAssumption
<1>2. AccessInv /\ [AccessNext]_accessVars => AccessInv'
  BY InvStep, AccessAssumption, NoParentAssumption
<1> QED
  BY <1>1, <1>2, PTL DEF AccessSpec

(* Shares are of nodes that exist, through cascades, and a request holds   *)
(* what it has read.                                                       *)
THEOREM AccessTypeCorrect == AccessSpec => []AccessTypeOK
<1>1. AccessInv => AccessTypeOK
  BY DEF AccessInv
<1> QED
  BY <1>1, AccessCorrect, PTL

-----------------------------------------------------------------------------
(* What a request reads *)

(* One step of a request reads below the shared row, as the tree then is.  *)
LEMMA ReadsBelow ==
    ASSUME AccessAssumption, NoParentAssumption, AccessInv, [AccessNext]_accessVars,
           req'.read # req.read
    PROVE  req'.read \subseteq Inside(req.root) \cup {req.root}
<1>0. /\ TypeOK /\ PathsAreAncestry /\ req \in Request /\ Scoped
  BY DEF AccessInv, AccessTypeOK, TreeInv
<1>1. req.path \in Seq(Ids) /\ req.rootPath \in Seq(Ids)
  BY <1>0 DEF Request
<1>2. \A m : m \in Inside(req.root) <=> m \in DOMAIN node /\ req.root \in ancestorIds(m)
  BY <1>0, InsideIs
<1>3. ASSUME req.pc \in {"handler", "crumbs"}
      PROVE  /\ req.n \in Ids /\ req.root \in Ids
             /\ req.root \in Rows(req.path) \cup {req.n}
             /\ rowsWithinScope(req.root, req.rootPath) \subseteq Inside(req.root) \cup {req.root}
  <2>1. req.n \in Ids /\ req.root \in Rows(req.path) \cup {req.n}
    BY <1>0, <1>3 DEF Scoped
  <2>2. Rows(req.path) \subseteq Ids
    BY <1>1, LenProperties, ElementOfSeq DEF Rows
  <2>3. req.root \in Ids
    BY <2>1, <2>2
  <2> QED
    BY <2>1, <2>3, <1>0, <1>1, StaleScope
<1>4. CASE List
  <2>1. /\ req.pc = "handler"
        /\ req'.read = listChildren(req.n, req.path, req.root, req.rootPath)
    BY <1>0, <1>4 DEF List, Request
  <2> QED
    BY <2>1, <1>3 DEF listChildren
<1>5. CASE Breadcrumbs
  <2>1. /\ req.pc = "crumbs"
        /\ req'.read = breadcrumbs(req.path, req.root, req.rootPath)
    BY <1>0, <1>5 DEF Breadcrumbs, Request
  <2> QED
    BY <2>1, <1>3 DEF breadcrumbs
<1>6. CASE Rollup
  <2>1. req.pc = "handler" /\ req'.read = forSubtree(req.n, req.path)
    BY <1>0, <1>6 DEF Rollup, Request
  <2>2. ASSUME NEW m \in forSubtree(req.n, req.path)
        PROVE  m \in Inside(req.root)
    <3>1. m \in DOMAIN node /\ StartsWith(node[m].path, Append(req.path, req.n))
      BY DEF forSubtree
    <3>2. Rows(req.path) \cup {req.n} \subseteq ancestorIds(m)
      BY <3>1, <2>1, <1>0, <1>1, <1>3, PatternNames
    <3> QED
      BY <3>1, <3>2, <2>1, <1>2, <1>3
  <2> QED
    BY <2>1, <2>2
<1>7. CASE Search
  <2>1. req.pc = "handler" /\ req'.read = searchByName(req.root, req.rootPath)
    BY <1>0, <1>7 DEF Search, Request
  <2> QED
    BY <2>1, <1>3 DEF searchByName
<1>8. CASE Answer
  BY <1>8 DEF Answer, NoRequest
<1>9. ASSUME NEW n \in Ids, NEW creds \in (SUBSET Holders) \ {{}}, Arrive(n, creds)
      PROVE  FALSE
  BY <1>9 DEF Arrive, NoRequest
<1>10. CASE ReadNode \/ FindGrant \/ ReadScopeRoot \/ CheckNotDeleted \/ Reply
  <2>1. Answer \/ req'.read = req.read
    BY <1>0, <1>10 DEF ReadNode, FindGrant, ReadScopeRoot, CheckNotDeleted, Reply, Goto,
                       Request
  <2> QED
    BY <2>1, <1>8
<1>11. ASSUME NEW p \in Ids, NEW n \in Ids, OwnerCreates(p, n) \/ OwnerMoves(p, n)
       PROVE  FALSE
  BY <1>11 DEF OwnerCreates, OwnerMoves
<1>12. ASSUME NEW n \in Ids, OwnerRemoves(n)
       PROVE  FALSE
  BY <1>12 DEF OwnerRemoves
<1>13. ASSUME OwnerRemovesRoom
       PROVE  FALSE
  BY <1>13 DEF OwnerRemovesRoom
<1>14. ASSUME NEW n \in Ids, NEW h \in Holders, CreateShare(n, h) \/ Revoke(<< n, h >>)
       PROVE  FALSE
  BY <1>14 DEF CreateShare, Revoke
<1>15. ~UNCHANGED accessVars
  BY DEF accessVars
<1> QED
  BY <1>4, <1>5, <1>6, <1>7, <1>8, <1>9, <1>10, <1>11, <1>12, <1>13, <1>14, <1>15
     DEF AccessNext

(* Whatever the owner moves, deletes and revokes between the queries of a  *)
(* request, no query returns a row outside the shared folder as it is when *)
(* the query runs (access-context.ts).                                     *)
THEOREM ReadsStayShared == AccessSpec => OnlySharedRowsAreRead
<1>1. AccessInv /\ [AccessNext]_accessVars =>
        [req'.read # req.read => req'.read \subseteq Inside(req.root) \cup {req.root}]_accessVars
  BY ReadsBelow, AccessAssumption, NoParentAssumption
<1> QED
  BY <1>1, AccessCorrect, PTL DEF AccessSpec, OnlySharedRowsAreRead
-----------------------------------------------------------------------------
(* The scoped queries, when nothing changes meanwhile *)

LEMMA ListIsChildren ==
    ASSUME TypeOK, PathsAreAncestry, AccessAssumption, NoParentAssumption,
           NEW root \in DOMAIN node, NEW n \in Inside(root) \cup {root}, n \in DOMAIN node
    PROVE  listChildren(n, node[n].path, root, node[root].path) =
               {m \in DOMAIN node : node[m].parentId = n /\ Shown(m)}
<1>1. ASSUME NEW m \in DOMAIN node, node[m].parentId = n
      PROVE  /\ m \in rowsWithinScope(root, node[root].path)
             /\ node[m].path = Append(node[n].path, n)
  <2>1. node[m].path = Append(node[n].path, n) /\ n \in ancestorIds(m)
    BY <1>1, ChildPathIs
  <2>2. n # root => root \in ancestorIds(n)
    BY InsideIs
  <2>3. root \in ancestorIds(m)
    BY <2>1, <2>2, AncestorsNest
  <2>4. m \in Inside(root)
    BY <2>3, InsideIs
  <2> QED
    BY <2>1, <2>4, ScopeIs
<1>2. rowsWithinScope(root, node[root].path) \subseteq DOMAIN node
  BY DEF rowsWithinScope
<1> QED
  BY <1>1, <1>2 DEF listChildren

LEMMA BreadcrumbsAreAncestors ==
    ASSUME TypeOK, PathsAreAncestry, AccessAssumption, NoParentAssumption,
           NEW root \in DOMAIN node, NEW n \in DOMAIN node
    PROVE  breadcrumbs(node[n].path, root, node[root].path) =
               (Around(n) \ {n}) \cap (Inside(root) \cup {root})
<1> DEFINE p == node[n].path
           visible == {p[i] : i \in {k \in DOMAIN p : \E j \in 1..k : p[j] = root}}
<1>1. p \in Seq(Ids) /\ Len(p) \in Nat /\ DOMAIN p = 1..Len(p)
  BY FieldsTyped, LenProperties
<1>2. Around(n) \ {n} = ancestorIds(n)
  BY AroundIs, NotOwnAncestor
<1>3. breadcrumbs(p, root, node[root].path) = visible \cap (Inside(root) \cup {root})
  BY ScopeIs DEF breadcrumbs
<1>4. visible \subseteq ancestorIds(n)
  BY <1>1, AncestorIdsAt
<1>5. ASSUME NEW a \in ancestorIds(n), a \in Inside(root) \cup {root}
      PROVE  a \in visible
  <2>1. PICK i \in 1..Len(p) : a = p[i]
    BY AncestorIdsAt
  <2>2. CASE a = root
    <3>1. i \in DOMAIN p /\ i \in 1..i /\ p[i] = root
      BY <1>1, <2>1, <2>2
    <3> HIDE DEF p
    <3> QED
      BY <2>1, <3>1
  <2>3. CASE a # root
    <3>1. a \in DOMAIN node /\ root \in ancestorIds(a)
      BY <1>5, <2>3, InsideIs
    <3>2. PICK j \in 1..Len(node[a].path) : root = node[a].path[j]
      BY <3>1, AncestorIdsAt
    <3>3. Len(node[a].path) = i - 1 /\ \A k \in 1..(i - 1) : node[a].path[k] = p[k]
      BY <2>1, AncestorAt
    <3>4. j \in 1..i /\ p[j] = root
      BY <3>2, <3>3, <2>1, <1>1
    <3> QED
      BY <1>1, <2>1, <3>4
  <2> QED
    BY <2>2, <2>3
<1> HIDE DEF visible, p
<1> QED
  BY <1>2, <1>3, <1>4, <1>5 DEF p

LEMMA QueriesAreSubtrees ==
    ASSUME TypeOK, PathsAreAncestry, AccessAssumption, NoParentAssumption, SharesTyped,
           NEW n \in DOMAIN node
    PROVE  /\ forSubtree(n, node[n].path) = {m \in Inside(n) : Shown(m)}
           /\ searchByName(n, node[n].path) = {m \in Inside(n) : Shown(m)}
           /\ previewShares(n) = {s \in DOMAIN share : /\ share[s] = "LIVE"
                                                      /\ s[1] \in Inside(n) \cup {n}}
<1>1. Inside(n) = Beneath(n) /\ n \notin Inside(n) /\ Inside(n) \subseteq DOMAIN node
  BY InsideIs, NotOwnAncestor
<1>2. \A m \in DOMAIN node :
          m \in Inside(n) <=> StartsWith(node[m].path, Append(node[n].path, n))
  BY <1>1 DEF Beneath, childPath
<1>3. forSubtree(n, node[n].path) = {m \in Inside(n) : Shown(m)}
  BY <1>1, <1>2 DEF forSubtree
<1>4. rowsWithinScope(n, node[n].path) \ {n} = Inside(n)
  BY <1>1, ScopeIs
<1>5. searchByName(n, node[n].path) = {m \in Inside(n) : Shown(m)}
  BY <1>4 DEF searchByName
<1>6. \A s \in DOMAIN share : s[1] \in DOMAIN node
  BY DEF SharesTyped
<1>7. previewShares(n) = {s \in DOMAIN share : /\ share[s] = "LIVE"
                                              /\ s[1] \in Inside(n) \cup {n}}
  BY <1>2, <1>6 DEF previewShares
<1> QED
  BY <1>3, <1>5, <1>7

(* Whatever was moved, the patterns of listing, breadcrumbs, totals,       *)
(* search and delete dialog return what the parent pointers hold.          *)
THEOREM ReadsCorrect == AccessSpec => []ReadsAreTheSubtree
<1>1. AccessInv => ReadsAreTheSubtree
  <2> SUFFICES ASSUME AccessInv, NEW root \in DOMAIN node,
                      NEW n \in Inside(root) \cup {root}
               PROVE  LET rp == node[root].path
                          np == node[n].path
                      IN  /\ listChildren(n, np, root, rp) =
                                {m \in DOMAIN node : node[m].parentId = n /\ Shown(m)}
                          /\ breadcrumbs(np, root, rp) =
                                (Around(n) \ {n}) \cap (Inside(root) \cup {root})
                          /\ forSubtree(n, np) = {m \in Inside(n) : Shown(m)}
                          /\ searchByName(root, rp) = {m \in Inside(root) : Shown(m)}
                          /\ previewShares(n) =
                                {s \in DOMAIN share : /\ share[s] = "LIVE"
                                                      /\ s[1] \in Inside(n) \cup {n}}
    BY DEF ReadsAreTheSubtree
  <2>1. TypeOK /\ PathsAreAncestry /\ SharesTyped
    BY DEF AccessInv, AccessTypeOK, TreeInv, SharesTyped
  <2>2. n \in DOMAIN node
    BY <2>1, InsideIs, AccessAssumption, NoParentAssumption
  <2>3. listChildren(n, node[n].path, root, node[root].path) =
            {m \in DOMAIN node : node[m].parentId = n /\ Shown(m)}
    BY <2>1, <2>2, ListIsChildren, AccessAssumption, NoParentAssumption
  <2>4. breadcrumbs(node[n].path, root, node[root].path) =
            (Around(n) \ {n}) \cap (Inside(root) \cup {root})
    BY <2>1, <2>2, BreadcrumbsAreAncestors, AccessAssumption, NoParentAssumption
  <2>5. /\ forSubtree(n, node[n].path) = {m \in Inside(n) : Shown(m)}
        /\ searchByName(root, node[root].path) = {m \in Inside(root) : Shown(m)}
        /\ previewShares(n) = {s \in DOMAIN share : /\ share[s] = "LIVE"
                                                   /\ s[1] \in Inside(n) \cup {n}}
    BY <2>1, <2>2, QueriesAreSubtrees, AccessAssumption, NoParentAssumption
  <2> QED
    BY <2>3, <2>4, <2>5
<1> QED
  BY <1>1, AccessCorrect, PTL
-----------------------------------------------------------------------------
(* The resolver *)

(* The folders around a row, by their position on its path. *)
LEMMA AroundAt ==
    ASSUME TypeOK, PathsAreAncestry, AccessAssumption, NoParentAssumption,
           NEW n \in DOMAIN node, NEW a \in Around(n)
    PROVE  /\ a \in DOMAIN node
           /\ \E i \in 1..(Len(node[n].path) + 1) :
                 /\ childPath(n)[i] = a
                 /\ Len(node[a].path) = i - 1
                 /\ \A j \in 1..(i - 1) : node[a].path[j] = childPath(n)[j]
<1>1. /\ Len(node[n].path) \in Nat
      /\ childPath(n)[Len(node[n].path) + 1] = n
      /\ \A i \in 1..Len(node[n].path) : childPath(n)[i] = node[n].path[i]
  BY FieldsTyped, LenProperties
<1>2. a = n \/ a \in ancestorIds(n)
  BY AroundIs
<1>3. CASE a = n
  <2>1. Len(node[n].path) + 1 \in 1..(Len(node[n].path) + 1)
    BY <1>1
  <2>2. (Len(node[n].path) + 1) - 1 = Len(node[n].path)
    BY <1>1
  <2> QED
    BY <1>1, <1>3, <2>1, <2>2
<1>4. CASE a \in ancestorIds(n)
  <2>1. PICK i \in 1..Len(node[n].path) : a = node[n].path[i]
    BY <1>4, AncestorIdsAt
  <2>2. /\ a \in DOMAIN node
        /\ Len(node[a].path) = i - 1
        /\ \A j \in 1..(i - 1) : node[a].path[j] = node[n].path[j]
    BY <2>1, AncestorAt
  <2>3. i \in 1..(Len(node[n].path) + 1) /\ childPath(n)[i] = a
    BY <1>1, <2>1
  <2>4. \A j \in 1..(i - 1) : node[a].path[j] = childPath(n)[j]
    BY <1>1, <2>2
  <2> QED
    BY <2>2, <2>3, <2>4
<1> QED
  BY <1>2, <1>3, <1>4

(* Of two folders around a row, the one with the shorter path is around    *)
(* the other: ORDER BY length(path) orders them from the outside in.       *)
LEMMA LengthIsDepth ==
    ASSUME TypeOK, PathsAreAncestry, AccessAssumption, NoParentAssumption,
           NEW n \in DOMAIN node, NEW a \in Around(n), NEW b \in Around(n)
    PROVE  Len(node[a].path) <= Len(node[b].path) <=> a \in Around(b)
<1>1. Len(node[n].path) \in Nat
  BY FieldsTyped, LenProperties
<1>2. a \in DOMAIN node /\ b \in DOMAIN node
  BY AroundAt
<1>3. PICK i \in 1..(Len(node[n].path) + 1) :
        /\ childPath(n)[i] = a
        /\ Len(node[a].path) = i - 1
  BY AroundAt
<1>4. PICK k \in 1..(Len(node[n].path) + 1) :
        /\ childPath(n)[k] = b
        /\ Len(node[b].path) = k - 1
        /\ \A j \in 1..(k - 1) : node[b].path[j] = childPath(n)[j]
  BY AroundAt
<1>5. i \in Nat /\ k \in Nat /\ 1 <= i
  BY <1>1, <1>3, <1>4
<1>6. Around(b) = {b} \cup ancestorIds(b)
  BY <1>2, AroundIs
<1>7. ASSUME i <= k
      PROVE  a \in Around(b)
  <2>1. CASE i = k
    BY <2>1, <1>3, <1>4, <1>6
  <2>2. CASE i # k
    <3>1. i \in 1..(k - 1)
      BY <1>5, <1>7, <2>2
    <3>2. node[b].path[i] = a /\ i \in 1..Len(node[b].path)
      BY <1>3, <1>4, <3>1
    <3>3. a \in ancestorIds(b)
      BY <1>2, <3>2, AncestorIdsAt
    <3> QED
      BY <3>3, <1>6
  <2> QED
    BY <2>1, <2>2
<1>8. ASSUME a \in Around(b)
      PROVE  i <= k
  <2>1. CASE a = b
    BY <2>1, <1>3, <1>4, <1>5
  <2>2. CASE a \in ancestorIds(b)
    <3>1. PICK j \in 1..Len(node[b].path) : a = node[b].path[j]
      BY <1>2, <2>2, AncestorIdsAt
    <3>2. Len(node[a].path) = j - 1
      BY <1>2, <3>1, AncestorAt
    <3> QED
      BY <3>1, <3>2, <1>3, <1>4, <1>5
  <2> QED
    BY <2>1, <2>2, <1>6, <1>8
<1> QED
  BY <1>3, <1>4, <1>5, <1>7, <1>8

(* The rows around n on which one of the credentials holds a live share,   *)
(* and the innermost of them.                                              *)
Held(n, creds) ==
    {a \in Around(n) : \E h \in creds : << a, h >> \in DOMAIN share
                                        /\ share[<< a, h >>] = "LIVE"}

Innermost(n, creds) == {a \in Held(n, creds) : \A b \in Held(n, creds) : b \in Around(a)}

LEMMA HeldHasInnermost ==
    ASSUME TypeOK, PathsAreAncestry, AccessAssumption, NoParentAssumption,
           NEW n \in DOMAIN node, NEW creds, Held(n, creds) # {}
    PROVE  Innermost(n, creds) # {}
<1> DEFINE H == Held(n, creds)
           far(a) == Len(node[n].path) + 1 - Len(node[a].path)
           T == {x \in Nat : \E a \in H : x = far(a)}
<1>1. H \subseteq Around(n)
  BY DEF Held
<1>2. \A a \in H : far(a) \in Nat /\ Len(node[a].path) \in Nat
  <2>1. Len(node[n].path) \in Nat
    BY FieldsTyped, LenProperties
  <2> SUFFICES ASSUME NEW a \in H
               PROVE  far(a) \in Nat /\ Len(node[a].path) \in Nat
    OBVIOUS
  <2>2. PICK i \in 1..(Len(node[n].path) + 1) : Len(node[a].path) = i - 1
    BY <1>1, AroundAt
  <2> QED
    BY <2>1, <2>2
<1>3. T \subseteq Nat /\ T # {}
  BY <1>2
<1> HIDE DEF T
<1>4. PICK x \in T : \A y \in T : x <= y
  BY <1>3, Smallest
<1> USE DEF T
<1> HIDE DEF H
<1>5. PICK a \in H : x = far(a)
  BY <1>4
<1>6. ASSUME NEW b \in H
      PROVE  b \in Around(a)
  <2>1. far(a) <= far(b)
    BY <1>2, <1>4, <1>5
  <2>2. Len(node[n].path) \in Nat /\ Len(node[a].path) \in Nat /\ Len(node[b].path) \in Nat
    BY <1>2, FieldsTyped, LenProperties
  <2>3. Len(node[b].path) <= Len(node[a].path)
    BY <2>1, <2>2
  <2> QED
    BY <2>3, <1>1, LengthIsDepth
<1>7. a \in Innermost(n, creds)
  BY <1>6 DEF Innermost, H
<1> QED
  BY <1>7

(* Among the candidates the innermost rows come out on top. *)
LEMMA ScopesAre ==
    ASSUME TypeOK, PathsAreAncestry, AccessAssumption, NoParentAssumption, SharesTyped,
           NEW n \in DOMAIN node, NEW creds
    PROVE  {s[1] : s \in {u \in Deepest(Candidates(n, node[n].path, creds)) :
                isWithinSubtree(n, node[n].path, u[1], node[u[1]].path)}}
           = Innermost(n, creds)
<1> DEFINE found == Candidates(n, node[n].path, creds)
<1>1. Rows(node[n].path) \cup {n} = Around(n)
  BY AroundIs DEF Rows, ancestorIds
<1>2. \A s \in found : s[1] \in Held(n, creds)
  <2> SUFFICES ASSUME NEW s \in found
               PROVE  s[1] \in Held(n, creds)
    OBVIOUS
  <2>1. s \in DOMAIN share /\ s[1] \in Around(n) /\ s[2] \in creds /\ share[s] = "LIVE"
    BY <1>1 DEF Candidates
  <2>2. s = << s[1], s[2] >>
    BY <2>1 DEF SharesTyped
  <2> QED
    BY <2>1, <2>2 DEF Held
<1>3. ASSUME NEW a \in Held(n, creds)
      PROVE  \E s \in found : s[1] = a
  <2>1. PICK h \in creds : << a, h >> \in DOMAIN share /\ share[<< a, h >>] = "LIVE"
    BY DEF Held
  <2>2. a \in Around(n)
    BY DEF Held
  <2>3. << a, h >> \in found
    BY <1>1, <2>1, <2>2 DEF Candidates
  <2> QED
    BY <2>3
<1>4. Held(n, creds) \subseteq Around(n)
  BY DEF Held
<1>5. ASSUME NEW a \in Around(n)
      PROVE  isWithinSubtree(n, node[n].path, a, node[a].path)
  <2>1. a \in DOMAIN node /\ (a = n \/ a \in ancestorIds(n))
    BY AroundIs, AroundAt
  <2>2. a # n => n \in Beneath(a)
    BY <2>1, PatternIsMembership
  <2> QED
    BY <2>1, <2>2 DEF isWithinSubtree, Beneath, childPath
<1>6. \A a, b \in Held(n, creds) :
          Len(node[b].path) <= Len(node[a].path) <=> b \in Around(a)
  BY <1>4, LengthIsDepth
<1> HIDE DEF found
<1>7. ASSUME NEW s \in Deepest(found)
      PROVE  s[1] \in Innermost(n, creds) /\ isWithinSubtree(n, node[n].path, s[1], node[s[1]].path)
  <2>1. s \in found /\ \A u \in found : Len(node[u[1]].path) <= Len(node[s[1]].path)
    BY DEF Deepest
  <2>2. s[1] \in Held(n, creds)
    BY <2>1, <1>2
  <2>3. \A b \in Held(n, creds) : Len(node[b].path) <= Len(node[s[1]].path)
    BY <2>1, <1>3
  <2> QED
    BY <2>2, <2>3, <1>4, <1>5, <1>6 DEF Innermost
<1>8. ASSUME NEW a \in Innermost(n, creds)
      PROVE  \E s \in Deepest(found) : s[1] = a
  <2>1. a \in Held(n, creds) /\ \A b \in Held(n, creds) : Len(node[b].path) <= Len(node[a].path)
    BY <1>6 DEF Innermost
  <2>2. PICK s \in found : s[1] = a
    BY <2>1, <1>3
  <2>3. s \in Deepest(found)
    BY <2>1, <2>2, <1>2 DEF Deepest
  <2> QED
    BY <2>2, <2>3
<1>9. found = Candidates(n, node[n].path, creds)
  BY DEF found
<1> QED
  BY <1>7, <1>8, <1>9

LEMMA ResolveIs ==
    ASSUME TypeOK, PathsAreAncestry, AccessAssumption, NoParentAssumption, SharesTyped,
           NEW n \in DOMAIN node, NEW creds
    PROVE  /\ Gone(node[n].deleted, node[n].path) <=> \E a \in Around(n) : node[a].deleted
           /\ Resolve(n, creds) =
                IF Held(n, creds) = {} THEN {"404"}
                ELSE IF \E a \in Around(n) : node[a].deleted THEN {"410"}
                ELSE Innermost(n, creds)
<1>1. Gone(node[n].deleted, node[n].path) <=> \E a \in Around(n) : node[a].deleted
  <2>1. Around(n) = Rows(node[n].path) \cup {n} /\ Around(n) \subseteq DOMAIN node
    BY AroundIs, AroundAt DEF Rows, ancestorIds
  <2> QED
    BY <2>1 DEF Gone
<1>2. Held(n, creds) = {} <=> Innermost(n, creds) = {}
  BY HeldHasInnermost DEF Innermost
<1>3. PICK scopes : scopes =
          {s[1] : s \in {u \in Deepest(Candidates(n, node[n].path, creds)) :
              isWithinSubtree(n, node[n].path, u[1], node[u[1]].path)}}
  OBVIOUS
<1>4. scopes = Innermost(n, creds)
  BY <1>3, ScopesAre
<1>5. CASE scopes = {}
  <2>1. Resolve(n, creds) = {"404"}
    BY <1>3, <1>5 DEF Resolve
  <2> QED
    BY <1>1, <1>2, <1>4, <1>5, <2>1
<1>6. CASE scopes # {} /\ Gone(node[n].deleted, node[n].path)
  <2>1. Resolve(n, creds) = {"410"}
    BY <1>3, <1>6 DEF Resolve
  <2> QED
    BY <1>1, <1>2, <1>4, <1>6, <2>1
<1>7. CASE scopes # {} /\ ~Gone(node[n].deleted, node[n].path)
  <2>1. Resolve(n, creds) = scopes
    BY <1>3, <1>7 DEF Resolve
  <2> QED
    BY <1>1, <1>2, <1>4, <1>7, <2>1
<1> QED
  BY <1>5, <1>6, <1>7
(* A caller is admitted to exactly the rows on which, or on a folder       *)
(* around which, it holds a live share, and is scoped to the innermost     *)
(* one; only such a caller is told of a deletion (access.resolver.ts).     *)
THEOREM ResolverCorrect == AccessSpec => []ResolverMatchesGrants
<1>1. AccessInv => ResolverMatchesGrants
  <2> SUFFICES ASSUME AccessInv, NEW n \in DOMAIN node, NEW creds \in SUBSET Holders
               PROVE  Resolve(n, creds) =
                          IF Held(n, creds) = {} THEN {"404"}
                          ELSE IF \E a \in Around(n) : node[a].deleted THEN {"410"}
                          ELSE Innermost(n, creds)
    BY DEF ResolverMatchesGrants, Held, Innermost
  <2>1. TypeOK /\ PathsAreAncestry /\ SharesTyped
    BY DEF AccessInv, AccessTypeOK, TreeInv, SharesTyped
  <2> QED
    BY <2>1, ResolveIs, AccessAssumption, NoParentAssumption
<1> QED
  BY <1>1, AccessCorrect, PTL

(* The link's page and the start page announce a share exactly if the      *)
(* resolver then opens it: a share of a row below a deleted folder is on   *)
(* neither, although the start page looks at one tombstone only            *)
(* (shares.service.ts, rooms.service.ts).                                  *)
THEOREM AnnouncedCorrect == AccessSpec => []AnnouncedSharesOpen
<1>1. AccessInv => AnnouncedSharesOpen
  <2> SUFFICES ASSUME AccessInv, NEW s \in DOMAIN share
               PROVE  LET opens == s[1] \in Resolve(s[1], {s[2]})
                      IN  /\ s[2] \in Tokens => (s[1] \in resolveToken(s) <=> opens)
                          /\ s[2] \in Emails => (s \in listSharedWithMe(s[2]) <=> opens)
    BY DEF AnnouncedSharesOpen
  <2>1. TypeOK /\ PathsAreAncestry /\ SharesTyped /\ TombstonesReachDown
    BY DEF AccessInv, AccessTypeOK, TreeInv, SharesTyped
  <2>2. PICK n, h : n = s[1] /\ h = s[2]
    OBVIOUS
  <2>3. s = << n, h >> /\ n \in DOMAIN node /\ n \in Ids
    BY <2>1, <2>2 DEF SharesTyped, TypeOK
  <2>4. n \notin {"404"} /\ n \notin {"410"}
    BY <2>3, AccessAssumption DEF AccessAssumption
  <2>5. Around(n) = {n} \cup ancestorIds(n)
    BY <2>1, <2>3, AroundIs, AccessAssumption, NoParentAssumption
  <2>6. n \in Held(n, {h}) <=> share[s] = "LIVE"
    BY <2>3, <2>5 DEF Held
  <2>7. n \in Innermost(n, {h}) <=> n \in Held(n, {h})
    BY DEF Innermost, Held
  <2>8. (\E a \in Around(n) : node[a].deleted) <=> node[n].deleted
    <3>1. ~node[n].deleted => \A a \in ancestorIds(n) : ~node[a].deleted
      BY <2>1, <2>3 DEF TombstonesReachDown, Live
    <3> QED
      BY <3>1, <2>5
  <2>9. /\ Gone(node[n].deleted, node[n].path) <=> node[n].deleted
        /\ Resolve(n, {h}) = IF Held(n, {h}) = {} THEN {"404"}
                             ELSE IF node[n].deleted THEN {"410"}
                             ELSE Innermost(n, {h})
    BY <2>1, <2>3, <2>8, ResolveIs, AccessAssumption, NoParentAssumption
  <2>10. n \in Resolve(n, {h}) <=> share[s] = "LIVE" /\ ~node[n].deleted
    <3>1. CASE Held(n, {h}) = {}
      BY <3>1, <2>4, <2>6, <2>9
    <3>2. CASE Held(n, {h}) # {} /\ node[n].deleted
      BY <3>2, <2>4, <2>9
    <3>3. CASE Held(n, {h}) # {} /\ ~node[n].deleted
      BY <3>3, <2>6, <2>7, <2>9
    <3> QED
      BY <3>1, <3>2, <3>3
  <2>11. n \in resolveToken(s) <=> share[s] = "LIVE" /\ ~node[n].deleted
    <3>1. share[s] \in {"LIVE", "REVOKED"}
      BY <2>1 DEF SharesTyped
    <3> QED
      BY <3>1, <2>2, <2>4, <2>9 DEF resolveToken
  <2>12. s \in listSharedWithMe(h) <=> share[s] = "LIVE" /\ ~node[n].deleted
    BY <2>2 DEF listSharedWithMe
  <2> QED
    BY <2>2, <2>10, <2>11, <2>12
<1> QED
  BY <1>1, AccessCorrect, PTL
=============================================================================
