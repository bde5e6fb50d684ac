---------------------------- MODULE TreeTxProofs ----------------------------
(***************************************************************************)
(* What holds of TreeTx for any number of requests and folders.            *)
(*                                                                         *)
(* Requests interleave statement by statement, so the invariant says what  *)
(* of its reads a request may still rely on: that the rows it has written  *)
(* are locked by it and no older than the committed ones (LocksHeld), that *)
(* the id it is to create is nobody else's (Fresh), that every path it may *)
(* write starts at the root (Rooted).  A request alone in the database may *)
(* rely on all it has read, and its uncommitted rows are those its handler *)
(* in RoomTree computes in one step (Progress).                            *)
(*                                                                         *)
(* Whether the parents stay one tree is a matter of the cycle check: what  *)
(* it found holds to the commit, for both folders stay locked (MoveInv);   *)
(* so a commit that finds the paths right closes no loop, and any two      *)
(* requests leave one tree (PairInv).                                      *)
(***************************************************************************)
EXTENDS TreeTx, SequenceTheorems, FiniteSetTheorems, WellFoundedInduction, TLAPS

Row == [parentId : Ids \cup {Nobody}, path : Seq(Ids), deleted : BOOLEAN]

Stages == {"new", "guard", "ancestors", "move", "locking", "paths",
           "remove", "marking", "self", "parent", "insert", "commit", "done"}

Request == [op : {"none", "move", "remove", "create"}, pc : Stages, n : Ids, d : Ids,
            path : Seq(Ids), todo : SUBSET Ids, alone : BOOLEAN]

TypeOK ==
    /\ DOMAIN node \subseteq Ids
    /\ node \in [DOMAIN node -> Row]
    /\ lock \in [Ids -> Reqs \cup {Nobody}]
    /\ DOMAIN dirty = Reqs
    /\ \A t \in Reqs : /\ DOMAIN dirty[t] \subseteq DOMAIN node
                       /\ dirty[t] \in [DOMAIN dirty[t] -> Row]
    /\ tx \in [Reqs -> Request]

(* Which operation is at which statement, and about which rows. *)
Staged(t) ==
    /\ tx[t].n \in DOMAIN node
    /\ tx[t].todo \subseteq DOMAIN node
    /\ tx[t].op = "move" => tx[t].d \in DOMAIN node
    /\ tx[t].pc \in {"guard", "ancestors"} => tx[t].op \in {"move", "remove"}
    /\ tx[t].pc \in {"move", "locking", "paths"} => tx[t].op = "move"
    /\ tx[t].pc \in {"remove", "marking", "self"} => tx[t].op = "remove"
    /\ tx[t].pc \in {"parent", "insert"} => tx[t].op = "create"
    /\ tx[t].pc = "commit" => tx[t].op \in {"move", "remove"}
    /\ tx[t].pc \in {"move", "locking", "paths", "remove", "marking", "self", "commit"}
         => tx[t].n # Root

AllStaged == \A t \in Reqs : Staged(t)

(* The id a request is to create is nobody else's. *)
Fresh ==
    \A t \in Reqs : tx[t].pc \in {"parent", "insert"} =>
        /\ tx[t].d \notin DOMAIN node
        /\ \A u \in Reqs \ {t} : tx[u].d # tx[t].d

(* No request writes the root. *)
RootStays ==
    /\ Root \in DOMAIN node
    /\ node[Root] = [parentId |-> Nobody, path |-> << >>, deleted |-> FALSE]
    /\ \A t \in Reqs : Root \notin DOMAIN dirty[t]

Rooted(p) == p # << >> /\ p[1] = Root

(* Every path starts at the root, committed or about to be written. *)
PathsRooted ==
    /\ \A m \in DOMAIN node \ {Root} : Rooted(node[m].path)
    /\ \A t \in Reqs : \A m \in DOMAIN dirty[t] : Rooted(dirty[t][m].path)
    /\ \A t \in Reqs : tx[t].pc = "insert" => Rooted(tx[t].path)

(* A request holds the locks of what it has written, and writes no row     *)
(* back to life; a move holds its source from the check to the end.        *)
Held(t) ==
    /\ tx[t].pc \notin {"paths", "marking", "self", "commit"} => dirty[t] = NoRows
    /\ \A m \in DOMAIN dirty[t] :
          lock[m] = t /\ (node[m].deleted => dirty[t][m].deleted)
    /\ tx[t].pc = "locking" =>
          \A m \in {tx[t].n, tx[t].d} : Live(m) => m \in tx[t].todo \/ lock[m] = t
    /\ tx[t].pc = "paths" => lock[tx[t].n] = t

LocksHeld == \A t \in Reqs : Held(t)

-----------------------------------------------------------------------------
(* Requests that overlap with no other *)

OnlyOne ==
    \A t, u \in Reqs : tx[t].alone /\ t \in InFlight /\ u \in InFlight => u = t

(* AccessGuard has let the request in, having read the path. *)
Admitted(t, path) ==
    /\ Live(tx[t].n)
    /\ path = node[tx[t].n].path
    /\ \A i \in DOMAIN path : Live(path[i])

(* The rows below the one it names, and those of them still live. *)
Subtree(t) == {m \in DOMAIN node : Tree!StartsWith(node[m].path, childPath(tx[t].n))}
LiveBelow(t) == {m \in Subtree(t) : Live(m)}

(* The checks of a move that goes on to write. *)
Accepted(t) ==
    /\ Live(tx[t].d)
    /\ tx[t].d # tx[t].n
    /\ ~Tree!StartsWith(node[tx[t].d].path, childPath(tx[t].n))
    /\ node[tx[t].n].parentId # tx[t].d

(* The row a move makes of m. *)
Carried(t, m) ==
    IF m = tx[t].n
    THEN [node[m] EXCEPT !.parentId = tx[t].d, !.path = childPath(tx[t].d)]
    ELSE [node[m] EXCEPT !.path = Append(childPath(tx[t].d), tx[t].n)
            \o SubSeq(@, Len(childPath(tx[t].n)) + 1, Len(@))]

Marked(m) == [node[m] EXCEPT !.deleted = TRUE]

(* How far an undisturbed request has come: at statement pc, having read   *)
(* path, with the rows todo yet to visit and the rows written.             *)
Reached(t, pc, path, todo, rows) ==
    /\ pc = "ancestors" => Live(tx[t].n) /\ path = node[tx[t].n].path
    /\ pc \in {"move", "locking", "paths", "remove", "marking", "self", "commit"}
         => Admitted(t, path)
    /\ pc = "insert" => Live(tx[t].n) /\ path = childPath(tx[t].n)
    /\ pc = "paths" =>
         /\ Accepted(t)
         /\ todo \subseteq Subtree(t)
         /\ rows = [m \in Subtree(t) \ todo |-> Carried(t, m)]
    /\ pc = "commit" /\ tx[t].op = "move" =>
         \/ rows = NoRows
         \/ /\ Accepted(t)
            /\ rows = [m \in Subtree(t) \cup {tx[t].n} |-> Carried(t, m)]
    /\ pc = "marking" =>
         /\ todo \subseteq LiveBelow(t)
         /\ rows = [m \in LiveBelow(t) \ todo |-> Marked(m)]
    /\ pc = "self" =>
         /\ todo \subseteq {tx[t].n}
         /\ rows = [m \in (LiveBelow(t) \cup {tx[t].n}) \ todo |-> Marked(m)]
    /\ pc = "commit" /\ tx[t].op = "remove" =>
         rows = [m \in LiveBelow(t) \cup {tx[t].n} |-> Marked(m)]

Progress(t) == Reached(t, tx[t].pc, tx[t].path, tx[t].todo, dirty[t])

Undisturbed == \A t \in Reqs : tx[t].alone /\ t \in InFlight => Progress(t)

TreeInv ==
    /\ TypeOK
    /\ AllStaged
    /\ Fresh
    /\ RootStays
    /\ PathsRooted
    /\ LocksHeld
    /\ OnlyOne
    /\ Undisturbed
-----------------------------------------------------------------------------
(* The room at the start *)

(* Every set of numbers has a smallest. *)
LEMMA Smallest ==
    ASSUME NEW T, T \subseteq Nat, T # {}
    PROVE  \E x \in T : \A y \in T : x <= y
<1>1. PICK x \in T : \A y \in T : ~ (<<y, x>> \in OpToRel(<, Nat))
  BY NatLessThanWellFounded, WFMin
<1>2. \A y \in T : ~ (y < x)
  BY <1>1 DEF OpToRel
<1> QED
  BY <1>2

(* One step of the climb from a row to the root. *)
Climbed(par, s) == IF Head(s) = Root THEN s ELSE << par[Head(s)] >> \o s

(* f is the climb from n, step by step. *)
Climbs(f, par, n, N) ==
    f = [k \in 0..N |-> IF k = 0 THEN << n >> ELSE Climbed(par, f[k - 1])]

LEMMA ClimbExists ==
    ASSUME NEW par, NEW n, NEW N \in Nat
    PROVE  \E f : Climbs(f, par, n, N)
<1> DEFINE T == {x \in Nat : ~ \E f : Climbs(f, par, n, x)}
<1> SUFFICES ASSUME T # {} PROVE FALSE
  OBVIOUS
<1>1. PICK x \in T : \A y \in T : x <= y
  <2>1. T \subseteq Nat
    OBVIOUS
  <2> HIDE DEF T
  <2> QED
    BY <2>1, Smallest
<1>2. CASE x = 0
  <2> DEFINE f == [k \in 0..0 |-> << n >>]
  <2>1. \A k \in 0..0 : k = 0
    OBVIOUS
  <2>2. f = [k \in 0..0 |-> IF k = 0 THEN << n >> ELSE Climbed(par, f[k - 1])]
    BY <2>1
  <2>3. Climbs(f, par, n, x)
    BY <2>2, <1>2 DEF Climbs
  <2> QED
    BY <2>3
<1>3. CASE x # 0
  <2>1. x - 1 \in Nat /\ x - 1 \notin T /\ x \in Nat
    BY <1>1, <1>3
  <2>2. PICK g : Climbs(g, par, n, x - 1)
    BY <2>1
  <2> DEFINE f == [k \in 0..x |-> IF k = x THEN Climbed(par, g[x - 1]) ELSE g[k]]
  <2>3. \A k \in 0..x : f[k] = IF k = 0 THEN << n >> ELSE Climbed(par, f[k - 1])
    <3> SUFFICES ASSUME NEW k \in 0..x
                 PROVE  f[k] = IF k = 0 THEN << n >> ELSE Climbed(par, f[k - 1])
      OBVIOUS
    <3>1. CASE k = x
      <4>1. x - 1 \in 0..x /\ x - 1 # x
        BY <2>1
      <4>2. f[x - 1] = g[x - 1]
        BY <4>1
      <4> QED
        BY <3>1, <4>2, <1>3
    <3>2. CASE k # x
      <4>1. k \in 0..(x - 1)
        BY <3>2, <2>1
      <4>2. g[k] = IF k = 0 THEN << n >> ELSE Climbed(par, g[k - 1])
        BY <4>1, <2>2 DEF Climbs
      <4>3. k # 0 => k - 1 \in 0..x /\ k - 1 # x
        BY <2>1
      <4>4. f[k] = g[k] /\ (k # 0 => f[k - 1] = g[k - 1])
        BY <3>2, <4>3
      <4> QED
        BY <4>2, <4>4
    <3> QED
      BY <3>1, <3>2
  <2>4. f = [k \in 0..x |-> f[k]]
    OBVIOUS
  <2> HIDE DEF f
  <2>5. f = [k \in 0..x |-> IF k = 0 THEN << n >> ELSE Climbed(par, f[k - 1])]
    BY <2>3, <2>4
  <2>6. Climbs(f, par, n, x)
    BY <2>5 DEF Climbs
  <2> QED
    BY <2>6, <1>1
<1> QED
  BY <1>2, <1>3

(* The climb from n, step by step: sequences of rows that end in n. *)
ClimbsTo(f, par, n, N, S) ==
    /\ Climbs(f, par, n, N)
    /\ Climb(par, n) = f[N]
    /\ \A k \in 0..N : f[k] \in Seq(S \cup {Root}) /\ f[k] # << >> /\ f[k][Len(f[k])] = n

LEMMA ClimbSteps ==
    ASSUME NEW S, S \subseteq Ids, NEW par \in [S -> S \cup {Root}], NEW n \in S \cup {Root},
           NEW N, N = Cardinality(Ids), TreeTxAssumption
    PROVE  \E f : ClimbsTo(f, par, n, N, S)
<1>1. N \in Nat /\ Root \in Ids
  BY FS_CardinalityType DEF TreeTxAssumption
<1> DEFINE P(up) == up = [k \in 0..N |->
                   IF k = 0 THEN << n >>
                   ELSE IF Head(up[k - 1]) = Root THEN up[k - 1]
                        ELSE << par[Head(up[k - 1])] >> \o up[k - 1]]
           f == CHOOSE up : P(up)
<1>2. Climbs(f, par, n, N)
  <2>1. PICK g : Climbs(g, par, n, N)
    BY <1>1, ClimbExists
  <2>2. P(g)
    BY <2>1 DEF Climbs, Climbed
  <2> HIDE DEF P
  <2>3. P(f)
    BY <2>2
  <2> USE DEF P
  <2> HIDE DEF f
  <2> QED
    BY <2>3 DEF Climbs, Climbed
<1>6. Climb(par, n) = f[N]
  BY DEF Climb
<1> HIDE DEF f
<1> DEFINE Good(s) == s \in Seq(S \cup {Root}) /\ s # << >> /\ s[Len(s)] = n
<1>3. ASSUME NEW s, Good(s), Head(s) # Root
      PROVE  Good(<< par[Head(s)] >> \o s)
  <2>1. /\ s \in Seq(S \cup {Root}) /\ Len(s) \in Nat /\ Len(s) > 0 /\ s[Len(s)] = n
        /\ Head(s) \in S \cup {Root}
    BY <1>3, LenProperties, EmptySeq, HeadTailProperties
  <2>2. par[Head(s)] \in S \cup {Root}
    BY <2>1, <1>3
  <2>3. PICK q : q = << par[Head(s)] >> \o s
    OBVIOUS
  <2>4. << par[Head(s)] >> \in Seq(S \cup {Root}) /\ Len(<< par[Head(s)] >>) = 1
    BY <2>2
  <2>5. /\ q \in Seq(S \cup {Root})
        /\ Len(q) = 1 + Len(s)
        /\ \A i \in 1..Len(q) : i > 1 => q[i] = s[i - 1]
    BY <2>1, <2>3, <2>4, ConcatProperties
  <2>6. q[Len(q)] = n /\ q # << >>
    BY <2>1, <2>5, EmptySeq
  <2> QED
    BY <2>3, <2>5, <2>6
<1>4. Good(<< n >>)
  OBVIOUS
<1> HIDE DEF Good
<1>5. \A k \in 0..N : Good(f[k])
  <2> DEFINE T == {k \in 0..N : ~Good(f[k])}
  <2> SUFFICES ASSUME T # {} PROVE FALSE
    OBVIOUS
  <2>1. PICK x \in T : \A y \in T : x <= y
    <3>1. T \subseteq Nat
      OBVIOUS
    <3> HIDE DEF T
    <3> QED
      BY <3>1, Smallest
  <2>2. x \in 0..N /\ f[x] = IF x = 0 THEN << n >> ELSE Climbed(par, f[x - 1])
    BY <2>1, <1>2 DEF Climbs
  <2>3. CASE x = 0
    BY <2>1, <2>2, <2>3, <1>4
  <2>4. CASE x # 0
    <3>1. x - 1 \in 0..N /\ x - 1 \notin T
      BY <2>1, <2>2, <2>4, <1>1
    <3>2. Good(f[x - 1])
      BY <3>1
    <3>3. Good(f[x])
      BY <3>2, <2>2, <2>4, <1>3 DEF Climbed
    <3> QED
      BY <3>3, <2>1
  <2> QED
    BY <2>3, <2>4
<1>7. \A k \in 0..N : f[k] \in Seq(S \cup {Root}) /\ f[k] # << >> /\ f[k][Len(f[k])] = n
  BY <1>5 DEF Good
<1> QED
  BY <1>2, <1>6, <1>7 DEF ClimbsTo

LEMMA ClimbTyped ==
    ASSUME NEW S, S \subseteq Ids, NEW par \in [S -> S \cup {Root}], NEW n \in S \cup {Root},
           TreeTxAssumption
    PROVE  /\ Climb(par, n) \in Seq(Ids)
           /\ Climb(par, n) # << >>
           /\ Climb(par, n)[Len(Climb(par, n))] = n
<1>1. Cardinality(Ids) \in Nat
  BY FS_CardinalityType DEF TreeTxAssumption
<1>2. PICK N : N = Cardinality(Ids)
  OBVIOUS
<1>3. PICK f : ClimbsTo(f, par, n, N, S)
  BY <1>2, ClimbSteps
<1>4. N \in 0..N /\ S \cup {Root} \subseteq Ids
  BY <1>1, <1>2 DEF TreeTxAssumption
<1>5. PICK c : c = f[N]
  OBVIOUS
<1>6. c \in Seq(S \cup {Root}) /\ c # << >> /\ c[Len(c)] = n
  BY <1>3, <1>4, <1>5 DEF ClimbsTo
<1>7. c \in Seq(Ids)
  BY <1>4, <1>6, SeqMonotonic
<1> QED
  BY <1>3, <1>5, <1>6, <1>7 DEF ClimbsTo

LEMMA InitInv == TreeTxAssumption /\ Init => TreeInv
<1> SUFFICES ASSUME TreeTxAssumption, Init PROVE TreeInv
  OBVIOUS
<1>1. Root \in Ids /\ Nobody \notin Reqs /\ Nobody \notin Ids
  BY DEF TreeTxAssumption
<1>0. PICK S \in SUBSET (Ids \ {Root}) : \E par \in [S -> S \cup {Root}] :
         /\ \A n \in S : Head(Climb(par, n)) = Root
         /\ node = [n \in S \cup {Root} |->
                      [parentId |-> IF n = Root THEN Nobody ELSE par[n],
                       path     |-> IF n = Root THEN << >>
                                    ELSE SubSeq(Climb(par, n), 1, Len(Climb(par, n)) - 1),
                       deleted  |-> FALSE]]
  BY DEF Init
<1>2. PICK par \in [S -> S \cup {Root}] :
         /\ \A n \in S : Head(Climb(par, n)) = Root
         /\ node = [n \in S \cup {Root} |->
                      [parentId |-> IF n = Root THEN Nobody ELSE par[n],
                       path     |-> IF n = Root THEN << >>
                                    ELSE SubSeq(Climb(par, n), 1, Len(Climb(par, n)) - 1),
                       deleted  |-> FALSE]]
  BY <1>0
<1>3. ASSUME NEW n \in S
      PROVE  /\ node[n].path \in Seq(Ids) /\ Rooted(node[n].path)
             /\ node[n] \in Row
  <2>1. PICK c : c = Climb(par, n)
    OBVIOUS
  <2>2. c \in Seq(Ids) /\ c # << >> /\ c[Len(c)] = n /\ Head(c) = Root /\ n # Root
    BY <1>2, <1>3, <2>1, ClimbTyped
  <2>3. Len(c) \in Nat /\ Len(c) > 1 /\ c[1] = Root
    BY <2>2, LenProperties, EmptySeq, HeadTailProperties
  <2>4. \A i \in 1..(Len(c) - 1) : c[i] \in Ids
    BY <2>2, <2>3, ElementOfSeq
  <2>5. PICK p : p = SubSeq(c, 1, Len(c) - 1)
    OBVIOUS
  <2>6. p \in Seq(Ids) /\ Len(p) = Len(c) - 1 /\ p[1] = c[1]
    BY <2>3, <2>4, <2>5, SubSeqProperties
  <2>7. p # << >>
    BY <2>3, <2>6
  <2>8. node[n] = [parentId |-> par[n], path |-> p, deleted |-> FALSE]
    BY <1>2, <1>3, <2>1, <2>2, <2>5
  <2>9. par[n] \in Ids \cup {Nobody}
    BY <1>1, <1>2, <1>3
  <2> QED
    BY <2>3, <2>6, <2>7, <2>8, <2>9 DEF Rooted, Row
<1>4. /\ DOMAIN node = S \cup {Root}
      /\ node[Root] = [parentId |-> Nobody, path |-> << >>, deleted |-> FALSE]
      /\ \A n \in DOMAIN node : n \in Ids
  BY <1>1, <1>2
<1>5. /\ lock = [n \in Ids |-> Nobody]
      /\ dirty = [t \in Reqs |-> NoRows]
      /\ tx = [t \in Reqs |-> [op |-> "none", pc |-> "new", n |-> Root, d |-> Root,
                               path |-> << >>, todo |-> {}, alone |-> TRUE]]
  BY DEF Init
<1>6. \A t \in Reqs : dirty[t] = NoRows /\ DOMAIN dirty[t] = {}
  BY <1>5 DEF NoRows
<1>7. \A t \in Reqs : /\ tx[t] \in Request /\ tx[t].pc = "new" /\ tx[t].op = "none"
                      /\ tx[t].n = Root /\ tx[t].todo = {}
  BY <1>1, <1>5 DEF Request, Stages
<1>8. InFlight = {}
  BY <1>7 DEF InFlight
<1>9. TypeOK
  <2>1. \A n \in DOMAIN node : node[n] \in Row
    <3>1. << >> \in Seq(Ids)
      OBVIOUS
    <3>2. node[Root] \in Row
      BY <1>4, <3>1 DEF Row
    <3> QED
      BY <1>3, <1>4, <3>2
  <2>2. node \in [DOMAIN node -> Row]
    BY <1>2, <2>1
  <2>3. \A t \in Reqs : dirty[t] \in [DOMAIN dirty[t] -> Row]
    BY <1>6 DEF NoRows
  <2> QED
    BY <1>4, <1>5, <1>6, <1>7, <2>2, <2>3 DEF TypeOK
<1>10. AllStaged
  BY <1>4, <1>7 DEF AllStaged, Staged
<1>11. Fresh /\ OnlyOne /\ Undisturbed
  BY <1>7, <1>8 DEF Fresh, OnlyOne, Undisturbed
<1>12. RootStays
  BY <1>4, <1>6 DEF RootStays
<1>13. PathsRooted
  BY <1>3, <1>4, <1>6, <1>7 DEF PathsRooted
<1>14. LocksHeld
  BY <1>6, <1>7 DEF LocksHeld, Held
<1> QED
  BY <1>9, <1>10, <1>11, <1>12, <1>13, <1>14 DEF TreeInv
-----------------------------------------------------------------------------
(* What steps do, field by field *)

(* t goes on to pc, has read path and is to visit todo. *)
Does(t, pc, path, todo) ==
    /\ tx' = [u \in Reqs |-> tx'[u]]
    /\ tx'[t] = [op |-> tx[t].op, pc |-> pc, n |-> tx[t].n, d |-> tx[t].d,
                 path |-> path, todo |-> todo, alone |-> tx[t].alone]
    /\ \A u \in Reqs \ {t} : tx'[u] = tx[u]

(* t writes one row, uncommitted. *)
Writes(t, m, row) ==
    /\ DOMAIN dirty' = Reqs
    /\ dirty'[t] = [x \in DOMAIN dirty[t] \cup {m} |-> IF x = m THEN row ELSE dirty[t][x]]
    /\ \A u \in Reqs \ {t} : dirty'[u] = dirty[u]

(* t's rows are written or given up. *)
Clears(t) ==
    /\ DOMAIN dirty' = Reqs
    /\ dirty'[t] = NoRows
    /\ \A u \in Reqs \ {t} : dirty'[u] = dirty[u]

LEMMA DoesParts ==
    ASSUME NEW t \in Reqs, NEW pc, NEW path, NEW todo, Does(t, pc, path, todo)
    PROVE  /\ tx'[t].pc = pc /\ tx'[t].path = path /\ tx'[t].todo = todo
           /\ tx'[t].op = tx[t].op /\ tx'[t].n = tx[t].n /\ tx'[t].d = tx[t].d
           /\ tx'[t].alone = tx[t].alone
           /\ \A u \in Reqs \ {t} : tx'[u] = tx[u]
BY DEF Does

LEMMA RequestParts ==
    ASSUME TypeOK, NEW t \in Reqs
    PROVE  /\ DOMAIN tx = Reqs
           /\ tx[t] = [op |-> tx[t].op, pc |-> tx[t].pc, n |-> tx[t].n, d |-> tx[t].d,
                       path |-> tx[t].path, todo |-> tx[t].todo, alone |-> tx[t].alone]
           /\ tx[t].op \in {"none", "move", "remove", "create"} /\ tx[t].pc \in Stages
           /\ tx[t].n \in Ids /\ tx[t].d \in Ids /\ tx[t].path \in Seq(Ids)
           /\ tx[t].todo \subseteq Ids /\ tx[t].alone \in BOOLEAN
<1>1. tx[t] \in Request /\ DOMAIN tx = Reqs
  BY DEF TypeOK
<1> QED
  BY <1>1 DEF Request

LEMMA Going ==
    ASSUME TypeOK, NEW t \in Reqs
    PROVE  /\ \A pc : Goto(t, pc) => Does(t, pc, tx[t].path, tx[t].todo)
           /\ \A pc, rows : Begin(t, pc, rows) => Does(t, pc, tx[t].path, rows)
           /\ \A m : tx' = [tx EXCEPT ![t].todo = @ \ {m}]
                       => Does(t, tx[t].pc, tx[t].path, tx[t].todo \ {m})
           /\ \A pc, p : tx' = [tx EXCEPT ![t].path = p, ![t].pc = pc]
                       => Does(t, pc, p, tx[t].todo)
<1>1. PICK r : r = tx[t]
  OBVIOUS
<1>2. DOMAIN tx = Reqs /\ r = [op |-> r.op, pc |-> r.pc, n |-> r.n, d |-> r.d,
                       path |-> r.path, todo |-> r.todo, alone |-> r.alone]
  BY <1>1, RequestParts
<1>3. ASSUME NEW pc, Goto(t, pc) PROVE Does(t, pc, r.path, r.todo)
  <2>1. tx' = [tx EXCEPT ![t] = [r EXCEPT !.pc = pc]]
    BY <1>1, <1>3 DEF Goto
  <2> QED
    BY <1>1, <1>2, <2>1 DEF Does
<1>4. ASSUME NEW pc, NEW rows, Begin(t, pc, rows) PROVE Does(t, pc, r.path, rows)
  <2>1. tx' = [tx EXCEPT ![t] = [r EXCEPT !.pc = pc, !.todo = rows]]
    BY <1>1, <1>2, <1>4 DEF Begin
  <2> QED
    BY <1>1, <1>2, <2>1 DEF Does
<1>5. ASSUME NEW m, tx' = [tx EXCEPT ![t].todo = @ \ {m}]
      PROVE  Does(t, r.pc, r.path, r.todo \ {m})
  <2>1. PICK rest : rest = r.todo \ {m}
    OBVIOUS
  <2>2. tx' = [tx EXCEPT ![t] = [r EXCEPT !.todo = rest]]
    BY <1>1, <1>5, <2>1
  <2>3. Does(t, r.pc, r.path, rest)
    BY <1>1, <1>2, <2>2 DEF Does
  <2> QED
    BY <2>1, <2>3
<1>6. ASSUME NEW pc, NEW p, tx' = [tx EXCEPT ![t].path = p, ![t].pc = pc]
      PROVE  Does(t, pc, p, r.todo)
  <2>1. tx' = [tx EXCEPT ![t] = [r EXCEPT !.path = p, !.pc = pc]]
    BY <1>1, <1>2, <1>6
  <2> QED
    BY <1>1, <1>2, <2>1 DEF Does
<1> QED
  BY <1>1, <1>3, <1>4, <1>5, <1>6

LEMMA Writing ==
    ASSUME TypeOK, NEW t \in Reqs
    PROVE  /\ \A m, row :
                dirty' = [dirty EXCEPT ![t] = [x \in DOMAIN @ \cup {m} |->
                                                 IF x = m THEN row ELSE @[x]]]
                  => Writes(t, m, row)
           /\ dirty' = [dirty EXCEPT ![t] = NoRows] => Clears(t)
<1>1. DOMAIN dirty = Reqs
  BY DEF TypeOK
<1>2. ASSUME NEW m, NEW row,
             dirty' = [dirty EXCEPT ![t] = [x \in DOMAIN @ \cup {m} |->
                                              IF x = m THEN row ELSE @[x]]]
      PROVE  Writes(t, m, row)
  BY <1>1, <1>2 DEF Writes
<1>3. ASSUME dirty' = [dirty EXCEPT ![t] = NoRows] PROVE Clears(t)
  BY <1>1, <1>3 DEF Clears
<1> QED
  BY <1>2, <1>3

(* What Visit does when the row matches, and when it does not. *)
LEMMA Visiting ==
    ASSUME TypeOK, NEW t \in Reqs, NEW m, NEW matches, NEW row, Visit(t, m, matches, row)
    PROVE  /\ m \in tx[t].todo
           /\ lock[m] \in {t, Nobody}
           /\ lock' = [lock EXCEPT ![m] = t]
           /\ Does(t, tx[t].pc, tx[t].path, tx[t].todo \ {m})
           /\ matches => Writes(t, m, row)
           /\ ~matches => dirty' = dirty
           /\ node' = node
<1>1. tx' = [tx EXCEPT ![t].todo = @ \ {m}] /\ UNCHANGED node
  BY DEF Visit
<1>2. matches => dirty' = [dirty EXCEPT ![t] = [x \in DOMAIN @ \cup {m} |->
                                                  IF x = m THEN row ELSE @[x]]]
  BY DEF Visit
<1>3. ~matches => dirty' = dirty
  BY DEF Visit
<1>4. m \in tx[t].todo /\ lock[m] \in {t, Nobody} /\ lock' = [lock EXCEPT ![m] = t]
  BY DEF Visit, Obtainable
<1> QED
  BY <1>1, <1>2, <1>3, <1>4, Going, Writing

(* The statements that only read. *)
Reads == node' = node /\ lock' = lock /\ dirty' = dirty

LEMMA GuardReadDoes ==
    ASSUME TypeOK, NEW t \in Reqs, GuardRead(t)
    PROVE  /\ Reads /\ tx[t].pc = "guard"
           /\ \/ Live(tx[t].n) /\ Does(t, "ancestors", node[tx[t].n].path, tx[t].todo)
              \/ Does(t, "done", tx[t].path, tx[t].todo)
BY Going DEF GuardRead, Reads

LEMMA GuardAncestorsDoes ==
    ASSUME TypeOK, NEW t \in Reqs, GuardAncestors(t)
    PROVE  /\ Reads /\ tx[t].pc = "ancestors"
           /\ \/ /\ \A i \in DOMAIN tx[t].path : Live(tx[t].path[i])
                 /\ tx[t].n # Root
                 /\ Does(t, tx[t].op, tx[t].path, tx[t].todo)
              \/ Does(t, "done", tx[t].path, tx[t].todo)
BY Going DEF GuardAncestors, Reads

LEMMA MoveSelectDoes ==
    ASSUME TypeOK, NEW t \in Reqs, MoveSelect(t)
    PROVE  /\ Reads /\ tx[t].pc = "move"
           /\ Does(t, "locking", tx[t].path, {m \in {tx[t].n, tx[t].d} : Live(m)})
BY Going DEF MoveSelect, Reads

(* A move that passes its checks, one that has nothing to do, and a        *)
(* refused one.                                                            *)
LEMMA MoveCheckDoes ==
    ASSUME TypeOK, NEW t \in Reqs, MoveCheck(t)
    PROVE  /\ tx[t].pc = "locking" /\ tx[t].todo = {}
           /\ \/ /\ Reads /\ Live(tx[t].n) /\ Accepted(t)
                 /\ Does(t, "paths", tx[t].path, Below(t))
              \/ Reads /\ Live(tx[t].n) /\ Does(t, "commit", tx[t].path, tx[t].todo)
              \/ Rollback(t)
BY Going DEF MoveCheck, Reads, Accepted

LEMMA RemoveSelectDoes ==
    ASSUME TypeOK, NEW t \in Reqs, RemoveSelect(t)
    PROVE  /\ Reads /\ tx[t].pc = "remove"
           /\ Does(t, "marking", tx[t].path, {m \in DOMAIN node : Doomed(t, m)})
BY Going DEF RemoveSelect, Reads

LEMMA CreateReadParentDoes ==
    ASSUME TypeOK, NEW t \in Reqs, CreateReadParent(t)
    PROVE  /\ Reads /\ tx[t].pc = "parent"
           /\ \/ Live(tx[t].n) /\ Does(t, "insert", childPath(tx[t].n), tx[t].todo)
              \/ Does(t, "done", tx[t].path, tx[t].todo)
BY Going DEF CreateReadParent, Reads

(* The statements that lock or write. *)
LEMMA MoveLockDoes ==
    ASSUME TypeOK, NEW t \in Reqs, NEW m, MoveLock(t, m)
    PROVE  /\ tx[t].pc = "locking" /\ m \in tx[t].todo /\ lock[m] \in {t, Nobody}
           /\ node' = node /\ dirty' = dirty /\ lock' = [lock EXCEPT ![m] = t]
           /\ Does(t, "locking", tx[t].path, tx[t].todo \ {m})
<1>1. tx[t].pc = "locking" /\ Visit(t, m, FALSE, node[m])
  BY DEF MoveLock
<1> QED
  BY <1>1, Visiting

(* The row MoveDescendant writes. *)
Repathed(t, m) ==
    [View(t, m) EXCEPT !.path =
        Append(childPath(tx[t].d), tx[t].n)
          \o SubSeq(@, Len(childPath(tx[t].n)) + 1, Len(@))]

LEMMA MoveDescendantDoes ==
    ASSUME TypeOK, NEW t \in Reqs, NEW m, MoveDescendant(t, m)
    PROVE  /\ tx[t].pc = "paths" /\ m \in tx[t].todo /\ lock[m] \in {t, Nobody}
           /\ node' = node /\ lock' = [lock EXCEPT ![m] = t]
           /\ Does(t, "paths", tx[t].path, tx[t].todo \ {m})
           /\ \/ /\ Tree!StartsWith(View(t, m).path, childPath(tx[t].n))
                 /\ Writes(t, m, Repathed(t, m))
              \/ /\ ~Tree!StartsWith(View(t, m).path, childPath(tx[t].n))
                 /\ dirty' = dirty
<1> DEFINE matches == Tree!StartsWith(View(t, m).path, childPath(tx[t].n))
           row == [View(t, m) EXCEPT !.path =
                     Append(childPath(tx[t].d), tx[t].n)
                       \o SubSeq(View(t, m).path, Len(childPath(tx[t].n)) + 1,
                                 Len(View(t, m).path))]
<1>1. tx[t].pc = "paths" /\ Visit(t, m, matches, row)
  BY DEF MoveDescendant
<1>2. row = Repathed(t, m)
  BY DEF Repathed
<1> HIDE DEF matches, row
<1>3. /\ m \in tx[t].todo /\ lock[m] \in {t, Nobody}
      /\ lock' = [lock EXCEPT ![m] = t]
      /\ Does(t, tx[t].pc, tx[t].path, tx[t].todo \ {m})
      /\ matches => Writes(t, m, row)
      /\ ~matches => dirty' = dirty
      /\ node' = node
  BY <1>1, Going, Writing DEF Visit, Obtainable
<1> QED
  BY <1>1, <1>2, <1>3 DEF matches

LEMMA MoveSelfDoes ==
    ASSUME TypeOK, NEW t \in Reqs, MoveSelf(t)
    PROVE  /\ tx[t].pc = "paths" /\ tx[t].todo = {}
           /\ node' = node /\ lock' = lock
           /\ Does(t, "commit", tx[t].path, {})
           /\ Writes(t, tx[t].n, [View(t, tx[t].n) EXCEPT !.parentId = tx[t].d,
                                                          !.path = childPath(tx[t].d)])
<1> DEFINE src == tx[t].n
           row == [View(t, src) EXCEPT !.parentId = tx[t].d, !.path = childPath(tx[t].d)]
<1>1. /\ tx[t].pc = "paths" /\ tx[t].todo = {} /\ Goto(t, "commit")
      /\ node' = node /\ lock' = lock
      /\ dirty' = [dirty EXCEPT ![t] = [x \in DOMAIN @ \cup {src} |->
                                          IF x = src THEN row ELSE @[x]]]
  BY DEF MoveSelf
<1> HIDE DEF src, row
<1>2. Writes(t, src, row) /\ Does(t, "commit", tx[t].path, {})
  BY <1>1, Going, Writing
<1> QED
  BY <1>1, <1>2 DEF src, row

LEMMA RemoveDescendantDoes ==
    ASSUME TypeOK, NEW t \in Reqs, NEW m, RemoveDescendant(t, m)
    PROVE  /\ tx[t].pc = "marking" /\ m \in tx[t].todo /\ lock[m] \in {t, Nobody}
           /\ node' = node /\ lock' = [lock EXCEPT ![m] = t]
           /\ Does(t, "marking", tx[t].path, tx[t].todo \ {m})
           /\ \/ Doomed(t, m) /\ Writes(t, m, [View(t, m) EXCEPT !.deleted = TRUE])
              \/ ~Doomed(t, m) /\ dirty' = dirty
<1> DEFINE row == [View(t, m) EXCEPT !.deleted = TRUE]
<1>1. tx[t].pc = "marking" /\ Visit(t, m, Doomed(t, m), row)
  BY DEF RemoveDescendant
<1> HIDE DEF row
<1>2. /\ m \in tx[t].todo /\ lock[m] \in {t, Nobody}
      /\ lock' = [lock EXCEPT ![m] = t]
      /\ Does(t, tx[t].pc, tx[t].path, tx[t].todo \ {m})
      /\ Doomed(t, m) => Writes(t, m, row)
      /\ ~Doomed(t, m) => dirty' = dirty
      /\ node' = node
  BY <1>1, Going, Writing DEF Visit, Obtainable
<1> QED
  BY <1>1, <1>2 DEF row

LEMMA RemoveSelfDoes ==
    ASSUME TypeOK, NEW t \in Reqs, RemoveSelf(t)
    PROVE  \/ /\ Reads /\ tx[t].pc = "marking" /\ tx[t].todo = {}
              /\ Does(t, "self", tx[t].path, {tx[t].n})
           \/ /\ tx[t].pc = "self"
              /\ tx[t].n \in tx[t].todo /\ lock[tx[t].n] \in {t, Nobody}
              /\ node' = node /\ lock' = [lock EXCEPT ![tx[t].n] = t]
              /\ Does(t, "self", tx[t].path, tx[t].todo \ {tx[t].n})
              /\ \/ /\ ~View(t, tx[t].n).deleted
                    /\ Writes(t, tx[t].n, [View(t, tx[t].n) EXCEPT !.deleted = TRUE])
                 \/ View(t, tx[t].n).deleted /\ dirty' = dirty
           \/ /\ Reads /\ tx[t].pc = "self" /\ tx[t].todo = {}
              /\ Does(t, "commit", tx[t].path, tx[t].todo)
<1> DEFINE n == tx[t].n
           row == [View(t, n) EXCEPT !.deleted = TRUE]
<1>1. CASE tx[t].pc = "marking" /\ tx[t].todo = {} /\ Begin(t, "self", {tx[t].n})
             /\ UNCHANGED << node, lock, dirty >>
  BY <1>1, Going DEF Reads
<1>2. CASE tx[t].pc = "self" /\ Visit(t, n, ~View(t, n).deleted, row)
  <2> HIDE DEF n, row
  <2>1. /\ n \in tx[t].todo /\ lock[n] \in {t, Nobody}
        /\ lock' = [lock EXCEPT ![n] = t]
        /\ Does(t, tx[t].pc, tx[t].path, tx[t].todo \ {n})
        /\ ~View(t, n).deleted => Writes(t, n, row)
        /\ View(t, n).deleted => dirty' = dirty
        /\ node' = node
    BY <1>2, Visiting
  <2> QED
    BY <1>2, <2>1 DEF n, row
<1>3. CASE tx[t].pc = "self" /\ tx[t].todo = {} /\ Goto(t, "commit")
             /\ UNCHANGED << node, lock, dirty >>
  BY <1>3, Going DEF Reads
<1> QED
  BY <1>1, <1>2, <1>3 DEF RemoveSelf

(* The ends. *)
LEMMA RollbackDoes ==
    ASSUME TypeOK, NEW t \in Reqs, Rollback(t)
    PROVE  /\ node' = node /\ lock' = Released(t) /\ Clears(t)
           /\ Does(t, "done", tx[t].path, {})
BY Going, Writing DEF Rollback

LEMMA CommitDoes ==
    ASSUME TypeOK, NEW t \in Reqs, Commit(t)
    PROVE  /\ tx[t].pc = "commit"
           /\ node' = [m \in DOMAIN node |-> View(t, m)]
           /\ lock' = Released(t) /\ Clears(t)
           /\ Does(t, "done", tx[t].path, tx[t].todo)
BY Going, Writing DEF Commit

LEMMA CreateInsertDoes ==
    ASSUME TypeOK, NEW t \in Reqs, CreateInsert(t)
    PROVE  /\ tx[t].pc = "insert" /\ lock' = lock /\ dirty' = dirty
           /\ node' = [m \in DOMAIN node \cup {tx[t].d} |->
                         IF m = tx[t].d
                         THEN [parentId |-> tx[t].n, path |-> tx[t].path, deleted |-> FALSE]
                         ELSE node[m]]
           /\ Does(t, "done", tx[t].path, tx[t].todo)
BY Going DEF CreateInsert

(* A step of t is t's alone, and t was under way. *)
LEMMA StepShape ==
    ASSUME TypeOK, NEW t \in Reqs, Step(t) \/ Abort(t)
    PROVE  /\ t \in InFlight
           /\ \E pc, path, todo : Does(t, pc, path, todo)
           /\ DOMAIN dirty' = Reqs
           /\ \A u \in Reqs \ {t} : dirty'[u] = dirty[u]
           /\ \A m \in Ids : lock'[m] # lock[m] => lock[m] \in {t, Nobody} /\ lock'[m] \in {t, Nobody}
<1>1. DOMAIN dirty = Reqs /\ lock \in [Ids -> Reqs \cup {Nobody}]
  BY DEF TypeOK
<1>2. \A m \in Ids : Released(t)[m] # lock[m] => lock[m] = t /\ Released(t)[m] = Nobody
  BY DEF Released
<1>3. ASSUME NEW m \in Ids, lock' = [lock EXCEPT ![m] = t], lock[m] \in {t, Nobody}
      PROVE  \A x \in Ids : lock'[x] # lock[x] => lock[x] \in {t, Nobody} /\ lock'[x] \in {t, Nobody}
  BY <1>1, <1>3
<1>t. tx[t].todo \subseteq Ids /\ tx[t].n \in Ids
  BY RequestParts
<1>4. CASE GuardRead(t)
  BY <1>1, <1>4, GuardReadDoes DEF Reads, InFlight
<1>5. CASE GuardAncestors(t)
  BY <1>1, <1>5, GuardAncestorsDoes DEF Reads, InFlight
<1>6. CASE MoveSelect(t)
  BY <1>1, <1>6, MoveSelectDoes DEF Reads, InFlight
<1>7. CASE MoveCheck(t)
  BY <1>1, <1>2, <1>7, MoveCheckDoes, RollbackDoes DEF Reads, InFlight, Clears
<1>8. CASE MoveSelf(t)
  BY <1>8, MoveSelfDoes DEF InFlight, Writes
<1>9. CASE RemoveSelect(t)
  BY <1>1, <1>9, RemoveSelectDoes DEF Reads, InFlight
<1>10. CASE RemoveSelf(t)
  BY <1>1, <1>3, <1>t, <1>10, RemoveSelfDoes DEF Reads, InFlight, Writes
<1>11. CASE CreateReadParent(t)
  BY <1>1, <1>11, CreateReadParentDoes DEF Reads, InFlight
<1>12. CASE CreateInsert(t)
  BY <1>1, <1>12, CreateInsertDoes DEF InFlight
<1>13. CASE \E m \in DOMAIN node : MoveLock(t, m)
  <2>1. PICK m \in DOMAIN node : MoveLock(t, m)
    BY <1>13
  <2>2. /\ m \in Ids /\ lock' = [lock EXCEPT ![m] = t] /\ lock[m] \in {t, Nobody}
        /\ tx[t].pc = "locking"
        /\ Does(t, "locking", tx[t].path, tx[t].todo \ {m})
    BY <1>t, <2>1, MoveLockDoes
  <2>3. DOMAIN dirty' = Reqs /\ \A u \in Reqs \ {t} : dirty'[u] = dirty[u]
    BY <1>1, <2>1, MoveLockDoes
  <2> QED
    BY <1>3, <2>2, <2>3 DEF InFlight
<1>14. CASE \E m \in DOMAIN node : MoveDescendant(t, m)
  <2>1. PICK m \in DOMAIN node : MoveDescendant(t, m)
    BY <1>14
  <2>2. /\ m \in Ids /\ lock' = [lock EXCEPT ![m] = t] /\ lock[m] \in {t, Nobody}
        /\ tx[t].pc = "paths"
        /\ Does(t, "paths", tx[t].path, tx[t].todo \ {m})
    BY <1>t, <2>1, MoveDescendantDoes
  <2>3. DOMAIN dirty' = Reqs /\ \A u \in Reqs \ {t} : dirty'[u] = dirty[u]
    BY <1>1, <2>1, MoveDescendantDoes DEF Writes
  <2> QED
    BY <1>3, <2>2, <2>3 DEF InFlight
<1>15. CASE \E m \in DOMAIN node : RemoveDescendant(t, m)
  <2>1. PICK m \in DOMAIN node : RemoveDescendant(t, m)
    BY <1>15
  <2>2. /\ m \in Ids /\ lock' = [lock EXCEPT ![m] = t] /\ lock[m] \in {t, Nobody}
        /\ tx[t].pc = "marking"
        /\ Does(t, "marking", tx[t].path, tx[t].todo \ {m})
    BY <1>t, <2>1, RemoveDescendantDoes
  <2>3. DOMAIN dirty' = Reqs /\ \A u \in Reqs \ {t} : dirty'[u] = dirty[u]
    BY <1>1, <2>1, RemoveDescendantDoes DEF Writes
  <2> QED
    BY <1>3, <2>2, <2>3 DEF InFlight
<1>16. CASE Commit(t)
  BY <1>2, <1>16, CommitDoes DEF InFlight, Clears
<1>17. CASE Abort(t)
  BY <1>2, <1>17, RollbackDoes DEF Abort, InTransaction, InFlight, Clears
<1> QED
  BY <1>4, <1>5, <1>6, <1>7, <1>8, <1>9, <1>10, <1>11, <1>12, <1>13, <1>14, <1>15,
     <1>16, <1>17 DEF Step
-----------------------------------------------------------------------------
(* Types *)

LEMMA DoesTyped ==
    ASSUME TypeOK, NEW t \in Reqs, NEW pc \in Stages, NEW path \in Seq(Ids),
           NEW todo, todo \subseteq Ids, Does(t, pc, path, todo)
    PROVE  tx' \in [Reqs -> Request]
<1>1. \A u \in Reqs : tx[u] \in Request
  BY DEF TypeOK
<1>2. tx'[t] \in Request
  <2>1. /\ tx[t].op \in {"none", "move", "remove", "create"}
        /\ tx[t].n \in Ids /\ tx[t].d \in Ids /\ tx[t].alone \in BOOLEAN
    BY RequestParts
  <2> QED
    BY <2>1 DEF Does, Request
<1>3. tx' = [u \in Reqs |-> tx'[u]]
  BY DEF Does
<1>4. \A u \in Reqs : tx'[u] \in Request
  BY <1>1, <1>2 DEF Does
<1> QED
  BY <1>3, <1>4

LEMMA RowTyped ==
    ASSUME TypeOK, NEW m \in DOMAIN node
    PROVE  /\ m \in Ids /\ node[m] \in Row
           /\ node[m].path \in Seq(Ids) /\ node[m].deleted \in BOOLEAN
           /\ childPath(m) \in Seq(Ids)
           /\ Len(childPath(m)) = Len(node[m].path) + 1
           /\ childPath(m)[Len(node[m].path) + 1] = m
           /\ \A i \in 1..Len(node[m].path) : childPath(m)[i] = node[m].path[i]
<1>1. m \in Ids /\ node[m] \in Row
  BY DEF TypeOK
<1>2. node[m].path \in Seq(Ids) /\ node[m].deleted \in BOOLEAN
  BY <1>1 DEF Row
<1> QED
  BY <1>1, <1>2, AppendProperties DEF childPath

LEMMA ViewTyped ==
    ASSUME TypeOK, NEW t \in Reqs, NEW m \in DOMAIN node
    PROVE  /\ View(t, m) \in Row
           /\ View(t, m).path \in Seq(Ids) /\ View(t, m).deleted \in BOOLEAN
<1>1. View(t, m) \in Row
  BY DEF TypeOK, View
<1> QED
  BY <1>1 DEF Row

LEMMA WritesTyped ==
    ASSUME TypeOK, NEW t \in Reqs, NEW m \in DOMAIN node, NEW row \in Row, Writes(t, m, row)
    PROVE  \A u \in Reqs : /\ DOMAIN dirty'[u] \subseteq DOMAIN node
                           /\ dirty'[u] \in [DOMAIN dirty'[u] -> Row]
<1>1. \A u \in Reqs : /\ DOMAIN dirty[u] \subseteq DOMAIN node
                      /\ dirty[u] \in [DOMAIN dirty[u] -> Row]
  BY DEF TypeOK
<1>2. /\ DOMAIN dirty'[t] \subseteq DOMAIN node
      /\ dirty'[t] \in [DOMAIN dirty'[t] -> Row]
  BY <1>1 DEF Writes
<1> QED
  BY <1>1, <1>2 DEF Writes

(* A prefix of a path is cut off and another put in its place. *)
LEMMA SpliceTyped ==
    ASSUME NEW p \in Seq(Ids), NEW k \in Nat, k <= Len(p), NEW new \in Seq(Ids), new # << >>
    PROVE  /\ new \o SubSeq(p, k + 1, Len(p)) \in Seq(Ids)
           /\ new \o SubSeq(p, k + 1, Len(p)) # << >>
           /\ (new \o SubSeq(p, k + 1, Len(p)))[1] = new[1]
<1>1. Len(p) \in Nat /\ Len(new) \in Nat /\ Len(new) > 0
  BY LenProperties, EmptySeq
<1>2. \A i \in (k + 1)..Len(p) : p[i] \in Ids
  BY <1>1, ElementOfSeq
<1>3. PICK rest : rest = SubSeq(p, k + 1, Len(p))
  OBVIOUS
<1>4. rest \in Seq(Ids)
  BY <1>1, <1>2, <1>3, SubSeqProperties
<1>5. PICK q : q = new \o rest
  OBVIOUS
<1>6. q \in Seq(Ids) /\ Len(q) = Len(new) + Len(rest) /\ q[1] = new[1] /\ Len(rest) \in Nat
  BY <1>1, <1>4, <1>5, ConcatProperties, LenProperties
<1>7. q # << >>
  BY <1>1, <1>6
<1> QED
  BY <1>3, <1>5, <1>6, <1>7

(* The paths a move writes. *)
LEMMA MovePaths ==
    ASSUME TypeOK, NEW t \in Reqs, NEW m \in DOMAIN node,
           tx[t].n \in DOMAIN node, tx[t].d \in DOMAIN node,
           Tree!StartsWith(View(t, m).path, childPath(tx[t].n))
    PROVE  /\ Repathed(t, m) \in Row
           /\ Repathed(t, m).path # << >>
           /\ Repathed(t, m).path[1] = childPath(tx[t].d)[1]
           /\ Repathed(t, m).deleted = View(t, m).deleted
<1>1. PICK row : row = View(t, m)
  OBVIOUS
<1>2. row \in Row /\ row.path \in Seq(Ids)
  BY <1>1, ViewTyped
<1>3. PICK k : k = Len(childPath(tx[t].n))
  OBVIOUS
<1>4. k \in Nat /\ k <= Len(row.path)
  BY <1>1, <1>3, RowTyped, LenProperties DEF Tree!StartsWith
<1>5. PICK new : new = Append(childPath(tx[t].d), tx[t].n)
  OBVIOUS
<1>6. new \in Seq(Ids) /\ new # << >> /\ new[1] = childPath(tx[t].d)[1]
  <2>1. childPath(tx[t].d) \in Seq(Ids) /\ Len(childPath(tx[t].d)) > 0 /\ tx[t].n \in Ids
    BY RowTyped, LenProperties
  <2> QED
    BY <2>1, <1>5, AppendProperties, LenProperties
<1>7. PICK p : p = new \o SubSeq(row.path, k + 1, Len(row.path))
  OBVIOUS
<1>8. p \in Seq(Ids) /\ p # << >> /\ p[1] = new[1]
  BY <1>2, <1>4, <1>6, <1>7, SpliceTyped
<1>9. Repathed(t, m) = [row EXCEPT !.path = p]
  BY <1>1, <1>3, <1>5, <1>7 DEF Repathed
<1> QED
  BY <1>1, <1>2, <1>6, <1>8, <1>9 DEF Row

LEMMA TypeStep ==
    ASSUME TreeTxAssumption, TypeOK, AllStaged, NEW t \in Reqs, Step(t) \/ Abort(t)
    PROVE  TypeOK'
<1>1. /\ tx[t].op \in {"none", "move", "remove", "create"} /\ tx[t].pc \in Stages
      /\ tx[t].n \in Ids /\ tx[t].d \in Ids /\ tx[t].path \in Seq(Ids)
      /\ tx[t].todo \subseteq Ids /\ Staged(t)
      /\ tx[t].n \in DOMAIN node /\ tx[t].todo \subseteq DOMAIN node
  BY RequestParts DEF AllStaged, Staged
<1>2. /\ DOMAIN node \subseteq Ids /\ node \in [DOMAIN node -> Row]
      /\ lock \in [Ids -> Reqs \cup {Nobody}]
      /\ DOMAIN dirty = Reqs
      /\ \A u \in Reqs : /\ DOMAIN dirty[u] \subseteq DOMAIN node
                         /\ dirty[u] \in [DOMAIN dirty[u] -> Row]
  BY DEF TypeOK
<1>3. ASSUME Reads, tx' \in [Reqs -> Request] PROVE TypeOK'
  BY <1>2, <1>3 DEF Reads, TypeOK
<1>4. ASSUME node' = node, NEW m \in DOMAIN node, lock' = [lock EXCEPT ![m] = t] \/ lock' = lock,
             tx' \in [Reqs -> Request],
             dirty' = dirty \/ \E row \in Row : Writes(t, m, row)
      PROVE  TypeOK'
  <2>1. lock' \in [Ids -> Reqs \cup {Nobody}]
    BY <1>2, <1>4
  <2>2. /\ DOMAIN dirty' = Reqs
        /\ \A u \in Reqs : /\ DOMAIN dirty'[u] \subseteq DOMAIN node
                           /\ dirty'[u] \in [DOMAIN dirty'[u] -> Row]
    <3>1. CASE dirty' = dirty
      BY <1>2, <3>1
    <3>2. CASE \E row \in Row : Writes(t, m, row)
      <4>1. PICK row \in Row : Writes(t, m, row)
        BY <3>2
      <4> QED
        BY <4>1, WritesTyped DEF Writes
    <3> QED
      BY <1>4, <3>1, <3>2
  <2> QED
    BY <1>2, <1>4, <2>1, <2>2 DEF TypeOK
<1>5. ASSUME lock' = Released(t), Clears(t), tx' \in [Reqs -> Request],
             DOMAIN node' = DOMAIN node, node' \in [DOMAIN node -> Row]
      PROVE  TypeOK'
  <2>1. lock' \in [Ids -> Reqs \cup {Nobody}]
    BY <1>2, <1>5 DEF Released
  <2>2. /\ DOMAIN dirty' = Reqs
        /\ \A u \in Reqs : /\ DOMAIN dirty'[u] \subseteq DOMAIN node
                           /\ dirty'[u] \in [DOMAIN dirty'[u] -> Row]
    BY <1>2, <1>5 DEF Clears, NoRows
  <2> QED
    BY <1>2, <1>5, <2>1, <2>2 DEF TypeOK
<1>6. /\ {"done", "ancestors", "locking", "paths", "marking", "self", "commit",
          "move", "remove", "insert"} \subseteq Stages
      /\ {} \subseteq Ids
  BY DEF Stages
<1>7. \A m \in DOMAIN node : m \in Ids /\ node[m].path \in Seq(Ids) /\ childPath(m) \in Seq(Ids)
  BY RowTyped
<1>8. CASE GuardRead(t)
  <2>1. tx' \in [Reqs -> Request]
    BY <1>1, <1>6, <1>7, <1>8, GuardReadDoes, DoesTyped
  <2> QED
    BY <1>3, <1>8, <2>1, GuardReadDoes
<1>9. CASE GuardAncestors(t)
  <2>1. tx[t].op \in Stages
    BY <1>1, <1>6, <1>9, GuardAncestorsDoes DEF Staged
  <2>2. tx' \in [Reqs -> Request]
    BY <1>1, <1>6, <1>9, <2>1, GuardAncestorsDoes, DoesTyped
  <2> QED
    BY <1>3, <1>9, <2>2, GuardAncestorsDoes
<1>10. CASE MoveSelect(t)
  <2>1. PICK rows : rows = {m \in {tx[t].n, tx[t].d} : Live(m)}
    OBVIOUS
  <2>2. rows \subseteq Ids
    BY <1>1, <2>1
  <2>3. tx' \in [Reqs -> Request]
    BY <1>1, <1>6, <1>10, <2>1, <2>2, MoveSelectDoes, DoesTyped
  <2> QED
    BY <1>3, <1>10, <2>3, MoveSelectDoes
<1>11. CASE MoveCheck(t)
  <2>1. Below(t) \subseteq Ids
    BY <1>2 DEF Below
  <2>2. tx' \in [Reqs -> Request]
    BY <1>1, <1>6, <1>11, <2>1, MoveCheckDoes, RollbackDoes, DoesTyped
  <2> QED
    BY <1>2, <1>3, <1>5, <1>11, <2>2, MoveCheckDoes, RollbackDoes
<1>12. CASE MoveSelf(t)
  <2>1. tx' \in [Reqs -> Request]
    BY <1>1, <1>6, <1>12, MoveSelfDoes, DoesTyped
  <2>2. PICK row : row = [View(t, tx[t].n) EXCEPT !.parentId = tx[t].d, !.path = childPath(tx[t].d)]
    OBVIOUS
  <2>3. tx[t].d \in DOMAIN node
    BY <1>1, <1>12, MoveSelfDoes DEF Staged
  <2>4. row \in Row
    <3>1. PICK v : v = View(t, tx[t].n)
      OBVIOUS
    <3>2. v \in Row
      BY <1>1, <3>1, ViewTyped
    <3> QED
      BY <1>1, <1>7, <2>2, <2>3, <3>1, <3>2 DEF Row
  <2> QED
    BY <1>1, <1>4, <1>12, <2>1, <2>2, <2>4, MoveSelfDoes
<1>13. CASE RemoveSelect(t)
  <2>1. PICK rows : rows = {m \in DOMAIN node : Doomed(t, m)}
    OBVIOUS
  <2>2. rows \subseteq Ids
    BY <1>2, <2>1
  <2>3. tx' \in [Reqs -> Request]
    BY <1>1, <1>6, <1>13, <2>1, <2>2, RemoveSelectDoes, DoesTyped
  <2> QED
    BY <1>3, <1>13, <2>3, RemoveSelectDoes
<1>14. CASE RemoveSelf(t)
  <2>1. {tx[t].n} \subseteq Ids /\ tx[t].todo \ {tx[t].n} \subseteq Ids
    BY <1>1
  <2>2. tx' \in [Reqs -> Request]
    <3>1. \/ Does(t, "self", tx[t].path, {tx[t].n})
          \/ Does(t, "self", tx[t].path, tx[t].todo \ {tx[t].n})
          \/ Does(t, "commit", tx[t].path, tx[t].todo)
      BY <1>14, RemoveSelfDoes
    <3> QED
      BY <1>1, <1>6, <2>1, <3>1, DoesTyped
  <2>3. PICK row : row = [View(t, tx[t].n) EXCEPT !.deleted = TRUE]
    OBVIOUS
  <2>4. row \in Row
    <3>1. PICK v : v = View(t, tx[t].n)
      OBVIOUS
    <3>2. v \in Row
      BY <1>1, <3>1, ViewTyped
    <3> QED
      BY <2>3, <3>1, <3>2 DEF Row
  <2>5. Reads \/ /\ node' = node /\ lock' = [lock EXCEPT ![tx[t].n] = t]
                 /\ dirty' = dirty \/ Writes(t, tx[t].n, row)
    BY <1>14, <2>3, RemoveSelfDoes
  <2> QED
    BY <1>1, <1>3, <1>4, <2>2, <2>4, <2>5
<1>15. CASE CreateReadParent(t)
  <2>1. tx' \in [Reqs -> Request]
    BY <1>1, <1>6, <1>7, <1>15, CreateReadParentDoes, DoesTyped
  <2> QED
    BY <1>3, <1>15, <2>1, CreateReadParentDoes
<1>16. CASE CreateInsert(t)
  <2>1. tx' \in [Reqs -> Request]
    BY <1>1, <1>6, <1>16, CreateInsertDoes, DoesTyped
  <2>2. PICK row : row = [parentId |-> tx[t].n, path |-> tx[t].path, deleted |-> FALSE]
    OBVIOUS
  <2>3. row \in Row
    BY <1>1, <2>2 DEF Row
  <2>4. node' = [m \in DOMAIN node \cup {tx[t].d} |-> IF m = tx[t].d THEN row ELSE node[m]]
    BY <1>16, <2>2, CreateInsertDoes
  <2>5. /\ DOMAIN node' = DOMAIN node \cup {tx[t].d} /\ node' \in [DOMAIN node' -> Row]
        /\ DOMAIN node' \subseteq Ids
    BY <1>1, <1>2, <2>3, <2>4
  <2>6. lock' = lock /\ dirty' = dirty
    BY <1>16, CreateInsertDoes
  <2> QED
    BY <1>2, <2>1, <2>5, <2>6 DEF TypeOK
<1>17. CASE \E m \in DOMAIN node : MoveLock(t, m)
  <2>1. PICK m \in DOMAIN node : MoveLock(t, m)
    BY <1>17
  <2>2. tx[t].todo \ {m} \subseteq Ids
    BY <1>1
  <2>3. tx' \in [Reqs -> Request]
    BY <1>1, <1>6, <2>1, <2>2, MoveLockDoes, DoesTyped
  <2> QED
    BY <1>4, <2>1, <2>3, MoveLockDoes
<1>18. CASE \E m \in DOMAIN node : MoveDescendant(t, m)
  <2>1. PICK m \in DOMAIN node : MoveDescendant(t, m)
    BY <1>18
  <2>2. tx[t].todo \ {m} \subseteq Ids /\ tx[t].d \in DOMAIN node
    BY <1>1, <2>1, MoveDescendantDoes DEF Staged
  <2>3. tx' \in [Reqs -> Request]
    BY <1>1, <1>6, <2>1, <2>2, MoveDescendantDoes, DoesTyped
  <2>4. \/ dirty' = dirty
        \/ Repathed(t, m) \in Row /\ Writes(t, m, Repathed(t, m))
    <3>1. \/ /\ Tree!StartsWith(View(t, m).path, childPath(tx[t].n))
             /\ Writes(t, m, Repathed(t, m))
          \/ dirty' = dirty
      BY <2>1, MoveDescendantDoes
    <3>2. CASE /\ Tree!StartsWith(View(t, m).path, childPath(tx[t].n))
               /\ Writes(t, m, Repathed(t, m))
      BY <1>1, <2>2, <3>2, MovePaths
    <3>3. CASE dirty' = dirty
      BY <3>3
    <3> QED
      BY <3>1, <3>2, <3>3
  <2> QED
    BY <1>4, <2>1, <2>3, <2>4, MoveDescendantDoes
<1>19. CASE \E m \in DOMAIN node : RemoveDescendant(t, m)
  <2>1. PICK m \in DOMAIN node : RemoveDescendant(t, m)
    BY <1>19
  <2>2. tx[t].todo \ {m} \subseteq Ids
    BY <1>1
  <2>3. tx' \in [Reqs -> Request]
    BY <1>1, <1>6, <2>1, <2>2, RemoveDescendantDoes, DoesTyped
  <2>4. PICK row : row = [View(t, m) EXCEPT !.deleted = TRUE]
    OBVIOUS
  <2>5. row \in Row
    BY <2>4, ViewTyped DEF Row
  <2>6. dirty' = dirty \/ Writes(t, m, row)
    BY <2>1, <2>4, RemoveDescendantDoes
  <2> QED
    BY <1>4, <2>1, <2>3, <2>5, <2>6, RemoveDescendantDoes
<1>20. CASE Commit(t)
  <2>1. tx' \in [Reqs -> Request]
    BY <1>1, <1>6, <1>20, CommitDoes, DoesTyped
  <2>2. \A m \in DOMAIN node : View(t, m) \in Row
    BY ViewTyped
  <2>3. node' \in [DOMAIN node -> Row]
    BY <1>20, <2>2, CommitDoes
  <2> QED
    BY <1>5, <1>20, <2>1, <2>3, CommitDoes
<1>21. CASE Abort(t)
  <2>1. Rollback(t)
    BY <1>21 DEF Abort
  <2>2. tx' \in [Reqs -> Request]
    BY <1>1, <1>6, <2>1, RollbackDoes, DoesTyped
  <2> QED
    BY <1>2, <1>5, <2>1, <2>2, RollbackDoes
<1> QED
  BY <1>8, <1>9, <1>10, <1>11, <1>12, <1>13, <1>14, <1>15, <1>16, <1>17, <1>18, <1>19,
     <1>20, <1>21 DEF Step

LEMMA ArriveDoes ==
    ASSUME TreeTxAssumption, TypeOK, NEW t \in Reqs, NEW op \in Ops, NEW n \in DOMAIN node,
           NEW d \in Ids, Arrive(t, op, n, d)
    PROVE  /\ Reads /\ tx[t].pc = "new" /\ op \in {"move", "remove", "create"}
           /\ op = "create" => d \notin DOMAIN node /\ \A u \in Reqs : tx[u].d # d
           /\ op = "move" => d \in DOMAIN node
           /\ op = "remove" => d = n
           /\ tx'[t] = [op |-> op, pc |-> IF op = "create" THEN "parent" ELSE "guard",
                        n |-> n, d |-> d, path |-> tx[t].path, todo |-> tx[t].todo,
                        alone |-> (InFlight = {})]
           /\ \A u \in Reqs \ {t} :
                tx'[u] = [op |-> tx[u].op, pc |-> tx[u].pc, n |-> tx[u].n, d |-> tx[u].d,
                          path |-> tx[u].path, todo |-> tx[u].todo,
                          alone |-> (tx[u].alone /\ u \notin InFlight)]
           /\ tx' \in [Reqs -> Request]
<1> DEFINE b == InFlight = {}
           c(u) == tx[u].alone /\ u \notin InFlight
<1>1. /\ tx[t].pc = "new" /\ Reads /\ op \in {"move", "remove", "create"}
      /\ op = "create" => d \notin DOMAIN node /\ \A u \in Reqs : tx[u].d # d
      /\ op = "move" => d \in DOMAIN node
      /\ op = "remove" => d = n
  BY DEF Arrive, Reads, TreeTxAssumption
<1>2. tx' = [u \in Reqs |->
                 IF u = t
                 THEN [tx[t] EXCEPT !.op = op, !.n = n, !.d = d, !.alone = b,
                                    !.pc = IF op = "create" THEN "parent" ELSE "guard"]
                 ELSE [tx[u] EXCEPT !.alone = c(u)]]
  BY DEF Arrive
<1>3. b \in BOOLEAN /\ \A u \in Reqs : c(u) \in BOOLEAN
  OBVIOUS
<1> HIDE DEF b, c
<1>4. tx'[t] = [op |-> op, pc |-> IF op = "create" THEN "parent" ELSE "guard",
                n |-> n, d |-> d, path |-> tx[t].path, todo |-> tx[t].todo, alone |-> b]
  <2>1. PICK r : r = tx[t]
    OBVIOUS
  <2>2. r = [op |-> r.op, pc |-> r.pc, n |-> r.n, d |-> r.d, path |-> r.path,
             todo |-> r.todo, alone |-> r.alone]
    BY <2>1, RequestParts
  <2>3. tx'[t] = [r EXCEPT !.op = op, !.n = n, !.d = d, !.alone = b,
                           !.pc = IF op = "create" THEN "parent" ELSE "guard"]
    BY <1>2, <2>1
  <2> QED
    BY <2>1, <2>2, <2>3
<1>5. ASSUME NEW u \in Reqs \ {t}
      PROVE  tx'[u] = [op |-> tx[u].op, pc |-> tx[u].pc, n |-> tx[u].n, d |-> tx[u].d,
                       path |-> tx[u].path, todo |-> tx[u].todo, alone |-> c(u)]
  <2>1. PICK r : r = tx[u]
    OBVIOUS
  <2>2. r = [op |-> r.op, pc |-> r.pc, n |-> r.n, d |-> r.d, path |-> r.path,
             todo |-> r.todo, alone |-> r.alone]
    BY <2>1, RequestParts
  <2>3. tx'[u] = [r EXCEPT !.alone = c(u)]
    BY <1>2, <2>1
  <2> QED
    BY <2>1, <2>2, <2>3
<1>6. \A u \in Reqs : tx'[u] \in Request
  <2>1. ASSUME NEW u \in Reqs \ {t} PROVE tx'[u] \in Request
    <3>1. PICK r : r = tx'[u]
      OBVIOUS
    <3>2. r = [op |-> tx[u].op, pc |-> tx[u].pc, n |-> tx[u].n, d |-> tx[u].d,
               path |-> tx[u].path, todo |-> tx[u].todo, alone |-> c(u)]
      BY <1>5, <3>1
    <3>3. r \in Request
      BY <1>3, <3>2, RequestParts DEF Request
    <3> QED
      BY <3>1, <3>3
  <2>2. tx'[t] \in Request
    <3>1. n \in Ids
      BY DEF TypeOK
    <3>2. PICK pc : pc = IF op = "create" THEN "parent" ELSE "guard"
      OBVIOUS
    <3>3. pc \in Stages
      BY <3>2 DEF Stages
    <3>4. PICK r : r = tx'[t]
      OBVIOUS
    <3>5. r = [op |-> op, pc |-> pc, n |-> n, d |-> d, path |-> tx[t].path,
               todo |-> tx[t].todo, alone |-> b]
      BY <1>4, <3>2, <3>4
    <3>6. r \in Request
      BY <1>1, <1>3, <3>1, <3>3, <3>5, RequestParts DEF Request
    <3> QED
      BY <3>4, <3>6
  <2> QED
    BY <2>1, <2>2
<1>7. tx' \in [Reqs -> Request]
  BY <1>2, <1>6
<1> QED
  BY <1>1, <1>4, <1>5, <1>7 DEF b, c

(* The committed table changes at a commit or an insert alone, and no row  *)
(* ever leaves it.                                                         *)
LEMMA TableChanges ==
    ASSUME TypeOK, NEW t \in Reqs, Step(t) \/ Abort(t)
    PROVE  /\ node' = node \/ Commit(t) \/ CreateInsert(t)
           /\ DOMAIN node \subseteq DOMAIN node'
<1>1. CASE GuardRead(t)
  BY <1>1, GuardReadDoes DEF Reads
<1>2. CASE GuardAncestors(t)
  BY <1>2, GuardAncestorsDoes DEF Reads
<1>3. CASE MoveSelect(t)
  BY <1>3, MoveSelectDoes DEF Reads
<1>4. CASE MoveCheck(t)
  BY <1>4, MoveCheckDoes, RollbackDoes DEF Reads
<1>5. CASE MoveSelf(t)
  BY <1>5, MoveSelfDoes
<1>6. CASE RemoveSelect(t)
  BY <1>6, RemoveSelectDoes DEF Reads
<1>7. CASE RemoveSelf(t)
  BY <1>7, RemoveSelfDoes DEF Reads
<1>8. CASE CreateReadParent(t)
  BY <1>8, CreateReadParentDoes DEF Reads
<1>9. CASE CreateInsert(t)
  BY <1>9, CreateInsertDoes
<1>10. CASE \E m \in DOMAIN node : MoveLock(t, m)
  <2>1. PICK m \in DOMAIN node : MoveLock(t, m)
    BY <1>10
  <2> QED
    BY <2>1, MoveLockDoes
<1>11. CASE \E m \in DOMAIN node : MoveDescendant(t, m)
  <2>1. PICK m \in DOMAIN node : MoveDescendant(t, m)
    BY <1>11
  <2> QED
    BY <2>1, MoveDescendantDoes
<1>12. CASE \E m \in DOMAIN node : RemoveDescendant(t, m)
  <2>1. PICK m \in DOMAIN node : RemoveDescendant(t, m)
    BY <1>12
  <2> QED
    BY <2>1, RemoveDescendantDoes
<1>13. CASE Commit(t)
  BY <1>13, CommitDoes
<1>14. CASE Abort(t)
  BY <1>14, RollbackDoes DEF Abort
<1> QED
  BY <1>1, <1>2, <1>3, <1>4, <1>5, <1>6, <1>7, <1>8, <1>9, <1>10,
     <1>11, <1>12, <1>13, <1>14 DEF Step

-----------------------------------------------------------------------------
(* Which statement a request has come to *)

(* From statement to statement. *)
Edge(from, to) ==
    \/ from = "guard" /\ to \in {"ancestors", "done"}
    \/ from = "ancestors" /\ to \in {"move", "remove", "done"}
    \/ from = "move" /\ to = "locking"
    \/ from = "locking" /\ to \in {"locking", "paths", "commit", "done"}
    \/ from = "paths" /\ to \in {"paths", "commit", "done"}
    \/ from = "remove" /\ to = "marking"
    \/ from = "marking" /\ to \in {"marking", "self", "done"}
    \/ from = "self" /\ to \in {"self", "commit", "done"}
    \/ from = "parent" /\ to \in {"insert", "done"}
    \/ from \in {"insert", "commit"} /\ to = "done"

LEMMA Flow ==
    ASSUME TypeOK, AllStaged, NEW t \in Reqs, Step(t) \/ Abort(t)
    PROVE  /\ tx'[t].op = tx[t].op /\ tx'[t].n = tx[t].n /\ tx'[t].d = tx[t].d
           /\ tx'[t].alone = tx[t].alone
           /\ \A u \in Reqs \ {t} : tx'[u] = tx[u]
           /\ Edge(tx[t].pc, tx'[t].pc)
           /\ tx'[t].todo \subseteq DOMAIN node
           /\ tx[t].pc = "ancestors" => tx'[t].pc = "done" \/ (tx'[t].pc = tx[t].op /\ tx[t].n # Root)
<1>1. /\ tx'[t].op = tx[t].op /\ tx'[t].n = tx[t].n /\ tx'[t].d = tx[t].d
      /\ tx'[t].alone = tx[t].alone
      /\ \A u \in Reqs \ {t} : tx'[u] = tx[u]
  BY StepShape, DoesParts
<1>2. /\ tx[t].n \in DOMAIN node /\ tx[t].todo \subseteq DOMAIN node
      /\ tx[t].pc = "ancestors" => tx[t].op \in {"move", "remove"}
      /\ tx[t].pc = "move" => tx[t].d \in DOMAIN node
  BY DEF AllStaged, Staged
<1> DEFINE Goal == /\ Edge(tx[t].pc, tx'[t].pc)
                   /\ tx'[t].todo \subseteq DOMAIN node
                   /\ tx[t].pc = "ancestors"
                        => tx'[t].pc = "done" \/ (tx'[t].pc = tx[t].op /\ tx[t].n # Root)
<1>5. {} \subseteq DOMAIN node /\ {tx[t].n} \subseteq DOMAIN node
      /\ \A m : tx[t].todo \ {m} \subseteq DOMAIN node
  BY <1>2
<1> SUFFICES Goal
  BY <1>1
<1> HIDE DEF Goal
<1>6. CASE GuardRead(t)
  <2>1. tx[t].pc = "guard" /\ tx'[t].pc \in {"ancestors", "done"} /\ tx'[t].todo = tx[t].todo
    BY <1>6, GuardReadDoes, DoesParts
  <2> QED
    BY <1>2, <2>1 DEF Goal, Edge
<1>7. CASE GuardAncestors(t)
  <2>1. /\ tx[t].pc = "ancestors" /\ tx'[t].todo = tx[t].todo
        /\ \/ tx'[t].pc = tx[t].op /\ tx[t].n # Root
           \/ tx'[t].pc = "done"
    BY <1>7, GuardAncestorsDoes, DoesParts
  <2> QED
    BY <1>2, <2>1 DEF Goal, Edge
<1>8. CASE MoveSelect(t)
  <2>1. PICK rows : rows = {m \in {tx[t].n, tx[t].d} : Live(m)}
    OBVIOUS
  <2>2. tx[t].pc = "move" /\ Does(t, "locking", tx[t].path, rows)
    BY <1>8, <2>1, MoveSelectDoes
  <2>3. rows \subseteq DOMAIN node /\ tx'[t].pc = "locking" /\ tx'[t].todo = rows
    BY <1>2, <2>1, <2>2, DoesParts
  <2> QED
    BY <2>2, <2>3 DEF Goal, Edge
<1>9. CASE MoveCheck(t)
  <2>1. PICK rows : rows = Below(t)
    OBVIOUS
  <2>2. rows \subseteq DOMAIN node
    BY <2>1 DEF Below
  <2>3. /\ tx[t].pc = "locking"
        /\ \/ Does(t, "paths", tx[t].path, rows)
           \/ Does(t, "commit", tx[t].path, tx[t].todo)
           \/ Does(t, "done", tx[t].path, {})
    BY <1>9, <2>1, MoveCheckDoes, RollbackDoes
  <2>4. \/ tx'[t].pc = "paths" /\ tx'[t].todo = rows
        \/ tx'[t].pc = "commit" /\ tx'[t].todo = tx[t].todo
        \/ tx'[t].pc = "done" /\ tx'[t].todo = {}
    BY <2>3, DoesParts
  <2> QED
    BY <1>2, <2>2, <2>3, <2>4 DEF Goal, Edge
<1>10. CASE MoveSelf(t)
  <2>1. tx[t].pc = "paths" /\ tx'[t].pc \in {"commit"} /\ tx'[t].todo = {}
    BY <1>10, MoveSelfDoes, DoesParts
  <2> QED
    BY <1>2, <2>1 DEF Goal, Edge
<1>11. CASE RemoveSelect(t)
  <2>1. PICK rows : rows = {m \in DOMAIN node : Doomed(t, m)}
    OBVIOUS
  <2>2. tx[t].pc = "remove" /\ Does(t, "marking", tx[t].path, rows)
    BY <1>11, <2>1, RemoveSelectDoes
  <2>3. rows \subseteq DOMAIN node /\ tx'[t].pc = "marking" /\ tx'[t].todo = rows
    BY <2>1, <2>2, DoesParts
  <2> QED
    BY <2>2, <2>3 DEF Goal, Edge
<1>12. CASE RemoveSelf(t)
  <2>1. \/ tx[t].pc = "marking" /\ Does(t, "self", tx[t].path, {tx[t].n})
        \/ tx[t].pc = "self" /\ Does(t, "self", tx[t].path, tx[t].todo \ {tx[t].n})
        \/ tx[t].pc = "self" /\ Does(t, "commit", tx[t].path, tx[t].todo)
    BY <1>12, RemoveSelfDoes
  <2>2. \/ tx[t].pc = "marking" /\ tx'[t].pc = "self" /\ tx'[t].todo = {tx[t].n}
        \/ tx[t].pc = "self" /\ tx'[t].pc = "self" /\ tx'[t].todo = tx[t].todo \ {tx[t].n}
        \/ tx[t].pc = "self" /\ tx'[t].pc = "commit" /\ tx'[t].todo = tx[t].todo
    BY <2>1, DoesParts
  <2> QED
    BY <1>2, <2>2 DEF Goal, Edge
<1>13. CASE CreateReadParent(t)
  <2>1. tx[t].pc = "parent" /\ tx'[t].pc \in {"insert", "done"} /\ tx'[t].todo = tx[t].todo
    BY <1>13, CreateReadParentDoes, DoesParts
  <2> QED
    BY <1>2, <2>1 DEF Goal, Edge
<1>14. CASE CreateInsert(t)
  <2>1. tx[t].pc = "insert" /\ Does(t, "done", tx[t].path, tx[t].todo)
    BY <1>14, CreateInsertDoes
  <2>2. tx'[t].pc = "done" /\ tx'[t].todo = tx[t].todo
    BY <2>1, DoesParts
  <2> QED
    BY <1>2, <2>1, <2>2 DEF Goal, Edge
<1>15. CASE \E m \in DOMAIN node : MoveLock(t, m)
  <2>1. PICK m \in DOMAIN node : MoveLock(t, m)
    BY <1>15
  <2>2. tx[t].pc = "locking" /\ Does(t, "locking", tx[t].path, tx[t].todo \ {m})
    BY <2>1, MoveLockDoes
  <2>3. tx'[t].pc = "locking" /\ tx'[t].todo = tx[t].todo \ {m}
    BY <2>2, DoesParts
  <2> QED
    BY <1>2, <2>2, <2>3 DEF Goal, Edge
<1>16. CASE \E m \in DOMAIN node : MoveDescendant(t, m)
  <2>1. PICK m \in DOMAIN node : MoveDescendant(t, m)
    BY <1>16
  <2>2. tx[t].pc = "paths" /\ Does(t, "paths", tx[t].path, tx[t].todo \ {m})
    BY <2>1, MoveDescendantDoes
  <2>3. tx'[t].pc = "paths" /\ tx'[t].todo = tx[t].todo \ {m}
    BY <2>2, DoesParts
  <2> QED
    BY <1>2, <2>2, <2>3 DEF Goal, Edge
<1>17. CASE \E m \in DOMAIN node : RemoveDescendant(t, m)
  <2>1. PICK m \in DOMAIN node : RemoveDescendant(t, m)
    BY <1>17
  <2>2. tx[t].pc = "marking" /\ Does(t, "marking", tx[t].path, tx[t].todo \ {m})
    BY <2>1, RemoveDescendantDoes
  <2>3. tx'[t].pc = "marking" /\ tx'[t].todo = tx[t].todo \ {m}
    BY <2>2, DoesParts
  <2> QED
    BY <1>2, <2>2, <2>3 DEF Goal, Edge
<1>18. CASE Commit(t)
  <2>1. tx[t].pc = "commit" /\ tx'[t].pc \in {"done"} /\ tx'[t].todo = tx[t].todo
    BY <1>18, CommitDoes, DoesParts
  <2> QED
    BY <1>2, <2>1 DEF Goal, Edge
<1>19. CASE Abort(t)
  <2>1. tx[t].pc \in {"locking", "paths", "marking", "self", "commit"}
    BY <1>19 DEF Abort, InTransaction
  <2>2. tx'[t].pc = "done" /\ tx'[t].todo = {}
    BY <1>19, RollbackDoes, DoesParts DEF Abort
  <2> QED
    BY <2>1, <2>2 DEF Goal, Edge
<1> QED
  BY <1>6, <1>7, <1>8, <1>9, <1>10, <1>11, <1>12, <1>13, <1>14, <1>15, <1>16, <1>17,
     <1>18, <1>19 DEF Step

LEMMA StagedStep ==
    ASSUME TypeOK, AllStaged, NEW t \in Reqs, Step(t) \/ Abort(t)
    PROVE  AllStaged'
<1>1. DOMAIN node \subseteq DOMAIN node'
  BY TableChanges
<1>2. \A u \in Reqs \ {t} : tx'[u] = tx[u] /\ Staged(u)
  BY Flow DEF AllStaged
<1>3. \A u \in Reqs \ {t} : Staged(u)'
  BY <1>1, <1>2 DEF Staged
<1>4. Staged(t)'
  <2>1. /\ tx'[t].op = tx[t].op /\ tx'[t].n = tx[t].n /\ tx'[t].d = tx[t].d
        /\ Edge(tx[t].pc, tx'[t].pc)
        /\ tx'[t].todo \subseteq DOMAIN node
        /\ tx[t].pc = "ancestors"
             => tx'[t].pc = "done" \/ (tx'[t].pc = tx[t].op /\ tx[t].n # Root)
    BY Flow
  <2>2. Staged(t)
    BY DEF AllStaged
  <2> QED
    BY <1>1, <2>1, <2>2 DEF Staged, Edge
<1> QED
  BY <1>3, <1>4 DEF AllStaged

LEMMA ArriveParts ==
    ASSUME TreeTxAssumption, TypeOK, NEW t \in Reqs, NEW op \in Ops, NEW n \in DOMAIN node,
           NEW d \in Ids, Arrive(t, op, n, d)
    PROVE  /\ tx'[t].op = op /\ tx'[t].n = n /\ tx'[t].d = d
           /\ tx'[t].pc \in {"parent", "guard"} /\ (tx'[t].pc = "parent" <=> op = "create")
           /\ tx'[t].todo = tx[t].todo /\ tx'[t].path = tx[t].path
           /\ tx'[t].alone = (InFlight = {})
           /\ \A u \in Reqs \ {t} :
                /\ tx'[u].op = tx[u].op /\ tx'[u].n = tx[u].n /\ tx'[u].d = tx[u].d
                /\ tx'[u].pc = tx[u].pc /\ tx'[u].todo = tx[u].todo
                /\ tx'[u].path = tx[u].path
                /\ tx'[u].alone = (tx[u].alone /\ u \notin InFlight)
<1>1. PICK pc : pc = IF op = "create" THEN "parent" ELSE "guard"
  OBVIOUS
<1>2. tx'[t] = [op |-> op, pc |-> pc, n |-> n, d |-> d, path |-> tx[t].path,
                todo |-> tx[t].todo, alone |-> (InFlight = {})]
  BY <1>1, ArriveDoes
<1>3. \A u \in Reqs \ {t} :
         tx'[u] = [op |-> tx[u].op, pc |-> tx[u].pc, n |-> tx[u].n, d |-> tx[u].d,
                   path |-> tx[u].path, todo |-> tx[u].todo,
                   alone |-> (tx[u].alone /\ u \notin InFlight)]
  BY ArriveDoes
<1>4. tx'[t].alone = (InFlight = {})
  <2> DEFINE b == InFlight = {}
  <2>1. tx'[t] = [op |-> op, pc |-> pc, n |-> n, d |-> d, path |-> tx[t].path,
                  todo |-> tx[t].todo, alone |-> b]
    BY <1>2
  <2> HIDE DEF b
  <2>2. tx'[t].alone = b
    BY <2>1
  <2> QED
    BY <2>2 DEF b
<1>5. /\ tx'[t].op = op /\ tx'[t].n = n /\ tx'[t].d = d
      /\ tx'[t].pc \in {"parent", "guard"} /\ (tx'[t].pc = "parent" <=> op = "create")
      /\ tx'[t].todo = tx[t].todo /\ tx'[t].path = tx[t].path
  BY <1>1, <1>2
<1>6. ASSUME NEW u \in Reqs \ {t}
      PROVE  /\ tx'[u].op = tx[u].op /\ tx'[u].n = tx[u].n /\ tx'[u].d = tx[u].d
             /\ tx'[u].pc = tx[u].pc /\ tx'[u].todo = tx[u].todo
             /\ tx'[u].path = tx[u].path
             /\ tx'[u].alone = (tx[u].alone /\ u \notin InFlight)
  <2> DEFINE b == tx[u].alone /\ u \notin InFlight
  <2>1. tx'[u] = [op |-> tx[u].op, pc |-> tx[u].pc, n |-> tx[u].n, d |-> tx[u].d,
                  path |-> tx[u].path, todo |-> tx[u].todo, alone |-> b]
    BY <1>3
  <2> HIDE DEF b
  <2>2. /\ tx'[u].op = tx[u].op /\ tx'[u].n = tx[u].n /\ tx'[u].d = tx[u].d
        /\ tx'[u].pc = tx[u].pc /\ tx'[u].todo = tx[u].todo
        /\ tx'[u].path = tx[u].path /\ tx'[u].alone = b
    BY <2>1
  <2> QED
    BY <2>2 DEF b
<1> QED
  BY <1>4, <1>5, <1>6

LEMMA StagedArrive ==
    ASSUME TreeTxAssumption, TypeOK, AllStaged, NEW t \in Reqs, NEW op \in Ops,
           NEW n \in DOMAIN node, NEW d \in Ids, Arrive(t, op, n, d)
    PROVE  AllStaged'
<1>1. node' = node /\ Staged(t)
  BY ArriveDoes DEF Reads, AllStaged
<1>2. Staged(t)'
  <2>1. /\ op = "move" => d \in DOMAIN node
        /\ tx'[t].op = op /\ tx'[t].n = n /\ tx'[t].d = d
        /\ tx'[t].pc \in {"parent", "guard"} /\ (tx'[t].pc = "parent" <=> op = "create")
        /\ tx'[t].todo = tx[t].todo /\ op \in {"move", "remove", "create"}
    BY ArriveDoes, ArriveParts
  <2> QED
    BY <1>1, <2>1 DEF Staged
<1>3. \A u \in Reqs \ {t} : Staged(u)'
  BY <1>1, ArriveParts DEF AllStaged, Staged
<1> QED
  BY <1>2, <1>3 DEF AllStaged

(* The id to create stays free. *)
LEMMA FreshStep ==
    ASSUME TypeOK, AllStaged, Fresh, NEW t \in Reqs, Step(t) \/ Abort(t)
    PROVE  Fresh'
<1>1. \A u \in Reqs : tx'[u].d = tx[u].d
  BY StepShape, DoesParts
<1>2. ASSUME NEW u \in Reqs, tx'[u].pc \in {"parent", "insert"}
      PROVE  tx'[u].d \notin DOMAIN node'
  <2>1. CASE u # t
    <3>1. tx[u].pc \in {"parent", "insert"}
      BY <1>2, <2>1, StepShape, DoesParts
    <3>2. tx[u].d \notin DOMAIN node /\ tx[t].d # tx[u].d
      BY <2>1, <3>1 DEF Fresh
    <3>3. DOMAIN node' = DOMAIN node \/ DOMAIN node' = DOMAIN node \cup {tx[t].d}
      BY TableChanges, CommitDoes, CreateInsertDoes
    <3> QED
      BY <1>1, <3>2, <3>3
  <2>2. CASE u = t
    <3>1. tx[t].pc = "parent"
      BY <1>2, <2>2, Flow DEF Edge
    <3>2. node' = node
      BY <3>1, TableChanges, CommitDoes, CreateInsertDoes
    <3> QED
      BY <1>1, <2>2, <3>1, <3>2 DEF Fresh
  <2> QED
    BY <2>1, <2>2
<1>3. ASSUME NEW u \in Reqs, tx'[u].pc \in {"parent", "insert"}
      PROVE  tx[u].pc \in {"parent", "insert"}
  BY <1>3, Flow DEF Edge
<1> QED
  BY <1>1, <1>2, <1>3 DEF Fresh

LEMMA FreshArrive ==
    ASSUME TreeTxAssumption, TypeOK, AllStaged, Fresh, NEW t \in Reqs, NEW op \in Ops,
           NEW n \in DOMAIN node, NEW d \in Ids, Arrive(t, op, n, d)
    PROVE  Fresh'
<1>1. node' = node /\ n \in DOMAIN node /\ op \in {"move", "remove", "create"}
  BY ArriveDoes DEF Reads
<1>2. /\ tx'[t].d = d
      /\ tx'[t].pc \in {"parent", "insert"} => op = "create"
      /\ \A u \in Reqs \ {t} : tx'[u].d = tx[u].d /\ tx'[u].pc = tx[u].pc
  BY ArriveParts
<1>3. op = "create" => d \notin DOMAIN node /\ \A u \in Reqs : tx[u].d # d
  BY ArriveDoes
<1>4. op # "create" => d \in DOMAIN node
  <2>1. op = "move" => d \in DOMAIN node
    BY ArriveDoes
  <2>2. op = "remove" => d = n
    BY DEF Arrive
  <2> QED
    BY <1>1, <2>1, <2>2
<1> QED
  BY <1>1, <1>2, <1>3, <1>4 DEF Fresh
-----------------------------------------------------------------------------
(* What may be written *)

LEMMA ChildRooted ==
    ASSUME TreeTxAssumption, TypeOK, RootStays, PathsRooted, NEW m \in DOMAIN node
    PROVE  Rooted(childPath(m))
<1>1. /\ node[m].path \in Seq(Ids) /\ childPath(m) \in Seq(Ids) /\ m \in Ids
      /\ Len(childPath(m)) = Len(node[m].path) + 1
      /\ childPath(m)[Len(node[m].path) + 1] = m
      /\ \A i \in 1..Len(node[m].path) : childPath(m)[i] = node[m].path[i]
  BY RowTyped
<1>2. Len(node[m].path) \in Nat
  BY <1>1, LenProperties
<1>3. childPath(m) # << >>
  BY <1>1, <1>2
<1>4. childPath(m)[1] = Root
  <2>1. CASE m = Root
    <3>1. Len(node[m].path) = 0
      BY <2>1 DEF RootStays
    <3> QED
      BY <1>1, <2>1, <3>1
  <2>2. CASE m # Root
    <3>1. node[m].path # << >> /\ node[m].path[1] = Root
      BY <2>2 DEF PathsRooted, Rooted
    <3>2. Len(node[m].path) > 0
      BY <1>1, <1>2, <3>1, EmptySeq
    <3> QED
      BY <1>1, <1>2, <3>1, <3>2
  <2> QED
    BY <2>1, <2>2
<1> QED
  BY <1>3, <1>4 DEF Rooted

LEMMA ViewRooted ==
    ASSUME PathsRooted, RootStays, NEW t \in Reqs, NEW m \in DOMAIN node
    PROVE  /\ m # Root => Rooted(View(t, m).path)
           /\ m = Root => View(t, m).path = << >>
<1>1. m # Root => Rooted(View(t, m).path)
  BY DEF PathsRooted, View
<1>2. m = Root => View(t, m).path = << >>
  BY DEF RootStays, View
<1> QED
  BY <1>1, <1>2

(* Nothing that is not empty is a prefix of the root's path. *)
LEMMA RootSpared ==
    ASSUME TypeOK, PathsRooted, RootStays, NEW t \in Reqs, NEW m \in DOMAIN node,
           NEW p \in Seq(Ids), p # << >>, Tree!StartsWith(View(t, m).path, p)
    PROVE  m # Root
<1>1. Len(p) \in Nat /\ Len(p) > 0
  BY LenProperties, EmptySeq
<1>2. Len(p) <= Len(View(t, m).path)
  BY DEF Tree!StartsWith
<1>3. m = Root => Len(View(t, m).path) = 0
  BY ViewRooted
<1> QED
  BY <1>1, <1>2, <1>3

(* A row t writes keeps a tombstone, starts at the root and is locked.     *)
Sound(t, m, row) ==
    /\ m \in DOMAIN node /\ m # Root /\ lock'[m] = t
    /\ Rooted(row.path)
    /\ View(t, m).deleted => row.deleted

(* The statements a request runs while it has rows to write. *)
WriteStages == {"paths", "marking", "self", "commit"}

LEMMA StepWrites ==
    ASSUME TreeTxAssumption, TypeOK, AllStaged, RootStays, PathsRooted, LocksHeld,
           NEW t \in Reqs, Step(t) \/ Abort(t)
    PROVE  \/ /\ dirty' = dirty /\ (node' = node \/ CreateInsert(t))
              /\ tx[t].pc \in WriteStages => tx'[t].pc \in WriteStages
           \/ /\ node' = node /\ tx[t].pc \in WriteStages /\ tx'[t].pc \in WriteStages
              /\ \E m, row : Writes(t, m, row) /\ Sound(t, m, row)
           \/ Clears(t) /\ tx'[t].pc = "done" /\ (node' = node \/ Commit(t))
<1> DEFINE Still == /\ dirty' = dirty /\ (node' = node \/ CreateInsert(t))
                    /\ tx[t].pc \in WriteStages => tx'[t].pc \in WriteStages
           Wrote == /\ node' = node /\ tx[t].pc \in WriteStages /\ tx'[t].pc \in WriteStages
                    /\ \E m, row : Writes(t, m, row) /\ Sound(t, m, row)
           Ended == Clears(t) /\ tx'[t].pc = "done" /\ (node' = node \/ Commit(t))
<1> SUFFICES Still \/ Wrote \/ Ended
  OBVIOUS
<1>1. /\ tx[t].n \in DOMAIN node /\ tx[t].n \in Ids /\ tx[t].todo \subseteq DOMAIN node
      /\ tx[t].path \in Seq(Ids) /\ Staged(t)
      /\ lock \in [Ids -> Reqs \cup {Nobody}] /\ DOMAIN node \subseteq Ids
  BY RequestParts DEF AllStaged, Staged, TypeOK
<1>2. \A m \in DOMAIN node : lock' = [lock EXCEPT ![m] = t] => lock'[m] = t
  BY <1>1
<1>3. ASSUME Reads, tx[t].pc \in WriteStages => tx'[t].pc \in WriteStages PROVE Still
  BY <1>3 DEF Reads
<1> HIDE DEF Still, Wrote, Ended
<1>4. CASE GuardRead(t)
  BY <1>3, <1>4, GuardReadDoes DEF WriteStages
<1>5. CASE GuardAncestors(t)
  BY <1>3, <1>5, GuardAncestorsDoes DEF WriteStages
<1>6. CASE MoveSelect(t)
  BY <1>3, <1>6, MoveSelectDoes DEF WriteStages
<1>7. CASE MoveCheck(t)
  <2>1. CASE Rollback(t)
    BY <2>1, RollbackDoes, DoesParts DEF Ended
  <2> QED
    BY <1>3, <1>7, <2>1, MoveCheckDoes DEF WriteStages
<1>8. CASE MoveSelf(t)
  <2>1. PICK row : row = [View(t, tx[t].n) EXCEPT !.parentId = tx[t].d, !.path = childPath(tx[t].d)]
    OBVIOUS
  <2>2. /\ tx[t].pc = "paths" /\ node' = node /\ lock' = lock
        /\ Does(t, "commit", tx[t].path, {}) /\ Writes(t, tx[t].n, row)
    BY <1>8, <2>1, MoveSelfDoes
  <2>3. tx[t].n # Root /\ tx[t].d \in DOMAIN node
    BY <1>1, <2>2 DEF Staged
  <2>4. lock'[tx[t].n] = t
    BY <2>2 DEF LocksHeld, Held
  <2>5. Rooted(row.path) /\ row.deleted = View(t, tx[t].n).deleted
    <3>1. PICK v : v = View(t, tx[t].n)
      OBVIOUS
    <3>2. v \in Row
      BY <1>1, <3>1, ViewTyped
    <3>3. row.path = childPath(tx[t].d) /\ row.deleted = v.deleted
      BY <2>1, <3>1, <3>2 DEF Row
    <3> QED
      BY <2>3, <3>1, <3>3, ChildRooted
  <2>6. Sound(t, tx[t].n, row)
    BY <1>1, <2>3, <2>4, <2>5 DEF Sound
  <2>7. tx'[t].pc = "commit"
    BY <2>2, DoesParts
  <2> QED
    BY <2>2, <2>6, <2>7 DEF Wrote, WriteStages
<1>9. CASE RemoveSelect(t)
  BY <1>3, <1>9, RemoveSelectDoes DEF WriteStages
<1>10. CASE RemoveSelf(t)
  <2>1. CASE Reads
    <3>1. \/ tx[t].pc = "marking" /\ Does(t, "self", tx[t].path, {tx[t].n})
          \/ tx[t].pc = "self" /\ Does(t, "self", tx[t].path, tx[t].todo \ {tx[t].n})
          \/ tx[t].pc = "self" /\ Does(t, "commit", tx[t].path, tx[t].todo)
      BY <1>10, RemoveSelfDoes
    <3>2. tx'[t].pc \in {"self", "commit"}
      BY <3>1, DoesParts
    <3> QED
      BY <1>3, <2>1, <3>2 DEF WriteStages
  <2>2. CASE ~Reads
    <3>1. /\ tx[t].pc = "self" /\ tx[t].n \in tx[t].todo
          /\ node' = node /\ lock' = [lock EXCEPT ![tx[t].n] = t]
          /\ Does(t, "self", tx[t].path, tx[t].todo \ {tx[t].n})
          /\ \/ /\ ~View(t, tx[t].n).deleted
                /\ Writes(t, tx[t].n, [View(t, tx[t].n) EXCEPT !.deleted = TRUE])
             \/ dirty' = dirty
      BY <1>10, <2>2, RemoveSelfDoes
    <3>2. CASE dirty' = dirty
      <4>1. tx'[t].pc = "self"
        BY <3>1, DoesParts
      <4> QED
        BY <3>1, <3>2, <4>1 DEF Still, WriteStages
    <3>3. CASE /\ ~View(t, tx[t].n).deleted
               /\ Writes(t, tx[t].n, [View(t, tx[t].n) EXCEPT !.deleted = TRUE])
      <4>1. PICK row : row = [View(t, tx[t].n) EXCEPT !.deleted = TRUE]
        OBVIOUS
      <4>2. tx[t].n # Root
        BY <1>1, <3>1 DEF Staged
      <4>3. Rooted(row.path)
        <5>1. PICK v : v = View(t, tx[t].n)
          OBVIOUS
        <5>2. v \in Row
          BY <1>1, <5>1, ViewTyped
        <5>3. row.path = v.path
          BY <4>1, <5>1, <5>2 DEF Row
        <5> QED
          BY <1>1, <4>2, <5>1, <5>3, ViewRooted
      <4>4. Sound(t, tx[t].n, row)
        BY <1>1, <1>2, <3>1, <3>3, <4>2, <4>3 DEF Sound
      <4>5. tx'[t].pc = "self"
        BY <3>1, DoesParts
      <4> QED
        BY <3>1, <3>3, <4>1, <4>4, <4>5 DEF Wrote, WriteStages
    <3> QED
      BY <3>1, <3>2, <3>3
  <2> QED
    BY <2>1, <2>2
<1>11. CASE CreateReadParent(t)
  BY <1>3, <1>11, CreateReadParentDoes DEF WriteStages
<1>12. CASE CreateInsert(t)
  BY <1>12, CreateInsertDoes DEF Still, WriteStages
<1>13. CASE \E m \in DOMAIN node : MoveLock(t, m)
  <2>1. PICK m \in DOMAIN node : MoveLock(t, m)
    BY <1>13
  <2> QED
    BY <2>1, MoveLockDoes DEF Still, WriteStages
<1>14. CASE \E m \in DOMAIN node : MoveDescendant(t, m)
  <2>1. PICK m \in DOMAIN node : MoveDescendant(t, m)
    BY <1>14
  <2>2. /\ tx[t].pc = "paths" /\ node' = node /\ lock' = [lock EXCEPT ![m] = t]
        /\ Does(t, "paths", tx[t].path, tx[t].todo \ {m})
    BY <2>1, MoveDescendantDoes
  <2>3. \/ /\ Tree!StartsWith(View(t, m).path, childPath(tx[t].n))
           /\ Writes(t, m, Repathed(t, m))
        \/ dirty' = dirty
    BY <2>1, MoveDescendantDoes
  <2>4. CASE dirty' = dirty
    <3>1. tx'[t].pc = "paths"
      BY <2>2, DoesParts
    <3> QED
      BY <2>2, <2>4, <3>1 DEF Still, WriteStages
  <2>5. CASE /\ Tree!StartsWith(View(t, m).path, childPath(tx[t].n))
             /\ Writes(t, m, Repathed(t, m))
    <3>1. tx[t].d \in DOMAIN node
      BY <1>1, <2>2 DEF Staged
    <3>2. /\ Repathed(t, m).path # << >>
          /\ Repathed(t, m).path[1] = childPath(tx[t].d)[1]
          /\ Repathed(t, m).deleted = View(t, m).deleted
      BY <1>1, <2>5, <3>1, MovePaths
    <3>3. Rooted(Repathed(t, m).path)
      BY <3>1, <3>2, ChildRooted DEF Rooted
    <3>4. m # Root
      <4>1. Rooted(childPath(tx[t].n)) /\ childPath(tx[t].n) \in Seq(Ids)
        BY <1>1, ChildRooted, RowTyped
      <4> QED
        BY <2>5, <4>1, RootSpared DEF Rooted
    <3>5. Sound(t, m, Repathed(t, m))
      BY <1>2, <2>2, <3>2, <3>3, <3>4 DEF Sound
    <3>6. tx'[t].pc = "paths"
      BY <2>2, DoesParts
    <3> QED
      BY <2>2, <2>5, <3>5, <3>6 DEF Wrote, WriteStages
  <2> QED
    BY <2>3, <2>4, <2>5
<1>15. CASE \E m \in DOMAIN node : RemoveDescendant(t, m)
  <2>1. PICK m \in DOMAIN node : RemoveDescendant(t, m)
    BY <1>15
  <2>2. PICK row : row = [View(t, m) EXCEPT !.deleted = TRUE]
    OBVIOUS
  <2>3. /\ tx[t].pc = "marking" /\ node' = node /\ lock' = [lock EXCEPT ![m] = t]
        /\ Does(t, "marking", tx[t].path, tx[t].todo \ {m})
    BY <2>1, RemoveDescendantDoes
  <2>4. \/ Doomed(t, m) /\ Writes(t, m, row)
        \/ dirty' = dirty
    BY <2>1, <2>2, RemoveDescendantDoes
  <2>5. CASE dirty' = dirty
    <3>1. tx'[t].pc = "marking"
      BY <2>3, DoesParts
    <3> QED
      BY <2>3, <2>5, <3>1 DEF Still, WriteStages
  <2>6. CASE Doomed(t, m) /\ Writes(t, m, row)
    <3>1. PICK p : p = Append(tx[t].path, tx[t].n)
      OBVIOUS
    <3>2. p \in Seq(Ids) /\ p # << >>
      BY <1>1, <3>1, AppendProperties, LenProperties
    <3>3. Tree!StartsWith(View(t, m).path, p) /\ ~View(t, m).deleted
      BY <2>6, <3>1 DEF Doomed
    <3>4. m # Root
      BY <3>2, <3>3, RootSpared
    <3>5. Rooted(row.path)
      <4>1. PICK v : v = View(t, m)
        OBVIOUS
      <4>2. v \in Row
        BY <4>1, ViewTyped
      <4>3. row.path = v.path
        BY <2>2, <4>1, <4>2 DEF Row
      <4> QED
        BY <3>4, <4>1, <4>3, ViewRooted
    <3>6. Sound(t, m, row)
      BY <1>2, <2>3, <3>3, <3>4, <3>5 DEF Sound
    <3>7. tx'[t].pc = "marking"
      BY <2>3, DoesParts
    <3> QED
      BY <2>3, <2>6, <3>6, <3>7 DEF Wrote, WriteStages
  <2> QED
    BY <2>4, <2>5, <2>6
<1>16. CASE Commit(t)
  BY <1>16, CommitDoes, DoesParts DEF Ended
<1>17. CASE Abort(t)
  BY <1>17, RollbackDoes, DoesParts DEF Abort, Ended
<1> QED
  BY <1>4, <1>5, <1>6, <1>7, <1>8, <1>9, <1>10, <1>11, <1>12, <1>13, <1>14, <1>15,
     <1>16, <1>17 DEF Step
-----------------------------------------------------------------------------
(* Paths and tombstones, step by step *)

(* Locks are taken one at a time and given back at the end. *)
LEMMA LocksKept ==
    ASSUME TypeOK, AllStaged, NEW t \in Reqs, Step(t) \/ Abort(t)
    PROVE  Clears(t) \/ \A m \in Ids : lock'[m] = lock[m] \/ lock'[m] = t
<1> DEFINE Kept == \A m \in Ids : lock'[m] = lock[m] \/ lock'[m] = t
<1> SUFFICES Clears(t) \/ Kept
  OBVIOUS
<1>1. lock' = lock => Kept
  OBVIOUS
<1>2. \A m : lock' = [lock EXCEPT ![m] = t] => Kept
  BY DEF TypeOK
<1> HIDE DEF Kept
<1>3. CASE GuardRead(t)
  BY <1>3, <1>1, <1>2, GuardReadDoes DEF Reads
<1>4. CASE GuardAncestors(t)
  BY <1>4, <1>1, <1>2, GuardAncestorsDoes DEF Reads
<1>5. CASE MoveSelect(t)
  BY <1>5, <1>1, <1>2, MoveSelectDoes DEF Reads
<1>6. CASE MoveCheck(t)
  BY <1>6, <1>1, MoveCheckDoes, RollbackDoes DEF Reads
<1>7. CASE MoveSelf(t)
  BY <1>7, <1>1, <1>2, MoveSelfDoes DEF Reads
<1>8. CASE RemoveSelect(t)
  BY <1>8, <1>1, <1>2, RemoveSelectDoes DEF Reads
<1>9. CASE RemoveSelf(t)
  BY <1>9, <1>1, <1>2, RemoveSelfDoes DEF Reads
<1>10. CASE CreateReadParent(t)
  BY <1>10, <1>1, <1>2, CreateReadParentDoes DEF Reads
<1>11. CASE CreateInsert(t)
  BY <1>11, <1>1, <1>2, CreateInsertDoes DEF Reads
<1>12. CASE \E m \in DOMAIN node : MoveLock(t, m)
  <2>1. PICK m \in DOMAIN node : MoveLock(t, m)
    BY <1>12
  <2> QED
    BY <2>1, <1>1, <1>2, MoveLockDoes DEF Reads
<1>13. CASE \E m \in DOMAIN node : MoveDescendant(t, m)
  <2>1. PICK m \in DOMAIN node : MoveDescendant(t, m)
    BY <1>13
  <2> QED
    BY <2>1, <1>1, <1>2, MoveDescendantDoes DEF Reads
<1>14. CASE \E m \in DOMAIN node : RemoveDescendant(t, m)
  <2>1. PICK m \in DOMAIN node : RemoveDescendant(t, m)
    BY <1>14
  <2> QED
    BY <2>1, <1>1, <1>2, RemoveDescendantDoes DEF Reads
<1>15. CASE Commit(t)
  BY <1>15, CommitDoes
<1>16. CASE Abort(t)
  BY <1>16, RollbackDoes DEF Abort
<1> QED
  BY <1>3, <1>4, <1>5, <1>6, <1>7, <1>8, <1>9, <1>10, <1>11, <1>12,
     <1>13, <1>14, <1>15, <1>16 DEF Step

(* What a step does to the committed rows: the root stays, the others stay *)
(* below it, tombstones stay, and no row another request has written       *)
(* changes.                                                                *)
LEMMA TableStep ==
    ASSUME TreeTxAssumption, TypeOK, AllStaged, Fresh, RootStays, PathsRooted, LocksHeld,
           NEW t \in Reqs, Step(t) \/ Abort(t)
    PROVE  /\ Root \in DOMAIN node' /\ node'[Root] = node[Root]
           /\ \A m \in DOMAIN node' \ {Root} : Rooted(node'[m].path)
           /\ \A m \in DOMAIN node : node[m].deleted => node'[m].deleted
           /\ \A m \in DOMAIN node : m \notin DOMAIN dirty[t] => node'[m] = node[m]
<1>1. Root \in DOMAIN node /\ Root \notin DOMAIN dirty[t]
  BY DEF RootStays
<1>2. CASE node' = node
  BY <1>1, <1>2 DEF PathsRooted
<1>3. CASE Commit(t)
  <2>1. node' = [m \in DOMAIN node |-> View(t, m)]
    BY <1>3, CommitDoes
  <2>2. \A m \in DOMAIN node : m \notin DOMAIN dirty[t] => View(t, m) = node[m]
    BY DEF View
  <2>3. \A m \in DOMAIN node : node[m].deleted => View(t, m).deleted
    BY DEF View, LocksHeld, Held
  <2>4. \A m \in DOMAIN node \ {Root} : Rooted(View(t, m).path)
    BY ViewRooted
  <2> QED
    BY <1>1, <2>1, <2>2, <2>3, <2>4
<1>4. CASE CreateInsert(t)
  <2>1. PICK row : row = [parentId |-> tx[t].n, path |-> tx[t].path, deleted |-> FALSE]
    OBVIOUS
  <2>2. /\ tx[t].pc = "insert"
        /\ node' = [m \in DOMAIN node \cup {tx[t].d} |-> IF m = tx[t].d THEN row ELSE node[m]]
    BY <1>4, <2>1, CreateInsertDoes
  <2>3. tx[t].d \notin DOMAIN node
    BY <2>2 DEF Fresh
  <2>4. Rooted(row.path)
    BY <2>1, <2>2 DEF PathsRooted
  <2>5. /\ DOMAIN node' = DOMAIN node \cup {tx[t].d} /\ node'[tx[t].d] = row
        /\ \A m \in DOMAIN node : node'[m] = node[m]
    BY <2>2, <2>3
  <2> QED
    BY <1>1, <2>4, <2>5 DEF PathsRooted
<1> QED
  BY <1>2, <1>3, <1>4, TableChanges

(* The uncommitted rows after a step are those of before, and at most one  *)
(* that is sound.                                                          *)
LEMMA RowsStep ==
    ASSUME TreeTxAssumption, TypeOK, AllStaged, RootStays, PathsRooted, LocksHeld,
           NEW t \in Reqs, Step(t) \/ Abort(t)
    PROVE  /\ \A m \in DOMAIN dirty'[t] :
                \/ node' = node /\ Sound(t, m, dirty'[t][m])
                \/ /\ m \in DOMAIN dirty[t] /\ dirty'[t][m] = dirty[t][m]
                   /\ node' = node /\ lock'[m] = t
           /\ tx'[t].pc \notin WriteStages => dirty'[t] = NoRows
<1>1. \A m \in DOMAIN dirty[t] : lock[m] = t /\ m \in Ids
  BY DEF LocksHeld, Held, TypeOK
<1>2. \/ /\ dirty' = dirty /\ (node' = node \/ CreateInsert(t))
         /\ tx[t].pc \in WriteStages => tx'[t].pc \in WriteStages
      \/ /\ node' = node /\ tx[t].pc \in WriteStages /\ tx'[t].pc \in WriteStages
         /\ \E m, row : Writes(t, m, row) /\ Sound(t, m, row)
      \/ Clears(t) /\ tx'[t].pc = "done" /\ (node' = node \/ Commit(t))
  BY StepWrites
<1>3. CASE Clears(t)
  BY <1>3 DEF Clears, NoRows
<1>4. CASE /\ dirty' = dirty /\ (node' = node \/ CreateInsert(t)) /\ ~Clears(t)
           /\ tx[t].pc \in WriteStages => tx'[t].pc \in WriteStages
  <2>1. \A m \in DOMAIN dirty[t] : lock'[m] = t
    BY <1>1, <1>4, LocksKept
  <2>2. tx'[t].pc \notin WriteStages => dirty[t] = NoRows
    BY <1>4 DEF LocksHeld, Held, WriteStages
  <2>3. CreateInsert(t) => DOMAIN dirty[t] = {}
    BY CreateInsertDoes DEF LocksHeld, Held, NoRows
  <2> QED
    BY <1>4, <2>1, <2>2, <2>3
<1>5. CASE /\ node' = node /\ tx[t].pc \in WriteStages /\ tx'[t].pc \in WriteStages
           /\ ~Clears(t) /\ \E m, row : Writes(t, m, row) /\ Sound(t, m, row)
  <2>1. PICK m, row : Writes(t, m, row) /\ Sound(t, m, row)
    BY <1>5
  <2>2. /\ DOMAIN dirty'[t] = DOMAIN dirty[t] \cup {m} /\ dirty'[t][m] = row
        /\ \A x \in DOMAIN dirty[t] \ {m} : dirty'[t][x] = dirty[t][x]
    BY <2>1 DEF Writes
  <2>3. \A x \in DOMAIN dirty[t] : lock'[x] = t
    BY <1>1, <1>5, LocksKept
  <2> QED
    BY <1>5, <2>1, <2>2, <2>3
<1> QED
  BY <1>2, <1>3, <1>4, <1>5

LEMMA AtParent ==
    ASSUME TypeOK, NEW t \in Reqs, Step(t) \/ Abort(t), tx[t].pc = "parent"
    PROVE  CreateReadParent(t)
<1>1. CASE GuardRead(t)
  BY <1>1, GuardReadDoes
<1>2. CASE GuardAncestors(t)
  BY <1>2, GuardAncestorsDoes
<1>3. CASE MoveSelect(t)
  BY <1>3, MoveSelectDoes
<1>4. CASE MoveCheck(t)
  BY <1>4, MoveCheckDoes
<1>5. CASE MoveSelf(t)
  BY <1>5, MoveSelfDoes
<1>6. CASE RemoveSelect(t)
  BY <1>6, RemoveSelectDoes
<1>7. CASE RemoveSelf(t)
  BY <1>7, RemoveSelfDoes
<1>8. CASE CreateReadParent(t)
  BY <1>8
<1>9. CASE CreateInsert(t)
  BY <1>9, CreateInsertDoes
<1>10. CASE \E m \in DOMAIN node : MoveLock(t, m)
  <2>1. PICK m \in DOMAIN node : MoveLock(t, m)
    BY <1>10
  <2> QED
    BY <2>1, MoveLockDoes
<1>11. CASE \E m \in DOMAIN node : MoveDescendant(t, m)
  <2>1. PICK m \in DOMAIN node : MoveDescendant(t, m)
    BY <1>11
  <2> QED
    BY <2>1, MoveDescendantDoes
<1>12. CASE \E m \in DOMAIN node : RemoveDescendant(t, m)
  <2>1. PICK m \in DOMAIN node : RemoveDescendant(t, m)
    BY <1>12
  <2> QED
    BY <2>1, RemoveDescendantDoes
<1>13. CASE Commit(t)
  BY <1>13, CommitDoes
<1>14. CASE Abort(t)
  BY <1>14 DEF Abort, InTransaction
<1> QED
  BY <1>1, <1>2, <1>3, <1>4, <1>5, <1>6, <1>7, <1>8, <1>9, <1>10,
     <1>11, <1>12, <1>13, <1>14 DEF Step

LEMMA RootStep ==
    ASSUME TreeTxAssumption, TypeOK, AllStaged, Fresh, RootStays, PathsRooted, LocksHeld,
           NEW t \in Reqs, Step(t) \/ Abort(t)
    PROVE  RootStays'
<1>1. Root \notin DOMAIN dirty'[t]
  BY RowsStep DEF RootStays, Sound
<1>2. \A u \in Reqs \ {t} : Root \notin DOMAIN dirty'[u]
  BY StepShape DEF RootStays
<1> QED
  BY <1>1, <1>2, TableStep DEF RootStays

LEMMA RootedStep ==
    ASSUME TreeTxAssumption, TypeOK, AllStaged, Fresh, RootStays, PathsRooted, LocksHeld,
           NEW t \in Reqs, Step(t) \/ Abort(t)
    PROVE  PathsRooted'
<1>1. \A m \in DOMAIN dirty'[t] : Rooted(dirty'[t][m].path)
  BY RowsStep DEF PathsRooted, Sound
<1>2. \A u \in Reqs \ {t} : dirty'[u] = dirty[u] /\ tx'[u] = tx[u]
  BY StepShape, DoesParts
<1>3. ASSUME tx'[t].pc = "insert" PROVE Rooted(tx'[t].path)
  <2>1. tx[t].pc = "parent"
    BY <1>3, Flow DEF Edge
  <2>2. CreateReadParent(t)
    BY <2>1, AtParent
  <2>3. \/ Does(t, "insert", childPath(tx[t].n), tx[t].todo)
        \/ Does(t, "done", tx[t].path, tx[t].todo)
    BY <2>2, CreateReadParentDoes
  <2>4. tx'[t].path = childPath(tx[t].n)
    BY <1>3, <2>3, DoesParts
  <2>5. tx[t].n \in DOMAIN node
    BY DEF AllStaged, Staged
  <2> QED
    BY <2>4, <2>5, ChildRooted
<1> QED
  BY <1>1, <1>2, <1>3, TableStep DEF PathsRooted

-----------------------------------------------------------------------------
(* Row locks, step by step *)

(* A move that is locking its endpoints, and one that has locked them. *)
LEMMA MoveLocks ==
    ASSUME TreeTxAssumption, TypeOK, AllStaged, LocksHeld, NEW t \in Reqs, Step(t) \/ Abort(t)
    PROVE  /\ tx'[t].pc = "locking" =>
                /\ node' = node
                /\ \A m \in {tx[t].n, tx[t].d} : Live(m) => m \in tx'[t].todo \/ lock'[m] = t
           /\ tx'[t].pc = "paths" => lock'[tx[t].n] = t
<1> DEFINE Locking == /\ node' = node
                      /\ \A m \in {tx[t].n, tx[t].d} :
                            Live(m) => m \in tx'[t].todo \/ lock'[m] = t
           Goal == /\ tx'[t].pc = "locking" => Locking
                   /\ tx'[t].pc = "paths" => lock'[tx[t].n] = t
<1> SUFFICES Goal
  OBVIOUS
<1>1. /\ Edge(tx[t].pc, tx'[t].pc) /\ Held(t)
      /\ lock \in [Ids -> Reqs \cup {Nobody}]
      /\ tx[t].n \in Ids /\ tx[t].d \in Ids
  BY Flow, RequestParts DEF LocksHeld, TypeOK
<1>2. tx[t].pc \notin {"move", "locking", "paths"} => Goal
  BY <1>1 DEF Edge
<1> HIDE DEF Locking
<1>3. CASE GuardRead(t)
  BY <1>3, <1>2, GuardReadDoes
<1>4. CASE GuardAncestors(t)
  BY <1>4, <1>2, GuardAncestorsDoes
<1>5. CASE MoveSelect(t)
  <2>1. PICK rows : rows = {m \in {tx[t].n, tx[t].d} : Live(m)}
    OBVIOUS
  <2>2. Does(t, "locking", tx[t].path, rows) /\ node' = node
    BY <1>5, <2>1, MoveSelectDoes DEF Reads
  <2>3. tx'[t].pc = "locking" /\ tx'[t].todo = rows
    BY <2>2, DoesParts
  <2>4. Locking
    BY <2>1, <2>2, <2>3 DEF Locking
  <2> QED
    BY <2>3, <2>4
<1>6. CASE MoveCheck(t)
  <2>1. tx[t].pc = "locking" /\ tx[t].todo = {}
    BY <1>6, MoveCheckDoes
  <2>2. \/ /\ lock' = lock /\ Live(tx[t].n)
           /\ Does(t, "paths", tx[t].path, Below(t)) \/ Does(t, "commit", tx[t].path, tx[t].todo)
        \/ Does(t, "done", tx[t].path, {})
    BY <1>6, MoveCheckDoes, RollbackDoes DEF Reads
  <2>3. \/ /\ lock' = lock /\ Live(tx[t].n)
           /\ tx'[t].pc \in {"paths", "commit"}
        \/ tx'[t].pc = "done"
    BY <2>2, DoesParts
  <2> QED
    BY <1>1, <2>1, <2>3 DEF Held
<1>7. CASE MoveSelf(t)
  <2>1. tx'[t].pc = "commit"
    BY <1>7, MoveSelfDoes, DoesParts
  <2> QED
    BY <2>1
<1>8. CASE RemoveSelect(t)
  BY <1>8, <1>2, RemoveSelectDoes
<1>9. CASE RemoveSelf(t)
  BY <1>9, <1>2, RemoveSelfDoes
<1>10. CASE CreateReadParent(t)
  BY <1>10, <1>2, CreateReadParentDoes
<1>11. CASE CreateInsert(t)
  BY <1>11, <1>2, CreateInsertDoes
<1>12. CASE \E m \in DOMAIN node : MoveLock(t, m)
  <2>1. PICK m \in DOMAIN node : MoveLock(t, m)
    BY <1>12
  <2>2. /\ tx[t].pc = "locking" /\ node' = node /\ lock' = [lock EXCEPT ![m] = t]
        /\ Does(t, "locking", tx[t].path, tx[t].todo \ {m})
    BY <2>1, MoveLockDoes
  <2>3. tx'[t].pc = "locking" /\ tx'[t].todo = tx[t].todo \ {m}
    BY <2>2, DoesParts
  <2>4. Locking
    BY <1>1, <2>2, <2>3 DEF Locking, Held
  <2> QED
    BY <2>3, <2>4
<1>13. CASE \E m \in DOMAIN node : MoveDescendant(t, m)
  <2>1. PICK m \in DOMAIN node : MoveDescendant(t, m)
    BY <1>13
  <2>2. /\ tx[t].pc = "paths" /\ lock' = [lock EXCEPT ![m] = t]
        /\ Does(t, "paths", tx[t].path, tx[t].todo \ {m})
    BY <2>1, MoveDescendantDoes
  <2>3. tx'[t].pc = "paths"
    BY <2>2, DoesParts
  <2> QED
    BY <1>1, <2>2, <2>3 DEF Held
<1>14. CASE \E m \in DOMAIN node : RemoveDescendant(t, m)
  <2>1. PICK m \in DOMAIN node : RemoveDescendant(t, m)
    BY <1>14
  <2> QED
    BY <2>1, <1>2, RemoveDescendantDoes
<1>15. CASE Commit(t)
  BY <1>15, <1>2, CommitDoes
<1>16. CASE Abort(t)
  <2>1. tx'[t].pc = "done"
    BY <1>16, RollbackDoes, DoesParts DEF Abort
  <2> QED
    BY <2>1
<1> QED
  BY <1>3, <1>4, <1>5, <1>6, <1>7, <1>8, <1>9, <1>10, <1>11, <1>12,
     <1>13, <1>14, <1>15, <1>16 DEF Step

LEMMA LocksStep ==
    ASSUME TreeTxAssumption, TypeOK, AllStaged, Fresh, RootStays, PathsRooted, LocksHeld,
           NEW t \in Reqs, Step(t) \/ Abort(t)
    PROVE  LocksHeld'
<1>1. /\ \A u \in Reqs : tx'[u].n = tx[u].n /\ tx'[u].d = tx[u].d
      /\ \A u \in Reqs \ {t} : tx'[u] = tx[u] /\ dirty'[u] = dirty[u]
  BY Flow, StepShape
<1>2. \A u \in Reqs : tx[u].n \in DOMAIN node
  BY DEF AllStaged, Staged
<1>3. \A u \in Reqs : tx[u].pc = "locking" => tx[u].d \in DOMAIN node
  BY DEF AllStaged, Staged
<1>4. \A m \in DOMAIN node : Live(m)' => Live(m)
  BY TableStep DEF Live
<1>5. ASSUME NEW u \in Reqs \ {t} PROVE Held(u)'
  <2>1. Held(u) /\ u # Nobody
    BY DEF LocksHeld, TreeTxAssumption
  <2>2. \A m \in Ids : lock[m] = u => lock'[m] = u
    BY <2>1, StepShape
  <2>3. \A m \in DOMAIN dirty[u] : m \in Ids /\ m \in DOMAIN node
    BY DEF TypeOK
  <2>4. \A m \in DOMAIN dirty[u] : m \notin DOMAIN dirty[t]
    BY DEF LocksHeld, Held
  <2>5. \A m \in DOMAIN dirty[u] : node'[m] = node[m]
    BY <2>3, <2>4, TableStep
  <2>6. tx[u].n \in Ids /\ tx[u].d \in Ids
    BY RequestParts
  <2>7. ASSUME tx[u].pc = "locking", NEW m \in {tx[u].n, tx[u].d}, Live(m)'
        PROVE  m \in tx[u].todo \/ lock'[m] = u
    BY <1>2, <1>3, <1>4, <2>1, <2>2, <2>6, <2>7 DEF Held
  <2> QED
    BY <1>1, <2>1, <2>2, <2>3, <2>5, <2>6, <2>7 DEF Held
<1>6. Held(t)'
  <2>1. \A m \in DOMAIN dirty'[t] : lock'[m] = t /\ (node'[m].deleted => dirty'[t][m].deleted)
    <3>1. \A m \in DOMAIN dirty[t] : node[m].deleted => dirty[t][m].deleted
      BY DEF LocksHeld, Held
    <3>2. \A m : node[m].deleted => View(t, m).deleted
      BY <3>1 DEF View
    <3> QED
      BY <3>1, <3>2, RowsStep DEF Sound
  <2>2. tx'[t].pc \notin WriteStages => dirty'[t] = NoRows
    BY RowsStep
  <2>3. ASSUME tx'[t].pc = "locking", NEW m \in {tx[t].n, tx[t].d}, Live(m)'
        PROVE  m \in tx'[t].todo \/ lock'[m] = t
    <3>1. node' = node
      BY <2>3, MoveLocks
    <3>2. Live(m)
      BY <2>3, <3>1 DEF Live
    <3> QED
      BY <2>3, <3>2, MoveLocks
  <2>4. tx'[t].pc = "paths" => lock'[tx[t].n] = t
    BY MoveLocks
  <2> QED
    BY <1>1, <2>1, <2>2, <2>3, <2>4 DEF Held, WriteStages
<1> QED
  BY <1>5, <1>6 DEF LocksHeld
-----------------------------------------------------------------------------
(* A request that overlaps with no other *)

LEMMA SameTable ==
    ASSUME node' = node, NEW t \in Reqs, tx'[t].op = tx[t].op,
           tx'[t].n = tx[t].n, tx'[t].d = tx[t].d,
           Reached(t, tx'[t].pc, tx'[t].path, tx'[t].todo, dirty'[t])
    PROVE  Progress(t)'
<1>1. \A m : Live(m)' <=> Live(m)
  BY DEF Live
<1>2. \A m : childPath(m)' = childPath(m) /\ Marked(m)' = Marked(m)
  BY DEF childPath, Marked
<1>3. Subtree(t)' = Subtree(t)
  BY <1>2 DEF Subtree
<1>4. LiveBelow(t)' = LiveBelow(t)
  BY <1>1, <1>3 DEF LiveBelow
<1>5. Accepted(t)' <=> Accepted(t)
  BY <1>1, <1>2 DEF Accepted
<1>6. \A m : Carried(t, m)' = Carried(t, m)
  BY <1>2 DEF Carried
<1>7. Admitted(t, tx[t].path)' <=> Admitted(t, tx'[t].path)
  BY <1>1 DEF Admitted
<1> DEFINE carriedPaths == [m \in Subtree(t) \ tx'[t].todo |-> Carried(t, m)]
           carriedAll == [m \in Subtree(t) \cup {tx[t].n} |-> Carried(t, m)]
<1>8. /\ [m \in Subtree(t) \ tx[t].todo |-> Carried(t, m)]' = carriedPaths
      /\ [m \in Subtree(t) \cup {tx[t].n} |-> Carried(t, m)]' = carriedAll
  BY <1>3, <1>6
<1>9. /\ [m \in LiveBelow(t) \ tx[t].todo |-> Marked(m)]'
           = [m \in LiveBelow(t) \ tx'[t].todo |-> Marked(m)]
      /\ [m \in (LiveBelow(t) \cup {tx[t].n}) \ tx[t].todo |-> Marked(m)]'
           = [m \in (LiveBelow(t) \cup {tx[t].n}) \ tx'[t].todo |-> Marked(m)]
      /\ [m \in LiveBelow(t) \cup {tx[t].n} |-> Marked(m)]'
           = [m \in LiveBelow(t) \cup {tx[t].n} |-> Marked(m)]
  BY <1>2, <1>4
<1> QED
  BY <1>1, <1>2, <1>3, <1>4, <1>5, <1>7, <1>8, <1>9 DEF Progress, Reached, NoRows

(* A row is not below itself. *)
LEMMA NotBelowItself ==
    ASSUME TypeOK, AllStaged, NEW t \in Reqs
    PROVE  tx[t].n \in DOMAIN node /\ tx[t].n \notin Subtree(t)
<1>1. tx[t].n \in DOMAIN node
  BY DEF AllStaged, Staged
<1>2. /\ Len(childPath(tx[t].n)) = Len(node[tx[t].n].path) + 1
      /\ Len(node[tx[t].n].path) \in Nat
  BY <1>1, RowTyped, LenProperties
<1>3. ~Tree!StartsWith(node[tx[t].n].path, childPath(tx[t].n))
  BY <1>2 DEF Tree!StartsWith
<1> QED
  BY <1>1, <1>3 DEF Subtree

(* Each statement of an undisturbed request takes it one statement on. *)
LEMMA ProgressStep ==
    ASSUME TreeTxAssumption, TypeOK, AllStaged, LocksHeld, NEW t \in Reqs, Progress(t),
           Step(t) \/ Abort(t), tx'[t].pc # "done"
    PROVE  Progress(t)'
<1> DEFINE Goal == Reached(t, tx'[t].pc, tx'[t].path, tx'[t].todo, dirty'[t])
<1>1. /\ tx'[t].op = tx[t].op /\ tx'[t].n = tx[t].n /\ tx'[t].d = tx[t].d
      /\ Staged(t) /\ Held(t)
      /\ tx[t].n \in DOMAIN node /\ tx[t].n \notin Subtree(t)
      /\ tx[t].pc \notin WriteStages => dirty[t] = NoRows
      /\ LiveBelow(t) \subseteq Subtree(t) /\ Subtree(t) \subseteq DOMAIN node
  BY Flow, NotBelowItself DEF AllStaged, LocksHeld, Held, WriteStages, LiveBelow, Subtree
<1>2. node' = node
  <2>1. Commit(t) => tx'[t].pc = "done"
    BY CommitDoes, DoesParts
  <2>2. CreateInsert(t) => tx'[t].pc = "done"
    BY CreateInsertDoes, DoesParts
  <2> QED
    BY <2>1, <2>2, TableChanges
<1> SUFFICES Goal
  BY <1>1, <1>2, SameTable
<1>3. Reached(t, tx[t].pc, tx[t].path, tx[t].todo, dirty[t])
  BY DEF Progress
<1>4. \A m \in DOMAIN node : m \notin DOMAIN dirty[t] => View(t, m) = node[m]
  BY DEF View
<1>5. DOMAIN NoRows = {} /\ \A S, f : S = {} => [m \in S |-> f] = NoRows
  BY DEF NoRows
<1> HIDE DEF Goal
<1>6. CASE GuardRead(t)
  <2>1. \/ Live(tx[t].n) /\ Does(t, "ancestors", node[tx[t].n].path, tx[t].todo)
        \/ Does(t, "done", tx[t].path, tx[t].todo)
    BY <1>6, GuardReadDoes
  <2>2. Live(tx[t].n) /\ tx'[t].pc = "ancestors" /\ tx'[t].path = node[tx[t].n].path
    BY <2>1, DoesParts
  <2> QED
    BY <2>2 DEF Goal, Reached
<1>7. CASE GuardAncestors(t)
  <2>1. tx[t].pc = "ancestors" /\ tx[t].op \in {"move", "remove"}
    BY <1>7, <1>1, GuardAncestorsDoes DEF Staged
  <2>2. \/ /\ \A i \in DOMAIN tx[t].path : Live(tx[t].path[i])
           /\ Does(t, tx[t].op, tx[t].path, tx[t].todo)
        \/ Does(t, "done", tx[t].path, tx[t].todo)
    BY <1>7, GuardAncestorsDoes
  <2>3. /\ \A i \in DOMAIN tx[t].path : Live(tx[t].path[i])
        /\ tx'[t].pc = tx[t].op /\ tx'[t].path = tx[t].path
    BY <2>2, DoesParts
  <2>4. Admitted(t, tx[t].path)
    BY <1>3, <2>1, <2>3 DEF Reached, Admitted
  <2> QED
    BY <2>1, <2>3, <2>4 DEF Goal, Reached
<1>8. CASE MoveSelect(t)
  <2>1. PICK rows : rows = {m \in {tx[t].n, tx[t].d} : Live(m)}
    OBVIOUS
  <2>2. Does(t, "locking", tx[t].path, rows) /\ tx[t].pc = "move"
    BY <1>8, <2>1, MoveSelectDoes
  <2>3. tx'[t].pc = "locking" /\ tx'[t].path = tx[t].path
    BY <2>2, DoesParts
  <2>4. Admitted(t, tx[t].path)
    BY <1>3, <2>2 DEF Reached
  <2> QED
    BY <2>3, <2>4 DEF Goal, Reached
<1>9. CASE MoveCheck(t)
  <2>1. tx[t].pc = "locking" /\ tx[t].op = "move" /\ dirty[t] = NoRows
    BY <1>9, <1>1, MoveCheckDoes DEF Staged, WriteStages
  <2>2. Below(t) = Subtree(t)
    BY <1>4, <1>5, <2>1 DEF Below, Subtree
  <2>3. \/ Reads /\ Accepted(t) /\ Does(t, "paths", tx[t].path, Subtree(t))
        \/ Reads /\ Does(t, "commit", tx[t].path, tx[t].todo)
        \/ Does(t, "done", tx[t].path, {})
    BY <1>9, <2>2, MoveCheckDoes, RollbackDoes
  <2>4. Admitted(t, tx[t].path)
    BY <1>3, <2>1 DEF Reached
  <2>5. CASE Reads /\ Accepted(t) /\ Does(t, "paths", tx[t].path, Subtree(t))
    <3>1. tx'[t].pc = "paths" /\ tx'[t].path = tx[t].path /\ tx'[t].todo = Subtree(t)
      BY <2>5, DoesParts
    <3>2. dirty'[t] = NoRows
      BY <2>1, <2>5 DEF Reads
    <3>3. [m \in Subtree(t) \ Subtree(t) |-> Carried(t, m)] = NoRows
      BY DEF NoRows
    <3> QED
      BY <2>4, <2>5, <3>1, <3>2, <3>3 DEF Goal, Reached
  <2>6. CASE Reads /\ Does(t, "commit", tx[t].path, tx[t].todo)
    <3>1. tx'[t].pc = "commit" /\ tx'[t].path = tx[t].path
      BY <2>6, DoesParts
    <3>2. dirty'[t] = NoRows
      BY <2>1, <2>6 DEF Reads
    <3> QED
      BY <2>1, <2>4, <3>1, <3>2 DEF Goal, Reached
  <2>7. CASE Does(t, "done", tx[t].path, {})
    BY <2>7, DoesParts
  <2> QED
    BY <2>3, <2>5, <2>6, <2>7
<1>10. CASE MoveSelf(t)
  <2>1. PICK row : row = [View(t, tx[t].n) EXCEPT !.parentId = tx[t].d, !.path = childPath(tx[t].d)]
    OBVIOUS
  <2>2. /\ tx[t].pc = "paths" /\ tx[t].todo = {}
        /\ Does(t, "commit", tx[t].path, {}) /\ Writes(t, tx[t].n, row)
    BY <1>10, <2>1, MoveSelfDoes
  <2>3. /\ Admitted(t, tx[t].path) /\ Accepted(t) /\ tx[t].op = "move"
        /\ dirty[t] = [m \in Subtree(t) \ {} |-> Carried(t, m)]
    BY <1>1, <1>3, <2>2 DEF Reached, Staged
  <2>4. DOMAIN dirty[t] = Subtree(t) /\ \A m \in Subtree(t) : dirty[t][m] = Carried(t, m)
    BY <2>3
  <2>5. row = Carried(t, tx[t].n)
    <3>1. View(t, tx[t].n) = node[tx[t].n]
      BY <1>1, <1>4, <2>4
    <3>2. PICK v : v = node[tx[t].n]
      OBVIOUS
    <3>3. row = [v EXCEPT !.parentId = tx[t].d, !.path = childPath(tx[t].d)]
      BY <2>1, <3>1, <3>2
    <3>4. Carried(t, tx[t].n) = [v EXCEPT !.parentId = tx[t].d, !.path = childPath(tx[t].d)]
      BY <3>2 DEF Carried
    <3> QED
      BY <3>3, <3>4
  <2>6. dirty'[t] = [m \in Subtree(t) \cup {tx[t].n} |-> Carried(t, m)]
    <3>1. dirty'[t] = [x \in DOMAIN dirty[t] \cup {tx[t].n} |->
                         IF x = tx[t].n THEN row ELSE dirty[t][x]]
      BY <2>2 DEF Writes
    <3>2. \A x \in Subtree(t) \cup {tx[t].n} :
             (IF x = tx[t].n THEN row ELSE dirty[t][x]) = Carried(t, x)
      BY <2>4, <2>5
    <3> QED
      BY <2>4, <3>1, <3>2
  <2>7. tx'[t].pc = "commit" /\ tx'[t].path = tx[t].path
    BY <2>2, DoesParts
  <2> QED
    BY <2>3, <2>6, <2>7 DEF Goal, Reached
<1>11. CASE RemoveSelect(t)
  <2>1. PICK rows : rows = {m \in DOMAIN node : Doomed(t, m)}
    OBVIOUS
  <2>2. tx[t].pc = "remove" /\ dirty[t] = NoRows /\ Reads
        /\ Does(t, "marking", tx[t].path, rows)
    BY <1>11, <1>1, <2>1, RemoveSelectDoes DEF WriteStages
  <2>3. Admitted(t, tx[t].path)
    BY <1>3, <2>2 DEF Reached
  <2>4. rows = LiveBelow(t)
    <3>1. Append(tx[t].path, tx[t].n) = childPath(tx[t].n)
      BY <2>3 DEF Admitted, childPath
    <3> QED
      BY <1>4, <1>5, <2>1, <2>2, <3>1 DEF LiveBelow, Subtree, Doomed, Live
  <2>5. /\ tx'[t].pc = "marking" /\ tx'[t].path = tx[t].path /\ tx'[t].todo = rows
        /\ dirty'[t] = NoRows
    BY <2>2, DoesParts DEF Reads
  <2>6. [m \in LiveBelow(t) \ LiveBelow(t) |-> Marked(m)] = NoRows
    BY DEF NoRows
  <2> QED
    BY <2>3, <2>4, <2>5, <2>6 DEF Goal, Reached
<1>12. CASE RemoveSelf(t)
  <2>1. CASE /\ Reads /\ tx[t].pc = "marking" /\ tx[t].todo = {}
             /\ Does(t, "self", tx[t].path, {tx[t].n})
    <3>1. /\ Admitted(t, tx[t].path)
          /\ dirty[t] = [m \in LiveBelow(t) \ {} |-> Marked(m)]
      BY <1>3, <2>1 DEF Reached
    <3>2. /\ tx'[t].pc = "self" /\ tx'[t].path = tx[t].path /\ tx'[t].todo = {tx[t].n}
          /\ dirty'[t] = dirty[t]
      BY <2>1, DoesParts DEF Reads
    <3>3. LiveBelow(t) \ {} = (LiveBelow(t) \cup {tx[t].n}) \ {tx[t].n}
      BY <1>1
    <3>4. dirty[t] = [m \in (LiveBelow(t) \cup {tx[t].n}) \ {tx[t].n} |-> Marked(m)]
      BY <3>1, <3>3
    <3> QED
      BY <3>1, <3>2, <3>4 DEF Goal, Reached
  <2>2. CASE /\ Reads /\ tx[t].pc = "self" /\ tx[t].todo = {}
             /\ Does(t, "commit", tx[t].path, tx[t].todo)
    <3>1. /\ Admitted(t, tx[t].path) /\ tx[t].op = "remove"
          /\ dirty[t] = [m \in (LiveBelow(t) \cup {tx[t].n}) \ {} |-> Marked(m)]
      BY <1>1, <1>3, <2>2 DEF Reached, Staged
    <3>2. /\ tx'[t].pc = "commit" /\ tx'[t].path = tx[t].path
          /\ dirty'[t] = dirty[t]
      BY <2>2, DoesParts DEF Reads
    <3>3. dirty[t] = [m \in LiveBelow(t) \cup {tx[t].n} |-> Marked(m)]
      BY <3>1
    <3> QED
      BY <3>1, <3>2, <3>3 DEF Goal, Reached
  <2>3. CASE /\ tx[t].pc = "self" /\ tx[t].n \in tx[t].todo
             /\ Does(t, "self", tx[t].path, tx[t].todo \ {tx[t].n})
             /\ \/ /\ ~View(t, tx[t].n).deleted
                   /\ Writes(t, tx[t].n, [View(t, tx[t].n) EXCEPT !.deleted = TRUE])
                \/ View(t, tx[t].n).deleted /\ dirty' = dirty
    <3>1. /\ Admitted(t, tx[t].path) /\ tx[t].todo = {tx[t].n}
          /\ dirty[t] = [m \in (LiveBelow(t) \cup {tx[t].n}) \ tx[t].todo |-> Marked(m)]
      BY <1>3, <2>3 DEF Reached
    <3>2. /\ DOMAIN dirty[t] = LiveBelow(t)
          /\ \A m \in LiveBelow(t) : dirty[t][m] = Marked(m)
      BY <1>1, <3>1
    <3>3. View(t, tx[t].n) = node[tx[t].n]
      BY <1>1, <1>4, <3>2
    <3>4. ~View(t, tx[t].n).deleted
      BY <3>1, <3>3 DEF Admitted, Live
    <3>5. Writes(t, tx[t].n, Marked(tx[t].n))
      BY <2>3, <3>3, <3>4 DEF Marked
    <3>6. dirty'[t] = [m \in LiveBelow(t) \cup {tx[t].n} |-> Marked(m)]
      <4>1. PICK row : row = Marked(tx[t].n)
        OBVIOUS
      <4>2. dirty'[t] = [x \in DOMAIN dirty[t] \cup {tx[t].n} |->
                           IF x = tx[t].n THEN row ELSE dirty[t][x]]
        BY <3>5, <4>1 DEF Writes
      <4>3. \A x \in LiveBelow(t) \cup {tx[t].n} :
               (IF x = tx[t].n THEN row ELSE dirty[t][x]) = Marked(x)
        BY <3>2, <4>1
      <4> QED
        BY <3>2, <4>2, <4>3
    <3>7. /\ tx'[t].pc = "self" /\ tx'[t].path = tx[t].path
          /\ tx'[t].todo = tx[t].todo \ {tx[t].n}
      BY <2>3, DoesParts
    <3>8. tx'[t].todo = {} /\ (LiveBelow(t) \cup {tx[t].n}) \ {} = LiveBelow(t) \cup {tx[t].n}
      BY <3>1, <3>7
    <3> QED
      BY <3>1, <3>6, <3>7, <3>8 DEF Goal, Reached
  <2> QED
    BY <1>12, <2>1, <2>2, <2>3, RemoveSelfDoes
<1>13. CASE CreateReadParent(t)
  <2>1. \/ Live(tx[t].n) /\ Does(t, "insert", childPath(tx[t].n), tx[t].todo)
        \/ Does(t, "done", tx[t].path, tx[t].todo)
    BY <1>13, CreateReadParentDoes
  <2>2. Live(tx[t].n) /\ tx'[t].pc = "insert" /\ tx'[t].path = childPath(tx[t].n)
    BY <2>1, DoesParts
  <2> QED
    BY <2>2 DEF Goal, Reached
<1>14. CASE CreateInsert(t)
  BY <1>14, CreateInsertDoes, DoesParts
<1>15. CASE \E m \in DOMAIN node : MoveLock(t, m)
  <2>1. PICK m \in DOMAIN node : MoveLock(t, m)
    BY <1>15
  <2>2. tx[t].pc = "locking" /\ Does(t, "locking", tx[t].path, tx[t].todo \ {m})
    BY <2>1, MoveLockDoes
  <2>3. tx'[t].pc = "locking" /\ tx'[t].path = tx[t].path
    BY <2>2, DoesParts
  <2>4. Admitted(t, tx[t].path)
    BY <1>3, <2>2 DEF Reached
  <2> QED
    BY <2>3, <2>4 DEF Goal, Reached
<1>16. CASE \E m \in DOMAIN node : MoveDescendant(t, m)
  <2>1. PICK m \in DOMAIN node : MoveDescendant(t, m)
    BY <1>16
  <2>2. /\ tx[t].pc = "paths" /\ m \in tx[t].todo
        /\ Does(t, "paths", tx[t].path, tx[t].todo \ {m})
    BY <2>1, MoveDescendantDoes
  <2>3. /\ Admitted(t, tx[t].path) /\ tx[t].todo \subseteq Subtree(t)
        /\ dirty[t] = [x \in Subtree(t) \ tx[t].todo |-> Carried(t, x)]
    BY <1>3, <2>2 DEF Reached
  <2>4. /\ DOMAIN dirty[t] = Subtree(t) \ tx[t].todo
        /\ \A x \in Subtree(t) \ tx[t].todo : dirty[t][x] = Carried(t, x)
        /\ m \in Subtree(t) /\ m \in DOMAIN node /\ m # tx[t].n
    BY <1>1, <2>2, <2>3
  <2>5. View(t, m) = node[m]
    BY <1>4, <2>2, <2>4
  <2>6. Repathed(t, m) = Carried(t, m)
    BY <2>4, <2>5 DEF Repathed, Carried
  <2>7. Writes(t, m, Carried(t, m))
    <3>1. Tree!StartsWith(View(t, m).path, childPath(tx[t].n))
      BY <2>4, <2>5 DEF Subtree
    <3> QED
      BY <2>1, <2>6, <3>1, MoveDescendantDoes
  <2>8. dirty'[t] = [x \in Subtree(t) \ (tx[t].todo \ {m}) |-> Carried(t, x)]
    <3>1. PICK row : row = Carried(t, m)
      OBVIOUS
    <3>2. dirty'[t] = [x \in DOMAIN dirty[t] \cup {m} |-> IF x = m THEN row ELSE dirty[t][x]]
      BY <2>7, <3>1 DEF Writes
    <3>3. DOMAIN dirty[t] \cup {m} = Subtree(t) \ (tx[t].todo \ {m})
      BY <2>2, <2>4
    <3>4. \A x \in Subtree(t) \ (tx[t].todo \ {m}) :
             (IF x = m THEN row ELSE dirty[t][x]) = Carried(t, x)
      BY <2>4, <3>1
    <3> QED
      BY <3>2, <3>3, <3>4
  <2>9. /\ tx'[t].pc = "paths" /\ tx'[t].path = tx[t].path
        /\ tx'[t].todo = tx[t].todo \ {m} /\ tx[t].todo \ {m} \subseteq Subtree(t)
    BY <2>2, <2>3, DoesParts
  <2> QED
    BY <1>3, <2>2, <2>3, <2>8, <2>9 DEF Goal, Reached
<1>17. CASE \E m \in DOMAIN node : RemoveDescendant(t, m)
  <2>1. PICK m \in DOMAIN node : RemoveDescendant(t, m)
    BY <1>17
  <2>2. /\ tx[t].pc = "marking" /\ m \in tx[t].todo
        /\ Does(t, "marking", tx[t].path, tx[t].todo \ {m})
    BY <2>1, RemoveDescendantDoes
  <2>3. /\ Admitted(t, tx[t].path) /\ tx[t].todo \subseteq LiveBelow(t)
        /\ dirty[t] = [x \in LiveBelow(t) \ tx[t].todo |-> Marked(x)]
    BY <1>3, <2>2 DEF Reached
  <2>4. /\ DOMAIN dirty[t] = LiveBelow(t) \ tx[t].todo
        /\ \A x \in LiveBelow(t) \ tx[t].todo : dirty[t][x] = Marked(x)
        /\ m \in LiveBelow(t) /\ m \in DOMAIN node /\ m # tx[t].n
    BY <1>1, <2>2, <2>3
  <2>5. View(t, m) = node[m]
    BY <1>4, <2>2, <2>4
  <2>6. Doomed(t, m)
    <3>1. Append(tx[t].path, tx[t].n) = childPath(tx[t].n)
      BY <2>3 DEF Admitted, childPath
    <3> QED
      BY <2>4, <2>5, <3>1 DEF LiveBelow, Subtree, Doomed, Live
  <2>7. Writes(t, m, Marked(m))
    BY <2>1, <2>5, <2>6, RemoveDescendantDoes DEF Marked
  <2>8. dirty'[t] = [x \in LiveBelow(t) \ (tx[t].todo \ {m}) |-> Marked(x)]
    <3>1. PICK row : row = Marked(m)
      OBVIOUS
    <3>2. dirty'[t] = [x \in DOMAIN dirty[t] \cup {m} |-> IF x = m THEN row ELSE dirty[t][x]]
      BY <2>7, <3>1 DEF Writes
    <3>3. DOMAIN dirty[t] \cup {m} = LiveBelow(t) \ (tx[t].todo \ {m})
      BY <2>2, <2>4
    <3>4. \A x \in LiveBelow(t) \ (tx[t].todo \ {m}) :
             (IF x = m THEN row ELSE dirty[t][x]) = Marked(x)
      BY <2>4, <3>1
    <3> QED
      BY <3>2, <3>3, <3>4
  <2>9. /\ tx'[t].pc = "marking" /\ tx'[t].path = tx[t].path
        /\ tx'[t].todo = tx[t].todo \ {m} /\ tx[t].todo \ {m} \subseteq LiveBelow(t)
    BY <2>2, <2>3, DoesParts
  <2> QED
    BY <1>3, <2>2, <2>3, <2>8, <2>9 DEF Goal, Reached
<1>18. CASE Commit(t)
  BY <1>18, CommitDoes, DoesParts
<1>19. CASE Abort(t)
  BY <1>19, RollbackDoes, DoesParts DEF Abort
<1> QED
  BY <1>6, <1>7, <1>8, <1>9, <1>10, <1>11, <1>12, <1>13, <1>14, <1>15,
     <1>16, <1>17, <1>18, <1>19 DEF Step

LEMMA UndisturbedStep ==
    ASSUME TreeTxAssumption, TypeOK, AllStaged, LocksHeld, OnlyOne, Undisturbed,
           NEW t \in Reqs, Step(t) \/ Abort(t)
    PROVE  OnlyOne' /\ Undisturbed'
<1>1. /\ \A u \in Reqs : tx'[u].alone = tx[u].alone
      /\ \A u \in Reqs \ {t} : tx'[u] = tx[u]
      /\ t \in InFlight
  BY Flow, StepShape
<1>2. \A u \in Reqs : (u \in InFlight)' => u \in InFlight
  BY <1>1 DEF InFlight
<1>3. OnlyOne'
  BY <1>1, <1>2 DEF OnlyOne
<1>4. ASSUME NEW u \in Reqs, tx'[u].alone, (u \in InFlight)' PROVE Progress(u)'
  <2>1. u = t
    BY <1>1, <1>2, <1>4 DEF OnlyOne
  <2>2. Progress(t)
    BY <1>1, <1>4, <2>1 DEF Undisturbed
  <2>3. tx'[t].pc # "done"
    BY <1>4, <2>1 DEF InFlight
  <2> QED
    BY <2>1, <2>2, <2>3, ProgressStep
<1> QED
  BY <1>3, <1>4 DEF Undisturbed

(* An arrival takes the others' solitude from them, and has its own only   *)
(* if there are none.                                                      *)
LEMMA UndisturbedArrive ==
    ASSUME TreeTxAssumption, TypeOK, OnlyOne, NEW t \in Reqs, NEW op \in Ops,
           NEW n \in DOMAIN node, NEW d \in Ids, Arrive(t, op, n, d)
    PROVE  OnlyOne' /\ Undisturbed'
<1>1. /\ tx'[t].pc \in {"parent", "guard"} /\ tx'[t].alone = (InFlight = {})
      /\ \A u \in Reqs \ {t} : /\ tx'[u].pc = tx[u].pc
                               /\ tx'[u].alone = (tx[u].alone /\ u \notin InFlight)
  BY ArriveParts
<1>2. \A u \in Reqs \ {t} : (u \in InFlight)' <=> u \in InFlight
  BY <1>1 DEF InFlight
<1>3. ASSUME NEW u \in Reqs, tx'[u].alone, (u \in InFlight)'
      PROVE  u = t /\ InFlight = {}
  <2>1. u = t
    BY <1>1, <1>2, <1>3
  <2> QED
    BY <1>1, <1>3, <2>1
<1>4. OnlyOne'
  BY <1>2, <1>3 DEF OnlyOne
<1>5. Progress(t)'
  BY <1>1 DEF Progress, Reached
<1> QED
  BY <1>3, <1>4, <1>5 DEF Undisturbed

-----------------------------------------------------------------------------
(* The invariant *)

LEMMA StepInv ==
    ASSUME TreeTxAssumption, TreeInv, NEW t \in Reqs, Step(t) \/ Abort(t)
    PROVE  TreeInv'
<1> USE DEF TreeInv
<1>1. TypeOK'
  BY TypeStep
<1>2. AllStaged' /\ Fresh'
  BY StagedStep, FreshStep
<1>3. RootStays' /\ PathsRooted' /\ LocksHeld'
  BY RootStep, RootedStep, LocksStep
<1>4. OnlyOne' /\ Undisturbed'
  BY UndisturbedStep
<1> QED
  BY <1>1, <1>2, <1>3, <1>4

LEMMA ArriveInv ==
    ASSUME TreeTxAssumption, TreeInv, NEW t \in Reqs, NEW op \in Ops,
           NEW n \in DOMAIN node, NEW d \in Ids, Arrive(t, op, n, d)
    PROVE  TreeInv'
<1>1. TypeOK /\ AllStaged /\ Fresh /\ RootStays /\ PathsRooted /\ LocksHeld /\ OnlyOne
  BY DEF TreeInv
<1>2. node' = node /\ lock' = lock /\ dirty' = dirty /\ tx' \in [Reqs -> Request]
  BY <1>1, ArriveDoes DEF Reads
<1>3. TypeOK' /\ RootStays'
  BY <1>1, <1>2 DEF TypeOK, RootStays
<1>4. /\ tx[t].pc = "new" /\ tx'[t].pc \in {"parent", "guard"}
      /\ \A u \in Reqs \ {t} :
           /\ tx'[u].n = tx[u].n /\ tx'[u].d = tx[u].d /\ tx'[u].pc = tx[u].pc
           /\ tx'[u].todo = tx[u].todo /\ tx'[u].path = tx[u].path
  <2>1. tx[t].pc = "new"
    BY DEF Arrive
  <2> QED
    BY <1>1, <2>1, ArriveParts
<1>5. PathsRooted'
  <2>1. \A m \in DOMAIN node' \ {Root} : Rooted(node'[m].path)
    BY <1>1, <1>2 DEF PathsRooted
  <2>2. \A u \in Reqs : \A m \in DOMAIN dirty'[u] : Rooted(dirty'[u][m].path)
    BY <1>1, <1>2 DEF PathsRooted
  <2>3. ASSUME NEW u \in Reqs, tx'[u].pc = "insert" PROVE Rooted(tx'[u].path)
    BY <1>1, <1>4, <2>3 DEF PathsRooted
  <2> QED
    BY <2>1, <2>2, <2>3 DEF PathsRooted
<1>6. LocksHeld'
  <2>1. ASSUME NEW u \in Reqs \ {t} PROVE Held(u)'
    BY <1>1, <1>2, <1>4 DEF LocksHeld, Held, Live
  <2>2. Held(t)'
    <3>1. dirty[t] = NoRows
      BY <1>1, <1>4 DEF LocksHeld, Held
    <3> QED
      BY <1>2, <1>4, <3>1 DEF Held, NoRows
  <2> QED
    BY <2>1, <2>2 DEF LocksHeld
<1>7. AllStaged' /\ Fresh'
  BY <1>1, StagedArrive, FreshArrive
<1>8. OnlyOne' /\ Undisturbed'
  BY <1>1, UndisturbedArrive
<1> QED
  BY <1>3, <1>5, <1>6, <1>7, <1>8 DEF TreeInv

LEMMA NextInv ==
    ASSUME TreeTxAssumption, TreeInv, [Next]_vars
    PROVE  TreeInv'
<1>1. CASE \E t \in Reqs : \E op \in Ops, n \in DOMAIN node, d \in Ids : Arrive(t, op, n, d)
  BY <1>1, ArriveInv
<1>2. CASE \E t \in Reqs : Step(t) \/ Abort(t)
  BY <1>2, StepInv
<1>3. CASE UNCHANGED vars
  <2>1. node' = node /\ lock' = lock /\ dirty' = dirty /\ tx' = tx
    BY <1>3 DEF vars
  <2>2. TypeOK' /\ RootStays' /\ PathsRooted'
    BY <2>1 DEF TreeInv, TypeOK, RootStays, PathsRooted
  <2>3. AllStaged' /\ Fresh' /\ LocksHeld'
    BY <2>1 DEF TreeInv, AllStaged, Staged, Fresh, LocksHeld, Held, Live
  <2>4. OnlyOne'
    BY <2>1 DEF TreeInv, OnlyOne, InFlight
  <2>5. Undisturbed'
    <3> SUFFICES ASSUME NEW t \in Reqs, tx'[t].alone, (t \in InFlight)' PROVE Progress(t)'
      BY DEF Undisturbed
    <3>1. tx[t].alone /\ t \in InFlight
      BY <2>1 DEF InFlight
    <3>2. Reached(t, tx[t].pc, tx[t].path, tx[t].todo, dirty[t])
      BY <3>1 DEF TreeInv, Undisturbed, Progress
    <3>3. Reached(t, tx'[t].pc, tx'[t].path, tx'[t].todo, dirty'[t])
      BY <2>1, <3>2
    <3> QED
      BY <2>1, <3>3, SameTable
  <2> QED
    BY <2>2, <2>3, <2>4, <2>5 DEF TreeInv
<1> QED
  BY <1>1, <1>2, <1>3 DEF Next

(* Every interleaving keeps the invariant. *)
THEOREM InvCorrect == Spec => []TreeInv
<1>1. Init => TreeInv
  BY InitInv, TreeTxAssumption
<1>2. TreeInv /\ [Next]_vars => TreeInv'
  BY NextInv, TreeTxAssumption
<1> QED
  BY <1>1, <1>2, PTL DEF Spec

(* No interleaving of moves, creations and deletions takes a row out of    *)
(* its room: every path begins at the room's root.                         *)
THEOREM PathsCorrect == Spec => []PathsStayInRoom
<1>1. TreeInv => PathsStayInRoom
  BY DEF TreeInv, PathsRooted, Rooted, PathsStayInRoom
<1> QED
  BY <1>1, InvCorrect, PTL

(* No request brings a tombstone back to life, whatever it read before the *)
(* row was deleted.                                                        *)
THEOREM TombstonesCorrect == Spec => TombstonesStay
<1>1. TreeInv /\ [Next]_vars => [\A n \in DOMAIN node : node[n].deleted => node'[n].deleted]_vars
  <2> SUFFICES ASSUME TreeInv, Next
               PROVE  \A n \in DOMAIN node : node[n].deleted => node'[n].deleted
    OBVIOUS
  <2>1. /\ TypeOK /\ AllStaged /\ Fresh /\ RootStays /\ PathsRooted /\ LocksHeld
    BY DEF TreeInv
  <2>2. CASE \E t \in Reqs : \E op \in Ops, n \in DOMAIN node, d \in Ids : Arrive(t, op, n, d)
    BY <2>1, <2>2, ArriveDoes, TreeTxAssumption DEF Reads
  <2>3. CASE \E t \in Reqs : Step(t) \/ Abort(t)
    BY <2>1, <2>3, TableStep, TreeTxAssumption
  <2> QED
    BY <2>2, <2>3 DEF Next
<1> QED
  BY <1>1, InvCorrect, PTL DEF Spec, TombstonesStay
-----------------------------------------------------------------------------
(* A request alone does what its handler in RoomTree does *)

(* The committed rows as the rows of RoomTree. *)
LEMMA TreeView ==
    ASSUME TreeTxAssumption, TypeOK, RootStays, PathsRooted
    PROVE  /\ \A n \in DOMAIN node : (Tree!Live(n) <=> Live(n)) /\ Tree!childPath(n) = childPath(n)
           /\ \A n \in DOMAIN node :
                 Tree!Beneath(n) = {m \in DOMAIN node : Tree!StartsWith(node[m].path, childPath(n))}
           /\ Tree!withinScope(Root) = DOMAIN node
           /\ Tree!Admits(Root)
           /\ \A n \in DOMAIN node : Live(n) /\ (\A i \in DOMAIN node[n].path : Live(node[n].path[i]))
                                        => Tree!Admits(n)
<1>1. \A n \in DOMAIN node : (Tree!Live(n) <=> Live(n)) /\ Tree!childPath(n) = childPath(n)
  BY DEF Tree!Live, Live, Tree!childPath, childPath
<1>2. \A n \in DOMAIN node :
         Tree!Beneath(n) = {m \in DOMAIN node : Tree!StartsWith(node[m].path, childPath(n))}
  BY <1>1 DEF Tree!Beneath
<1>3. Root \in DOMAIN node /\ node[Root].path = << >> /\ Live(Root)
  BY DEF RootStays, Live
<1>4. Tree!withinScope(Root) = DOMAIN node
  <2>1. childPath(Root) = << Root >>
    BY <1>3 DEF childPath
  <2>2. ASSUME NEW m \in DOMAIN node, m # Root
        PROVE  Tree!StartsWith(node[m].path, childPath(Root))
    <3>1. node[m].path \in Seq(Ids) /\ node[m].path # << >> /\ node[m].path[1] = Root
      BY <2>2, RowTyped DEF PathsRooted, Rooted
    <3>2. Len(node[m].path) \in Nat /\ Len(node[m].path) > 0
      BY <3>1, LenProperties, EmptySeq
    <3>3. Len(childPath(Root)) = 1 /\ childPath(Root)[1] = Root
      BY <2>1
    <3> QED
      BY <3>1, <3>2, <3>3 DEF Tree!StartsWith
  <2> QED
    BY <1>2, <1>3, <2>2 DEF Tree!withinScope
<1>5. ASSUME NEW n \in DOMAIN node, Live(n), \A i \in DOMAIN node[n].path : Live(node[n].path[i])
      PROVE  Tree!Admits(n)
  <2>1. Tree!ancestorIds(n) = {node[n].path[i] : i \in DOMAIN node[n].path}
    BY DEF Tree!ancestorIds
  <2>2. \A a \in Tree!ancestorIds(n) : Live(a)
    BY <1>5, <2>1
  <2> QED
    BY <1>1, <1>5, <2>2 DEF Tree!Admits
<1>6. Tree!Admits(Root)
  BY <1>3, <1>5
<1> QED
  BY <1>1, <1>2, <1>4, <1>5, <1>6

LEMMA SerialCreate ==
    ASSUME TreeTxAssumption, TypeOK, AllStaged, Fresh, RootStays, PathsRooted,
           NEW t \in Reqs, Progress(t), CreateInsert(t)
    PROVE  Tree!CreateFolder(Root, tx[t].n, tx[t].d, tx[t].d)
<1> DEFINE n == tx[t].n
           d == tx[t].d
<1>1. /\ tx[t].pc = "insert" /\ n \in DOMAIN node
      /\ node' = [m \in DOMAIN node \cup {d} |->
                    IF m = d THEN [parentId |-> n, path |-> tx[t].path, deleted |-> FALSE]
                    ELSE node[m]]
  BY CreateInsertDoes DEF AllStaged, Staged
<1>2. d \notin DOMAIN node /\ Live(n) /\ tx[t].path = childPath(n)
  BY <1>1 DEF Fresh, Progress, Reached
<1> HIDE DEF n, d
<1>3. /\ Tree!Admits(Root) /\ Tree!Live(n) /\ Tree!childPath(n) = childPath(n)
  BY <1>1, <1>2, TreeView
<1>4. Tree!NameFree(n, d, d)
  BY <1>1 DEF Tree!NameFree
<1>5. Tree!Insert(d, [roomId |-> Root, parentId |-> n, type |-> "FOLDER",
                      name |-> d, path |-> Tree!childPath(n),
                      status |-> "ACTIVE", deleted |-> FALSE])
  BY <1>1, <1>2, <1>3 DEF Tree!Insert
<1>6. Tree!AddChild(Root, n, d, d, "FOLDER", "ACTIVE")
  BY <1>1, <1>2, <1>3, <1>4, <1>5 DEF Tree!AddChild
<1> QED
  BY <1>6 DEF Tree!CreateFolder, n, d

LEMMA SerialRemove ==
    ASSUME TreeTxAssumption, TypeOK, AllStaged, RootStays, PathsRooted,
           NEW t \in Reqs, Progress(t), Commit(t), tx[t].op = "remove"
    PROVE  Tree!Remove(tx[t].n)
<1> DEFINE n == tx[t].n
           doomed == LiveBelow(t) \cup {n}
<1>1. /\ tx[t].pc = "commit" /\ n \in DOMAIN node /\ n # Root
      /\ node' = [m \in DOMAIN node |-> View(t, m)]
  BY CommitDoes DEF AllStaged, Staged
<1>2. Admitted(t, tx[t].path) /\ dirty[t] = [m \in doomed |-> Marked(m)]
  BY <1>1 DEF Progress, Reached
<1>3. Tree!Admits(n)
  BY <1>1, <1>2, TreeView DEF Admitted
<1>4. Subtree(t) = Tree!Beneath(n) /\ Tree!withinScope(Root) = DOMAIN node
  BY <1>1, TreeView DEF Subtree
<1>5. Tree!Doomed(n) = Subtree(t) \cup {n}
  BY <1>1, <1>4 DEF Tree!Doomed, Subtree
<1>6. \A m \in DOMAIN node : View(t, m) = IF m \in doomed THEN Marked(m) ELSE node[m]
  BY <1>2 DEF View
<1>7. ASSUME NEW m \in DOMAIN node
      PROVE  /\ View(t, m).parentId = node[m].parentId /\ View(t, m).path = node[m].path
             /\ View(t, m).deleted = (IF m \in Tree!Doomed(n) THEN TRUE ELSE node[m].deleted)
  <2>1. PICK v : v = node[m]
    OBVIOUS
  <2>2. v \in Row /\ v.deleted \in BOOLEAN
    BY <2>1, RowTyped
  <2>3. Marked(m) = [v EXCEPT !.deleted = TRUE]
    BY <2>1 DEF Marked
  <2>4. /\ Marked(m).parentId = v.parentId /\ Marked(m).path = v.path /\ Marked(m).deleted = TRUE
    BY <2>2, <2>3 DEF Row
  <2>5. m \in Tree!Doomed(n) /\ m \notin doomed => v.deleted = TRUE
    BY <1>5, <2>1, <2>2 DEF LiveBelow, Live
  <2>6. m \in doomed => m \in Tree!Doomed(n)
    BY <1>5 DEF LiveBelow
  <2> QED
    BY <1>6, <2>1, <2>4, <2>5, <2>6
<1> HIDE DEF n, doomed
<1> QED
  BY <1>1, <1>3, <1>7 DEF Tree!Remove, n

LEMMA SerialMove ==
    ASSUME TreeTxAssumption, TypeOK, AllStaged, RootStays, PathsRooted,
           NEW t \in Reqs, Progress(t), Commit(t), tx[t].op = "move", node' # node
    PROVE  Tree!Move(tx[t].n, tx[t].d)
<1> DEFINE n == tx[t].n
           d == tx[t].d
           moved == Subtree(t) \cup {n}
<1>1. /\ tx[t].pc = "commit" /\ n \in DOMAIN node /\ n # Root /\ d \in DOMAIN node
      /\ node' = [m \in DOMAIN node |-> View(t, m)]
  BY CommitDoes DEF AllStaged, Staged
<1>2. dirty[t] # NoRows
  <2>1. dirty[t] = NoRows => \A m \in DOMAIN node : View(t, m) = node[m]
    BY DEF View, NoRows
  <2>2. node = [m \in DOMAIN node |-> node[m]]
    BY DEF TypeOK
  <2> QED
    BY <1>1, <2>1, <2>2
<1>3. /\ Admitted(t, tx[t].path) /\ Accepted(t)
      /\ dirty[t] = [m \in moved |-> Carried(t, m)]
  BY <1>1, <1>2 DEF Progress, Reached
<1>4. Tree!Admits(n)
  BY <1>1, <1>3, TreeView DEF Admitted
<1>5. /\ Subtree(t) = Tree!Beneath(n) /\ Tree!withinScope(Root) = DOMAIN node
      /\ Tree!childPath(n) = childPath(n) /\ Tree!childPath(d) = childPath(d)
      /\ Tree!Live(d)
  BY <1>1, <1>3, TreeView DEF Subtree, Accepted
<1>6. \A m \in DOMAIN node : View(t, m) = IF m \in moved THEN Carried(t, m) ELSE node[m]
  BY <1>3 DEF View
<1>7. Tree!NameFree(d, n, n)
  BY DEF Tree!NameFree
<1> DEFINE carry(m) == Append(childPath(d), n)
                         \o SubSeq(node[m].path, Len(childPath(n)) + 1, Len(node[m].path))
<1>8. ASSUME NEW m \in DOMAIN node
      PROVE  /\ View(t, m).parentId = (IF m = n THEN d ELSE node[m].parentId)
             /\ View(t, m).path = (IF m = n THEN childPath(d)
                                   ELSE IF m \in Tree!Beneath(n) THEN carry(m)
                                   ELSE node[m].path)
             /\ View(t, m).deleted = node[m].deleted
  <2>1. PICK v : v = node[m]
    OBVIOUS
  <2>2. v = [parentId |-> v.parentId, path |-> v.path, deleted |-> v.deleted]
    BY <2>1, RowTyped DEF Row
  <2>3. CASE m = n
    <3>1. View(t, m) = [v EXCEPT !.parentId = d, !.path = childPath(d)]
      BY <1>6, <2>1, <2>3 DEF Carried
    <3> HIDE DEF d
    <3> QED
      BY <2>1, <2>2, <2>3, <3>1
  <2>4. CASE m # n /\ m \in Subtree(t)
    <3>1. PICK p : p = carry(m)
      OBVIOUS
    <3>2. View(t, m) = [v EXCEPT !.path = p]
      BY <1>6, <2>1, <2>4, <3>1 DEF Carried
    <3> QED
      BY <1>5, <2>1, <2>2, <2>4, <3>1, <3>2
  <2>5. CASE m # n /\ m \notin Subtree(t)
    BY <1>5, <1>6, <2>5
  <2> QED
    BY <2>3, <2>4, <2>5
<1>9. Tree!Repath(n, childPath(n), Append(childPath(d), n)) = carry(n)
      /\ \A m \in DOMAIN node :
           Tree!Repath(m, Tree!childPath(n), Append(Tree!childPath(d), n)) = carry(m)
  BY <1>1, <1>5 DEF Tree!Repath
<1>10. d # n /\ node[n].parentId # d /\ ~Tree!StartsWith(node[d].path, childPath(n))
  BY <1>3 DEF Accepted
<1> DEFINE newNode == [m \in DOMAIN node' |->
                         [roomId |-> Root, parentId |-> node'[m].parentId,
                          type |-> "FOLDER", name |-> m, path |-> node'[m].path,
                          status |-> "ACTIVE", deleted |-> node'[m].deleted]]
<1> HIDE DEF n, d, moved, carry
<1>11. Tree!Moved(n, d) = newNode
  <2> DEFINE shown(m, up, p) == [roomId |-> Root, parentId |-> up, type |-> "FOLDER",
                                 name |-> m, path |-> p, status |-> "ACTIVE",
                                 deleted |-> node[m].deleted]
             row(m) == shown(m, node[m].parentId, node[m].path)
             new(m) == IF m = n THEN [row(m) EXCEPT !.parentId = d, !.path = childPath(d)]
                       ELSE IF m \in Tree!Beneath(n) THEN [row(m) EXCEPT !.path = carry(m)]
                       ELSE row(m)
  <2>1. DOMAIN node' = DOMAIN node /\ \A m \in DOMAIN node : node'[m] = View(t, m)
    BY <1>1
  <2>2. Tree!Moved(n, d) = [m \in DOMAIN node |-> new(m)]
    <3>1. \A m \in DOMAIN node :
             m \in Tree!Beneath(n) \cap Tree!withinScope(Root) <=> m \in Tree!Beneath(n)
      BY <1>5
    <3> DEFINE T == [m \in DOMAIN node |-> row(m)]
    <3>2. Tree!Moved(n, d) =
             [m \in DOMAIN T |->
                IF m = n
                THEN [T[m] EXCEPT !.parentId = d, !.path = Tree!childPath(d)]
                ELSE IF m \in Tree!Beneath(n) \cap Tree!withinScope(T[n].roomId)
                THEN [T[m] EXCEPT !.path = Tree!Repath(m, Tree!childPath(n),
                                                       Append(Tree!childPath(d), n))]
                ELSE T[m]]
      BY DEF Tree!Moved
    <3>3. T[n].roomId = Root /\ DOMAIN T = DOMAIN node /\ \A m \in DOMAIN node : T[m] = row(m)
      BY <1>1
    <3> HIDE DEF T, row, new
    <3>4. ASSUME NEW m \in DOMAIN node
          PROVE  new(m) = IF m = n
                          THEN [T[m] EXCEPT !.parentId = d, !.path = Tree!childPath(d)]
                          ELSE IF m \in Tree!Beneath(n) \cap Tree!withinScope(T[n].roomId)
                          THEN [T[m] EXCEPT !.path = Tree!Repath(m, Tree!childPath(n),
                                                       Append(Tree!childPath(d), n))]
                          ELSE T[m]
      BY <1>5, <1>9, <3>1, <3>3 DEF new
    <3> QED
      BY <3>2, <3>3, <3>4
  <2>3. ASSUME NEW m \in DOMAIN node
        PROVE  new(m) = shown(m, View(t, m).parentId, View(t, m).path)
    BY <1>8
  <2>4. newNode = [m \in DOMAIN node |-> shown(m, View(t, m).parentId, View(t, m).path)]
    BY <1>8, <2>1
  <2> HIDE DEF new, newNode, shown
  <2> QED
    BY <2>2, <2>3, <2>4
<1> QED
  BY <1>1, <1>4, <1>5, <1>7, <1>10, <1>11 DEF Tree!Move, n, d

(* A request that no other overlaps changes the table as its handler in    *)
(* RoomTree does, whatever statements it is made of.                       *)
THEOREM SerialCorrect == Spec => SerialCommitsAreHandlers
<1> DEFINE Whole == \A t \in Reqs :
                       tx[t].pc # "done" /\ tx'[t].pc = "done" /\ tx[t].alone => Handler(t)
<1>1. TreeInv /\ [Next]_vars => [Whole]_node
  <2> SUFFICES ASSUME TreeInv, Next, node' # node, NEW t \in Reqs,
                      tx[t].pc # "done", tx'[t].pc = "done", tx[t].alone
               PROVE  Handler(t)
    BY DEF vars
  <2>1. /\ TypeOK /\ AllStaged /\ Fresh /\ RootStays /\ PathsRooted /\ LocksHeld /\ Undisturbed
    BY DEF TreeInv
  <2>2. PICK u \in Reqs : Step(u) \/ Abort(u)
    <3>1. \A u \in Reqs, op \in Ops, n \in DOMAIN node, d \in Ids :
             Arrive(u, op, n, d) => node' = node
      BY DEF Arrive
    <3> QED
      BY <3>1 DEF Next
  <2>3. u = t
    BY <2>1, <2>2, StepShape, DoesParts
  <2>4. t \in InFlight
    BY <2>1, <2>2, <2>3, StepShape
  <2>5. Progress(t)
    BY <2>1, <2>4 DEF Undisturbed
  <2>6. Commit(t) \/ CreateInsert(t)
    BY <2>1, <2>2, <2>3, TableChanges
  <2>7. CASE CreateInsert(t)
    <3>1. tx[t].op = "create"
      BY <2>1, <2>7, CreateInsertDoes DEF AllStaged, Staged
    <3> QED
      BY <2>1, <2>5, <2>7, <3>1, SerialCreate, TreeTxAssumption DEF Handler
  <2>8. CASE Commit(t)
    <3>1. tx[t].op \in {"move", "remove"}
      BY <2>1, <2>8, CommitDoes DEF AllStaged, Staged
    <3>2. CASE tx[t].op = "move"
      BY <2>1, <2>5, <2>8, <3>2, SerialMove, TreeTxAssumption DEF Handler
    <3>3. CASE tx[t].op = "remove"
      BY <2>1, <2>5, <2>8, <3>3, SerialRemove, TreeTxAssumption DEF Handler
    <3> QED
      BY <3>1, <3>2, <3>3
  <2> QED
    BY <2>6, <2>7, <2>8
<1> QED
  BY <1>1, InvCorrect, PTL DEF Spec, SerialCommitsAreHandlers
-----------------------------------------------------------------------------
(* Paths and cycles *)

(* Every row but the root hangs below a row of the table. *)
Attached == \A m \in DOMAIN node \ {Root} : node[m].parentId \in DOMAIN node

(* Paths, seen row by row: each is the parent's, followed by the parent. *)
PathsFollowParents ==
    \A m \in DOMAIN node \ {Root} :
        /\ node[m].parentId \in DOMAIN node
        /\ node[m].path = childPath(node[m].parentId)

(* A set of rows without the root that keeps to itself: a cycle. *)
Loop(S) ==
    /\ S # {}
    /\ \A m \in S : m \in DOMAIN node \ {Root} /\ node[m].parentId \in S

NoLoop == \A S : ~Loop(S)

LEMMA Prefix ==
    ASSUME NEW p \in Seq(Ids), NEW k \in 0..Len(p)
    PROVE  /\ SubSeq(p, 1, k) \in Seq(Ids)
           /\ Len(SubSeq(p, 1, k)) = k
           /\ \A i \in 1..k : SubSeq(p, 1, k)[i] = p[i]
<1>1. Len(p) \in Nat /\ k \in Nat /\ \A i \in 1..k : p[i] \in Ids
  BY LenProperties, ElementOfSeq
<1>2. k - 1 + 1 = k
  BY <1>1
<1> QED
  BY <1>1, <1>2, SubSeqProperties

(* A path that is not empty is what precedes its last element, followed by *)
(* that element.                                                           *)
LEMMA LastOff ==
    ASSUME NEW p \in Seq(Ids), p # << >>
    PROVE  /\ Len(p) \in Nat /\ Len(p) > 0
           /\ p[Len(p)] \in Ids
           /\ p = Append(SubSeq(p, 1, Len(p) - 1), p[Len(p)])
<1>1. Len(p) \in Nat /\ Len(p) > 0
  BY EmptySeq, LenProperties
<1>2. p[Len(p)] \in Ids
  BY <1>1, ElementOfSeq
<1>3. PICK q : q = SubSeq(p, 1, Len(p) - 1)
  OBVIOUS
<1>4. q \in Seq(Ids) /\ Len(q) = Len(p) - 1 /\ \A i \in 1..(Len(p) - 1) : q[i] = p[i]
  <2>1. Len(p) - 1 \in 0..Len(p)
    BY <1>1
  <2> QED
    BY <2>1, <1>3, Prefix
<1>5. /\ Append(q, p[Len(p)]) \in Seq(Ids)
      /\ Len(Append(q, p[Len(p)])) = Len(p)
      /\ \A i \in 1..Len(p) : Append(q, p[Len(p)])[i] = p[i]
  BY <1>1, <1>2, <1>4, AppendProperties
<1>6. Append(q, p[Len(p)]) = p
  BY <1>5, SeqEqual
<1> QED
  BY <1>1, <1>2, <1>3, <1>6

(* The paths name the ancestors exactly if each names the parent after the *)
(* parent's own ancestors.                                                 *)
LEMMA PathsByParent ==
    ASSUME TreeTxAssumption, TypeOK, RootStays, Attached
    PROVE  PathsAreAncestry <=> PathsFollowParents
<1> DEFINE T == [n \in DOMAIN node |->
                   [roomId |-> Root, parentId |-> node[n].parentId,
                    type |-> "FOLDER", name |-> n, path |-> node[n].path,
                    status |-> "ACTIVE", deleted |-> node[n].deleted]]
           Right(n) == LET p == node[n].path IN
                       /\ p # << >>
                       /\ p[Len(p)] = node[n].parentId
                       /\ \A i \in 1..Len(p) :
                            /\ p[i] \in DOMAIN node
                            /\ node[p[i]].path = SubSeq(p, 1, i - 1)
<1>1. /\ Root \in DOMAIN node /\ node[Root].parentId = Nobody /\ node[Root].path = << >>
      /\ Nobody \notin Ids /\ DOMAIN node \subseteq Ids
  BY DEF RootStays, TypeOK, TreeTxAssumption
<1>2. PathsAreAncestry <=> \A n \in DOMAIN node \ {Root} : Right(n)
  <2>1. DOMAIN T = DOMAIN node
        /\ \A n \in DOMAIN node : T[n].parentId = node[n].parentId /\ T[n].path = node[n].path
    OBVIOUS
  <2>2. \A n \in DOMAIN node : Tree!PathIsAncestry(n) <=>
           LET p == T[n].path IN
           IF T[n].parentId = Nobody THEN p = << >>
           ELSE /\ p # << >>
                /\ p[Len(p)] = T[n].parentId
                /\ \A i \in 1..Len(p) : p[i] \in DOMAIN T /\ T[p[i]].path = SubSeq(p, 1, i - 1)
    BY DEF Tree!PathIsAncestry, Tree!ROOT_PATH
  <2>3. PathsAreAncestry <=> \A n \in DOMAIN T : Tree!PathIsAncestry(n)
    BY DEF PathsAreAncestry, Tree!PathsAreAncestry
  <2> HIDE DEF T
  <2>4. ASSUME NEW n \in DOMAIN node \ {Root} PROVE Tree!PathIsAncestry(n) <=> Right(n)
    <3>1. node[n].parentId # Nobody
      BY <1>1 DEF Attached
    <3>2. PICK p : p = node[n].path
      OBVIOUS
    <3>3. T[n].path = p /\ T[n].parentId = node[n].parentId
      BY <2>1, <3>2
    <3>4. \A x : x \in DOMAIN T => T[x].path = node[x].path
      BY <2>1
    <3>5. Right(n) <=> /\ p # << >>
                       /\ p[Len(p)] = node[n].parentId
                       /\ \A i \in 1..Len(p) :
                            /\ p[i] \in DOMAIN node
                            /\ node[p[i]].path = SubSeq(p, 1, i - 1)
      BY <3>2
    <3>6. Tree!PathIsAncestry(n) <=>
            /\ p # << >>
            /\ p[Len(p)] = node[n].parentId
            /\ \A i \in 1..Len(p) : p[i] \in DOMAIN T /\ T[p[i]].path = SubSeq(p, 1, i - 1)
      BY <2>2, <3>1, <3>3
    <3> HIDE DEF Right
    <3> QED
      BY <2>1, <3>4, <3>5, <3>6
  <2>5. Tree!PathIsAncestry(Root)
    BY <1>1, <2>1, <2>2
  <2> HIDE DEF Right
  <2> QED
    BY <1>1, <2>1, <2>3, <2>4, <2>5
<1>3. ASSUME \A n \in DOMAIN node \ {Root} : Right(n), NEW m \in DOMAIN node \ {Root}
      PROVE  node[m].parentId \in DOMAIN node /\ node[m].path = childPath(node[m].parentId)
  <2>1. PICK p : p = node[m].path
    OBVIOUS
  <2>2. p \in Seq(Ids) /\ p # << >>
    BY <1>3, <2>1, RowTyped
  <2>3. /\ Len(p) \in Nat /\ Len(p) > 0
        /\ p = Append(SubSeq(p, 1, Len(p) - 1), p[Len(p)])
    BY <2>2, LastOff
  <2>4. /\ p[Len(p)] = node[m].parentId
        /\ node[p[Len(p)]].path = SubSeq(p, 1, Len(p) - 1)
    BY <1>3, <2>1, <2>3
  <2>5. node[m].parentId \in DOMAIN node
    BY DEF Attached
  <2> QED
    BY <2>1, <2>3, <2>4, <2>5 DEF childPath
<1>4. ASSUME PathsFollowParents, NEW m \in DOMAIN node \ {Root} PROVE Right(m)
  <2> DEFINE Wrong == {k \in Nat : \E n \in DOMAIN node \ {Root} :
                                     Len(node[n].path) = k /\ ~Right(n)}
  <2>1. SUFFICES ASSUME Wrong # {} PROVE FALSE
    BY RowTyped, LenProperties
  <2>2. PICK k \in Wrong : \A j \in Wrong : k <= j
    <3>1. Wrong \subseteq Nat
      OBVIOUS
    <3> HIDE DEF Wrong
    <3> QED
      BY <2>1, <3>1, Smallest
  <2>3. PICK n \in DOMAIN node \ {Root} : Len(node[n].path) = k /\ ~Right(n)
    BY <2>2
  <2>4. PICK up : up = node[n].parentId
    OBVIOUS
  <2>5. up \in DOMAIN node /\ node[n].path = childPath(up)
    BY <1>4, <2>3, <2>4 DEF PathsFollowParents
  <2>6. PICK p, q : p = node[n].path /\ q = node[up].path
    OBVIOUS
  <2>7. /\ p \in Seq(Ids) /\ q \in Seq(Ids) /\ Len(p) = Len(q) + 1 /\ p[Len(q) + 1] = up
        /\ \A i \in 1..Len(q) : p[i] = q[i]
        /\ Len(q) \in Nat
    BY <2>5, <2>6, RowTyped, LenProperties
  <2>8. SubSeq(p, 1, Len(q)) = q
    <3>1. /\ SubSeq(p, 1, Len(q)) \in Seq(Ids) /\ Len(SubSeq(p, 1, Len(q))) = Len(q)
          /\ \A i \in 1..Len(q) : SubSeq(p, 1, Len(q))[i] = q[i]
      BY <2>7, Prefix
    <3> QED
      BY <2>7, <3>1, SeqEqual
  <2>9. \A i \in 1..Len(q) : q[i] \in DOMAIN node /\ node[q[i]].path = SubSeq(q, 1, i - 1)
    <3>1. CASE up = Root
      BY <1>1, <2>6, <3>1, <2>7
    <3>2. CASE up # Root
      <4>1. Len(q) \notin Wrong
        BY <2>2, <2>3, <2>6, <2>7
      <4>2. Right(up)
        BY <2>5, <2>6, <2>7, <3>2, <4>1
      <4> QED
        BY <2>6, <4>2
    <3> QED
      BY <3>1, <3>2
  <2>10. ASSUME NEW i \in 1..Len(p)
         PROVE  p[i] \in DOMAIN node /\ node[p[i]].path = SubSeq(p, 1, i - 1)
    <3>1. CASE i = Len(q) + 1
      BY <2>5, <2>6, <2>7, <2>8, <3>1
    <3>2. CASE i # Len(q) + 1
      <4>1. i \in 1..Len(q) /\ i - 1 \in 0..Len(q) /\ i - 1 \in 0..Len(p)
            /\ \A j \in 1..(i - 1) : j \in 1..Len(q)
        BY <2>7, <3>2
      <4>2. SubSeq(p, 1, i - 1) = SubSeq(q, 1, i - 1)
        <5>1. /\ SubSeq(p, 1, i - 1) \in Seq(Ids) /\ SubSeq(q, 1, i - 1) \in Seq(Ids)
              /\ Len(SubSeq(p, 1, i - 1)) = i - 1 /\ Len(SubSeq(q, 1, i - 1)) = i - 1
              /\ \A j \in 1..(i - 1) : SubSeq(p, 1, i - 1)[j] = SubSeq(q, 1, i - 1)[j]
          BY <2>7, <4>1, Prefix
        <5> QED
          BY <5>1, SeqEqual
      <4> QED
        BY <2>7, <2>9, <4>1, <4>2
    <3> QED
      BY <3>1, <3>2
  <2>11. p # << >> /\ p[Len(p)] = up
    BY <2>7, EmptySeq
  <2>12. Right(n)
    BY <2>4, <2>6, <2>10, <2>11
  <2> QED
    BY <2>3, <2>12
<1> HIDE DEF Right
<1> QED
  BY <1>2, <1>3, <1>4 DEF PathsFollowParents

(* While the paths follow the parents nothing goes round: the row with the *)
(* shortest path of such a set has a parent with a shorter one.            *)
LEMMA PathsUnloop ==
    ASSUME TypeOK, PathsFollowParents
    PROVE  NoLoop
<1> SUFFICES ASSUME NEW S, Loop(S) PROVE FALSE
  BY DEF NoLoop
<1> DEFINE Lengths == {k \in Nat : \E m \in S : Len(node[m].path) = k}
<1>1. \A m \in S : m \in DOMAIN node \ {Root} /\ node[m].parentId \in S /\ Len(node[m].path) \in Nat
  BY RowTyped, LenProperties DEF Loop
<1>2. Lengths # {}
  BY <1>1 DEF Loop
<1>3. PICK k \in Lengths : \A j \in Lengths : k <= j
  <2>1. Lengths \subseteq Nat
    OBVIOUS
  <2> HIDE DEF Lengths
  <2> QED
    BY <1>2, <2>1, Smallest
<1>4. PICK m \in S : Len(node[m].path) = k
  BY <1>3
<1>5. PICK up : up = node[m].parentId
  OBVIOUS
<1>6. up \in S /\ up \in DOMAIN node /\ node[m].path = childPath(up)
  BY <1>1, <1>4, <1>5 DEF PathsFollowParents
<1>7. Len(node[m].path) = Len(node[up].path) + 1 /\ Len(node[up].path) \in Nat
  BY <1>1, <1>6, RowTyped
<1> QED
  BY <1>3, <1>4, <1>6, <1>7

(* Where nothing goes round, climbing ends, and it ends at the root. *)
LEMMA UnloopedReaches ==
    ASSUME TreeTxAssumption, TypeOK, Root \in DOMAIN node, Attached, NoLoop
    PROVE  OneTree
<1> SUFFICES ASSUME NEW n \in DOMAIN node, ~Reaches(n) PROVE FALSE
  BY DEF OneTree
<1>1. PICK N : N = Cardinality(Ids) /\ N \in Nat
  BY FS_CardinalityType DEF TreeTxAssumption
<1> DEFINE P(up) == up = [k \in 0..N |->
                    IF k = 0 \/ up[k - 1] = Root
                    THEN IF k = 0 THEN n ELSE Root
                    ELSE node[up[k - 1]].parentId]
           f == CHOOSE up : P(up)
<1>2. \E up : P(up)
  <2> DEFINE T == {x \in Nat : ~ \E g : g = [k \in 0..x |->
                    IF k = 0 \/ g[k - 1] = Root
                    THEN IF k = 0 THEN n ELSE Root
                    ELSE node[g[k - 1]].parentId]}
  <2> SUFFICES ASSUME T # {} PROVE FALSE
    BY <1>1
  <2>1. PICK x \in T : \A y \in T : x <= y
    <3>1. T \subseteq Nat
      OBVIOUS
    <3> HIDE DEF T
    <3> QED
      BY <3>1, Smallest
  <2>2. CASE x = 0
    <3> DEFINE g == [k \in 0..0 |-> n]
    <3>1. g = [k \in 0..0 |-> IF k = 0 \/ g[k - 1] = Root
                    THEN IF k = 0 THEN n ELSE Root
                    ELSE node[g[k - 1]].parentId]
      OBVIOUS
    <3> QED
      BY <2>1, <2>2, <3>1
  <2>3. CASE x # 0
    <3>1. x - 1 \in Nat /\ x \in Nat /\ x - 1 \notin T
      <4>1. x \in Nat
        BY <2>1
      <4> HIDE DEF T
      <4> QED
        BY <2>1, <2>3, <4>1
    <3>2. PICK g : g = [k \in 0..(x - 1) |->
                    IF k = 0 \/ g[k - 1] = Root
                    THEN IF k = 0 THEN n ELSE Root
                    ELSE node[g[k - 1]].parentId]
      BY <3>1
    <3> DEFINE last == IF g[x - 1] = Root THEN Root ELSE node[g[x - 1]].parentId
               h == [k \in 0..x |-> IF k = x THEN last ELSE g[k]]
               next(k) == IF k = 0 \/ h[k - 1] = Root
                          THEN IF k = 0 THEN n ELSE Root
                          ELSE node[h[k - 1]].parentId
    <3>3. ASSUME NEW k \in 0..x PROVE h[k] = next(k)
      <4>1. CASE k = x
        <5>1. x - 1 \in 0..x /\ x - 1 # x
          BY <3>1
        <5>2. h[x - 1] = g[x - 1] /\ h[x] = last
          BY <5>1
        <5> QED
          BY <4>1, <5>2, <2>3
      <4>2. CASE k # x
        <5>1. k \in 0..(x - 1) /\ (k # 0 => k - 1 \in 0..x /\ k - 1 # x)
          BY <4>2, <3>1
        <5>2. g[k] = IF k = 0 \/ g[k - 1] = Root THEN IF k = 0 THEN n ELSE Root
                     ELSE node[g[k - 1]].parentId
          BY <5>1, <3>2
        <5>3. h[k] = g[k] /\ (k # 0 => h[k - 1] = g[k - 1])
          BY <4>2, <5>1
        <5> QED
          BY <5>2, <5>3
      <4> QED
        BY <4>1, <4>2
    <3>4. h = [k \in 0..x |-> h[k]]
      OBVIOUS
    <3> HIDE DEF h
    <3>5. h = [k \in 0..x |-> next(k)]
      BY <3>3, <3>4
    <3> QED
      BY <2>1, <3>5
  <2> QED
    BY <2>2, <2>3
<1>3. P(f)
  BY <1>2
<1>4. f[N] # Root
  BY <1>1 DEF Reaches
<1> HIDE DEF f
<1>5. /\ f[0] = n
      /\ \A k \in 0..(N - 1) : f[k + 1] = IF f[k] = Root THEN Root ELSE node[f[k]].parentId
  BY <1>1, <1>3
<1> HIDE DEF P
<1>6. \A k \in 0..N : f[k] \in DOMAIN node
  <2> DEFINE T == {k \in 0..N : f[k] \notin DOMAIN node}
  <2> SUFFICES ASSUME T # {} PROVE FALSE
    OBVIOUS
  <2>1. PICK x \in T : \A y \in T : x <= y
    <3>1. T \subseteq Nat
      OBVIOUS
    <3> HIDE DEF T
    <3> QED
      BY <3>1, Smallest
  <2>2. x # 0
    BY <1>5, <2>1
  <2>3. x - 1 \in 0..(N - 1) /\ x - 1 \in 0..N /\ x - 1 \notin T /\ (x - 1) + 1 = x
    BY <1>1, <2>1, <2>2
  <2>4. f[x - 1] \in DOMAIN node /\ f[x] = IF f[x - 1] = Root THEN Root ELSE node[f[x - 1]].parentId
    BY <1>5, <2>3
  <2>5. f[x] \in DOMAIN node
    BY <2>4 DEF Attached
  <2> QED
    BY <2>1, <2>5
<1>7. \A k \in 0..N : f[k] # Root
  <2> DEFINE T == {j \in Nat : j <= N /\ f[N - j] = Root}
  <2> SUFFICES ASSUME T # {} PROVE FALSE
    <3>1. SUFFICES ASSUME NEW k \in 0..N, f[k] = Root PROVE FALSE
      OBVIOUS
    <3>2. N - k \in T
      <4>1. N - (N - k) = k /\ N - k \in Nat /\ N - k <= N
        BY <1>1
      <4> QED
        BY <3>1, <4>1
    <3> QED
      BY <3>2
  <2>1. PICK x \in T : \A y \in T : x <= y
    <3>1. T \subseteq Nat
      OBVIOUS
    <3> HIDE DEF T
    <3> QED
      BY <3>1, Smallest
  <2>2. x # 0
    BY <1>1, <1>4, <2>1
  <2>3. N - x \in 0..(N - 1) /\ (N - x) + 1 = N - (x - 1) /\ x - 1 \in Nat /\ x - 1 <= N /\ x - 1 < x
    BY <1>1, <2>1, <2>2
  <2>4. f[N - (x - 1)] = Root
    BY <1>5, <2>1, <2>3
  <2> QED
    BY <2>1, <2>3, <2>4
<1>8. PICK i \in 0..N, j \in 0..N : i < j /\ f[i] = f[j]
  <2>1. IsFiniteSet(0..N) /\ Cardinality(0..N) = N + 1
    BY <1>1, FS_Interval
  <2>2. PICK g : g = [k \in 0..N |-> f[k]]
    OBVIOUS
  <2>5. g \in [0..N -> Ids]
    BY <1>6, <2>2 DEF TypeOK
  <2>3. IsFiniteSet(Ids) /\ Cardinality(Ids) < Cardinality(0..N)
    BY <1>1, <2>1 DEF TreeTxAssumption
  <2>6. \E x, y \in 0..N : x # y /\ g[x] = g[y]
    BY <2>1, <2>3, <2>5, FS_PigeonHole
  <2>4. PICK x, y \in 0..N : x # y /\ f[x] = f[y]
    BY <2>2, <2>6
  <2>7. x < y \/ y < x
    BY <1>1, <2>4
  <2> QED
    BY <2>4, <2>7
<1> DEFINE S == {f[k] : k \in i..(j - 1)}
<1>9. Loop(S)
  <2>1. S # {}
    BY <1>8
  <2>2. ASSUME NEW k \in i..(j - 1)
        PROVE  f[k] \in DOMAIN node \ {Root} /\ node[f[k]].parentId \in S
    <3>1. k \in 0..N /\ k \in 0..(N - 1) /\ (k # j - 1 => k + 1 \in i..(j - 1))
          /\ (k = j - 1 => k + 1 = j) /\ i \in i..(j - 1)
      BY <1>1, <1>8, <2>2
    <3>2. f[k] \in DOMAIN node \ {Root} /\ node[f[k]].parentId = f[k + 1]
      BY <1>5, <1>6, <1>7, <3>1
    <3>3. f[k + 1] \in S
      BY <1>8, <3>1
    <3> QED
      BY <3>2, <3>3
  <2> QED
    BY <2>1, <2>2 DEF Loop
<1> QED
  BY <1>9 DEF NoLoop
-----------------------------------------------------------------------------
(* What the cycle check of a move leaves it to rely on *)

(* A move that is to write its source row, or has written it. *)
Moving(t) ==
    /\ tx[t].op = "move"
    /\ tx[t].pc = "paths" \/ (tx[t].pc = "commit" /\ tx[t].n \in DOMAIN dirty[t])

(* What its cycle check found, and the locks that keep it true. *)
CheckHolds(t) ==
    /\ lock[tx[t].n] = t /\ lock[tx[t].d] = t
    /\ tx[t].d # tx[t].n
    /\ ~Tree!StartsWith(node[tx[t].d].path, childPath(tx[t].n))

(* No row is given another parent, but the source of a move. *)
KeepsParent(t, m) == dirty[t][m].parentId = node[m].parentId
GivesParent(t, m) ==
    Moving(t) /\ m = tx[t].n /\ dirty[t][m].parentId = tx[t].d

CheckStands(t) ==
    /\ Moving(t) => CheckHolds(t)
    /\ \A m \in DOMAIN dirty[t] : KeepsParent(t, m) \/ GivesParent(t, m)

ChecksStand == \A t \in Reqs : CheckStands(t)

MoveInv == TreeInv /\ Attached /\ ChecksStand

(* What others do leaves the locked rows alone. *)
LEMMA OthersStand ==
    ASSUME TreeTxAssumption, TreeInv, NEW t \in Reqs, Step(t) \/ Abort(t),
           NEW u \in Reqs \ {t}, CheckStands(u)
    PROVE  CheckStands(u)'
<1>1. tx'[u] = tx[u] /\ dirty'[u] = dirty[u]
  BY StepShape, DoesParts DEF TreeInv
<1>2. /\ TypeOK /\ Held(t) /\ Held(u) /\ Staged(u)
      /\ DOMAIN node \subseteq Ids /\ DOMAIN dirty[u] \subseteq DOMAIN node
      /\ u # Nobody
  BY DEF TreeInv, LocksHeld, AllStaged, TypeOK, TreeTxAssumption
<1>3. ASSUME NEW m \in DOMAIN node, lock[m] = u
      PROVE  lock'[m] = u /\ node'[m] = node[m]
  <2>1. lock'[m] = u
    BY <1>2, <1>3, StepShape
  <2>2. m \notin DOMAIN dirty[t]
    BY <1>2, <1>3 DEF Held
  <2>3. node'[m] = node[m]
    BY <2>2, TableStep DEF TreeInv
  <2> QED
    BY <2>1, <2>3
<1>4. Moving(u)' <=> Moving(u)
  BY <1>1 DEF Moving
<1>5. ASSUME Moving(u) PROVE CheckHolds(u)'
  <2>1. /\ tx[u].n \in DOMAIN node /\ tx[u].d \in DOMAIN node /\ CheckHolds(u)
    BY <1>2, <1>5 DEF CheckStands, Moving, Staged
  <2>2. /\ lock'[tx[u].n] = u /\ lock'[tx[u].d] = u
        /\ node'[tx[u].n] = node[tx[u].n] /\ node'[tx[u].d] = node[tx[u].d]
    BY <1>3, <2>1 DEF CheckHolds
  <2>3. childPath(tx[u].n)' = childPath(tx[u].n)
    BY <1>1, <2>2 DEF childPath
  <2> QED
    BY <1>1, <2>1, <2>2, <2>3 DEF CheckHolds
<1>6. ASSUME NEW m \in DOMAIN dirty'[u] PROVE KeepsParent(u, m)' \/ GivesParent(u, m)'
  <2>1. m \in DOMAIN node /\ lock[m] = u /\ m \in DOMAIN dirty[u]
    BY <1>1, <1>2, <1>6 DEF Held
  <2>2. node'[m] = node[m]
    BY <1>3, <2>1
  <2>3. KeepsParent(u, m) \/ GivesParent(u, m)
    BY <2>1 DEF CheckStands
  <2> QED
    BY <1>1, <1>4, <2>2, <2>3 DEF KeepsParent, GivesParent
<1> QED
  BY <1>4, <1>5, <1>6 DEF CheckStands

(* t writes one row and leaves its parent alone. *)
WritesInPlace(t) ==
    \E m \in DOMAIN node : \E row :
        Writes(t, m, row) /\ row.parentId = View(t, m).parentId

LEMMA OwnWrites ==
    ASSUME TreeInv, NEW t \in Reqs, Step(t) \/ Abort(t)
    PROVE  Clears(t) \/ dirty' = dirty \/ WritesInPlace(t) \/ MoveSelf(t)
<1>0. TypeOK /\ Staged(t) /\ tx[t].n \in DOMAIN node
  BY DEF TreeInv, AllStaged, Staged
<1>1. CASE GuardRead(t)
  BY <1>0, <1>1, GuardReadDoes DEF Reads
<1>2. CASE GuardAncestors(t)
  BY <1>0, <1>2, GuardAncestorsDoes DEF Reads
<1>3. CASE MoveSelect(t)
  BY <1>0, <1>3, MoveSelectDoes DEF Reads
<1>4. CASE MoveCheck(t)
  BY <1>0, <1>4, MoveCheckDoes, RollbackDoes DEF Reads
<1>5. CASE MoveSelf(t)
  BY <1>5
<1>6. CASE RemoveSelect(t)
  BY <1>0, <1>6, RemoveSelectDoes DEF Reads
<1>7. CASE RemoveSelf(t)
  <2>1. PICK v : v = View(t, tx[t].n)
    OBVIOUS
  <2>2. dirty' = dirty \/ Writes(t, tx[t].n, [v EXCEPT !.deleted = TRUE])
    BY <1>0, <1>7, <2>1, RemoveSelfDoes DEF Reads
  <2>3. v = [parentId |-> v.parentId, path |-> v.path, deleted |-> v.deleted]
    BY <1>0, <2>1, ViewTyped DEF Row
  <2>4. [v EXCEPT !.deleted = TRUE].parentId = v.parentId
    BY <2>3
  <2> QED
    BY <1>0, <2>1, <2>2, <2>4 DEF WritesInPlace
<1>8. CASE CreateReadParent(t)
  BY <1>0, <1>8, CreateReadParentDoes DEF Reads
<1>9. CASE CreateInsert(t)
  BY <1>0, <1>9, CreateInsertDoes
<1>10. CASE \E m \in DOMAIN node : MoveLock(t, m)
  <2>1. PICK m \in DOMAIN node : MoveLock(t, m)
    BY <1>10
  <2> QED
    BY <1>0, <2>1, MoveLockDoes
<1>11. CASE \E m \in DOMAIN node : MoveDescendant(t, m)
  <2>1. PICK m \in DOMAIN node : MoveDescendant(t, m)
    BY <1>11
  <2>2. dirty' = dirty \/ Writes(t, m, Repathed(t, m))
    BY <1>0, <2>1, MoveDescendantDoes
  <2>3. PICK v : v = View(t, m)
    OBVIOUS
  <2>4. v = [parentId |-> v.parentId, path |-> v.path, deleted |-> v.deleted]
    BY <1>0, <2>3, ViewTyped DEF Row
  <2>5. PICK p : p = Append(childPath(tx[t].d), tx[t].n)
                       \o SubSeq(v.path, Len(childPath(tx[t].n)) + 1, Len(v.path))
    OBVIOUS
  <2>6. Repathed(t, m) = [v EXCEPT !.path = p]
    BY <2>3, <2>5 DEF Repathed
  <2>7. Repathed(t, m).parentId = v.parentId
    BY <2>4, <2>6
  <2> QED
    BY <2>2, <2>3, <2>7 DEF WritesInPlace
<1>12. CASE \E m \in DOMAIN node : RemoveDescendant(t, m)
  <2>1. PICK m \in DOMAIN node : RemoveDescendant(t, m)
    BY <1>12
  <2>2. PICK v : v = View(t, m)
    OBVIOUS
  <2>3. dirty' = dirty \/ Writes(t, m, [v EXCEPT !.deleted = TRUE])
    BY <1>0, <2>1, <2>2, RemoveDescendantDoes
  <2>4. v = [parentId |-> v.parentId, path |-> v.path, deleted |-> v.deleted]
    BY <1>0, <2>2, ViewTyped DEF Row
  <2>5. [v EXCEPT !.deleted = TRUE].parentId = v.parentId
    BY <2>4
  <2> QED
    BY <2>2, <2>3, <2>5 DEF WritesInPlace
<1>13. CASE Commit(t)
  BY <1>0, <1>13, CommitDoes
<1>14. CASE Abort(t)
  BY <1>0, <1>14, RollbackDoes DEF Abort
<1> QED
  BY <1>1, <1>2, <1>3, <1>4, <1>5, <1>6, <1>7, <1>8, <1>9, <1>10,
     <1>11, <1>12, <1>13, <1>14 DEF Step

(* A step that goes on to write, or has written, holds both locks. *)
LEMMA OwnCheck ==
    ASSUME TreeTxAssumption, TreeInv, NEW t \in Reqs, Step(t) \/ Abort(t), CheckStands(t),
           Moving(t)'
    PROVE  CheckHolds(t)' /\ node' = node
<1>0. /\ TypeOK /\ Staged(t) /\ Held(t)
      /\ tx'[t].op = tx[t].op /\ tx'[t].n = tx[t].n /\ tx'[t].d = tx[t].d
      /\ Edge(tx[t].pc, tx'[t].pc)
      /\ lock \in [Ids -> Reqs \cup {Nobody}] /\ DOMAIN node \subseteq Ids
      /\ tx[t].n \in Ids /\ tx[t].d \in Ids
  BY Flow, RequestParts DEF TreeInv, AllStaged, LocksHeld, TypeOK
<1>1. /\ tx[t].op = "move" /\ tx[t].pc \in {"locking", "paths"}
      /\ tx'[t].pc \in {"paths", "commit"}
  BY <1>0 DEF Moving, Edge, Staged
<1>2. ASSUME node' = node,
             lock'[tx[t].n] = t, lock'[tx[t].d] = t, tx[t].d # tx[t].n,
             ~Tree!StartsWith(node[tx[t].d].path, childPath(tx[t].n))
      PROVE  CheckHolds(t)' /\ node' = node
  <2>1. childPath(tx[t].n)' = childPath(tx[t].n)
    BY <1>0, <1>2 DEF childPath
  <2> QED
    BY <1>0, <1>2, <2>1 DEF CheckHolds
<1>3. tx[t].pc = "paths" => CheckHolds(t)
  BY <1>1 DEF CheckStands, Moving
<1> DEFINE Goal == CheckHolds(t)' /\ node' = node
<1> HIDE DEF Goal
<1> SUFFICES Goal
  BY DEF Goal
<1>4. CASE GuardRead(t)
  BY <1>0, <1>1, <1>4, GuardReadDoes
<1>5. CASE GuardAncestors(t)
  BY <1>0, <1>1, <1>5, GuardAncestorsDoes
<1>6. CASE MoveSelect(t)
  BY <1>0, <1>1, <1>6, MoveSelectDoes
<1>7. CASE MoveCheck(t)
  <2>1. /\ tx[t].pc = "locking" /\ tx[t].todo = {}
        /\ \/ Reads /\ Live(tx[t].n) /\ Accepted(t)
           \/ Reads /\ Does(t, "commit", tx[t].path, tx[t].todo)
           \/ Rollback(t)
    BY <1>0, <1>7, MoveCheckDoes
  <2>2. dirty[t] = NoRows
    BY <1>0, <2>1 DEF Held
  <2>3. CASE Rollback(t)
    <3>1. tx'[t].pc = "done"
      BY <1>0, <2>3, RollbackDoes, DoesParts
    <3> QED
      BY <1>1, <3>1
  <2>4. CASE Reads /\ Does(t, "commit", tx[t].path, tx[t].todo)
    <3>1. dirty'[t] = NoRows /\ tx'[t].pc = "commit"
      BY <2>2, <2>4, DoesParts DEF Reads
    <3> QED
      BY <3>1 DEF Moving, NoRows
  <2>5. CASE Reads /\ Live(tx[t].n) /\ Accepted(t)
    <3>1. lock[tx[t].n] = t /\ lock[tx[t].d] = t
      BY <1>0, <2>1, <2>5 DEF Held, Accepted
    <3> QED
      BY <1>2, <2>5, <3>1 DEF Reads, Accepted, Goal
  <2> QED
    BY <2>1, <2>3, <2>4, <2>5
<1>8. CASE MoveSelf(t)
  <2>1. tx[t].pc = "paths" /\ node' = node /\ lock' = lock
    BY <1>0, <1>8, MoveSelfDoes
  <2> QED
    BY <1>2, <1>3, <2>1 DEF CheckHolds, Goal
<1>9. CASE RemoveSelect(t)
  BY <1>0, <1>1, <1>9, RemoveSelectDoes
<1>10. CASE RemoveSelf(t)
  BY <1>0, <1>1, <1>10, RemoveSelfDoes
<1>11. CASE CreateReadParent(t)
  BY <1>0, <1>1, <1>11, CreateReadParentDoes
<1>12. CASE CreateInsert(t)
  BY <1>0, <1>1, <1>12, CreateInsertDoes
<1>13. CASE \E m \in DOMAIN node : MoveLock(t, m)
  <2>1. PICK m \in DOMAIN node : MoveLock(t, m)
    BY <1>13
  <2>2. tx'[t].pc = "locking"
    BY <1>0, <2>1, MoveLockDoes, DoesParts
  <2> QED
    BY <1>1, <2>2
<1>14. CASE \E m \in DOMAIN node : MoveDescendant(t, m)
  <2>1. PICK m \in DOMAIN node : MoveDescendant(t, m)
    BY <1>14
  <2>2. /\ tx[t].pc = "paths" /\ node' = node /\ lock' = [lock EXCEPT ![m] = t]
    BY <1>0, <2>1, MoveDescendantDoes
  <2>3. lock'[tx[t].n] = t /\ lock'[tx[t].d] = t
    BY <1>0, <1>3, <2>2 DEF CheckHolds
  <2> QED
    BY <1>2, <1>3, <2>2, <2>3 DEF CheckHolds, Goal
<1>15. CASE \E m \in DOMAIN node : RemoveDescendant(t, m)
  <2>1. PICK m \in DOMAIN node : RemoveDescendant(t, m)
    BY <1>15
  <2> QED
    BY <1>0, <1>1, <2>1, RemoveDescendantDoes
<1>16. CASE Commit(t)
  BY <1>0, <1>1, <1>16, CommitDoes
<1>17. CASE Abort(t)
  <2>1. tx'[t].pc = "done"
    BY <1>0, <1>17, RollbackDoes, DoesParts DEF Abort
  <2> QED
    BY <1>1, <2>1
<1> QED
  BY <1>4, <1>5, <1>6, <1>7, <1>8, <1>9, <1>10, <1>11, <1>12, <1>13,
     <1>14, <1>15, <1>16, <1>17 DEF Step

LEMMA OwnStands ==
    ASSUME TreeTxAssumption, TreeInv, NEW t \in Reqs, Step(t) \/ Abort(t), CheckStands(t)
    PROVE  CheckStands(t)'
<1>0. /\ TypeOK /\ Staged(t) /\ Held(t) /\ DOMAIN dirty[t] \subseteq DOMAIN node
      /\ tx'[t].op = tx[t].op /\ tx'[t].n = tx[t].n /\ tx'[t].d = tx[t].d
      /\ Edge(tx[t].pc, tx'[t].pc) /\ tx[t].n \in DOMAIN node
  BY Flow DEF TreeInv, AllStaged, LocksHeld, TypeOK, Staged
<1>1. Moving(t)' => CheckHolds(t)'
  BY OwnCheck
<1>2. CASE dirty'[t] = NoRows
  BY <1>1, <1>2 DEF CheckStands, NoRows
<1>3. CASE dirty'[t] # NoRows
  <2>1. tx'[t].pc \in {"paths", "marking", "self", "commit"}
    BY <1>3, RowsStep DEF TreeInv, WriteStages
  <2>2. node' = node
    <3>1. Commit(t) => tx'[t].pc = "done"
      BY <1>0, CommitDoes, DoesParts
    <3>2. CreateInsert(t) => tx'[t].pc = "done"
      BY <1>0, CreateInsertDoes, DoesParts
    <3> QED
      BY <1>0, <2>1, <3>1, <3>2, TableChanges
  <2>3. \A m \in DOMAIN dirty[t] : KeepsParent(t, m) \/ GivesParent(t, m)
    BY DEF CheckStands
  <2>4. ~Clears(t)
    BY <1>3 DEF Clears
  <2>5. ASSUME tx[t].pc # "paths", NEW m \in DOMAIN dirty[t] PROVE KeepsParent(t, m)
    <3>1. tx[t].pc # "commit"
      BY <1>0, <2>1 DEF Edge
    <3> QED
      BY <2>3, <2>5, <3>1 DEF GivesParent, Moving
  <2>6. ASSUME tx[t].pc = "paths", NEW m \in DOMAIN dirty[t], GivesParent(t, m),
               m \in DOMAIN dirty'[t], dirty'[t][m].parentId = dirty[t][m].parentId
        PROVE  GivesParent(t, m)'
    <3>1. tx'[t].pc \in {"paths", "commit"} /\ tx[t].op = "move"
      BY <1>0, <2>1, <2>6 DEF Edge, Staged
    <3> QED
      BY <1>0, <2>6, <3>1 DEF GivesParent, Moving
  <2>7. ASSUME NEW m \in DOMAIN dirty[t], m \in DOMAIN dirty'[t],
               dirty'[t][m].parentId = dirty[t][m].parentId
        PROVE  KeepsParent(t, m)' \/ GivesParent(t, m)'
    <3>1. KeepsParent(t, m) => KeepsParent(t, m)'
      BY <2>2, <2>7 DEF KeepsParent
    <3> QED
      BY <2>3, <2>5, <2>6, <2>7, <3>1
  <2>8. CASE dirty' = dirty
    BY <1>1, <2>7, <2>8 DEF CheckStands
  <2>9. CASE WritesInPlace(t)
    <3>0. PICK m \in DOMAIN node :
            \E row : Writes(t, m, row) /\ row.parentId = View(t, m).parentId
      BY <2>9 DEF WritesInPlace
    <3>1. PICK row : Writes(t, m, row) /\ row.parentId = View(t, m).parentId
      BY <3>0
    <3>2. /\ DOMAIN dirty'[t] = DOMAIN dirty[t] \cup {m} /\ dirty'[t][m] = row
          /\ \A x \in DOMAIN dirty[t] \ {m} : dirty'[t][x] = dirty[t][x]
      BY <3>1 DEF Writes
    <3>3. ASSUME NEW x \in DOMAIN dirty'[t] PROVE KeepsParent(t, x)' \/ GivesParent(t, x)'
      <4>1. CASE x \in DOMAIN dirty[t]
        <5>1. dirty'[t][x].parentId = dirty[t][x].parentId
          BY <3>1, <3>2, <4>1 DEF View
        <5> QED
          BY <2>7, <3>3, <4>1, <5>1
      <4>2. CASE x \notin DOMAIN dirty[t]
        <5>1. x = m /\ dirty'[t][m].parentId = node[m].parentId
          BY <3>1, <3>2, <3>3, <4>2 DEF View
        <5> QED
          BY <2>2, <5>1 DEF KeepsParent
      <4> QED
        BY <4>1, <4>2
    <3> QED
      BY <1>1, <3>3 DEF CheckStands
  <2>10. CASE MoveSelf(t)
    <3>1. PICK v : v = View(t, tx[t].n)
      OBVIOUS
    <3>2. PICK p : p = childPath(tx[t].d)
      OBVIOUS
    <3>3. PICK row : row = [v EXCEPT !.parentId = tx[t].d, !.path = p]
      OBVIOUS
    <3>4. /\ tx[t].pc = "paths" /\ Does(t, "commit", tx[t].path, {})
          /\ Writes(t, tx[t].n, row)
      BY <1>0, <2>10, <3>1, <3>2, <3>3, MoveSelfDoes
    <3>5. v = [parentId |-> v.parentId, path |-> v.path, deleted |-> v.deleted]
      BY <1>0, <3>1, ViewTyped DEF Row
    <3>6. row.parentId = tx[t].d
      BY <3>3, <3>5
    <3>7. /\ DOMAIN dirty'[t] = DOMAIN dirty[t] \cup {tx[t].n} /\ dirty'[t][tx[t].n] = row
          /\ \A x \in DOMAIN dirty[t] \ {tx[t].n} : dirty'[t][x] = dirty[t][x]
      BY <3>4 DEF Writes
    <3>8. tx[t].op = "move" /\ tx'[t].pc = "commit"
      BY <1>0, <3>4, DoesParts DEF Staged
    <3>9. ASSUME NEW x, x = tx[t].n PROVE GivesParent(t, x)'
      <4>1. tx'[t].n \in DOMAIN dirty'[t] /\ x = tx'[t].n
        BY <1>0, <3>7, <3>9
      <4>2. Moving(t)'
        BY <1>0, <3>8, <4>1 DEF Moving
      <4>3. dirty'[t][x].parentId = tx'[t].d
        BY <1>0, <3>6, <3>7, <3>9
      <4> QED
        BY <4>1, <4>2, <4>3 DEF GivesParent
    <3>10. ASSUME NEW x \in DOMAIN dirty'[t] PROVE KeepsParent(t, x)' \/ GivesParent(t, x)'
      <4>1. CASE x = tx[t].n
        BY <3>9, <4>1
      <4>2. CASE x # tx[t].n
        BY <2>7, <3>7, <3>10, <4>2
      <4> QED
        BY <4>1, <4>2
    <3> QED
      BY <1>1, <3>10 DEF CheckStands
  <2> QED
    BY <2>4, <2>8, <2>9, <2>10, OwnWrites
<1> QED
  BY <1>2, <1>3

LEMMA MoveInit == TreeTxAssumption /\ Init => MoveInv
<1> SUFFICES ASSUME TreeTxAssumption, Init PROVE MoveInv
  OBVIOUS
<1>1. TreeInv
  BY InitInv
<1>2. PICK S \in SUBSET (Ids \ {Root}) : \E par \in [S -> S \cup {Root}] :
         node = [n \in S \cup {Root} |->
                      [parentId |-> IF n = Root THEN Nobody ELSE par[n],
                       path     |-> IF n = Root THEN << >>
                                    ELSE SubSeq(Climb(par, n), 1, Len(Climb(par, n)) - 1),
                       deleted  |-> FALSE]]
  BY DEF Init
<1>3. PICK par \in [S -> S \cup {Root}] :
         node = [n \in S \cup {Root} |->
                      [parentId |-> IF n = Root THEN Nobody ELSE par[n],
                       path     |-> IF n = Root THEN << >>
                                    ELSE SubSeq(Climb(par, n), 1, Len(Climb(par, n)) - 1),
                       deleted  |-> FALSE]]
  BY <1>2
<1>4. DOMAIN node = S \cup {Root} /\ \A n \in S : n # Root
  BY <1>3
<1>5. \A n \in S : node[n].parentId = par[n]
  BY <1>3, <1>4
<1>6. Attached
  BY <1>4, <1>5 DEF Attached
<1>7. ASSUME NEW t \in Reqs PROVE tx[t].pc = "new" /\ DOMAIN dirty[t] = {}
  BY DEF Init, NoRows
<1>8. ChecksStand
  BY <1>7 DEF ChecksStand, CheckStands, Moving
<1> QED
  BY <1>1, <1>6, <1>8 DEF MoveInv

(* What a commit makes of the parents. *)
LEMMA CommitParents ==
    ASSUME MoveInv, NEW t \in Reqs, Commit(t)
    PROVE  /\ DOMAIN node' = DOMAIN node
           /\ \A m \in DOMAIN node :
                \/ node'[m].parentId = node[m].parentId
                \/ /\ m = tx[t].n /\ node'[m].parentId = tx[t].d
                   /\ tx[t].d \in DOMAIN node /\ CheckHolds(t)
<1>1. TypeOK /\ Staged(t) /\ CheckStands(t)
  BY DEF MoveInv, TreeInv, AllStaged, ChecksStand
<1>2. node' = [m \in DOMAIN node |-> View(t, m)]
  BY <1>1, CommitDoes
<1>3. ASSUME NEW m \in DOMAIN node, node'[m].parentId # node[m].parentId
      PROVE  /\ m = tx[t].n /\ node'[m].parentId = tx[t].d
             /\ tx[t].d \in DOMAIN node /\ CheckHolds(t)
  <2>1. node'[m] = View(t, m)
    BY <1>2
  <2>2. m \in DOMAIN dirty[t] /\ node'[m] = dirty[t][m]
    BY <1>3, <2>1 DEF View
  <2>3. GivesParent(t, m)
    BY <1>1, <1>3, <2>2 DEF CheckStands, KeepsParent
  <2> QED
    BY <1>1, <2>2, <2>3 DEF GivesParent, CheckStands, Moving, Staged
<1> QED
  BY <1>2, <1>3

LEMMA CreateParents ==
    ASSUME MoveInv, NEW t \in Reqs, CreateInsert(t)
    PROVE  /\ tx[t].d \notin DOMAIN node /\ tx[t].n \in DOMAIN node
           /\ DOMAIN node' = DOMAIN node \cup {tx[t].d}
           /\ node'[tx[t].d].parentId = tx[t].n
           /\ \A m \in DOMAIN node : node'[m] = node[m]
<1>1. TypeOK /\ Staged(t) /\ Fresh
  BY DEF MoveInv, TreeInv, AllStaged
<1>2. PICK row : row = [parentId |-> tx[t].n, path |-> tx[t].path, deleted |-> FALSE]
  OBVIOUS
<1>3. /\ tx[t].pc = "insert"
      /\ node' = [m \in DOMAIN node \cup {tx[t].d} |-> IF m = tx[t].d THEN row ELSE node[m]]
  BY <1>1, <1>2, CreateInsertDoes
<1>4. tx[t].d \notin DOMAIN node /\ tx[t].n \in DOMAIN node
  BY <1>1, <1>3 DEF Fresh, Staged
<1> QED
  BY <1>2, <1>3, <1>4

LEMMA AttachedStep ==
    ASSUME TreeTxAssumption, MoveInv, NEW t \in Reqs, Step(t) \/ Abort(t)
    PROVE  Attached'
<1>1. Attached /\ TypeOK
  BY DEF MoveInv, TreeInv
<1>2. CASE node' = node
  BY <1>1, <1>2 DEF Attached
<1>3. CASE Commit(t)
  BY <1>1, <1>3, CommitParents DEF Attached
<1>4. CASE CreateInsert(t)
  <2>1. /\ tx[t].d \notin DOMAIN node /\ tx[t].n \in DOMAIN node
        /\ DOMAIN node' = DOMAIN node \cup {tx[t].d}
        /\ node'[tx[t].d].parentId = tx[t].n
        /\ \A m \in DOMAIN node : node'[m] = node[m]
    BY <1>4, CreateParents
  <2> QED
    BY <1>1, <2>1 DEF Attached
<1> QED
  BY <1>1, <1>2, <1>3, <1>4, TableChanges

LEMMA MoveStep ==
    ASSUME TreeTxAssumption, MoveInv, NEW t \in Reqs, Step(t) \/ Abort(t)
    PROVE  MoveInv'
<1>1. TreeInv /\ ChecksStand
  BY DEF MoveInv
<1>2. TreeInv' /\ Attached'
  BY <1>1, StepInv, AttachedStep
<1>3. CheckStands(t)'
  BY <1>1, OwnStands DEF ChecksStand
<1>4. \A u \in Reqs \ {t} : CheckStands(u)'
  BY <1>1, OthersStand DEF ChecksStand
<1> QED
  BY <1>2, <1>3, <1>4 DEF MoveInv, ChecksStand

LEMMA MoveArrive ==
    ASSUME TreeTxAssumption, MoveInv, NEW t \in Reqs, NEW op \in Ops,
           NEW n \in DOMAIN node, NEW d \in Ids, Arrive(t, op, n, d)
    PROVE  MoveInv'
<1>1. TreeInv /\ Attached /\ ChecksStand /\ TypeOK /\ Held(t)
  BY DEF MoveInv, TreeInv, LocksHeld
<1>2. TreeInv'
  BY <1>1, ArriveInv
<1>3. node' = node /\ lock' = lock /\ dirty' = dirty
  BY DEF Arrive
<1>4. /\ tx[t].pc = "new" /\ tx'[t].pc \in {"parent", "guard"}
      /\ \A u \in Reqs \ {t} : /\ tx'[u].n = tx[u].n /\ tx'[u].d = tx[u].d
                               /\ tx'[u].pc = tx[u].pc /\ tx'[u].op = tx[u].op
  <2>1. tx[t].pc = "new"
    BY DEF Arrive
  <2> QED
    BY <1>1, <2>1, ArriveParts
<1>5. CheckStands(t)'
  <2>1. dirty'[t] = NoRows
    BY <1>1, <1>3, <1>4 DEF Held
  <2> QED
    BY <1>4, <2>1 DEF CheckStands, Moving, NoRows
<1>6. ASSUME NEW u \in Reqs \ {t} PROVE CheckStands(u)'
  <2>1. Moving(u)' <=> Moving(u)
    BY <1>3, <1>4 DEF Moving
  <2>2. CheckHolds(u)' <=> CheckHolds(u)
    BY <1>3, <1>4 DEF CheckHolds, childPath
  <2>3. \A m \in DOMAIN dirty[u] : /\ KeepsParent(u, m)' <=> KeepsParent(u, m)
                                   /\ GivesParent(u, m)' <=> GivesParent(u, m)
    BY <1>3, <1>4, <2>1 DEF KeepsParent, GivesParent
  <2> QED
    BY <1>1, <1>3, <2>1, <2>2, <2>3 DEF ChecksStand, CheckStands
<1> QED
  BY <1>1, <1>2, <1>3, <1>5, <1>6 DEF MoveInv, ChecksStand, Attached

LEMMA MoveNext ==
    ASSUME TreeTxAssumption, MoveInv, [Next]_vars
    PROVE  MoveInv'
<1>1. CASE \E t \in Reqs : \E op \in Ops, n \in DOMAIN node, d \in Ids : Arrive(t, op, n, d)
  BY <1>1, MoveArrive
<1>2. CASE \E t \in Reqs : Step(t) \/ Abort(t)
  BY <1>2, MoveStep
<1>3. CASE UNCHANGED vars
  <2>1. node' = node /\ lock' = lock /\ dirty' = dirty /\ tx' = tx
    BY <1>3 DEF vars
  <2>2. TreeInv'
    BY <1>3, NextInv DEF MoveInv
  <2>3. ASSUME NEW t \in Reqs PROVE CheckStands(t)'
    <3>1. Moving(t)' <=> Moving(t)
      BY <2>1 DEF Moving
    <3>2. CheckHolds(t)' <=> CheckHolds(t)
      BY <2>1 DEF CheckHolds, childPath
    <3>3. \A m : /\ KeepsParent(t, m)' <=> KeepsParent(t, m)
                 /\ GivesParent(t, m)' <=> GivesParent(t, m)
      BY <2>1, <3>1 DEF KeepsParent, GivesParent
    <3> QED
      BY <2>1, <3>1, <3>2, <3>3 DEF MoveInv, ChecksStand, CheckStands
  <2> QED
    BY <2>1, <2>2, <2>3 DEF MoveInv, ChecksStand, Attached
<1> QED
  BY <1>1, <1>2, <1>3 DEF Next

(* The check a move made holds to its commit: nobody moves, deletes or     *)
(* repaths the two folders in between.                                     *)
THEOREM ChecksCorrect == Spec => []MoveInv
<1>1. Init => MoveInv
  BY MoveInit, TreeTxAssumption
<1>2. MoveInv /\ [Next]_vars => MoveInv'
  BY MoveNext, TreeTxAssumption
<1> QED
  BY <1>1, <1>2, PTL DEF Spec
-----------------------------------------------------------------------------
(* From right paths to one tree *)

LEMMA PathsPrefix ==
    ASSUME NEW p \in Seq(Ids), NEW x \in Ids, NEW q \in Seq(Ids), Tree!StartsWith(p, q)
    PROVE  Tree!StartsWith(Append(p, x), q)
<1>1. /\ Len(p) \in Nat /\ Len(q) \in Nat /\ Len(q) <= Len(p)
      /\ \A i \in 1..Len(q) : p[i] = q[i]
  BY LenProperties DEF Tree!StartsWith
<1>2. Len(Append(p, x)) = Len(p) + 1 /\ \A i \in 1..Len(p) : Append(p, x)[i] = p[i]
  BY AppendProperties
<1> QED
  BY <1>1, <1>2 DEF Tree!StartsWith

(* Outside the subtree of n, that is neither n nor below it, the parents   *)
(* are outside too.                                                        *)
LEMMA OutsideUp ==
    ASSUME TypeOK, PathsFollowParents, NEW n \in DOMAIN node, NEW m \in DOMAIN node \ {Root},
           ~Tree!StartsWith(node[m].path, childPath(n))
    PROVE  /\ node[m].parentId \in DOMAIN node /\ node[m].parentId # n
           /\ ~Tree!StartsWith(node[node[m].parentId].path, childPath(n))
<1>1. PICK up : up = node[m].parentId
  OBVIOUS
<1>2. up \in DOMAIN node /\ node[m].path = childPath(up)
  BY <1>1 DEF PathsFollowParents
<1>3. up \in Ids /\ node[up].path \in Seq(Ids) /\ childPath(n) \in Seq(Ids)
  BY <1>2, RowTyped
<1>4. up # n
  <2>1. Tree!StartsWith(childPath(n), childPath(n))
    BY <1>3, LenProperties DEF Tree!StartsWith
  <2> QED
    BY <1>2, <2>1
<1>5. ~Tree!StartsWith(node[up].path, childPath(n))
  BY <1>2, <1>3, PathsPrefix DEF childPath
<1> QED
  BY <1>1, <1>2, <1>4, <1>5

(* A checked move hangs its source where no loop closes: whatever would go *)
(* round after it, the part outside the moved subtree went round before.   *)
LEMMA CommitUnloops ==
    ASSUME MoveInv, PathsFollowParents, NEW t \in Reqs, Commit(t)
    PROVE  NoLoop'
<1> SUFFICES ASSUME NEW S, Loop(S)' PROVE FALSE
  BY DEF NoLoop
<1> DEFINE n == tx[t].n
           d == tx[t].d
<1>1. TypeOK /\ NoLoop
  BY PathsUnloop DEF MoveInv, TreeInv
<1>2. /\ DOMAIN node' = DOMAIN node
      /\ \A m \in DOMAIN node :
           \/ node'[m].parentId = node[m].parentId
           \/ m = n /\ node'[m].parentId = d /\ d \in DOMAIN node /\ CheckHolds(t)
  BY CommitParents
<1>3. S # {} /\ \A m \in S : m \in DOMAIN node \ {Root} /\ node'[m].parentId \in S
  BY <1>2 DEF Loop
<1>4. CASE \A m \in S : node'[m].parentId = node[m].parentId
  BY <1>1, <1>3, <1>4 DEF NoLoop, Loop
<1>5. CASE \E m \in S : node'[m].parentId # node[m].parentId
  <2>1. n \in S /\ node'[n].parentId = d /\ d \in DOMAIN node /\ CheckHolds(t)
    BY <1>2, <1>3, <1>5
  <2>2. d \in S /\ d # n /\ ~Tree!StartsWith(node[d].path, childPath(n)) /\ n \in DOMAIN node
    BY <1>3, <2>1 DEF CheckHolds
  <2> HIDE DEF n, d
  <2> DEFINE T == {m \in S : m # n /\ ~Tree!StartsWith(node[m].path, childPath(n))}
  <2>3. ASSUME NEW m \in T PROVE m \in DOMAIN node \ {Root} /\ node[m].parentId \in T
    <3>1. /\ m \in DOMAIN node \ {Root} /\ m # n /\ node'[m].parentId \in S
          /\ ~Tree!StartsWith(node[m].path, childPath(n))
      BY <1>3, <2>3
    <3>2. node'[m].parentId = node[m].parentId
      BY <1>2, <3>1
    <3>3. PICK up : up = node[m].parentId
      OBVIOUS
    <3>4. up # n /\ ~Tree!StartsWith(node[up].path, childPath(n))
      BY <1>1, <2>2, <3>1, <3>3, OutsideUp
    <3> QED
      BY <3>1, <3>2, <3>3, <3>4
  <2>4. d \in T
    BY <2>2
  <2> HIDE DEF T
  <2>5. Loop(T)
    BY <2>3, <2>4 DEF Loop
  <2> QED
    BY <1>1, <2>5 DEF NoLoop
<1> QED
  BY <1>4, <1>5

LEMMA CreateUnloops ==
    ASSUME MoveInv, NoLoop, NEW t \in Reqs, CreateInsert(t)
    PROVE  NoLoop'
<1> SUFFICES ASSUME NEW S, Loop(S)' PROVE FALSE
  BY DEF NoLoop
<1> DEFINE n == tx[t].n
           d == tx[t].d
<1>1. /\ d \notin DOMAIN node /\ n \in DOMAIN node
      /\ DOMAIN node' = DOMAIN node \cup {d} /\ node'[d].parentId = n
      /\ \A m \in DOMAIN node : node'[m] = node[m]
  BY CreateParents
<1> HIDE DEF n, d
<1>2. S # {} /\ \A m \in S : m \in DOMAIN node' \ {Root} /\ node'[m].parentId \in S
  BY DEF Loop
<1> DEFINE T == S \ {d}
<1>3. ASSUME NEW m \in T PROVE m \in DOMAIN node \ {Root} /\ node[m].parentId \in T
  <2>1. m \in DOMAIN node \ {Root} /\ node[m].parentId \in S
    BY <1>1, <1>2, <1>3
  <2>2. node[m].parentId \in DOMAIN node
    BY <2>1 DEF MoveInv, Attached
  <2> QED
    BY <1>1, <2>1, <2>2
<1>4. T # {}
  <2>1. PICK m \in S : TRUE
    BY <1>2
  <2>2. m = d => n \in T
    BY <1>1, <1>2, <2>1
  <2> QED
    BY <2>1, <2>2
<1> HIDE DEF T
<1> QED
  BY <1>3, <1>4 DEF NoLoop, Loop

LEMMA TreeIfUnlooped ==
    TypeOK /\ Root \in DOMAIN node /\ Attached /\ NoLoop => OneTree
BY UnloopedReaches, TreeTxAssumption

LEMMA NextTreeIfUnlooped ==
    (TypeOK /\ Root \in DOMAIN node /\ Attached /\ NoLoop => OneTree)'
BY TreeIfUnlooped, PTL

(* From right paths every step leads to one tree. *)
LEMMA UnloopStep ==
    ASSUME TreeTxAssumption, MoveInv, PathsFollowParents, NEW t \in Reqs, Step(t) \/ Abort(t)
    PROVE  NoLoop'
<1>1. TypeOK /\ NoLoop
  BY PathsUnloop DEF MoveInv, TreeInv
<1>2. CASE node' = node
  BY <1>1, <1>2 DEF NoLoop, Loop
<1>3. CASE Commit(t)
  BY <1>3, CommitUnloops
<1>4. CASE CreateInsert(t)
  BY <1>1, <1>4, CreateUnloops
<1> QED
  BY <1>1, <1>2, <1>3, <1>4, TableChanges

LEMMA TreeStep ==
    ASSUME TreeTxAssumption, MoveInv, PathsFollowParents, NEW t \in Reqs, Step(t) \/ Abort(t)
    PROVE  OneTree'
<1>1. MoveInv' /\ NoLoop'
  BY MoveStep, UnloopStep
<1>2. TypeOK' /\ (Root \in DOMAIN node)' /\ Attached'
  BY <1>1 DEF MoveInv, TreeInv, RootStays
<1> QED
  BY <1>1, <1>2, NextTreeIfUnlooped

(* However many requests overlap, a commit that finds the paths right      *)
(* leaves one tree: only a path gone stale before can close a cycle.       *)
THEOREM RightPathsCorrect == Spec => RightPathsKeepTree
<1>1. MoveInv /\ [Next]_vars => [PathsAreAncestry => OneTree']_vars
  <2> SUFFICES ASSUME MoveInv, Next, PathsAreAncestry PROVE OneTree'
    OBVIOUS
  <2>1. PathsFollowParents
    BY PathsByParent, TreeTxAssumption DEF MoveInv, TreeInv
  <2>2. CASE \E t \in Reqs : Step(t) \/ Abort(t)
    BY <2>1, <2>2, TreeStep, TreeTxAssumption
  <2>3. CASE \E t \in Reqs : \E op \in Ops, n \in DOMAIN node, d \in Ids : Arrive(t, op, n, d)
    <3>1. node' = node
      BY <2>3 DEF Arrive
    <3>2. TypeOK /\ Root \in DOMAIN node /\ Attached /\ NoLoop
      BY <2>1, PathsUnloop DEF MoveInv, TreeInv, RootStays
    <3>3. TypeOK' /\ (Root \in DOMAIN node)' /\ Attached' /\ NoLoop'
      <4>1. TypeOK'
        BY <2>3, MoveArrive, TreeTxAssumption DEF MoveInv, TreeInv
      <4> QED
        BY <3>1, <3>2, <4>1 DEF Attached, NoLoop, Loop
    <3> QED
      BY <3>3, NextTreeIfUnlooped
  <2> QED
    BY <2>2, <2>3 DEF Next
<1> QED
  BY <1>1, ChecksCorrect, PTL DEF Spec, RightPathsKeepTree
-----------------------------------------------------------------------------
(* The paths the room starts with, and those an undisturbed commit leaves *)

(* The climb from a row is its parent's, and the row at the end. *)
LEMMA ClimbByParent ==
    ASSUME TreeTxAssumption, NEW S, S \subseteq Ids \ {Root}, NEW par \in [S -> S \cup {Root}],
           NEW n \in S, Head(Climb(par, n)) = Root
    PROVE  Climb(par, n) = Climb(par, par[n]) \o << n >>
<1> DEFINE p == par[n]
<1>0. PICK N : N = Cardinality(Ids)
  OBVIOUS
<1>1. N \in Nat /\ N > 0
  <2>1. Cardinality(Ids) # 0
    BY FS_EmptySet DEF TreeTxAssumption
  <2> QED
    BY <1>0, <2>1, FS_CardinalityType DEF TreeTxAssumption
<1>2. PICK f : ClimbsTo(f, par, n, N, S)
  <2>1. n \in S \cup {Root} /\ S \subseteq Ids
    OBVIOUS
  <2> QED
    BY <1>0, <2>1, ClimbSteps
<1>3. PICK g : ClimbsTo(g, par, p, N, S)
  <2>1. p \in S \cup {Root} /\ S \subseteq Ids
    OBVIOUS
  <2> HIDE DEF p
  <2> QED
    BY <1>0, <2>1, ClimbSteps
<1>4. /\ f[0] = << n >> /\ g[0] = << p >>
      /\ \A k \in 0..(N - 1) : f[k + 1] = Climbed(par, f[k]) /\ g[k + 1] = Climbed(par, g[k])
  <2> HIDE DEF p
  <2>1. 0 \in 0..N /\ \A k \in 0..(N - 1) : k + 1 \in 0..N /\ k + 1 # 0 /\ (k + 1) - 1 = k
    BY <1>1
  <2>2. \A k \in 0..N : f[k] = IF k = 0 THEN << n >> ELSE Climbed(par, f[k - 1])
    BY <1>2 DEF Climbs, ClimbsTo
  <2>3. \A k \in 0..N : g[k] = IF k = 0 THEN << p >> ELSE Climbed(par, g[k - 1])
    BY <1>3 DEF Climbs, ClimbsTo
  <2> QED
    BY <2>1, <2>2, <2>3
<1>5. n \in Ids /\ n # Root
  OBVIOUS
<1>6. ASSUME NEW k \in 0..(N - 1)
      PROVE  /\ Head(g[k] \o << n >>) = Head(g[k])
             /\ Climbed(par, g[k] \o << n >>) = Climbed(par, g[k]) \o << n >>
  <2>1. PICK s : s = g[k]
    OBVIOUS
  <2>2. k \in 0..N
    BY <1>1
  <2>3. /\ s \in Seq(S \cup {Root}) /\ s # << >>
        /\ << n >> \in Seq(S \cup {Root}) /\ Len(<< n >>) = 1
    BY <1>3, <2>1, <2>2 DEF ClimbsTo
  <2>4. Len(s) \in Nat /\ Len(s) > 0
    BY <2>3, EmptySeq, LenProperties
  <2>5. PICK q : q = s \o << n >>
    OBVIOUS
  <2>6. q \in Seq(S \cup {Root}) /\ Len(q) = Len(s) + 1 /\ q[1] = s[1]
    BY <2>3, <2>4, <2>5, ConcatProperties
  <2>7. q # << >> /\ Head(q) = Head(s)
    <3>1. q # << >>
      BY <2>4, <2>6
    <3> QED
      BY <2>3, <2>6, <3>1, HeadTailProperties
  <2>8. CASE Head(s) = Root
    BY <2>1, <2>5, <2>7, <2>8 DEF Climbed
  <2>9. CASE Head(s) # Root
    <3>1. Head(s) \in S
      BY <2>3, <2>9, HeadTailProperties
    <3>2. << par[Head(s)] >> \in Seq(S \cup {Root})
      BY <3>1
    <3>3. << par[Head(s)] >> \o q = (<< par[Head(s)] >> \o s) \o << n >>
      BY <2>3, <2>5, <3>2, ConcatAssociative
    <3> QED
      BY <2>1, <2>5, <2>7, <2>9, <3>3 DEF Climbed
  <2> QED
    BY <2>1, <2>5, <2>7, <2>8, <2>9
<1>7. \A k \in 0..(N - 1) : f[k + 1] = g[k] \o << n >>
  <2> DEFINE T == {k \in 0..(N - 1) : f[k + 1] # g[k] \o << n >>}
  <2> SUFFICES ASSUME T # {} PROVE FALSE
    OBVIOUS
  <2>1. PICK x \in T : \A y \in T : x <= y
    <3>1. T \subseteq Nat
      BY <1>1
    <3> HIDE DEF T
    <3> QED
      BY <3>1, Smallest
  <2>2. x \in 0..(N - 1) /\ f[x + 1] # g[x] \o << n >>
    BY <2>1
  <2>3. CASE x = 0
    <3>1. f[1] = Climbed(par, f[0])
      <4>1. 0 \in 0..(N - 1) /\ 0 + 1 = 1
        BY <1>1
      <4> QED
        BY <1>4, <4>1
    <3>2. f[1] = << par[n] >> \o << n >>
      <4>1. Head(<< n >>) = n
        OBVIOUS
      <4> QED
        BY <1>4, <1>5, <3>1, <4>1 DEF Climbed
    <3>3. x + 1 = 1 /\ g[x] = << par[n] >>
      BY <1>4, <2>3
    <3> QED
      BY <2>2, <3>2, <3>3
  <2>4. CASE x # 0
    <3>1. x - 1 \in 0..(N - 1) /\ x - 1 \notin T /\ (x - 1) + 1 = x
      BY <1>1, <2>1, <2>2, <2>4
    <3>2. f[x] = g[x - 1] \o << n >>
      BY <3>1
    <3>3. f[x + 1] = Climbed(par, g[x - 1] \o << n >>)
      BY <1>4, <2>2, <3>2
    <3>4. g[x] = Climbed(par, g[x - 1])
      BY <1>4, <3>1
    <3> QED
      BY <1>6, <2>2, <3>1, <3>3, <3>4
  <2> QED
    BY <2>3, <2>4
<1>8. N - 1 \in 0..(N - 1) /\ (N - 1) + 1 = N
  BY <1>1
<1>9. f[N] = g[N - 1] \o << n >>
  BY <1>7, <1>8
<1>10. g[N] = g[N - 1]
  <2>1. Head(g[N - 1]) = Root
    BY <1>2, <1>6, <1>8, <1>9 DEF ClimbsTo
  <2> QED
    BY <1>4, <1>8, <2>1 DEF Climbed
<1> QED
  BY <1>2, <1>3, <1>9, <1>10 DEF ClimbsTo

LEMMA ClimbAtRoot ==
    ASSUME TreeTxAssumption, NEW S, S \subseteq Ids, NEW par \in [S -> S \cup {Root}]
    PROVE  Climb(par, Root) = << Root >>
<1>1. PICK N : N = Cardinality(Ids)
  OBVIOUS
<1>2. N \in Nat
  BY <1>1, FS_CardinalityType DEF TreeTxAssumption
<1>3. PICK f : ClimbsTo(f, par, Root, N, S)
  BY <1>1, ClimbSteps
<1>4. \A k \in 0..N : f[k] = IF k = 0 THEN << Root >> ELSE Climbed(par, f[k - 1])
  BY <1>3 DEF Climbs, ClimbsTo
<1>5. \A k \in 0..N : f[k] = << Root >>
  <2> DEFINE T == {k \in 0..N : f[k] # << Root >>}
  <2> SUFFICES ASSUME T # {} PROVE FALSE
    OBVIOUS
  <2>1. PICK x \in T : \A y \in T : x <= y
    <3>1. T \subseteq Nat
      BY <1>2
    <3> HIDE DEF T
    <3> QED
      BY <3>1, Smallest
  <2>2. x \in 0..N /\ f[x] # << Root >> /\ x # 0
    BY <1>4, <2>1
  <2>3. x - 1 \in 0..N /\ x - 1 \notin T
    BY <1>2, <2>1, <2>2
  <2>4. f[x - 1] = << Root >> /\ f[x] = Climbed(par, f[x - 1])
    BY <1>4, <2>2, <2>3
  <2>5. Head(<< Root >>) = Root
    OBVIOUS
  <2> QED
    BY <2>2, <2>4, <2>5 DEF Climbed
<1>6. N \in 0..N
  BY <1>2
<1> QED
  BY <1>3, <1>5, <1>6 DEF ClimbsTo

LEMMA InitFollows == TreeTxAssumption /\ Init => PathsFollowParents
<1> SUFFICES ASSUME TreeTxAssumption, Init PROVE PathsFollowParents
  OBVIOUS
<1>0. PICK S \in SUBSET (Ids \ {Root}) : \E par \in [S -> S \cup {Root}] :
         /\ \A n \in S : Head(Climb(par, n)) = Root
         /\ node = [n \in S \cup {Root} |->
                      [parentId |-> IF n = Root THEN Nobody ELSE par[n],
                       path     |-> IF n = Root THEN << >>
                                    ELSE SubSeq(Climb(par, n), 1, Len(Climb(par, n)) - 1),
                       deleted  |-> FALSE]]
  BY DEF Init
<1>1. PICK par \in [S -> S \cup {Root}] :
         /\ \A n \in S : Head(Climb(par, n)) = Root
         /\ node = [n \in S \cup {Root} |->
                      [parentId |-> IF n = Root THEN Nobody ELSE par[n],
                       path     |-> IF n = Root THEN << >>
                                    ELSE SubSeq(Climb(par, n), 1, Len(Climb(par, n)) - 1),
                       deleted  |-> FALSE]]
  BY <1>0
<1>2. /\ DOMAIN node = S \cup {Root} /\ node[Root].path = << >>
      /\ \A n \in S : /\ n # Root /\ node[n].parentId = par[n]
                      /\ node[n].path = SubSeq(Climb(par, n), 1, Len(Climb(par, n)) - 1)
  BY <1>1
<1>3. S \subseteq Ids /\ S \subseteq Ids \ {Root} /\ Root \in Ids
  BY DEF TreeTxAssumption
<1>4. ASSUME NEW m \in S PROVE node[m].path = childPath(par[m])
  <2>1. PICK p : p = par[m]
    OBVIOUS
  <2>2. p \in S \cup {Root} /\ p \in Ids
    BY <1>1, <1>3, <1>4, <2>1
  <2>3. PICK c : c = Climb(par, p)
    OBVIOUS
  <2>4. c \in Seq(Ids) /\ c # << >> /\ c[Len(c)] = p
    BY <1>1, <1>3, <2>2, <2>3, ClimbTyped
  <2>5. Climb(par, m) = c \o << m >>
    BY <1>1, <1>3, <1>4, <2>1, <2>3, ClimbByParent
  <2>6. c \o << m >> = Append(c, m)
    BY <1>3, <1>4, <2>4, AppendIsConcat
  <2>7. PICK q : q = Append(c, m)
    OBVIOUS
  <2>8. /\ q \in Seq(Ids) /\ Len(q) = Len(c) + 1 /\ Len(c) \in Nat
        /\ \A i \in 1..Len(c) : q[i] = c[i]
    BY <1>3, <1>4, <2>4, <2>7, AppendProperties, LenProperties
  <2>9. node[m].path = SubSeq(q, 1, Len(c))
    <3>1. node[m].path = SubSeq(q, 1, Len(q) - 1)
      BY <1>2, <1>4, <2>5, <2>6, <2>7
    <3> QED
      BY <2>8, <3>1
  <2>10. SubSeq(q, 1, Len(c)) = c
    <3>1. /\ SubSeq(q, 1, Len(c)) \in Seq(Ids) /\ Len(SubSeq(q, 1, Len(c))) = Len(c)
          /\ \A i \in 1..Len(c) : SubSeq(q, 1, Len(c))[i] = c[i]
      BY <2>8, Prefix
    <3> QED
      BY <2>4, <3>1, SeqEqual
  <2>11. c = Append(node[p].path, p)
    <3>1. c = Append(SubSeq(c, 1, Len(c) - 1), p)
      BY <2>4, LastOff
    <3>2. CASE p \in S
      BY <1>2, <2>3, <3>1, <3>2
    <3>3. CASE p \notin S
      <4>1. p = Root
        BY <2>2, <3>3
      <4>2. c = << Root >>
        BY <1>1, <1>3, <2>3, <4>1, ClimbAtRoot
      <4> QED
        BY <1>2, <1>3, <4>1, <4>2
    <3> QED
      BY <3>2, <3>3
  <2> QED
    BY <2>1, <2>9, <2>10, <2>11 DEF childPath
<1>5. \A m \in S : node[m].parentId \in DOMAIN node
  BY <1>1, <1>2
<1> QED
  BY <1>2, <1>4, <1>5 DEF PathsFollowParents

(* Splicing a path and appending to it can be done in either order. *)
LEMMA SpliceAppend ==
    ASSUME NEW p \in Seq(Ids), NEW x \in Ids, NEW k \in Nat, k <= Len(p), NEW new \in Seq(Ids)
    PROVE  new \o SubSeq(Append(p, x), k + 1, Len(Append(p, x)))
             = Append(new \o SubSeq(p, k + 1, Len(p)), x)
<1>1. PICK q : q = Append(p, x)
  OBVIOUS
<1>2. /\ q \in Seq(Ids) /\ Len(q) = Len(p) + 1 /\ q[Len(p) + 1] = x /\ Len(p) \in Nat
      /\ \A i \in 1..Len(p) : q[i] = p[i]
  BY <1>1, AppendProperties, LenProperties
<1>3. PICK r, s : r = SubSeq(p, k + 1, Len(p)) /\ s = SubSeq(q, k + 1, Len(q))
  OBVIOUS
<1>4. /\ r \in Seq(Ids) /\ Len(r) = Len(p) - k
      /\ \A i \in 1..(Len(p) - k) : r[i] = p[k + i]
  <2>1. \A i \in (k + 1)..Len(p) : p[i] \in Ids
    BY <1>2, ElementOfSeq
  <2>2. /\ k + 1 \in Int /\ Len(p) \in Int
        /\ Len(p) - (k + 1) + 1 = Len(p) - k
        /\ \A i \in 1..(Len(p) - k) : (k + 1) + i - 1 = k + i
    BY <1>2
  <2>3. /\ r \in Seq(Ids) /\ Len(r) = IF k + 1 <= Len(p) THEN Len(p) - (k + 1) + 1 ELSE 0
        /\ \A i \in 1..(Len(p) - (k + 1) + 1) : r[i] = p[(k + 1) + i - 1]
    BY <1>3, <2>1, <2>2, SubSeqProperties
  <2>4. Len(r) = Len(p) - k
    BY <1>2, <2>3
  <2> QED
    BY <2>2, <2>3, <2>4
<1>5. /\ s \in Seq(Ids) /\ Len(s) = Len(p) - k + 1
      /\ \A i \in 1..(Len(p) - k + 1) : s[i] = q[k + i]
  <2>1. \A i \in (k + 1)..Len(q) : q[i] \in Ids
    BY <1>2, ElementOfSeq
  <2>2. /\ k + 1 \in Int /\ Len(q) \in Int /\ k + 1 <= Len(q)
        /\ Len(q) - (k + 1) + 1 = Len(p) - k + 1
        /\ \A i \in 1..(Len(p) - k + 1) : (k + 1) + i - 1 = k + i
    BY <1>2
  <2>3. /\ s \in Seq(Ids) /\ Len(s) = Len(q) - (k + 1) + 1
        /\ \A i \in 1..(Len(q) - (k + 1) + 1) : s[i] = q[(k + 1) + i - 1]
    BY <1>3, <2>1, <2>2, SubSeqProperties
  <2> QED
    BY <1>2, <2>2, <2>3
<1>6. s = Append(r, x)
  <2>1. PICK a : a = Append(r, x)
    OBVIOUS
  <2>2. /\ a \in Seq(Ids) /\ Len(a) = Len(r) + 1 /\ a[Len(r) + 1] = x
        /\ \A i \in 1..Len(r) : a[i] = r[i]
    BY <1>4, <2>1, AppendProperties
  <2>3. ASSUME NEW i \in 1..Len(s) PROVE s[i] = a[i]
    <3>1. CASE i = Len(r) + 1
      <4>1. k + i = Len(p) + 1 /\ s[i] = q[k + i]
        BY <1>2, <1>4, <1>5, <3>1
      <4> QED
        BY <1>2, <2>2, <3>1, <4>1
    <3>2. CASE i # Len(r) + 1
      <4>1. i \in 1..Len(r) /\ k + i \in 1..Len(p) /\ s[i] = q[k + i]
        BY <1>2, <1>4, <1>5, <3>2
      <4> QED
        BY <1>2, <1>4, <2>2, <4>1
    <3> QED
      BY <3>1, <3>2
  <2>4. Len(s) = Len(a)
    BY <1>2, <1>4, <1>5, <2>2
  <2> QED
    BY <1>5, <2>1, <2>2, <2>3, <2>4, SeqEqual
<1>7. new \o Append(r, x) = Append(new \o r, x)
  <2>1. Append(r, x) = r \o << x >> /\ << x >> \in Seq(Ids) /\ new \o r \in Seq(Ids)
    BY <1>4, AppendIsConcat, ConcatProperties
  <2>2. Append(new \o r, x) = (new \o r) \o << x >>
    BY <2>1, AppendIsConcat
  <2>3. new \o (r \o << x >>) = (new \o r) \o << x >>
    BY <1>4, <2>1, ConcatAssociative
  <2> QED
    BY <2>1, <2>2, <2>3
<1> QED
  BY <1>1, <1>3, <1>6, <1>7

(* The parent of a row below n is n, or below n. *)
LEMMA BelowUp ==
    ASSUME TypeOK, PathsFollowParents, NEW n \in DOMAIN node, NEW m \in DOMAIN node \ {Root},
           Tree!StartsWith(node[m].path, childPath(n))
    PROVE  \/ node[m].parentId = n
           \/ Tree!StartsWith(node[node[m].parentId].path, childPath(n))
<1>1. PICK up, p, q : up = node[m].parentId /\ p = node[m].path /\ q = childPath(n)
  OBVIOUS
<1>2. up \in DOMAIN node /\ p = childPath(up)
  BY <1>1 DEF PathsFollowParents
<1>3. PICK u : u = node[up].path
  OBVIOUS
<1>4. /\ Len(p) = Len(u) + 1 /\ p[Len(u) + 1] = up /\ Len(u) \in Nat
      /\ \A i \in 1..Len(u) : p[i] = u[i]
  BY <1>2, <1>3, RowTyped, LenProperties
<1>5. /\ Len(q) = Len(node[n].path) + 1 /\ q[Len(q)] = n /\ Len(node[n].path) \in Nat
  BY <1>1, RowTyped, LenProperties
<1>6. Len(q) <= Len(p) /\ \A i \in 1..Len(q) : p[i] = q[i]
  BY <1>1 DEF Tree!StartsWith
<1>7. CASE Len(q) = Len(p)
  BY <1>1, <1>4, <1>5, <1>6, <1>7
<1>8. CASE Len(q) # Len(p)
  <2>1. Len(q) <= Len(u) /\ \A i \in 1..Len(q) : u[i] = q[i]
    BY <1>4, <1>5, <1>6, <1>8
  <2> QED
    BY <1>1, <1>3, <2>1 DEF Tree!StartsWith
<1> QED
  BY <1>7, <1>8

(* Commits that leave parents and paths alone. *)
LEMMA SameFollows ==
    ASSUME PathsFollowParents, DOMAIN node' = DOMAIN node,
           \A m \in DOMAIN node : /\ node'[m].parentId = node[m].parentId
                                  /\ node'[m].path = node[m].path
    PROVE  PathsFollowParents'
<1>1. ASSUME NEW m \in DOMAIN node \ {Root}
      PROVE  /\ node'[m].parentId \in DOMAIN node
             /\ node'[m].path = Append(node'[node'[m].parentId].path, node'[m].parentId)
  <2>1. node[m].parentId \in DOMAIN node /\ node[m].path = childPath(node[m].parentId)
    BY DEF PathsFollowParents
  <2> QED
    BY <2>1 DEF childPath
<1> QED
  BY <1>1 DEF PathsFollowParents, childPath

LEMMA RemoveFollows ==
    ASSUME TypeOK, PathsFollowParents, NEW t \in Reqs, Progress(t),
           Commit(t), tx[t].op = "remove"
    PROVE  PathsFollowParents'
<1>1. /\ tx[t].pc = "commit" /\ node' = [m \in DOMAIN node |-> View(t, m)]
  BY CommitDoes
<1>2. dirty[t] = [m \in LiveBelow(t) \cup {tx[t].n} |-> Marked(m)]
  BY <1>1 DEF Progress, Reached
<1>3. ASSUME NEW m \in DOMAIN node
      PROVE  View(t, m).parentId = node[m].parentId /\ View(t, m).path = node[m].path
  <2>1. View(t, m) \in {node[m], Marked(m)}
    BY <1>2 DEF View
  <2>2. PICK v : v = node[m]
    OBVIOUS
  <2>3. v = [parentId |-> v.parentId, path |-> v.path, deleted |-> v.deleted]
    BY <2>2, RowTyped DEF Row
  <2>4. [v EXCEPT !.deleted = TRUE].parentId = v.parentId
        /\ [v EXCEPT !.deleted = TRUE].path = v.path
    BY <2>3
  <2> QED
    BY <2>1, <2>2, <2>4 DEF Marked
<1> QED
  BY <1>1, <1>3, SameFollows

(* The rows an undisturbed move leaves. *)
LEMMA MovedRows ==
    ASSUME TypeOK, AllStaged, NEW t \in Reqs, Progress(t), Commit(t), tx[t].op = "move",
           dirty[t] # NoRows
    PROVE  /\ Accepted(t) /\ tx[t].n \in DOMAIN node /\ tx[t].d \in DOMAIN node
           /\ tx[t].n # Root /\ DOMAIN node' = DOMAIN node
           /\ node'[tx[t].n].parentId = tx[t].d
           /\ node'[tx[t].n].path = childPath(tx[t].d)
           /\ \A m \in Subtree(t) \ {tx[t].n} :
                /\ node'[m].parentId = node[m].parentId
                /\ node'[m].path = Append(childPath(tx[t].d), tx[t].n)
                     \o SubSeq(node[m].path, Len(childPath(tx[t].n)) + 1, Len(node[m].path))
           /\ \A m \in DOMAIN node : m \notin Subtree(t) /\ m # tx[t].n => node'[m] = node[m]
<1> DEFINE n == tx[t].n
           d == tx[t].d
           moved == Subtree(t) \cup {n}
           carry(m) == Append(childPath(d), n)
                         \o SubSeq(node[m].path, Len(childPath(n)) + 1, Len(node[m].path))
<1>1. /\ tx[t].pc = "commit" /\ n \in DOMAIN node /\ n # Root /\ d \in DOMAIN node
      /\ node' = [m \in DOMAIN node |-> View(t, m)]
  BY CommitDoes DEF AllStaged, Staged
<1>2. Accepted(t) /\ dirty[t] = [m \in moved |-> Carried(t, m)]
  BY <1>1 DEF Progress, Reached
<1>3. \A m \in DOMAIN node : node'[m] = IF m \in moved THEN Carried(t, m) ELSE node[m]
  BY <1>1, <1>2 DEF View
<1>4. ASSUME NEW m \in DOMAIN node
      PROVE  /\ m = n => Carried(t, m).parentId = d /\ Carried(t, m).path = childPath(d)
             /\ m # n => Carried(t, m).parentId = node[m].parentId /\ Carried(t, m).path = carry(m)
  <2>1. PICK v : v = node[m]
    OBVIOUS
  <2>2. v = [parentId |-> v.parentId, path |-> v.path, deleted |-> v.deleted]
    BY <2>1, RowTyped DEF Row
  <2>3. CASE m = n
    <3>1. Carried(t, m) = [v EXCEPT !.parentId = d, !.path = childPath(d)]
      BY <2>1, <2>3 DEF Carried
    <3> HIDE DEF d
    <3> QED
      BY <2>2, <2>3, <3>1
  <2>4. CASE m # n
    <3>1. PICK p : p = carry(m)
      OBVIOUS
    <3>2. Carried(t, m) = [v EXCEPT !.path = p]
      BY <2>1, <2>4, <3>1 DEF Carried
    <3> QED
      BY <2>1, <2>2, <2>4, <3>1, <3>2
  <2> QED
    BY <2>3, <2>4
<1>5. Subtree(t) \subseteq DOMAIN node /\ DOMAIN node' = DOMAIN node
  BY <1>1 DEF Subtree
<1> HIDE DEF carry
<1>6. node'[n].parentId = d /\ node'[n].path = childPath(d)
  BY <1>1, <1>3, <1>4
<1>7. \A m \in Subtree(t) \ {n} : node'[m].parentId = node[m].parentId /\ node'[m].path = carry(m)
  BY <1>3, <1>4, <1>5
<1>8. \A m \in DOMAIN node : m \notin moved => node'[m] = node[m]
  BY <1>3
<1> QED
  BY <1>1, <1>2, <1>5, <1>6, <1>7, <1>8 DEF carry

LEMMA MoveFollows ==
    ASSUME TypeOK, AllStaged, RootStays, PathsFollowParents, NEW t \in Reqs, Progress(t),
           Commit(t), tx[t].op = "move"
    PROVE  PathsFollowParents'
<1>1. CASE dirty[t] = NoRows
  <2>1. node' = [m \in DOMAIN node |-> View(t, m)]
    BY CommitDoes
  <2>2. \A m \in DOMAIN node : View(t, m) = node[m]
    BY <1>1 DEF View, NoRows
  <2>3. DOMAIN node' = DOMAIN node /\ \A m \in DOMAIN node : node'[m] = node[m]
    BY <2>1, <2>2
  <2> QED
    BY <2>3, SameFollows
<1>2. CASE dirty[t] # NoRows
  <2>1. PICK n, d : n = tx[t].n /\ d = tx[t].d
    OBVIOUS
  <2>2. PICK sub : sub = Subtree(t)
    OBVIOUS
  <2>3. PICK k, new : k = Len(childPath(n)) /\ new = Append(childPath(d), n)
    OBVIOUS
  <2>4. /\ n \in DOMAIN node /\ d \in DOMAIN node /\ n # Root
        /\ DOMAIN node' = DOMAIN node
        /\ node'[n].parentId = d /\ node'[n].path = childPath(d)
        /\ \A m \in sub \ {n} :
             /\ node'[m].parentId = node[m].parentId
             /\ node'[m].path = new \o SubSeq(node[m].path, k + 1, Len(node[m].path))
        /\ \A m \in DOMAIN node : m \notin sub /\ m # n => node'[m] = node[m]
    BY <1>2, <2>1, <2>2, <2>3, MovedRows
  <2>5. /\ d # n /\ ~Tree!StartsWith(node[d].path, childPath(n))
        /\ sub = {m \in DOMAIN node : Tree!StartsWith(node[m].path, childPath(n))}
        /\ n \notin sub
    BY <1>2, <2>1, <2>2, MovedRows, NotBelowItself DEF Accepted, Subtree
  <2>6. \A m \in DOMAIN node \ {Root} :
           /\ node[m].parentId \in DOMAIN node
           /\ node[m].path = Append(node[node[m].parentId].path, node[m].parentId)
    BY DEF PathsFollowParents, childPath
  <2>7. /\ k \in Nat /\ new \in Seq(Ids) /\ n \in Ids /\ childPath(d) \in Seq(Ids)
        /\ childPath(n) \in Seq(Ids)
    BY <2>3, <2>4, RowTyped, LenProperties, AppendProperties
  <2> DEFINE Follows(m) ==
               /\ node'[m].parentId \in DOMAIN node
               /\ node'[m].path = Append(node'[node'[m].parentId].path, node'[m].parentId)
  <2>8. Follows(n)
    <3>1. node'[d] = node[d]
      BY <2>4, <2>5
    <3> QED
      BY <2>4, <3>1 DEF childPath
  <2>9. ASSUME NEW m \in DOMAIN node \ {Root}, m \in sub PROVE Follows(m)
    <3>1. PICK up : up = node[m].parentId
      OBVIOUS
    <3>2. up \in DOMAIN node /\ node[m].path = childPath(up) /\ m # n
      BY <2>5, <2>6, <2>9, <3>1 DEF childPath
    <3>3. /\ node'[m].parentId = up
          /\ node'[m].path = new \o SubSeq(childPath(up), k + 1, Len(childPath(up)))
      BY <2>4, <2>9, <3>1, <3>2
    <3>4. CASE up = n
      <4>1. SubSeq(childPath(n), k + 1, k) = << >>
        BY <2>7, SubSeqEmpty
      <4>2. node'[m].path = new
        BY <2>3, <2>7, <3>3, <3>4, <4>1, ConcatEmptySeq
      <4> QED
        BY <2>3, <2>4, <3>2, <3>3, <3>4, <4>2
    <3>5. CASE up # n
      <4>1. up \in sub /\ k <= Len(node[up].path)
        <5>1. Tree!StartsWith(node[up].path, childPath(n))
          BY <2>4, <2>5, <2>9, <3>1, <3>5, BelowUp
        <5> QED
          BY <2>3, <2>5, <3>2, <5>1 DEF Tree!StartsWith
      <4>2. node'[up].path = new \o SubSeq(node[up].path, k + 1, Len(node[up].path))
        BY <2>4, <3>5, <4>1
      <4>3. up \in Ids /\ node[up].path \in Seq(Ids)
        BY <3>2, RowTyped
      <4>4. node'[m].path = Append(new \o SubSeq(node[up].path, k + 1, Len(node[up].path)), up)
        <5>1. PICK p : p = node[up].path
          OBVIOUS
        <5>2. p \in Seq(Ids) /\ k <= Len(p) /\ childPath(up) = Append(p, up)
          BY <4>1, <4>3, <5>1 DEF childPath
        <5>3. new \o SubSeq(Append(p, up), k + 1, Len(Append(p, up)))
                = Append(new \o SubSeq(p, k + 1, Len(p)), up)
          BY <2>7, <4>3, <5>2, SpliceAppend
        <5> QED
          BY <3>3, <5>1, <5>2, <5>3
      <4> QED
        BY <3>2, <3>3, <4>2, <4>4
    <3> QED
      BY <3>4, <3>5
  <2>10. ASSUME NEW m \in DOMAIN node \ {Root}, m \notin sub, m # n PROVE Follows(m)
    <3>1. PICK up : up = node[m].parentId
      OBVIOUS
    <3>2. up # n /\ up \notin sub /\ up \in DOMAIN node
      BY <2>4, <2>5, <2>10, <3>1, OutsideUp
    <3>3. node'[m] = node[m] /\ node'[up] = node[up]
      BY <2>4, <2>10, <3>2
    <3> QED
      BY <2>6, <3>1, <3>2, <3>3
  <2>11. \A m \in DOMAIN node' \ {Root} : Follows(m)
    BY <2>4, <2>8, <2>9, <2>10
  <2> QED
    BY <2>4, <2>11 DEF PathsFollowParents, childPath
<1> QED
  BY <1>1, <1>2

LEMMA CreateFollows ==
    ASSUME MoveInv, PathsFollowParents, NEW t \in Reqs, Progress(t), CreateInsert(t)
    PROVE  PathsFollowParents'
<1>1. TypeOK
  BY DEF MoveInv, TreeInv
<1>2. PICK n, d : n = tx[t].n /\ d = tx[t].d
  OBVIOUS
<1>3. /\ d \notin DOMAIN node /\ n \in DOMAIN node
      /\ DOMAIN node' = DOMAIN node \cup {d} /\ node'[d].parentId = n
      /\ \A m \in DOMAIN node : node'[m] = node[m]
  BY <1>2, CreateParents
<1>4. tx[t].path = childPath(n)
  BY <1>1, <1>2, CreateInsertDoes DEF Progress, Reached
<1>5. node'[d].path = childPath(n)
  <2>1. PICK row : row = [parentId |-> n, path |-> childPath(n), deleted |-> FALSE]
    OBVIOUS
  <2>2. node' = [m \in DOMAIN node \cup {d} |-> IF m = d THEN row ELSE node[m]]
    BY <1>1, <1>2, <1>4, <2>1, CreateInsertDoes
  <2> QED
    BY <2>1, <2>2
<1>6. \A m \in DOMAIN node \ {Root} :
         /\ node[m].parentId \in DOMAIN node
         /\ node[m].path = Append(node[node[m].parentId].path, node[m].parentId)
  BY DEF PathsFollowParents, childPath
<1>7. ASSUME NEW m \in DOMAIN node' \ {Root}
      PROVE  /\ node'[m].parentId \in DOMAIN node'
             /\ node'[m].path = Append(node'[node'[m].parentId].path, node'[m].parentId)
  <2>1. CASE m = d
    BY <1>3, <1>5, <2>1 DEF childPath
  <2>2. CASE m # d
    BY <1>3, <1>6, <1>7, <2>2
  <2> QED
    BY <2>1, <2>2
<1> QED
  BY <1>7 DEF PathsFollowParents, childPath
-----------------------------------------------------------------------------
(* Two requests *)

(* Until one of two requests is done the table is the one both started     *)
(* from, and each is as far as if it were alone; until both are, the paths *)
(* are right.                                                              *)
PairInv ==
    /\ NoLoop
    /\ (\E t \in Reqs : tx[t].pc # "done") => PathsFollowParents
    /\ (\A t \in Reqs : tx[t].pc # "done") => \A t \in InFlight : Progress(t)

TwoRequests == \E t, u : Reqs = {t, u}

LEMMA PairInit == TreeTxAssumption /\ Init => PairInv
<1> SUFFICES ASSUME TreeTxAssumption, Init PROVE PairInv
  OBVIOUS
<1>1. PathsFollowParents /\ TypeOK
  BY InitFollows, InitInv DEF TreeInv
<1>2. InFlight = {}
  BY DEF Init, InFlight
<1> QED
  BY <1>1, <1>2, PathsUnloop DEF PairInv

LEMMA PairStep ==
    ASSUME TreeTxAssumption, TwoRequests, MoveInv, PairInv, NEW t \in Reqs, Step(t) \/ Abort(t)
    PROVE  PairInv'
<1>1. /\ TypeOK /\ AllStaged /\ LocksHeld /\ RootStays
      /\ t \in InFlight /\ tx[t].pc # "done" /\ InFlight \subseteq Reqs
  BY StepShape DEF MoveInv, TreeInv, InFlight
<1>2. PathsFollowParents
  BY <1>1 DEF PairInv
<1>3. NoLoop'
  BY <1>2, UnloopStep
<1>4. /\ tx'[t].op = tx[t].op /\ tx'[t].n = tx[t].n /\ tx'[t].d = tx[t].d
      /\ \A u \in Reqs \ {t} : tx'[u] = tx[u] /\ dirty'[u] = dirty[u]
  BY <1>1, Flow, StepShape
<1>5. \/ node' = node
      \/ /\ Commit(t) \/ CreateInsert(t)
         /\ tx'[t].pc = "done"
  <2>1. node' = node \/ Commit(t) \/ CreateInsert(t)
    BY <1>1, TableChanges
  <2>2. Commit(t) => tx'[t].pc = "done"
    BY <1>1, CommitDoes, DoesParts
  <2>3. CreateInsert(t) => tx'[t].pc = "done"
    BY <1>1, CreateInsertDoes, DoesParts
  <2> QED
    BY <2>1, <2>2, <2>3
<1>6. ASSUME NEW u \in Reqs, tx'[u].pc # "done" PROVE PathsFollowParents'
  <2>1. CASE node' = node
    BY <1>2, <2>1, SameFollows
  <2>2. CASE tx'[t].pc = "done" /\ (Commit(t) \/ CreateInsert(t))
    <3>1. u # t /\ tx[u].pc # "done"
      BY <1>4, <1>6, <2>2
    <3>2. \A v \in Reqs : v = t \/ v = u
      BY <3>1 DEF TwoRequests
    <3>3. Progress(t)
      BY <1>1, <3>1, <3>2 DEF PairInv
    <3>4. CASE CreateInsert(t)
      BY <1>2, <3>3, <3>4, CreateFollows
    <3>5. CASE Commit(t)
      <4>1. tx[t].op \in {"move", "remove"}
        BY <1>1, <3>5, CommitDoes DEF AllStaged, Staged
      <4> QED
        BY <1>1, <1>2, <3>3, <3>5, <4>1, MoveFollows, RemoveFollows
    <3> QED
      BY <2>2, <3>4, <3>5
  <2> QED
    BY <1>5, <2>1, <2>2
<1>7. ASSUME \A u \in Reqs : tx'[u].pc # "done", NEW u \in Reqs, (u \in InFlight)'
      PROVE  Progress(u)'
  <2>1. tx'[t].pc # "done" /\ node' = node
    BY <1>5, <1>7
  <2>2. \A v \in Reqs : tx[v].pc # "done"
    BY <1>1, <1>4, <1>7
  <2>3. CASE u = t
    BY <1>1, <2>1, <2>2, <2>3, ProgressStep DEF PairInv
  <2>4. CASE u # t
    <3>1. u \in InFlight /\ tx'[u] = tx[u] /\ dirty'[u] = dirty[u]
      BY <1>4, <1>7, <2>4 DEF InFlight
    <3>2. Reached(u, tx[u].pc, tx[u].path, tx[u].todo, dirty[u])
      BY <2>2, <3>1 DEF PairInv, Progress
    <3>3. Reached(u, tx'[u].pc, tx'[u].path, tx'[u].todo, dirty'[u])
      BY <3>1, <3>2
    <3> QED
      BY <2>1, <3>1, <3>3, SameTable
  <2> QED
    BY <2>3, <2>4
<1>8. InFlight' \subseteq Reqs
  BY DEF InFlight
<1> QED
  BY <1>3, <1>6, <1>7, <1>8 DEF PairInv

LEMMA PairArrive ==
    ASSUME TreeTxAssumption, MoveInv, PairInv, NEW t \in Reqs, NEW op \in Ops,
           NEW n \in DOMAIN node, NEW d \in Ids, Arrive(t, op, n, d)
    PROVE  PairInv'
<1>1. TypeOK /\ tx[t].pc = "new" /\ node' = node /\ dirty' = dirty
  BY DEF MoveInv, TreeInv, Arrive
<1>2. /\ tx'[t].pc \in {"parent", "guard"}
      /\ \A u \in Reqs \ {t} : /\ tx'[u].n = tx[u].n /\ tx'[u].d = tx[u].d
                               /\ tx'[u].pc = tx[u].pc /\ tx'[u].op = tx[u].op
                               /\ tx'[u].path = tx[u].path /\ tx'[u].todo = tx[u].todo
  BY <1>1, ArriveParts
<1>3. PathsFollowParents /\ NoLoop
  BY <1>1 DEF PairInv
<1>4. PathsFollowParents' /\ NoLoop'
  BY <1>1, <1>3, SameFollows DEF NoLoop, Loop
<1>5. ASSUME \A u \in Reqs : tx'[u].pc # "done", NEW u \in Reqs, (u \in InFlight)'
      PROVE  Progress(u)'
  <2>1. \A v \in Reqs : tx[v].pc # "done"
    BY <1>1, <1>2, <1>5
  <2>2. CASE u = t
    BY <1>2, <2>2 DEF Progress, Reached
  <2>3. CASE u # t
    <3>1. u \in InFlight
      BY <1>2, <1>5, <2>3 DEF InFlight
    <3>2. Reached(u, tx[u].pc, tx[u].path, tx[u].todo, dirty[u])
      BY <2>1, <3>1 DEF PairInv, Progress
    <3>3. Reached(u, tx'[u].pc, tx'[u].path, tx'[u].todo, dirty'[u])
      BY <1>1, <1>2, <2>3, <3>2
    <3> QED
      BY <1>1, <1>2, <2>3, <3>3, SameTable
  <2> QED
    BY <2>2, <2>3
<1>6. InFlight' \subseteq Reqs
  BY DEF InFlight
<1> QED
  BY <1>4, <1>5, <1>6 DEF PairInv

LEMMA PairNext ==
    ASSUME TreeTxAssumption, TwoRequests, MoveInv, PairInv, [Next]_vars
    PROVE  PairInv'
<1>1. CASE \E t \in Reqs : \E op \in Ops, n \in DOMAIN node, d \in Ids : Arrive(t, op, n, d)
  BY <1>1, PairArrive
<1>2. CASE \E t \in Reqs : Step(t) \/ Abort(t)
  BY <1>2, PairStep
<1>3. CASE UNCHANGED vars
  <2>1. node' = node /\ dirty' = dirty /\ tx' = tx
    BY <1>3 DEF vars
  <2>2. NoLoop'
    BY <2>1 DEF PairInv, NoLoop, Loop
  <2>3. (\E t \in Reqs : tx'[t].pc # "done") => PathsFollowParents'
    BY <2>1, SameFollows DEF PairInv
  <2>4. ASSUME \A t \in Reqs : tx'[t].pc # "done", NEW u \in Reqs, (u \in InFlight)'
        PROVE  Progress(u)'
    <3>1. Reached(u, tx[u].pc, tx[u].path, tx[u].todo, dirty[u])
      BY <2>1, <2>4 DEF PairInv, Progress, InFlight
    <3>2. Reached(u, tx'[u].pc, tx'[u].path, tx'[u].todo, dirty'[u])
      BY <2>1, <3>1
    <3> QED
      BY <2>1, <3>2, SameTable
  <2> QED
    BY <2>2, <2>3, <2>4 DEF PairInv, InFlight
<1> QED
  BY <1>1, <1>2, <1>3 DEF Next

(* Any two requests, however they interleave, leave one tree: the first to *)
(* commit found the table it had read, so the second checks right paths.   *)
THEOREM PairsKeepTree ==
    ASSUME TwoRequests
    PROVE  Spec => []OneTree
<1>1. Init => MoveInv /\ PairInv
  BY MoveInit, PairInit, TreeTxAssumption
<1>2. MoveInv /\ PairInv /\ [Next]_vars => MoveInv' /\ PairInv'
  BY MoveNext, PairNext, TreeTxAssumption
<1>3. MoveInv /\ PairInv => OneTree
  BY TreeIfUnlooped DEF MoveInv, PairInv, TreeInv, RootStays
<1> QED
  BY <1>1, <1>2, <1>3, PTL DEF Spec
=============================================================================
