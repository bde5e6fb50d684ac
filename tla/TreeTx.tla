------------------------------- MODULE TreeTx -------------------------------
(***************************************************************************)
(* The handlers of RoomTree as the database runs them: several requests at *)
(* once, each a sequence of SQL statements at READ COMMITTED.              *)
(*                                                                         *)
(* A writing statement fixes the rows to visit when it starts (todo), then *)
(* visits them one at a time: it waits for the row lock, reads the newest  *)
(* committed version, and writes only if that version still satisfies the  *)
(* WHERE clause.  Rows that begin to match while it runs are not visited.  *)
(* Locks and uncommitted rows (dirty) last until commit or rollback.       *)
(*                                                                         *)
(* One room, folders only: types, names and rooms are guarded the same way *)
(* as in RoomTree and play no part in the interleavings.  Postgres itself  *)
(* is external; its rules are those the comments of move.service.ts and    *)
(* delete.service.ts rely on.                                              *)
(***************************************************************************)
EXTENDS Integers, Sequences, FiniteSets

CONSTANTS
    Ids, Root,
    Reqs,           \* the requests, each handled once
    Ops,            \* the operations they may ask for
    Nobody          \* the holder of a free lock

ASSUME TreeTxAssumption ==
    /\ IsFiniteSet(Ids)
    /\ Root \in Ids
    /\ Nobody \notin Reqs \cup Ids
    /\ Ops \subseteq {"move", "remove", "create"}

VARIABLES
    node,    \* the committed rows
    lock,    \* lock[n]: the request that holds row n's lock
    dirty,   \* dirty[t]: the rows t has written and not committed
    tx       \* tx[t]: what t was asked, how far it is, what it has read

vars == << node, lock, dirty, tx >>

NoRows == [m \in {} |-> m]

(* The committed table as RoomTree sees it. *)
Tree == INSTANCE RoomTree WITH
    Names    <- Ids,
    NoParent <- Nobody,
    node     <- [n \in DOMAIN node |->
                   [roomId |-> Root, parentId |-> node[n].parentId,
                    type |-> "FOLDER", name |-> n, path |-> node[n].path,
                    status |-> "ACTIVE", deleted |-> node[n].deleted]]

Live(n) == ~node[n].deleted
(* Mutant: the parent's own path is left out. *)
childPath_short(n) == << n >>

childPath(n) == Append(node[n].path, n)

(* What t reads: its own uncommitted version of a row, or the committed one. *)
View(t, m) == IF m \in DOMAIN dirty[t] THEN dirty[t][m] ELSE node[m]

InFlight == {t \in Reqs : tx[t].pc \notin {"new", "done"}}

Goto(t, pc) == tx' = [tx EXCEPT ![t].pc = pc]
Begin(t, pc, rows) == tx' = [tx EXCEPT ![t].pc = pc, ![t].todo = rows]

-----------------------------------------------------------------------------
(* Row locks *)

Obtainable(t, m) == lock[m] \in {t, Nobody}

Released(t) == [m \in Ids |-> IF lock[m] = t THEN Nobody ELSE lock[m]]

(* Visiting one row of a writing statement: lock it, and write the row     *)
(* given if its newest version still matches.                              *)
Visit(t, m, matches, row) ==
    /\ m \in tx[t].todo
    /\ Obtainable(t, m)
    /\ lock' = [lock EXCEPT ![m] = t]
    /\ tx' = [tx EXCEPT ![t].todo = @ \ {m}]
    /\ dirty' = IF matches
                THEN [dirty EXCEPT ![t] = [x \in DOMAIN @ \cup {m} |->
                                             IF x = m THEN row ELSE @[x]]]
                ELSE dirty
    /\ UNCHANGED node

Rollback(t) ==
    /\ lock' = Released(t)
    /\ dirty' = [dirty EXCEPT ![t] = NoRows]
    /\ Begin(t, "done", {})
    /\ UNCHANGED node

Commit(t) ==
    /\ tx[t].pc = "commit"
    /\ node' = [m \in DOMAIN node |-> View(t, m)]
    /\ lock' = Released(t)
    /\ dirty' = [dirty EXCEPT ![t] = NoRows]
    /\ Goto(t, "done")

(* The rows of a transaction that is inside $transaction. *)
InTransaction(t) == tx[t].pc \in {"locking", "paths", "marking", "self", "commit"}

(* The row a request wants next and cannot have. *)
WaitsFor(t) ==
    LET wanted == IF tx[t].pc = "self" THEN {tx[t].n} ELSE tx[t].todo
    IN  {lock[m] : m \in {x \in wanted : ~Obtainable(t, x)}}

(* t is caught among requests that all wait for one another. *)
Deadlocked(t) ==
    \E S \in SUBSET Reqs :
        /\ t \in S
        /\ \A u \in S : InTransaction(u) /\ WaitsFor(u) \cap S # {}

(* The detector's victim, or an interactive transaction past its timeout:  *)
(* everything it wrote is rolled back and the request answers 500.         *)
Abort(t) == InTransaction(t) /\ Rollback(t)

-----------------------------------------------------------------------------
(* A request arrives.  n is the node it names; d the destination of a move *)
(* or the id of the folder to create.  alone (of the model only) says that *)
(* no other request has been under way at the same time.                   *)
Arrive(t, op, n, d) ==
    /\ tx[t].pc = "new"
    /\ op \in Ops
    /\ op = "create" => d \notin DOMAIN node \cup {tx[u].d : u \in Reqs}
    /\ op = "move" => d \in DOMAIN node
    /\ op = "remove" => d = n
    /\ tx' = [u \in Reqs |->
                 IF u = t
                 THEN [tx[t] EXCEPT !.op = op, !.n = n, !.d = d, !.alone = InFlight = {},
                                    !.pc = IF op = "create" THEN "parent" ELSE "guard"]
                 ELSE [tx[u] EXCEPT !.alone = @ /\ u \notin InFlight]]
    /\ UNCHANGED << node, lock, dirty >>

(* AccessGuard reads the row.  A tombstoned one answers 410. *)
GuardRead(t) ==
    /\ tx[t].pc = "guard"
    /\ IF Live(tx[t].n)
       THEN tx' = [tx EXCEPT ![t].path = node[tx[t].n].path, ![t].pc = "ancestors"]
       ELSE Goto(t, "done")
    /\ UNCHANGED << node, lock, dirty >>

(* assertNotDeleted asks for a tombstone among the ancestors the path just *)
(* read names.  The handlers then refuse the root of the scope.            *)
GuardAncestors(t) ==
    /\ tx[t].pc = "ancestors"
    /\ IF /\ \A i \in DOMAIN tx[t].path : Live(tx[t].path[i])
          /\ tx[t].n # Root
       THEN Goto(t, tx[t].op)
       ELSE Goto(t, "done")
    /\ UNCHANGED << node, lock, dirty >>

-----------------------------------------------------------------------------
(* MoveService.move *)

(* Mutant: a plain SELECT. *)
MoveSelect_unlocked(t) ==
    /\ tx[t].pc = "move"
    /\ Begin(t, "locking", {})
    /\ UNCHANGED << node, lock, dirty >>

(* SELECT ... FOR UPDATE over the two endpoints that are live. *)
MoveSelect(t) ==
    /\ tx[t].pc = "move"
    /\ Begin(t, "locking", {m \in {tx[t].n, tx[t].d} : Live(m)})
    /\ UNCHANGED << node, lock, dirty >>

MoveLock(t, m) ==
    /\ tx[t].pc = "locking"
    /\ Visit(t, m, FALSE, node[m])

(* The rows below the source, by the path of the locked source row. *)
Below(t) == {m \in DOMAIN node : Tree!StartsWith(View(t, m).path, childPath(tx[t].n))}

(* Mutant: a refused move starts over instead of answering. *)
MoveCheck_retry(t) ==
    /\ tx[t].pc = "locking"
    /\ tx[t].todo = {}
    /\ LET src == tx[t].n
           dst == tx[t].d
       IN  IF \/ ~Live(src) \/ ~Live(dst)
              \/ dst = src
              \/ Tree!StartsWith(node[dst].path, childPath(src))
           THEN Goto(t, "move") /\ UNCHANGED << node, lock, dirty >>
           ELSE /\ IF node[src].parentId = dst
                   THEN Goto(t, "commit")
                   ELSE Begin(t, "paths", Below(t))
                /\ UNCHANGED << node, lock, dirty >>

(* Both endpoints locked: the 404, the cycle check and the no-op. *)
MoveCheck(t) ==
    /\ tx[t].pc = "locking"
    /\ tx[t].todo = {}
    /\ LET src == tx[t].n
           dst == tx[t].d
       IN  IF \/ ~Live(src) \/ ~Live(dst)
              \/ dst = src
              \/ Tree!StartsWith(node[dst].path, childPath(src))
           THEN Rollback(t)
           ELSE /\ IF node[src].parentId = dst
                   THEN Goto(t, "commit")
                   ELSE Begin(t, "paths", Below(t))
                /\ UNCHANGED << node, lock, dirty >>

(* Mutant: the row is written back with the deletedAt it had when live. *)
MoveDescendant_wholeRow(t, m) ==
    LET src == tx[t].n
        row == View(t, m)
        oldPrefix == childPath(src)
        newPrefix == Append(childPath(tx[t].d), src)
    IN  /\ tx[t].pc = "paths"
        /\ Visit(t, m, Tree!StartsWith(row.path, oldPrefix),
                 [row EXCEPT !.deleted = FALSE, !.path =
                    newPrefix \o SubSeq(row.path, Len(oldPrefix) + 1, Len(row.path))])

(* UPDATE ... SET path = new || substring(path from ...) on one descendant. *)
MoveDescendant(t, m) ==
    LET src == tx[t].n
        row == View(t, m)
        oldPrefix == childPath(src)
        newPrefix == Append(childPath(tx[t].d), src)
    IN  /\ tx[t].pc = "paths"
        /\ Visit(t, m, Tree!StartsWith(row.path, oldPrefix),
                 [row EXCEPT !.path =
                    newPrefix \o SubSeq(row.path, Len(oldPrefix) + 1, Len(row.path))])

(* The source row itself: its lock is held since the SELECT. *)
MoveSelf(t) ==
    LET src == tx[t].n IN
    /\ tx[t].pc = "paths"
    /\ tx[t].todo = {}
    /\ dirty' = [dirty EXCEPT ![t] = [x \in DOMAIN @ \cup {src} |->
                    IF x = src THEN [View(t, src) EXCEPT !.parentId = tx[t].d,
                                                         !.path = childPath(tx[t].d)]
                               ELSE @[x]]]
    /\ Goto(t, "commit")
    /\ UNCHANGED << node, lock >>

-----------------------------------------------------------------------------
(* DeleteService.remove: the pattern is built from the path the guard read. *)

(* Mutant: the pattern is the node's own path. *)
Doomed_ownPath(t, m) ==
    /\ Tree!StartsWith(View(t, m).path, tx[t].path)
    /\ ~View(t, m).deleted

Doomed(t, m) ==
    /\ Tree!StartsWith(View(t, m).path, Append(tx[t].path, tx[t].n))
    /\ ~View(t, m).deleted

RemoveSelect(t) ==
    /\ tx[t].pc = "remove"
    /\ Begin(t, "marking", {m \in DOMAIN node : Doomed(t, m)})
    /\ UNCHANGED << node, lock, dirty >>

RemoveDescendant(t, m) ==
    /\ tx[t].pc = "marking"
    /\ Visit(t, m, Doomed(t, m), [View(t, m) EXCEPT !.deleted = TRUE])

RemoveSelf(t) ==
    \/ /\ tx[t].pc = "marking"
       /\ tx[t].todo = {}
       /\ Begin(t, "self", {tx[t].n})
       /\ UNCHANGED << node, lock, dirty >>
    \/ /\ tx[t].pc = "self"
       /\ Visit(t, tx[t].n, ~View(t, tx[t].n).deleted,
                [View(t, tx[t].n) EXCEPT !.deleted = TRUE])
    \/ /\ tx[t].pc = "self"
       /\ tx[t].todo = {}
       /\ Goto(t, "commit")
       /\ UNCHANGED << node, lock, dirty >>

-----------------------------------------------------------------------------
(* createFolder, and the node half of presigning a new file: the parent is *)
(* read in one statement and the row inserted in another.                  *)

CreateReadParent(t) ==
    /\ tx[t].pc = "parent"
    /\ IF Live(tx[t].n)
       THEN tx' = [tx EXCEPT ![t].path = childPath(tx[t].n), ![t].pc = "insert"]
       ELSE Goto(t, "done")
    /\ UNCHANGED << node, lock, dirty >>

(* The foreign key shares the parent row: it waits for SELECT FOR UPDATE,  *)
(* not for an UPDATE of other columns.                                     *)
LockedForUpdate(m) ==
    \E u \in Reqs : lock[m] = u /\ tx[u].op = "move" /\ m \in {tx[u].n, tx[u].d}

CreateInsert(t) ==
    /\ tx[t].pc = "insert"
    /\ ~LockedForUpdate(tx[t].n)
    /\ node' = [m \in DOMAIN node \cup {tx[t].d} |->
                   IF m = tx[t].d
                   THEN [parentId |-> tx[t].n, path |-> tx[t].path, deleted |-> FALSE]
                   ELSE node[m]]
    /\ Goto(t, "done")
    /\ UNCHANGED << lock, dirty >>

-----------------------------------------------------------------------------
(* The room starts as a consistent tree of live folders. *)
Climb(par, n) ==
    LET up[k \in 0..Cardinality(Ids)] ==
            IF k = 0 THEN << n >>
            ELSE IF Head(up[k - 1]) = Root THEN up[k - 1]
                 ELSE << par[Head(up[k - 1])] >> \o up[k - 1]
    IN  up[Cardinality(Ids)]

Init ==
    /\ \E S \in SUBSET (Ids \ {Root}) : \E par \in [S -> S \cup {Root}] :
         /\ \A n \in S : Head(Climb(par, n)) = Root
         /\ node = [n \in S \cup {Root} |->
                      [parentId |-> IF n = Root THEN Nobody ELSE par[n],
                       path     |-> IF n = Root THEN << >>
                                    ELSE SubSeq(Climb(par, n), 1, Len(Climb(par, n)) - 1),
                       deleted  |-> FALSE]]
    /\ lock = [n \in Ids |-> Nobody]
    /\ dirty = [t \in Reqs |-> NoRows]
    /\ tx = [t \in Reqs |-> [op |-> "none", pc |-> "new", n |-> Root, d |-> Root,
                             path |-> << >>, todo |-> {}, alone |-> TRUE]]

Step(t) ==
    \/ GuardRead(t) \/ GuardAncestors(t)
    \/ MoveSelect(t) \/ MoveCheck(t) \/ MoveSelf(t)
    \/ RemoveSelect(t) \/ RemoveSelf(t)
    \/ CreateReadParent(t) \/ CreateInsert(t)
    \/ \E m \in DOMAIN node :
          MoveLock(t, m) \/ MoveDescendant(t, m) \/ RemoveDescendant(t, m)
    \/ Commit(t)

Next ==
    \/ \E t \in Reqs : \E op \in Ops, n \in DOMAIN node, d \in Ids : Arrive(t, op, n, d)
    \/ \E t \in Reqs : Step(t)
    \/ \E t \in Reqs : Abort(t)

(* Requests do not stop halfway, and the database ends every deadlock.     *)
Fairness == \A t \in Reqs : WF_vars(Step(t)) /\ WF_vars(Deadlocked(t) /\ Abort(t))

Spec == Init /\ [][Next]_vars /\ Fairness

-----------------------------------------------------------------------------
(* Following parent pointers upwards from n ends at the root. *)
Reaches(n) ==
    LET up[k \in 0..Cardinality(Ids)] ==
            IF k = 0 \/ up[k - 1] = Root
            THEN IF k = 0 THEN n ELSE Root
            ELSE node[up[k - 1]].parentId
    IN  up[Cardinality(Ids)] = Root

(* The parent pointers form one tree: the row locks on source and          *)
(* destination keep a concurrent move from slipping in between the cycle   *)
(* check and the UPDATE, and the destination's path lists its ancestors    *)
(* (move.service.ts).  True of any two requests.  Once two moves have left *)
(* a path stale a third one may close a cycle: see the findings.           *)
OneTree == \A n \in DOMAIN node : Reaches(n)

(* Every path still starts at the room's root, so no row leaves the scope  *)
(* of its owner or enters another room's, even where paths go stale.       *)
PathsStayInRoom ==
    \A n \in DOMAIN node \ {Root} : node[n].path # << >> /\ node[n].path[1] = Root

(* A tombstone is final: a move that carries a row along writes its path,  *)
(* never its deletedAt, however old the copy of the row it started from.   *)
TombstonesStay ==
    [][\A n \in DOMAIN node : node[n].deleted => node'[n].deleted]_vars

(* Whatever waits for a lock gets it or is rolled back: every request that *)
(* arrived is answered.                                                    *)
EveryRequestAnswered ==
    \A t \in Reqs : (tx[t].pc # "new") ~> (tx[t].pc = "done")

(* The handler t was asked for, in one piece. *)
Handler(t) ==
    \/ tx[t].op = "move"   /\ Tree!Move(tx[t].n, tx[t].d)
    \/ tx[t].op = "remove" /\ Tree!Remove(tx[t].n)
    \/ tx[t].op = "create" /\ Tree!CreateFolder(Root, tx[t].n, tx[t].d, tx[t].d)

(* Split into statements, a handler is still the handler: a request that   *)
(* overlaps with no other changes the table as RoomTree says, in one step. *)
SerialCommitsAreHandlers ==
    [][\A t \in Reqs :
          tx[t].pc # "done" /\ tx'[t].pc = "done" /\ tx[t].alone => Handler(t)]_node

(* What the code says of concurrent requests and does not keep: see the    *)
(* findings in the README.                                                 *)
PathsAreAncestry == Tree!PathsAreAncestry
TombstonesReachDown ==
    \A n \in DOMAIN node : Live(n) /\ n # Root => Live(node[n].parentId)

(* Only a stale path can mislead the cycle check: while the committed paths *)
(* name the ancestors, whatever commits next leaves one tree, for the      *)
(* locks keep the destination's path from changing between the check and   *)
(* the commit (move.service.ts).                                           *)
RightPathsKeepTree == [][PathsAreAncestry => OneTree']_vars
=============================================================================
