------------------------------ MODULE RoomTree ------------------------------
(***************************************************************************)
(* The node table of the data rooms, one committed handler per action.     *)
(*                                                                         *)
(* A node row carries both a parent pointer (parentId) and a materialised  *)
(* path: the ids of its ancestors, root first.  The code reads subtrees,   *)
(* scopes and ancestors through the path alone, so the path has to say     *)
(* what the pointers say after every create, move, delete and cascade.     *)
(*                                                                         *)
(* Here every handler runs alone, from its access guard to its commit;     *)
(* TreeTx splits the same handlers into database statements.  A room is    *)
(* named by the id of its root node, the two rows being created and        *)
(* removed together.  A name stands for its lower-cased form, which is     *)
(* what the partial unique index node_name_uniq compares.                  *)
(***************************************************************************)
EXTENDS Integers, Sequences, FiniteSets

CONSTANTS
    Ids,        \* the ids randomUUID() may hand out
    Names,      \* names, folded to lower case
    NoParent    \* the null parentId of a root node

ASSUME NoParentAssumption == NoParent \notin Ids

VARIABLE node   \* table Node: a function from the ids in use to rows

vars == node

Row == [roomId : Ids, parentId : Ids \cup {NoParent},
        type : {"FOLDER", "FILE"}, name : Names, path : Seq(Ids),
        status : {"PENDING", "ACTIVE"}, deleted : BOOLEAN]

Live(n) == ~node[n].deleted

-----------------------------------------------------------------------------
(* node-path.ts *)

ROOT_PATH == << >>

childPath(n) == Append(node[n].path, n)

ancestorIds(n) == {node[n].path[i] : i \in DOMAIN node[n].path}

(* String.startsWith and the SQL pattern LIKE prefix || '%'. *)
StartsWith(p, prefix) ==
    /\ Len(prefix) <= Len(p)
    /\ \A i \in 1..Len(prefix) : p[i] = prefix[i]

(* Mutant: a pattern made of the node's own path, as if it named itself. *)
Beneath_ownPath(n) == {m \in DOMAIN node \ {n} : StartsWith(node[m].path, node[n].path)}

(* The rows that subtreeLikePattern(n) matches: strict descendants only. *)
Beneath(n) == {m \in DOMAIN node : StartsWith(node[m].path, childPath(n))}

(* access-context.ts, for an owner: the scope root is the room's root. *)
withinScope(room) == {room} \cup Beneath(room)

-----------------------------------------------------------------------------
(* AccessGuard for the owner of the room: the row exists and neither it    *)
(* nor an ancestor named by its path is tombstoned (else 404 or 410).      *)
Admits(n) ==
    /\ n \in DOMAIN node
    /\ Live(n)
    /\ \A a \in ancestorIds(n) \cap DOMAIN node : Live(a)

(* node_name_uniq: n may bear the name nm under p.  Null parents never     *)
(* collide and tombstoned rows are outside the index.                      *)
NameFree(p, nm, n) ==
    \A m \in DOMAIN node \ {n} :
        (node[m].parentId = p /\ Live(m)) => node[m].name # nm

Insert(n, row) == node' = [m \in DOMAIN node \cup {n} |-> IF m = n THEN row ELSE node[m]]

DeleteRows(S) == node' = [m \in DOMAIN node \ S |-> node[m]]

-----------------------------------------------------------------------------
(* Rooms *)

CreateRoom(r, nm) ==
    /\ r \notin DOMAIN node
    /\ Insert(r, [roomId |-> r, parentId |-> NoParent, type |-> "FOLDER",
                  name |-> nm, path |-> ROOT_PATH,
                  status |-> "ACTIVE", deleted |-> FALSE])

(* Deleting the room cascades to every node row that carries its roomId. *)
RemoveRoom(r) ==
    /\ r \in DOMAIN node
    /\ node[r].parentId = NoParent
    /\ DeleteRows({m \in DOMAIN node : node[m].roomId = r})

-----------------------------------------------------------------------------
(* Nodes *)

(* Mutant: the parent is looked up by id alone. *)
AddChild_anyRoom(room, p, n, nm, type, status) ==
    /\ Admits(room)
    /\ p \in DOMAIN node
    /\ Live(p)
    /\ node[p].type = "FOLDER"
    /\ n \notin DOMAIN node
    /\ NameFree(p, nm, n)
    /\ Insert(n, [roomId |-> room, parentId |-> p, type |-> type,
                  name |-> nm, path |-> childPath(p),
                  status |-> status, deleted |-> FALSE])

(* The parent is looked up by id, room and deletedAt IS NULL: nothing      *)
(* above it is examined.                                                   *)
AddChild(room, p, n, nm, type, status) ==
    /\ Admits(room)
    /\ p \in DOMAIN node
    /\ node[p].roomId = room
    /\ Live(p)
    /\ node[p].type = "FOLDER"
    /\ n \notin DOMAIN node
    /\ NameFree(p, nm, n)
    /\ Insert(n, [roomId |-> room, parentId |-> p, type |-> type,
                  name |-> nm, path |-> childPath(p),
                  status |-> status, deleted |-> FALSE])

CreateFolder(room, p, n, nm) == AddChild(room, p, n, nm, "FOLDER", "ACTIVE")

(* The tree half of presigning a new file; its versions are in Uploads. *)
PresignNewFile(room, p, n, nm) == AddChild(room, p, n, nm, "FILE", "PENDING")

(* The tree half of confirming an upload. *)
Confirm(n) ==
    /\ Admits(n)
    /\ node[n].status = "PENDING"
    /\ node' = [node EXCEPT ![n].status = "ACTIVE"]

(* The tree half of a confirm that finds an unacceptable object. *)
RejectUpload(n) ==
    /\ Admits(n)
    /\ node[n].status = "PENDING"
    /\ node' = [node EXCEPT ![n].deleted = TRUE]

(* The hourly sweep drops a stale PENDING row, tombstoned or not.  PENDING *)
(* rows are files, so the cascade over parentId finds nothing else.        *)
SweepPending(n) ==
    /\ n \in DOMAIN node
    /\ node[n].status = "PENDING"
    /\ DeleteRows({n})

(* Both PATCH nodes/:id and, for a root, PATCH rooms/:roomId. *)
Rename(n, nm) ==
    /\ Admits(n)
    /\ node[n].parentId # NoParent => NameFree(node[n].parentId, nm, n)
    /\ node' = [node EXCEPT ![n].name = nm]

(* Mutant: substring(path from length), not length + 1. *)
Repath_offByOne(m, oldPrefix, newPrefix) ==
    newPrefix \o SubSeq(node[m].path, Len(oldPrefix), Len(node[m].path))

(* Rewriting a subtree's paths, tombstoned rows included: the old prefix   *)
(* is cut off and the new one put in its place.                            *)
Repath(m, oldPrefix, newPrefix) ==
    newPrefix \o SubSeq(node[m].path, Len(oldPrefix) + 1, Len(node[m].path))

(* Mutant: the UPDATE of the descendants is forgotten. *)
Moved_sourceOnly(src, dst) ==
    [node EXCEPT ![src].parentId = dst, ![src].path = childPath(dst)]

Moved(src, dst) ==
    LET oldPrefix == childPath(src)
        newPrefix == Append(childPath(dst), src)
    IN  [m \in DOMAIN node |->
            IF m = src
            THEN [node[m] EXCEPT !.parentId = dst, !.path = childPath(dst)]
            ELSE IF m \in Beneath(src) \cap withinScope(node[src].roomId)
            THEN [node[m] EXCEPT !.path = Repath(m, oldPrefix, newPrefix)]
            ELSE node[m]]

(* The move transaction, from the guard on the source to its commit.  A    *)
(* source already in the destination is left as it is.                     *)
Move(src, dst) ==
    /\ Admits(src)
    /\ src # node[src].roomId
    /\ dst \in DOMAIN node
    /\ node[dst].roomId = node[src].roomId
    /\ dst \in withinScope(node[src].roomId)
    /\ Live(dst)
    /\ dst # src
    /\ ~StartsWith(node[dst].path, childPath(src))
    /\ node[dst].type = "FOLDER"
    /\ node[src].parentId # dst
    /\ NameFree(dst, node[src].name, src)
    /\ node' = Moved(src, dst)

(* Mutant: only the root of the subtree. *)
Doomed_rootOnly(n) == {n}

(* The rows the two UPDATEs of DeleteService.remove tombstone. *)
Doomed(n) == ({n} \cup Beneath(n)) \cap withinScope(node[n].roomId)

Remove(n) ==
    /\ Admits(n)
    /\ n # node[n].roomId
    /\ node' = [m \in DOMAIN node |->
                   IF m \in Doomed(n) THEN [node[m] EXCEPT !.deleted = TRUE]
                                      ELSE node[m]]

-----------------------------------------------------------------------------
Init == node = [m \in {} |-> m]

Next ==
    \/ \E r \in Ids, nm \in Names : CreateRoom(r, nm)
    \/ \E r \in Ids : RemoveRoom(r)
    \/ \E r, p, n \in Ids, nm \in Names : CreateFolder(r, p, n, nm)
    \/ \E r, p, n \in Ids, nm \in Names : PresignNewFile(r, p, n, nm)
    \/ \E n \in Ids : Confirm(n)
    \/ \E n \in Ids : RejectUpload(n)
    \/ \E n \in Ids : SweepPending(n)
    \/ \E n \in Ids, nm \in Names : Rename(n, nm)
    \/ \E src, dst \in Ids : Move(src, dst)
    \/ \E n \in Ids : Remove(n)

Spec == Init /\ [][Next]_vars

-----------------------------------------------------------------------------
TypeOK ==
    /\ DOMAIN node \subseteq Ids
    /\ node \in [DOMAIN node -> Row]

(* A path names the ancestors and nothing else: the parent comes last, and *)
(* every ancestor's own path is the part of it that precedes that          *)
(* ancestor.  Moves, creates and cascades must all keep it, for every      *)
(* authorization, listing and delete reads the path (node-path.ts).        *)
PathIsAncestry(n) ==
    LET p == node[n].path IN
    IF node[n].parentId = NoParent
    THEN p = ROOT_PATH
    ELSE /\ p # << >>
         /\ p[Len(p)] = node[n].parentId
         /\ \A i \in 1..Len(p) :
               /\ p[i] \in DOMAIN node
               /\ node[p[i]].path = SubSeq(p, 1, i - 1)

PathsAreAncestry == \A n \in DOMAIN node : PathIsAncestry(n)

(* Nothing live hangs below a tombstone: the delete reaches every          *)
(* descendant, and no create or move brings a live row under a deleted     *)
(* one, although both look at the direct parent only.                      *)
TombstonesReachDown ==
    \A n \in DOMAIN node :
        Live(n) => \A a \in ancestorIds(n) : a \in DOMAIN node /\ Live(a)

(* A node never changes room and its path starts at its own room's root,   *)
(* so the scope of a room's owner is exactly the room.                     *)
RoomsAreClosed ==
    \A n \in DOMAIN node :
        /\ node[n].roomId \in DOMAIN node
        /\ node[node[n].roomId].parentId = NoParent
        /\ node[n].parentId = NoParent => node[n].roomId = n
        /\ node[n].path # << >> => node[n].path[1] = node[n].roomId

(* Rooms are folders, only folders have anything below them, and a PENDING *)
(* row is a file: whatever was moved or created where, the sweep's delete  *)
(* cascades to nothing and leaves no path with a missing ancestor.         *)
OnlyFoldersHoldNodes ==
    \A n \in DOMAIN node :
        /\ node[n].status = "PENDING" => node[n].type = "FILE"
        /\ node[n].parentId = NoParent => node[n].type = "FOLDER"
        /\ \A a \in ancestorIds(n) :
              a \in DOMAIN node /\ node[a].type = "FOLDER"
=============================================================================
