------------------------------- MODULE Uploads -------------------------------
(***************************************************************************)
(* One file of a room: its node row, its version rows, the objects its     *)
(* version rows name in the bucket, the requests that upload, confirm and  *)
(* restore versions, and the hourly sweep of abandoned uploads.            *)
(*                                                                         *)
(* A request reads rows, asks the bucket, and writes in a transaction of   *)
(* its own; between those steps anything may happen, the sweep included.   *)
(* Browser and bucket meet through upload URLs alone: whoever holds one    *)
(* may PUT to its key until it expires.                                    *)
(*                                                                         *)
(* Contents stand for what a HEAD tells of an object (ETag, length, type): *)
(* a member of Good is a PDF within the size limits, the others are empty, *)
(* too large or of another type.  The tree around the node is in RoomTree. *)
(***************************************************************************)
EXTENDS Integers, FiniteSets, FiniteSetsExt

CONSTANTS
    Vers,           \* the ids randomUUID() may hand out for version rows
    Contents, Good, \* all objects a browser may PUT, and the acceptable ones
    Reqs,           \* how many requests may be under way at once
    MaxPuts,        \* how many PUTs reach the bucket
    MaxCrashes,     \* how often the server may die in the middle of a sweep
    None            \* null

ASSUME UploadsAssumption ==
    /\ Good \subseteq Contents
    /\ None \notin Vers \cup Contents \cup Nat
    /\ IsFiniteSet(Vers)
    /\ MaxPuts \in Nat /\ MaxCrashes \in Nat

VARIABLES
    node,       \* the file's row in table Node
    version,    \* its rows in FileVersion: a function from ids to rows
    bucket,     \* the objects: a function from keys to contents or None
    url,        \* url[v]: the key v's presigned PUT is for, 0 once it expired or
                \* when there is none, None while v is not handed out
    puts,       \* how many objects were PUT under v's key in its time, 2 for more
    total,      \* how many were PUT in all
    stale,      \* the ids handed out more than ORPHAN_AGE_MS ago
    req,        \* the requests under way
    sweep       \* the PendingSweepService run under way

vars == << node, version, bucket, url, puts, total, stale, req, sweep >>

Nos == 1..Cardinality(Vers)
Keys == Nos

(* Mutant: one key for all versions of the file. *)
blobKeyFor_node(no) == 1

(* The key of a version is the number it was reserved under. *)
blobKeyFor(no) == no

Issued == {v \in Vers : url[v] # None}

(* checksum None is a reservation: confirm sets checksum and sizeBytes in  *)
(* one update.                                                             *)
VersionRow == [no : Nos, key : Keys, checksum : Contents \cup {None}]

Confirmed(v) == v \in DOMAIN version /\ version[v].checksum # None

(* Mutant: one more than the highest. *)
Latest_off == Max({0} \cup {version[v].no + 1 : v \in DOMAIN version})

Latest == Max({0} \cup {version[v].no : v \in DOMAIN version})

Absent == [status |-> "NONE", deleted |-> FALSE, current |-> None,
           size |-> None, born |-> None]

Live == node.status # "NONE" /\ ~node.deleted

WithVersion(v, row) == [u \in DOMAIN version \cup {v} |-> IF u = v THEN row ELSE version[u]]
WithoutVersion(v)   == [u \in DOMAIN version \ {v} |-> version[u]]

Idle == [op |-> "idle", v |-> None, no |-> 0, dropNode |-> FALSE, head |-> None]

Goto(t, r) == req' = [req EXCEPT ![t] = r]
Done(t) == Goto(t, Idle)

-----------------------------------------------------------------------------
(* Presigning *)

(* presignNewFile: node, first reservation and URL. *)
PresignNewFile(t, v) ==
    /\ req[t] = Idle
    /\ Issued = {}
    /\ node' = [Absent EXCEPT !.status = "PENDING", !.born = v]
    /\ version' = WithVersion(v, [no |-> 1, key |-> blobKeyFor(1), checksum |-> None])
    /\ url' = [url EXCEPT ![v] = blobKeyFor(1)]
    /\ UNCHANGED << bucket, puts, stale, req, sweep, total >>

(* presign with onConflict NEW_VERSION finds the file by its name, PENDING *)
(* or not, and reads its highest version number.                           *)
PresignLookup(t) ==
    /\ req[t] = Idle
    /\ Live
    /\ Goto(t, [Idle EXCEPT !.op = "presign", !.no = Latest + 1])
    /\ UNCHANGED << node, version, bucket, url, puts, stale, sweep, total >>

(* presignNewVersion: the insert fails if the number is taken by now (the  *)
(* unique index) or the node gone (the foreign key).                       *)
PresignNewVersion(t, v) ==
    /\ req[t].op = "presign"
    /\ v \notin Issued
    /\ LET no == req[t].no IN
       IF node.status = "NONE" \/ \E u \in DOMAIN version : version[u].no = no
       THEN UNCHANGED << version, url >>
       ELSE /\ version' = WithVersion(v, [no |-> no, key |-> blobKeyFor(no), checksum |-> None])
            /\ url' = [url EXCEPT ![v] = blobKeyFor(no)]
    /\ Done(t)
    /\ UNCHANGED << node, bucket, puts, stale, sweep, total >>

(* The browser, or whoever else holds the URL, PUTs an object. *)
Put(v, c) ==
    /\ url[v] \notin {0, None}
    /\ total < MaxPuts
    /\ total' = total + 1
    /\ bucket' = [bucket EXCEPT ![url[v]] = c]
    /\ puts' = [u \in Vers |->
                   IF u \in DOMAIN version /\ version[u].key = url[v] /\ puts[u] < 2
                   THEN puts[u] + 1 ELSE puts[u]]
    /\ UNCHANGED << node, version, url, stale, req, sweep >>

-----------------------------------------------------------------------------
(* confirm *)

(* The reads of node and version, and the answer for a version that is     *)
(* current already.  The browser asks once its PUT has returned, and never *)
(* a day after it was given the URL.                                       *)
ConfirmRead(t, v) ==
    /\ req[t] = Idle
    /\ Live
    /\ v \in DOMAIN version \ stale
    /\ puts[v] > 0
    /\ ~(node.status = "ACTIVE" /\ node.current = v)
    /\ Goto(t, [Idle EXCEPT !.op = "head", !.v = v, !.no = version[v].key,
                            !.dropNode = (node.status = "PENDING")])
    /\ UNCHANGED << node, version, bucket, url, puts, stale, sweep, total >>

(* HEAD: absent answers UPLOAD_NOT_FOUND, unacceptable goes to rejectUpload *)
ConfirmHead(t) ==
    /\ req[t].op = "head"
    /\ LET c == bucket[req[t].no] IN
       IF c = None THEN Done(t)
       ELSE Goto(t, [req[t] EXCEPT !.op = IF c \in Good THEN "activate" ELSE "remove",
                                   !.head = c])
    /\ UNCHANGED << node, version, bucket, url, puts, stale, sweep, total >>

(* The transaction; it fails if the version row or the node is gone. *)
ConfirmActivate(t) ==
    /\ req[t].op = "activate"
    /\ LET v == req[t].v
           c == req[t].head
       IN  IF v \notin DOMAIN version
           THEN UNCHANGED << node, version >>
           ELSE /\ version' = [version EXCEPT ![v].checksum = c]
                /\ node' = [node EXCEPT !.status = "ACTIVE", !.current = v, !.size = c]
    /\ Done(t)
    /\ UNCHANGED << bucket, url, puts, stale, sweep, total >>

(* rejectUpload: first the object ... *)
RejectRemoveBlob(t) ==
    /\ req[t].op = "remove"
    /\ bucket' = [bucket EXCEPT ![req[t].no] = None]
    /\ Goto(t, [req[t] EXCEPT !.op = "reject"])
    /\ UNCHANGED << node, version, url, puts, stale, sweep, total >>

(* ... then the rows, all or none. *)
RejectDropRows(t) ==
    /\ req[t].op = "reject"
    /\ LET v == req[t].v IN
       IF v \notin DOMAIN version
       THEN UNCHANGED << node, version >>
       ELSE /\ version' = WithoutVersion(v)
            /\ node' = [node EXCEPT !.deleted = @ \/ req[t].dropNode]
    /\ Done(t)
    /\ UNCHANGED << bucket, url, puts, stale, sweep, total >>

-----------------------------------------------------------------------------
(* Mutant: a reservation may be restored. *)
RestoreRead_reservation(t, v) ==
    /\ req[t] = Idle
    /\ Live
    /\ v \in DOMAIN version
    /\ v # node.current
    /\ Goto(t, [Idle EXCEPT !.op = "restore", !.v = v, !.no = version[v].key,
                            !.head = version[v].checksum])
    /\ UNCHANGED << node, version, bucket, url, puts, stale, sweep, total >>

(* VersionsService.restore: the checks, and the transaction that appends a *)
(* copy of the row under the next number.  The source row may be gone, or  *)
(* hold other bytes, by then; what is copied is what was read.             *)
RestoreRead(t, v) ==
    /\ req[t] = Idle
    /\ Live
    /\ Confirmed(v)
    /\ v # node.current
    /\ Goto(t, [Idle EXCEPT !.op = "restore", !.v = v, !.no = version[v].key,
                            !.head = version[v].checksum])
    /\ UNCHANGED << node, version, bucket, url, puts, stale, sweep, total >>

RestoreAppend(t, w) ==
    /\ req[t].op = "restore"
    /\ w \notin Issued
    /\ IF DOMAIN version = {}
       THEN UNCHANGED << node, version, puts, url >>
       ELSE /\ version' = WithVersion(w, [no |-> Latest + 1, key |-> req[t].no,
                                          checksum |-> req[t].head])
            /\ node' = [node EXCEPT !.current = w, !.size = req[t].head]
            /\ puts' = [puts EXCEPT ![w] = puts[req[t].v]]
            /\ url' = [url EXCEPT ![w] = 0]
    /\ Done(t)
    /\ UNCHANGED << bucket, stale, sweep, total >>

(* A storage error, a lost connection, a server that stops: the request    *)
(* ends where it is.                                                       *)
RequestFails(t) ==
    /\ req[t] # Idle
    /\ Done(t)
    /\ UNCHANGED << node, version, bucket, url, puts, stale, sweep, total >>

(* DeleteService.remove, as far as this node goes. *)
Remove ==
    /\ Live
    /\ node' = [node EXCEPT !.deleted = TRUE]
    /\ UNCHANGED << version, bucket, url, puts, stale, req, sweep, total >>

-----------------------------------------------------------------------------
(* PendingSweepService *)

SweepGoto(pc, todo) == sweep' = [sweep EXCEPT !.pc = pc, !.todo = todo]

(* Mutant: tombstoned nodes are skipped. *)
SweepFindNode_live ==
    /\ sweep.pc = "idle"
    /\ IF Live /\ node.status = "PENDING" /\ node.born \in stale
       THEN SweepGoto("node", {version[v].key : v \in DOMAIN version})
       ELSE SweepGoto("find", {})
    /\ UNCHANGED << node, version, bucket, url, puts, stale, req, total >>

(* The PENDING node past the grace period, with the keys of its versions. *)
SweepFindNode ==
    /\ sweep.pc = "idle"
    /\ IF node.status = "PENDING" /\ node.born \in stale
       THEN SweepGoto("node", {version[v].key : v \in DOMAIN version})
       ELSE SweepGoto("find", {})
    /\ UNCHANGED << node, version, bucket, url, puts, stale, req, total >>

(* safeRemove swallows the error of an object that could not be removed. *)
SafeRemove(k) == bucket' \in {[bucket EXCEPT ![k] = None], bucket}

SweepNodeBlob(k) ==
    /\ sweep.pc = "node"
    /\ k \in sweep.todo
    /\ SafeRemove(k)
    /\ SweepGoto("node", sweep.todo \ {k})
    /\ UNCHANGED << node, version, url, puts, stale, req, total >>

(* Deletes by id, whatever the row has become, and its versions with it.   *)
SweepDeleteNode ==
    /\ sweep.pc = "node"
    /\ sweep.todo = {}
    /\ node' = Absent
    /\ version' = [v \in {} |-> version[v]]
    /\ SweepGoto("find", {})
    /\ UNCHANGED << bucket, url, puts, stale, req, total >>

(* Mutant: versions that have bytes are not left out. *)
Abandoned_withHistory ==
    {v \in DOMAIN version :
        /\ v \in stale
        /\ node.status = "ACTIVE"
        /\ v # node.current
        /\ version[v].no > IF node.current \in DOMAIN version
                           THEN version[node.current].no ELSE 0}

(* Reservations numbered above the current version of an active file. *)
Abandoned ==
    {v \in DOMAIN version :
        /\ ~Confirmed(v)
        /\ v \in stale
        /\ node.status = "ACTIVE"
        /\ v # node.current
        /\ version[v].no > IF node.current \in DOMAIN version
                           THEN version[node.current].no ELSE 0}

SweepFindVersions ==
    /\ sweep.pc = "find"
    /\ SweepGoto(IF Abandoned = {} THEN "idle" ELSE "versions", Abandoned)
    /\ UNCHANGED << node, version, bucket, url, puts, stale, req, total >>

SweepVersionBlob(v) ==
    /\ sweep.pc = "versions"
    /\ v \in sweep.todo
    /\ v \in DOMAIN version => SafeRemove(version[v].key)
    /\ v \notin DOMAIN version => UNCHANGED bucket
    /\ sweep' = [sweep EXCEPT !.pc = "row", !.at = v]
    /\ UNCHANGED << node, version, url, puts, stale, req, total >>

(* A row that is gone already ends the run with an error. *)
SweepDeleteVersion ==
    /\ sweep.pc = "row"
    /\ LET v == sweep.at
           left == sweep.todo \ {v}
       IN  IF v \in DOMAIN version
           THEN /\ version' = WithoutVersion(v)
                /\ sweep' = [sweep EXCEPT !.pc = IF left = {} THEN "idle" ELSE "versions",
                                          !.todo = left, !.at = None]
           ELSE /\ sweep' = [sweep EXCEPT !.pc = "idle", !.todo = {}, !.at = None]
                /\ UNCHANGED version
    /\ UNCHANGED << node, bucket, url, puts, stale, req, total >>

SweepCrash ==
    /\ sweep.pc # "idle"
    /\ sweep.crashes < MaxCrashes
    /\ sweep' = [sweep EXCEPT !.pc = "idle", !.todo = {}, !.at = None, !.crashes = @ + 1]
    /\ UNCHANGED << node, version, bucket, url, puts, stale, req, total >>

(* A day passes over v: its URL has long expired, and a request about it   *)
(* that began before has ended.                                            *)
DayPasses(v) ==
    /\ v \in Issued \ stale
    /\ \A t \in Reqs : req[t].v # v
    /\ stale' = stale \cup {v}
    /\ url' = [url EXCEPT ![v] = 0]
    /\ UNCHANGED << node, version, bucket, puts, req, sweep, total >>

-----------------------------------------------------------------------------
Init ==
    /\ node = Absent
    /\ version = [v \in {} |-> Absent]
    /\ bucket = [k \in Keys |-> None]
    /\ url = [v \in Vers |-> None]
    /\ puts = [v \in Vers |-> 0]
    /\ total = 0
    /\ stale = {}
    /\ req = [t \in Reqs |-> Idle]
    /\ sweep = [pc |-> "idle", todo |-> {}, at |-> None, crashes |-> 0]

Request(t) ==
    \/ PresignLookup(t)
    \/ ConfirmHead(t) \/ ConfirmActivate(t) \/ RejectRemoveBlob(t) \/ RejectDropRows(t)
    \/ RequestFails(t)
    \/ \E v \in Vers : \/ PresignNewFile(t, v) \/ PresignNewVersion(t, v)
                       \/ ConfirmRead(t, v)
                       \/ RestoreRead(t, v) \/ RestoreAppend(t, v)

SweepStep ==
    \/ SweepFindNode \/ SweepDeleteNode \/ SweepFindVersions \/ SweepDeleteVersion
    \/ \E k \in Keys : SweepNodeBlob(k)
    \/ \E v \in Vers : SweepVersionBlob(v)

Working ==
    \/ \E t \in Reqs : Request(t)
    \/ \E v \in Vers : DayPasses(v)
    \/ Remove
    \/ SweepStep
    \/ SweepCrash

Next == Working \/ \E v \in Vers, c \in Contents : Put(v, c)

(* The cron job comes round every hour and runs to its end unless the      *)
(* server dies.  Requests may hang or never come.                          *)
Fairness == WF_vars(SweepStep)

Spec == Init /\ [][Next]_vars /\ Fairness

-----------------------------------------------------------------------------
TypeOK ==
    /\ node \in [status : {"NONE", "PENDING", "ACTIVE"}, deleted : BOOLEAN,
                 current : Vers \cup {None}, size : Contents \cup {None},
                 born : Vers \cup {None}]
    /\ DOMAIN version \subseteq Vers
    /\ version \in [DOMAIN version -> VersionRow]
    /\ bucket \in [Keys -> Contents \cup {None}]
    /\ url \in [Vers -> Keys \cup {0, None}]
    /\ puts \in [Vers -> 0..2]
    /\ total \in 0..MaxPuts
    /\ stale \subseteq Vers
    /\ req \in [Reqs -> [op : {"idle", "presign", "head", "activate", "remove",
                               "reject", "restore"},
                         v : Vers \cup {None}, no : Keys \cup {0, Cardinality(Vers) + 1},
                         dropNode : BOOLEAN, head : Contents \cup {None}]]
    /\ sweep \in [pc : {"idle", "node", "find", "versions", "row"},
                  todo : (SUBSET Keys) \cup (SUBSET Vers), at : Vers \cup {None},
                  crashes : 0..MaxCrashes]

(* An active file has a current version with bytes of its own, and the     *)
(* size that folder totals add up is that version's.  Exempt are files     *)
(* whose current object was overwritten through its still valid URL        *)
(* between two confirms.                                                   *)
ActiveFilesAreWhole ==
    node.status = "ACTIVE" /\ puts[node.current] < 2 =>
        /\ Confirmed(node.current)
        /\ node.size = version[node.current].checksum

(* What was confirmed stays: while the file exists no version with bytes   *)
(* is deleted, renumbered or given other bytes, by a late reject, a repeat *)
(* of the confirm or the sweep (versions.service.ts: append-only).         *)
HistoryKept ==
    [][\A v \in Vers :
        Confirmed(v) /\ puts[v] < 2 /\ node'.status # "NONE" =>
            v \in DOMAIN version' /\ version'[v] = version[v]]_vars

(* Versions that share an object, as a restored one does with its source,  *)
(* agree on its bytes: each can be downloaded if the others can.  Exempt   *)
(* are those whose object was overwritten: once the source of a restored   *)
(* one is rejected, its number and key can go to another upload.             *)
RestoredCopiesMatch ==
    \A u, v \in DOMAIN version :
        /\ version[u].key = version[v].key
        /\ Confirmed(u)
        /\ puts[u] < 2 /\ puts[v] < 2
        => version[v].checksum = version[u].checksum

(* A file whose upload was given up does not stay for ever, deleted by its *)
(* owner or not: once a day old it is confirmed after all or the sweep     *)
(* removes it, even when the bucket fails or the server dies in the middle *)
(* of a sweep.                                                             *)
PendingFilesEnd ==
    (node.status = "PENDING" /\ node.born \in stale) ~> (node.status # "PENDING")
=============================================================================
