---------------------------- MODULE UploadsProofs ----------------------------
(***************************************************************************)
(* For any number of versions, contents, requests and PUTs: what is served *)
(* was verified, what was confirmed stays, an active file is whole and     *)
(* restored copies match, unless a second PUT reached the object.          *)
(*                                                                         *)
(* Three facts carry the proof.  Numbers are unique and no higher than the *)
(* count of ids handed out (Numbering).  While an object has had one PUT,  *)
(* whoever looked at it saw the same: the row, the requests between their  *)
(* HEAD and their write, and the bucket agree (Agree).  And a restored     *)
(* row keeps its source as long as that holds (CopiesHaveSource).          *)
(***************************************************************************)
EXTENDS Downloads, FiniteSetTheorems, WellFoundedInduction, TLAPS

(* A request between its HEAD and its write. *)
Looked == {"activate", "remove", "reject"}
Confirming == {"head"} \cup Looked

RequestRow == [op : {"idle", "presign", "head", "activate", "remove", "reject", "restore"},
               v : Vers \cup {None}, no : Keys \cup {0, Cardinality(Vers) + 1},
               dropNode : BOOLEAN, head : Contents \cup {None}]

NodeRow == [status : {"NONE", "PENDING", "ACTIVE"}, deleted : BOOLEAN,
            current : Vers \cup {None}, size : Contents \cup {None},
            born : Vers \cup {None}]

(* Numbers are unique and no higher than the count of ids handed out.      *)
Numbering ==
    /\ \A v \in DOMAIN version : version[v].no <= Cardinality(Issued)
    /\ \A u, v \in DOMAIN version : version[u].no = version[v].no => u = v
    /\ \A t \in Reqs : req[t].op = "presign" =>
          req[t].no > 0 /\ req[t].no <= Cardinality(Issued) + 1

(* What has a row was handed out, what was not handed out has had no PUT,  *)
(* and without the node there are no rows.                                 *)
Fresh ==
    /\ DOMAIN version \subseteq Issued
    /\ stale \subseteq Issued
    /\ \A v \in Vers \ Issued : puts[v] = 0
    /\ node.status = "NONE" => DOMAIN version = {}
    /\ node.status = "ACTIVE" => node.current \in Issued

(* What a request under way holds. *)
Holds(r) ==
    /\ r.op \in Confirming \cup {"restore"} =>
          /\ r.v \in Issued /\ r.no \in Keys
          /\ puts[r.v] > 0
          /\ r.v \in DOMAIN version => r.no = version[r.v].key
    /\ r.op \in Confirming => r.v \notin stale
    /\ r.op \in {"activate", "restore"} => r.head \in Good
    /\ r.op \in {"remove", "reject"} => r.head \in Contents \ Good
    /\ r.op = "restore" /\ puts[r.v] < 2 /\ node.status # "NONE" =>
          /\ r.v \in DOMAIN version
          /\ version[r.v].checksum = r.head

RequestsHold == \A t \in Reqs : Holds(req[t])

(* The sweep of reservations takes none that can still be confirmed.       *)
SweepIsSafe ==
    /\ sweep.pc = "node" => sweep.todo \subseteq Keys
    /\ sweep.pc \in {"versions", "row"} =>
          \A v \in sweep.todo :
              v \in stale /\ (v \in DOMAIN version => ~Confirmed(v))
    /\ sweep.pc = "row" => sweep.at \in sweep.todo

(* c is the object of v's only PUT: what is known of it, in its row, in    *)
(* the bucket and by the requests that looked, is c or nothing.            *)
Saw(v, c) ==
    /\ version[v].checksum \in {c, None}
    /\ bucket[version[v].key] \in {c, None}
    /\ \A t \in Reqs : req[t].op \in Looked /\ req[t].v = v => req[t].head = c

Verified ==
    \A v \in DOMAIN version :
        /\ version[v].checksum \in Good \cup {None}
        /\ Confirmed(v) => puts[v] > 0

Agree == \A v \in DOMAIN version : puts[v] = 1 => \E c \in Contents : Saw(v, c)

(* v is what u was copied from, and was looked at as little since.         *)
IsSource(v, u) ==
    /\ version[v].no = version[u].key
    /\ version[v].key = version[u].key
    /\ version[v].checksum = version[u].checksum
    /\ puts[v] < 2

CopiesHaveSource ==
    \A u \in DOMAIN version : version[u].key # version[u].no =>
        /\ Confirmed(u)
        /\ puts[u] < 2 => \E v \in DOMAIN version : IsSource(v, u)

Inv ==
    /\ TypeOK
    /\ Numbering
    /\ Fresh
    /\ RequestsHold
    /\ SweepIsSafe
    /\ Verified
    /\ Agree
    /\ CopiesHaveSource
    /\ ActiveFilesAreWhole

-----------------------------------------------------------------------------
(* Ids, numbers and how many there are. *)

(* Every set of numbers has a smallest. *)
LEMMA Smallest ==
    ASSUME NEW T, T \subseteq Nat, T # {}
    PROVE  \E x \in T : \A y \in T : x <= y
<1>1. PICK x \in T : \A y \in T : ~ (<<y, x>> \in OpToRel(<, Nat))
  BY NatLessThanWellFounded, WFMin
<1>2. \A y \in T : ~ (y < x)
  BY <1>1 DEF OpToRel
<1> QED
  BY <1>2

LEMMA Highest ==
    ASSUME NEW S, S \subseteq Nat, S # {}, NEW n \in Nat, \A x \in S : x <= n
    PROVE  Max(S) \in S /\ \A x \in S : x <= Max(S)
<1> DEFINE T == {n - x : x \in S}
<1>1. \A x \in S : n - x \in Nat
  OBVIOUS
<1>2. T \subseteq Nat /\ T # {}
  BY <1>1
<1>3. PICK d \in T : \A e \in T : d <= e
  BY <1>2, Smallest
<1>4. PICK m \in S : d = n - m
  OBVIOUS
<1>5. \A x \in S : m >= x
  <2> TAKE x \in S
  <2>1. n - m <= n - x
    BY <1>3, <1>4
  <2> QED
    BY <2>1
<1> QED
  BY <1>4, <1>5 DEF Max

LEMMA IssuedCount ==
    /\ Cardinality(Vers) \in Nat
    /\ Cardinality(Issued) \in Nat
    /\ Cardinality(Issued) <= Cardinality(Vers)
  BY FS_CardinalityType, FS_Subset, UploadsAssumption DEF Issued

(* An id that is handed out makes room for a number. *)
LEMMA IssuedGrows ==
    ASSUME NEW v \in Vers \ Issued, Issued' = Issued \cup {v}
    PROVE  /\ Cardinality(Issued') = Cardinality(Issued) + 1
           /\ Cardinality(Issued') <= Cardinality(Vers)
           /\ Cardinality(Issued) + 1 \in Nos
<1>1. IsFiniteSet(Issued) /\ Issued' \in SUBSET Vers
  BY FS_Subset, UploadsAssumption DEF Issued
<1>2. Cardinality(Issued') = Cardinality(Issued) + 1
  BY <1>1, FS_AddElement
<1>3. Cardinality(Issued') <= Cardinality(Vers)
  BY <1>1, FS_Subset, UploadsAssumption
<1> QED
  BY <1>2, <1>3, IssuedCount DEF Nos

LEMMA RoomForOne ==
    ASSUME NEW v \in Vers \ Issued
    PROVE  Cardinality(Issued) + 1 <= Cardinality(Vers)
<1>1. IsFiniteSet(Issued) /\ Issued \cup {v} \in SUBSET Vers
  BY FS_Subset, UploadsAssumption DEF Issued
<1>2. Cardinality(Issued \cup {v}) = Cardinality(Issued) + 1
  BY <1>1, FS_AddElement
<1>3. Cardinality(Issued \cup {v}) <= Cardinality(Vers)
  BY <1>1, FS_Subset, UploadsAssumption
<1> QED
  BY <1>2, <1>3

LEMMA LatestIsHighest ==
    ASSUME TypeOK, Numbering
    PROVE  /\ Latest \in Nat
           /\ Latest <= Cardinality(Issued)
           /\ \A v \in DOMAIN version : version[v].no <= Latest
<1> DEFINE S == {0} \cup {version[v].no : v \in DOMAIN version}
<1>1. \A v \in DOMAIN version : version[v].no \in Nos
  BY DEF TypeOK, VersionRow
<1>2. Cardinality(Vers) \in Nat
  BY IssuedCount
<1>3. S \subseteq Nat /\ S # {} /\ \A x \in S : x <= Cardinality(Vers)
  BY <1>1, <1>2 DEF Nos
<1>4. Max(S) \in S /\ \A x \in S : x <= Max(S)
  BY <1>2, <1>3, Highest
<1>5. \A x \in S : x <= Cardinality(Issued)
  BY IssuedCount DEF Numbering
<1>6. Latest = Max(S)
  BY DEF Latest
<1> QED
  BY <1>3, <1>4, <1>5, <1>6

-----------------------------------------------------------------------------
(* Types. *)

SweepRow == [pc : {"idle", "node", "find", "versions", "row"},
             todo : (SUBSET Keys) \cup (SUBSET Vers), at : Vers \cup {None},
             crashes : 0..MaxCrashes]

LEMMA Typed ==
    TypeOK <=> /\ node \in NodeRow
               /\ DOMAIN version \subseteq Vers
               /\ version \in [DOMAIN version -> VersionRow]
               /\ bucket \in [Keys -> Contents \cup {None}]
               /\ url \in [Vers -> Keys \cup {0, None}]
               /\ puts \in [Vers -> 0..2]
               /\ total \in 0..MaxPuts
               /\ stale \subseteq Vers
               /\ req \in [Reqs -> RequestRow]
               /\ sweep \in SweepRow
  BY DEF TypeOK, NodeRow, RequestRow, SweepRow

LEMMA TypedNext ==
    TypeOK' <=> /\ node' \in NodeRow
                /\ DOMAIN version' \subseteq Vers
                /\ version' \in [DOMAIN version' -> VersionRow]
                /\ bucket' \in [Keys -> Contents \cup {None}]
                /\ url' \in [Vers -> Keys \cup {0, None}]
                /\ puts' \in [Vers -> 0..2]
                /\ total' \in 0..MaxPuts
                /\ stale' \subseteq Vers
                /\ req' \in [Reqs -> RequestRow]
                /\ sweep' \in SweepRow
  BY DEF TypeOK, NodeRow, RequestRow, SweepRow

LEMMA IdleTyped == Idle \in RequestRow /\ Idle.op = "idle"
  BY DEF Idle, RequestRow

LEMMA AbsentTyped == Absent \in NodeRow /\ Absent.status = "NONE"
  BY DEF Absent, NodeRow

LEMMA RequestTyped ==
    ASSUME TypeOK, NEW t \in Reqs
    PROVE  /\ req[t] \in RequestRow
           /\ req[t].op \in {"idle", "presign", "head", "activate", "remove", "reject", "restore"}
           /\ req[t].v \in Vers \cup {None}
           /\ req[t].no \in Keys \cup {0, Cardinality(Vers) + 1}
           /\ req[t].head \in Contents \cup {None}
<1>1. req[t] \in RequestRow
  BY Typed
<1> QED
  BY <1>1 DEF RequestRow

LEMMA RowTyped ==
    ASSUME TypeOK, NEW v \in DOMAIN version
    PROVE  /\ v \in Vers /\ v # None
           /\ version[v] \in VersionRow
           /\ version[v].no \in Nat /\ version[v].no > 0 /\ version[v].no \in Nos
           /\ version[v].key \in Keys /\ version[v].key \in Nat
           /\ version[v].checksum \in Contents \cup {None}
           /\ puts[v] \in 0..2
           /\ bucket[version[v].key] \in Contents \cup {None}
<1>1. v \in Vers /\ version[v] \in VersionRow
  BY Typed
<1>2. version[v].no \in Nos /\ version[v].key \in Keys /\ version[v].checksum \in Contents \cup {None}
  BY <1>1 DEF VersionRow
<1>3. Nos \subseteq Nat /\ \A n \in Nos : n > 0
  BY IssuedCount DEF Nos
<1> QED
  BY <1>1, <1>2, <1>3, Typed, UploadsAssumption DEF Keys

(* A row is added, or one is taken away. *)
LEMMA WithVersionTyped ==
    ASSUME TypeOK, NEW v \in Vers, NEW row \in VersionRow, version' = WithVersion(v, row)
    PROVE  /\ DOMAIN version' = DOMAIN version \cup {v}
           /\ version'[v] = row
           /\ \A u \in DOMAIN version : u # v => version'[u] = version[u]
           /\ DOMAIN version' \subseteq Vers
           /\ version' \in [DOMAIN version' -> VersionRow]
<1>1. DOMAIN version \subseteq Vers /\ \A u \in DOMAIN version : version[u] \in VersionRow
  BY Typed
<1> QED
  BY <1>1 DEF WithVersion

LEMMA WithoutVersionTyped ==
    ASSUME TypeOK, NEW v, version' = WithoutVersion(v)
    PROVE  /\ DOMAIN version' = DOMAIN version \ {v}
           /\ \A u \in DOMAIN version' : version'[u] = version[u]
           /\ DOMAIN version' \subseteq Vers
           /\ version' \in [DOMAIN version' -> VersionRow]
<1>1. DOMAIN version \subseteq Vers /\ \A u \in DOMAIN version : version[u] \in VersionRow
  BY Typed
<1> QED
  BY <1>1 DEF WithoutVersion
-----------------------------------------------------------------------------
(* Steps that change what requests hold and no more. *)

LEMMA RequestStep ==
    ASSUME Inv, NEW t \in Reqs, NEW r \in RequestRow, Goto(t, r),
           UNCHANGED << node, version, bucket, url, puts, stale, sweep, total >>,
           Holds(r),
           r.op = "presign" => r.no > 0 /\ r.no <= Cardinality(Issued) + 1,
           r.op \in Looked /\ r.v \in DOMAIN version /\ puts[r.v] = 1 =>
              \A c \in Contents : Saw(r.v, c) => r.head = c
    PROVE  Inv'
<1>1. /\ req' = [req EXCEPT ![t] = r]
      /\ req \in [Reqs -> RequestRow]
      /\ \A u \in Reqs : req'[u] = IF u = t THEN r ELSE req[u]
  BY Typed DEF Goto, Inv
<1>2. TypeOK'
  BY <1>1, Typed, TypedNext DEF Inv
<1>3. Issued' = Issued /\ \A v : Confirmed(v)' = Confirmed(v)
  BY DEF Issued, Confirmed
<1>4. Numbering'
  BY <1>1, <1>3 DEF Inv, Numbering
<1>5. Fresh'
  BY <1>3 DEF Inv, Fresh
<1>6. RequestsHold'
  <2> SUFFICES ASSUME NEW u \in Reqs
               PROVE  Holds(req[u])'
    BY DEF RequestsHold
  <2>1. PICK q : q = req'[u] /\ Holds(q)
    BY <1>1 DEF Inv, RequestsHold
  <2> QED
    BY <1>3, <2>1 DEF Holds
<1>7. SweepIsSafe'
  BY <1>3 DEF Inv, SweepIsSafe
<1>8. Verified'
  BY <1>3 DEF Inv, Verified
<1>9. Agree'
  <2> SUFFICES ASSUME NEW v \in DOMAIN version, puts[v] = 1
               PROVE  \E c \in Contents : Saw(v, c)'
    BY DEF Agree
  <2>1. PICK c \in Contents : Saw(v, c)
    BY DEF Inv, Agree
  <2>2. Saw(v, c)'
    BY <1>1, <2>1 DEF Saw
  <2> QED
    BY <2>2
<1>10. CopiesHaveSource'
  BY <1>3 DEF Inv, CopiesHaveSource, IsSource
<1>11. ActiveFilesAreWhole'
  BY <1>3 DEF Inv, ActiveFilesAreWhole
<1> QED
  BY <1>2, <1>4, <1>5, <1>6, <1>7, <1>8, <1>9, <1>10, <1>11 DEF Inv

LEMMA IdleHolds == Holds(Idle) /\ Idle.op \notin Looked /\ Idle.op # "presign"
  BY IdleTyped DEF Holds, Confirming, Looked

LEMMA RequestKeeps ==
    ASSUME Inv, NEW t \in Reqs,
           \/ PresignLookup(t) \/ ConfirmHead(t) \/ RequestFails(t)
           \/ \E v \in Vers : ConfirmRead(t, v) \/ RestoreRead(t, v)
    PROVE  Inv'
<1>1. CASE PresignLookup(t)
  <2> DEFINE r == [Idle EXCEPT !.op = "presign", !.no = Latest + 1]
  <2>1. Latest \in Nat /\ Latest <= Cardinality(Issued) /\ \A v \in DOMAIN version : version[v].no <= Latest
    BY LatestIsHighest DEF Inv
  <2>2. Latest + 1 \in Keys \cup {0, Cardinality(Vers) + 1}
    BY <2>1, IssuedCount DEF Keys, Nos
  <2>3. r \in RequestRow /\ r.op = "presign" /\ r.no = Latest + 1
    BY <2>2 DEF Idle, RequestRow
  <2> HIDE DEF r
  <2>4. Holds(r)
    BY <2>3 DEF Holds, Confirming, Looked
  <2>5. Goto(t, r)
    BY <1>1 DEF PresignLookup, r
  <2> QED
    BY <1>1, <2>1, <2>3, <2>4, <2>5, IssuedCount, RequestStep DEF PresignLookup, Looked
<1>2. CASE ConfirmHead(t)
  <2> DEFINE c == bucket[req[t].no]
             r == [req[t] EXCEPT !.op = IF c \in Good THEN "activate" ELSE "remove", !.head = c]
  <2>1. /\ req[t].op = "head" /\ Holds(req[t]) /\ req[t] \in RequestRow
        /\ c \in Contents \cup {None}
    BY <1>2, RequestTyped, Typed DEF ConfirmHead, Inv, RequestsHold, Holds, Confirming
  <2>2. CASE c = None
    BY <1>2, <2>2, IdleTyped, IdleHolds, RequestStep DEF ConfirmHead, Done
  <2>3. CASE c # None
    <3>1. /\ r \in RequestRow /\ r.op \in {"activate", "remove"} /\ r.head = c
          /\ r.v = req[t].v /\ r.no = req[t].no
          /\ r.op = "activate" <=> c \in Good
      BY <2>1 DEF RequestRow
    <3>2. Goto(t, r)
      BY <1>2, <2>3 DEF ConfirmHead
    <3> HIDE DEF r
    <3>3. Holds(r)
      BY <2>1, <2>3, <3>1 DEF Holds, Confirming, Looked
    <3>4. ASSUME NEW d \in Contents, r.v \in DOMAIN version, Saw(r.v, d)
          PROVE  r.head = d
      BY <2>1, <2>3, <3>1, <3>4 DEF Saw, Holds, Confirming
    <3> QED
      BY <1>2, <3>1, <3>2, <3>3, <3>4, RequestStep DEF ConfirmHead
  <2> QED
    BY <2>2, <2>3
<1>3. CASE RequestFails(t)
  BY <1>3, IdleTyped, IdleHolds, RequestStep DEF RequestFails, Done
<1>4. ASSUME NEW v \in Vers, ConfirmRead(t, v)
      PROVE  Inv'
  <2> DEFINE r == [Idle EXCEPT !.op = "head", !.v = v, !.no = version[v].key,
                               !.dropNode = (node.status = "PENDING")]
  <2>1. v \in DOMAIN version /\ v \notin stale /\ puts[v] > 0 /\ version[v].key \in Keys
    BY <1>4, RowTyped DEF ConfirmRead, Inv
  <2>2. r \in RequestRow /\ r.op = "head" /\ r.v = v /\ r.no = version[v].key
    BY <2>1 DEF Idle, RequestRow
  <2> HIDE DEF r
  <2>3. Holds(r)
    BY <2>1, <2>2 DEF Holds, Confirming, Looked, Inv, Fresh
  <2>4. Goto(t, r)
    BY <1>4 DEF ConfirmRead, r
  <2> QED
    BY <1>4, <2>2, <2>3, <2>4, RequestStep DEF ConfirmRead, Looked
<1>5. ASSUME NEW v \in Vers, RestoreRead(t, v)
      PROVE  Inv'
  <2> DEFINE r == [Idle EXCEPT !.op = "restore", !.v = v, !.no = version[v].key,
                               !.head = version[v].checksum]
  <2>1. /\ v \in DOMAIN version /\ Confirmed(v) /\ version[v].key \in Keys
        /\ version[v].checksum \in Contents \cup {None}
    BY <1>5, RowTyped DEF RestoreRead, Inv, Confirmed
  <2>2. puts[v] > 0 /\ version[v].checksum \in Good
    BY <2>1 DEF Inv, Verified, Confirmed
  <2>3. /\ r \in RequestRow /\ r.op = "restore" /\ r.v = v /\ r.no = version[v].key
        /\ r.head = version[v].checksum
    BY <2>1 DEF Idle, RequestRow
  <2> HIDE DEF r
  <2>4. Holds(r)
    BY <2>1, <2>2, <2>3 DEF Holds, Confirming, Looked, Inv, Fresh
  <2>5. Goto(t, r)
    BY <1>5 DEF RestoreRead, r
  <2> QED
    BY <1>5, <2>3, <2>4, <2>5, RequestStep DEF RestoreRead, Looked
<1> QED
  BY <1>1, <1>2, <1>3, <1>4, <1>5
-----------------------------------------------------------------------------
(* Steps that add or take no row.  Requests end, or go on with what they   *)
(* hold; objects may be removed, and the sweep moves on.                   *)

Follows(q, r) ==
    \/ q.op = "idle"
    \/ /\ q.v = r.v /\ q.no = r.no /\ q.head = r.head
       /\ q.op = r.op \/ (r.op = "remove" /\ q.op = "reject")

RequestsFollow == \A t \in Reqs : Follows(req'[t], req[t])

LEMMA FollowsHolds ==
    ASSUME NEW q, NEW r, Follows(q, r), Holds(r)
    PROVE  Holds(q)
  BY DEF Follows, Holds, Confirming, Looked

LEMMA FollowsLooked ==
    ASSUME NEW q, NEW r, Follows(q, r), q.op \in Looked
    PROVE  r.op \in Looked /\ q.v = r.v /\ q.head = r.head
  BY DEF Follows, Looked

LEMMA DoneFollows ==
    ASSUME TypeOK, NEW t \in Reqs, Done(t)
    PROVE  RequestsFollow /\ req' \in [Reqs -> RequestRow]
<1>1. \A u \in Reqs : req'[u] = IF u = t THEN Idle ELSE req[u]
  BY Typed DEF Done, Goto
<1>2. req' \in [Reqs -> RequestRow]
  BY IdleTyped, Typed DEF Done, Goto
<1> QED
  BY <1>1, <1>2, IdleTyped DEF RequestsFollow, Follows

LEMMA SameFollows ==
    ASSUME req' = req
    PROVE  RequestsFollow
  BY DEF RequestsFollow, Follows

LEMMA QuietStep ==
    ASSUME Inv, TypeOK', Issued' = Issued, UNCHANGED << version, puts >>,
           node'.status = node.status, node'.current = node.current, node'.size = node.size,
           \A k \in Keys : bucket'[k] \in {bucket[k], None},
           stale' \subseteq Issued,
           \A t \in Reqs : req'[t].op \in Confirming => req'[t].v \notin stale',
           RequestsFollow, SweepIsSafe'
    PROVE  Inv'
<1>1. \A v : Confirmed(v)' = Confirmed(v)
  BY DEF Confirmed
<1>2. Numbering'
  BY DEF Inv, Numbering, RequestsFollow, Follows
<1>3. Fresh'
  BY DEF Inv, Fresh
<1>4. RequestsHold'
  <2> SUFFICES ASSUME NEW t \in Reqs
               PROVE  Holds(req[t])'
    BY DEF RequestsHold
  <2>1. PICK q : q = req'[t] /\ Holds(q)
    BY FollowsHolds DEF Inv, RequestsHold, RequestsFollow
  <2> QED
    BY <2>1 DEF Holds
<1>5. Verified'
  BY <1>1 DEF Inv, Verified
<1>6. Agree'
  <2> SUFFICES ASSUME NEW v \in DOMAIN version, puts[v] = 1
               PROVE  \E c \in Contents : Saw(v, c)'
    BY DEF Agree
  <2>1. PICK c \in Contents : Saw(v, c)
    BY DEF Inv, Agree
  <2>2. bucket'[version[v].key] \in {c, None}
    BY <2>1, RowTyped DEF Saw, Inv
  <2>3. \A t \in Reqs : req'[t].op \in Looked /\ req'[t].v = v => req'[t].head = c
    BY <2>1, FollowsLooked DEF Saw, RequestsFollow
  <2>4. Saw(v, c)'
    BY <2>1, <2>2, <2>3 DEF Saw
  <2> QED
    BY <2>4
<1>7. CopiesHaveSource'
  BY <1>1 DEF Inv, CopiesHaveSource, IsSource
<1>8. ActiveFilesAreWhole'
  BY <1>1 DEF Inv, ActiveFilesAreWhole
<1> QED
  BY <1>2, <1>3, <1>4, <1>5, <1>6, <1>7, <1>8 DEF Inv
-----------------------------------------------------------------------------
(* Steps that change the rows. *)

(* A row goes: it had no bytes, or its object was overwritten. *)
LEMMA RowDropped ==
    ASSUME Inv, TypeOK', NEW v \in DOMAIN version, version' = WithoutVersion(v),
           Confirmed(v) => puts[v] = 2,
           UNCHANGED << bucket, url, puts, stale >>,
           node'.status = node.status, node'.current = node.current, node'.size = node.size,
           RequestsFollow, SweepIsSafe'
    PROVE  Inv'
<1>1. /\ DOMAIN version' = DOMAIN version \ {v}
      /\ \A u \in DOMAIN version' : version'[u] = version[u]
  BY WithoutVersionTyped DEF Inv
<1>2. Issued' = Issued /\ \A u \in DOMAIN version' : Confirmed(u)' <=> Confirmed(u)
  BY <1>1 DEF Issued, Confirmed
<1>3. Numbering'
  BY <1>1, <1>2 DEF Inv, Numbering, RequestsFollow, Follows
<1>4. Fresh'
  BY <1>1, <1>2 DEF Inv, Fresh
<1>5. RequestsHold'
  <2> SUFFICES ASSUME NEW t \in Reqs
               PROVE  Holds(req[t])'
    BY DEF RequestsHold
  <2>1. PICK q : q = req'[t] /\ Holds(q)
    BY FollowsHolds DEF Inv, RequestsHold, RequestsFollow
  <2>2. ASSUME q.op = "restore", puts[q.v] < 2, node.status # "NONE"
        PROVE  q.v \in DOMAIN version' /\ version'[q.v].checksum = q.head
    <3>1. /\ q.v \in DOMAIN version /\ version[q.v].checksum = q.head
          /\ q.head \in Good
      BY <2>1, <2>2 DEF Holds
    <3>2. Confirmed(q.v)
      BY <3>1, UploadsAssumption DEF Confirmed
    <3> QED
      BY <1>1, <2>2, <3>1, <3>2
  <2> QED
    BY <1>1, <1>2, <2>1, <2>2 DEF Holds
<1>6. Verified'
  BY <1>1, <1>2 DEF Inv, Verified
<1>7. Agree'
  <2> SUFFICES ASSUME NEW u \in DOMAIN version', puts[u] = 1
               PROVE  \E c \in Contents : Saw(u, c)'
    BY DEF Agree
  <2>1. PICK c \in Contents : Saw(u, c)
    BY <1>1 DEF Inv, Agree
  <2>2. \A t \in Reqs : req'[t].op \in Looked /\ req'[t].v = u => req'[t].head = c
    BY <2>1, FollowsLooked DEF Saw, RequestsFollow
  <2>3. Saw(u, c)'
    BY <1>1, <2>1, <2>2 DEF Saw
  <2> QED
    BY <2>3
<1>8. CopiesHaveSource'
  <2> SUFFICES ASSUME NEW u \in DOMAIN version', version'[u].key # version'[u].no
               PROVE  /\ Confirmed(u)'
                      /\ puts[u] < 2 => \E w \in DOMAIN version' : IsSource(w, u)'
    BY DEF CopiesHaveSource
  <2>1. /\ Confirmed(u)
        /\ puts[u] < 2 => \E w \in DOMAIN version : IsSource(w, u)
    BY <1>1 DEF Inv, CopiesHaveSource
  <2>2. ASSUME puts[u] < 2
        PROVE  \E w \in DOMAIN version' : IsSource(w, u)'
    <3>1. PICK w \in DOMAIN version : IsSource(w, u)
      BY <2>1, <2>2
    <3>2. Confirmed(w) /\ puts[w] < 2
      BY <2>1, <3>1 DEF IsSource, Confirmed
    <3>3. w \in DOMAIN version'
      BY <1>1, <3>2
    <3> QED
      BY <1>1, <3>1, <3>3 DEF IsSource
  <2> QED
    BY <1>1, <1>2, <2>1, <2>2
<1>9. ActiveFilesAreWhole'
  BY <1>1, <1>2 DEF Inv, ActiveFilesAreWhole, Confirmed
<1> QED
  BY <1>3, <1>4, <1>5, <1>6, <1>7, <1>8, <1>9 DEF Inv

(* A row is added under an id that was not handed out before: a            *)
(* reservation, or the copy of a row the request has read.                 *)
LEMMA RowAdded ==
    ASSUME Inv, TypeOK', NEW w \in Vers \ Issued, NEW row \in VersionRow,
           version' = WithVersion(w, row), Issued' = Issued \cup {w},
           UNCHANGED << bucket, stale, sweep >>,
           \A u \in Vers : u # w => puts'[u] = puts[u],
           RequestsFollow,
           row.no <= Cardinality(Issued) + 1,
           \A u \in DOMAIN version : version[u].no # row.no,
           row.checksum \in Good \cup {None},
           row.checksum # None => puts'[w] > 0,
           puts'[w] = 1 => \E c \in Contents :
               row.checksum \in {c, None} /\ bucket[row.key] \in {c, None},
           row.key # row.no =>
               /\ row.checksum # None
               /\ puts'[w] < 2 => \E v \in DOMAIN version :
                     /\ version[v].no = row.key /\ version[v].key = row.key
                     /\ version[v].checksum = row.checksum /\ puts[v] < 2,
           node.status # "NONE" \/ Issued = {},
           node'.status # "NONE",
           \/ /\ node'.status = node.status /\ node'.current = node.current
              /\ node'.size = node.size
           \/ row.checksum # None /\ node'.current = w /\ node'.size = row.checksum
           \/ node'.status = "PENDING"
    PROVE  Inv'
<1>1. /\ DOMAIN version' = DOMAIN version \cup {w} /\ w \notin DOMAIN version
      /\ version'[w] = row
      /\ \A u \in DOMAIN version : u # w /\ version'[u] = version[u] /\ puts'[u] = puts[u]
  BY WithVersionTyped, RowTyped DEF Inv, Fresh
<1>2. /\ \A u \in DOMAIN version : Confirmed(u)' <=> Confirmed(u)
      /\ Confirmed(w)' <=> row.checksum # None
  BY <1>1 DEF Confirmed
<1>3. Cardinality(Issued') = Cardinality(Issued) + 1 /\ Cardinality(Issued) \in Nat
  BY IssuedGrows, IssuedCount
<1>4. Numbering'
  <2>1. \A u \in DOMAIN version : version[u].no \in Nat /\ version[u].no <= Cardinality(Issued)
    BY RowTyped DEF Inv, Numbering
  <2>2. \A u \in DOMAIN version' : version'[u].no <= Cardinality(Issued')
    BY <1>1, <1>3, <2>1
  <2>3. \A u, v \in DOMAIN version' : version'[u].no = version'[v].no => u = v
    BY <1>1 DEF Inv, Numbering
  <2>4. ASSUME NEW t \in Reqs, req'[t].op = "presign"
        PROVE  req'[t].no > 0 /\ req'[t].no <= Cardinality(Issued') + 1
    <3>1. req[t].op = "presign" /\ req'[t].no = req[t].no
      BY <2>4 DEF RequestsFollow, Follows
    <3>2. req[t].no \in Int
      BY RequestTyped, IssuedCount DEF Inv, Keys, Nos
    <3> QED
      BY <1>3, <3>1, <3>2 DEF Inv, Numbering
  <2> QED
    BY <2>2, <2>3, <2>4 DEF Numbering
<1>5. Fresh'
  <2>1. node'.status = "ACTIVE" => node'.current \in Issued'
    BY DEF Inv, Fresh
  <2> QED
    BY <1>1, <2>1 DEF Inv, Fresh
<1>6. RequestsHold'
  <2> SUFFICES ASSUME NEW t \in Reqs
               PROVE  Holds(req[t])'
    BY DEF RequestsHold
  <2>1. PICK q : q = req'[t] /\ Holds(q)
    BY FollowsHolds DEF Inv, RequestsHold, RequestsFollow
  <2>2. CASE q.op \in Confirming \cup {"restore"}
    <3>1. q.v \in Issued /\ q.v # w /\ puts'[q.v] = puts[q.v] /\ node.status # "NONE"
      BY <2>1, <2>2 DEF Holds, Issued
    <3>2. q.v \in DOMAIN version' <=> q.v \in DOMAIN version
      BY <1>1, <3>1
    <3> QED
      BY <1>1, <2>1, <3>1, <3>2 DEF Holds
  <2>3. CASE q.op \notin Confirming \cup {"restore"}
    BY <2>1, <2>3 DEF Holds, Confirming, Looked
  <2> QED
    BY <2>2, <2>3
<1>7. SweepIsSafe'
  <2>1. \A v \in stale : v # w
    BY DEF Inv, Fresh
  <2> QED
    BY <1>1, <1>2, <2>1 DEF Inv, SweepIsSafe
<1>8. Verified'
  BY <1>1, <1>2 DEF Inv, Verified
<1>9. Agree'
  <2> SUFFICES ASSUME NEW u \in DOMAIN version', puts'[u] = 1
               PROVE  \E c \in Contents : Saw(u, c)'
    BY DEF Agree
  <2>1. CASE u = w
    <3>1. PICK c \in Contents : row.checksum \in {c, None} /\ bucket[row.key] \in {c, None}
      BY <2>1
    <3>2. ASSUME NEW t \in Reqs, req'[t].op \in Looked
          PROVE  req'[t].v # w
      <4>1. req[t].op \in Confirming /\ req'[t].v = req[t].v
        BY <3>2, FollowsLooked DEF RequestsFollow, Confirming
      <4> QED
        BY <4>1 DEF Inv, RequestsHold, Holds
    <3>3. Saw(u, c)'
      BY <1>1, <2>1, <3>1, <3>2 DEF Saw
    <3> QED
      BY <3>3
  <2>2. CASE u # w
    <3>1. PICK c \in Contents : Saw(u, c)
      BY <1>1, <2>2 DEF Inv, Agree
    <3>2. \A t \in Reqs : req'[t].op \in Looked /\ req'[t].v = u => req'[t].head = c
      BY <3>1, FollowsLooked DEF Saw, RequestsFollow
    <3>3. Saw(u, c)'
      BY <1>1, <2>2, <3>1, <3>2 DEF Saw
    <3> QED
      BY <3>3
  <2> QED
    BY <2>1, <2>2
<1>10. CopiesHaveSource'
  <2> SUFFICES ASSUME NEW u \in DOMAIN version', version'[u].key # version'[u].no
               PROVE  /\ Confirmed(u)'
                      /\ puts'[u] < 2 => \E v \in DOMAIN version' : IsSource(v, u)'
    BY DEF CopiesHaveSource
  <2>1. CASE u = w
    <3>1. Confirmed(u)'
      BY <1>1, <1>2, <2>1
    <3>2. ASSUME puts'[u] < 2
          PROVE  \E v \in DOMAIN version' : IsSource(v, u)'
      <4>1. PICK v \in DOMAIN version :
                /\ version[v].no = row.key /\ version[v].key = row.key
                /\ version[v].checksum = row.checksum /\ puts[v] < 2
        BY <1>1, <2>1, <3>2
      <4> QED
        BY <1>1, <2>1, <4>1 DEF IsSource
    <3> QED
      BY <3>1, <3>2
  <2>2. CASE u # w
    <3>1. /\ Confirmed(u)
          /\ puts[u] < 2 => \E v \in DOMAIN version : IsSource(v, u)
      BY <1>1, <2>2 DEF Inv, CopiesHaveSource
    <3>2. ASSUME puts'[u] < 2
          PROVE  \E v \in DOMAIN version' : IsSource(v, u)'
      <4>1. PICK v \in DOMAIN version : IsSource(v, u)
        BY <1>1, <2>2, <3>1, <3>2
      <4> QED
        BY <1>1, <2>2, <4>1 DEF IsSource
    <3> QED
      BY <1>1, <1>2, <2>2, <3>1, <3>2
  <2> QED
    BY <2>1, <2>2
<1>11. ActiveFilesAreWhole'
  <2> SUFFICES ASSUME node'.status = "ACTIVE", puts'[node'.current] < 2
               PROVE  /\ Confirmed(node.current)'
                      /\ node'.size = version'[node'.current].checksum
    BY DEF ActiveFilesAreWhole, Confirmed
  <2>1. CASE node'.current = w /\ node'.size = row.checksum /\ row.checksum # None
    BY <1>1, <1>2, <2>1 DEF Confirmed
  <2>2. CASE node'.status = node.status /\ node'.current = node.current /\ node'.size = node.size
    <3>1. node.current \in Issued /\ node.current # w /\ puts'[node.current] = puts[node.current]
      BY <2>2 DEF Inv, Fresh, Issued
    <3>2. Confirmed(node.current) /\ node.size = version[node.current].checksum
      BY <2>2, <3>1 DEF Inv, ActiveFilesAreWhole
    <3>3. node.current \in DOMAIN version
      BY <3>2 DEF Confirmed
    <3> QED
      BY <1>1, <2>2, <3>2, <3>3 DEF Confirmed
  <2> QED
    BY <2>1, <2>2
<1> QED
  BY <1>4, <1>5, <1>6, <1>7, <1>8, <1>9, <1>10, <1>11 DEF Inv
(* The transaction of a confirm that finds its row. *)
LEMMA RowConfirmed ==
    ASSUME Inv, NEW t \in Reqs, req[t].op = "activate", req[t].v \in DOMAIN version,
           ConfirmActivate(t)
    PROVE  Inv'
<1>0. PICK v, c : v = req[t].v /\ c = req[t].head
  OBVIOUS
<1>1. /\ Holds(req[t]) /\ c \in Good /\ c \in Contents /\ c # None /\ v \notin stale
      /\ puts[v] > 0 /\ v \in DOMAIN version /\ v \in Vers
  BY <1>0, RowTyped, UploadsAssumption DEF Inv, RequestsHold, Holds, Confirming, Looked
<1>2. puts[v] = 1 => Saw(v, c)
  BY <1>0, <1>1 DEF Inv, Agree, Saw, Looked
<1>3. /\ version' = [version EXCEPT ![v].checksum = c]
      /\ node' = [node EXCEPT !.status = "ACTIVE", !.current = v, !.size = c]
      /\ Done(t)
      /\ UNCHANGED << bucket, url, puts, stale, sweep, total >>
  BY <1>0 DEF ConfirmActivate
<1>4. /\ DOMAIN version' = DOMAIN version
      /\ version'[v].checksum = c
      /\ \A u \in DOMAIN version : /\ version'[u] \in VersionRow
                                   /\ version'[u].no = version[u].no
                                   /\ version'[u].key = version[u].key
                                   /\ u # v => version'[u] = version[u]
      /\ version' \in [DOMAIN version' -> VersionRow]
  <2>1. \A u \in DOMAIN version : version[u] \in VersionRow
    BY RowTyped DEF Inv
  <2> QED
    BY <1>1, <1>3, <2>1 DEF VersionRow
<1>5. node' \in NodeRow /\ node'.status = "ACTIVE" /\ node'.current = v /\ node'.size = c
  BY <1>1, <1>3, Typed DEF Inv, NodeRow
<1>6. RequestsFollow /\ req' \in [Reqs -> RequestRow]
  BY <1>3, DoneFollows DEF Inv
<1>7. TypeOK'
  BY <1>3, <1>4, <1>5, <1>6, Typed, TypedNext DEF Inv
<1>8. /\ Issued' = Issued
      /\ \A u \in DOMAIN version : Confirmed(u) => Confirmed(u)'
      /\ Confirmed(v)'
      /\ \A u \in DOMAIN version : u # v => (Confirmed(u)' <=> Confirmed(u))
  BY <1>1, <1>3, <1>4 DEF Issued, Confirmed
(* While the object has had one PUT, bytes that were confirmed stay. *)
<1>9. \A u \in DOMAIN version :
          Confirmed(u) /\ puts[u] < 2 => version'[u].checksum = version[u].checksum
  <2> SUFFICES ASSUME Confirmed(v), puts[v] < 2
               PROVE  version'[v].checksum = version[v].checksum
    BY <1>4
  <2>1. puts[v] = 1
    BY <1>1, RowTyped DEF Inv
  <2> QED
    BY <1>2, <1>4, <2>1 DEF Saw, Confirmed
<1>10. Numbering'
  BY <1>4, <1>6, <1>8 DEF Inv, Numbering, RequestsFollow, Follows
<1>11. Fresh'
  BY <1>1, <1>3, <1>4, <1>5, <1>8 DEF Inv, Fresh
<1>12. RequestsHold'
  <2> SUFFICES ASSUME NEW u \in Reqs
               PROVE  Holds(req[u])'
    BY DEF RequestsHold
  <2>1. PICK q : q = req'[u] /\ Holds(q)
    BY <1>6, FollowsHolds DEF Inv, RequestsHold, RequestsFollow
  <2>2. node.status # "NONE"
    BY <1>1 DEF Inv, Fresh
  <2>3. ASSUME q.op = "restore", puts[q.v] < 2
        PROVE  q.v \in DOMAIN version' /\ version'[q.v].checksum = q.head
    <3>1. q.v \in DOMAIN version /\ version[q.v].checksum = q.head /\ q.head \in Good
      BY <2>1, <2>2, <2>3 DEF Holds
    <3>2. Confirmed(q.v)
      BY <3>1, UploadsAssumption DEF Confirmed
    <3> QED
      BY <1>4, <1>9, <2>3, <3>1, <3>2
  <2> QED
    BY <1>3, <1>4, <1>8, <2>1, <2>3 DEF Holds
<1>13. SweepIsSafe'
  BY <1>1, <1>3, <1>4, <1>8 DEF Inv, SweepIsSafe
<1>14. Verified'
  BY <1>1, <1>3, <1>4, <1>8 DEF Inv, Verified
<1>15. Agree'
  <2> SUFFICES ASSUME NEW u \in DOMAIN version, puts[u] = 1
               PROVE  \E d \in Contents : Saw(u, d)'
    BY <1>3, <1>4 DEF Agree
  <2>1. PICK d \in Contents : Saw(u, d) /\ (u = v => d = c)
    BY <1>1, <1>2 DEF Inv, Agree
  <2>2. \A s \in Reqs : req'[s].op \in Looked /\ req'[s].v = u => req'[s].head = d
    BY <1>6, <2>1, FollowsLooked DEF Saw, RequestsFollow
  <2>3. Saw(u, d)'
    BY <1>3, <1>4, <2>1, <2>2 DEF Saw
  <2> QED
    BY <2>3
<1>16. CopiesHaveSource'
  <2> SUFFICES ASSUME NEW u \in DOMAIN version, version[u].key # version[u].no
               PROVE  /\ Confirmed(u)'
                      /\ puts[u] < 2 => \E w \in DOMAIN version : IsSource(w, u)'
    BY <1>3, <1>4 DEF CopiesHaveSource
  <2>1. /\ Confirmed(u)
        /\ puts[u] < 2 => \E w \in DOMAIN version : IsSource(w, u)
    BY DEF Inv, CopiesHaveSource
  <2>2. ASSUME puts[u] < 2
        PROVE  \E w \in DOMAIN version : IsSource(w, u)'
    <3>1. PICK w \in DOMAIN version : IsSource(w, u)
      BY <2>1, <2>2
    <3>2. Confirmed(w) /\ puts[w] < 2
      BY <2>1, <3>1 DEF IsSource, Confirmed
    <3>3. /\ version'[w].checksum = version[w].checksum
          /\ version'[u].checksum = version[u].checksum
      BY <1>9, <2>1, <2>2, <3>2
    <3> QED
      BY <1>3, <1>4, <3>1, <3>3 DEF IsSource
  <2> QED
    BY <1>8, <2>1, <2>2
<1>17. ActiveFilesAreWhole'
  BY <1>4, <1>5, <1>8 DEF ActiveFilesAreWhole
<1> QED
  BY <1>7, <1>10, <1>11, <1>12, <1>13, <1>14, <1>15, <1>16, <1>17 DEF Inv

(* A PUT counts for every row that names its key. *)
LEMMA PutKeeps ==
    ASSUME Inv, NEW v \in Vers, NEW c \in Contents, Put(v, c)
    PROVE  Inv'
<1> DEFINE k == url[v]
<1>1. /\ k \in Keys
      /\ total < MaxPuts /\ total' = total + 1
      /\ bucket' = [bucket EXCEPT ![k] = c]
      /\ puts' = [u \in Vers |-> IF u \in DOMAIN version /\ version[u].key = k /\ puts[u] < 2
                                 THEN puts[u] + 1 ELSE puts[u]]
      /\ UNCHANGED << node, version, url, stale, req, sweep >>
  BY Typed DEF Put, Inv
<1> HIDE DEF k
<1>2. \A u \in Vers : puts[u] \in 0..2
  BY Typed DEF Inv
<1>3. /\ puts' \in [Vers -> 0..2]
      /\ \A u \in Vers : puts'[u] >= puts[u]
      /\ \A u \in Vers : u \notin DOMAIN version => puts'[u] = puts[u]
      /\ \A u \in DOMAIN version : version[u].key # k => puts'[u] = puts[u]
      /\ \A u \in DOMAIN version : version[u].key = k /\ puts[u] < 2 => puts'[u] = puts[u] + 1
  BY <1>1, <1>2, RowTyped DEF Inv
<1>4. TypeOK'
  <2>1. total' \in 0..MaxPuts /\ bucket' \in [Keys -> Contents \cup {None}]
    BY <1>1, Typed, UploadsAssumption DEF Inv
  <2> QED
    BY <1>1, <1>3, <2>1, Typed, TypedNext DEF Inv
<1>5. Issued' = Issued /\ \A u : Confirmed(u)' = Confirmed(u)
  BY <1>1 DEF Issued, Confirmed
<1>6. Numbering'
  BY <1>1, <1>5 DEF Inv, Numbering
<1>7. Fresh'
  BY <1>1, <1>3, <1>5 DEF Inv, Fresh
<1>8. RequestsHold'
  <2> SUFFICES ASSUME NEW t \in Reqs
               PROVE  Holds(req[t])'
    BY DEF RequestsHold
  <2>1. PICK q : q = req[t] /\ Holds(q)
    BY DEF Inv, RequestsHold
  <2>2. q.op \in Confirming \cup {"restore"} =>
            q.v \in Vers /\ puts[q.v] \in 0..2 /\ puts'[q.v] \in 0..2 /\ puts'[q.v] >= puts[q.v]
    BY <1>2, <1>3, <2>1 DEF Holds, Issued
  <2> QED
    BY <1>1, <1>5, <2>1, <2>2 DEF Holds
<1>9. SweepIsSafe'
  BY <1>1, <1>5 DEF Inv, SweepIsSafe
<1>10. Verified'
  BY <1>1, <1>2, <1>3, <1>5, RowTyped DEF Inv, Verified
<1>11. Agree'
  <2> SUFFICES ASSUME NEW u \in DOMAIN version, puts'[u] = 1
               PROVE  \E d \in Contents : Saw(u, d)'
    BY <1>1 DEF Agree
  <2>0. /\ u \in Vers /\ puts[u] \in 0..2 /\ version[u].key \in Keys
        /\ bucket \in [Keys -> Contents \cup {None}]
    BY <1>2, RowTyped, Typed DEF Inv
  <2>1. CASE version[u].key = k
    <3>1. puts[u] = 0
      BY <1>3, <2>0, <2>1
    <3>2. version[u].checksum = None
      BY <2>0, <3>1 DEF Inv, Verified, Confirmed
    <3>3. \A t \in Reqs : req[t].op \in Looked => req[t].v # u
      BY <2>0, <3>1 DEF Inv, RequestsHold, Holds, Confirming
    <3>4. Saw(u, c)'
      BY <1>1, <2>0, <2>1, <3>2, <3>3 DEF Saw
    <3> QED
      BY <3>4
  <2>2. CASE version[u].key # k
    <3>1. PICK d \in Contents : Saw(u, d)
      BY <1>3, <2>2 DEF Inv, Agree
    <3>2. Saw(u, d)'
      BY <1>1, <2>0, <2>2, <3>1 DEF Saw
    <3> QED
      BY <3>2
  <2> QED
    BY <2>1, <2>2
<1>12. CopiesHaveSource'
  <2> SUFFICES ASSUME NEW u \in DOMAIN version, version[u].key # version[u].no
               PROVE  /\ Confirmed(u)
                      /\ puts'[u] < 2 => \E w \in DOMAIN version : IsSource(w, u)'
    BY <1>1, <1>5 DEF CopiesHaveSource
  <2>0. u \in Vers /\ puts[u] \in 0..2 /\ puts'[u] >= puts[u] /\ puts'[u] \in 0..2
    BY <1>2, <1>3, RowTyped DEF Inv
  <2>1. /\ Confirmed(u)
        /\ puts[u] < 2 => \E w \in DOMAIN version : IsSource(w, u)
        /\ puts[u] > 0
    BY DEF Inv, CopiesHaveSource, Verified
  <2>2. ASSUME puts'[u] < 2
        PROVE  \E w \in DOMAIN version : IsSource(w, u)'
    <3>1. puts[u] < 2
      BY <2>0, <2>2
    <3>2. PICK w \in DOMAIN version : IsSource(w, u)
      BY <2>1, <3>1
    <3>3. version[u].key # k
      BY <1>3, <2>0, <2>1, <2>2, <3>1
    <3>4. puts'[w] = puts[w]
      BY <1>3, <3>2, <3>3 DEF IsSource
    <3>5. IsSource(w, u)'
      BY <1>1, <3>2, <3>4 DEF IsSource
    <3> QED
      BY <3>5
  <2> QED
    BY <2>1, <2>2
<1>13. ActiveFilesAreWhole'
  <2>1. node.status = "ACTIVE" =>
            /\ node.current \in Vers /\ puts[node.current] \in 0..2
            /\ puts'[node.current] \in 0..2 /\ puts'[node.current] >= puts[node.current]
    BY <1>2, <1>3 DEF Inv, Fresh, Issued
  <2> QED
    BY <1>1, <1>5, <2>1 DEF Inv, ActiveFilesAreWhole
<1> QED
  BY <1>4, <1>6, <1>7, <1>8, <1>9, <1>10, <1>11, <1>12, <1>13 DEF Inv
(* The node goes, and its rows with it. *)
LEMMA NodeDeleted ==
    ASSUME Inv, SweepDeleteNode
    PROVE  Inv'
<1>1. /\ node' = Absent /\ DOMAIN version' = {} /\ version' = [v \in {} |-> version[v]]
      /\ sweep' = [sweep EXCEPT !.pc = "find", !.todo = {}]
      /\ UNCHANGED << bucket, url, puts, stale, req, total >>
  BY DEF SweepDeleteNode, SweepGoto
<1>2. sweep' \in SweepRow /\ sweep'.pc = "find"
  BY <1>1, Typed DEF Inv, SweepRow
<1>3. TypeOK'
  BY <1>1, <1>2, AbsentTyped, Typed, TypedNext DEF Inv
<1>4. Issued' = Issued /\ node'.status = "NONE"
  BY <1>1, AbsentTyped DEF Issued
<1>5. RequestsHold'
  BY <1>1, <1>4 DEF Inv, RequestsHold, Holds
<1>6. Numbering' /\ Fresh'
  BY <1>1, <1>4 DEF Inv, Numbering, Fresh
<1>7. Verified' /\ Agree' /\ CopiesHaveSource'
  BY <1>1 DEF Verified, Agree, CopiesHaveSource
<1>8. SweepIsSafe' /\ ActiveFilesAreWhole'
  BY <1>2, <1>4 DEF SweepIsSafe, ActiveFilesAreWhole
<1> QED
  BY <1>3, <1>5, <1>6, <1>7, <1>8 DEF Inv

-----------------------------------------------------------------------------
(* Every action is one of these steps. *)

LEMMA NotStale ==
    ASSUME Inv, RequestsFollow
    PROVE  \A t \in Reqs : req'[t].op \in Confirming => req'[t].v \notin stale
  BY DEF Inv, RequestsHold, RequestsFollow, Holds, Follows, Confirming, Looked

(* A request that gives up, or a transaction that fails. *)
LEMMA RequestEnds ==
    ASSUME Inv, NEW t \in Reqs, Done(t),
           UNCHANGED << node, version, bucket, url, puts, stale, sweep, total >>
    PROVE  Inv'
  BY IdleTyped, IdleHolds, RequestStep DEF Done

LEMMA PresignKeeps ==
    ASSUME Inv, NEW t \in Reqs, NEW w \in Vers,
           PresignNewFile(t, w) \/ PresignNewVersion(t, w)
    PROVE  Inv'
<1>1. CASE PresignNewFile(t, w)
  <2> DEFINE row == [no |-> 1, key |-> blobKeyFor(1), checksum |-> None]
  <2>1. /\ Issued = {} /\ version' = WithVersion(w, row)
        /\ node' = [Absent EXCEPT !.status = "PENDING", !.born = w]
        /\ url' = [url EXCEPT ![w] = 1]
        /\ UNCHANGED << bucket, puts, stale, req, sweep, total >>
    BY <1>1 DEF PresignNewFile, blobKeyFor
  <2>2. DOMAIN version = {} /\ w \notin Issued /\ puts[w] = 0
    BY <2>1 DEF Inv, Fresh
  <2>3. url' \in [Vers -> Keys \cup {0, None}] /\ Issued' = Issued \cup {w}
    <3>1. None # 1 /\ url \in [Vers -> Keys \cup {0, None}]
      BY Typed, UploadsAssumption DEF Inv
    <3>2. Cardinality(Vers) # 0
      BY FS_EmptySet, UploadsAssumption
    <3>3. 1 \in Keys
      BY <3>2, IssuedCount DEF Keys, Nos
    <3> QED
      BY <2>1, <3>1, <3>3 DEF Issued
  <2>4. Cardinality(Issued) = 0 /\ 1 \in Nos
    BY <2>1, <2>2, <2>3, FS_EmptySet, IssuedGrows
  <2>5. row \in VersionRow /\ row.no = 1 /\ row.key = 1 /\ row.checksum = None
    BY <2>4 DEF VersionRow, Keys, blobKeyFor
  <2>6. node' \in NodeRow /\ node'.status = "PENDING"
    BY <2>1 DEF NodeRow, Absent
  <2> HIDE DEF row
  <2>7. TypeOK'
    BY <2>1, <2>3, <2>5, <2>6, WithVersionTyped, Typed, TypedNext DEF Inv
  <2> QED
    BY <2>1, <2>2, <2>3, <2>4, <2>5, <2>6, <2>7, SameFollows, RowAdded
<1>2. CASE PresignNewVersion(t, w)
  <2>0. PICK no : no = req[t].no
    OBVIOUS
  <2>1. CASE node.status = "NONE" \/ \E u \in DOMAIN version : version[u].no = no
    BY <1>2, <2>0, <2>1, RequestEnds DEF PresignNewVersion
  <2>2. CASE node.status # "NONE" /\ \A u \in DOMAIN version : version[u].no # no
    <3> DEFINE row == [no |-> no, key |-> no, checksum |-> None]
    <3>1. /\ req[t].op = "presign" /\ w \in Vers \ Issued /\ Done(t)
          /\ version' = WithVersion(w, row)
          /\ url' = [url EXCEPT ![w] = no]
          /\ UNCHANGED << node, bucket, puts, stale, sweep, total >>
      BY <1>2, <2>0, <2>2 DEF PresignNewVersion, blobKeyFor
    <3>2. no \in Nat /\ no > 0 /\ no <= Cardinality(Issued) + 1
      <4>1. no \in Keys \cup {0, Cardinality(Vers) + 1}
        BY <2>0, RequestTyped DEF Inv
      <4> QED
        BY <2>0, <3>1, <4>1, IssuedCount DEF Inv, Numbering, Keys, Nos
    <3>3. Cardinality(Issued) + 1 <= Cardinality(Vers)
      BY <3>1, RoomForOne
    <3>4. no \in Keys /\ no # None
      BY <3>2, <3>3, IssuedCount, UploadsAssumption DEF Keys, Nos
    <3>5. url' \in [Vers -> Keys \cup {0, None}] /\ Issued' = Issued \cup {w}
      <4>1. url \in [Vers -> Keys \cup {0, None}]
        BY Typed DEF Inv
      <4> QED
        BY <3>1, <3>4, <4>1 DEF Issued
    <3>6. row \in VersionRow /\ row.no = no /\ row.key = no /\ row.checksum = None
      BY <3>4 DEF VersionRow, Keys
    <3>7. puts[w] = 0 /\ RequestsFollow /\ req' \in [Reqs -> RequestRow]
      BY <3>1, DoneFollows DEF Inv, Fresh
    <3> HIDE DEF row
    <3>8. TypeOK'
      BY <3>1, <3>5, <3>6, <3>7, WithVersionTyped, Typed, TypedNext DEF Inv
    <3> QED
      BY <2>2, <3>1, <3>2, <3>5, <3>6, <3>7, <3>8, RowAdded
  <2> QED
    BY <2>1, <2>2
<1> QED
  BY <1>1, <1>2

LEMMA RestoreKeeps ==
    ASSUME Inv, NEW t \in Reqs, NEW w \in Vers, RestoreAppend(t, w)
    PROVE  Inv'
<1>1. CASE DOMAIN version = {}
  BY <1>1, RequestEnds DEF RestoreAppend
<1>2. CASE DOMAIN version # {}
  <2>0. PICK v, k, c, no : v = req[t].v /\ k = req[t].no /\ c = req[t].head /\ no = Latest + 1
    OBVIOUS
  <2> DEFINE row == [no |-> no, key |-> k, checksum |-> c]
  <2>1. /\ req[t].op = "restore" /\ w \in Vers \ Issued /\ Done(t)
        /\ version' = WithVersion(w, row)
        /\ node' = [node EXCEPT !.current = w, !.size = c]
        /\ puts' = [puts EXCEPT ![w] = puts[v]]
        /\ url' = [url EXCEPT ![w] = 0]
        /\ UNCHANGED << bucket, stale, sweep, total >>
    BY <1>2, <2>0 DEF RestoreAppend
  <2>2. node.status # "NONE"
    BY <1>2 DEF Inv, Fresh
  <2>3. /\ v \in Issued /\ v \in Vers /\ puts[v] > 0 /\ puts[v] \in 0..2
        /\ k \in Keys /\ c \in Good /\ c \in Contents /\ c # None
        /\ v \in DOMAIN version => k = version[v].key
        /\ puts[v] < 2 => v \in DOMAIN version /\ version[v].checksum = c
    <3>1. Holds(req[t])
      BY DEF Inv, RequestsHold
    <3> QED
      BY <2>0, <2>1, <2>2, <3>1, Typed, UploadsAssumption DEF Holds, Inv, Issued
  <2>4. /\ no \in Nos /\ no \in Nat /\ no <= Cardinality(Issued) + 1
        /\ \A u \in DOMAIN version : version[u].no < no
    <3>1. /\ Latest \in Nat /\ Latest <= Cardinality(Issued)
          /\ \A u \in DOMAIN version : version[u].no <= Latest
      BY LatestIsHighest DEF Inv
    <3>2. \A u \in DOMAIN version : version[u].no \in Nat
      BY RowTyped DEF Inv
    <3>3. Cardinality(Issued) + 1 <= Cardinality(Vers)
      BY <2>1, RoomForOne
    <3> QED
      BY <2>0, <3>1, <3>2, <3>3, IssuedCount DEF Nos
  <2>5. row \in VersionRow /\ row.no = no /\ row.key = k /\ row.checksum = c
    BY <2>3, <2>4 DEF VersionRow
  <2>6. url' \in [Vers -> Keys \cup {0, None}] /\ Issued' = Issued \cup {w}
    <3>1. None # 0 /\ url \in [Vers -> Keys \cup {0, None}]
      BY Typed, UploadsAssumption DEF Inv
    <3> QED
      BY <2>1, <3>1 DEF Issued
  <2>7. /\ puts' \in [Vers -> 0..2] /\ puts'[w] = puts[v]
        /\ \A u \in Vers : u # w => puts'[u] = puts[u]
    BY <2>1, <2>3, Typed DEF Inv
  <2>8. /\ node' \in NodeRow /\ node'.status = node.status
        /\ node'.current = w /\ node'.size = c
    BY <2>1, <2>3, Typed DEF Inv, NodeRow
  <2>9. RequestsFollow /\ req' \in [Reqs -> RequestRow]
    BY <2>1, DoneFollows DEF Inv
  <2> HIDE DEF row
  <2>10. TypeOK'
    BY <2>1, <2>5, <2>6, <2>7, <2>8, <2>9, WithVersionTyped, Typed, TypedNext DEF Inv
  <2>11. ASSUME puts[v] = 1
         PROVE  \E d \in Contents : c \in {d, None} /\ bucket[k] \in {d, None}
    <3>1. PICK d \in Contents : Saw(v, d)
      BY <2>3, <2>11 DEF Inv, Agree
    <3> QED
      BY <2>3, <2>11, <3>1 DEF Saw
  <2>12. ASSUME puts[v] < 2
         PROVE  \E u \in DOMAIN version : /\ version[u].no = k /\ version[u].key = k
                                          /\ version[u].checksum = c /\ puts[u] < 2
    <3>1. v \in DOMAIN version /\ version[v].key = k /\ version[v].checksum = c
      BY <2>3, <2>12
    <3>2. CASE version[v].no = k
      BY <2>12, <3>1, <3>2
    <3>3. CASE version[v].no # k
      <4>1. PICK u \in DOMAIN version : IsSource(u, v)
        BY <2>12, <3>1, <3>3 DEF Inv, CopiesHaveSource
      <4> QED
        BY <3>1, <4>1 DEF IsSource
    <3> QED
      BY <3>2, <3>3
  <2>13. \A u \in DOMAIN version : version[u].no # no
    BY <2>4, RowTyped DEF Inv
  <2> QED
    BY <2>1, <2>2, <2>3, <2>4, <2>5, <2>6, <2>7, <2>8, <2>9, <2>10, <2>11, <2>12, <2>13, RowAdded
<1> QED
  BY <1>1, <1>2
(* A confirm that lost its row fails; one that has it sets it. *)
LEMMA ActivateKeeps ==
    ASSUME Inv, NEW t \in Reqs, ConfirmActivate(t)
    PROVE  Inv'
<1>1. CASE req[t].v \in DOMAIN version
  BY <1>1, RowConfirmed DEF ConfirmActivate
<1>2. CASE req[t].v \notin DOMAIN version
  BY <1>2, RequestEnds DEF ConfirmActivate
<1> QED
  BY <1>1, <1>2

(* A request that rejects saw an unacceptable object: a row that has bytes *)
(* all the same is one whose object was PUT twice.                         *)
LEMMA RejectedTwice ==
    ASSUME Inv, NEW t \in Reqs, req[t].op = "reject", NEW v \in DOMAIN version,
           v = req[t].v, Confirmed(v)
    PROVE  puts[v] = 2
<1>1. /\ req[t].head \in Contents \ Good /\ puts[v] > 0 /\ puts[v] \in 0..2
      /\ version[v].checksum \in Good \cup {None}
  BY RowTyped DEF Inv, RequestsHold, Holds, Confirming, Looked, Verified
<1>2. ASSUME puts[v] = 1
      PROVE  FALSE
  <2>1. PICK c \in Contents : Saw(v, c)
    BY <1>2 DEF Inv, Agree
  <2>2. req[t].head = c
    BY <2>1 DEF Saw, Looked
  <2> QED
    BY <1>1, <2>1, <2>2, UploadsAssumption DEF Saw, Confirmed
<1> QED
  BY <1>1, <1>2

(* rejectUpload's two steps. *)
LEMMA RejectKeeps ==
    ASSUME Inv, NEW t \in Reqs, RejectRemoveBlob(t) \/ RejectDropRows(t)
    PROVE  Inv'
<1>0. PICK v, k : v = req[t].v /\ k = req[t].no
  OBVIOUS
<1>1. CASE RejectRemoveBlob(t)
  <2> DEFINE r == [req[t] EXCEPT !.op = "reject"]
  <2>1. req[t] \in RequestRow /\ req[t].op = "remove" /\ k \in Keys
    BY <1>0, <1>1, RequestTyped DEF RejectRemoveBlob, Inv, RequestsHold, Holds, Confirming, Looked
  <2>2. /\ r \in RequestRow /\ r.op = "reject"
        /\ r.v = req[t].v /\ r.no = req[t].no /\ r.head = req[t].head
    BY <2>1 DEF RequestRow
  <2>3. /\ Goto(t, r) /\ bucket' = [bucket EXCEPT ![k] = None]
        /\ UNCHANGED << node, version, url, puts, stale, sweep, total >>
    BY <1>0, <1>1 DEF RejectRemoveBlob
  <2> HIDE DEF r
  <2>4. /\ req' \in [Reqs -> RequestRow]
        /\ \A u \in Reqs : req'[u] = IF u = t THEN r ELSE req[u]
    BY <2>2, <2>3, Typed DEF Goto, Inv
  <2>5. RequestsFollow
    BY <2>1, <2>2, <2>4 DEF RequestsFollow, Follows
  <2>6. /\ bucket' \in [Keys -> Contents \cup {None}]
        /\ \A j \in Keys : bucket'[j] \in {bucket[j], None}
    BY <2>3, Typed DEF Inv
  <2>7. TypeOK'
    BY <2>3, <2>4, <2>6, Typed, TypedNext DEF Inv
  <2>8. Issued' = Issued /\ SweepIsSafe'
    BY <2>3 DEF Issued, Inv, SweepIsSafe, Confirmed
  <2>9. \A u \in Reqs : req'[u].op \in Confirming => req'[u].v \notin stale'
    BY <2>3, <2>5, NotStale
  <2>10. stale' \subseteq Issued
    BY <2>3 DEF Inv, Fresh
  <2> QED
    BY <2>3, <2>5, <2>6, <2>7, <2>8, <2>9, <2>10, QuietStep
<1>2. CASE RejectDropRows(t)
  <2>1. CASE v \notin DOMAIN version
    BY <1>0, <1>2, <2>1, RequestEnds DEF RejectDropRows
  <2>2. CASE v \in DOMAIN version
    <3>1. /\ req[t].op = "reject" /\ Done(t)
          /\ version' = WithoutVersion(v)
          /\ node' = [node EXCEPT !.deleted = @ \/ req[t].dropNode]
          /\ UNCHANGED << bucket, url, puts, stale, sweep, total >>
      BY <1>0, <1>2, <2>2 DEF RejectDropRows
    <3>2. req[t] \in RequestRow
      BY RequestTyped DEF Inv
    <3>3. Confirmed(v) => puts[v] = 2
      BY <1>0, <2>2, <3>1, RejectedTwice
    <3>4. /\ node' \in NodeRow /\ node'.status = node.status
          /\ node'.current = node.current /\ node'.size = node.size
      <4>1. req[t].dropNode \in BOOLEAN /\ node \in NodeRow
        BY <3>2, Typed DEF RequestRow, Inv
      <4> QED
        BY <3>1, <4>1 DEF NodeRow
    <3>5. RequestsFollow /\ req' \in [Reqs -> RequestRow]
      BY <3>1, DoneFollows DEF Inv
    <3>6. TypeOK'
      BY <3>1, <3>4, <3>5, WithoutVersionTyped, Typed, TypedNext DEF Inv
    <3>7. SweepIsSafe'
      <4>1. /\ DOMAIN version' = DOMAIN version \ {v}
            /\ \A u \in DOMAIN version' : version'[u] = version[u]
        BY <3>1, WithoutVersionTyped DEF Inv
      <4> QED
        BY <3>1, <4>1 DEF Inv, SweepIsSafe, Confirmed
    <3> QED
      BY <2>2, <3>1, <3>3, <3>4, <3>5, <3>6, <3>7, RowDropped
  <2> QED
    BY <2>1, <2>2
<1> QED
  BY <1>1, <1>2

LEMMA RequestLemma ==
    ASSUME Inv, NEW t \in Reqs, Request(t)
    PROVE  Inv'
<1>1. CASE \/ PresignLookup(t) \/ ConfirmHead(t) \/ RequestFails(t)
           \/ \E v \in Vers : ConfirmRead(t, v) \/ RestoreRead(t, v)
  BY <1>1, RequestKeeps
<1>2. CASE ConfirmActivate(t)
  BY <1>2, ActivateKeeps
<1>3. CASE RejectRemoveBlob(t) \/ RejectDropRows(t)
  BY <1>3, RejectKeeps
<1>4. CASE \E v \in Vers : PresignNewFile(t, v) \/ PresignNewVersion(t, v)
  BY <1>4, PresignKeeps
<1>5. CASE \E v \in Vers : RestoreAppend(t, v)
  BY <1>5, RestoreKeeps
<1> QED
  BY <1>1, <1>2, <1>3, <1>4, <1>5 DEF Request

LEMMA RemoveKeeps ==
    ASSUME Inv, Remove
    PROVE  Inv'
<1>1. /\ node' = [node EXCEPT !.deleted = TRUE]
      /\ UNCHANGED << version, bucket, url, puts, stale, req, sweep, total >>
  BY DEF Remove
<1>2. /\ node' \in NodeRow /\ node'.status = node.status
      /\ node'.current = node.current /\ node'.size = node.size
  BY <1>1, Typed DEF Inv, NodeRow
<1>3. TypeOK'
  BY <1>1, <1>2, Typed, TypedNext DEF Inv
<1>4. Issued' = Issued /\ SweepIsSafe'
  BY <1>1 DEF Issued, Inv, SweepIsSafe, Confirmed
<1>5. stale \subseteq Issued
  BY DEF Inv, Fresh
<1> QED
  BY <1>1, <1>2, <1>3, <1>4, <1>5, SameFollows, NotStale, QuietStep
(* What the sweep does without a change of rows: it moves on, and may have *)
(* removed an object.                                                      *)
LEMMA SweepMoves ==
    ASSUME Inv, sweep' \in SweepRow, SweepIsSafe',
           UNCHANGED << node, version, url, puts, stale, req, total >>,
           \/ UNCHANGED bucket
           \/ \E k \in Keys : SafeRemove(k)
    PROVE  Inv'
<1>1. /\ bucket' \in [Keys -> Contents \cup {None}]
      /\ \A k \in Keys : bucket'[k] \in {bucket[k], None}
  BY Typed DEF SafeRemove, Inv
<1>2. TypeOK'
  BY <1>1, Typed, TypedNext DEF Inv
<1>3. Issued' = Issued /\ stale \subseteq Issued
  BY DEF Issued, Inv, Fresh
<1>4. RequestsFollow
  BY SameFollows
<1> QED
  BY <1>1, <1>2, <1>3, <1>4, NotStale, QuietStep

LEMMA SweepKeeps ==
    ASSUME Inv, SweepStep
    PROVE  Inv'
<1>0. /\ sweep \in SweepRow /\ SweepIsSafe
      /\ sweep.todo \in (SUBSET Keys) \cup (SUBSET Vers) /\ sweep.at \in Vers \cup {None}
  BY Typed DEF Inv, SweepRow
<1>1. CASE SweepFindNode
  <2>1. {version[v].key : v \in DOMAIN version} \subseteq Keys
    BY RowTyped DEF Inv
  <2>2. sweep' \in SweepRow /\ SweepIsSafe'
    <3>1. CASE SweepGoto("node", {version[v].key : v \in DOMAIN version})
      <4>1. PICK todo : /\ todo = {version[v].key : v \in DOMAIN version}
                        /\ sweep' = [sweep EXCEPT !.pc = "node", !.todo = todo]
        BY <3>1 DEF SweepGoto
      <4> QED
        BY <1>0, <2>1, <4>1 DEF SweepRow, SweepIsSafe
    <3>2. CASE SweepGoto("find", {})
      BY <1>0, <3>2 DEF SweepGoto, SweepRow, SweepIsSafe
    <3> QED
      BY <1>1, <3>1, <3>2 DEF SweepFindNode
  <2> QED
    BY <1>1, <2>2, SweepMoves DEF SweepFindNode
<1>2. CASE SweepDeleteNode
  BY <1>2, NodeDeleted
<1>3. CASE SweepFindVersions
  <2>1. /\ Abandoned \subseteq Vers
        /\ \A v \in Abandoned : v \in stale /\ ~Confirmed(v)
    BY RowTyped DEF Inv, Abandoned
  <2>2. PICK pc, todo : /\ pc \in {"idle", "versions"} /\ todo = Abandoned
                        /\ SweepGoto(pc, todo)
                        /\ UNCHANGED << node, version, bucket, url, puts, stale, req, total >>
    BY <1>3 DEF SweepFindVersions
  <2>3. /\ sweep' \in SweepRow
        /\ sweep'.pc \in {"idle", "versions"} /\ sweep'.todo = todo
    BY <1>0, <2>1, <2>2 DEF SweepGoto, SweepRow
  <2>4. SweepIsSafe'
    BY <2>1, <2>2, <2>3 DEF SweepIsSafe, Confirmed
  <2> QED
    BY <2>2, <2>3, <2>4, SweepMoves
<1>4. CASE SweepDeleteVersion
  <2>1. PICK v, left : v = sweep.at /\ left = sweep.todo \ {v}
    OBVIOUS
  <2>2. /\ v \in sweep.todo /\ left \in (SUBSET Keys) \cup (SUBSET Vers)
        /\ \A u \in sweep.todo : u \in stale /\ (u \in DOMAIN version => ~Confirmed(u))
    BY <1>0, <1>4, <2>1 DEF SweepDeleteVersion, SweepIsSafe
  <2>3. CASE v \in DOMAIN version
    <3>1. /\ version' = WithoutVersion(v)
          /\ sweep' = [sweep EXCEPT !.pc = IF left = {} THEN "idle" ELSE "versions",
                                    !.todo = left, !.at = None]
          /\ UNCHANGED << node, bucket, url, puts, stale, req, total >>
      BY <1>4, <2>1, <2>3 DEF SweepDeleteVersion
    <3>2. /\ DOMAIN version' = DOMAIN version \ {v}
          /\ \A u \in DOMAIN version' : version'[u] = version[u]
      BY <3>1, WithoutVersionTyped DEF Inv
    <3>3. /\ sweep' \in SweepRow /\ sweep'.todo = left
          /\ sweep'.pc \in {"idle", "versions"}
      BY <1>0, <2>2, <3>1 DEF SweepRow
    <3>4. SweepIsSafe'
      BY <2>1, <2>2, <3>1, <3>2, <3>3 DEF SweepIsSafe, Confirmed
    <3>5. TypeOK'
      BY <3>1, <3>3, WithoutVersionTyped, Typed, TypedNext DEF Inv
    <3> QED
      BY <2>2, <2>3, <3>1, <3>4, <3>5, SameFollows, RowDropped
  <2>4. CASE v \notin DOMAIN version
    <3>1. /\ sweep' = [sweep EXCEPT !.pc = "idle", !.todo = {}, !.at = None]
          /\ UNCHANGED << node, version, bucket, url, puts, stale, req, total >>
      BY <1>4, <2>1, <2>4 DEF SweepDeleteVersion
    <3>2. sweep' \in SweepRow /\ sweep'.pc = "idle"
      BY <1>0, <3>1 DEF SweepRow
    <3> QED
      BY <3>1, <3>2, SweepMoves DEF SweepIsSafe
  <2> QED
    BY <2>3, <2>4
<1>5. ASSUME NEW k \in Keys, SweepNodeBlob(k)
      PROVE  Inv'
  <2>1. /\ sweep' = [sweep EXCEPT !.pc = "node", !.todo = sweep.todo \ {k}]
        /\ SafeRemove(k) /\ sweep.pc = "node"
        /\ UNCHANGED << node, version, url, puts, stale, req, total >>
    BY <1>5 DEF SweepNodeBlob, SweepGoto
  <2>2. sweep.todo \subseteq Keys
    BY <1>0, <2>1 DEF SweepIsSafe
  <2>3. /\ sweep' \in SweepRow /\ sweep'.pc = "node" /\ sweep'.todo \subseteq Keys
    BY <1>0, <2>1, <2>2 DEF SweepRow
  <2> QED
    BY <2>1, <2>3, SweepMoves DEF SweepIsSafe
<1>6. ASSUME NEW v \in Vers, SweepVersionBlob(v)
      PROVE  Inv'
  <2>1. /\ sweep' = [sweep EXCEPT !.pc = "row", !.at = v]
        /\ sweep.pc = "versions" /\ v \in sweep.todo
        /\ UNCHANGED << node, version, url, puts, stale, req, total >>
    BY <1>6 DEF SweepVersionBlob
  <2>2. /\ sweep' \in SweepRow /\ sweep'.pc = "row"
        /\ sweep'.todo = sweep.todo /\ sweep'.at = v
    BY <1>0, <2>1 DEF SweepRow
  <2>3. SweepIsSafe'
    BY <1>0, <2>1, <2>2 DEF SweepIsSafe, Confirmed
  <2>4. UNCHANGED bucket \/ \E k \in Keys : SafeRemove(k)
    BY <1>6, RowTyped DEF SweepVersionBlob, Inv
  <2> QED
    BY <2>1, <2>2, <2>3, <2>4, SweepMoves
<1> QED
  BY <1>1, <1>2, <1>3, <1>4, <1>5, <1>6 DEF SweepStep

LEMMA CrashKeeps ==
    ASSUME Inv, SweepCrash
    PROVE  Inv'
<1>1. /\ sweep' = [sweep EXCEPT !.pc = "idle", !.todo = {}, !.at = None, !.crashes = @ + 1]
      /\ sweep \in SweepRow /\ sweep.crashes < MaxCrashes
      /\ UNCHANGED << node, version, bucket, url, puts, stale, req, total >>
  BY Typed DEF SweepCrash, Inv
<1>2. sweep' \in SweepRow /\ sweep'.pc = "idle"
  <2>1. PICK n : n = sweep.crashes + 1
    OBVIOUS
  <2>2. n \in 0..MaxCrashes
    BY <1>1, <2>1, UploadsAssumption DEF SweepRow
  <2> QED
    BY <1>1, <2>1, <2>2 DEF SweepRow
<1>3. SweepIsSafe'
  BY <1>2 DEF SweepIsSafe
<1> QED
  BY <1>1, <1>2, <1>3, SweepMoves

LEMMA DayKeeps ==
    ASSUME Inv, NEW v \in Vers, DayPasses(v)
    PROVE  Inv'
<1>1. /\ v \in Issued \ stale /\ \A t \in Reqs : req[t].v # v
      /\ stale' = stale \cup {v}
      /\ url' = [url EXCEPT ![v] = 0]
      /\ UNCHANGED << node, version, bucket, puts, req, sweep, total >>
  BY DEF DayPasses
<1>2. url' \in [Vers -> Keys \cup {0, None}] /\ stale' \subseteq Vers
  BY <1>1, Typed DEF Inv
<1>3. TypeOK'
  BY <1>1, <1>2, Typed, TypedNext DEF Inv
<1>4. Issued' = Issued /\ stale' \subseteq Issued
  <2>1. None # 0 /\ url \in [Vers -> Keys \cup {0, None}]
    BY Typed, UploadsAssumption DEF Inv
  <2> QED
    BY <1>1, <2>1 DEF Issued, Inv, Fresh
<1>5. SweepIsSafe'
  BY <1>1 DEF Inv, SweepIsSafe, Confirmed
<1>6. \A t \in Reqs : req'[t].op \in Confirming => req'[t].v \notin stale'
  BY <1>1, SameFollows, NotStale
<1> QED
  BY <1>1, <1>3, <1>4, <1>5, <1>6, SameFollows, QuietStep
-----------------------------------------------------------------------------
LEMMA InvInit == Init => Inv
<1> SUFFICES ASSUME Init
             PROVE  Inv
  OBVIOUS
<1> USE DEF Init
<1>1. DOMAIN version = {} /\ version \in [DOMAIN version -> VersionRow]
  OBVIOUS
<1>2. sweep \in SweepRow
  BY UploadsAssumption DEF SweepRow
<1>3. TypeOK
  BY <1>1, <1>2, AbsentTyped, IdleTyped, UploadsAssumption, Typed
<1>4. Issued = {} /\ node.status = "NONE" /\ \A t \in Reqs : req[t] = Idle
  BY AbsentTyped DEF Issued
<1>5. Numbering /\ Fresh
  BY <1>1, <1>4, IdleTyped DEF Numbering, Fresh
<1>6. RequestsHold
  BY <1>4, IdleHolds DEF RequestsHold
<1>7. Verified /\ Agree /\ CopiesHaveSource
  BY <1>1 DEF Verified, Agree, CopiesHaveSource
<1>8. SweepIsSafe /\ ActiveFilesAreWhole
  BY <1>4 DEF SweepIsSafe, ActiveFilesAreWhole
<1> QED
  BY <1>3, <1>5, <1>6, <1>7, <1>8 DEF Inv

LEMMA InvStep == Inv /\ [Next]_vars => Inv'
<1> SUFFICES ASSUME Inv, [Next]_vars
             PROVE  Inv'
  OBVIOUS
<1>1. ASSUME NEW t \in Reqs, Request(t)
      PROVE  Inv'
  BY <1>1, RequestLemma
<1>2. ASSUME NEW v \in Vers, DayPasses(v)
      PROVE  Inv'
  BY <1>2, DayKeeps
<1>3. ASSUME NEW v \in Vers, NEW c \in Contents, Put(v, c)
      PROVE  Inv'
  BY <1>3, PutKeeps
<1>4. CASE Remove
  BY <1>4, RemoveKeeps
<1>5. CASE SweepStep
  BY <1>5, SweepKeeps
<1>6. CASE SweepCrash
  BY <1>6, CrashKeeps
<1>7. CASE UNCHANGED vars
  <2>1. TypeOK' /\ SweepIsSafe' /\ Issued' = Issued
    BY <1>7 DEF vars, Inv, TypeOK, SweepIsSafe, Confirmed, Issued, VersionRow, Nos, Keys
  <2>2. stale' \subseteq Issued
    BY <1>7 DEF vars, Inv, Fresh
  <2> QED
    BY <1>7, <2>1, <2>2, SameFollows, NotStale, QuietStep DEF vars
<1> QED
  BY <1>1, <1>2, <1>3, <1>4, <1>5, <1>6, <1>7 DEF Next, Working

(* The inductive invariant holds in every behaviour. *)
LEMMA InvHolds == Spec => []Inv
  BY InvInit, InvStep, PTL DEF Spec

(* The rows, the bucket, the requests and the sweep keep their types for   *)
(* any number of versions: no reserved number passes the count of ids.     *)
THEOREM TypeCorrect == Spec => []TypeOK
<1>1. Inv => TypeOK
  BY DEF Inv
<1> QED
  BY <1>1, InvHolds, PTL

(* An active file has a current version with bytes, and its size is that   *)
(* version's, unless its object was overwritten before it was confirmed.   *)
THEOREM ActiveCorrect == Spec => []ActiveFilesAreWhole
<1>1. Inv => ActiveFilesAreWhole
  BY DEF Inv
<1> QED
  BY <1>1, InvHolds, PTL

(* Versions that share an object agree on its bytes: each of two has its   *)
(* source under the number that is their key, and numbers are unique.      *)
THEOREM CopiesCorrect == Spec => []RestoredCopiesMatch
<1>1. ASSUME Inv
      PROVE  RestoredCopiesMatch
  <2> SUFFICES ASSUME NEW u \in DOMAIN version, NEW v \in DOMAIN version,
                      version[u].key = version[v].key, puts[u] < 2, puts[v] < 2
               PROVE  version[v].checksum = version[u].checksum
    BY DEF RestoredCopiesMatch
  <2>1. \A x \in DOMAIN version : puts[x] < 2 =>
           \E y \in DOMAIN version : /\ version[y].no = version[x].key
                                     /\ version[y].checksum = version[x].checksum
    BY <1>1 DEF Inv, CopiesHaveSource, IsSource
  <2>2. PICK y \in DOMAIN version : /\ version[y].no = version[u].key
                                    /\ version[y].checksum = version[u].checksum
    BY <2>1
  <2>3. PICK z \in DOMAIN version : /\ version[z].no = version[v].key
                                    /\ version[z].checksum = version[v].checksum
    BY <2>1
  <2>4. y = z
    BY <1>1, <2>2, <2>3 DEF Inv, Numbering
  <2> QED
    BY <2>2, <2>3, <2>4
<1> QED
  BY <1>1, InvHolds, PTL
-----------------------------------------------------------------------------
(* What was confirmed stays. *)

(* v's row is as it was, if it had bytes and its object one PUT. *)
RowKept(v) ==
    Confirmed(v) /\ puts[v] < 2 /\ node'.status # "NONE" =>
        v \in DOMAIN version' /\ version'[v] = version[v]

LEMMA AddedKeeps ==
    ASSUME Inv, NEW w \in Vers \ Issued, NEW row, version' = WithVersion(w, row), NEW v \in Vers
    PROVE  RowKept(v)
<1>1. w \notin DOMAIN version
  BY DEF Inv, Fresh
<1> QED
  BY <1>1 DEF RowKept, WithVersion, Confirmed

LEMMA UnchangedKeeps ==
    ASSUME version' = version, NEW v \in Vers
    PROVE  RowKept(v)
  BY DEF RowKept, Confirmed

LEMMA ConfirmedAgain ==
    ASSUME Inv, NEW t \in Reqs, ConfirmActivate(t), NEW v \in Vers
    PROVE  RowKept(v)
<1>1. CASE req[t].v \notin DOMAIN version
  BY <1>1, UnchangedKeeps DEF ConfirmActivate
<1>2. CASE req[t].v \in DOMAIN version
  <2>1. PICK w, c : /\ w = req[t].v /\ c = req[t].head /\ w \in DOMAIN version
                    /\ req[t].op = "activate"
                    /\ version' = [version EXCEPT ![w].checksum = c]
    BY <1>2 DEF ConfirmActivate
  <2>2. SUFFICES ASSUME v = w, Confirmed(w), puts[w] < 2
                 PROVE  version'[w] = version[w]
    BY <2>1 DEF RowKept, Confirmed
  <2>3. puts[w] = 1 /\ version[w] \in VersionRow
    BY <2>1, <2>2, RowTyped DEF Inv, Verified
  <2>4. PICK d \in Contents : Saw(w, d)
    BY <2>1, <2>3 DEF Inv, Agree
  <2>5. d = c /\ version[w].checksum = c
    BY <2>1, <2>2, <2>4 DEF Saw, Looked, Confirmed
  <2> QED
    BY <2>1, <2>3, <2>5 DEF VersionRow
<1> QED
  BY <1>1, <1>2

LEMMA DroppedKeeps ==
    ASSUME Inv, NEW w, version' = WithoutVersion(w), NEW v \in Vers,
           w \in DOMAIN version /\ Confirmed(w) => puts[w] = 2
    PROVE  RowKept(v)
  BY DEF RowKept, WithoutVersion, Confirmed

LEMMA HistoryStep ==
    ASSUME Inv, Next, NEW v \in Vers
    PROVE  RowKept(v)
<1>1. ASSUME NEW t \in Reqs, Request(t)
      PROVE  RowKept(v)
  <2>1. CASE ConfirmActivate(t)
    BY <2>1, ConfirmedAgain
  <2>2. CASE RejectDropRows(t)
    BY <2>2, RejectedTwice, DroppedKeeps, UnchangedKeeps DEF RejectDropRows
  <2>3. ASSUME NEW w \in Vers,
               PresignNewFile(t, w) \/ PresignNewVersion(t, w) \/ RestoreAppend(t, w)
        PROVE  RowKept(v)
    <3>1. \/ version' = version
          \/ w \in Vers \ Issued /\ \E row : version' = WithVersion(w, row)
      BY <2>3 DEF PresignNewFile, PresignNewVersion, RestoreAppend
    <3> QED
      BY <3>1, AddedKeeps, UnchangedKeeps
  <2>4. CASE \/ PresignLookup(t) \/ ConfirmHead(t) \/ RejectRemoveBlob(t) \/ RequestFails(t)
             \/ \E w \in Vers : ConfirmRead(t, w) \/ RestoreRead(t, w)
    BY <2>4, UnchangedKeeps
    DEF PresignLookup, ConfirmHead, RejectRemoveBlob, RequestFails, ConfirmRead, RestoreRead
  <2> QED
    BY <1>1, <2>1, <2>2, <2>3, <2>4 DEF Request
<1>2. CASE SweepDeleteNode
  BY <1>2, AbsentTyped DEF SweepDeleteNode, RowKept
<1>3. CASE SweepDeleteVersion
  <2>1. sweep.at \in DOMAIN version => ~Confirmed(sweep.at)
    BY <1>3 DEF SweepDeleteVersion, Inv, SweepIsSafe
  <2> QED
    BY <1>3, <2>1, DroppedKeeps, UnchangedKeeps DEF SweepDeleteVersion
<1>4. CASE \/ SweepFindNode \/ SweepFindVersions \/ SweepCrash \/ Remove
           \/ \E k \in Keys : SweepNodeBlob(k)
           \/ \E w \in Vers : \/ SweepVersionBlob(w) \/ DayPasses(w)
                              \/ \E c \in Contents : Put(w, c)
  BY <1>4, UnchangedKeeps
  DEF SweepFindNode, SweepFindVersions, SweepCrash, Remove, SweepNodeBlob,
      SweepVersionBlob, DayPasses, Put
<1> QED
  BY <1>1, <1>2, <1>3, <1>4 DEF Next, Working, SweepStep

(* What was confirmed stays: while the file exists no step deletes,        *)
(* renumbers or rewrites a version that has bytes and an object with one   *)
(* PUT (versions.service.ts: the history is append-only).                  *)
THEOREM HistoryCorrect == Spec => HistoryKept
<1>1. Inv /\ [Next]_vars => [\A v \in Vers :
          Confirmed(v) /\ puts[v] < 2 /\ node'.status # "NONE" =>
              v \in DOMAIN version' /\ version'[v] = version[v]]_vars
  BY HistoryStep DEF RowKept
<1> QED
  BY <1>1, InvHolds, PTL DEF Spec, HistoryKept
-----------------------------------------------------------------------------
(* What downloads serve. *)

(* What a download knows between its HEAD and the browser's GET. *)
LinkHolds(r) ==
    /\ r.pc \in {"head", "link"} => r.key \in Keys /\ r.sum \in Good
    /\ r.pc = "link" => bucket[r.key] \in {r.sum, None}

LinksHold ==
    /\ get = [g \in Readers |-> get[g]]
    /\ \A g \in Readers : LinkHolds(get[g])

(* Only a PUT gives the bucket an object. *)
LEMMA BucketEmpties ==
    ASSUME Inv, Working
    PROVE  \A k \in Keys : bucket'[k] \in {bucket[k], None}
<1> bucket \in [Keys -> Contents \cup {None}]
  BY DEF Inv, TypeOK
<1>1. ASSUME NEW t \in Reqs, Request(t)
      PROVE  \A k \in Keys : bucket'[k] \in {bucket[k], None}
  BY <1>1
  DEF Request, PresignLookup, ConfirmHead, ConfirmActivate, RejectRemoveBlob, RejectDropRows,
      RequestFails, PresignNewFile, PresignNewVersion, ConfirmRead, RestoreRead, RestoreAppend
<1>2. CASE SweepStep
  BY <1>2
  DEF SweepStep, SweepFindNode, SweepDeleteNode, SweepFindVersions, SweepDeleteVersion,
      SweepNodeBlob, SweepVersionBlob, SafeRemove
<1>3. CASE Remove \/ SweepCrash \/ \E v \in Vers : DayPasses(v)
  BY <1>3 DEF Remove, SweepCrash, DayPasses
<1> QED
  BY <1>1, <1>2, <1>3 DEF Working

(* The steps of the downloads themselves: the row's checksum is a verified *)
(* one, and the HEAD compares.                                             *)
LEMMA DownloadKeeps ==
    ASSUME Inv, LinksHold, UNCHANGED vars, NEW g \in Readers, NEW v,
           DownloadNode(g, v) \/ DownloadVersion(g) \/ DownloadHead(g) \/ DownloadEnds(g)
    PROVE  LinksHold'
<1>1. PICK r : get' = [get EXCEPT ![g] = r]
  BY DEF DownloadNode, DownloadVersion, DownloadHead, DownloadEnds
<1>2. LinkHolds(Unread)
  BY DEF LinkHolds, Unread
<1>3. get'[g] = r
  BY <1>1 DEF LinksHold
<1>4. LinkHolds(get[g])
  BY DEF LinksHold
<1>5. LinkHolds(r)
  <2>1. CASE DownloadNode(g, v)
    BY <1>3, <2>1 DEF DownloadNode, LinkHolds, Unread, LinksHold
  <2>2. CASE DownloadVersion(g)
    <3>1. CASE Confirmed(get[g].v)
      <4>1. version[get[g].v].checksum \in Good /\ version[get[g].v].key \in Keys
        BY <3>1, RowTyped, UploadsAssumption DEF Inv, Verified, Confirmed, VersionRow
      <4> QED
        BY <1>3, <2>2, <3>1, <4>1 DEF DownloadVersion, LinkHolds, LinksHold
    <3> QED
      BY <1>2, <1>3, <2>2, <3>1 DEF DownloadVersion, LinksHold
  <2>3. CASE DownloadHead(g)
    <3>1. CASE bucket[get[g].key] = get[g].sum
      <4>1. r = [get[g] EXCEPT !.pc = "link"]
        BY <1>3, <2>3, <3>1 DEF DownloadHead, LinksHold
      <4> QED
        BY <1>4, <2>3, <3>1, <4>1 DEF DownloadHead, LinkHolds
    <3> QED
      BY <1>2, <1>3, <2>3, <3>1 DEF DownloadHead, LinksHold
  <2>4. CASE DownloadEnds(g)
    BY <1>2, <1>3, <2>4 DEF DownloadEnds, LinksHold
  <2> QED
    BY <2>1, <2>2, <2>3, <2>4
<1>6. \A h \in Readers : LinkHolds(get'[h])
  BY <1>1, <1>3, <1>5 DEF LinksHold
<1>7. bucket' = bucket
  BY DEF vars
<1>8. get' = [h \in Readers |-> get'[h]]
  BY <1>1 DEF LinksHold
<1> QED
  BY <1>6, <1>7, <1>8 DEF LinksHold, LinkHolds

LEMMA LinksStep == Inv /\ LinksHold /\ [DownloadsNext]_dvars => LinksHold'
<1> SUFFICES ASSUME Inv, LinksHold, [DownloadsNext]_dvars
             PROVE  LinksHold'
  OBVIOUS
<1>1. CASE Working /\ UNCHANGED get
  BY <1>1, BucketEmpties DEF LinksHold, LinkHolds
<1>2. ASSUME NEW v \in Vers, NEW c \in Contents, Put(v, c), Overwritten(url[v])
      PROVE  LinksHold'
  <2>1. \A k \in Keys \ {url[v]} : bucket'[k] = bucket[k]
    BY <1>2 DEF Put, Inv, TypeOK
  <2>2. get' = [g \in Readers |-> IF get[g].pc = "link" /\ get[g].key = url[v]
                                 THEN [get[g] EXCEPT !.pc = "overwritten"] ELSE get[g]]
    BY <1>2 DEF Overwritten
  <2>3. ASSUME NEW g \in Readers
        PROVE  LinkHolds(get[g])'
    <3>1. CASE get[g].pc = "link" /\ get[g].key = url[v]
      <4>1. get'[g] = [get[g] EXCEPT !.pc = "overwritten"]
        BY <2>2, <3>1
      <4>2. get'[g].pc = "overwritten"
        BY <4>1, <3>1
      <4> QED
        BY <4>2 DEF LinkHolds
    <3>2. CASE ~(get[g].pc = "link" /\ get[g].key = url[v])
      <4>1. get'[g] = get[g]
        BY <2>2, <3>2
      <4> QED
        BY <2>1, <3>2, <4>1 DEF LinksHold, LinkHolds
    <3> QED
      BY <3>1, <3>2
  <2> QED
    BY <2>2, <2>3 DEF LinksHold
<1>3. CASE \E g \in Readers : \/ DownloadVersion(g) \/ DownloadHead(g) \/ DownloadEnds(g)
                               \/ \E v \in Vers : DownloadNode(g, v)
  <2>1. PICK g \in Readers :
           \E v : \/ DownloadNode(g, v) \/ DownloadVersion(g)
                 \/ DownloadHead(g) \/ DownloadEnds(g)
    BY <1>3
  <2>2. UNCHANGED vars
    BY <2>1 DEF DownloadVersion, DownloadHead, DownloadEnds, DownloadNode
  <2> QED
    BY <2>1, <2>2, DownloadKeeps
<1>4. CASE UNCHANGED dvars
  BY <1>4 DEF dvars, vars, LinksHold, LinkHolds
<1> QED
  BY <1>1, <1>2, <1>3, <1>4 DEF DownloadsNext

(* Whatever happens between the HEAD and the browser's GET, a redirect     *)
(* leads to the bytes of the version that was read, found acceptable by a  *)
(* confirm, or to nothing, unless somebody PUT over the object in between  *)
(* (presignedUrlFor in files.service.ts compares the ETag with the         *)
(* checksum, which is only ever set to a verified one, and only a PUT      *)
(* gives the bucket an object).                                            *)
THEOREM ServedCorrect == DownloadsSpec => []ServedBytesWereVerified
<1>1. DownloadsInit => Inv /\ LinksHold
  BY InvInit DEF DownloadsInit, LinksHold, LinkHolds, Unread
<1>2. [DownloadsNext]_dvars => [Next]_vars
  BY DEF DownloadsNext, Next, dvars, DownloadVersion, DownloadHead, DownloadEnds, DownloadNode
<1>3. LinksHold => ServedBytesWereVerified
  BY DEF LinksHold, LinkHolds, ServedBytesWereVerified
<1> QED
  BY <1>1, <1>2, <1>3, InvStep, LinksStep, PTL DEF DownloadsSpec
=============================================================================
