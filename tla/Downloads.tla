------------------------------ MODULE Downloads ------------------------------
(***************************************************************************)
(* Downloads of the file of Uploads: a reader's request reads the node,    *)
(* then a version row, asks the bucket for the object's ETag and answers   *)
(* with a redirect to the bucket, which the browser follows later.  The    *)
(* uploads, confirms, restores and the sweep go on between those steps.    *)
(***************************************************************************)
EXTENDS Uploads

CONSTANT Readers    \* the downloads that may be under way at once

VARIABLE get        \* get[g]: how far a download is
dvars == << vars, get >>

(* v: the version asked for; key, sum: its key and checksum as read.       *)
Unread == [pc |-> "idle", v |-> None, key |-> 0, sum |-> None]

(* AccessGuard reads the node.  Asked for is any version id, or the one    *)
(* that is current.                                                        *)
DownloadNode(g, v) ==
    /\ get[g] = Unread
    /\ Live /\ node.status = "ACTIVE"
    /\ v \in Issued
    /\ get' = [get EXCEPT ![g] = [Unread EXCEPT !.pc = "version", !.v = v]]
    /\ UNCHANGED vars

(* The version row; no row or a reservation answers 404. *)
DownloadVersion(g) ==
    /\ get[g].pc = "version"
    /\ LET v == get[g].v IN
       get' = [get EXCEPT ![g] = IF Confirmed(v)
                                 THEN [pc |-> "head", v |-> v, key |-> version[v].key,
                                       sum |-> version[v].checksum]
                                 ELSE Unread]
    /\ UNCHANGED vars

(* Mutant: the ETag is not compared with the checksum. *)
DownloadHead_unchecked(g) ==
    /\ get[g].pc = "head"
    /\ get' = [get EXCEPT ![g] = IF bucket[get[g].key] # None
                                 THEN [@ EXCEPT !.pc = "link"] ELSE Unread]
    /\ UNCHANGED vars

(* HEAD: a redirect if the object is what was confirmed, a 410 otherwise.  *)
DownloadHead(g) ==
    /\ get[g].pc = "head"
    /\ get' = [get EXCEPT ![g] = IF bucket[get[g].key] = get[g].sum
                                 THEN [@ EXCEPT !.pc = "link"] ELSE Unread]
    /\ UNCHANGED vars

(* The request fails, the browser has what the redirect led to, or the     *)
(* redirect has expired.                                                   *)
DownloadEnds(g) ==
    /\ get[g] # Unread
    /\ get' = [get EXCEPT ![g] = Unread]
    /\ UNCHANGED vars

(* A PUT to the object a redirect leads to.                                *)
Overwritten(k) ==
    get' = [g \in Readers |-> IF get[g].pc = "link" /\ get[g].key = k
                              THEN [get[g] EXCEPT !.pc = "overwritten"] ELSE get[g]]

-----------------------------------------------------------------------------
DownloadsInit == Init /\ get = [g \in Readers |-> Unread]

DownloadsNext ==
    \/ Working /\ UNCHANGED get
    \/ \E v \in Vers, c \in Contents : Put(v, c) /\ Overwritten(url[v])
    \/ \E g \in Readers : \/ DownloadVersion(g) \/ DownloadHead(g) \/ DownloadEnds(g)
                          \/ \E v \in Vers : DownloadNode(g, v)

DownloadsSpec ==
    /\ DownloadsInit /\ [][DownloadsNext]_dvars
    /\ WF_dvars(SweepStep /\ UNCHANGED get)

-----------------------------------------------------------------------------
(* What the browser gets from the bucket when it follows a redirect, now   *)
(* or later, is the object of the version row that was read, and one a     *)
(* confirm found acceptable, or nothing: although the row, the ETag and    *)
(* the object are read at three moments, upload URLs outlive the confirm,  *)
(* two confirms may overlap, keys are used again and restored versions are *)
(* never looked at again (files.service.ts).  Exempt are redirects whose   *)
(* object was PUT over after they were handed out, which nothing in the    *)
(* code prevents.                                                          *)
ServedBytesWereVerified ==
    \A g \in Readers : get[g].pc = "link" =>
        bucket[get[g].key] \in ({get[g].sum} \cap Good) \cup {None}
=============================================================================
