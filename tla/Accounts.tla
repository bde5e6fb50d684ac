------------------------------ MODULE Accounts ------------------------------
(* Accounts and who gets into them: registration, password and Google       *)
(* sign-in, each cut at its awaits, with any number of requests overlapping *)
(* and the database's unique indexes deciding between them; and invitations *)
(* to addresses that may have an account only later.                        *)
(*                                                                          *)
(* An address is a name and whether it was typed in capitals.  A hash is    *)
(* the password it was made from.  The API never removes an account.        *)
EXTENDS Naturals, FiniteSets

CONSTANTS Names,       \* addresses, but for their case
          Passwords,
          Googles,     \* Google's ids
          Ids,         \* ids of accounts
          Reqs,        \* requests under way at a time
          MaxRequests, \* bound on sign-ins and registrations together
          None

Email == [name: Names, upper: BOOLEAN]
Row == [email: Email, pw: Passwords \cup {None}, google: Googles \cup {None}]
Underway == [step: {"register", "login", "google", "email", "link", "create"},
             email: Email, pw: Passwords \cup {None}, google: Googles \cup {None},
             verified: BOOLEAN, found: Ids \cup {None}, alone: BOOLEAN]

ASSUME NoneAssumption == None \notin Passwords \cup Googles \cup Ids \cup Row \cup Underway
ASSUME BoundAssumption == MaxRequests \in Nat

VARIABLES users,     \* the User table: per id its row, or None
          shares,    \* the addresses one node is shared with, as stored
          invited,   \* history: as they were typed
          reqs,      \* the requests under way
          sessions,  \* history: the accounts sessions were issued for, and on what grounds
          started    \* how many requests there were

vars == <<users, shares, invited, reqs, sessions, started>>

toLowerCase(e) == [e EXCEPT !.upper = FALSE]

Accounts == {i \in Ids: users[i] # None}
Active == {q \in Reqs: reqs[q] # None}

(* Both columns are unique; a missing Google id is NULL and equals nothing. *)
ByEmail(e) == {i \in Accounts: users[i].email = e}
ByGoogle(g) == {i \in Accounts: g # None /\ users[i].google = g}

(* A request between two awaits.  "alone" is FALSE once another one was     *)
(* under way at the same time.                                              *)
Starts(q, r) ==
    /\ reqs[q] = None /\ started < MaxRequests
    /\ started' = started + 1
    /\ reqs' = [p \in Reqs |-> IF p = q THEN [r EXCEPT !.alone = (Active = {})]
                               ELSE IF reqs[p] = None THEN None
                               ELSE [reqs[p] EXCEPT !.alone = FALSE]]
Continues(q, step, i) == reqs' = [reqs EXCEPT ![q].step = step, ![q].found = i]
Ends(q) == reqs' = [reqs EXCEPT ![q] = None]

Request(step, e, p, g, v, i) ==
    [step |-> step, email |-> e, pw |-> p, google |-> g, verified |-> v, found |-> i, alone |-> TRUE]

(* issue(): an access and a refresh token, and what the caller had shown.   *)
issue(q, i) == sessions' = sessions \cup
    {[id |-> i, pw |-> reqs[q].pw, google |-> reqs[q].google,
      email |-> reqs[q].email, verified |-> reqs[q].verified]}

(* INSERT, which the unique indexes may refuse (P2002).                     *)
Unique(e, g) == ByEmail(e) = {} /\ ByGoogle(g) = {}
Insert(i, e, p, g) ==
    /\ users[i] = None
    /\ users' = [users EXCEPT ![i] = [email |-> e, pw |-> p, google |-> g]]

(******************************* Registration *******************************)
(* An address found taken ends the request at once (EMAIL_TAKEN).           *)
register(q, typed, p) ==
    /\ ByEmail(toLowerCase(typed)) = {}
    /\ Starts(q, Request("register", toLowerCase(typed), p, None, FALSE, None))
    /\ UNCHANGED <<users, shares, invited, sessions>>

(* After the hash.  Lost to another request, it is EMAIL_TAKEN as well.     *)
RegisterCreate(q) ==
    /\ q \in Active /\ reqs[q].step = "register"
    /\ \/ /\ Unique(reqs[q].email, None)
          /\ \E i \in Ids: Insert(i, reqs[q].email, reqs[q].pw, None) /\ issue(q, i)
       \/ ~Unique(reqs[q].email, None) /\ UNCHANGED <<users, sessions>>
    /\ Ends(q)
    /\ UNCHANGED <<shares, invited, started>>

(*********************************** Login **********************************)
(* The password is compared with the row read before; no row, or one of an  *)
(* account without a password, is compared with a dummy and refused.        *)
login(q, typed, p) ==
    /\ \E i \in ByEmail(toLowerCase(typed)):
          Starts(q, Request("login", toLowerCase(typed), p, None, FALSE, i))
    /\ UNCHANGED <<users, shares, invited, sessions>>

LoginVerify(q) ==
    /\ q \in Active /\ reqs[q].step = "login"
    /\ IF users[reqs[q].found].pw = reqs[q].pw
       THEN issue(q, reqs[q].found)
       ELSE UNCHANGED sessions
    /\ Ends(q)
    /\ UNCHANGED <<users, shares, invited, started>>

(********************************** Google **********************************)
(* Mutant: the address is kept as Google has it. *)
upsertGoogleUser_caseKept(q, g, typed, v) ==
    /\ Starts(q, Request("google", typed, None, g, v, None))
    /\ UNCHANGED <<users, shares, invited, sessions>>

(* The profile says who signed in at Google, under which address, and       *)
(* whether Google has verified it; the address may change from one sign-in  *)
(* to the next.                                                             *)
upsertGoogleUser(q, g, typed, v) ==
    /\ Starts(q, Request("google", toLowerCase(typed), None, g, v, None))
    /\ UNCHANGED <<users, shares, invited, sessions>>

GoogleById(q) ==
    /\ q \in Active /\ reqs[q].step = "google"
    /\ \/ \E i \in ByGoogle(reqs[q].google): issue(q, i) /\ Ends(q)
       \/ /\ ByGoogle(reqs[q].google) = {}
          /\ Continues(q, "email", None) /\ UNCHANGED sessions
    /\ UNCHANGED <<users, shares, invited, started>>

(* Mutants: a guard is missing. *)
MayLink_anyLink(i, r) == r.verified
MayLink_unverified(i, r) == users[i].google \in {None, r.google}

(* An account with the address is linked, unless it has another Google id   *)
(* or Google has not verified the address (EMAIL_TAKEN both).               *)
MayLink(i, r) == users[i].google \in {None, r.google} /\ r.verified

GoogleByEmail(q) ==
    LET found == ByEmail(reqs[q].email) IN
    /\ q \in Active /\ reqs[q].step = "email"
    /\ \/ \E i \in found: MayLink(i, reqs[q]) /\ Continues(q, "link", i)
       \/ \E i \in found: ~MayLink(i, reqs[q]) /\ Ends(q)
       \/ found = {} /\ Continues(q, "create", None)
    /\ UNCHANGED <<users, shares, invited, sessions, started>>

(* UPDATE ... WHERE id: whatever Google id the row has by now is replaced.  *)
GoogleLink(q) ==
    LET i == reqs[q].found IN
    /\ q \in Active /\ reqs[q].step = "link"
    /\ \/ /\ ByGoogle(reqs[q].google) \subseteq {i}
          /\ users' = [users EXCEPT ![i].google = reqs[q].google]
          /\ issue(q, i)
       \/ /\ ~(ByGoogle(reqs[q].google) \subseteq {i})    \* P2002, outside any catch
          /\ UNCHANGED <<users, sessions>>
    /\ Ends(q)
    /\ UNCHANGED <<shares, invited, started>>

GoogleCreate(q) ==
    /\ q \in Active /\ reqs[q].step = "create"
    /\ \/ /\ Unique(reqs[q].email, reqs[q].google)
          /\ \E i \in Ids: Insert(i, reqs[q].email, None, reqs[q].google) /\ issue(q, i)
       \/ ~Unique(reqs[q].email, reqs[q].google) /\ UNCHANGED <<users, sessions>>  \* P2002 likewise
    /\ Ends(q)
    /\ UNCHANGED <<shares, invited, started>>

(******************************** Invitations *******************************)
(* Mutant: the address is stored as typed. *)
Invite_asTyped(typed) ==
    /\ invited' = invited \cup {typed}
    /\ shares' = shares \cup {typed}
    /\ UNCHANGED <<users, reqs, sessions, started>>

(* Sharing a node with an address; a second time restores the same row.     *)
Invite(typed) ==
    /\ invited' = invited \cup {typed}
    /\ shares' = shares \cup {toLowerCase(typed)}
    /\ UNCHANGED <<users, reqs, sessions, started>>

(* The resolver and the list of what is shared ask for the user's address.  *)
Reaches(s, i) == s = toLowerCase(users[i].email)

----------------------------------------------------------------------------
Init ==
    /\ users = [i \in Ids |-> None]
    /\ shares = {} /\ invited = {}
    /\ reqs = [q \in Reqs |-> None]
    /\ sessions = {} /\ started = 0

Step(q) == RegisterCreate(q) \/ LoginVerify(q) \/ GoogleById(q) \/ GoogleByEmail(q)
           \/ GoogleLink(q) \/ GoogleCreate(q)

Next ==
    \/ \E q \in Reqs: Step(q)
    \/ \E q \in Reqs, e \in Email, p \in Passwords: register(q, e, p) \/ login(q, e, p)
    \/ \E q \in Reqs, g \in Googles, e \in Email, v \in BOOLEAN: upsertGoogleUser(q, g, e, v)
    \/ \E e \in Email: Invite(e)

Spec == Init /\ [][Next]_vars

----------------------------------------------------------------------------
TypeOK ==
    /\ users \in [Ids -> Row \cup {None}]
    /\ shares \subseteq Email /\ invited \subseteq Email
    /\ reqs \in [Reqs -> Underway \cup {None}] /\ started \in Nat
    /\ sessions \subseteq [id: Ids, pw: Passwords \cup {None}, google: Googles \cup {None},
                           email: Email, verified: BOOLEAN]

(* Two requests that race past every lookup leave one account per address,  *)
(* however it was typed, and one per Google id.                             *)
OneAccountPerAddress ==
    \A i, j \in Accounts: i # j =>
        /\ users[i].email.name # users[j].email.name
        /\ users[i].google = None \/ users[i].google # users[j].google

(* What a session of the account rests on: its password, or a Google id     *)
(* that at some sign-in came with the account's address.  In an account     *)
(* that was registered the address came verified; in one that Google made,  *)
(* which has no password, it came verified or not, and the id is the one    *)
(* that made it.                                                            *)
Grounds(s) ==
    IF s.google = None THEN users[s.id].pw # None /\ users[s.id].pw = s.pw
    ELSE /\ users[s.id].pw = None => users[s.id].google = s.google
         /\ \E t \in sessions: t.id = s.id /\ t.google = s.google /\ t.email = users[s.id].email
                               /\ (t.verified \/ users[s.id].pw = None)

(* No interleaving of lookups, links and creations opens an account         *)
(* registered with a password to somebody who showed neither the password   *)
(* nor a Google id that came with its verified address, nor one that Google *)
(* made to another Google id than the one that made it: "Refuse instead of  *)
(* linking when Google has not verified it" (upsertGoogleUser).  Nothing    *)
(* here says who owns the address of an account Google made: the code makes *)
(* it and signs it in unverified too.                                       *)
SessionsProven == \A s \in sessions: s.id \in Accounts /\ Grounds(s)

(* A sign-in that overlaps with no other never takes an account's Google id *)
(* away ("would steal that account's googleId link").  Two that overlap     *)
(* can: both read the row while it has none.                                *)
LinksStay == [][(\A q \in Active: reqs[q].alone) =>
                \A i \in Accounts: users[i].google # None => users'[i].google = users[i].google]_vars

(* An invitation opens for the account of that address and no other,        *)
(* whichever came first and however either was typed.                       *)
InvitesReach ==
    \A i \in Accounts:
        (\E s \in shares: Reaches(s, i)) <=> (\E e \in invited: e.name = users[i].email.name)
=============================================================================
