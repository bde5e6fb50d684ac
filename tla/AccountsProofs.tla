--------------------------- MODULE AccountsProofs ---------------------------
(* For any number of accounts and of requests that overlap: one account per *)
(* address; no session in a registered account without its password or its  *)
(* verified address, nor in one Google made without the id that made it; no *)
(* link lost to a sign-in that overlaps with none, invitations that reach   *)
(* the account of their address and no other.                               *)
(*                                                                          *)
(* A step either only moves requests on, or issues a session, or inserts a  *)
(* row, or links one.  What a request has read (Founded) is still true when *)
(* it acts, because emails and passwords never change and an account        *)
(* without a password never changes its Google id.                          *)
EXTENDS Accounts, TLAPS

(* What a request between two awaits knows and has read of the table u. *)
Founded(u, r) ==
    /\ r.email.upper = FALSE
    /\ r.step \in {"register", "login"} => r.pw # None /\ r.google = None
    /\ r.step \notin {"register", "login"} => r.pw = None /\ r.google # None
    /\ r.step = "login" => r.found \in Ids /\ u[r.found] # None
    /\ r.step = "link" =>
          /\ r.found \in Ids /\ u[r.found] # None
          /\ r.verified = TRUE
          /\ u[r.found].email = r.email
          /\ u[r.found].pw = None => u[r.found].google = r.google
          /\ r.alone = TRUE => u[r.found].google \in {None, r.google}

RequestsSound(u, rs) ==
    /\ \A q \in Reqs : rs[q] # None => Founded(u, rs[q])
    /\ \A p, q \in Reqs : p # q /\ rs[p] # None /\ rs[q] # None => rs[p].alone = FALSE

(* A session in which the account's Google id came with its address, which  *)
(* was verified unless Google made the account.                             *)
Proves(u, t, i) == /\ t.id = i /\ t.google = u[i].google
                   /\ t.email = u[i].email /\ (t.verified = TRUE \/ u[i].pw = None)

RowsSound(u, ss) == \A i \in Ids : u[i] # None =>
    /\ u[i].email.upper = FALSE
    /\ u[i].pw = None => u[i].google # None
    /\ u[i].google # None => \E t \in ss : Proves(u, t, i)

SharesSound == shares = {toLowerCase(e) : e \in invited}

OneEach(u) == \A i, j \in Ids : u[i] # None /\ u[j] # None /\ i # j =>
    /\ u[i].email # u[j].email
    /\ u[i].google = None \/ u[i].google # u[j].google

(* SessionsProven, of any table and set of sessions. *)
Rests(u, ss, s) ==
    /\ s.google = None => u[s.id].pw # None /\ u[s.id].pw = s.pw
    /\ s.google # None /\ u[s.id].pw = None => u[s.id].google = s.google
    /\ s.google # None =>
          \E t \in ss : /\ t.id = s.id /\ t.google = s.google
                       /\ t.email = u[s.id].email
                       /\ (t.verified = TRUE \/ u[s.id].pw = None)

SessionsSound(u, ss) == \A s \in ss : s.id \in Ids /\ u[s.id] # None /\ Rests(u, ss, s)

Inv == /\ TypeOK /\ RequestsSound(users, reqs) /\ RowsSound(users, sessions) /\ SharesSound
       /\ OneEach(users) /\ SessionsSound(users, sessions)

-----------------------------------------------------------------------------
LEMMA InitInv == Init => Inv
<1> SUFFICES ASSUME Init PROVE Inv
  OBVIOUS
<1>1. TypeOK
  BY DEF Init, TypeOK
<1>2. RequestsSound(users, reqs) /\ RowsSound(users, sessions) /\ OneEach(users)
  BY DEF Init, RequestsSound, RowsSound, OneEach
<1>3. SharesSound /\ SessionsSound(users, sessions)
  BY DEF Init, SharesSound, SessionsSound
<1> QED
  BY <1>1, <1>2, <1>3 DEF Inv

(* Being alone or not says nothing but what it says of a link. *)
LEMMA FoundedAlone ==
    ASSUME NEW u, NEW r, NEW s, Founded(u, r),
           s.step = r.step, s.email = r.email, s.pw = r.pw, s.google = r.google,
           s.verified = r.verified, s.found = r.found,
           s.step # "link" \/ s.alone = FALSE
    PROVE  Founded(u, s)
  BY DEF Founded

(* A new request, and the others that are no longer alone. *)
LEMMA StartsSound ==
    ASSUME TypeOK, RequestsSound(users, reqs), NEW q \in Reqs, NEW r \in Underway,
           r.step # "link", Founded(users, r), Starts(q, r)
    PROVE  /\ RequestsSound(users, reqs')
           /\ reqs' \in [Reqs -> Underway \cup {None}] /\ started' \in Nat
<1> DEFINE b == Active = {}
<1>1. reqs'[q] = [r EXCEPT !.alone = b] /\ b \in BOOLEAN
  BY DEF Starts
<1>2. /\ reqs'[q] \in Underway /\ Founded(users, reqs'[q])
      /\ reqs'[q].alone = b
  <2> HIDE DEF b
  <2> DEFINE s == [r EXCEPT !.alone = b]
  <2>0. reqs'[q] = s
    BY <1>1
  <2>1. /\ s \in Underway
        /\ s.step = r.step /\ s.email = r.email /\ s.pw = r.pw /\ s.google = r.google
        /\ s.verified = r.verified /\ s.found = r.found /\ s.alone = b
    BY <1>1 DEF Underway
  <2> HIDE DEF s
  <2> QED
    BY <2>0, <2>1, FoundedAlone
<1>3. \A p \in Reqs : p # q /\ reqs[p] = None => reqs'[p] = None
  BY DEF Starts
<1>4. ASSUME NEW p \in Reqs, p # q, reqs[p] # None
      PROVE  reqs'[p] \in Underway /\ Founded(users, reqs'[p]) /\ reqs'[p].alone = FALSE
  <2>1. reqs'[p] = [reqs[p] EXCEPT !.alone = FALSE]
    BY <1>4 DEF Starts
  <2>2. reqs[p] \in Underway /\ Founded(users, reqs[p])
    BY <1>4 DEF TypeOK, RequestsSound
  <2> DEFINE s == [reqs[p] EXCEPT !.alone = FALSE]
  <2>3. reqs'[p] = s
    BY <2>1
  <2>4. /\ s \in Underway
        /\ s.step = reqs[p].step /\ s.email = reqs[p].email /\ s.pw = reqs[p].pw
        /\ s.google = reqs[p].google /\ s.verified = reqs[p].verified
        /\ s.found = reqs[p].found /\ s.alone = FALSE
    BY <2>2 DEF Underway
  <2> HIDE DEF s
  <2> QED
    BY <2>2, <2>3, <2>4, FoundedAlone
<1>5. \A p \in Reqs : reqs'[p] \in Underway \cup {None}
  BY <1>2, <1>3, <1>4
<1>6. reqs' \in [Reqs -> Underway \cup {None}]
  <2>1. reqs' = [p \in Reqs |-> reqs'[p]]
    BY DEF Starts
  <2> QED
    BY <1>5, <2>1
<1>7. \A p \in Reqs : reqs'[p] # None => Founded(users, reqs'[p])
  BY <1>2, <1>3, <1>4
<1>8. ASSUME NEW p1 \in Reqs, NEW p2 \in Reqs, p1 # p2, reqs'[p1] # None, reqs'[p2] # None
      PROVE  reqs'[p1].alone = FALSE
  <2>1. CASE p1 = q
    <3>1. p2 \in Active
      BY <1>3, <1>8, <2>1 DEF Active
    <3> QED
      BY <1>2, <2>1, <3>1
  <2>2. CASE p1 # q
    BY <1>3, <1>4, <1>8, <2>2
  <2> QED
    BY <2>1, <2>2
<1>9. started' \in Nat
  BY DEF Starts, TypeOK
<1> QED
  BY <1>6, <1>7, <1>8, <1>9 DEF RequestsSound

(* A request that ends leaves the others what they have read. *)
LEMMA EndsSound ==
    ASSUME TypeOK, RequestsSound(users, reqs), NEW q \in Reqs, Ends(q), NEW u,
           \A p \in Reqs : p # q /\ reqs[p] # None => Founded(u, reqs[p])
    PROVE  RequestsSound(u, reqs') /\ reqs' \in [Reqs -> Underway \cup {None}]
<1>1. \A p \in Reqs : reqs'[p] = IF p = q THEN None ELSE reqs[p]
  BY DEF Ends, TypeOK
<1>2. \A p \in Reqs : reqs'[p] # None => p # q /\ reqs[p] # None /\ reqs'[p] = reqs[p]
  BY <1>1
<1>3. \A p \in Reqs : reqs'[p] # None => Founded(u, reqs'[p])
  BY <1>2
<1>4. \A p1, p2 \in Reqs : p1 # p2 /\ reqs'[p1] # None /\ reqs'[p2] # None => reqs'[p1].alone = FALSE
  BY <1>2 DEF RequestsSound
<1>5. reqs' \in [Reqs -> Underway \cup {None}]
  BY DEF Ends, TypeOK
<1> QED
  BY <1>3, <1>4, <1>5 DEF RequestsSound

-----------------------------------------------------------------------------
(* What no step takes from an account. *)
Keeps(u, w) == \A i \in Ids : u[i] # None =>
    /\ w[i] # None /\ w[i].email = u[i].email /\ w[i].pw = u[i].pw
    /\ u[i].pw = None => w[i].google = u[i].google

LEMMA FoundedStep ==
    ASSUME NEW u, NEW w, NEW r, Founded(u, r), Keeps(u, w),
           r.alone = FALSE \/ \A i \in Ids : u[i] # None => w[i] = u[i]
    PROVE  Founded(w, r)
  BY DEF Founded, Keeps

LEMMA SessionsStep ==
    ASSUME NEW u, NEW w, NEW ss, NEW tt, SessionsSound(u, ss), Keeps(u, w), ss \subseteq tt,
           \A s \in tt \ ss : s.id \in Ids /\ w[s.id] # None /\ Rests(w, tt, s)
    PROVE  SessionsSound(w, tt)
<1> SUFFICES ASSUME NEW s \in ss
             PROVE  s.id \in Ids /\ w[s.id] # None /\ Rests(w, tt, s)
  BY DEF SessionsSound
<1>1. s.id \in Ids /\ u[s.id] # None /\ Rests(u, ss, s)
  BY DEF SessionsSound
<1>2. /\ w[s.id] # None /\ w[s.id].email = u[s.id].email /\ w[s.id].pw = u[s.id].pw
      /\ u[s.id].pw = None => w[s.id].google = u[s.id].google
  BY <1>1 DEF Keeps
<1>3. Rests(w, tt, s)
  BY <1>1, <1>2 DEF Rests
<1> QED
  BY <1>1, <1>2, <1>3

LEMMA RowsGrow ==
    ASSUME NEW u, NEW ss, NEW tt, RowsSound(u, ss), ss \subseteq tt
    PROVE  RowsSound(u, tt)
  BY DEF RowsSound

Shown(q, i) == [id |-> i, pw |-> reqs[q].pw, google |-> reqs[q].google,
                email |-> reqs[q].email, verified |-> reqs[q].verified]

Session == [id: Ids, pw: Passwords \cup {None}, google: Googles \cup {None},
            email: Email, verified: BOOLEAN]

LEMMA ShownFields ==
    ASSUME TypeOK, NEW q \in Reqs, reqs[q] # None, NEW i \in Ids
    PROVE  /\ Shown(q, i) \in Session
           /\ Shown(q, i).id = i /\ Shown(q, i).pw = reqs[q].pw
           /\ Shown(q, i).google = reqs[q].google /\ Shown(q, i).email = reqs[q].email
           /\ Shown(q, i).verified = reqs[q].verified
<1>1. reqs[q] \in Underway
  BY DEF TypeOK
<1> QED
  BY <1>1 DEF Shown, Session, Underway

(* A session of an account whose row the step has just written or has not   *)
(* touched.                                                                 *)
LEMMA IssueSound ==
    ASSUME TypeOK, SessionsSound(users, sessions), NEW q \in Reqs, reqs[q] # None,
           NEW i \in Ids, issue(q, i), NEW w, Keeps(users, w), w[i] # None,
           Rests(w, sessions', Shown(q, i))
    PROVE  SessionsSound(w, sessions') /\ sessions' \subseteq Session
<1>1. sessions' = sessions \cup {Shown(q, i)}
  BY DEF issue, Shown
<1>2. sessions \subseteq Session
  BY DEF TypeOK, Session
<1>3. \A s \in sessions' \ sessions : s = Shown(q, i)
  BY <1>1
<1>4. \A s \in sessions' \ sessions : s.id \in Ids /\ w[s.id] # None /\ Rests(w, sessions', s)
  BY <1>3, ShownFields
<1>5. SessionsSound(w, sessions')
  BY <1>1, <1>4, SessionsStep
<1> QED
  BY <1>1, <1>2, <1>5, ShownFields

-----------------------------------------------------------------------------
LEMMA Lowered ==
    ASSUME NEW e \in Email
    PROVE  toLowerCase(e) \in Email /\ toLowerCase(e).upper = FALSE
           /\ toLowerCase(e).name = e.name
  BY DEF toLowerCase, Email

(* A step that only starts a request. *)
LEMMA StartsInv ==
    ASSUME Inv, NEW q \in Reqs, NEW r \in Underway, r.step # "link", Founded(users, r),
           Starts(q, r), UNCHANGED <<users, shares, invited, sessions>>
    PROVE  Inv'
<1>1. RequestsSound(users, reqs') /\ reqs' \in [Reqs -> Underway \cup {None}] /\ started' \in Nat
  BY StartsSound DEF Inv
<1>2. TypeOK'
  BY <1>1 DEF Inv, TypeOK
<1> QED
  BY <1>1, <1>2 DEF Inv, SharesSound

LEMMA RegisterStep ==
    ASSUME Inv, NEW q \in Reqs, NEW e \in Email, NEW p \in Passwords, register(q, e, p)
    PROVE  Inv'
<1> DEFINE r == Request("register", toLowerCase(e), p, None, FALSE, None)
<1>1. r \in Underway /\ r.step = "register" /\ r.email = toLowerCase(e) /\ r.pw = p /\ r.google = None
  BY Lowered DEF Request, Underway
<1>2. Starts(q, r) /\ UNCHANGED <<users, shares, invited, sessions>>
  BY DEF register
<1> HIDE DEF r
<1>3. Founded(users, r)
  BY <1>1, Lowered, NoneAssumption DEF Founded
<1> QED
  BY <1>1, <1>2, <1>3, StartsInv

LEMMA LoginStep ==
    ASSUME Inv, NEW q \in Reqs, NEW e \in Email, NEW p \in Passwords, login(q, e, p)
    PROVE  Inv'
<1>1. PICK i \in ByEmail(toLowerCase(e)) :
          Starts(q, Request("login", toLowerCase(e), p, None, FALSE, i))
  BY DEF login
<1>2. i \in Ids /\ users[i] # None
  BY DEF ByEmail, Accounts
<1> DEFINE r == Request("login", toLowerCase(e), p, None, FALSE, i)
<1>3. /\ r \in Underway /\ r.step = "login" /\ r.email = toLowerCase(e) /\ r.pw = p
      /\ r.google = None /\ r.found = i
  BY <1>2, Lowered DEF Request, Underway
<1>4. Starts(q, r) /\ UNCHANGED <<users, shares, invited, sessions>>
  BY <1>1 DEF login
<1> HIDE DEF r
<1>5. Founded(users, r)
  BY <1>2, <1>3, Lowered, NoneAssumption DEF Founded
<1> QED
  BY <1>3, <1>4, <1>5, StartsInv

LEMMA GoogleStep ==
    ASSUME Inv, NEW q \in Reqs, NEW g \in Googles, NEW e \in Email, NEW v \in BOOLEAN,
           upsertGoogleUser(q, g, e, v)
    PROVE  Inv'
<1> DEFINE r == Request("google", toLowerCase(e), None, g, v, None)
<1>1. r \in Underway /\ r.step = "google" /\ r.email = toLowerCase(e) /\ r.pw = None /\ r.google = g
  BY Lowered DEF Request, Underway
<1>2. Starts(q, r) /\ UNCHANGED <<users, shares, invited, sessions>>
  BY DEF upsertGoogleUser
<1> HIDE DEF r
<1>3. Founded(users, r)
  BY <1>1, Lowered, NoneAssumption DEF Founded
<1> QED
  BY <1>1, <1>2, <1>3, StartsInv

(* A step that ends a request and may issue a session, the table as it was. *)
LEMMA EndsInv ==
    ASSUME Inv, NEW q \in Reqs, Ends(q), UNCHANGED <<users, shares, invited, started>>,
           sessions \subseteq sessions', sessions' \subseteq Session,
           SessionsSound(users, sessions')
    PROVE  Inv'
<1>1. RequestsSound(users, reqs') /\ reqs' \in [Reqs -> Underway \cup {None}]
  <2>1. \A p \in Reqs : p # q /\ reqs[p] # None => Founded(users, reqs[p])
    BY DEF Inv, RequestsSound
  <2> QED
    BY <2>1, EndsSound DEF Inv
<1>2. RowsSound(users, sessions')
  BY RowsGrow DEF Inv
<1>3. TypeOK'
  BY <1>1 DEF Inv, TypeOK, Session
<1> QED
  BY <1>1, <1>2, <1>3 DEF Inv, SharesSound

LEMMA KeepsSame == ASSUME NEW u PROVE Keeps(u, u)
  BY DEF Keeps

LEMMA LoginVerifyStep ==
    ASSUME Inv, NEW q \in Reqs, LoginVerify(q)
    PROVE  Inv'
<1>1. /\ reqs[q] # None /\ reqs[q].step = "login" /\ Ends(q)
      /\ UNCHANGED <<users, shares, invited, started>>
  BY DEF LoginVerify, Active
<1>2. Founded(users, reqs[q])
  BY <1>1 DEF Inv, RequestsSound
<1> DEFINE i == reqs[q].found
<1>3. i \in Ids /\ users[i] # None /\ reqs[q].pw # None /\ reqs[q].google = None
  BY <1>1, <1>2 DEF Founded
<1>4. CASE users[i].pw = reqs[q].pw
  <2>1. issue(q, i)
    BY <1>4 DEF LoginVerify
  <2>2. sessions' = sessions \cup {Shown(q, i)}
    BY <2>1 DEF issue, Shown
  <2>3. Rests(users, sessions', Shown(q, i))
    BY <1>1, <1>3, <1>4, ShownFields DEF Inv, Rests
  <2>4. SessionsSound(users, sessions') /\ sessions' \subseteq Session
    BY <1>1, <1>3, <2>1, <2>3, KeepsSame, IssueSound DEF Inv
  <2> QED
    BY <1>1, <2>2, <2>4, EndsInv
<1>5. CASE users[i].pw # reqs[q].pw
  <2>1. sessions' = sessions
    BY <1>5 DEF LoginVerify
  <2> QED
    BY <1>1, <2>1, EndsInv DEF Inv, TypeOK, Session
<1> QED
  BY <1>4, <1>5

(* A request that goes on, the table as it was. *)
LEMMA ContinuesInv ==
    ASSUME Inv, NEW q \in Reqs, reqs[q] # None, NEW i \in Ids \cup {None},
           NEW step \in {"email", "link", "create"}, Continues(q, step, i),
           UNCHANGED <<users, shares, invited, sessions, started>>,
           reqs[q].step \notin {"register", "login"},
           step = "link" =>
              /\ i \in Ids /\ users[i] # None /\ reqs[q].verified = TRUE
              /\ users[i].email = reqs[q].email
              /\ users[i].google \in {None, reqs[q].google}
    PROVE  Inv'
<1> DEFINE s == [reqs[q] EXCEPT !.step = step, !.found = i]
<1>1. reqs[q] \in Underway /\ Founded(users, reqs[q])
  BY DEF Inv, TypeOK, RequestsSound
<1>2. /\ s \in Underway /\ s.step = step /\ s.found = i
      /\ s.email = reqs[q].email /\ s.pw = reqs[q].pw /\ s.google = reqs[q].google
      /\ s.verified = reqs[q].verified /\ s.alone = reqs[q].alone
  BY <1>1 DEF Underway
<1>3. reqs' = [reqs EXCEPT ![q] = s]
  BY DEF Continues
<1> HIDE DEF s
<1>4. \A p \in Reqs : reqs'[p] = IF p = q THEN s ELSE reqs[p]
  BY <1>3 DEF Inv, TypeOK
<1>5. reqs' \in [Reqs -> Underway \cup {None}]
  BY <1>2, <1>3 DEF Inv, TypeOK
<1>6. Founded(users, s)
  <2>1. step = "link" => (users[i].pw = None => users[i].google = reqs[q].google)
    <3> SUFFICES ASSUME step = "link", users[i].pw = None
                 PROVE  users[i].google = reqs[q].google
      OBVIOUS
    <3>1. users[i].google # None
      BY DEF Inv, RowsSound
    <3> QED
      BY <3>1
  <2> QED
    BY <1>1, <1>2, <2>1 DEF Founded
<1>7. RequestsSound(users, reqs')
  <2>1. \A p \in Reqs : reqs'[p] # None => Founded(users, reqs'[p])
    BY <1>4, <1>6 DEF Inv, RequestsSound
  <2>2. \A p \in Reqs : reqs'[p] # None => reqs[p] # None /\ reqs'[p].alone = reqs[p].alone
    BY <1>2, <1>4
  <2> QED
    BY <2>1, <2>2 DEF Inv, RequestsSound
<1>8. TypeOK'
  BY <1>5 DEF Inv, TypeOK
<1> QED
  BY <1>7, <1>8 DEF Inv, SharesSound

LEMMA GoogleByIdStep ==
    ASSUME Inv, NEW q \in Reqs, GoogleById(q)
    PROVE  Inv'
<1>1. /\ reqs[q] # None /\ reqs[q].step = "google"
      /\ UNCHANGED <<users, shares, invited, started>>
  BY DEF GoogleById, Active
<1>2. Founded(users, reqs[q]) /\ reqs[q] \in Underway
  BY <1>1 DEF Inv, RequestsSound, TypeOK
<1>3. CASE \E i \in ByGoogle(reqs[q].google) : issue(q, i) /\ Ends(q)
  <2>1. PICK i \in ByGoogle(reqs[q].google) : issue(q, i) /\ Ends(q)
    BY <1>3
  <2>2. i \in Ids /\ users[i] # None /\ users[i].google = reqs[q].google /\ reqs[q].google # None
    BY DEF ByGoogle, Accounts
  <2>3. sessions' = sessions \cup {Shown(q, i)}
    BY <2>1 DEF issue, Shown
  <2>4. \E t \in sessions : Proves(users, t, i)
    BY <2>2 DEF Inv, RowsSound
  <2>5. Rests(users, sessions', Shown(q, i))
    BY <1>1, <2>2, <2>3, <2>4, ShownFields DEF Inv, Rests, Proves
  <2>6. SessionsSound(users, sessions') /\ sessions' \subseteq Session
    BY <1>1, <2>1, <2>2, <2>5, KeepsSame, IssueSound DEF Inv
  <2> QED
    BY <1>1, <2>1, <2>3, <2>6, EndsInv
<1>4. CASE Continues(q, "email", None) /\ UNCHANGED sessions
  BY <1>1, <1>4, ContinuesInv
<1> QED
  BY <1>3, <1>4 DEF GoogleById

LEMMA GoogleByEmailStep ==
    ASSUME Inv, NEW q \in Reqs, GoogleByEmail(q)
    PROVE  Inv'
<1>1. /\ reqs[q] # None /\ reqs[q].step = "email"
      /\ UNCHANGED <<users, shares, invited, sessions, started>>
  BY DEF GoogleByEmail, Active
<1>2. reqs[q] \in Underway
  BY <1>1 DEF Inv, TypeOK
<1>3. ASSUME NEW i \in ByEmail(reqs[q].email), MayLink(i, reqs[q]), Continues(q, "link", i)
      PROVE  Inv'
  <2>1. i \in Ids /\ users[i] # None /\ users[i].email = reqs[q].email
    BY DEF ByEmail, Accounts
  <2>2. users[i].google \in {None, reqs[q].google} /\ reqs[q].verified = TRUE
    BY <1>2, <1>3 DEF MayLink, Underway
  <2> QED
    BY <1>1, <1>3, <2>1, <2>2, ContinuesInv
<1>4. ASSUME Ends(q) PROVE Inv'
  BY <1>1, <1>4, EndsInv DEF Inv, TypeOK, Session
<1>5. ASSUME Continues(q, "create", None) PROVE Inv'
  BY <1>1, <1>5, ContinuesInv
<1> QED
  BY <1>3, <1>4, <1>5 DEF GoogleByEmail

LEMMA InviteStep ==
    ASSUME Inv, NEW e \in Email, Invite(e)
    PROVE  Inv'
<1>1. TypeOK'
  BY Lowered DEF Invite, Inv, TypeOK
<1>2. SharesSound'
  BY DEF Invite, Inv, SharesSound
<1> QED
  BY <1>1, <1>2 DEF Invite, Inv

-----------------------------------------------------------------------------
(* A row is inserted, and its owner signed in. *)
LEMMA InsertInv ==
    ASSUME Inv, NEW q \in Reqs, reqs[q] # None, Ends(q), NEW i \in Ids,
           NEW p \in Passwords \cup {None}, Unique(reqs[q].email, reqs[q].google),
           Insert(i, reqs[q].email, p, reqs[q].google), issue(q, i),
           p = reqs[q].pw, (p = None) # (reqs[q].google = None),
           UNCHANGED <<shares, invited, started>>
    PROVE  Inv'
<1> DEFINE row == [email |-> reqs[q].email, pw |-> p, google |-> reqs[q].google]
<1>1. reqs[q] \in Underway /\ Founded(users, reqs[q])
  BY DEF Inv, TypeOK, RequestsSound
<1>2. /\ row \in Row /\ row.email = reqs[q].email /\ row.pw = p
      /\ row.google = reqs[q].google /\ row # None
  BY <1>1, NoneAssumption DEF Row, Underway
<1>3. users[i] = None /\ users' = [users EXCEPT ![i] = row]
  BY DEF Insert
<1> HIDE DEF row
<1>4. \A j \in Ids : users'[j] = IF j = i THEN row ELSE users[j]
  BY <1>3 DEF Inv, TypeOK
<1>5. users' \in [Ids -> Row \cup {None}]
  BY <1>2, <1>3 DEF Inv, TypeOK
<1>6. \A j \in Ids : users[j] # None => users'[j] = users[j]
  BY <1>3, <1>4
<1>7. Keeps(users, users')
  BY <1>6 DEF Keeps
<1>8. RequestsSound(users', reqs') /\ reqs' \in [Reqs -> Underway \cup {None}]
  <2>1. \A r \in Reqs : r # q /\ reqs[r] # None => Founded(users', reqs[r])
    BY <1>6, <1>7, FoundedStep DEF Inv, RequestsSound
  <2> QED
    BY <2>1, EndsSound DEF Inv
<1>9. /\ Rests(users', sessions', Shown(q, i))
      /\ reqs[q].google # None => Proves(users', Shown(q, i), i) /\ Shown(q, i) \in sessions'
  <2>1. users'[i] = row /\ sessions' = sessions \cup {Shown(q, i)}
    BY <1>4 DEF issue, Shown
  <2> QED
    BY <1>2, <2>1, ShownFields DEF Inv, Rests, Proves
<1>10. SessionsSound(users', sessions') /\ sessions' \subseteq Session
  BY <1>2, <1>4, <1>7, <1>9, IssueSound DEF Inv
<1>11. RowsSound(users', sessions')
  <2>1. RowsSound(users, sessions')
    BY RowsGrow DEF Inv, issue
  <2>2. reqs[q].email.upper = FALSE
    BY <1>1 DEF Founded
  <2>3. ASSUME NEW j \in Ids, users'[j] # None
        PROVE  /\ users'[j].email.upper = FALSE
               /\ users'[j].pw = None => users'[j].google # None
               /\ users'[j].google # None =>
                     \E t \in sessions' : Proves(users', t, j)
    <3>1. CASE j = i
      BY <1>2, <1>4, <1>9, <2>2, <3>1
    <3>2. CASE j # i
      BY <1>4, <2>1, <2>3, <3>2 DEF RowsSound, Proves
    <3> QED
      BY <3>1, <3>2
  <2> QED
    BY <2>3 DEF RowsSound
<1>12. OneEach(users')
  <2>1. \A j \in Ids : users[j] # None =>
           /\ users[j].email # reqs[q].email
           /\ reqs[q].google # None => users[j].google # reqs[q].google
    BY DEF Unique, ByEmail, ByGoogle, Accounts
  <2> QED
    BY <1>2, <1>4, <2>1 DEF Inv, OneEach
<1>13. TypeOK'
  BY <1>5, <1>8, <1>10 DEF Inv, TypeOK, Session
<1> QED
  BY <1>8, <1>10, <1>11, <1>12, <1>13 DEF Inv, SharesSound

LEMMA RegisterCreateStep ==
    ASSUME Inv, NEW q \in Reqs, RegisterCreate(q)
    PROVE  Inv'
<1>1. /\ reqs[q] # None /\ reqs[q].step = "register" /\ Ends(q)
      /\ UNCHANGED <<shares, invited, started>>
  BY DEF RegisterCreate, Active
<1>2. Founded(users, reqs[q]) /\ reqs[q] \in Underway
  BY <1>1 DEF Inv, RequestsSound, TypeOK
<1>3. reqs[q].pw # None /\ reqs[q].google = None /\ reqs[q].pw \in Passwords \cup {None}
  BY <1>1, <1>2 DEF Founded, Underway
<1>4. CASE Unique(reqs[q].email, None) /\ \E i \in Ids :
              Insert(i, reqs[q].email, reqs[q].pw, None) /\ issue(q, i)
  BY <1>1, <1>3, <1>4, InsertInv
<1>5. CASE UNCHANGED <<users, sessions>>
  BY <1>1, <1>5, EndsInv DEF Inv, TypeOK, Session
<1> QED
  BY <1>4, <1>5 DEF RegisterCreate

LEMMA GoogleCreateStep ==
    ASSUME Inv, NEW q \in Reqs, GoogleCreate(q)
    PROVE  Inv'
<1>1. /\ reqs[q] # None /\ reqs[q].step = "create" /\ Ends(q)
      /\ UNCHANGED <<shares, invited, started>>
  BY DEF GoogleCreate, Active
<1>2. Founded(users, reqs[q]) /\ reqs[q] \in Underway
  BY <1>1 DEF Inv, RequestsSound, TypeOK
<1>3. reqs[q].pw = None /\ reqs[q].google # None
  BY <1>1, <1>2 DEF Founded
<1>4. CASE Unique(reqs[q].email, reqs[q].google) /\ \E i \in Ids :
              Insert(i, reqs[q].email, None, reqs[q].google) /\ issue(q, i)
  BY <1>1, <1>3, <1>4, InsertInv
<1>5. CASE UNCHANGED <<users, sessions>>
  BY <1>1, <1>5, EndsInv DEF Inv, TypeOK, Session
<1> QED
  BY <1>4, <1>5 DEF GoogleCreate

(* The row a request read before it links: still there, and without a       *)
(* password it has the Google id already.                                   *)
LEMMA LinkGrounds ==
    ASSUME Inv, NEW q \in Reqs, GoogleLink(q)
    PROVE  LET i == reqs[q].found IN
           /\ reqs[q] # None /\ reqs[q] \in Underway /\ Ends(q)
           /\ UNCHANGED <<shares, invited, started>>
           /\ i \in Ids /\ users[i] # None /\ users[i] \in Row
           /\ users[i].email = reqs[q].email /\ reqs[q].verified = TRUE
           /\ reqs[q].google # None
           /\ users[i].pw = None => users[i].google = reqs[q].google
           /\ reqs[q].alone = TRUE => users[i].google \in {None, reqs[q].google}
<1>1. reqs[q] # None /\ reqs[q].step = "link" /\ Ends(q) /\ UNCHANGED <<shares, invited, started>>
  BY DEF GoogleLink, Active
<1>2. Founded(users, reqs[q]) /\ reqs[q] \in Underway
  BY <1>1 DEF Inv, RequestsSound, TypeOK
<1>3. users[reqs[q].found] \in Row
  BY <1>1, <1>2 DEF Founded, Inv, TypeOK
<1> QED
  BY <1>1, <1>2, <1>3 DEF Founded

LEMMA GoogleLinkStep ==
    ASSUME Inv, NEW q \in Reqs, GoogleLink(q)
    PROVE  Inv'
<1> DEFINE i == reqs[q].found
           g == reqs[q].google
           row == [users[i] EXCEPT !.google = g]
<1>1. /\ reqs[q] # None /\ reqs[q] \in Underway /\ Ends(q)
      /\ UNCHANGED <<shares, invited, started>>
      /\ i \in Ids /\ users[i] # None /\ users[i] \in Row
      /\ users[i].email = reqs[q].email /\ reqs[q].verified = TRUE /\ g # None
      /\ users[i].pw = None => users[i].google = g
  BY LinkGrounds
<1>2. CASE UNCHANGED <<users, sessions>>
  BY <1>1, <1>2, EndsInv DEF Inv, TypeOK, Session
<1>3. CASE /\ ByGoogle(g) \subseteq {i}
           /\ users' = [users EXCEPT ![i].google = g]
           /\ issue(q, i)
  <2>1. row \in Row /\ row.email = users[i].email /\ row.pw = users[i].pw /\ row.google = g
    BY <1>1 DEF Row, Underway
  <2>2. users' = [users EXCEPT ![i] = row] /\ row # None
    BY <1>3, <2>1, NoneAssumption
  <2> HIDE DEF row
  <2>3. \A j \in Ids : users'[j] = IF j = i THEN row ELSE users[j]
    BY <2>2 DEF Inv, TypeOK
  <2>4. users' \in [Ids -> Row \cup {None}]
    BY <2>1, <2>2 DEF Inv, TypeOK
  <2>5. Keeps(users, users')
    BY <1>1, <2>1, <2>2, <2>3 DEF Keeps
  <2>6. RequestsSound(users', reqs') /\ reqs' \in [Reqs -> Underway \cup {None}]
    <3>1. \A r \in Reqs : r # q /\ reqs[r] # None =>
              Founded(users, reqs[r]) /\ reqs[r].alone = FALSE
      BY <1>1 DEF Inv, RequestsSound
    <3>2. \A r \in Reqs : r # q /\ reqs[r] # None => Founded(users', reqs[r])
      BY <2>5, <3>1, FoundedStep
    <3> QED
      BY <1>1, <3>2, EndsSound DEF Inv
  <2>7. sessions' = sessions \cup {Shown(q, i)}
    BY <1>3 DEF issue, Shown
  <2>8. /\ Shown(q, i).id = i /\ Shown(q, i).google = g
        /\ Shown(q, i).email = users'[i].email /\ Shown(q, i).verified = TRUE
        /\ users'[i].google = g /\ users'[i].pw = users[i].pw
    BY <1>1, <2>1, <2>3, ShownFields DEF Inv
  <2>9. Rests(users', sessions', Shown(q, i))
    BY <1>1, <2>7, <2>8 DEF Rests
  <2>10. SessionsSound(users', sessions') /\ sessions' \subseteq Session
    BY <1>1, <1>3, <2>2, <2>3, <2>5, <2>9, IssueSound DEF Inv
  <2>11. RowsSound(users', sessions')
    <3>1. RowsSound(users, sessions')
      BY <2>7, RowsGrow DEF Inv
    <3>2. Proves(users', Shown(q, i), i) /\ Shown(q, i) \in sessions'
      BY <2>7, <2>8 DEF Proves
    <3>3. ASSUME NEW j \in Ids, users'[j] # None
          PROVE  /\ users'[j].email.upper = FALSE
                 /\ users'[j].pw = None => users'[j].google # None
                 /\ users'[j].google # None =>
                       \E t \in sessions' : Proves(users', t, j)
      <4>1. CASE j = i
        <5>1. users[i].email.upper = FALSE
          BY <1>1, <3>1 DEF RowsSound
        <5> QED
          BY <1>1, <2>1, <2>3, <3>2, <4>1, <5>1
      <4>2. CASE j # i
        BY <2>3, <3>1, <3>3, <4>2 DEF RowsSound, Proves
      <4> QED
        BY <4>1, <4>2
    <3> QED
      BY <3>3 DEF RowsSound
  <2>12. OneEach(users')
    <3>1. \A j \in Ids : users[j] # None /\ j # i => users[j].google # g
      BY <1>1, <1>3 DEF ByGoogle, Accounts
    <3>2. \A j \in Ids : users'[j] # None => users[j] # None /\ users'[j].email = users[j].email
      BY <1>1, <2>1, <2>3
    <3>3. ASSUME NEW j \in Ids, NEW k \in Ids, users'[j] # None, users'[k] # None, j # k
          PROVE  users'[j].google = None \/ users'[j].google # users'[k].google
      <4>1. users[j].google = None \/ users[j].google # users[k].google
        BY <3>2, <3>3 DEF Inv, OneEach
      <4> QED
        BY <2>1, <2>3, <3>1, <3>2, <3>3, <4>1
    <3>4. \A j, k \in Ids : users'[j] # None /\ users'[k] # None /\ j # k =>
              users'[j].email # users'[k].email
      BY <3>2 DEF Inv, OneEach
    <3> QED
      BY <3>3, <3>4 DEF OneEach
  <2>13. TypeOK'
    BY <1>1, <2>4, <2>6, <2>10 DEF Inv, TypeOK, Session
  <2> QED
    BY <1>1, <2>6, <2>10, <2>11, <2>12, <2>13 DEF Inv, SharesSound
<1> QED
  BY <1>2, <1>3 DEF GoogleLink

-----------------------------------------------------------------------------
LEMMA NextInv == Inv /\ [Next]_vars => Inv'
<1> SUFFICES ASSUME Inv, [Next]_vars PROVE Inv'
  OBVIOUS
<1>1. ASSUME NEW q \in Reqs, Step(q) PROVE Inv'
  BY <1>1, RegisterCreateStep, LoginVerifyStep, GoogleByIdStep, GoogleByEmailStep,
     GoogleLinkStep, GoogleCreateStep DEF Step
<1>2. ASSUME NEW q \in Reqs, NEW e \in Email, NEW p \in Passwords,
             register(q, e, p) \/ login(q, e, p)
      PROVE  Inv'
  BY <1>2, RegisterStep, LoginStep
<1>3. ASSUME NEW q \in Reqs, NEW g \in Googles, NEW e \in Email, NEW v \in BOOLEAN,
             upsertGoogleUser(q, g, e, v)
      PROVE  Inv'
  BY <1>3, GoogleStep
<1>4. ASSUME NEW e \in Email, Invite(e) PROVE Inv'
  BY <1>4, InviteStep
<1>5. CASE UNCHANGED vars
  <2>1. TypeOK'
    BY <1>5 DEF vars, Inv, TypeOK
  <2> QED
    BY <1>5, <2>1 DEF vars, Inv, SharesSound
<1> QED
  BY <1>1, <1>2, <1>3, <1>4, <1>5 DEF Next

(* Whatever requests overlap, and however they are cut at their awaits. *)
THEOREM Invariance == Spec => []Inv
  BY InitInv, NextInv, PTL DEF Spec

(* The User table, the requests and the sessions keep their types. *)
THEOREM TypeCorrect == Spec => []TypeOK
<1>1. Inv => TypeOK
  BY DEF Inv
<1> QED
  BY <1>1, Invariance, PTL

(* The unique index on addresses stored in lower case: no two accounts of   *)
(* one address, however it was typed, whichever requests raced.             *)
THEOREM AddressesUnique == Spec => []OneAccountPerAddress
<1>1. Inv => OneAccountPerAddress
  <2> SUFFICES ASSUME Inv, NEW i \in Accounts, NEW j \in Accounts, i # j
               PROVE  /\ users[i].email.name # users[j].email.name
                      /\ users[i].google = None \/ users[i].google # users[j].google
    BY DEF OneAccountPerAddress
  <2>1. i \in Ids /\ j \in Ids /\ users[i] # None /\ users[j] # None
    BY DEF Accounts
  <2>2. /\ users[i].email # users[j].email
        /\ users[i].google = None \/ users[i].google # users[j].google
    BY <2>1 DEF Inv, OneEach
  <2>3. /\ users[i].email \in Email /\ users[j].email \in Email
        /\ users[i].email.upper = FALSE /\ users[j].email.upper = FALSE
    BY <2>1 DEF Inv, TypeOK, RowsSound, Row
  <2>4. users[i].email.name # users[j].email.name
    BY <2>2, <2>3 DEF Email
  <2> QED
    BY <2>2, <2>4
<1> QED
  BY <1>1, Invariance, PTL

(* A session of a registered account rests on its password or on a Google   *)
(* id that came with its verified address; one of an account Google made,   *)
(* on the id that made it, whose address Google may not have verified.      *)
THEOREM SessionsAreProven == Spec => []SessionsProven
<1>1. Inv => SessionsProven
  <2> SUFFICES ASSUME Inv, NEW s \in sessions PROVE s.id \in Accounts /\ Grounds(s)
    BY DEF SessionsProven
  <2>1. s.id \in Ids /\ users[s.id] # None /\ Rests(users, sessions, s)
    BY DEF Inv, SessionsSound
  <2>2. Grounds(s)
    BY <2>1 DEF Rests, Grounds
  <2> QED
    BY <2>1, <2>2 DEF Accounts
<1> QED
  BY <1>1, Invariance, PTL

(* An address that was invited opens for the account that has it. *)
THEOREM InvitationsReach == Spec => []InvitesReach
<1>1. Inv => InvitesReach
  <2> SUFFICES ASSUME Inv, NEW i \in Accounts
               PROVE  (\E s \in shares : Reaches(s, i)) <=>
                      (\E e \in invited : e.name = users[i].email.name)
    BY DEF InvitesReach
  <2>1. users[i].email \in Email
    BY DEF Accounts, Inv, TypeOK, Row
  <2>2. \A e \in Email : (toLowerCase(e) = toLowerCase(users[i].email)) <=>
                         (e.name = users[i].email.name)
    BY <2>1 DEF toLowerCase, Email
  <2>3. invited \subseteq Email
    BY DEF Inv, TypeOK
  <2> QED
    BY <2>2, <2>3 DEF Inv, SharesSound, Reaches
<1> QED
  BY <1>1, Invariance, PTL

(* No request that runs alone replaces a Google id: its look-up read the    *)
(* row it links as the row is now.                                          *)
THEOREM LinksAreKept == Spec => LinksStay
<1> DEFINE P == (\A q \in Active : reqs[q].alone) =>
                \A i \in Accounts : users[i].google # None => users'[i].google = users[i].google
<1>1. Inv /\ [Next]_vars => [P]_vars
  <2> SUFFICES ASSUME Inv, Next, \A q \in Active : reqs[q].alone,
                      NEW i \in Accounts, users[i].google # None
               PROVE  users'[i].google = users[i].google
    OBVIOUS
  <2>1. i \in Ids /\ users[i] # None
    BY DEF Accounts
  <2>2. ASSUME users' = users PROVE users'[i].google = users[i].google
    BY <2>2
  <2>3. ASSUME NEW j \in Ids, NEW e, NEW p, NEW g, Insert(j, e, p, g)
        PROVE  users'[i].google = users[i].google
    <3>1. users[j] = None /\ users' = [users EXCEPT ![j] = [email |-> e, pw |-> p, google |-> g]]
      BY <2>3 DEF Insert
    <3> QED
      BY <2>1, <3>1 DEF Inv, TypeOK
  <2>4. ASSUME NEW q \in Reqs, GoogleLink(q), users' # users
        PROVE  users'[i].google = users[i].google
    <3>1. users' = [users EXCEPT ![reqs[q].found].google = reqs[q].google]
      BY <2>4 DEF GoogleLink
    <3>2. q \in Active
      BY <2>4 DEF GoogleLink
    <3>3. reqs[q].alone = TRUE
      BY <2>4, <3>2, LinkGrounds DEF Underway
    <3>4. users[reqs[q].found].google \in {None, reqs[q].google} /\ reqs[q].found \in Ids
          /\ users[reqs[q].found] \in Row
      BY <2>4, <3>3, LinkGrounds
    <3> QED
      BY <2>1, <3>1, <3>4 DEF Inv, TypeOK, Row
  <2>5. ASSUME NEW q \in Reqs, Step(q) PROVE users'[i].google = users[i].google
    <3>1. CASE GoogleLink(q)
      BY <2>2, <2>4, <3>1
    <3>2. CASE RegisterCreate(q)
      BY <2>2, <2>3, <3>2 DEF RegisterCreate
    <3>3. CASE GoogleCreate(q)
      BY <2>2, <2>3, <3>3 DEF GoogleCreate
    <3>4. CASE LoginVerify(q) \/ GoogleById(q) \/ GoogleByEmail(q)
      BY <2>2, <3>4 DEF LoginVerify, GoogleById, GoogleByEmail
    <3> QED
      BY <2>5, <3>1, <3>2, <3>3, <3>4 DEF Step
  <2>6. ASSUME NEW q \in Reqs, NEW e \in Email, NEW p \in Passwords,
               register(q, e, p) \/ login(q, e, p)
        PROVE  users'[i].google = users[i].google
    BY <2>2, <2>6 DEF register, login
  <2>7. ASSUME NEW q \in Reqs, NEW g \in Googles, NEW e \in Email, NEW v \in BOOLEAN,
               upsertGoogleUser(q, g, e, v)
        PROVE  users'[i].google = users[i].google
    BY <2>2, <2>7 DEF upsertGoogleUser
  <2>8. ASSUME NEW e \in Email, Invite(e) PROVE users'[i].google = users[i].google
    BY <2>2, <2>8 DEF Invite
  <2> QED
    BY <2>5, <2>6, <2>7, <2>8 DEF Next
<1>2. LinksStay <=> [][P]_vars
  BY DEF LinksStay
<1> HIDE DEF P
<1> QED
  BY <1>1, <1>2, Invariance, PTL DEF Spec
=============================================================================
