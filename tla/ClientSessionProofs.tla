------------------------ MODULE ClientSessionProofs ------------------------
(* For any number of accounts and of calls in flight: the client is a guest *)
(* exactly on the share route, no answer fetched as the guest outlives the  *)
(* route, and who is shown as signed in has a bearer.                       *)
(*                                                                          *)
(* Each rests on what a call still out can be (Fits): one fetched as the    *)
(* guest was dropped when the route was left, a sign-in goes back to the    *)
(* share route only in a tab that has been there, and the callback page is  *)
(* only ever shown with its own call and the startup refresh out.           *)
EXTENDS ClientSession, TLAPS

(* What a call in slot s may be while the location is p; v says whether the *)
(* tab's history holds the share route.                                     *)
Fits(s, c, p, v) ==
    /\ c \in InFlight
    /\ c.kind \in {"login", "register", "me"} => c.who # None
    /\ c.kind \in {"login", "register"} => c.to # None
    /\ s = "startup" => c.step \in {"none", "sent"}
    /\ c.to = "share" => v = TRUE
    /\ s = "me" /\ c.kind # "idle" => v = FALSE
    /\ c.key = "nodes" /\ c.as = Link /\ p # "share" => c.kept = FALSE
    /\ p = "callback" /\ s \notin {"startup", "me"} => c.step = "none"

CallsFit(cs, p, v) == \A s \in Slots : Fits(s, cs[s], p, v)

History == (path = "share" \/ returnTo = "share") => visited = TRUE

Inv == TypeOK /\ CallsFit(calls, path, visited) /\ History
       /\ TokenIsTheRoute /\ GuestAnswersEvicted /\ SignedInHasBearer

-----------------------------------------------------------------------------
LEMMA SlotsApart ==
    /\ \A q \in Queries : q # "startup" /\ q # "sign" /\ q # "me" /\ q \in Slots
    /\ "startup" \in Slots /\ "sign" \in Slots /\ "me" \in Slots
  BY SlotAssumption DEF Slots

LEMMA IdleFits ==
    ASSUME NEW s, NEW p, NEW v
    PROVE  Fits(s, Idle, p, v)
<1>1. /\ Idle \in InFlight /\ Idle.kind = "idle" /\ Idle.key = None /\ Idle.step = "none"
      /\ Idle.to = None
  BY DEF Idle, InFlight
<1> HIDE DEF Idle
<1> QED
  BY <1>1, NoneAssumption DEF Fits

LEMMA CallFields ==
    ASSUME NEW kind \in {"query", "login", "register", "logout", "me"},
           NEW as \in Users \cup {Link, None}
    PROVE  /\ Call(kind, as) \in InFlight /\ Call(kind, as).kind = kind
           /\ Call(kind, as).key = None /\ Call(kind, as).step = "sent" /\ Call(kind, as).as = as
           /\ Call(kind, as).to = None /\ Call(kind, as).who = None /\ Call(kind, as).kept = TRUE
  BY DEF Call, Idle, InFlight

LEMMA StartupFields ==
    ASSUME NEW c \in Users \cup {None}
    PROVE  /\ Startup(c) \in InFlight /\ Startup(c).kind = "startup"
           /\ Startup(c).key = None /\ Startup(c).step = "sent" /\ Startup(c).to = None
  BY DEF Startup, Idle, InFlight

LEMMA StartupFits ==
    ASSUME NEW c \in Users \cup {None}, NEW p, NEW v
    PROVE  Fits("startup", Startup(c), p, v)
  BY StartupFields, NoneAssumption DEF Fits

(* One call changes. *)
LEMMA OneCall ==
    ASSUME NEW cs, NEW p, NEW v, CallsFit(cs, p, v), cs \in [Slots -> InFlight],
           NEW s \in Slots, NEW c, Fits(s, c, p, v),
           NEW ds, ds = [cs EXCEPT ![s] = c]
    PROVE  CallsFit(ds, p, v) /\ ds \in [Slots -> InFlight]
<1>1. c \in InFlight
  BY DEF Fits
<1>2. \A r \in Slots : ds[r] = IF r = s THEN c ELSE cs[r]
  OBVIOUS
<1>3. CallsFit(ds, p, v)
  BY <1>2 DEF CallsFit
<1> QED
  BY <1>1, <1>3

LEMMA IdentityTyped ==
    ASSUME TypeOK, TokenIsTheRoute
    PROVE  Identity \in Users \cup {Link, None} /\ (path # "share" => Identity # Link)
<1>1. CASE shareToken = None
  BY <1>1, IdentityAssumption DEF Identity, TypeOK, TokenIsTheRoute
<1>2. CASE shareToken # None
  BY <1>2, IdentityAssumption DEF Identity, TypeOK, TokenIsTheRoute
<1> QED
  BY <1>1, <1>2

LEMMA InitInv == Init => Inv
<1> SUFFICES ASSUME Init PROVE Inv
  OBVIOUS
<1>1. \A s \in Slots : calls[s] = IF s = "startup" THEN Startup(cookie) ELSE Idle
  BY DEF Init
<1>2. CallsFit(calls, path, visited)
  BY <1>1, IdleFits, StartupFits DEF CallsFit, Init
<1>3. calls \in [Slots -> InFlight]
  <2>1. \A s \in Slots : calls[s] \in InFlight
    BY <1>2 DEF CallsFit, Fits
  <2> QED
    BY <2>1 DEF Init
<1>4. TypeOK
  BY <1>3 DEF Init, TypeOK, Paths, Keys
<1>5. History /\ TokenIsTheRoute /\ GuestAnswersEvicted /\ SignedInHasBearer
  BY IdentityAssumption, NoneAssumption
     DEF Init, History, TokenIsTheRoute, GuestAnswersEvicted, SignedInHasBearer, Keys
<1> QED
  BY <1>2, <1>4, <1>5 DEF Inv

-----------------------------------------------------------------------------
(* A navigation drops what the guest has out and what the guest was given. *)
LEMMA EvictedFits ==
    ASSUME NEW cs \in [Slots -> InFlight], NEW p, NEW to, NEW v, CallsFit(cs, p, v),
           to # "callback"
    PROVE  CallsFit(Evicted(cs), to, v) /\ Evicted(cs) \in [Slots -> InFlight]
<1>1. ASSUME NEW s \in Slots
      PROVE  Fits(s, Evicted(cs)[s], to, v)
  <2>1. cs[s] \in InFlight /\ Fits(s, cs[s], p, v)
    BY DEF CallsFit
  <2>2. CASE cs[s].key = "nodes"
    <3> DEFINE c == [cs[s] EXCEPT !.kept = FALSE]
    <3>1. Evicted(cs)[s] = c
      BY <2>2 DEF Evicted
    <3>2. /\ c \in InFlight /\ c.kind = cs[s].kind /\ c.who = cs[s].who /\ c.to = cs[s].to
          /\ c.step = cs[s].step /\ c.kept = FALSE
      BY <2>1 DEF InFlight
    <3> HIDE DEF c
    <3>3. Fits(s, c, to, v)
      BY <2>1, <3>2 DEF Fits
    <3> QED
      BY <3>1, <3>3
  <2>3. CASE cs[s].key # "nodes"
    <3>1. Evicted(cs)[s] = cs[s]
      BY <2>3 DEF Evicted
    <3>2. Fits(s, cs[s], to, v)
      BY <2>1, <2>3 DEF Fits
    <3> QED
      BY <3>1, <3>2
  <2> QED
    BY <2>2, <2>3
<1>2. \A s \in Slots : Evicted(cs)[s] \in InFlight
  BY <1>1 DEF Fits
<1>3. Evicted(cs) = [s \in Slots |-> Evicted(cs)[s]]
  BY DEF Evicted
<1>4. Evicted(cs) \in [Slots -> InFlight]
  BY <1>2, <1>3
<1> QED
  BY <1>1, <1>4 DEF CallsFit

LEMMA GoesSound ==
    ASSUME TypeOK, TokenIsTheRoute, GuestAnswersEvicted,
           NEW cs \in [Slots -> InFlight], CallsFit(cs, path, visited),
           NEW to \in {"app", "login", "share"},
           NEW as \in Users \cup {Link, None}, path # "share" => as # Link,
           Goes(to, cs, as), visited' = visited
    PROVE  /\ path' = to /\ CallsFit(calls', to, visited) /\ calls' \in [Slots -> InFlight]
           /\ TokenIsTheRoute' /\ GuestAnswersEvicted'
           /\ shareToken' \in {Link, None} /\ cache' \in [Keys -> Users \cup {Link, None}]
<1>1. path' = to
  BY DEF Goes
<1>2. cache \in [Keys -> Users \cup {Link, None}] /\ "nodes" \in Keys
  BY DEF TypeOK, Keys
<1>3. CASE path = "share" /\ to # "share"
  <2>1. shareToken' = None /\ cache' = [cache EXCEPT !["nodes"] = None] /\ calls' = Evicted(cs)
    BY <1>3 DEF Goes
  <2>2. CallsFit(calls', to, visited) /\ calls' \in [Slots -> InFlight]
    BY <2>1, EvictedFits
  <2>3. cache' \in [Keys -> Users \cup {Link, None}] /\ cache'["nodes"] = None
    BY <1>2, <2>1
  <2> QED
    BY <1>1, <1>3, <2>1, <2>2, <2>3, IdentityAssumption DEF TokenIsTheRoute, GuestAnswersEvicted
<1>4. CASE path # "share" /\ to = "share"
  <2>1. shareToken' = Link /\ cache' = cache
    BY <1>4 DEF Goes
  <2>2. \A s \in Slots : Fits(s, cs[s], to, visited)
    BY <1>4 DEF CallsFit, Fits
  <2>3. CallsFit(calls', to, visited) /\ calls' \in [Slots -> InFlight]
    <3>1. CASE calls' = cs
      BY <2>2, <3>1 DEF CallsFit
    <3>2. CASE \E q \in Queries :
                  calls' = [cs EXCEPT ![q] = [Call("query", as) EXCEPT !.key = "nodes"]]
      <4>1. PICK q \in Queries :
                    calls' = [cs EXCEPT ![q] = [Call("query", as) EXCEPT !.key = "nodes"]]
        BY <3>2
      <4> DEFINE c == [Call("query", as) EXCEPT !.key = "nodes"]
      <4>2. c \in InFlight /\ c.kind = "query" /\ c.to = None
        BY DEF Call, Idle, InFlight, Keys
      <4> HIDE DEF c
      <4>3. Fits(q, c, to, visited)
        BY <1>4, <4>2, SlotsApart, NoneAssumption DEF Fits
      <4>4. CallsFit(cs, to, visited)
        BY <2>2 DEF CallsFit
      <4>5. calls' = [cs EXCEPT ![q] = c] /\ q \in Slots
        BY <4>1, SlotsApart DEF c
      <4> QED
        BY <4>3, <4>4, <4>5, OneCall
    <3> QED
      BY <1>4, <3>1, <3>2 DEF Goes
  <2> QED
    BY <1>1, <1>2, <1>4, <2>1, <2>3 DEF TokenIsTheRoute, GuestAnswersEvicted
<1>5. CASE (path = "share") <=> (to = "share")
  <2>1. calls' = cs /\ shareToken' = shareToken /\ cache' = cache
    BY <1>5 DEF Goes
  <2>2. CallsFit(cs, to, visited)
    BY <1>5 DEF CallsFit, Fits
  <2> QED
    BY <1>1, <1>2, <1>5, <2>1, <2>2 DEF TypeOK, TokenIsTheRoute, GuestAnswersEvicted
<1> QED
  BY <1>3, <1>4, <1>5

(* One call changes and perhaps the session, nothing else. *)
LEMMA CallInv ==
    ASSUME Inv, NEW s \in Slots, NEW c, Fits(s, c, path, visited),
           calls' = [calls EXCEPT ![s] = c], UNCHANGED <<shareToken, place, cache>>,
           accessToken' \in Users \cup {None}, cookie' \in Users \cup {None},
           user' \in Users \cup {Blank, None},
           status' \in {"loading", "authenticated", "anonymous"}, SignedInHasBearer'
    PROVE  Inv'
<1>1. CallsFit(calls', path, visited) /\ calls' \in [Slots -> InFlight]
  BY OneCall DEF Inv, TypeOK
<1>2. path' = path /\ returnTo' = returnTo /\ visited' = visited
  BY DEF place
<1>3. TypeOK'
  BY <1>1, <1>2 DEF Inv, TypeOK
<1>4. CallsFit(calls', path', visited')
  BY <1>1, <1>2
<1>5. History' /\ TokenIsTheRoute' /\ GuestAnswersEvicted'
  BY <1>2 DEF Inv, History, TokenIsTheRoute, GuestAnswersEvicted
<1> QED
  BY <1>3, <1>4, <1>5 DEF Inv

(* The same, the session too as it was. *)
LEMMA OnlyCallInv ==
    ASSUME Inv, NEW s \in Slots, NEW c, Fits(s, c, path, visited),
           calls' = [calls EXCEPT ![s] = c], UNCHANGED <<client, session, cookie, place, cache>>
    PROVE  Inv'
<1>1. /\ accessToken' = accessToken /\ shareToken' = shareToken /\ cookie' = cookie
      /\ user' = user /\ status' = status
  BY DEF client, session
<1>2. SignedInHasBearer'
  BY <1>1 DEF Inv, SignedInHasBearer
<1> QED
  BY <1>1, <1>2, CallInv DEF Inv, TypeOK

-----------------------------------------------------------------------------
LEMMA AskStep ==
    ASSUME Inv, NEW q \in Queries, NEW key \in Keys, Ask(q, key)
    PROVE  Inv'
<1>1. Identity \in Users \cup {Link, None} /\ (path # "share" => Identity # Link)
  BY IdentityTyped DEF Inv
<1> DEFINE id == Identity
           c == [Call("query", id) EXCEPT !.key = key]
<1> HIDE DEF id
<1>2. c \in InFlight /\ c.kind = "query" /\ c.key = key /\ c.as = id /\ c.to = None
  BY <1>1 DEF Call, Idle, InFlight, id
<1>3. /\ calls' = [calls EXCEPT ![q] = c]
      /\ UNCHANGED <<client, session, cookie, place, cache>>
  BY DEF Ask, id
<1>4. path # "callback"
  <2>1. path = "callback" => Reads = {}
    BY DEF Reads
  <2> QED
    BY <2>1 DEF Ask
<1> HIDE DEF c
<1>5. Fits(q, c, path, visited)
  BY <1>1, <1>2, <1>4, SlotsApart, NoneAssumption DEF Fits, id
<1> QED
  BY <1>3, <1>5, SlotsApart, OnlyCallInv

(* A 401 that is refreshed. *)
LEMMA RefreshInv ==
    ASSUME Inv, NEW s \in Slots, s # "startup", calls[s].step # "none", Refresh(s)
    PROVE  Inv'
<1> DEFINE c == [calls[s] EXCEPT !.step = "refreshing", !.sent = cookie]
<1>1. calls[s] \in InFlight /\ Fits(s, calls[s], path, visited) /\ cookie \in Users \cup {None}
  BY DEF Inv, TypeOK, CallsFit
<1>2. /\ c \in InFlight /\ c.kind = calls[s].kind /\ c.key = calls[s].key /\ c.as = calls[s].as
      /\ c.who = calls[s].who /\ c.kept = calls[s].kept /\ c.to = calls[s].to
      /\ c.step = "refreshing"
  BY <1>1 DEF InFlight
<1>3. /\ calls' = [calls EXCEPT ![s] = c]
      /\ UNCHANGED <<client, session, cookie, place, cache>>
  BY DEF Refresh
<1> HIDE DEF c
<1>4. Fits(s, c, path, visited)
  BY <1>1, <1>2 DEF Fits
<1> QED
  BY <1>3, <1>4, OnlyCallInv

(* An answer that may reach the cache: fetched as the guest, only on the    *)
(* share route, for when the route was left the query left the cache.       *)
LEMMA DeliverInv ==
    ASSUME Inv, NEW s \in Slots, NEW ok \in BOOLEAN, Deliver(s, ok)
    PROVE  Inv'
<1> DEFINE c == calls[s]
<1>1. c \in InFlight /\ Fits(s, c, path, visited)
  BY DEF Inv, TypeOK, CallsFit
<1>2. /\ calls' = [calls EXCEPT ![s] = Idle]
      /\ UNCHANGED <<client, session, cookie, place>>
  BY DEF Deliver
<1>3. CASE ok = TRUE /\ c.kept = TRUE
  <2>1. cache' = [cache EXCEPT ![c.key] = c.as]
    BY <1>3 DEF Deliver
  <2>2. cache' \in [Keys -> Users \cup {Link, None}]
    BY <1>1, <2>1 DEF Inv, TypeOK, InFlight
  <2>3. c.as = Link /\ c.key = "nodes" => path = "share"
    BY <1>1, <1>3 DEF Fits
  <2>4. cache'["nodes"] = Link => cache["nodes"] = Link \/ (c.as = Link /\ c.key = "nodes")
    BY <2>1 DEF Inv, TypeOK, Keys
  <2>5. GuestAnswersEvicted'
    BY <1>2, <2>3, <2>4 DEF Inv, GuestAnswersEvicted, place
  <2>6. CallsFit(calls', path, visited) /\ calls' \in [Slots -> InFlight]
    BY <1>2, IdleFits, OneCall DEF Inv, TypeOK
  <2>7. /\ accessToken' = accessToken /\ shareToken' = shareToken /\ cookie' = cookie
        /\ user' = user /\ status' = status
        /\ path' = path /\ returnTo' = returnTo /\ visited' = visited
    BY <1>2 DEF client, session, place
  <2>8. TypeOK'
    BY <2>2, <2>6, <2>7 DEF Inv, TypeOK
  <2>9. CallsFit(calls', path', visited')
    BY <2>6, <2>7
  <2> QED
    BY <2>5, <2>7, <2>8, <2>9 DEF Inv, History, TokenIsTheRoute, SignedInHasBearer
<1>4. CASE ok = FALSE \/ c.kept = FALSE
  <2>1. cache' = cache
    BY <1>4 DEF Deliver
  <2> QED
    BY <1>2, <2>1, IdleFits, OnlyCallInv
<1> QED
  BY <1>1, <1>3, <1>4 DEF InFlight

LEMMA QueryAnswerStep ==
    ASSUME Inv, NEW q \in Queries, QueryAnswer(q)
    PROVE  Inv'
<1>1. q \in Slots /\ q # "startup" /\ calls[q].step # "none"
  BY SlotsApart DEF QueryAnswer
<1>2. Deliver(q, TRUE) \/ Deliver(q, FALSE) \/ Refresh(q)
  BY DEF QueryAnswer
<1>3. Deliver(q, TRUE) => Inv'
  BY <1>1, DeliverInv
<1>4. Deliver(q, FALSE) => Inv'
  BY <1>1, DeliverInv
<1> QED
  BY <1>1, <1>2, <1>3, <1>4, RefreshInv

LEMMA RefreshedStep ==
    ASSUME Inv, NEW s \in Slots, Refreshed(s)
    PROVE  Inv'
<1> DEFINE as == IF shareToken # None THEN shareToken ELSE calls[s].sent
           c == [calls[s] EXCEPT !.step = "resent", !.sent = None, !.as = as]
<1>1. /\ calls[s] \in InFlight /\ Fits(s, calls[s], path, visited)
      /\ calls[s].step = "refreshing" /\ calls[s].sent # None
  BY DEF Inv, TypeOK, CallsFit, Refreshed
<1>2. calls[s].sent \in Users
  BY <1>1 DEF InFlight
<1>3. as \in Users \cup {Link, None} /\ (path # "share" => as # Link)
  <2>1. CASE shareToken = None
    BY <1>2, <2>1, IdentityAssumption
  <2>2. CASE shareToken # None
    BY <2>2 DEF Inv, TypeOK, TokenIsTheRoute
  <2> QED
    BY <2>1, <2>2
<1>4. calls' = [calls EXCEPT ![s] = c]
  BY DEF Refreshed
<1> HIDE DEF as
<1>5. /\ c \in InFlight /\ c.kind = calls[s].kind /\ c.key = calls[s].key /\ c.as = as
      /\ c.who = calls[s].who /\ c.kept = calls[s].kept /\ c.to = calls[s].to
      /\ c.step = "resent"
  BY <1>1, <1>3 DEF InFlight
<1> HIDE DEF c
<1>6. Fits(s, c, path, visited)
  BY <1>1, <1>3, <1>5 DEF Fits
<1>7. /\ UNCHANGED <<shareToken, session, place, cache>>
      /\ accessToken' = calls[s].sent /\ cookie' = calls[s].sent
  BY DEF Refreshed
<1>8. user' = user /\ status' = status
  BY <1>7 DEF session
<1>9. SignedInHasBearer'
  BY <1>1, <1>7 DEF SignedInHasBearer
<1> QED
  BY <1>2, <1>4, <1>6, <1>7, <1>8, <1>9, CallInv DEF Inv, TypeOK

LEMMA RefreshLostStep ==
    ASSUME Inv, NEW s \in Slots, RefreshLost(s)
    PROVE  Inv'
  BY IdleFits, OnlyCallInv DEF RefreshLost

LEMMA StartupAnswerStep ==
    ASSUME Inv, StartupAnswer
    PROVE  Inv'
<1>1. /\ calls' = [calls EXCEPT !["startup"] = Idle] /\ "startup" \in Slots
      /\ UNCHANGED <<shareToken, place, cache>>
  BY SlotsApart DEF StartupAnswer
<1>2. calls["startup"].sent \in Users \cup {None}
  BY SlotsApart DEF Inv, TypeOK, InFlight
<1>3. /\ accessToken' \in Users \cup {None} /\ cookie' \in Users \cup {None}
      /\ user' \in Users \cup {Blank, None}
      /\ status' \in {"loading", "authenticated", "anonymous"} /\ SignedInHasBearer'
  BY <1>2 DEF StartupAnswer, adoptSession, Inv, TypeOK, SignedInHasBearer
<1> QED
  BY <1>1, <1>3, IdleFits, CallInv

-----------------------------------------------------------------------------
(* A step that navigates and leaves the session consistent. *)
LEMMA GoesInv ==
    ASSUME Inv, NEW cs \in [Slots -> InFlight], CallsFit(cs, path, visited),
           NEW to \in {"app", "login", "share"}, to = "share" => visited = TRUE,
           NEW as \in Users \cup {Link, None}, path # "share" => as # Link,
           Goes(to, cs, as), visited' = visited,
           returnTo' \in {"app", "login", "share", None},
           returnTo' = "share" => visited = TRUE,
           accessToken' \in Users \cup {None}, cookie' \in Users \cup {None},
           user' \in Users \cup {Blank, None},
           status' \in {"loading", "authenticated", "anonymous"}, SignedInHasBearer'
    PROVE  Inv'
<1>1. /\ path' = to /\ CallsFit(calls', to, visited) /\ calls' \in [Slots -> InFlight]
      /\ TokenIsTheRoute' /\ GuestAnswersEvicted'
      /\ shareToken' \in {Link, None} /\ cache' \in [Keys -> Users \cup {Link, None}]
  BY GoesSound DEF Inv
<1>2. CallsFit(calls', path', visited')
  BY <1>1
<1>3. TypeOK'
  BY <1>1 DEF Inv, TypeOK, Paths
<1>4. History'
  BY <1>1 DEF History
<1> QED
  BY <1>1, <1>2, <1>3, <1>4 DEF Inv

LEMMA VisitStep ==
    ASSUME Inv, NEW to \in Paths, Visit(to)
    PROVE  Inv'
<1>1. /\ to \in {"app", "login", "share"} /\ (to = "share" => visited = TRUE)
      /\ Goes(to, calls, Identity) /\ returnTo' = None
      /\ UNCHANGED <<accessToken, session, cookie, visited>>
  BY DEF Visit, Paths, Inv, TypeOK
<1>2. Identity \in Users \cup {Link, None} /\ (path # "share" => Identity # Link)
  BY IdentityTyped DEF Inv
<1>3. SignedInHasBearer' /\ user' = user /\ status' = status
  BY <1>1 DEF session, Inv, SignedInHasBearer
<1>4. calls \in [Slots -> InFlight] /\ CallsFit(calls, path, visited)
  BY DEF Inv, TypeOK
<1>5. returnTo' # "share"
  BY <1>1, NoneAssumption
<1> DEFINE id == Identity
<1> HIDE DEF id
<1>6. Goes(to, calls, id) /\ id \in Users \cup {Link, None} /\ (path # "share" => id # Link)
  BY <1>1, <1>2 DEF id
<1> QED
  BY <1>1, <1>3, <1>4, <1>5, <1>6, GoesInv DEF Inv, TypeOK

(* The handler of a refused refresh: whatever the location is now becomes   *)
(* returnTo, and it is never the callback page, where no call but its own   *)
(* can be refreshing.                                                       *)
LEMMA RefreshRefusedStep ==
    ASSUME Inv, NEW s \in Slots, RefreshRefused(s)
    PROVE  Inv'
<1> DEFINE cs == [calls EXCEPT ![s] = Idle]
<1>1. /\ calls[s].step = "refreshing" /\ s # "me" /\ accessToken' = None /\ cookie' = cookie
      /\ user' = None /\ status' = "anonymous" /\ Goes("login", cs, None)
      /\ returnTo' = path /\ visited' = visited
  BY DEF RefreshRefused, unauthenticatedHandler
<1>2. CallsFit(cs, path, visited) /\ cs \in [Slots -> InFlight]
  BY IdleFits, OneCall DEF Inv, TypeOK
<1>3. Fits(s, calls[s], path, visited)
  BY DEF Inv, CallsFit
<1>4. path # "callback"
  BY <1>1, <1>3 DEF Fits
<1>5. path \in {"app", "login", "share"} /\ (path = "share" => visited = TRUE)
  BY <1>4 DEF Inv, TypeOK, Paths, History
<1>6. SignedInHasBearer'
  BY <1>1 DEF SignedInHasBearer
<1>7. None # Link
  BY IdentityAssumption
<1> HIDE DEF cs
<1> QED
  BY <1>1, <1>2, <1>5, <1>6, <1>7, GoesInv DEF Inv, TypeOK

LEMMA SubmitStep ==
    ASSUME Inv, NEW kind \in {"login", "register"}, NEW u \in Users, Submit(kind, u)
    PROVE  Inv'
<1>1. Identity \in Users \cup {Link, None}
  BY IdentityTyped DEF Inv
<1> DEFINE id == Identity
           to == IF kind = "login" /\ returnTo # None THEN returnTo ELSE "app"
           c == [Call(kind, id) EXCEPT !.who = u, !.to = to]
<1>2. to \in {"app", "login", "share"} /\ (to = "share" => visited = TRUE)
  BY DEF Inv, TypeOK, History
<1>3. path = "login" /\ calls' = [calls EXCEPT !["sign"] = c]
      /\ UNCHANGED <<client, session, cookie, place, cache>>
  BY DEF Submit
<1> HIDE DEF id, to
<1>4. /\ c \in InFlight /\ c.kind = kind /\ c.who = u /\ c.to = to /\ c.key = None
  BY <1>1, <1>2 DEF Call, Idle, InFlight, id
<1> HIDE DEF c
<1>5. Fits("sign", c, path, visited)
  BY <1>2, <1>3, <1>4, IdentityAssumption, NoneAssumption DEF Fits
<1> QED
  BY <1>3, <1>5, SlotsApart, OnlyCallInv

LEMMA SignedInStep ==
    ASSUME Inv, SignedIn
    PROVE  Inv'
<1> DEFINE c == calls["sign"]
           cs == [calls EXCEPT !["sign"] = Idle]
<1>1. c \in InFlight /\ Fits("sign", c, path, visited)
  BY SlotsApart DEF Inv, TypeOK, CallsFit
<1>2. c.who \in Users /\ c.to \in {"app", "login", "share"} /\ (c.to = "share" => visited = TRUE)
  BY <1>1 DEF SignedIn, Fits, InFlight
<1>3. /\ cookie' = c.who /\ accessToken' = c.who /\ user' = c.who /\ status' = "authenticated"
      /\ Goes(c.to, cs, c.who) /\ returnTo' = None /\ visited' = visited
  BY DEF SignedIn, adoptSession
<1>4. CallsFit(cs, path, visited) /\ cs \in [Slots -> InFlight]
  BY IdleFits, OneCall, SlotsApart DEF Inv, TypeOK
<1>5. SignedInHasBearer' /\ returnTo' # "share" /\ c.who # Link
  BY <1>2, <1>3, IdentityAssumption, NoneAssumption DEF SignedInHasBearer
<1> HIDE DEF cs, c
<1> QED
  BY <1>2, <1>3, <1>4, <1>5, GoesInv

LEMMA SignInRefusedStep ==
    ASSUME Inv, SignInRefused
    PROVE  Inv'
<1>1. "sign" \in Slots /\ "sign" # "startup" /\ calls["sign"].step # "none"
  BY SlotsApart DEF SignInRefused
<1>2. Refresh("sign") \/ Deliver("sign", FALSE)
  BY DEF SignInRefused
<1>3. Deliver("sign", FALSE) => Inv'
  BY <1>1, DeliverInv
<1> QED
  BY <1>1, <1>2, <1>3, RefreshInv

LEMMA LogoutStep ==
    ASSUME Inv, Logout
    PROVE  Inv'
<1>1. Identity \in Users \cup {Link, None}
  BY IdentityTyped DEF Inv
<1> DEFINE id == Identity
           c == Call("logout", id)
<1>2. /\ path = "app" /\ calls' = [calls EXCEPT !["sign"] = c]
      /\ UNCHANGED <<client, session, cookie, place, cache>>
  BY DEF Logout
<1> HIDE DEF id
<1>3. /\ c \in InFlight /\ c.kind = "logout" /\ c.key = None /\ c.to = None
  BY <1>1, CallFields DEF id
<1> HIDE DEF c
<1>4. Fits("sign", c, path, visited)
  BY <1>2, <1>3, NoneAssumption DEF Fits
<1> QED
  BY <1>2, <1>4, SlotsApart, OnlyCallInv

LEMMA LoggedOutStep ==
    ASSUME Inv, LoggedOut
    PROVE  Inv'
<1>1. calls' = [calls EXCEPT !["sign"] = Idle] /\ UNCHANGED <<shareToken, place, cache>>
  BY DEF LoggedOut
<1>2. /\ accessToken' \in Users \cup {None} /\ cookie' \in Users \cup {None}
      /\ user' \in Users \cup {Blank, None}
      /\ status' \in {"loading", "authenticated", "anonymous"} /\ SignedInHasBearer'
  BY DEF LoggedOut, session, Inv, TypeOK, SignedInHasBearer
<1> QED
  BY <1>1, <1>2, IdleFits, CallInv, SlotsApart

(* The callback page leaves for "/".  Its call is out only in a tab that    *)
(* has not been on the share route.                                         *)
LEMMA MeAnswerStep ==
    ASSUME Inv, MeAnswer
    PROVE  Inv'
<1> DEFINE c == calls["me"]
<1>1. c \in InFlight /\ Fits("me", c, path, visited) /\ c.kind = "me"
  BY SlotsApart DEF Inv, TypeOK, CallsFit, MeAnswer
<1>2. CASE Retryable("me") /\ Refresh("me")
  BY <1>2, RefreshInv, SlotsApart DEF Retryable
<1>3. CASE ~(Retryable("me") /\ Refresh("me"))
  <2>1. /\ calls' = [calls EXCEPT !["me"] = Idle] /\ path' = "app" /\ returnTo' = None
        /\ UNCHANGED <<shareToken, cookie, visited, cache>>
    BY <1>3 DEF MeAnswer
  <2>2. visited = FALSE /\ c.who \in Users
    BY <1>1 DEF Fits, InFlight
  <2>3. path # "share"
    BY <2>2 DEF Inv, History
  <2>4. CallsFit(calls', path, visited) /\ calls' \in [Slots -> InFlight]
    BY <2>1, IdleFits, OneCall, SlotsApart DEF Inv, TypeOK
  <2>5. CallsFit(calls', path', visited')
    <3>1. \A s \in Slots : Fits(s, calls'[s], path, visited) => Fits(s, calls'[s], "app", visited)
      BY <2>3 DEF Fits
    <3> QED
      BY <2>1, <2>4, <3>1 DEF CallsFit
  <2>6. /\ accessToken' \in Users \cup {None} /\ user' \in Users \cup {Blank, None}
        /\ status' \in {"loading", "authenticated", "anonymous"} /\ SignedInHasBearer'
    BY <1>3, <2>2, IdentityAssumption
       DEF MeAnswer, adoptSession, session, Inv, TypeOK, SignedInHasBearer
  <2>7. TypeOK'
    BY <2>1, <2>4, <2>6 DEF Inv, TypeOK, Paths
  <2>8. History' /\ TokenIsTheRoute' /\ GuestAnswersEvicted'
    BY <2>1, <2>3, NoneAssumption DEF Inv, History, TokenIsTheRoute, GuestAnswersEvicted
  <2> QED
    BY <2>5, <2>6, <2>7, <2>8 DEF Inv
<1> QED
  BY <1>2, <1>3

LEMMA RequireAuthStep ==
    ASSUME Inv, RequireAuth
    PROVE  Inv'
<1>1. /\ path = "app" /\ path' = "login" /\ returnTo' = "app"
      /\ UNCHANGED <<client, session, cookie, visited, cache, calls>>
  BY DEF RequireAuth
<1>2. CallsFit(calls, "login", visited)
  BY <1>1 DEF Inv, CallsFit, Fits
<1>3. /\ accessToken' = accessToken /\ shareToken' = shareToken /\ cookie' = cookie
      /\ user' = user /\ status' = status /\ visited' = visited /\ cache' = cache /\ calls' = calls
  BY <1>1 DEF client, session
<1>4. TypeOK'
  BY <1>1, <1>3 DEF Inv, TypeOK, Paths
<1>5. CallsFit(calls', path', visited')
  BY <1>1, <1>2, <1>3
<1>6. History' /\ TokenIsTheRoute' /\ GuestAnswersEvicted' /\ SignedInHasBearer'
  BY <1>1, <1>3 DEF Inv, History, TokenIsTheRoute, GuestAnswersEvicted, SignedInHasBearer
<1> QED
  BY <1>4, <1>5, <1>6 DEF Inv

(* A document load. *)
LEMMA LoadedInv ==
    ASSUME NEW c \in Users \cup {None}, NEW p \in Paths, cookie' = c, path' = p,
           returnTo' = None, visited' \in BOOLEAN, p = "share" => visited' = TRUE,
           shareToken' = IF p = "share" THEN Link ELSE None,
           accessToken' \in Users \cup {None}, user' \in Users \cup {Blank, None},
           status' \in {"loading", "authenticated", "anonymous"}, SignedInHasBearer',
           cache' = [k \in Keys |-> None],
           calls' \in [Slots -> InFlight], CallsFit(calls', path', visited')
    PROVE  Inv'
<1>1. TypeOK'
  BY DEF TypeOK
<1>2. History' /\ TokenIsTheRoute' /\ GuestAnswersEvicted'
  BY IdentityAssumption, NoneAssumption
     DEF History, TokenIsTheRoute, GuestAnswersEvicted, Keys
<1> QED
  BY <1>1, <1>2 DEF Inv

LEMMA ReloadStep ==
    ASSUME Inv, NEW p \in Paths, Reload(p)
    PROVE  Inv'
<1>1. /\ path' = p /\ returnTo' = None /\ visited' = (p = "share")
      /\ accessToken' = None /\ shareToken' = IF p = "share" THEN Link ELSE None
      /\ user' = None /\ status' = "loading" /\ cookie' = cookie
      /\ cache' = [k \in Keys |-> None]
      /\ calls' = [s \in Slots |-> IF s = "startup" THEN Startup(cookie) ELSE Idle]
  BY DEF Reload, Load
<1>2. cookie \in Users \cup {None}
  BY DEF Inv, TypeOK
<1>3. \A s \in Slots : Fits(s, calls'[s], path', visited')
  <2>1. \A s \in Slots : calls'[s] = IF s = "startup" THEN Startup(cookie) ELSE Idle
    BY <1>1
  <2> QED
    BY <1>2, <2>1, IdleFits, StartupFits
<1>4. \A s \in Slots : calls'[s] \in InFlight
  BY <1>3 DEF Fits
<1>5. calls' \in [Slots -> InFlight]
  BY <1>1, <1>4
<1>6. visited' \in BOOLEAN /\ (p = "share" => visited' = TRUE)
  BY <1>1
<1>7. SignedInHasBearer'
  BY <1>1 DEF SignedInHasBearer
<1>8. CallsFit(calls', path', visited')
  BY <1>3 DEF CallsFit
<1> QED
  BY <1>1, <1>2, <1>5, <1>6, <1>7, <1>8, LoadedInv

LEMMA GoogleCallbackStep ==
    ASSUME Inv, NEW u \in Users, GoogleCallback(u)
    PROVE  Inv'
<1> DEFINE me == [Call("me", u) EXCEPT !.who = u]
<1>1. /\ path' = "callback" /\ returnTo' = None /\ visited' = FALSE
      /\ accessToken' = u /\ shareToken' = None
      /\ user' = Blank /\ status' = "authenticated" /\ cookie' = u
      /\ cache' = [k \in Keys |-> None]
      /\ calls' = [s \in Slots |-> CASE s = "startup" -> Startup(u)
                                       [] s = "me" -> me
                                       [] OTHER -> Idle]
  BY DEF GoogleCallback
<1>2. /\ me \in InFlight /\ me.kind = "me" /\ me.who = u /\ me.key = None /\ me.to = None
  BY DEF Call, Idle, InFlight
<1> HIDE DEF me
<1>3. Fits("me", me, "callback", FALSE)
  BY <1>2, IdentityAssumption, NoneAssumption DEF Fits
<1>4. \A s \in Slots : calls'[s] = CASE s = "startup" -> Startup(u)
                                      [] s = "me" -> me
                                      [] OTHER -> Idle
  BY <1>1
<1>5. /\ calls'["startup"] = Startup(u) /\ calls'["me"] = me
      /\ \A s \in Slots : s # "startup" /\ s # "me" => calls'[s] = Idle
  <2>1. calls'["startup"] = Startup(u)
    BY <1>4, SlotsApart
  <2>2. calls'["me"] = me
    BY <1>4, SlotsApart
  <2>3. ASSUME NEW s \in Slots, s # "startup", s # "me" PROVE calls'[s] = Idle
    BY <1>4, <2>3
  <2> QED
    BY <2>1, <2>2, <2>3
<1>6. \A s \in Slots : Fits(s, calls'[s], "callback", FALSE)
  BY <1>3, <1>5, IdleFits, StartupFits
<1>7. \A s \in Slots : calls'[s] \in InFlight
  BY <1>6 DEF Fits
<1>8. calls' \in [Slots -> InFlight]
  BY <1>1, <1>7
<1>9. CallsFit(calls', path', visited')
  BY <1>1, <1>6 DEF CallsFit
<1>10. SignedInHasBearer'
  BY <1>1, IdentityAssumption DEF SignedInHasBearer
<1>11. "callback" \in Paths /\ "callback" # "share" /\ FALSE \in BOOLEAN
  BY DEF Paths
<1> QED
  BY <1>1, <1>8, <1>9, <1>10, <1>11, LoadedInv

LEMMA CookieExpiresStep ==
    ASSUME Inv, CookieExpires
    PROVE  Inv'
<1>1. /\ accessToken' = accessToken /\ shareToken' = shareToken /\ cookie' = None
      /\ user' = user /\ status' = status /\ path' = path /\ returnTo' = returnTo
      /\ visited' = visited /\ cache' = cache /\ calls' = calls
  BY DEF CookieExpires, client, session, place
<1>2. TypeOK'
  BY <1>1 DEF Inv, TypeOK
<1>3. CallsFit(calls', path', visited')
  BY <1>1 DEF Inv
<1> QED
  BY <1>1, <1>2, <1>3
     DEF Inv, History, TokenIsTheRoute, GuestAnswersEvicted, SignedInHasBearer

LEMMA UnchangedStep ==
    ASSUME Inv, UNCHANGED vars
    PROVE  Inv'
<1>1. /\ accessToken' = accessToken /\ shareToken' = shareToken /\ cookie' = cookie
      /\ user' = user /\ status' = status /\ path' = path /\ returnTo' = returnTo
      /\ visited' = visited /\ cache' = cache /\ calls' = calls
  BY DEF vars
<1>2. TypeOK'
  BY <1>1 DEF Inv, TypeOK
<1>3. CallsFit(calls', path', visited')
  BY <1>1 DEF Inv
<1> QED
  BY <1>1, <1>2, <1>3
     DEF Inv, History, TokenIsTheRoute, GuestAnswersEvicted, SignedInHasBearer

-----------------------------------------------------------------------------
LEMMA NextInv == Inv /\ [Next]_vars => Inv'
<1> SUFFICES ASSUME Inv, [Next]_vars PROVE Inv'
  OBVIOUS
<1>1. CASE Acts
  <2>1. ASSUME NEW p \in Paths, Reload(p) \/ Visit(p) PROVE Inv'
    BY <2>1, ReloadStep, VisitStep
  <2>2. ASSUME NEW u \in Users, GoogleCallback(u) PROVE Inv'
    BY <2>2, GoogleCallbackStep
  <2>3. ASSUME NEW u \in Users, NEW kind \in {"login", "register"}, Submit(kind, u) PROVE Inv'
    BY <2>3, SubmitStep
  <2>4. ASSUME NEW q \in Queries, NEW key \in Keys, Ask(q, key) PROVE Inv'
    BY <2>4, AskStep
  <2>5. ASSUME Logout PROVE Inv'
    BY <2>5, LogoutStep
  <2> QED
    BY <1>1, <2>1, <2>2, <2>3, <2>4, <2>5 DEF Acts
<1>2. ASSUME NEW s \in Slots, Answer(s) PROVE Inv'
  <2>1. CASE s \in Queries /\ QueryAnswer(s)
    BY <2>1, QueryAnswerStep
  <2>2. CASE StartupAnswer
    BY <2>2, StartupAnswerStep
  <2>3. CASE SignedIn \/ SignInRefused \/ LoggedOut
    BY <2>3, SignedInStep, SignInRefusedStep, LoggedOutStep
  <2>4. CASE MeAnswer
    BY <2>4, MeAnswerStep
  <2>5. CASE Refreshed(s) \/ RefreshRefused(s) \/ RefreshLost(s)
    BY <2>5, RefreshedStep, RefreshRefusedStep, RefreshLostStep
  <2> QED
    BY <1>2, <2>1, <2>2, <2>3, <2>4, <2>5 DEF Answer
<1> QED
  BY <1>1, <1>2, RequireAuthStep, CookieExpiresStep, UnchangedStep DEF Next

(* Whatever is in flight, and whatever the user does meanwhile. *)
THEOREM Invariance == Spec => []Inv
  BY InitInv, NextInv, PTL DEF Spec

(* The client's state, its location and its calls keep their types; and a   *)
(* dead session never remembers the callback page as the place to return.   *)
THEOREM TypeCorrect == Spec => []TypeOK
<1>1. Inv => TypeOK
  BY DEF Inv
<1> QED
  BY <1>1, Invariance, PTL

(* The share token is set exactly while the share route is mounted. *)
THEOREM TokenCorrect == Spec => []TokenIsTheRoute
<1>1. Inv => TokenIsTheRoute
  BY DEF Inv
<1> QED
  BY <1>1, Invariance, PTL

(* No listing, document or search answer fetched as the guest is in the     *)
(* cache off the share route.                                               *)
THEOREM EvictionCorrect == Spec => []GuestAnswersEvicted
<1>1. Inv => GuestAnswersEvicted
  BY DEF Inv
<1> QED
  BY <1>1, Invariance, PTL

(* Who is shown as signed in has a bearer to send. *)
THEOREM BearerCorrect == Spec => []SignedInHasBearer
<1>1. Inv => SignedInHasBearer
  BY DEF Inv
<1> QED
  BY <1>1, Invariance, PTL
=============================================================================
