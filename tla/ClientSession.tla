--------------------------- MODULE ClientSession ---------------------------
(* Who the web client is: the bearer and the share token of api/client.ts,  *)
(* the session of AuthProvider, the refresh cookie the API sets, the routes *)
(* that mount and unmount the guest page, and the query cache whose answers *)
(* were fetched as somebody.  One browser tab; a call in flight is answered *)
(* at any later time, and everything else may happen in between.            *)
(*                                                                          *)
(* A token is the user it names.  A bearer may have expired whenever the    *)
(* API looks at it, so a signed-in call is answered either way.  A query    *)
(* that the library retries after a 5xx is one that failed and was asked    *)
(* for again.  "login" is the login and the register page.  Bounds: one     *)
(* link, and one login, registration or logout under way at a time.         *)
EXTENDS Naturals, FiniteSets

CONSTANTS Users,        \* the accounts
          Link,         \* the one share link this tab knows
          ShareIsFile,  \* whether the link shares a file (GuestDocument) or a folder
          Queries,      \* slots for query calls in flight
          None

ASSUME IdentityAssumption == Link \notin Users /\ None \notin Users \cup {Link}
ASSUME SlotAssumption == Queries \cap {"startup", "sign", "me"} = {}
ASSUME NoneAssumption == None \notin {"app", "login", "share", "nodes", "rooms", "boot"}

Blank == "blank"              \* the nameless user GoogleCallbackPage adopts first
Keys == {"nodes", "rooms", "boot"}
Paths == {"app", "login", "callback", "share"}
Slots == Queries \cup {"startup", "sign", "me"}

VARIABLES accessToken, shareToken,   \* module state of api/client.ts
          user, status,              \* React state of AuthProvider
          cookie,                    \* the browser's refresh_token cookie
          path, returnTo,            \* the location; returnTo is /login's parameter
          visited,                   \* the tab's history holds the share route
          cache,                     \* per query key, as whom its data was fetched
          calls                      \* what is in flight

client == <<accessToken, shareToken>>
session == <<user, status>>
place == <<path, returnTo, visited>>
vars == <<accessToken, shareToken, user, status, cookie, path, returnTo, visited, cache, calls>>

(* A call: what it asks, as whom it was sent, and for a refresh the cookie  *)
(* that went with it.  "kept" is FALSE once its query left the cache;       *)
(* "to" is where a sign-in goes afterwards.                                 *)
InFlight == [kind: {"idle", "query", "startup", "login", "register", "logout", "me"},
             key: Keys \cup {None}, step: {"none", "sent", "refreshing", "resent"},
             as: Users \cup {Link, None}, sent: Users \cup {None}, who: Users \cup {None},
             kept: BOOLEAN, to: {"app", "login", "share", None}]
Idle == [kind |-> "idle", key |-> None, step |-> "none", as |-> None, sent |-> None,
         who |-> None, kept |-> TRUE, to |-> None]
Call(kind, as) == [Idle EXCEPT !.kind = kind, !.step = "sent", !.as = as]

(* send(): the share token alone identifies a guest, else the bearer.       *)
Identity == IF shareToken # None THEN shareToken ELSE accessToken

(****************************** Loading the tab *****************************)
(* A document load forgets everything but the cookie.  AuthProvider's first *)
(* effect asks for a refresh with whatever cookie there is.                 *)
Startup(c) == [Idle EXCEPT !.kind = "startup", !.step = "sent", !.sent = c]

Load(p, c) ==
    /\ p \in {"app", "login", "share"}
    /\ path' = p /\ returnTo' = None /\ visited' = (p = "share")
    /\ accessToken' = None
    /\ shareToken' = IF p = "share" THEN Link ELSE None
    /\ user' = None /\ status' = "loading"
    /\ cookie' = c
    /\ cache' = [k \in Keys |-> None]
    /\ calls' = [s \in Slots |-> IF s = "startup" THEN Startup(c) ELSE Idle]

Init ==
    /\ path \in {"app", "login", "share"} /\ returnTo = None /\ visited = (path = "share")
    /\ accessToken = None
    /\ shareToken = IF path = "share" THEN Link ELSE None
    /\ user = None /\ status = "loading"
    /\ cookie \in Users \cup {None}
    /\ cache = [k \in Keys |-> None]
    /\ calls = [s \in Slots |-> IF s = "startup" THEN Startup(cookie) ELSE Idle]

Reload(p) == Load(p, cookie)

(* GET /auth/google/callback answers with the cookie and a redirect whose   *)
(* fragment carries the access token.  The page's effect runs before        *)
(* AuthProvider's, so the token is adopted, and /auth/me asked for, first.  *)
GoogleCallback(u) ==
    /\ path = "login"
    /\ path' = "callback" /\ returnTo' = None /\ visited' = FALSE
    /\ accessToken' = u /\ shareToken' = None
    /\ user' = Blank /\ status' = "authenticated"
    /\ cookie' = u
    /\ cache' = [k \in Keys |-> None]
    /\ calls' = [s \in Slots |-> CASE s = "startup" -> Startup(u)
                                   [] s = "me" -> [Call("me", u) EXCEPT !.who = u]
                                   [] OTHER -> Idle]

(******************************** Navigation ********************************)
(* Mutant: what is already cached goes, what is on its way stays. *)
Evicted_answersOnly(cs) == cs

(* What queries of these keys in flight bring is dropped.                   *)
Evicted(cs) == [s \in Slots |-> IF cs[s].key = "nodes" THEN [cs[s] EXCEPT !.kept = FALSE] ELSE cs[s]]

(* The cache holds nothing for this key and no call for it is out.          *)
Wanted(key, cs) == cache[key] = None /\ \A s \in Slots: cs[s].key # key \/ ~cs[s].kept

(* Going to another route, with cs the calls in flight then and "as" who   *)
(* the client was.  Leaving the share route unmounts GuestPage, and the     *)
(* cleanup of useShareSession clears the token and removes every node and   *)
(* search entry.  Entering it sets the token, but child effects run before  *)
(* their parent's: with the bootstrap still cached, the viewer of a shared  *)
(* file asks for its bytes before the token is in the client.               *)
Goes(to, cs, as) ==
    /\ path' = to
    /\ CASE path = "share" /\ to # "share" ->
              /\ shareToken' = None
              /\ cache' = [cache EXCEPT !["nodes"] = None]
              /\ calls' = Evicted(cs)
         [] path # "share" /\ to = "share" ->
              /\ shareToken' = Link
              /\ IF ShareIsFile /\ cache["boot"] # None /\ Wanted("nodes", cs)
                 THEN \E q \in Queries:
                        /\ cs[q] = Idle
                        /\ calls' = [cs EXCEPT ![q] = [Call("query", as) EXCEPT !.key = "nodes"]]
                 ELSE calls' = cs
              /\ UNCHANGED cache
         [] OTHER -> calls' = cs /\ UNCHANGED <<shareToken, cache>>

(* Links, and the browser's own back and forward: the share route is only   *)
(* in the history of a tab that was there.                                  *)
Visit(to) ==
    /\ path # to /\ to # "callback" /\ (to = "share" => visited)
    /\ Goes(to, calls, Identity)
    /\ returnTo' = None
    /\ UNCHANGED <<accessToken, session, cookie, visited>>

(* RequireAuth sends an anonymous visitor to the login page.                *)
RequireAuth ==
    /\ path = "app" /\ status = "anonymous"
    /\ path' = "login" /\ returnTo' = "app"
    /\ UNCHANGED <<client, session, cookie, visited, cache, calls>>

(********************************** Queries *********************************)
(* What the screen at each route reads.  Data in the cache may be stale and *)
(* then is asked for again; one call per key at a time.                     *)
Reads == CASE path = "app" /\ status = "authenticated" -> {"nodes", "rooms"}
           [] path = "share" -> IF cache["boot"] = None THEN {"boot"} ELSE {"nodes"}
           [] OTHER -> {}

Ask(q, key) ==
    /\ calls[q] = Idle /\ key \in Reads
    /\ \A s \in Slots: calls[s].key # key \/ ~calls[s].kept
    /\ calls' = [calls EXCEPT ![q] = [Call("query", Identity) EXCEPT !.key = key]]
    /\ UNCHANGED <<client, session, cookie, place, cache>>

(* The API's answer: a link opens nodes and its own bootstrap, which needs  *)
(* no credential at all; the rooms need a bearer.                           *)
Opens(key, as) == \/ key = "boot"
                  \/ as \in Users
                  \/ as = Link /\ key = "nodes"

(******************************** sendWithRefresh ***************************)
(* The call came back with anything but a reason to refresh.                *)
Deliver(s, ok) ==
    LET c == calls[s] IN
    /\ calls' = [calls EXCEPT ![s] = Idle]
    /\ cache' = IF ok /\ c.kept THEN [cache EXCEPT ![c.key] = c.as] ELSE cache
    /\ UNCHANGED <<client, session, cookie, place>>

(* A 401 is refreshed once, unless the client is a guest by now.            *)
Refresh(s) ==
    /\ calls' = [calls EXCEPT ![s].step = "refreshing", ![s].sent = cookie]
    /\ UNCHANGED <<client, session, cookie, place, cache>>

(* Mutant: the call sent again may refresh again. *)
Retryable_again(s) == shareToken = None

Retryable(s) == calls[s].step = "sent" /\ shareToken = None

(* A query is answered, is refused (401), or fails some other way.          *)
QueryAnswer(q) ==
    LET c == calls[q] IN
    /\ c.kind = "query" /\ c.step \in {"sent", "resent"}
    /\ \/ Opens(c.key, c.as) /\ Deliver(q, TRUE)
       \/ Deliver(q, FALSE)
       \/ c.key # "boot" /\ c.as # Link /\ Retryable(q) /\ Refresh(q)
       \/ c.key = "rooms" /\ c.as = Link /\ Retryable(q) /\ Refresh(q)

(* POST /auth/refresh issued tokens: the cookie is set again, the bearer is *)
(* kept, and the call goes out once more as whoever the client is now.      *)
Refreshed(s) ==
    LET c == calls[s] IN
    /\ c.step = "refreshing" /\ c.sent # None
    /\ accessToken' = c.sent /\ cookie' = c.sent
    /\ calls' = [calls EXCEPT ![s].step = "resent", ![s].sent = None,
                              ![s].as = IF shareToken # None THEN shareToken ELSE c.sent]
    /\ UNCHANGED <<shareToken, session, place, cache>>

(* Mutant: the session is not ended. *)
unauthenticatedHandler_redirectOnly(cs) ==
    /\ UNCHANGED session
    /\ Goes("login", cs, None)
    /\ returnTo' = path
    /\ UNCHANGED visited

(* It did not: the bearer is dropped and the handler of AuthProvider sends  *)
(* the user to /login, to come back to wherever the location is now.        *)
unauthenticatedHandler(cs) ==
    /\ user' = None /\ status' = "anonymous"
    /\ Goes("login", cs, None)
    /\ returnTo' = path
    /\ UNCHANGED visited

(* Mutant: the callback page has no finally. *)
RefreshRefused_callbackStays(s) ==
    /\ calls[s].step = "refreshing"
    /\ accessToken' = None
    /\ unauthenticatedHandler([calls EXCEPT ![s] = Idle])
    /\ UNCHANGED cookie

RefreshRefused(s) ==
    /\ calls[s].step = "refreshing" /\ s # "me"
    /\ accessToken' = None
    /\ unauthenticatedHandler([calls EXCEPT ![s] = Idle])
    /\ UNCHANGED cookie

(* fetch itself threw: the promise rejects and nothing else happens.        *)
RefreshLost(s) ==
    /\ calls[s].step = "refreshing" /\ s # "me"
    /\ calls' = [calls EXCEPT ![s] = Idle]
    /\ UNCHANGED <<client, session, cookie, place, cache>>

(********************************* Sessions *********************************)
adoptSession(u) ==
    /\ accessToken' = u /\ user' = u /\ status' = "authenticated"

(* Mutant: adopting a session ends the share session. *)
StartupAnswer_asOwner ==
    /\ calls["startup"].kind = "startup"
    /\ calls' = [calls EXCEPT !["startup"] = Idle]
    /\ calls["startup"].sent # None
    /\ adoptSession(calls["startup"].sent)
    /\ cookie' = calls["startup"].sent
    /\ shareToken' = None
    /\ UNCHANGED <<place, cache>>

(* The refresh of the first load.  It is not cancelled by a sign-in or a    *)
(* navigation that happens meanwhile.  Any failure means anonymous.         *)
StartupAnswer ==
    /\ calls["startup"].kind = "startup"
    /\ calls' = [calls EXCEPT !["startup"] = Idle]
    /\ \/ /\ calls["startup"].sent # None
          /\ adoptSession(calls["startup"].sent)
          /\ cookie' = calls["startup"].sent
       \/ /\ user' = None /\ status' = "anonymous"
          /\ UNCHANGED <<accessToken, cookie>>
    /\ UNCHANGED <<shareToken, place, cache>>

(* LoginPage and RegisterPage: one submit at a time, and the place to go    *)
(* afterwards is read from the location when the form is submitted.         *)
Submit(kind, u) ==
    /\ path = "login" /\ calls["sign"] = Idle
    /\ kind \in {"login", "register"}
    /\ calls' = [calls EXCEPT !["sign"] =
          [Call(kind, Identity) EXCEPT !.who = u,
               !.to = IF kind = "login" /\ returnTo # None THEN returnTo ELSE "app"]]
    /\ UNCHANGED <<client, session, cookie, place, cache>>

(* Signed in: the cookie, the session, and the way back.  "share" here is a *)
(* navigation within the tab, so it mounts the guest page again.            *)
SignedIn ==
    LET c == calls["sign"] IN
    /\ c.kind \in {"login", "register"} /\ c.step \in {"sent", "resent"}
    /\ cookie' = c.who
    /\ adoptSession(c.who)
    /\ Goes(c.to, [calls EXCEPT !["sign"] = Idle], c.who)
    /\ returnTo' = None
    /\ UNCHANGED visited

(* Refused: an email that is taken, or, with 401, a wrong password, which   *)
(* sendWithRefresh takes for an expired bearer.                             *)
SignInRefused ==
    LET c == calls["sign"] IN
    /\ c.kind \in {"login", "register"} /\ c.step \in {"sent", "resent"}
    /\ IF c.kind = "login" /\ Retryable("sign")
       THEN Refresh("sign")
       ELSE Deliver("sign", FALSE)

(* The log-out button is on the signed-in screens.                          *)
Logout ==
    /\ path = "app" /\ status = "authenticated" /\ calls["sign"] = Idle
    /\ calls' = [calls EXCEPT !["sign"] = Call("logout", Identity)]
    /\ UNCHANGED <<client, session, cookie, place, cache>>

LoggedOut ==
    /\ calls["sign"].kind = "logout"
    /\ calls' = [calls EXCEPT !["sign"] = Idle]
    /\ \/ accessToken' = None /\ user' = None /\ status' = "anonymous" /\ cookie' = None
       \/ accessToken' = None /\ user' = None /\ status' = "anonymous" /\ UNCHANGED cookie  \* ApiError
       \/ UNCHANGED <<accessToken, session, cookie>>                                        \* fetch threw
    /\ UNCHANGED <<shareToken, place, cache>>

(* GET /auth/me of the callback page.  Whatever comes of it, to "/": also   *)
(* after a refused refresh, which has dropped the session first.            *)
MeAnswer ==
    LET c == calls["me"] IN
    /\ c.kind = "me"
    /\ \/ Retryable("me") /\ Refresh("me")
       \/ /\ calls' = [calls EXCEPT !["me"] = Idle]
          /\ path' = "app" /\ returnTo' = None
          /\ \/ c.step # "refreshing" /\ adoptSession(c.who)
             \/ UNCHANGED <<accessToken, session>>
             \/ c.step = "refreshing" /\ accessToken' = None /\ user' = None /\ status' = "anonymous"
          /\ UNCHANGED <<shareToken, cookie, visited, cache>>

CookieExpires ==
    /\ cookie # None
    /\ cookie' = None
    /\ UNCHANGED <<client, session, place, cache, calls>>

----------------------------------------------------------------------------
Answer(s) == \/ s \in Queries /\ QueryAnswer(s)
             \/ s = "startup" /\ StartupAnswer
             \/ s = "sign" /\ (SignedIn \/ SignInRefused \/ LoggedOut)
             \/ s = "me" /\ MeAnswer
             \/ Refreshed(s) \/ RefreshRefused(s) \/ RefreshLost(s)

Acts == \/ \E p \in Paths: Reload(p) \/ Visit(p)
        \/ \E u \in Users: GoogleCallback(u) \/ \E kind \in {"login", "register"}: Submit(kind, u)
        \/ \E q \in Queries, key \in Keys: Ask(q, key)
        \/ Logout

Next == Acts \/ RequireAuth \/ CookieExpires \/ \E s \in Slots: Answer(s)

(* The network answers every call; nobody has to press anything.            *)
Spec == Init /\ [][Next]_vars /\ \A s \in Slots: WF_vars(Answer(s))

----------------------------------------------------------------------------
TypeOK ==
    /\ accessToken \in Users \cup {None} /\ shareToken \in {Link, None}
    /\ user \in Users \cup {Blank, None} /\ status \in {"loading", "authenticated", "anonymous"}
    /\ cookie \in Users \cup {None}
    /\ path \in Paths /\ returnTo \in {"app", "login", "share", None} /\ visited \in BOOLEAN
    /\ cache \in [Keys -> Users \cup {Link, None}]
    /\ calls \in [Slots -> InFlight]

(* The client is a guest exactly while the share route is mounted, whatever *)
(* sign-in, startup refresh or failed refresh comes back meanwhile: "the    *)
(* token's lifetime is exactly the lifetime of the share route"             *)
(* (useShareSession).                                                       *)
TokenIsTheRoute == shareToken = IF path = "share" THEN Link ELSE None

(* Off the share route no listing, document or search answer fetched as the *)
(* guest is in the cache, nor gets there from a request that was already    *)
(* out when the route was left.                                             *)
GuestAnswersEvicted == path # "share" => cache["nodes"] # Link

(* A tab that shows a signed-in user has a bearer to send, through logouts, *)
(* failed refreshes of overlapping calls and the startup refresh.           *)
SignedInHasBearer == status = "authenticated" => accessToken # None

(* One refresh per call at most: every query and every sign-in that is sent *)
(* is answered, is refused or fails, and does not refresh for ever.         *)
CallsSettle == \A s \in Queries \cup {"sign"}: (calls[s] # Idle) ~> (calls[s] = Idle)

(* What the design says of a dead session, that it "redirects with          *)
(* returnTo": signing in leads back to the page, or home, never to the      *)
(* login page once more.  A wrong password refutes it.                      *)
ReturnsToThePage == [][SignedIn => path' # "login"]_vars
=============================================================================
