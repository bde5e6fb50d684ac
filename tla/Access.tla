------------------------------- MODULE Access -------------------------------
(***************************************************************************)
(* Who may read what: the shares of one room, the resolver that every      *)
(* request passes, and the reads that follow it.                           *)
(*                                                                         *)
(* A share is named by its node and its holder, an e-mail address or the   *)
(* token of a public link, as the two unique indexes allow.  A viewer's    *)
(* request is a sequence of queries with no transaction around them; the   *)
(* owner creates, moves and deletes (RoomTree), shares and revokes between *)
(* any two of them.  Viewers write nothing, so one request at a time shows *)
(* all that can happen to any of them.  The owner's own requests are in    *)
(* RoomTree and TreeTx.                                                    *)
(*                                                                         *)
(* A node's name is its id; files and uploads play no part here, a share   *)
(* of a file being the share of a node with nothing below it.              *)
(***************************************************************************)
EXTENDS RoomTree

CONSTANTS
    Root,               \* the root of the room
    Emails, Tokens,     \* those who may hold a share
    MaxShares           \* how many share rows there may be

(* The resolver's answers are told from the ids of nodes. *)
ASSUME AccessAssumption ==
    /\ Root \in Ids
    /\ IsFiniteSet(Ids)
    /\ {"404", "410"} \cap Ids = {}
    /\ Ids \subseteq Names
    /\ Emails \cap Tokens = {}
    /\ MaxShares \in Nat

VARIABLES
    share,  \* table Share: a function from << node, holder >> to its state
    req     \* the viewer's request under way

accessVars == << node, share, req >>

Holders == Emails \cup Tokens

Rows(p) == {p[i] : i \in DOMAIN p}

-----------------------------------------------------------------------------
(* access.resolver.ts *)

(* Mutant: revoked shares count. *)
Candidates_revoked(n, path, creds) ==
    {s \in DOMAIN share : s[1] \in Rows(path) \cup {n} /\ s[2] \in creds}

(* The live shares on n or on an ancestor its path names, held by one of   *)
(* the credentials the request carries.                                    *)
Candidates(n, path, creds) ==
    {s \in DOMAIN share :
        /\ s[1] \in Rows(path) \cup {n}
        /\ s[2] \in creds
        /\ share[s] = "LIVE"}

(* ORDER BY length(path) DESC LIMIT 1 leaves ties to the database. *)
Deepest(S) == {s \in S : \A u \in S : Len(node[u[1]].path) <= Len(node[s[1]].path)}

isWithinSubtree(n, path, root, rootPath) ==
    n = root \/ StartsWith(path, Append(rootPath, root))

(* assertNotDeleted, the row read earlier being tombstoned or not. *)
Gone(deleted, path) ==
    deleted \/ \E a \in Rows(path) \cap DOMAIN node : node[a].deleted

(* What the resolver answers when nothing changes while it works: "404",   *)
(* "410", or the node the caller's scope is rooted at.                     *)
Resolve(n, creds) ==
    LET path == node[n].path
        found == Candidates(n, path, creds)
        scopes == {s[1] : s \in {u \in Deepest(found) :
                      isWithinSubtree(n, path, u[1], node[u[1]].path)}}
    IN  IF scopes = {} THEN {"404"}
        ELSE IF Gone(node[n].deleted, path) THEN {"410"}
        ELSE scopes

-----------------------------------------------------------------------------
(* The reads of an admitted request, under the scope it was given *)

rowsWithinScope(root, rootPath) ==
    {m \in DOMAIN node :
        m = root \/ StartsWith(node[m].path, Append(rootPath, root))}

Shown(m) == ~node[m].deleted /\ node[m].status = "ACTIVE"

listChildren(n, path, root, rootPath) ==
    {m \in rowsWithinScope(root, rootPath) :
        node[m].parentId = n /\ node[m].path = Append(path, n) /\ Shown(m)}

(* Mutant: the slice of the path read before is trusted. *)
breadcrumbs_unscoped(path, root, rootPath) ==
    LET visible == {path[i] : i \in {k \in DOMAIN path : \E j \in 1..k : path[j] = root}}
    IN  visible \cap DOMAIN node

(* The ancestors from the scope's root down, without n itself. *)
breadcrumbs(path, root, rootPath) ==
    LET visible == {path[i] : i \in {k \in DOMAIN path : \E j \in 1..k : path[j] = root}}
    IN  visible \cap rowsWithinScope(root, rootPath)

(* Mutant: the row's own folder instead of what lies below it. *)
forSubtree_own(n, path) ==
    {m \in DOMAIN node : StartsWith(node[m].path, path) /\ Shown(m)}

(* The rows a folder's totals count: not limited by the scope. *)
forSubtree(n, path) ==
    {m \in DOMAIN node : StartsWith(node[m].path, Append(path, n)) /\ Shown(m)}

searchByName(root, rootPath) ==
    {m \in rowsWithinScope(root, rootPath) \ {root} : Shown(m)}

-----------------------------------------------------------------------------
(* shares.service.ts, rooms.service.ts and delete.service.ts *)

(* Mutant: revokedAt is not looked at. *)
resolveToken_revoked(s) ==
    IF Gone(node[s[1]].deleted, node[s[1]].path) THEN {"410"} ELSE {s[1]}

(* GET shared/:token, for the share s of a token. *)
resolveToken(s) ==
    IF \/ share[s] = "REVOKED"
       \/ Gone(node[s[1]].deleted, node[s[1]].path)
    THEN {"410"}
    ELSE {s[1]}

(* The shares a signed-in user sees on the start page: only the shared     *)
(* row's own tombstone is looked at.                                       *)
listSharedWithMe(e) ==
    {s \in DOMAIN share : s[2] = e /\ share[s] = "LIVE" /\ ~node[s[1]].deleted}

(* activeShares of the dialog that confirms a delete. *)
previewShares(n) ==
    {s \in DOMAIN share :
        /\ share[s] = "LIVE"
        /\ s[1] = n \/ StartsWith(node[s[1]].path, Append(node[n].path, n))}

(* Sharing with an address is an upsert: it brings a revoked share back.   *)
(* A link is a new row with a new token.  The insert follows the guard's   *)
(* reads, but nothing else reads or writes the row it adds, so the two are *)
(* one step.                                                               *)
CreateShare(n, h) ==
    /\ Admits(n)
    /\ << n, h >> \notin DOMAIN share => Cardinality(DOMAIN share) < MaxShares
    /\ h \in Tokens => h \notin {s[2] : s \in DOMAIN share}
    /\ share' = [s \in DOMAIN share \cup {<< n, h >>} |->
                    IF s = << n, h >> THEN "LIVE" ELSE share[s]]
    /\ UNCHANGED << node, req >>

Revoke(s) ==
    /\ s \in DOMAIN share
    /\ share' = [share EXCEPT ![s] = "REVOKED"]
    /\ UNCHANGED << node, req >>

(* The owner's changes to the tree. *)
OwnerCreates(p, n)   == CreateFolder(Root, p, n, n) /\ UNCHANGED << share, req >>
OwnerMoves(src, dst) == Move(src, dst) /\ UNCHANGED << share, req >>
OwnerRemoves(n)      == Remove(n) /\ UNCHANGED << share, req >>

(* Mutant: no ON DELETE CASCADE. *)
OwnerRemovesRoom_keepShares == RemoveRoom(Root) /\ UNCHANGED << share, req >>

(* The rows of Share go with the nodes. *)
OwnerRemovesRoom ==
    /\ RemoveRoom(Root)
    /\ share' = [s \in {u \in DOMAIN share : u[1] \in DOMAIN node'} |-> share[s]]
    /\ UNCHANGED req

-----------------------------------------------------------------------------
(* A viewer's request *)

NoRequest == [pc |-> "none", creds |-> {}, n |-> NoParent, path |-> << >>,
              deleted |-> FALSE, root |-> NoParent, rootPath |-> << >>, read |-> {}]

Request == [pc : {"none", "node", "grant", "scope", "ancestors", "handler", "crumbs",
                  "answer"},
            creds : SUBSET Holders, n : Ids \cup {NoParent}, path : Seq(Ids),
            deleted : BOOLEAN, root : Ids \cup {NoParent}, rootPath : Seq(Ids),
            read : SUBSET Ids]

Answer == req' = NoRequest

Goto(pc) == req' = [req EXCEPT !.pc = pc]

(* The handlers that hand out rows differ in the query they end with. *)
Arrive(n, creds) ==
    /\ req = NoRequest
    /\ req' = [NoRequest EXCEPT !.pc = "node", !.n = n, !.creds = creds]
    /\ UNCHANGED << node, share >>

(* forNode: a missing row is a 404. *)
ReadNode ==
    /\ req.pc = "node"
    /\ IF req.n \in DOMAIN node
       THEN req' = [req EXCEPT !.pc = "grant", !.path = node[req.n].path,
                               !.deleted = node[req.n].deleted]
       ELSE Answer
    /\ UNCHANGED << node, share >>

FindGrant ==
    /\ req.pc = "grant"
    /\ LET found == Deepest(Candidates(req.n, req.path, req.creds)) IN
       \/ found = {} /\ Answer
       \/ \E s \in found : req' = [req EXCEPT !.pc = "scope", !.root = s[1]]
    /\ UNCHANGED << node, share >>

(* The scope root as it is by now must still contain the row read before.  *)
ReadScopeRoot ==
    /\ req.pc = "scope"
    /\ IF /\ req.root \in DOMAIN node
          /\ isWithinSubtree(req.n, req.path, req.root, node[req.root].path)
       THEN req' = [req EXCEPT !.pc = "ancestors", !.rootPath = node[req.root].path]
       ELSE Answer
    /\ UNCHANGED << node, share >>

CheckNotDeleted ==
    /\ req.pc = "ancestors"
    /\ IF Gone(req.deleted, req.path) THEN Answer ELSE Goto("handler")
    /\ UNCHANGED << node, share >>

(* GET rooms/:roomId/nodes: the children, then the breadcrumbs. *)
List ==
    /\ req.pc = "handler"
    /\ req' = [req EXCEPT !.pc = "crumbs",
                          !.read = listChildren(req.n, req.path, req.root, req.rootPath)]
    /\ UNCHANGED << node, share >>

Breadcrumbs ==
    /\ req.pc = "crumbs"
    /\ req' = [req EXCEPT !.pc = "answer",
                          !.read = breadcrumbs(req.path, req.root, req.rootPath)]
    /\ UNCHANGED << node, share >>

Rollup ==
    /\ req.pc = "handler"
    /\ req' = [req EXCEPT !.pc = "answer", !.read = forSubtree(req.n, req.path)]
    /\ UNCHANGED << node, share >>

Search ==
    /\ req.pc = "handler"
    /\ req' = [req EXCEPT !.pc = "answer", !.read = searchByName(req.root, req.rootPath)]
    /\ UNCHANGED << node, share >>

Reply == req.pc = "answer" /\ Answer /\ UNCHANGED << node, share >>

-----------------------------------------------------------------------------
AccessInit ==
    /\ node = [m \in {Root} |-> [roomId |-> Root, parentId |-> NoParent, type |-> "FOLDER",
                                 name |-> Root, path |-> << >>, status |-> "ACTIVE",
                                 deleted |-> FALSE]]
    /\ share = [s \in {} |-> "LIVE"]
    /\ req = NoRequest

AccessNext ==
    \/ \E p, n \in Ids : OwnerCreates(p, n) \/ OwnerMoves(p, n)
    \/ \E n \in Ids : OwnerRemoves(n)
    \/ OwnerRemovesRoom
    \/ \E n \in Ids, h \in Holders : CreateShare(n, h) \/ Revoke(<< n, h >>)
    \/ \E n \in Ids, creds \in (SUBSET Holders) \ {{}} : Arrive(n, creds)
    \/ ReadNode \/ FindGrant \/ ReadScopeRoot \/ CheckNotDeleted
    \/ List \/ Breadcrumbs \/ Rollup \/ Search \/ Reply

AccessSpec == AccessInit /\ [][AccessNext]_accessVars

-----------------------------------------------------------------------------
(* What the parent pointers say, to compare with what the paths say *)

(* n and the folders around it. *)
Around(n) ==
    LET up[k \in 0..Cardinality(Ids)] ==
            IF k = 0 THEN {n}
            ELSE up[k - 1] \cup ({node[m].parentId : m \in up[k - 1]} \ {NoParent})
    IN  up[Cardinality(Ids)]

Inside(n) == {m \in DOMAIN node : n \in Around(m) \ {m}}

(* The properties of the tables alone are asked between requests: every    *)
(* pair of tables is met there.                                            *)
Quiet == req = NoRequest

AccessTypeOK ==
    /\ TypeOK
    /\ DOMAIN share \subseteq (DOMAIN node) \X Holders
    /\ share \in [DOMAIN share -> {"LIVE", "REVOKED"}]
    /\ req \in Request

(* The resolver reads paths and says what the folders say: a caller is     *)
(* admitted to a node if it holds a live share on it or on a folder around *)
(* it, scoped to the innermost such folder; to nobody else does it admit   *)
(* that the node was deleted (access.resolver.ts).                         *)
ResolverMatchesGrants ==
    Quiet => \A n \in DOMAIN node, creds \in SUBSET Holders :
        LET held == {a \in Around(n) : \E h \in creds : << a, h >> \in DOMAIN share
                                                        /\ share[<< a, h >>] = "LIVE"}
            inner == {a \in held : \A b \in held : b \in Around(a)}
        IN  Resolve(n, creds) =
                IF held = {} THEN {"404"}
                ELSE IF \E a \in Around(n) : node[a].deleted THEN {"410"}
                ELSE inner

(* What announces a share and the guard of every later request, separate   *)
(* pieces of code, agree on which shares open: the link's own page, which  *)
(* looks at all ancestors, and the start page, for which the shared row's  *)
(* own tombstone is enough, as a delete reaches everything below a folder  *)
(* (shares.service.ts, rooms.service.ts).                                  *)
AnnouncedSharesOpen ==
    Quiet => \A s \in DOMAIN share :
        LET opens == s[1] \in Resolve(s[1], {s[2]})
        IN  /\ s[2] \in Tokens => (s[1] \in resolveToken(s) <=> opens)
            /\ s[2] \in Emails => (s \in listSharedWithMe(s[2]) <=> opens)

(* The five scoped queries, each with a pattern of its own, return what    *)
(* the folders hold: no child is missing from its folder's page, totals    *)
(* and search reach everything below and nothing else, and the shares a    *)
(* delete dialog counts are those of all that is below.                    *)
ReadsAreTheSubtree ==
    Quiet => \A root \in DOMAIN node : \A n \in Inside(root) \cup {root} :
        LET rp == node[root].path
            np == node[n].path
        IN  /\ listChildren(n, np, root, rp) =
                  {m \in DOMAIN node : node[m].parentId = n /\ Shown(m)}
            /\ breadcrumbs(np, root, rp) = (Around(n) \ {n}) \cap (Inside(root) \cup {root})
            /\ forSubtree(n, np) = {m \in Inside(n) : Shown(m)}
            /\ searchByName(root, rp) = {m \in Inside(root) : Shown(m)}
            /\ previewShares(n) = {s \in DOMAIN share : /\ share[s] = "LIVE"
                                                       /\ s[1] \in Inside(n) \cup {n}}

(* Reading outside the granted subtree is impossible, whatever moves       *)
(* between the queries of a request: every row a query returns lies in the *)
(* shared folder as it is when the query runs (access-context.ts).         *)
OnlySharedRowsAreRead ==
    [][req'.read # req.read => req'.read \subseteq Inside(req.root) \cup {req.root}]_accessVars
=============================================================================
