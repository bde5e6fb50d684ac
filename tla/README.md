# A verification development for data-room-app

TLA+ models of the data room's back end and of the browser's side, model-checked with TLC on small
instances, and theorems about them proved with TLAPS for every instance. The
code is `src/apps/api` (NestJS, Prisma, Postgres, an S3 bucket) and
`src/apps/web` (React, TanStack Query). Every definition is translated from the
source; `PROJECT.json` says from which lines.

## 1. The system

A *room* is a tree of folders and files owned by one user. Rows of the table
`Node` carry a parent pointer and a *materialised path* (the ancestors' ids, root
first). A file has rows in `FileVersion`, each naming an object in the bucket.
Owners share a folder with a user (a grant) or with whoever holds a link (a
share token). Browsers upload straight to the bucket through presigned URLs.

| Component | State it keeps | Operations that change it | Sources |
|---|---|---|---|
| node tree | `Node` rows | create folder, rename, move, delete; the node half of an upload | `nodes/*`, `node-path.ts` |
| rooms | `DataRoom` row and its root node | create, rename, delete (cascade) | `rooms/*` |
| uploads and versions | `FileVersion` rows, a node's `status`, `currentVersionId`, `sizeBytes`, the bucket | presign, PUT, confirm, reject, restore | `uploads/*`, `files/*` |
| pending sweep | none beyond its progress | the hourly removal of abandoned uploads | `uploads/pending-sweep.service.ts` |
| access resolution | none: resolved anew on every request | - | `access/*` |
| shares | `Share` rows | grant, re-grant, revoke, open a link | `shares/*` |
| listing, rollups, search | none; a cursor held by the client | - | `nodes/nodes.repository.ts`, `search/*` |
| authentication | `User` rows, the refresh cookie | register, log in, sign in by Google, refresh, log out | `auth/*` |
| upload queue (web) | the tasks, in memory | enqueue, start, progress, cancel, retry | `web/src/uploads/*` |
| client session (web) | access token, share token, the signed-in user, the location | silent refresh, sign in, log out, open and leave a share | `web/src/api/client.ts`, `web/src/auth/*`, `guest/*` |
| query caches (web) | cached listings, page by page | optimistic rename, move, delete; refetch, load more | `web/src/browser/*` |

**How they interact.** The access guard reads a node row and checks that no
ancestor *named by its path* is tombstoned; listing, deletion, scopes and grants
select subtrees with `path LIKE prefix || '%'`. So what users see and may touch
follows the path, while moves decide and pages show what the parent pointer
says: everything depends on the two telling the same story. Uploads share the
node row with the tree (a file is `PENDING` until its first confirm) and share
version rows and objects with the sweep. The browser and the server meet
through the bucket alone between presign and confirm.

**What is hard.** Handlers hold no lock between their reads and their writes, and only
moves, deletes and confirms use transactions, at READ COMMITTED: reads go stale, and an
UPDATE decides which rows to visit before it waits for a lock. An upload spans three parties
and a day: URLs outlive the confirm, confirms arrive twice or out of order, a reject races a
confirm, and the sweep deletes by ids it read earlier. The sweep ignores a bucket that fails
and may die midway. Sign-ins look a user up and write later, with unique indexes to decide a
race. In the browser one client is the owner or a guest depending on the route, answers
arrive after the route, the session or the listing they were asked for is gone, and
optimistic changes are rolled back to snapshots that others have overtaken.

**What makes each component correct.**

- *node tree*: paths name exactly the ancestors; the pointers form a tree;
  nothing live below a tombstone; rows do not change room; every request is
  answered although statements wait for each other's row locks.
- *rooms*: a room and its nodes come and go together, and an owner's scope is
  exactly the room.
- *uploads*: a download leads to the bytes of the version asked for, found acceptable by a
  confirm; confirmed versions are immutable; an active file has a current version with its
  bytes; a restored version has the bytes of its source.
- *sweep*: what was abandoned is found and removed, what was confirmed is kept.
- *access and shares*: a grant reaches the shared subtree and nothing else,
  nothing once it was revoked or its folder deleted, and no query of a request
  reads outside the subtree, whatever moves meanwhile.
- *upload queue*: never more than `MAX_CONCURRENT` tasks run and no slot is lost,
  every task comes to rest, a cancelled one does not come back and sends nothing
  more, the user is asked once.
- *authentication*: one account per address and per Google id; no session of an account
  that was registered without its password or its verified address, nor of one that
  Google made without the Google id that made it; an invitation reaches the account of
  its address.
- *client session*: a guest exactly on the share route; no answer fetched as the
  guest stays behind; a signed-in screen has a bearer; every call ends.
- *query caches*: no row repeated or skipped by paging, whatever is rolled back or
  canceled meanwhile, and at rest the screen shows the folder's listing.

`PROJECT.json` lists the hazards of the code line by line, with the property
that covers each one or the reason none does yet.

## 2. The modules

    FolderTree          what a user sees: folders, parents, no paths
       ^ implemented by (RoomTreeRefinement: the mapping)
    RoomTree            the Node table, one committed handler per action
       ^                ^
       |             Access   shares, the resolver and the reads behind it,
       |                      query by query, among the owner's changes to
       |                      RoomTree's table (extends RoomTree)
    TreeTx              RoomTree's handlers as SQL statements; instantiates
                        RoomTree to say what a request alone must do
    Uploads             one file: node, versions, bucket, requests, sweep
       ^
    Downloads           readers of that file, up to the browser's own GET
    UploadQueue         the browser's side of many uploads: tasks, slots, dialog
    Accounts            users, sign-ins cut at their awaits, invitations
    ClientSession       one browser tab: tokens, routes, cookie, calls in flight
    FolderView          one listing: rows, pages, optimistic mutations

| Module | Theorems about it |
|---|---|
| `RoomTree` | `RoomTreeProofs`, also that it implements `FolderTree` |
| `TreeTx` | `TreeTxProofs` |
| `Access` | `AccessProofs`, which rests on `RoomTreeProofs` |
| `Uploads`, `Downloads` | `UploadsProofs` |
| `UploadQueue` | `UploadQueueProofs` |
| `Accounts` | `AccountsProofs` |
| `ClientSession` | `ClientSessionProofs` |
| `FolderView` | `FolderViewProofs` |

`MCRoomTree`, `MCTreeTx`, `MCTreeTxCycle`, `MCAccess`, `MCUploads`, `MCDownloads`,
`MCUploadQueue`, `MCAccounts`, `MCClientSession` and `MCFolderView` give them finite constants.

### RoomTree

`node` is the table: a function from ids in use to rows. A room is named by its
root node's id, as the two are created and deleted together. A name stands for
its lower-cased form, which the partial unique index `node_name_uniq` compares.
Each action is a whole handler with the owner's access guard (`Admits`) in front:
`CreateRoom`, `RemoveRoom`, `CreateFolder`, `Rename`, `Move`, `Remove`, and the
node half of the upload handlers, `PresignNewFile`, `Confirm`, `RejectUpload` and
`SweepPending`. `AddChild` looks at the direct parent only, as the code does:
that nothing above it is deleted is a consequence to be shown, not a guard.
`Move` rewrites the paths of tombstoned descendants too; `Remove` works from the
path pattern. A request the code refuses is an action that is not enabled.

### FolderTree

The tree without paths: a function from ids to parents, and operations
stated by reachability over the parent pointers. `RoomTreeRefinement` maps the
table to it and states that RoomTree implements it (`ImplementsFolderTree`) and that
the path pattern picks exactly the descendants (`PatternMatchesSubtree`). The run
`room_tree` checks both and `RoomTreeProofs` proves both.

### TreeTx

Several requests at once on one room, each a list of SQL statements. `node` is the
committed table, `dirty[t]` what request `t` has written and not committed,
`lock[m]` who holds row `m`'s lock, `tx[t]` the request's program counter and the
values it has read. A writing statement chooses its rows when it starts (`todo`) and
`Visit`s them one at a time in any order: wait for the lock, read the newest
committed version, test the WHERE clause again, write. These rules are those of
Postgres at READ COMMITTED (external). Any transaction may abort (its timeout), and
a deadlocked one does. A move is `GuardRead`, `GuardAncestors`, `MoveSelect`,
`MoveLock`*, `MoveCheck`, `MoveDescendant`*, `MoveSelf`, `Commit`; a delete is
the guard, then `RemoveSelect`, `RemoveDescendant`*, `RemoveSelf`, `Commit`; a
create is `CreateReadParent`, `CreateInsert`. Types, names and room checks are left
out: they neither lock nor wait. A FOR KEY SHARE lock of the foreign
key is modelled by what it waits for (`LockedForUpdate`). `tx[t].alone` exists in the model
only: it marks requests that overlapped with no other, which must act as
RoomTree's handlers do (`SerialCommitsAreHandlers`).

### Access

`share` maps a node and a holder, an address or a link's token, to LIVE or REVOKED. A
viewer's request is `Arrive`, `ReadNode`, `FindGrant`, `ReadScopeRoot`, `CheckNotDeleted`,
then the queries of its handler: `List` and `Breadcrumbs`, `Rollup` or `Search`. `req` holds
what it has read so far, and the owner's `OwnerCreates`, `OwnerMoves`, `OwnerRemoves` and
`OwnerRemovesRoom` (RoomTree's handlers, with what they do to the shares), `CreateShare` and
`Revoke` come between any two steps. A node's name is its id (`Ids \subseteq Names`), as no
read compares names. `Resolve` is the resolver without interruption, which the state
properties compare with the parent pointers (`Around`, `Inside`). The branch of an owner is
in RoomTree and TreeTx; a credential is a name, tokens and JWTs are not hashed or signed.

### Uploads

One file from its first presign to its end. `version` holds its FileVersion rows
(number, object key, checksum; a row without checksum is a reservation); the
key of an object is the version number it was reserved under, which is what
distinguishes keys within a file, and a restored version reuses its source's key.
`url[v]` is the presigned URL that was handed out for `v`. A handler is split
where it awaits:

| Handler | Actions |
|---|---|
| presign, new file | `PresignNewFile` |
| presign, `NEW_VERSION` | `PresignLookup`, `PresignNewVersion` |
| the browser | `Put` |
| confirm | `ConfirmRead`, `ConfirmHead`, then `ConfirmActivate` or `RejectRemoveBlob`, `RejectDropRows` |
| restore | `RestoreRead`, `RestoreAppend` |
| delete | `Remove` |
| sweep, first half | `SweepFindNode`, `SweepNodeBlob`*, `SweepDeleteNode` |
| sweep, second half | `SweepFindVersions`, (`SweepVersionBlob`, `SweepDeleteVersion`)* |
| failures | `RequestFails` (between any two steps), `SweepCrash`, a bucket that does not remove (`SafeRemove`) |
| time | `DayPasses`: `v` is older than `ORPHAN_AGE_MS` |

`puts` and `total` count PUTs and exist in the model only: `total` bounds them, `puts` says
which objects were overwritten through a URL that was still valid, something the code
accepts and answers at download time; the properties about stored rows exempt such objects.
`RestoredCopiesMatch` compares two versions that share a key and exempts the pair when
either was overwritten: once the source of a restored version is rejected, its number and
key can go to another upload. That takes four versions, and showed when proving it.

Assumption about the browser: it confirms after its PUT returned and within a
day of its presign. The web client does so; nothing in the server forces it, and
the hazard list names what happens otherwise.

### Downloads

`get[g]` is a download of that file, cut where the code waits: `DownloadNode` is the guard's
read of the node, `DownloadVersion` the read of the version row, `DownloadHead` the HEAD
with the comparison of ETag and checksum, whose answer is a redirect. The browser follows
the redirect at any later time until it expires (`DownloadEnds`), so what it gets is what
the bucket holds *then*: `ServedBytesWereVerified` is about every state in which a redirect
is out. All steps of Uploads (`Working`) and the PUTs go on in between. No comparison
protects a redirect that is out from a PUT, as the upload URL outlives the confirm: such
downloads are marked (`Overwritten`) and exempt, and stand among the disagreements of
section 3. Whatever was PUT *before* the HEAD is not exempt.

### UploadQueue

`task` is the store's list, `run[t]` the request of `t` that awaits its answer,
`aborted` the requests told to abort, `choices` the answers given for whole batches,
`box` the dialog's checkbox. What `run` does between two awaits is one
action, with the `pump` that follows it: `Presigned`, `NameConflict`, `Stored`,
`Confirmed`, `Fails`. `Proceed` is the passage from one request to the next: the
`isCanceled` checkpoint, and the refusal of an aborted signal (`putWithProgress`,
`fetch`). The user acts through what is on screen: `Enqueue`, `Cancel`, `Retry`,
`ClearFinished`, `Tick`, `Answer`. An abort that surfaces as an exception takes the
branch of any error of a cancelled task, so `Fails` stands for both. Progress is left
out. The two strategies for a taken name differ on the server only, so the
runs have one.

### Accounts

`users` is the User table by id, `reqs[q]` a request between two awaits with what it
has read, `shares` the addresses one node is shared with as they are stored,
`sessions` what tokens were issued for and on what grounds (it exists in the model
only, as `invited` and `alone` do). An address is a name and whether it was typed in
capitals; the unique indexes compare what is stored. A hash is the password it was
made from.

| Handler | Actions |
|---|---|
| `AuthService.register` | `register` (look-up), `RegisterCreate` (after the hash) |
| `AuthService.login` | `login` (look-up), `LoginVerify` |
| `upsertGoogleUser` | `upsertGoogleUser`, `GoogleById`, `GoogleByEmail`, then `GoogleLink` or `GoogleCreate` |
| share with an address | `Invite` |

`GoogleLink` writes by id whatever Google id the row has by then, as the UPDATE does.
`Grounds` says what a session rests on. For an account registered with a password that is
the password or a Google id that came with the account's address, verified. For an account
without one, which Google made, it is the id that made it, under the address it came with:
`GoogleCreate` takes an address that Google has not verified, and the property claims
nothing about who owns it. No endpoint removes an account or changes its address or
password.

### ClientSession

The module state of `api/client.ts` (`accessToken`, `shareToken`), AuthProvider's
`user` and `status`, the browser's `cookie`, the location (`path`, `returnTo`; `visited`
says whether the share route is in the tab's history), per query key as whom the
cached data was fetched, and the `calls` in flight. A token is the user it names. A
bearer may have expired whenever the API looks at it, so a signed-in call may be
answered with 401 at any time. Keys: `nodes` stands for listings, documents and search, `rooms`
for the signed-in screens' others, `boot` for the link's own bootstrap.
`Goes` is a navigation with the effects of mounting and unmounting the guest page
(children's effects before their parents'); `Retryable`, `Refresh`, `Refreshed`,
`RefreshRefused` and `RefreshLost` are `sendWithRefresh`; `StartupAnswer` is the refresh
AuthProvider asks for first; `Submit`, `SignedIn`, `SignInRefused`, `Logout`, `LoggedOut`,
`GoogleCallback` and `MeAnswer` the ways in and out.

### FolderView

`rows` is the folder as the API holds it, `pages` the query's data, `fetch` the fetch in
flight with the pages it has collected, `muts` this user's mutations, each with the snapshot
its `onMutate` took. A sort key stands for the marker and column of the sort mode; keys tie,
ids do not. The rows of a page are a set, each with the place the API gave it on the page:
the patches of `onMutate` change and drop rows and move none. `listChildren` is the keyset
query with its limit of one row more. A refetch reads all pages again one after the other
(`PageRead`, `PageArrives`) and replaces the data at the end; `Invalidated` says how an
invalidation treats a fetch in flight, `restore` puts a snapshot back. `LoadMore` has no
guard against a fetch under way, as the button has none: `fetchNextPage` cancels what is in
flight and builds on the pages on screen, be they patched or rolled back, and a refetch so
canceled does not come back. `Retry` and `Reconnect` read everything again.

`touched` (model only) collects whose writes the pages on screen may not show: `"me"` this
user's, patched or applied since; `"them"` others'; `"lost"` those for which the refetch
that would have shown them was canceled by `LoadMore`, absorbed by the very first load, or
never asked for (a creation reported as failed). Each mutation keeps the same of its
snapshot (`since`), so that a rollback brings back what the snapshot does not show. A rename
or move may be applied to a row that others took out of the folder.

## 3. The runs

| Run | Question | Instance | Answer |
|---|---|---|---|
| `room_tree` | Do paths, tombstones, rooms and types agree after every handler, and is the table a folder tree? | 5 ids, 2 names | yes |
| `tree_pairs` | What survives when two requests overlap? | 4 ids, any 2 of move, delete, create | one tree, rows in their room, tombstones final, every request answered; without overlap, exactly RoomTree's handlers |
| `cycle` | Is the room still one tree after more moves? | 5 ids, two moves that overlap and a third one after them | no (finding 1) |
| `live_below_deleted` | Is everything below a deleted folder deleted? | 4 ids, create and delete | no (finding 2) |
| `access` | Do path-based authorization and reads agree with folders and shares, and does a request read only what is shared? | 4 nodes, a user and a link, 2 shares, one request among the owner's changes | yes |
| `uploads` | Is history kept, are active files whole, do restored copies match? | 3 versions, 2 requests, 3 PUTs of two PDFs or a bad object, 1 crash | yes |
| `downloads` | Does a redirect lead to verified bytes, however late it is followed, and does a file that was given up go away? | 2 versions, 2 requests, 1 download, 2 PUTs, 1 crash | yes, but for an object PUT over after the redirect |
| `upload_queue` | Are slots neither overdrawn nor lost, cancels final, answers asked for once, and does every upload come to rest? | 3 files in up to 3 drops, 2 slots, one strategy | yes |
| `session` | Is the client who the screen says it is, and does every call end? | 1 user, 1 query slot beside the startup refresh, a sign-in and the callback's call | yes |
| `returns_to_login` | Does a sign-in lead back to a page? | the same | no (finding 3) |
| `folder_view` | Does paging repeat or skip rows, and is the screen right at rest? | 3 rows, 2 keys, 1 row a page, 2 writes or reconnections, by this user or others, refetches canceled at any step | yes, but for rows whose refetch was canceled or never came |
| `accounts` | One account per address, no session without grounds, links kept, invitations that reach? | 2 addresses in either case, 2 passwords, 2 Google ids, 3 accounts, 3 requests at once and 4 in all | yes |

**Bounds.** Five ids are a root, a moved folder with a child and a grandchild, and a
destination, or two rooms with contents; a path error of a move shows with a descendant at
depth two, and two names suffice for a name that is taken and one that is not. In TreeTx
four ids allow a room with a folder, a subfolder, and one more as destination or new folder;
row locks are taken per row, so more rows of the same kind add no new wait. Every *pair* of
operations is covered. Of three moves `cycle` looks only at those whose last one starts
after the others have left a stale path (`AfterStalePath`), which is enough to refute
`OneTree` for them; the properties that `TreeTxProofs` proves hold for any number of
requests. Three versions are a current one, an older one to restore and one that arrives
late; two requests at once let each transaction meet every step of another one; 3 PUTs
suffice for one object per version or an overwritten one. One crash of the sweep is enough:
after it the sweep starts again from the rows. Downloads do not meet one another, so one
stands for any number. In Access four nodes are the root, a shared folder, one inside it and
one to move it to or share as well; two shares are an outer and an inner one, or the link's
and the user's. Viewers write nothing, so one request at a time shows what happens to any
number. In UploadQueue three files and two slots have a task waiting, two parked in one drop
while a third is still out, and a second drop; four files (4.7 million states) satisfy the
invariants as well, but take too long with the liveness property. In Accounts three requests
are two that race past their look-ups and one that makes or links the account they race for.
In ClientSession one user suffices for the properties checked, which tell the guest from the
owner; two users (9.8 million states) satisfy the invariants as well. One query slot
overlaps with the startup refresh and a sign-in, each of which refreshes on its own. In
FolderView one row a page makes every row a page's end, three pages with ties among two
keys, and two writes are two mutations that overlap, or one among another's change.

**Symmetry** is used where only invariants and action properties are checked,
never in the runs of `EveryRequestAnswered`, `PendingFilesEnd`, `UploadsSettle` and
`CallsSettle`; in `cycle` it exchanges the first two moves, as the constraint names the last.
`CHECK_DEADLOCK FALSE` is said for TreeTx, whose requests are each
handled once, for UploadQueue, where the last file may be done and the list cleared,
for Accounts, ClientSession and FolderView, whose bounds on requests and writes run
out or whose user may stop.

**Fairness.** In TreeTx: a request whose statement can proceed proceeds, and a
deadlocked transaction is aborted (Postgres' detector, and Prisma's transaction
timeout). No request has to arrive. In Uploads: the sweep alone, which the
scheduler starts every hour and which finishes or crashes; requests may hang or
end at any step. `PendingFilesEnd` says *leaves PENDING*: a confirm may still win. In UploadQueue:
every request is answered, fails or is aborted in the end, as browsers' requests
do; the user need do nothing, and `UploadsSettle` excepts a user who retries for
ever, whose failing early tasks can keep a later one waiting. In ClientSession: the network
answers every call in flight (`WF` of `Answer` per slot), the user need do nothing.
`CallsSettle` is about queries and sign-ins; the startup refresh and the callback's call
are started over by a reload.

### Findings

1. *A path goes stale, and a folder goes below itself* (`cycle`). `move.service.ts` locks
   the two endpoints, no ancestor of the destination. While one move carries A below D,
   another moves an ancestor of D; whichever UPDATE has chosen its rows already misses
   the other's, and A keeps D's old prefix. As `listChildren` filters by
   `parentId` *and* path, A disappears from its folder. The cycle check is a prefix test
   on the same paths: a third move, which overlaps with nothing, passes it and puts a
   folder below its own descendant. The pointers then close a cycle apart from the root.
2. *A live node below a deleted folder* (`live_below_deleted`). `createFolder` and
   presign check the parent and insert in two statements; a delete between them
   does not visit the new row. `delete.service.ts:45-47` says why that matters.
3. *A wrong password remembers the login page* (`returns_to_login`). `sendWithRefresh`
   takes the 401 of `POST /auth/login` for an expired bearer, the refresh is refused,
   and AuthProvider's handler navigates to `/login?returnTo=/login`; the next, correct
   sign-in obeys it and leaves the user, signed in, at the login form.

### Disagreements not kept as runs

Met while modelling, reproducible in the models, each against a comment or a document:

- *An abandoned version the sweep cannot see.* The sweep looks for numbers above the
  current one; out-of-order confirms leave a reservation below it, against
  `uploads.service.ts:104-105` and `:160-161` (`Uploads`).
- *Unverified bytes after the redirect.* The HEAD compares the object with the checksum, the
  browser fetches it later through its own URL, and the upload URL is valid for 15 minutes past the
  confirm: a PUT between the two is what the browser gets, although
  `files.service.ts:40-43` says that anything but the verified bytes "must never be served"
  (`Downloads`, whose `ServedBytesWereVerified` exempts exactly that PUT).
- *A reject takes a live file down.* Whether to tombstone the node is decided before
  the HEAD, and the file may have become ACTIVE since, against
  `uploads.service.ts:225-226` (`Uploads`).
- *The objects of a deleted file.* `delete.service.ts:49` leaves them to the sweep, which
  looks at PENDING nodes and unconfirmed versions only.
- *The preview counts those who lost access before*: shares of deleted nodes are live
  rows (`delete.service.ts:29`; `Access`).
- *The box keeps its tick.* `ConflictDialog` never resets `applyToAll`: a prompt about
  another drop may be answered for that whole drop, though the checkbox was ticked for
  an earlier prompt or is not on screen, against `uploadStore.ts:291-292` (`UploadQueue`).
- *A link replaced.* Two Google sign-ins of one verified address that overlap both
  read the account while it has no Google id; the second UPDATE, by id, replaces the
  first one's. The comment at `auth.service.ts:125-126` expects the unique index to
  refuse (`Accounts`, whose `LinksStay` is about sign-ins that do not overlap).
- *P2002 of a Google sign-in* is answered by the filter as a name conflict
  (`prisma-exception.filter.ts`), as nothing catches it.
- *Logout.* "the cookie is gone either way" (`AuthProvider.tsx:86`) is not so when the
  request failed, or when a refresh was under way and sets the cookie after.
- *Entering a share.* `GuestPage.tsx:45-46` wants the token in the client before the
  first request; on a second visit to a shared file the child's effect asks for its
  bytes before the parent's sets the token. Nor does entering the route evict
  what the owner cached, or a log-out what the user had.
- *A late startup refresh* that fails makes anonymous a user who has signed in meanwhile.
- *Load more cancels the repair.* `NodeTable.tsx:51,111-115` keeps the button while a
  refetch runs, and `RoomPage.tsx:57` calls `fetchNextPage`, which cancels that refetch
  (TanStack Query's `cancelRefetch` default) and adds a page to the pages on screen. If the
  refetch was the one `onSettled` asked for, a renamed row stays where it was, or a row of a
  rolled-back snapshot on screen, at rest: against `useNodeMutations.ts:74` "the row's
  position — not only its label — changes", which is why it invalidates (`FolderView`, where
  these rows are `"lost"`).
- *The listing.* A created folder whose answer is lost is not shown until the next
  refetch; an invalidation during the very first load is absorbed by it; rename and
  delete invalidate the listing of the current sort order only (`FolderView`).

Not findings, as the repository says so itself: the object of a removal that failed
stays in the bucket (`src/README.md:417-424`).

## 4. What is proved

### The tree

`RoomTreeProofs` proves of `RoomTree`, for every set of ids and names, the
only assumption being that null is not an id (`NoParentAssumption`):

| Theorem | Statement |
|---|---|
| `TypeCorrect` | `Spec => []TypeOK` |
| `PathsCorrect` | `Spec => []PathsAreAncestry` |
| `RoomsCorrect` | `Spec => []RoomsAreClosed` |
| `LeavesCorrect` | `Spec => []OnlyFoldersHoldNodes` |
| `TombstonesCorrect` | `Spec => []TombstonesReachDown` |
| `AcyclicCorrect` | no row is its own ancestor |
| `TreeCorrect` | the invariant `TreeInv` the others follow from |

**The argument.** `PathsAreAncestry` is not inductive: the cascade of a room's
deletion keeps it only because paths do not leave the room, and the sweep's
deletion of one row only because a PENDING row is a file and files have nothing
below them. `TreeInv` is the conjunction of types, paths, closed rooms and
leaves, and it is inductive. `TombstonesReachDown` is then inductive relative to
`TreeInv`: a tombstoned ancestor of the new parent would, by the invariant
itself, have tombstoned the parent.

Moves are the core. The lemma `AncestorAt` says that the path up to an
ancestor is that ancestor's own path; from it, `PatternIsMembership` shows
that `m`'s path starts with `childPath(n)` exactly if it contains `n`; and
`MovedAncestors` says what the ancestors of every row are after a move. With these
the step for `Move` is a case distinction: the source, a row below it, any other
row.

It also proves, under the same assumption, what is stated in `RoomTreeRefinement`:

| Theorem | Statement |
|---|---|
| `PatternCorrect` | `Spec => []PatternMatchesSubtree` |
| `RefinementCorrect` | `Spec => ImplementsFolderTree` |

**The argument.** `Under(n)` of FolderTree is the smallest set of rows closed under
children. The rows the pattern matches are closed under children, and of those it
matches, one with the shortest path can be missing from no closed set (`UnderIsBeneath`).
The refinement then has one step per handler: `Move` refuses exactly the destinations in
the moved subtree, `Remove` takes exactly what lies under the node, and that `create` and
`move` look at one tombstone only is made good by `TombstonesReachDown`.

### The tree under overlapping requests

`TreeTxProofs` proves of `TreeTx`, for any finite set of ids and any number of requests
(`TreeTxAssumption`):

| Theorem | Statement |
|---|---|
| `PathsCorrect` | `Spec => []PathsStayInRoom` |
| `TombstonesCorrect` | `Spec => TombstonesStay` |
| `SerialCorrect` | `Spec => SerialCommitsAreHandlers` |
| `RightPathsCorrect` | `Spec => RightPathsKeepTree` |
| `PairsKeepTree` | for two requests, `Spec => []OneTree` |
| `InvCorrect` | the invariant `TreeInv` the first three follow from |
| `ChecksCorrect` | the invariant `MoveInv` the next two follow from |

**The argument.** `TreeInv` is `TypeOK`, `AllStaged` (which statement a request has reached
and what it still has to visit), `Fresh` (an id to be created is in use nowhere and nobody
else's), `RootStays`, `PathsRooted` (committed, uncommitted and remembered paths start at
the root), `LocksHeld` (an uncommitted row is locked by its writer and brings no
tombstone back; a move holds its source from the check to the end), `OnlyOne`
(a request marked `alone` is the only one there is) and `Undisturbed`. The last one says how
far a request alone has come: the table is as it was when it arrived, and what it has written
is what the handler of RoomTree would have written to the rows already visited. At its
commit no row is left to visit, so the step is the handler's (`SerialCreate`, `SerialRemove`,
`SerialMove`). Nothing is assumed of the table the request finds: it may be one that
findings 1 and 2 have already made of it.

`MoveInv` adds `Attached` (every row's parent is a row) and `ChecksStand`: from its cycle
check to its commit a move holds the locks on its source and its destination, so what the check
found of the committed table is still so, and no other row of a request gets another
parent. `OneTree` comes down to pointers that close no loop (`NoLoop`), and where the
committed paths follow the parents they close none: each path is longer than the
parent's, so a loop would have no shortest one. A commit that finds right paths gives one
row a parent that is not below it, and makes no loop. That is `RightPathsKeepTree`, for any
number of requests, and it says exactly what finding 1 is about: only a stale path can
mislead the check. `OneTree` itself is false of three moves and is proved of two, with
`PairInv`: as long as one request is not done the paths follow the parents, because no more
than one has committed, and the first to commit found the table as it was read.

### One file

`UploadsProofs` proves of `Uploads` and `Downloads`, for any finite set of versions, any contents,
any number of requests, downloads, PUTs and crashes (`UploadsAssumption`):

| Theorem | Statement |
|---|---|
| `TypeCorrect` | `Spec => []TypeOK` |
| `ServedCorrect` | `DownloadsSpec => []ServedBytesWereVerified` |
| `ActiveCorrect` | `Spec => []ActiveFilesAreWhole` |
| `CopiesCorrect` | `Spec => []RestoredCopiesMatch` |
| `HistoryCorrect` | `Spec => HistoryKept` |

**The argument.** `Inv` adds to the types what the properties rest on: `Numbering` (numbers
are unique and no higher than the count of ids handed out), `Fresh` (what was not handed out has
no row and no PUT), `RequestsHold` (what of a request's reads is still true
when it acts), `SweepIsSafe` (the sweep holds no version that was confirmed), `Verified` (a
checksum is that of acceptable bytes), `Agree` (while an object has had one PUT, its row, the
bucket and the requests between their HEAD and their write tell of the same bytes),
`CopiesHaveSource` (a restored row keeps its source as long as that holds), and
`ActiveFilesAreWhole`. What a step may do
to rows falls into few kinds, each of which is a lemma: `RowDropped`, `RowAdded`,
`RowConfirmed`, `PutKeeps`, `NodeDeleted`. An action is left with showing which of
them it is.

A step of `DownloadsSpec` is one of `Spec` or leaves its variables alone, so `Inv` holds
there as well. Of a download `LinksHold` says that the checksum it read is that of
acceptable bytes (by `Verified`, at the moment of the read, whatever becomes of the row) and
that a redirect leads to those bytes or to nothing: the HEAD has seen them, and only a PUT
gives the bucket an object (`BucketEmpties`).

### Access

`AccessProofs` proves of `Access`, for any finite set of ids and any emails and tokens
(`AccessAssumption`):

| Theorem | Statement |
|---|---|
| `AccessTypeCorrect` | `AccessSpec => []AccessTypeOK` |
| `ResolverCorrect` | `AccessSpec => []ResolverMatchesGrants` |
| `AnnouncedCorrect` | `AccessSpec => []AnnouncedSharesOpen` |
| `ReadsCorrect` | `AccessSpec => []ReadsAreTheSubtree` |
| `ReadsStayShared` | `AccessSpec => OnlySharedRowsAreRead` |
| `AccessCorrect` | the invariant `AccessInv` the others follow from |

**The argument.** The owner's steps are steps of RoomTree, so the step lemmas of `RoomTreeProofs`
keep the table's part of `AccessInv` (`TreeStep`). Grants are stated by the parent
pointers: `Around(n)`, a recursive function, is `n` and the rows its path names (`AroundIs`); that
such a function exists is shown by the smallest row without one, and that its climb ends by
the pigeonhole of `PathsAreShort`. Patterns become questions about ancestors (`PatternNames`,
`InsideIs`, `ScopeIs`), and the resolver's *longest path* is the *innermost* folder since the
length of a path is the depth (`LengthIsDepth`). For a request under way only `Scoped` is
invariant: its scope is named by the path it has read, however the node has moved since.
That is enough for `OnlySharedRowsAreRead`, as every query asks for the
scope's prefix of the rows as they are then (`StaleScope`).

### The upload queue

`UploadQueueProofs` proves of `UploadQueue`, for any number of files and slots and
any set of strategies (`UploadQueueAssumption`: the two bounds are numbers, and
undefined is not a strategy):

| Theorem | Statement |
|---|---|
| `TypeCorrect` | `Spec => []TypeOK` |
| `RunsCorrect` | `Spec => []OneRunPerTask` |
| `RefusalsCorrect` | `Spec => []RefusedNeverSent` |
| `QuestionsCorrect` | `Spec => []AskedOnce` |
| `BudgetCorrect` | `Spec => []WithinBudget` |
| `SlotsCorrect` | `Spec => []NoSlotIdle` |
| `CancelsStopRequests` | `Spec => NothingSentAfterCancel` |
| `CancelsAreFinal` | `Spec => CancelIsFinal` |
| `QueueCorrect` | the invariant `Inv` the others follow from |

**The argument.** What a step writes is mostly `Pump(tasks, requests)`, so the
invariant is stated of such a pair (`Consistent`), `PumpKeeps` shows once that
starting queued tasks keeps it, and each action is left with its own tasks and
requests. `OneRunPerTask` needs `Guarded` and the types; `NothingSentAfterCancel`
needs `AbortsReach`: a request that is out belongs to a task that was not
canceled, or was told to abort. That is what the checkpoint alone does not give for
a task that was cleared from the list, and why `putWithProgress` looks at the
signal first. `WithinBudget` counts: `pump` starts the first queued tasks as far as there are
slots, and the first `k` are no more than `k` (`FirstOnes`), nor fewer if a task is left
queued (`FirstFill`). The latter is `NoSlotIdle` for every step that pumps. A cancel does not, and
frees a slot all the same: the property counts requests, of which the canceled run keeps
one out until it ends, and every way it can end pumps.

### The accounts

`AccountsProofs` proves of `Accounts`, for any number of accounts, addresses and
overlapping requests (`NoneAssumption`, `BoundAssumption`: null is no value, the bound is
a number):

| Theorem | Statement |
|---|---|
| `TypeCorrect` | `Spec => []TypeOK` |
| `AddressesUnique` | `Spec => []OneAccountPerAddress` |
| `SessionsAreProven` | `Spec => []SessionsProven` |
| `InvitationsReach` | `Spec => []InvitesReach` |
| `LinksAreKept` | `Spec => LinksStay` |
| `Invariance` | the invariant `Inv` the others follow from |

**The argument.** Requests act on what they read some steps ago, so the invariant
says of each (`Founded`) what of it is still true when it acts: emails and passwords of
a row never change, and an account without a password never changes its Google id
(`Keeps`). `RowsSound` adds that the Google id of an account came with its address in
some session, verified unless the account has no password; a later session by that id
rests on the earlier one.

### The web client

`ClientSessionProofs` proves of `ClientSession`, for any number of accounts and query
slots (`IdentityAssumption`, `SlotAssumption`, `NoneAssumption`: the names are distinct):

| Theorem | Statement |
|---|---|
| `TypeCorrect` | `Spec => []TypeOK` |
| `TokenCorrect` | `Spec => []TokenIsTheRoute` |
| `EvictionCorrect` | `Spec => []GuestAnswersEvicted` |
| `BearerCorrect` | `Spec => []SignedInHasBearer` |
| `Invariance` | the invariant `Inv` the others follow from |

**The argument.** `Fits` says what a call in flight may be, given the location and the
tab's history: one fetched as the guest is dropped off the share route, a sign-in goes
back to the share route only in a tab that has been there, and while the callback page is shown
no call but its own and the startup refresh is out. One lemma per kind of step
(`CallInv`, `GoesInv`, `LoadedInv`) leaves each action with its own call.

### The listing

`FolderViewProofs` proves of `FolderView`, for any finite set of ids, any page size and
any number of mutations and writes (`BoundsAssumption`: ids are numbers, the bounds too and
a page holds at least one row; `NoneAssumption`: null is no cursor, page or fetch):

| Theorem | Statement |
|---|---|
| `OnceCorrect` | `Spec => []UntouchedRowsOnce` |
| `QuietCorrect` | `Spec => []QuietViewIsListing` |
| `ViewCorrect` | the invariant `ViewInv` the others follow from |

**The argument.** Pages are `Faithful` to the folder when each shows of every row, except
the `Excused` ones, exactly what the folder holds between the page's own cursor and the one
before it, and in the folder's order. A page just read is (`PageRight`): the place of a row
is the number of rows before it, so the rows with a place below the limit are a beginning of
what lies beyond the cursor and end at the last of them (`Cut`). A write keeps every page
faithful by excusing its row (`StaysFaithful`). `ViewInv` says this of the pages on screen,
of those a fetch has collected and of every snapshot, each with the writes it is excused
from (`PagesInv`, `FetchInv`, `PrevInv`), so a fetch may be canceled and a snapshot put back
at any step. What is left is when the excuses end: `OwnWrites` says that a row excused for
this user's sake alone belongs to a mutation under way, or will be read again by the refetch
in flight. That refetch is the one `onSettled` asks for, which the mutant that joins a fetch
already begun leaves out; where Load more cancels it, the rows count as `"lost"`. The
cursors then cut the listing into pieces that do not overlap, so an untouched row lies on
one page (`SomePage`, `PagesInOrder`).

### Only model-checked

- *Liveness*: `EveryRequestAnswered`, `PendingFilesEnd`, `UploadsSettle`, `CallsSettle`. The
  prover does not reason about fairness and ENABLED.

Nothing else: every invariant and action property of a passing run is a theorem,
`OneTree` of TreeTx for two requests only, since three moves violate it (`cycle`). For any number
of requests `RightPathsCorrect` says what is left of it; no run repeats that.
The type invariants of RoomTree, UploadQueue and Accounts are theorems that no run repeats, except
that `AccessTypeOK` contains RoomTree's.

Three limits shaped the modules. The library's induction theorems take an operator
as parameter and cannot be used, so an induction is a smallest counterexample
(`Smallest`, from the well-foundedness of `<`). Theorems about an instantiated module
cannot be cited where that module has an assumption of its own, which is why Access extends
RoomTree, and why `TreeTxProofs`, whose module instantiates it with another table, proves what
it needs of paths itself. And sorting and flattening sequences takes recursive operators, which
leave a module without its arithmetic prover; so FolderView keeps the rows of a page as a set
with their places, which says as much of their order.

Proving also corrected the models: `Resolve` of Access had two arms of a CASE that could
both apply, and `RestoredCopiesMatch` was false with more versions than the run has.

## 5. The plan

1. Done: the modules of section 2, their runs and their theorems.
2. A theorem still worth having: that nothing but a live share or the owner's own step
   changes what a holder may open.
3. `resolveAvailableName` over the names taken; several listings of one room in the
   cache at once; two tabs with one cookie.

**Not modelled**: password hashing, token signatures and the exchange with Google,
validation pipes, error formatting, configuration, seeding, the generated API
description, the encoding of cursors and the rendering of the screens. They keep no
state the properties speak of, or are libraries'. Two tabs of one browser share only
the cookie, which `CookieExpires` and the refreshes already change at any time.
