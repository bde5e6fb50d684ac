----------------------------- MODULE FolderView -----------------------------
(* One folder listing on screen: the rows the API holds, its keyset pages,  *)
(* the pages in the query cache, and the optimistic mutations that patch,   *)
(* roll back and refetch them while pages are still loading and others      *)
(* change the folder.                                                       *)
(*                                                                          *)
(* A row's sort key stands for the marker and the column of the sort mode;  *)
(* keys may tie, ids do not.  A page's rows are a set, each with the place  *)
(* the API gave it on the page: patching the page moves none of them.       *)
EXTENDS Integers, Sequences, FiniteSets

CONSTANTS Ids,        \* node ids, numbers so that they are ordered
          MaxKey,     \* bound on sort keys
          Limit,      \* rows per page
          Muts,       \* this user's mutations
          MaxWrites,  \* bound on mutations, writes of others and reconnections
                      \* together
          None

Keys == 1 .. MaxKey
Cursor == [id: Ids, key: Keys]
Page == [items: SUBSET [id: Ids, key: Keys, place: Nat], next: Cursor \cup {None}]
Writes == {"me", "them", "lost"} \X Ids   \* "lost": of mine, with no refetch to come
Fetch == [acc: Seq(Page), goal: Nat, got: Page \cup {None}, missed: SUBSET Writes]

ASSUME BoundsAssumption ==
    /\ Ids \subseteq Nat /\ IsFiniteSet(Ids)
    /\ MaxKey \in Nat /\ Limit \in Nat \ {0} /\ MaxWrites \in Nat
ASSUME NoneAssumption == None \notin Cursor \cup Page \cup Fetch

VARIABLES rows,     \* the folder: per id its sort key, 0 when it is not in it
          pages,    \* the query's data: the pages fetched, <<>> before the first
          failed,   \* the query's status is "error"
          fetch,    \* the fetch in flight, or None
          muts,     \* the mutations
          foreign,  \* how often others wrote or the network came back
          touched   \* history: whose writes the pages on screen may not show, and
                    \* which rows are patched

vars == <<rows, pages, failed, fetch, muts, foreign, touched>>

(******************************* The API's pages ****************************)
Item(i) == [id |-> i, key |-> rows[i]]
After(a, b) == a.key > b.key \/ (a.key = b.key /\ a.id > b.id)

(* Keyset pagination: the rows beyond the cursor in (sort_key, id) order,   *)
(* cut at the limit; one row more than the limit tells whether there is     *)
(* a next page, which starts after the last row of this one.                *)
InFolder == {i \in Ids: rows[i] # 0}
Listing == {Item(i): i \in InFolder}

(* Mutant: the cursor's id is not compared. *)
Beyond_keyOnly(cursor) == {a \in Listing: cursor = None \/ a.key > cursor.key}

Beyond(cursor) == {a \in Listing: cursor = None \/ After(a, cursor)}

Place(a, found) == Cardinality({b \in found: After(a, b)})

listChildren(cursor) ==
    LET found == Beyond(cursor)
        page == {a \in found: Place(a, found) < Limit}
        last == CHOOSE a \in page: \A b \in page: ~After(b, a)
    IN  [items |-> {[id |-> a.id, key |-> a.key, place |-> Place(a, found)]: a \in page},
         next |-> IF Cardinality(found) >= Limit + 1 THEN last ELSE None]

(******************************** The query *********************************)
(* Mutations, each made once.  since: what its snapshot of the pages may    *)
(* not show.                                                                *)
New == [op |-> "new", id |-> 0, key |-> 0, step |-> "none", prev |-> <<>>, since |-> {}]
Done == [New EXCEPT !.step = "done"]
Used == foreign + Cardinality({m \in Muts: muts[m] # New})

Shown == UNION {{<<n, a>>: a \in pages[n].items}: n \in 1 .. Len(pages)}
NextCursor(ps) == IF ps = <<>> THEN None ELSE ps[Len(ps)].next

(* A fetch: the pages it builds on or has so far, how many it is to have,   *)
(* the page it awaits once the API has read it, and what was written since  *)
(* its first page was read.                                                 *)
Refetch(n) == [acc |-> <<>>, goal |-> IF n = 0 THEN 1 ELSE n, got |-> None, missed |-> {}]

Refetching == fetch # None /\ fetch.goal <= Len(pages)

(* The button below the rows, there while a fetch runs too: fetchNextPage   *)
(* cancels that fetch without a word and builds on the pages on screen.  A  *)
(* refetch so canceled does not come back.                                  *)
LoadMore ==
    /\ ~failed /\ Shown # {} /\ NextCursor(pages) # None
    /\ touched' = IF Refetching THEN touched \cup {<<"lost", w[2]>>: w \in touched} ELSE touched
    /\ fetch' = [acc |-> pages, goal |-> Len(pages) + 1, got |-> None, missed |-> touched']
    /\ UNCHANGED <<rows, pages, failed, muts, foreign>>

(* A fetch of it all; a query without data is pending again, not failed.    *)
Refetches ==
    /\ fetch' = Refetch(Len(pages)) /\ failed' = (failed /\ pages # <<>>)
    /\ UNCHANGED <<rows, pages, muts, touched>>

(* The button of ErrorState.                                                *)
Retry == failed /\ Refetches /\ UNCHANGED foreign

(* The network comes back to a stale listing at rest (refetchOnReconnect).  *)
Reconnect ==
    /\ fetch = None /\ Used < MaxWrites
    /\ foreign' = foreign + 1
    /\ Refetches

(* The API reads a page ...                                                 *)
PageRead ==
    /\ fetch # None /\ fetch.got = None
    /\ fetch' = [fetch EXCEPT !.got = listChildren(NextCursor(fetch.acc))]
    /\ UNCHANGED <<rows, pages, failed, muts, foreign, touched>>

(* ... and it arrives: the next one is asked for until there are as many    *)
(* pages as before or no more, and then all of them replace the data.       *)
PageArrives ==
    /\ fetch # None /\ fetch.got # None
    /\ LET acc == Append(fetch.acc, fetch.got)
       IN  IF Len(acc) < fetch.goal /\ fetch.got.next # None
           THEN /\ fetch' = [fetch EXCEPT !.acc = acc, !.got = None]
                /\ UNCHANGED <<pages, failed, touched>>
           ELSE /\ pages' = acc /\ failed' = FALSE /\ fetch' = None
                /\ touched' = fetch.missed
    /\ UNCHANGED <<rows, muts, foreign>>

FetchFails ==
    /\ fetch # None
    /\ fetch' = None /\ failed' = TRUE
    /\ UNCHANGED <<rows, pages, muts, foreign, touched>>

(******************************** Mutations *********************************)
OnScreen(i) == \E s \in Shown: s[2].id = i

(* A write w that no page on screen, in a snapshot or already read shows.   *)
Noted(mu, w) == [m \in Muts |->
    IF mu[m].prev = <<>> THEN mu[m] ELSE [mu[m] EXCEPT !.since = @ \cup {w}]]
Written(w) ==
    /\ touched' = touched \cup {w}
    /\ fetch' = IF fetch = None THEN None ELSE [fetch EXCEPT !.missed = @ \cup {w}]

(* A creation that no refetch will follow.                                  *)
Unnoticed(u, since) ==
    IF u.step = "applied" /\ <<"me", u.id>> \in since THEN since \cup {<<"lost", u.id>>} ELSE since

(* The rows of every loaded page, not just the first, renamed or removed.   *)
patchItems(patched) == [n \in 1 .. Len(pages) |-> [pages[n] EXCEPT !.items = patched[n]]]
Renamed(i, k) == patchItems([n \in 1 .. Len(pages) |->
    {IF a.id = i THEN [a EXCEPT !.key = k] ELSE a: a \in pages[n].items}])
Without(i) == patchItems([n \in 1 .. Len(pages) |->
    {a \in pages[n].items: a.id # i}])

(* onMutate keeps the pages and patches them, which it tells no fetch in    *)
(* flight.                                                                  *)
Sends(m, op, i, k, prev, since) ==
    /\ muts[m] = New /\ Used < MaxWrites /\ ~failed
    /\ muts' = [muts EXCEPT ![m] = [op |-> op, id |-> i, key |-> k, step |-> "sent",
                                     prev |-> prev, since |-> since]]
    /\ UNCHANGED <<rows, failed, fetch, foreign>>
Patches(m, op, i, k) ==
    /\ Sends(m, op, i, k, pages, touched)
    /\ touched' = touched \cup {<<"me", i>>}

RenameNode(m, i, k) ==
    /\ \E s \in Shown: s[2].id = i /\ s[2].key # k
    /\ Patches(m, "rename", i, k)
    /\ pages' = Renamed(i, k)

(* A delete, or a move to another folder: the row leaves this one.          *)
RemoveNode(m, i) ==
    /\ OnScreen(i) /\ Patches(m, "remove", i, 0)
    /\ pages' = Without(i)

(* The server assigns the id, so a new folder is not shown in advance.  In  *)
(* a subfolder the button is there before the listing is.                   *)
CreateFolder(m, i, k) ==
    /\ i \notin InFolder /\ Sends(m, "create", i, k, <<>>, {})
    /\ UNCHANGED <<pages, touched>>

(* The API does what it is asked, to a row that may have left the folder    *)
(* meanwhile, or refuses: the name is taken, the row is gone.               *)
Applied(m) ==
    LET u == muts[m] IN
    /\ u.step = "sent"
    /\ u.op = "create" => u.id \notin InFolder
    /\ rows' = IF u.op = "create" \/ u.id \in InFolder THEN [rows EXCEPT ![u.id] = u.key] ELSE rows
    /\ Written(<<"me", u.id>>)
    /\ muts' = Noted([muts EXCEPT ![m].step = "applied", ![m].key = 0], <<"me", u.id>>)
    /\ UNCHANGED <<pages, failed, foreign>>

Refused(m) ==
    /\ muts[m].step = "sent"
    /\ muts' = [muts EXCEPT ![m].step = "refused", ![m].key = 0]
    /\ UNCHANGED <<rows, pages, failed, fetch, foreign, touched>>

(* Mutant: a fetch begun before the write counts as the refetch. *)
Invalidated_joins(u, ps) == IF fetch # None THEN fetch ELSE Refetch(Len(ps))

(* invalidateQueries of a listing on screen: the fetch in flight gives way  *)
(* to a new one of all its pages, except that the very first load goes on.  *)
Invalidated(u, ps) ==
    IF ps = <<>> /\ fetch # None THEN [fetch EXCEPT !.missed = Unnoticed(u, @)]
    ELSE Refetch(Len(ps))

(* Success, and onSettled: the listing is invalidated.                      *)
Succeeds(m) ==
    /\ muts[m].step = "applied"
    /\ muts' = [muts EXCEPT ![m] = Done]
    /\ fetch' = Invalidated(muts[m], pages) /\ failed' = (failed /\ pages # <<>>)
    /\ UNCHANGED <<rows, pages, foreign, touched>>

(* An error, which a lost answer is too: the pages are put back as this     *)
(* mutation found them, whatever happened since, and invalidated.  Creating *)
(* a folder does neither.                                                   *)
restore(m) ==
    /\ muts[m].op # "create" /\ muts[m].step \in {"sent", "applied", "refused"}
    /\ muts' = [muts EXCEPT ![m] = Done]
    /\ pages' = muts[m].prev /\ failed' = FALSE /\ touched' = muts[m].since
    /\ fetch' = Invalidated(muts[m], muts[m].prev)
    /\ UNCHANGED <<rows, foreign>>

CreateFails(m) ==
    /\ muts[m].op = "create" /\ muts[m].step \in {"sent", "applied", "refused"}
    /\ muts' = [muts EXCEPT ![m] = Done]
    /\ touched' = Unnoticed(muts[m], touched)
    /\ fetch' = IF fetch = None THEN None ELSE [fetch EXCEPT !.missed = Unnoticed(muts[m], @)]
    /\ UNCHANGED <<rows, pages, failed, foreign>>

(* Somebody else adds, changes or removes a row, or the API does what this  *)
(* user asked for over a connection given up since.                         *)
Foreign(i, k) ==
    /\ Used < MaxWrites /\ rows[i] # k
    /\ foreign' = foreign + 1
    /\ rows' = [rows EXCEPT ![i] = k]
    /\ Written(<<"them", i>>) /\ muts' = Noted(muts, <<"them", i>>)
    /\ UNCHANGED <<pages, failed>>

----------------------------------------------------------------------------
Init ==
    /\ rows \in [Ids -> 0 .. MaxKey]
    /\ pages = <<>> /\ failed = FALSE /\ fetch = Refetch(1)
    /\ muts = [m \in Muts |-> New]
    /\ foreign = 0 /\ touched = {}

Next ==
    \/ LoadMore \/ Retry \/ Reconnect \/ PageRead \/ PageArrives \/ FetchFails
    \/ \E m \in Muts, i \in Ids, k \in Keys: RenameNode(m, i, k) \/ CreateFolder(m, i, k)
    \/ \E m \in Muts, i \in Ids: RemoveNode(m, i)
    \/ \E m \in Muts: Applied(m) \/ Refused(m) \/ Succeeds(m) \/ restore(m) \/ CreateFails(m)
    \/ \E i \in Ids, k \in 0 .. MaxKey: Foreign(i, k)

Spec == Init /\ [][Next]_vars

----------------------------------------------------------------------------
Settled == fetch = None /\ ~failed
Pending == \E m \in Muts: muts[m].step \in {"sent", "applied", "refused"}
Reached(i) == NextCursor(pages) = None \/ ~After(Item(i), NextCursor(pages))
Times(i) == Cardinality({s \in Shown: s[2].id = i})
RowOf(s) == [id |-> s[2].id, key |-> s[2].key]
Above(s, t) == s[1] < t[1] \/ (s[1] = t[1] /\ s[2].place < t[2].place)

(* Paging through a folder that others change, and that this user changes,  *)
(* rolls back and refetches meanwhile, neither repeats nor skips a row that *)
(* nobody touched since the pages on screen were read: every such row up to *)
(* the last cursor is on screen exactly once, although each page was read   *)
(* at another moment, and a fetch canceled by the next (listChildren's      *)
(* keyset condition, fetchNextPage, useNodeMutations' snapshots).           *)
UntouchedRowsOnce ==
    pages # <<>> =>
        \A i \in Ids: (\A who \in {"me", "them", "lost"}: <<who, i>> \notin touched) =>
            Times(i) = IF i \in InFolder /\ Reached(i) THEN 1 ELSE 0

(* Once this user's mutations have settled and the page is at rest, the     *)
(* rows on screen are the start of the folder's true listing, whatever was  *)
(* patched, rolled back over one another or read in between: onSettled's    *)
(* invalidation repairs every snapshot (useNodeMutations).  Exempt is what  *)
(* others wrote since, and what of this user's no refetch followed: a       *)
(* creation reported as failed or answered during the very first load, and  *)
(* rows whose refetch Load more canceled.                                   *)
QuietViewIsListing ==
    Settled /\ ~Pending /\ (\A w \in touched: w[1] = "me") =>
        /\ \A s \in Shown: RowOf(s) \in Listing
        /\ \A s, t \in Shown: s # t => (Above(s, t) <=> After(RowOf(t), RowOf(s)))
        /\ \A s \in Shown, a \in Listing: After(RowOf(s), a) => \E t \in Shown: RowOf(t) = a
        /\ (NextCursor(pages) = None) <=> (\A a \in Listing: \E t \in Shown: RowOf(t) = a)
=============================================================================
