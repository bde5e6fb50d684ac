-------------------------- MODULE FolderViewProofs --------------------------
(***************************************************************************)
(* What holds of FolderView for any folder, page size and number of        *)
(* mutations.                                                              *)
(*                                                                         *)
(* The argument: pages are Faithful to the folder when each shows, of      *)
(* every row but those written or patched since, exactly what the folder   *)
(* holds between the page's two cursors.  A page just read is (PageRight,  *)
(* which rests on the places being a count of the rows before: Cut), and   *)
(* it stays so under every write and patch (StaysFaithful), on screen, in  *)
(* a fetch and in the snapshot of a mutation alike, so that whatever       *)
(* replaces the pages on screen is faithful too.  Beside that, no row      *)
(* written by this user is left out for long: while the listing is neither *)
(* failed nor being read again, each is one of a mutation under way or one *)
(* that no refetch followed (OwnWrites).  The cursors of a faithful chain  *)
(* cut the listing into pieces, so a row lies on one page (SomePage,       *)
(* PagesInOrder).                                                          *)
(***************************************************************************)
EXTENDS FolderView, FiniteSetTheorems, WellFoundedInduction, TLAPS

-----------------------------------------------------------------------------
(* The invariant *)

(* Row i as the folder r holds it.                                         *)
Held(r, i) == [id |-> i, key |-> r[i]]

(* The rows between two cursors, the first excluded, the second included;  *)
(* None is no bound.                                                       *)
Within(a, c, d) == (c = None \/ After(a, c)) /\ (d = None \/ ~After(a, d))
Start(ps, n) == IF n = 1 THEN None ELSE ps[n - 1].next

(* What a page shows of row i is what the folder holds of it between the   *)
(* page's two cursors.                                                     *)
PageShows(r, i, items, c, d) ==
    /\ \A a \in items : a.id = i => r[i] # 0 /\ a.key = r[i] /\ Within(Held(r, i), c, d)
    /\ r[i] # 0 /\ Within(Held(r, i), c, d) => \E a \in items : a.id = i
Right(r, i, ps) ==
    \A n \in 1 .. Len(ps) : PageShows(r, i, ps[n].items, Start(ps, n), ps[n].next)

(* The two rows stand in the folder's order wherever they share a page.    *)
PageOrders(r, i, j, items) == \A a, b \in items :
    a.id = i /\ b.id = j => (a.place < b.place <=> After(Held(r, j), Held(r, i)))
InOrder(r, i, j, ps) == \A n \in 1 .. Len(ps) : PageOrders(r, i, j, ps[n].items)

OneEach(ps) == \A n \in 1 .. Len(ps) : \A a, b \in ps[n].items : a.id = b.id => a = b
Chained(ps) == \A n \in 1 .. Len(ps) :
    /\ n < Len(ps) => ps[n].next # None
    /\ \A k \in 1 .. n - 1 : ps[n].next # None => After(ps[n].next, ps[k].next)
MoreToCome(r, E, ps) == NextCursor(ps) # None =>
    E # {} \/ \E i \in Ids : r[i] # 0 /\ After(Held(r, i), NextCursor(ps))

(* The pages show the folder r but for the rows E.                         *)
Faithful(r, E, ps) ==
    /\ OneEach(ps) /\ Chained(ps) /\ MoreToCome(r, E, ps)
    /\ \A i \in Ids \ E : Right(r, i, ps)
    /\ \A i, j \in Ids \ E : InOrder(r, i, j, ps)

(* The rows that pages need not show right, given the writes and patches   *)
(* since they were read.                                                   *)
Of(S) == {i \in Ids : <<"me", i>> \in S \/ <<"them", i>> \in S \/ <<"lost", i>> \in S}

(* This user's writes in S belong to mutations under way, or no refetch    *)
(* followed them.                                                          *)
Underway(u) == u.step = "applied" \/ (u.op # "create" /\ u.step \in {"sent", "refused"})
Accounted(mu, S) == \A i \in Ids : <<"me", i>> \in S =>
    <<"lost", i>> \in S \/ \E m \in Muts : mu[m].id = i /\ Underway(mu[m])

(* The pages a fetch has read so far.                                      *)
Fetched(f) == IF f.got = None THEN f.acc ELSE Append(f.acc, f.got)

Sent == [op : {"rename", "remove", "create"}, id : Ids, key : 0 .. MaxKey,
         step : {"sent", "applied", "refused"}, prev : Seq(Page), since : SUBSET Writes]
ViewTypeOK ==
    /\ rows \in [Ids -> 0 .. MaxKey]
    /\ pages \in Seq(Page)
    /\ failed \in BOOLEAN
    /\ fetch \in Fetch \cup {None}
    /\ muts \in [Muts -> Sent \cup {New, Done}]
    /\ touched \subseteq Writes

(* A listing that is neither loading nor failed has pages; a rename or a   *)
(* removal starts from pages and keeps them.                               *)
HasPages ==
    /\ Settled => pages # <<>>
    /\ failed /\ pages = <<>> => fetch = None
    /\ \A m \in Muts : muts[m] \in Sent /\ muts[m].op # "create" =>
           pages # <<>> /\ muts[m].prev # <<>>

PagesInv == Faithful(rows, Of(touched), pages)
FetchInv == fetch # None =>
    /\ Faithful(rows, Of(fetch.missed), Fetched(fetch))
    /\ fetch.got = None /\ fetch.acc # <<>> => NextCursor(fetch.acc) # None
PrevInv == \A m \in Muts : muts[m] \in Sent => Faithful(rows, Of(muts[m].since), muts[m].prev)
OwnWrites ==
    /\ fetch # None => Accounted(muts, fetch.missed)
    /\ pages # <<>> /\ ~failed /\ ~Refetching => Accounted(muts, touched)

ViewInv == ViewTypeOK /\ HasPages /\ PagesInv /\ FetchInv /\ PrevInv /\ OwnWrites

-----------------------------------------------------------------------------
(* The order of the rows, and a page *)

(* Every set of numbers has a smallest. *)
LEMMA Smallest ==
    ASSUME NEW T, T \subseteq Nat, T # {}
    PROVE  \E x \in T : \A y \in T : x <= y
<1>1. PICK x \in T : \A y \in T : ~ (<<y, x>> \in OpToRel(<, Nat))
  BY NatLessThanWellFounded, WFMin
<1>2. \A y \in T : ~ (y < x)
  BY <1>1 DEF OpToRel
<1> QED
  BY <1>2

(* A cursor is two numbers. *)
LEMMA CursorFields ==
    ASSUME NEW a \in Cursor
    PROVE  /\ a.id \in Ids /\ a.id \in Nat
           /\ a.key \in Keys /\ a.key \in Nat /\ a.key # 0
           /\ a = [id |-> a.id, key |-> a.key]
<1>1. a.id \in Ids
  BY DEF Cursor
<1>2. a.id \in Nat
  BY <1>1, BoundsAssumption
<1>3. a.key \in Keys
  BY DEF Cursor
<1>4. a.key \in Nat /\ a.key # 0
  BY <1>3, BoundsAssumption DEF Keys
<1>5. a = [id |-> a.id, key |-> a.key]
  BY DEF Cursor
<1> QED
  BY <1>1, <1>2, <1>3, <1>4, <1>5

(* (sort_key, id) is a strict total order of the rows. *)
LEMMA AfterOrder ==
    ASSUME NEW a \in Cursor, NEW b \in Cursor, NEW c \in Cursor
    PROVE  /\ ~After(a, a)
           /\ After(a, b) => ~After(b, a)
           /\ After(a, b) /\ After(b, c) => After(a, c)
           /\ ~After(a, b) => b = a \/ After(b, a)
<1>1. a.id \in Nat /\ b.id \in Nat /\ c.id \in Nat /\ a.key \in Nat /\ b.key \in Nat /\ c.key \in Nat
  BY CursorFields
<1>2. a.id = b.id /\ a.key = b.key => a = b
  BY DEF Cursor
<1> QED
  BY <1>1, <1>2 DEF After

(* Places are numbers in the order of the rows. *)
LEMMA PlaceOrder ==
    ASSUME NEW F \in SUBSET Cursor, IsFiniteSet(F), NEW a \in F, NEW b \in F
    PROVE  /\ Place(a, F) \in Nat /\ Place(a, F) <= Cardinality(F)
           /\ Place(a, F) < Place(b, F) <=> After(b, a)
<1> DEFINE Below(x) == {y \in F : After(x, y)}
<1>1. \A x \in F : /\ IsFiniteSet(Below(x)) /\ Place(x, F) = Cardinality(Below(x))
                   /\ Place(x, F) \in Nat /\ Place(x, F) <= Cardinality(F)
  BY FS_Subset, FS_CardinalityType DEF Place
<1>2. ASSUME NEW x \in F, NEW y \in F, After(y, x)
      PROVE  Place(x, F) < Place(y, F)
  <2>1. Below(x) \subseteq Below(y)
    BY <1>2, AfterOrder
  <2>2. x \in Below(y) /\ x \notin Below(x)
    BY <1>2, AfterOrder
  <2>3. Below(x) # Below(y)
    BY <2>2
  <2> HIDE DEF Below
  <2>4. /\ Cardinality(Below(x)) <= Cardinality(Below(y))
        /\ Cardinality(Below(x)) # Cardinality(Below(y))
    BY <1>1, <2>1, <2>3, FS_Subset, Zenon
  <2>5. Place(x, F) \in Nat /\ Place(y, F) \in Nat
        /\ Place(x, F) = Cardinality(Below(x)) /\ Place(y, F) = Cardinality(Below(y))
    BY <1>1
  <2> QED
    BY <2>4, <2>5
<1>3. Place(a, F) \in Nat /\ Place(b, F) \in Nat
  BY <1>1
<1>4. After(b, a) => Place(a, F) < Place(b, F)
  BY <1>2
<1>5. After(a, b) => Place(b, F) < Place(a, F)
  BY <1>2
<1>6. a \in Cursor /\ b \in Cursor
  OBVIOUS
<1>7. ~After(b, a) => a = b \/ After(a, b)
  BY <1>6, AfterOrder
<1>8. Place(a, F) < Place(b, F) => ~(Place(b, F) < Place(a, F)) /\ a # b
  BY <1>3
<1> QED
  BY <1>1, <1>4, <1>5, <1>7, <1>8

(* Finitely many rows have a first and a last one. *)
LEMMA FirstAndLast ==
    ASSUME NEW F \in SUBSET Cursor, IsFiniteSet(F), NEW S \in SUBSET F, S # {}
    PROVE  /\ \E a \in S : \A b \in S : ~After(a, b)
           /\ \E a \in S : \A b \in S : ~After(b, a)
<1>1. \A a \in F : Place(a, F) \in Nat /\ Place(a, F) <= Cardinality(F)
  BY PlaceOrder
<1>2. Cardinality(F) \in Nat
  BY FS_CardinalityType
<1> DEFINE T == {Place(a, F) : a \in S}
           U == {Cardinality(F) - Place(b, F) : b \in S}
<1>a. T \subseteq Nat /\ T # {}
  BY <1>1
<1>b. U \subseteq Nat /\ U # {}
  <2>1. ASSUME NEW b \in S
        PROVE  Cardinality(F) - Place(b, F) \in Nat
    BY <1>1, <1>2
  <2> QED
    BY <2>1
<1> HIDE DEF T, U
<1>3. PICK x \in T : \A y \in T : x <= y
  BY <1>a, Smallest
<1>4. PICK a \in S : x = Place(a, F)
  BY <1>3 DEF T
<1>5. ASSUME NEW b \in S
      PROVE  ~After(a, b)
  <2>1. Place(a, F) <= Place(b, F)
    BY <1>3, <1>4 DEF T
  <2>2. Place(b, F) \in Nat /\ Place(a, F) \in Nat
    BY <1>1
  <2>3. After(a, b) => Place(b, F) < Place(a, F)
    BY PlaceOrder
  <2> QED
    BY <2>1, <2>2, <2>3
<1>7. PICK z \in U : \A y \in U : z <= y
  BY <1>b, Smallest
<1>8. PICK c \in S : z = Cardinality(F) - Place(c, F)
  BY <1>7 DEF U
<1>9. ASSUME NEW b \in S
      PROVE  Place(b, F) <= Place(c, F)
  <2>1. z <= Cardinality(F) - Place(b, F)
    BY <1>7 DEF U
  <2>2. Place(b, F) \in Nat /\ Place(c, F) \in Nat
    BY <1>1
  <2> QED
    BY <1>2, <1>8, <2>1, <2>2
<1>10. ASSUME NEW b \in S
       PROVE  ~After(b, c)
  <2>1. Place(b, F) \in Nat /\ Place(c, F) \in Nat
    BY <1>1
  <2>2. After(b, c) => Place(c, F) < Place(b, F)
    BY PlaceOrder
  <2> QED
    BY <1>9, <2>1, <2>2
<1> QED
  BY <1>5, <1>10

(* The first Limit rows of what was found: all of it, or all up to the     *)
(* last of them, beyond which there is another.                            *)
LEMMA Cut ==
    ASSUME NEW F \in SUBSET Cursor, IsFiniteSet(F),
           NEW page, page = {a \in F : Place(a, F) < Limit},
           NEW last, last = CHOOSE a \in page : \A b \in page : ~After(b, a)
    PROVE  /\ ~(Cardinality(F) >= Limit + 1) => page = F
           /\ Cardinality(F) >= Limit + 1 =>
                  /\ last \in page /\ page = {a \in F : ~After(a, last)}
                  /\ \E a \in F : After(a, last)
<1>0. Limit \in Nat /\ Limit > 0 /\ Cardinality(F) \in Nat
  BY FS_CardinalityType, BoundsAssumption
<1>1. ASSUME NEW a \in F
      PROVE  {b \in F : After(a, b)} \subseteq F \ {a} /\ IsFiniteSet(F \ {a})
             /\ Cardinality(F \ {a}) = Cardinality(F) - 1 /\ Place(a, F) \in Nat
  BY AfterOrder, FS_RemoveElement, PlaceOrder
<1>2. ASSUME NEW a \in F
      PROVE  Place(a, F) <= Cardinality(F) - 1 /\ Place(a, F) \in Nat
  <2>1. Cardinality({b \in F : After(a, b)}) <= Cardinality(F \ {a})
    BY <1>1, FS_Subset, Zenon
  <2> QED
    BY <1>1, <2>1 DEF Place
<1>3. ASSUME ~(Cardinality(F) >= Limit + 1)
      PROVE  page = F
  <2>1. ASSUME NEW a \in F
        PROVE  Place(a, F) < Limit
    BY <1>0, <1>2, <1>3
  <2> QED
    BY <2>1
<1>4. ASSUME Cardinality(F) >= Limit + 1
      PROVE  /\ last \in page /\ page = {a \in F : ~After(a, last)}
             /\ \E a \in F : After(a, last)
  <2>1. F # {}
    BY <1>0, <1>4, FS_EmptySet
  <2>2. PICK f \in F : \A b \in F : ~After(f, b)
    BY <2>1, FirstAndLast
  <2>3. Place(f, F) = 0
    BY <2>2, FS_EmptySet DEF Place
  <2>4. page # {} /\ page \subseteq F
    BY <1>0, <2>3
  <2>5. last \in page /\ \A b \in page : ~After(b, last)
    BY <2>4, FirstAndLast
  <2>6. ASSUME NEW a \in F, ~After(a, last)
        PROVE  a \in page
    <3>1. a = last \/ After(last, a)
      BY <2>4, <2>5, <2>6, AfterOrder
    <3>2. After(last, a) => Place(a, F) < Place(last, F)
      BY <2>4, <2>5, PlaceOrder
    <3>3. Place(a, F) \in Nat /\ Place(last, F) \in Nat /\ Place(last, F) < Limit
      BY <1>2, <2>4, <2>5
    <3>4. CASE a = last
      BY <3>4, <2>4, <2>5
    <3>5. CASE Place(a, F) < Place(last, F)
      <4>1. Place(a, F) < Limit
        BY <1>0, <3>3, <3>5
      <4> QED
        BY <4>1
    <3> QED
      BY <3>1, <3>2, <3>4, <3>5
  <2>7. PICK z \in F : \A b \in F : ~After(b, z)
    BY <2>1, FirstAndLast
  <2>8. {b \in F : After(z, b)} = F \ {z}
    BY <2>7, AfterOrder
  <2>9. Place(z, F) = Cardinality(F) - 1
    BY <1>1, <2>8 DEF Place
  <2>10. z \notin page
    BY <1>0, <1>4, <2>9
  <2> QED
    BY <2>4, <2>5, <2>6, <2>7, <2>10
<1> QED
  BY <1>3, <1>4

-----------------------------------------------------------------------------
(* The page the API reads *)

(* What listChildren returns beyond a cursor shows the folder as it is, in  *)
(* order, and its cursor moves on as long as there is more.                 *)
LEMMA PageRight ==
    ASSUME rows \in [Ids -> 0 .. MaxKey],
           NEW c \in Cursor \cup {None}, NEW p, p = listChildren(c)
    PROVE  /\ p \in Page
           /\ \A i \in Ids : PageShows(rows, i, p.items, c, p.next)
           /\ \A i, j \in Ids : PageOrders(rows, i, j, p.items)
           /\ \A a, b \in p.items : a.id = b.id => a = b
           /\ p.next # None =>
                  /\ c # None => After(p.next, c)
                  /\ \E i \in Ids : rows[i] # 0 /\ After(Held(rows, i), p.next)
<1> DEFINE F == Beyond(c)
           pg == {a \in F : Place(a, F) < Limit}
           last == CHOOSE a \in pg : \A b \in pg : ~After(b, a)
           more == Cardinality(F) >= Limit + 1
<1>1. ASSUME NEW i \in Ids, rows[i] # 0
      PROVE  Held(rows, i) \in Cursor
  <2>1. rows[i] \in Keys
    BY <1>1, BoundsAssumption DEF Keys
  <2> QED
    BY <2>1 DEF Held, Cursor
<1>2. F = {Held(rows, i) : i \in {j \in Ids : rows[j] # 0 /\ (c = None \/ After(Held(rows, j), c))}}
  BY DEF Beyond, Listing, InFolder, Item, Held
<1>3. F \subseteq Cursor
  BY <1>1, <1>2
<1>4. IsFiniteSet(F)
  <2>1. IsFiniteSet({j \in Ids : rows[j] # 0 /\ (c = None \/ After(Held(rows, j), c))})
    BY FS_Subset, BoundsAssumption
  <2> DEFINE J == {j \in Ids : rows[j] # 0 /\ (c = None \/ After(Held(rows, j), c))}
             f == [j \in J |-> Held(rows, j)]
  <2>2. f \in [J -> F] /\ \A a \in F : \E j \in J : f[j] = a
    BY <1>2
  <2>3. f \in Surjection(J, F)
    BY <2>2 DEF Surjection
  <2> HIDE DEF f, F
  <2> QED
    BY <2>1, <2>3, FS_Surjection
<1>5. /\ p.items = {[id |-> a.id, key |-> a.key, place |-> Place(a, F)] : a \in pg}
      /\ p.next = IF more THEN last ELSE None
      /\ p = [items |-> p.items, next |-> p.next]
  BY DEF listChildren
<1>6. /\ ~more => pg = F
      /\ more => last \in pg /\ pg = {a \in F : ~After(a, last)} /\ \E a \in F : After(a, last)
  <2>1. pg = {a \in F : Place(a, F) < Limit} /\ last = CHOOSE a \in pg : \A b \in pg : ~After(b, a)
    OBVIOUS
  <2> HIDE DEF pg, last, F
  <2> QED
    BY <1>3, <1>4, <2>1, Cut
<1>7. \A a, b \in F : Place(a, F) \in Nat /\ (Place(a, F) < Place(b, F) <=> After(b, a))
  BY <1>3, <1>4, PlaceOrder
<1>8. pg \subseteq F
  OBVIOUS
<1>9. more => last # None
  BY <1>3, <1>6, <1>8, NoneAssumption
<1> HIDE DEF pg, last, more, F
<1>10. \A a \in F : a.id \in Ids /\ rows[a.id] # 0 /\ a = Held(rows, a.id)
                     /\ a.key = rows[a.id] /\ (c = None \/ After(a, c))
  <2> SUFFICES ASSUME NEW a \in F
               PROVE  a.id \in Ids /\ rows[a.id] # 0 /\ a = Held(rows, a.id)
                      /\ a.key = rows[a.id] /\ (c = None \/ After(a, c))
    OBVIOUS
  <2>1. PICK j \in Ids : rows[j] # 0 /\ (c = None \/ After(Held(rows, j), c)) /\ a = Held(rows, j)
    BY <1>2
  <2>2. Held(rows, j).id = j /\ Held(rows, j).key = rows[j]
    BY DEF Held
  <2> QED
    BY <2>1, <2>2
<1>11. \A a \in F : Within(a, c, p.next) <=> a \in pg
  BY <1>5, <1>6, <1>9, <1>10 DEF Within
<1>12. \A i \in Ids : rows[i] # 0 /\ Within(Held(rows, i), c, p.next) <=> Held(rows, i) \in pg
  BY <1>2, <1>8, <1>11, <1>10 DEF Within, Held
<1>13. p \in Page
  <2>1. p.items \subseteq [id : Ids, key : Keys, place : Nat]
    BY <1>5, <1>7, <1>8, <1>3, CursorFields
  <2>2. p.next \in Cursor \cup {None}
    BY <1>5, <1>6, <1>8, <1>3
  <2> QED
    BY <1>5, <2>1, <2>2 DEF Page
<1>14. ASSUME NEW i \in Ids
       PROVE  PageShows(rows, i, p.items, c, p.next)
  <2>1. ASSUME NEW a \in p.items, a.id = i
        PROVE  rows[i] # 0 /\ a.key = rows[i] /\ Within(Held(rows, i), c, p.next)
    <3>1. PICK b \in pg : a = [id |-> b.id, key |-> b.key, place |-> Place(b, F)]
      BY <1>5
    <3>2. b = Held(rows, i) /\ b.key = rows[i] /\ a.key = b.key
      BY <1>8, <1>10, <2>1, <3>1
    <3> QED
      BY <1>12, <3>2
  <2>2. ASSUME rows[i] # 0, Within(Held(rows, i), c, p.next)
        PROVE  \E a \in p.items : a.id = i
    <3>1. Held(rows, i) \in pg /\ Held(rows, i).id = i
      BY <1>12, <2>2 DEF Held
    <3>2. PICK b : b \in pg /\ b.id = i
      BY <3>1
    <3>3. [id |-> b.id, key |-> b.key, place |-> Place(b, F)] \in p.items
      BY <1>5, <3>2
    <3> QED
      BY <3>2, <3>3
  <2> QED
    BY <2>1, <2>2 DEF PageShows
<1>15. ASSUME NEW i \in Ids, NEW j \in Ids
       PROVE  PageOrders(rows, i, j, p.items)
  <2> SUFFICES ASSUME NEW a \in p.items, NEW b \in p.items, a.id = i, b.id = j
               PROVE  a.place < b.place <=> After(Held(rows, j), Held(rows, i))
    BY DEF PageOrders
  <2>1. PICK x \in pg : a = [id |-> x.id, key |-> x.key, place |-> Place(x, F)]
    BY <1>5
  <2>2. PICK y \in pg : b = [id |-> y.id, key |-> y.key, place |-> Place(y, F)]
    BY <1>5
  <2>3. x = Held(rows, i) /\ y = Held(rows, j)
    BY <1>8, <1>10, <2>1, <2>2
  <2>4. a.place = Place(x, F) /\ b.place = Place(y, F)
    BY <2>1, <2>2
  <2> QED
    BY <1>7, <1>8, <2>3, <2>4
<1>16. ASSUME NEW a \in p.items, NEW b \in p.items, a.id = b.id
       PROVE  a = b
  <2>1. PICK x \in pg : a = [id |-> x.id, key |-> x.key, place |-> Place(x, F)]
    BY <1>5
  <2>2. PICK y \in pg : b = [id |-> y.id, key |-> y.key, place |-> Place(y, F)]
    BY <1>5
  <2>3. x = y
    BY <1>8, <1>10, <1>16, <2>1, <2>2
  <2> QED
    BY <2>1, <2>2, <2>3
<1>17. ASSUME p.next # None
       PROVE  /\ c # None => After(p.next, c)
              /\ \E i \in Ids : rows[i] # 0 /\ After(Held(rows, i), p.next)
  BY <1>5, <1>6, <1>8, <1>10, <1>17
<1> QED
  BY <1>13, <1>14, <1>15, <1>16, <1>17
-----------------------------------------------------------------------------
(* Pages that show the folder *)

LEMMA EmptyFaithful ==
    ASSUME NEW r, NEW E
    PROVE  Faithful(r, E, <<>>)
<1>1. Len(<<>>) = 0 /\ \A n \in 1 .. Len(<<>>) : FALSE
  OBVIOUS
<1>2. OneEach(<<>>) /\ Chained(<<>>) /\ MoreToCome(r, E, <<>>)
  BY <1>1 DEF OneEach, Chained, MoreToCome, NextCursor
<1>3. \A i, j \in Ids : Right(r, i, <<>>) /\ InOrder(r, i, j, <<>>)
  BY <1>1 DEF Right, InOrder
<1> QED
  BY <1>2, <1>3 DEF Faithful

(* q is ps and one more page, p. *)
Longer(ps, p, q) ==
    /\ q \in Seq(Page) /\ q # <<>> /\ Len(ps) \in Nat /\ Len(q) = Len(ps) + 1
    /\ \A n \in 1 .. Len(q) : IF n = Len(q) THEN q[n] = p
                             ELSE n \in 1 .. Len(ps) /\ q[n] = ps[n]
    /\ \A n \in 1 .. Len(ps) : q[n] = ps[n] /\ Start(q, n) = Start(ps, n)
    /\ Start(q, Len(q)) = NextCursor(ps) /\ NextCursor(q) = p.next

LEMMA Appended ==
    ASSUME NEW ps \in Seq(Page), NEW p \in Page
    PROVE  Longer(ps, p, Append(ps, p))
<1> DEFINE q == Append(ps, p)
<1>1. q \in Seq(Page) /\ Len(ps) \in Nat /\ Len(q) = Len(ps) + 1 /\ q[Len(q)] = p
  OBVIOUS
<1>2. q # <<>>
  BY <1>1
<1>3. \A n \in 1 .. Len(ps) : q[n] = ps[n]
  OBVIOUS
<1>4. \A n \in 1 .. Len(q) : n # Len(q) => n \in 1 .. Len(ps)
  BY <1>1
<1>5. ASSUME NEW n \in 1 .. Len(ps)
      PROVE  Start(q, n) = Start(ps, n)
  <2>1. n # 1 => n - 1 \in 1 .. Len(ps)
    BY <1>1
  <2> QED
    BY <1>3, <2>1 DEF Start
<1>6. NextCursor(q) = p.next
  BY <1>1, <1>2 DEF NextCursor
<1>7. Start(q, Len(q)) = NextCursor(ps)
  <2>1. CASE ps = <<>>
    BY <1>1, <2>1 DEF Start, NextCursor
  <2>2. CASE ps # <<>>
    <3>1. Len(ps) \in 1 .. Len(ps) /\ Len(q) # 1 /\ Len(q) - 1 = Len(ps)
      BY <1>1, <2>2
    <3> QED
      BY <1>3, <2>2, <3>1 DEF Start, NextCursor
  <2> QED
    BY <2>1, <2>2
<1> HIDE DEF q
<1>8. Longer(ps, p, q)
  BY <1>1, <1>2, <1>3, <1>4, <1>5, <1>6, <1>7 DEF Longer
<1> QED
  BY <1>8 DEF q

(* A page read after faithful ones, from their cursor. *)
LEMMA AppendFaithful ==
    ASSUME NEW r, NEW E, NEW ps \in Seq(Page), Faithful(r, E, ps),
           ps # <<>> => NextCursor(ps) # None,
           NEW p \in Page,
           \A i \in Ids : PageShows(r, i, p.items, NextCursor(ps), p.next),
           \A i, j \in Ids : PageOrders(r, i, j, p.items),
           \A a, b \in p.items : a.id = b.id => a = b,
           p.next # None =>
               /\ NextCursor(ps) # None => After(p.next, NextCursor(ps))
               /\ \E i \in Ids : r[i] # 0 /\ After(Held(r, i), p.next)
    PROVE  Faithful(r, E, Append(ps, p))
<1> DEFINE q == Append(ps, p)
<1>1. /\ q \in Seq(Page) /\ q # <<>> /\ Len(ps) \in Nat /\ Len(q) = Len(ps) + 1
      /\ \A n \in 1 .. Len(q) : IF n = Len(q) THEN q[n] = p
                               ELSE n \in 1 .. Len(ps) /\ q[n] = ps[n]
      /\ \A n \in 1 .. Len(ps) : q[n] = ps[n] /\ Start(q, n) = Start(ps, n)
      /\ Start(q, Len(q)) = NextCursor(ps) /\ NextCursor(q) = p.next
  <2>1. Longer(ps, p, q)
    BY Appended
  <2> QED
    BY <2>1 DEF Longer
<1> HIDE DEF q
<1>2. OneEach(q)
  BY <1>1 DEF OneEach, Faithful
<1>3. Chained(q)
  <2> SUFFICES ASSUME NEW n \in 1 .. Len(q)
               PROVE  /\ n < Len(q) => q[n].next # None
                      /\ \A k \in 1 .. n - 1 : q[n].next # None => After(q[n].next, q[k].next)
    BY DEF Chained
  <2>1. CASE n # Len(q)
    <3>1. n \in 1 .. Len(ps) /\ q[n] = ps[n] /\ \A k \in 1 .. n - 1 : k \in 1 .. Len(ps) /\ q[k] = ps[k]
      BY <1>1, <2>1
    <3>2. /\ n < Len(ps) => ps[n].next # None
          /\ \A k \in 1 .. n - 1 : ps[n].next # None => After(ps[n].next, ps[k].next)
      BY <3>1 DEF Faithful, Chained
    <3>3. n = Len(ps) => ps[n].next # None
      <4>1. n = Len(ps) => ps # <<>> /\ NextCursor(ps) = ps[n].next
        BY <3>1 DEF NextCursor
      <4> QED
        BY <4>1
    <3>4. n < Len(ps) \/ n = Len(ps)
      BY <1>1, <3>1
    <3> QED
      BY <3>1, <3>2, <3>3, <3>4
  <2>2. CASE n = Len(q)
    <3> SUFFICES ASSUME NEW k \in 1 .. n - 1, q[n].next # None
                 PROVE  After(q[n].next, q[k].next)
      BY <1>1, <2>2
    <3>1. k \in 1 .. Len(ps) /\ q[k] = ps[k] /\ Len(ps) \in 1 .. Len(ps) /\ ps # <<>> /\ q[n] = p
      BY <1>1, <2>2
    <3>2. NextCursor(ps) = ps[Len(ps)].next /\ NextCursor(ps) # None
      BY <3>1 DEF NextCursor
    <3>3. After(p.next, ps[Len(ps)].next)
      BY <3>1, <3>2
    <3>4. CASE k = Len(ps)
      BY <3>1, <3>3, <3>4
    <3>5. CASE k # Len(ps)
      <4>1. k < Len(ps) /\ k \in 1 .. Len(ps) - 1
        BY <1>1, <3>1, <3>5
      <4>2. ps[k].next # None /\ After(ps[Len(ps)].next, ps[k].next)
        BY <3>1, <3>2, <4>1 DEF Faithful, Chained
      <4>3. ps[k] \in Page /\ ps[Len(ps)] \in Page
        BY <3>1
      <4>4. p.next \in Cursor /\ ps[k].next \in Cursor /\ ps[Len(ps)].next \in Cursor
        BY <3>1, <3>2, <4>2, <4>3 DEF Page
      <4> QED
        BY <3>1, <3>3, <4>2, <4>4, AfterOrder
    <3> QED
      BY <3>4, <3>5
  <2> QED
    BY <2>1, <2>2
<1>4. MoreToCome(r, E, q)
  BY <1>1 DEF MoreToCome
<1>5. ASSUME NEW i \in Ids \ E
      PROVE  Right(r, i, q)
  BY <1>1, <1>5 DEF Right, Faithful
<1>6. ASSUME NEW i \in Ids \ E, NEW j \in Ids \ E
      PROVE  InOrder(r, i, j, q)
  BY <1>1, <1>6 DEF InOrder, Faithful
<1> QED
  BY <1>2, <1>3, <1>4, <1>5, <1>6 DEF Faithful, q

(* A step that excuses the rows it writes and those whose rows on the pages *)
(* it changes, and no row less than before, leaves the pages faithful.      *)
LEMMA StaysFaithful ==
    ASSUME NEW r, NEW E, NEW ps, Faithful(r, E, ps),
           NEW s, NEW G, NEW qs,
           E \subseteq G, G \subseteq Ids,
           \A i \in Ids \ G : s[i] = r[i],
           Len(qs) = Len(ps), (qs = <<>>) <=> (ps = <<>>),
           \A n \in 1 .. Len(ps) : qs[n].next = ps[n].next,
           Len(ps) \in Nat,
           OneEach(qs),
           \A i \in Ids \ G : \A n \in 1 .. Len(ps) :
               {a \in qs[n].items : a.id = i} = {a \in ps[n].items : a.id = i}
    PROVE  Faithful(s, G, qs)
<1>1. Chained(qs)
  BY DEF Chained, Faithful
<1>2. ps # <<>> => NextCursor(qs) = NextCursor(ps)
  BY DEF NextCursor
<1>3. \A i \in Ids \ G : Held(s, i) = Held(r, i)
  BY DEF Held
<1>4. MoreToCome(s, G, qs)
  BY <1>2, <1>3 DEF MoreToCome, Faithful, NextCursor
<1>5. \A n \in 1 .. Len(qs) : Start(qs, n) = Start(ps, n)
  BY DEF Start
<1>6. ASSUME NEW i \in Ids \ G
      PROVE  Right(s, i, qs)
  <2>1. Right(r, i, ps)
    BY DEF Faithful
  <2> SUFFICES ASSUME NEW n \in 1 .. Len(ps), PageShows(r, i, ps[n].items, Start(ps, n), ps[n].next)
               PROVE  PageShows(s, i, qs[n].items, Start(qs, n), qs[n].next)
    BY <2>1 DEF Right
  <2>2. \A a : a \in qs[n].items /\ a.id = i <=> a \in ps[n].items /\ a.id = i
    <3>1. {a \in qs[n].items : a.id = i} = {a \in ps[n].items : a.id = i}
      OBVIOUS
    <3> QED
      BY <3>1
  <2>3. Start(qs, n) = Start(ps, n) /\ qs[n].next = ps[n].next /\ Held(s, i) = Held(r, i) /\ s[i] = r[i]
    BY <1>3, <1>5
  <2> QED
    BY <2>2, <2>3 DEF PageShows
<1>7. ASSUME NEW i \in Ids \ G, NEW j \in Ids \ G
      PROVE  InOrder(s, i, j, qs)
  <2>1. InOrder(r, i, j, ps)
    BY DEF Faithful
  <2> SUFFICES ASSUME NEW n \in 1 .. Len(ps), NEW a \in qs[n].items, NEW b \in qs[n].items,
                      a.id = i, b.id = j
               PROVE  a.place < b.place <=> After(Held(s, j), Held(s, i))
    BY DEF InOrder, PageOrders
  <2>2. a \in {x \in qs[n].items : x.id = i} /\ b \in {x \in qs[n].items : x.id = j}
    OBVIOUS
  <2>3. a \in {x \in ps[n].items : x.id = i} /\ b \in {x \in ps[n].items : x.id = j}
    BY <2>2
  <2> QED
    BY <1>3, <2>1, <2>3 DEF InOrder, PageOrders
<1> QED
  BY <1>1, <1>4, <1>6, <1>7 DEF Faithful
-----------------------------------------------------------------------------
(* Fetches, mutations and what was written since *)

LEMMA FetchFields ==
    ASSUME NEW f \in Fetch
    PROVE  /\ f # None /\ f.acc \in Seq(Page) /\ f.goal \in Nat
           /\ f.got \in Page \cup {None} /\ f.missed \subseteq Writes
           /\ Fetched(f) \in Seq(Page)
           /\ f.got = None => Fetched(f) = f.acc
<1>1. /\ f # None /\ f.acc \in Seq(Page) /\ f.goal \in Nat
      /\ f.got \in Page \cup {None} /\ f.missed \subseteq Writes
  BY NoneAssumption DEF Fetch
<1>2. f.got # None => Append(f.acc, f.got) \in Seq(Page)
  BY <1>1
<1> QED
  BY <1>1, <1>2 DEF Fetched

LEMMA Refetched ==
    ASSUME NEW n \in Nat
    PROVE  /\ Refetch(n) \in Fetch /\ Refetch(n) # None
           /\ Refetch(n).acc = <<>> /\ Refetch(n).got = None /\ Fetched(Refetch(n)) = <<>>
           /\ Refetch(n).missed = {} /\ (n # 0 => Refetch(n).goal = n)
<1>1. <<>> \in Seq(Page) /\ {} \subseteq Writes
  OBVIOUS
<1>2. /\ Refetch(n) = [acc |-> <<>>, goal |-> IF n = 0 THEN 1 ELSE n, got |-> None, missed |-> {}]
      /\ (IF n = 0 THEN 1 ELSE n) \in Nat
  BY DEF Refetch
<1>3. Refetch(n) \in Fetch
  BY <1>1, <1>2 DEF Fetch
<1>4. Refetch(n).acc = <<>> /\ Refetch(n).got = None /\ Refetch(n).missed = {}
  BY <1>2
<1>5. n # 0 => Refetch(n).goal = n
  BY <1>2
<1> QED
  BY <1>3, <1>4, <1>5, FetchFields

LEMMA SamePages ==
    ASSUME NEW r, NEW E, NEW ps \in Seq(Page), Faithful(r, E, ps),
           NEW s, NEW G, E \subseteq G, G \subseteq Ids, \A i \in Ids \ G : s[i] = r[i]
    PROVE  Faithful(s, G, ps)
<1>1. Len(ps) \in Nat /\ OneEach(ps)
  BY DEF Faithful
<1> QED
  BY <1>1, StaysFaithful

LEMMA MutFields ==
    ASSUME ViewTypeOK, NEW m \in Muts
    PROVE  /\ muts[m] \in Sent \cup {New, Done}
           /\ muts[m].step \in {"sent", "applied", "refused"} <=> muts[m] \in Sent
           /\ muts[m] \notin Sent => ~Underway(muts[m])
           /\ New # Done /\ New \notin Sent /\ Done \notin Sent /\ ~Underway(Done) /\ ~Underway(New)
<1>1. muts[m] \in Sent \cup {New, Done}
  BY DEF ViewTypeOK
<1>2. New.step = "none" /\ Done.step = "done"
  BY DEF New, Done
<1>3. \A u \in Sent : u.step \in {"sent", "applied", "refused"}
  BY DEF Sent
<1>4. ~Underway(Done) /\ ~Underway(New)
  BY <1>2 DEF Underway
<1> QED
  BY <1>1, <1>2, <1>3, <1>4

LEMMA OfGrows ==
    ASSUME NEW S, NEW T, S \subseteq T
    PROVE  Of(S) \subseteq Of(T) /\ Of(T) \subseteq Ids
BY DEF Of

(* Writes stay accounted for when mutations under way stay so and what is   *)
(* new is accounted for.                                                    *)
LEMMA AccountedGrows ==
    ASSUME NEW mu, NEW nu, NEW S, NEW T, Accounted(mu, S), S \subseteq T,
           \A m \in Muts : Underway(mu[m]) => nu[m].id = mu[m].id /\ Underway(nu[m]),
           \A i \in Ids : <<"me", i>> \in T \ S => \E m \in Muts : nu[m].id = i /\ Underway(nu[m])
    PROVE  Accounted(nu, T)
<1> SUFFICES ASSUME NEW i \in Ids, <<"me", i>> \in T, <<"lost", i>> \notin T
             PROVE  \E m \in Muts : nu[m].id = i /\ Underway(nu[m])
  BY DEF Accounted
<1>1. CASE <<"me", i>> \notin S
  BY <1>1
<1>2. CASE <<"me", i>> \in S
  <2>1. <<"lost", i>> \notin S
    OBVIOUS
  <2>2. PICK m \in Muts : mu[m].id = i /\ Underway(mu[m])
    BY <1>2, <2>1 DEF Accounted
  <2> QED
    BY <2>2
<1> QED
  BY <1>1, <1>2

(* The invariant's parts, in a step that notes what it writes.              *)
LEMMA PagesKept ==
    ASSUME ViewInv, pages' = pages, Of(touched) \subseteq Of(touched'),
           \A j \in Ids \ Of(touched') : rows'[j] = rows[j]
    PROVE  PagesInv'
<1>1. Faithful(rows, Of(touched), pages) /\ pages \in Seq(Page)
  BY DEF ViewInv, PagesInv, ViewTypeOK
<1>2. Of(touched') \subseteq Ids
  BY DEF Of
<1>3. Faithful(rows', Of(touched'), pages)
  BY <1>1, <1>2, SamePages
<1> QED
  BY <1>3 DEF PagesInv

LEMMA FetchKept ==
    ASSUME ViewInv,
           fetch' # None =>
               /\ fetch # None /\ fetch'.acc = fetch.acc /\ fetch'.got = fetch.got
               /\ Of(fetch.missed) \subseteq Of(fetch'.missed)
               /\ \A j \in Ids \ Of(fetch'.missed) : rows'[j] = rows[j]
    PROVE  FetchInv'
<1> SUFFICES ASSUME fetch' # None
             PROVE  /\ Faithful(rows', Of(fetch'.missed), Fetched(fetch'))
                    /\ fetch'.got = None /\ fetch'.acc # <<>> => NextCursor(fetch'.acc) # None
  BY DEF FetchInv
<1>1. fetch \in Fetch
  BY DEF ViewInv, ViewTypeOK
<1>2. PICK ps \in Seq(Page) : ps = Fetched(fetch)
  BY <1>1, FetchFields
<1>3. Fetched(fetch') = ps
  BY <1>2 DEF Fetched
<1>4. Faithful(rows, Of(fetch.missed), ps)
  BY <1>2 DEF ViewInv, FetchInv
<1>5. Of(fetch'.missed) \subseteq Ids
  BY DEF Of
<1>6. Faithful(rows', Of(fetch'.missed), ps)
  BY <1>4, <1>5, SamePages
<1>7. fetch'.got = None /\ fetch'.acc # <<>> => NextCursor(fetch'.acc) # None
  BY DEF ViewInv, FetchInv
<1> QED
  BY <1>3, <1>6, <1>7

LEMMA PrevKept ==
    ASSUME ViewInv,
           \A m \in Muts : muts'[m] \in Sent =>
               \/ muts'[m].prev = <<>>
               \/ /\ muts[m] \in Sent /\ muts'[m].prev = muts[m].prev
                  /\ Of(muts[m].since) \subseteq Of(muts'[m].since)
                  /\ \A j \in Ids \ Of(muts'[m].since) : rows'[j] = rows[j]
    PROVE  PrevInv'
<1> SUFFICES ASSUME NEW m \in Muts, muts'[m] \in Sent
             PROVE  Faithful(rows', Of(muts'[m].since), muts'[m].prev)
  BY DEF PrevInv
<1>1. CASE muts'[m].prev = <<>>
  BY <1>1, EmptyFaithful
<1>2. CASE /\ muts[m] \in Sent /\ muts'[m].prev = muts[m].prev
           /\ Of(muts[m].since) \subseteq Of(muts'[m].since)
           /\ \A j \in Ids \ Of(muts'[m].since) : rows'[j] = rows[j]
  <2>1. PICK ps \in Seq(Page) : ps = muts[m].prev
    BY <1>2 DEF Sent
  <2>2. Faithful(rows, Of(muts[m].since), ps)
    BY <1>2, <2>1 DEF ViewInv, PrevInv
  <2>3. Of(muts'[m].since) \subseteq Ids
    BY DEF Of
  <2>4. Faithful(rows', Of(muts'[m].since), ps)
    BY <1>2, <2>2, <2>3, SamePages
  <2> QED
    BY <1>2, <2>1, <2>4
<1> QED
  BY <1>1, <1>2
-----------------------------------------------------------------------------
(* Each action keeps the invariant *)

LEMMA LoadMoreKeeps ==
    ASSUME ViewInv, LoadMore
    PROVE  ViewInv'
<1>1. /\ ~failed /\ NextCursor(pages) # None
      /\ touched' = IF Refetching THEN touched \cup {<<"lost", w[2]>> : w \in touched} ELSE touched
      /\ fetch' = [acc |-> pages, goal |-> Len(pages) + 1, got |-> None, missed |-> touched']
      /\ rows' = rows /\ pages' = pages /\ failed' = failed /\ muts' = muts
  BY DEF LoadMore
<1>2. pages \in Seq(Page) /\ touched \subseteq Writes /\ Len(pages) + 1 \in Nat
  BY DEF ViewInv, ViewTypeOK
<1>3. pages # <<>>
  BY <1>1 DEF NextCursor
<1>4. touched' \subseteq Writes /\ touched \subseteq touched'
  <2>1. \A w \in touched : w[2] \in Ids
    BY <1>2 DEF Writes
  <2>2. {<<"lost", w[2]>> : w \in touched} \subseteq Writes
    BY <2>1 DEF Writes
  <2> QED
    BY <1>1, <1>2, <2>2
<1>5. PICK T \in SUBSET Writes : T = touched'
  BY <1>4
<1>6. PICK f \in Fetch : f = fetch'
  BY <1>1, <1>2, <1>5 DEF Fetch
<1>7. f # None /\ f.acc = pages /\ f.got = None /\ f.missed = T /\ Fetched(f) = pages
  BY <1>1, <1>5, <1>6, FetchFields
<1>8. ViewTypeOK'
  BY <1>1, <1>4, <1>6 DEF ViewInv, ViewTypeOK
<1>9. HasPages'
  BY <1>1, <1>3 DEF ViewInv, HasPages
<1>10. PagesInv'
  BY <1>1, <1>4, OfGrows, PagesKept
<1>11. FetchInv'
  BY <1>1, <1>5, <1>6, <1>7, <1>10 DEF FetchInv, PagesInv
<1>12. PrevInv'
  BY <1>1 DEF ViewInv, PrevInv
<1>13. Accounted(muts, T)
  <2>1. CASE Refetching
    <3> SUFFICES ASSUME NEW i \in Ids, <<"me", i>> \in T
                 PROVE  <<"lost", i>> \in T
      BY DEF Accounted
    <3>1. PICK w : w = <<"me", i>>
      OBVIOUS
    <3>2. w \in touched /\ w[2] = i
      BY <1>1, <1>5, <2>1, <3>1
    <3>3. <<"lost", w[2]>> \in T
      BY <1>1, <1>5, <2>1, <3>2
    <3> QED
      BY <3>2, <3>3
  <2>2. CASE ~Refetching
    BY <1>1, <1>3, <1>5, <2>2 DEF ViewInv, OwnWrites
  <2> QED
    BY <2>1, <2>2
<1>14. OwnWrites'
  BY <1>1, <1>5, <1>6, <1>7, <1>13 DEF OwnWrites
<1> QED
  BY <1>8, <1>9, <1>10, <1>11, <1>12, <1>14 DEF ViewInv

(* A fetch of all the pages from the first.                                 *)
LEMMA RefetchKeeps ==
    ASSUME ViewTypeOK', HasPages', PagesInv', PrevInv',
           NEW n \in Nat, n = Len(pages'), fetch' = Refetch(n)
    PROVE  ViewInv'
<1>1. PICK f \in Fetch : /\ f = fetch' /\ f # None /\ f.acc = <<>> /\ f.got = None
                         /\ Fetched(f) = <<>> /\ f.missed = {} /\ (n # 0 => f.goal = n)
  BY Refetched
<1>2. Faithful(rows', Of(fetch'.missed), <<>>)
  BY EmptyFaithful
<1>3. FetchInv'
  BY <1>1, <1>2 DEF FetchInv
<1>4. pages' # <<>> => n # 0
  BY DEF ViewTypeOK
<1>5. pages' # <<>> => Refetching'
  BY <1>1, <1>4 DEF Refetching
<1>6. Accounted(muts', {})
  BY DEF Accounted
<1>7. OwnWrites'
  BY <1>1, <1>5, <1>6 DEF OwnWrites
<1> QED
  BY <1>3, <1>7 DEF ViewInv

LEMMA RefetchesKeeps ==
    ASSUME ViewInv, Refetches
    PROVE  ViewInv'
<1>1. /\ fetch' = Refetch(Len(pages)) /\ Len(pages) \in Nat
      /\ failed' \in BOOLEAN /\ (failed' => pages # <<>>)
      /\ rows' = rows /\ pages' = pages /\ muts' = muts /\ touched' = touched
  <2>1. failed \in BOOLEAN /\ Len(pages) \in Nat
    BY DEF ViewInv, ViewTypeOK
  <2> QED
    BY <2>1 DEF Refetches
<1>2. fetch' \in Fetch /\ fetch' # None
  BY <1>1, Refetched
<1>3. ViewTypeOK'
  BY <1>1, <1>2 DEF ViewInv, ViewTypeOK
<1>4. HasPages'
  BY <1>1, <1>2 DEF ViewInv, HasPages, Settled
<1>5. PagesInv' /\ PrevInv'
  BY <1>1 DEF ViewInv, PagesInv, PrevInv
<1> QED
  BY <1>1, <1>3, <1>4, <1>5, RefetchKeeps

LEMMA PageReadKeeps ==
    ASSUME ViewInv, PageRead
    PROVE  ViewInv'
<1>1. /\ fetch \in Fetch /\ fetch # None /\ fetch.got = None
      /\ fetch' = [fetch EXCEPT !.got = listChildren(NextCursor(fetch.acc))]
      /\ rows' = rows /\ pages' = pages /\ failed' = failed /\ muts' = muts /\ touched' = touched
      /\ rows \in [Ids -> 0 .. MaxKey]
  BY DEF PageRead, ViewInv, ViewTypeOK
<1>2. PICK f \in Fetch : f = fetch
  BY <1>1
<1>3. /\ f.acc \in Seq(Page) /\ f.missed \subseteq Writes /\ Fetched(f) = f.acc
      /\ Faithful(rows, Of(f.missed), f.acc)
      /\ f.acc # <<>> => NextCursor(f.acc) # None
  BY <1>1, <1>2, FetchFields DEF ViewInv, FetchInv
<1>4. NextCursor(f.acc) \in Cursor \cup {None}
  <2>1. CASE f.acc # <<>>
    <3>1. f.acc[Len(f.acc)] \in Page
      BY <1>3, <2>1
    <3> QED
      BY <2>1, <3>1 DEF NextCursor, Page
  <2> QED
    BY <2>1 DEF NextCursor
<1>5. PICK c \in Cursor \cup {None} : c = NextCursor(f.acc)
  BY <1>4
<1>6. PICK p : p = listChildren(c)
  OBVIOUS
<1>7. /\ p \in Page
      /\ \A i \in Ids : PageShows(rows, i, p.items, c, p.next)
      /\ \A i, j \in Ids : PageOrders(rows, i, j, p.items)
      /\ \A a, b \in p.items : a.id = b.id => a = b
      /\ p.next # None =>
             /\ c # None => After(p.next, c)
             /\ \E i \in Ids : rows[i] # 0 /\ After(Held(rows, i), p.next)
  BY <1>1, <1>6, PageRight
<1>8. Faithful(rows, Of(f.missed), Append(f.acc, p))
  BY <1>3, <1>5, <1>7, AppendFaithful
<1>9. PICK g : g = [f EXCEPT !.got = p]
  OBVIOUS
<1>10. g \in Fetch /\ g.acc = f.acc /\ g.got = p /\ g.missed = f.missed /\ g.goal = f.goal
  BY <1>7, <1>9 DEF Fetch
<1>11. fetch' = g
  BY <1>1, <1>2, <1>5, <1>6, <1>9
<1>12. g # None /\ p # None /\ Fetched(g) = Append(f.acc, p)
  BY <1>7, <1>10, NoneAssumption DEF Fetched
<1>13. ViewTypeOK'
  BY <1>1, <1>10, <1>11 DEF ViewInv, ViewTypeOK
<1>14. HasPages'
  BY <1>1, <1>11, <1>12 DEF ViewInv, HasPages, Settled
<1>15. FetchInv'
  BY <1>1, <1>8, <1>10, <1>11, <1>12 DEF FetchInv
<1>16. PagesInv' /\ PrevInv'
  BY <1>1 DEF ViewInv, PagesInv, PrevInv
<1>17. Refetching' <=> Refetching
  BY <1>1, <1>2, <1>10, <1>11, <1>12 DEF Refetching
<1>18. OwnWrites'
  BY <1>1, <1>2, <1>10, <1>11, <1>17 DEF ViewInv, OwnWrites
<1> QED
  BY <1>13, <1>14, <1>15, <1>16, <1>18 DEF ViewInv

LEMMA PageArrivesKeeps ==
    ASSUME ViewInv, PageArrives
    PROVE  ViewInv'
<1>1. /\ fetch \in Fetch /\ fetch # None /\ fetch.got # None
      /\ rows' = rows /\ muts' = muts
  BY DEF PageArrives, ViewInv, ViewTypeOK
<1>2. PICK f \in Fetch : f = fetch
  BY <1>1
<1>3. PICK acc : acc = Append(f.acc, f.got)
  OBVIOUS
<1>4. /\ f.acc \in Seq(Page) /\ f.got \in Page /\ f.missed \subseteq Writes
      /\ acc \in Seq(Page) /\ acc # <<>> /\ NextCursor(acc) = f.got.next
  <2>1. f.acc \in Seq(Page) /\ f.got \in Page /\ f.missed \subseteq Writes
    BY <1>1, <1>2, FetchFields
  <2>2. Longer(f.acc, f.got, acc)
    BY <1>3, <2>1, Appended
  <2> QED
    BY <2>1, <2>2 DEF Longer
<1>5. Faithful(rows, Of(f.missed), acc) /\ Accounted(muts, f.missed)
  BY <1>1, <1>2, <1>3 DEF ViewInv, FetchInv, Fetched, OwnWrites
<1>6. PrevInv'
  BY <1>1 DEF ViewInv, PrevInv
<1>7. CASE Len(acc) < f.goal /\ f.got.next # None
  <2>1. /\ fetch' = [f EXCEPT !.acc = acc, !.got = None]
        /\ pages' = pages /\ failed' = failed /\ touched' = touched
    BY <1>2, <1>3, <1>7 DEF PageArrives
  <2>2. PICK g : g = [f EXCEPT !.acc = acc, !.got = None]
    OBVIOUS
  <2>3. g \in Fetch /\ g.acc = acc /\ g.got = None /\ g.missed = f.missed /\ g.goal = f.goal
    BY <1>4, <2>2 DEF Fetch
  <2>4. fetch' = g /\ g # None /\ Fetched(g) = acc
    BY <2>1, <2>2, <2>3, NoneAssumption DEF Fetched
  <2>5. ViewTypeOK'
    BY <1>1, <2>1, <2>3, <2>4 DEF ViewInv, ViewTypeOK
  <2>6. HasPages'
    BY <1>1, <2>1, <2>4 DEF ViewInv, HasPages, Settled
  <2>7. FetchInv'
    BY <1>1, <1>4, <1>5, <1>7, <2>3, <2>4 DEF FetchInv
  <2>8. PagesInv'
    BY <1>1, <2>1 DEF ViewInv, PagesInv
  <2>9. Refetching' <=> Refetching
    BY <1>1, <1>2, <2>1, <2>3, <2>4 DEF Refetching
  <2>10. OwnWrites'
    BY <1>1, <1>5, <2>1, <2>3, <2>4, <2>9 DEF ViewInv, OwnWrites
  <2> QED
    BY <1>6, <2>5, <2>6, <2>7, <2>8, <2>10 DEF ViewInv
<1>8. CASE ~(Len(acc) < f.goal /\ f.got.next # None)
  <2>1. pages' = acc /\ failed' = FALSE /\ fetch' = None /\ touched' = f.missed
    BY <1>2, <1>3, <1>8 DEF PageArrives
  <2>2. ViewTypeOK'
    BY <1>1, <1>4, <2>1 DEF ViewInv, ViewTypeOK
  <2>3. HasPages'
    BY <1>1, <1>4, <2>1 DEF ViewInv, HasPages
  <2>4. FetchInv' /\ PagesInv' /\ OwnWrites'
    BY <1>1, <1>5, <2>1 DEF FetchInv, PagesInv, OwnWrites
  <2> QED
    BY <1>6, <2>2, <2>3, <2>4 DEF ViewInv
<1> QED
  BY <1>7, <1>8

LEMMA FetchFailsKeeps ==
    ASSUME ViewInv, FetchFails
    PROVE  ViewInv'
BY DEF FetchFails, ViewInv, ViewTypeOK, HasPages, FetchInv, PagesInv, PrevInv, OwnWrites, Settled

LEMMA NotedFields ==
    ASSUME NEW mu \in [Muts -> Sent \cup {New, Done}], NEW w \in Writes, NEW m \in Muts
    PROVE  /\ Noted(mu, w) \in [Muts -> Sent \cup {New, Done}]
           /\ Noted(mu, w)[m] \in Sent => mu[m] \in Sent
           /\ Noted(mu, w)[m].id = mu[m].id /\ Noted(mu, w)[m].op = mu[m].op
           /\ Noted(mu, w)[m].step = mu[m].step /\ Noted(mu, w)[m].prev = mu[m].prev
           /\ mu[m].prev # <<>> => Noted(mu, w)[m].since = mu[m].since \cup {w}
<1>1. New.prev = <<>> /\ Done.prev = <<>>
  BY DEF New, Done
<1>2. ASSUME NEW n \in Muts
      PROVE  /\ mu[n].prev = <<>> => Noted(mu, w)[n] = mu[n]
             /\ mu[n].prev # <<>> =>
                    /\ mu[n] \in Sent /\ Noted(mu, w)[n] \in Sent
                    /\ Noted(mu, w)[n].id = mu[n].id /\ Noted(mu, w)[n].op = mu[n].op
                    /\ Noted(mu, w)[n].step = mu[n].step /\ Noted(mu, w)[n].prev = mu[n].prev
                    /\ Noted(mu, w)[n].since = mu[n].since \cup {w}
  <2>1. mu[n].prev = <<>> => Noted(mu, w)[n] = mu[n]
    BY DEF Noted
  <2>2. ASSUME mu[n].prev # <<>>
        PROVE  /\ mu[n] \in Sent /\ Noted(mu, w)[n] \in Sent
               /\ Noted(mu, w)[n].id = mu[n].id /\ Noted(mu, w)[n].op = mu[n].op
               /\ Noted(mu, w)[n].step = mu[n].step /\ Noted(mu, w)[n].prev = mu[n].prev
               /\ Noted(mu, w)[n].since = mu[n].since \cup {w}
    <3>1. PICK u \in Sent : u = mu[n]
      BY <1>1, <2>2
    <3>2. PICK W \in SUBSET Writes : W = u.since \cup {w}
      BY DEF Sent
    <3>3. PICK v : v = [u EXCEPT !.since = W]
      OBVIOUS
    <3>4. Noted(mu, w)[n] = v
      BY <2>2, <3>1, <3>2, <3>3 DEF Noted
    <3>5. /\ v \in Sent /\ v.id = u.id /\ v.op = u.op /\ v.step = u.step /\ v.prev = u.prev
          /\ v.since = W
      BY <3>3 DEF Sent
    <3> QED
      BY <3>1, <3>2, <3>4, <3>5
  <2> QED
    BY <2>1, <2>2
<1>3. Noted(mu, w) \in [Muts -> Sent \cup {New, Done}]
  <2>1. \A n \in Muts : Noted(mu, w)[n] \in Sent \cup {New, Done}
    BY <1>2
  <2>2. Noted(mu, w) = [n \in Muts |-> Noted(mu, w)[n]]
    BY DEF Noted
  <2> QED
    BY <2>1, <2>2
<1> QED
  BY <1>2, <1>3

(* Somebody writes row i.  mu are the mutations but for what they note.     *)
LEMMA WriteKeeps ==
    ASSUME ViewInv, NEW who \in {"me", "them"}, NEW i \in Ids, Written(<<who, i>>),
           rows' \in [Ids -> 0 .. MaxKey], \A j \in Ids : j # i => rows'[j] = rows[j],
           pages' = pages, failed' = failed,
           NEW mu \in [Muts -> Sent \cup {New, Done}], muts' = Noted(mu, <<who, i>>),
           \A m \in Muts : mu[m] \in Sent =>
               /\ muts[m] \in Sent /\ mu[m].op = muts[m].op
               /\ mu[m].prev = muts[m].prev /\ mu[m].since = muts[m].since,
           \A m \in Muts : Underway(muts[m]) => mu[m].id = muts[m].id /\ Underway(mu[m]),
           who = "me" => \E m \in Muts : mu[m].id = i /\ Underway(mu[m])
    PROVE  ViewInv'
<1>1. PICK w \in Writes : w = <<who, i>>
  BY DEF Writes
<1>2. touched' = touched \cup {w} /\ touched' \subseteq Writes /\ (fetch = None => fetch' = None)
  BY <1>1 DEF Written, ViewInv, ViewTypeOK
<1>3. ASSUME fetch # None
      PROVE  /\ fetch' \in Fetch /\ fetch'.acc = fetch.acc /\ fetch'.got = fetch.got
             /\ fetch'.goal = fetch.goal /\ fetch'.missed = fetch.missed \cup {w}
  <2>1. PICK f \in Fetch : f = fetch
    BY <1>3 DEF ViewInv, ViewTypeOK
  <2>2. PICK W \in SUBSET Writes : W = f.missed \cup {w}
    BY FetchFields
  <2>3. PICK g : g = [f EXCEPT !.missed = W]
    OBVIOUS
  <2>4. g \in Fetch /\ g.missed = W /\ g.acc = f.acc /\ g.got = f.got /\ g.goal = f.goal
    BY <2>3 DEF Fetch
  <2>5. fetch' = g
    BY <1>1, <1>3, <2>1, <2>2, <2>3 DEF Written
  <2> QED
    BY <2>1, <2>2, <2>4, <2>5
<1>4. muts' = Noted(mu, w)
  BY <1>1
<1>5. ASSUME NEW m \in Muts
      PROVE  /\ muts'[m] \in Sent => mu[m] \in Sent
             /\ muts'[m].id = mu[m].id /\ muts'[m].op = mu[m].op
             /\ muts'[m].step = mu[m].step /\ muts'[m].prev = mu[m].prev
             /\ mu[m].prev # <<>> => muts'[m].since = mu[m].since \cup {w}
  <2>1. PICK nu : nu = Noted(mu, w)
    OBVIOUS
  <2>2. /\ nu[m] \in Sent => mu[m] \in Sent
        /\ nu[m].id = mu[m].id /\ nu[m].op = mu[m].op
        /\ nu[m].step = mu[m].step /\ nu[m].prev = mu[m].prev
        /\ mu[m].prev # <<>> => nu[m].since = mu[m].since \cup {w}
    <3>1. /\ Noted(mu, w) \in [Muts -> Sent \cup {New, Done}]
          /\ Noted(mu, w)[m] \in Sent => mu[m] \in Sent
          /\ Noted(mu, w)[m].id = mu[m].id /\ Noted(mu, w)[m].op = mu[m].op
          /\ Noted(mu, w)[m].step = mu[m].step /\ Noted(mu, w)[m].prev = mu[m].prev
          /\ mu[m].prev # <<>> => Noted(mu, w)[m].since = mu[m].since \cup {w}
      BY NotedFields
    <3> QED
      BY <2>1, <3>1, Zenon
  <2> QED
    BY <1>4, <2>1, <2>2
<1>6. muts' \in [Muts -> Sent \cup {New, Done}]
  <2>1. CASE Muts # {}
    <3>1. Noted(mu, w) \in [Muts -> Sent \cup {New, Done}]
      BY <2>1, NotedFields, Zenon
    <3> QED
      BY <1>4, <3>1
  <2>2. CASE Muts = {}
    BY <1>4, <2>2 DEF Noted
  <2> QED
    BY <2>1, <2>2
<1>7. ViewTypeOK'
  <2>1. fetch' \in Fetch \cup {None}
    BY <1>2, <1>3
  <2>2. pages' \in Seq(Page) /\ failed' \in BOOLEAN
    BY DEF ViewInv, ViewTypeOK
  <2> QED
    BY <1>2, <1>6, <2>1, <2>2 DEF ViewTypeOK
<1>8. HasPages'
  <2>1. fetch' = None => fetch = None
    BY <1>3, FetchFields
  <2>2. Settled' => pages' # <<>>
    BY <2>1 DEF ViewInv, HasPages, Settled
  <2>3. \A m \in Muts : muts'[m] \in Sent /\ muts'[m].op # "create" =>
            pages' # <<>> /\ muts'[m].prev # <<>>
    BY <1>5 DEF ViewInv, HasPages
  <2>4. failed' /\ pages' = <<>> => fetch' = None
    BY <1>2 DEF ViewInv, HasPages
  <2> QED
    BY <2>2, <2>3, <2>4 DEF HasPages
<1>9. ASSUME NEW S, NEW T, T = S \cup {w}
      PROVE  Of(S) \subseteq Of(T) /\ \A j \in Ids \ Of(T) : rows'[j] = rows[j]
  <2>1. i \in Of(T)
    BY <1>1, <1>9 DEF Of
  <2>2. Of(S) \subseteq Of(T)
    BY <1>9, OfGrows
  <2> QED
    BY <2>1, <2>2
<1>10. PagesInv'
  BY <1>2, <1>9, PagesKept
<1>11. FetchInv'
  <2>1. fetch' # None => fetch # None
    BY <1>2
  <2>2. fetch # None => /\ Of(fetch.missed) \subseteq Of(fetch'.missed)
                        /\ \A j \in Ids \ Of(fetch'.missed) : rows'[j] = rows[j]
    BY <1>3, <1>9
  <2> QED
    BY <1>3, <2>1, <2>2, FetchKept
<1>12. PrevInv'
  <2>1. ASSUME NEW m \in Muts, muts'[m] \in Sent, muts'[m].prev # <<>>
        PROVE  /\ muts[m] \in Sent /\ muts'[m].prev = muts[m].prev
               /\ Of(muts[m].since) \subseteq Of(muts'[m].since)
               /\ \A j \in Ids \ Of(muts'[m].since) : rows'[j] = rows[j]
    <3>1. mu[m] \in Sent /\ muts'[m].since = mu[m].since \cup {w} /\ muts'[m].prev = mu[m].prev
      BY <1>5, <2>1
    <3>2. muts[m] \in Sent /\ mu[m].prev = muts[m].prev /\ mu[m].since = muts[m].since
      BY <3>1
    <3>3. muts'[m].since = muts[m].since \cup {w}
      BY <3>1, <3>2
    <3> QED
      BY <1>9, <3>1, <3>2, <3>3
  <2> QED
    BY <2>1, PrevKept
<1>13. \A m \in Muts : Underway(muts'[m]) <=> Underway(mu[m])
  BY <1>5 DEF Underway
<1>14. ASSUME NEW S, NEW T, T = S \cup {w}, Accounted(muts, S)
       PROVE  Accounted(muts', T)
  <2>1. \A m \in Muts : Underway(muts[m]) => muts'[m].id = muts[m].id /\ Underway(muts'[m])
    BY <1>5, <1>13
  <2>2. ASSUME NEW j \in Ids, <<"me", j>> \in T \ S
        PROVE  \E m \in Muts : muts'[m].id = j /\ Underway(muts'[m])
    <3>1. <<"me", j>> = <<who, i>>
      BY <1>1, <1>14, <2>2
    <3>2. who = "me" /\ i = j
      BY <3>1
    <3> QED
      BY <1>5, <1>13, <3>2
  <2>3. S \subseteq T
    BY <1>14
  <2> QED
    BY <1>14, <2>1, <2>2, <2>3, AccountedGrows
<1>15. OwnWrites'
  <2>1. fetch' # None => Accounted(muts', fetch'.missed)
    BY <1>2, <1>3, <1>14 DEF ViewInv, OwnWrites
  <2>2. Refetching => Refetching'
    BY <1>3, FetchFields DEF Refetching
  <2>3. pages' # <<>> /\ ~failed' /\ ~Refetching' => Accounted(muts', touched')
    BY <1>2, <1>14, <2>2 DEF ViewInv, OwnWrites
  <2> QED
    BY <2>1, <2>3 DEF OwnWrites
<1> QED
  BY <1>7, <1>8, <1>10, <1>11, <1>12, <1>15 DEF ViewInv

LEMMA ForeignKeeps ==
    ASSUME ViewInv, NEW i \in Ids, NEW k \in 0 .. MaxKey, Foreign(i, k)
    PROVE  ViewInv'
<1>1. /\ rows' = [rows EXCEPT ![i] = k] /\ Written(<<"them", i>>)
      /\ muts' = Noted(muts, <<"them", i>>) /\ pages' = pages /\ failed' = failed
  BY DEF Foreign
<1>2. rows' \in [Ids -> 0 .. MaxKey] /\ \A j \in Ids : j # i => rows'[j] = rows[j]
  BY <1>1 DEF ViewInv, ViewTypeOK
<1>3. PICK mu \in [Muts -> Sent \cup {New, Done}] : mu = muts
  BY DEF ViewInv, ViewTypeOK
<1> QED
  BY <1>1, <1>2, <1>3, WriteKeeps

LEMMA AppliedKeeps ==
    ASSUME ViewInv, NEW m \in Muts, Applied(m)
    PROVE  ViewInv'
<1>1. PICK u : u = muts[m]
  OBVIOUS
<1>2. u \in Sent /\ u.step = "sent"
  BY <1>1, MutFields DEF Applied, ViewInv
<1>3. PICK v : v = [u EXCEPT !.step = "applied", !.key = 0]
  OBVIOUS
<1>4. /\ v \in Sent /\ v.step = "applied" /\ v.op = u.op /\ v.id = u.id /\ v.prev = u.prev
      /\ v.since = u.since
  <2>1. 0 \in 0 .. MaxKey
    BY BoundsAssumption
  <2> QED
    BY <1>2, <1>3, <2>1 DEF Sent
<1>5. muts \in [Muts -> Sent \cup {New, Done}]
  BY DEF ViewInv, ViewTypeOK
<1>6. PICK mu : mu = [muts EXCEPT ![m] = v]
  OBVIOUS
<1>7. [muts EXCEPT ![m].step = "applied", ![m].key = 0] = mu
  BY <1>1, <1>3, <1>5, <1>6
<1>8. PICK i \in Ids : i = u.id
  BY <1>2 DEF Sent
<1>9. /\ Written(<<"me", i>>) /\ pages' = pages /\ failed' = failed
      /\ muts' = Noted(mu, <<"me", i>>)
      /\ rows' = rows \/ rows' = [rows EXCEPT ![i] = u.key]
      /\ u.key \in 0 .. MaxKey
  BY <1>1, <1>2, <1>7, <1>8 DEF Applied, Sent
<1>10. rows' \in [Ids -> 0 .. MaxKey] /\ \A j \in Ids : j # i => rows'[j] = rows[j]
  BY <1>9 DEF ViewInv, ViewTypeOK
<1>11. mu \in [Muts -> Sent \cup {New, Done}] /\ mu[m] = v
       /\ \A n \in Muts : n # m => mu[n] = muts[n]
  BY <1>4, <1>5, <1>6
<1>12. \A n \in Muts : mu[n] \in Sent =>
           /\ muts[n] \in Sent /\ mu[n].op = muts[n].op
           /\ mu[n].prev = muts[n].prev /\ mu[n].since = muts[n].since
  BY <1>1, <1>2, <1>4, <1>11
<1>13. Underway(v)
  BY <1>4 DEF Underway
<1>14. \A n \in Muts : Underway(muts[n]) => mu[n].id = muts[n].id /\ Underway(mu[n])
  BY <1>1, <1>4, <1>11, <1>13
<1>15. \E n \in Muts : mu[n].id = i /\ Underway(mu[n])
  BY <1>4, <1>8, <1>11, <1>13
<1> QED
  BY <1>9, <1>10, <1>11, <1>12, <1>14, <1>15, WriteKeeps

LEMMA RefusedKeeps ==
    ASSUME ViewInv, NEW m \in Muts, Refused(m)
    PROVE  ViewInv'
<1>1. PICK u : u = muts[m]
  OBVIOUS
<1>2. u \in Sent /\ u.step = "sent"
  BY <1>1, MutFields DEF Refused, ViewInv
<1>3. PICK v : v = [u EXCEPT !.step = "refused", !.key = 0]
  OBVIOUS
<1>4. /\ v \in Sent /\ v.step = "refused" /\ v.op = u.op /\ v.id = u.id /\ v.prev = u.prev
      /\ v.since = u.since
  <2>1. 0 \in 0 .. MaxKey
    BY BoundsAssumption
  <2> QED
    BY <1>2, <1>3, <2>1 DEF Sent
<1>5. muts \in [Muts -> Sent \cup {New, Done}]
  BY DEF ViewInv, ViewTypeOK
<1>6. muts' = [muts EXCEPT ![m] = v]
  BY <1>1, <1>3, <1>5 DEF Refused
<1>7. /\ rows' = rows /\ pages' = pages /\ failed' = failed /\ fetch' = fetch /\ touched' = touched
  BY DEF Refused
<1>8. muts' \in [Muts -> Sent \cup {New, Done}] /\ muts'[m] = v
      /\ \A n \in Muts : n # m => muts'[n] = muts[n]
  BY <1>4, <1>5, <1>6
<1>9. ViewTypeOK'
  BY <1>7, <1>8 DEF ViewInv, ViewTypeOK
<1>10. HasPages'
  <2>1. \A n \in Muts : muts'[n] \in Sent /\ muts'[n].op # "create" =>
            pages' # <<>> /\ muts'[n].prev # <<>>
    BY <1>1, <1>2, <1>4, <1>7, <1>8 DEF ViewInv, HasPages
  <2>2. Settled' => pages' # <<>>
    BY <1>7 DEF ViewInv, HasPages, Settled
  <2>3. failed' /\ pages' = <<>> => fetch' = None
    BY <1>7 DEF ViewInv, HasPages
  <2> QED
    BY <2>1, <2>2, <2>3 DEF HasPages
<1>11. PagesInv' /\ FetchInv'
  BY <1>7 DEF ViewInv, PagesInv, FetchInv
<1>12. PrevInv'
  BY <1>1, <1>2, <1>4, <1>7, <1>8 DEF ViewInv, PrevInv
<1>13. \A n \in Muts : Underway(muts[n]) => muts'[n].id = muts[n].id /\ Underway(muts'[n])
  <2>1. Underway(u) => Underway(v)
    BY <1>2, <1>4 DEF Underway
  <2> QED
    BY <1>1, <1>4, <1>8, <2>1
<1>14. \A S : Accounted(muts, S) => Accounted(muts', S)
  BY <1>13, AccountedGrows
<1>15. OwnWrites'
  BY <1>7, <1>14 DEF ViewInv, OwnWrites, Refetching
<1> QED
  BY <1>9, <1>10, <1>11, <1>12, <1>15 DEF ViewInv

(* A mutation ends and the listing is read again, from the pages ps.        *)
LEMMA SettlingKeeps ==
    ASSUME ViewInv, NEW m \in Muts, muts[m] \in Sent, NEW ps \in Seq(Page),
           muts[m].op # "create" => ps # <<>>, pages # <<>> => ps # <<>>,
           muts' = [muts EXCEPT ![m] = Done], pages' = ps,
           failed' \in BOOLEAN, failed' => ps # <<>>,
           fetch' = Refetch(Len(ps)), rows' = rows,
           touched' \subseteq Writes, Faithful(rows, Of(touched'), ps)
    PROVE  ViewInv'
<1>1. Len(ps) \in Nat
  OBVIOUS
<1>2. fetch' \in Fetch /\ fetch' # None
  BY <1>1, Refetched
<1>3. muts \in [Muts -> Sent \cup {New, Done}] /\ Done \notin Sent
  BY MutFields DEF ViewInv, ViewTypeOK
<1>4. muts' \in [Muts -> Sent \cup {New, Done}] /\ muts'[m] = Done
      /\ \A n \in Muts : n # m => muts'[n] = muts[n]
  BY <1>3
<1>5. ViewTypeOK'
  BY <1>2, <1>4 DEF ViewInv, ViewTypeOK
<1>6. HasPages'
  BY <1>2, <1>3, <1>4 DEF ViewInv, HasPages, Settled
<1>7. PagesInv'
  BY DEF PagesInv
<1>8. PrevInv'
  BY <1>3, <1>4 DEF ViewInv, PrevInv
<1> QED
  BY <1>1, <1>5, <1>6, <1>7, <1>8, RefetchKeeps

(* A creation ends, and what it wrote is noted as having no refetch.        *)
LEMMA EndsUnnoticed ==
    ASSUME ViewInv, NEW m \in Muts, muts[m] \in Sent, muts[m].op = "create",
           NEW mu, mu = [muts EXCEPT ![m] = Done], NEW S \in SUBSET Writes
    PROVE  /\ Unnoticed(muts[m], S) \in SUBSET Writes
           /\ Of(S) \subseteq Of(Unnoticed(muts[m], S))
           /\ Accounted(muts, S) => Accounted(mu, Unnoticed(muts[m], S))
           /\ mu \in [Muts -> Sent \cup {New, Done}]
           /\ mu[m] = Done /\ Done \notin Sent /\ \A n \in Muts : n # m => mu[n] = muts[n]
<1>1. PICK u \in Sent : u = muts[m]
  OBVIOUS
<1>2. PICK T : T = Unnoticed(u, S)
  OBVIOUS
<1>3. u.id \in Ids
  BY DEF Sent
<1>4. T \in SUBSET Writes /\ S \subseteq T
  BY <1>2, <1>3 DEF Unnoticed, Writes
<1>5. /\ mu \in [Muts -> Sent \cup {New, Done}]
      /\ mu[m] = Done /\ Done \notin Sent /\ \A n \in Muts : n # m => mu[n] = muts[n]
  BY MutFields DEF ViewInv, ViewTypeOK
<1>6. ASSUME Accounted(muts, S)
      PROVE  Accounted(mu, T)
  <2> SUFFICES ASSUME NEW i \in Ids, <<"me", i>> \in T, <<"lost", i>> \notin T
               PROVE  \E n \in Muts : mu[n].id = i /\ Underway(mu[n])
    BY DEF Accounted
  <2>1. <<"me", i>> \in S
    BY <1>2 DEF Unnoticed
  <2>2. PICK n \in Muts : muts[n].id = i /\ Underway(muts[n])
    BY <1>4, <1>6, <2>1 DEF Accounted
  <2>3. n # m
    <3> SUFFICES ASSUME n = m
                 PROVE  FALSE
      OBVIOUS
    <3>1. u.step = "applied" /\ u.id = i
      BY <1>1, <2>2 DEF Underway
    <3>2. <<"lost", i>> \in T
      BY <1>2, <2>1, <3>1 DEF Unnoticed
    <3> QED
      BY <3>2
  <2> QED
    BY <1>5, <2>2, <2>3
<1> QED
  BY <1>1, <1>2, <1>4, <1>5, <1>6, OfGrows

(* ... which the fetch in flight is told.                                   *)
LEMMA UnnoticedKeeps ==
    ASSUME ViewInv, NEW m \in Muts, muts[m] \in Sent, muts[m].op = "create",
           muts' = [muts EXCEPT ![m] = Done], rows' = rows, pages' = pages, failed' = failed,
           fetch' = IF fetch = None THEN None
                    ELSE [fetch EXCEPT !.missed = Unnoticed(muts[m], @)],
           \/ touched' = Unnoticed(muts[m], touched)
           \/ touched' = touched /\ pages = <<>>
    PROVE  ViewInv'
<1>1. PICK u \in Sent : u = muts[m]
  OBVIOUS
<1>2. \A S \in SUBSET Writes :
          /\ Unnoticed(u, S) \in SUBSET Writes /\ Of(S) \subseteq Of(Unnoticed(u, S))
          /\ Accounted(muts, S) => Accounted(muts', Unnoticed(u, S))
  BY <1>1, EndsUnnoticed
<1>3. touched \in SUBSET Writes
  BY DEF ViewInv, ViewTypeOK
<1>4. /\ muts' \in [Muts -> Sent \cup {New, Done}]
      /\ muts'[m] = Done /\ Done \notin Sent /\ \A n \in Muts : n # m => muts'[n] = muts[n]
  BY <1>3, EndsUnnoticed
<1>5. touched' \subseteq Writes /\ Of(touched) \subseteq Of(touched')
  BY <1>1, <1>2, <1>3
<1>6. ASSUME fetch # None
      PROVE  /\ fetch' \in Fetch /\ fetch'.acc = fetch.acc /\ fetch'.got = fetch.got
             /\ fetch'.goal = fetch.goal /\ Of(fetch.missed) \subseteq Of(fetch'.missed)
             /\ Accounted(muts', fetch'.missed)
  <2>1. PICK f \in Fetch : f = fetch
    BY <1>6 DEF ViewInv, ViewTypeOK
  <2>2. PICK W \in SUBSET Writes : W = Unnoticed(u, f.missed)
    BY <1>2, FetchFields
  <2>3. PICK g : g = [f EXCEPT !.missed = W]
    OBVIOUS
  <2>4. g \in Fetch /\ g.missed = W /\ g.acc = f.acc /\ g.got = f.got /\ g.goal = f.goal
    BY <2>3 DEF Fetch
  <2>5. fetch' = g
    BY <1>1, <1>6, <2>1, <2>2, <2>3
  <2>6. f.missed \in SUBSET Writes /\ Accounted(muts, f.missed)
    BY <1>6, <2>1, FetchFields DEF ViewInv, OwnWrites
  <2> QED
    BY <1>2, <2>1, <2>2, <2>4, <2>5, <2>6
<1>7. ViewTypeOK'
  <2>1. fetch' \in Fetch \cup {None}
    BY <1>6
  <2> QED
    BY <1>4, <1>5, <2>1 DEF ViewInv, ViewTypeOK
<1>8. fetch' = None <=> fetch = None
  BY <1>6, FetchFields
<1>9. HasPages'
  <2>1. Settled' => pages' # <<>>
    BY <1>8 DEF ViewInv, HasPages, Settled
  <2>2. \A n \in Muts : muts'[n] \in Sent /\ muts'[n].op # "create" =>
            pages' # <<>> /\ muts'[n].prev # <<>>
    BY <1>4 DEF ViewInv, HasPages
  <2>3. failed' /\ pages' = <<>> => fetch' = None
    BY <1>8 DEF ViewInv, HasPages
  <2> QED
    BY <2>1, <2>2, <2>3 DEF HasPages
<1>10. PagesInv'
  BY <1>5, PagesKept
<1>11. FetchInv'
  BY <1>6, <1>8, FetchKept
<1>12. PrevInv'
  BY <1>4 DEF ViewInv, PrevInv
<1>13. OwnWrites'
  <2>1. fetch' # None => Accounted(muts', fetch'.missed)
    BY <1>6, <1>8
  <2>2. Refetching' <=> Refetching
    BY <1>6, <1>8 DEF Refetching
  <2>3. pages' # <<>> /\ ~failed' /\ ~Refetching' => Accounted(muts', touched')
    BY <1>1, <1>2, <1>3, <2>2 DEF ViewInv, OwnWrites
  <2> QED
    BY <2>1, <2>3 DEF OwnWrites
<1> QED
  BY <1>7, <1>9, <1>10, <1>11, <1>12, <1>13 DEF ViewInv

LEMMA SucceedsKeeps ==
    ASSUME ViewInv, NEW m \in Muts, Succeeds(m)
    PROVE  ViewInv'
<1>1. muts[m] \in Sent
  BY MutFields DEF Succeeds, ViewInv
<1>2. /\ muts' = [muts EXCEPT ![m] = Done] /\ fetch' = Invalidated(muts[m], pages)
      /\ failed' = (failed /\ pages # <<>>) /\ rows' = rows /\ pages' = pages /\ touched' = touched
  BY DEF Succeeds
<1>3. muts[m].op # "create" => pages # <<>>
  BY <1>1 DEF ViewInv, HasPages
<1>4. PICK ps \in Seq(Page) : ps = pages
  BY DEF ViewInv, ViewTypeOK
<1>5. touched \subseteq Writes /\ failed \in BOOLEAN /\ Faithful(rows, Of(touched), ps)
  BY <1>4 DEF ViewInv, ViewTypeOK, PagesInv
<1>6. CASE ~(pages = <<>> /\ fetch # None)
  <2>1. fetch' = Refetch(Len(ps)) /\ failed' \in BOOLEAN /\ (failed' => ps # <<>>)
    BY <1>2, <1>4, <1>5, <1>6 DEF Invalidated
  <2> QED
    BY <1>1, <1>2, <1>3, <1>4, <1>5, <2>1, SettlingKeeps
<1>7. CASE pages = <<>> /\ fetch # None
  <2>1. fetch' = [fetch EXCEPT !.missed = Unnoticed(muts[m], @)]
    BY <1>2, <1>7 DEF Invalidated
  <2>2. failed' = FALSE
    BY <1>2, <1>7
  <2>3. CASE ~failed
    <3>1. failed' = failed
      BY <1>5, <2>2, <2>3
    <3> QED
      BY <1>1, <1>2, <1>3, <1>7, <2>1, <3>1, UnnoticedKeeps
  <2>4. CASE failed
    BY <1>7, <2>4 DEF ViewInv, HasPages
  <2> QED
    BY <2>3, <2>4
<1> QED
  BY <1>6, <1>7

LEMMA restoreKeeps ==
    ASSUME ViewInv, NEW m \in Muts, restore(m)
    PROVE  ViewInv'
<1>1. muts[m] \in Sent /\ muts[m].op # "create"
  BY MutFields DEF restore, ViewInv
<1>2. PICK ps \in Seq(Page) : ps = muts[m].prev
  BY <1>1 DEF Sent
<1>3. ps # <<>>
  BY <1>1, <1>2 DEF ViewInv, HasPages
<1>4. /\ muts' = [muts EXCEPT ![m] = Done] /\ pages' = ps /\ failed' = FALSE
      /\ fetch' = Refetch(Len(ps)) /\ rows' = rows /\ touched' = muts[m].since
  BY <1>2, <1>3 DEF restore, Invalidated
<1>5. touched' \subseteq Writes
  BY <1>1, <1>4 DEF Sent
<1>6. Faithful(rows, Of(touched'), ps)
  BY <1>1, <1>2, <1>4 DEF ViewInv, PrevInv
<1> QED
  BY <1>1, <1>3, <1>4, <1>5, <1>6, SettlingKeeps

LEMMA CreateFailsKeeps ==
    ASSUME ViewInv, NEW m \in Muts, CreateFails(m)
    PROVE  ViewInv'
<1>1. muts[m] \in Sent /\ muts[m].op = "create"
  BY MutFields DEF CreateFails, ViewInv
<1> QED
  BY <1>1, UnnoticedKeeps DEF CreateFails

(* A mutation is sent with a snapshot that is faithful.                     *)
LEMMA SendsKeeps ==
    ASSUME ViewInv, NEW m \in Muts, NEW op \in {"rename", "remove", "create"},
           NEW i \in Ids, NEW k \in 0 .. MaxKey, NEW prev \in Seq(Page), NEW since \in SUBSET Writes,
           Sends(m, op, i, k, prev, since), Faithful(rows, Of(since), prev),
           op # "create" => prev # <<>> /\ pages # <<>>,
           NEW qs \in Seq(Page), pages' = qs, Len(qs) = Len(pages),
           NEW T \in SUBSET Writes, touched' = T, touched \subseteq T,
           Faithful(rows, Of(T), qs),
           \A j \in Ids : <<"me", j>> \in T \ touched => op # "create" /\ i = j
    PROVE  ViewInv'
<1>1. PICK u : u = [op |-> op, id |-> i, key |-> k, step |-> "sent", prev |-> prev, since |-> since]
  OBVIOUS
<1>2. /\ muts[m] = New /\ muts' = [muts EXCEPT ![m] = u]
      /\ rows' = rows /\ failed' = failed /\ fetch' = fetch
  BY <1>1 DEF Sends
<1>3. pages \in Seq(Page) /\ Len(pages) \in Nat /\ (qs = <<>> <=> pages = <<>>)
  BY DEF ViewInv, ViewTypeOK
<1>4. u \in Sent /\ u.id = i /\ u.step = "sent" /\ u.op = op /\ u.prev = prev /\ u.since = since
  BY <1>1 DEF Sent
<1>5. muts \in [Muts -> Sent \cup {New, Done}] /\ ~Underway(New)
  BY MutFields DEF ViewInv, ViewTypeOK
<1>6. muts' \in [Muts -> Sent \cup {New, Done}] /\ muts'[m] = u
      /\ \A n \in Muts : n # m => muts'[n] = muts[n]
  BY <1>2, <1>4, <1>5
<1>7. ViewTypeOK'
  BY <1>2, <1>6 DEF ViewInv, ViewTypeOK
<1>8. HasPages'
  BY <1>2, <1>3, <1>4, <1>6 DEF ViewInv, HasPages, Settled
<1>9. PagesInv'
  BY <1>2 DEF PagesInv
<1>10. FetchInv'
  BY <1>2 DEF ViewInv, FetchInv
<1>11. PrevInv'
  BY <1>2, <1>4, <1>6 DEF ViewInv, PrevInv
<1>12. \A n \in Muts : Underway(muts[n]) => muts'[n].id = muts[n].id /\ Underway(muts'[n])
  BY <1>2, <1>5, <1>6
<1>13. op # "create" => Underway(u)
  BY <1>4 DEF Underway
<1>14. Accounted(muts, touched) => Accounted(muts', T)
  <2>1. \A j \in Ids : <<"me", j>> \in T \ touched => \E n \in Muts : muts'[n].id = j /\ Underway(muts'[n])
    BY <1>4, <1>6, <1>13
  <2> QED
    BY <1>12, <2>1, AccountedGrows
<1>15. ASSUME NEW S, Accounted(muts, S)
       PROVE  Accounted(muts', S)
  BY <1>12, <1>15, AccountedGrows
<1>16. Refetching' <=> Refetching
  BY <1>2 DEF Refetching
<1>17. OwnWrites'
  BY <1>2, <1>3, <1>14, <1>15, <1>16 DEF ViewInv, OwnWrites
<1> QED
  BY <1>7, <1>8, <1>9, <1>10, <1>11, <1>17 DEF ViewInv

LEMMA CreateFolderKeeps ==
    ASSUME ViewInv, NEW m \in Muts, NEW i \in Ids, NEW k \in Keys, CreateFolder(m, i, k)
    PROVE  ViewInv'
<1>1. k \in 0 .. MaxKey
  BY BoundsAssumption DEF Keys
<1>2. PICK qs \in Seq(Page), T \in SUBSET Writes : qs = pages /\ T = touched
  BY DEF ViewInv, ViewTypeOK
<1>3. Sends(m, "create", i, k, <<>>, {}) /\ pages' = qs /\ touched' = T
  BY <1>2 DEF CreateFolder
<1>4. Faithful(rows, Of(T), qs) /\ Faithful(rows, Of({}), <<>>)
  BY <1>2, EmptyFaithful DEF ViewInv, PagesInv
<1>5. <<>> \in Seq(Page) /\ {} \in SUBSET Writes
  OBVIOUS
<1> QED
  BY <1>1, <1>2, <1>3, <1>4, <1>5, SendsKeeps

(* ... and the pages it patches, but for its own row as they were.          *)
LEMMA PatchesKeeps ==
    ASSUME ViewInv, NEW m \in Muts, NEW op \in {"rename", "remove"},
           NEW i \in Ids, NEW k \in 0 .. MaxKey, Patches(m, op, i, k), pages # <<>>,
           NEW qs \in Seq(Page), pages' = qs,
           Len(qs) = Len(pages), \A n \in 1 .. Len(pages) : qs[n].next = pages[n].next,
           OneEach(pages) => OneEach(qs),
           \A j \in Ids \ {i} : \A n \in 1 .. Len(pages) :
               {a \in qs[n].items : a.id = j} = {a \in pages[n].items : a.id = j}
    PROVE  ViewInv'
<1>1. Sends(m, op, i, k, pages, touched) /\ touched' = touched \cup {<<"me", i>>}
  BY DEF Patches
<1>2. /\ pages \in Seq(Page) /\ Len(pages) \in Nat /\ touched \in SUBSET Writes
      /\ Faithful(rows, Of(touched), pages)
  BY DEF ViewInv, ViewTypeOK, PagesInv
<1>3. PICK T \in SUBSET Writes : T = touched \cup {<<"me", i>>}
  <2>1. <<"me", i>> \in Writes
    BY DEF Writes
  <2> QED
    BY <1>2, <2>1
<1>4. i \in Of(T) /\ Of(touched) \subseteq Of(T) /\ Of(T) \subseteq Ids
  BY <1>3, OfGrows DEF Of
<1>5. PICK G : G = Of(T)
  OBVIOUS
<1>6. \A j \in Ids \ G : \A n \in 1 .. Len(pages) :
          {a \in qs[n].items : a.id = j} = {a \in pages[n].items : a.id = j}
  BY <1>4, <1>5
<1>7. OneEach(qs) /\ (qs = <<>> <=> pages = <<>>)
  BY <1>2 DEF Faithful
<1>8. Faithful(rows, G, qs)
  BY <1>2, <1>4, <1>5, <1>6, <1>7, StaysFaithful
<1>9. \A j \in Ids : <<"me", j>> \in T \ touched => i = j
  BY <1>3
<1> QED
  BY <1>1, <1>2, <1>3, <1>5, <1>8, <1>9, SendsKeeps

(* Pages whose rows alone are replaced.                                     *)
LEMMA Patched ==
    ASSUME pages \in Seq(Page), NEW patched,
           \A n \in 1 .. Len(pages) : patched[n] \subseteq [id : Ids, key : Keys, place : Nat]
    PROVE  /\ patchItems(patched) \in Seq(Page) /\ Len(patchItems(patched)) = Len(pages)
           /\ \A n \in 1 .. Len(pages) : /\ patchItems(patched)[n].items = patched[n]
                                         /\ patchItems(patched)[n].next = pages[n].next
<1> DEFINE qs == [n \in 1 .. Len(pages) |-> [pages[n] EXCEPT !.items = patched[n]]]
<1>1. patchItems(patched) = qs
  BY DEF patchItems
<1>2. ASSUME NEW n \in 1 .. Len(pages)
      PROVE  /\ [pages[n] EXCEPT !.items = patched[n]] \in Page
             /\ [pages[n] EXCEPT !.items = patched[n]].items = patched[n]
             /\ [pages[n] EXCEPT !.items = patched[n]].next = pages[n].next
  <2>1. pages[n] \in Page
    OBVIOUS
  <2> QED
    BY <2>1 DEF Page
<1>3. qs \in Seq(Page) /\ Len(qs) = Len(pages)
  BY <1>2
<1> QED
  BY <1>1, <1>2, <1>3

LEMMA RenameKeeps ==
    ASSUME ViewInv, NEW m \in Muts, NEW i \in Ids, NEW k \in Keys, RenameNode(m, i, k)
    PROVE  ViewInv'
<1> DEFINE N(a) == IF a.id = i THEN [a EXCEPT !.key = k] ELSE a
           patched == [n \in 1 .. Len(pages) |-> {N(a) : a \in pages[n].items}]
<1>1. pages \in Seq(Page) /\ k \in 0 .. MaxKey
  BY BoundsAssumption DEF ViewInv, ViewTypeOK, Keys
<1>2. Patches(m, "rename", i, k) /\ pages' = patchItems(patched) /\ pages # <<>>
  BY DEF RenameNode, Renamed, Shown
<1>3. ASSUME NEW n \in 1 .. Len(pages)
      PROVE  pages[n].items \subseteq [id : Ids, key : Keys, place : Nat]
  <2>1. pages[n] \in Page
    BY <1>1
  <2> QED
    BY <2>1 DEF Page
<1>4. \A a \in [id : Ids, key : Keys, place : Nat] :
          /\ N(a) \in [id : Ids, key : Keys, place : Nat] /\ N(a).id = a.id
          /\ (a.id # i => N(a) = a)
  OBVIOUS
<1>5. \A n \in 1 .. Len(pages) : patched[n] = {N(a) : a \in pages[n].items}
  OBVIOUS
<1> HIDE DEF N, patched
<1>6. \A n \in 1 .. Len(pages) : patched[n] \subseteq [id : Ids, key : Keys, place : Nat]
  BY <1>3, <1>4, <1>5
<1>7. PICK qs \in Seq(Page) :
          /\ qs = pages' /\ Len(qs) = Len(pages)
          /\ \A n \in 1 .. Len(pages) : /\ qs[n].items = {N(a) : a \in pages[n].items}
                                        /\ qs[n].next = pages[n].next
  BY <1>1, <1>2, <1>5, <1>6, Patched
<1>8. OneEach(pages) => OneEach(qs)
  <2> SUFFICES ASSUME OneEach(pages), NEW n \in 1 .. Len(pages),
                      NEW a \in qs[n].items, NEW b \in qs[n].items, a.id = b.id
               PROVE  a = b
    BY <1>7 DEF OneEach
  <2>1. PICK x \in pages[n].items, y \in pages[n].items : a = N(x) /\ b = N(y)
    BY <1>7
  <2>2. x.id = y.id
    BY <1>3, <1>4, <2>1
  <2> QED
    BY <2>1, <2>2 DEF OneEach
<1>9. ASSUME NEW j \in Ids \ {i}, NEW n \in 1 .. Len(pages)
      PROVE  {a \in qs[n].items : a.id = j} = {a \in pages[n].items : a.id = j}
  BY <1>3, <1>4, <1>7
<1> QED
  BY <1>1, <1>2, <1>7, <1>8, <1>9, PatchesKeeps

LEMMA RemoveKeeps ==
    ASSUME ViewInv, NEW m \in Muts, NEW i \in Ids, RemoveNode(m, i)
    PROVE  ViewInv'
<1> DEFINE patched == [n \in 1 .. Len(pages) |-> {a \in pages[n].items : a.id # i}]
<1>1. pages \in Seq(Page) /\ 0 \in 0 .. MaxKey
  BY BoundsAssumption DEF ViewInv, ViewTypeOK
<1>2. Patches(m, "remove", i, 0) /\ pages' = patchItems(patched) /\ pages # <<>>
  BY DEF RemoveNode, OnScreen, Without, Shown
<1>3. ASSUME NEW n \in 1 .. Len(pages)
      PROVE  pages[n].items \subseteq [id : Ids, key : Keys, place : Nat]
  <2>1. pages[n] \in Page
    BY <1>1
  <2> QED
    BY <2>1 DEF Page
<1>4. \A n \in 1 .. Len(pages) : patched[n] = {a \in pages[n].items : a.id # i}
  OBVIOUS
<1> HIDE DEF patched
<1>5. \A n \in 1 .. Len(pages) : patched[n] \subseteq [id : Ids, key : Keys, place : Nat]
  BY <1>3, <1>4
<1>6. PICK qs \in Seq(Page) :
          /\ qs = pages' /\ Len(qs) = Len(pages)
          /\ \A n \in 1 .. Len(pages) : /\ qs[n].items = {a \in pages[n].items : a.id # i}
                                        /\ qs[n].next = pages[n].next
  BY <1>1, <1>2, <1>4, <1>5, Patched
<1>7. OneEach(pages) => OneEach(qs)
  BY <1>6 DEF OneEach
<1>8. ASSUME NEW j \in Ids \ {i}, NEW n \in 1 .. Len(pages)
      PROVE  {a \in qs[n].items : a.id = j} = {a \in pages[n].items : a.id = j}
  BY <1>6
<1> QED
  BY <1>1, <1>2, <1>6, <1>7, <1>8, PatchesKeeps

-----------------------------------------------------------------------------
(* The invariant holds *)

LEMMA InitHolds == Init => ViewInv
<1> SUFFICES ASSUME Init
             PROVE  ViewInv
  OBVIOUS
<1>1. PICK f \in Fetch : /\ f = fetch /\ f # None /\ f.acc = <<>> /\ f.got = None
                         /\ Fetched(f) = <<>>
  BY Refetched DEF Init
<1>2. Faithful(rows, Of(fetch.missed), <<>>) /\ Faithful(rows, Of(touched), <<>>)
  BY EmptyFaithful
<1>3. ViewTypeOK
  <2>1. muts \in [Muts -> Sent \cup {New, Done}] /\ touched \subseteq Writes /\ failed \in BOOLEAN
    BY DEF Init
  <2>2. pages = <<>> /\ pages \in Seq(Page) /\ rows \in [Ids -> 0 .. MaxKey]
    BY DEF Init
  <2> QED
    BY <1>1, <2>1, <2>2 DEF ViewTypeOK
<1>4. \A m \in Muts : muts[m] = New /\ New \notin Sent
  BY <1>3, MutFields DEF Init
<1>5. pages = <<>> /\ failed = FALSE
  BY DEF Init
<1>6. HasPages /\ PrevInv
  BY <1>1, <1>4, <1>5 DEF HasPages, PrevInv, Settled
<1>7. FetchInv /\ PagesInv
  BY <1>1, <1>2, <1>5 DEF FetchInv, PagesInv
<1>8. OwnWrites
  <2>1. fetch.missed = {}
    BY DEF Init, Refetch
  <2>2. Accounted(muts, {})
    BY DEF Accounted
  <2> QED
    BY <1>5, <2>1, <2>2 DEF OwnWrites
<1> QED
  BY <1>3, <1>6, <1>7, <1>8 DEF ViewInv

LEMMA NextKeeps == ViewInv /\ [Next]_vars => ViewInv'
<1> SUFFICES ASSUME ViewInv, [Next]_vars
             PROVE  ViewInv'
  OBVIOUS
<1>1. CASE LoadMore
  BY <1>1, LoadMoreKeeps
<1>2. CASE Retry \/ Reconnect
  BY <1>2, RefetchesKeeps DEF Retry, Reconnect
<1>3. CASE PageRead
  BY <1>3, PageReadKeeps
<1>4. CASE PageArrives
  BY <1>4, PageArrivesKeeps
<1>5. CASE FetchFails
  BY <1>5, FetchFailsKeeps
<1>6. ASSUME NEW m \in Muts, NEW i \in Ids, NEW k \in Keys,
             RenameNode(m, i, k) \/ CreateFolder(m, i, k)
      PROVE  ViewInv'
  BY <1>6, RenameKeeps, CreateFolderKeeps
<1>7. ASSUME NEW m \in Muts, NEW i \in Ids, RemoveNode(m, i)
      PROVE  ViewInv'
  BY <1>7, RemoveKeeps
<1>8. ASSUME NEW m \in Muts,
             Applied(m) \/ Refused(m) \/ Succeeds(m) \/ restore(m) \/ CreateFails(m)
      PROVE  ViewInv'
  BY <1>8, AppliedKeeps, RefusedKeeps, SucceedsKeeps, restoreKeeps, CreateFailsKeeps
<1>9. ASSUME NEW i \in Ids, NEW k \in 0 .. MaxKey, Foreign(i, k)
      PROVE  ViewInv'
  BY <1>9, ForeignKeeps
<1>10. CASE UNCHANGED vars
  BY <1>10 DEF vars, ViewInv, ViewTypeOK, HasPages, FetchInv, PagesInv, PrevInv, OwnWrites,
               Settled, Refetching
<1> QED
  BY <1>1, <1>2, <1>3, <1>4, <1>5, <1>6, <1>7, <1>8, <1>9, <1>10 DEF Next

(* Whatever is written, answered, canceled and rolled back in between, the  *)
(* pages on screen, those a fetch has read and those a mutation may put     *)
(* back show every row as the folder holds it, in order and between the     *)
(* cursors of its page, but for the rows written or patched since; and the  *)
(* listing at rest knows of every write of this user but those of mutations *)
(* under way and those that no refetch followed.                            *)
THEOREM ViewCorrect == Spec => []ViewInv
  BY InitHolds, NextKeeps, PTL DEF Spec
-----------------------------------------------------------------------------
(* What is on screen *)

(* Rows of different pages stand in the order of their pages.               *)
LEMMA PagesInOrder ==
    ASSUME NEW ps \in Seq(Page), Chained(ps), NEW n \in 1 .. Len(ps), NEW k \in 1 .. Len(ps), n < k,
           NEW a \in Cursor, NEW b \in Cursor,
           Within(a, Start(ps, n), ps[n].next), Within(b, Start(ps, k), ps[k].next)
    PROVE  After(b, a)
<1>1. Len(ps) \in Nat /\ k # 1 /\ k - 1 \in 1 .. Len(ps) /\ k - 1 < Len(ps) /\ n < Len(ps)
  OBVIOUS
<1>2. ps[n].next # None /\ ps[k - 1].next # None
  BY <1>1 DEF Chained
<1>3. ps[n] \in Page /\ ps[k - 1] \in Page
  BY <1>1
<1>4. ps[n].next \in Cursor /\ ps[k - 1].next \in Cursor
  BY <1>2, <1>3 DEF Page
<1>5. n = k - 1 \/ n \in 1 .. (k - 1) - 1
  BY <1>1
<1>6. n # k - 1 => After(ps[k - 1].next, ps[n].next)
  BY <1>1, <1>2, <1>5 DEF Chained
<1>7. After(b, ps[k - 1].next)
  BY <1>1, <1>2 DEF Within, Start
<1>8. After(b, ps[n].next)
  BY <1>4, <1>5, <1>6, <1>7, AfterOrder
<1>9. a = ps[n].next \/ After(ps[n].next, a)
  BY <1>2, <1>4, AfterOrder DEF Within
<1> QED
  BY <1>4, <1>8, <1>9, AfterOrder

(* A row of a page lies before the last cursor, and so does every row       *)
(* before it.                                                               *)
LEMMA BeforeLast ==
    ASSUME NEW ps \in Seq(Page), Chained(ps), NEW n \in 1 .. Len(ps),
           NEW a \in Cursor, Within(a, Start(ps, n), ps[n].next),
           NEW b \in Cursor, b = a \/ After(a, b), NextCursor(ps) # None
    PROVE  ~After(b, NextCursor(ps))
<1>1. Len(ps) \in Nat /\ Len(ps) \in 1 .. Len(ps) /\ ps # <<>>
  OBVIOUS
<1>2. NextCursor(ps) = ps[Len(ps)].next
  BY <1>1 DEF NextCursor
<1>3. ps[n] \in Page /\ ps[Len(ps)] \in Page
  BY <1>1
<1>4. n # Len(ps) => n \in 1 .. Len(ps) - 1 /\ n < Len(ps)
  BY <1>1
<1>5. ps[n].next # None
  BY <1>2, <1>4 DEF Chained
<1>6. n # Len(ps) => After(NextCursor(ps), ps[n].next)
  BY <1>1, <1>2, <1>4 DEF Chained
<1>7. ps[n].next \in Cursor /\ NextCursor(ps) \in Cursor
  BY <1>2, <1>3, <1>5 DEF Page
<1>8. ~After(a, ps[n].next)
  BY <1>5 DEF Within
<1>9. ~After(a, NextCursor(ps))
  BY <1>2, <1>6, <1>7, <1>8, AfterOrder
<1> QED
  BY <1>7, <1>9, AfterOrder

(* Every row up to the last cursor lies on one of the pages.                *)
LEMMA SomePage ==
    ASSUME NEW ps \in Seq(Page), ps # <<>>, NEW a \in Cursor,
           NextCursor(ps) = None \/ ~After(a, NextCursor(ps))
    PROVE  \E n \in 1 .. Len(ps) : Within(a, Start(ps, n), ps[n].next)
<1> DEFINE T == {n \in 1 .. Len(ps) : ps[n].next = None \/ ~After(a, ps[n].next)}
<1>1. Len(ps) \in Nat /\ Len(ps) \in 1 .. Len(ps)
  OBVIOUS
<1>2. Len(ps) \in T
  BY <1>1 DEF NextCursor
<1>3. T \subseteq Nat /\ T # {}
  BY <1>2
<1>4. PICK n \in T : \A k \in T : n <= k
  BY <1>3, Smallest
<1>5. CASE n = 1
  BY <1>4, <1>5 DEF Within, Start
<1>6. CASE n # 1
  <2>1. n \in 1 .. Len(ps) /\ n - 1 \in 1 .. Len(ps) /\ n - 1 \notin T
    BY <1>1, <1>4, <1>6
  <2> QED
    BY <1>4, <1>6, <2>1 DEF Within, Start
<1> QED
  BY <1>5, <1>6

LEMMA HeldIsItem ==
    ASSUME rows \in [Ids -> 0 .. MaxKey], NEW i \in Ids
    PROVE  /\ Item(i) = Held(rows, i) /\ (i \in InFolder <=> rows[i] # 0)
           /\ i \in InFolder => Held(rows, i) \in Cursor
<1>1. rows[i] # 0 => rows[i] \in Keys
  BY BoundsAssumption DEF Keys
<1> QED
  BY <1>1 DEF Item, Held, InFolder, Cursor

(* What stands on screen of a row that is not excused.                      *)
LEMMA OnPage ==
    ASSUME ViewTypeOK, NEW E, Faithful(rows, E, pages), NEW s \in Shown, s[2].id \notin E
    PROVE  /\ s[1] \in 1 .. Len(pages) /\ s[2] \in pages[s[1]].items /\ s = <<s[1], s[2]>>
           /\ s[2].id \in Ids /\ s[2].id \in InFolder /\ RowOf(s) = Held(rows, s[2].id)
           /\ RowOf(s) \in Cursor /\ RowOf(s) \in Listing
           /\ Within(RowOf(s), Start(pages, s[1]), pages[s[1]].next)
<1>a. PICK n \in 1 .. Len(pages) : s \in {<<n, a>> : a \in pages[n].items}
  BY DEF Shown
<1>1. PICK a \in pages[n].items : s = <<n, a>>
  BY <1>a
<1>2. pages[n] \in Page
  BY DEF ViewTypeOK
<1>3. a.id \in Ids
  BY <1>2 DEF Page
<1>4. PageShows(rows, a.id, pages[n].items, Start(pages, n), pages[n].next)
  BY <1>1, <1>3 DEF Faithful, Right
<1>5. rows[a.id] # 0 /\ a.key = rows[a.id] /\ Within(Held(rows, a.id), Start(pages, n), pages[n].next)
  BY <1>4 DEF PageShows
<1>6. Item(a.id) = Held(rows, a.id) /\ a.id \in InFolder /\ Held(rows, a.id) \in Cursor
  BY <1>3, <1>5, HeldIsItem DEF ViewTypeOK
<1>7. RowOf(s) = Held(rows, a.id)
  BY <1>1, <1>5 DEF RowOf, Held
<1> QED
  BY <1>1, <1>3, <1>5, <1>6, <1>7 DEF Listing

LEMMA IsShown ==
    ASSUME ViewTypeOK, NEW E, Faithful(rows, E, pages), pages # <<>>,
           NEW i \in Ids \ E, i \in InFolder, Reached(i)
    PROVE  \E s \in Shown : s[2].id = i
<1>1. Item(i) = Held(rows, i) /\ rows[i] # 0 /\ Held(rows, i) \in Cursor
  BY HeldIsItem DEF ViewTypeOK
<1>2. PICK n \in 1 .. Len(pages) : Within(Held(rows, i), Start(pages, n), pages[n].next)
  BY <1>1, SomePage DEF Reached, ViewTypeOK
<1>3. PICK a \in pages[n].items : a.id = i
  BY <1>1, <1>2 DEF Faithful, Right, PageShows
<1>4. <<n, a>> \in Shown /\ <<n, a>>[2] = a
  BY DEF Shown
<1> QED
  BY <1>3, <1>4

LEMMA OnceHolds == ViewInv => UntouchedRowsOnce
<1> SUFFICES ASSUME ViewInv, pages # <<>>, NEW i \in Ids,
                    \A who \in {"me", "them", "lost"} : <<who, i>> \notin touched
             PROVE  Times(i) = IF i \in InFolder /\ Reached(i) THEN 1 ELSE 0
  BY DEF UntouchedRowsOnce
<1> DEFINE E == Of(touched)
           X == {s \in Shown : s[2].id = i}
<1>1. /\ ViewTypeOK /\ pages \in Seq(Page) /\ rows \in [Ids -> 0 .. MaxKey]
      /\ Faithful(rows, E, pages) /\ Chained(pages)
  BY DEF ViewInv, PagesInv, ViewTypeOK, Faithful
<1>2. i \notin E
  BY DEF Of
<1> HIDE DEF E
<1>3. \A s \in X : /\ s[1] \in 1 .. Len(pages) /\ s[2] \in pages[s[1]].items /\ s = <<s[1], s[2]>>
                   /\ i \in InFolder /\ RowOf(s) = Held(rows, i) /\ Held(rows, i) \in Cursor
                   /\ Within(Held(rows, i), Start(pages, s[1]), pages[s[1]].next)
  BY <1>1, <1>2, OnPage
<1>4. ASSUME NEW s \in X, NEW t \in X
      PROVE  s = t
  <2>1. ~After(Held(rows, i), Held(rows, i))
    BY <1>3, AfterOrder
  <2>2. ~(s[1] < t[1]) /\ ~(t[1] < s[1])
    BY <1>1, <1>3, <2>1, PagesInOrder
  <2>3. s[1] = t[1]
    BY <1>3, <2>2
  <2>4. s[2] = t[2]
    BY <1>1, <1>3, <2>3 DEF Faithful, OneEach
  <2> QED
    BY <1>3, <2>3, <2>4
<1>5. X # {} => Reached(i)
  <2> SUFFICES ASSUME NEW s \in X, NextCursor(pages) # None
               PROVE  ~After(Item(i), NextCursor(pages))
    BY DEF Reached
  <2>1. ~After(Held(rows, i), NextCursor(pages))
    BY <1>1, <1>3, BeforeLast
  <2> QED
    BY <1>1, <2>1, HeldIsItem
<1>6. CASE i \in InFolder /\ Reached(i)
  <2>1. X # {}
    BY <1>1, <1>2, <1>6, IsShown
  <2>2. PICK s : X = {s}
    BY <1>4, <2>1
  <2> QED
    BY <1>6, <2>2, FS_Singleton DEF Times
<1>7. CASE ~(i \in InFolder /\ Reached(i))
  <2>1. X = {}
    BY <1>3, <1>5, <1>7
  <2> QED
    BY <1>7, <2>1, FS_EmptySet DEF Times
<1> QED
  BY <1>6, <1>7

LEMMA QuietHolds == ViewInv => QuietViewIsListing
<1> SUFFICES ASSUME ViewInv, Settled, ~Pending, \A w \in touched : w[1] = "me"
             PROVE  /\ \A s \in Shown : RowOf(s) \in Listing
                    /\ \A s, t \in Shown : s # t => (Above(s, t) <=> After(RowOf(t), RowOf(s)))
                    /\ \A s \in Shown, a \in Listing :
                           After(RowOf(s), a) => \E t \in Shown : RowOf(t) = a
                    /\ NextCursor(pages) = None <=> \A a \in Listing : \E t \in Shown : RowOf(t) = a
  BY DEF QuietViewIsListing
<1>1. pages # <<>> /\ Of(touched) = {}
  <2>1. pages # <<>> /\ Accounted(muts, touched)
    BY DEF ViewInv, HasPages, OwnWrites, Settled, Refetching
  <2>2. \A m \in Muts : ~Underway(muts[m])
    BY DEF Pending, Underway
  <2>3. \A i \in Ids : <<"them", i>> \notin touched /\ <<"lost", i>> \notin touched
    OBVIOUS
  <2>4. \A i \in Ids : <<"me", i>> \notin touched
    BY <2>1, <2>2, <2>3 DEF Accounted
  <2> QED
    BY <2>1, <2>3, <2>4 DEF Of
<1>2. /\ ViewTypeOK /\ pages # <<>> /\ pages \in Seq(Page) /\ rows \in [Ids -> 0 .. MaxKey]
      /\ Faithful(rows, {}, pages) /\ Chained(pages) /\ OneEach(pages)
  BY <1>1 DEF ViewInv, PagesInv, ViewTypeOK, Faithful
<1>3. \A s \in Shown :
          /\ s[1] \in 1 .. Len(pages) /\ s[2] \in pages[s[1]].items /\ s = <<s[1], s[2]>>
          /\ s[2].id \in Ids /\ s[2].id \in InFolder /\ RowOf(s) = Held(rows, s[2].id)
          /\ RowOf(s) \in Cursor /\ RowOf(s) \in Listing
          /\ Within(RowOf(s), Start(pages, s[1]), pages[s[1]].next)
  BY <1>2, OnPage
<1>4. ASSUME NEW a \in Listing
      PROVE  \E i \in InFolder : i \in Ids /\ a = Item(i) /\ a = Held(rows, i) /\ a \in Cursor
  <2>1. PICK i \in InFolder : a = Item(i)
    BY DEF Listing
  <2>2. i \in Ids
    BY DEF InFolder
  <2> QED
    BY <1>2, <2>1, <2>2, HeldIsItem
<1>5. ASSUME NEW a \in Listing, NextCursor(pages) = None \/ ~After(a, NextCursor(pages))
      PROVE  \E t \in Shown : RowOf(t) = a
  <2>1. PICK i \in InFolder : i \in Ids /\ a = Item(i) /\ a = Held(rows, i)
    BY <1>4
  <2>2. Reached(i)
    BY <1>5, <2>1 DEF Reached
  <2>3. i \in Ids \ {}
    BY <2>1
  <2>4. PICK t \in Shown : t[2].id = i
    BY <1>2, <2>2, <2>3, IsShown
  <2> QED
    BY <1>3, <2>1, <2>4
<1>6. ASSUME NEW s \in Shown, NEW t \in Shown, s # t
      PROVE  Above(s, t) <=> After(RowOf(t), RowOf(s))
  <2>1. s[1] \in Nat /\ t[1] \in Nat
    BY <1>3
  <2>2. CASE s[1] < t[1]
    <3>1. After(RowOf(t), RowOf(s))
      BY <1>2, <1>3, <2>2, PagesInOrder
    <3> QED
      BY <2>2, <3>1 DEF Above
  <2>3. CASE t[1] < s[1]
    <3>1. After(RowOf(s), RowOf(t))
      BY <1>2, <1>3, <2>3, PagesInOrder
    <3>2. ~After(RowOf(t), RowOf(s))
      BY <1>3, <3>1, AfterOrder
    <3> QED
      BY <2>1, <2>3, <3>2 DEF Above
  <2>4. CASE s[1] = t[1]
    <3>1. PageOrders(rows, s[2].id, t[2].id, pages[s[1]].items)
      BY <1>2, <1>3 DEF Faithful, InOrder
    <3>2. s[2].place < t[2].place <=> After(Held(rows, t[2].id), Held(rows, s[2].id))
      BY <1>3, <2>4, <3>1 DEF PageOrders
    <3> QED
      BY <1>3, <2>1, <2>4, <3>2 DEF Above
  <2> QED
    BY <2>1, <2>2, <2>3, <2>4
<1>7. ASSUME NEW s \in Shown, NEW a \in Listing, After(RowOf(s), a)
      PROVE  \E t \in Shown : RowOf(t) = a
  <2>1. NextCursor(pages) # None => ~After(a, NextCursor(pages))
    BY <1>2, <1>3, <1>4, <1>7, BeforeLast
  <2> QED
    BY <1>5, <2>1
<1>8. ASSUME NextCursor(pages) # None
      PROVE  \E a \in Listing : \A t \in Shown : RowOf(t) # a
  <2>1. PICK i \in Ids : rows[i] # 0 /\ After(Held(rows, i), NextCursor(pages))
    BY <1>2, <1>8 DEF Faithful, MoreToCome
  <2>2. i \in InFolder /\ Held(rows, i) = Item(i) /\ Held(rows, i) \in Listing
    BY <1>2, <2>1, HeldIsItem DEF Listing
  <2>3. \A t \in Shown : ~After(RowOf(t), NextCursor(pages))
    BY <1>2, <1>3, <1>8, BeforeLast
  <2> QED
    BY <2>1, <2>2, <2>3
<1> QED
  BY <1>3, <1>5, <1>6, <1>7, <1>8

(* Paging through a folder that changes meanwhile neither repeats nor skips *)
(* a row that nobody touched, for any page size, any number of rows and     *)
(* mutations, and any order of writes, answers and failures.                *)
THEOREM OnceCorrect == Spec => []UntouchedRowsOnce
  BY ViewCorrect, OnceHolds, PTL

(* Once this user's mutations have settled and others have written nothing, *)
(* the rows on screen are the start of the folder's listing, in its order,  *)
(* whatever was patched, rolled back over one another or read in between.   *)
THEOREM QuietCorrect == Spec => []QuietViewIsListing
  BY ViewCorrect, QuietHolds, PTL
=============================================================================
