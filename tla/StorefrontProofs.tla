--------------------------- MODULE StorefrontProofs ---------------------------
(***************************************************************************)
(* Proofs about the pages that only read: the listings (Listing), the      *)
(* sitemap (Sitemap) and the sales figures (SalesReport), for any number   *)
(* of products, categories, orders and days, any prices and page size.     *)
(***************************************************************************)
EXTENDS MCStorefront, RowFacts

-----------------------------------------------------------------------------
(* The walk through a listing.  While it goes on, a product is where the     *)
(* number of those ahead of it says, and the pages fetched so far have shown *)
(* what was ahead of them, as long as nothing left the listing.              *)

Walks == [step : {"off", "count", "slice", "shown", "done"}, listing : Categories \cup {Shop},
          ordering : Orderings, page : Nat \ {0}, pages : Nat \ {0}, count : Nat,
          seen : [Products -> 0..2], steady : SUBSET Products,
          removed : BOOLEAN, added : BOOLEAN, torn : BOOLEAN, tied : BOOLEAN]

ProductRows == [Products -> [state : States, category : Categories]]

\* A listing's rows.
Listed(of, listing) ==
  {p \in Products : of[p].state \in {"active", "unavailable"} /\ of[p].category \in Covers(listing)}

Going(w) == w.step \in {"count", "slice", "shown"}
Ahead(w, S, p) == {q \in S : ComesFirst(w.ordering, q, p)}

\* Rows on the pages that were fetched.
Fetched(w) == (IF w.step = "shown" THEN w.page ELSE w.page - 1) * PageSize

\* A page asked for exists, and the count is the listing's until it grows.
PagesInRange(w, S) ==
  Going(w) /\ ~w.removed /\ ~w.torn =>
    /\ w.step = "count" => w.page <= Pages(Cardinality(S))
    /\ w.step # "count" => w.pages = Pages(w.count) /\ w.page <= w.pages
    /\ w.step = "slice" => w.count = Cardinality(S)
    /\ w.step = "shown" => w.count <= Cardinality(S)

\* What has not been shown is behind everything fetched.
UnseenAreBehind(w, S) ==
  Going(w) /\ ~w.tied /\ ~w.removed /\ ~w.torn =>
    \A p \in w.steady : w.seen[p] = 0 =>
      /\ Cardinality(Ahead(w, S, p)) >= Fetched(w)
      /\ w.step = "shown" => w.page < w.pages

\* What has been shown, once, was fetched, and comes no later.
SeenAreFetched(w, S) ==
  Going(w) /\ ~w.tied /\ ~w.removed /\ ~w.added =>
    \A p \in w.steady : /\ w.seen[p] \in {0, 1}
                        /\ w.seen[p] = 1 => Cardinality(Ahead(w, S, p)) < Fetched(w)

Fair(w) ==
  w.step = "done" /\ ~w.tied =>
    \A p \in w.steady : /\ w.seen[p] = 0 => w.removed \/ w.torn
                        /\ w.seen[p] = 2 => w.removed \/ w.added

WalkGoes(w, S) ==
  /\ Going(w) => w.steady \subseteq S
  /\ Going(w) /\ ~w.removed /\ ~w.added => ~w.torn
  /\ PagesInRange(w, S) /\ UnseenAreBehind(w, S) /\ SeenAreFetched(w, S) /\ Fair(w)

\* The walk after a page was shown, with the ranks its slice had, and after a
\* change by staff that makes T of the rows S.
ShownWalk(v, S, rank) ==
  LET top == IF v.page * PageSize < v.count THEN v.page * PageSize ELSE v.count
      shown == {p \in S : (v.page - 1) * PageSize < rank[p] /\ rank[p] <= top}
  IN [v EXCEPT !.step = "shown",
               !.seen = [p \in Products |-> IF p \in shown /\ v.seen[p] < 2
                                            THEN v.seen[p] + 1 ELSE v.seen[p]],
               !.tied = @ \/ (v.ordering = "price" /\ \E p, q \in S : p # q /\ Price[p] = Price[q])]

ChangedWalk(v, S, T) ==
  IF v.step \in {"off", "done"} THEN v
  ELSE [v EXCEPT !.steady = @ \cap T,
                 !.removed = @ \/ S \ T # {},
                 !.added = @ \/ T \ S # {},
                 !.torn = @ \/ (v.step = "slice" /\ S # T)]

ListingInv ==
  /\ product \in ProductRows /\ open \subseteq Categories /\ walk \in Walks /\ changes \in Nat
  /\ WalkGoes(walk, Listed(product, walk.listing))
-----------------------------------------------------------------------------
(* Pages and ranks.                                                          *)

\* Pages of equal size, in order.
LEMMA TimesUp ==
  ASSUME NEW s \in Nat, NEW a \in Int, NEW b \in Int, a <= b
  PROVE  a * s <= b * s /\ a * s \in Int /\ b * s \in Int
<1>1. b * s = a * s + (b - a) * s
  OBVIOUS
<1>2. b - a \in Nat
  OBVIOUS
<1>3. (b - a) * s >= 0
  <2> DEFINE d == b - a
  <2> HIDE DEF d
  <2>1. ASSUME d \in Nat PROVE d * s \in Nat
    BY <2>1
  <2> QED
    BY <1>2, <2>1 DEF d
<1> QED
  BY <1>1, <1>3

\* What the integer division of counts by page sizes is.
LEMMA DivisionBounds ==
  ASSUME NEW a \in Nat, NEW s \in Nat \ {0}
  PROVE  /\ a \div s \in Nat
         /\ (a \div s) * s <= a /\ a < (a \div s) * s + s
  OBVIOUS

\* The last page is the one that holds the last row.
LEMMA PagesHoldAll ==
  ASSUME NEW count \in Nat
  PROVE  /\ Pages(count) \in Nat \ {0}
         /\ count <= Pages(count) * PageSize
         /\ \A k \in Nat : k * PageSize < count => k < Pages(count)
<1>1. PageSize \in Nat \ {0}
  BY ListingAssumption
<1>2. CASE count = 0
  <2>1. Pages(count) = 1
    BY <1>2 DEF Pages
  <2>2. \A k \in Nat : k * PageSize >= 0
    BY <1>1, TimesUp
  <2> QED
    BY <1>1, <1>2, <2>1, <2>2
<1>3. CASE count # 0
  <2> DEFINE a == count + PageSize - 1
             q == a \div PageSize
  <2>1. a \in Nat /\ Pages(count) = q
    BY <1>1, <1>3 DEF Pages
  <2>2. q \in Nat /\ q * PageSize <= a /\ a < q * PageSize + PageSize
    BY <1>1, <2>1, DivisionBounds
  <2> HIDE DEF q
  <2>3. q * PageSize \in Int
    BY <1>1, <2>2
  <2>4. count <= q * PageSize
    BY <1>1, <2>2, <2>3
  <2>5. q # 0
    BY <1>1, <1>3, <2>4
  <2>6. ASSUME NEW k \in Nat, k * PageSize < count PROVE k < q
    <3>1. q <= k => q * PageSize <= k * PageSize
      BY <1>1, <2>2, TimesUp
    <3>2. k * PageSize \in Int
      BY <1>1
    <3> QED
      BY <2>2, <2>3, <2>4, <2>6, <3>1, <3>2
  <2> QED
    BY <2>1, <2>2, <2>4, <2>5, <2>6
<1> QED
  BY <1>2, <1>3

\* More rows make no fewer pages.
LEMMA PagesGrow ==
  ASSUME NEW a \in Nat, NEW b \in Nat, a <= b
  PROVE  Pages(a) <= Pages(b)
<1>1. PageSize \in Nat \ {0}
  BY ListingAssumption
<1>2. /\ Pages(a) \in Nat \ {0} /\ Pages(b) \in Nat \ {0}
      /\ b <= Pages(b) * PageSize
  BY PagesHoldAll
<1>3. CASE a = 0
  <2>1. Pages(a) = 1
    BY <1>3 DEF Pages
  <2> QED
    BY <1>2, <2>1
<1>4. CASE a # 0
  <2> DEFINE q == Pages(a)
             r == Pages(b)
  <2>1. q * PageSize <= a + PageSize - 1
    <3>1. a + PageSize - 1 \in Nat /\ q = (a + PageSize - 1) \div PageSize
      BY <1>1, <1>4 DEF Pages
    <3> QED
      BY <1>1, <3>1, DivisionBounds
  <2> SUFFICES ASSUME r < q PROVE FALSE
    BY <1>2
  <2> HIDE DEF q, r
  <2>2. q \in Nat /\ r \in Nat /\ b <= r * PageSize
    BY <1>2 DEF q, r
  <2>3. (r + 1) * PageSize <= q * PageSize
    BY <1>1, <2>2, TimesUp
  <2>4. (r + 1) * PageSize = r * PageSize + PageSize /\ r * PageSize \in Int /\ q * PageSize \in Int
    BY <1>1, <2>2
  <2> QED
    BY <1>1, <2>1, <2>2, <2>3, <2>4
<1> QED
  BY <1>3, <1>4

\* There are finitely many products.
LEMMA ProductsFinite ==
  IsFiniteSet(Products)
BY ListingAssumption, FS_Interval DEF Products

\* The rank of a row, where the ordering leaves no ties: one more than what
\* comes before it.
LEMMA RankCountsAhead ==
  ASSUME NEW S \in SUBSET Products, NEW ordering, NEW rank \in Rankings(ordering, S),
         \A p, q \in S : p # q => ComesFirst(ordering, p, q) \/ ComesFirst(ordering, q, p),
         NEW p \in S
  PROVE  /\ rank[p] = Cardinality({q \in S : ComesFirst(ordering, q, p)}) + 1
         /\ rank[p] \in 1..Cardinality(S)
<1> DEFINE n == Cardinality(S)
           A == {q \in S : rank[q] < rank[p]}
           B == S \ A
<1>1. n \in Nat /\ IsFiniteSet(S)
  BY ProductsFinite, FS_Subset, FS_CardinalityType
<1>2. /\ rank \in [S -> 1..n]
      /\ \A a, b \in S : a # b => rank[a] # rank[b]
      /\ \A a, b \in S : a # b /\ ComesFirst(ordering, a, b) => rank[a] < rank[b]
  BY DEF Rankings
<1> HIDE DEF n
<1>3. rank[p] \in 1..n /\ \A q \in S : rank[q] \in 1..n
  BY <1>2
<1>4. ~ComesFirst(ordering, p, p)
  <2>1. p \in Products /\ p \in Nat /\ Price[p] \in Nat
    BY ListingAssumption DEF Products
  <2> QED
    BY <2>1 DEF ComesFirst
<1>5. A = {q \in S : ComesFirst(ordering, q, p)}
  <2>1. ASSUME NEW q \in S PROVE rank[q] < rank[p] <=> ComesFirst(ordering, q, p)
    BY <1>1, <1>2, <1>3, <1>4
  <2> QED
    BY <2>1
<1>6. IsFiniteSet(A) /\ IsFiniteSet(B) /\ Cardinality(A) \in Nat /\ Cardinality(B) \in Nat
  BY <1>1, FS_Subset, FS_CardinalityType
<1>7. Cardinality(B) = n - Cardinality(A)
  <2>1. Cardinality(B) = Cardinality(S) - Cardinality(S \cap A)
    BY <1>1, FS_Difference
  <2>2. S \cap A = A
    OBVIOUS
  <2> QED
    BY <2>1, <2>2 DEF n
<1>8. Cardinality(A) <= rank[p] - 1
  <2> DEFINE f == [q \in A |-> rank[q]]
  <2>1. f \in Injection(A, 1..(rank[p] - 1))
    BY <1>1, <1>2, <1>3 DEF Injection, IsInjective
  <2>2. IsFiniteSet(1..(rank[p] - 1)) /\ Cardinality(1..(rank[p] - 1)) = rank[p] - 1
    BY <1>1, <1>3, FS_Interval
  <2> QED
    BY <2>1, <2>2, FS_Injection
<1>9. Cardinality(B) <= n - rank[p] + 1
  <2> DEFINE f == [q \in B |-> rank[q]]
  <2>1. f \in Injection(B, rank[p]..n)
    BY <1>1, <1>2, <1>3 DEF Injection, IsInjective
  <2>2. IsFiniteSet(rank[p]..n) /\ Cardinality(rank[p]..n) = n - rank[p] + 1
    BY <1>1, <1>3, FS_Interval
  <2> QED
    BY <2>1, <2>2, FS_Injection
<1>10. Cardinality(A) = rank[p] - 1
  BY <1>1, <1>3, <1>6, <1>7, <1>8, <1>9
<1>11. rank[p] = Cardinality(A) + 1
  BY <1>1, <1>3, <1>6, <1>10
<1> HIDE DEF A
<1> QED
  BY <1>3, <1>5, <1>11 DEF n

\* The rows ahead of one can be counted.
LEMMA AheadFinite ==
  ASSUME NEW w, NEW S \in SUBSET Products, NEW p
  PROVE  Cardinality(Ahead(w, S, p)) \in Nat /\ Cardinality(S) \in Nat
<1>1. IsFiniteSet(S) /\ Ahead(w, S, p) \subseteq S
  BY ProductsFinite, FS_Subset DEF Ahead
<1> QED
  BY <1>1, FS_Subset, FS_CardinalityType

\* More rows, no fewer of them ahead.
LEMMA MoreAhead ==
  ASSUME NEW w, NEW T \in SUBSET Products, NEW S \in SUBSET T, NEW p
  PROVE  Cardinality(S) <= Cardinality(T) /\ Cardinality(Ahead(w, S, p)) <= Cardinality(Ahead(w, T, p))
<1>1. IsFiniteSet(T) /\ IsFiniteSet(Ahead(w, T, p)) /\ Ahead(w, S, p) \subseteq Ahead(w, T, p)
  BY ProductsFinite, FS_Subset DEF Ahead
<1> QED
  BY <1>1, FS_Subset

-----------------------------------------------------------------------------
(* Each step of a visitor, and a change by staff, keep the walk going.       *)

\* A visitor who reads no listing misses nothing.
LEMMA NoWalkGoes ==
  ASSUME NEW S
  PROVE  NoWalk \in Walks /\ WalkGoes(NoWalk, S)
BY DEF NoWalk, Walks, Orderings, WalkGoes, Going, PagesInRange, UnseenAreBehind, SeenAreFetched, Fair

\* A visitor opens a listing.
LEMMA StartGoes ==
  ASSUME NEW S \in SUBSET Products, NEW listing \in Categories \cup {Shop}, NEW ordering \in Orderings,
         NEW w, w = [NoWalk EXCEPT !.step = "count", !.listing = listing, !.ordering = ordering,
                                   !.steady = S]
  PROVE  w \in Walks /\ WalkGoes(w, S)
<1>1. /\ w.step = "count" /\ w.page = 1 /\ w.steady = S
      /\ w.seen = [p \in Products |-> 0]
  BY DEF NoWalk
<1>2. w \in Walks
  BY NoWalkGoes DEF Walks
<1>3. 1 <= Pages(Cardinality(S))
  <2>1. Pages(Cardinality(S)) \in Nat \ {0}
    BY AheadFinite, PagesHoldAll
  <2> QED
    BY <2>1
<1>4. PagesInRange(w, S)
  BY <1>1, <1>3 DEF PagesInRange
<1>5. Fetched(w) = 0
  <2>1. PageSize \in Nat /\ 1 - 1 = 0 /\ 0 * PageSize = 0
    BY ListingAssumption
  <2> QED
    BY <1>1, <2>1 DEF Fetched
<1>6. UnseenAreBehind(w, S)
  <2>1. \A p : Cardinality(Ahead(w, S, p)) >= 0
    BY AheadFinite
  <2> QED
    BY <1>1, <1>5, <2>1 DEF UnseenAreBehind
<1>7. SeenAreFetched(w, S)
  BY <1>1 DEF SeenAreFetched
<1> QED
  BY <1>1, <1>2, <1>4, <1>6, <1>7 DEF WalkGoes, Fair, NoWalk

\* The rows are counted: a page beyond the last one becomes the last one.
LEMMA CountGoes ==
  ASSUME NEW S \in SUBSET Products, NEW v \in Walks, WalkGoes(v, S), v.step = "count",
         NEW pages, pages = Pages(Cardinality(S)),
         NEW w, w = [v EXCEPT !.step = "slice", !.count = Cardinality(S), !.pages = pages,
                              !.page = IF v.page > pages THEN pages ELSE v.page]
  PROVE  w \in Walks /\ WalkGoes(w, S)
<1>1. Cardinality(S) \in Nat /\ pages \in Nat \ {0}
  BY AheadFinite, PagesHoldAll
<1>2. /\ w.step = "slice" /\ w.count = Cardinality(S) /\ w.pages = pages
      /\ w.page = (IF v.page > pages THEN pages ELSE v.page)
      /\ w.steady = v.steady /\ w.seen = v.seen /\ w.ordering = v.ordering
      /\ w.removed = v.removed /\ w.added = v.added /\ w.torn = v.torn /\ w.tied = v.tied
  BY DEF Walks
<1>3. w \in Walks
  BY <1>1 DEF Walks
<1>4. Going(v) /\ Going(w)
  BY <1>2 DEF Going
<1>5. ~v.removed /\ ~v.torn => w.page = v.page
  <2>1. ~v.removed /\ ~v.torn => v.page <= pages
    BY <1>4 DEF WalkGoes, PagesInRange
  <2>2. v.page \in Nat
    BY DEF Walks
  <2> QED
    BY <1>1, <1>2, <2>1, <2>2
<1>6. PagesInRange(w, S)
  <2>1. w.page <= pages
    BY <1>1, <1>2 DEF Walks
  <2> QED
    BY <1>2, <2>1 DEF PagesInRange
<1>7. ~v.removed /\ ~v.torn => Fetched(w) = Fetched(v)
  BY <1>2, <1>5 DEF Fetched
<1>8. \A p : Ahead(w, S, p) = Ahead(v, S, p)
  BY <1>2 DEF Ahead
<1>9. UnseenAreBehind(w, S)
  BY <1>2, <1>4, <1>7, <1>8 DEF WalkGoes, UnseenAreBehind
<1>10. SeenAreFetched(w, S)
  BY <1>2, <1>4, <1>7, <1>8 DEF WalkGoes, SeenAreFetched
<1> QED
  BY <1>2, <1>3, <1>4, <1>6, <1>9, <1>10 DEF WalkGoes, Fair

\* The slice is fetched, whatever ranking the database chooses for it.
LEMMA FetchGoes ==
  ASSUME NEW S \in SUBSET Products, NEW v \in Walks, WalkGoes(v, S), v.step = "slice",
         NEW rank \in Rankings(v.ordering, S)
  PROVE  ShownWalk(v, S, rank) \in Walks /\ WalkGoes(ShownWalk(v, S, rank), S)
<1> DEFINE top == IF v.page * PageSize < v.count THEN v.page * PageSize ELSE v.count
           shown == {p \in S : (v.page - 1) * PageSize < rank[p] /\ rank[p] <= top}
           seen == [p \in Products |-> IF p \in shown /\ v.seen[p] < 2
                                       THEN v.seen[p] + 1 ELSE v.seen[p]]
           tied == v.tied \/ (v.ordering = "price" /\ \E p, q \in S : p # q /\ Price[p] = Price[q])
           w == ShownWalk(v, S, rank)
           start == (v.page - 1) * PageSize
           end == v.page * PageSize
<1>0. /\ w = [v EXCEPT !.step = "shown", !.seen = seen, !.tied = tied]
      /\ tied \in BOOLEAN /\ (~tied => ~v.tied)
      /\ ~tied /\ v.ordering = "price" => \A p, q \in S : p # q => Price[p] # Price[q]
      /\ top = (IF end < v.count THEN end ELSE v.count)
      /\ \A p \in S : p \in shown <=> (start < rank[p] /\ rank[p] <= top)
      /\ \A p \in Products : seen[p] = IF p \in shown /\ v.seen[p] < 2
                                       THEN v.seen[p] + 1 ELSE v.seen[p]
  BY DEF ShownWalk, Walks
<1>1. /\ w.step = "shown" /\ w.seen = seen /\ w.tied = tied
      /\ w.page = v.page /\ w.pages = v.pages /\ w.count = v.count
      /\ w.steady = v.steady /\ w.ordering = v.ordering
      /\ w.removed = v.removed /\ w.added = v.added /\ w.torn = v.torn
  <2> HIDE DEF seen, tied, w
  <2> QED
    BY <1>0 DEF Walks
<1>2. seen \in [Products -> 0..2]
  BY DEF Walks
<1> HIDE DEF w, seen, tied, shown, top
<1>3. w \in Walks
  BY <1>0, <1>2 DEF Walks
<1>4. Going(v) /\ Going(w) /\ w.steady \subseteq S
  BY <1>1 DEF Going, WalkGoes
<1>5. /\ PageSize \in Nat \ {0} /\ v.page \in Nat \ {0} /\ v.count \in Nat /\ v.pages \in Nat
      /\ Cardinality(S) \in Nat
  BY ListingAssumption, AheadFinite DEF Walks
<1>6. start \in Nat /\ end \in Nat /\ start <= end
  <2>1. v.page - 1 \in Nat /\ v.page - 1 <= v.page
    BY <1>5
  <2>2. start <= end
    BY <1>5, <2>1, TimesUp
  <2>3. ASSUME NEW a \in Nat PROVE a * PageSize \in Nat
    BY <1>5, <2>3
  <2> QED
    BY <1>5, <2>1, <2>2, <2>3
<1>7. Fetched(v) = start /\ Fetched(w) = end
  BY <1>1 DEF Fetched
<1>8. ~v.removed /\ ~v.torn =>
        v.count = Cardinality(S) /\ v.pages = Pages(v.count) /\ v.page <= v.pages
  BY <1>4 DEF WalkGoes, PagesInRange
<1>9. top \in Nat /\ top <= end /\ top <= v.count
  <2> HIDE DEF end
  <2> QED
    BY <1>0, <1>5, <1>6
<1>10. ~tied => \A p \in S : /\ rank[p] = Cardinality(Ahead(v, S, p)) + 1
                             /\ rank[p] \in 1..Cardinality(S)
  <2> SUFFICES ASSUME ~tied, NEW p \in S
               PROVE  /\ rank[p] = Cardinality(Ahead(v, S, p)) + 1
                      /\ rank[p] \in 1..Cardinality(S)
    OBVIOUS
  <2>1. \A a, b \in S : a # b => ComesFirst(v.ordering, a, b) \/ ComesFirst(v.ordering, b, a)
    <3> SUFFICES ASSUME NEW a \in S, NEW b \in S, a # b
                 PROVE  ComesFirst(v.ordering, a, b) \/ ComesFirst(v.ordering, b, a)
      OBVIOUS
    <3>1. a \in Nat /\ b \in Nat /\ Price[a] \in Nat /\ Price[b] \in Nat
      BY ListingAssumption DEF Products
    <3>2. v.ordering = "price" => Price[a] # Price[b]
      BY <1>0
    <3> QED
      BY <3>1, <3>2 DEF ComesFirst
  <2> QED
    BY <2>1, RankCountsAhead DEF Ahead
<1>11. \A p : Ahead(w, S, p) = Ahead(v, S, p)
  BY <1>1 DEF Ahead
<1> DEFINE ahead(p) == Cardinality(Ahead(v, S, p))
<1>12. \A p : ahead(p) \in Nat
  BY AheadFinite
<1>13. \A p \in Products : v.seen[p] \in 0..2
  BY DEF Walks
<1> HIDE DEF start, end, ahead
<1>14. PagesInRange(w, S)
  BY <1>1, <1>4, <1>5, <1>8 DEF PagesInRange
<1>15. UnseenAreBehind(w, S)
  <2> SUFFICES ASSUME ~tied, ~v.removed, ~v.torn, NEW p \in v.steady, seen[p] = 0
               PROVE  ahead(p) >= end /\ v.page < v.pages
    BY <1>1, <1>7, <1>11 DEF UnseenAreBehind, ahead
  <2>1. p \in S /\ p \in Products
    BY <1>1, <1>4
  <2>2. v.seen[p] = 0 /\ p \notin shown
    BY <1>0, <1>13, <2>1
  <2>3. ahead(p) >= start
    BY <1>0, <1>4, <1>7, <2>2 DEF WalkGoes, UnseenAreBehind, ahead
  <2>4. rank[p] = ahead(p) + 1 /\ rank[p] <= Cardinality(S)
    BY <1>5, <1>10, <2>1 DEF ahead
  <2>5. rank[p] > top
    BY <1>0, <1>6, <1>9, <1>12, <2>1, <2>2, <2>3, <2>4
  <2>6. end < v.count /\ top = end
    BY <1>0, <1>5, <1>6, <1>8, <1>12, <2>4, <2>5
  <2>7. v.page < v.pages
    BY <1>5, <1>8, <2>6, PagesHoldAll DEF end
  <2> QED
    BY <1>6, <1>12, <2>4, <2>5, <2>6, <2>7
<1>16. SeenAreFetched(w, S)
  <2> SUFFICES ASSUME ~w.tied, ~w.removed, ~w.added, NEW p \in w.steady
               PROVE  /\ w.seen[p] \in {0, 1}
                      /\ w.seen[p] = 1 => Cardinality(Ahead(w, S, p)) < Fetched(w)
    BY DEF SeenAreFetched
  <2>1. p \in S /\ p \in Products /\ p \in v.steady /\ ~tied /\ ~v.removed /\ ~v.added
    BY <1>1, <1>4
  <2>2. v.seen[p] \in {0, 1} /\ (v.seen[p] = 1 => ahead(p) < start)
    BY <1>0, <1>4, <1>7, <2>1 DEF WalkGoes, SeenAreFetched, ahead
  <2>3. rank[p] = ahead(p) + 1
    BY <1>10, <2>1 DEF ahead
  <2>4. seen[p] = IF p \in shown THEN v.seen[p] + 1 ELSE v.seen[p]
    BY <1>0, <2>1, <2>2
  <2>5. p \in shown => ahead(p) >= start /\ ahead(p) < end
    BY <1>0, <1>6, <1>9, <1>12, <2>1, <2>3
  <2>6. CASE p \in shown
    <3>1. v.seen[p] = 0
      BY <1>6, <1>12, <2>2, <2>5, <2>6
    <3>2. seen[p] = 1 /\ ahead(p) < end
      BY <2>4, <2>5, <2>6, <3>1
    <3> QED
      BY <1>1, <1>7, <1>11, <3>2 DEF ahead
  <2>7. CASE p \notin shown
    <3>1. seen[p] \in {0, 1} /\ (seen[p] = 1 => ahead(p) < end)
      BY <1>6, <1>12, <2>2, <2>4, <2>7
    <3> QED
      BY <1>1, <1>7, <1>11, <3>1 DEF ahead
  <2> QED
    BY <2>6, <2>7
<1>17. ~w.removed /\ ~w.added => ~w.torn
  BY <1>1, <1>4 DEF WalkGoes
<1>18. w \in Walks /\ WalkGoes(w, S)
  BY <1>1, <1>3, <1>4, <1>14, <1>15, <1>16, <1>17 DEF WalkGoes, Fair
<1> QED
  BY <1>18 DEF w

\* The visitor turns the page.
LEMMA TurnGoes ==
  ASSUME NEW S \in SUBSET Products, NEW v \in Walks, WalkGoes(v, S),
         v.step = "shown", v.page < v.pages,
         NEW w, w = [v EXCEPT !.step = "count", !.page = @ + 1]
  PROVE  w \in Walks /\ WalkGoes(w, S)
<1>1. /\ w.step = "count" /\ w.page = v.page + 1
      /\ w.steady = v.steady /\ w.seen = v.seen /\ w.ordering = v.ordering
      /\ w.removed = v.removed /\ w.added = v.added /\ w.torn = v.torn /\ w.tied = v.tied
  BY DEF Walks
<1>2. v.page \in Nat \ {0} /\ v.pages \in Nat /\ v.count \in Nat /\ Cardinality(S) \in Nat
  BY AheadFinite DEF Walks
<1>3. w \in Walks
  <2> DEFINE next == v.page + 1
  <2>1. next \in Nat \ {0}
    BY <1>2
  <2>2. w = [v EXCEPT !.step = "count", !.page = next]
    OBVIOUS
  <2> HIDE DEF next
  <2> QED
    BY <2>1, <2>2 DEF Walks
<1>4. Going(v) /\ Going(w)
  BY <1>1 DEF Going
<1>5. PagesInRange(w, S)
  <2> SUFFICES ASSUME ~v.removed, ~v.torn PROVE v.page + 1 <= Pages(Cardinality(S))
    BY <1>1 DEF PagesInRange
  <2>1. v.pages = Pages(v.count) /\ v.count <= Cardinality(S)
    BY <1>4 DEF WalkGoes, PagesInRange
  <2>2. Pages(v.count) <= Pages(Cardinality(S)) /\ Pages(Cardinality(S)) \in Nat
    BY <1>2, <2>1, PagesGrow, PagesHoldAll
  <2> QED
    BY <1>2, <2>1, <2>2
<1>6. Fetched(w) = Fetched(v)
  <2>1. w.page - 1 = v.page
    BY <1>1, <1>2
  <2> QED
    BY <1>1, <2>1 DEF Fetched
<1>7. \A p : Ahead(w, S, p) = Ahead(v, S, p)
  BY <1>1 DEF Ahead
<1>8. UnseenAreBehind(w, S)
  BY <1>1, <1>4, <1>6, <1>7 DEF WalkGoes, UnseenAreBehind
<1>9. SeenAreFetched(w, S)
  BY <1>1, <1>4, <1>6, <1>7 DEF WalkGoes, SeenAreFetched
<1> QED
  BY <1>1, <1>3, <1>4, <1>5, <1>8, <1>9 DEF WalkGoes, Fair

\* The visitor has seen the last page.
LEMMA FinishGoes ==
  ASSUME NEW S \in SUBSET Products, NEW v \in Walks, WalkGoes(v, S),
         v.step = "shown", v.page = v.pages,
         NEW w, w = [v EXCEPT !.step = "done"]
  PROVE  w \in Walks /\ WalkGoes(w, S)
<1>1. /\ w.step = "done" /\ w.steady = v.steady /\ w.seen = v.seen
      /\ w.removed = v.removed /\ w.added = v.added /\ w.torn = v.torn /\ w.tied = v.tied
  BY DEF Walks
<1>2. w \in Walks /\ v.page \in Nat
  BY DEF Walks
<1>3. Going(v) /\ ~Going(w)
  BY <1>1 DEF Going
<1>4. Fair(w)
  <2> SUFFICES ASSUME ~v.tied, NEW p \in v.steady
               PROVE  /\ v.seen[p] = 0 => v.removed \/ v.torn
                      /\ v.seen[p] = 2 => v.removed \/ v.added
    BY <1>1 DEF Fair
  <2>1. v.seen[p] = 0 => v.removed \/ v.torn
    BY <1>2, <1>3 DEF WalkGoes, UnseenAreBehind
  <2>2. ~v.removed /\ ~v.added => v.seen[p] \in {0, 1}
    BY <1>3 DEF WalkGoes, SeenAreFetched
  <2> QED
    BY <2>1, <2>2
<1> QED
  BY <1>2, <1>3, <1>4
     DEF WalkGoes, PagesInRange, UnseenAreBehind, SeenAreFetched

\* A change by staff between two requests, or between the queries of one.
LEMMA ChangeGoes ==
  ASSUME NEW S \in SUBSET Products, NEW T \in SUBSET Products, NEW v \in Walks, WalkGoes(v, S)
  PROVE  ChangedWalk(v, S, T) \in Walks /\ WalkGoes(ChangedWalk(v, S, T), T)
<1> DEFINE steady == v.steady \cap T
           removed == v.removed \/ S \ T # {}
           added == v.added \/ T \ S # {}
           torn == v.torn \/ (v.step = "slice" /\ S # T)
           w == ChangedWalk(v, S, T)
<1>a. CASE v.step \in {"off", "done"}
  <2>1. w = v /\ ~Going(v)
    BY <1>a DEF Going, ChangedWalk
  <2> HIDE DEF w
  <2>2. w \in Walks /\ WalkGoes(w, T)
    BY <2>1 DEF WalkGoes, PagesInRange, UnseenAreBehind, SeenAreFetched
  <2> QED
    BY <2>2 DEF w
<1>b. SUFFICES ASSUME v.step \notin {"off", "done"}
               PROVE  w \in Walks /\ WalkGoes(w, T)
  BY <1>a
<1>1. /\ w = [v EXCEPT !.steady = steady, !.removed = removed, !.added = added, !.torn = torn]
      /\ steady \subseteq Products /\ steady \subseteq T
      /\ removed \in BOOLEAN /\ added \in BOOLEAN /\ torn \in BOOLEAN
  BY <1>b DEF ChangedWalk, Walks
<1>2. /\ ~removed => ~v.removed /\ S \subseteq T
      /\ ~removed /\ ~added => ~v.removed /\ ~v.added /\ S = T
      /\ ~torn => ~v.torn /\ (v.step = "slice" => S = T)
      /\ torn => v.torn \/ S # T
      /\ steady \subseteq v.steady
  OBVIOUS
<1> HIDE DEF w, steady, removed, added, torn
<1>3. ~removed /\ ~added => ~torn
  BY <1>b, <1>2 DEF WalkGoes, Going, Walks
<1>4. /\ w.step = v.step /\ w.page = v.page /\ w.pages = v.pages /\ w.count = v.count
      /\ w.steady = steady /\ w.seen = v.seen /\ w.ordering = v.ordering
      /\ w.removed = removed /\ w.added = added /\ w.torn = torn /\ w.tied = v.tied
  BY <1>1 DEF Walks
<1>5. w \in Walks
  BY <1>1 DEF Walks
<1>6. Going(v) /\ Going(w) /\ Fetched(w) = Fetched(v)
  BY <1>b, <1>4 DEF Going, Fetched, Walks
<1>7. \A p : Ahead(w, T, p) = Ahead(v, T, p)
  BY <1>4 DEF Ahead
<1>8. PagesInRange(w, T)
  <2> SUFFICES ASSUME ~removed, ~torn
               PROVE  /\ v.step = "count" => v.page <= Pages(Cardinality(T))
                      /\ v.step # "count" => v.pages = Pages(v.count) /\ v.page <= v.pages
                      /\ v.step = "slice" => v.count = Cardinality(T)
                      /\ v.step = "shown" => v.count <= Cardinality(T)
    BY <1>4 DEF PagesInRange
  <2>1. /\ Cardinality(S) <= Cardinality(T) /\ Cardinality(S) \in Nat /\ Cardinality(T) \in Nat
        /\ v.page \in Nat /\ v.count \in Nat
    BY <1>2, MoreAhead, AheadFinite DEF Walks
  <2>2. /\ Pages(Cardinality(S)) <= Pages(Cardinality(T))
        /\ Pages(Cardinality(S)) \in Nat /\ Pages(Cardinality(T)) \in Nat
    BY <2>1, PagesGrow, PagesHoldAll
  <2>3. /\ v.step = "count" => v.page <= Pages(Cardinality(S))
        /\ v.step # "count" => v.pages = Pages(v.count) /\ v.page <= v.pages
        /\ v.step = "slice" => v.count = Cardinality(S)
        /\ v.step = "shown" => v.count <= Cardinality(S)
    BY <1>2, <1>6 DEF WalkGoes, PagesInRange
  <2> QED
    BY <1>2, <2>1, <2>2, <2>3
<1>9. UnseenAreBehind(w, T)
  <2> SUFFICES ASSUME ~v.tied, ~removed, ~torn, NEW p \in v.steady, v.seen[p] = 0
               PROVE  /\ Cardinality(Ahead(v, T, p)) >= Fetched(v)
                      /\ v.step = "shown" => v.page < v.pages
    BY <1>2, <1>4, <1>6, <1>7 DEF UnseenAreBehind
  <2>1. /\ Cardinality(Ahead(v, S, p)) >= Fetched(v)
        /\ v.step = "shown" => v.page < v.pages
    BY <1>2, <1>6 DEF WalkGoes, UnseenAreBehind
  <2>2. /\ Cardinality(Ahead(v, S, p)) <= Cardinality(Ahead(v, T, p))
        /\ Cardinality(Ahead(v, S, p)) \in Nat /\ Cardinality(Ahead(v, T, p)) \in Nat
    BY <1>2, MoreAhead, AheadFinite
  <2>3. Fetched(v) \in Int
    BY ListingAssumption DEF Fetched, Walks
  <2> QED
    BY <2>1, <2>2, <2>3
<1>10. SeenAreFetched(w, T)
  BY <1>2, <1>4, <1>6, <1>7 DEF WalkGoes, SeenAreFetched
<1> QED
  BY <1>1, <1>2, <1>3, <1>4, <1>5, <1>6, <1>8, <1>9, <1>10 DEF WalkGoes, Fair

-----------------------------------------------------------------------------
(* The invariant.                                                            *)

\* The rows of a listing, named by the products they come from.
LEMMA MatchingIsListed ==
  ASSUME NEW listing
  PROVE  Matching(listing) = Listed(product, listing) /\ Listed(product, listing) \in SUBSET Products
BY DEF Matching, Active, Listed

\* At first nobody reads a listing.
LEMMA ListingStarts ==
  ListingInit => ListingInv
BY NoWalkGoes DEF ListingInit, ListingInv, ProductRows, States

\* A change by staff keeps the walk going.
LEMMA ChangeKeeps ==
  ASSUME ListingInv, NEW p \in Products, NEW new \in [state : States, category : Categories],
         ChangeProduct(p, new)
  PROVE  ListingInv'
<1> DEFINE after == {q \in Products :
                       LET now == IF q = p THEN new ELSE product[q]
                       IN now.state \in {"active", "unavailable"}
                          /\ now.category \in Covers(walk.listing)}
<1>1. /\ product' \in ProductRows /\ open' \subseteq Categories /\ changes' \in Nat
      /\ product \in ProductRows /\ product' = [product EXCEPT ![p] = new]
  BY DEF ListingInv, ChangeProduct, ProductRows
<1>2. after = Listed(product', walk.listing)
  <2>1. \A q \in Products : product'[q] = IF q = p THEN new ELSE product[q]
    BY <1>1 DEF ProductRows
  <2> QED
    BY <2>1 DEF Listed
<1>3. walk'.listing = walk.listing
  BY DEF ListingInv, ChangeProduct, Walks
<1>4. walk' \in Walks /\ WalkGoes(walk', after)
  <2> DEFINE S == Listed(product, walk.listing)
  <2>1. S \in SUBSET Products /\ after \in SUBSET Products /\ WalkGoes(walk, S) /\ walk \in Walks
    BY DEF ListingInv, Listed
  <2>2. walk' = ChangedWalk(walk, Matching(walk.listing), after)
    BY DEF ChangeProduct, ChangedWalk
  <2>3. Matching(walk.listing) = S
    BY MatchingIsListed
  <2> HIDE DEF S, after
  <2> QED
    BY <2>1, <2>2, <2>3, ChangeGoes
<1> HIDE DEF after
<1> QED
  BY <1>1, <1>2, <1>3, <1>4 DEF ListingInv

\* Every step keeps the invariant.
LEMMA ListingStep ==
  ListingInv /\ [ListingNext]_listingVars => ListingInv'
<1> SUFFICES ASSUME ListingInv, [ListingNext]_listingVars PROVE ListingInv'
  OBVIOUS
<1> DEFINE S == Listed(product, walk.listing)
<1>1. /\ product \in ProductRows /\ open \subseteq Categories /\ walk \in Walks /\ changes \in Nat
      /\ WalkGoes(walk, S) /\ S \in SUBSET Products /\ Matching(walk.listing) = S
  BY MatchingIsListed DEF ListingInv
<1> HIDE DEF S
\* A step of the visitor that leaves the products as they are.
<1>2. ASSUME UNCHANGED <<product, open, changes>>, walk'.listing = walk.listing,
             walk' \in Walks, WalkGoes(walk', S)
      PROVE  ListingInv'
  BY <1>1, <1>2 DEF ListingInv, S
<1>3. ASSUME UNCHANGED <<product, open, changes>>, walk' = NoWalk
      PROVE  ListingInv'
  BY <1>1, <1>3, NoWalkGoes DEF ListingInv
<1>4. CASE UNCHANGED listingVars
  BY <1>4 DEF listingVars, ListingInv
<1>5. ASSUME NEW listing \in Categories \cup {Shop}, NEW ordering \in Orderings,
             StartWalk(listing, ordering)
      PROVE  ListingInv'
  <2> DEFINE R == Listed(product, listing)
  <2>1. R \in SUBSET Products /\ Matching(listing) = R
    BY MatchingIsListed
  <2> HIDE DEF R
  <2>2. walk' = [NoWalk EXCEPT !.step = "count", !.listing = listing, !.ordering = ordering,
                               !.steady = R]
    BY <1>5, <2>1 DEF StartWalk
  <2>3. walk' \in Walks /\ WalkGoes(walk', R)
    BY <2>1, <2>2, StartGoes
  <2>4. walk'.listing = listing
    BY <2>2 DEF NoWalk
  <2> QED
    BY <1>1, <1>5, <2>3, <2>4 DEF StartWalk, ListingInv, R
<1>6. CASE CountPages
  <2> DEFINE pages == Pages(Cardinality(S))
  <2>1. /\ walk.step = "count" /\ UNCHANGED <<product, open, changes>>
        /\ walk' = [walk EXCEPT !.step = "slice", !.count = Cardinality(S), !.pages = pages,
                                !.page = IF walk.page > pages THEN pages ELSE walk.page]
    BY <1>1, <1>6 DEF CountPages
  <2> HIDE DEF pages
  <2>2. walk' \in Walks /\ WalkGoes(walk', S)
    BY <1>1, <2>1, CountGoes DEF pages
  <2>3. walk'.listing = walk.listing
    BY <1>1, <2>1 DEF Walks
  <2> QED
    BY <1>2, <2>1, <2>2, <2>3
<1>7. CASE Gone
  BY <1>3, <1>7 DEF Gone
<1>8. CASE FetchPage
  <2> DEFINE M == Matching(walk.listing)
  <2>1. PICK rank \in Rankings(walk.ordering, M) : walk' = ShownWalk(walk, M, rank)
    BY <1>8 DEF FetchPage, ShownWalk
  <2>2. walk.step = "slice" /\ UNCHANGED <<product, open, changes>>
    BY <1>8 DEF FetchPage
  <2> HIDE DEF M
  <2>3. M = S
    BY <1>1 DEF M
  <2>4. walk' \in Walks /\ WalkGoes(walk', S)
    BY <1>1, <2>1, <2>2, <2>3, FetchGoes
  <2>5. walk'.listing = walk.listing
    BY <1>1, <2>1 DEF Walks, ShownWalk
  <2> QED
    BY <1>2, <2>2, <2>4, <2>5
<1>9. CASE TurnPage
  <2>1. walk' \in Walks /\ WalkGoes(walk', S)
    BY <1>1, <1>9, TurnGoes DEF TurnPage
  <2>2. walk'.listing = walk.listing /\ UNCHANGED <<product, open, changes>>
    BY <1>1, <1>9 DEF TurnPage, Walks
  <2> QED
    BY <1>2, <2>1, <2>2
<1>10. CASE FinishWalk
  <2>1. walk' \in Walks /\ WalkGoes(walk', S)
    BY <1>1, <1>10, FinishGoes DEF FinishWalk
  <2>2. walk'.listing = walk.listing /\ UNCHANGED <<product, open, changes>>
    BY <1>1, <1>10 DEF FinishWalk, Walks
  <2> QED
    BY <1>2, <2>1, <2>2
<1>11. CASE Leave
  BY <1>3, <1>11 DEF Leave
<1>12. ASSUME NEW p \in Products, NEW c \in Categories, Create(p, c)
       PROVE  ListingInv'
  BY <1>12, ChangeKeeps DEF Create, States
<1>13. ASSUME NEW p \in Products, NEW c \in Categories, NEW s \in States,
              Edit(p, [state |-> s, category |-> c])
       PROVE  ListingInv'
  BY <1>13, ChangeKeeps DEF Edit
<1>14. ASSUME NEW c \in Categories, ToggleCategory(c)
       PROVE  ListingInv'
  BY <1>1, <1>14 DEF ToggleCategory, ListingInv
<1> QED
  BY <1>4, <1>5, <1>6, <1>7, <1>8, <1>9, <1>10, <1>11, <1>12, <1>13, <1>14 DEF ListingNext

\* At every moment a walk has in front of it all that it has not shown, unless
\* something left the listing or a page was torn (views.py:256).
THEOREM ListingInvariance ==
  ListingSpec => []ListingInv
<1>1. ListingInit => ListingInv
  BY ListingStarts
<1>2. ListingInv /\ [ListingNext]_listingVars => ListingInv'
  BY ListingStep
<1> QED
  BY <1>1, <1>2, PTL DEF ListingSpec

(* Every variable of the listings stays in its type.                         *)
THEOREM ListingTypes ==
  ListingSpec => []ListingTypeOK
<1>1. ListingInv => ListingTypeOK
  BY DEF ListingInv, ListingTypeOK, ProductRows, Walks
<1> QED
  BY <1>1, ListingInvariance, PTL

(* A visitor who pages through a listing to its end misses no product that   *)
(* was there all the time, unless another left the listing or it changed     *)
(* between a page's two queries, and sees none twice unless it changed: for  *)
(* every page size, any number of products and any changes by staff.         *)
THEOREM NobodyIsMissed ==
  ListingSpec => []WalkIsFair
<1>1. ListingInv => WalkIsFair
  BY DEF ListingInv, WalkGoes, Fair, WalkIsFair
<1> QED
  BY <1>1, ListingInvariance, PTL

-----------------------------------------------------------------------------
(* The sitemap.  What was named is remembered with what changed after, so    *)
(* that the rest is as it was when it was named.                             *)

\* The products to be named, and those of one category, in a table of products.
IndexedIn(of) == {p \in Products : of[p].state = "active"}
HoldingIn(of, c) ==
  {p \in Products : of[p].state \in {"active", "unavailable"} /\ of[p].category = c}

\* Between count and slice, the products to be named are those that were counted
\* and stayed, and those that came.
SliceGoes(k, of) ==
  /\ k.steady \subseteq IndexedIn(of) /\ IndexedIn(of) \subseteq k.steady \cup k.came
  /\ Cardinality(k.steady) <= k.count

\* What the slice named, since then.
ProductsGo(k, of) ==
  /\ Cardinality(k.steady \ k.products) <= Cardinality(k.came)
  /\ \A p \in k.products \ k.touched : of[p].state = "active"

\* What the whole sitemap named, since its last statement.
LinksGo(k, of, opened) ==
  /\ k.categories \ k.toggled \subseteq opened
  /\ \A c \in k.categories \ k.left : HoldingIn(of, c) # {}
  /\ \A p \in k.products \ k.touched :
       of[p].category \in opened \ k.toggled => of[p].category \in k.categories

CrawlGoes(k, of, opened) ==
  /\ k.step = "slice" => SliceGoes(k, of)
  /\ k.step \in {"categories", "done"} => ProductsGo(k, of)
  /\ k.step = "done" => LinksGo(k, of, opened)

SitemapInv == ListingInv /\ crawl \in Crawls /\ CrawlGoes(crawl, product, open)

\* What the model names, in these terms.
LEMMA NamedIn ==
  /\ IndexedProducts = IndexedIn(product) /\ IndexedProducts' = IndexedIn(product')
  /\ \A c : Holding(c) = HoldingIn(product, c) /\ Holding(c)' = HoldingIn(product', c)
BY DEF IndexedProducts, IndexedIn, Holding, HoldingIn, Active

\* The products to be named, and any part of them, can be counted.
LEMMA PartsFinite ==
  ASSUME NEW T \in SUBSET Products
  PROVE  IsFiniteSet(T) /\ Cardinality(T) \in Nat
<1>1. IsFiniteSet(T)
  BY ProductsFinite, FS_Subset
<1> QED
  BY <1>1, FS_CardinalityType

\* A slice as long as the count names those that stayed but for as many as came.
LEMMA SliceNames ==
  ASSUME NEW I \in SUBSET Products, NEW S \in SUBSET I, NEW steady \in SUBSET I,
         NEW came \in SUBSET Products, I \subseteq steady \cup came, NEW count \in Nat,
         Cardinality(steady) <= count, Cardinality(S) = count \/ S = I
  PROVE  Cardinality(steady \ S) <= Cardinality(came)
<1>1. /\ IsFiniteSet(I) /\ IsFiniteSet(S) /\ IsFiniteSet(steady) /\ IsFiniteSet(came)
      /\ IsFiniteSet(I \ S) /\ IsFiniteSet(steady \cup came)
      /\ Cardinality(I) \in Nat /\ Cardinality(S) \in Nat /\ Cardinality(steady) \in Nat
      /\ Cardinality(came) \in Nat /\ Cardinality(I \ S) \in Nat
      /\ Cardinality(steady \ S) \in Nat /\ Cardinality(steady \cap came) \in Nat
      /\ Cardinality(steady \cup came) \in Nat
  BY PartsFinite
<1>2. CASE S = I
  <2>1. steady \ S = {}
    BY <1>2
  <2> QED
    BY <1>1, <2>1, FS_EmptySet
<1>3. CASE Cardinality(S) = count
  <2>1. Cardinality(I) <= Cardinality(steady \cup came)
    BY <1>1, FS_Subset
  <2>2. Cardinality(steady \cup came)
          = Cardinality(steady) + Cardinality(came) - Cardinality(steady \cap came)
    BY <1>1, FS_Union
  <2>3. I \cap S = S
    OBVIOUS
  <2>4. Cardinality(I \ S) = Cardinality(I) - Cardinality(S)
    BY <1>1, <2>3, FS_Difference
  <2>5. Cardinality(steady \ S) <= Cardinality(I \ S)
    <3>1. steady \ S \in SUBSET (I \ S)
      OBVIOUS
    <3> QED
      BY <1>1, <3>1, FS_Subset
  <2> QED
    BY <1>1, <1>3, <2>1, <2>2, <2>4, <2>5
<1> QED
  BY <1>2, <1>3

\* The products are counted.
LEMMA CountProductsKeeps ==
  ASSUME SitemapInv, CountProducts, UNCHANGED listingVars
  PROVE  crawl' \in Crawls /\ CrawlGoes(crawl', product', open')
<1> DEFINE I == IndexedIn(product)
           n == Cardinality(I)
<1>1. /\ crawl' = [crawl EXCEPT !.step = "slice", !.count = n, !.steady = I]
      /\ crawl \in Crawls /\ UNCHANGED <<product, open>>
  BY NamedIn DEF SitemapInv, CountProducts, listingVars
<1>2. I \in SUBSET Products /\ n \in Nat /\ n <= n
  BY PartsFinite DEF IndexedIn
<1> HIDE DEF n
<1>3. crawl' \in Crawls /\ crawl'.step = "slice" /\ crawl'.count = n /\ crawl'.steady = I
  BY <1>1, <1>2 DEF Crawls
<1>4. SliceGoes(crawl', product')
  BY <1>1, <1>2, <1>3 DEF SliceGoes, n
<1> QED
  BY <1>3, <1>4 DEF CrawlGoes

\* They are taken.
LEMMA SliceProductsKeeps ==
  ASSUME SitemapInv, SliceProducts, UNCHANGED listingVars
  PROVE  crawl' \in Crawls /\ CrawlGoes(crawl', product', open')
<1> DEFINE I == IndexedIn(product)
<1>1. PICK S \in SUBSET I :
        /\ Cardinality(S) = crawl.count \/ S = I
        /\ crawl' = [crawl EXCEPT !.step = "categories", !.products = S]
  BY NamedIn DEF SliceProducts
<1>2. /\ crawl \in Crawls /\ UNCHANGED <<product, open>> /\ SliceGoes(crawl, product)
      /\ I \in SUBSET Products
  BY DEF SitemapInv, SliceProducts, listingVars, CrawlGoes, IndexedIn
<1>3. /\ crawl' \in Crawls /\ crawl'.step = "categories" /\ crawl'.products = S
      /\ crawl'.steady = crawl.steady /\ crawl'.came = crawl.came
  BY <1>1, <1>2 DEF Crawls
<1>4. Cardinality(crawl.steady \ S) <= Cardinality(crawl.came)
  <2>1. /\ crawl.steady \in SUBSET I /\ crawl.came \in SUBSET Products /\ crawl.count \in Nat
        /\ I \subseteq crawl.steady \cup crawl.came /\ Cardinality(crawl.steady) <= crawl.count
    BY <1>2 DEF SliceGoes, Crawls
  <2> HIDE DEF I
  <2> QED
    BY <1>1, <1>2, <2>1, SliceNames
<1>5. \A p \in S : product'[p].state = "active"
  BY <1>2 DEF IndexedIn
<1>6. ProductsGo(crawl', product')
  BY <1>3, <1>4, <1>5 DEF ProductsGo
<1> QED
  BY <1>3, <1>6 DEF CrawlGoes

\* The categories are listed.
LEMMA ReadCategoriesKeeps ==
  ASSUME SitemapInv, ReadCategories, UNCHANGED listingVars
  PROVE  crawl' \in Crawls /\ CrawlGoes(crawl', product', open')
<1>1. /\ crawl' = [crawl EXCEPT !.step = "done", !.categories = IndexedCategories]
      /\ crawl \in Crawls /\ UNCHANGED <<product, open>> /\ ProductsGo(crawl, product)
      /\ open \subseteq Categories /\ product \in ProductRows
  BY DEF SitemapInv, ReadCategories, listingVars, CrawlGoes, ListingInv
<1>2. IndexedCategories = {c \in open : HoldingIn(product, c) # {}}
  BY NamedIn DEF IndexedCategories
<1>3. /\ crawl' \in Crawls /\ crawl'.step = "done" /\ crawl'.categories = IndexedCategories
      /\ crawl'.steady = crawl.steady /\ crawl'.came = crawl.came
      /\ crawl'.products = crawl.products /\ crawl'.touched = crawl.touched
  BY <1>1, <1>2 DEF Crawls
<1>4. ProductsGo(crawl', product')
  BY <1>1, <1>3 DEF ProductsGo
<1>5. ASSUME NEW p \in crawl.products \ crawl.touched, product[p].category \in open
      PROVE  product[p].category \in IndexedCategories
  <2>1. p \in Products /\ product[p].state = "active"
    BY <1>1 DEF Crawls, ProductsGo
  <2>2. p \in HoldingIn(product, product[p].category)
    BY <2>1 DEF HoldingIn
  <2> QED
    BY <1>2, <1>5, <2>2
<1>6. LinksGo(crawl', product', open')
  BY <1>1, <1>2, <1>3, <1>5 DEF LinksGo
<1> QED
  BY <1>3, <1>4, <1>6 DEF CrawlGoes

\* The sitemap is forgotten.
LEMMA ForgetKeeps ==
  ASSUME crawl' = NoCrawl
  PROVE  crawl' \in Crawls /\ CrawlGoes(crawl', product', open')
BY DEF NoCrawl, Crawls, CrawlGoes

\* What staff or a visitor do meanwhile is remembered.
LEMMA RecordedKeeps ==
  ASSUME SitemapInv, Recorded, product' \in ProductRows, open' \subseteq Categories
  PROVE  crawl' \in Crawls /\ CrawlGoes(crawl', product', open')
<1>1. crawl \in Crawls /\ CrawlGoes(crawl, product, open) /\ product \in ProductRows
  BY DEF SitemapInv, ListingInv
<1>2. CASE crawl.step = "slice"
  <2> DEFINE I == IndexedIn(product)
             J == IndexedIn(product')
  <2>1. crawl' = [crawl EXCEPT !.steady = @ \cap J, !.came = @ \cup (J \ I)]
    BY <1>2, NamedIn DEF Recorded
  <2>2. SliceGoes(crawl, product) /\ J \in SUBSET Products
    BY <1>1, <1>2 DEF CrawlGoes, IndexedIn
  <2> HIDE DEF I, J
  <2>3. /\ crawl' \in Crawls /\ crawl'.step = "slice" /\ crawl'.count = crawl.count
        /\ crawl'.steady = crawl.steady \cap J /\ crawl'.came = crawl.came \cup (J \ I)
        /\ crawl.steady \in SUBSET Products /\ crawl.count \in Nat
    BY <1>1, <1>2, <2>1, <2>2 DEF Crawls
  <2>4. Cardinality(crawl.steady \cap J) <= crawl.count
    <3>1. /\ IsFiniteSet(crawl.steady) /\ Cardinality(crawl.steady) \in Nat
          /\ Cardinality(crawl.steady \cap J) \in Nat
      BY <2>3, PartsFinite
    <3>2. Cardinality(crawl.steady \cap J) <= Cardinality(crawl.steady)
      BY <3>1, FS_Subset
    <3> QED
      BY <2>2, <2>3, <3>1, <3>2 DEF SliceGoes
  <2>5. SliceGoes(crawl', product')
    BY <2>2, <2>3, <2>4 DEF SliceGoes, I, J
  <2> QED
    BY <2>3, <2>5 DEF CrawlGoes
<1>3. CASE crawl.step = "categories"
  <2>1. crawl' = [crawl EXCEPT !.touched = @ \cup Changed] /\ Changed \in SUBSET Products
    BY <1>3 DEF Recorded, Changed
  <2>2. /\ crawl' \in Crawls /\ crawl'.step = "categories" /\ crawl'.products = crawl.products
        /\ crawl'.steady = crawl.steady /\ crawl'.came = crawl.came
        /\ crawl'.touched = crawl.touched \cup Changed
    BY <1>1, <1>3, <2>1 DEF Crawls
  <2>3. ProductsGo(crawl', product')
    BY <1>1, <1>3, <2>2 DEF CrawlGoes, ProductsGo, Changed, Crawls
  <2> QED
    BY <2>2, <2>3 DEF CrawlGoes
<1>4. CASE crawl.step = "done"
  <2>1. /\ crawl' = [crawl EXCEPT !.touched = @ \cup Changed, !.toggled = @ \cup Toggled,
                                  !.left = @ \cup Left]
        /\ Changed \in SUBSET Products /\ Toggled \in SUBSET Categories /\ Left \in SUBSET Categories
    BY <1>4 DEF Recorded, Changed, Toggled, Left, SitemapInv, ListingInv
  <2>2. /\ crawl' \in Crawls /\ crawl'.step = "done" /\ crawl'.products = crawl.products
        /\ crawl'.steady = crawl.steady /\ crawl'.came = crawl.came
        /\ crawl'.touched = crawl.touched \cup Changed /\ crawl'.categories = crawl.categories
        /\ crawl'.toggled = crawl.toggled \cup Toggled /\ crawl'.left = crawl.left \cup Left
    BY <1>1, <1>4, <2>1 DEF Crawls
  <2>3. ProductsGo(crawl', product')
    BY <1>1, <1>4, <2>2 DEF CrawlGoes, ProductsGo, Changed, Crawls
  <2>4. LinksGo(crawl, product, open) /\ crawl.categories \subseteq Categories
        /\ crawl.products \subseteq Products
    BY <1>1, <1>4 DEF CrawlGoes, Crawls
  <2>5. crawl.categories \ crawl'.toggled \subseteq open'
    BY <2>2, <2>4 DEF LinksGo, Toggled
  <2>6. ASSUME NEW c \in crawl.categories \ crawl'.left PROVE HoldingIn(product', c) # {}
    <3>1. HoldingIn(product, c) # {} /\ HoldingIn(product, c) \subseteq HoldingIn(product', c)
      BY <2>2, <2>4, NamedIn DEF LinksGo, Left
    <3> QED
      BY <3>1
  <2>7. ASSUME NEW p \in crawl.products \ crawl'.touched,
               product'[p].category \in open' \ crawl'.toggled
        PROVE  product'[p].category \in crawl.categories
    <3>1. product'[p] = product[p] /\ p \in crawl.products \ crawl.touched
      BY <2>2, <2>4 DEF Changed
    <3>2. product[p].category \in open \ crawl.toggled
      BY <2>2, <2>7, <3>1 DEF Toggled
    <3> QED
      BY <2>4, <3>1, <3>2 DEF LinksGo
  <2>8. LinksGo(crawl', product', open')
    BY <2>2, <2>5, <2>6, <2>7 DEF LinksGo
  <2> QED
    BY <2>2, <2>3, <2>8 DEF CrawlGoes
<1>5. CASE crawl.step = "off"
  <2>1. crawl' = crawl
    BY <1>5 DEF Recorded
  <2> QED
    BY <1>1, <1>5, <2>1 DEF CrawlGoes
<1> QED
  BY <1>1, <1>2, <1>3, <1>4, <1>5 DEF Crawls

\* Every step keeps the invariant.
LEMMA SitemapStep ==
  SitemapInv /\ [SitemapNext]_sitemapVars => SitemapInv'
<1> SUFFICES ASSUME SitemapInv, [SitemapNext]_sitemapVars PROVE SitemapInv'
  OBVIOUS
<1>1. ListingInv'
  <2>1. ListingInv /\ [ListingNext]_listingVars
    BY DEF SitemapInv, SitemapNext, sitemapVars, listingVars
  <2> QED
    BY <2>1, ListingStep
<1>2. product' \in ProductRows /\ open' \subseteq Categories
  BY <1>1 DEF ListingInv
<1>3. CASE ListingNext /\ Recorded
  BY <1>1, <1>2, <1>3, RecordedKeeps DEF SitemapInv
<1>4. CASE CountProducts /\ UNCHANGED listingVars
  BY <1>1, <1>4, CountProductsKeeps DEF SitemapInv
<1>5. CASE SliceProducts /\ UNCHANGED listingVars
  BY <1>1, <1>5, SliceProductsKeeps DEF SitemapInv
<1>6. CASE ReadCategories /\ UNCHANGED listingVars
  BY <1>1, <1>6, ReadCategoriesKeeps DEF SitemapInv
<1>7. CASE Forget /\ UNCHANGED listingVars
  BY <1>1, <1>7, ForgetKeeps DEF SitemapInv, Forget
<1>8. CASE UNCHANGED sitemapVars
  BY <1>1, <1>8 DEF SitemapInv, sitemapVars, listingVars
<1> QED
  BY <1>3, <1>4, <1>5, <1>6, <1>7, <1>8 DEF SitemapNext

\* What a sitemap named is as it was named, but for what changed since.
THEOREM SitemapInvariance ==
  SitemapSpec => []SitemapInv
<1>1. SitemapInit => SitemapInv
  BY ListingStarts DEF SitemapInit, SitemapInv, NoCrawl, Crawls, CrawlGoes
<1>2. SitemapInv /\ [SitemapNext]_sitemapVars => SitemapInv'
  BY SitemapStep
<1> QED
  BY <1>1, <1>2, PTL DEF SitemapSpec

(* The reading of the sitemap stays in its type.                             *)
THEOREM SitemapTypes ==
  SitemapSpec => []SitemapTypeOK
<1>1. SitemapInv => SitemapTypeOK
  BY DEF SitemapInv, SitemapTypeOK
<1> QED
  BY <1>1, SitemapInvariance, PTL

(* A sitemap read while staff change the catalogue is wrong only as far as   *)
(* their changes explain: it misses no more products than came between its   *)
(* count and its slice, names no page that is not served, no category with   *)
(* nothing on it and no product without its open category, but for those     *)
(* that changed after they were named; for any products and categories and   *)
(* any changes by staff.                                                     *)
THEOREM SitemapStaysFair ==
  SitemapSpec => []SitemapIsFair
<1>1. SitemapInv => SitemapIsFair
  <2> SUFFICES ASSUME SitemapInv, crawl.step = "done"
               PROVE  FewAreMissed /\ LinksLead /\ NamedWithCategory
    BY DEF SitemapIsFair
  <2>1. /\ ProductsGo(crawl, product) /\ LinksGo(crawl, product, open)
        /\ crawl \in Crawls
    BY DEF SitemapInv, CrawlGoes
  <2>2. FewAreMissed /\ NamedWithCategory
    BY <2>1 DEF FewAreMissed, NamedWithCategory, ProductsGo, LinksGo
  <2>3. \A p \in crawl.products \ crawl.touched : ProductPage(p)
    BY <2>1 DEF ProductsGo, ProductPage, Active
  <2>4. ASSUME NEW c \in crawl.categories, c \notin crawl.left PROVE Matching(c) # {}
    <3>1. HoldingIn(product, c) # {} /\ c \in Categories
      BY <2>1, <2>4 DEF LinksGo, Crawls
    <3>2. HoldingIn(product, c) \subseteq Matching(c)
      BY <3>1, ListingAssumption DEF HoldingIn, Matching, Active, Covers
    <3> QED
      BY <3>1, <3>2
  <2>5. \A c \in crawl.categories : c \notin crawl.toggled => CategoryPage(c)
    BY <2>1 DEF LinksGo, CategoryPage
  <2> QED
    BY <2>2, <2>3, <2>4, <2>5 DEF LinksLead
<1> QED
  BY <1>1, SitemapInvariance, PTL

-----------------------------------------------------------------------------
(* The figures of a page, a statement at a time.  What was read so far is    *)
(* compared with the orders counted now: no less unless some came to be      *)
(* counted meanwhile, no more unless some ceased to be.                      *)

SaleRows == [Orders -> [status : Statuses \cup {"none"}, method : Methods \cup {Any}, day : Days]]
MethodFigures == [orders : Nat, total : Nat]
SalesPages ==
  [view : {"none", "report", "orders"},
   step : {"totals", "units", "top", "daily", "methods", "revenue", "count", "clock", "chart", "done"},
   filter : Filters, today : Days, revenue : Nat, orders : Nat, units : Nat,
   top : [SoldProducts -> Nat], best : SUBSET SoldProducts, daily : [Days -> Nat], listed : SUBSET Days,
   methods : [Methods -> MethodFigures], todayRevenue : Nat, todayOrders : Nat, start : Int, bars : Nat,
   chart : [Days -> Nat], grown : BOOLEAN, shrunk : BOOLEAN, midnight : BOOLEAN]

\* The orders a filter counts, those not cancelled, and those of one day.
CountedIn(of, f) ==
  {o \in Orders : /\ of[o].status \notin {"none", "CANCELLED"}
                  /\ f.method \in {Any, of[o].method} /\ f.status \in {Any, of[o].status}
                  /\ of[o].day \in f.from..f.to}
LiveIn(of) == {o \in Orders : of[o].status \notin {"none", "CANCELLED"}}
OnDayIn(of, S, d) == {o \in S : of[o].day = d}

\* What a page adds up.
UnitsIn(S) == MapThenSumSet(LAMBDA p : Sold(S, p), SoldProducts)
TopUnitsOf(top) == MapThenSumSet(LAMBDA p : top[p], SoldProducts)
DailyTotalOf(daily) == MapThenSumSet(LAMBDA d : daily[d], Days)
MethodTotalOf(methods) == MapThenSumSet(LAMBDA m : methods[m].total, Methods)
MethodOrdersOf(methods) == MapThenSumSet(LAMBDA m : methods[m].orders, Methods)

\* m was read before n: g tells whether they may differ, and how.
Grew(g, m, n) == /\ ~g.shrunk => m <= n
                 /\ ~g.grown => n <= m

ReportGoes(g, C) ==
  g.view = "report" =>
    /\ g.step \in {"units", "top", "daily", "methods"} =>
         Grew(g, g.revenue, Revenue(C)) /\ Grew(g, g.orders, Cardinality(C))
    /\ g.step = "top" => Grew(g, g.units, UnitsIn(C))
    /\ g.step \in {"daily", "methods", "done"} =>
         /\ ~g.shrunk /\ Cardinality(g.best) < TopLimit => g.units <= TopUnitsOf(g.top)
         /\ ~g.grown => TopUnitsOf(g.top) <= g.units
    /\ g.step \in {"methods", "done"} =>
         /\ ~g.shrunk /\ Cardinality(g.listed) < DayLimit => g.revenue <= DailyTotalOf(g.daily)
         /\ ~g.grown => DailyTotalOf(g.daily) <= g.revenue
    /\ g.step = "done" => /\ Grew(g, g.revenue, MethodTotalOf(g.methods))
                          /\ Grew(g, g.orders, MethodOrdersOf(g.methods))

OrdersGo(g, of, now) ==
  g.view = "orders" =>
    /\ g.step \in {"methods", "revenue", "count", "clock", "chart"} /\ ~g.midnight => g.today = now
    /\ g.step \in {"totals", "methods", "revenue", "count", "clock"} => g.bars = 0
    /\ g.step = "chart" => g.bars < WeekLength /\ (~g.midnight => g.start = now - (WeekLength - 1))
    /\ g.step \in {"count", "clock", "chart"} =>
         Grew(g, g.todayRevenue, Revenue(OnDayIn(of, CountedIn(of, g.filter), g.today)))
    /\ g.step = "done" /\ ~g.shrunk /\ ~g.midnight =>
         /\ g.todayRevenue <= g.chart[g.today]
         /\ g.filter = NoFilter /\ ~g.grown => g.todayRevenue = g.chart[g.today]

SalesInv ==
  /\ sale \in SaleRows /\ today \in Days /\ moves \in Nat /\ page \in SalesPages
  /\ \A o \in Orders : sale[o].status # "none" => sale[o].method \in Methods
  /\ ReportGoes(page, CountedIn(sale, page.filter))
  /\ OrdersGo(page, sale, today)

-----------------------------------------------------------------------------
(* What the queries add up, as sums of RowFacts.                             *)

\* What the figures are summed over is finite.
LEMMA SalesFinite ==
  /\ IsFiniteSet(Orders) /\ IsFiniteSet(Days)
  /\ IsFiniteSet(SoldProducts) /\ IsFiniteSet(Methods)
BY SalesAssumption, FS_Interval DEF Orders, Days

\* Revenue is a sum over orders.
LEMMA RevenueIsSum ==
  ASSUME NEW S \in SUBSET Orders
  PROVE  Revenue(S) = SumOf([o \in S |-> Total[o]])
<1>1. IsFiniteSet(S)
  BY SalesFinite, FS_Subset
<1>2. Revenue(S) = (CHOOSE total : AddsUp(total, Total, S))[S]
  BY DEF Revenue, MapThenSumSet, MapThenFoldSet, AddsUp, Member
<1> QED
  BY <1>1, <1>2, TotalExists, TotalIsSum

\* The pieces sold of a product are a sum over orders.
LEMMA SoldIsSum ==
  ASSUME NEW S \in SUBSET Orders, NEW p \in SoldProducts
  PROVE  Sold(S, p) = SumOf([o \in S |-> Quantity[o][p]])
<1> DEFINE f == [o \in S |-> Quantity[o][p]]
           P(total) == total = [s \in SUBSET S |->
                                  IF s = {} THEN 0
                                  ELSE Quantity[Member(s)][p] + total[s \ {Member(s)}]]
           sum == CHOOSE total : P(total)
<1>1. IsFiniteSet(S)
  BY SalesFinite, FS_Subset
<1>2. Sold(S, p) = sum[S]
  BY DEF Sold, MapThenSumSet, MapThenFoldSet, Member
<1>3. \A total : P(total) <=> AddsUp(total, f, S)
  BY DEF AddsUp, Member
<1> HIDE DEF P, f
<1>4. P(sum)
  BY <1>1, <1>3, TotalExists
<1>5. sum[S] = SumOf([o \in S |-> f[o]])
  <2> HIDE DEF sum
  <2> QED
    BY <1>1, <1>3, <1>4, TotalIsSum
<1> QED
  BY <1>2, <1>5 DEF f

\* Revenue is a number, and grows with the orders.
LEMMA RevenueFacts ==
  ASSUME NEW T \in SUBSET Orders, NEW S \in SUBSET T
  PROVE  /\ Revenue(S) \in Nat /\ Revenue(T) \in Nat
         /\ Revenue(S) <= Revenue(T)
<1>1. IsFiniteSet(Orders) /\ Total \in [Orders -> Nat] /\ S \in SUBSET Orders
  BY SalesFinite, SalesAssumption
<1>2. /\ SumOf([o \in S |-> Total[o]]) \in Nat
      /\ SumOf([o \in T |-> Total[o]]) \in Nat
  BY <1>1, PartType
<1>3. SumOf([o \in S |-> Total[o]]) <= SumOf([o \in T |-> Total[o]])
  BY <1>1, PartMonotone
<1>4. /\ Revenue(S) = SumOf([o \in S |-> Total[o]])
      /\ Revenue(T) = SumOf([o \in T |-> Total[o]])
  BY <1>1, RevenueIsSum
<1> QED
  BY <1>2, <1>3, <1>4

\* So does the number of orders.
LEMMA CountFacts ==
  ASSUME NEW T \in SUBSET Orders, NEW S \in SUBSET T
  PROVE  /\ Cardinality(S) \in Nat /\ Cardinality(T) \in Nat
         /\ Cardinality(S) <= Cardinality(T)
<1>1. IsFiniteSet(T)
  BY SalesFinite, FS_Subset
<1> QED
  BY <1>1, FS_Subset, FS_CardinalityType

\* So do the pieces sold of a product.
LEMMA SoldFacts ==
  ASSUME NEW T \in SUBSET Orders, NEW S \in SUBSET T, NEW p \in SoldProducts
  PROVE  /\ Sold(S, p) \in Nat /\ Sold(T, p) \in Nat
         /\ Sold(S, p) <= Sold(T, p)
<1> DEFINE f == [o \in Orders |-> Quantity[o][p]]
<1>1. IsFiniteSet(Orders) /\ f \in [Orders -> Nat] /\ S \in SUBSET Orders
  BY SalesFinite, SalesAssumption
<1>2. /\ Sold(S, p) = SumOf([o \in S |-> f[o]])
      /\ Sold(T, p) = SumOf([o \in T |-> f[o]])
  <2>1. /\ [o \in S |-> f[o]] = [o \in S |-> Quantity[o][p]]
        /\ [o \in T |-> f[o]] = [o \in T |-> Quantity[o][p]]
    BY <1>1
  <2> QED
    BY <1>1, <2>1, SoldIsSum
<1> HIDE DEF f
<1>3. /\ SumOf([o \in S |-> f[o]]) \in Nat
      /\ SumOf([o \in T |-> f[o]]) \in Nat
  BY <1>1, PartType
<1>4. SumOf([o \in S |-> f[o]]) <= SumOf([o \in T |-> f[o]])
  BY <1>1, PartMonotone
<1> QED
  BY <1>2, <1>3, <1>4

\* Units, counted by product.
LEMMA UnitsIsSum ==
  ASSUME NEW S \in SUBSET Orders
  PROVE  UnitsIn(S) = SumOf([p \in SoldProducts |-> Sold(S, p)])
<1> DEFINE f == [p \in SoldProducts |-> Sold(S, p)]
           P(total) == total = [s \in SUBSET SoldProducts |->
                                  IF s = {} THEN 0
                                  ELSE Sold(S, Member(s)) + total[s \ {Member(s)}]]
           sum == CHOOSE total : P(total)
<1>1. UnitsIn(S) = sum[SoldProducts]
  BY DEF UnitsIn, MapThenSumSet, MapThenFoldSet, Member
<1>2. \A total : P(total) <=> AddsUp(total, f, SoldProducts)
  BY DEF AddsUp, Member
<1>3. [p \in SoldProducts |-> f[p]] = f
  OBVIOUS
<1> HIDE DEF P, f
<1>4. P(sum)
  BY <1>2, SalesFinite, TotalExists
<1>5. sum[SoldProducts] = SumOf([p \in SoldProducts |-> f[p]])
  <2> HIDE DEF sum
  <2> QED
    BY <1>2, <1>4, SalesFinite, TotalIsSum
<1>6. UnitsIn(S) = SumOf(f)
  BY <1>1, <1>3, <1>5
<1> QED
  BY <1>6 DEF f

\* Units grow with the orders too.
LEMMA UnitsFacts ==
  ASSUME NEW T \in SUBSET Orders, NEW S \in SUBSET T
  PROVE  /\ UnitsIn(S) \in Nat /\ UnitsIn(T) \in Nat
         /\ UnitsIn(S) <= UnitsIn(T)
<1> DEFINE f == [p \in SoldProducts |-> Sold(S, p)]
           g == [p \in SoldProducts |-> Sold(T, p)]
<1>1. f \in [SoldProducts -> Nat] /\ g \in [SoldProducts -> Nat] /\ \A p \in SoldProducts : f[p] <= g[p]
  BY SoldFacts
<1>2. UnitsIn(S) = SumOf(f) /\ UnitsIn(T) = SumOf(g)
  BY UnitsIsSum
<1> HIDE DEF f, g
<1>3. SumOf(f) <= SumOf(g)
  BY <1>1, SalesFinite, SumMonotone
<1>4. /\ DOMAIN f = SoldProducts /\ \A p \in SoldProducts : f[p] \in Nat /\ f[p] \in Int
      /\ DOMAIN g = SoldProducts /\ \A p \in SoldProducts : g[p] \in Nat /\ g[p] \in Int
  BY <1>1
<1>5. SumOf(f) \in Nat /\ SumOf(g) \in Nat
  BY <1>4, SalesFinite, SumType
<1> QED
  BY <1>2, <1>3, <1>5

\* The table of products adds up to no more than the units, and to all of them
\* where it is not full.
LEMMA TopUnitsAre ==
  ASSUME NEW S \in SUBSET Orders, NEW best \in TopRows(S), NEW top,
         top = [p \in SoldProducts |-> IF p \in best THEN Sold(S, p) ELSE 0]
  PROVE  /\ best \in SUBSET SoldProducts /\ top \in [SoldProducts -> Nat]
         /\ TopUnitsOf(top) \in Nat /\ TopUnitsOf(top) <= UnitsIn(S)
         /\ Cardinality(best) < TopLimit => TopUnitsOf(top) = UnitsIn(S)
<1> DEFINE all == [p \in SoldProducts |-> Sold(S, p)]
<1>1. \A p \in SoldProducts : Sold(S, p) \in Nat
  BY SoldFacts
<1>2. top \in [SoldProducts -> Nat] /\ all \in [SoldProducts -> Nat]
  BY <1>1
<1>3. \A p \in SoldProducts : top[p] <= all[p]
  BY <1>1
<1>4. best \in SUBSET SoldProducts
  BY DEF TopRows
<1>5. UnitsIn(S) = SumOf(all)
  BY UnitsIsSum
<1>6. ASSUME Cardinality(best) < TopLimit PROVE top = all
  <2>1. best = {p \in SoldProducts : Sold(S, p) > 0}
    BY <1>6, SalesAssumption DEF TopRows
  <2>2. \A p \in SoldProducts : p \notin best => Sold(S, p) = 0
    BY <1>1, <2>1
  <2> QED
    BY <2>2
<1> HIDE DEF all
<1>7. TopUnitsOf(top) = SumOf(top)
  <2>1. TopUnitsOf(top) = (CHOOSE total : AddsUp(total, top, SoldProducts))[SoldProducts]
    BY DEF TopUnitsOf, MapThenSumSet, MapThenFoldSet, AddsUp, Member
  <2>2. TopUnitsOf(top) = SumOf([p \in SoldProducts |-> top[p]])
    BY <2>1, SalesFinite, TotalExists, TotalIsSum
  <2>3. [p \in SoldProducts |-> top[p]] = top
    BY <1>2
  <2> QED
    BY <2>2, <2>3
<1>8. SumOf(top) <= SumOf(all)
  BY <1>2, <1>3, SalesFinite, SumMonotone
<1>9. /\ DOMAIN top = SoldProducts /\ \A p \in SoldProducts : top[p] \in Nat /\ top[p] \in Int
  BY <1>2
<1>10. SumOf(top) \in Nat
  BY <1>9, SalesFinite, SumType
<1> QED
  BY <1>2, <1>4, <1>5, <1>6, <1>7, <1>8, <1>10

\* The rows by day add up to no more than the revenue, and to all of it where
\* the table has a row for every day.
LEMMA DaysListed ==
  ASSUME NEW days \in SUBSET Days, NEW listed,
         listed = {d \in days : Cardinality({e \in days : e > d}) < DayLimit},
         Cardinality(listed) < DayLimit
  PROVE  listed = days
<1> DEFINE later(d) == {e \in days : e > d}
           bad == days \ listed
           left == {MaxDay - d : d \in bad}
<1>1. MaxDay \in Nat /\ DayLimit \in Nat /\ \A d \in days : d \in Nat /\ MaxDay - d \in Nat
  BY SalesAssumption DEF Days
<1>2. IsFiniteSet(days) /\ IsFiniteSet(listed) /\ Cardinality(listed) \in Nat
  BY SalesFinite, FS_Subset, FS_CardinalityType
<1>3. SUFFICES ASSUME bad # {} PROVE FALSE
  OBVIOUS
<1>4. PICK m \in left : \A n \in left : m <= n
  <2>1. left \subseteq Nat /\ left # {}
    BY <1>1, <1>3
  <2> HIDE DEF left
  <2> QED
    BY <2>1, LeastNatural
<1>5. PICK d \in bad : m = MaxDay - d
  OBVIOUS
<1>6. later(d) \subseteq listed
  <2> SUFFICES ASSUME NEW e \in days, e > d, e \notin listed PROVE FALSE
    OBVIOUS
  <2>1. MaxDay - e \in left /\ d \in days
    OBVIOUS
  <2> HIDE DEF left
  <2>2. m <= MaxDay - e
    BY <1>4, <2>1
  <2> QED
    BY <1>1, <1>5, <2>1, <2>2
<1>7. Cardinality(later(d)) <= Cardinality(listed) /\ Cardinality(later(d)) \in Nat
  <2> HIDE DEF later
  <2> QED
    BY <1>2, <1>6, FS_Subset, FS_CardinalityType
<1>8. ~(Cardinality(later(d)) < DayLimit)
  <2>1. d \in days /\ d \notin listed
    OBVIOUS
  <2> QED
    BY <2>1
<1> QED
  BY <1>1, <1>2, <1>7, <1>8

\* The foot of the daily table is the sum of its rows.
LEMMA DailyTotalIsSum ==
  ASSUME NEW daily
  PROVE  DailyTotalOf(daily) = SumOf([d \in Days |-> daily[d]])
<1>1. DailyTotalOf(daily) = (CHOOSE total : AddsUp(total, daily, Days))[Days]
  BY DEF DailyTotalOf, MapThenSumSet, MapThenFoldSet, AddsUp, Member
<1> QED
  BY <1>1, SalesFinite, TotalExists, TotalIsSum

DailyRowsIn(of, C) ==
  LET days == {of[o].day : o \in C}
  IN {d \in days : Cardinality({e \in days : e > d}) < DayLimit}
DailyIn(of, C) ==
  [d \in Days |-> IF d \in DailyRowsIn(of, C) THEN Revenue(OnDayIn(of, C, d)) ELSE 0]

\* The daily table adds up to the revenue as long as it is not cut off.
LEMMA DailyTotals ==
  ASSUME NEW of \in SaleRows, NEW C \in SUBSET Orders,
         NEW listed, listed = DailyRowsIn(of, C), NEW daily, daily = DailyIn(of, C)
  PROVE  /\ listed \in SUBSET Days /\ daily \in [Days -> Nat]
         /\ DailyTotalOf(daily) <= Revenue(C)
         /\ Cardinality(listed) < DayLimit => DailyTotalOf(daily) = Revenue(C)
         /\ DailyTotalOf(daily) \in Nat
<1> DEFINE days == {of[o].day : o \in C}
           key == [o \in C |-> of[o].day]
           all == [d \in Days |-> Revenue(OnDayIn(of, C, d))]
           byKey == [d \in Days |-> SumOf([o \in {x \in C : key[x] = d} |-> Total[o]])]
<1>1. days \in SUBSET Days /\ key \in [C -> Days] /\ listed \in SUBSET days
  BY DEF SaleRows, DailyRowsIn
<1>2. \A d \in Days : Revenue(OnDayIn(of, C, d)) \in Nat
  <2>1. \A d \in Days : OnDayIn(of, C, d) \in SUBSET Orders
    BY DEF OnDayIn
  <2> QED
    BY <2>1, RevenueFacts
<1>3. /\ all \in [Days -> Nat] /\ daily \in [Days -> Nat]
      /\ \A d \in Days : /\ daily[d] <= all[d]
                         /\ d \in listed => daily[d] = all[d]
                         /\ d \notin listed => daily[d] = 0
  BY <1>2 DEF DailyIn
<1>4. all = byKey
  <2>1. ASSUME NEW d \in Days
        PROVE  Revenue(OnDayIn(of, C, d)) = SumOf([o \in {x \in C : key[x] = d} |-> Total[o]])
    <3>1. OnDayIn(of, C, d) = {x \in C : key[x] = d} /\ OnDayIn(of, C, d) \in SUBSET Orders
      BY DEF OnDayIn
    <3> QED
      BY <3>1, RevenueIsSum
  <2> QED
    BY <2>1
<1>5. SumOf(byKey) = Revenue(C)
  <2> DEFINE f == [o \in C |-> Total[o]]
  <2>1. IsFiniteSet(C) /\ f \in [C -> Nat]
    BY SalesFinite, SalesAssumption, FS_Subset
  <2>2. [d \in Days |-> SumOf([o \in {x \in C : key[x] = d} |-> f[o]])] = byKey
    <3>1. ASSUME NEW d \in Days
          PROVE  [o \in {x \in C : key[x] = d} |-> f[o]] = [o \in {x \in C : key[x] = d} |-> Total[o]]
      OBVIOUS
    <3> HIDE DEF f, key
    <3> QED
      BY <3>1
  <2>3. [o \in C |-> f[o]] = [o \in C |-> Total[o]]
    OBVIOUS
  <2> HIDE DEF f, key, byKey
  <2>4. GroupedSum(C, f, Days, key) = SumOf([o \in C |-> f[o]])
    BY <1>1, <2>1, SalesFinite, SumByKey
  <2>5. GroupedSum(C, f, Days, key) = SumOf(byKey)
    BY <2>2 DEF GroupedSum
  <2> QED
    BY <2>3, <2>4, <2>5, RevenueIsSum
<1>6. DailyTotalOf(daily) = SumOf(daily)
  <2>1. [d \in Days |-> daily[d]] = daily
    BY <1>3
  <2> QED
    BY <2>1, DailyTotalIsSum
<1>7. Cardinality(listed) < DayLimit => daily = all
  <2> SUFFICES ASSUME Cardinality(listed) < DayLimit PROVE daily = all
    OBVIOUS
  <2>1. listed = days
    <3>1. listed = {d \in days : Cardinality({e \in days : e > d}) < DayLimit}
      BY DEF DailyRowsIn
    <3> HIDE DEF days
    <3> QED
      BY <1>1, <3>1, DaysListed
  <2>2. ASSUME NEW d \in Days \ days PROVE Revenue(OnDayIn(of, C, d)) = 0
    <3> DEFINE none == [o \in {} |-> Total[o]]
    <3>1. OnDayIn(of, C, d) = {}
      BY DEF OnDayIn
    <3>2. Revenue({}) = SumOf(none)
      BY RevenueIsSum
    <3>3. DOMAIN none = {}
      OBVIOUS
    <3> HIDE DEF none
    <3>4. SumOf(none) = 0
      BY <3>3, SumOfNothing
    <3> QED
      BY <3>1, <3>2, <3>4
  <2>3. \A d \in Days : daily[d] = all[d]
    BY <1>3, <2>1, <2>2
  <2> QED
    BY <1>3, <2>3
<1> HIDE DEF all, byKey, days
<1>8. SumOf(daily) <= SumOf(all)
  BY <1>3, SalesFinite, SumMonotone
<1>9. SumOf(daily) \in Nat
  <2>1. DOMAIN daily = Days /\ \A d \in Days : daily[d] \in Nat /\ daily[d] \in Int
    BY <1>3
  <2> QED
    BY <2>1, SalesFinite, SumType
<1> QED
  BY <1>1, <1>3, <1>4, <1>5, <1>6, <1>7, <1>8, <1>9

\* The rows by method add up to the revenue and to the number of orders.
LEMMA MethodTotals ==
  ASSUME NEW of \in SaleRows, NEW C \in SUBSET Orders, \A o \in C : of[o].method \in Methods, NEW methods,
         methods = [m \in Methods |->
                        LET S == {o \in C : of[o].method = m}
                        IN [orders |-> Cardinality(S), total |-> Revenue(S)]]
  PROVE  /\ methods \in [Methods -> MethodFigures]
         /\ MethodTotalOf(methods) = Revenue(C) /\ MethodOrdersOf(methods) = Cardinality(C)
<1> DEFINE key == [o \in C |-> of[o].method]
           Of(m) == {x \in C : key[x] = m}
           f == [o \in C |-> Total[o]]
           ones == [o \in C |-> 1]
           totals == [m \in Methods |-> methods[m].total]
           counts == [m \in Methods |-> methods[m].orders]
<1>1. IsFiniteSet(C) /\ key \in [C -> Methods] /\ f \in [C -> Nat] /\ ones \in [C -> Nat]
  BY SalesFinite, SalesAssumption, FS_Subset
<1>2. ASSUME NEW m \in Methods
      PROVE  /\ Of(m) \in SUBSET C /\ IsFiniteSet(Of(m))
             /\ methods[m] = [orders |-> Cardinality(Of(m)), total |-> Revenue(Of(m))]
             /\ methods[m].orders = Cardinality(Of(m)) /\ methods[m].total = Revenue(Of(m))
             /\ Cardinality(Of(m)) \in Nat /\ Revenue(Of(m)) \in Nat
  <2>1. Of(m) = {o \in C : of[o].method = m}
    OBVIOUS
  <2>2. Of(m) \in SUBSET C
    OBVIOUS
  <2>3. methods[m] = [orders |-> Cardinality(Of(m)), total |-> Revenue(Of(m))]
    BY <2>1
  <2> HIDE DEF Of
  <2>4. Cardinality(Of(m)) \in Nat /\ Revenue(Of(m)) \in Nat /\ IsFiniteSet(Of(m))
    BY <1>1, <2>2, CountFacts, RevenueFacts, FS_Subset
  <2> QED
    BY <2>2, <2>3, <2>4
<1>3. methods \in [Methods -> MethodFigures]
  <2> HIDE DEF Of
  <2>1. ASSUME NEW a \in Nat, NEW b \in Nat PROVE [orders |-> a, total |-> b] \in MethodFigures
    BY DEF MethodFigures
  <2>2. \A m \in Methods : methods[m] \in MethodFigures
    BY <1>2, <2>1, Zenon
  <2>3. methods = [m \in Methods |-> methods[m]]
    OBVIOUS
  <2> QED
    BY <2>2, <2>3
<1>4. MethodTotalOf(methods) = SumOf(totals)
  <2> DEFINE P(total) == total = [s \in SUBSET Methods |->
                                    IF s = {} THEN 0
                                    ELSE methods[Member(s)].total + total[s \ {Member(s)}]]
             sum == CHOOSE total : P(total)
  <2>1. MethodTotalOf(methods) = sum[Methods]
    BY DEF MethodTotalOf, MapThenSumSet, MapThenFoldSet, Member
  <2>2. \A total : P(total) <=> AddsUp(total, totals, Methods)
    BY DEF AddsUp, Member
  <2>3. [m \in Methods |-> totals[m]] = totals
    OBVIOUS
  <2> HIDE DEF P, totals
  <2>4. P(sum)
    BY <2>2, SalesFinite, TotalExists
  <2>5. sum[Methods] = SumOf([m \in Methods |-> totals[m]])
    <3> HIDE DEF sum
    <3> QED
      BY <2>2, <2>4, SalesFinite, TotalIsSum
  <2> QED
    BY <2>1, <2>3, <2>5
<1>5. MethodOrdersOf(methods) = SumOf(counts)
  <2> DEFINE P(total) == total = [s \in SUBSET Methods |->
                                    IF s = {} THEN 0
                                    ELSE methods[Member(s)].orders + total[s \ {Member(s)}]]
             sum == CHOOSE total : P(total)
  <2>1. MethodOrdersOf(methods) = sum[Methods]
    BY DEF MethodOrdersOf, MapThenSumSet, MapThenFoldSet, Member
  <2>2. \A total : P(total) <=> AddsUp(total, counts, Methods)
    BY DEF AddsUp, Member
  <2>3. [m \in Methods |-> counts[m]] = counts
    OBVIOUS
  <2> HIDE DEF P, counts
  <2>4. P(sum)
    BY <2>2, SalesFinite, TotalExists
  <2>5. sum[Methods] = SumOf([m \in Methods |-> counts[m]])
    <3> HIDE DEF sum
    <3> QED
      BY <2>2, <2>4, SalesFinite, TotalIsSum
  <2> QED
    BY <2>1, <2>3, <2>5
<1>6. totals = [m \in Methods |-> SumOf([x \in Of(m) |-> f[x]])]
  <2>1. ASSUME NEW m \in Methods
        PROVE  methods[m].total = SumOf([x \in Of(m) |-> f[x]])
    <3>1. [x \in Of(m) |-> f[x]] = [x \in Of(m) |-> Total[x]] /\ Of(m) \in SUBSET Orders
      OBVIOUS
    <3> HIDE DEF Of, f
    <3>2. Revenue(Of(m)) = SumOf([x \in Of(m) |-> Total[x]])
      BY <3>1, RevenueIsSum
    <3> QED
      BY <1>2, <3>1, <3>2
  <2> HIDE DEF Of, f
  <2> QED
    BY <2>1
<1>7. counts = [m \in Methods |-> SumOf([x \in Of(m) |-> ones[x]])]
  <2>1. ASSUME NEW m \in Methods
        PROVE  methods[m].orders = SumOf([x \in Of(m) |-> ones[x]])
    <3>1. [x \in Of(m) |-> ones[x]] = [x \in Of(m) |-> 1]
      OBVIOUS
    <3> HIDE DEF Of, ones
    <3>2. Cardinality(Of(m)) = SumOf([x \in Of(m) |-> 1])
      BY <1>2, CountIsSum
    <3> QED
      BY <1>2, <3>1, <3>2
  <2> HIDE DEF Of, ones
  <2> QED
    BY <2>1
<1>8. /\ [x \in C |-> f[x]] = [x \in C |-> Total[x]]
      /\ [x \in C |-> ones[x]] = [x \in C |-> 1]
  OBVIOUS
<1> HIDE DEF key, f, ones, totals, counts
<1>9. /\ GroupedSum(C, f, Methods, key) = SumOf([x \in C |-> f[x]])
      /\ GroupedSum(C, ones, Methods, key) = SumOf([x \in C |-> ones[x]])
  BY <1>1, SalesFinite, SumByKey
<1>10. /\ GroupedSum(C, f, Methods, key) = SumOf(totals)
       /\ GroupedSum(C, ones, Methods, key) = SumOf(counts)
  BY <1>6, <1>7 DEF GroupedSum
<1> QED
  BY <1>1, <1>3, <1>4, <1>5, <1>8, <1>9, <1>10, RevenueIsSum, CountIsSum

-----------------------------------------------------------------------------
(* The statements of a page keep its figures comparable.                     *)

\* The orders a filter counts, named by the rows they come from.
LEMMA CountedSets ==
  ASSUME NEW f \in Filters
  PROVE  /\ Counted(f) = CountedIn(sale, f) /\ Live = LiveIn(sale)
         /\ CountedIn(sale, f) \in SUBSET LiveIn(sale) /\ LiveIn(sale) \in SUBSET Orders
         /\ CountedIn(sale, f) \in SUBSET Orders
BY DEF Counted, Selected, Live, Placed, CountedIn, LiveIn

\* A statement of the page keeps the invariant if the figures still fit.
LEMMA PageStep ==
  ASSUME SalesInv, UNCHANGED <<sale, today, moves>>, page' \in SalesPages,
         ReportGoes(page', CountedIn(sale, page'.filter)), OrdersGo(page', sale, today)
  PROVE  SalesInv'
BY DEF SalesInv

\* What is known of the page and of the orders that it counts.
LEMMA PageFacts ==
  ASSUME SalesInv
  PROVE  LET C == CountedIn(sale, page.filter)
         IN /\ page \in SalesPages /\ page.filter \in Filters /\ sale \in SaleRows /\ today \in Days
            /\ ReportGoes(page, C) /\ OrdersGo(page, sale, today)
            /\ C \in SUBSET Orders /\ Counted(page.filter) = C /\ C \in SUBSET LiveIn(sale)
            /\ Revenue(C) \in Nat /\ Cardinality(C) \in Nat /\ UnitsIn(C) \in Nat
            /\ \A d : Revenue(OnDayIn(sale, C, d)) \in Nat
            /\ \A o \in C : sale[o].method \in Methods
<1> DEFINE C == CountedIn(sale, page.filter)
<1>1. /\ page \in SalesPages /\ page.filter \in Filters /\ sale \in SaleRows /\ today \in Days
      /\ ReportGoes(page, C) /\ OrdersGo(page, sale, today)
  BY DEF SalesInv, SalesPages
<1>2. C \in SUBSET Orders /\ Counted(page.filter) = C /\ C \in SUBSET LiveIn(sale)
  BY <1>1, CountedSets
<1>3. \A o \in C : sale[o].method \in Methods
  BY DEF SalesInv, CountedIn
<1>4. \A d : OnDayIn(sale, C, d) \in SUBSET C
  BY DEF OnDayIn
<1> HIDE DEF C
<1>5. Revenue(C) \in Nat /\ Cardinality(C) \in Nat /\ UnitsIn(C) \in Nat
  BY <1>2, RevenueFacts, CountFacts, UnitsFacts
<1>6. \A d : Revenue(OnDayIn(sale, C, d)) \in Nat
  BY <1>2, <1>4, RevenueFacts
<1> QED
  BY <1>1, <1>2, <1>3, <1>5, <1>6 DEF C

\* The totals are read.
LEMMA TotalsKeep ==
  ASSUME SalesInv, NEW view, NEW next, <<view, next>> \in {<<"report", "units">>, <<"orders", "methods">>},
         Totals(view, next)
  PROVE  SalesInv'
<1> DEFINE C == CountedIn(sale, page.filter)
           revenue == Revenue(C)
           orders == Cardinality(C)
<1>1. /\ page \in SalesPages /\ today \in Days /\ revenue \in Nat /\ orders \in Nat
      /\ OrdersGo(page, sale, today)
  BY PageFacts
<1>2. /\ page' = [page EXCEPT !.revenue = revenue, !.orders = orders, !.today = today, !.step = next]
      /\ page.view = view /\ page.step = "totals" /\ UNCHANGED <<sale, today, moves>>
  BY PageFacts DEF Totals, Statement
<1>3. (view = "report" /\ next = "units") \/ (view = "orders" /\ next = "methods")
  OBVIOUS
<1> HIDE DEF revenue, orders
<1>4. page' \in SalesPages
  BY <1>1, <1>2, <1>3 DEF SalesPages
<1>5. /\ page'.view = view /\ page'.step = next /\ page'.filter = page.filter /\ page'.today = today
      /\ page'.revenue = revenue /\ page'.orders = orders /\ page'.bars = page.bars
  BY <1>1, <1>2 DEF SalesPages
<1>6. ReportGoes(page', C)
  BY <1>1, <1>3, <1>5 DEF ReportGoes, Grew, revenue, orders
<1>7. OrdersGo(page', sale, today)
  BY <1>1, <1>2, <1>3, <1>5 DEF OrdersGo
<1> QED
  BY <1>2, <1>4, <1>5, <1>6, <1>7, PageStep

\* The units are read.
LEMMA UnitsKeep ==
  ASSUME SalesInv, UnitsSold
  PROVE  SalesInv'
<1> DEFINE C == CountedIn(sale, page.filter)
           units == UnitsIn(C)
<1>1. page \in SalesPages /\ units \in Nat /\ ReportGoes(page, C)
  BY PageFacts
<1>2. /\ page' = [page EXCEPT !.units = units, !.step = "top"]
      /\ page.view = "report" /\ page.step = "units" /\ UNCHANGED <<sale, today, moves>>
  <2>1. /\ page' = [page EXCEPT !.units = UnitsIn(Counted(page.filter)), !.step = "top"]
        /\ page.view = "report" /\ page.step = "units" /\ UNCHANGED <<sale, today, moves>>
    BY DEF UnitsSold, Statement, UnitsIn
  <2> QED
    BY <2>1, PageFacts
<1> HIDE DEF units
<1>3. page' \in SalesPages
  BY <1>1, <1>2 DEF SalesPages
<1>4. /\ page'.view = "report" /\ page'.step = "top" /\ page'.filter = page.filter
      /\ page'.revenue = page.revenue /\ page'.orders = page.orders /\ page'.units = units
      /\ page'.grown = page.grown /\ page'.shrunk = page.shrunk
  BY <1>1, <1>2 DEF SalesPages
<1>5. ReportGoes(page', C)
  BY <1>1, <1>2, <1>4 DEF ReportGoes, Grew, units
<1>6. OrdersGo(page', sale, today)
  BY <1>4 DEF OrdersGo
<1> QED
  BY <1>2, <1>3, <1>4, <1>5, <1>6, PageStep

\* The best-selling products are read.
LEMMA TopKeep ==
  ASSUME SalesInv, TopProducts
  PROVE  SalesInv'
<1> DEFINE C == CountedIn(sale, page.filter)
<1>1. page \in SalesPages /\ ReportGoes(page, C) /\ C \in SUBSET Orders /\ Counted(page.filter) = C
  BY PageFacts
<1> HIDE DEF C
<1>2. PICK best \in TopRows(C) :
        /\ page' = [page EXCEPT !.top = [p \in SoldProducts |-> IF p \in best THEN Sold(C, p) ELSE 0],
                                !.best = best, !.step = "daily"]
        /\ page.view = "report" /\ page.step = "top" /\ UNCHANGED <<sale, today, moves>>
  BY <1>1 DEF TopProducts, Statement
<1> DEFINE top == [p \in SoldProducts |-> IF p \in best THEN Sold(C, p) ELSE 0]
<1>3. /\ best \in SUBSET SoldProducts /\ top \in [SoldProducts -> Nat]
      /\ TopUnitsOf(top) \in Nat /\ TopUnitsOf(top) <= UnitsIn(C)
      /\ Cardinality(best) < TopLimit => TopUnitsOf(top) = UnitsIn(C)
  BY <1>1, TopUnitsAre
<1>4. page' = [page EXCEPT !.top = top, !.best = best, !.step = "daily"]
  BY <1>2
<1> HIDE DEF top
<1>5. page' \in SalesPages
  BY <1>1, <1>3, <1>4 DEF SalesPages
<1>6. /\ page'.view = "report" /\ page'.step = "daily" /\ page'.filter = page.filter
      /\ page'.revenue = page.revenue /\ page'.orders = page.orders
      /\ page'.units = page.units /\ page'.top = top /\ page'.best = best
      /\ page'.grown = page.grown /\ page'.shrunk = page.shrunk
  BY <1>1, <1>2, <1>4 DEF SalesPages
<1>7. ReportGoes(page', C)
  <2>1. page.units \in Nat /\ UnitsIn(C) \in Nat
    BY <1>1, UnitsFacts DEF SalesPages
  <2>2. Grew(page, page.units, UnitsIn(C))
    BY <1>1, <1>2 DEF ReportGoes
  <2>3. /\ ~page.shrunk /\ Cardinality(best) < TopLimit => page.units <= TopUnitsOf(top)
        /\ ~page.grown => TopUnitsOf(top) <= page.units
    BY <1>3, <2>1, <2>2 DEF Grew
  <2>4. Grew(page, page.revenue, Revenue(C)) /\ Grew(page, page.orders, Cardinality(C))
    BY <1>1, <1>2 DEF ReportGoes
  <2> QED
    BY <1>6, <2>3, <2>4 DEF ReportGoes, Grew
<1>8. OrdersGo(page', sale, today)
  BY <1>6 DEF OrdersGo
<1> QED
  BY <1>2, <1>5, <1>6, <1>7, <1>8, PageStep DEF C

\* The daily table is read.
LEMMA DailyKeep ==
  ASSUME SalesInv, Daily
  PROVE  SalesInv'
<1> DEFINE C == CountedIn(sale, page.filter)
           listed == DailyRowsIn(sale, C)
           daily == DailyIn(sale, C)
<1>1. /\ page \in SalesPages /\ ReportGoes(page, C) /\ C \in SUBSET Orders /\ sale \in SaleRows
      /\ Revenue(C) \in Nat /\ Counted(page.filter) = C
  BY PageFacts
<1>2. /\ page' = [page EXCEPT !.daily = daily, !.listed = listed, !.step = "methods"]
      /\ page.view = "report" /\ page.step = "daily" /\ UNCHANGED <<sale, today, moves>>
  <2>1. \A d : OnDay(Counted(page.filter), d) = OnDayIn(sale, C, d)
    BY <1>1 DEF OnDay, OnDayIn
  <2>2. /\ page' = [page EXCEPT !.daily = [d \in Days |-> IF d \in DailyRows(Counted(page.filter))
                                                           THEN Revenue(OnDay(Counted(page.filter), d))
                                                           ELSE 0],
                                !.listed = DailyRows(Counted(page.filter)), !.step = "methods"]
        /\ page.view = "report" /\ page.step = "daily" /\ UNCHANGED <<sale, today, moves>>
    BY DEF Daily, Statement
  <2>3. DailyRows(Counted(page.filter)) = listed
    BY <1>1 DEF DailyRows, DailyRowsIn
  <2> HIDE DEF C
  <2>4. daily = [d \in Days |-> IF d \in listed THEN Revenue(OnDayIn(sale, C, d)) ELSE 0]
    BY DEF DailyIn
  <2> HIDE DEF listed, daily
  <2> QED
    BY <1>1, <2>1, <2>2, <2>3, <2>4
<1>3. /\ listed \in SUBSET Days /\ daily \in [Days -> Nat] /\ DailyTotalOf(daily) \in Nat
      /\ DailyTotalOf(daily) <= Revenue(C)
      /\ Cardinality(listed) < DayLimit => DailyTotalOf(daily) = Revenue(C)
  BY <1>1, DailyTotals
<1> HIDE DEF daily, listed
<1>4. page' \in SalesPages
  BY <1>1, <1>2, <1>3 DEF SalesPages
<1>5. /\ page'.view = "report" /\ page'.step = "methods" /\ page'.filter = page.filter
      /\ page'.revenue = page.revenue /\ page'.orders = page.orders
      /\ page'.units = page.units /\ page'.top = page.top /\ page'.best = page.best
      /\ page'.daily = daily /\ page'.listed = listed
      /\ page'.grown = page.grown /\ page'.shrunk = page.shrunk
  BY <1>1, <1>2 DEF SalesPages
<1>6. ReportGoes(page', C)
  <2>1. page.revenue \in Nat
    BY <1>1 DEF SalesPages
  <2> QED
    BY <1>1, <1>2, <1>3, <1>5, <2>1 DEF ReportGoes, Grew
<1>7. OrdersGo(page', sale, today)
  BY <1>5 DEF OrdersGo
<1> QED
  BY <1>2, <1>4, <1>5, <1>6, <1>7, PageStep

\* The report's payment methods are read.
LEMMA ReportMethodsKeep ==
  ASSUME SalesInv, ReportMethods
  PROVE  SalesInv'
<1> DEFINE C == CountedIn(sale, page.filter)
           methods == MethodRows(page.filter)
<1>1. /\ page \in SalesPages /\ ReportGoes(page, C) /\ C \in SUBSET Orders /\ sale \in SaleRows
      /\ Revenue(C) \in Nat /\ Counted(page.filter) = C /\ \A o \in C : sale[o].method \in Methods
  BY PageFacts
<1>2. /\ page' = [page EXCEPT !.methods = methods, !.step = "done"]
      /\ page.view = "report" /\ page.step = "methods" /\ UNCHANGED <<sale, today, moves>>
  BY DEF ReportMethods, Statement
<1>3. /\ methods \in [Methods -> MethodFigures]
      /\ MethodTotalOf(methods) = Revenue(C) /\ MethodOrdersOf(methods) = Cardinality(C)
  <2> HIDE DEF C
  <2>1. methods = [m \in Methods |-> LET S == {o \in C : sale[o].method = m}
                                     IN [orders |-> Cardinality(S), total |-> Revenue(S)]]
    BY <1>1 DEF MethodRows, ByMethod
  <2> HIDE DEF methods
  <2> QED
    BY <1>1, <2>1, MethodTotals
<1> HIDE DEF methods
<1>4. page' \in SalesPages
  BY <1>1, <1>2, <1>3 DEF SalesPages
<1>5. /\ page'.view = "report" /\ page'.step = "done" /\ page'.filter = page.filter
      /\ page'.revenue = page.revenue /\ page'.orders = page.orders
      /\ page'.units = page.units /\ page'.top = page.top /\ page'.best = page.best
      /\ page'.daily = page.daily /\ page'.listed = page.listed /\ page'.methods = methods
      /\ page'.grown = page.grown /\ page'.shrunk = page.shrunk
  BY <1>1, <1>2 DEF SalesPages
<1>6. ReportGoes(page', C)
  BY <1>1, <1>2, <1>3, <1>5 DEF ReportGoes, Grew
<1>7. OrdersGo(page', sale, today)
  BY <1>5 DEF OrdersGo
<1> QED
  BY <1>2, <1>4, <1>5, <1>6, <1>7, PageStep

\* The numbers above the order list, and its chart.
LEMMA StatsMethodsKeep ==
  ASSUME SalesInv, StatsMethods
  PROVE  SalesInv'
<1> DEFINE C == CountedIn(sale, page.filter)
           methods == StatsRows(page.filter)
<1>1. /\ page \in SalesPages /\ OrdersGo(page, sale, today) /\ C \in SUBSET Orders
      /\ Counted(page.filter) = C
  BY PageFacts
<1>2. /\ page' = [page EXCEPT !.methods = methods, !.step = "revenue"]
      /\ page.view = "orders" /\ page.step = "methods" /\ UNCHANGED <<sale, today, moves>>
  BY DEF StatsMethods, Statement
<1>3. methods \in [Methods -> MethodFigures]
  <2> HIDE DEF C
  <2>1. ASSUME NEW a \in Nat, NEW b \in Nat PROVE [orders |-> a, total |-> b] \in MethodFigures
    BY DEF MethodFigures
  <2>2. ASSUME NEW S \in SUBSET Orders, S # {} PROVE Total[Min(S)] \in Nat
    <3>1. S \subseteq Nat
      BY SalesAssumption DEF Orders
    <3>2. \E x \in S : \A y \in S : x <= y
      BY <2>2, <3>1, LeastNatural
    <3>3. Min(S) \in S
      BY <3>2 DEF Min
    <3> QED
      BY <3>3, SalesAssumption
  <2>3. ASSUME NEW m \in Methods
        PROVE  (LET S == ByMethod(C, m)
                IN IF S = {} THEN [orders |-> 0, total |-> 0]
                             ELSE [orders |-> 1, total |-> Total[Min(S)]]) \in MethodFigures
    <3>1. ByMethod(C, m) \in SUBSET Orders
      BY <1>1 DEF ByMethod
    <3> QED
      BY <2>1, <2>2, <3>1
  <2>4. methods = [m \in Methods |-> LET S == ByMethod(C, m)
                                     IN IF S = {} THEN [orders |-> 0, total |-> 0]
                                                  ELSE [orders |-> 1, total |-> Total[Min(S)]]]
    BY <1>1 DEF StatsRows
  <2> HIDE DEF methods
  <2> QED
    BY <2>3, <2>4
<1> HIDE DEF methods
<1>4. page' \in SalesPages
  BY <1>1, <1>2, <1>3 DEF SalesPages
<1>5. /\ page'.view = "orders" /\ page'.step = "revenue" /\ page'.filter = page.filter
      /\ page'.today = page.today /\ page'.bars = page.bars /\ page'.midnight = page.midnight
  BY <1>1, <1>2 DEF SalesPages
<1>6. ReportGoes(page', C)
  BY <1>5 DEF ReportGoes
<1>7. OrdersGo(page', sale, today)
  BY <1>1, <1>2, <1>5 DEF OrdersGo
<1> QED
  BY <1>2, <1>4, <1>5, <1>6, <1>7, PageStep

\* Today's revenue is read.
LEMMA TodayRevenueKeep ==
  ASSUME SalesInv, TodayRevenue
  PROVE  SalesInv'
<1> DEFINE C == CountedIn(sale, page.filter)
           revenue == Revenue(OnDayIn(sale, C, page.today))
<1>1. /\ page \in SalesPages /\ OrdersGo(page, sale, today)
      /\ Counted(page.filter) = C /\ revenue \in Nat
  BY PageFacts
<1>2. /\ page' = [page EXCEPT !.todayRevenue = revenue, !.step = "count"]
      /\ page.view = "orders" /\ page.step = "revenue" /\ UNCHANGED <<sale, today, moves>>
  BY <1>1 DEF TodayRevenue, Statement, OnDay, OnDayIn
<1> HIDE DEF revenue
<1>3. page' \in SalesPages
  BY <1>1, <1>2 DEF SalesPages
<1>4. /\ page'.view = "orders" /\ page'.step = "count" /\ page'.filter = page.filter
      /\ page'.today = page.today /\ page'.bars = page.bars /\ page'.midnight = page.midnight
      /\ page'.todayRevenue = revenue
  BY <1>1, <1>2 DEF SalesPages
<1>5. ReportGoes(page', C)
  BY <1>4 DEF ReportGoes
<1>6. Grew(page', page'.todayRevenue, Revenue(OnDayIn(sale, C, page'.today)))
  BY <1>1, <1>4 DEF Grew, revenue
<1>7. OrdersGo(page', sale, today)
  BY <1>1, <1>2, <1>4, <1>6 DEF OrdersGo
<1> QED
  BY <1>2, <1>3, <1>4, <1>5, <1>7, PageStep

\* Today's orders are counted.
LEMMA TodayOrdersKeep ==
  ASSUME SalesInv, TodayOrders
  PROVE  SalesInv'
<1> DEFINE C == CountedIn(sale, page.filter)
           orders == Cardinality(OnDay(Counted(page.filter), page.today))
<1>1. page \in SalesPages /\ OrdersGo(page, sale, today) /\ Counted(page.filter) = C /\ C \in SUBSET Orders
  BY PageFacts
<1>2. /\ page' = [page EXCEPT !.todayOrders = orders, !.step = "clock"]
      /\ page.view = "orders" /\ page.step = "count" /\ UNCHANGED <<sale, today, moves>>
  BY DEF TodayOrders, Statement
<1>3. orders \in Nat
  <2>1. OnDay(Counted(page.filter), page.today) \in SUBSET Orders
    BY <1>1 DEF OnDay
  <2> QED
    BY <2>1, CountFacts
<1> HIDE DEF orders
<1>4. page' \in SalesPages
  BY <1>1, <1>2, <1>3 DEF SalesPages
<1>5. /\ page'.view = "orders" /\ page'.step = "clock" /\ page'.filter = page.filter
      /\ page'.today = page.today /\ page'.bars = page.bars /\ page'.midnight = page.midnight
      /\ page'.todayRevenue = page.todayRevenue
      /\ page'.grown = page.grown /\ page'.shrunk = page.shrunk
  BY <1>1, <1>2 DEF SalesPages
<1>6. ReportGoes(page', C)
  BY <1>5 DEF ReportGoes
<1>7. OrdersGo(page', sale, today)
  BY <1>1, <1>2, <1>5 DEF OrdersGo, Grew
<1> QED
  BY <1>2, <1>4, <1>5, <1>6, <1>7, PageStep

\* The chart asks for the date again.
LEMMA ClockKeeps ==
  ASSUME SalesInv, ReadClock
  PROVE  SalesInv'
<1> DEFINE C == CountedIn(sale, page.filter)
           start == today - (WeekLength - 1)
<1>1. page \in SalesPages /\ OrdersGo(page, sale, today) /\ today \in Days
  BY PageFacts
<1>2. /\ page' = [page EXCEPT !.start = start, !.step = "chart"]
      /\ page.view = "orders" /\ page.step = "clock" /\ UNCHANGED <<sale, today, moves>>
  BY DEF ReadClock, Statement
<1>3. start \in Int /\ 0 < WeekLength
  BY <1>1, SalesAssumption DEF Days
<1>4. /\ page'.view = "orders" /\ page'.step = "chart" /\ page'.filter = page.filter
      /\ page'.today = page.today /\ page'.bars = page.bars /\ page'.midnight = page.midnight
      /\ page'.todayRevenue = page.todayRevenue /\ page'.start = start
      /\ page'.grown = page.grown /\ page'.shrunk = page.shrunk
  BY <1>1, <1>2 DEF SalesPages
<1>5. page' \in SalesPages
  <2> HIDE DEF start
  <2> QED
    BY <1>1, <1>2, <1>3 DEF SalesPages
<1>6. ReportGoes(page', C)
  BY <1>4 DEF ReportGoes
<1>7. OrdersGo(page', sale, today)
  BY <1>1, <1>2, <1>3, <1>4 DEF OrdersGo, Grew
<1> QED
  BY <1>2, <1>4, <1>5, <1>6, <1>7, PageStep

\* One more day of the chart is read.
LEMMA ChartKeeps ==
  ASSUME SalesInv, ChartDay
  PROVE  SalesInv'
<1> DEFINE C == CountedIn(sale, page.filter)
           d == page.start + page.bars
           bar == Revenue(OnDay(Live, d))
           chart == IF d \in Days THEN [page.chart EXCEPT ![d] = bar] ELSE page.chart
           next == IF page.bars + 1 = WeekLength THEN "done" ELSE "chart"
           bars == page.bars + 1
<1>1. /\ page \in SalesPages /\ OrdersGo(page, sale, today) /\ C \in SUBSET LiveIn(sale)
      /\ today \in Days /\ page.filter \in Filters /\ sale \in SaleRows
  BY PageFacts
<1>2. /\ page' = [page EXCEPT !.chart = chart, !.bars = bars, !.step = next]
      /\ page.view = "orders" /\ page.step = "chart" /\ UNCHANGED <<sale, today, moves>>
  BY DEF ChartDay, Statement
<1>3. page.bars \in Nat /\ page.start \in Int /\ page.today \in Days /\ WeekLength \in Nat
  BY <1>1, SalesAssumption DEF SalesPages
<1>4. OnDay(Live, d) = OnDayIn(sale, LiveIn(sale), d) /\ LiveIn(sale) \in SUBSET Orders
  BY DEF OnDay, OnDayIn, Live, LiveIn, Placed
<1>5. bar \in Nat
  <2>1. OnDayIn(sale, LiveIn(sale), d) \in SUBSET Orders
    BY <1>4 DEF OnDayIn
  <2> QED
    BY <1>4, <2>1, RevenueFacts
<1>6. chart \in [Days -> Nat] /\ bars \in Nat /\ (d \in Days => chart[d] = bar)
  <2> HIDE DEF bar, d
  <2> QED
    BY <1>1, <1>3, <1>5 DEF SalesPages
<1>7. page.bars < WeekLength /\ (~page.midnight => page.today = today /\ page.start = today - (WeekLength - 1))
  BY <1>1, <1>2 DEF OrdersGo
<1> HIDE DEF chart, bars
<1>8. page' \in SalesPages
  BY <1>1, <1>2, <1>6 DEF SalesPages
<1>9. /\ page'.view = "orders" /\ page'.step = next /\ page'.filter = page.filter
      /\ page'.today = page.today /\ page'.bars = bars /\ page'.midnight = page.midnight
      /\ page'.todayRevenue = page.todayRevenue /\ page'.start = page.start /\ page'.chart = chart
      /\ page'.grown = page.grown /\ page'.shrunk = page.shrunk
  BY <1>1, <1>2 DEF SalesPages
<1>10. ReportGoes(page', C)
  BY <1>9 DEF ReportGoes
<1>11. Grew(page, page.todayRevenue, Revenue(OnDayIn(sale, C, page.today)))
  BY <1>1, <1>2 DEF OrdersGo
<1>12. CASE page.bars + 1 # WeekLength
  <2>1. bars < WeekLength /\ next = "chart"
    BY <1>3, <1>7, <1>12 DEF bars
  <2>2. Grew(page', page'.todayRevenue, Revenue(OnDayIn(sale, C, page'.today)))
    BY <1>9, <1>11 DEF Grew
  <2> HIDE DEF next
  <2>3. OrdersGo(page', sale, today)
    BY <1>7, <1>9, <2>1, <2>2 DEF OrdersGo
  <2> QED
    BY <1>2, <1>8, <1>9, <1>10, <2>3, PageStep
<1>13. CASE page.bars + 1 = WeekLength
  <2>1. next = "done"
    BY <1>13
  <2>2. ~page.midnight => d = page.today /\ d \in Days /\ chart[page.today] = bar
    <3>1. ~page.midnight => d = page.today
      BY <1>1, <1>3, <1>7, <1>13 DEF Days
    <3> HIDE DEF d, bar
    <3> QED
      BY <1>3, <1>6, <3>1
  <2> DEFINE Ct == OnDayIn(sale, C, page.today)
             Lt == OnDayIn(sale, LiveIn(sale), page.today)
  <2>3. Ct \in SUBSET Lt /\ Lt \in SUBSET Orders
    BY <1>1, <1>4 DEF OnDayIn
  <2>4. Revenue(Ct) \in Nat /\ Revenue(Lt) \in Nat /\ Revenue(Ct) <= Revenue(Lt)
    BY <2>3, RevenueFacts
  <2>5. page.filter = NoFilter => C = LiveIn(sale)
    BY <1>1 DEF NoFilter, CountedIn, LiveIn, SaleRows, Days
  <2>6. ~page.midnight => bar = Revenue(Lt)
    BY <1>4, <2>2
  <2>7. page.todayRevenue \in Nat
    BY <1>1 DEF SalesPages
  <2>8. ~page.shrunk => page.todayRevenue <= Revenue(Ct)
    BY <1>11 DEF Grew
  <2>9. ~page.grown => Revenue(Ct) <= page.todayRevenue
    BY <1>11 DEF Grew
  <2>10. page.filter = NoFilter => Ct = Lt
    BY <2>5
  <2> HIDE DEF next, d, bar, Ct, Lt
  <2>11. ~page.shrunk /\ ~page.midnight =>
           /\ page.todayRevenue <= chart[page.today]
           /\ page.filter = NoFilter /\ ~page.grown => page.todayRevenue = chart[page.today]
    BY <2>2, <2>4, <2>6, <2>7, <2>8, <2>9, <2>10
  <2>12. OrdersGo(page', sale, today)
    BY <1>9, <2>1, <2>11 DEF OrdersGo
  <2> QED
    BY <1>2, <1>8, <1>9, <1>10, <2>12, PageStep
<1> QED
  BY <1>12, <1>13

-----------------------------------------------------------------------------
(* What happens meanwhile keeps them comparable too.                         *)

\* Where no page is made, no figure is wrong.
LEMMA NoPageFits ==
  NoPage \in SalesPages /\ NoFilter \in Filters
BY SalesAssumption DEF NoPage, NoFilter, SalesPages, Filters, Days, MethodFigures

\* A page is asked for.
LEMMA AskKeeps ==
  ASSUME SalesInv, NEW view \in {"report", "orders"}, NEW f \in Filters, Ask(view, f)
  PROVE  SalesInv'
<1>1. /\ page' = [NoPage EXCEPT !.view = view, !.step = "totals", !.filter = f]
      /\ UNCHANGED <<sale, today, moves>>
  BY DEF Ask
<1>2. page' \in SalesPages
  BY <1>1, NoPageFits DEF SalesPages
<1>3. page'.view = view /\ page'.step = "totals" /\ page'.bars = 0
  BY <1>1 DEF NoPage
<1>4. \A S : ReportGoes(page', S)
  BY <1>3 DEF ReportGoes
<1>5. OrdersGo(page', sale, today)
  BY <1>3 DEF OrdersGo
<1> QED
  BY <1>1, <1>2, <1>4, <1>5, PageStep

\* A page is finished with.
LEMMA CloseKeeps ==
  ASSUME SalesInv, Close
  PROVE  SalesInv'
<1>1. page' = NoPage /\ UNCHANGED <<sale, today, moves>>
  BY DEF Close
<1>2. NoPage.view = "none"
  BY DEF NoPage
<1>3. (\A S : ReportGoes(NoPage, S)) /\ OrdersGo(NoPage, sale, today)
  BY <1>2 DEF ReportGoes, OrdersGo
<1> QED
  BY <1>1, <1>3, NoPageFits, PageStep

\* Orders come to be counted only where `grown` notes it, and cease to be only
\* where `shrunk` does.
LEMMA NotedKeeps ==
  ASSUME SalesInv, NEW more \in BOOLEAN, NEW fewer \in BOOLEAN,
         page' = Noted(more, fewer), today' = today, moves' \in Nat, sale' \in SaleRows,
         \A o \in Orders : sale'[o].status # "none" => sale'[o].method \in Methods,
         ~fewer => \A d : /\ CountedIn(sale, page.filter) \subseteq CountedIn(sale', page.filter)
                          /\ OnDayIn(sale, CountedIn(sale, page.filter), d)
                               \subseteq OnDayIn(sale', CountedIn(sale', page.filter), d),
         ~more => \A d : /\ CountedIn(sale', page.filter) \subseteq CountedIn(sale, page.filter)
                         /\ OnDayIn(sale', CountedIn(sale', page.filter), d)
                              \subseteq OnDayIn(sale, CountedIn(sale, page.filter), d)
  PROVE  SalesInv'
<1> DEFINE C == CountedIn(sale, page.filter)
           D == CountedIn(sale', page.filter)
           Ct == OnDayIn(sale, C, page.today)
           Dt == OnDayIn(sale', D, page.today)
<1>1. /\ page \in SalesPages /\ page.filter \in Filters /\ today \in Days
      /\ ReportGoes(page, C) /\ OrdersGo(page, sale, today)
  BY PageFacts
<1>2. C \in SUBSET Orders /\ D \in SUBSET Orders /\ Ct \in SUBSET Orders /\ Dt \in SUBSET Orders
  BY DEF CountedIn, OnDayIn
<1>3. (~fewer => C \subseteq D /\ Ct \subseteq Dt) /\ (~more => D \subseteq C /\ Dt \subseteq Ct)
  OBVIOUS
<1>4. CASE page.step = "done"
  <2>1. page' = page
    BY <1>4 DEF Noted
  <2>2. ReportGoes(page, D)
    BY <1>1, <1>4 DEF ReportGoes
  <2>3. OrdersGo(page, sale', today)
    BY <1>1, <1>4 DEF OrdersGo
  <2> QED
    BY <1>1, <2>1, <2>2, <2>3 DEF SalesInv
<1>5. CASE page.step # "done"
  <2> DEFINE grown == page.grown \/ more
             shrunk == page.shrunk \/ fewer
  <2>1. page' = [page EXCEPT !.grown = grown, !.shrunk = shrunk]
    BY <1>5 DEF Noted
  <2>2. grown \in BOOLEAN /\ shrunk \in BOOLEAN
    BY <1>1 DEF SalesPages
  <2>3. (~grown => ~page.grown /\ ~more) /\ (~shrunk => ~page.shrunk /\ ~fewer)
    OBVIOUS
  <2> HIDE DEF grown, shrunk
  <2>4. page' \in SalesPages
    BY <1>1, <2>1, <2>2 DEF SalesPages
  <2>5. /\ page'.view = page.view /\ page'.step = page.step /\ page'.filter = page.filter
        /\ page'.today = page.today /\ page'.start = page.start /\ page'.bars = page.bars
        /\ page'.revenue = page.revenue /\ page'.orders = page.orders /\ page'.units = page.units
        /\ page'.top = page.top /\ page'.best = page.best
        /\ page'.daily = page.daily /\ page'.listed = page.listed
        /\ page'.todayRevenue = page.todayRevenue /\ page'.midnight = page.midnight
        /\ page'.grown = grown /\ page'.shrunk = shrunk
    BY <1>1, <2>1 DEF SalesPages
  <2>6. /\ page.revenue \in Nat /\ page.orders \in Nat /\ page.units \in Nat
        /\ page.todayRevenue \in Nat
    BY <1>1 DEF SalesPages
  <2> HIDE DEF C, D, Ct, Dt
  <2>7. /\ Revenue(C) \in Nat /\ Revenue(D) \in Nat
        /\ Cardinality(C) \in Nat /\ Cardinality(D) \in Nat
        /\ UnitsIn(C) \in Nat /\ UnitsIn(D) \in Nat
        /\ Revenue(Ct) \in Nat /\ Revenue(Dt) \in Nat
    BY <1>2, RevenueFacts, CountFacts, UnitsFacts
  <2>8. ~shrunk => /\ Revenue(C) <= Revenue(D) /\ Cardinality(C) <= Cardinality(D)
                   /\ UnitsIn(C) <= UnitsIn(D) /\ Revenue(Ct) <= Revenue(Dt)
    BY <1>2, <1>3, <2>3, RevenueFacts, CountFacts, UnitsFacts
  <2>9. ~grown => /\ Revenue(D) <= Revenue(C) /\ Cardinality(D) <= Cardinality(C)
                  /\ UnitsIn(D) <= UnitsIn(C) /\ Revenue(Dt) <= Revenue(Ct)
    BY <1>2, <1>3, <2>3, RevenueFacts, CountFacts, UnitsFacts
  <2>10. /\ Grew(page, page.revenue, Revenue(C)) => Grew(page', page'.revenue, Revenue(D))
         /\ Grew(page, page.orders, Cardinality(C)) => Grew(page', page'.orders, Cardinality(D))
         /\ Grew(page, page.units, UnitsIn(C)) => Grew(page', page'.units, UnitsIn(D))
         /\ Grew(page, page.todayRevenue, Revenue(Ct)) => Grew(page', page'.todayRevenue, Revenue(Dt))
    BY <2>3, <2>5, <2>6, <2>7, <2>8, <2>9 DEF Grew
  <2>11. \A n : Grew(page, page.units, n) => Grew(page', page'.units, n)
    BY <2>3, <2>5 DEF Grew
  <2>12. ReportGoes(page', D)
    BY <1>1, <1>5, <2>3, <2>5, <2>10, <2>11 DEF ReportGoes
  <2>13. OrdersGo(page', sale', today)
    <3>1. /\ Ct = OnDayIn(sale, CountedIn(sale, page.filter), page.today)
          /\ Dt = OnDayIn(sale', CountedIn(sale', page'.filter), page'.today)
      BY <2>5 DEF Ct, Dt, C, D
    <3> QED
      BY <1>1, <1>5, <2>5, <2>10, <3>1 DEF OrdersGo
  <2> QED
    BY <1>1, <2>4, <2>5, <2>12, <2>13 DEF SalesInv, D
<1> QED
  BY <1>4, <1>5

\* An order is placed while a page is made.
LEMMA PlaceKeeps ==
  ASSUME SalesInv, NEW o \in Orders, NEW m \in Methods, Place(o, m)
  PROVE  SalesInv'
<1>1. sale \in SaleRows /\ today \in Days /\ page.filter \in Filters
  BY PageFacts
<1>2. /\ sale' = [sale EXCEPT ![o] = [status |-> "PENDING", method |-> m, day |-> today]]
      /\ sale[o].status = "none" /\ page' = Noted(TRUE, FALSE) /\ UNCHANGED <<today, moves>>
  BY DEF Place
<1>3. sale' \in SaleRows
  BY <1>1, <1>2 DEF SaleRows, Statuses
<1>4. \A q \in Orders : sale'[q] = IF q = o THEN [status |-> "PENDING", method |-> m, day |-> today]
                                            ELSE sale[q]
  BY <1>1, <1>2 DEF SaleRows
<1>5. \A q \in Orders : sale'[q].status # "none" => sale'[q].method \in Methods
  BY <1>4 DEF SalesInv
<1>6. o \notin CountedIn(sale, page.filter)
  BY <1>2 DEF CountedIn
<1>7. CountedIn(sale, page.filter) \subseteq CountedIn(sale', page.filter)
  BY <1>4, <1>6 DEF CountedIn
<1>8. \A d : OnDayIn(sale, CountedIn(sale, page.filter), d)
               \subseteq OnDayIn(sale', CountedIn(sale', page.filter), d)
  <2>1. \A q \in CountedIn(sale, page.filter) : sale'[q] = sale[q]
    BY <1>4, <1>6 DEF CountedIn
  <2> QED
    BY <1>7, <2>1 DEF OnDayIn
<1>9. moves' \in Nat
  BY <1>2 DEF SalesInv
<1> QED
  BY <1>2, <1>3, <1>5, <1>7, <1>8, <1>9, NotedKeeps

\* An order is cancelled, revived or moved on while a page is made.
LEMMA MoveKeeps ==
  ASSUME SalesInv, NEW o \in Orders, NEW s \in Statuses, Move(o, s)
  PROVE  SalesInv'
<1> DEFINE more == sale[o].status = "CANCELLED" \/ page.filter.status # Any
           fewer == s = "CANCELLED" \/ page.filter.status # Any
<1>1. sale \in SaleRows /\ page.filter \in Filters
  BY PageFacts
<1>2. /\ sale' = [sale EXCEPT ![o].status = s] /\ moves' = moves + 1
      /\ sale[o].status # "none" /\ page' = Noted(more, fewer) /\ today' = today
  BY DEF Move, Placed
<1>3. more \in BOOLEAN /\ fewer \in BOOLEAN
  OBVIOUS
<1>4. sale' \in SaleRows
  BY <1>1, <1>2 DEF SaleRows
<1>5. /\ \A q \in Orders : sale'[q].method = sale[q].method /\ sale'[q].day = sale[q].day
      /\ \A q \in Orders \ {o} : sale'[q].status = sale[q].status
      /\ sale'[o].status = s
  BY <1>1, <1>2 DEF SaleRows
<1>6. \A q \in Orders : sale'[q].status # "none" => sale'[q].method \in Methods
  BY <1>2, <1>5 DEF SalesInv
<1>7. ~fewer => CountedIn(sale, page.filter) \subseteq CountedIn(sale', page.filter)
  BY <1>5 DEF CountedIn, Statuses
<1>8. ~more => CountedIn(sale', page.filter) \subseteq CountedIn(sale, page.filter)
  BY <1>2, <1>5 DEF CountedIn
<1>9. CountedIn(sale, page.filter) \subseteq Orders /\ CountedIn(sale', page.filter) \subseteq Orders
  BY DEF CountedIn
<1>10. moves' \in Nat
  BY <1>2 DEF SalesInv
<1> HIDE DEF more, fewer
<1>11. ~fewer => \A d : OnDayIn(sale, CountedIn(sale, page.filter), d)
                          \subseteq OnDayIn(sale', CountedIn(sale', page.filter), d)
  BY <1>5, <1>7, <1>9 DEF OnDayIn
<1>12. ~more => \A d : OnDayIn(sale', CountedIn(sale', page.filter), d)
                         \subseteq OnDayIn(sale, CountedIn(sale, page.filter), d)
  BY <1>5, <1>8, <1>9 DEF OnDayIn
<1> QED
  BY <1>2, <1>3, <1>4, <1>6, <1>7, <1>8, <1>10, <1>11, <1>12, NotedKeeps

\* Midnight passes while a page is made.
LEMMA NewDayKeeps ==
  ASSUME SalesInv, NewDay
  PROVE  SalesInv'
<1> DEFINE C == CountedIn(sale, page.filter)
<1>1. /\ page \in SalesPages /\ today \in Days
      /\ ReportGoes(page, C) /\ OrdersGo(page, sale, today)
  BY PageFacts
<1>2. today' \in Days /\ UNCHANGED <<sale, moves>>
  BY <1>1, SalesAssumption DEF NewDay, Days
<1>3. CASE page.step = "done"
  <2>1. page' = page
    BY <1>3 DEF NewDay
  <2>2. OrdersGo(page, sale, today')
    BY <1>1, <1>3 DEF OrdersGo
  <2> QED
    BY <1>2, <2>1, <2>2 DEF SalesInv
<1>4. CASE page.step # "done"
  <2>1. page' = [page EXCEPT !.midnight = TRUE]
    BY <1>4 DEF NewDay
  <2>2. page' \in SalesPages
    BY <1>1, <2>1 DEF SalesPages
  <2>3. /\ page'.view = page.view /\ page'.step = page.step /\ page'.filter = page.filter
        /\ page'.today = page.today /\ page'.start = page.start /\ page'.bars = page.bars
        /\ page'.revenue = page.revenue /\ page'.orders = page.orders /\ page'.units = page.units
        /\ page'.top = page.top /\ page'.best = page.best
        /\ page'.daily = page.daily /\ page'.listed = page.listed
        /\ page'.todayRevenue = page.todayRevenue /\ page'.midnight = TRUE
        /\ page'.grown = page.grown /\ page'.shrunk = page.shrunk
    BY <1>1, <2>1 DEF SalesPages
  <2> HIDE DEF C
  <2>4. ReportGoes(page', C)
    BY <1>1, <1>4, <2>3 DEF ReportGoes, Grew
  <2>5. OrdersGo(page', sale, today')
    BY <1>1, <1>4, <2>3 DEF OrdersGo, Grew
  <2> QED
    BY <1>2, <2>2, <2>3, <2>4, <2>5 DEF SalesInv, C
<1> QED
  BY <1>3, <1>4

\* At first there are no orders and no page.
LEMMA SalesStart ==
  SalesInit => SalesInv
<1> SUFFICES ASSUME SalesInit PROVE SalesInv
  OBVIOUS
<1>1. sale \in SaleRows /\ today \in Days /\ moves \in Nat /\ \A o \in Orders : sale[o].status = "none"
  BY SalesAssumption DEF SalesInit, Unplaced, SaleRows, Days
<1>2. page = NoPage /\ NoPage.view = "none"
  BY DEF SalesInit, NoPage
<1> QED
  BY <1>1, <1>2, NoPageFits DEF SalesInv, ReportGoes, OrdersGo

\* Every step keeps the invariant.
LEMMA SalesStep ==
  SalesInv /\ [SalesNext]_salesVars => SalesInv'
<1> SUFFICES ASSUME SalesInv, [SalesNext]_salesVars PROVE SalesInv'
  OBVIOUS
<1>1. CASE UNCHANGED salesVars
  BY <1>1 DEF salesVars, SalesInv
<1>2. CASE Totals("report", "units")
  BY <1>2, TotalsKeep
<1>3. CASE Totals("orders", "methods")
  BY <1>3, TotalsKeep
<1> QED
  BY <1>1, <1>2, <1>3, AskKeeps, UnitsKeep, TopKeep, DailyKeep, ReportMethodsKeep, StatsMethodsKeep,
     TodayRevenueKeep, TodayOrdersKeep, ClockKeeps, ChartKeeps, CloseKeeps, PlaceKeeps, MoveKeeps,
     NewDayKeeps
     DEF SalesNext

\* What a page has read so far fits the orders as they are now, but for those
\* that came or went since it was asked for.
THEOREM SalesInvariance ==
  SalesSpec => []SalesInv
BY SalesStart, SalesStep, PTL DEF SalesSpec

(* Every variable of the sales figures stays in its type.                    *)
THEOREM SalesTypes ==
  SalesSpec => []SalesTypeOK
<1>1. SalesInv => SalesTypeOK
  BY DEF SalesInv, SaleRows, SalesPages, MethodFigures, SalesTypeOK
<1> QED
  BY <1>1, SalesInvariance, PTL

(* The parts of a sales report add up to its totals, and today's revenue is  *)
(* the last bar of the week's chart, but for the orders that came or went    *)
(* between the statements that read them: for any orders, products, methods, *)
(* days, filters and lengths of the tables.                                  *)
THEOREM FiguresStayTrue ==
  SalesSpec => []FiguresAgree
<1>1. SalesInv => ReportAdds
  BY DEF SalesInv, ReportGoes, Grew, ReportAdds, Complete, MethodTotal, MethodOrders, TopUnits,
         DailyTotal, MethodTotalOf, MethodOrdersOf, TopUnitsOf, DailyTotalOf
<1>2. SalesInv => TodayIsLastBar
  BY DEF SalesInv, OrdersGo, TodayIsLastBar, Complete
<1> QED
  BY <1>1, <1>2, SalesInvariance, PTL DEF FiguresAgree

-----------------------------------------------------------------------------
(* The three together.                                                       *)

\* The sales figures share no variable with the rest, so that each behaves as its
\* own specification, and the listings do whatever is done with the sitemap.
LEMMA PartsApart ==
  MCSpec => ListingSpec /\ SitemapSpec /\ SalesSpec
<1>1. MCInit => ListingInit /\ SitemapInit /\ SalesInit
  BY DEF MCInit, SitemapInit
<1>2. [MCNext]_mcVars =>
        [ListingNext]_listingVars /\ [SitemapNext]_sitemapVars /\ [SalesNext]_salesVars
  BY DEF MCNext, mcVars, SitemapNext, sitemapVars, listingVars
<1> QED
  BY <1>1, <1>2, PTL DEF MCSpec, ListingSpec, SitemapSpec, SalesSpec

(* Every variable of the pages that only read stays in its type.             *)
THEOREM TypeCorrect ==
  MCSpec => []TypeOK
<1>1. ListingTypeOK /\ SitemapTypeOK /\ SalesTypeOK => TypeOK
  BY DEF TypeOK
<1> QED
  BY <1>1, PartsApart, ListingTypes, SitemapTypes, SalesTypes, PTL
=============================================================================
