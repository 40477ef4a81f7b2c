------------------------------- MODULE Listing -------------------------------
(***************************************************************************)
(* Browsing the catalogue while staff change it: the shop and category     *)
(* pages (storefront.views.shop over _filtered_products) and the product   *)
(* pages (detail).  A listing page is two queries, a count that decides    *)
(* how many pages there are and a slice that fills one of them, and a      *)
(* visitor who turns pages makes one such request after another.  Sitemap  *)
(* adds the sitemaps.                                                      *)
(***************************************************************************)
EXTENDS Integers, FiniteSets

CONSTANTS MaxProducts,  \* bound: products, numbered in order of creation
          Price,        \* price of each product
          Categories, ParentOf,
          Shop,         \* the listing of every category, and "no parent"
          PageSize,     \* 12 in the shop
          MaxChanges    \* bound: changes by staff in a behaviour

Products == 1..MaxProducts

ASSUME ListingAssumption ==
  /\ MaxProducts \in Nat
  /\ Price \in [Products -> Nat]
  /\ Shop \notin Categories
  /\ ParentOf \in [Categories -> Categories \cup {Shop}]
  /\ PageSize \in Nat \ {0}
  /\ MaxChanges \in Nat

VARIABLES
  product,   \* state of each product and the category it is in
  open,      \* categories with is_active
  walk,      \* a visitor's way through the pages of one listing
  changes    \* changes by staff so far

listingVars == <<product, open, walk, changes>>

States == {"unborn", "active", "unavailable", "withdrawn"}
Orderings == {"newest", "price"}
NoWalk == [step |-> "off", listing |-> Shop, ordering |-> "newest", page |-> 1, pages |-> 1,
           count |-> 0, seen |-> [p \in Products |-> 0], steady |-> {},
           removed |-> FALSE, added |-> FALSE, torn |-> FALSE, tied |-> FALSE]

ListingInit ==
  /\ product \in [Products -> [state : {"unborn", "active"}, category : Categories]]
  /\ \A p, q \in Products : q <= p /\ product[p].state = "active" => product[q].state = "active"
  /\ open = Categories
  /\ walk = NoWalk
  /\ changes = 0

-----------------------------------------------------------------------------
(* What the pages show.                                                    *)

\* `is_active=True`; an unavailable product is shown as out of stock.
Active(p) == product[p].state \in {"active", "unavailable"}

\* The category and its children, whether those are active or not.
Covers(listing) ==
  IF listing = Shop THEN Categories ELSE {listing} \cup {c \in Categories : ParentOf[c] = listing}

Matching(listing) == {p \in Products : Active(p) /\ product[p].category \in Covers(listing)}

\* What a page is served for; any other is a 404.
ProductPage(p) == Active(p)
CategoryPage(c) == c \in open

\* Mutant: the listing has no ORDER BY.
ComesFirstNever(ordering, p, q) == FALSE

\* `order_by("-created_at")` or `order_by("price")`, which leaves ties open.
ComesFirst(ordering, p, q) == IF ordering = "price" THEN Price[p] < Price[q] ELSE p > q

\* The ranks that the database may give the rows of S in one query.
Rankings(ordering, S) ==
  {rank \in [S -> 1..Cardinality(S)] :
     \A p, q \in S : p # q => rank[p] # rank[q]
                              /\ (ComesFirst(ordering, p, q) => rank[p] < rank[q])}

\* Mutant: a listing without products has no pages.
PagesMayBeNone(count) == (count + PageSize - 1) \div PageSize

Pages(count) == IF count = 0 THEN 1 ELSE (count + PageSize - 1) \div PageSize

-----------------------------------------------------------------------------
(* The visitor.                                                            *)

StartWalk(listing, ordering) ==
  /\ walk.step = "off"
  /\ listing \in open \cup {Shop}
  /\ walk' = [NoWalk EXCEPT !.step = "count", !.listing = listing, !.ordering = ordering,
                            !.steady = Matching(listing)]
  /\ UNCHANGED <<product, open, changes>>

\* Paginator.count, and get_page brings the number asked for into range.
CountPages ==
  LET count == Cardinality(Matching(walk.listing))
      pages == Pages(count)
  IN /\ walk.step = "count"
     /\ walk.listing \in open \cup {Shop}
     /\ walk' = [walk EXCEPT !.step = "slice", !.count = count, !.pages = pages,
                             !.page = IF walk.page > pages THEN pages ELSE walk.page]
     /\ UNCHANGED <<product, open, changes>>

\* The category was closed: the next page is a 404 and the walk ends.
Gone ==
  /\ walk.step = "count"
  /\ walk.listing \notin open \cup {Shop}
  /\ walk' = NoWalk
  /\ UNCHANGED <<product, open, changes>>

\* OFFSET and LIMIT, the last page cut where the count said the rows end.
FetchPage ==
  LET S == Matching(walk.listing)
      top == IF walk.page * PageSize < walk.count THEN walk.page * PageSize ELSE walk.count
      shown(rank) == {p \in S : (walk.page - 1) * PageSize < rank[p] /\ rank[p] <= top}
  IN /\ walk.step = "slice"
     /\ \E rank \in Rankings(walk.ordering, S) :
          walk' = [walk EXCEPT
                     !.step = "shown",
                     !.seen = [p \in Products |->
                                 IF p \in shown(rank) /\ walk.seen[p] < 2
                                 THEN walk.seen[p] + 1 ELSE walk.seen[p]],
                     !.tied = @ \/ (walk.ordering = "price" /\
                                    \E p, q \in S : p # q /\ Price[p] = Price[q])]
     /\ UNCHANGED <<product, open, changes>>

\* "Next", as long as the shown page says there is one.
TurnPage ==
  /\ walk.step = "shown" /\ walk.page < walk.pages
  /\ walk' = [walk EXCEPT !.step = "count", !.page = @ + 1]
  /\ UNCHANGED <<product, open, changes>>

FinishWalk ==
  /\ walk.step = "shown" /\ walk.page = walk.pages
  /\ walk' = [walk EXCEPT !.step = "done"]
  /\ UNCHANGED <<product, open, changes>>

Leave == walk.step # "off" /\ walk' = NoWalk /\ UNCHANGED <<product, open, changes>>

-----------------------------------------------------------------------------
(* Staff.                                                                  *)

\* One product becomes what staff saved; the walk's history notes what that
\* does to the listing under way.
ChangeProduct(p, new) ==
  LET before == Matching(walk.listing)
      after == {q \in Products :
                  LET now == IF q = p THEN new ELSE product[q]
                  IN now.state \in {"active", "unavailable"} /\ now.category \in Covers(walk.listing)}
  IN /\ changes < MaxChanges
     /\ changes' = changes + 1
     /\ product' = [product EXCEPT ![p] = new]
     /\ walk' = IF walk.step \in {"off", "done"} THEN walk
                ELSE [walk EXCEPT !.steady = @ \cap after,
                                  !.removed = @ \/ before \ after # {},
                                  !.added = @ \/ after \ before # {},
                                  !.torn = @ \/ (walk.step = "slice" /\ before # after)]
     /\ UNCHANGED open

Create(p, category) ==
  /\ product[p].state = "unborn" /\ \A q \in 1..(p - 1) : product[q].state # "unborn"
  /\ ChangeProduct(p, [state |-> "active", category |-> category])

\* The edit form, the API's PATCH and its soft delete.
Edit(p, new) ==
  /\ product[p].state # "unborn" /\ new.state # "unborn" /\ new # product[p]
  /\ ChangeProduct(p, new)

ToggleCategory(c) ==
  /\ changes < MaxChanges
  /\ changes' = changes + 1
  /\ open' = IF c \in open THEN open \ {c} ELSE open \cup {c}
  /\ UNCHANGED <<product, walk>>

ListingNext ==
  \/ \E listing \in Categories \cup {Shop}, ordering \in Orderings : StartWalk(listing, ordering)
  \/ CountPages \/ Gone \/ FetchPage \/ TurnPage \/ FinishWalk \/ Leave
  \/ \E p \in Products, c \in Categories : \/ Create(p, c)
                                           \/ \E s \in States : Edit(p, [state |-> s, category |-> c])
  \/ \E c \in Categories : ToggleCategory(c)

ListingSpec == ListingInit /\ [][ListingNext]_listingVars

-----------------------------------------------------------------------------
ListingTypeOK ==
  /\ product \in [Products -> [state : States, category : Categories]]
  /\ open \subseteq Categories
  /\ walk.step \in {"off", "count", "slice", "shown", "done"}
  /\ walk.listing \in Categories \cup {Shop} /\ walk.ordering \in Orderings
  /\ walk.page \in Nat \ {0} /\ walk.pages \in Nat \ {0} /\ walk.count \in Nat
  /\ walk.seen \in [Products -> 0..2] /\ walk.steady \subseteq Products
  /\ changes \in Nat

\* Of the products that stayed in a listing while a visitor paged through all
\* of it, newest first or by distinct prices, none is missed unless another
\* left the listing or it changed between a page's two queries, and none is
\* shown twice unless the listing changed (views.py:241, :253).
WalkIsFair ==
  walk.step = "done" /\ ~walk.tied =>
    \A p \in walk.steady : /\ walk.seen[p] = 0 => walk.removed \/ walk.torn
                           /\ walk.seen[p] = 2 => walk.removed \/ walk.added
=============================================================================
