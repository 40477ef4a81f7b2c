------------------------------ MODULE StockRoom ------------------------------
(***************************************************************************)
(* Everything that writes stock_quantity, at once: checkouts reserving in  *)
(* sorted order (orders.services._reserve_stock), staff giving the lines   *)
(* of a cancelled order back (storefront.dashboard.dashboard_order), and   *)
(* staff or sellers saving absolute numbers, from the edit form            *)
(* (dashboard._edit_product) or through the catalogue API                  *)
(* (catalog.views.ProductViewSet, ProductVariantViewSet).  Every writer    *)
(* keeps the rows it wrote locked until it commits.                        *)
(*                                                                         *)
(* Carts, payment and the order's other columns are in modules Checkout    *)
(* and OrderDesk; here an order is its lines and whether it is live.       *)
(***************************************************************************)
EXTENDS Integers, Sequences, FiniteSets, Functions

CONSTANTS Rows,          \* product and variant rows, <<product, variant or 0>>
          Carts,         \* what customers order
          Workers,       \* concurrent request handlers
          InitialStock,  \* stock_quantity of each row at the start
          Counts,        \* numbers staff type over the shown ones
          MaxOrders,     \* bound: orders placed in a behaviour
          MaxOpened      \* bound: desk requests and forms opened

Parent(k) == <<k[1], 0>>
Ordered(lines) == {k \in Rows : lines[k] > 0}

ASSUME StockRoomAssumption ==
  /\ Rows \subseteq Nat \X Nat /\ IsFiniteSet(Rows)
  /\ \A k \in Rows : Parent(k) \in Rows
  /\ Carts \subseteq [Rows -> Nat]
  /\ InitialStock \in [Rows -> Nat]
  /\ Counts \subseteq Nat
  /\ MaxOrders \in Nat /\ MaxOpened \in Nat

VARIABLES
  stock,   \* committed stock_quantity of each row
  orders,  \* committed orders, oldest first
  job,     \* each worker's request
  opened   \* desk requests and forms opened so far

vars == <<stock, orders, job, opened>>

Nothing == [k \in Rows |-> 0]
NoJob == [kind |-> "none", step |-> "open", lines |-> Nothing, order |-> 0, was |-> FALSE,
          becomes |-> "kept", shown |-> Nothing, typed |-> Nothing, todo |-> <<>>,
          held |-> {}, rekeys |-> FALSE, shared |-> {}]

\* The order of `sorted(items, key=(product.pk, variant_id or 0))`.
Before(k, l) == k[1] < l[1] \/ (k[1] = l[1] /\ k[2] < l[2])

\* The orders in which the rows of S can be visited.
Visits(S) == {q \in [1..Cardinality(S) -> S] : Range(q) = S}

\* Mutant: the items are reserved in cart order.
UnsortedVisits(S) == Visits(S)

SortedVisits(S) == {q \in Visits(S) : \A i, j \in DOMAIN q : i < j => Before(q[i], q[j])}

\* The edit form saves the product, then the variants as its page lists them.
FormVisits(S) == {q \in Visits(S) : \A i \in DOMAIN q : Parent(q[i]) = q[i] => i = 1}

-----------------------------------------------------------------------------
(* Row locks and what a transaction has pending.                           *)

\* Product rows whose foreign-key check a checkout still has to run.
Unchecked(j) ==
  IF j.kind = "checkout" THEN {Parent(k) : k \in Ordered(j.lines)} \ j.shared ELSE {}

\* SELECT FOR UPDATE, and an UPDATE that changes the slug or the SKU, exclude a
\* foreign-key check; an UPDATE of other columns does not.
Exclusive(j) == j.kind = "checkout" \/ j.rekeys

WriteConflict(w, v, k) ==
  v # w /\ (k \in job[v].held \/ (Exclusive(job[w]) /\ k \in job[v].shared))

CheckConflict(w, v, p) == v # w /\ Exclusive(job[v]) /\ p \in job[v].held

\* Mutant: every returned line counts as one piece.
PendingOnePiece(j, k) ==
  CASE j.kind = "checkout" -> stock[k] - j.lines[k]
    [] j.kind = "desk" -> stock[k] + 1
    [] OTHER -> j.typed[k]

\* What row k holds once j, which has it locked, commits: a checkout and a
\* cancellation add to the stored number, a form replaces it.
Pending(j, k) ==
  CASE j.kind = "checkout" -> stock[k] - j.lines[k]
    [] j.kind = "desk" -> stock[k] + j.lines[k]
    [] OTHER -> j.typed[k]

Edited(j) == CASE j.becomes = "cancelled" -> FALSE
               [] j.becomes = "moved" -> TRUE
               [] OTHER -> j.was

GivesBack(j) == j.was /\ ~Edited(j)

\* A checkout's row must also match `stock_quantity__gte`.
Covers(j, k) == j.kind = "checkout" => j.lines[k] <= stock[k]

SameOrder(i, j) == i.kind = "desk" /\ j.kind = "desk" /\ i.order = j.order /\ j.step = "work"

\* Worker w cannot take its next step before worker v ends its transaction.
BlockedBy(w, v) ==
  /\ job[w].step = "work"
  /\ \/ /\ job[w].todo # <<>>
        /\ Covers(job[w], Head(job[w].todo))
        /\ WriteConflict(w, v, Head(job[w].todo))
     \/ /\ job[w].todo = <<>>
        /\ \E p \in Unchecked(job[w]) : CheckConflict(w, v, p)

\* Some workers, w among them, each wait for another of them.
OnWaitCycle(w) ==
  \E S \in SUBSET Workers :
    /\ w \in S
    /\ \A x \in S : \E y \in S : BlockedBy(x, y)
    /\ \A y \in S : \E x \in S : BlockedBy(x, y)

-----------------------------------------------------------------------------
Init ==
  /\ stock = InitialStock
  /\ orders = <<>>
  /\ job = [w \in Workers |-> NoJob]
  /\ opened = 0

\* Mutant: a rolled-back transaction is left open on the connection.
DropKeepsLocks(w) == job' = [job EXCEPT ![w] = [NoJob EXCEPT !.held = job[w].held]]

\* The request is over, and so is its transaction if it had one.
Drop(w) == job' = [job EXCEPT ![w] = NoJob]

Begin(w, j) == job[w] = NoJob /\ job' = [job EXCEPT ![w] = j]

StartCheckout(w) ==
  /\ Len(orders) < MaxOrders
  /\ \E lines \in Carts : \E visit \in SortedVisits(Ordered(lines)) :
       Begin(w, [NoJob EXCEPT !.kind = "checkout", !.step = "work",
                              !.lines = lines, !.todo = visit])
  /\ UNCHANGED <<stock, orders, opened>>

\* A dashboard POST reads the order, unlocked; any action, in any status.
OpenOrder(w, i) ==
  /\ opened < MaxOpened
  /\ opened' = opened + 1
  /\ \E becomes \in {"cancelled", "moved", "kept"} :
       Begin(w, [NoJob EXCEPT !.kind = "desk", !.lines = orders[i].lines, !.order = i,
                              !.was = orders[i].live, !.becomes = becomes])
  /\ UNCHANGED <<stock, orders>>

\* Mutant: only items with a variant are given back.
SaveOrderVariantsOnly(w) ==
  /\ job[w].kind = "desk" /\ job[w].step = "open"
  /\ \A v \in Workers \ {w} : ~SameOrder(job[w], job[v])
  /\ \E visit \in Visits(IF GivesBack(job[w])
                         THEN {k \in Ordered(job[w].lines) : k[2] # 0} ELSE {}) :
       job' = [job EXCEPT ![w].step = "work", ![w].todo = visit]
  /\ UNCHANGED <<stock, orders, opened>>

\* order.save opens the transaction and locks the order's row; the items come
\* in whatever order the database returns them.
SaveOrder(w) ==
  /\ job[w].kind = "desk" /\ job[w].step = "open"
  /\ \A v \in Workers \ {w} : ~SameOrder(job[w], job[v])
  /\ \E visit \in Visits(IF GivesBack(job[w]) THEN Ordered(job[w].lines) ELSE {}) :
       job' = [job EXCEPT ![w].step = "work", ![w].todo = visit]
  /\ UNCHANGED <<stock, orders, opened>>

\* The edit page shows the numbers of a whole product; an API PATCH reads one
\* row and will write the whole of it back.
OpenForm(w) ==
  /\ opened < MaxOpened
  /\ opened' = opened + 1
  /\ \E k \in Rows : \E S \in {{k}, {l \in Rows : l[1] = k[1]}} : \E visit \in FormVisits(S) :
       Begin(w, [NoJob EXCEPT !.kind = "form", !.shown = stock, !.typed = stock, !.todo = visit])
  /\ UNCHANGED <<stock, orders>>

\* The form comes back with the shown numbers, or one of them typed over.  A
\* PATCH may change a slug or SKU; so does a save that read the row before one.
SubmitForm(w) ==
  /\ job[w].kind = "form" /\ job[w].step = "open"
  /\ \E rekeys \in BOOLEAN :
       \/ job' = [job EXCEPT ![w].step = "work", ![w].rekeys = rekeys]
       \/ \E k \in Range(job[w].todo), n \in Counts :
            job' = [job EXCEPT ![w].step = "work", ![w].rekeys = rekeys, ![w].typed[k] = n]
  /\ UNCHANGED <<stock, orders, opened>>

\* The next row is locked (SELECT FOR UPDATE or UPDATE) and written.
WriteRow(w) ==
  /\ job[w].step = "work"
  /\ job[w].todo # <<>>
  /\ Covers(job[w], Head(job[w].todo))
  /\ \A v \in Workers : ~WriteConflict(w, v, Head(job[w].todo))
  /\ job' = [job EXCEPT ![w].held = @ \cup {Head(job[w].todo)}, ![w].todo = Tail(@)]
  /\ UNCHANGED <<stock, orders, opened>>

\* InsufficientStock: the filter reads the committed number and does not wait.
OutOfStock(w) ==
  /\ job[w].kind = "checkout"
  /\ job[w].todo # <<>>
  /\ ~Covers(job[w], Head(job[w].todo))
  /\ Drop(w)
  /\ UNCHANGED <<stock, orders, opened>>

\* COMMIT of a checkout first runs the deferred foreign-key checks of its items,
\* each a SELECT FOR KEY SHARE of the line's product row.
CheckForeignKey(w, p) ==
  /\ job[w].step = "work"
  /\ job[w].todo = <<>>
  /\ p \in Unchecked(job[w])
  /\ \A v \in Workers : ~CheckConflict(w, v, p)
  /\ job' = [job EXCEPT ![w].shared = @ \cup {p}]
  /\ UNCHANGED <<stock, orders, opened>>

\* Mutant: the order is saved without its items.
NewOrderEmpty(j) == [lines |-> Nothing, live |-> TRUE, back |-> 0]

NewOrder(j) == [lines |-> j.lines, live |-> TRUE, back |-> 0]

Commit(w) ==
  LET j == job[w]
  IN /\ j.step = "work"
     /\ j.todo = <<>>
     /\ Unchecked(j) = {}
     /\ stock' = [k \in Rows |-> IF k \in j.held THEN Pending(j, k) ELSE stock[k]]
     /\ orders' = CASE j.kind = "checkout" -> Append(orders, NewOrder(j))
                    [] j.kind = "desk" ->
                         [orders EXCEPT ![j.order].live = Edited(j),
                                        ![j.order].back = IF GivesBack(j) THEN @ + 1 ELSE @]
                    [] OTHER -> orders
     /\ Drop(w)
     /\ UNCHANGED opened

\* The database aborts one transaction of a cycle of waits.
DeadlockVictim(w) == OnWaitCycle(w) /\ Drop(w) /\ UNCHANGED <<stock, orders, opened>>

\* The tab is closed, the form is refused, or the worker dies.
Abandon(w) == job[w] # NoJob /\ Drop(w) /\ UNCHANGED <<stock, orders, opened>>

Step(w) == \/ SaveOrder(w) \/ WriteRow(w) \/ OutOfStock(w)
           \/ \E p \in Rows : CheckForeignKey(w, p)
           \/ Commit(w) \/ DeadlockVictim(w)

Next == \E w \in Workers : \/ StartCheckout(w)
                           \/ \E i \in DOMAIN orders : OpenOrder(w, i)
                           \/ OpenForm(w) \/ SubmitForm(w)
                           \/ Step(w)
                           \/ Abandon(w)

Spec == Init /\ [][Next]_vars

\* A request is served; waiters for a row lock are queued, so one that keeps
\* being able to go on does.
FairSpec == Spec /\ \A w \in Workers : SF_vars(Step(w))

-----------------------------------------------------------------------------
Jobs == [kind : {"none", "checkout", "desk", "form"}, step : {"open", "work"},
         lines : [Rows -> Nat], order : Nat, was : BOOLEAN,
         becomes : {"cancelled", "moved", "kept"}, shown : [Rows -> Nat],
         typed : [Rows -> Nat], todo : Seq(Rows), held : SUBSET Rows,
         rekeys : BOOLEAN, shared : SUBSET Rows]

TypeOK ==
  /\ stock \in [Rows -> Int]
  /\ orders \in Seq([lines : Carts, live : BOOLEAN, back : Nat])
  /\ job \in [Workers -> Jobs]
  /\ \A w \in Workers : job[w].kind = "desk" => job[w].order \in DOMAIN orders
  /\ opened \in Nat

\* Whoever else writes the numbers, and however stale the page they were typed
\* on, no checkout takes more than a row holds: stock_quantity stays at zero or
\* above (services.py:53, :69 and the column's check constraint).
NoOversell == \A k \in Rows : stock[k] >= 0

\* Units of row k that an order holds: none once its lines were given back.
Holds(o, k) == IF o.back = 0 THEN o.lines[k] ELSE 0

\* Units of row k the shop has: on the shelf, or held by orders.
OnHand(k) == stock[k] + FoldFunction(+, 0, [i \in DOMAIN orders |-> Holds(orders[i], k)])

\* A form saves a number for k that was typed over, or one that has changed
\* since its page showed it (dashboard.py:491, :505).
StaleCount(j, k) ==
  j.kind = "form" /\ (j.typed[k] # j.shown[k] \/ stock[k] # j.shown[k])

\* The lines of an order come back once more: it was cancelled by two requests
\* that had both read it live, or again after staff had revived it
\* (dashboard.py:744).
SecondReturn(j) == j.kind = "desk" /\ GivesBack(j) /\ orders[j.order].back > 0

\* Units appear or vanish only for these two reasons; no checkout, no first
\* cancellation, no deadlock, refusal or crash half way loses count of any.
MiscountsExplained ==
  [][\A k \in Rows : OnHand(k)' # OnHand(k) =>
       \E w \in Workers : /\ k \in job[w].held
                          /\ job'[w] = NoJob
                          /\ StaleCount(job[w], k) \/ SecondReturn(job[w])]_vars

\* The product rows that one cart locks as stock and another must check as the
\* product of a variant.
SoldBothWays ==
  LET Sold == UNION {Ordered(lines) : lines \in Carts}
  IN {p \in Sold : \E k \in Sold : k # p /\ Parent(k) = p}

\* Checkouts deadlock among themselves only over a product sold both with and
\* without a variant, at the foreign-key check of a commit; every other cycle of
\* waits runs through a cancellation or an edit, which lock rows in an order of
\* their own (dashboard.py:747, :501).
CyclesExplained ==
  \A w \in Workers : OnWaitCycle(w) =>
    \E v \in Workers :
      /\ OnWaitCycle(v)
      /\ \/ job[v].kind # "checkout"
         \/ job[v].todo = <<>> /\ Unchecked(job[v]) \cap SoldBothWays # {}

Busy(w) == job[w].kind # "none" /\ ~(job[w].kind = "form" /\ job[w].step = "open")

\* Every request ends, whatever rows the others hold and whoever deadlocks.
RequestsEnd == \A w \in Workers : Busy(w) ~> ~Busy(w)

\* To the Inventory an order is its lines and how often they came back.
Room == INSTANCE Inventory WITH
          placed <- [i \in DOMAIN orders |-> [lines |-> orders[i].lines, back |-> orders[i].back]]

\* StockRoom implements the Inventory: orders, returns and counts each happen
\* whole and at once, however their row writes interleave.
ImplementsInventory == Room!Spec
=============================================================================
