------------------------------ MODULE Checkout ------------------------------
(***************************************************************************)
(* Placing an order: storefront.views.checkout and OrderViewSet both read  *)
(* the customer's cart, then call orders.services.place_order_from_cart,   *)
(* which reserves stock, writes the order and empties the cart in one      *)
(* PostgreSQL READ COMMITTED transaction.  Several workers serve requests  *)
(* at once; a customer may have more than one request in flight.           *)
(*                                                                         *)
(* A row is named by the key the code sorts by, <<product.pk, variant.pk>> *)
(* with 0 for "no variant": <<p, 0>> is product p's own row and <<p, v>>   *)
(* its variant v.                                                          *)
(***************************************************************************)
EXTENDS Integers, Sequences, FiniteSets, Functions

CONSTANTS Customers,     \* accounts, each with one persistent cart
          Workers,       \* concurrent request handlers
          NoCustomer,    \* "this worker serves nobody"
          Rows,          \* product and variant rows
          Shelf,         \* the rows customers put in carts
          InitialStock,  \* stock_quantity of each row at the start
          MaxQty         \* bound: largest quantity of a cart line

Parent(k) == <<k[1], 0>>

ASSUME CheckoutAssumption ==
  /\ Rows \subseteq Nat \X Nat
  /\ \A k \in Rows : Parent(k) \in Rows
  /\ Shelf \subseteq Rows
  /\ InitialStock \in [Rows -> Nat]
  /\ MaxQty \in Nat
  /\ NoCustomer \notin Customers

VARIABLES
  stock,      \* committed stock_quantity of each row
  orders,     \* committed orders with their lines, oldest first
  cart,       \* committed cart quantity per customer and row, 0 = no line
  phase,      \* where each worker is in its request
  customer,   \* whom the worker serves
  lines,      \* the cart lines the worker read before its transaction
  locked,     \* rows the worker holds FOR UPDATE (decrement pending)
  keyShared,  \* product rows the worker holds FOR KEY SHARE
  cleared,    \* cart rows whose deletion the worker has pending
  raced       \* history: the cart changed after the worker read it

jobVars == <<customer, lines, locked, keyShared, cleared>>
vars == <<stock, orders, cart, phase, jobVars, raced>>

Phases == {"idle", "read", "reserve", "write", "commit"}
NoLines == [k \in Rows |-> 0]

\* The order of `sorted(items, key=(product.pk, variant_id or 0))`.
Before(k, l) == k[1] < l[1] \/ (k[1] = l[1] /\ k[2] < l[2])

CartRows(c) == {k \in Rows : cart[c][k] > 0}
Ordered(w) == {k \in Rows : lines[w][k] > 0}
Wanted(w) == Ordered(w) \ locked[w]
\* Mutant: the items are reserved in no particular order.
NextRowUnsorted(w, k) == k \in Wanted(w)

NextRow(w, k) == k \in Wanted(w) /\ \A l \in Wanted(w) : l = k \/ Before(k, l)
Unchecked(w) == {Parent(k) : k \in Ordered(w)} \ keyShared[w]

\* The cart of c changes: a request that has read it is now stale.
Stale(c) == [w \in Workers |-> raced[w] \/ customer[w] = c]

-----------------------------------------------------------------------------
(* Lock conflicts, as PostgreSQL decides them.                             *)

\* Mutant: the availability check does not lock the row.
NoUpdateConflict(w, v, k) == FALSE

UpdateConflict(w, v, k) == v # w /\ k \in locked[v] \cup keyShared[v]
ShareConflict(w, v, p) == v # w /\ p \in locked[v]
DeleteConflict(w, v) ==
  v # w /\ customer[v] = customer[w] /\ cleared[v] \cap CartRows(customer[w]) # {}

\* Worker w cannot take its next step before worker v ends its transaction.
BlockedBy(w, v) ==
  \/ phase[w] = "reserve" /\ \E k \in Rows : /\ NextRow(w, k)
                                             /\ lines[w][k] <= stock[k]
                                             /\ UpdateConflict(w, v, k)
  \/ phase[w] = "write" /\ DeleteConflict(w, v)
  \/ phase[w] = "commit" /\ \E p \in Unchecked(w) : ShareConflict(w, v, p)

\* w lies on a cycle of waits: some workers each wait for another one of them,
\* and each is waited for.
OnWaitCycle(w) ==
  \E S \in SUBSET Workers : \E next \in [S -> S] :
    /\ w \in S
    /\ \A x \in S : BlockedBy(x, next[x])
    /\ \A y \in S : \E x \in S : next[x] = y

-----------------------------------------------------------------------------
Init ==
  /\ stock = InitialStock
  /\ orders = <<>>
  /\ cart = [c \in Customers |-> NoLines]
  /\ phase = [w \in Workers |-> "idle"]
  /\ customer = [w \in Workers |-> NoCustomer]
  /\ lines = [w \in Workers |-> NoLines]
  /\ locked = [w \in Workers |-> {}]
  /\ keyShared = [w \in Workers |-> {}]
  /\ cleared = [w \in Workers |-> {}]
  /\ raced = [w \in Workers |-> FALSE]

\* Mutant: the worker keeps the previous customer.
EndRequestKeepsCustomer(w) ==
  /\ phase' = [phase EXCEPT ![w] = "idle"]
  /\ lines' = [lines EXCEPT ![w] = NoLines]
  /\ locked' = [locked EXCEPT ![w] = {}]
  /\ keyShared' = [keyShared EXCEPT ![w] = {}]
  /\ cleared' = [cleared EXCEPT ![w] = {}]
  /\ UNCHANGED customer

\* Mutant: the transaction is left open on the pooled connection.
EndRequestKeepsLocks(w) ==
  /\ phase' = [phase EXCEPT ![w] = "idle"]
  /\ customer' = [customer EXCEPT ![w] = NoCustomer]
  /\ lines' = [lines EXCEPT ![w] = NoLines]
  /\ UNCHANGED <<locked, keyShared, cleared>>

\* The transaction (if any) is over and the response sent.
EndRequest(w) ==
  /\ phase' = [phase EXCEPT ![w] = "idle"]
  /\ customer' = [customer EXCEPT ![w] = NoCustomer]
  /\ lines' = [lines EXCEPT ![w] = NoLines]
  /\ locked' = [locked EXCEPT ![w] = {}]
  /\ keyShared' = [keyShared EXCEPT ![w] = {}]
  /\ cleared' = [cleared EXCEPT ![w] = {}]

\* Mutant: without transaction.atomic, what was reserved stays decremented.
RollbackKeepsDecrements(w) ==
  /\ stock' = [k \in Rows |-> IF k \in locked[w] THEN stock[k] - lines[w][k] ELSE stock[k]]
  /\ EndRequest(w)
  /\ raced' = [raced EXCEPT ![w] = FALSE]
  /\ UNCHANGED <<orders, cart>>

\* Nothing a transaction did survives its rollback.
Rollback(w) ==
  /\ EndRequest(w)
  /\ raced' = [raced EXCEPT ![w] = FALSE]
  /\ UNCHANGED <<stock, orders, cart>>

PendingDelete(c, k) == \E w \in Workers : customer[w] = c /\ k \in cleared[w]

\* The last statement of a cart endpoint, run in autocommit: the line of row k
\* becomes q, whatever quantity the endpoint had read before (0 deletes it).
\* It waits for a checkout that has the line's deletion pending.
CartWrite(c, k, q) ==
  /\ ~PendingDelete(c, k)
  /\ cart[c][k] # q
  /\ cart' = [cart EXCEPT ![c][k] = q]
  /\ raced' = Stale(c)
  /\ UNCHANGED <<stock, orders, phase, jobVars>>

CartClear(c) ==
  /\ CartRows(c) # {}
  /\ \A k \in Rows : ~PendingDelete(c, k)
  /\ cart' = [cart EXCEPT ![c] = NoLines]
  /\ raced' = Stale(c)
  /\ UNCHANGED <<stock, orders, phase, jobVars>>

\* The handler lists the cart, outside any transaction; an empty one is refused.
ReadCart(w, c) ==
  /\ phase[w] = "idle"
  /\ CartRows(c) # {}
  /\ phase' = [phase EXCEPT ![w] = "read"]
  /\ customer' = [customer EXCEPT ![w] = c]
  /\ lines' = [lines EXCEPT ![w] = cart[c]]
  /\ UNCHANGED <<stock, orders, cart, locked, keyShared, cleared, raced>>

\* The form has errors: the page is rendered again before touching stock.
RejectForm(w) == phase[w] = "read" /\ Rollback(w)

Submit(w) ==
  /\ phase[w] = "read"
  /\ phase' = [phase EXCEPT ![w] = "reserve"]
  /\ UNCHANGED <<stock, orders, cart, jobVars, raced>>

\* Mutant: the availability check is off by one.
ReserveOffByOne(w, k) ==
  /\ phase[w] = "reserve"
  /\ NextRow(w, k)
  /\ lines[w][k] <= stock[k] + 1
  /\ \A v \in Workers : ~UpdateConflict(w, v, k)
  /\ locked' = [locked EXCEPT ![w] = @ \cup {k}]
  /\ phase' = [phase EXCEPT ![w] = IF Wanted(w) = {k} THEN "write" ELSE "reserve"]
  /\ UNCHANGED <<stock, orders, cart, customer, lines, keyShared, cleared, raced>>

\* SELECT ... FOR UPDATE of the next row in sorted order, then its decrement,
\* which stays invisible to the others until the transaction commits.
Reserve(w, k) ==
  /\ phase[w] = "reserve"
  /\ NextRow(w, k)
  /\ lines[w][k] <= stock[k]
  /\ \A v \in Workers : ~UpdateConflict(w, v, k)
  /\ locked' = [locked EXCEPT ![w] = @ \cup {k}]
  /\ phase' = [phase EXCEPT ![w] = IF Wanted(w) = {k} THEN "write" ELSE "reserve"]
  /\ UNCHANGED <<stock, orders, cart, customer, lines, keyShared, cleared, raced>>

\* InsufficientStock.  The filter reads committed stock and does not wait for
\* the lock of a row that does not match it.
OutOfStock(w, k) ==
  /\ phase[w] = "reserve"
  /\ NextRow(w, k)
  /\ lines[w][k] > stock[k]
  /\ Rollback(w)

\* Mutant: the order is written but the cart is not emptied.
WriteOrderKeepsCart(w) ==
  /\ phase[w] = "write"
  /\ \A v \in Workers : ~DeleteConflict(w, v)
  /\ phase' = [phase EXCEPT ![w] = "commit"]
  /\ UNCHANGED <<stock, orders, cart, jobVars, raced>>

\* The order and its items are inserted, then every line now in the cart is
\* deleted, the ones the worker never read included.
WriteOrder(w) ==
  /\ phase[w] = "write"
  /\ \A v \in Workers : ~DeleteConflict(w, v)
  /\ cleared' = [cleared EXCEPT ![w] = CartRows(customer[w])]
  /\ phase' = [phase EXCEPT ![w] = "commit"]
  /\ UNCHANGED <<stock, orders, cart, customer, lines, locked, keyShared, raced>>

\* COMMIT first runs the deferred foreign-key checks of the inserted items,
\* each a SELECT ... FOR KEY SHARE of the line's product row.
CheckForeignKey(w, p) ==
  /\ phase[w] = "commit"
  /\ p \in Unchecked(w)
  /\ \A v \in Workers : ~ShareConflict(w, v, p)
  /\ keyShared' = [keyShared EXCEPT ![w] = @ \cup {p}]
  /\ UNCHANGED <<stock, orders, cart, phase, customer, lines, locked, cleared, raced>>

Commit(w) ==
  /\ phase[w] = "commit"
  /\ Unchecked(w) = {}
  /\ stock' = [k \in Rows |-> IF k \in locked[w] THEN stock[k] - lines[w][k] ELSE stock[k]]
  /\ orders' = Append(orders, [customer |-> customer[w], lines |-> lines[w]])
  /\ cart' = [cart EXCEPT ![customer[w]] =
                [k \in Rows |-> IF k \in cleared[w] THEN 0 ELSE cart[customer[w]][k]]]
  /\ EndRequest(w)
  /\ raced' = [Stale(customer[w]) EXCEPT ![w] = FALSE]

\* The database detects a cycle of waits and aborts one of its transactions.
DeadlockVictim(w) == OnWaitCycle(w) /\ Rollback(w)

\* The worker process is killed, or loses its connection, at any point.
Crash(w) == phase[w] # "idle" /\ Rollback(w)

HandlerStep(w) ==
  \/ RejectForm(w) \/ Submit(w)
  \/ \E k \in Rows : Reserve(w, k) \/ OutOfStock(w, k) \/ CheckForeignKey(w, k)
  \/ WriteOrder(w) \/ Commit(w)
  \/ DeadlockVictim(w)

Next ==
  \/ \E c \in Customers : \/ \E k \in Shelf, q \in 0..MaxQty : CartWrite(c, k, q)
                          \/ CartClear(c)
                          \/ \E w \in Workers : ReadCart(w, c)
  \/ \E w \in Workers : HandlerStep(w) \/ Crash(w)

Spec == Init /\ [][Next]_vars

\* A request in progress is served; PostgreSQL queues lock waiters, so one that
\* is blocked gets its turn whenever the lock keeps becoming free.
FairSpec == Spec /\ \A w \in Workers : SF_vars(HandlerStep(w))

-----------------------------------------------------------------------------
TypeOK ==
  /\ stock \in [Rows -> Int]
  /\ orders \in Seq([customer : Customers, lines : [Rows -> 0..MaxQty]])
  /\ cart \in [Customers -> [Rows -> 0..MaxQty]]
  /\ phase \in [Workers -> Phases]
  /\ customer \in [Workers -> Customers \cup {NoCustomer}]
  /\ lines \in [Workers -> [Rows -> 0..MaxQty]]
  /\ locked \in [Workers -> SUBSET Rows]
  /\ keyShared \in [Workers -> SUBSET Rows]
  /\ cleared \in [Workers -> SUBSET Rows]
  /\ raced \in [Workers -> BOOLEAN]
  /\ \A w \in Workers : phase[w] = "idle" <=> customer[w] = NoCustomer

\* Concurrent checkouts never sell more of a row than it held: the
\* stock_quantity never goes below zero (services.py:1, "oversell-safe").
NoOversell == \A k \in Rows : stock[k] >= 0

Sold(k) == FoldFunction(+, 0, [i \in DOMAIN orders |-> orders[i].lines[k]])

\* Stock is neither lost nor created: what left a row is what the committed
\* orders hold of it, however many transactions were rolled back half way.
LedgerBalanced == \A k \in Rows : stock[k] + Sold(k) = InitialStock[k]

\* No checkouts wait for one another in a circle.  True when no product is sold
\* both with and without a variant, because rows are locked in sorted order.
NoWaitCycle == \A w \in Workers : ~OnWaitCycle(w)

\* A checkout whose cart nobody touched since it was read orders exactly what
\* the cart holds at commit and leaves it empty: nothing dropped, nothing twice.
CleanCheckout ==
  [][\A w \in Workers :
       phase[w] = "commit" /\ ~raced[w] /\ orders' # orders /\ phase'[w] = "idle"
         => /\ orders'[Len(orders')].lines = cart[customer[w]]
            /\ cart'[customer[w]] = NoLines]_vars

\* The product rows that one cart can lock as stock and another must check as
\* the product of a variant.
SoldBothWays == {p \in Shelf : \E k \in Shelf : k # p /\ Parent(k) = p}

\* A checkout is only ever a deadlock victim over a product sold both with and
\* without a variant: the variant's order must check the product row at commit,
\* out of the sorted order in which the rows were locked.
DeadlockNeedsBothWays ==
  \A w \in Workers : OnWaitCycle(w) =>
     \E v \in Workers : phase[v] = "commit" /\ Unchecked(v) \cap SoldBothWays # {}

\* Every request in progress ends, whatever the others hold.
RequestsEnd == \A w \in Workers : phase[w] # "idle" ~> phase[w] = "idle"

Ledger == INSTANCE StockLedger WITH stock <- stock, orders <- orders

\* Checkout implements the ledger: each order appears in one step, complete and
\* covered by the stock it takes, or not at all.
ImplementsLedger == Ledger!Spec
=============================================================================
