--------------------------- MODULE CheckoutProofs ---------------------------
(***************************************************************************)
(* Proofs about module Checkout, for every set of customers, workers and   *)
(* rows, every initial stock and every bound on a cart line.               *)
(***************************************************************************)
EXTENDS Checkout, RowFacts

\* The actions of Next, split once for every proof below.  A form error, missing
\* stock, a lost deadlock and a crash are one case, the rollback.
LEMMA NextCases ==
  ASSUME Next
  PROVE  \/ \E c \in Customers, k \in Shelf, q \in 0..MaxQty : CartWrite(c, k, q)
         \/ \E c \in Customers : CartClear(c)
         \/ \E c \in Customers, w \in Workers : ReadCart(w, c)
         \/ \E w \in Workers : Submit(w)
         \/ \E w \in Workers, k \in Rows : Reserve(w, k)
         \/ \E w \in Workers : WriteOrder(w)
         \/ \E w \in Workers, p \in Rows : CheckForeignKey(w, p)
         \/ \E w \in Workers : Commit(w)
         \/ \E w \in Workers : Rollback(w)
BY DEF Next, HandlerStep, RejectForm, OutOfStock, DeadlockVictim, Crash

-----------------------------------------------------------------------------
(* Every variable keeps its type.                                          *)
THEOREM TypeCorrect == Spec => []TypeOK
<1> USE CheckoutAssumption
<1>1. Init => TypeOK
  BY DEF Init, TypeOK, NoLines, Phases
<1>2. TypeOK /\ [Next]_vars => TypeOK'
  <2> SUFFICES ASSUME TypeOK, [Next]_vars PROVE TypeOK'
    OBVIOUS
  <2>1. ASSUME NEW c \in Customers, NEW k \in Shelf, NEW q \in 0..MaxQty, CartWrite(c, k, q)
        PROVE  TypeOK'
    BY <2>1 DEF TypeOK, CartWrite, Stale, jobVars
  <2>2. ASSUME NEW c \in Customers, CartClear(c) PROVE TypeOK'
    BY <2>2 DEF TypeOK, CartClear, Stale, jobVars, NoLines
  <2>3. ASSUME NEW c \in Customers, NEW w \in Workers, ReadCart(w, c) PROVE TypeOK'
    BY <2>3 DEF TypeOK, ReadCart, Phases
  <2>4. ASSUME NEW w \in Workers, Submit(w) PROVE TypeOK'
    BY <2>4 DEF TypeOK, Submit, Phases, jobVars
  <2>5. ASSUME NEW w \in Workers, NEW k \in Rows, Reserve(w, k) PROVE TypeOK'
    BY <2>5 DEF TypeOK, Reserve, Phases
  <2>6. ASSUME NEW w \in Workers, WriteOrder(w) PROVE TypeOK'
    BY <2>6 DEF TypeOK, WriteOrder, Phases, CartRows
  <2>7. ASSUME NEW w \in Workers, NEW p \in Rows, CheckForeignKey(w, p) PROVE TypeOK'
    BY <2>7 DEF TypeOK, CheckForeignKey
  <2>8. ASSUME NEW w \in Workers, Commit(w) PROVE TypeOK'
    <3>1. customer[w] \in Customers
      BY <2>8 DEF TypeOK, Commit
    <3>2. stock' \in [Rows -> Int]
      BY <2>8 DEF TypeOK, Commit
    <3>3. orders' \in Seq([customer : Customers, lines : [Rows -> 0..MaxQty]])
      BY <2>8, <3>1 DEF TypeOK, Commit
    <3>4. cart' \in [Customers -> [Rows -> 0..MaxQty]]
      BY <2>8, <3>1 DEF TypeOK, Commit
    <3>5. /\ phase' \in [Workers -> Phases]
          /\ customer' \in [Workers -> Customers \cup {NoCustomer}]
          /\ lines' \in [Workers -> [Rows -> 0..MaxQty]]
          /\ locked' \in [Workers -> SUBSET Rows]
          /\ keyShared' \in [Workers -> SUBSET Rows]
          /\ cleared' \in [Workers -> SUBSET Rows]
          /\ \A v \in Workers : phase'[v] = "idle" <=> customer'[v] = NoCustomer
      BY <2>8 DEF TypeOK, Commit, EndRequest, Phases, NoLines
    <3>6. raced' \in [Workers -> BOOLEAN]
      BY <2>8 DEF TypeOK, Commit, Stale
    <3> QED
      BY <3>2, <3>3, <3>4, <3>5, <3>6 DEF TypeOK
  <2>9. ASSUME NEW w \in Workers, Rollback(w) PROVE TypeOK'
    BY <2>9 DEF TypeOK, Rollback, EndRequest, Phases, NoLines
  <2>10. CASE UNCHANGED vars
    BY <2>10 DEF TypeOK, vars, jobVars
  <2> QED
    BY <2>1, <2>2, <2>3, <2>4, <2>5, <2>6, <2>7, <2>8, <2>9, <2>10, NextCases
<1> QED
  BY <1>1, <1>2, PTL DEF Spec

-----------------------------------------------------------------------------
(* What a worker holds in each phase of its request.                       *)
Holdings ==
  \A w \in Workers :
    /\ phase[w] # "idle" => Ordered(w) # {}
    /\ phase[w] \in {"idle", "read"} => locked[w] = {}
    /\ phase[w] \in {"write", "commit"} => locked[w] = Ordered(w)
    /\ phase[w] # "commit" => keyShared[w] = {} /\ cleared[w] = {}
    /\ locked[w] \subseteq Ordered(w)

(* A row is locked by one worker at most, and holds what that worker took. *)
Reserved ==
  /\ \A w, v \in Workers : w # v => locked[w] \cap locked[v] = {}
  /\ \A w \in Workers : \A k \in locked[w] : lines[w][k] <= stock[k]
  /\ NoOversell

(* Locks were taken in sorted order: what is still wanted comes later.     *)
SortedLocks ==
  \A w \in Workers :
    phase[w] = "reserve" => \A k \in locked[w], l \in Wanted(w) : Before(k, l)

(* Carts and requests hold only rows that are for sale.                    *)
OnShelf ==
  /\ \A c \in Customers : CartRows(c) \subseteq Shelf
  /\ \A w \in Workers : Ordered(w) \subseteq Shelf

(* What a request knows of a cart that nobody has changed since.           *)
CartUnchanged ==
  \A w \in Workers :
    phase[w] # "idle" /\ ~raced[w] =>
      /\ lines[w] = cart[customer[w]]
      /\ phase[w] = "commit" => cleared[w] = CartRows(customer[w])

(* Each phase holds the locks it should, and an idle worker holds none.    *)
THEOREM PhasesHold == Spec => []Holdings
<1> USE CheckoutAssumption
<1>1. Init => Holdings
  BY DEF Init, Holdings
<1>2. TypeOK /\ Holdings /\ [Next]_vars => Holdings'
  <2> SUFFICES ASSUME TypeOK, Holdings, [Next]_vars PROVE Holdings'
    OBVIOUS
  <2>1. ASSUME NEW c \in Customers, NEW k \in Shelf, NEW q \in 0..MaxQty, CartWrite(c, k, q)
        PROVE  Holdings'
    BY <2>1 DEF Holdings, CartWrite, jobVars, Ordered
  <2>2. ASSUME NEW c \in Customers, CartClear(c) PROVE Holdings'
    BY <2>2 DEF Holdings, CartClear, jobVars, Ordered
  <2>3. ASSUME NEW c \in Customers, NEW w \in Workers, ReadCart(w, c) PROVE Holdings'
    <3>1. Ordered(w)' = CartRows(c)
      BY <2>3 DEF TypeOK, ReadCart, Ordered, CartRows
    <3>2. \A v \in Workers \ {w} : Ordered(v)' = Ordered(v) /\ phase'[v] = phase[v]
      BY <2>3 DEF TypeOK, ReadCart, Ordered
    <3>3. CartRows(c) # {} /\ phase'[w] = "read" /\ locked[w] = {} /\ keyShared[w] = {} /\ cleared[w] = {}
      BY <2>3 DEF TypeOK, ReadCart, Holdings
    <3> QED
      BY <2>3, <3>1, <3>2, <3>3 DEF Holdings, ReadCart
  <2>4. ASSUME NEW w \in Workers, Submit(w) PROVE Holdings'
    BY <2>4 DEF TypeOK, Holdings, Submit, jobVars, Ordered
  <2>5. ASSUME NEW w \in Workers, NEW k \in Rows, Reserve(w, k) PROVE Holdings'
    <3>1. \A v \in Workers : Ordered(v)' = Ordered(v)
      BY <2>5 DEF Reserve, Ordered
    <3>2. \A v \in Workers \ {w} : locked'[v] = locked[v] /\ phase'[v] = phase[v]
      BY <2>5 DEF TypeOK, Reserve
    <3>3. locked'[w] = locked[w] \cup {k} /\ k \in Wanted(w) /\ UNCHANGED <<keyShared, cleared>>
      BY <2>5 DEF TypeOK, Reserve, NextRow
    <3>4. phase'[w] = "reserve" \/ (phase'[w] = "write" /\ Wanted(w) = {k})
      BY <2>5 DEF TypeOK, Reserve
    <3>5. phase[w] = "reserve"
      BY <2>5 DEF Reserve
    <3> QED
      BY <3>1, <3>2, <3>3, <3>4, <3>5 DEF Holdings, Wanted
  <2>6. ASSUME NEW w \in Workers, WriteOrder(w) PROVE Holdings'
    BY <2>6 DEF TypeOK, Holdings, WriteOrder, Ordered
  <2>7. ASSUME NEW w \in Workers, NEW p \in Rows, CheckForeignKey(w, p) PROVE Holdings'
    <3>1. \A v \in Workers : Ordered(v)' = Ordered(v)
      BY <2>7 DEF CheckForeignKey, Ordered
    <3>2. /\ phase[w] = "commit" /\ UNCHANGED <<phase, locked, cleared>>
          /\ \A v \in Workers \ {w} : keyShared'[v] = keyShared[v]
      BY <2>7 DEF TypeOK, CheckForeignKey
    <3> QED
      BY <3>1, <3>2 DEF Holdings
  <2>8. ASSUME NEW w \in Workers, EndRequest(w) PROVE Holdings'
    BY <2>8 DEF TypeOK, Holdings, EndRequest, Ordered, NoLines
  <2>9. CASE UNCHANGED vars
    BY <2>9 DEF Holdings, vars, jobVars, Ordered
  <2> QED
    BY <2>1, <2>2, <2>3, <2>4, <2>5, <2>6, <2>7, <2>8, <2>9, NextCases DEF Commit, Rollback
<1> QED
  BY <1>1, <1>2, TypeCorrect, PTL DEF Spec

(* No row is ever sold below zero: a decrement is committed only by the one *)
(* worker that checked the row under its lock.                              *)
THEOREM StockNeverOversold == Spec => []Reserved
<1> USE CheckoutAssumption
<1>1. Init => Reserved
  BY DEF Init, Reserved, NoOversell
<1>2. TypeOK /\ Holdings /\ Reserved /\ [Next]_vars => Reserved'
  <2> SUFFICES ASSUME TypeOK, Holdings, Reserved, [Next]_vars PROVE Reserved'
    OBVIOUS
  <2>1. ASSUME UNCHANGED <<stock, locked>>, UNCHANGED lines PROVE Reserved'
    BY <2>1 DEF Reserved, NoOversell
  <2>2. ASSUME NEW c \in Customers, NEW w \in Workers, ReadCart(w, c) PROVE Reserved'
    BY <2>2 DEF TypeOK, Holdings, Reserved, NoOversell, ReadCart
  <2>3. ASSUME NEW w \in Workers, NEW k \in Rows, Reserve(w, k) PROVE Reserved'
    BY <2>3 DEF TypeOK, Reserved, NoOversell, Reserve, UpdateConflict
  <2>4. ASSUME NEW w \in Workers, Commit(w) PROVE Reserved'
    <3>0. stock' = [k \in Rows |-> IF k \in locked[w] THEN stock[k] - lines[w][k] ELSE stock[k]]
      BY <2>4 DEF Commit
    <3>1. \A k \in Rows : stock'[k] = IF k \in locked[w] THEN stock[k] - lines[w][k] ELSE stock[k]
      BY <3>0 DEF TypeOK
    <3>2. NoOversell'
      <4> SUFFICES ASSUME NEW k \in Rows PROVE stock'[k] >= 0
        BY DEF NoOversell
      <4>1. stock[k] \in Int /\ lines[w][k] \in Int /\ stock[k] >= 0
        BY DEF TypeOK, Reserved, NoOversell
      <4>2. k \in locked[w] => lines[w][k] <= stock[k]
        BY DEF Reserved
      <4> QED
        BY <3>1, <4>1, <4>2
    <3>3. \A v \in Workers \ {w} : locked'[v] = locked[v] /\ lines'[v] = lines[v]
      BY <2>4 DEF TypeOK, Commit, EndRequest
    <3>4. locked'[w] = {}
      BY <2>4 DEF TypeOK, Commit, EndRequest
    <3>5. \A v \in Workers : \A k \in locked'[v] : lines'[v][k] <= stock'[k]
      BY <3>1, <3>3, <3>4 DEF TypeOK, Reserved
    <3> QED
      BY <3>2, <3>3, <3>4, <3>5 DEF Reserved
  <2>5. ASSUME NEW w \in Workers, Rollback(w) PROVE Reserved'
    BY <2>5 DEF TypeOK, Reserved, NoOversell, Rollback, EndRequest
  <2> QED
    BY <2>1, <2>2, <2>3, <2>4, <2>5, NextCases
    DEF CartWrite, CartClear, Submit, WriteOrder, CheckForeignKey, jobVars, vars
<1> QED
  BY <1>1, <1>2, TypeCorrect, PhasesHold, PTL DEF Spec

(* The stock_quantity of no row ever goes below zero (services.py:1).      *)
COROLLARY Oversell == Spec => []NoOversell
BY StockNeverOversold, PTL DEF Reserved

(* The units of row k in a table of orders add up order by order.          *)
Placed == [customer : Customers, lines : [Rows -> 0..MaxQty]]
UnitsOf(k) == [o \in Placed |-> o.lines[k]]

\* What was sold of a row adds up order by order.
LEMMA SoldIsTotal ==
  ASSUME TypeOK, NEW k \in Rows
  PROVE  Sold(k) = TableTotal(UnitsOf(k), orders)
<1>1. \A i \in DOMAIN orders : orders[i] \in Placed
  BY RowOfTable DEF TypeOK, Placed
<1>2. [i \in DOMAIN orders |-> UnitsOf(k)[orders[i]]] = [i \in DOMAIN orders |-> orders[i].lines[k]]
  BY <1>1 DEF UnitsOf
<1> QED
  BY <1>2, Zenon DEF Sold, TableTotal, SumOf

(* What left a row is what the committed orders hold of it: stock is       *)
(* neither lost nor created, whatever is rolled back half way.             *)
THEOREM LedgerAlwaysBalanced == Spec => []LedgerBalanced
<1> USE CheckoutAssumption
<1> DEFINE Balanced == \A k \in Rows : stock[k] + TableTotal(UnitsOf(k), orders) = InitialStock[k]
<1>1. Init => Balanced
  <2> SUFFICES ASSUME Init, NEW k \in Rows PROVE stock[k] + TableTotal(UnitsOf(k), orders) = InitialStock[k]
    OBVIOUS
  <2>1. TableTotal(UnitsOf(k), <<>>) = 0
    BY TableTotalEmpty
  <2> QED
    BY <2>1 DEF Init
<1>2. TypeOK /\ Holdings /\ Balanced /\ [Next]_vars => Balanced'
  <2> SUFFICES ASSUME TypeOK, Holdings, Balanced, [Next]_vars PROVE Balanced'
    OBVIOUS
  <2>1. ASSUME UNCHANGED <<stock, orders>> PROVE Balanced'
    BY <2>1
  <2>2. ASSUME NEW w \in Workers, Commit(w) PROVE Balanced'
    <3> SUFFICES ASSUME NEW k \in Rows PROVE (stock[k] + TableTotal(UnitsOf(k), orders) = InitialStock[k])'
      OBVIOUS
    <3> DEFINE o == [customer |-> customer[w], lines |-> lines[w]]
    <3>1. o \in [customer : Customers, lines : [Rows -> 0..MaxQty]]
      BY <2>2 DEF TypeOK, Commit
    <3>2. orders' = Append(orders, o) /\ o.lines[k] = lines[w][k]
      BY <2>2 DEF Commit
    <3>3. /\ TableTotal(UnitsOf(k), orders) \in Int
          /\ TableTotal(UnitsOf(k), orders') = TableTotal(UnitsOf(k), orders) + lines[w][k]
      <4>1. orders \in Seq(Placed) /\ o \in Placed
        BY <3>1 DEF TypeOK, Placed
      <4>2. UnitsOf(k) \in [Placed -> Int] /\ UnitsOf(k)[o] = lines[w][k]
        BY <4>1 DEF UnitsOf, Placed
      <4> HIDE DEF o
      <4> QED
        BY <3>2, <4>1, <4>2, TableTotalInt, TableTotalAppended
    <3>4. stock'[k] = stock[k] - lines[w][k]
      <4>1. stock'[k] = IF k \in locked[w] THEN stock[k] - lines[w][k] ELSE stock[k]
        BY <2>2 DEF TypeOK, Commit
      <4>2. k \notin locked[w] => lines[w][k] = 0
        BY <2>2 DEF TypeOK, Holdings, Commit, Ordered
      <4>3. stock[k] \in Int /\ lines[w][k] \in Int
        BY DEF TypeOK
      <4> QED
        BY <4>1, <4>2, <4>3
    <3>5. stock[k] \in Int /\ lines[w][k] \in Int
      BY DEF TypeOK
    <3>6. stock[k] + TableTotal(UnitsOf(k), orders) = InitialStock[k]
      OBVIOUS
    <3> QED
      BY <3>3, <3>4, <3>5, <3>6
  <2> QED
    BY <2>1, <2>2, NextCases
    DEF CartWrite, CartClear, ReadCart, Submit, Reserve, WriteOrder, CheckForeignKey,
        Rollback, vars
<1>3. TypeOK /\ Balanced => LedgerBalanced
  BY SoldIsTotal DEF LedgerBalanced
<1> QED
  BY <1>1, <1>2, <1>3, TypeCorrect, PhasesHold, PTL DEF Spec

(* Rows are locked in the sorted order of services.py:42.                  *)
THEOREM LocksSorted == Spec => []SortedLocks
<1> USE CheckoutAssumption
<1>1. Init => SortedLocks
  BY DEF Init, SortedLocks
<1>2. TypeOK /\ Holdings /\ SortedLocks /\ [Next]_vars => SortedLocks'
  <2> SUFFICES ASSUME TypeOK, Holdings, SortedLocks, [Next]_vars PROVE SortedLocks'
    OBVIOUS
  <2>1. ASSUME UNCHANGED <<phase, locked, lines>> PROVE SortedLocks'
    BY <2>1 DEF SortedLocks, Wanted, Ordered
  <2>2. ASSUME NEW c \in Customers, NEW w \in Workers, ReadCart(w, c) PROVE SortedLocks'
    BY <2>2 DEF TypeOK, SortedLocks, Wanted, Ordered, ReadCart
  <2>3. ASSUME NEW w \in Workers, Submit(w) PROVE SortedLocks'
    BY <2>3 DEF TypeOK, Holdings, SortedLocks, Wanted, Ordered, Submit, jobVars
  <2>4. ASSUME NEW w \in Workers, NEW k \in Rows, Reserve(w, k) PROVE SortedLocks'
    <3>1. \A v \in Workers \ {w} : locked'[v] = locked[v] /\ phase'[v] = phase[v]
      BY <2>4 DEF TypeOK, Reserve
    <3>2. phase[w] = "reserve" /\ locked'[w] = locked[w] \cup {k}
      BY <2>4 DEF TypeOK, Reserve
    <3>3. \A v \in Workers : Ordered(v)' = Ordered(v)
      BY <2>4 DEF Reserve, Ordered
    <3>4. \A l \in Wanted(w) : l = k \/ Before(k, l)
      BY <2>4 DEF Reserve, NextRow
    <3> QED
      BY <3>1, <3>2, <3>3, <3>4 DEF SortedLocks, Wanted
  <2>5. ASSUME NEW w \in Workers, WriteOrder(w) PROVE SortedLocks'
    BY <2>5 DEF TypeOK, SortedLocks, Wanted, Ordered, WriteOrder
  <2>6. ASSUME NEW w \in Workers, EndRequest(w) PROVE SortedLocks'
    BY <2>6 DEF TypeOK, SortedLocks, Wanted, Ordered, EndRequest
  <2> QED
    BY <2>1, <2>2, <2>3, <2>4, <2>5, <2>6, NextCases
    DEF CartWrite, CartClear, CheckForeignKey, Commit, Rollback, jobVars, vars
<1> QED
  BY <1>1, <1>2, TypeCorrect, PhasesHold, PTL DEF Spec

(* Carts and requests hold only rows that are for sale.                    *)
THEOREM StaysOnShelf == Spec => []OnShelf
<1> USE CheckoutAssumption
<1>1. Init => OnShelf
  BY DEF Init, OnShelf, CartRows, Ordered, NoLines
<1>2. TypeOK /\ OnShelf /\ [Next]_vars => OnShelf'
  <2> SUFFICES ASSUME TypeOK, OnShelf, [Next]_vars PROVE OnShelf'
    OBVIOUS
  <2>1. ASSUME UNCHANGED <<cart, lines>> PROVE OnShelf'
    BY <2>1 DEF OnShelf, CartRows, Ordered
  <2>2. ASSUME NEW c \in Customers, NEW k \in Shelf, NEW q \in 0..MaxQty, CartWrite(c, k, q)
        PROVE  OnShelf'
    BY <2>2 DEF TypeOK, OnShelf, CartRows, Ordered, CartWrite, jobVars
  <2>3. ASSUME NEW c \in Customers, CartClear(c) PROVE OnShelf'
    BY <2>3 DEF TypeOK, OnShelf, CartRows, Ordered, CartClear, jobVars, NoLines
  <2>4. ASSUME NEW c \in Customers, NEW w \in Workers, ReadCart(w, c) PROVE OnShelf'
    BY <2>4 DEF TypeOK, OnShelf, CartRows, Ordered, ReadCart
  <2>5. ASSUME NEW w \in Workers, EndRequest(w), UNCHANGED cart PROVE OnShelf'
    BY <2>5 DEF TypeOK, OnShelf, CartRows, Ordered, EndRequest, NoLines
  <2>6. ASSUME NEW w \in Workers, Commit(w) PROVE OnShelf'
    <3>1. \A c \in Customers : CartRows(c)' \subseteq CartRows(c)
      <4>1. customer[w] \in Customers
        BY <2>6 DEF TypeOK, Commit
      <4> QED
        BY <2>6, <4>1 DEF TypeOK, CartRows, Commit
    <3>2. \A v \in Workers : Ordered(v)' \subseteq Ordered(v)
      BY <2>6 DEF TypeOK, Ordered, Commit, EndRequest, NoLines
    <3> QED
      BY <3>1, <3>2 DEF OnShelf
  <2> QED
    BY <2>1, <2>2, <2>3, <2>4, <2>5, <2>6, NextCases
    DEF Submit, Reserve, WriteOrder, CheckForeignKey, Rollback, jobVars, vars
<1> QED
  BY <1>1, <1>2, TypeCorrect, PTL DEF Spec

-----------------------------------------------------------------------------
(* Every nonempty set of rows has one that the sort puts before the others. *)
LEMMA FirstRow ==
  ASSUME NEW T, T \subseteq Nat \X Nat, T # {}
  PROVE  \E k \in T : \A l \in T : ~Before(l, k)
<1>1. PICK k \in T : \A l \in T : k[1] < l[1] \/ (k[1] = l[1] /\ k[2] <= l[2])
  BY LeastPair
<1>2. ASSUME NEW l \in T PROVE ~Before(l, k)
  <2>1. l \in Nat \X Nat /\ k \in Nat \X Nat
    OBVIOUS
  <2> QED
    BY <1>1, <2>1 DEF Before
<1> QED
  BY <1>2

(* A worker at its commit waits for nobody but over a product that is sold  *)
(* both ways: the other product rows it must check are its own or in no     *)
(* cart.                                                                    *)
LEMMA CommitWaitsBothWays ==
  ASSUME TypeOK, Holdings, Reserved, OnShelf,
         NEW w \in Workers, NEW v \in Workers, phase[w] = "commit", BlockedBy(w, v)
  PROVE  Unchecked(w) \cap SoldBothWays # {}
<1>1. PICK p \in Unchecked(w) : ShareConflict(w, v, p)
  BY DEF BlockedBy
<1>2. PICK k \in Ordered(w) : p = Parent(k)
  BY DEF Unchecked
<1>3. p \in locked[v] /\ v # w
  BY <1>1 DEF ShareConflict
<1>4. k \in Shelf /\ p \in Shelf
  BY <1>3 DEF OnShelf, Holdings
<1>5. k # p
  <2> SUFFICES ASSUME k = p PROVE FALSE
    OBVIOUS
  <2>1. p \in locked[w]
    BY DEF Holdings
  <2> QED
    BY <1>3, <2>1 DEF Reserved
<1>6. p \in SoldBothWays
  BY <1>2, <1>4, <1>5 DEF SoldBothWays
<1> QED
  BY <1>6

(* On every cycle of waits a worker is at its commit and must still check a *)
(* product that is sold both ways: locks alone, taken in sorted order, make *)
(* no cycle (services.py:41-42).                                            *)
THEOREM DeadlocksNeedBothWays == Spec => []DeadlockNeedsBothWays
<1>1. TypeOK /\ Holdings /\ Reserved /\ OnShelf /\ SortedLocks => DeadlockNeedsBothWays
  <2> USE CheckoutAssumption
  <2> SUFFICES ASSUME TypeOK, Holdings, Reserved, OnShelf, SortedLocks,
                      NEW S \in SUBSET Workers, NEW next \in [S -> S], S # {},
                      \A x \in S : BlockedBy(x, next[x]),
                      \A y \in S : \E x \in S : next[x] = y,
                      \A v \in Workers : phase[v] = "commit" =>
                        Unchecked(v) \cap SoldBothWays = {}
               PROVE  FALSE
    BY DEF DeadlockNeedsBothWays, OnWaitCycle
  <2>1. \A x \in S : phase[x] # "commit"
    <3> SUFFICES ASSUME NEW x \in S, phase[x] = "commit" PROVE FALSE
      OBVIOUS
    <3> QED
      BY CommitWaitsBothWays
  <2>2. \A x \in S : phase[x] = "reserve"
    <3> SUFFICES ASSUME NEW x \in S, phase[x] = "write" PROVE FALSE
      BY <2>1 DEF BlockedBy
    <3>1. cleared[next[x]] # {}
      BY DEF BlockedBy, DeleteConflict
    <3> QED
      BY <2>1, <3>1 DEF Holdings
  <2> DEFINE Waiting == {k \in Rows : \E x \in S : NextRow(x, k)}
  <2>3. \A x \in S : \E k \in Rows : NextRow(x, k) /\ k \in locked[next[x]]
    BY <2>2 DEF BlockedBy, UpdateConflict, Holdings
  <2>4. PICK k \in Waiting : \A l \in Waiting : ~Before(l, k)
    BY <2>3, FirstRow
  <2>5. PICK y \in S : NextRow(y, k)
    OBVIOUS
  <2>6. PICK x \in S : next[x] = y
    OBVIOUS
  <2>7. PICK l \in Rows : NextRow(x, l) /\ l \in locked[y]
    BY <2>3, <2>6
  <2>8. Before(l, k)
    BY <2>2, <2>5, <2>7 DEF SortedLocks, NextRow
  <2> QED
    BY <2>4, <2>6, <2>7, <2>8
<1> QED
  BY <1>1, TypeCorrect, PhasesHold, StockNeverOversold, StaysOnShelf, LocksSorted, PTL

(* No set of checkouts can wait for one another in a circle as long as each *)
(* product is sold either by itself or by variant (services.py:41-42).      *)
THEOREM NoCheckoutDeadlock ==
  ASSUME SoldBothWays = {}
  PROVE  Spec => []NoWaitCycle
<1>1. DeadlockNeedsBothWays => NoWaitCycle
  BY DEF DeadlockNeedsBothWays, NoWaitCycle
<1> QED
  BY <1>1, DeadlocksNeedBothWays, PTL

-----------------------------------------------------------------------------
(* Checkout implements the stock ledger: the only step that shows is a      *)
(* commit, and it takes every line of one order from rows that cover it.    *)
THEOREM Refinement == Spec => ImplementsLedger
<1> USE CheckoutAssumption
<1>1. Init => Ledger!Init
  BY DEF Init, Ledger!Init
<1>2. TypeOK /\ Holdings /\ Reserved /\ [Next]_vars => [Ledger!Next]_(Ledger!ledgerVars)
  <2> SUFFICES ASSUME TypeOK, Holdings, Reserved, [Next]_vars,
                      ~UNCHANGED <<stock, orders>>
               PROVE  Ledger!Next
    BY DEF Ledger!ledgerVars
  <2>1. PICK w \in Workers : Commit(w)
    BY NextCases DEF CartWrite, CartClear, ReadCart, Submit, Reserve, WriteOrder,
                     CheckForeignKey, Rollback, vars
  <2>2. phase[w] = "commit" /\ customer[w] \in Customers /\ lines[w] \in [Rows -> 0..MaxQty]
    BY <2>1 DEF Commit, TypeOK
  <2>3. locked[w] = Ordered(w) /\ Ordered(w) # {}
    BY <2>2 DEF Holdings
  <2>4. \A k \in Rows : lines[w][k] <= stock[k]
    <3> SUFFICES ASSUME NEW k \in Rows PROVE lines[w][k] <= stock[k]
      OBVIOUS
    <3>1. stock[k] \in Int /\ stock[k] >= 0 /\ lines[w][k] \in Nat
      BY <2>2 DEF TypeOK, Reserved, NoOversell
    <3>2. k \notin locked[w] => ~(lines[w][k] > 0)
      BY <2>3 DEF Ordered
    <3>3. k \in locked[w] => lines[w][k] <= stock[k]
      BY DEF Reserved
    <3> QED
      BY <3>1, <3>2, <3>3
  <2>5. stock' = [k \in Rows |-> stock[k] - lines[w][k]]
    <3>1. stock' = [k \in Rows |-> IF k \in locked[w] THEN stock[k] - lines[w][k] ELSE stock[k]]
      BY <2>1 DEF Commit
    <3>2. ASSUME NEW k \in Rows, k \notin locked[w] PROVE stock[k] - lines[w][k] = stock[k]
      BY <2>2, <2>3, <3>2 DEF Ordered, TypeOK
    <3> QED
      BY <3>1, <3>2
  <2>6. orders' = Append(orders, [customer |-> customer[w], lines |-> lines[w]])
    BY <2>1 DEF Commit
  <2>7. Ledger!Place(customer[w], lines[w])
    BY <2>3, <2>4, <2>5, <2>6 DEF Ledger!Place, Ordered
  <2> QED
    BY <2>2, <2>7 DEF Ledger!Next
<1> QED
  BY <1>1, <1>2, TypeCorrect, PhasesHold, StockNeverOversold, PTL DEF Spec, ImplementsLedger, Ledger!Spec

(* While nobody else changes the cart, a request knows exactly what it      *)
(* holds, up to the deletion it has pending.                                *)
THEOREM CartTracked == Spec => []CartUnchanged
<1> USE CheckoutAssumption
<1>1. Init => CartUnchanged
  BY DEF Init, CartUnchanged
<1>2. TypeOK /\ CartUnchanged /\ [Next]_vars => CartUnchanged'
  <2> SUFFICES ASSUME TypeOK, CartUnchanged, [Next]_vars PROVE CartUnchanged'
    OBVIOUS
  <2>1. ASSUME UNCHANGED <<phase, customer, lines, cleared>>,
               NEW c \in Customers, raced' = Stale(c),
               \A d \in Customers \ {c} : cart'[d] = cart[d]
        PROVE  CartUnchanged'
    <3> SUFFICES ASSUME NEW w \in Workers, phase[w] # "idle", ~raced'[w]
                 PROVE  cart'[customer[w]] = cart[customer[w]] /\ ~raced[w]
      BY <2>1 DEF CartUnchanged, CartRows
    <3>1. ~raced[w] /\ customer[w] # c
      BY <2>1 DEF Stale
    <3> QED
      BY <2>1, <3>1 DEF TypeOK
  <2>2. ASSUME NEW c \in Customers, NEW k \in Shelf, NEW q \in 0..MaxQty, CartWrite(c, k, q)
        PROVE  CartUnchanged'
    BY <2>1, <2>2 DEF CartWrite, jobVars, TypeOK
  <2>3. ASSUME NEW c \in Customers, CartClear(c) PROVE CartUnchanged'
    BY <2>1, <2>3 DEF CartClear, jobVars, TypeOK
  <2>4. ASSUME NEW w \in Workers, UNCHANGED cart,
               \A v \in Workers \ {w} : /\ phase'[v] = phase[v] /\ customer'[v] = customer[v]
                                        /\ lines'[v] = lines[v] /\ cleared'[v] = cleared[v]
                                        /\ raced'[v] = raced[v],
               phase'[w] # "idle" /\ ~raced'[w] =>
                 /\ lines'[w] = cart[customer'[w]]
                 /\ phase'[w] = "commit" => cleared'[w] = CartRows(customer'[w])
        PROVE  CartUnchanged'
    BY <2>4 DEF CartUnchanged, CartRows
  <2>5. ASSUME NEW c \in Customers, NEW w \in Workers, ReadCart(w, c) PROVE CartUnchanged'
    BY <2>4, <2>5 DEF TypeOK, ReadCart
  <2>6. ASSUME NEW w \in Workers, Submit(w) PROVE CartUnchanged'
    BY <2>4, <2>6 DEF TypeOK, CartUnchanged, Submit, jobVars
  <2>7. ASSUME NEW w \in Workers, NEW k \in Rows, Reserve(w, k) PROVE CartUnchanged'
    BY <2>4, <2>7 DEF TypeOK, CartUnchanged, Reserve
  <2>8. ASSUME NEW w \in Workers, WriteOrder(w) PROVE CartUnchanged'
    BY <2>4, <2>8 DEF TypeOK, CartUnchanged, WriteOrder
  <2>9. ASSUME NEW w \in Workers, NEW p \in Rows, CheckForeignKey(w, p) PROVE CartUnchanged'
    BY <2>4, <2>9 DEF TypeOK, CartUnchanged, CheckForeignKey
  <2>10. ASSUME NEW w \in Workers, Rollback(w) PROVE CartUnchanged'
    BY <2>4, <2>10 DEF TypeOK, Rollback, EndRequest
  <2>11. ASSUME NEW w \in Workers, Commit(w) PROVE CartUnchanged'
    <3> SUFFICES ASSUME NEW v \in Workers, phase'[v] # "idle", ~raced'[v]
                 PROVE  /\ lines'[v] = cart'[customer'[v]]
                        /\ phase'[v] = "commit" => cleared'[v] = CartRows(customer[v])'
      BY DEF CartUnchanged
    <3>1. v # w
      BY <2>11 DEF TypeOK, Commit, EndRequest
    <3>2. /\ phase'[v] = phase[v] /\ customer'[v] = customer[v]
          /\ lines'[v] = lines[v] /\ cleared'[v] = cleared[v]
      BY <2>11, <3>1 DEF TypeOK, Commit, EndRequest
    <3>3. ~raced[v] /\ customer[v] # customer[w]
      BY <2>11, <3>1 DEF TypeOK, Commit, Stale
    <3>4. customer[v] \in Customers
      BY <3>2 DEF TypeOK
    <3>5. cart'[customer[v]] = cart[customer[v]]
      <4>1. cart' = [cart EXCEPT ![customer[w]] =
                       [k \in Rows |-> IF k \in cleared[w] THEN 0 ELSE cart[customer[w]][k]]]
        BY <2>11 DEF Commit
      <4> QED
        BY <3>3, <3>4, <4>1 DEF TypeOK
    <3> QED
      BY <3>2, <3>3, <3>5 DEF CartUnchanged, CartRows
  <2>12. CASE UNCHANGED vars
    BY <2>12 DEF CartUnchanged, CartRows, vars, jobVars
  <2> QED
    BY <2>2, <2>3, <2>5, <2>6, <2>7, <2>8, <2>9, <2>10, <2>11, <2>12, NextCases
<1> QED
  BY <1>1, <1>2, TypeCorrect, PTL DEF Spec

(* A checkout nobody raced orders exactly the cart it leaves empty          *)
(* (services.py:125-146).                                                   *)
THEOREM CheckoutIsClean == Spec => CleanCheckout
<1> USE CheckoutAssumption
<1>1. ASSUME TypeOK, CartUnchanged, [Next]_vars,
             NEW w \in Workers, phase[w] = "commit", ~raced[w],
             orders' # orders, phase'[w] = "idle"
      PROVE  /\ orders'[Len(orders')].lines = cart[customer[w]]
             /\ cart'[customer[w]] = NoLines
  <2>1. PICK v \in Workers : Commit(v)
    BY <1>1, NextCases DEF CartWrite, CartClear, ReadCart, Submit, Reserve, WriteOrder,
                           CheckForeignKey, Rollback, vars
  <2>2. v = w
    BY <1>1, <2>1 DEF TypeOK, Commit, EndRequest
  <2>3. orders'[Len(orders')].lines = lines[w]
    BY <1>1, <2>1, <2>2 DEF TypeOK, Commit
  <2>4. lines[w] = cart[customer[w]] /\ cleared[w] = CartRows(customer[w])
    BY <1>1 DEF CartUnchanged
  <2>5. cart'[customer[w]] = [k \in Rows |-> IF k \in cleared[w] THEN 0 ELSE cart[customer[w]][k]]
    BY <1>1, <2>1, <2>2 DEF TypeOK, Commit
  <2>6. \A k \in Rows \ CartRows(customer[w]) : cart[customer[w]][k] = 0
    BY <1>1 DEF TypeOK, CartRows
  <2> QED
    BY <2>3, <2>4, <2>5, <2>6 DEF NoLines
<1>2. TypeOK /\ CartUnchanged /\ [Next]_vars =>
        [\A w \in Workers :
           phase[w] = "commit" /\ ~raced[w] /\ orders' # orders /\ phase'[w] = "idle"
             => /\ orders'[Len(orders')].lines = cart[customer[w]]
                /\ cart'[customer[w]] = NoLines]_vars
  BY <1>1
<1> QED
  BY <1>2, TypeCorrect, CartTracked, PTL DEF Spec, CleanCheckout
=============================================================================
