--------------------------- MODULE StockRoomProofs ---------------------------
(***************************************************************************)
(* Proofs about module StockRoom, for every set of rows, carts and workers, *)
(* every initial stock and every number that staff type.                   *)
(***************************************************************************)
EXTENDS StockRoom, RowFacts, FiniteSetTheorems

(* The rows a job has locked or will lock.                                 *)
Plan(j) == j.held \cup Range(j.todo)

(* A row is locked by one worker at most, and still holds what a checkout  *)
(* took from it.                                                           *)
Reserved ==
  /\ \A w, v \in Workers : w # v => job[w].held \cap job[v].held = {}
  /\ \A w \in Workers : job[w].kind = "checkout" =>
       \A k \in job[w].held : job[w].lines[k] <= stock[k]
  /\ NoOversell

(* The rows a dashboard request gives back.                                *)
GivenBack(j) == IF GivesBack(j) THEN Ordered(j.lines) ELSE {}

(* What each kind of request works on: a checkout its lines, a cancellation *)
(* the lines it gives back, a form one product; only a checkout with all    *)
(* its rows has foreign keys checked.                                      *)
PlannedJob(j, placed) ==
  /\ j.kind = "none" => Plan(j) = {}
  /\ j.step = "open" => j.held = {}
  /\ j.kind = "checkout" => j.lines \in Carts /\ Plan(j) = Ordered(j.lines)
  /\ j.kind = "desk" =>
       /\ j.lines = placed[j.order].lines
       /\ j.step = "open" => j.todo = <<>>
       /\ j.step = "work" => Plan(j) = GivenBack(j)
  /\ j.kind = "form" => \E k \in Rows : \A l \in Plan(j) : l[1] = k[1]
  /\ j.shared # {} => j.kind = "checkout" /\ j.step = "work" /\ j.todo = <<>>

Planned == \A w \in Workers : PlannedJob(job[w], orders)

(* A checkout locks its rows in sorted order: what it still wants comes    *)
(* after everything it holds.                                              *)
SortedJob(j) ==
  j.kind = "checkout" =>
    /\ \A k \in j.held, i \in DOMAIN j.todo : Before(k, j.todo[i])
    /\ \A i, n \in DOMAIN j.todo : i < n => Before(j.todo[i], j.todo[n])

SortedLocks == \A w \in Workers : SortedJob(job[w])

(* A transaction that ends without a commit leaves nothing behind.         *)
Rollback(w) == Drop(w) /\ UNCHANGED <<stock, orders, opened>>

\* The actions of Next, split once for every proof below.  Missing stock, a lost
\* deadlock and a closed tab are one case, the rollback.
LEMMA NextCases ==
  ASSUME Next
  PROVE  \/ \E w \in Workers : StartCheckout(w)
         \/ \E w \in Workers, i \in DOMAIN orders : OpenOrder(w, i)
         \/ \E w \in Workers : OpenForm(w)
         \/ \E w \in Workers : SubmitForm(w)
         \/ \E w \in Workers : SaveOrder(w)
         \/ \E w \in Workers : WriteRow(w)
         \/ \E w \in Workers, p \in Rows : CheckForeignKey(w, p)
         \/ \E w \in Workers : Commit(w)
         \/ \E w \in Workers : Rollback(w)
BY DEF Next, Step, OutOfStock, DeadlockVictim, Abandon, Rollback

-----------------------------------------------------------------------------
(* The lists of rows that requests work through.                           *)

(* A visit of a set of rows is a list of its members, each of them on it.  *)
LEMMA VisitOfRows ==
  ASSUME NEW S \in SUBSET Rows, NEW q \in Visits(S)
  PROVE  q \in Seq(Rows) /\ Range(q) = S
<1>1. Cardinality(S) \in Nat
  BY StockRoomAssumption, FS_Subset, FS_CardinalityType
<1>2. q \in [1..Cardinality(S) -> Rows]
  BY DEF Visits
<1> QED
  BY <1>1, <1>2 DEF Visits

(* Taking the first row off a list.                                        *)
LEMMA FirstAndRest ==
  ASSUME NEW S, NEW q \in Seq(S), q # <<>>
  PROVE  /\ Head(q) \in S /\ Tail(q) \in Seq(S)
         /\ Head(q) = q[1] /\ 1 \in DOMAIN q
         /\ \A i \in DOMAIN Tail(q) : i \in Nat /\ i + 1 \in DOMAIN q /\ Tail(q)[i] = q[i + 1]
         /\ Range(q) = {Head(q)} \cup Range(Tail(q))
<1>1. Len(q) \in Nat \ {0} /\ DOMAIN q = 1..Len(q) /\ q[1] \in S /\ Head(q) = q[1]
  OBVIOUS
<1>2. /\ Tail(q) \in Seq(S) /\ Len(Tail(q)) = Len(q) - 1
      /\ \A i \in 1..(Len(q) - 1) : Tail(q)[i] = q[i + 1]
  OBVIOUS
<1>3. DOMAIN Tail(q) = 1..(Len(q) - 1)
  BY <1>1, <1>2
<1>4. \A i \in DOMAIN q : i = 1 \/ (i - 1 \in DOMAIN Tail(q) /\ Tail(q)[i - 1] = q[i])
  BY <1>1, <1>2, <1>3
<1>5. Range(q) = {Head(q)} \cup Range(Tail(q))
  <2>1. \A x \in Range(q) : x = Head(q) \/ x \in Range(Tail(q))
    BY <1>1, <1>4 DEF Range
  <2>2. Head(q) \in Range(q)
    BY <1>1 DEF Range
  <2>3. \A i \in DOMAIN Tail(q) : Tail(q)[i] \in Range(q)
    BY <1>1, <1>2, <1>3 DEF Range
  <2>4. \A x \in Range(Tail(q)) : x \in Range(q)
    BY <2>3 DEF Range
  <2> QED
    BY <2>1, <2>2, <2>4
<1> QED
  BY <1>1, <1>2, <1>3, <1>5

-----------------------------------------------------------------------------
(* Types and plans.                                                        *)

\* An empty cart is a quantity per row.
LEMMA NothingIsLines == Nothing \in [Rows -> Nat]
BY DEF Nothing

\* An idle worker is typed and has nothing planned.
LEMMA NoJobType == NoJob \in Jobs /\ Plan(NoJob) = {}
<1>1. NoJob \in Jobs
  BY NothingIsLines DEF NoJob, Jobs
<1>2. Range(<<>>) = {}
  BY DEF Range
<1> QED
  BY <1>1, <1>2 DEF Plan, NoJob

(* What a request becomes when it starts.                                  *)
LEMMA StartCheckoutJob ==
  ASSUME NEW w \in Workers, StartCheckout(w)
  PROVE  \E j \in Jobs : /\ job' = [job EXCEPT ![w] = j]
                         /\ j.kind = "checkout" /\ j.step = "work" /\ j.lines \in Carts
                         /\ j.held = {} /\ j.shared = {} /\ Range(j.todo) = Ordered(j.lines)
                         /\ j.todo \in SortedVisits(Ordered(j.lines))
<1>1. PICK cart \in Carts : \E visit \in SortedVisits(Ordered(cart)) :
        Begin(w, [NoJob EXCEPT !.kind = "checkout", !.step = "work",
                               !.lines = cart, !.todo = visit])
  BY DEF StartCheckout
<1>2. PICK visit \in SortedVisits(Ordered(cart)) :
        Begin(w, [NoJob EXCEPT !.kind = "checkout", !.step = "work",
                               !.lines = cart, !.todo = visit])
  BY <1>1
<1> DEFINE j == [NoJob EXCEPT !.kind = "checkout", !.step = "work",
                              !.lines = cart, !.todo = visit]
<1>3. cart \in [Rows -> Nat]
  BY StockRoomAssumption
<1>4. visit \in Seq(Rows) /\ Range(visit) = Ordered(cart)
  BY VisitOfRows DEF SortedVisits, Ordered
<1>5. j \in Jobs
  BY <1>3, <1>4, NoJobType DEF Jobs
<1>6. /\ j.kind = "checkout" /\ j.step = "work" /\ j.lines = cart
      /\ j.held = {} /\ j.shared = {} /\ j.todo = visit
  BY DEF NoJob
<1> QED
  BY <1>2, <1>4, <1>5, <1>6 DEF Begin

(* A dashboard request that has read order i and not acted on it yet.       *)
LooksAt(j, i) ==
  /\ j.kind = "desk" /\ j.step = "open" /\ j.order = i /\ j.lines = orders[i].lines
  /\ j.todo = <<>> /\ j.held = {} /\ j.shared = {}

\* The dashboard's look at an order: what the new job holds.
LEMMA OpenOrderJob ==
  ASSUME TypeOK, NEW w \in Workers, NEW i \in DOMAIN orders, OpenOrder(w, i)
  PROVE  \E j \in Jobs : job' = [job EXCEPT ![w] = j] /\ LooksAt(j, i)
<1>1. PICK becomes \in {"cancelled", "moved", "kept"} :
        Begin(w, [NoJob EXCEPT !.kind = "desk", !.lines = orders[i].lines, !.order = i,
                               !.was = orders[i].live, !.becomes = becomes])
  BY DEF OpenOrder
<1> DEFINE j == [NoJob EXCEPT !.kind = "desk", !.lines = orders[i].lines, !.order = i,
                              !.was = orders[i].live, !.becomes = becomes]
<1>2. i \in Nat /\ orders[i] \in [lines : Carts, live : BOOLEAN, back : Nat]
  BY RowOfTable DEF TypeOK
<1>3. j \in Jobs
  BY <1>2, NoJobType, StockRoomAssumption DEF Jobs
<1>4. LooksAt(j, i)
  BY DEF NoJob, LooksAt
<1> QED
  BY <1>1, <1>3, <1>4 DEF Begin

\* A page that was opened: its rows are those of one product.
LEMMA OpenFormJob ==
  ASSUME TypeOK, NoOversell, NEW w \in Workers, OpenForm(w)
  PROVE  \E j \in Jobs : /\ job' = [job EXCEPT ![w] = j]
                         /\ j.kind = "form" /\ j.step = "open" /\ j.held = {} /\ j.shared = {}
                         /\ \E k \in Rows : \A l \in Range(j.todo) : l[1] = k[1]
<1>1. PICK k \in Rows : \E S \in {{k}, {l \in Rows : l[1] = k[1]}} : \E visit \in FormVisits(S) :
        Begin(w, [NoJob EXCEPT !.kind = "form", !.shown = stock, !.typed = stock,
                               !.todo = visit])
  BY DEF OpenForm
<1>2. PICK S \in {{k}, {l \in Rows : l[1] = k[1]}} : \E visit \in FormVisits(S) :
        Begin(w, [NoJob EXCEPT !.kind = "form", !.shown = stock, !.typed = stock,
                               !.todo = visit])
  BY <1>1
<1>3. PICK visit \in FormVisits(S) :
        Begin(w, [NoJob EXCEPT !.kind = "form", !.shown = stock, !.typed = stock,
                               !.todo = visit])
  BY <1>2
<1> DEFINE j == [NoJob EXCEPT !.kind = "form", !.shown = stock, !.typed = stock, !.todo = visit]
<1>4. stock \in [Rows -> Nat]
  BY DEF TypeOK, NoOversell
<1>5. S \in SUBSET Rows /\ \A l \in S : l[1] = k[1]
  OBVIOUS
<1>6. visit \in Seq(Rows) /\ Range(visit) = S
  BY <1>5, VisitOfRows DEF FormVisits
<1>7. j \in Jobs
  BY <1>4, <1>6, NoJobType DEF Jobs
<1>8. j.kind = "form" /\ j.step = "open" /\ j.held = {} /\ j.shared = {} /\ j.todo = visit
  BY DEF NoJob
<1> QED
  BY <1>3, <1>5, <1>6, <1>7, <1>8 DEF Begin

(* What a request becomes when it goes on.                                 *)
LEMMA SubmitFormJob ==
  ASSUME TypeOK, NEW w \in Workers, SubmitForm(w)
  PROVE  \E j \in Jobs : /\ job' = [job EXCEPT ![w] = j]
                         /\ job[w].kind = "form" /\ job[w].step = "open"
                         /\ j.kind = "form" /\ j.step = "work" /\ j.shared = job[w].shared
                         /\ j.todo = job[w].todo /\ j.held = job[w].held
<1>1. job \in [Workers -> Jobs] /\ job[w] \in Jobs
  BY DEF TypeOK
<1>2. ASSUME NEW rekeys \in BOOLEAN,
             job' = [job EXCEPT ![w].step = "work", ![w].rekeys = rekeys]
      PROVE  \E j \in Jobs : /\ job' = [job EXCEPT ![w] = j]
                             /\ j.kind = job[w].kind /\ j.step = "work"
                             /\ j.shared = job[w].shared
                             /\ j.todo = job[w].todo /\ j.held = job[w].held
  <2> DEFINE j == [job[w] EXCEPT !.step = "work", !.rekeys = rekeys]
  <2>1. job' = [job EXCEPT ![w] = j] /\ j \in Jobs
    BY <1>1, <1>2 DEF Jobs
  <2>2. /\ j.kind = job[w].kind /\ j.step = "work" /\ j.shared = job[w].shared
        /\ j.todo = job[w].todo /\ j.held = job[w].held
    BY <1>1 DEF Jobs
  <2> QED
    BY <2>1, <2>2
<1>3. ASSUME NEW rekeys \in BOOLEAN, NEW k \in Range(job[w].todo), NEW n \in Counts,
             job' = [job EXCEPT ![w].step = "work", ![w].rekeys = rekeys, ![w].typed[k] = n]
      PROVE  \E j \in Jobs : /\ job' = [job EXCEPT ![w] = j]
                             /\ j.kind = job[w].kind /\ j.step = "work"
                             /\ j.shared = job[w].shared
                             /\ j.todo = job[w].todo /\ j.held = job[w].held
  <2> DEFINE j == [job[w] EXCEPT !.step = "work", !.rekeys = rekeys,
                                 !.typed = [job[w].typed EXCEPT ![k] = n]]
  <2>1. job' = [job EXCEPT ![w] = j]
    BY <1>1, <1>3 DEF Jobs
  <2>2. n \in Nat
    BY StockRoomAssumption
  <2>3. j \in Jobs
    BY <1>1, <2>2 DEF Jobs
  <2>4. /\ j.kind = job[w].kind /\ j.step = "work" /\ j.shared = job[w].shared
        /\ j.todo = job[w].todo /\ j.held = job[w].held
    BY <1>1 DEF Jobs
  <2> QED
    BY <2>1, <2>3, <2>4
<1> QED
  BY <1>2, <1>3 DEF SubmitForm

\* A POST on an order: the rows it will give back.
LEMMA SaveOrderJob ==
  ASSUME TypeOK, NEW w \in Workers, SaveOrder(w)
  PROVE  \E j \in Jobs : /\ job' = [job EXCEPT ![w] = j]
                         /\ job[w].kind = "desk" /\ job[w].step = "open"
                         /\ j.kind = "desk" /\ j.step = "work" /\ j.order = job[w].order
                         /\ j.lines = job[w].lines /\ j.held = job[w].held
                         /\ j.shared = job[w].shared
                         /\ Range(j.todo) = GivenBack(j)
<1>1. job \in [Workers -> Jobs] /\ job[w] \in Jobs
  BY DEF TypeOK
<1> DEFINE rows == GivenBack(job[w])
<1>2. PICK visit \in Visits(rows) : job' = [job EXCEPT ![w].step = "work", ![w].todo = visit]
  BY DEF SaveOrder, GivenBack
<1> DEFINE j == [job[w] EXCEPT !.step = "work", !.todo = visit]
<1>3. rows \in SUBSET Rows
  BY DEF GivenBack, Ordered
<1>4. visit \in Seq(Rows) /\ Range(visit) = rows
  BY <1>3, VisitOfRows
<1>5. job' = [job EXCEPT ![w] = j] /\ j \in Jobs
  BY <1>1, <1>2, <1>4 DEF Jobs
<1>6. /\ j.kind = job[w].kind /\ j.step = "work" /\ j.order = job[w].order
      /\ j.lines = job[w].lines /\ j.held = job[w].held /\ j.shared = job[w].shared
      /\ j.was = job[w].was /\ j.becomes = job[w].becomes /\ j.todo = visit
  BY <1>1 DEF Jobs
<1>7. GivenBack(j) = GivenBack(job[w])
  BY <1>6 DEF GivenBack, GivesBack, Edited
<1> QED
  BY <1>4, <1>5, <1>6, <1>7 DEF SaveOrder

\* A row written: one lock more, one row less to do, the same plan.
LEMMA WriteRowJob ==
  ASSUME TypeOK, NEW w \in Workers, WriteRow(w)
  PROVE  LET k == Head(job[w].todo)
         IN  /\ k \in Rows /\ k \in Range(job[w].todo)
             /\ \E j \in Jobs : /\ job' = [job EXCEPT ![w] = j]
                                /\ j.held = job[w].held \cup {k}
                                /\ j.todo = Tail(job[w].todo)
                                /\ Plan(j) = Plan(job[w]) /\ j.shared = job[w].shared
                                /\ j.kind = job[w].kind /\ j.step = job[w].step
                                /\ j.lines = job[w].lines /\ j.order = job[w].order
                                /\ GivenBack(j) = GivenBack(job[w])
<1>1. job \in [Workers -> Jobs] /\ job[w] \in Jobs /\ job[w].todo # <<>>
  BY DEF TypeOK, WriteRow
<1>2. job[w].todo \in Seq(Rows) /\ job[w].held \in SUBSET Rows
  BY <1>1 DEF Jobs
<1> DEFINE k == Head(job[w].todo)
           j == [job[w] EXCEPT !.held = job[w].held \cup {k}, !.todo = Tail(job[w].todo)]
<1>3. /\ k \in Rows /\ Tail(job[w].todo) \in Seq(Rows)
      /\ Range(job[w].todo) = {k} \cup Range(Tail(job[w].todo))
  BY <1>1, <1>2, FirstAndRest
<1>4. job' = [job EXCEPT ![w] = j]
  BY <1>1 DEF WriteRow, Jobs
<1>5. j \in Jobs
  BY <1>1, <1>2, <1>3 DEF Jobs
<1>6. /\ j.held = job[w].held \cup {k} /\ j.todo = Tail(job[w].todo)
      /\ j.shared = job[w].shared
      /\ j.kind = job[w].kind /\ j.step = job[w].step
      /\ j.lines = job[w].lines /\ j.order = job[w].order
      /\ j.was = job[w].was /\ j.becomes = job[w].becomes
  BY <1>1 DEF Jobs
<1>7. Plan(j) = Plan(job[w])
  BY <1>3, <1>6 DEF Plan
<1>8. GivenBack(j) = GivenBack(job[w])
  BY <1>6 DEF GivenBack, GivesBack, Edited
<1> QED
  BY <1>3, <1>4, <1>5, <1>6, <1>7, <1>8

\* A foreign key checked: one shared lock more, everything else as it was.
LEMMA CheckForeignKeyJob ==
  ASSUME TypeOK, NEW w \in Workers, NEW p \in Rows, CheckForeignKey(w, p)
  PROVE  \E j \in Jobs : /\ job' = [job EXCEPT ![w] = j]
                         /\ j.kind = "checkout" /\ j.step = "work" /\ j.todo = <<>>
                         /\ j.kind = job[w].kind /\ j.step = job[w].step
                         /\ j.todo = job[w].todo /\ j.held = job[w].held
                         /\ j.lines = job[w].lines
<1>1. job \in [Workers -> Jobs] /\ job[w] \in Jobs
  BY DEF TypeOK
<1> DEFINE j == [job[w] EXCEPT !.shared = job[w].shared \cup {p}]
<1>2. job' = [job EXCEPT ![w] = j] /\ j \in Jobs
  BY <1>1 DEF CheckForeignKey, Jobs
<1>3. /\ j.kind = job[w].kind /\ j.step = job[w].step /\ j.todo = job[w].todo
      /\ j.held = job[w].held /\ j.lines = job[w].lines
  BY <1>1 DEF Jobs
<1>4. job[w].kind = "checkout" /\ job[w].step = "work" /\ job[w].todo = <<>>
  BY DEF CheckForeignKey, Unchecked
<1> QED
  BY <1>2, <1>3, <1>4

(* Only a commit touches stock and orders.                                 *)
LEMMA QuietSteps ==
  ASSUME TypeOK, NEW w \in Workers,
         \/ StartCheckout(w) \/ (\E i \in DOMAIN orders : OpenOrder(w, i)) \/ OpenForm(w)
         \/ SubmitForm(w) \/ SaveOrder(w) \/ WriteRow(w) \/ Rollback(w)
         \/ (\E p \in Rows : CheckForeignKey(w, p))
  PROVE  stock' = stock /\ orders' = orders /\ opened' \in Nat
<1>1. opened \in Nat
  BY DEF TypeOK
<1>2. CASE StartCheckout(w)
  BY <1>1, <1>2 DEF StartCheckout
<1>3. CASE \E i \in DOMAIN orders : OpenOrder(w, i)
  <2>1. opened' = opened + 1 /\ UNCHANGED <<stock, orders>>
    BY <1>3, Zenon DEF OpenOrder
  <2> QED
    BY <1>1, <2>1
<1>4. CASE OpenForm(w)
  <2>1. opened' = opened + 1 /\ UNCHANGED <<stock, orders>>
    BY <1>4, Zenon DEF OpenForm
  <2> QED
    BY <1>1, <2>1
<1>5. CASE SubmitForm(w) \/ Rollback(w)
  BY <1>1, <1>5 DEF SubmitForm, Rollback
<1>6. CASE SaveOrder(w)
  BY <1>1, <1>6 DEF SaveOrder
<1>7. CASE WriteRow(w)
  BY <1>1, <1>7 DEF WriteRow
<1>8. CASE \E p \in Rows : CheckForeignKey(w, p)
  <2>1. UNCHANGED <<stock, orders, opened>>
    BY <1>8, Zenon DEF CheckForeignKey
  <2> QED
    BY <1>1, <2>1
<1> QED
  BY <1>2, <1>3, <1>4, <1>5, <1>6, <1>7, <1>8

(* Replacing one worker's request.                                         *)
LEMMA OneJob ==
  ASSUME TypeOK, NEW w \in Workers, NEW j \in Jobs, job' = [job EXCEPT ![w] = j]
  PROVE  /\ job' \in [Workers -> Jobs] /\ job'[w] = j
         /\ \A v \in Workers \ {w} : job'[v] = job[v]
BY DEF TypeOK

(* A commit adds an order, or notes on one that its lines came back.       *)
LEMMA OrdersAfterCommit ==
  ASSUME TypeOK, Planned, NEW w \in Workers, Commit(w)
  PROVE  /\ orders' \in Seq([lines : Carts, live : BOOLEAN, back : Nat])
         /\ \A i \in DOMAIN orders : i \in DOMAIN orders' /\ orders'[i].lines = orders[i].lines
<1> DEFINE Order == [lines : Carts, live : BOOLEAN, back : Nat]
           j == job[w]
<1>1. orders \in Seq(Order) /\ j \in Jobs
  BY DEF TypeOK
<1>2. Len(orders) \in Nat /\ DOMAIN orders = 1..Len(orders)
  BY <1>1, LenProperties
<1>3. CASE j.kind = "checkout"
  <2>1. orders' = Append(orders, NewOrder(j)) /\ NewOrder(j) \in Order
    BY <1>3 DEF Commit, NewOrder, Planned, PlannedJob
  <2> HIDE DEF Order
  <2>2. orders' \in Seq(Order) /\ Len(orders') = Len(orders) + 1
    BY <1>1, <2>1
  <2>3. \A i \in 1..Len(orders) : orders'[i] = orders[i]
    BY <1>1, <2>1
  <2>4. DOMAIN orders' = 1..Len(orders')
    BY <2>2, LenProperties
  <2> QED
    BY <1>2, <2>2, <2>3, <2>4 DEF Order
<1>4. CASE j.kind = "desk"
  <2> DEFINE i == j.order
             o == [orders[i] EXCEPT !.live = Edited(j),
                                    !.back = IF GivesBack(j) THEN @ + 1 ELSE @]
  <2>1. i \in 1..Len(orders) /\ orders[i] \in Order
    BY <1>1, <1>2, <1>4, RowOfTable DEF TypeOK
  <2>2. Edited(j) \in BOOLEAN
    BY <1>1 DEF Edited, Jobs
  <2>3. o \in Order /\ o.lines = orders[i].lines
    <3> HIDE DEF i, j
    <3>1. orders[i].back + 1 \in Nat /\ orders[i].back \in Nat
      BY <2>1
    <3> QED
      BY <2>1, <2>2, <3>1
  <2>4. orders' = [orders EXCEPT ![i] = o]
    BY <1>1, <1>4, <2>1 DEF Commit
  <2> HIDE DEF Order, o, i
  <2>5. /\ orders' \in Seq(Order) /\ Len(orders') = Len(orders)
        /\ \A n \in 1..Len(orders) : orders'[n] = IF n = i THEN o ELSE orders[n]
    BY <1>1, <2>1, <2>3, <2>4, ExceptSeq
  <2>6. DOMAIN orders' = 1..Len(orders')
    BY <2>5, LenProperties
  <2> QED
    BY <1>2, <2>3, <2>5, <2>6 DEF Order
<1>5. CASE j.kind \notin {"checkout", "desk"}
  BY <1>1, <1>5 DEF Commit
<1> QED
  BY <1>3, <1>4, <1>5

(* Every step keeps the types.                                             *)
LEMMA TypeStep == TypeOK /\ NoOversell /\ Planned /\ [Next]_vars => TypeOK'
<1> USE StockRoomAssumption
<1> SUFFICES ASSUME TypeOK, NoOversell, Planned, [Next]_vars PROVE TypeOK'
  OBVIOUS
<1>1. ASSUME NEW w \in Workers, NEW j \in Jobs, job' = [job EXCEPT ![w] = j],
             j.kind = "desk" => j.order \in DOMAIN orders,
             UNCHANGED <<stock, orders>>, opened' \in Nat
      PROVE  TypeOK'
  BY <1>1, OneJob DEF TypeOK
<1>2. ASSUME NEW w \in Workers, StartCheckout(w) PROVE TypeOK'
  BY <1>1, <1>2, StartCheckoutJob, QuietSteps
<1>3. ASSUME NEW w \in Workers, NEW i \in DOMAIN orders, OpenOrder(w, i) PROVE TypeOK'
  BY <1>1, <1>3, OpenOrderJob, QuietSteps DEF LooksAt
<1>4. ASSUME NEW w \in Workers, OpenForm(w) PROVE TypeOK'
  BY <1>1, <1>4, OpenFormJob, QuietSteps
<1>5. ASSUME NEW w \in Workers, SubmitForm(w) PROVE TypeOK'
  BY <1>1, <1>5, SubmitFormJob, QuietSteps
<1>6. ASSUME NEW w \in Workers, SaveOrder(w) PROVE TypeOK'
  <2>1. PICK j \in Jobs : job' = [job EXCEPT ![w] = j] /\ j.kind = job[w].kind /\ j.order = job[w].order
    BY <1>6, SaveOrderJob
  <2>2. UNCHANGED <<stock, orders>> /\ opened' \in Nat
    BY <1>6, QuietSteps
  <2>3. j.kind = "desk" => j.order \in DOMAIN orders
    BY <2>1 DEF TypeOK
  <2> QED
    BY <1>1, <2>1, <2>2, <2>3
<1>7. ASSUME NEW w \in Workers, WriteRow(w) PROVE TypeOK'
  <2>1. PICK j \in Jobs : job' = [job EXCEPT ![w] = j] /\ j.kind = job[w].kind /\ j.order = job[w].order
    BY <1>7, WriteRowJob
  <2>2. UNCHANGED <<stock, orders>> /\ opened' \in Nat
    BY <1>7, QuietSteps
  <2>3. j.kind = "desk" => j.order \in DOMAIN orders
    BY <2>1 DEF TypeOK
  <2> QED
    BY <1>1, <2>1, <2>2, <2>3
<1>8. ASSUME NEW w \in Workers, Commit(w) PROVE TypeOK'
  <2>1. \A k \in Rows : Pending(job[w], k) \in Int
    BY DEF TypeOK, Pending, Jobs
  <2>2. stock' \in [Rows -> Int]
    BY <1>8, <2>1 DEF Commit, TypeOK
  <2>3. /\ job' \in [Workers -> Jobs] /\ job'[w] = NoJob
        /\ \A v \in Workers \ {w} : job'[v] = job[v]
    BY <1>8, NoJobType, OneJob DEF Commit, Drop
  <2>4. \A v \in Workers : job'[v].kind = "desk" => job'[v].order \in DOMAIN orders'
    <3>1. \A v \in Workers : job[v].kind = "desk" => job[v].order \in DOMAIN orders
      BY DEF TypeOK
    <3>2. \A i \in DOMAIN orders : i \in DOMAIN orders'
      BY <1>8, OrdersAfterCommit
    <3>3. job'[w].kind # "desk"
      BY <2>3 DEF NoJob
    <3> QED
      BY <2>3, <3>1, <3>2, <3>3
  <2> QED
    BY <1>8, <2>2, <2>3, <2>4, OrdersAfterCommit DEF Commit, TypeOK
<1>9. ASSUME NEW w \in Workers, Rollback(w) PROVE TypeOK'
  BY <1>1, <1>9, NoJobType, QuietSteps DEF Rollback, Drop, NoJob
<1>10. CASE UNCHANGED vars
  BY <1>10 DEF vars, TypeOK
<1>11. ASSUME NEW w \in Workers, NEW p \in Rows, CheckForeignKey(w, p) PROVE TypeOK'
  <2>1. PICK j \in Jobs : job' = [job EXCEPT ![w] = j] /\ j.kind = "checkout"
    BY <1>11, CheckForeignKeyJob
  <2>2. UNCHANGED <<stock, orders>> /\ opened' \in Nat
    BY <1>11, QuietSteps
  <2> QED
    BY <1>1, <2>1, <2>2
<1> QED
  BY <1>2, <1>3, <1>4, <1>5, <1>6, <1>7, <1>8, <1>9, <1>10, <1>11, NextCases

(* Every step keeps the locks exclusive and what they reserve in stock.    *)
LEMMA ReservedStep == TypeOK /\ Reserved /\ Planned /\ [Next]_vars => Reserved'
<1> USE StockRoomAssumption
<1> SUFFICES ASSUME TypeOK, Reserved, Planned, [Next]_vars PROVE Reserved'
  OBVIOUS
<1>1. ASSUME NEW w \in Workers, NEW j \in Jobs, job' = [job EXCEPT ![w] = j],
             \/ j.held = {}
             \/ j.held = job[w].held /\ j.kind # "checkout"
             \/ j.held = job[w].held /\ j.kind = job[w].kind /\ j.lines = job[w].lines,
             UNCHANGED stock
      PROVE  Reserved'
  BY <1>1, OneJob DEF Reserved, NoOversell
<1>2. ASSUME NEW w \in Workers, StartCheckout(w) PROVE Reserved'
  BY <1>1, <1>2, StartCheckoutJob, QuietSteps
<1>3. ASSUME NEW w \in Workers, NEW i \in DOMAIN orders, OpenOrder(w, i) PROVE Reserved'
  <2>1. PICK j \in Jobs : job' = [job EXCEPT ![w] = j] /\ j.held = {}
    BY <1>3, OpenOrderJob DEF LooksAt
  <2>2. UNCHANGED stock
    BY <1>3, QuietSteps
  <2> QED
    BY <1>1, <2>1, <2>2
<1>4. ASSUME NEW w \in Workers, OpenForm(w) PROVE Reserved'
  BY <1>1, <1>4, OpenFormJob, QuietSteps DEF Reserved
<1>5. ASSUME NEW w \in Workers, SubmitForm(w) PROVE Reserved'
  BY <1>1, <1>5, SubmitFormJob, QuietSteps
<1>6. ASSUME NEW w \in Workers, SaveOrder(w) PROVE Reserved'
  BY <1>1, <1>6, SaveOrderJob, QuietSteps
<1>7. ASSUME NEW w \in Workers, WriteRow(w) PROVE Reserved'
  <2> DEFINE k == Head(job[w].todo)
  <2>1. PICK j \in Jobs : /\ job' = [job EXCEPT ![w] = j] /\ j.held = job[w].held \cup {k}
                          /\ j.kind = job[w].kind /\ j.lines = job[w].lines
    BY <1>7, WriteRowJob
  <2>2. job'[w] = j /\ \A v \in Workers \ {w} : job'[v] = job[v] /\ k \notin job[v].held
    BY <1>7, <2>1, OneJob DEF WriteRow, WriteConflict
  <2>3. j.kind = "checkout" => j.lines[k] <= stock[k]
    BY <1>7, <2>1 DEF WriteRow, Covers
  <2>4. stock' = stock
    BY <1>7, QuietSteps
  <2>5. ASSUME NEW u \in Workers, NEW v \in Workers, u # v
        PROVE  job'[u].held \cap job'[v].held = {}
    BY <2>1, <2>2, <2>5 DEF Reserved
  <2>6. ASSUME NEW v \in Workers, job'[v].kind = "checkout", NEW l \in job'[v].held
        PROVE  job'[v].lines[l] <= stock'[l]
    BY <2>1, <2>2, <2>3, <2>4, <2>6 DEF Reserved
  <2> QED
    BY <2>4, <2>5, <2>6 DEF Reserved, NoOversell
<1>8. ASSUME NEW w \in Workers, Commit(w) PROVE Reserved'
  <2>1. job'[w] = NoJob /\ \A v \in Workers \ {w} : job'[v] = job[v]
    BY <1>8, NoJobType, OneJob DEF Commit, Drop
  <2>2. \A k \in Rows : stock'[k] = IF k \in job[w].held THEN Pending(job[w], k) ELSE stock[k]
    BY <1>8 DEF Commit
  <2>3. job[w] \in Jobs /\ \A v \in Workers : job[v].held \subseteq Rows
    BY DEF TypeOK, Jobs
  <2>4. \A k \in job[w].held : Pending(job[w], k) >= 0
    <3> SUFFICES ASSUME NEW k \in job[w].held PROVE Pending(job[w], k) >= 0
      OBVIOUS
    <3>1. k \in Rows
      BY <2>3
    <3>2. job[w].lines[k] \in Nat /\ job[w].typed[k] \in Nat
      BY <2>3, <3>1 DEF Jobs
    <3>3. stock[k] \in Int /\ stock[k] >= 0
      BY <3>1 DEF Reserved, NoOversell, TypeOK
    <3>4. job[w].kind = "checkout" => job[w].lines[k] <= stock[k]
      BY DEF Reserved
    <3> QED
      BY <3>2, <3>3, <3>4 DEF Pending
  <2>5. NoOversell'
    BY <2>2, <2>4 DEF Reserved, NoOversell
  <2>6. \A v \in Workers \ {w} : \A k \in job[v].held : stock'[k] = stock[k]
    BY <2>2, <2>3 DEF Reserved
  <2> QED
    BY <2>1, <2>5, <2>6 DEF Reserved, NoJob
<1>9. ASSUME NEW w \in Workers, Rollback(w) PROVE Reserved'
  BY <1>1, <1>9, NoJobType, QuietSteps DEF Rollback, Drop, NoJob
<1>10. CASE UNCHANGED vars
  BY <1>10 DEF vars, Reserved, NoOversell
<1>11. ASSUME NEW w \in Workers, NEW p \in Rows, CheckForeignKey(w, p) PROVE Reserved'
  <2>1. PICK j \in Jobs : /\ job' = [job EXCEPT ![w] = j]
                          /\ j.held = job[w].held /\ j.kind = job[w].kind
                          /\ j.lines = job[w].lines
    BY <1>11, CheckForeignKeyJob
  <2>2. UNCHANGED stock
    BY <1>11, QuietSteps
  <2> QED
    BY <1>1, <2>1, <2>2
<1> QED
  BY <1>2, <1>3, <1>4, <1>5, <1>6, <1>7, <1>8, <1>9, <1>10, <1>11, NextCases

\* An idle worker agrees with whatever has been placed.
LEMMA IdlePlan == ASSUME NEW placed PROVE PlannedJob(NoJob, placed)
<1>1. Plan(NoJob) = {}
  BY NoJobType
<1>2. NoJob.kind = "none" /\ NoJob.held = {} /\ NoJob.shared = {}
  BY DEF NoJob
<1> HIDE DEF NoJob
<1> QED
  BY <1>1, <1>2 DEF PlannedJob

(* Every step keeps each request to its plan.                              *)
LEMMA PlannedStep == TypeOK /\ NoOversell /\ Planned /\ [Next]_vars => Planned'
<1> USE StockRoomAssumption
<1> SUFFICES ASSUME TypeOK, NoOversell, Planned, [Next]_vars PROVE Planned'
  OBVIOUS
<1>1. ASSUME NEW w \in Workers, NEW j \in Jobs, job' = [job EXCEPT ![w] = j],
             PlannedJob(j, orders), UNCHANGED orders
      PROVE  Planned'
  BY <1>1, OneJob DEF Planned
<1>2. ASSUME NEW w \in Workers, StartCheckout(w) PROVE Planned'
  <2>1. PICK j \in Jobs : /\ job' = [job EXCEPT ![w] = j]
                          /\ j.kind = "checkout" /\ j.step = "work" /\ j.lines \in Carts
                          /\ j.held = {} /\ j.shared = {} /\ Range(j.todo) = Ordered(j.lines)
    BY <1>2, StartCheckoutJob
  <2>2. PlannedJob(j, orders)
    BY <2>1 DEF PlannedJob, Plan
  <2> QED
    BY <1>1, <1>2, <2>1, <2>2, QuietSteps
<1>3. ASSUME NEW w \in Workers, NEW i \in DOMAIN orders, OpenOrder(w, i) PROVE Planned'
  <2>1. PICK j \in Jobs : job' = [job EXCEPT ![w] = j] /\ LooksAt(j, i)
    BY <1>3, OpenOrderJob
  <2>2. PlannedJob(j, orders)
    BY <2>1 DEF PlannedJob, LooksAt
  <2>3. UNCHANGED orders
    BY <1>3, QuietSteps
  <2> QED
    BY <1>1, <2>1, <2>2, <2>3
<1>4. ASSUME NEW w \in Workers, OpenForm(w) PROVE Planned'
  <2>1. PICK j \in Jobs : /\ job' = [job EXCEPT ![w] = j]
                          /\ j.kind = "form" /\ j.step = "open" /\ j.held = {} /\ j.shared = {}
                          /\ \E k \in Rows : \A l \in Range(j.todo) : l[1] = k[1]
    BY <1>4, OpenFormJob
  <2>2. PlannedJob(j, orders)
    BY <2>1 DEF PlannedJob, Plan
  <2> QED
    BY <1>1, <1>4, <2>1, <2>2, QuietSteps
<1>5. ASSUME NEW w \in Workers, SubmitForm(w) PROVE Planned'
  <2>1. PICK j \in Jobs : /\ job' = [job EXCEPT ![w] = j]
                          /\ job[w].kind = "form" /\ j.kind = "form" /\ j.step = "work"
                          /\ j.shared = job[w].shared
                          /\ j.todo = job[w].todo /\ j.held = job[w].held
    BY <1>5, SubmitFormJob
  <2>2. PlannedJob(j, orders)
    BY <2>1 DEF Planned, PlannedJob, Plan
  <2> QED
    BY <1>1, <1>5, <2>1, <2>2, QuietSteps
<1>6. ASSUME NEW w \in Workers, SaveOrder(w) PROVE Planned'
  <2>1. PICK j \in Jobs : /\ job' = [job EXCEPT ![w] = j]
                          /\ job[w].kind = "desk" /\ job[w].step = "open"
                          /\ j.kind = "desk" /\ j.step = "work" /\ j.order = job[w].order
                          /\ j.lines = job[w].lines /\ j.held = job[w].held
                          /\ j.shared = job[w].shared
                          /\ Range(j.todo) = GivenBack(j)
    BY <1>6, SaveOrderJob
  <2>2. PlannedJob(j, orders)
    BY <2>1 DEF Planned, PlannedJob, Plan
  <2> QED
    BY <1>1, <1>6, <2>1, <2>2, QuietSteps
<1>7. ASSUME NEW w \in Workers, WriteRow(w) PROVE Planned'
  <2>1. PICK j \in Jobs : /\ job' = [job EXCEPT ![w] = j]
                          /\ Plan(j) = Plan(job[w]) /\ j.shared = job[w].shared
                          /\ j.kind = job[w].kind /\ j.step = job[w].step
                          /\ j.lines = job[w].lines /\ j.order = job[w].order
                          /\ GivenBack(j) = GivenBack(job[w])
    BY <1>7, WriteRowJob
  <2>2. j.step = "work"
    BY <1>7, <2>1 DEF WriteRow
  <2>3. PlannedJob(j, orders)
    <3>1. PlannedJob(job[w], orders)
      BY DEF Planned
    <3>2. j.kind = "desk" => j.lines = orders[j.order].lines /\ Plan(j) = GivenBack(j)
      BY <2>1, <2>2, <3>1 DEF PlannedJob
    <3>3. j.kind = "form" => \E k \in Rows : \A l \in Plan(j) : l[1] = k[1]
      BY <2>1, <3>1, Zenon DEF PlannedJob
    <3>4. j.kind = "none" => Plan(j) = {}
      BY <2>1, <3>1, Zenon DEF PlannedJob
    <3>5. j.kind = "checkout" => j.lines \in Carts /\ Plan(j) = Ordered(j.lines)
      BY <2>1, <3>1 DEF PlannedJob
    <3>6. j.shared = {}
      BY <1>7, <2>1, <3>1 DEF WriteRow, PlannedJob
    <3> QED
      BY <2>2, <3>2, <3>3, <3>4, <3>5, <3>6 DEF PlannedJob
  <2> QED
    BY <1>1, <1>7, <2>1, <2>3, QuietSteps
<1>8. ASSUME NEW w \in Workers, Commit(w) PROVE Planned'
  <2>1. job'[w] = NoJob /\ \A v \in Workers \ {w} : job'[v] = job[v]
    BY <1>8, NoJobType, OneJob DEF Commit, Drop
  <2>2. \A i \in DOMAIN orders : orders'[i].lines = orders[i].lines
    BY <1>8, OrdersAfterCommit
  <2>3. \A v \in Workers : job[v].kind = "desk" => job[v].order \in DOMAIN orders
    BY DEF TypeOK
  <2>4. PlannedJob(NoJob, orders')
    BY IdlePlan
  <2>5. \A v \in Workers \ {w} : PlannedJob(job[v], orders')
    BY <2>2, <2>3 DEF Planned, PlannedJob
  <2> QED
    BY <2>1, <2>4, <2>5 DEF Planned
<1>9. ASSUME NEW w \in Workers, Rollback(w) PROVE Planned'
  <2>1. PlannedJob(NoJob, orders) /\ NoJob \in Jobs
    BY NoJobType, IdlePlan
  <2> QED
    BY <1>1, <1>9, <2>1 DEF Rollback, Drop
<1>10. CASE UNCHANGED vars
  BY <1>10 DEF vars, Planned
<1>11. ASSUME NEW w \in Workers, NEW p \in Rows, CheckForeignKey(w, p) PROVE Planned'
  <2>1. PICK j \in Jobs : /\ job' = [job EXCEPT ![w] = j]
                          /\ j.kind = "checkout" /\ j.step = "work" /\ j.todo = <<>>
                          /\ j.kind = job[w].kind /\ j.todo = job[w].todo
                          /\ j.held = job[w].held /\ j.lines = job[w].lines
    BY <1>11, CheckForeignKeyJob
  <2>2. PlannedJob(j, orders)
    BY <2>1 DEF Planned, PlannedJob, Plan
  <2> QED
    BY <1>1, <1>11, <2>1, <2>2, QuietSteps
<1> QED
  BY <1>2, <1>3, <1>4, <1>5, <1>6, <1>7, <1>8, <1>9, <1>10, <1>11, NextCases

IInv == TypeOK /\ Reserved /\ Planned

(* The rows are typed, no two requests share a lock, and each request works *)
(* on what it read.                                                        *)
THEOREM Invariance == Spec => []IInv
<1>1. Init => IInv
  <2> SUFFICES ASSUME Init PROVE IInv
    OBVIOUS
  <2>1. \A w \in Workers : job[w] = NoJob
    BY DEF Init
  <2>2. TypeOK
    BY NoJobType, StockRoomAssumption DEF Init, TypeOK, NoJob
  <2>3. Reserved
    BY <2>1, StockRoomAssumption DEF Reserved, NoOversell, NoJob, Init
  <2>4. Planned
    BY <2>1, IdlePlan DEF Planned
  <2> QED
    BY <2>2, <2>3, <2>4 DEF IInv
<1>2. IInv /\ [Next]_vars => IInv'
  BY TypeStep, ReservedStep, PlannedStep DEF IInv, Reserved
<1> QED
  BY <1>1, <1>2, PTL DEF Spec

(* Every variable keeps its type.                                          *)
THEOREM TypeCorrect == Spec => []TypeOK
BY Invariance, PTL DEF IInv

(* Checkouts, cancellations and edits together never sell more of a row    *)
(* than it holds (services.py:53).                                         *)
THEOREM StockNeverOversold == Spec => []NoOversell
<1>1. IInv => NoOversell
  BY DEF IInv, Reserved
<1> QED
  BY <1>1, Invariance, PTL

-----------------------------------------------------------------------------
(* Locks in sorted order.                                                  *)

\* Whatever row a checkout still wants comes, in the order it sorts by, after
\* every row it holds (services.py:42).
THEOREM LocksSorted == Spec => []SortedLocks
<1> USE StockRoomAssumption
<1>1. Init => SortedLocks
  BY DEF Init, SortedLocks, SortedJob, NoJob
<1>2. TypeOK /\ NoOversell /\ SortedLocks /\ [Next]_vars => SortedLocks'
  <2> SUFFICES ASSUME TypeOK, NoOversell, SortedLocks, [Next]_vars PROVE SortedLocks'
    OBVIOUS
  <2>1. ASSUME NEW w \in Workers, NEW j \in Jobs, job' = [job EXCEPT ![w] = j], SortedJob(j)
        PROVE  SortedLocks'
    BY <2>1, OneJob DEF SortedLocks
  <2>2. ASSUME NEW w \in Workers, NEW j \in Jobs, job' = [job EXCEPT ![w] = j],
               j.kind # "checkout"
        PROVE  SortedLocks'
    BY <2>1, <2>2 DEF SortedJob
  <2>3. ASSUME NEW w \in Workers, StartCheckout(w) PROVE SortedLocks'
    <3>1. PICK j \in Jobs : /\ job' = [job EXCEPT ![w] = j] /\ j.held = {}
                            /\ j.todo \in SortedVisits(Ordered(j.lines))
      BY <2>3, StartCheckoutJob
    <3>2. SortedJob(j)
      BY <3>1 DEF SortedJob, SortedVisits
    <3> QED
      BY <2>1, <3>1, <3>2
  <2>4. ASSUME NEW w \in Workers, NEW i \in DOMAIN orders, OpenOrder(w, i) PROVE SortedLocks'
    <3>1. PICK j \in Jobs : job' = [job EXCEPT ![w] = j] /\ j.kind = "desk"
      BY <2>4, OpenOrderJob DEF LooksAt
    <3> QED
      BY <2>2, <3>1
  <2>5. ASSUME NEW w \in Workers, OpenForm(w) PROVE SortedLocks'
    <3>1. PICK j \in Jobs : job' = [job EXCEPT ![w] = j] /\ j.kind = "form"
      BY <2>5, OpenFormJob
    <3> QED
      BY <2>2, <3>1
  <2>6. ASSUME NEW w \in Workers, SubmitForm(w) PROVE SortedLocks'
    <3>1. PICK j \in Jobs : job' = [job EXCEPT ![w] = j] /\ j.kind = "form"
      BY <2>6, SubmitFormJob
    <3> QED
      BY <2>2, <3>1
  <2>7. ASSUME NEW w \in Workers, SaveOrder(w) PROVE SortedLocks'
    <3>1. PICK j \in Jobs : job' = [job EXCEPT ![w] = j] /\ j.kind = "desk"
      BY <2>7, SaveOrderJob
    <3> QED
      BY <2>2, <3>1
  <2>8. ASSUME NEW w \in Workers, WriteRow(w) PROVE SortedLocks'
    <3> DEFINE todo == job[w].todo
    <3>1. PICK j \in Jobs : /\ job' = [job EXCEPT ![w] = j] /\ j.kind = job[w].kind
                            /\ j.held = job[w].held \cup {Head(todo)}
                            /\ j.todo = Tail(todo)
      BY <2>8, WriteRowJob
    <3>2. todo \in Seq(Rows) /\ todo # <<>>
      BY <2>8 DEF WriteRow, TypeOK, Jobs
    <3>3. /\ Head(todo) = todo[1] /\ 1 \in DOMAIN todo
          /\ \A i \in DOMAIN Tail(todo) : i \in Nat /\ i + 1 \in DOMAIN todo
                                         /\ Tail(todo)[i] = todo[i + 1]
      BY <3>2, FirstAndRest
    <3>4. SortedJob(job[w])
      BY DEF SortedLocks
    <3>5. \A i \in DOMAIN Tail(todo) : i \in Nat /\ i # 0
      <4> DEFINE rest == Tail(todo)
      <4>1. rest \in Seq(Rows)
        BY <3>2, FirstAndRest
      <4> HIDE DEF rest
      <4>2. DOMAIN rest = 1..Len(rest) /\ Len(rest) \in Nat
        BY <4>1, LenProperties
      <4>3. \A i \in DOMAIN rest : i \in Nat /\ i # 0
        BY <4>2
      <4> QED
        BY <4>3 DEF rest
    <3> SUFFICES ASSUME j.kind = "checkout"
                 PROVE  /\ \A k \in j.held, i \in DOMAIN j.todo : Before(k, j.todo[i])
                        /\ \A i, n \in DOMAIN j.todo : i < n => Before(j.todo[i], j.todo[n])
      BY <2>1, <3>1 DEF SortedJob
    <3>6. /\ \A k \in job[w].held, i \in DOMAIN todo : Before(k, todo[i])
          /\ \A i, n \in DOMAIN todo : i < n => Before(todo[i], todo[n])
      BY <3>1, <3>4 DEF SortedJob
    <3> HIDE DEF todo
    <3>7. ASSUME NEW k \in j.held, NEW i \in DOMAIN j.todo PROVE Before(k, j.todo[i])
      <4>1. k \in job[w].held \/ k = todo[1]
        BY <3>1, <3>3
      <4>2. i + 1 \in DOMAIN todo /\ j.todo[i] = todo[i + 1] /\ 1 < i + 1
        BY <3>1, <3>3, <3>5
      <4> QED
        BY <3>3, <3>6, <4>1, <4>2
    <3>8. ASSUME NEW i \in DOMAIN j.todo, NEW n \in DOMAIN j.todo, i < n
          PROVE  Before(j.todo[i], j.todo[n])
      <4>1. /\ i + 1 \in DOMAIN todo /\ j.todo[i] = todo[i + 1]
            /\ n + 1 \in DOMAIN todo /\ j.todo[n] = todo[n + 1]
            /\ i + 1 < n + 1
        BY <3>1, <3>3, <3>8
      <4> QED
        BY <3>6, <4>1
    <3> QED
      BY <3>7, <3>8
  <2>9. ASSUME NEW w \in Workers, Drop(w) PROVE SortedLocks'
    BY <2>2, <2>9, NoJobType DEF Drop, NoJob
  <2>10. CASE UNCHANGED vars
    BY <2>10 DEF vars, SortedLocks
  <2>11. ASSUME NEW w \in Workers, NEW p \in Rows, CheckForeignKey(w, p) PROVE SortedLocks'
    <3>1. PICK j \in Jobs : /\ job' = [job EXCEPT ![w] = j] /\ j.kind = job[w].kind
                            /\ j.todo = job[w].todo /\ j.held = job[w].held
      BY <2>11, CheckForeignKeyJob
    <3>2. SortedJob(j)
      BY <3>1 DEF SortedLocks, SortedJob
    <3> QED
      BY <2>1, <3>1, <3>2
  <2> QED
    BY <2>3, <2>4, <2>5, <2>6, <2>7, <2>8, <2>9, <2>10, <2>11, NextCases DEF Commit, Rollback
<1> QED
  BY <1>1, <1>2, TypeCorrect, StockNeverOversold, PTL DEF Spec

(* A checkout that waits for another at its commit waits over a product that *)
(* is sold both ways: the other product rows it must check are its own or in *)
(* no cart.                                                                  *)
LEMMA CommitWaitsBothWays ==
  ASSUME IInv, NEW w \in Workers, NEW v \in Workers, BlockedBy(w, v),
         job[w].kind = "checkout", job[v].kind = "checkout", job[w].todo = <<>>
  PROVE  Unchecked(job[w]) \cap SoldBothWays # {}
<1> DEFINE Sold == UNION {Ordered(cart) : cart \in Carts}
<1>1. PICK p \in Unchecked(job[w]) : CheckConflict(w, v, p)
  BY DEF BlockedBy
<1>2. PICK k \in Ordered(job[w].lines) : p = Parent(k)
  BY <1>1 DEF Unchecked
<1>3. p \in job[v].held /\ v # w
  BY <1>1 DEF CheckConflict
<1>4. PlannedJob(job[w], orders) /\ PlannedJob(job[v], orders)
  BY DEF IInv, Planned
<1>5. job[w].held = Ordered(job[w].lines) /\ job[w].lines \in Carts
  <2>1. Range(<<>>) = {}
    BY DEF Range
  <2> QED
    BY <1>4, <2>1 DEF PlannedJob, Plan
<1>6. p \in Ordered(job[v].lines) /\ job[v].lines \in Carts
  BY <1>3, <1>4 DEF PlannedJob, Plan
<1>7. k \in Sold /\ p \in Sold
  BY <1>5, <1>6
<1>8. k # p
  BY <1>3, <1>5 DEF IInv, Reserved
<1>9. p \in SoldBothWays
  BY <1>2, <1>7, <1>8 DEF SoldBothWays
<1> QED
  BY <1>1, <1>9

(* On every cycle of waits there is a cancellation, an edit (dashboard.py:747, *)
(* :501), or a checkout at its commit that must still check a product sold    *)
(* both ways.                                                                 *)
THEOREM CyclesAlwaysExplained == Spec => []CyclesExplained
<1>1. IInv /\ SortedLocks => CyclesExplained
  <2> SUFFICES ASSUME IInv, SortedLocks,
                      NEW S \in SUBSET Workers, S # {},
                      \A x \in S : \E y \in S : BlockedBy(x, y),
                      \A y \in S : \E x \in S : BlockedBy(x, y),
                      \A v \in Workers : OnWaitCycle(v) =>
                        /\ job[v].kind = "checkout"
                        /\ job[v].todo = <<>> => Unchecked(job[v]) \cap SoldBothWays = {}
               PROVE  FALSE
    BY DEF CyclesExplained, OnWaitCycle
  <2>1. \A x \in S : OnWaitCycle(x)
    BY DEF OnWaitCycle
  <2>2. \A x \in S : job[x].kind = "checkout" /\ job[x].todo # <<>>
    <3> SUFFICES ASSUME NEW x \in S, job[x].todo = <<>> PROVE FALSE
      BY <2>1
    <3>1. PICK y \in S : BlockedBy(x, y)
      OBVIOUS
    <3> QED
      BY <2>1, <3>1, CommitWaitsBothWays
  <2>3. ASSUME NEW x \in S
        PROVE  /\ Head(job[x].todo) \in Rows
               /\ 1 \in DOMAIN job[x].todo /\ Head(job[x].todo) = job[x].todo[1]
    <3>1. job[x].todo \in Seq(Rows) /\ job[x].todo # <<>>
      BY <2>2 DEF IInv, TypeOK, Jobs
    <3> QED
      BY <3>1, FirstAndRest
  <2> DEFINE Waiting == {Head(job[x].todo) : x \in S}
  <2>4. Waiting \subseteq Nat \X Nat /\ Waiting # {}
    BY <2>3, StockRoomAssumption
  <2>5. PICK k \in Waiting : \A l \in Waiting : k[1] < l[1] \/ (k[1] = l[1] /\ k[2] <= l[2])
    <3> HIDE DEF Waiting
    <3> QED
      BY <2>4, LeastPair
  <2>6. PICK y \in S : k = Head(job[y].todo)
    OBVIOUS
  <2>7. PICK x \in S : BlockedBy(x, y)
    OBVIOUS
  <2> DEFINE l == Head(job[x].todo)
  <2>8. l \in job[y].held
    <3>1. job[y].shared = {}
      BY <2>2 DEF IInv, Planned, PlannedJob
    <3> QED
      BY <2>2, <2>7, <3>1 DEF BlockedBy, WriteConflict
  <2>9. Before(l, k)
    BY <2>2, <2>3, <2>6, <2>8 DEF SortedLocks, SortedJob
  <2>10. l \in Waiting
    OBVIOUS
  <2>11. k[1] < l[1] \/ (k[1] = l[1] /\ k[2] <= l[2])
    BY <2>5, <2>10
  <2>12. k \in Nat \X Nat /\ l \in Nat \X Nat
    BY <2>4, <2>10
  <2> HIDE DEF l
  <2> QED
    BY <2>9, <2>11, <2>12 DEF Before
<1> QED
  BY <1>1, Invariance, LocksSorted, PTL

(* Where each product is sold either by itself or by variant, checkouts alone *)
(* never deadlock: every cycle of waits needs a cancellation or an edit.      *)
COROLLARY CyclesNeedStaff ==
  ASSUME SoldBothWays = {}
  PROVE  Spec => [](\A w \in Workers : OnWaitCycle(w) =>
                     \E v \in Workers : OnWaitCycle(v) /\ job[v].kind # "checkout")
<1>1. CyclesExplained => \A w \in Workers : OnWaitCycle(w) =>
                           \E v \in Workers : OnWaitCycle(v) /\ job[v].kind # "checkout"
  BY DEF CyclesExplained
<1> QED
  BY <1>1, CyclesAlwaysExplained, PTL

-----------------------------------------------------------------------------
(* StockRoom implements the Inventory.                                     *)

(* A commit is an order, a return or a count of one product, whole and at  *)
(* once, whatever the other requests have locked.                          *)
LEMMA CommitShows ==
  ASSUME IInv, NEW w \in Workers, Commit(w)
  PROVE  [Room!Next]_(Room!inventoryVars)
<1> USE StockRoomAssumption
<1> DEFINE j == job[w]
           view(o) == [lines |-> o.lines, back |-> o.back]
           before == [i \in DOMAIN orders |-> view(orders[i])]
           after == [i \in DOMAIN orders' |-> view(orders'[i])]
           Order == [lines : Carts, live : BOOLEAN, back : Nat]
<1>1. TypeOK /\ Reserved /\ NoOversell /\ PlannedJob(j, orders) /\ j \in Jobs
  BY DEF IInv, Planned, Reserved, TypeOK
<1>2. j.step = "work" /\ j.todo = <<>> /\ j.held = Plan(j) /\ j.held \subseteq Rows
  BY <1>1 DEF Commit, Plan, Jobs, Range
<1>3. stock' = [k \in Rows |-> IF k \in j.held THEN Pending(j, k) ELSE stock[k]]
  BY DEF Commit
<1>4. stock \in [Rows -> Nat] /\ j.lines \in [Rows -> Nat] /\ j.typed \in [Rows -> Nat]
  BY <1>1 DEF TypeOK, NoOversell, Jobs
<1>5. orders \in Seq(Order) /\ Len(orders) \in Nat /\ DOMAIN orders = 1..Len(orders)
  BY <1>1, LenProperties DEF TypeOK
<1>6. CASE j.kind = "checkout"
  <2>1. j.lines \in Carts /\ j.held = Ordered(j.lines)
    BY <1>1, <1>2, <1>6 DEF PlannedJob
  <2>2. \A k \in Rows : j.lines[k] <= stock[k]
    <3> SUFFICES ASSUME NEW k \in Rows PROVE j.lines[k] <= stock[k]
      OBVIOUS
    <3>1. k \in j.held => j.lines[k] <= stock[k]
      BY <1>1, <1>6 DEF Reserved
    <3>2. k \notin j.held => ~(j.lines[k] > 0)
      BY <2>1 DEF Ordered
    <3>3. stock[k] \in Nat /\ j.lines[k] \in Nat
      BY <1>4
    <3> QED
      BY <3>1, <3>2, <3>3
  <2>3. stock' = [k \in Rows |-> stock[k] - j.lines[k]]
    <3>1. ASSUME NEW k \in Rows PROVE stock'[k] = stock[k] - j.lines[k]
      <4>1. k \in j.held => Pending(j, k) = stock[k] - j.lines[k]
        BY <1>6 DEF Pending
      <4>2. k \notin j.held => j.lines[k] = 0
        BY <1>4, <2>1 DEF Ordered
      <4> QED
        BY <1>3, <1>4, <4>1, <4>2
    <3> QED
      BY <1>3, <3>1
  <2>4. after = Append(before, [lines |-> j.lines, back |-> 0])
    <3> DEFINE View == [lines : Carts, back : Nat]
    <3>1. orders' = Append(orders, NewOrder(j)) /\ NewOrder(j) \in Order
      BY <1>6, <2>1 DEF Commit, NewOrder
    <3>2. view(NewOrder(j)) = [lines |-> j.lines, back |-> 0]
      BY DEF NewOrder
    <3>3. before \in Seq(View) /\ Len(before) = Len(orders)
      <4>1. \A i \in 1..Len(orders) : orders[i] \in Order
        <5> HIDE DEF Order
        <5> QED
          BY <1>5
      <4>2. \A i \in 1..Len(orders) : view(orders[i]) \in View
        BY <4>1
      <4>3. before \in [1..Len(orders) -> View]
        <5> HIDE DEF View, view
        <5> QED
          BY <1>5, <4>2
      <4> HIDE DEF View, before
      <4> QED
        BY <1>5, <4>3, TableOfRows
    <3>4. orders' \in Seq(Order) /\ DOMAIN orders' = 1..(Len(orders) + 1)
      BY <1>5, <3>1
    <3>5. \A i \in 1..(Len(orders) + 1) :
             orders'[i] = IF i = Len(orders) + 1 THEN NewOrder(j) ELSE orders[i]
      BY <1>5, <3>1
    <3> DEFINE appended == Append(before, view(NewOrder(j)))
    <3>6. DOMAIN appended = 1..(Len(orders) + 1)
      BY <1>5, <3>3
    <3>7. \A i \in 1..(Len(orders) + 1) :
             appended[i] = IF i = Len(orders) + 1 THEN view(NewOrder(j)) ELSE before[i]
      BY <1>5, <3>3
    <3>8. \A i \in 1..(Len(orders) + 1) : after[i] = appended[i]
      <4> SUFFICES ASSUME NEW i \in 1..(Len(orders) + 1) PROVE after[i] = appended[i]
        OBVIOUS
      <4>1. after[i] = view(orders'[i])
        BY <3>4
      <4>2. CASE i = Len(orders) + 1
        BY <3>5, <3>7, <4>1, <4>2
      <4>3. CASE i # Len(orders) + 1
        <5>1. i \in DOMAIN orders
          BY <1>5, <4>3
        <5>2. appended[i] = view(orders[i])
          BY <3>7, <4>3, <5>1
        <5>3. orders'[i] = orders[i]
          BY <3>5, <4>3
        <5> QED
          BY <4>1, <5>2, <5>3
      <4> QED
        BY <4>2, <4>3
    <3>9. after = appended
      <4>1. DOMAIN after = 1..(Len(orders) + 1)
        BY <3>4
      <4>2. appended = [i \in DOMAIN appended |-> appended[i]]
        <5>1. appended \in Seq(View)
          <6>1. view(NewOrder(j)) \in View
            BY <2>1, <3>2
          <6> HIDE DEF View, before, view
          <6> QED
            BY <3>3, <6>1
        <5> HIDE DEF appended, View
        <5> QED
          BY <5>1
      <4> HIDE DEF appended
      <4> QED
        BY <3>6, <3>8, <4>1, <4>2
    <3> QED
      BY <3>2, <3>9
  <2> QED
    BY <2>1, <2>2, <2>3, <2>4 DEF Room!Next, Room!Place
<1>7. CASE j.kind = "desk"
  <2> DEFINE i == j.order
  <2>1. i \in DOMAIN orders /\ i \in 1..Len(orders) /\ orders[i] \in Order /\ j.lines = orders[i].lines
    <3>1. i \in DOMAIN orders
      BY <1>1, <1>7 DEF TypeOK
    <3>2. j.lines = orders[i].lines
      BY <1>1, <1>7 DEF PlannedJob
    <3> HIDE DEF Order, i, j
    <3>3. orders[i] \in Order
      BY <1>5, <3>1, RowOfTable
    <3> QED
      BY <1>5, <3>1, <3>2, <3>3
  <2>2. j.held = GivenBack(j)
    BY <1>1, <1>2, <1>7 DEF PlannedJob
  <2> DEFINE o == [orders[i] EXCEPT !.live = Edited(j),
                                    !.back = IF GivesBack(j) THEN @ + 1 ELSE @]
  <2>3. orders' = [orders EXCEPT ![i] = o]
    BY <1>5, <1>7, <2>1 DEF Commit
  <2>4. view(o) = [lines |-> orders[i].lines,
                   back |-> IF GivesBack(j) THEN orders[i].back + 1 ELSE orders[i].back]
    BY <2>1
  <2> HIDE DEF o
  <2>5. after = [before EXCEPT ![i] = view(o)]
    BY <2>1, <2>3
  <2>6. CASE GivesBack(j)
    <3>1. j.held = Ordered(j.lines)
      BY <2>2, <2>6 DEF GivenBack
    <3>2. stock' = [k \in Rows |-> stock[k] + before[i].lines[k]]
      <4>1. ASSUME NEW k \in Rows PROVE stock'[k] = stock[k] + j.lines[k]
        <5>1. k \in j.held => Pending(j, k) = stock[k] + j.lines[k]
          BY <1>7 DEF Pending
        <5>2. k \notin j.held => j.lines[k] = 0
          BY <1>4, <3>1 DEF Ordered
        <5> QED
          BY <1>3, <1>4, <5>1, <5>2
      <4>2. before[i].lines = j.lines
        BY <2>1
      <4> QED
        BY <1>3, <4>1, <4>2
    <3>3. after = [before EXCEPT ![i].back = @ + 1]
      BY <2>1, <2>4, <2>5, <2>6
    <3>4. i \in DOMAIN before
      BY <2>1
    <3> QED
      BY <3>2, <3>3, <3>4 DEF Room!Next, Room!GiveBack
  <2>7. CASE ~GivesBack(j)
    <3>1. j.held = {}
      BY <2>2, <2>7 DEF GivenBack
    <3>2. stock' = stock
      BY <1>3, <1>4, <3>1
    <3>3. after = before
      BY <2>1, <2>4, <2>5, <2>7
    <3> QED
      BY <3>2, <3>3 DEF Room!inventoryVars
  <2> QED
    BY <2>6, <2>7
<1>8. CASE j.kind = "form"
  <2>1. PICK k \in Rows : \A l \in j.held : l[1] = k[1]
    BY <1>1, <1>2, <1>8 DEF PlannedJob
  <2>2. \A l \in Rows : Pending(j, l) = j.typed[l]
    BY <1>8 DEF Pending
  <2>3. stock' \in [Rows -> Nat]
    BY <1>3, <1>4, <2>2
  <2>4. \A l \in Rows : l[1] # k[1] => stock'[l] = stock[l]
    BY <1>3, <2>1
  <2>5. after = before
    BY <1>8 DEF Commit
  <2> QED
    BY <2>3, <2>4, <2>5 DEF Room!Next, Room!Recount
<1>9. CASE j.kind = "none"
  <2>1. j.held = {}
    BY <1>1, <1>2, <1>9 DEF PlannedJob
  <2>2. stock' = stock /\ orders' = orders
    BY <1>3, <1>4, <1>9, <2>1 DEF Commit
  <2> QED
    BY <2>2 DEF Room!inventoryVars
<1> QED
  BY <1>1, <1>6, <1>7, <1>8, <1>9 DEF Jobs

(* Orders, returns and counts happen as the Inventory promises.            *)
THEOREM Refinement == Spec => ImplementsInventory
<1>1. Init => Room!Init
  BY DEF Init, Room!Init
<1>2. IInv /\ [Next]_vars => [Room!Next]_(Room!inventoryVars)
  <2> SUFFICES ASSUME IInv, [Next]_vars PROVE [Room!Next]_(Room!inventoryVars)
    OBVIOUS
  <2>1. ASSUME UNCHANGED <<stock, orders>> PROVE UNCHANGED Room!inventoryVars
    BY <2>1 DEF Room!inventoryVars
  <2>2. TypeOK
    BY DEF IInv
  <2>3. CASE UNCHANGED vars
    BY <2>1, <2>3 DEF vars
  <2>4. ASSUME NEW w \in Workers, Commit(w) PROVE [Room!Next]_(Room!inventoryVars)
    BY <2>4, CommitShows
  <2>5. ASSUME NEW w \in Workers,
               \/ StartCheckout(w) \/ (\E i \in DOMAIN orders : OpenOrder(w, i)) \/ OpenForm(w)
               \/ SubmitForm(w) \/ SaveOrder(w) \/ WriteRow(w) \/ Rollback(w)
               \/ (\E p \in Rows : CheckForeignKey(w, p))
        PROVE  [Room!Next]_(Room!inventoryVars)
    BY <2>1, <2>2, <2>5, QuietSteps
  <2> QED
    BY <2>3, <2>4, <2>5, NextCases
<1> QED
  BY <1>1, <1>2, Invariance, PTL DEF Spec, ImplementsInventory, Room!Spec

-----------------------------------------------------------------------------
(* Stock on hand.                                                          *)

(* An order, and the units of row k that it holds.                         *)
Order == [lines : Carts, live : BOOLEAN, back : Nat]
HeldBy(k) == [o \in Order |-> Holds(o, k)]

\* The units of a row are those in stock and those of the orders that hold some.
LEMMA OnHandIsTotal == TypeOK => \A k \in Rows : OnHand(k) = stock[k] + TableTotal(HeldBy(k), orders)
<1> SUFFICES ASSUME TypeOK, NEW k \in Rows
             PROVE  OnHand(k) = stock[k] + TableTotal(HeldBy(k), orders)
  OBVIOUS
<1>1. \A i \in DOMAIN orders : orders[i] \in Order
  BY RowOfTable DEF TypeOK, Order
<1>2. [i \in DOMAIN orders |-> HeldBy(k)[orders[i]]]
        = [i \in DOMAIN orders |-> Holds(orders[i], k)]
  BY <1>1 DEF HeldBy
<1> QED
  BY <1>2, Zenon DEF OnHand, TableTotal, SumOf

(* What an order holds: its lines until they are given back, then nothing. *)
LEMMA HeldByOrder ==
  ASSUME NEW k \in Rows
  PROVE  /\ HeldBy(k) \in [Order -> Int]
         /\ \A o \in Order : HeldBy(k)[o] = IF o.back = 0 THEN o.lines[k] ELSE 0
<1>1. ASSUME NEW o \in Order PROVE Holds(o, k) \in Int
  BY StockRoomAssumption DEF Order, Holds
<1> QED
  BY <1>1 DEF HeldBy, Holds

(* What the orders hold after one of them changed.                         *)
LEMMA HeldChanged ==
  ASSUME NEW k \in Rows, NEW placed \in Seq(Order), NEW i \in DOMAIN placed, NEW o \in Order
  PROVE  TableTotal(HeldBy(k), [placed EXCEPT ![i] = o])
           = TableTotal(HeldBy(k), placed) - HeldBy(k)[placed[i]] + HeldBy(k)[o]
<1> DEFINE f == HeldBy(k)
<1>1. f \in [Order -> Int]
  BY HeldByOrder
<1> HIDE DEF f
<1>2. TableTotal(f, [placed EXCEPT ![i] = o]) = TableTotal(f, placed) - f[placed[i]] + f[o]
  BY <1>1, TableTotalChanged
<1> QED
  BY <1>2 DEF f

(* Units appear or vanish in commits only, and then in those of forms that  *)
(* replace the stored number by another and of cancellations that return    *)
(* lines a second time.                                                     *)
LEMMA CommitCounts ==
  ASSUME IInv, NEW w \in Workers, Commit(w), NEW k \in Rows
  PROVE  \/ stock'[k] + TableTotal(HeldBy(k), orders') = stock[k] + TableTotal(HeldBy(k), orders)
         \/ job[w].kind = "form" /\ k \in job[w].held /\ job[w].typed[k] # stock[k]
         \/ SecondReturn(job[w]) /\ k \in job[w].held
<1> USE StockRoomAssumption
<1> DEFINE j == job[w]
           held == TableTotal(HeldBy(k), orders)
<1>1. TypeOK /\ PlannedJob(j, orders) /\ j \in Jobs
  BY DEF IInv, Planned, TypeOK
<1>2. j.step = "work" /\ j.todo = <<>> /\ j.held = Plan(j) /\ j.held \subseteq Rows
  BY <1>1 DEF Commit, Plan, Jobs, Range
<1>3. stock'[k] = IF k \in j.held THEN Pending(j, k) ELSE stock[k]
  BY DEF Commit
<1>4. stock[k] \in Int /\ j.lines[k] \in Nat
  BY <1>1 DEF TypeOK, Jobs
<1>5. orders \in Seq(Order) /\ held \in Int
  BY <1>1, HeldByOrder, TableTotalInt DEF TypeOK, Order
<1>6. CASE j.kind = "checkout"
  <2>1. j.lines \in Carts /\ j.held = Ordered(j.lines)
    BY <1>1, <1>2, <1>6 DEF PlannedJob
  <2>2. orders' = Append(orders, NewOrder(j)) /\ NewOrder(j) \in Order
    BY <1>6, <2>1 DEF Commit, NewOrder, Order
  <2>3. HeldBy(k)[NewOrder(j)] = j.lines[k]
    <3>1. NewOrder(j).lines[k] = j.lines[k] /\ NewOrder(j).back = 0
      BY DEF NewOrder
    <3> QED
      BY <1>4, <2>2, <3>1, HeldByOrder
  <2>4. TableTotal(HeldBy(k), orders') = held + j.lines[k]
    <3> DEFINE o == NewOrder(j)
               f == HeldBy(k)
    <3>1. f \in [Order -> Int] /\ orders \in Seq(Order) /\ o \in Order
      BY <1>5, <2>2, HeldByOrder
    <3>2. orders' = Append(orders, o) /\ f[o] = j.lines[k]
      BY <2>2, <2>3
    <3> HIDE DEF f, o, j
    <3>3. TableTotal(f, Append(orders, o)) = TableTotal(f, orders) + f[o]
      BY <3>1, TableTotalAppended
    <3> QED
      BY <3>2, <3>3 DEF f
  <2>5. stock'[k] = stock[k] - j.lines[k]
    <3>1. k \in j.held => stock'[k] = stock[k] - j.lines[k]
      BY <1>3, <1>6 DEF Pending
    <3>2. k \notin j.held => j.lines[k] = 0
      BY <1>4, <2>1 DEF Ordered
    <3> QED
      BY <1>3, <1>4, <3>1, <3>2
  <2> HIDE DEF j, held
  <2>6. stock'[k] + TableTotal(HeldBy(k), orders') = stock[k] + held
    BY <1>4, <1>5, <2>4, <2>5
  <2> QED
    BY <2>6 DEF held
<1>7. CASE j.kind = "desk"
  <2> DEFINE i == j.order
             o == [orders[i] EXCEPT !.live = Edited(j),
                                    !.back = IF GivesBack(j) THEN @ + 1 ELSE @]
  <2>1. i \in DOMAIN orders /\ orders[i] \in Order /\ j.lines = orders[i].lines
    <3>1. i \in DOMAIN orders
      BY <1>1, <1>7 DEF TypeOK
    <3>2. j.lines = orders[i].lines
      BY <1>1, <1>7 DEF PlannedJob
    <3> HIDE DEF i, j
    <3>3. orders[i] \in Order
      BY <1>5, <3>1, RowOfTable
    <3> QED
      BY <3>1, <3>2, <3>3
  <2>2. j.held = GivenBack(j)
    BY <1>1, <1>2, <1>7 DEF PlannedJob
  <2>3. orders' = [orders EXCEPT ![i] = o]
    BY <1>5, <1>7, <2>1 DEF Commit
  <2>4. /\ o.lines = orders[i].lines
        /\ o.back = IF GivesBack(j) THEN orders[i].back + 1 ELSE orders[i].back
    BY <2>1 DEF Order
  <2>5. o \in Order
    <3>1. Edited(j) \in BOOLEAN
      BY <1>1 DEF Edited, Jobs
    <3>2. orders[i].back \in Nat /\ orders[i].back + 1 \in Nat
      BY <2>1 DEF Order
    <3> HIDE DEF i, j
    <3> QED
      BY <2>1, <3>1, <3>2 DEF Order
  <2> HIDE DEF o
  <2>6. HeldBy(k)[o] = IF o.back = 0 THEN o.lines[k] ELSE 0
    BY <2>5, HeldByOrder
  <2>7. HeldBy(k)[orders[i]] = IF orders[i].back = 0 THEN orders[i].lines[k] ELSE 0
    BY <2>1, HeldByOrder
  <2>8. TableTotal(HeldBy(k), orders') = held - HeldBy(k)[orders[i]] + HeldBy(k)[o]
    <3> HIDE DEF i, j
    <3>1. TableTotal(HeldBy(k), [orders EXCEPT ![i] = o])
            = TableTotal(HeldBy(k), orders) - HeldBy(k)[orders[i]] + HeldBy(k)[o]
      BY <1>5, <2>1, <2>5, HeldChanged
    <3> QED
      BY <2>3, <3>1
  <2>9. CASE GivesBack(j) /\ k \notin j.held
    <3>1. j.lines[k] = 0
      BY <1>4, <2>2, <2>9 DEF Ordered, GivenBack
    <3>2. HeldBy(k)[o] = 0 /\ HeldBy(k)[orders[i]] = 0
      BY <2>1, <2>4, <2>6, <2>7, <3>1
    <3>3. stock'[k] = stock[k]
      BY <1>3, <2>9
    <3> HIDE DEF held, i, j
    <3>4. stock'[k] + TableTotal(HeldBy(k), orders') = stock[k] + held
      BY <1>4, <1>5, <2>8, <3>2, <3>3
    <3> QED
      BY <3>4 DEF held
  <2>11. CASE GivesBack(j) /\ k \in j.held /\ orders[i].back > 0
    BY <1>7, <2>11 DEF SecondReturn
  <2>12. CASE GivesBack(j) /\ k \in j.held /\ ~(orders[i].back > 0)
    <3> DEFINE a == j.lines[k]
    <3>1. orders[i].back = 0 /\ o.back = 1
      <4>1. orders[i].back \in Nat
        BY <2>1 DEF Order
      <4> QED
        BY <2>4, <2>12, <4>1
    <3>2. HeldBy(k)[o] = 0 /\ HeldBy(k)[orders[i]] = a
      BY <2>1, <2>6, <2>7, <3>1
    <3>3. stock'[k] = stock[k] + a
      BY <1>3, <1>7, <2>12 DEF Pending
    <3>4. a \in Int
      BY <1>4
    <3> HIDE DEF a, held, i, j
    <3>5. stock'[k] + TableTotal(HeldBy(k), orders') = stock[k] + held
      BY <1>4, <1>5, <2>8, <3>2, <3>3, <3>4
    <3> QED
      BY <3>5 DEF held
  <2>10. CASE ~GivesBack(j)
    <3>1. j.held = {}
      BY <2>2, <2>10 DEF GivenBack
    <3>2. HeldBy(k)[o] = HeldBy(k)[orders[i]] /\ HeldBy(k)[o] \in Int
      BY <2>4, <2>5, <2>6, <2>7, <2>10, HeldByOrder
    <3>3. stock'[k] = stock[k]
      BY <1>3, <3>1
    <3> HIDE DEF held, i, j
    <3>4. stock'[k] + TableTotal(HeldBy(k), orders') = stock[k] + held
      BY <1>4, <1>5, <2>8, <3>2, <3>3
    <3> QED
      BY <3>4 DEF held
  <2> QED
    BY <2>9, <2>10, <2>11, <2>12
<1>8. CASE j.kind \in {"none", "form"}
  <2>1. orders' = orders
    BY <1>8 DEF Commit
  <2>2. j.kind = "none" => k \notin j.held
    BY <1>1, <1>2 DEF PlannedJob
  <2>3. k \in j.held => stock'[k] = j.typed[k]
    BY <1>3, <1>8 DEF Pending
  <2>4. k \notin j.held => stock'[k] = stock[k]
    BY <1>3
  <2> QED
    BY <1>8, <2>1, <2>2, <2>3, <2>4
<1> QED
  BY <1>1, <1>6, <1>7, <1>8 DEF Jobs

(* Units appear or vanish only when a form saves a number that was typed    *)
(* over, or one that has changed since its page showed it (dashboard.py:491,*)
(* :505), and when the lines of an order come back a second time            *)
(* (dashboard.py:744).                                                      *)
THEOREM MiscountsAlwaysExplained == Spec => MiscountsExplained
<1> DEFINE Units(k) == stock[k] + TableTotal(HeldBy(k), orders)
           Counted == \A k \in Rows : OnHand(k) = Units(k)
           Explained(k) ==
             \E w \in Workers : /\ k \in job[w].held
                                /\ job'[w] = NoJob
                                /\ StaleCount(job[w], k) \/ SecondReturn(job[w])
<1>1. TypeOK => Counted
  BY OnHandIsTotal
<1>2. IInv /\ [Next]_vars => \A k \in Rows : Units(k)' # Units(k) => Explained(k)
  <2> SUFFICES ASSUME IInv, [Next]_vars, NEW k \in Rows, Units(k)' # Units(k)
               PROVE  Explained(k)
    OBVIOUS
  <2>1. TypeOK
    BY DEF IInv
  <2>2. ~UNCHANGED <<stock, orders>>
    OBVIOUS
  <2>3. PICK w \in Workers : Commit(w)
    BY <2>1, <2>2, NextCases, QuietSteps DEF vars
  <2>4. \/ job[w].kind = "form" /\ k \in job[w].held /\ job[w].typed[k] # stock[k]
        \/ SecondReturn(job[w]) /\ k \in job[w].held
    BY <2>3, CommitCounts
  <2>5. k \in job[w].held /\ (StaleCount(job[w], k) \/ SecondReturn(job[w]))
    BY <2>4 DEF StaleCount
  <2>6. job'[w] = NoJob
    BY <2>1, <2>3, NoJobType, OneJob DEF Commit, Drop
  <2> QED
    BY <2>5, <2>6
<1>3. /\ IInv /\ Counted /\ Counted' /\ [Next]_vars
      => \A k \in Rows : OnHand(k)' # OnHand(k) => Explained(k)
  BY <1>2
<1>4. IInv => TypeOK
  BY DEF IInv
<1> HIDE DEF Counted
<1> QED
  BY <1>1, <1>3, <1>4, Invariance, PTL DEF Spec, MiscountsExplained
=============================================================================
