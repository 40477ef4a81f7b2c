----------------------------- MODULE SalesReport -----------------------------
(***************************************************************************)
(* The sales figures of the dashboard (storefront.dashboard): the report   *)
(* (dashboard_report) and the numbers above the order list                 *)
(* (dashboard_orders with _sales_stats and _week_chart).  Each figure is a *)
(* statement of its own and no transaction holds them together, so orders  *)
(* are placed, cancelled and revived, and midnight passes, in between.     *)
(* The list of orders itself is paged like any listing.                    *)
(***************************************************************************)
EXTENDS Integers, FiniteSetsExt

CONSTANTS MaxOrders,    \* bound: orders, numbered in order of creation
          Total,        \* total of each order
          Quantity,     \* units of each product in each order
          SoldProducts, \* products sold
          TopLimit,     \* rows of the table of products, 10 in the code
          Methods,      \* payment methods
          Any,          \* filter: every method, every status
          MaxDay,       \* bound: days
          DayLimit,     \* rows of the daily table, 31 in the code
          WeekLength,   \* bars of the chart, 7 in the code
          MaxMoves      \* bound: status changes in a behaviour

Orders == 1..MaxOrders
Days == 1..MaxDay
Statuses == {"PENDING", "CONFIRMED", "CANCELLED"}

ASSUME SalesAssumption ==
  /\ MaxOrders \in Nat /\ MaxDay \in Nat \ {0} /\ MaxMoves \in Nat
  /\ Total \in [Orders -> Nat]
  /\ Quantity \in [Orders -> [SoldProducts -> Nat]]
  /\ IsFiniteSet(SoldProducts) /\ IsFiniteSet(Methods)
  /\ Any \notin Methods \cup Statuses
  /\ TopLimit \in Nat \ {0} /\ DayLimit \in Nat \ {0} /\ WeekLength \in Nat \ {0}

VARIABLES
  sale,    \* status, method and day of each order
  today,   \* timezone.localdate()
  moves,   \* status changes so far
  page     \* the page a staff member is waiting for, and its figures

salesVars == <<sale, today, moves, page>>

Filters == [method : Methods \cup {Any}, status : Statuses \cup {Any}, from : Days, to : Days]
Unplaced == [status |-> "none", method |-> Any, day |-> 1]
NoFilter == [method |-> Any, status |-> Any, from |-> 1, to |-> MaxDay]
NoPage == [view |-> "none", step |-> "done", filter |-> NoFilter, today |-> 1,
           revenue |-> 0, orders |-> 0, units |-> 0, top |-> [p \in SoldProducts |-> 0], best |-> {},
           daily |-> [d \in Days |-> 0], listed |-> {},
           methods |-> [m \in Methods |-> [orders |-> 0, total |-> 0]],
           todayRevenue |-> 0, todayOrders |-> 0, start |-> 0, bars |-> 0, chart |-> [d \in Days |-> 0],
           grown |-> FALSE, shrunk |-> FALSE, midnight |-> FALSE]

SalesInit ==
  /\ sale = [o \in Orders |-> Unplaced]
  /\ today = 1
  /\ moves = 0
  /\ page = NoPage

-----------------------------------------------------------------------------
(* The queries.                                                            *)

Placed == {o \in Orders : sale[o].status # "none"}
Live == {o \in Placed : sale[o].status # "CANCELLED"}

Selected(f) == {o \in Placed : /\ f.method \in {Any, sale[o].method}
                               /\ f.status \in {Any, sale[o].status}
                               /\ sale[o].day \in f.from..f.to}

\* `exclude(status=CANCELLED)`, on both pages.
Counted(f) == Selected(f) \cap Live

Revenue(S) == MapThenSumSet(LAMBDA o : Total[o], S)
OnDay(S, d) == {o \in S : sale[o].day = d}
ByMethod(S, m) == {o \in S : sale[o].method = m}
Sold(S, p) == MapThenSumSet(LAMBDA o : Quantity[o][p], S)

\* Products that may have a row in the table of products: the TopLimit that sold
\* most, ties left open.
TopRows(S) ==
  LET sold == {p \in SoldProducts : Sold(S, p) > 0}
  IN {B \in SUBSET sold : /\ Cardinality(B) <= TopLimit
                          /\ Cardinality(B) = TopLimit \/ B = sold
                          /\ \A p \in B, q \in sold \ B : Sold(S, p) >= Sold(S, q)}

\* Days that have a row in the daily table: the latest DayLimit of them.
DailyRows(S) ==
  LET days == {sale[o].day : o \in S}
  IN {d \in days : Cardinality({e \in days : e > d}) < DayLimit}

\* Mutant: the table by method forgets to leave out cancelled orders.
MethodRowsWithCancelled(f) ==
  [m \in Methods |-> [orders |-> Cardinality(ByMethod(Selected(f), m)),
                      total |-> Revenue(ByMethod(Selected(f), m))]]

\* The report's groups by payment_method.
MethodRows(f) ==
  [m \in Methods |-> [orders |-> Cardinality(ByMethod(Counted(f), m)),
                      total |-> Revenue(ByMethod(Counted(f), m))]]

\* _sales_stats groups a queryset that is ordered by "-created_at", which makes
\* the creation time part of the group: a row per order, newest first, of which
\* the dict keeps each method's last, the oldest order.
StatsRows(f) ==
  [m \in Methods |-> LET S == ByMethod(Counted(f), m)
                     IN IF S = {} THEN [orders |-> 0, total |-> 0]
                                  ELSE [orders |-> 1, total |-> Total[Min(S)]]]

-----------------------------------------------------------------------------
(* The pages, a statement at a time.                                       *)

\* The report has no status filter.
Ask(view, f) ==
  /\ page.view = "none"
  /\ view = "report" => f.status = Any
  /\ page' = [NoPage EXCEPT !.view = view, !.step = "totals", !.filter = f]
  /\ UNCHANGED <<sale, today, moves>>

\* The statement `step` of a page of that view runs, and the next is due.
Statement(view, step, new) ==
  /\ page.view = view /\ page.step = step
  /\ page' = new
  /\ UNCHANGED <<sale, today, moves>>

\* _sales_stats reads the clock before it asks for the totals.
Totals(view, next) ==
  LET S == Counted(page.filter)
  IN Statement(view, "totals",
               [page EXCEPT !.revenue = Revenue(S), !.orders = Cardinality(S),
                            !.today = today, !.step = next])

UnitsSold ==
  LET S == Counted(page.filter)
  IN Statement("report", "units",
               [page EXCEPT !.units = MapThenSumSet(LAMBDA p : Sold(S, p), SoldProducts), !.step = "top"])

TopProducts ==
  LET S == Counted(page.filter)
  IN \E best \in TopRows(S) :
       Statement("report", "top",
                 [page EXCEPT !.top = [p \in SoldProducts |-> IF p \in best THEN Sold(S, p) ELSE 0],
                              !.best = best, !.step = "daily"])

Daily ==
  LET S == Counted(page.filter)
  IN Statement("report", "daily",
               [page EXCEPT !.daily = [d \in Days |-> IF d \in DailyRows(S) THEN Revenue(OnDay(S, d)) ELSE 0],
                            !.listed = DailyRows(S), !.step = "methods"])

ReportMethods ==
  Statement("report", "methods", [page EXCEPT !.methods = MethodRows(page.filter), !.step = "done"])

StatsMethods ==
  Statement("orders", "methods", [page EXCEPT !.methods = StatsRows(page.filter), !.step = "revenue"])

TodayRevenue ==
  Statement("orders", "revenue",
            [page EXCEPT !.todayRevenue = Revenue(OnDay(Counted(page.filter), page.today)),
                         !.step = "count"])

\* _week_chart then reads the clock again; its first bar is WeekLength - 1 days back.
TodayOrders ==
  Statement("orders", "count",
            [page EXCEPT !.todayOrders = Cardinality(OnDay(Counted(page.filter), page.today)),
                         !.step = "clock"])

ReadClock ==
  Statement("orders", "clock", [page EXCEPT !.start = today - (WeekLength - 1), !.step = "chart"])

\* Each bar is a statement, of all orders whatever the filter.
ChartDay ==
  LET d == page.start + page.bars
  IN Statement("orders", "chart",
               [page EXCEPT !.chart = IF d \in Days THEN [@ EXCEPT ![d] = Revenue(OnDay(Live, d))] ELSE @,
                            !.bars = @ + 1,
                            !.step = IF page.bars + 1 = WeekLength THEN "done" ELSE "chart"])

Close == page.view # "none" /\ page' = NoPage /\ UNCHANGED <<sale, today, moves>>

-----------------------------------------------------------------------------
(* What happens meanwhile.                                                 *)

Noted(grown, shrunk) ==
  IF page.step = "done" THEN page
  ELSE [page EXCEPT !.grown = @ \/ grown, !.shrunk = @ \/ shrunk]

Place(o, m) ==
  /\ sale[o].status = "none" /\ \A q \in 1..(o - 1) : q \in Placed
  /\ sale' = [sale EXCEPT ![o] = [status |-> "PENDING", method |-> m, day |-> today]]
  /\ page' = Noted(TRUE, FALSE)
  /\ UNCHANGED <<today, moves>>

\* The order desk and the gateway callback; a revived order counts again.
Move(o, s) ==
  /\ moves < MaxMoves
  /\ moves' = moves + 1
  /\ o \in Placed /\ s # sale[o].status
  /\ sale' = [sale EXCEPT ![o].status = s]
  /\ page' = Noted(sale[o].status = "CANCELLED" \/ page.filter.status # Any,
                   s = "CANCELLED" \/ page.filter.status # Any)
  /\ UNCHANGED today

NewDay ==
  /\ today < MaxDay
  /\ today' = today + 1
  /\ page' = IF page.step = "done" THEN page ELSE [page EXCEPT !.midnight = TRUE]
  /\ UNCHANGED <<sale, moves>>

SalesNext ==
  \/ \E view \in {"report", "orders"}, f \in Filters : Ask(view, f)
  \/ Totals("report", "units") \/ UnitsSold \/ TopProducts \/ Daily \/ ReportMethods
  \/ Totals("orders", "methods") \/ StatsMethods \/ TodayRevenue \/ TodayOrders
  \/ ReadClock \/ ChartDay \/ Close
  \/ \E o \in Orders : \/ \E m \in Methods : Place(o, m)
                       \/ \E s \in Statuses : Move(o, s)
  \/ NewDay

SalesSpec == SalesInit /\ [][SalesNext]_salesVars

-----------------------------------------------------------------------------
SalesTypeOK ==
  /\ sale \in [Orders -> [status : Statuses \cup {"none"}, method : Methods \cup {Any}, day : Days]]
  /\ today \in Days /\ moves \in Nat
  /\ page.filter \in Filters
  /\ {page.revenue, page.orders, page.units, page.todayRevenue, page.todayOrders} \subseteq Nat
  /\ page.top \in [SoldProducts -> Nat] /\ page.best \subseteq SoldProducts
  /\ page.daily \in [Days -> Nat] /\ page.chart \in [Days -> Nat]
  /\ page.methods \in [Methods -> [orders : Nat, total : Nat]]

MethodTotal == MapThenSumSet(LAMBDA m : page.methods[m].total, Methods)
MethodOrders == MapThenSumSet(LAMBDA m : page.methods[m].orders, Methods)
DailyTotal == MapThenSumSet(LAMBDA d : page.daily[d], Days)
TopUnits == MapThenSumSet(LAMBDA p : page.top[p], SoldProducts)
Complete(view) == page.view = view /\ page.step = "done"

\* The parts of a report add up to its totals, as far as orders that came or
\* went between its statements do not explain the difference: parts read later
\* fall short only if an order was cancelled or the table is full, and exceed
\* only if one was placed or revived (dashboard.py:630-647).
ReportAdds ==
  Complete("report") =>
    /\ ~page.shrunk => /\ MethodTotal >= page.revenue /\ MethodOrders >= page.orders
                       /\ Cardinality(page.best) < TopLimit => TopUnits >= page.units
                       /\ Cardinality(page.listed) < DayLimit => DailyTotal >= page.revenue
    /\ ~page.grown => /\ MethodTotal <= page.revenue /\ MethodOrders <= page.orders
                      /\ TopUnits <= page.units /\ DailyTotal <= page.revenue

\* What the numbers above the order list call today's is the last bar of the
\* chart below them, or the part of it that the filter selects, unless orders
\* were cancelled or midnight passed in between (dashboard.py:85, :100).
TodayIsLastBar ==
  Complete("orders") /\ ~page.shrunk /\ ~page.midnight =>
    /\ page.todayRevenue <= page.chart[page.today]
    /\ page.filter = NoFilter /\ ~page.grown => page.todayRevenue = page.chart[page.today]

\* The figures of either page fit together, although no transaction holds the
\* statements together that read them.
FiguresAgree == ReportAdds /\ TodayIsLastBar

\* The bar of a payment method is its share of the orders counted
\* ("widthratio data.0 stats.orders 100", dashboard_orders.html:301): when no
\* order changed meanwhile, the shares make up the whole.
MethodShares ==
  Complete("orders") /\ ~page.grown /\ ~page.shrunk => MethodOrders = page.orders
=============================================================================
