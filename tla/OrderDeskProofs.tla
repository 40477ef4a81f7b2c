--------------------------- MODULE OrderDeskProofs ---------------------------
(***************************************************************************)
(* Proofs about module OrderDesk, for every set of orders, staff members   *)
(* and callback handlers and any number of dashboard POSTs.                *)
(***************************************************************************)
EXTENDS OrderDesk, TLAPS

(* A dashboard action keeps the columns' types.                            *)
LEMMA EditedType ==
  ASSUME NEW action \in Actions, NEW copy \in Columns, NEW s \in Staff
  PROVE  Edited(action, copy, s) \in Columns
BY DEF Edited, Actions, Columns, Status, PaymentStatus

(* So does a callback.                                                     *)
LEMMA SettledType == ASSUME NEW r \in Columns PROVE Settled(r) \in Columns
BY DEF Settled, Columns, Status, PaymentStatus

(* Every variable keeps its type.                                          *)
THEOREM TypeCorrect == Spec => []TypeOK
<1> USE OrderDeskAssumption
<1>1. Init => TypeOK
  BY DEF Init, TypeOK, Placed, NoJob, NoCallback, Columns, Status, PaymentStatus,
         Actions, Messages
<1>2. TypeOK /\ [Next]_vars => TypeOK'
  <2> SUFFICES ASSUME TypeOK, [Next]_vars PROVE TypeOK'
    OBVIOUS
  <2>1. ASSUME NEW s \in Staff, NEW o \in Orders, NEW action \in Actions,
               OpenOrder(s, o, action)
        PROVE  TypeOK'
    BY <2>1 DEF TypeOK, OpenOrder, history
  <2>2. ASSUME NEW s \in Staff, SaveOrder(s) PROVE TypeOK'
    <3> DEFINE o == deskJob[s].order
    <3>1. /\ o \in Orders
          /\ row' = [row EXCEPT ![o] = Edited(deskJob[s].action, deskJob[s].copy, s)]
      BY <2>2 DEF SaveOrder, TypeOK
    <3>2. row' \in [Orders -> Columns]
      BY <3>1, EditedType DEF TypeOK
    <3>3. deskJob' \in [Staff -> [order : Orders \cup {NoOrder}, action : Actions, copy : Columns]]
      BY <2>2 DEF SaveOrder, TypeOK, NoJob, Placed, Columns, Status, PaymentStatus, Actions
    <3>4. /\ restocks' \in [Orders -> Nat]
          /\ reopened' \in [Orders -> Nat]
      BY <2>2, <3>1 DEF SaveOrder, TypeOK
    <3>5. vouched' \in [Orders -> BOOLEAN]
      BY <2>2, <3>1 DEF SaveOrder, TypeOK
    <3> QED
      BY <2>2, <3>2, <3>3, <3>4, <3>5 DEF SaveOrder, TypeOK
  <2>3. ASSUME NEW s \in Staff, LosePost(s) PROVE TypeOK'
    BY <2>3 DEF LosePost, TypeOK, history, NoJob, Placed, Columns, Status, PaymentStatus, Actions
  <2>4. ASSUME NEW h \in Handlers, NEW o \in Orders, NEW msg \in Messages, Receive(h, o, msg)
        PROVE  TypeOK'
    BY <2>4 DEF Receive, TypeOK, history
  <2>5. ASSUME NEW h \in Handlers, VerifyOk(h) PROVE TypeOK'
    BY <2>5 DEF VerifyOk, TypeOK, history
  <2>6. ASSUME NEW h \in Handlers, Abandon(h) PROVE TypeOK'
    BY <2>6 DEF Abandon, TypeOK, history, NoCallback, Messages
  <2>7. ASSUME NEW h \in Handlers, Settle(h) PROVE TypeOK'
    <3> DEFINE o == callback[h].order
    <3>1. o \in Orders /\ row' = [row EXCEPT ![o] = Settled(row[o])]
      BY <2>7 DEF Settle, TypeOK
    <3>2. row' \in [Orders -> Columns]
      BY <3>1, SettledType DEF TypeOK
    <3>3. txn' \in [Orders -> Orders \cup {NoOrder}] /\ confirms' \in [Orders -> Nat]
      BY <2>7, <3>1 DEF Settle, TypeOK
    <3>4. /\ callback' \in [Handlers -> [phase : {"idle", "verify", "settle"},
                                         order : Orders \cup {NoOrder}, msg : Messages]]
          /\ \A g \in Handlers : callback'[g].phase # "idle" => callback'[g].order \in Orders
      BY <2>7 DEF Settle, TypeOK, NoCallback, Messages
    <3> QED
      BY <2>7, <3>2, <3>3, <3>4 DEF Settle, TypeOK
  <2>8. ASSUME NEW o \in Orders, StartPayment(o) \/ PayAtEsewa(o) PROVE TypeOK'
    BY <2>8 DEF StartPayment, Initiate, PayAtEsewa, TypeOK, history
  <2>9. CASE UNCHANGED vars
    BY <2>9 DEF vars, history, TypeOK
  <2> QED
    BY <2>1, <2>2, <2>3, <2>4, <2>5, <2>6, <2>7, <2>8, <2>9 DEF Next
<1> QED
  BY <1>1, <1>2, PTL DEF Spec

-----------------------------------------------------------------------------
(* What the requests in progress have seen: a stale copy that says VERIFIED *)
(* was backed when it was read, and a callback past verification is paid.   *)
Backing ==
  /\ VerifiedIsBacked
  /\ \A s \in Staff : deskJob[s].order \in Orders /\ deskJob[s].copy.payment = "VERIFIED" =>
       atEsewa[deskJob[s].order] = "paid" \/ vouched[deskJob[s].order]
  /\ \A h \in Handlers : callback[h].phase = "settle" => atEsewa[callback[h].order] = "paid"

(* No order counts as paid without the money at eSewa or a staff member's   *)
(* word (views.py:1022-1065, dashboard.py:722-742).                         *)
THEOREM PaymentsBacked == Spec => []Backing
<1> USE OrderDeskAssumption
<1>1. Init => Backing
  BY DEF Init, Backing, VerifiedIsBacked, Placed, NoJob, NoCallback
<1>2. TypeOK /\ Backing /\ [Next]_vars => Backing'
  <2> SUFFICES ASSUME TypeOK, Backing, [Next]_vars PROVE Backing'
    OBVIOUS
  <2>1. ASSUME NEW s \in Staff, NEW o \in Orders, NEW action \in Actions,
               OpenOrder(s, o, action)
        PROVE  Backing'
    BY <2>1 DEF TypeOK, Backing, VerifiedIsBacked, OpenOrder, history
  <2>2. ASSUME NEW s \in Staff, SaveOrder(s) PROVE Backing'
    <3> DEFINE job == deskJob[s]
               o == deskJob[s].order
               edited == Edited(job.action, job.copy, s)
    <3>1. o \in Orders /\ job.action \in Actions /\ job.copy \in Columns
      BY <2>2 DEF SaveOrder, TypeOK
    <3>2. edited.payment = "VERIFIED" =>
            job.copy.payment = "VERIFIED" \/ job.action \in {"confirm", "verify_payment"}
      BY <3>1 DEF Edited, Columns, Actions
    <3>3. /\ row'[o] = edited
          /\ \A p \in Orders \ {o} : row'[p] = row[p] /\ vouched'[p] = vouched[p]
          /\ vouched'[o] = (vouched[o] \/ job.action \in {"confirm", "verify_payment"})
          /\ UNCHANGED <<atEsewa, txn, callback>>
      BY <2>2, <3>1 DEF SaveOrder, TypeOK
    <3>4. VerifiedIsBacked'
      BY <3>1, <3>2, <3>3 DEF Backing, VerifiedIsBacked
    <3>5. deskJob'[s] = NoJob /\ \A t \in Staff \ {s} : deskJob'[t] = deskJob[t]
      BY <2>2 DEF SaveOrder, TypeOK
    <3>6. \A p \in Orders : vouched[p] => vouched'[p]
      BY <3>3 DEF TypeOK
    <3> QED
      BY <3>3, <3>4, <3>5, <3>6 DEF Backing, NoJob
  <2>3. ASSUME NEW s \in Staff, LosePost(s) PROVE Backing'
    BY <2>3 DEF TypeOK, Backing, VerifiedIsBacked, LosePost, history, NoJob
  <2>4. ASSUME NEW h \in Handlers, NEW o \in Orders, NEW msg \in Messages, Receive(h, o, msg)
        PROVE  Backing'
    BY <2>4 DEF TypeOK, Backing, VerifiedIsBacked, Receive, history
  <2>5. ASSUME NEW h \in Handlers, VerifyOk(h) PROVE Backing'
    BY <2>5 DEF TypeOK, Backing, VerifiedIsBacked, VerifyOk, StatusComplete, history
  <2>6. ASSUME NEW h \in Handlers, Abandon(h) PROVE Backing'
    BY <2>6 DEF TypeOK, Backing, VerifiedIsBacked, Abandon, NoCallback, history
  <2>7. ASSUME NEW h \in Handlers, Settle(h) PROVE Backing'
    <3> DEFINE o == callback[h].order
    <3>1. o \in Orders /\ atEsewa[o] = "paid"
      BY <2>7 DEF Settle, TypeOK, Backing
    <3>2. /\ \A p \in Orders \ {o} : row'[p] = row[p] /\ txn'[p] = txn[p]
          /\ UNCHANGED <<atEsewa, vouched, deskJob>>
      BY <2>7, <3>1 DEF Settle, TypeOK
    <3>3. VerifiedIsBacked'
      BY <3>1, <3>2 DEF Backing, VerifiedIsBacked
    <3>4. callback'[h] = NoCallback /\ \A g \in Handlers \ {h} : callback'[g] = callback[g]
      BY <2>7 DEF Settle, TypeOK
    <3> QED
      BY <3>2, <3>3, <3>4 DEF Backing, NoCallback
  <2>8. ASSUME NEW o \in Orders, StartPayment(o) \/ PayAtEsewa(o) PROVE Backing'
    <3>1. /\ \A p \in Orders : atEsewa[p] = "paid" => atEsewa'[p] = "paid"
          /\ UNCHANGED <<row, txn, deskJob, callback, vouched>>
      BY <2>8 DEF StartPayment, Initiate, PayAtEsewa, TypeOK, history
    <3> QED
      BY <3>1 DEF TypeOK, Backing, VerifiedIsBacked
  <2>9. CASE UNCHANGED vars
    BY <2>9 DEF vars, history, Backing, VerifiedIsBacked
  <2> QED
    BY <2>1, <2>2, <2>3, <2>4, <2>5, <2>6, <2>7, <2>8, <2>9 DEF Next
<1> QED
  BY <1>1, <1>2, TypeCorrect, PTL DEF Spec

(* The invariant the runs check, as its own statement.                      *)
COROLLARY VerifiedBacked == Spec => []VerifiedIsBacked
BY PaymentsBacked, PTL DEF Backing

-----------------------------------------------------------------------------
(* A copy that says CANCELLED was read after the lines had been put back.   *)
CopiesRestocked ==
  /\ CancelledIsRestocked
  /\ \A s \in Staff : deskJob[s].order \in Orders /\ deskJob[s].copy.status = "CANCELLED" =>
       restocks[deskJob[s].order] > 0

(* A cancellation never leaks stock (dashboard.py:741-755).                 *)
THEOREM CancellationsRestock == Spec => []CopiesRestocked
<1> USE OrderDeskAssumption
<1>1. Init => CopiesRestocked
  BY DEF Init, CopiesRestocked, CancelledIsRestocked, Placed, NoJob
<1>2. TypeOK /\ CopiesRestocked /\ [Next]_vars => CopiesRestocked'
  <2> SUFFICES ASSUME TypeOK, CopiesRestocked, [Next]_vars PROVE CopiesRestocked'
    OBVIOUS
  <2>1. ASSUME UNCHANGED <<row, restocks, deskJob>> PROVE CopiesRestocked'
    BY <2>1 DEF CopiesRestocked, CancelledIsRestocked
  <2>2. ASSUME NEW s \in Staff, NEW o \in Orders, NEW action \in Actions,
               OpenOrder(s, o, action)
        PROVE  CopiesRestocked'
    BY <2>2 DEF TypeOK, CopiesRestocked, CancelledIsRestocked, OpenOrder
  <2>3. ASSUME NEW s \in Staff, LosePost(s) PROVE CopiesRestocked'
    BY <2>3 DEF TypeOK, CopiesRestocked, CancelledIsRestocked, LosePost, NoJob, Placed
  <2>4. ASSUME NEW s \in Staff, SaveOrder(s) PROVE CopiesRestocked'
    <3> DEFINE job == deskJob[s]
               o == deskJob[s].order
               edited == Edited(job.action, job.copy, s)
    <3>1. o \in Orders
      BY <2>4 DEF SaveOrder, TypeOK
    <3>2. /\ row'[o] = edited
          /\ \A p \in Orders \ {o} : row'[p] = row[p]
          /\ deskJob'[s] = NoJob
          /\ \A t \in Staff \ {s} : deskJob'[t] = deskJob[t]
      BY <2>4, <3>1 DEF SaveOrder, TypeOK
    <3>3. restocks' = [restocks EXCEPT ![o] = IF Restock(job.copy, edited)
                                              THEN restocks[o] + 1 ELSE restocks[o]]
      BY <2>4 DEF SaveOrder
    <3>4. \A p \in Orders : restocks[p] > 0 => restocks'[p] > 0
      BY <3>1, <3>3 DEF TypeOK
    <3>5. Restock(job.copy, edited) => restocks'[o] > 0
      BY <3>1, <3>3 DEF TypeOK
    <3>6. edited.status = "CANCELLED" => restocks'[o] > 0
      <4>1. CASE job.copy.status = "CANCELLED"
        <5>1. restocks[o] > 0
          BY <3>1, <4>1 DEF CopiesRestocked
        <5> QED
          BY <3>1, <3>4, <5>1
      <4>2. CASE job.copy.status # "CANCELLED"
        BY <3>5, <4>2 DEF Restock
      <4> QED
        BY <4>1, <4>2
    <3> QED
      BY <3>1, <3>2, <3>4, <3>6 DEF CopiesRestocked, CancelledIsRestocked, NoJob, Placed
  <2>5. ASSUME NEW h \in Handlers, Settle(h) PROVE CopiesRestocked'
    <3> DEFINE o == callback[h].order
    <3>1. o \in Orders /\ UNCHANGED <<restocks, deskJob>>
      BY <2>5 DEF Settle, TypeOK
    <3>2. row'[o].status = "CANCELLED" => row[o].status = "CANCELLED"
      BY <2>5, <3>1 DEF Settle, Settled, TypeOK, Columns
    <3>3. \A p \in Orders \ {o} : row'[p] = row[p]
      BY <2>5, <3>1 DEF Settle, TypeOK
    <3> QED
      BY <3>1, <3>2, <3>3 DEF CopiesRestocked, CancelledIsRestocked
  <2> QED
    BY <2>1, <2>2, <2>3, <2>4, <2>5 DEF Next, Receive, VerifyOk, Abandon,
                                        StartPayment, PayAtEsewa, vars
<1> QED
  BY <1>1, <1>2, TypeCorrect, PTL DEF Spec

(* The invariant the runs check, as its own statement.                      *)
COROLLARY CancelledRestocked == Spec => []CancelledIsRestocked
BY CancellationsRestock, PTL DEF CopiesRestocked

-----------------------------------------------------------------------------
(* Each confirmation by a callback leaves PENDING, and only a save returns. *)
ConfirmsCounted ==
  \A o \in Orders :
    IF row[o].status = "PENDING" THEN confirms[o] <= reopened[o]
                                 ELSE confirms[o] <= reopened[o] + 1

(* Callbacks confirm an order once between two re-openings (views.py:1046). *)
THEOREM CallbacksConfirmOnce == Spec => []ConfirmedOnce
<1> USE OrderDeskAssumption
<1>1. Init => ConfirmsCounted
  BY DEF Init, ConfirmsCounted, Placed
<1>2. TypeOK /\ ConfirmsCounted /\ [Next]_vars => ConfirmsCounted'
  <2> SUFFICES ASSUME TypeOK, ConfirmsCounted, [Next]_vars PROVE ConfirmsCounted'
    OBVIOUS
  <2>1. ASSUME UNCHANGED <<row, confirms, reopened>> PROVE ConfirmsCounted'
    BY <2>1 DEF ConfirmsCounted
  <2>2. ASSUME NEW s \in Staff, SaveOrder(s) PROVE ConfirmsCounted'
    <3> DEFINE o == deskJob[s].order
               edited == Edited(deskJob[s].action, deskJob[s].copy, s)
    <3>1. o \in Orders /\ confirms' = confirms
      BY <2>2 DEF SaveOrder, TypeOK
    <3>2. row'[o] = edited /\ \A p \in Orders \ {o} : row'[p] = row[p]
      BY <2>2, <3>1 DEF SaveOrder, TypeOK
    <3>3. reopened' = [reopened EXCEPT
                         ![o] = IF edited.status = "PENDING" /\ row[o].status # "PENDING"
                                THEN reopened[o] + 1 ELSE reopened[o]]
      BY <2>2 DEF SaveOrder
    <3>4. \A p \in Orders : confirms[p] \in Nat /\ reopened[p] \in Nat
      BY DEF TypeOK
    <3>5. /\ \A p \in Orders \ {o} : reopened'[p] = reopened[p]
          /\ reopened'[o] = IF edited.status = "PENDING" /\ row[o].status # "PENDING"
                            THEN reopened[o] + 1 ELSE reopened[o]
      BY <3>1, <3>3 DEF TypeOK
    <3> HIDE DEF edited
    <3> QED
      BY <3>1, <3>2, <3>4, <3>5 DEF ConfirmsCounted
  <2>3. ASSUME NEW h \in Handlers, Settle(h) PROVE ConfirmsCounted'
    <3> DEFINE o == callback[h].order
    <3>1. o \in Orders /\ reopened' = reopened
      BY <2>3 DEF Settle, TypeOK
    <3>2. row'[o] = Settled(row[o]) /\ \A p \in Orders \ {o} : row'[p] = row[p]
      BY <2>3, <3>1 DEF Settle, TypeOK
    <3>3. /\ \A p \in Orders \ {o} : confirms'[p] = confirms[p]
          /\ confirms'[o] = IF Settled(row[o]).status # row[o].status
                            THEN confirms[o] + 1 ELSE confirms[o]
      BY <2>3, <3>1 DEF Settle, TypeOK
    <3>4. Settled(row[o]).status = IF row[o].status = "PENDING" THEN "CONFIRMED" ELSE row[o].status
      BY <3>1 DEF Settled, TypeOK, Columns
    <3>5. \A p \in Orders : confirms[p] \in Nat /\ reopened[p] \in Nat
      BY DEF TypeOK
    <3> QED
      BY <3>1, <3>2, <3>3, <3>4, <3>5 DEF ConfirmsCounted
  <2> QED
    BY <2>1, <2>2, <2>3
    DEF Next, OpenOrder, LosePost, Receive, VerifyOk, Abandon,
        StartPayment, PayAtEsewa, vars, history
<1>3. TypeOK /\ ConfirmsCounted => ConfirmedOnce
  BY DEF TypeOK, ConfirmsCounted, ConfirmedOnce
<1> QED
  BY <1>1, <1>2, <1>3, TypeCorrect, PTL DEF Spec

(* A verification is undone only by a save of an older copy                 *)
(* (dashboard.py:717, 742).                                                 *)
THEOREM StaleSavesUnverify == Spec => OnlyStaleSavesUnverify
<1> USE OrderDeskAssumption
<1>1. ASSUME TypeOK, [Next]_vars, NEW o \in Orders,
             row[o].payment = "VERIFIED", row'[o].payment = "PENDING"
      PROVE  \E s \in Staff : /\ deskJob[s].order = o
                              /\ deskJob[s].copy.payment = "PENDING"
                              /\ deskJob'[s] = NoJob
  <2>1. ASSUME NEW h \in Handlers, Settle(h) PROVE FALSE
    <3>1. row'[o] = row[o] \/ row'[o] = Settled(row[o])
      BY <2>1 DEF Settle, TypeOK
    <3>2. Settled(row[o]).payment = "VERIFIED"
      BY DEF Settled, TypeOK, Columns
    <3> QED
      BY <1>1, <3>1, <3>2
  <2>2. PICK s \in Staff : SaveOrder(s)
    BY <1>1, <2>1
    DEF Next, OpenOrder, LosePost, Receive, VerifyOk, Abandon,
        StartPayment, PayAtEsewa, vars
  <2>3. deskJob[s].order = o /\ row'[o] = Edited(deskJob[s].action, deskJob[s].copy, s)
    BY <1>1, <2>2 DEF SaveOrder, TypeOK
  <2>4. deskJob[s].copy \in Columns /\ deskJob[s].action \in Actions
    BY <1>1 DEF TypeOK
  <2>5. deskJob[s].copy.payment = "PENDING"
    BY <1>1, <2>3, <2>4 DEF Edited, Columns, Actions
  <2>6. deskJob'[s] = NoJob
    BY <1>1, <2>2 DEF SaveOrder, TypeOK
  <2> QED
    BY <2>3, <2>5, <2>6
<1>2. TypeOK /\ [Next]_vars =>
        [\A o \in Orders : row[o].payment = "VERIFIED" /\ row'[o].payment = "PENDING" =>
           \E s \in Staff : /\ deskJob[s].order = o
                            /\ deskJob[s].copy.payment = "PENDING"
                            /\ deskJob'[s] = NoJob]_vars
  BY <1>1
<1> QED
  BY <1>2, TypeCorrect, PTL DEF Spec, OnlyStaleSavesUnverify

(* A cancelled order comes back to life only by a dashboard save that moves *)
(* it on or writes a copy from before the cancellation (dashboard.py:734,  *)
(* views.py:1046).                                                         *)
THEOREM StaffRevive == Spec => OnlyStaffRevive
<1> USE OrderDeskAssumption
<1>1. ASSUME TypeOK, [Next]_vars, NEW o \in Orders,
             row[o].status = "CANCELLED", row'[o].status # "CANCELLED"
      PROVE  \E s \in Staff : /\ deskJob[s].order = o
                              /\ deskJob'[s] = NoJob
                              /\ \/ deskJob[s].action \in {"confirm", "process", "ship", "deliver"}
                                 \/ deskJob[s].copy.status # "CANCELLED"
  <2>1. ASSUME NEW h \in Handlers, Settle(h) PROVE FALSE
    <3>1. row'[o] = row[o] \/ row'[o] = Settled(row[o])
      BY <2>1 DEF Settle, TypeOK
    <3>2. Settled(row[o]).status = "CANCELLED"
      BY <1>1 DEF Settled, TypeOK, Columns
    <3> QED
      BY <1>1, <3>1, <3>2
  <2>2. PICK s \in Staff : SaveOrder(s)
    BY <1>1, <2>1
    DEF Next, OpenOrder, LosePost, Receive, VerifyOk, Abandon,
        StartPayment, PayAtEsewa, vars
  <2>3. deskJob[s].order = o /\ row'[o] = Edited(deskJob[s].action, deskJob[s].copy, s)
    BY <1>1, <2>2 DEF SaveOrder, TypeOK
  <2>4. deskJob[s].copy \in Columns /\ deskJob[s].action \in Actions
    BY <1>1 DEF TypeOK
  <2>5. \/ deskJob[s].action \in {"confirm", "process", "ship", "deliver"}
        \/ deskJob[s].copy.status # "CANCELLED"
    BY <1>1, <2>3, <2>4 DEF Edited, Columns, Actions
  <2>6. deskJob'[s] = NoJob
    BY <1>1, <2>2 DEF SaveOrder, TypeOK
  <2> QED
    BY <2>3, <2>5, <2>6
<1>2. TypeOK /\ [Next]_vars =>
        [\A o \in Orders : row[o].status = "CANCELLED" /\ row'[o].status # "CANCELLED" =>
           \E s \in Staff : /\ deskJob[s].order = o
                            /\ deskJob'[s] = NoJob
                            /\ \/ deskJob[s].action \in {"confirm", "process", "ship", "deliver"}
                               \/ deskJob[s].copy.status # "CANCELLED"]_vars
  BY <1>1
<1> QED
  BY <1>2, TypeCorrect, PTL DEF Spec, OnlyStaffRevive
=============================================================================
