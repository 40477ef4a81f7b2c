------------------------------ MODULE OrderDesk ------------------------------
(***************************************************************************)
(* The life of placed orders: staff act on them from the dashboard         *)
(* (storefront.dashboard.dashboard_order), and eSewa sends customers back  *)
(* to storefront.views.esewa_callback, possibly several times, early, late *)
(* or never.  A dashboard POST reads the order without a lock and later    *)
(* saves the columns it may edit; a callback reads without a lock, calls   *)
(* the gateway, and then writes under the order's row lock.                *)
(***************************************************************************)
EXTENDS Naturals, FiniteSets

CONSTANTS Orders,    \* orders already placed, PENDING, their stock reserved
          Staff,     \* staff members working at the dashboard
          NoStaff,   \* confirmed_by is NULL
          Handlers,  \* workers serving gateway callbacks
          NoOrder,   \* gateway_txn_id is NULL / the handler serves no order
          MaxPosts   \* bound: dashboard POSTs in a behaviour

ASSUME OrderDeskAssumption ==
  /\ NoStaff \notin Staff
  /\ NoOrder \notin Orders
  /\ MaxPosts \in Nat

VARIABLES
  row,       \* the columns of each order that the dashboard writes
  txn,       \* gateway_txn_id of each order
  restocks,  \* how many times the order's lines were added back to stock
  deskJob,   \* each staff member's POST in progress
  callback,  \* each handler's callback in progress
  atEsewa,   \* what the customer has done at eSewa: nothing, got the form, paid
  posts,     \* dashboard POSTs so far
  vouched,   \* history: staff marked the payment verified
  confirms,  \* history: times a callback confirmed the order
  reopened   \* history: times a save put the order back to PENDING

history == <<vouched, confirms, reopened>>
vars == <<row, txn, restocks, deskJob, callback, atEsewa, posts, history>>

Status == {"PENDING", "CONFIRMED", "PROCESSING", "SHIPPED", "DELIVERED", "CANCELLED"}
PaymentStatus == {"PENDING", "VERIFIED", "REJECTED"}

\* confirmedAt says who set the timestamp last.
Columns == [status : Status, payment : PaymentStatus,
            confirmedAt : {"never", "desk", "gateway"}, confirmedBy : Staff \cup {NoStaff}]

\* What the POSTed "action" field holds; anything else is saved unedited.
Actions == {"confirm", "verify_payment", "reject_payment",
            "process", "ship", "deliver", "cancel", "other"}

\* What a callback carries besides the order number it is about.
Messages == [signed : BOOLEAN, amount : {"full", "short"}]

Placed == [status |-> "PENDING", payment |-> "PENDING",
           confirmedAt |-> "never", confirmedBy |-> NoStaff]
NoJob == [order |-> NoOrder, action |-> "other", copy |-> Placed]
NoCallback == [phase |-> "idle", order |-> NoOrder, msg |-> [signed |-> FALSE, amount |-> "short"]]

Init ==
  /\ row = [o \in Orders |-> Placed]
  /\ txn = [o \in Orders |-> NoOrder]
  /\ restocks = [o \in Orders |-> 0]
  /\ deskJob = [s \in Staff |-> NoJob]
  /\ callback = [h \in Handlers |-> NoCallback]
  /\ atEsewa = [o \in Orders |-> "nothing"]
  /\ posts = 0
  /\ vouched = [o \in Orders |-> FALSE]
  /\ confirms = [o \in Orders |-> 0]
  /\ reopened = [o \in Orders |-> 0]

-----------------------------------------------------------------------------
(* The dashboard.                                                          *)

\* Mutant: a status literal is misspelt.
EditedMisspelt(action, copy, s) ==
  IF action = "deliver" THEN [copy EXCEPT !.status = "DELIVER"] ELSE copy

\* Mutant: moving the order on resets its payment.
EditedResetsPayment(action, copy, s) ==
  CASE action = "confirm" -> [status |-> "CONFIRMED", payment |-> "VERIFIED",
                              confirmedAt |-> "desk", confirmedBy |-> s]
    [] action = "process" -> [copy EXCEPT !.status = "PROCESSING", !.payment = "PENDING"]
    [] OTHER -> copy

\* The order columns after the action has been applied to the copy.
Edited(action, copy, s) ==
  CASE action = "confirm" -> [status |-> "CONFIRMED", payment |-> "VERIFIED",
                              confirmedAt |-> "desk", confirmedBy |-> s]
    [] action = "verify_payment" -> [copy EXCEPT !.payment = "VERIFIED"]
    [] action = "reject_payment" -> [copy EXCEPT !.payment = "REJECTED", !.status = "CANCELLED"]
    [] action = "process" -> [copy EXCEPT !.status = "PROCESSING"]
    [] action = "ship" -> [copy EXCEPT !.status = "SHIPPED"]
    [] action = "deliver" -> [copy EXCEPT !.status = "DELIVERED"]
    [] action = "cancel" -> [copy EXCEPT !.status = "CANCELLED"]
    [] OTHER -> copy

\* The POST reads the order, unlocked; no status forbids any action.
OpenOrder(s, o, action) ==
  /\ deskJob[s] = NoJob
  /\ posts < MaxPosts
  /\ posts' = posts + 1
  /\ deskJob' = [deskJob EXCEPT ![s] = [order |-> o, action |-> action, copy |-> row[o]]]
  /\ UNCHANGED <<row, txn, restocks, callback, atEsewa, history>>

\* Mutant: only a pending order gives its stock back.
RestockOnlyPending(copy, edited) == edited.status = "CANCELLED" /\ copy.status = "PENDING"

\* The copy says that this save cancels the order.
Restock(copy, edited) == edited.status = "CANCELLED" /\ copy.status # "CANCELLED"

\* One transaction: all the editable columns are written, the ones this action
\* did not touch included, and the lines go back to stock on a cancellation.
SaveOrder(s) ==
  LET job == deskJob[s]
      o == job.order
      edited == Edited(job.action, job.copy, s)
  IN /\ o # NoOrder
     /\ row' = [row EXCEPT ![o] = edited]
     /\ restocks' = [restocks EXCEPT ![o] = IF Restock(job.copy, edited) THEN @ + 1 ELSE @]
     /\ deskJob' = [deskJob EXCEPT ![s] = NoJob]
     /\ vouched' = [vouched EXCEPT ![o] = @ \/ job.action \in {"confirm", "verify_payment"}]
     /\ reopened' = [reopened EXCEPT
                       ![o] = IF edited.status = "PENDING" /\ row[o].status # "PENDING"
                              THEN @ + 1 ELSE @]
     /\ UNCHANGED <<txn, callback, atEsewa, posts, confirms>>

\* The worker dies, or the database aborts, before the save commits.
LosePost(s) ==
  /\ deskJob[s] # NoJob
  /\ deskJob' = [deskJob EXCEPT ![s] = NoJob]
  /\ UNCHANGED <<row, txn, restocks, callback, atEsewa, posts, history>>

-----------------------------------------------------------------------------
(* The eSewa callback.                                                     *)

\* The signed form: the customer can pay this order, its whole total, at eSewa.
Initiate(o) == [atEsewa EXCEPT ![o] = "form"]

\* Checkout's last step, once per order; when the gateway is not ready or fails
\* it is left out and the order stays with the manual payment.
StartPayment(o) ==
  /\ atEsewa[o] = "nothing"
  /\ atEsewa' = Initiate(o)
  /\ UNCHANGED <<row, txn, restocks, deskJob, callback, posts, history>>

\* eSewa has the money, and reports COMPLETE from now on.
PayAtEsewa(o) ==
  /\ atEsewa[o] = "form"
  /\ atEsewa' = [atEsewa EXCEPT ![o] = "paid"]
  /\ UNCHANGED <<row, txn, restocks, deskJob, callback, posts, history>>

\* The order is looked up by the signed reference; an order already verified
\* is left alone.  The read takes no lock.
Receive(h, o, msg) ==
  /\ callback[h].phase = "idle"
  /\ row[o].payment # "VERIFIED"
  /\ callback' = [callback EXCEPT ![h] = [phase |-> "verify", order |-> o, msg |-> msg]]
  /\ UNCHANGED <<row, txn, restocks, deskJob, atEsewa, posts, history>>

\* Mutant: the signed redirect is believed without asking eSewa.
StatusNotChecked(o) == TRUE

SignatureMatches(msg) == msg.signed
StatusComplete(o) == atEsewa[o] = "paid"
CoversTotal(msg) == msg.amount = "full"

VerifyOk(h) ==
  /\ callback[h].phase = "verify"
  /\ SignatureMatches(callback[h].msg)
  /\ StatusComplete(callback[h].order)
  /\ CoversTotal(callback[h].msg)
  /\ callback' = [callback EXCEPT ![h].phase = "settle"]
  /\ UNCHANGED <<row, txn, restocks, deskJob, atEsewa, posts, history>>

\* Verification fails (a wrong signature, an unpaid or underpaid order, or a
\* status request that fails or times out), or the worker dies: no effect.
Abandon(h) ==
  /\ callback[h].phase # "idle"
  /\ callback' = [callback EXCEPT ![h] = NoCallback]
  /\ UNCHANGED <<row, txn, restocks, deskJob, atEsewa, posts, history>>

\* The reference, which is the order's own number, already settled another order.
Replay(o) == \E other \in Orders \ {o} : txn[other] = o

\* Mutant: every settled callback confirms, whatever the order's status.
SettledAlwaysConfirms(r) ==
  [r EXCEPT !.payment = "VERIFIED", !.status = "CONFIRMED", !.confirmedAt = "gateway"]

Settled(r) ==
  IF r.status = "PENDING"
  THEN [r EXCEPT !.payment = "VERIFIED", !.status = "CONFIRMED", !.confirmedAt = "gateway"]
  ELSE [r EXCEPT !.payment = "VERIFIED"]

\* One transaction on the locked row.  The payment status read before the
\* gateway call is not read again.
Settle(h) ==
  LET o == callback[h].order
  IN /\ callback[h].phase = "settle"
     /\ ~Replay(o)
     /\ row' = [row EXCEPT ![o] = Settled(@)]
     /\ txn' = [txn EXCEPT ![o] = o]
     /\ confirms' = [confirms EXCEPT ![o] = IF Settled(row[o]).status # row[o].status
                                            THEN @ + 1 ELSE @]
     /\ callback' = [callback EXCEPT ![h] = NoCallback]
     /\ UNCHANGED <<restocks, deskJob, atEsewa, posts, vouched, reopened>>

-----------------------------------------------------------------------------
Next ==
  \/ \E s \in Staff : \/ \E o \in Orders, action \in Actions : OpenOrder(s, o, action)
                      \/ SaveOrder(s)
                      \/ LosePost(s)
  \/ \E h \in Handlers : \/ \E o \in Orders, msg \in Messages : Receive(h, o, msg)
                         \/ VerifyOk(h)
                         \/ Abandon(h)
                         \/ Settle(h)
  \/ \E o \in Orders : StartPayment(o) \/ PayAtEsewa(o)

Spec == Init /\ [][Next]_vars

-----------------------------------------------------------------------------
TypeOK ==
  /\ row \in [Orders -> Columns]
  /\ txn \in [Orders -> Orders \cup {NoOrder}]
  /\ restocks \in [Orders -> Nat]
  /\ deskJob \in [Staff -> [order : Orders \cup {NoOrder}, action : Actions, copy : Columns]]
  /\ callback \in [Handlers -> [phase : {"idle", "verify", "settle"},
                                order : Orders \cup {NoOrder}, msg : Messages]]
  /\ \A h \in Handlers : callback[h].phase # "idle" => callback[h].order \in Orders
  /\ atEsewa \in [Orders -> {"nothing", "form", "paid"}]
  /\ posts \in Nat
  /\ vouched \in [Orders -> BOOLEAN]
  /\ confirms \in [Orders -> Nat]
  /\ reopened \in [Orders -> Nat]

\* An order counts as paid only if eSewa has the money or a staff member said
\* so, and carries a gateway transaction only if eSewa has the money: no mix of
\* early, late, repeated or failing callbacks and stale saves gets round that.
VerifiedIsBacked ==
  \A o \in Orders : /\ row[o].payment = "VERIFIED" => atEsewa[o] = "paid" \/ vouched[o]
                    /\ txn[o] # NoOrder => atEsewa[o] = "paid"

\* A cancelled order has had its lines put back: a cancellation never leaks
\* stock, whichever of several racing saves and callbacks comes last.
CancelledIsRestocked ==
  \A o \in Orders : row[o].status = "CANCELLED" => restocks[o] > 0

\* Concurrent or repeated callbacks confirm an order once, unless a staff save
\* has put it back to PENDING in between (views.py:1046).
ConfirmedOnce == \A o \in Orders : confirms[o] <= 1 + reopened[o]

\* A verified payment goes back to pending only when a dashboard save writes a
\* copy it read before the verification.
OnlyStaleSavesUnverify ==
  [][\A o \in Orders : row[o].payment = "VERIFIED" /\ row'[o].payment = "PENDING" =>
       \E s \in Staff : /\ deskJob[s].order = o
                        /\ deskJob[s].copy.payment = "PENDING"
                        /\ deskJob'[s] = NoJob]_vars

\* A cancelled order comes back to life, without its stock, only when staff move
\* it on or save a copy read before the cancellation; a gateway callback, early,
\* late or repeated, never revives one (dashboard.py:734, views.py:1046).
OnlyStaffRevive ==
  [][\A o \in Orders : row[o].status = "CANCELLED" /\ row'[o].status # "CANCELLED" =>
       \E s \in Staff : /\ deskJob[s].order = o
                        /\ deskJob'[s] = NoJob
                        /\ \/ deskJob[s].action \in {"confirm", "process", "ship", "deliver"}
                           \/ deskJob[s].copy.status # "CANCELLED"]_vars

\* "Restock when order is cancelled (only if it wasn't already cancelled)"
\* (dashboard.py:744).
RestockOnlyIfNotCancelled ==
  [][\A o \in Orders : restocks'[o] > restocks[o] => row[o].status # "CANCELLED"]_vars
=============================================================================
