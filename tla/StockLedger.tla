----------------------------- MODULE StockLedger -----------------------------
(***************************************************************************)
(* What the shop promises about stock, with no requests, carts or locks:   *)
(* an order takes all of its lines from the shelf in one step, or none of  *)
(* them, and only when every line is covered.  Module Checkout implements  *)
(* it.                                                                     *)
(***************************************************************************)
EXTENDS Integers, Sequences

CONSTANTS Rows,          \* the database rows that carry a stock_quantity
          Customers,     \* accounts
          InitialStock,  \* stock of each row before the first order
          MaxQty         \* bound: largest quantity of an order line

VARIABLES stock,   \* committed stock_quantity of each row
          orders   \* committed orders, oldest first

ledgerVars == <<stock, orders>>

Init == /\ stock = InitialStock
        /\ orders = <<>>

Place(c, lines) ==
  /\ \E k \in Rows : lines[k] > 0
  /\ \A k \in Rows : lines[k] <= stock[k]
  /\ stock' = [k \in Rows |-> stock[k] - lines[k]]
  /\ orders' = Append(orders, [customer |-> c, lines |-> lines])

Next == \E c \in Customers : \E lines \in [Rows -> 0..MaxQty] : Place(c, lines)

Spec == Init /\ [][Next]_ledgerVars
=============================================================================
