------------------------------ MODULE Inventory ------------------------------
(***************************************************************************)
(* What the shop promises about stock when staff work on it too, with no   *)
(* transactions, locks or pages: an order takes all its lines at once,     *)
(* giving an order back returns all its lines at once, and a count by      *)
(* staff replaces the numbers of one product and of nothing else.  Module  *)
(* StockRoom implements it.                                                *)
(***************************************************************************)
EXTENDS Integers, Sequences

CONSTANTS Rows,          \* product and variant rows, <<product, variant>>
          Carts,         \* the lines a customer may order
          InitialStock   \* stock of each row before the first order

VARIABLES stock,   \* stock_quantity of each row
          placed   \* orders with how often their lines were given back

inventoryVars == <<stock, placed>>

Init == /\ stock = InitialStock
        /\ placed = <<>>

Place(lines) ==
  /\ \A k \in Rows : lines[k] <= stock[k]
  /\ stock' = [k \in Rows |-> stock[k] - lines[k]]
  /\ placed' = Append(placed, [lines |-> lines, back |-> 0])

GiveBack(i) ==
  /\ stock' = [k \in Rows |-> stock[k] + placed[i].lines[k]]
  /\ placed' = [placed EXCEPT ![i].back = @ + 1]

Recount(p) ==
  /\ stock' \in [Rows -> Nat]
  /\ \A k \in Rows : k[1] # p => stock'[k] = stock[k]
  /\ UNCHANGED placed

Next == \/ \E lines \in Carts : Place(lines)
        \/ \E i \in DOMAIN placed : GiveBack(i)
        \/ \E k \in Rows : Recount(k[1])

Spec == Init /\ [][Next]_inventoryVars
=============================================================================
