----------------------------- MODULE MCStockRoom -----------------------------
(* A small stock room for TLC: product 1 is plain, product 2 is sold both    *)
(* by itself and by variant.                                                 *)
EXTENDS StockRoom, TLC

MCRows == {<<1, 0>>, <<2, 0>>, <<2, 1>>}
MCStock == [k \in MCRows |-> IF k = <<1, 0>> THEN 2 ELSE 1]

\* Two pieces of the plain product with a variant, or product 2 both ways.
MCCarts == {[k \in MCRows |-> CASE k = <<1, 0>> -> 2 [] k = <<2, 1>> -> 1 [] OTHER -> 0],
            [k \in MCRows |-> IF k[1] = 2 THEN 1 ELSE 0]}
=============================================================================
