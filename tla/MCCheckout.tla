----------------------------- MODULE MCCheckout -----------------------------
(* Small shops for TLC: product 1 has no variants, product 2 has two.      *)
EXTENDS Checkout, TLC

MCRows == {<<1, 0>>, <<2, 0>>, <<2, 1>>}

\* Every product is sold one way only.
PlainShelf == {<<1, 0>>, <<2, 1>>}
PlainStock == (<<1, 0>> :> 2) @@ (<<2, 0>> :> 0) @@ (<<2, 1>> :> 1)

\* Product 2 is sold as itself and as its variant.
MixedShelf == {<<1, 0>>, <<2, 0>>, <<2, 1>>}
MixedStock == (<<1, 0>> :> 0) @@ (<<2, 0>> :> 1) @@ (<<2, 1>> :> 1)

Symmetry == Permutations(Customers) \cup Permutations(Workers)
=============================================================================
