---------------------------- MODULE MCCartLines ----------------------------
(* A product that is sold by itself and as one variant.                    *)
EXTENDS CartLines, TLC

MCItems == {<<1, 0>>, <<1, 1>>}
Symmetry == Permutations(Workers)
=============================================================================
