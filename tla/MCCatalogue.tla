---------------------------- MODULE MCCatalogue ----------------------------
(* One product and its editors.                                            *)
EXTENDS Catalogue, TLC

Symmetry == Permutations(Editors)
=============================================================================
