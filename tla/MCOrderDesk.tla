---------------------------- MODULE MCOrderDesk ----------------------------
(* A desk with two orders, two staff members and two callback handlers.    *)
EXTENDS OrderDesk, TLC

Symmetry == Permutations(Orders) \cup Permutations(Staff) \cup Permutations(Handlers)
=============================================================================
