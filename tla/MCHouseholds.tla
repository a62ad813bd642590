---------------------------- MODULE MCHouseholds ----------------------------
(* Users and request slots are interchangeable.                            *)
EXTENDS Households, TLC

Symmetry == Permutations(User) \cup Permutations(Req)
=============================================================================
