---------------------------- MODULE MCAdmission ----------------------------
(* Admission for two participants, one of whom has two requests in flight, *)
(* with interchangeable session ids.                                       *)
EXTENDS Admission, TLC

CONSTANTS p1, p2

TwoTabs == p1 :> 2 @@ p2 :> 1
OneTab == p1 :> 1 @@ p2 :> 1
Symmetry == Permutations(Session)
=============================================================================
