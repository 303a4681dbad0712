------------------------------- MODULE MCSetup -------------------------------
(***************************************************************************)
(* A demo fund with two LPs, and the sandbox funds of two days with one LP  *)
(* between them.                                                            *)
(***************************************************************************)
EXTENDS Setup, TLC

MCDay == {"day1", "day2"}
MCLps == [f \in Fund |-> IF f = Demo THEN <<"kelvin", "arran">> ELSE <<"endowment">>]

Symmetry == Permutations(Process)
=============================================================================
