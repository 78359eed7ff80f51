----------------------------- MODULE MCRegistry -----------------------------
(* Instances of Registry for TLC.  Handlers are interchangeable. *)
EXTENDS Registry, TLC

Reliable == {TRUE}
Unreliable == {TRUE, FALSE}
Switch == {0, 1}

Symmetry == Permutations(Handlers)
=============================================================================
