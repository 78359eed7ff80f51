--------------------------- MODULE MCTokenGrants ---------------------------
(* Instances of TokenGrants for TLC.  An access token lives one tick, a    *)
(* refresh token two; the clock passes both.                               *)
EXTENDS TokenGrants, TLC

CONSTANTS alice, bob, q1, q2

MCSubjects == {alice, bob}
MCRequests == {q1, q2}
Symmetry == Permutations(MCRequests) \cup Permutations(MCSubjects)
=============================================================================
