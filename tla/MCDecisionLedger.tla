-------------------------- MODULE MCDecisionLedger --------------------------
(***************************************************************************)
(* A small instance of DecisionLedger for TLC.  Three grants, each with    *)
(* another limit that binds: the first admits one request per window, the  *)
(* bytes of the second admit one of its three requests, the third admits   *)
(* one request; the last two expire at once.  Every behaviour stays with   *)
(* one of them.  A caller may wait one tick for the lock, and one start    *)
(* may fail to open the file.                                              *)
(***************************************************************************)
EXTENDS DecisionLedger, TLC

CONSTANTS c1, c2, g1, g2, g3

MCCallers == {c1, c2}
MCGrants == {g1, g2, g3}
MCMaxRequests == (g1 :> 2) @@ (g2 :> 3) @@ (g3 :> 1)
MCMaxBytes == (g1 :> 9) @@ (g2 :> 5) @@ (g3 :> 9)
MCMaxResponse == (g1 :> 1) @@ (g2 :> 2) @@ (g3 :> 1)
MCRateRequests == (g1 :> 1) @@ (g2 :> 3) @@ (g3 :> 3)
MCRateWindow == (g1 :> 2) @@ (g2 :> 2) @@ (g3 :> 2)
MCExpiry == (g1 :> 3) @@ (g2 :> 1) @@ (g3 :> 1)

CallerSymmetry == Permutations(MCCallers)

(* The grants in use: of the lines, of what crossed and of the callers.    *)
OneGrant ==
    Cardinality({r.grant : r \in {crossed[i] : i \in DOMAIN crossed}
                                  \cup {ledger[i].rec : i \in DOMAIN ledger}
                                  \cup {call[c] : c \in {d \in Callers : pc[d] # "idle"}}}) <= 1
=============================================================================
