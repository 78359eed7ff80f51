---------------------------- MODULE MCInflight ----------------------------
(* A small instance of Inflight: fewer slots than keys, so the map fills,  *)
(* and a clock that passes the TTL.                                        *)
EXTENDS Inflight

CONSTANTS c1, c2, k1, k2

MCCallers == {c1, c2}
MCKeys == {k1, k2}
=============================================================================
