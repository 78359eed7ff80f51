---------------------------- MODULE MCReferences ----------------------------
(* An instance of References for TLC. *)
EXTENDS References, TLC

Forward == {1}

Symmetry == Permutations(Callers) \cup Permutations(Handles)

RequestIds == 1..4

(* Which id a request uses first is immaterial: they are taken in order.     *)
IdsInOrder ==
    broker.open => \A i \in Ids : broker.seen[i].used /\ i > 1 => broker.seen[i - 1].used

(* Bound: a program runs over inline data, in a store as it was created and  *)
(* while no other reduce is in progress.  The broker and the store share no  *)
(* state.                                                                    *)
ProgramsAlone ==
    broker.open =>
        /\ clock = 1 /\ faults = 0
        /\ \A h \in Handles : files[h] = NoFile
        /\ \A c \in Callers : job[c].pc = "idle" \/ job[c].by = "program"
=============================================================================
