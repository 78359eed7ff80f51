------------------------------ MODULE MCSignIn ------------------------------
(* An instance of SignIn for TLC.  Sources are interchangeable, and so are flows
and providers. *)
EXTENDS SignIn, TLC

CONSTANTS alice, bob, staff, Staff

MCLower(name) == IF name = Staff THEN staff ELSE name

(* Only a part of an address. *)
MCMalformed == {[kind |-> "email", value |-> staff]}
MCSpecs == {[kind |-> "subject", value |-> alice], [kind |-> "group", value |-> Staff],
            [kind |-> "domain", value |-> bob]} \cup MCMalformed
(* An address is its account's name. *)
MCClaims ==
    {[subject |-> alice, email |-> alice, verified |-> TRUE, groups |-> {}, hd |-> TRUE],
     [subject |-> bob, email |-> bob, verified |-> FALSE, groups |-> {""}, hd |-> TRUE],
     [subject |-> bob, email |-> bob, verified |-> TRUE, groups |-> {staff}, hd |-> FALSE]}
MCPostures == {[hd |-> TRUE, any |-> FALSE], [hd |-> FALSE, any |-> FALSE],
               [hd |-> TRUE, any |-> TRUE]}

(* Clients, sweeps and restarts; edits and damage during a sign-in; two    *)
(* sign-ins and a new signing key.                                         *)
MCSpent == {[ids |-> 0, kids |-> 1, edits |-> 2, damages |-> 1, signIns |-> 1, restarts |-> 0],
            [ids |-> 1, kids |-> 1, edits |-> 0, damages |-> 0, signIns |-> 1, restarts |-> 1],
            [ids |-> 1, kids |-> 0, edits |-> 2, damages |-> 1, signIns |-> 0, restarts |-> 1]}

Symmetry == Permutations(Sources) \cup Permutations(Flows) \cup Permutations(Providers)
=============================================================================
