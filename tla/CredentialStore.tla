-------------------------- MODULE CredentialStore --------------------------
(***************************************************************************)
(* What the file store of internal/secretstore promises, whatever happens  *)
(* to the custody of its data key: entries change one at a time, only by   *)
(* a save or a deletion; once the store is encrypted it stays encrypted,   *)
(* under the same key, until the whole of it is purged.                    *)
(***************************************************************************)
CONSTANTS Keys, Names, Values, None

VARIABLES
    entries,    \* what every name holds; None: nothing
    sealedBy    \* the data key the entries are encrypted under; None: plaintext

Empty == [n \in Names |-> None]

Init ==
    /\ entries \in [Names -> Values \cup {None}]
    /\ sealedBy = None

(* A plaintext store may be encrypted, an encrypted one keeps its key. *)
SealKept == sealedBy' = sealedBy \/ (sealedBy = None /\ sealedBy' \in Keys)

(* A save or a deletion of one entry. *)
Put(n, v) ==
    /\ entries' = [entries EXCEPT ![n] = v]
    /\ SealKept

Seal ==
    /\ SealKept
    /\ UNCHANGED entries

Purge ==
    /\ entries' = Empty
    /\ sealedBy' = None

Next ==
    \/ \E n \in Names, v \in Values \cup {None} : Put(n, v)
    \/ Seal
    \/ Purge

Spec == Init /\ [][Next]_<<entries, sealedBy>>
=============================================================================
