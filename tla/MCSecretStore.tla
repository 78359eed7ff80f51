--------------------------- MODULE MCSecretStore ---------------------------
(* Instances of SecretStore for TLC.                                       *)
EXTENDS SecretStore, TLC

CONSTANTS h1, h2, b1, b2, b3

(* Every protector has a backend of its own. *)
Apart == (Keyring :> b1) @@ (h1 :> b2) @@ (h2 :> b3)

Symmetry == Permutations(Keys)
=============================================================================
