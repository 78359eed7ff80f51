---------------------------- MODULE MCDelegation ----------------------------
(* Instances of Delegation for TLC. *)
EXTENDS Delegation, TLC

Symmetry == Permutations(Callers) \cup Permutations(Calls) \cup Permutations(Accounts)

(* Two principals with one verified email, and the discovery subject.        *)
Emails == [s \in Scopes |-> IF s = Base THEN "ops" ELSE "user"]

(* Keys of every account, and a document that is none; configurations that   *)
(* name their account or leave it to the key, one with an endpoint in clear  *)
(* text and one without a scope.                                             *)
SomeDocuments ==
    {KeyOf(e) : e \in Accounts}
      \cup {[account |-> e, endpoint |-> "https", isKey |-> FALSE] : e \in Accounts}

SomeRequests ==
    [account : Accounts \cup {NoKey}, endpoint : {"https", ""}, scopes : {TRUE}, discovery : BOOLEAN]
      \cup {[account |-> NoKey, endpoint |-> "http", scopes |-> TRUE, discovery |-> TRUE],
            [account |-> NoKey, endpoint |-> "", scopes |-> FALSE, discovery |-> TRUE]}

(* Bounds: how often the connection is replaced; and the sessions, which are *)
(* the same whatever the bearer, are followed for the OAuth connection.      *)
FewEpochs == conn.epoch <= 1

SessionsOfOAuth == Delegated => minted = <<>>

(* The calls of a delegated connection that share a derivation are a         *)
(* handshake and what else its caller does meanwhile, not two handshakes;    *)
(* and one call at most is under way while an operator's request is.         *)
FewAtOnce ==
    Delegated =>
        /\ Cardinality({p \in Calls : call[p].pc # "idle" /\ call[p].method # "call"}) <= 1
        /\ op # [o \in Operators |-> Ready] => Cardinality({p \in Calls : call[p].pc # "idle"}) <= 1
=============================================================================
