----------------------------- MODULE Delegation -----------------------------
(* The administration of a delegated connection (internal/mcp/delegation.go, *)
(* and what it uses of gateway.go, admin.go and upstreampersist.go) around   *)
(* the calls of UpstreamCalls: adding it, rotating its key, changing its     *)
(* configuration, disabling, revoking and removing it, and restarts.         *)
(*                                                                           *)
(* Several operators' requests may be under way; each step between two       *)
(* registry locks, network calls and writes is an action.                    *)
EXTENDS UpstreamCalls

CONSTANTS
    Operators,  \* admin requests that may be under way at once
    Documents,  \* what may be given as a service-account key
    Requests    \* what may be given as a delegation configuration

VARIABLES
    disk,   \* the connection's registration, and its key in the secret store
    op,     \* each operator's request
    built   \* the sources built so far

vars == <<conn, call, sessions, initiated, minted, tok, stored, lock, provider, config, cache, inflight,
          faults, disk, op, built>>

callVars == <<call, sessions, initiated, minted, tok, stored, lock, provider, inflight, faults>>

NoKey == "none"

Ready == [pc |-> "idle"]

ASSUME DelegationAssumption ==
    /\ Documents \subseteq [account : Accounts, endpoint : STRING, isKey : BOOLEAN]
    /\ Requests \subseteq [account : Accounts \cup {NoKey}, endpoint : STRING, scopes : BOOLEAN,
                           discovery : BOOLEAN]

(* The store and the registry as they are while the connection is served.    *)
Init ==
    /\ CallInit
    /\ disk = [registered |-> TRUE, revoked |-> FALSE, enabled |-> TRUE,
               account |-> config[1].account, discovery |-> TRUE, key |-> config[1].account]
    /\ op = [o \in Operators |-> Ready]
    /\ built = 1

Delegated == conn.strategy = "dwd"

Idle(o) == op[o].pc = "idle" /\ Delegated

-----------------------------------------------------------------------------
(* A document is a key if it says so, names its account and holds an RSA key.*)
ParseServiceAccountKey(doc) == doc.isKey

(* An absolute URL, HTTPS or of this host. *)
CheckDelegationEndpoint(endpoint) == endpoint \in {"https", "loopback"}

Endpoint(cfg, doc) == IF cfg.endpoint = "" THEN doc.endpoint ELSE cfg.endpoint

(* What a configuration leaves out is taken from the key; an account it      *)
(* names must be the key's.                                                  *)
NewDelegatedTokenSource(cfg, doc) ==
    /\ cfg.account \in {NoKey, doc.account}
    /\ CheckDelegationEndpoint(Endpoint(cfg, doc))
    /\ cfg.scopes

(* A stored key, and the configuration a source was built with.              *)
KeyOf(account) == [account |-> account, endpoint |-> "https", isKey |-> TRUE]

ConfigOf(source) ==
    [account |-> config[source].account, endpoint |-> "https", scopes |-> TRUE, discovery |-> FALSE]

(* buildDelegatedSource: a new source, with its own cache.                   *)
Build(o, step, cfg, doc) ==
    /\ ParseServiceAccountKey(doc) /\ NewDelegatedTokenSource(cfg, doc)
    /\ built < MaxSources
    /\ built' = built + 1
    /\ config' = [config EXCEPT ![built + 1] = [account |-> doc.account, discovery |-> cfg.discovery]]
    /\ op' = [op EXCEPT ![o] = [pc |-> step, source |-> built + 1]]

(* DropCache, of the source the record names.                                *)
DropCache == cache' = [cache EXCEPT ![conn.source] = {}]

-----------------------------------------------------------------------------
(* addDelegatedUpstream: the key is stored before the connection is made.    *)
AddDelegated(o, cfg, doc) ==
    /\ Idle(o)
    /\ Build(o, "register", cfg, doc)
    /\ disk' = [disk EXCEPT !.key = doc.account]
    /\ UNCHANGED <<conn, cache>> /\ UNCHANGED callVars

(* AddUpstream registers a name that is free and answers, DiscoverUpstream   *)
(* too but not enabled; otherwise the key is deleted again.                  *)
Register(o, ok, discover) ==
    /\ op[o].pc = "register"
    /\ IF ok /\ ~conn.here
       THEN /\ conn' = [conn EXCEPT !.here = TRUE, !.enabled = ~discover, !.epoch = @ + 1,
                                    !.bearer = op[o].source, !.source = op[o].source]
            /\ sessions' = [s \in Scopes |-> 0] /\ initiated' = {}
            /\ op' = [op EXCEPT ![o].pc = IF discover THEN "discovered" ELSE "persist"]
            /\ UNCHANGED disk
       ELSE /\ disk' = [disk EXCEPT !.key = NoKey]
            /\ op' = [op EXCEPT ![o] = Ready]
            /\ UNCHANGED <<conn, sessions, initiated>>
    /\ UNCHANGED <<built, config, cache, call, minted, tok, stored, lock, provider, inflight, faults>>

(* persistRegistrationRecord, and persistDelegation after an update.  The    *)
(* read-only mark that an add makes next is the registry's (Registry).       *)
Persist(o) ==
    /\ op[o].pc \in {"persist", "discovered", "update"}
    /\ LET update == op[o].pc = "update"
       IN  disk' = IF update /\ ~disk.registered THEN disk
                   ELSE [disk EXCEPT !.registered = TRUE, !.account = config[op[o].source].account,
                                     !.discovery = config[op[o].source].discovery,
                                     !.revoked = update /\ @,
                                     !.enabled = IF update THEN @ ELSE op[o].pc = "persist"]
    /\ op' = [op EXCEPT ![o] = Ready]
    /\ UNCHANGED <<conn, built, config, cache>> /\ UNCHANGED callVars

(* adminUpdateDelegation.  A key alone keeps the configuration, but for the  *)
(* discovery subject; a configuration alone uses the stored key.             *)
RotateKey(o, doc) ==
    /\ Idle(o) /\ conn.here
    /\ Build(o, "rebind", ConfigOf(conn.source), doc)
    /\ disk' = [disk EXCEPT !.key = doc.account]
    /\ UNCHANGED <<conn, cache>> /\ UNCHANGED callVars

Reconfigure(o, cfg) ==
    /\ Idle(o) /\ conn.here /\ disk.key # NoKey
    /\ Build(o, "rebind", cfg, KeyOf(disk.key))
    /\ UNCHANGED <<conn, disk, cache>> /\ UNCHANGED callVars

ReplaceKey(o, cfg, doc) ==
    /\ Idle(o) /\ conn.here
    /\ Build(o, "rebind", cfg, doc)
    /\ disk' = [disk EXCEPT !.key = doc.account]
    /\ UNCHANGED <<conn, cache>> /\ UNCHANGED callVars

(* RebindUpstream: a revoked connection is enabled again.  A failure leaves  *)
(* the old connection, and the new key.                                      *)
Rebind(o, ok) ==
    /\ op[o].pc = "rebind"
    /\ IF ok /\ conn.here
       THEN /\ conn' = [conn EXCEPT !.epoch = @ + 1, !.bearer = op[o].source,
                                    !.enabled = @ \/ conn.revoked, !.revoked = FALSE]
            /\ sessions' = [s \in Scopes |-> 0] /\ initiated' = {}
            /\ op' = [op EXCEPT ![o].pc = "set"]
       ELSE /\ op' = [op EXCEPT ![o] = Ready]
            /\ UNCHANGED <<conn, sessions, initiated>>
    /\ UNCHANGED <<disk, built, config, cache, call, minted, tok, stored, lock, provider, inflight, faults>>

(* setUpstreamDelegation: the outgoing source's cache is dropped.            *)
SetDelegation(o) ==
    /\ op[o].pc = "set" /\ conn.here
    /\ DropCache
    /\ conn' = [conn EXCEPT !.source = op[o].source]
    /\ op' = [op EXCEPT ![o].pc = "update"]
    /\ UNCHANGED <<disk, built, config>> /\ UNCHANGED callVars

SetDelegationGone(o) ==
    /\ op[o].pc = "set" /\ ~conn.here
    /\ op' = [op EXCEPT ![o] = Ready]
    /\ UNCHANGED <<conn, disk, built, config, cache>> /\ UNCHANGED callVars

-----------------------------------------------------------------------------
(* DisableUpstream and its durable mark; EnableUpstream, whose wiring call   *)
(* is one of Base's.                                                         *)
Disable ==
    /\ Delegated /\ conn.here /\ conn.enabled
    /\ conn' = [conn EXCEPT !.enabled = FALSE]
    /\ disk' = [disk EXCEPT !.enabled = FALSE]
    /\ DropCache
    /\ UNCHANGED <<op, built, config>> /\ UNCHANGED callVars

Enable ==
    /\ Delegated /\ conn.here /\ ~conn.enabled /\ ~conn.revoked
    /\ conn' = [conn EXCEPT !.enabled = TRUE]
    /\ disk' = [disk EXCEPT !.enabled = TRUE]
    /\ UNCHANGED <<op, built, config, cache>> /\ UNCHANGED callVars

(* RevokeUpstream, then revokeRegistration. *)
Revoke ==
    /\ Delegated /\ conn.here /\ ~conn.revoked
    /\ conn' = [conn EXCEPT !.enabled = FALSE, !.revoked = TRUE]
    /\ DropCache
    /\ disk' = [disk EXCEPT !.revoked = disk.registered, !.enabled = FALSE, !.key = NoKey]
    /\ UNCHANGED <<op, built, config>> /\ UNCHANGED callVars

(* adminDeleteUpstream: removeRegistration deletes the record and the key,   *)
(* then RemoveUpstream the connection.                                       *)
Remove ==
    /\ Delegated /\ conn.here
    /\ disk' = [disk EXCEPT !.registered = FALSE, !.revoked = FALSE, !.key = NoKey]
    /\ conn' = [conn EXCEPT !.here = FALSE, !.enabled = FALSE, !.revoked = FALSE]
    /\ DropCache
    /\ UNCHANGED <<op, built, config>> /\ UNCHANGED callVars

-----------------------------------------------------------------------------
(* TokenFromRecord: what the bearer starts with after a restart.             *)
TokenFromRecord == stored

(* ReloadUpstreams, for a delegated record: a revoked one is only listed,    *)
(* and a source needs the key of the record's account.                       *)
Reloads == disk.registered /\ (disk.revoked \/ disk.key = disk.account)

(* The process stops at any point and starts again. *)
Restart ==
    /\ faults < MaxFaults /\ faults' = faults + 1
    /\ call' = [p \in Calls |-> Quiet]
    /\ sessions' = [s \in Scopes |-> 0] /\ initiated' = {}
    /\ op' = [o \in Operators |-> Ready]
    /\ tok' = TokenFromRecord /\ lock' = Nobody
    /\ IF Delegated
       THEN /\ conn' = [conn EXCEPT !.here = Reloads, !.revoked = Reloads /\ disk.revoked,
                                    !.enabled = Reloads /\ disk.enabled, !.epoch = @ + 1,
                                    !.bearer = 1, !.source = 1]
            /\ config' = [d \in Sources |-> [account |-> disk.account, discovery |-> disk.discovery]]
       ELSE /\ conn' = [conn EXCEPT !.epoch = @ + 1] /\ UNCHANGED config
    /\ cache' = [d \in Sources |-> {}]
    /\ inflight' = [d \in Sources |-> [s \in Scopes |-> Nobody]]
    /\ built' = 1
    /\ UNCHANGED <<minted, stored, provider, disk>>

-----------------------------------------------------------------------------
AdminNext ==
    \/ \E o \in Operators :
         \/ \E cfg \in Requests, doc \in Documents : AddDelegated(o, cfg, doc) \/ ReplaceKey(o, cfg, doc)
         \/ \E doc \in Documents : RotateKey(o, doc)
         \/ \E cfg \in Requests : Reconfigure(o, cfg)
         \/ \E ok, discover \in BOOLEAN : Register(o, ok, discover)
         \/ \E ok \in BOOLEAN : Rebind(o, ok)
         \/ Persist(o) \/ SetDelegation(o) \/ SetDelegationGone(o)
    \/ Disable \/ Enable \/ Revoke \/ Remove

Next ==
    \/ CallNext /\ UNCHANGED <<disk, op, built>>
    \/ AdminNext
    \/ Restart

Spec == Init /\ [][Next]_vars

-----------------------------------------------------------------------------
Disks ==
    [registered : BOOLEAN, revoked : BOOLEAN, enabled : BOOLEAN, account : Accounts,
     discovery : BOOLEAN, key : Accounts \cup {NoKey}]

Ops ==
    {Ready} \cup [pc : {"register", "persist", "discovered", "rebind", "set", "update"}, source : Sources]

TypeOK == CallTyped /\ disk \in Disks /\ op \in [Operators -> Ops] /\ built \in Sources

-----------------------------------------------------------------------------
(* The inductive invariant. *)

(* Nothing names a source that is not built yet: building one changes the    *)
(* configuration no call uses.                                               *)
SourcesBuilt ==
    /\ conn.bearer <= built /\ conn.source <= built
    /\ \A p \in Calls : call[p].pc # "idle" => call[p].bearer <= built
    /\ \A o \in Operators : op[o].pc # "idle" => op[o].source <= built
    /\ ~Delegated => built = 1

IInv ==
    /\ TypeOK /\ SourcesBuilt
    /\ MintedInOrder /\ SessionsOwned /\ TokenCurrent
    /\ \A p \in Calls : RequestOK(p)

(* A derivation in progress is its leader's, a wait is for one of them, and  *)
(* the mutex is held for a refresh.                                          *)
Flights ==
    /\ \A d \in Sources, s \in Scopes : inflight[d][s] # Nobody =>
         /\ call[inflight[d][s]].pc = "derive"
         /\ call[inflight[d][s]].bearer = d /\ call[inflight[d][s]].scope = s
    /\ \A p \in Calls :
         /\ call[p].pc = "derive" => inflight[call[p].bearer][call[p].scope] = p
         /\ call[p].pc = "join" => inflight[call[p].bearer][call[p].scope] # Nobody
    /\ lock # Nobody => call[lock].pc = "refresh"
=============================================================================
