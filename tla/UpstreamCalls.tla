---------------------------- MODULE UpstreamCalls ---------------------------
(* Calls to one upstream: a session per caller scope                         *)
(* (internal/gateway/client.go), and the bearer each request carries, which  *)
(* is the connection's OAuth token, refreshed when it is stale               *)
(* (internal/auth/oauthclient.go), or a token derived for the caller         *)
(* (internal/auth/delegation.go).                                            *)
(*                                                                           *)
(* A session id, a refresh token and a token source are numbers.  A request  *)
(* fails by a network error, a timeout of the client, an HTTP or RPC error   *)
(* or a reply that does not decode, which the code treats alike.             *)
EXTENDS Integers, FiniteSets

CONSTANTS
    Callers,       \* caller scopes
    Base,          \* the scope of wiring calls, which have no caller
    Calls,         \* goroutines that call the upstream
    SubjectOf,     \* the verified email of a caller; the discovery subject for Base
    Strategies,    \* the strategies the connection may have: "oauth", "dwd"
    MaxScopes,     \* maxSessionScopes
    MaxTokens,     \* maxDelegatedTokens
    MaxSessions,   \* bound: session ids the upstream issues
    MaxRotations,  \* bound: refreshes
    Accounts,      \* service accounts
    MaxSources,    \* bound: delegated token sources
    MaxFaults      \* bound: lost answers, failing saves and crashes

VARIABLES
    conn,       \* the registered connection
    call,       \* each goroutine's request
    sessions,   \* u.sessions, 0 for none
    initiated,  \* u.initiated
    minted,     \* the scope whose request the upstream gave each session id to
    tok,        \* the UpstreamToken the bearer holds
    stored,     \* its TokenRecord in the secret store
    lock,       \* the goroutine that holds the bearer's mutex
    provider,   \* the authorization server
    config,     \* each source's service account, and whether it has a discovery subject
    cache,      \* each source's derived tokens
    inflight,   \* each source's derivations in progress
    faults

sessionVars == <<sessions, initiated, minted>>

oauthVars == <<tok, stored, lock, provider>>

cacheVars == <<config, cache, inflight>>

Scopes == Callers \cup {Base}

Sources == 1..MaxSources

Nobody == 0

NoToken == [for |-> Nobody]

Quiet == [pc |-> "idle"]

ASSUME UpstreamCallsAssumption == Nobody \notin Calls /\ MaxSources \in Nat \ {0}

CallInit ==
    /\ \E s \in Strategies :
         conn = [strategy |-> s, here |-> TRUE, enabled |-> TRUE, revoked |-> FALSE,
                 epoch |-> 0, bearer |-> 1, source |-> 1]
    /\ call = [p \in Calls |-> Quiet]
    /\ sessions = [s \in Scopes |-> 0]
    /\ initiated = {}
    /\ minted = <<>>
    /\ tok = [refresh |-> 0, fresh |-> TRUE]
    /\ stored = tok
    /\ lock = Nobody
    /\ provider = [live |-> 0, reused |-> FALSE]
    /\ \E e \in Accounts : config = [d \in Sources |-> [account |-> e, discovery |-> TRUE]]
    /\ cache = [d \in Sources |-> {}]
    /\ inflight = [d \in Sources |-> [s \in Scopes |-> Nobody]]
    /\ faults = 0

-----------------------------------------------------------------------------
(* Sessions. *)

Sessioned == {s \in Scopes : sessions[s] # 0}

(* roomForScopeLocked: at the cap another caller's scope is dropped, one     *)
(* with a handshake first.                                                   *)
Evictable(s) ==
    IF s \in Sessioned \cup initiated THEN {}
    ELSE IF Cardinality(Sessioned) < MaxScopes /\ Cardinality(initiated) < MaxScopes THEN {}
    ELSE IF initiated \ {s, Base} # {} THEN initiated \ {s, Base}
    ELSE Sessioned \ {s, Base}

(* The scopes dropped for s: none, or any one of the evictable ones.         *)
Victims(s) == IF Evictable(s) = {} THEN {{}} ELSE {{v} : v \in Evictable(s)}

Without(v) == [s \in Scopes |-> IF s \in v THEN 0 ELSE sessions[s]]

(* A call goes on the connection it was given, which may be replaced while   *)
(* it waits; the sessions of a replaced connection are not followed.         *)
Current(p) == call[p].epoch = conn.epoch

(* A request is prepared: the session of its scope is read, and then the     *)
(* bearer asked for.                                                         *)
Request(s, method, sid) ==
    [pc |-> "bearer", scope |-> s, method |-> method, epoch |-> conn.epoch, sid |-> sid,
     bearer |-> conn.bearer, token |-> NoToken, grant |-> 0]

(* call: the first request of a caller runs the handshake of its scope,      *)
(* which beginScopeHandshake marks before it is made.  A wiring call         *)
(* initializes by itself, whether the connection is enabled or not.          *)
Begin(p, s) ==
    /\ call[p].pc = "idle"
    /\ conn.here /\ (s # Base => conn.enabled)
    /\ IF s = Base \/ s \in initiated
       THEN /\ call' = [call EXCEPT ![p] =
                          Request(s, IF s = Base THEN "initialize" ELSE "call", sessions[s])]
            /\ UNCHANGED <<sessions, initiated>>
       ELSE \E v \in Victims(s) :
              /\ sessions' = Without(v)
              /\ initiated' = (initiated \ v) \cup {s}
              /\ call' = [call EXCEPT ![p] = Request(s, "initialize", sessions'[s])]
    /\ UNCHANGED <<conn, minted, faults>> /\ UNCHANGED oauthVars /\ UNCHANGED cacheVars

(* A failed handshake is unmarked. *)
Unmark(p, ok, ini) ==
    IF ~ok /\ call[p].method = "initialize" /\ Current(p) THEN ini \ {call[p].scope} ELSE ini

(* A handshake that succeeded is followed by its notification; then, as     *)
(* after one that failed, comes the request it was for.                      *)
After(method, ok) == IF method = "initialize" /\ ok THEN "notify" ELSE "call"

(* A request is over, the sessions being ss and ini.  The next one reads its *)
(* session and asks for a bearer of its own; after the last the call returns.*)
Conclude(p, ok, ss, ini) ==
    /\ sessions' = ss
    /\ initiated' = Unmark(p, ok, ini)
    /\ call' = [call EXCEPT ![p] =
                  IF @.method = "call" THEN Quiet
                  ELSE [@ EXCEPT !.pc = "bearer", !.method = After(call[p].method, ok),
                                 !.token = NoToken, !.grant = 0,
                                 !.sid = IF Current(p) THEN ss[call[p].scope] ELSE 0]]

(* The request failed before it was answered, or the answer has no session   *)
(* id, or the id that came with it is not kept: notify reads none.           *)
Answer(p, ok) ==
    /\ call[p].pc = "send"
    /\ Conclude(p, ok, sessions, initiated)
    /\ UNCHANGED <<conn, minted, faults>> /\ UNCHANGED oauthVars /\ UNCHANGED cacheVars

(* A mutant: the id is kept for the connection, not for the caller.          *)
SetSessionShared(s, id, v) == [t \in Scopes |-> IF t \in v THEN 0 ELSE id]

(* setSession *)
SetSession(s, id, v) == [Without(v) EXCEPT ![s] = id]

(* Any answer to call may carry a new session id, which replaces the one of  *)
(* the scope before the body is read.                                        *)
AnswerWithSession(p, ok) ==
    LET s  == call[p].scope
        id == Cardinality(DOMAIN minted) + 1
    IN  /\ call[p].pc = "send" /\ Current(p) /\ call[p].method # "notify"
        /\ id <= MaxSessions
        /\ minted' = [i \in 1..id |-> IF i = id THEN s ELSE minted[i]]
        /\ \E v \in Victims(s) : Conclude(p, ok, SetSession(s, id, v), initiated \ v)
        /\ UNCHANGED <<conn, faults>> /\ UNCHANGED oauthVars /\ UNCHANGED cacheVars

(* bearer failed: the request is not made, but the notification goes out     *)
(* without a token.                                                          *)
AuthFails(p) ==
    IF call[p].method = "notify"
    THEN /\ call' = [call EXCEPT ![p].pc = "send", ![p].token = NoToken, ![p].grant = 0]
         /\ UNCHANGED sessionVars
    ELSE Conclude(p, FALSE, sessions, initiated) /\ UNCHANGED minted

-----------------------------------------------------------------------------
(* The OAuth token. *)

Waiting(p, strategy) == call[p].pc = "bearer" /\ conn.strategy = strategy

Fault == faults < MaxFaults /\ faults' = faults + 1

(* A mutant: the mutex is not taken.                                         *)
LockAnyway(p) == TRUE

LockFree(p) == lock = Nobody

(* RefreshingBearer, with a token that is still good. *)
UseToken(p) ==
    /\ Waiting(p, "oauth") /\ LockFree(p) /\ tok.fresh
    /\ call' = [call EXCEPT ![p].pc = "send"]
    /\ UNCHANGED <<conn, faults>> /\ UNCHANGED sessionVars /\ UNCHANGED oauthVars /\ UNCHANGED cacheVars

(* A stale one is refreshed under the mutex, whoever else waits for it.      *)
StartRefresh(p) ==
    /\ Waiting(p, "oauth") /\ LockFree(p) /\ ~tok.fresh
    /\ lock' = p
    /\ call' = [call EXCEPT ![p].pc = "refresh", ![p].grant = tok.refresh]
    /\ UNCHANGED <<conn, faults, tok, stored, provider>> /\ UNCHANGED sessionVars /\ UNCHANGED cacheVars

(* The authorization server: a refresh token is good once if it rotates, and *)
(* one it has seen before ends the grant.                                    *)
Presented(grant, rotates) ==
    IF provider.reused \/ grant # provider.live
    THEN [provider EXCEPT !.reused = TRUE]
    ELSE [provider EXCEPT !.live = IF rotates THEN @ + 1 ELSE @]

Granted(p) == ~provider.reused /\ call[p].grant = provider.live

(* Refresh: the answer arrives, the token changes and onRefresh stores it,   *)
(* all under the mutex; a failing save is only logged.                       *)
Refresh(p, rotates, saved) ==
    /\ call[p].pc = "refresh" /\ Granted(p)
    /\ rotates => provider.live < MaxRotations
    /\ IF saved THEN UNCHANGED faults ELSE Fault
    /\ provider' = Presented(call[p].grant, rotates)
    /\ tok' = [refresh |-> provider'.live, fresh |-> TRUE]
    /\ stored' = IF saved THEN tok' ELSE stored
    /\ lock' = Nobody
    /\ call' = [call EXCEPT ![p].pc = "send", ![p].grant = 0]
    /\ UNCHANGED conn /\ UNCHANGED sessionVars /\ UNCHANGED cacheVars

(* Refused, or answered to a caller that is gone or cannot hear it.          *)
RefreshFails(p, arrived, rotates) ==
    /\ call[p].pc = "refresh"
    /\ IF arrived
       THEN /\ provider' = Presented(call[p].grant, rotates)
            /\ rotates => provider.live < MaxRotations
            /\ IF Granted(p) THEN Fault ELSE UNCHANGED faults
       ELSE UNCHANGED <<provider, faults>>
    /\ lock' = Nobody
    /\ AuthFails(p)
    /\ UNCHANGED <<conn, tok, stored>> /\ UNCHANGED cacheVars

(* Time passes the expiry of the access token. *)
Expire ==
    /\ conn.strategy = "oauth" /\ tok.fresh
    /\ tok' = [tok EXCEPT !.fresh = FALSE]
    /\ stored' = [stored EXCEPT !.fresh = FALSE]
    /\ UNCHANGED <<conn, call, lock, provider, faults>> /\ UNCHANGED sessionVars /\ UNCHANGED cacheVars

-----------------------------------------------------------------------------
(* Derived tokens. *)

(* A mutant: the cache is partitioned by subject alone.                      *)
SameKeySubject(a, b) == SubjectOf[a] = SubjectOf[b]

(* The cache key: the caller, the subject and the scopes of the source.      *)
SameKey(a, b) == a = b

Cached(d, s) == {t \in cache[d] : SameKey(t.for, s)}

Leader(d, s) == {q \in Calls : \E a \in Scopes : SameKey(a, s) /\ inflight[d][a] = q}

Deliver(p, t) == [call[p] EXCEPT !.pc = "send", !.token = t]

(* delegatedBearer: a wiring call goes out unauthenticated when the source   *)
(* has no discovery subject.                                                 *)
Anonymous(p) == call[p].scope = Base /\ ~config[call[p].bearer].discovery

Derives(p) == Waiting(p, "dwd") /\ ~Anonymous(p)

GoAnonymous(p) ==
    /\ Waiting(p, "dwd") /\ Anonymous(p)
    /\ call' = [call EXCEPT ![p].pc = "send"]
    /\ UNCHANGED <<conn, faults>> /\ UNCHANGED sessionVars /\ UNCHANGED oauthVars /\ UNCHANGED cacheVars

(* Token, with a live one in the cache. *)
UseCached(p) ==
    /\ Derives(p)
    /\ \E t \in Cached(call[p].bearer, call[p].scope) : call' = [call EXCEPT ![p] = Deliver(p, t)]
    /\ UNCHANGED <<conn, faults>> /\ UNCHANGED sessionVars /\ UNCHANGED oauthVars /\ UNCHANGED cacheVars

NotCached(p) == Derives(p) /\ Cached(call[p].bearer, call[p].scope) = {}

Join(p) ==
    /\ NotCached(p) /\ Leader(call[p].bearer, call[p].scope) # {}
    /\ call' = [call EXCEPT ![p].pc = "join"]
    /\ UNCHANGED <<conn, faults>> /\ UNCHANGED sessionVars /\ UNCHANGED oauthVars /\ UNCHANGED cacheVars

Lead(p) ==
    /\ NotCached(p) /\ Leader(call[p].bearer, call[p].scope) = {}
    /\ call' = [call EXCEPT ![p].pc = "derive"]
    /\ inflight' = [inflight EXCEPT ![call[p].bearer][call[p].scope] = p]
    /\ UNCHANGED <<conn, faults, config, cache>> /\ UNCHANGED sessionVars /\ UNCHANGED oauthVars

(* Those waiting for the derivation p leads. *)
Joined(p) ==
    {q \in Calls : /\ call[q].pc = "join" /\ call[q].bearer = call[p].bearer
                   /\ SameKey(call[q].scope, call[p].scope)}

(* roomForTokenLocked: at the cap, an arbitrary other token.                 *)
TokenVictims(d, t) ==
    IF t \notin cache[d] /\ Cardinality(cache[d]) >= MaxTokens THEN {{u} : u \in cache[d]} ELSE {{}}

(* derive succeeds: the token acts as the subject of the leader, is cached,  *)
(* and goes to all that wait.                                                *)
Derive(p) ==
    LET d == call[p].bearer
        t == [for |-> call[p].scope, as |-> SubjectOf[call[p].scope]]
    IN  /\ call[p].pc = "derive" /\ UNCHANGED config
        /\ \E v \in TokenVictims(d, t) :
             cache' = [cache EXCEPT ![d] = (@ \ v) \cup {t}]
        /\ inflight' = [inflight EXCEPT ![d][call[p].scope] = Nobody]
        /\ call' = [q \in Calls |-> IF q \in Joined(p) \cup {p} THEN Deliver(q, t) ELSE call[q]]
        /\ UNCHANGED <<conn, faults>> /\ UNCHANGED sessionVars /\ UNCHANGED oauthVars

(* A mutant: those who joined are not told.                                  *)
DeriveFailsAlone(p) ==
    /\ call[p].pc = "derive"
    /\ inflight' = [inflight EXCEPT ![call[p].bearer][call[p].scope] = Nobody]
    /\ call' = [call EXCEPT ![p].pc = "refused"]
    /\ UNCHANGED <<conn, faults, config, cache>> /\ UNCHANGED sessionVars /\ UNCHANGED oauthVars

(* derive fails, for all that wait; the leader's caller may just have left.  *)
(* A wait is given up alone.                                                 *)
DeriveFails(p) ==
    /\ call[p].pc = "derive"
    /\ inflight' = [inflight EXCEPT ![call[p].bearer][call[p].scope] = Nobody]
    /\ call' = [q \in Calls |-> IF q \in Joined(p) \cup {p} THEN [call[q] EXCEPT !.pc = "refused"] ELSE call[q]]
    /\ UNCHANGED <<conn, faults, config, cache>> /\ UNCHANGED sessionVars /\ UNCHANGED oauthVars

GiveUp(p) ==
    /\ call[p].pc = "join"
    /\ call' = [call EXCEPT ![p].pc = "refused"]
    /\ UNCHANGED <<conn, faults>> /\ UNCHANGED sessionVars /\ UNCHANGED oauthVars /\ UNCHANGED cacheVars

Refused(p) ==
    /\ call[p].pc = "refused"
    /\ AuthFails(p)
    /\ UNCHANGED <<conn, faults>> /\ UNCHANGED oauthVars /\ UNCHANGED cacheVars

(* A derived token reaches its expiry, less the skew. *)
ExpireDerived(d, t) ==
    /\ t \in cache[d]
    /\ cache' = [cache EXCEPT ![d] = @ \ {t}]
    /\ UNCHANGED <<conn, call, config, inflight, faults>> /\ UNCHANGED sessionVars /\ UNCHANGED oauthVars

-----------------------------------------------------------------------------
CallNext ==
    \/ \E p \in Calls :
         \/ \E s \in Scopes : Begin(p, s)
         \/ \E ok \in BOOLEAN : Answer(p, ok) \/ AnswerWithSession(p, ok)
         \/ UseToken(p) \/ StartRefresh(p)
         \/ \E rotates, b \in BOOLEAN : Refresh(p, rotates, b) \/ RefreshFails(p, b, rotates)
         \/ GoAnonymous(p) \/ UseCached(p) \/ Join(p) \/ Lead(p) \/ Derive(p) \/ DeriveFails(p) \/ GiveUp(p) \/ Refused(p)
    \/ Expire
    \/ \E d \in Sources : \E t \in cache[d] : ExpireDerived(d, t)

-----------------------------------------------------------------------------
(* An upstream that keys its state to the session id sees one caller under   *)
(* one id, whatever was evicted, replaced or answered late.                  *)
SessionPrivate ==
    /\ \A s \in Scopes : sessions[s] # 0 => minted[sessions[s]] = s
    /\ \A p \in Calls : call[p].pc # "idle" /\ call[p].sid # 0 => minted[call[p].sid] = call[p].scope

(* However many calls find the token stale at once, a refresh token that was *)
(* spent is presented again only after an answer or a save was lost.         *)
NoReuse == provider.reused => faults > 0

(* A call carries a token derived for its own caller and acting as that      *)
(* caller's subject, never another principal's with the same subject, nor    *)
(* the discovery subject's.  Only the notification of a handshake goes out   *)
(* without any, when its derivation failed.                                  *)
ActsAsCaller ==
    \A p \in Calls :
        call[p].pc = "send" /\ conn.strategy = "dwd" /\ ~Anonymous(p) =>
            \/ call[p].token = [for |-> call[p].scope, as |-> SubjectOf[call[p].scope]]
            \/ call[p].method = "notify" /\ call[p].token = NoToken

(* However derivations fail, time out or are given up, a source makes one    *)
(* derivation at a time for a key, whoever waits for one waits for one that  *)
(* is being made, and the bearer's mutex is held by a call that refreshes:   *)
(* no call waits for nobody.                                                 *)
WaitersLed ==
    /\ \A p \in Calls : call[p].pc = "join" =>
         \E q \in Calls : /\ call[q].pc = "derive" /\ call[q].bearer = call[p].bearer
                          /\ call[q].scope = call[p].scope
    /\ \A p, q \in {r \in Calls : call[r].pc = "derive"} :
         call[p].bearer = call[q].bearer /\ call[p].scope = call[q].scope => p = q
    /\ lock # Nobody => call[lock].pc = "refresh"

-----------------------------------------------------------------------------
(* The inductive invariant behind these, but for what the administration     *)
(* of the connection adds to it (Delegation).                                *)

Acting(s) == [for |-> s, as |-> SubjectOf[s]]

CallRecords ==
    [pc : {"bearer", "send", "refresh", "join", "derive", "refused"}, scope : Scopes,
     method : {"initialize", "notify", "call"}, epoch : Nat, sid : Nat, bearer : Sources,
     token : {NoToken} \cup {Acting(s) : s \in Scopes}, grant : Nat]

Conns ==
    [strategy : Strategies, here : BOOLEAN, enabled : BOOLEAN, revoked : BOOLEAN,
     epoch : Nat, bearer : Sources, source : Sources]

CallTyped ==
    /\ conn \in Conns
    /\ call \in [Calls -> {Quiet} \cup CallRecords]
    /\ sessions \in [Scopes -> Nat] /\ initiated \subseteq Callers
    /\ tok \in [refresh : Nat, fresh : BOOLEAN] /\ stored \in [refresh : Nat, fresh : BOOLEAN]
    /\ lock \in Calls \cup {Nobody}
    /\ provider \in [live : Nat, reused : BOOLEAN]
    /\ config \in [Sources -> [account : Accounts, discovery : BOOLEAN]]
    /\ cache \in [Sources -> SUBSET {Acting(s) : s \in Scopes}]
    /\ inflight \in [Sources -> [Scopes -> Calls \cup {Nobody}]]
    /\ faults \in Nat

(* Session ids are issued in order, each to one scope. *)
MintedInOrder == \E n \in Nat : minted \in [1..n -> Scopes]

IssuedTo(id, s) == id # 0 => id \in DOMAIN minted /\ minted[id] = s

SessionsOwned == \A s \in Scopes : IssuedTo(sessions[s], s)

(* Until an answer or a save is lost, the token the bearer holds is the one  *)
(* the authorization server will take next.                                  *)
TokenCurrent == faults = 0 => ~provider.reused /\ tok.refresh = provider.live

(* A request under way: its session is its scope's, a refresh holds the      *)
(* mutex with the current token, and what it sends acts as its caller.       *)
RequestOK(p) ==
    call[p].pc # "idle" =>
        /\ IssuedTo(call[p].sid, call[p].scope)
        /\ call[p].pc = "refresh" => /\ conn.strategy = "oauth" /\ lock = p
                                     /\ faults = 0 => call[p].grant = provider.live
        /\ call[p].pc = "send" /\ conn.strategy = "dwd" =>
             \/ call[p].token = Acting(call[p].scope) \/ Anonymous(p)
             \/ call[p].method = "notify" /\ call[p].token = NoToken
=============================================================================
