--------------------------- MODULE UpstreamProofs ---------------------------
(* Calls to upstreams and the registrations they are made for.               *)
(*                                                                           *)
(* For any callers, calls, accounts and caps, and through lost answers,      *)
(* failing saves, restarts and administration at any point: a session id     *)
(* stays with one caller, a spent refresh token is presented again only      *)
(* after a fault, a delegated call acts as its own caller, and nobody waits  *)
(* for a derivation or a refresh that is not being made.                     *)
(*                                                                           *)
(* None of these is inductive: a session id is handed from the upstream's    *)
(* answer to the session table to a request, a refresh depends on who holds  *)
(* the mutex, and a token on the cache it was taken from.  IInv follows each *)
(* of them along the way.                                                    *)
(*                                                                           *)
(* Registrations: a policy field in upstreams.json is what an operator asked *)
(* for, and the tools offered are those of the connection that is called.    *)
EXTENDS Delegation, Registry, FiniteSetTheorems, TLAPS

(* The number of ids issued is the last of them. *)
LEMMA IntervalCardinality ==
    ASSUME NEW n \in Nat
    PROVE  Cardinality(1..n) = n
  BY FS_Interval

(* A request under way is a record with all its fields. *)
LEMMA CallFields ==
    ASSUME TypeOK, NEW p \in Calls, call[p].pc # "idle"
    PROVE  call[p] \in CallRecords
  BY DEF TypeOK, CallTyped, Quiet

(* Of two goroutines only one refreshes: it holds the mutex. *)
LEMMA OneRefreshes ==
    ASSUME IInv, NEW p \in Calls, NEW q \in Calls, call[q].pc = "refresh",
           call[p].pc = "refresh" \/ lock = Nobody
    PROVE  p = q
  <1>1. lock = q
    BY DEF IInv, RequestOK
  <1>2. lock # Nobody
    BY <1>1, UpstreamCallsAssumption
  <1> QED
    BY <1>1, <1>2 DEF IInv, RequestOK

(* A request that a step leaves alone stays as it should be. *)
LEMMA OthersOK ==
    ASSUME IInv, NEW q \in Calls, call'[q] = call[q], conn'.strategy = conn.strategy,
           \A i \in DOMAIN minted : i \in DOMAIN minted' /\ minted'[i] = minted[i],
           call[q].pc = "refresh" =>
              lock' = lock /\ provider'.live = provider.live /\ (faults' = 0 => faults = 0),
           \A d \in 1..built : config'[d] = config[d]
    PROVE  RequestOK(q)'
  <1>1. CASE call[q].pc = "idle"
    BY <1>1 DEF RequestOK
  <1>2. CASE call[q].pc # "idle"
    <2>1. RequestOK(q) /\ call[q] \in CallRecords /\ call[q].bearer <= built
      BY <1>2, CallFields DEF IInv, SourcesBuilt
    <2>2. call[q].bearer \in 1..built
      BY <2>1 DEF CallRecords, Sources, IInv, TypeOK
    <2>3. IssuedTo(call[q].sid, call[q].scope)'
      BY <1>2, <2>1 DEF RequestOK, IssuedTo
    <2>4. Anonymous(q)' <=> Anonymous(q)
      BY <2>2 DEF Anonymous
    <2>5. call[q].pc = "refresh" => /\ conn.strategy = "oauth" /\ lock' = q
                                    /\ faults' = 0 => call[q].grant = provider'.live
      BY <1>2, <2>1 DEF RequestOK
    <2> QED
      BY <1>2, <2>1, <2>3, <2>4, <2>5 DEF RequestOK
  <1> QED
    BY <1>1, <1>2

(* One request moves, the connection and its administration stay. *)
LEMMA CallMoves ==
    ASSUME IInv, NEW p \in Calls, NEW r \in {Quiet} \cup CallRecords, call' = [call EXCEPT ![p] = r],
           r.pc # "idle" => r.bearer <= built, RequestOK(p)',
           UNCHANGED <<conn, config, disk, op, built>>,
           sessions' \in [Scopes -> Nat], initiated' \subseteq Callers,
           tok' \in [refresh : Nat, fresh : BOOLEAN], stored' \in [refresh : Nat, fresh : BOOLEAN],
           lock' \in Calls \cup {Nobody}, provider' \in [live : Nat, reused : BOOLEAN],
           cache' = cache, inflight' \in [Sources -> [Scopes -> Calls \cup {Nobody}]], faults' \in Nat,
           MintedInOrder', SessionsOwned', TokenCurrent',
           \A i \in DOMAIN minted : i \in DOMAIN minted' /\ minted'[i] = minted[i],
           \A q \in Calls : q # p /\ call[q].pc = "refresh" =>
              lock' = lock /\ provider'.live = provider.live /\ (faults' = 0 => faults = 0)
    PROVE  IInv'
  <1>1. call' \in [Calls -> {Quiet} \cup CallRecords] /\ call'[p] = r
        /\ \A q \in Calls : q # p => call'[q] = call[q]
    BY DEF IInv, TypeOK, CallTyped
  <1>2. TypeOK'
    BY <1>1 DEF IInv, TypeOK, CallTyped
  <1>3. SourcesBuilt'
    BY <1>1 DEF IInv, SourcesBuilt, Delegated
  <1>4. \A q \in Calls : q # p => RequestOK(q)'
    BY <1>1, OthersOK
  <1> QED
    BY <1>2, <1>3, <1>4 DEF IInv

(* What stays the same when only a request moves. *)
LEMMA CallOnly ==
    ASSUME IInv, NEW p \in Calls, NEW r \in CallRecords, call' = [call EXCEPT ![p] = r],
           r.bearer <= built, IssuedTo(r.sid, r.scope), r.pc # "refresh",
           r.pc = "send" /\ conn.strategy = "dwd" =>
              r.token = Acting(r.scope) \/ (r.scope = Base /\ ~config[r.bearer].discovery),
           UNCHANGED <<conn, faults, disk, op, built>>, UNCHANGED sessionVars, UNCHANGED oauthVars,
           UNCHANGED <<config, cache>>, inflight' \in [Sources -> [Scopes -> Calls \cup {Nobody}]]
    PROVE  IInv'
  <1>1. call'[p] = r
    BY DEF IInv, TypeOK, CallTyped
  <1>2. /\ sessions' \in [Scopes -> Nat] /\ initiated' \subseteq Callers
        /\ tok' \in [refresh : Nat, fresh : BOOLEAN] /\ stored' \in [refresh : Nat, fresh : BOOLEAN]
        /\ lock' \in Calls \cup {Nobody} /\ provider' \in [live : Nat, reused : BOOLEAN] /\ faults' \in Nat
    BY DEF sessionVars, oauthVars, IInv, TypeOK, CallTyped
  <1>3. MintedInOrder' /\ SessionsOwned' /\ TokenCurrent'
    BY DEF sessionVars, oauthVars, IInv, MintedInOrder, SessionsOwned, IssuedTo, TokenCurrent
  <1>4. minted' = minted /\ lock' = lock /\ provider' = provider
    BY DEF sessionVars, oauthVars
  <1>5. RequestOK(p)'
    BY <1>1, <1>4 DEF RequestOK, IssuedTo, Anonymous
  <1> QED
    BY <1>2, <1>3, <1>4, <1>5, CallMoves

-----------------------------------------------------------------------------
(* Sessions. *)

(* Dropping a scope leaves the others' sessions. *)
LEMMA WithoutSessions ==
    ASSUME IInv, NEW v
    PROVE  /\ Without(v) \in [Scopes -> Nat]
           /\ \A s \in Scopes : IssuedTo(Without(v)[s], s)
  BY DEF Without, IInv, SessionsOwned, IssuedTo, TypeOK, CallTyped

(* The request of a call begins with the session of its scope. *)
LEMMA StepBegin ==
    ASSUME IInv, NEW p \in Calls, NEW s \in Scopes, Begin(p, s), UNCHANGED <<disk, op, built>>
    PROVE  IInv'
  <1> DEFINE r(m) == Request(s, m, sessions'[s])
  <1>1. /\ conn.epoch \in Nat /\ conn.bearer \in Sources /\ conn.bearer <= built
        /\ call \in [Calls -> {Quiet} \cup CallRecords]
    BY DEF IInv, SourcesBuilt, TypeOK, CallTyped, Conns
  <1>2. /\ sessions' \in [Scopes -> Nat] /\ initiated' \subseteq Callers
        /\ \A t \in Scopes : IssuedTo(sessions'[t], t)
        /\ \E m \in {"initialize", "call"} : call' = [call EXCEPT ![p] = r(m)]
    <2>1. CASE s = Base \/ s \in initiated
      <3>1. sessions' = sessions /\ initiated' = initiated
        BY <2>1 DEF Begin
      <3>2. call' = [call EXCEPT ![p] = r(IF s = Base THEN "initialize" ELSE "call")]
        BY <2>1, <3>1 DEF Begin
      <3> QED
        BY <3>1, <3>2 DEF IInv, SessionsOwned, TypeOK, CallTyped
    <2>2. CASE ~(s = Base \/ s \in initiated)
      <3>1. PICK v \in Victims(s) :
              /\ sessions' = Without(v)
              /\ initiated' = (initiated \ v) \cup {s}
              /\ call' = [call EXCEPT ![p] = r("initialize")]
        BY <2>2 DEF Begin
      <3>2. s \in Callers
        BY <2>2 DEF Scopes
      <3> QED
        BY <3>1, <3>2, WithoutSessions DEF IInv, TypeOK, CallTyped
    <2> QED
      BY <2>1, <2>2
  <1>3. UNCHANGED <<conn, minted, faults, tok, stored, lock, provider, config, cache, inflight>>
    BY DEF Begin, oauthVars, cacheVars
  <1>4. PICK m \in {"initialize", "call"} : call' = [call EXCEPT ![p] = r(m)]
    BY <1>2
  <1>5. /\ r(m) \in CallRecords /\ r(m).pc = "bearer" /\ r(m).bearer <= built
        /\ r(m).sid = sessions'[s] /\ r(m).scope = s
    BY <1>1, <1>2 DEF Request, CallRecords
  <1> HIDE DEF r
  <1>6. call'[p] = r(m)
    BY <1>1, <1>4
  <1>7. RequestOK(p)'
    BY <1>2, <1>3, <1>5, <1>6 DEF RequestOK, IssuedTo
  <1>8. MintedInOrder' /\ SessionsOwned' /\ TokenCurrent'
    BY <1>2, <1>3 DEF IInv, MintedInOrder, SessionsOwned, IssuedTo, TokenCurrent
  <1>9. /\ tok' \in [refresh : Nat, fresh : BOOLEAN] /\ stored' \in [refresh : Nat, fresh : BOOLEAN]
        /\ lock' \in Calls \cup {Nobody} /\ provider' \in [live : Nat, reused : BOOLEAN]
        /\ inflight' \in [Sources -> [Scopes -> Calls \cup {Nobody}]] /\ faults' \in Nat
    BY <1>3 DEF IInv, TypeOK, CallTyped
  <1> QED
    BY <1>2, <1>3, <1>4, <1>5, <1>7, <1>8, <1>9, CallMoves

(* A request is over: its session, if another follows, is that of its scope. *)
LEMMA StepConclude ==
    ASSUME IInv, NEW p \in Calls, call[p].pc # "idle", NEW ok \in BOOLEAN,
           NEW ss \in [Scopes -> Nat], NEW ini \in SUBSET Callers, Conclude(p, ok, ss, ini),
           \A s \in Scopes : ss[s] # 0 => ss[s] \in DOMAIN minted' /\ minted'[ss[s]] = s,
           MintedInOrder', \A i \in DOMAIN minted : i \in DOMAIN minted' /\ minted'[i] = minted[i],
           UNCHANGED <<conn, tok, stored, config, cache, inflight, disk, op, built>>,
           lock' \in Calls \cup {Nobody}, provider' \in [live : Nat, reused : BOOLEAN], faults' \in Nat,
           TokenCurrent',
           \A q \in Calls : q # p /\ call[q].pc = "refresh" =>
              lock' = lock /\ provider'.live = provider.live /\ (faults' = 0 => faults = 0)
    PROVE  IInv'
  <1> DEFINE c == call[p]
             r == IF c.method = "call" THEN Quiet
                  ELSE [c EXCEPT !.pc = "bearer", !.method = After(c.method, ok), !.token = NoToken, !.grant = 0,
                                 !.sid = IF Current(p) THEN ss[c.scope] ELSE 0]
  <1>1. c \in CallRecords /\ c.bearer <= built /\ c.scope \in Scopes
    BY CallFields DEF IInv, SourcesBuilt, CallRecords
  <1>2. /\ sessions' = ss /\ initiated' = Unmark(p, ok, ini)
        /\ call' = [call EXCEPT ![p] = r]
    BY DEF Conclude
  <1>3. initiated' \subseteq Callers
    BY <1>2 DEF Unmark
  <1>4. SessionsOwned'
    BY <1>2 DEF SessionsOwned, IssuedTo
  <1>5. RequestOK(p)' /\ r \in {Quiet} \cup CallRecords /\ (r.pc # "idle" => r.bearer <= built)
    <2>1. call'[p] = r
      BY <1>2 DEF IInv, TypeOK, CallTyped
    <2>2. CASE c.method = "call"
      BY <2>1, <2>2 DEF Quiet, RequestOK
    <2>3. CASE c.method # "call"
      <3> DEFINE m  == After(c.method, ok)
                 id == IF Current(p) THEN ss[c.scope] ELSE 0
      <3>1. id \in Nat
        BY <1>1
      <3>2. id # 0 => id \in DOMAIN minted' /\ minted'[id] = c.scope
        BY <1>1
      <3>3. m \in {"notify", "call"}
        BY DEF After
      <3> HIDE DEF id, m
      <3>4. r = [c EXCEPT !.pc = "bearer", !.method = m, !.token = NoToken, !.grant = 0, !.sid = id]
        BY <2>3 DEF id, m
      <3> HIDE DEF r, c
      <3>5. r \in CallRecords /\ r.pc = "bearer" /\ r.sid = id /\ r.scope = c.scope /\ r.bearer = c.bearer
        BY <1>1, <3>1, <3>3, <3>4 DEF CallRecords
      <3> QED
        BY <1>1, <2>1, <3>2, <3>5 DEF RequestOK, IssuedTo
    <2> QED
      BY <2>2, <2>3
  <1> HIDE DEF r
  <1>6. /\ sessions' \in [Scopes -> Nat]
        /\ tok' \in [refresh : Nat, fresh : BOOLEAN] /\ stored' \in [refresh : Nat, fresh : BOOLEAN]
        /\ inflight' \in [Sources -> [Scopes -> Calls \cup {Nobody}]]
    BY <1>2 DEF IInv, TypeOK, CallTyped
  <1> QED
    BY <1>2, <1>3, <1>4, <1>5, <1>6, CallMoves

(* No new session id, and neither the mutex nor the provider involved. *)
LEMMA StepConcludeQuietly ==
    ASSUME IInv, NEW p \in Calls, call[p].pc # "idle", NEW ok \in BOOLEAN,
           Conclude(p, ok, sessions, initiated),
           UNCHANGED <<conn, minted, faults, disk, op, built>>, UNCHANGED oauthVars, UNCHANGED cacheVars
    PROVE  IInv'
  <1>1. UNCHANGED <<conn, minted, faults, tok, stored, lock, provider, config, cache, inflight, disk, op, built>>
    BY DEF oauthVars, cacheVars
  <1>2. /\ sessions \in [Scopes -> Nat] /\ initiated \in SUBSET Callers
        /\ lock' \in Calls \cup {Nobody} /\ provider' \in [live : Nat, reused : BOOLEAN] /\ faults' \in Nat
    BY <1>1 DEF IInv, TypeOK, CallTyped
  <1>3. MintedInOrder' /\ TokenCurrent' /\ \A s \in Scopes : IssuedTo(sessions[s], s)
    BY <1>1 DEF IInv, MintedInOrder, TokenCurrent, SessionsOwned
  <1>4. \A s \in Scopes : sessions[s] # 0 =>
            sessions[s] \in DOMAIN minted' /\ minted'[sessions[s]] = s
    BY <1>1, <1>3 DEF IssuedTo
  <1> QED
    BY <1>1, <1>2, <1>3, <1>4, StepConclude

(* The notification of a handshake goes out without a token. *)
LEMMA StepUnsigned ==
    ASSUME IInv, NEW p \in Calls, call[p].pc # "idle", call[p].method = "notify",
           call' = [call EXCEPT ![p].pc = "send", ![p].token = NoToken, ![p].grant = 0],
           UNCHANGED <<conn, tok, stored, config, cache, inflight, disk, op, built>>, UNCHANGED sessionVars,
           lock' \in Calls \cup {Nobody}, provider' \in [live : Nat, reused : BOOLEAN], faults' \in Nat,
           TokenCurrent',
           \A q \in Calls : q # p /\ call[q].pc = "refresh" =>
              lock' = lock /\ provider'.live = provider.live /\ (faults' = 0 => faults = 0)
    PROVE  IInv'
  <1> DEFINE c == call[p]
             r == [c EXCEPT !.pc = "send", !.token = NoToken, !.grant = 0]
  <1>1. c \in CallRecords /\ c.bearer <= built /\ IssuedTo(c.sid, c.scope)
    BY CallFields DEF IInv, SourcesBuilt, RequestOK
  <1>2. call' = [call EXCEPT ![p] = r] /\ call'[p] = r
    BY DEF IInv, TypeOK, CallTyped
  <1>3. c.method = "notify"
    OBVIOUS
  <1> HIDE DEF c
  <1>4. /\ r \in CallRecords /\ r.pc = "send" /\ r.bearer = c.bearer /\ r.sid = c.sid
        /\ r.scope = c.scope /\ r.method = "notify" /\ r.token = NoToken
    BY <1>1, <1>3 DEF CallRecords
  <1> HIDE DEF r
  <1>5. UNCHANGED <<sessions, initiated, minted>>
    BY DEF sessionVars
  <1>6. RequestOK(p)'
    BY <1>1, <1>2, <1>4, <1>5 DEF RequestOK, IssuedTo
  <1>7. MintedInOrder' /\ SessionsOwned'
    BY <1>5 DEF IInv, MintedInOrder, SessionsOwned, IssuedTo
  <1>8. /\ sessions' \in [Scopes -> Nat] /\ initiated' \subseteq Callers
        /\ tok' \in [refresh : Nat, fresh : BOOLEAN] /\ stored' \in [refresh : Nat, fresh : BOOLEAN]
        /\ inflight' \in [Sources -> [Scopes -> Calls \cup {Nobody}]]
    BY <1>5 DEF IInv, TypeOK, CallTyped
  <1> QED
    BY <1>1, <1>2, <1>4, <1>5, <1>6, <1>7, <1>8, CallMoves

LEMMA StepAnswer ==
    ASSUME IInv, NEW p \in Calls, NEW ok \in BOOLEAN, Answer(p, ok), UNCHANGED <<disk, op, built>>
    PROVE  IInv'
  BY StepConcludeQuietly DEF Answer

LEMMA StepRefused ==
    ASSUME IInv, NEW p \in Calls, Refused(p), UNCHANGED <<disk, op, built>>
    PROVE  IInv'
  <1>1. CASE call[p].method # "notify"
    BY <1>1, StepConcludeQuietly DEF Refused, AuthFails
  <1>2. CASE call[p].method = "notify"
    <2>1. /\ call[p].pc # "idle"
          /\ call' = [call EXCEPT ![p].pc = "send", ![p].token = NoToken, ![p].grant = 0]
          /\ UNCHANGED <<conn, faults, tok, stored, lock, provider, config, cache, inflight>>
          /\ UNCHANGED sessionVars
      BY <1>2 DEF Refused, AuthFails, oauthVars, cacheVars
    <2>2. /\ lock' \in Calls \cup {Nobody} /\ provider' \in [live : Nat, reused : BOOLEAN]
          /\ faults' \in Nat /\ TokenCurrent'
      BY <2>1 DEF IInv, TypeOK, CallTyped, TokenCurrent
    <2> QED
      BY <1>2, <2>1, <2>2, StepUnsigned
  <1> QED
    BY <1>1, <1>2

(* The upstream's next session id goes to the scope that asked. *)
LEMMA StepAnswerWithSession ==
    ASSUME IInv, NEW p \in Calls, NEW ok \in BOOLEAN, AnswerWithSession(p, ok),
           UNCHANGED <<disk, op, built>>
    PROVE  IInv'
  <1> DEFINE s  == call[p].scope
             id == Cardinality(DOMAIN minted) + 1
  <1>1. call[p].pc # "idle" /\ s \in Scopes
    BY CallFields DEF AnswerWithSession, IInv, CallRecords
  <1>2. PICK n \in Nat : minted \in [1..n -> Scopes]
    BY DEF IInv, MintedInOrder
  <1>3. id = n + 1
    BY <1>2, IntervalCardinality
  <1>4. minted' = [i \in 1..id |-> IF i = id THEN s ELSE minted[i]]
    BY DEF AnswerWithSession
  <1>5. PICK v \in Victims(s) : Conclude(p, ok, SetSession(s, id, v), initiated \ v)
    BY DEF AnswerWithSession
  <1>6. UNCHANGED <<conn, faults, tok, stored, lock, provider, config, cache, inflight>>
    BY DEF AnswerWithSession, oauthVars, cacheVars
  <1> HIDE DEF s, id
  <1>7. /\ minted' \in [1..n + 1 -> Scopes] /\ minted'[id] = s /\ id \in DOMAIN minted'
        /\ \A i \in DOMAIN minted : i \in DOMAIN minted' /\ minted'[i] = minted[i]
    BY <1>1, <1>2, <1>3, <1>4
  <1>8. MintedInOrder'
    BY <1>7 DEF MintedInOrder
  <1> DEFINE ss == SetSession(s, id, v)
  <1>9. /\ ss \in [Scopes -> Nat]
        /\ \A t \in Scopes : ss[t] # 0 => ss[t] \in DOMAIN minted' /\ minted'[ss[t]] = t
    <2>1. Without(v) \in [Scopes -> Nat] /\ \A t \in Scopes : IssuedTo(Without(v)[t], t)
      BY WithoutSessions
    <2> QED
      BY <1>1, <1>3, <1>7, <2>1 DEF SetSession, IssuedTo
  <1>10. initiated \ v \in SUBSET Callers /\ TokenCurrent'
        /\ lock' \in Calls \cup {Nobody} /\ provider' \in [live : Nat, reused : BOOLEAN] /\ faults' \in Nat
    BY <1>6 DEF IInv, TypeOK, CallTyped, TokenCurrent
  <1>11. Conclude(p, ok, ss, initiated \ v)
    BY <1>5
  <1> HIDE DEF ss
  <1> QED
    BY <1>1, <1>6, <1>7, <1>8, <1>9, <1>10, <1>11, StepConclude

-----------------------------------------------------------------------------
(* The OAuth token. *)

(* A request that only moves on, with the fields it has. *)
LEMMA StepMovesOn ==
    ASSUME IInv, NEW p \in Calls, call[p].pc # "idle",
           NEW pc \in {"send", "join", "derive", "refused"}, call' = [call EXCEPT ![p].pc = pc],
           pc = "send" /\ conn.strategy = "dwd" => Anonymous(p),
           UNCHANGED <<conn, faults, disk, op, built>>, UNCHANGED sessionVars, UNCHANGED oauthVars,
           UNCHANGED <<config, cache>>, inflight' \in [Sources -> [Scopes -> Calls \cup {Nobody}]]
    PROVE  IInv'
  <1> DEFINE c == call[p]
             r == [c EXCEPT !.pc = pc]
  <1>1. c \in CallRecords /\ c.bearer <= built /\ IssuedTo(c.sid, c.scope)
    BY CallFields DEF IInv, SourcesBuilt, RequestOK
  <1>2. call' = [call EXCEPT ![p] = r]
    OBVIOUS
  <1>3. pc = "send" /\ conn.strategy = "dwd" => c.scope = Base /\ ~config[c.bearer].discovery
    BY DEF Anonymous
  <1> HIDE DEF c
  <1>4. /\ r \in CallRecords /\ r.pc = pc /\ r.bearer = c.bearer /\ r.sid = c.sid /\ r.scope = c.scope
    BY <1>1 DEF CallRecords
  <1> HIDE DEF r
  <1> QED
    BY <1>1, <1>2, <1>3, <1>4, CallOnly

LEMMA StepUseToken ==
    ASSUME IInv, NEW p \in Calls, UseToken(p), UNCHANGED <<disk, op, built>>
    PROVE  IInv'
  <1>1. /\ call[p].pc # "idle" /\ conn.strategy = "oauth" /\ call' = [call EXCEPT ![p].pc = "send"]
        /\ UNCHANGED <<conn, faults>> /\ UNCHANGED sessionVars /\ UNCHANGED oauthVars
        /\ UNCHANGED <<config, cache, inflight>>
    BY DEF UseToken, Waiting, cacheVars
  <1>2. inflight' \in [Sources -> [Scopes -> Calls \cup {Nobody}]]
    BY <1>1 DEF IInv, TypeOK, CallTyped
  <1> QED
    BY <1>1, <1>2, StepMovesOn

(* The mutex is taken, with the token that is good now. *)
LEMMA StepStartRefresh ==
    ASSUME IInv, NEW p \in Calls, StartRefresh(p), UNCHANGED <<disk, op, built>>
    PROVE  IInv'
  <1> DEFINE c == call[p]
             r == [c EXCEPT !.pc = "refresh", !.grant = tok.refresh]
  <1>1. /\ c.pc = "bearer" /\ c \in CallRecords /\ c.bearer <= built /\ IssuedTo(c.sid, c.scope)
        /\ conn.strategy = "oauth"
    BY CallFields DEF StartRefresh, Waiting, IInv, SourcesBuilt, RequestOK
  <1>2. /\ lock = Nobody /\ lock' = p
        /\ UNCHANGED <<conn, faults, tok, stored, provider, sessions, initiated, minted, config, cache, inflight>>
    BY DEF StartRefresh, LockFree, sessionVars, cacheVars
  <1>3. call' = [call EXCEPT ![p] = r] /\ call'[p] = r
    BY DEF StartRefresh, IInv, TypeOK, CallTyped
  <1>4. tok.refresh \in Nat
    BY DEF IInv, TypeOK, CallTyped
  <1> HIDE DEF c
  <1>5. /\ r \in CallRecords /\ r.pc = "refresh" /\ r.bearer = c.bearer /\ r.sid = c.sid
        /\ r.scope = c.scope /\ r.grant = tok.refresh
    BY <1>1, <1>4 DEF CallRecords
  <1> HIDE DEF r
  <1>6. RequestOK(p)'
    BY <1>1, <1>2, <1>3, <1>5 DEF RequestOK, IssuedTo, IInv, TokenCurrent
  <1>7. \A q \in Calls : call[q].pc = "refresh" => q = p
    BY <1>2, OneRefreshes
  <1>8. MintedInOrder' /\ SessionsOwned' /\ TokenCurrent'
    BY <1>2 DEF IInv, MintedInOrder, SessionsOwned, IssuedTo, TokenCurrent
  <1>9. /\ sessions' \in [Scopes -> Nat] /\ initiated' \subseteq Callers
        /\ tok' \in [refresh : Nat, fresh : BOOLEAN] /\ stored' \in [refresh : Nat, fresh : BOOLEAN]
        /\ lock' \in Calls \cup {Nobody} /\ provider' \in [live : Nat, reused : BOOLEAN]
        /\ inflight' \in [Sources -> [Scopes -> Calls \cup {Nobody}]] /\ faults' \in Nat
    BY <1>2 DEF IInv, TypeOK, CallTyped
  <1> QED
    BY <1>1, <1>2, <1>3, <1>5, <1>6, <1>7, <1>8, <1>9, CallMoves

(* What the authorization server does with a refresh token. *)
LEMMA PresentedTyped ==
    ASSUME IInv, NEW grant, NEW rotates \in BOOLEAN
    PROVE  /\ Presented(grant, rotates) \in [live : Nat, reused : BOOLEAN]
           /\ ~provider.reused /\ grant = provider.live => ~Presented(grant, rotates).reused
  <1>1. provider \in [live : Nat, reused : BOOLEAN]
    BY DEF IInv, TypeOK, CallTyped
  <1>2. [provider EXCEPT !.reused = TRUE] \in [live : Nat, reused : BOOLEAN]
    BY <1>1
  <1>3. ASSUME NEW n \in Nat
        PROVE  /\ [provider EXCEPT !.live = n] \in [live : Nat, reused : BOOLEAN]
               /\ [provider EXCEPT !.live = n].reused = provider.reused
    BY <1>1
  <1>4. provider.live \in Nat /\ provider.live + 1 \in Nat
    BY <1>1
  <1>5. Presented(grant, rotates) =
          IF provider.reused \/ grant # provider.live THEN [provider EXCEPT !.reused = TRUE]
          ELSE IF rotates THEN [provider EXCEPT !.live = provider.live + 1]
               ELSE [provider EXCEPT !.live = provider.live]
    BY DEF Presented
  <1> QED
    BY <1>2, <1>3, <1>4, <1>5

(* The answer is heard: the bearer holds what the server will take next. *)
LEMMA StepRefresh ==
    ASSUME IInv, NEW p \in Calls, NEW rotates \in BOOLEAN, NEW ok \in BOOLEAN,
           Refresh(p, rotates, ok), UNCHANGED <<disk, op, built>>
    PROVE  IInv'
  <1> DEFINE c == call[p]
             r == [c EXCEPT !.pc = "send", !.grant = 0]
  <1>1. /\ c.pc = "refresh" /\ c \in CallRecords /\ c.bearer <= built /\ IssuedTo(c.sid, c.scope)
    BY CallFields DEF Refresh, IInv, SourcesBuilt, RequestOK
  <1>2. /\ lock' = Nobody /\ provider' = Presented(c.grant, rotates)
        /\ tok' = [refresh |-> provider'.live, fresh |-> TRUE]
        /\ stored' \in {tok', stored}
        /\ UNCHANGED <<conn, sessions, initiated, minted, config, cache, inflight>>
    BY DEF Refresh, sessionVars, cacheVars
  <1>3. ~provider.reused /\ c.grant = provider.live
    BY DEF Refresh, Granted
  <1>4. provider' \in [live : Nat, reused : BOOLEAN] /\ ~provider'.reused
    BY <1>2, <1>3, PresentedTyped
  <1>5. /\ tok' \in [refresh : Nat, fresh : BOOLEAN] /\ stored' \in [refresh : Nat, fresh : BOOLEAN]
        /\ tok'.refresh = provider'.live
    <2>1. tok' \in [refresh : Nat, fresh : BOOLEAN] /\ tok'.refresh = provider'.live
      BY <1>2, <1>4
    <2>2. stored \in [refresh : Nat, fresh : BOOLEAN]
      BY DEF IInv, TypeOK, CallTyped
    <2> QED
      BY <1>2, <2>1, <2>2
  <1>6. faults' \in Nat
    BY DEF Refresh, Fault, IInv, TypeOK, CallTyped
  <1>7. call' = [call EXCEPT ![p] = r] /\ call'[p] = r
    BY DEF Refresh, IInv, TypeOK, CallTyped
  <1>8. \A q \in Calls : call[q].pc = "refresh" => q = p
    BY <1>1, OneRefreshes
  <1>9. conn.strategy = "oauth"
    BY <1>1 DEF IInv, RequestOK
  <1> HIDE DEF c
  <1>10. /\ r \in CallRecords /\ r.pc = "send" /\ r.bearer = c.bearer /\ r.sid = c.sid
        /\ r.scope = c.scope
    BY <1>1 DEF CallRecords
  <1> HIDE DEF r
  <1>11. RequestOK(p)'
    BY <1>1, <1>2, <1>7, <1>9, <1>10 DEF RequestOK, IssuedTo
  <1>12. MintedInOrder' /\ SessionsOwned' /\ TokenCurrent'
    BY <1>2, <1>4, <1>5 DEF IInv, MintedInOrder, SessionsOwned, IssuedTo, TokenCurrent
  <1>13. /\ sessions' \in [Scopes -> Nat] /\ initiated' \subseteq Callers /\ lock' \in Calls \cup {Nobody}
         /\ inflight' \in [Sources -> [Scopes -> Calls \cup {Nobody}]]
    BY <1>2 DEF IInv, TypeOK, CallTyped
  <1> QED
    BY <1>1, <1>2, <1>4, <1>5, <1>6, <1>7, <1>8, <1>10, <1>11, <1>12, <1>13, CallMoves

(* Without a fault the token presented is the one the server takes, so an    *)
(* answer that is not heard is a fault.                                      *)
LEMMA StepRefreshFails ==
    ASSUME IInv, NEW p \in Calls, NEW arrived \in BOOLEAN, NEW rotates \in BOOLEAN,
           RefreshFails(p, arrived, rotates), UNCHANGED <<disk, op, built>>
    PROVE  IInv'
  <1>1. /\ call[p].pc = "refresh" /\ lock' = Nobody
        /\ AuthFails(p) /\ minted' = minted
        /\ UNCHANGED <<conn, tok, stored, config, cache, inflight>>
    BY DEF RefreshFails, AuthFails, sessionVars, cacheVars
  <1>2. faults \in Nat /\ provider \in [live : Nat, reused : BOOLEAN]
    BY DEF IInv, TypeOK, CallTyped
  <1>3. /\ provider' \in [live : Nat, reused : BOOLEAN] /\ faults' \in Nat
        /\ faults' = 0 => faults = 0 /\ provider' = provider
    <2>1. CASE ~arrived
      BY <1>2, <2>1 DEF RefreshFails
    <2>2. CASE arrived
      <3>1. provider' = Presented(call[p].grant, rotates)
        BY <2>2 DEF RefreshFails
      <3>2. provider' \in [live : Nat, reused : BOOLEAN]
        BY <3>1, PresentedTyped
      <3>3. faults = 0 => Granted(p)
        BY <1>1 DEF IInv, RequestOK, TokenCurrent, Granted
      <3>4. faults' = IF Granted(p) THEN faults + 1 ELSE faults
        BY <2>2 DEF RefreshFails, Fault
      <3> QED
        BY <1>2, <3>2, <3>3, <3>4
    <2> QED
      BY <2>1, <2>2
  <1>4. \A q \in Calls : call[q].pc = "refresh" => q = p
    BY <1>1, OneRefreshes
  <1>5. MintedInOrder' /\ TokenCurrent'
    BY <1>1, <1>3 DEF IInv, MintedInOrder, TokenCurrent
  <1>6. /\ sessions \in [Scopes -> Nat] /\ initiated \in SUBSET Callers
        /\ \A s \in Scopes : sessions[s] # 0 => sessions[s] \in DOMAIN minted' /\ minted'[sessions[s]] = s
    BY <1>1 DEF IInv, TypeOK, CallTyped, SessionsOwned, IssuedTo
  <1>7. CASE call[p].method # "notify"
    <2>1. Conclude(p, FALSE, sessions, initiated)
      BY <1>1, <1>7 DEF AuthFails
    <2> QED
      BY <1>1, <1>3, <1>4, <1>5, <1>6, <2>1, StepConclude
  <1>8. CASE call[p].method = "notify"
    <2>1. /\ call' = [call EXCEPT ![p].pc = "send", ![p].token = NoToken, ![p].grant = 0]
          /\ UNCHANGED sessionVars
      BY <1>1, <1>8 DEF AuthFails
    <2> QED
      BY <1>1, <1>3, <1>4, <1>5, <1>8, <2>1, StepUnsigned
  <1> QED
    BY <1>7, <1>8

(* An access token that expires keeps its refresh token. *)
LEMMA StepExpire ==
    ASSUME IInv, Expire, UNCHANGED <<disk, op, built>>
    PROVE  IInv'
  <1>1. UNCHANGED <<conn, call, lock, provider, faults, sessions, initiated, minted, config, cache, inflight>>
    BY DEF Expire, sessionVars, cacheVars
  <1>2. /\ tok' \in [refresh : Nat, fresh : BOOLEAN] /\ stored' \in [refresh : Nat, fresh : BOOLEAN]
        /\ tok'.refresh = tok.refresh
    BY DEF Expire, IInv, TypeOK, CallTyped
  <1>3. TypeOK' /\ SourcesBuilt'
    BY <1>1, <1>2 DEF IInv, TypeOK, CallTyped, SourcesBuilt, Delegated
  <1>4. MintedInOrder' /\ SessionsOwned' /\ TokenCurrent'
    BY <1>1, <1>2 DEF IInv, MintedInOrder, SessionsOwned, IssuedTo, TokenCurrent
  <1>5. \A q \in Calls : RequestOK(q)'
    BY <1>1, OthersOK
  <1> QED
    BY <1>3, <1>4, <1>5 DEF IInv

-----------------------------------------------------------------------------
(* Derived tokens. *)

LEMMA StepGoAnonymous ==
    ASSUME IInv, NEW p \in Calls, GoAnonymous(p), UNCHANGED <<disk, op, built>>
    PROVE  IInv'
  <1>1. /\ call[p].pc # "idle" /\ Anonymous(p) /\ call' = [call EXCEPT ![p].pc = "send"]
        /\ UNCHANGED <<conn, faults>> /\ UNCHANGED sessionVars /\ UNCHANGED oauthVars
        /\ UNCHANGED <<config, cache, inflight>>
    BY DEF GoAnonymous, Waiting, cacheVars
  <1>2. inflight' \in [Sources -> [Scopes -> Calls \cup {Nobody}]]
    BY <1>1 DEF IInv, TypeOK, CallTyped
  <1> QED
    BY <1>1, <1>2, StepMovesOn

LEMMA StepJoin ==
    ASSUME IInv, NEW p \in Calls, Join(p) \/ GiveUp(p), UNCHANGED <<disk, op, built>>
    PROVE  IInv'
  <1>1. /\ call[p].pc # "idle"
        /\ \E pc \in {"join", "refused"} : call' = [call EXCEPT ![p].pc = pc]
        /\ UNCHANGED <<conn, faults>> /\ UNCHANGED sessionVars /\ UNCHANGED oauthVars
        /\ UNCHANGED <<config, cache, inflight>>
    BY DEF Join, GiveUp, NotCached, Derives, Waiting, cacheVars
  <1>2. inflight' \in [Sources -> [Scopes -> Calls \cup {Nobody}]]
    BY <1>1 DEF IInv, TypeOK, CallTyped
  <1> QED
    BY <1>1, <1>2, StepMovesOn

LEMMA StepLead ==
    ASSUME IInv, NEW p \in Calls, Lead(p), UNCHANGED <<disk, op, built>>
    PROVE  IInv'
  <1>1. /\ call[p].pc # "idle" /\ call' = [call EXCEPT ![p].pc = "derive"]
        /\ UNCHANGED <<conn, faults>> /\ UNCHANGED sessionVars /\ UNCHANGED oauthVars
        /\ UNCHANGED <<config, cache>>
        /\ inflight' = [inflight EXCEPT ![call[p].bearer][call[p].scope] = p]
    BY DEF Lead, NotCached, Derives, Waiting
  <1>2. call[p].bearer \in Sources /\ call[p].scope \in Scopes
    BY <1>1, CallFields DEF IInv, CallRecords
  <1>3. inflight' \in [Sources -> [Scopes -> Calls \cup {Nobody}]]
    BY <1>1, <1>2 DEF IInv, TypeOK, CallTyped
  <1> QED
    BY <1>1, <1>3, StepMovesOn

(* What the cache holds under a scope acts as that scope's subject. *)
LEMMA StepUseCached ==
    ASSUME IInv, NEW p \in Calls, UseCached(p), UNCHANGED <<disk, op, built>>
    PROVE  IInv'
  <1>1. /\ call[p].pc = "bearer"
        /\ UNCHANGED <<conn, faults>> /\ UNCHANGED sessionVars /\ UNCHANGED oauthVars
        /\ UNCHANGED <<config, cache, inflight>>
    BY DEF UseCached, Derives, Waiting, cacheVars
  <1>2. PICK t \in Cached(call[p].bearer, call[p].scope) : call' = [call EXCEPT ![p] = Deliver(p, t)]
    BY DEF UseCached
  <1>3. /\ call[p] \in CallRecords /\ call[p].bearer <= built /\ IssuedTo(call[p].sid, call[p].scope)
    BY <1>1, CallFields DEF IInv, SourcesBuilt, RequestOK
  <1>4. call[p].bearer \in Sources /\ call[p].scope \in Scopes
    BY <1>3 DEF CallRecords
  <1>5. t \in {Acting(s) : s \in Scopes} /\ t.for = call[p].scope
    BY <1>2, <1>4 DEF Cached, SameKey, IInv, TypeOK, CallTyped
  <1>6. t = Acting(call[p].scope)
    BY <1>5 DEF Acting
  <1> DEFINE r == [call[p] EXCEPT !.pc = "send", !.token = t]
  <1>7. /\ r \in CallRecords /\ r.pc = "send" /\ r.bearer = call[p].bearer /\ r.sid = call[p].sid
        /\ r.scope = call[p].scope /\ r.token = t
    <2>1. t \in {NoToken} \cup {Acting(s) : s \in Scopes}
      BY <1>5
    <2> QED
      BY <1>3, <2>1 DEF CallRecords
  <1>8. call' = [call EXCEPT ![p] = r]
    BY <1>2 DEF Deliver
  <1> HIDE DEF r
  <1>9. inflight' \in [Sources -> [Scopes -> Calls \cup {Nobody}]]
    BY <1>1 DEF IInv, TypeOK, CallTyped
  <1> QED
    BY <1>1, <1>3, <1>6, <1>7, <1>8, <1>9, CallOnly

(* A derivation ends, and every request it was for moves on with it. *)
LEMMA DerivationEnds ==
    ASSUME IInv, NEW group \in SUBSET Calls,
           \A q \in group :
              /\ call[q].pc \in {"join", "derive"}
              /\ call'[q] \in CallRecords /\ call'[q].pc \in {"send", "refused"}
              /\ call'[q].bearer = call[q].bearer
              /\ call'[q].sid = call[q].sid /\ call'[q].scope = call[q].scope
              /\ call'[q].pc = "send" => call'[q].token = Acting(call'[q].scope),
           \A q \in Calls \ group : call'[q] = call[q], call' = [q \in Calls |-> call'[q]],
           inflight' \in [Sources -> [Scopes -> Calls \cup {Nobody}]],
           cache' \in [Sources -> SUBSET {Acting(s) : s \in Scopes}],
           UNCHANGED <<conn, faults, config, disk, op, built>>, UNCHANGED sessionVars, UNCHANGED oauthVars
    PROVE  IInv'
  <1>1. UNCHANGED <<sessions, initiated, minted, tok, stored, lock, provider>>
    BY DEF sessionVars, oauthVars
  <1>2. \A q \in Calls : call'[q] \in {Quiet} \cup CallRecords
    BY DEF IInv, TypeOK, CallTyped
  <1>3. TypeOK'
    BY <1>1, <1>2 DEF IInv, TypeOK, CallTyped
  <1>4. SourcesBuilt'
    BY DEF IInv, SourcesBuilt, Delegated
  <1>5. MintedInOrder' /\ SessionsOwned' /\ TokenCurrent'
    BY <1>1 DEF IInv, MintedInOrder, SessionsOwned, IssuedTo, TokenCurrent
  <1>6. ASSUME NEW q \in Calls
        PROVE  RequestOK(q)'
    <2>1. CASE q \in group
      <3>1. IssuedTo(call[q].sid, call[q].scope)
        BY <2>1 DEF IInv, RequestOK
      <3> QED
        BY <1>1, <2>1, <3>1 DEF RequestOK, IssuedTo
    <2>2. CASE q \notin group
      BY <1>1, <2>2, OthersOK
    <2> QED
      BY <2>1, <2>2
  <1> QED
    BY <1>3, <1>4, <1>5, <1>6 DEF IInv

(* The derivation that p leads is taken off the list. *)
LEMMA InflightCleared ==
    ASSUME IInv, NEW p \in Calls, call[p].pc = "derive",
           inflight' = [inflight EXCEPT ![call[p].bearer][call[p].scope] = Nobody]
    PROVE  inflight' \in [Sources -> [Scopes -> Calls \cup {Nobody}]]
  <1>1. call[p].bearer \in Sources /\ call[p].scope \in Scopes
    BY CallFields DEF IInv, CallRecords
  <1> QED
    BY <1>1 DEF IInv, TypeOK, CallTyped

(* Those who joined have the scope of the leader, so its token is theirs. *)
LEMMA StepDerive ==
    ASSUME IInv, NEW p \in Calls, Derive(p), UNCHANGED <<disk, op, built>>
    PROVE  IInv'
  <1> DEFINE d == call[p].bearer
             t == Acting(call[p].scope)
             group == Joined(p) \cup {p}
  <1>1. /\ call[p].pc = "derive" /\ UNCHANGED <<conn, faults, config>>
        /\ UNCHANGED sessionVars /\ UNCHANGED oauthVars
        /\ inflight' = [inflight EXCEPT ![call[p].bearer][call[p].scope] = Nobody]
        /\ call' = [q \in Calls |-> IF q \in group THEN Deliver(q, t) ELSE call[q]]
        /\ \E v : cache' = [cache EXCEPT ![d] = (@ \ v) \cup {t}]
    BY DEF Derive, Acting
  <1>2. call[p] \in CallRecords /\ d \in Sources /\ call[p].scope \in Scopes
    BY <1>1, CallFields DEF IInv, CallRecords
  <1>3. cache' \in [Sources -> SUBSET {Acting(s) : s \in Scopes}]
    BY <1>1, <1>2 DEF IInv, TypeOK, CallTyped
  <1>4. /\ group \in SUBSET Calls
        /\ \A q \in group : call[q].pc \in {"join", "derive"} /\ call[q].scope = call[p].scope
    BY <1>1 DEF Joined, SameKey
  <1>5. /\ call' = [q \in Calls |-> call'[q]]
        /\ \A q \in Calls \ group : call'[q] = call[q]
        /\ \A q \in group : call'[q] = [call[q] EXCEPT !.pc = "send", !.token = t]
    BY <1>1, <1>4 DEF Deliver
  <1>6. t \in {NoToken} \cup {Acting(s) : s \in Scopes}
    BY <1>2
  <1>7. \A q \in group : t = Acting(call[q].scope) /\ call[q] \in CallRecords
    BY <1>4, CallFields DEF IInv
  <1> HIDE DEF group, d, t
  <1>8. ASSUME NEW q \in group
        PROVE  /\ call[q].pc \in {"join", "derive"}
               /\ call'[q] \in CallRecords /\ call'[q].pc \in {"send", "refused"}
               /\ call'[q].bearer = call[q].bearer
               /\ call'[q].sid = call[q].sid /\ call'[q].scope = call[q].scope
               /\ call'[q].pc = "send" => call'[q].token = Acting(call'[q].scope)
    <2> DEFINE c == call[q]
               r == [c EXCEPT !.pc = "send", !.token = t]
    <2>1. c \in CallRecords /\ c.pc \in {"join", "derive"} /\ t = Acting(c.scope)
      BY <1>4, <1>7
    <2>2. call'[q] = r
      BY <1>5
    <2> HIDE DEF c
    <2>3. /\ r \in CallRecords /\ r.pc = "send" /\ r.bearer = c.bearer
          /\ r.sid = c.sid /\ r.scope = c.scope /\ r.token = t
      BY <1>6, <2>1 DEF CallRecords
    <2> HIDE DEF r
    <2> QED
      BY <2>1, <2>2, <2>3 DEF c
  <1>9. inflight' \in [Sources -> [Scopes -> Calls \cup {Nobody}]]
    BY <1>1, InflightCleared
  <1> QED
    BY <1>1, <1>3, <1>4, <1>5, <1>8, <1>9, DerivationEnds

LEMMA StepDeriveFails ==
    ASSUME IInv, NEW p \in Calls, DeriveFails(p), UNCHANGED <<disk, op, built>>
    PROVE  IInv'
  <1> DEFINE group == Joined(p) \cup {p}
  <1>1. /\ call[p].pc = "derive" /\ UNCHANGED <<conn, faults, config, cache>>
        /\ UNCHANGED sessionVars /\ UNCHANGED oauthVars
        /\ inflight' = [inflight EXCEPT ![call[p].bearer][call[p].scope] = Nobody]
        /\ call' = [q \in Calls |-> IF q \in group THEN [call[q] EXCEPT !.pc = "refused"] ELSE call[q]]
    BY DEF DeriveFails
  <1>2. cache' \in [Sources -> SUBSET {Acting(s) : s \in Scopes}]
    BY <1>1 DEF IInv, TypeOK, CallTyped
  <1>3. group \in SUBSET Calls /\ \A q \in group : call[q].pc \in {"join", "derive"}
    BY <1>1 DEF Joined
  <1>4. /\ call' = [q \in Calls |-> call'[q]]
        /\ \A q \in Calls \ group : call'[q] = call[q]
        /\ \A q \in group : call'[q] = [call[q] EXCEPT !.pc = "refused"]
    BY <1>1, <1>3
  <1>5. \A q \in group : call[q] \in CallRecords
    BY <1>3, CallFields DEF IInv
  <1> HIDE DEF group
  <1>6. ASSUME NEW q \in group
        PROVE  /\ call[q].pc \in {"join", "derive"}
               /\ call'[q] \in CallRecords /\ call'[q].pc \in {"send", "refused"}
               /\ call'[q].bearer = call[q].bearer
               /\ call'[q].sid = call[q].sid /\ call'[q].scope = call[q].scope
               /\ call'[q].pc = "send" => call'[q].token = Acting(call'[q].scope)
    <2> DEFINE c == call[q]
               r == [c EXCEPT !.pc = "refused"]
    <2>1. c \in CallRecords /\ c.pc \in {"join", "derive"}
      BY <1>3, <1>5
    <2>2. call'[q] = r
      BY <1>4
    <2> HIDE DEF c
    <2>3. /\ r \in CallRecords /\ r.pc = "refused" /\ r.bearer = c.bearer
          /\ r.sid = c.sid /\ r.scope = c.scope
      BY <2>1 DEF CallRecords
    <2> HIDE DEF r
    <2> QED
      BY <2>1, <2>2, <2>3 DEF c
  <1>7. inflight' \in [Sources -> [Scopes -> Calls \cup {Nobody}]]
    BY <1>1, InflightCleared
  <1> QED
    BY <1>1, <1>2, <1>3, <1>4, <1>6, <1>7, DerivationEnds

LEMMA StepExpireDerived ==
    ASSUME IInv, NEW d \in Sources, NEW t, ExpireDerived(d, t), UNCHANGED <<disk, op, built>>
    PROVE  IInv'
  <1>1. /\ UNCHANGED <<conn, call, config, inflight, faults>>
        /\ UNCHANGED <<sessions, initiated, minted, tok, stored, lock, provider>>
        /\ cache' = [cache EXCEPT ![d] = @ \ {t}]
    BY DEF ExpireDerived, sessionVars, oauthVars
  <1>2. TypeOK' /\ SourcesBuilt'
    BY <1>1 DEF IInv, TypeOK, CallTyped, SourcesBuilt, Delegated
  <1>3. MintedInOrder' /\ SessionsOwned' /\ TokenCurrent'
    BY <1>1 DEF IInv, MintedInOrder, SessionsOwned, IssuedTo, TokenCurrent
  <1>4. \A q \in Calls : RequestOK(q)'
    BY <1>1, OthersOK
  <1> QED
    BY <1>2, <1>3, <1>4 DEF IInv

-----------------------------------------------------------------------------
(* Administration. *)

(* A step of an operator leaves the requests alone, may drop every session,  *)
(* and configures no source that is built.                                   *)
LEMMA AdminMoves ==
    ASSUME IInv, UNCHANGED <<call, minted, tok, stored, lock, provider, inflight, faults>>,
           \/ UNCHANGED <<sessions, initiated>>
           \/ sessions' = [s \in Scopes |-> 0] /\ initiated' = {},
           conn' \in Conns, conn'.strategy = conn.strategy, conn'.bearer <= built', conn'.source <= built',
           op' \in [Operators -> Ops], \A o \in Operators : op'[o].pc # "idle" => op'[o].source <= built',
           disk' \in Disks, built' \in Sources, built <= built', ~Delegated => built' = built,
           config' \in [Sources -> [account : Accounts, discovery : BOOLEAN]],
           \A d \in 1..built : config'[d] = config[d],
           cache' \in [Sources -> SUBSET {Acting(s) : s \in Scopes}]
    PROVE  IInv'
  <1>1. sessions' \in [Scopes -> Nat] /\ initiated' \subseteq Callers /\ SessionsOwned'
    BY DEF IInv, TypeOK, CallTyped, SessionsOwned, IssuedTo
  <1>2. TypeOK'
    BY <1>1 DEF IInv, TypeOK, CallTyped, Disks, Ops, Conns
  <1>3. SourcesBuilt'
    <2>1. built \in Nat /\ built' \in Nat
      BY DEF IInv, TypeOK, Sources
    <2>2. \A p \in Calls : call[p].pc # "idle" => call[p].bearer \in Nat /\ call[p].bearer <= built
      BY CallFields DEF IInv, SourcesBuilt, CallRecords, Sources
    <2> QED
      BY <2>1, <2>2 DEF IInv, SourcesBuilt, Delegated
  <1>4. MintedInOrder' /\ TokenCurrent'
    BY DEF IInv, MintedInOrder, TokenCurrent
  <1>5. \A q \in Calls : RequestOK(q)'
    BY OthersOK
  <1> QED
    BY <1>1, <1>2, <1>3, <1>4, <1>5 DEF IInv

(* What IInv says of what an operator's step starts from. *)
LEMMA AdminTyped ==
    ASSUME IInv
    PROVE  /\ conn \in Conns /\ conn.bearer <= built /\ conn.source <= built
           /\ op \in [Operators -> Ops] /\ \A o \in Operators : op[o].pc # "idle" => op[o].source <= built
           /\ disk \in Disks /\ built \in Sources /\ built <= built
           /\ config \in [Sources -> [account : Accounts, discovery : BOOLEAN]]
           /\ cache \in [Sources -> SUBSET {Acting(s) : s \in Scopes}]
  <1>1. built \in Nat
    BY DEF IInv, TypeOK, Sources
  <1> QED
    BY <1>1 DEF IInv, TypeOK, CallTyped, SourcesBuilt, Conns, Ops, Disks

(* An operator's request under way is a record with its source. *)
LEMMA OpFields ==
    ASSUME IInv, NEW o \in Operators, op[o].pc # "idle"
    PROVE  /\ op[o] \in [pc : {"register", "persist", "discovered", "rebind", "set", "update"}, source : Sources]
           /\ op[o].source \in Sources /\ op[o].source <= built
  BY AdminTyped DEF Ops, Ready

(* An operator's request moves to step, or ends. *)
LEMMA OpMoves ==
    ASSUME IInv, NEW o \in Operators,
           \/ op' = [op EXCEPT ![o] = Ready]
           \/ op[o].pc # "idle" /\ \E s \in {"persist", "discovered", "set", "update"} : op' = [op EXCEPT ![o].pc = s]
    PROVE  op' \in [Operators -> Ops] /\ \A q \in Operators : op'[q].pc # "idle" => op'[q].source <= built
  <1>1. op \in [Operators -> Ops] /\ \A q \in Operators : op[q].pc # "idle" => op[q].source <= built
    BY AdminTyped
  <1>2. CASE op' = [op EXCEPT ![o] = Ready]
    BY <1>1, <1>2 DEF Ops, Ready
  <1>3. ASSUME op[o].pc # "idle", NEW s \in {"persist", "discovered", "set", "update"}, op' = [op EXCEPT ![o].pc = s]
        PROVE  op' \in [Operators -> Ops] /\ \A q \in Operators : op'[q].pc # "idle" => op'[q].source <= built
    <2> DEFINE r == [op[o] EXCEPT !.pc = s]
    <2>1. op' = [op EXCEPT ![o] = r]
      BY <1>3
    <2>2. r \in Ops /\ r.source = op[o].source /\ op[o].source <= built
      BY <1>3, OpFields DEF Ops
    <2> HIDE DEF r
    <2> QED
      BY <1>1, <2>1, <2>2
  <1> QED
    BY <1>2, <1>3

(* A source is built in a place nothing names yet. *)
LEMMA StepBuild ==
    ASSUME IInv, NEW o \in Operators, NEW step \in {"register", "rebind"}, NEW cfg, NEW doc,
           cfg.discovery \in BOOLEAN, doc.account \in Accounts, Idle(o), Build(o, step, cfg, doc),
           disk' \in Disks, UNCHANGED <<conn, cache>>, UNCHANGED callVars
    PROVE  IInv'
  <1>1. UNCHANGED <<call, minted, tok, stored, lock, provider, inflight, faults, sessions, initiated>>
    BY DEF callVars
  <1>2. built \in Nat /\ built' = built + 1 /\ built' \in Sources
    BY UpstreamCallsAssumption DEF Build, IInv, TypeOK, Sources
  <1> DEFINE r == [pc |-> step, source |-> built + 1]
             e == [account |-> doc.account, discovery |-> cfg.discovery]
  <1>3. op' = [op EXCEPT ![o] = r] /\ config' = [config EXCEPT ![built + 1] = e]
    BY DEF Build
  <1>4. r \in Ops /\ r.source = built' /\ e \in [account : Accounts, discovery : BOOLEAN]
    BY <1>2 DEF Ops
  <1> HIDE DEF r, e
  <1>5. /\ config' \in [Sources -> [account : Accounts, discovery : BOOLEAN]]
        /\ \A d \in 1..built : config'[d] = config[d]
    BY <1>2, <1>3, <1>4, AdminTyped DEF Sources
  <1>6. \A q \in Operators : op[q].pc # "idle" => op[q].source \in Nat /\ op[q].source <= built
    BY OpFields DEF Sources
  <1>7. op' \in [Operators -> Ops] /\ \A q \in Operators : op'[q].pc # "idle" => op'[q].source <= built'
    BY <1>2, <1>3, <1>4, <1>6, AdminTyped
  <1>8. /\ conn' \in Conns /\ conn'.strategy = conn.strategy /\ conn'.bearer <= built'
        /\ conn'.source <= built' /\ built <= built'
        /\ cache' \in [Sources -> SUBSET {Acting(s) : s \in Scopes}]
    BY <1>2, AdminTyped DEF Conns, Sources
  <1>9. Delegated
    BY DEF Idle
  <1> QED
    BY <1>1, <1>2, <1>5, <1>7, <1>8, <1>9, AdminMoves

(* Adding, replacing, rotating and reconfiguring build a source first. *)
LEMMA StepBuilds ==
    ASSUME IInv, NEW o \in Operators, NEW cfg \in Requests, NEW doc \in Documents,
           AddDelegated(o, cfg, doc) \/ ReplaceKey(o, cfg, doc)
    PROVE  IInv'
  <1>1. doc.account \in Accounts /\ cfg.discovery \in BOOLEAN
    BY DelegationAssumption
  <1>2. [disk EXCEPT !.key = doc.account] \in Disks
    BY <1>1, AdminTyped DEF Disks
  <1> QED
    BY <1>1, <1>2, StepBuild DEF AddDelegated, ReplaceKey

LEMMA StepRotates ==
    ASSUME IInv, NEW o \in Operators, NEW doc \in Documents, RotateKey(o, doc)
    PROVE  IInv'
  <1>1. doc.account \in Accounts /\ ConfigOf(conn.source).discovery \in BOOLEAN
    BY DelegationAssumption DEF ConfigOf
  <1>2. [disk EXCEPT !.key = doc.account] \in Disks
    BY <1>1, AdminTyped DEF Disks
  <1> QED
    BY <1>1, <1>2, StepBuild DEF RotateKey

LEMMA StepReconfigures ==
    ASSUME IInv, NEW o \in Operators, NEW cfg \in Requests, Reconfigure(o, cfg)
    PROVE  IInv'
  <1>1. cfg.discovery \in BOOLEAN /\ disk \in Disks
    BY DelegationAssumption, AdminTyped
  <1>2. KeyOf(disk.key).account \in Accounts
    BY <1>1 DEF Reconfigure, KeyOf, Disks
  <1> QED
    BY <1>1, <1>2, StepBuild DEF Reconfigure

(* A connection is made or replaced with the source that was built for it. *)
LEMMA StepInstalls ==
    ASSUME IInv, NEW o \in Operators, NEW ok \in BOOLEAN, NEW discover \in BOOLEAN,
           Register(o, ok, discover) \/ Rebind(o, ok)
    PROVE  IInv'
  <1>1. op[o].pc # "idle" /\ op[o].source \in Sources /\ op[o].source <= built
    BY OpFields DEF Register, Rebind
  <1>2. UNCHANGED <<built, config, cache, call, minted, tok, stored, lock, provider, inflight, faults>>
    BY DEF Register, Rebind
  <1>3. /\ op' \in [Operators -> Ops] /\ \A q \in Operators : op'[q].pc # "idle" => op'[q].source <= built
        /\ \/ UNCHANGED <<sessions, initiated>>
           \/ sessions' = [s \in Scopes |-> 0] /\ initiated' = {}
    <2>1. \/ op' = [op EXCEPT ![o] = Ready] \/ op' = [op EXCEPT ![o].pc = "persist"]
          \/ op' = [op EXCEPT ![o].pc = "discovered"] \/ op' = [op EXCEPT ![o].pc = "set"]
      BY DEF Register, Rebind
    <2>2. op' \in [Operators -> Ops] /\ \A q \in Operators : op'[q].pc # "idle" => op'[q].source <= built
      BY <1>1, <2>1, OpMoves
    <2> QED
      BY <2>2 DEF Register, Rebind
  <1>4. disk' \in Disks
    <2>1. [disk EXCEPT !.key = NoKey] \in Disks /\ disk \in Disks
      BY AdminTyped DEF Disks
    <2> QED
      BY <2>1 DEF Register, Rebind
  <1>5. conn' \in Conns /\ conn'.strategy = conn.strategy /\ conn'.bearer <= built /\ conn'.source <= built
    <2>1. conn \in Conns /\ conn.bearer <= built /\ conn.source <= built
      BY AdminTyped
    <2>2. CASE conn' = conn
      BY <2>1, <2>2
    <2>3. CASE conn' = [conn EXCEPT !.here = TRUE, !.enabled = ~discover, !.epoch = @ + 1,
                                    !.bearer = op[o].source, !.source = op[o].source]
      <3>1. conn.epoch + 1 \in Nat
        BY <2>1 DEF Conns
      <3> QED
        BY <1>1, <2>1, <2>3, <3>1 DEF Conns
    <2>4. CASE conn' = [conn EXCEPT !.epoch = @ + 1, !.bearer = op[o].source,
                                    !.enabled = @ \/ conn.revoked, !.revoked = FALSE]
      <3>1. conn.epoch + 1 \in Nat
        BY <2>1 DEF Conns
      <3> QED
        BY <1>1, <2>1, <2>4, <3>1 DEF Conns
    <2> QED
      BY <2>2, <2>3, <2>4 DEF Register, Rebind
  <1>6. built' = built /\ built \in Sources /\ built <= built /\ config' = config /\ cache' = cache
    BY <1>2, AdminTyped
  <1> QED
    BY <1>2, <1>3, <1>4, <1>5, <1>6, AdminTyped, AdminMoves

LEMMA StepPersist ==
    ASSUME IInv, NEW o \in Operators, Persist(o)
    PROVE  IInv'
  <1>1. op[o].pc # "idle" /\ op[o].source \in Sources
    BY OpFields DEF Persist
  <1>2. config[op[o].source] \in [account : Accounts, discovery : BOOLEAN] /\ disk \in Disks
    BY <1>1, AdminTyped
  <1>3. disk' \in Disks
    BY <1>2 DEF Persist, Disks
  <1>4. op' \in [Operators -> Ops] /\ \A q \in Operators : op'[q].pc # "idle" => op'[q].source <= built
    BY OpMoves DEF Persist
  <1>5. /\ UNCHANGED <<call, minted, tok, stored, lock, provider, inflight, faults, sessions, initiated>>
        /\ UNCHANGED <<conn, built, config, cache>>
    BY DEF Persist, callVars
  <1> QED
    BY <1>3, <1>4, <1>5, AdminTyped, AdminMoves

(* A cache is dropped, not filled. *)
LEMMA CacheDropped ==
    ASSUME IInv, DropCache
    PROVE  cache' \in [Sources -> SUBSET {Acting(s) : s \in Scopes}]
  BY AdminTyped DEF DropCache

LEMMA StepSet ==
    ASSUME IInv, NEW o \in Operators, SetDelegation(o) \/ SetDelegationGone(o)
    PROVE  IInv'
  <1>1. op[o].pc # "idle" /\ op[o].source \in Sources /\ op[o].source <= built
    BY OpFields DEF SetDelegation, SetDelegationGone
  <1>2. /\ UNCHANGED <<call, minted, tok, stored, lock, provider, inflight, faults, sessions, initiated>>
        /\ UNCHANGED <<disk, built, config>>
    BY DEF SetDelegation, SetDelegationGone, callVars
  <1>3. op' \in [Operators -> Ops] /\ \A q \in Operators : op'[q].pc # "idle" => op'[q].source <= built
    BY <1>1, OpMoves DEF SetDelegation, SetDelegationGone
  <1>4. conn' \in Conns /\ conn'.strategy = conn.strategy /\ conn'.bearer <= built /\ conn'.source <= built
    BY <1>1, AdminTyped DEF SetDelegation, SetDelegationGone, Conns
  <1>5. cache' \in [Sources -> SUBSET {Acting(s) : s \in Scopes}]
    BY CacheDropped, AdminTyped DEF SetDelegation, SetDelegationGone
  <1> QED
    BY <1>2, <1>3, <1>4, <1>5, AdminTyped, AdminMoves

(* Disabling, enabling, revoking and removing keep the sources. *)
LEMMA StepLifecycle ==
    ASSUME IInv, Disable \/ Enable \/ Revoke \/ Remove
    PROVE  IInv'
  <1>1. /\ UNCHANGED <<call, minted, tok, stored, lock, provider, inflight, faults, sessions, initiated>>
        /\ UNCHANGED <<op, built, config>>
    BY DEF Disable, Enable, Revoke, Remove, callVars
  <1>2. conn' \in Conns /\ conn'.strategy = conn.strategy /\ conn'.bearer = conn.bearer
        /\ conn'.source = conn.source
    BY AdminTyped DEF Disable, Enable, Revoke, Remove, Conns
  <1>3. disk' \in Disks
    BY AdminTyped DEF Disable, Enable, Revoke, Remove, Disks
  <1>4. cache' \in [Sources -> SUBSET {Acting(s) : s \in Scopes}]
    BY CacheDropped, AdminTyped DEF Disable, Enable, Revoke, Remove
  <1> QED
    BY <1>1, <1>2, <1>3, <1>4, AdminTyped, AdminMoves

(* After a restart there are no requests, one source, and the token stored.  *)
LEMMA StepRestart ==
    ASSUME IInv, Restart
    PROVE  IInv'
  <1>1. 1 \in Sources
    BY UpstreamCallsAssumption DEF Sources
  <1>2. /\ faults' = faults + 1 /\ faults \in Nat
        /\ call' = [p \in Calls |-> Quiet] /\ sessions' = [s \in Scopes |-> 0] /\ initiated' = {}
        /\ op' = [o \in Operators |-> Ready] /\ tok' = stored /\ lock' = Nobody
        /\ cache' = [d \in Sources |-> {}] /\ inflight' = [d \in Sources |-> [s \in Scopes |-> Nobody]]
        /\ built' = 1 /\ UNCHANGED <<minted, stored, provider, disk>>
    BY DEF Restart, TokenFromRecord, IInv, TypeOK, CallTyped
  <1>3. /\ conn' \in Conns /\ conn'.bearer = 1 /\ conn'.source = 1
        /\ config' \in [Sources -> [account : Accounts, discovery : BOOLEAN]]
    <2>1. conn \in Conns /\ disk \in Disks /\ conn.epoch + 1 \in Nat
      BY AdminTyped DEF Conns
    <2>2. CASE Delegated
      <3> DEFINE here == Reloads
                 revoked == Reloads /\ disk.revoked
                 enabled == Reloads /\ disk.enabled
      <3>1. here \in BOOLEAN /\ revoked \in BOOLEAN /\ enabled \in BOOLEAN
        BY DEF Reloads
      <3>2. conn' = [conn EXCEPT !.here = here, !.revoked = revoked, !.enabled = enabled,
                                 !.epoch = conn.epoch + 1, !.bearer = 1, !.source = 1]
        BY <2>2 DEF Restart
      <3>3. config' = [d \in Sources |-> [account |-> disk.account, discovery |-> disk.discovery]]
        BY <2>2 DEF Restart
      <3> HIDE DEF here, revoked, enabled
      <3>4. conn' \in Conns /\ conn'.bearer = 1 /\ conn'.source = 1
        BY <1>1, <2>1, <3>1, <3>2 DEF Conns
      <3> QED
        BY <2>1, <3>3, <3>4 DEF Disks
    <2>3. CASE ~Delegated
      <3>1. conn.bearer = 1 /\ conn.source = 1
        BY <2>1, <2>3 DEF IInv, SourcesBuilt, Conns, Sources
      <3>2. conn' = [conn EXCEPT !.epoch = conn.epoch + 1] /\ config' = config
        BY <2>3 DEF Restart
      <3> QED
        BY <2>1, <3>1, <3>2, AdminTyped DEF Conns
    <2> QED
      BY <2>2, <2>3
  <1>4. TypeOK'
    BY <1>1, <1>2, <1>3 DEF IInv, TypeOK, CallTyped, Conns, Quiet, Ready, Ops
  <1>5. SourcesBuilt'
    BY <1>2, <1>3 DEF SourcesBuilt, Quiet, Ready
  <1>6. MintedInOrder' /\ SessionsOwned' /\ TokenCurrent'
    <2>1. MintedInOrder'
      BY <1>2 DEF IInv, MintedInOrder
    <2>2. SessionsOwned'
      BY <1>2 DEF SessionsOwned, IssuedTo
    <2>3. TokenCurrent'
      BY <1>2 DEF TokenCurrent
    <2> QED
      BY <2>1, <2>2, <2>3
  <1>7. \A p \in Calls : RequestOK(p)'
    BY <1>2 DEF RequestOK, Quiet
  <1> QED
    BY <1>4, <1>5, <1>6, <1>7 DEF IInv

-----------------------------------------------------------------------------
(* The connection as it is served at first. *)
LEMMA InitIInv == Init => IInv
  <1> SUFFICES ASSUME Init PROVE IInv
    OBVIOUS
  <1>1. 1 \in Sources
    BY UpstreamCallsAssumption DEF Sources
  <1>2. PICK s \in Strategies :
          conn = [strategy |-> s, here |-> TRUE, enabled |-> TRUE, revoked |-> FALSE,
                  epoch |-> 0, bearer |-> 1, source |-> 1]
    BY DEF Init, CallInit
  <1>3. PICK e \in Accounts : config = [d \in Sources |-> [account |-> e, discovery |-> TRUE]]
    BY DEF Init, CallInit
  <1>4. /\ call = [p \in Calls |-> Quiet] /\ sessions = [t \in Scopes |-> 0] /\ initiated = {}
        /\ minted = <<>> /\ tok = [refresh |-> 0, fresh |-> TRUE] /\ stored = tok /\ lock = Nobody
        /\ provider = [live |-> 0, reused |-> FALSE] /\ cache = [d \in Sources |-> {}]
        /\ inflight = [d \in Sources |-> [t \in Scopes |-> Nobody]] /\ faults = 0
        /\ op = [o \in Operators |-> Ready] /\ built = 1
    BY DEF Init, CallInit
  <1>5. disk = [registered |-> TRUE, revoked |-> FALSE, enabled |-> TRUE, account |-> e,
                discovery |-> TRUE, key |-> e]
    BY <1>1, <1>3 DEF Init
  <1>6. CallTyped
    BY <1>1, <1>2, <1>3, <1>4 DEF CallTyped, Conns
  <1>7. TypeOK
    BY <1>1, <1>4, <1>5, <1>6 DEF TypeOK, Disks, Ops
  <1>8. SourcesBuilt
    BY <1>2, <1>4 DEF SourcesBuilt, Quiet, Ready
  <1>9. MintedInOrder
    <2>1. minted \in [1..0 -> Scopes]
      BY <1>4
    <2> QED
      BY <2>1 DEF MintedInOrder
  <1>10. SessionsOwned /\ TokenCurrent /\ \A p \in Calls : RequestOK(p)
    BY <1>4 DEF SessionsOwned, IssuedTo, TokenCurrent, RequestOK, Quiet
  <1> QED
    BY <1>7, <1>8, <1>9, <1>10 DEF IInv

(* Every step keeps the invariant. *)
LEMMA NextIInv == IInv /\ [Next]_vars => IInv'
  <1> SUFFICES ASSUME IInv, [Next]_vars PROVE IInv'
    OBVIOUS
  <1>1. CASE CallNext /\ UNCHANGED <<disk, op, built>>
    BY <1>1, StepBegin, StepAnswer, StepAnswerWithSession, StepUseToken, StepStartRefresh,
       StepRefresh, StepRefreshFails, StepGoAnonymous, StepUseCached, StepJoin, StepLead,
       StepDerive, StepDeriveFails, StepRefused, StepExpire, StepExpireDerived DEF CallNext
  <1>2. CASE AdminNext
    <2>1. ASSUME NEW o \in Operators, NEW cfg \in Requests, NEW doc \in Documents,
                 AddDelegated(o, cfg, doc) \/ ReplaceKey(o, cfg, doc)
          PROVE  IInv'
      BY <2>1, StepBuilds
    <2>2. ASSUME NEW o \in Operators, NEW doc \in Documents, RotateKey(o, doc)
          PROVE  IInv'
      BY <2>2, StepRotates
    <2>3. ASSUME NEW o \in Operators, NEW cfg \in Requests, Reconfigure(o, cfg)
          PROVE  IInv'
      BY <2>3, StepReconfigures
    <2> QED
      BY <1>2, <2>1, <2>2, <2>3, StepInstalls, StepPersist, StepSet, StepLifecycle DEF AdminNext
  <1>3. CASE Restart
    BY <1>3, StepRestart
  <1>4. CASE UNCHANGED vars
    <2>1. /\ UNCHANGED <<call, minted, tok, stored, lock, provider, inflight, faults, sessions, initiated>>
          /\ UNCHANGED <<conn, op, disk, built, config, cache>>
      BY <1>4 DEF vars
    <2> QED
      BY <2>1, AdminTyped, AdminMoves
  <1> QED
    BY <1>1, <1>2, <1>3, <1>4 DEF Next

(* The invariant holds of every reachable state, for any number of operators *)
(* administering the connection at once.                                     *)
THEOREM InvariantTheorem == Spec => []IInv
  BY InitIInv, NextIInv, PTL DEF Spec

(* A session id the upstream gave to one caller's request is never used for  *)
(* another's, whatever was evicted, replaced or answered late (client.go:    *)
(* sessions by caller scope).                                                *)
THEOREM SessionPrivateTheorem == Spec => []SessionPrivate
  <1>1. IInv => SessionPrivate
    BY DEF IInv, SessionsOwned, RequestOK, IssuedTo, SessionPrivate
  <1> QED
    BY <1>1, InvariantTheorem, PTL

(* However many calls find the token stale, without a lost answer, a failing *)
(* save or a restart no spent refresh token is presented (RefreshingBearer   *)
(* refreshes and stores under its mutex).                                    *)
THEOREM NoReuseTheorem == Spec => []NoReuse
  <1>1. IInv => NoReuse
    <2> SUFFICES ASSUME IInv PROVE NoReuse
      OBVIOUS
    <2>1. faults \in Nat
      BY DEF IInv, TypeOK, CallTyped
    <2> QED
      BY <2>1 DEF IInv, TokenCurrent, NoReuse
  <1> QED
    BY <1>1, InvariantTheorem, PTL

(* A delegated call is sent with a token derived for its own caller and      *)
(* acting as its subject, through joins, cache hits, evictions, key          *)
(* rotations and restarts (DelegatedTokenSource.Token).                      *)
THEOREM ActsAsCallerTheorem == Spec => []ActsAsCaller
  <1>1. IInv => ActsAsCaller
    BY DEF IInv, RequestOK, Acting, ActsAsCaller
  <1> QED
    BY <1>1, InvariantTheorem, PTL

-----------------------------------------------------------------------------
(* Who waits for whom. *)

(* A request moves that neither leads nor refreshes, and does not begin to. *)
LEMMA OtherMoves ==
    ASSUME IInv, Flights, NEW p \in Calls, call[p].pc \notin {"derive", "refresh"},
           \A q \in Calls \ {p} : call'[q] = call[q],
           call'[p].pc \notin {"derive", "refresh", "join"}, UNCHANGED <<lock, inflight>>
    PROVE  Flights'
  <1>1. /\ lock \in Calls \cup {Nobody}
        /\ inflight \in [Sources -> [Scopes -> Calls \cup {Nobody}]]
    BY DEF IInv, TypeOK, CallTyped
  <1>2. lock' # Nobody => call'[lock'].pc = "refresh"
    BY <1>1 DEF Flights
  <1>3. ASSUME NEW d \in Sources, NEW s \in Scopes, inflight'[d][s] # Nobody
        PROVE  /\ call'[inflight'[d][s]].pc = "derive"
               /\ call'[inflight'[d][s]].bearer = d /\ call'[inflight'[d][s]].scope = s
    <2>1. inflight[d][s] \in Calls /\ call[inflight[d][s]].pc = "derive"
          /\ call[inflight[d][s]].bearer = d /\ call[inflight[d][s]].scope = s
      BY <1>1, <1>3 DEF Flights
    <2> QED
      BY <2>1
  <1>4. ASSUME NEW q \in Calls
        PROVE  /\ call'[q].pc = "derive" => inflight'[call'[q].bearer][call'[q].scope] = q
               /\ call'[q].pc = "join" => inflight'[call'[q].bearer][call'[q].scope] # Nobody
    BY DEF Flights
  <1> QED
    BY <1>2, <1>3, <1>4 DEF Flights

LEMMA FlightsConclude ==
    ASSUME IInv, NEW p \in Calls, NEW ok, NEW ss, NEW ini, Conclude(p, ok, ss, ini), call[p].pc # "idle"
    PROVE  /\ call'[p].pc \in {"idle", "bearer"}
           /\ \A q \in Calls \ {p} : call'[q] = call[q]
  <1>1. call \in [Calls -> {Quiet} \cup CallRecords] /\ call[p] \in CallRecords
    BY CallFields DEF IInv, TypeOK, CallTyped
  <1> DEFINE c == call[p]
             m == After(c.method, ok)
             id == IF Current(p) THEN ss[c.scope] ELSE 0
             r == [c EXCEPT !.pc = "bearer", !.method = m, !.token = NoToken, !.grant = 0, !.sid = id]
  <1>2. call' = [call EXCEPT ![p] = IF c.method = "call" THEN Quiet ELSE r]
    BY DEF Conclude
  <1> HIDE DEF m, id, c
  <1>3. r.pc = "bearer"
    BY <1>1 DEF CallRecords, c
  <1> HIDE DEF r
  <1> QED
    BY <1>1, <1>2, <1>3 DEF Quiet

LEMMA FlightsFails ==
    ASSUME IInv, NEW p \in Calls, AuthFails(p), call[p].pc # "idle"
    PROVE  /\ call'[p].pc \in {"idle", "bearer", "send"}
           /\ \A q \in Calls \ {p} : call'[q] = call[q]
  <1>1. CASE call[p].method # "notify"
    BY <1>1, FlightsConclude DEF AuthFails
  <1>2. CASE call[p].method = "notify"
    <2>1. call \in [Calls -> {Quiet} \cup CallRecords] /\ call[p] \in CallRecords
      BY CallFields DEF IInv, TypeOK, CallTyped
    <2> DEFINE c == call[p]
               r == [c EXCEPT !.pc = "send", !.token = NoToken, !.grant = 0]
    <2>2. call' = [call EXCEPT ![p] = r]
      BY <1>2 DEF AuthFails
    <2>3. c \in CallRecords
      BY <2>1
    <2> HIDE DEF c
    <2>4. r.pc = "send"
      BY <2>3 DEF CallRecords
    <2> HIDE DEF r
    <2> QED
      BY <2>1, <2>2, <2>4
  <1> QED
    BY <1>1, <1>2

(* The leader of a derivation, if there is one, is the one in its entry. *)
LEMMA LeaderIs ==
    ASSUME IInv, NEW d \in Sources, NEW s \in Scopes
    PROVE  Leader(d, s) = {} <=> inflight[d][s] = Nobody
  <1>1. inflight[d][s] \in Calls \cup {Nobody}
    BY DEF IInv, TypeOK, CallTyped
  <1>2. Leader(d, s) = {q \in Calls : inflight[d][s] = q}
    BY DEF Leader, SameKey
  <1> QED
    BY <1>1, <1>2, UpstreamCallsAssumption

LEMMA FlightsLead ==
    ASSUME IInv, Flights, NEW p \in Calls, Join(p) \/ Lead(p)
    PROVE  Flights'
  <1> DEFINE d == call[p].bearer
             s == call[p].scope
  <1>1. /\ call[p].pc = "bearer" /\ call[p] \in CallRecords /\ d \in Sources /\ s \in Scopes
        /\ call \in [Calls -> {Quiet} \cup CallRecords] /\ lock' = lock
        /\ inflight \in [Sources -> [Scopes -> Calls \cup {Nobody}]] /\ lock \in Calls \cup {Nobody}
    BY CallFields DEF Join, Lead, NotCached, Derives, Waiting, IInv, TypeOK, CallTyped, CallRecords, oauthVars
  <1>2. lock' # Nobody => lock' # p /\ lock' \in Calls /\ call[lock'].pc = "refresh"
    BY <1>1 DEF Flights
  <1>3. CASE Join(p)
    <2>1. inflight' = inflight /\ call' = [call EXCEPT ![p].pc = "join"] /\ inflight[d][s] # Nobody
      BY <1>1, <1>3, LeaderIs DEF Join, cacheVars
    <2>2. /\ call'[p].pc = "join" /\ call'[p].bearer = d /\ call'[p].scope = s
          /\ \A q \in Calls \ {p} : call'[q] = call[q]
      BY <1>1, <2>1 DEF CallRecords
    <2> HIDE DEF d, s
    <2>3. ASSUME NEW e \in Sources, NEW t \in Scopes, inflight'[e][t] # Nobody
          PROVE  /\ call'[inflight'[e][t]].pc = "derive"
                 /\ call'[inflight'[e][t]].bearer = e /\ call'[inflight'[e][t]].scope = t
      <3>1. inflight[e][t] \in Calls /\ call[inflight[e][t]].pc = "derive"
            /\ call[inflight[e][t]].bearer = e /\ call[inflight[e][t]].scope = t
        BY <1>1, <2>1, <2>3 DEF Flights
      <3>2. inflight[e][t] # p
        BY <1>1, <3>1
      <3> QED
        BY <2>1, <2>2, <3>1, <3>2
    <2>4. ASSUME NEW q \in Calls
          PROVE  /\ call'[q].pc = "derive" => inflight'[call'[q].bearer][call'[q].scope] = q
                 /\ call'[q].pc = "join" => inflight'[call'[q].bearer][call'[q].scope] # Nobody
      BY <2>1, <2>2 DEF Flights
    <2>5. lock' # Nobody => call'[lock'].pc = "refresh"
      BY <1>2, <2>2
    <2> QED
      BY <2>3, <2>4, <2>5 DEF Flights
  <1>4. CASE Lead(p)
    <2>1. /\ inflight' = [inflight EXCEPT ![d][s] = p] /\ call' = [call EXCEPT ![p].pc = "derive"]
          /\ inflight[d][s] = Nobody
      BY <1>1, <1>4, LeaderIs DEF Lead
    <2>2. /\ call'[p].pc = "derive" /\ call'[p].bearer = d /\ call'[p].scope = s
          /\ \A q \in Calls \ {p} : call'[q] = call[q]
      BY <1>1, <2>1 DEF CallRecords
    <2>3. /\ inflight'[d][s] = p
          /\ \A e \in Sources, t \in Scopes : (e # d \/ t # s) => inflight'[e][t] = inflight[e][t]
      BY <1>1, <2>1
    <2> HIDE DEF d, s
    <2>4. ASSUME NEW e \in Sources, NEW t \in Scopes, inflight'[e][t] # Nobody
          PROVE  /\ call'[inflight'[e][t]].pc = "derive"
                 /\ call'[inflight'[e][t]].bearer = e /\ call'[inflight'[e][t]].scope = t
      <3>1. CASE e = d /\ t = s
        BY <2>2, <2>3, <3>1
      <3>2. CASE e # d \/ t # s
        <4>1. inflight'[e][t] = inflight[e][t]
          BY <2>3, <3>2
        <4>2. inflight[e][t] \in Calls /\ call[inflight[e][t]].pc = "derive"
              /\ call[inflight[e][t]].bearer = e /\ call[inflight[e][t]].scope = t
          BY <1>1, <2>4, <4>1 DEF Flights
        <4>3. inflight[e][t] # p
          BY <1>1, <4>2
        <4> QED
          BY <2>2, <4>1, <4>2, <4>3
      <3> QED
        BY <3>1, <3>2
    <2>5. ASSUME NEW q \in Calls
          PROVE  /\ call'[q].pc = "derive" => inflight'[call'[q].bearer][call'[q].scope] = q
                 /\ call'[q].pc = "join" => inflight'[call'[q].bearer][call'[q].scope] # Nobody
      <3>1. CASE q = p
        BY <2>2, <2>3, <3>1
      <3>2. CASE q # p
        <4>1. call'[q] = call[q]
          BY <2>2, <3>2
        <4>2. CASE call[q].pc \in {"derive", "join"}
          <5>1. call[q].bearer \in Sources /\ call[q].scope \in Scopes
            BY <4>2, CallFields DEF IInv, CallRecords
          <5>2. inflight[call[q].bearer][call[q].scope] # Nobody
            BY <4>2, UpstreamCallsAssumption DEF Flights
          <5>3. inflight'[call[q].bearer][call[q].scope] = inflight[call[q].bearer][call[q].scope]
            BY <2>1, <2>3, <5>1, <5>2
          <5> QED
            BY <4>1, <5>2, <5>3 DEF Flights
        <4> QED
          BY <4>1, <4>2
      <3> QED
        BY <3>1, <3>2
    <2>6. lock' # Nobody => call'[lock'].pc = "refresh"
      BY <1>2, <2>2
    <2> QED
      BY <2>4, <2>5, <2>6 DEF Flights
  <1> QED
    BY <1>3, <1>4

(* A derivation ends for its leader and for all that joined it. *)
LEMMA FlightsEnd ==
    ASSUME IInv, Flights, NEW p \in Calls, Derive(p) \/ DeriveFails(p)
    PROVE  Flights'
  <1> DEFINE d == call[p].bearer
             s == call[p].scope
             group == Joined(p) \cup {p}
  <1>1. /\ call[p].pc = "derive" /\ d \in Sources /\ s \in Scopes /\ lock' = lock
        /\ inflight \in [Sources -> [Scopes -> Calls \cup {Nobody}]] /\ lock \in Calls \cup {Nobody}
        /\ inflight' = [inflight EXCEPT ![d][s] = Nobody]
    BY CallFields DEF Derive, DeriveFails, IInv, TypeOK, CallTyped, CallRecords, oauthVars
  <1>2. /\ inflight'[d][s] = Nobody /\ inflight[d][s] = p
        /\ \A e \in Sources, t \in Scopes : (e # d \/ t # s) => inflight'[e][t] = inflight[e][t]
    BY <1>1 DEF Flights
  <1>3. \A q \in Calls : q \in group <=>
          q = p \/ (call[q].pc = "join" /\ call[q].bearer = d /\ call[q].scope = s)
    BY DEF Joined, SameKey
  <1>4. ASSUME NEW q \in Calls
        PROVE  /\ q \in group => call'[q].pc \in {"send", "refused"}
               /\ q \notin group => call'[q] = call[q]
    <2>1. q \in group => call[q] \in CallRecords
      BY <1>1, <1>3, CallFields DEF IInv
    <2>2. CASE DeriveFails(p)
      <3>1. call'[q] = IF q \in group THEN [call[q] EXCEPT !.pc = "refused"] ELSE call[q]
        BY <2>2 DEF DeriveFails
      <3> HIDE DEF group
      <3> QED
        BY <2>1, <3>1 DEF CallRecords
    <2>3. CASE Derive(p)
      <3> DEFINE t == Acting(call[p].scope)
      <3>1. call'[q] = IF q \in group THEN [call[q] EXCEPT !.pc = "send", !.token = t] ELSE call[q]
        BY <2>3 DEF Derive, Deliver, Acting
      <3> HIDE DEF group, t
      <3> QED
        BY <2>1, <3>1 DEF CallRecords
    <2> QED
      BY <2>2, <2>3
  <1> HIDE DEF d, s, group
  <1>5. ASSUME NEW e \in Sources, NEW t \in Scopes, inflight'[e][t] # Nobody
        PROVE  /\ call'[inflight'[e][t]].pc = "derive"
               /\ call'[inflight'[e][t]].bearer = e /\ call'[inflight'[e][t]].scope = t
    <2>1. inflight'[e][t] = inflight[e][t] /\ (e # d \/ t # s)
      BY <1>2, <1>5
    <2>2. inflight[e][t] \in Calls /\ call[inflight[e][t]].pc = "derive"
          /\ call[inflight[e][t]].bearer = e /\ call[inflight[e][t]].scope = t
      BY <1>1, <1>5, <2>1 DEF Flights
    <2>3. inflight[e][t] # p
      BY <2>1, <2>2 DEF d, s
    <2>4. inflight[e][t] \notin group
      BY <1>3, <2>2, <2>3
    <2> QED
      BY <1>4, <2>1, <2>2, <2>4
  <1>6. ASSUME NEW q \in Calls
        PROVE  /\ call'[q].pc = "derive" => inflight'[call'[q].bearer][call'[q].scope] = q
               /\ call'[q].pc = "join" => inflight'[call'[q].bearer][call'[q].scope] # Nobody
    <2>1. CASE q \in group
      BY <1>4, <2>1
    <2>2. CASE q \notin group
      <3>1. call'[q] = call[q] /\ q # p
        BY <1>3, <1>4, <2>2
      <3>2. CASE call[q].pc \in {"derive", "join"}
        <4>1. call[q].bearer \in Sources /\ call[q].scope \in Scopes
          BY <3>2, CallFields DEF IInv, CallRecords
        <4>2. call[q].bearer # d \/ call[q].scope # s
          BY <1>2, <1>3, <2>2, <3>1, <3>2 DEF Flights
        <4>3. inflight'[call[q].bearer][call[q].scope] = inflight[call[q].bearer][call[q].scope]
          BY <1>2, <4>1, <4>2
        <4> QED
          BY <3>1, <4>3 DEF Flights
      <3> QED
        BY <3>1, <3>2
    <2> QED
      BY <2>1, <2>2
  <1>7. lock' # Nobody => call'[lock'].pc = "refresh"
    <2> SUFFICES ASSUME lock' # Nobody PROVE call'[lock'].pc = "refresh"
      OBVIOUS
    <2>1. lock \in Calls /\ call[lock].pc = "refresh"
      BY <1>1 DEF Flights
    <2>2. lock \notin group
      BY <1>1, <1>3, <2>1
    <2> QED
      BY <1>1, <1>4, <2>1, <2>2
  <1> QED
    BY <1>5, <1>6, <1>7 DEF Flights

(* The mutex is taken for a refresh and given back with it. *)
LEMMA FlightsRefresh ==
    ASSUME IInv, Flights, NEW p \in Calls, call[p].pc \in {"bearer", "refresh"}, inflight' = inflight,
           \A q \in Calls \ {p} : call'[q] = call[q],
           \/ lock' = p /\ call'[p].pc = "refresh"
           \/ lock' = Nobody /\ call'[p].pc \in {"idle", "bearer", "send"}
    PROVE  Flights'
  <1>1. inflight \in [Sources -> [Scopes -> Calls \cup {Nobody}]]
    BY DEF IInv, TypeOK, CallTyped
  <1>2. ASSUME NEW d \in Sources, NEW s \in Scopes, inflight'[d][s] # Nobody
        PROVE  /\ call'[inflight'[d][s]].pc = "derive"
               /\ call'[inflight'[d][s]].bearer = d /\ call'[inflight'[d][s]].scope = s
    <2>1. inflight[d][s] \in Calls /\ call[inflight[d][s]].pc = "derive"
          /\ call[inflight[d][s]].bearer = d /\ call[inflight[d][s]].scope = s
      BY <1>1, <1>2 DEF Flights
    <2> QED
      BY <2>1
  <1>3. ASSUME NEW q \in Calls
        PROVE  /\ call'[q].pc = "derive" => inflight'[call'[q].bearer][call'[q].scope] = q
               /\ call'[q].pc = "join" => inflight'[call'[q].bearer][call'[q].scope] # Nobody
    BY DEF Flights
  <1>4. lock' # Nobody => call'[lock'].pc = "refresh"
    OBVIOUS
  <1> QED
    BY <1>2, <1>3, <1>4 DEF Flights

(* A request as it moves on. *)
LEMMA MovedOn ==
    ASSUME IInv, NEW p \in Calls, call[p].pc # "idle", NEW r, call' = [call EXCEPT ![p] = r]
    PROVE  call'[p] = r /\ \A q \in Calls \ {p} : call'[q] = call[q]
  BY DEF IInv, TypeOK, CallTyped

LEMMA RecordMoves ==
    ASSUME NEW c \in CallRecords
    PROVE  /\ \A x : [c EXCEPT !.pc = x].pc = x
           /\ \A x, y : [c EXCEPT !.pc = x, !.token = y].pc = x
           /\ \A x, y : [c EXCEPT !.pc = x, !.grant = y].pc = x
  BY DEF CallRecords

(* Every step keeps what the waits rest on. *)
LEMMA NextFlights == IInv /\ Flights /\ [Next]_vars => Flights'
  <1> SUFFICES ASSUME IInv, Flights, [Next]_vars PROVE Flights'
    OBVIOUS
  <1>1. CASE UNCHANGED <<call, lock, inflight>>
    BY <1>1 DEF Flights
  <1>2. ASSUME NEW p \in Calls, NEW s \in Scopes, Begin(p, s)
        PROVE  Flights'
    <2>1. /\ call[p].pc = "idle" /\ UNCHANGED <<lock, inflight>>
          /\ \E m, id : call' = [call EXCEPT ![p] = Request(s, m, id)]
      BY <1>2 DEF Begin, oauthVars, cacheVars
    <2>2. call \in [Calls -> {Quiet} \cup CallRecords]
      BY DEF IInv, TypeOK, CallTyped
    <2>3. call'[p].pc = "bearer" /\ \A q \in Calls \ {p} : call'[q] = call[q]
      BY <2>1, <2>2 DEF Request
    <2> QED
      BY <2>1, <2>3, OtherMoves
  <1>3. ASSUME NEW p \in Calls, NEW ok \in BOOLEAN, Answer(p, ok) \/ AnswerWithSession(p, ok)
        PROVE  Flights'
    <2>1. /\ call[p].pc = "send" /\ UNCHANGED <<lock, inflight>>
          /\ \E ss, ini : Conclude(p, ok, ss, ini)
      BY <1>3 DEF Answer, AnswerWithSession, oauthVars, cacheVars
    <2>2. call'[p].pc \in {"idle", "bearer"} /\ \A q \in Calls \ {p} : call'[q] = call[q]
      BY <2>1, FlightsConclude
    <2> QED
      BY <2>1, <2>2, OtherMoves
  <1>4. ASSUME NEW p \in Calls, UseToken(p) \/ GoAnonymous(p) \/ UseCached(p) \/ GiveUp(p)
        PROVE  Flights'
    <2>1. call[p].pc \in {"bearer", "join"} /\ UNCHANGED <<lock, inflight>>
      BY <1>4 DEF UseToken, GoAnonymous, UseCached, GiveUp, Derives, Waiting, oauthVars, cacheVars
    <2>2. \/ call' = [call EXCEPT ![p].pc = "send"] \/ call' = [call EXCEPT ![p].pc = "refused"]
          \/ \E t : call' = [call EXCEPT ![p] = [call[p] EXCEPT !.pc = "send", !.token = t]]
      BY <1>4 DEF UseToken, GoAnonymous, UseCached, GiveUp, Deliver
    <2>3. call'[p].pc \in {"send", "refused"} /\ \A q \in Calls \ {p} : call'[q] = call[q]
      <3> DEFINE c == call[p]
      <3>1. c \in CallRecords
        BY <2>1, CallFields DEF IInv
      <3>2. PICK r : call' = [call EXCEPT ![p] = r] /\ r.pc \in {"send", "refused"}
        <4>1. ASSUME NEW x \in {"send", "refused"}, call' = [call EXCEPT ![p].pc = x]
              PROVE  \E r : call' = [call EXCEPT ![p] = r] /\ r.pc \in {"send", "refused"}
          <5>1. call' = [call EXCEPT ![p] = [c EXCEPT !.pc = x]] /\ [c EXCEPT !.pc = x].pc = x
            BY <3>1, <4>1, RecordMoves
          <5> QED
            BY <5>1
        <4>2. ASSUME NEW t, call' = [call EXCEPT ![p] = [c EXCEPT !.pc = "send", !.token = t]]
              PROVE  \E r : call' = [call EXCEPT ![p] = r] /\ r.pc \in {"send", "refused"}
          <5>1. [c EXCEPT !.pc = "send", !.token = t].pc = "send"
            BY <3>1, RecordMoves
          <5> QED
            BY <4>2, <5>1
        <4> QED
          BY <2>2, <4>1, <4>2
      <3> QED
        BY <2>1, <3>2, MovedOn
    <2> QED
      BY <2>1, <2>3, OtherMoves
  <1>5. ASSUME NEW p \in Calls, Refused(p)
        PROVE  Flights'
    <2>1. call[p].pc = "refused" /\ AuthFails(p) /\ UNCHANGED <<lock, inflight>>
      BY <1>5 DEF Refused, oauthVars, cacheVars
    <2> QED
      BY <2>1, FlightsFails, OtherMoves
  <1>6. ASSUME NEW p \in Calls, StartRefresh(p)
        PROVE  Flights'
    <2>1. /\ call[p].pc = "bearer" /\ lock' = p /\ inflight' = inflight
          /\ call' = [call EXCEPT ![p] = [call[p] EXCEPT !.pc = "refresh", !.grant = tok.refresh]]
      BY <1>6 DEF StartRefresh, Waiting, cacheVars
    <2>2. call'[p].pc = "refresh" /\ \A q \in Calls \ {p} : call'[q] = call[q]
      <3> DEFINE r == [call[p] EXCEPT !.pc = "refresh", !.grant = tok.refresh]
      <3>1. r.pc = "refresh"
        BY <2>1, CallFields, RecordMoves DEF IInv
      <3>2. call' = [call EXCEPT ![p] = r]
        BY <2>1
      <3> HIDE DEF r
      <3> QED
        BY <2>1, <3>1, <3>2, MovedOn
    <2> QED
      BY <2>1, <2>2, FlightsRefresh
  <1>7. ASSUME NEW p \in Calls, NEW rotates \in BOOLEAN, NEW b \in BOOLEAN, Refresh(p, rotates, b)
        PROVE  Flights'
    <2>1. /\ call[p].pc = "refresh" /\ lock' = Nobody /\ inflight' = inflight
          /\ call' = [call EXCEPT ![p] = [call[p] EXCEPT !.pc = "send", !.grant = 0]]
      BY <1>7 DEF Refresh, cacheVars
    <2>2. call'[p].pc = "send" /\ \A q \in Calls \ {p} : call'[q] = call[q]
      <3> DEFINE r == [call[p] EXCEPT !.pc = "send", !.grant = 0]
      <3>1. r.pc = "send"
        BY <2>1, CallFields, RecordMoves DEF IInv
      <3>2. call' = [call EXCEPT ![p] = r]
        BY <2>1
      <3> HIDE DEF r
      <3> QED
        BY <2>1, <3>1, <3>2, MovedOn
    <2> QED
      BY <2>1, <2>2, FlightsRefresh
  <1>8. ASSUME NEW p \in Calls, NEW rotates \in BOOLEAN, NEW b \in BOOLEAN, RefreshFails(p, b, rotates)
        PROVE  Flights'
    <2>1. call[p].pc = "refresh" /\ AuthFails(p) /\ lock' = Nobody /\ inflight' = inflight
      BY <1>8 DEF RefreshFails, cacheVars
    <2> QED
      BY <2>1, FlightsFails, FlightsRefresh
  <1>9. CASE CallNext
    <2>1. CASE Expire \/ \E d \in Sources : \E t \in cache[d] : ExpireDerived(d, t)
      BY <1>1, <2>1 DEF Expire, ExpireDerived, oauthVars, cacheVars
    <2> QED
      BY <1>2, <1>3, <1>4, <1>5, <1>6, <1>7, <1>8, <1>9, <2>1, FlightsLead, FlightsEnd DEF CallNext
  <1>10. CASE AdminNext
    <2>1. UNCHANGED <<call, lock, inflight>>
      BY <1>10 DEF AdminNext, AddDelegated, ReplaceKey, RotateKey, Reconfigure, Register, Rebind,
             Persist, SetDelegation, SetDelegationGone, Disable, Enable, Revoke, Remove, callVars
    <2> QED
      BY <1>1, <2>1
  <1>11. CASE Restart
    <2>1. /\ call' = [p \in Calls |-> Quiet] /\ lock' = Nobody
          /\ inflight' = [d \in Sources |-> [s \in Scopes |-> Nobody]]
      BY <1>11 DEF Restart
    <2> QED
      BY <2>1 DEF Flights, Quiet
  <1> QED
    BY <1>1, <1>9, <1>10, <1>11 DEF Next, vars

(* Through failed, timed-out and abandoned derivations, failed refreshes,    *)
(* rebinds and restarts: a source makes one derivation at a time for a       *)
(* caller, whoever waits for one waits for one that is being made, and the   *)
(* mutex of the bearer is held by a call that refreshes                      *)
(* (DelegatedTokenSource.Token, RefreshingBearer).                           *)
THEOREM WaitersLedTheorem == Spec => []WaitersLed
  <1>1. Init => Flights
    BY DEF Init, CallInit, Flights, Quiet
  <1>2. IInv /\ Flights => WaitersLed
    <2> SUFFICES ASSUME IInv, Flights PROVE WaitersLed
      OBVIOUS
    <2>1. ASSUME NEW p \in Calls, call[p].pc = "join"
          PROVE  \E q \in Calls : /\ call[q].pc = "derive" /\ call[q].bearer = call[p].bearer
                                  /\ call[q].scope = call[p].scope
      <3>1. call[p].bearer \in Sources /\ call[p].scope \in Scopes
        BY <2>1, CallFields DEF IInv, CallRecords
      <3>2. inflight[call[p].bearer][call[p].scope] \in Calls
        BY <2>1, <3>1 DEF Flights, IInv, TypeOK, CallTyped
      <3> QED
        BY <2>1, <3>1, <3>2 DEF Flights
    <2>2. ASSUME NEW p \in {r \in Calls : call[r].pc = "derive"},
                 NEW q \in {r \in Calls : call[r].pc = "derive"},
                 call[p].bearer = call[q].bearer, call[p].scope = call[q].scope
          PROVE  p = q
      BY <2>2 DEF Flights
    <2> QED
      BY <2>1, <2>2 DEF WaitersLed, Flights
  <1>3. Spec => []Flights
    BY <1>1, NextFlights, InvariantTheorem, PTL DEF Spec
  <1> QED
    BY <1>2, <1>3, InvariantTheorem, PTL

-----------------------------------------------------------------------------
(* Registry.  What a handler will still write, and whether another may       *)
(* interfere, decides what the file may say: PolicyInv keeps both.           *)

(* A request that has nothing to set is kept. *)
LEMMA QuietKept ==
    ASSUME NEW h \in Handlers, RequestShape(req[h]), DOMAIN req[h].sets = {},
           req[h].stage \notin PolicyFields \cup {"applyReadOnly"}
    PROVE  RequestKept(h)
  BY DEF RequestKept, AsksAt, Asked, PolicyFields, AddStages

LEMMA RequestFields ==
    DOMAIN NoRequest = {"stage", "reauth", "auth", "discover", "sets", "conn", "unsure"}
  BY DEF NoRequest

LEMMA NoRequestShape == RequestShape(NoRequest) /\ DOMAIN NoRequest.sets = {} /\ NoRequest.stage = "idle"
  BY DEF RequestShape, NoRequest, Nothing

(* The end of a request: it wrote nothing but what it was asked for, and     *)
(* all of that if it is taken at its word.                                   *)
LEMMA FinishKeeps ==
    ASSUME PolicyInv, NEW h \in Handlers, NEW done \in BOOLEAN, Finish(h, done),
           reg'.there => reg.there,
           saved' = [f \in Fields |-> saved'[f]],
           reg'.there => \A f \in Fields :
              saved'[f] = saved[f] \/ (Asked(req[h], f) /\ saved'[f] = req[h].sets[f]),
           (done /\ ~req[h].unsure /\ reg'.there) =>
              \A f \in DOMAIN req[h].sets : saved'[f] = req[h].sets[f]
    PROVE  PolicyInv'
  <1>1. RequestKept(h) /\ RequestShape(req[h])
    BY DEF PolicyInv, RequestKept
  <1>2. PolicyKept'
    <2> SUFFICES ASSUME reg'.there, NEW f \in Fields PROVE saved'[f] \in expect'[f]
      BY DEF PolicyKept
    <2>1. CASE done /\ ~req[h].unsure /\ Asked(req[h], f)
      BY <2>1 DEF Finish, Asked
    <2>2. CASE ~(done /\ ~req[h].unsure /\ Asked(req[h], f))
      BY <2>2, <1>1 DEF Finish, Asked, PolicyInv, PolicyKept, RequestKept
    <2> QED
      BY <2>1, <2>2
  <1>3. req' = [g \in Handlers |-> IF g = h THEN NoRequest ELSE req[g]]
    BY DEF Finish, PolicyInv
  <1>4. ASSUME NEW g \in Handlers PROVE RequestKept(g)'
    <2>1. CASE g = h
      BY <2>1, <1>3, NoRequestShape DEF RequestKept, AsksAt, Asked, PolicyFields, AddStages
    <2>2. CASE g # h
      <3>1. req'[g] = req[g] /\ RequestKept(g)
        BY <2>2, <1>3 DEF PolicyInv
      <3>2. ASSUME NEW f \in DOMAIN req[g].sets PROVE req[g].sets[f] \in expect'[f]
        <4>1. f \in Fields
          BY <3>1 DEF RequestKept, RequestShape
        <4>2. Asked(req[h], f) => req[h].unsure
          BY <2>2, <4>1 DEF PolicyInv, Uncontended, Asked
        <4> QED
          BY <3>1, <4>1, <4>2 DEF Finish, RequestKept
      <3>3. (Asked(req[g], "owner") /\ ~req[g].unsure /\ reg'.there) => saved'["owner"] = saved["owner"]
        <4> SUFFICES ASSUME Asked(req[g], "owner"), ~req[g].unsure, reg'.there
                     PROVE  saved'["owner"] = saved["owner"]
          OBVIOUS
        <4>1. "owner" \in Fields
          BY <3>1 DEF RequestKept, RequestShape, Asked
        <4>2. ~Asked(req[h], "owner")
          BY <2>2, <4>1 DEF PolicyInv, Uncontended
        <4> QED
          BY <4>1, <4>2
      <3> QED
        BY <3>1, <3>2, <3>3 DEF RequestKept
    <2> QED
      BY <2>1, <2>2
  <1>5. Uncontended'
    BY <1>3, NoRequestShape DEF PolicyInv, Uncontended, Asked
  <1> QED
    BY <1>2, <1>3, <1>4, <1>5 DEF PolicyInv

(* A request that only comes further: it asks for what it asked for. *)
LEMMA GoesKeeps ==
    ASSUME PolicyInv, NEW h \in Handlers, NEW o,
           req' = [req EXCEPT ![h] = o], UNCHANGED expect,
           RequestShape(o), AsksAt(o), o.sets = req[h].sets, ~o.unsure => ~req[h].unsure,
           reg'.there => reg.there, saved' = [f \in Fields |-> saved'[f]],
           reg'.there => saved' = saved,
           (o.stage \in {"applyReadOnly", "readOnly"} /\ ~o.unsure /\ reg'.there /\ Asked(o, "owner"))
              => saved'["owner"] = o.sets["owner"]
    PROVE  PolicyInv'
  <1>1. req' = [g \in Handlers |-> IF g = h THEN o ELSE req[g]]
    BY DEF PolicyInv
  <1>2. PolicyKept'
    BY DEF PolicyInv, PolicyKept
  <1>3. ASSUME NEW g \in Handlers PROVE RequestKept(g)'
    BY <1>1 DEF PolicyInv, RequestKept, Asked
  <1>4. Uncontended'
    BY <1>1 DEF PolicyInv, Uncontended, Asked
  <1> QED
    BY <1>1, <1>2, <1>3, <1>4 DEF PolicyInv

LEMMA MarkedUnsure ==
    ASSUME NEW o, NEW b \in BOOLEAN, RequestShape(o), AsksAt(o)
    PROVE  /\ RequestShape([o EXCEPT !.unsure = b]) /\ AsksAt([o EXCEPT !.unsure = b])
           /\ [o EXCEPT !.unsure = b].sets = o.sets /\ [o EXCEPT !.unsure = b].stage = o.stage
           /\ [o EXCEPT !.unsure = b].unsure = b
  BY DEF RequestShape, AsksAt

(* A new request counts towards what is expected, and makes those that set   *)
(* the same field unsure.                                                    *)
LEMMA BeginKeeps ==
    ASSUME PolicyInv, NEW h \in Handlers, NEW o, BeginRequest(h, o), RequestShape(o), AsksAt(o),
           o.stage \notin {"applyReadOnly"}, o.stage = "readOnly" => ~Asked(o, "owner"),
           UNCHANGED <<reg, saved>>
    PROVE  PolicyInv'
  <1> DEFINE other(g) == [req[g] EXCEPT !.unsure = @ \/ Contend(req[g], o.sets)]
             new == [o EXCEPT !.unsure = \E g \in Handlers : Contend(req[g], o.sets)]
  <1>1. req' = [g \in Handlers |-> IF g = h THEN new ELSE other(g)]
    BY DEF BeginRequest
  <1>2. /\ new.sets = o.sets /\ new.stage = o.stage /\ RequestShape(new) /\ AsksAt(new)
        /\ new.unsure = \E g \in Handlers : Contend(req[g], o.sets)
    <2> DEFINE b == \E g \in Handlers : Contend(req[g], o.sets)
    <2>1. b \in BOOLEAN
      OBVIOUS
    <2> HIDE DEF b
    <2>2. /\ RequestShape([o EXCEPT !.unsure = b]) /\ AsksAt([o EXCEPT !.unsure = b])
          /\ [o EXCEPT !.unsure = b].sets = o.sets /\ [o EXCEPT !.unsure = b].stage = o.stage
          /\ [o EXCEPT !.unsure = b].unsure = b
      BY <2>1, MarkedUnsure
    <2> QED
      BY <2>2 DEF b
  <1>3. ASSUME NEW g \in Handlers
        PROVE  /\ other(g).sets = req[g].sets /\ other(g).stage = req[g].stage
               /\ other(g).unsure = (req[g].unsure \/ Contend(req[g], o.sets))
               /\ RequestShape(other(g)) /\ AsksAt(other(g))
    <2>1. RequestShape(req[g]) /\ AsksAt(req[g])
      BY DEF PolicyInv, RequestKept
    <2> QED
      BY <2>1 DEF RequestShape, AsksAt
  <1>4. \A f \in Fields : expect[f] \subseteq expect'[f] /\ (Asked(o, f) => o.sets[f] \in expect'[f])
    BY DEF BeginRequest
  <1>5. PolicyKept'
    BY <1>4 DEF PolicyInv, PolicyKept
  <1>6. ASSUME NEW g \in Handlers PROVE RequestKept(g)'
    <2>1. CASE g = h
      <3>1. req'[g] = new
        BY <1>1, <2>1
      <3>2. DOMAIN o.sets \subseteq Fields
        BY DEF RequestShape
      <3> HIDE DEF new
      <3> QED
        BY <1>2, <1>4, <3>1, <3>2 DEF RequestKept, Asked
    <2>2. CASE g # h
      <3>1. req'[g] = other(g) /\ RequestKept(g)
        BY <1>1, <2>2 DEF PolicyInv
      <3>2. DOMAIN req[g].sets \subseteq Fields /\ req[g].unsure \in BOOLEAN
        BY <3>1 DEF RequestKept, RequestShape
      <3>3. other(g).unsure \/ ~req[g].unsure
        BY <1>3, <3>2
      <3> HIDE DEF other
      <3> QED
        BY <1>3, <1>4, <3>1, <3>2 DEF RequestKept, Asked
    <2> QED
      BY <2>1, <2>2
  <1>7. Uncontended'
    <2> SUFFICES ASSUME NEW g \in Handlers, NEW k \in Handlers, NEW f \in Fields, g # k,
                        Asked(req'[g], f), Asked(req'[k], f)
                 PROVE  req'[g].unsure
      BY DEF Uncontended
    <2>1. CASE g = h
      <3>1. req'[g] = new /\ req'[k] = other(k)
        BY <1>1, <2>1
      <3>2. Contend(req[k], o.sets)
        BY <1>2, <1>3, <3>1 DEF Contend, Asked
      <3> QED
        BY <1>2, <3>1, <3>2
    <2>2. CASE g # h /\ k = h
      <3>1. req'[g] = other(g) /\ req'[k] = new
        BY <1>1, <2>2
      <3>2. Contend(req[g], o.sets)
        BY <1>2, <1>3, <3>1 DEF Contend, Asked
      <3> QED
        BY <1>3, <3>1, <3>2
    <2>3. CASE g # h /\ k # h
      <3>1. req'[g] = other(g) /\ req'[k] = other(k)
        BY <1>1, <2>3
      <3>2. req[g].unsure
        BY <1>3, <3>1 DEF PolicyInv, Uncontended, Asked
      <3> QED
        BY <1>3, <3>1, <3>2
    <2> QED
      BY <2>1, <2>2, <2>3
  <1> HIDE DEF new, other
  <1> QED
    BY <1>1, <1>5, <1>6, <1>7 DEF PolicyInv, BeginRequest

(* The next stage of a request, within what that stage may ask for. *)
LEMMA StageMoves ==
    ASSUME PolicyInv, NEW h \in Handlers, NEW stage, Goes(h, stage), UNCHANGED expect,
           AsksAt([req[h] EXCEPT !.stage = stage]), stage \notin {"applyReadOnly", "readOnly"},
           reg'.there => reg.there, saved' = [f \in Fields |-> saved'[f]],
           reg'.there => saved' = saved
    PROVE  PolicyInv'
  <1> DEFINE o == [req[h] EXCEPT !.stage = stage]
  <1>1. RequestShape(req[h])
    BY DEF PolicyInv, RequestKept
  <1>2. RequestShape(o) /\ o.sets = req[h].sets /\ o.unsure = req[h].unsure /\ o.stage = stage
    BY <1>1 DEF RequestShape
  <1>3. req' = [req EXCEPT ![h] = o]
    BY DEF Goes
  <1> HIDE DEF o
  <1> QED
    BY <1>2, <1>3, GoesKeeps DEF o

LEMMA NamedTyped ==
    ASSUME NEW owner, NEW readOnly
    PROVE  LET n == Named(owner, readOnly) IN
           /\ n = [f \in DOMAIN n |-> n[f]] /\ DOMAIN n \subseteq Fields
           /\ DOMAIN n \subseteq {"owner", "readOnly"} /\ \A f \in DOMAIN n : n[f] # 0
  BY DEF Named

LEMMA StepAdd ==
    ASSUME PolicyInv, NEW h \in Handlers, NEW auth, NEW discover, NEW owner, NEW readOnly,
           adminAddUpstream(h, auth, discover, owner, readOnly)
    PROVE  PolicyInv'
  <1> DEFINE n == Named(owner, readOnly)
             s == IF auth = "oauth" THEN "flow" ELSE "register"
             o == [NoRequest EXCEPT !.stage = s, !.auth = auth, !.discover = discover, !.sets = n]
  <1>1. /\ n = [f \in DOMAIN n |-> n[f]] /\ DOMAIN n \subseteq Fields
        /\ DOMAIN n \subseteq {"owner", "readOnly"} /\ \A f \in DOMAIN n : n[f] # 0
    BY NamedTyped
  <1>2. s \in {"flow", "register"}
    OBVIOUS
  <1>3. BeginRequest(h, o) /\ UNCHANGED <<reg, saved>>
    BY DEF adminAddUpstream, file
  <1> HIDE DEF n, s
  <1>4. DOMAIN o = DOMAIN NoRequest /\ o.stage = s /\ o.sets = n /\ ~o.reauth /\ ~o.unsure
        /\ o.reauth \in BOOLEAN /\ o.unsure \in BOOLEAN
    BY RequestFields DEF NoRequest
  <1>5. RequestShape(o) /\ AsksAt(o) /\ o.stage = s
    BY <1>1, <1>2, <1>4 DEF RequestShape, AsksAt, AddStages, PolicyFields
  <1> HIDE DEF o
  <1> QED
    BY <1>2, <1>3, <1>5, BeginKeeps

(* Requests that set no field. *)
LEMMA BeginQuiet ==
    ASSUME PolicyInv, NEW h \in Handlers, NEW o, BeginRequest(h, o), RequestShape(o),
           DOMAIN o.sets = {}, o.stage \notin PolicyFields \cup {"applyReadOnly"}, UNCHANGED <<reg, saved>>
    PROVE  PolicyInv'
  <1>1. AsksAt(o) /\ (o.stage = "readOnly" => ~Asked(o, "owner"))
    BY DEF AsksAt, PolicyFields, AddStages, Asked
  <1> QED
    BY <1>1, BeginKeeps

LEMMA StepReauth ==
    ASSUME PolicyInv, NEW h \in Handlers, adminReauthUpstream(h)
    PROVE  PolicyInv'
  <1> DEFINE d == ~mem.enabled /\ ~mem.revoked
             o == [NoRequest EXCEPT !.stage = "flow", !.reauth = TRUE, !.auth = "oauth", !.discover = d]
  <1>1. BeginRequest(h, o) /\ UNCHANGED <<reg, saved>>
    BY DEF adminReauthUpstream, file
  <1> HIDE DEF d
  <1>2. RequestShape(o) /\ DOMAIN o.sets = {} /\ o.stage = "flow"
    BY RequestFields, NoRequestShape DEF RequestShape
  <1> HIDE DEF o
  <1> QED
    BY <1>1, <1>2, BeginQuiet DEF PolicyFields

(* A request that ends without a write. *)
LEMMA FinishQuiet ==
    ASSUME PolicyInv, NEW h \in Handlers, NEW done \in BOOLEAN, Finish(h, done), UNCHANGED saved,
           reg'.there => reg.there, done => DOMAIN req[h].sets = {}
    PROVE  PolicyInv'
  BY FinishKeeps DEF PolicyInv

LEMMA StepFlow ==
    ASSUME PolicyInv, NEW h \in Handlers, NEW b \in BOOLEAN, completeUpstreamOAuth(h, b)
    PROVE  PolicyInv'
  <1>1. UNCHANGED <<reg, saved>> /\ req[h].stage = "flow" /\ RequestShape(req[h]) /\ AsksAt(req[h])
    BY DEF completeUpstreamOAuth, file, At, PolicyInv, RequestKept
  <1>2. CASE b
    <2> DEFINE s == IF req[h].reauth THEN "rebind" ELSE "register"
    <2>1. s \in {"rebind", "register"}
      OBVIOUS
    <2>2. Goes(h, s) /\ UNCHANGED expect
      BY <1>2 DEF completeUpstreamOAuth
    <2> HIDE DEF s
    <2>3. AsksAt([req[h] EXCEPT !.stage = s])
      BY <1>1, <2>1 DEF AsksAt, RequestShape, AddStages, PolicyFields
    <2> QED
      BY <1>1, <2>1, <2>2, <2>3, StageMoves DEF PolicyInv
  <1>3. CASE ~b
    BY <1>1, <1>3, FinishQuiet DEF completeUpstreamOAuth
  <1> QED
    BY <1>2, <1>3

LEMMA StepDial ==
    ASSUME PolicyInv, NEW h \in Handlers, NEW b \in BOOLEAN,
           registerUpstream(h, b) \/ RebindUpstream(h, b)
    PROVE  PolicyInv'
  <1>1. /\ UNCHANGED <<reg, saved>> /\ req[h].stage \in {"register", "rebind"}
        /\ RequestShape(req[h]) /\ AsksAt(req[h])
    BY DEF registerUpstream, RebindUpstream, file, At, PolicyInv, RequestKept
  <1>2. Finish(h, FALSE) \/ (Goes(h, "token") /\ UNCHANGED expect)
    BY DEF registerUpstream, RebindUpstream
  <1>3. AsksAt([req[h] EXCEPT !.stage = "token"])
    BY <1>1 DEF AsksAt, RequestShape, AddStages, PolicyFields
  <1> QED
    BY <1>1, <1>2, <1>3, StageMoves, FinishQuiet DEF PolicyInv

LEMMA StepToken ==
    ASSUME PolicyInv, NEW h \in Handlers, NEW ok \in BOOLEAN, saveStaticToken(h, ok)
    PROVE  PolicyInv'
  <1>1. /\ UNCHANGED <<reg, saved, expect>> /\ req[h].stage = "token" /\ Goes(h, "record")
        /\ RequestShape(req[h]) /\ AsksAt(req[h])
    BY DEF saveStaticToken, file, At, PolicyInv, RequestKept
  <1>2. AsksAt([req[h] EXCEPT !.stage = "record"])
    BY <1>1 DEF AsksAt, RequestShape, AddStages, PolicyFields
  <1> QED
    BY <1>1, <1>2, StageMoves DEF PolicyInv

LEMMA StepApplyReadOnly ==
    ASSUME PolicyInv, NEW h \in Handlers, applyReadOnly(h)
    PROVE  PolicyInv'
  <1> DEFINE o == [req[h] EXCEPT !.stage = "readOnly"]
  <1>1. /\ UNCHANGED <<reg, saved, expect>> /\ req[h].stage = "applyReadOnly" /\ req' = [req EXCEPT ![h] = o]
        /\ RequestKept(h) /\ RequestShape(req[h]) /\ AsksAt(req[h])
    BY DEF applyReadOnly, file, At, PolicyInv, RequestKept, Goes
  <1>2. /\ RequestShape(o) /\ AsksAt(o) /\ o.sets = req[h].sets /\ o.unsure = req[h].unsure
        /\ o.stage = "readOnly"
    BY <1>1 DEF AsksAt, RequestShape, AddStages, PolicyFields
  <1>3. (~o.unsure /\ reg'.there /\ Asked(o, "owner")) => saved'["owner"] = o.sets["owner"]
    BY <1>1, <1>2 DEF RequestKept, Asked
  <1> HIDE DEF o
  <1> QED
    BY <1>1, <1>2, <1>3, GoesKeeps DEF PolicyInv

LEMMA StepImport ==
    ASSUME PolicyInv, NEW h \in Handlers, adminRegistryImport(h)
    PROVE  PolicyInv'
  BY DEF adminRegistryImport, PolicyInv, PolicyKept, RequestKept, Uncontended, file

(* A registration of its own: the operator starts afresh. *)
LEMMA StepNewRecord ==
    ASSUME PolicyInv, NEW h \in Handlers, persistRegistrationRecord(h, TRUE), ~reg.there
    PROVE  PolicyInv'
  <1> DEFINE more == Asked(req[h], "readOnly") /\ ~req[h].reauth
             left == IF more THEN [req[h] EXCEPT !.stage = "applyReadOnly", !.unsure = @ \/ ~TRUE]
                     ELSE NoRequest
  <1>1. /\ req' = [g \in Handlers |-> IF g = h THEN left ELSE Unsettled(g)] /\ expect' = Fresh
        /\ saved' = [f \in Fields |-> InRecord(h, f)]
        /\ req[h].stage = "record" /\ RequestKept(h) /\ RequestShape(req[h]) /\ AsksAt(req[h])
    BY DEF persistRegistrationRecord, At, PolicyInv, RequestKept
  <1>2. ASSUME NEW g \in Handlers
        PROVE  /\ RequestKept(g) /\ RequestShape(req[g]) /\ AsksAt(req[g])
               /\ Unsettled(g).sets = req[g].sets /\ Unsettled(g).stage = req[g].stage
               /\ Unsettled(g).unsure = (req[g].stage # "idle")
               /\ RequestShape(Unsettled(g)) /\ AsksAt(Unsettled(g))
    <2>1. RequestKept(g) /\ RequestShape(req[g]) /\ AsksAt(req[g])
      BY DEF PolicyInv, RequestKept
    <2>2. (req[g].stage # "idle") \in BOOLEAN
      OBVIOUS
    <2> QED
      BY <2>1, <2>2, MarkedUnsure DEF Unsettled
  <1>3. /\ more => /\ left.stage = "applyReadOnly" /\ left.sets = req[h].sets
                   /\ left.unsure = req[h].unsure /\ RequestShape(left) /\ AsksAt(left)
        /\ ~more => left = NoRequest
    BY <1>1, RequestFields DEF RequestShape, AsksAt, AddStages, PolicyFields, Asked
  <1>4. left.sets = req[h].sets \/ DOMAIN left.sets = {}
    BY <1>3, NoRequestShape
  <1>5. RequestShape(left) /\ AsksAt(left)
    BY <1>3, NoRequestShape DEF AsksAt, AddStages, PolicyFields
  <1>6. ASSUME NEW g \in Handlers, NEW f \in Fields, Asked(req[g], f)
        PROVE  req[g].sets[f] \in expect'[f]
    BY <1>1, <1>6 DEF Fresh
  <1>7. PolicyKept'
    <2> SUFFICES ASSUME NEW f \in Fields PROVE saved'[f] \in expect'[f]
      BY DEF PolicyKept
    <2>1. saved'[f] = 0 \/ (Asked(req[h], f) /\ saved'[f] = req[h].sets[f])
      BY <1>1 DEF InRecord
    <2>2. 0 \in expect'[f]
      BY <1>1 DEF Fresh
    <2> QED
      BY <1>6, <2>1, <2>2
  <1> HIDE DEF left
  <1>8. ASSUME NEW g \in Handlers PROVE RequestKept(g)'
    <2>1. CASE g = h
      <3>1. req'[g] = left
        BY <1>1, <2>1
      <3>2. \A f \in DOMAIN left.sets : left.sets[f] \in expect'[f]
        BY <1>1, <1>4, <1>6 DEF RequestShape, Asked
      <3>3. Asked(left, "owner") => saved'["owner"] = left.sets["owner"]
        BY <1>1, <1>4 DEF InRecord, RequestShape, Asked
      <3> QED
        BY <1>5, <3>1, <3>2, <3>3 DEF RequestKept
    <2>2. CASE g # h
      <3>1. req'[g] = Unsettled(g)
        BY <1>1, <2>2
      <3>2. \A f \in DOMAIN req[g].sets : req[g].sets[f] \in expect'[f]
        BY <1>2, <1>6 DEF RequestShape, Asked
      <3> QED
        BY <1>2, <3>1, <3>2 DEF RequestKept
    <2> QED
      BY <2>1, <2>2
  <1>9. Uncontended'
    <2> SUFFICES ASSUME NEW g \in Handlers, NEW k \in Handlers, NEW f \in Fields, g # k,
                        Asked(req'[g], f), Asked(req'[k], f)
                 PROVE  req'[g].unsure
      BY DEF Uncontended
    <2>1. CASE g = h
      <3>1. req'[g] = left /\ req'[k] = Unsettled(k)
        BY <1>1, <2>1
      <3>2. more /\ Asked(req[h], f) /\ Asked(req[k], f)
        BY <1>2, <1>3, <1>4, <3>1, NoRequestShape DEF Asked
      <3>3. req[h].unsure
        BY <2>1, <3>2 DEF PolicyInv, Uncontended
      <3> QED
        BY <1>3, <3>1, <3>2, <3>3
    <2>2. CASE g # h
      <3>1. req'[g] = Unsettled(g) /\ Asked(req[g], f)
        BY <1>1, <1>2, <2>2 DEF Asked
      <3>2. req[g].stage # "idle"
        BY <1>2, <3>1 DEF AsksAt, Asked, AddStages, PolicyFields
      <3> QED
        BY <1>2, <3>1, <3>2
    <2> QED
      BY <2>1, <2>2
  <1> QED
    BY <1>1, <1>7, <1>8, <1>9 DEF PolicyInv

(* The record replaces the one that is there, or is not written at all. *)
LEMMA StepOldRecord ==
    ASSUME PolicyInv, NEW h \in Handlers, NEW ok \in BOOLEAN, persistRegistrationRecord(h, ok),
           ok => reg.there
    PROVE  PolicyInv'
  <1> DEFINE more == Asked(req[h], "readOnly") /\ ~req[h].reauth
             left == [req[h] EXCEPT !.stage = "applyReadOnly", !.unsure = @ \/ ~ok]
  <1>1. req[h].stage = "record" /\ RequestKept(h) /\ RequestShape(req[h]) /\ AsksAt(req[h])
    BY DEF persistRegistrationRecord, At, PolicyInv, RequestKept
  <1>2. /\ more => req' = [req EXCEPT ![h] = left] /\ UNCHANGED expect
        /\ ~more => Finish(h, ok)
    BY DEF persistRegistrationRecord
  <1>3. /\ ok => saved' = [f \in Fields |-> ReRegistered(h, f)]
        /\ ~ok => saved' = saved /\ reg' = reg
    BY DEF persistRegistrationRecord, file
  <1>4. saved' = [f \in Fields |-> saved'[f]] /\ (reg'.there => reg.there)
    BY <1>3 DEF PolicyInv
  <1>5. \A f \in Fields : saved'[f] = saved[f] \/ (Asked(req[h], f) /\ saved'[f] = req[h].sets[f])
    BY <1>3 DEF ReRegistered, InRecord
  <1>6. (ok /\ Asked(req[h], "owner")) => saved'["owner"] = req[h].sets["owner"]
    BY <1>1, <1>3 DEF ReRegistered, InRecord, Asked, RequestShape, AsksAt, AddStages
  <1>7. CASE ~more
    <2>1. ok => \A f \in DOMAIN req[h].sets : saved'[f] = req[h].sets[f]
      BY <1>1, <1>6, <1>7 DEF Asked, AsksAt, AddStages
    <2> QED
      BY <1>2, <1>4, <1>5, <1>7, <2>1, FinishKeeps
  <1>8. CASE more
    <2>1. /\ left.stage = "applyReadOnly" /\ left.sets = req[h].sets
          /\ left.unsure = (req[h].unsure \/ ~ok) /\ RequestShape(left) /\ AsksAt(left)
      BY <1>1, <1>8, RequestFields DEF RequestShape, AsksAt, AddStages, PolicyFields, Asked
    <2> HIDE DEF left
    <2>2. PolicyKept'
      BY <1>1, <1>2, <1>4, <1>5, <1>8 DEF PolicyInv, PolicyKept, RequestKept, Asked
    <2>3. req' = [g \in Handlers |-> IF g = h THEN left ELSE req[g]]
      BY <1>2, <1>8 DEF PolicyInv
    <2>4. ASSUME NEW g \in Handlers PROVE RequestKept(g)'
      <3>1. CASE g = h
        BY <1>1, <1>2, <1>6, <1>8, <2>1, <2>3, <3>1 DEF RequestKept, Asked
      <3>2. CASE g # h
        <4>1. req'[g] = req[g] /\ RequestKept(g) /\ UNCHANGED expect
          BY <1>2, <1>8, <2>3, <3>2 DEF PolicyInv
        <4>2. (Asked(req[g], "owner") /\ ~req[g].unsure) => saved'["owner"] = saved["owner"]
          <5> SUFFICES ASSUME Asked(req[g], "owner"), ~req[g].unsure
                       PROVE  saved'["owner"] = saved["owner"]
            OBVIOUS
          <5>1. "owner" \in Fields
            BY <4>1 DEF RequestKept, RequestShape, Asked
          <5>2. ~Asked(req[h], "owner")
            BY <3>2, <5>1 DEF PolicyInv, Uncontended
          <5> QED
            BY <1>5, <5>1, <5>2
        <4> QED
          BY <1>4, <4>1, <4>2 DEF RequestKept
      <3> QED
        BY <3>1, <3>2
    <2>5. Uncontended'
      BY <1>1, <2>1, <2>3 DEF PolicyInv, Uncontended, Asked, RequestShape
    <2> QED
      BY <1>4, <2>2, <2>3, <2>4, <2>5 DEF PolicyInv
  <1> QED
    BY <1>7, <1>8

LEMMA StepRecord ==
    ASSUME PolicyInv, NEW h \in Handlers, NEW ok \in BOOLEAN, persistRegistrationRecord(h, ok)
    PROVE  PolicyInv'
  <1>1. CASE ok => reg.there
    BY <1>1, StepOldRecord
  <1>2. CASE ok = TRUE /\ ~reg.there
    BY <1>2, StepNewRecord
  <1> QED
    BY <1>1, <1>2

LEMMA StepSetField ==
    ASSUME PolicyInv, NEW h \in Handlers, NEW f, NEW v, SetField(h, f, v)
    PROVE  PolicyInv'
  <1> DEFINE s == [g \in {f} |-> v]
             o == [NoRequest EXCEPT !.stage = f, !.sets = s]
  <1>1. BeginRequest(h, o) /\ UNCHANGED <<reg, saved>> /\ f \in Fields /\ f \in PolicyFields
    BY RegistryAssumption DEF SetField, file
  <1>2. s = [g \in DOMAIN s |-> s[g]] /\ DOMAIN s = {f}
    OBVIOUS
  <1> HIDE DEF s
  <1>3. DOMAIN o = DOMAIN NoRequest /\ o.stage = f /\ o.sets = s /\ ~o.reauth /\ ~o.unsure
        /\ o.reauth \in BOOLEAN /\ o.unsure \in BOOLEAN
    BY RequestFields DEF NoRequest
  <1> HIDE DEF o
  <1>4. RequestShape(o)
    BY <1>1, <1>2, <1>3 DEF RequestShape
  <1>5. AsksAt(o) /\ (o.stage = "readOnly" => ~Asked(o, "owner")) /\ o.stage # "applyReadOnly"
    BY <1>1, <1>2, <1>3 DEF AsksAt, AddStages, PolicyFields, Asked
  <1> QED
    BY <1>1, <1>4, <1>5, BeginKeeps

(* One field is written, or none: either way it is the one asked for. *)
LEMMA WritesField ==
    ASSUME PolicyInv, NEW h \in Handlers, NEW f \in PolicyFields, NEW ok \in BOOLEAN, req[h].stage = f,
           saved' = IF ok /\ reg.there THEN [saved EXCEPT ![f] = req[h].sets[f]] ELSE saved,
           NEW done \in BOOLEAN, done => ok, Finish(h, done), UNCHANGED reg
    PROVE  PolicyInv'
  <1>1. RequestKept(h) /\ RequestShape(req[h]) /\ AsksAt(req[h])
    BY DEF PolicyInv, RequestKept
  <1>2. f \in DOMAIN req[h].sets /\ DOMAIN req[h].sets \subseteq {f, "owner"}
    BY <1>1 DEF AsksAt, AddStages, PolicyFields
  <1>3. f \in Fields
    BY <1>1, <1>2 DEF RequestShape
  <1>4. saved = [g \in Fields |-> saved[g]]
    BY DEF PolicyInv
  <1>5. saved' = [g \in Fields |-> saved'[g]]
    BY <1>4
  <1>6. \A g \in Fields : saved'[g] = saved[g] \/ (Asked(req[h], g) /\ saved'[g] = req[h].sets[g])
    BY <1>2, <1>3, <1>4 DEF Asked
  <1>7. (done /\ ~req[h].unsure /\ reg'.there) => \A g \in DOMAIN req[h].sets : saved'[g] = req[h].sets[g]
    <2> SUFFICES ASSUME done, ~req[h].unsure, reg'.there, NEW g \in DOMAIN req[h].sets
                 PROVE  saved'[g] = req[h].sets[g]
      OBVIOUS
    <2>1. saved' = [saved EXCEPT ![f] = req[h].sets[f]]
      OBVIOUS
    <2>2. CASE g = f
      BY <1>3, <1>4, <2>1, <2>2
    <2>3. CASE g # f
      <3>1. g = "owner" /\ f = "readOnly"
        BY <1>1, <1>2, <2>3 DEF AsksAt, PolicyFields
      <3>2. saved["owner"] = req[h].sets["owner"]
        BY <1>1, <3>1 DEF RequestKept, Asked
      <3> QED
        BY <1>4, <2>1, <3>1, <3>2
    <2> QED
      BY <2>2, <2>3
  <1> QED
    BY <1>5, <1>6, <1>7, FinishKeeps

LEMMA StepPersistField ==
    ASSUME PolicyInv, NEW h \in Handlers, NEW f \in PolicyFields, NEW ok \in BOOLEAN, PersistField(h, f, ok)
    PROVE  PolicyInv'
  BY WritesField DEF PersistField, At

LEMMA StepPersistGrants ==
    ASSUME PolicyInv, NEW h \in Handlers, NEW ok \in BOOLEAN, persistGrantsStrict(h, ok)
    PROVE  PolicyInv'
  <1>2. CASE ok /\ reg.there
    <2>1. Finish(h, TRUE)
      BY <1>2 DEF persistGrantsStrict, Finish
    <2>2. "grants" \in PolicyFields /\ req[h].stage = "grants" /\ UNCHANGED reg
          /\ saved' = [saved EXCEPT !["grants"] = req[h].sets["grants"]]
      BY <1>2 DEF persistGrantsStrict, At, PolicyFields
    <2> QED
      BY <1>2, <2>1, <2>2, WritesField
  <1>3. CASE ~(ok /\ reg.there)
    <2>1. Finish(h, FALSE)
      BY <1>3 DEF persistGrantsStrict, Finish
    <2>2. UNCHANGED <<reg, saved>>
      BY <1>3 DEF persistGrantsStrict
    <2> QED
      BY <2>1, <2>2, FinishQuiet
  <1> QED
    BY <1>2, <1>3

(* Requests at these stages ask for no field. *)
QuietStages == {"mark", "enabling", "refreshing", "undiscover", "revoking", "tombstone", "revokeSecret",
                "removing", "removeSecret", "gone"}

LEMMA QuietAsksNothing ==
    ASSUME PolicyInv, NEW h \in Handlers, req[h].stage \in QuietStages
    PROVE  DOMAIN req[h].sets = {} /\ RequestShape(req[h])
  BY DEF PolicyInv, RequestKept, AsksAt, QuietStages, AddStages, PolicyFields

LEMMA QuietMoves ==
    ASSUME PolicyInv, NEW h \in Handlers, req[h].stage \in QuietStages, NEW s \in QuietStages, Goes(h, s),
           UNCHANGED expect, reg'.there => reg.there, saved' = [f \in Fields |-> saved'[f]],
           reg'.there => saved' = saved
    PROVE  PolicyInv'
  <1>1. DOMAIN req[h].sets = {} /\ RequestShape(req[h])
    BY QuietAsksNothing
  <1>2. AsksAt([req[h] EXCEPT !.stage = s]) /\ s \notin {"applyReadOnly", "readOnly"}
    BY <1>1, RequestFields DEF RequestShape, AsksAt, QuietStages, AddStages, PolicyFields
  <1> QED
    BY <1>2, StageMoves

LEMMA QuietEnds ==
    ASSUME PolicyInv, NEW h \in Handlers, req[h].stage \in QuietStages, NEW done \in BOOLEAN, Finish(h, done),
           UNCHANGED saved, reg'.there => reg.there
    PROVE  PolicyInv'
  BY QuietAsksNothing, FinishQuiet

LEMMA StepBeginState ==
    ASSUME PolicyInv, NEW h \in Handlers, NEW kind, NEW s \in QuietStages, BeginState(h, kind, s)
    PROVE  PolicyInv'
  <1> DEFINE o == [NoRequest EXCEPT !.stage = s, !.conn = mem.conn]
  <1>1. BeginRequest(h, o) /\ UNCHANGED <<reg, saved>>
    BY DEF BeginState, file
  <1>2. RequestShape(o) /\ DOMAIN o.sets = {} /\ o.stage = s
    BY RequestFields, NoRequestShape DEF RequestShape
  <1> HIDE DEF o
  <1> QED
    BY <1>1, <1>2, BeginQuiet DEF PolicyFields, QuietStages

LEMMA StepBeginEnding ==
    ASSUME PolicyInv, NEW h \in Handlers, NEW kind, NEW s \in QuietStages, BeginEnding(h, kind, s)
    PROVE  PolicyInv'
  <1> DEFINE o == [NoRequest EXCEPT !.stage = s]
  <1>1. /\ UNCHANGED <<reg, saved, expect>>
        /\ req' = [g \in Handlers |-> IF g = h THEN o ELSE Cancelled(g)]
    BY DEF BeginEnding, file
  <1>2. RequestShape(o) /\ DOMAIN o.sets = {} /\ o.stage = s
    BY RequestFields, NoRequestShape DEF RequestShape
  <1> HIDE DEF o
  <1>3. ASSUME NEW g \in Handlers PROVE req'[g] = req[g] \/ (RequestShape(req'[g]) /\ DOMAIN req'[g].sets = {}
                                          /\ req'[g].stage \in QuietStages \cup {"idle"})
    BY <1>1, <1>2, NoRequestShape DEF Cancelled
  <1>4. ASSUME NEW g \in Handlers PROVE RequestKept(g)'
    <2>1. CASE req'[g] = req[g]
      BY <1>1, <2>1 DEF PolicyInv, RequestKept
    <2>2. CASE RequestShape(req'[g]) /\ DOMAIN req'[g].sets = {} /\ req'[g].stage \in QuietStages \cup {"idle"}
      BY <2>2 DEF RequestKept, AsksAt, Asked, QuietStages, AddStages, PolicyFields
    <2> QED
      BY <1>3, <2>1, <2>2
  <1>5. Uncontended'
    BY <1>3 DEF PolicyInv, Uncontended, Asked
  <1>6. PolicyKept'
    BY <1>1 DEF PolicyInv, PolicyKept
  <1> QED
    BY <1>1, <1>4, <1>5, <1>6 DEF PolicyInv

LEMMA StepState ==
    ASSUME PolicyInv, NEW h \in Handlers, StateNext(h)
    PROVE  PolicyInv'
  <1> USE RegistryAssumption
  <1>1. CASE adminEnableUpstream(h) \/ adminRefreshUpstream(h) \/ userRefreshConnection(h) \/ adminDisableUpstream(h)
    <2>1. PICK kind, s : s \in {"mark", "enabling", "refreshing", "undiscover"} /\ BeginState(h, kind, s)
      BY <1>1 DEF adminEnableUpstream, adminRefreshUpstream, userRefreshConnection, adminDisableUpstream
    <2> QED
      BY <2>1, StepBeginState DEF QuietStages
  <1>2. CASE adminRevokeUpstream(h) \/ adminDeleteUpstream(h)
    BY <1>2, StepBeginEnding DEF adminRevokeUpstream, adminDeleteUpstream, QuietStages
  <1>3. ASSUME NEW b \in BOOLEAN, EnableUpstream(h, b) PROVE PolicyInv'
    <2>1. UNCHANGED <<reg, saved>> /\ req[h].stage = "enabling"
      BY <1>3 DEF EnableUpstream, file, At
    <2>2. DOMAIN req[h].sets = {} /\ RequestShape(req[h])
      BY <2>1, QuietAsksNothing DEF QuietStages
    <2>3. CASE Finish(h, FALSE)
      BY <2>1, <2>3, QuietEnds DEF QuietStages
    <2>4. CASE req' = [req EXCEPT ![h].stage = "mark", ![h].conn = 0] /\ UNCHANGED expect
      <3> DEFINE o == [req[h] EXCEPT !.stage = "mark", !.conn = 0]
      <3>1. req' = [req EXCEPT ![h] = o]
        BY <2>4 DEF PolicyInv
      <3>2. /\ RequestShape(o) /\ o.sets = req[h].sets /\ o.unsure = req[h].unsure /\ o.stage = "mark"
        BY <2>2, RequestFields DEF RequestShape
      <3> HIDE DEF o
      <3>3. AsksAt(o)
        BY <2>2, <3>2 DEF AsksAt, AddStages, PolicyFields
      <3> QED
        BY <2>1, <2>4, <3>1, <3>2, <3>3, GoesKeeps DEF PolicyInv
    <2> QED
      BY <1>3, <2>3, <2>4 DEF EnableUpstream
  <1>4. ASSUME NEW b \in BOOLEAN, RefreshUpstream(h, b) PROVE PolicyInv'
    BY <1>4, QuietEnds DEF RefreshUpstream, file, At, QuietStages
  <1>5. CASE RevokeUpstream(h)
    <2>1. UNCHANGED <<reg, saved>> /\ req[h].stage = "revoking"
          /\ (Finish(h, FALSE) \/ (Goes(h, "tombstone") /\ UNCHANGED expect))
      BY <1>5 DEF RevokeUpstream, file, At
    <2> QED
      BY <2>1, QuietMoves, QuietEnds DEF QuietStages, PolicyInv
  <1>6. CASE RemoveUpstream(h)
    BY <1>6, QuietEnds DEF RemoveUpstream, file, At, QuietStages
  <1>7. ASSUME NEW ok \in BOOLEAN, markRegistrationEnabled(h, ok) \/ persistDisabledStrict(h, ok)
        PROVE  PolicyInv'
    <2>1. UNCHANGED saved /\ req[h].stage \in {"mark", "undiscover"} /\ Finish(h, ok)
      BY <1>7 DEF markRegistrationEnabled, persistDisabledStrict, At
    <2>2. reg'.there => reg.there
      BY <1>7 DEF markRegistrationEnabled, persistDisabledStrict
    <2> QED
      BY <2>1, <2>2, QuietEnds DEF QuietStages
  <1>8. ASSUME NEW ok \in BOOLEAN, revokeRegistration(h, ok) PROVE PolicyInv'
    <2>1. UNCHANGED saved /\ req[h].stage = "tombstone"
          /\ (Finish(h, FALSE) \/ (Goes(h, "revokeSecret") /\ UNCHANGED expect))
      BY <1>8 DEF revokeRegistration, At
    <2>2. reg'.there => reg.there
      BY <1>8 DEF revokeRegistration
    <2> QED
      BY <2>1, <2>2, QuietMoves, QuietEnds DEF QuietStages, PolicyInv
  <1>9. ASSUME NEW ok \in BOOLEAN, removeRegistration(h, ok) PROVE PolicyInv'
    <2>1. req[h].stage = "removing" /\ Goes(h, "removeSecret") /\ UNCHANGED expect
      BY <1>9 DEF removeRegistration, At
    <2>2. (reg'.there => reg.there) /\ (reg'.there => saved' = saved)
      BY <1>9 DEF removeRegistration, NoReg
    <2>3. saved' = [f \in Fields |-> saved'[f]]
      BY <1>9 DEF removeRegistration, NoPolicy, PolicyInv
    <2> QED
      BY <2>1, <2>2, <2>3, QuietMoves DEF QuietStages
  <1>10. ASSUME NEW ok \in BOOLEAN, deleteSecret(h, ok) PROVE PolicyInv'
    <2>1. UNCHANGED <<reg, saved>> /\ req[h].stage \in {"revokeSecret", "removeSecret"}
          /\ (Finish(h, ok) \/ (Goes(h, "gone") /\ UNCHANGED expect))
      BY <1>10 DEF deleteSecret, file, At
    <2> QED
      BY <2>1, QuietMoves, QuietEnds DEF QuietStages, PolicyInv
  <1> QED
    BY <1>1, <1>2, <1>3, <1>4, <1>5, <1>6, <1>7, <1>8, <1>9, <1>10 DEF StateNext

LEMMA StepPolicy ==
    ASSUME PolicyInv, NEW h \in Handlers, PolicyNext(h)
    PROVE  PolicyInv'
  <1> USE RegistryAssumption
  <1>1. ASSUME NEW v, NEW f, SetField(h, f, v) PROVE PolicyInv'
    BY <1>1, StepSetField
  <1>2. ASSUME NEW ok \in WriteOutcomes, NEW f \in PolicyFields, PersistField(h, f, ok) PROVE PolicyInv'
    BY <1>2, StepPersistField
  <1>3. ASSUME NEW ok \in WriteOutcomes, persistGrantsStrict(h, ok) PROVE PolicyInv'
    BY <1>3, StepPersistGrants
  <1> QED
    BY <1>1, <1>2, <1>3 DEF PolicyNext, adminSetOwner, adminSetLabel, userSetConnectionLabel, adminSetReadOnly,
       adminSetAuditCapture, adminSetGrants, adminSetMinimize, persistOwner, persistLabel, persistReadOnly,
       persistAuditFullArgs, persistMinimize, PolicyFields

LEMMA StepAdding ==
    ASSUME PolicyInv, NEW h \in Handlers, AddNext(h)
    PROVE  PolicyInv'
  BY RegistryAssumption, StepAdd, StepReauth, StepFlow, StepDial, StepToken, StepRecord, StepApplyReadOnly,
     StepImport DEF AddNext

LEMMA StepCrash ==
    ASSUME PolicyInv, Crash
    PROVE  PolicyInv'
  <1>1. UNCHANGED <<reg, saved, expect>> /\ req' = [h \in Handlers |-> NoRequest]
    BY DEF Crash, file
  <1>2. ASSUME NEW h \in Handlers PROVE RequestKept(h)'
    BY <1>1, NoRequestShape DEF RequestKept, AsksAt, Asked, AddStages, PolicyFields
  <1> QED
    BY <1>1, <1>2, NoRequestShape DEF PolicyInv, PolicyKept, Uncontended, Asked

LEMMA InitPolicy == RegistryInit => PolicyInv
  <1> SUFFICES ASSUME RegistryInit PROVE PolicyInv
    OBVIOUS
  <1>1. ASSUME NEW h \in Handlers PROVE RequestKept(h)
    BY NoRequestShape DEF RegistryInit, RequestKept, AsksAt, Asked, AddStages, PolicyFields
  <1> QED
    BY <1>1, NoRequestShape DEF RegistryInit, PolicyInv, PolicyKept, Uncontended, Asked, NoPolicy, NoReg

LEMMA NextPolicy == PolicyInv /\ [RegistryNext]_registryVars => PolicyInv'
  <1> SUFFICES ASSUME PolicyInv, [RegistryNext]_registryVars PROVE PolicyInv'
    OBVIOUS
  <1>1. CASE \E h \in Handlers : AddNext(h) \/ PolicyNext(h) \/ StateNext(h)
    BY <1>1, StepAdding, StepPolicy, StepState
  <1>2. CASE Crash
    BY <1>2, StepCrash
  <1>3. ASSUME NEW b \in DialOutcomes, ReloadUpstreams(b) PROVE PolicyInv'
    BY <1>3 DEF ReloadUpstreams, file, PolicyInv, PolicyKept, RequestKept, Uncontended
  <1>4. CASE UNCHANGED registryVars
    BY <1>4 DEF registryVars, file, PolicyInv, PolicyKept, RequestKept, Uncontended
  <1> QED
    BY <1>1, <1>2, <1>3, <1>4 DEF RegistryNext

(* For any number of handlers, fields, values, failures and restarts, what   *)
(* upstreams.json says of a policy field is what an operator's request asked *)
(* for and was told is in force, or what one still under way may make of it. *)
THEOREM PolicyKeptTheorem == RegistrySpec => []PolicyKept
  <1>1. PolicyInv => PolicyKept
    BY DEF PolicyInv
  <1> QED
    BY <1>1, InitPolicy, NextPolicy, PTL DEF RegistrySpec

(* Whatever handlers rebind, remove and add again while another is listing   *)
(* tools, an enabled connection offers those listed from the connection that *)
(* is called: EnableUpstream and RefreshUpstream look the record up again.   *)
THEOREM ToolsOfConnectionTheorem == RegistrySpec => []ToolsOfConnection
  <1> DEFINE Inv == ToolsOfConnection
                    /\ DOMAIN mem = {"there", "enabled", "revoked", "conn", "tools"}
  <1>1. RegistryInit => Inv
    BY DEF RegistryInit, NoRecord, ToolsOfConnection
  <1>2. Inv /\ [RegistryNext]_registryVars => Inv'
    <2> SUFFICES ASSUME Inv, [RegistryNext]_registryVars PROVE Inv'
      OBVIOUS
    <2>1. ASSUME UNCHANGED mem PROVE Inv'
      BY <2>1 DEF ToolsOfConnection
    <2>2. ASSUME NEW h \in Handlers, AddNext(h) PROVE Inv'
      <3>1. ASSUME NEW b, registerUpstream(h, b) PROVE Inv'
        <4>1. CASE UNCHANGED mem
          BY <2>1, <4>1
        <4>2. CASE ~UNCHANGED mem
          <5> DEFINE enabled == ~req[h].discover
          <5>1. mem' = [there |-> TRUE, enabled |-> enabled, revoked |-> FALSE, conn |-> NewConn, tools |-> NewConn]
            BY <3>1, <4>2 DEF registerUpstream, memory
          <5> HIDE DEF enabled
          <5>2. mem'.tools = mem'.conn
            BY <5>1
          <5> QED
            BY <5>1, <5>2 DEF ToolsOfConnection
        <4> QED
          BY <4>1, <4>2
      <3>2. ASSUME NEW b, RebindUpstream(h, b) PROVE Inv'
        BY <2>1, <3>2 DEF RebindUpstream, ToolsOfConnection
      <3>3. CASE adminRegistryImport(h)
        BY <3>3 DEF adminRegistryImport, NoRecord, ToolsOfConnection
      <3> QED
        BY <2>1, <2>2, <3>1, <3>2, <3>3 DEF AddNext, adminAddUpstream, adminReauthUpstream, completeUpstreamOAuth,
           saveStaticToken, persistRegistrationRecord, applyReadOnly, memory
    <2>3. ASSUME NEW h \in Handlers, PolicyNext(h) PROVE Inv'
      BY <2>1, <2>3 DEF PolicyNext, adminSetOwner, adminSetLabel, userSetConnectionLabel, adminSetReadOnly,
         adminSetAuditCapture, adminSetGrants, adminSetMinimize, persistOwner, persistLabel, persistReadOnly,
         persistAuditFullArgs, persistMinimize, persistGrantsStrict, SetField, PersistField, memory,
         ToolsOfConnection
    <2>4. ASSUME NEW h \in Handlers, StateNext(h) PROVE Inv'
      <3>1. ASSUME NEW b, EnableUpstream(h, b) \/ RefreshUpstream(h, b) PROVE Inv'
        BY <2>1, <3>1 DEF EnableUpstream, RefreshUpstream, StillBound, ToolsOfConnection
      <3>2. CASE adminDisableUpstream(h) \/ RevokeUpstream(h)
        BY <2>1, <3>2 DEF adminDisableUpstream, RevokeUpstream, ToolsOfConnection
      <3>3. CASE RemoveUpstream(h)
        BY <3>3 DEF RemoveUpstream, NoRecord, ToolsOfConnection
      <3> QED
        BY <2>1, <2>4, <3>1, <3>2, <3>3 DEF StateNext, adminEnableUpstream, adminRefreshUpstream,
           userRefreshConnection, adminRevokeUpstream, adminDeleteUpstream, markRegistrationEnabled,
           persistDisabledStrict, revokeRegistration, removeRegistration, deleteSecret, BeginEnding, memory
    <2>5. CASE Crash
      BY <2>5 DEF Crash, NoRecord, ToolsOfConnection
    <2>6. ASSUME NEW b \in DialOutcomes, ReloadUpstreams(b) PROVE Inv'
      BY <2>6 DEF ReloadUpstreams, NoRecord, ToolsOfConnection
    <2>7. CASE UNCHANGED registryVars
      BY <2>1, <2>7 DEF registryVars, memory
    <2> QED
      BY <2>2, <2>3, <2>4, <2>5, <2>6, <2>7 DEF RegistryNext
  <1> QED
    BY <1>1, <1>2, PTL DEF RegistrySpec
=============================================================================
