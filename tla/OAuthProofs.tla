---------------------------- MODULE OAuthProofs -----------------------------
(***************************************************************************)
(* The grants on both sides of the gateway, for every value of the         *)
(* constants.  Those it issues (TokenGrants): a consent is worth one chain *)
(* of pairs for the subject that gave it, a refresh token is traded in     *)
(* once, and a revocation holds until its token expires.  Those it obtains *)
(* from upstreams: a revoked one is not callable again and does not come   *)
(* back with a restart (Connections), and a user connects only within the  *)
(* template as it is then (SelfService).                                   *)
(***************************************************************************)
EXTENDS TokenGrants, Connections, SelfService, TLAPS

(* The records of issued pairs. *)
LEMMA PairTypes ==
    ASSUME pairs \in Seq(Pair)
    PROVE  /\ DOMAIN pairs = 1 .. Len(pairs) /\ Len(pairs) \in Nat
           /\ \A j \in DOMAIN pairs : /\ pairs[j] \in Pair /\ pairs[j].root \in Grants
                                      /\ pairs[j].at \in Nat /\ pairs[j].from \in Nat
  <1>1. /\ DOMAIN pairs = 1 .. Len(pairs) /\ Len(pairs) \in Nat
        /\ \A j \in DOMAIN pairs : pairs[j] \in Pair
    OBVIOUS
  <1> QED  BY <1>1 DEF Pair

(* Expiry times are numbers. *)
LEMMA Clock ==
    ASSUME now \in Nat
    PROVE  now + PendingTTL \in Nat /\ now + CodeTTL \in Nat
  BY TokenAssumption

(* The initial states satisfy the inductive invariant. *)
LEMMA InitIInv == Init => IInv
  <1> SUFFICES ASSUME Init PROVE IInv
    OBVIOUS
  <1>0. pairs \in Seq(Pair) /\ DOMAIN pairs = {}
    <2>1. pairs = <<>>
      BY DEF Init
    <2>2. pairs \in Seq(Pair) /\ Len(pairs) = 0
      BY <2>1
    <2>3. DOMAIN pairs = 1 .. 0
      BY <2>2, PairTypes
    <2> QED  BY <2>2, <2>3
  <1>1. TypeOK
    <2>1. federated \in BOOLEAN /\ subject \in Subjects
      BY TokenAssumption DEF Init
    <2>2. grant \in [Grants -> authCode]
      BY DEF Init, authCode
    <2>3. req \in [Requests -> Progress]
      BY DEF Init, Progress, Idle
    <2>4. \A q \in Requests : req[q].stage = "idle"
      BY DEF Init, Idle
    <2>5. ids \subseteq IssuedTokens /\ stored \subseteq IssuedTokens /\ acked \subseteq IssuedTokens
      BY DEF Init
    <2> QED  BY <1>0, <2>1, <2>2, <2>3, <2>4, <2>5 DEF Init, TypeOK
  <1>2. DenyInv /\ OnceInv
    BY <1>0 DEF Init, Idle, DenyInv, OnceInv, RefreshOnce
  <1>3. DescentInv /\ PrincipalInv
    BY <1>0 DEF Init, Idle, DescentInv, ConsentOnce, PrincipalInv, LocalPrincipal
  <1> QED  BY <1>1, <1>2, <1>3 DEF IInv

-----------------------------------------------------------------------------
(* A step of one authorization request that is not used up yet, which      *)
(* gives it no subject but the local principal.                            *)
LEMMA GrantStep ==
    ASSUME IInv, NEW g \in Grants, grant[g].stage # "ended", NEW x \in authCode,
           grant' = [grant EXCEPT ![g] = x],
           ~federated /\ x.stage # "ended" => x.subject = subject,
           UNCHANGED <<federated, subject, pairs, list, req, now, ghosts>>
    PROVE  IInv'
  <1>1. TypeOK'
    BY DEF IInv, TypeOK, IssuedTokens, list, ghosts
  <1>2. DenyInv'
    BY DEF IInv, DenyInv, Held, Expiry, list, ghosts
  <1>3. ~Stalls => OnceInv'
    BY DEF IInv, OnceInv, RefreshOnce, Expiry, list, ghosts
  <1>4. \A j \in DOMAIN pairs : pairs[j].root \in Grants /\ grant'[pairs[j].root] = grant[pairs[j].root]
    BY PairTypes DEF IInv, TypeOK, DescentInv
  <1>5. DescentInv'
    BY <1>4 DEF IInv, DescentInv, ConsentOnce
  <1>6. PrincipalInv'
    BY DEF IInv, TypeOK, PrincipalInv, LocalPrincipal
  <1> QED  BY <1>1, <1>2, <1>3, <1>5, <1>6 DEF IInv

(* The same for a step that only moves the request on. *)
LEMMA SettleStep ==
    ASSUME IInv, NEW g \in Grants, grant[g].stage \in {"pending", "taken", "code", "redeemed"},
           NEW s \in {"taken", "code", "redeemed", "ended"}, Settle(g, s),
           UNCHANGED <<federated, subject, pairs, list, req, now, ghosts>>
    PROVE  IInv'
  <1> DEFINE x == [grant[g] EXCEPT !.stage = s]
  <1>1. grant[g] \in authCode
    BY DEF IInv, TypeOK
  <1>2. x \in authCode /\ x.subject = grant[g].subject /\ grant' = [grant EXCEPT ![g] = x]
    BY <1>1 DEF IInv, TypeOK, authCode, Settle
  <1>3. ~federated => grant[g].subject = subject
    BY DEF IInv, PrincipalInv
  <1> HIDE DEF x
  <1> QED  BY <1>2, <1>3, GrantStep

LEMMA CodedStep ==
    ASSUME IInv, NEW g \in Grants, grant[g].stage = "taken", NEW who \in Subjects \cup {""},
           ~federated => who = subject, Coded(g, who),
           UNCHANGED <<federated, subject, pairs, list, req, now, ghosts>>
    PROVE  IInv'
  <1> DEFINE x == [stage |-> "code", expiry |-> now + CodeTTL, subject |-> who]
  <1>0. now + CodeTTL \in Nat
    BY Clock, Zenon DEF IInv, TypeOK
  <1>1. x \in authCode /\ x.subject = who
    BY <1>0, Zenon DEF authCode
  <1>2. grant' = [grant EXCEPT ![g] = x]
    BY DEF Coded
  <1> HIDE DEF x
  <1> QED  BY <1>1, <1>2, GrantStep

LEMMA StorePendingInv ==
    ASSUME IInv, NEW g \in Grants, storePending(g) PROVE IInv'
  <1> DEFINE x == [stage |-> "pending", expiry |-> now + PendingTTL,
                   subject |-> IF federated THEN "" ELSE subject]
  <1>0. now + PendingTTL \in Nat /\ subject \in Subjects
    BY Clock, Zenon DEF IInv, TypeOK
  <1>1. x \in authCode /\ (~federated => x.subject = subject)
    BY <1>0, Zenon DEF authCode
  <1>2. grant[g].stage = "new" /\ grant' = [grant EXCEPT ![g] = x]
        /\ UNCHANGED <<federated, subject, pairs, list, req, now, ghosts>>
    BY DEF storePending
  <1> HIDE DEF x
  <1> QED  BY <1>1, <1>2, GrantStep

LEMMA DecideInv ==
    ASSUME IInv, NEW g \in Grants, NEW b \in BOOLEAN, Decide(g, b) PROVE IInv'
  BY SettleStep DEF Decide, Pending

LEMMA LocalConsentInv ==
    ASSUME IInv, NEW g \in Grants, localConsent(g) PROVE IInv'
  <1>1. grant[g].subject \in Subjects \cup {""}
    BY DEF IInv, TypeOK, authCode
  <1>2. ~federated => grant[g].subject = subject
    BY DEF IInv, PrincipalInv, localConsent
  <1> QED  BY <1>1, <1>2, CodedStep DEF localConsent

LEMMA SsoCallbackInv ==
    ASSUME IInv, NEW g \in Grants, NEW who \in Subjects, ssoCallback(g, who) PROVE IInv'
  <1>1. CASE Coded(g, who)
    BY <1>1, CodedStep DEF ssoCallback
  <1>2. CASE Settle(g, "ended")
    BY <1>2, SettleStep DEF ssoCallback
  <1> QED  BY <1>1, <1>2 DEF ssoCallback

LEMMA GrantCodeInv ==
    ASSUME IInv, NEW g \in Grants, NEW b \in BOOLEAN, grantCode(g, b) PROVE IInv'
  <1>1. PICK s \in {"redeemed", "ended"} : Settle(g, s)
    BY DEF grantCode
  <1> QED  BY <1>1, SettleStep DEF grantCode

-----------------------------------------------------------------------------
(* The denylist: pruning and saving lose nothing that is still needed. *)
LEMMA DenyKept ==
    ASSUME DenyInv, pairs' = pairs, now' = now, Live(ids) \subseteq ids',
           stored' = stored \/ Live(ids) \subseteq stored'
    PROVE  /\ \A t \in acked : Held(t)'
           /\ \A j \in DOMAIN pairs' : pairs'[j].from # 0 => Held(Refresh(pairs[j].from))'
           /\ \A i : Held(Refresh(i)) => Held(Refresh(i))'
  <1>1. \A t : Held(t) => Held(t)'
    BY DEF Held, Live, Expiry
  <1>2. \A i : Held(Refresh(i)) => Held(Refresh(i))'
    BY <1>1 DEF Refresh
  <1>3. \A j \in DOMAIN pairs' : pairs'[j].from # 0 => Held(Refresh(pairs[j].from))'
    BY <1>2 DEF DenyInv, Held, Refresh, Live, Expiry
  <1> QED  BY <1>1, <1>2, <1>3 DEF DenyInv

LEMMA GrantRefreshInv ==
    ASSUME IInv, NEW q \in Requests, NEW i, grantRefresh(q, i) PROVE IInv'
  <1> DEFINE r == [stage |-> "parsed", pair |-> i]
  <1>1. /\ i \in DOMAIN pairs /\ i \in Nat /\ req[q] = Idle
        /\ req' = [req EXCEPT ![q] = r]
        /\ now < Expiry(Refresh(i)) /\ (~federated => pairs[i].subject = subject)
        /\ UNCHANGED <<federated, subject, grant, pairs, list, now, ghosts>>
    BY PairTypes DEF IInv, TypeOK, grantRefresh, MayRefresh
  <1>2. r \in Progress /\ r.stage = "parsed" /\ r.pair = i
    BY <1>1 DEF Progress
  <1> HIDE DEF r
  <1>3. req' \in [Requests -> Progress] /\ req'[q] = r
        /\ \A p \in Requests : p # q => req'[p] = req[p]
    BY <1>1, <1>2 DEF IInv, TypeOK
  <1>4. TypeOK'
    BY <1>1, <1>2, <1>3 DEF IInv, TypeOK, IssuedTokens, list, ghosts
  <1>5. DenyInv'
    BY <1>1, <1>2, <1>3 DEF IInv, DenyInv, Held, Expiry, Refresh, list, ghosts
  <1>6. DescentInv'
    BY <1>1 DEF IInv, DescentInv, ConsentOnce
  <1>7. PrincipalInv'
    BY <1>1, <1>2, <1>3 DEF IInv, PrincipalInv, LocalPrincipal
  <1>8. ASSUME ~Stalls PROVE OnceInv'
    <2>1. OnceInv
      BY <1>8 DEF IInv
    <2>2. \A p \in Requests : req'[p].stage = "consumed" => req[p] = req'[p]
      BY <1>2, <1>3
    <2>3. \A p \in Requests : req'[p].stage = "parsed" => now' < Expiry(Refresh(req[p].pair))'
      BY <2>1, <1>1, <1>2, <1>3 DEF OnceInv, Expiry, Refresh
    <2> QED  BY <2>1, <2>2, <2>3, <1>1 DEF OnceInv, RefreshOnce
  <1> QED  BY <1>4, <1>5, <1>6, <1>7, <1>8 DEF IInv

(* A request goes back to the start; the denylist may be pruned or grow. *)
LEMMA RequestEnds ==
    ASSUME IInv, NEW q \in Requests, req' = [req EXCEPT ![q] = Idle],
           Live(ids) \subseteq ids', stored' = stored \/ Live(ids) \subseteq stored',
           ids' \subseteq IssuedTokens, stored' \subseteq IssuedTokens,
           UNCHANGED <<federated, subject, grant, pairs, now, ghosts>>
    PROVE  IInv'
  <1>0. Idle \in Progress /\ Idle.stage = "idle"
    BY DEF Idle, Progress
  <1>1. /\ req' \in [Requests -> Progress]
        /\ \A p \in Requests : req'[p].stage # "idle" => req'[p] = req[p]
    BY <1>0 DEF IInv, TypeOK
  <1>2. TypeOK'
    BY <1>1 DEF IInv, TypeOK, IssuedTokens, ghosts
  <1>3. DenyInv'
    <2>1. \A p \in Requests : req'[p].stage = "consumed" => Held(Refresh(req[p].pair))'
      BY <1>1 DEF IInv, DenyInv, Held, Live, Expiry, Refresh
    <2> QED  BY <2>1, DenyKept DEF IInv, DenyInv, ghosts
  <1>4. DescentInv'
    BY DEF IInv, DescentInv, ConsentOnce
  <1>5. PrincipalInv'
    BY <1>1 DEF IInv, PrincipalInv, LocalPrincipal
  <1>6. ASSUME ~Stalls PROVE OnceInv'
    BY <1>1, <1>6 DEF IInv, OnceInv, RefreshOnce, Expiry, Refresh
  <1> QED  BY <1>2, <1>3, <1>4, <1>5, <1>6 DEF IInv

LEMMA ConsumeInv ==
    ASSUME IInv, NEW q \in Requests, NEW o \in Outcomes, Consume(q, o) PROVE IInv'
  <1> DEFINE i == req[q].pair  t == Refresh(i)  r == [req[q] EXCEPT !.stage = "consumed"]
  <1>1. /\ req[q] \in Progress /\ req[q].stage = "parsed" /\ i \in DOMAIN pairs
        /\ UNCHANGED <<federated, subject, grant, pairs, now, ghosts>>
    BY DEF IInv, TypeOK, Consume
  <1>2. t \in IssuedTokens /\ Live(ids) \subseteq IssuedTokens /\ stored \subseteq IssuedTokens
    BY <1>1 DEF IInv, TypeOK, IssuedTokens, Refresh, Live
  <1>3. CASE t \in Live(ids)
    BY <1>1, <1>2, <1>3, RequestEnds DEF Consume
  <1>4. CASE t \notin Live(ids) /\ o # "ok"
    <2>1. ids' = Live(ids) \cup {t} /\ stored' \in {stored, Live(ids) \cup {t}}
          /\ req' = [req EXCEPT ![q] = Idle]
      BY <1>4 DEF Consume, persistLocked
    <2> QED  BY <2>1, <1>1, <1>2, RequestEnds
  <1>5. CASE t \notin Live(ids) /\ o = "ok"
    <2>1. ids' = Live(ids) \cup {t} /\ stored' = Live(ids) \cup {t} /\ req' = [req EXCEPT ![q] = r]
      BY <1>5 DEF Consume, persistLocked
    <2>2. r \in Progress /\ r.stage = "consumed" /\ r.pair = i
      BY <1>1 DEF Progress
    <2> HIDE DEF r
    <2>3. /\ req' \in [Requests -> Progress] /\ req'[q] = r
          /\ \A p \in Requests : p # q => req'[p] = req[p]
          /\ \A p \in Requests : req'[p].pair = req[p].pair
      BY <2>1, <2>2 DEF IInv, TypeOK
    <2>4. TypeOK'
      BY <1>1, <1>2, <2>1, <2>2, <2>3 DEF IInv, TypeOK, IssuedTokens, ghosts
    <2>5. DenyInv'
      <3>2. \A p \in Requests : req'[p].stage = "consumed" => Held(Refresh(req[p].pair))'
        BY <1>1, <2>1, <2>2, <2>3 DEF IInv, DenyInv, Held, Live, Expiry, Refresh
      <3> QED  BY <3>2, <1>1, <2>1, DenyKept DEF IInv, DenyInv, ghosts
    <2>6. DescentInv'
      BY <1>1 DEF IInv, DescentInv, ConsentOnce
    <2>7. PrincipalInv'
      BY <1>1, <2>2, <2>3 DEF IInv, PrincipalInv, LocalPrincipal
    <2>8. ASSUME ~Stalls PROVE OnceInv'
      <3>1. OnceInv /\ now < Expiry(t)
        BY <2>8, <1>1 DEF IInv, OnceInv
      <3>2. t \notin ids
        BY <3>1, <1>5 DEF Live
      <3>3. \A j \in DOMAIN pairs : pairs[j].from # i
        <4>1. i # 0
          BY <1>1, PairTypes DEF IInv, TypeOK
        <4> QED  BY <4>1, <3>1, <3>2 DEF IInv, DenyInv, Held
      <3>4. \A p \in Requests : req[p].stage = "consumed" => req[p].pair # i
        BY <3>1, <3>2 DEF IInv, DenyInv, Held
      <3> QED  BY <3>1, <3>3, <3>4, <1>1, <2>2, <2>3 DEF OnceInv, RefreshOnce, Expiry, Refresh
    <2> QED  BY <2>4, <2>5, <2>6, <2>7, <2>8 DEF IInv
  <1> QED  BY <1>3, <1>4, <1>5

LEMMA RevokeInv ==
    ASSUME IInv, NEW t \in Tokens, NEW o \in Outcomes, revoke(t, o) PROVE IInv'
  <1>1. /\ t \in IssuedTokens
        /\ ids' = Live(ids) \cup {t} /\ stored' \in {stored, Live(ids) \cup {t}}
        /\ acked' = acked \/ (acked' = acked \cup {t} /\ stored' = Live(ids) \cup {t})
        /\ revokes' = revokes + 1
        /\ UNCHANGED <<federated, subject, grant, pairs, req, now, disabled, restarts>>
    BY DEF revoke, persistLocked, Tokens, IssuedTokens
  <1>2. TypeOK'
    BY <1>1 DEF IInv, TypeOK, IssuedTokens, Live
  <1>3. DenyInv'
    <2>1. \A u \in acked' : Held(u)'
      BY <1>1 DEF IInv, DenyInv, Held, Live, Expiry
    <2>2. \A p \in Requests : req'[p].stage = "consumed" => Held(Refresh(req[p].pair))'
      BY <1>1 DEF IInv, DenyInv, Held, Live, Expiry, Refresh
    <2> QED  BY <1>1, <2>1, <2>2, DenyKept DEF IInv, DenyInv
  <1>4. DescentInv'
    BY <1>1 DEF IInv, DescentInv, ConsentOnce
  <1>5. PrincipalInv'
    BY <1>1 DEF IInv, PrincipalInv, LocalPrincipal
  <1>6. ASSUME ~Stalls PROVE OnceInv'
    BY <1>1, <1>6 DEF IInv, OnceInv, RefreshOnce, Expiry, Refresh
  <1> QED  BY <1>2, <1>3, <1>4, <1>5, <1>6 DEF IInv

-----------------------------------------------------------------------------
(* Issuing a pair *)
LEMMA AppendPair ==
    ASSUME pairs \in Seq(Pair), NEW x \in Pair, pairs' = Append(pairs, x)
    PROVE  /\ pairs' \in Seq(Pair) /\ pairs'[Len(pairs) + 1] = x
           /\ DOMAIN pairs' = DOMAIN pairs \cup {Len(pairs) + 1}
           /\ Len(pairs) + 1 \notin DOMAIN pairs
           /\ \A j \in DOMAIN pairs : pairs'[j] = pairs[j]
  OBVIOUS

(* The parts of the invariant that any new pair preserves, whose parent's  *)
(* refresh token is denied.                                                *)
LEMMA IssueStep ==
    ASSUME IInv, NEW x \in Pair, pairs' = Append(pairs, x),
           x.from = 0 \/ (x.from \in DOMAIN pairs /\ Held(Refresh(x.from))),
           UNCHANGED <<federated, subject, list, now, ghosts>>,
           grant' \in [Grants -> authCode], req' \in [Requests -> Progress],
           \A p \in Requests : req'[p].stage # "idle" => req'[p] = req[p]
    PROVE  TypeOK' /\ DenyInv'
  <1>1. /\ pairs' \in Seq(Pair) /\ pairs'[Len(pairs) + 1] = x
        /\ DOMAIN pairs' = DOMAIN pairs \cup {Len(pairs) + 1}
        /\ \A j \in DOMAIN pairs : pairs'[j] = pairs[j]
    BY AppendPair DEF IInv, TypeOK
  <1>2. TypeOK'
    BY <1>1 DEF IInv, TypeOK, IssuedTokens, list, ghosts
  <1>3. \A t \in IssuedTokens : t[2] \in DOMAIN pairs
    BY DEF IssuedTokens
  <1>4. \A t \in acked' : Held(t)'
    BY <1>1, <1>3 DEF IInv, TypeOK, DenyInv, Held, Expiry, list, ghosts
  <1>5. \A i \in DOMAIN pairs : Held(Refresh(i)) => Held(Refresh(i))'
    BY <1>1 DEF Held, Expiry, Refresh, list
  <1>6. \A j \in DOMAIN pairs : pairs[j].from # 0 =>
            pairs[j].from \in DOMAIN pairs /\ Held(Refresh(pairs[j].from))
    BY PairTypes DEF IInv, TypeOK, DescentInv, DenyInv
  <1>7. \A j \in DOMAIN pairs' : pairs'[j].from # 0 => Held(Refresh(pairs[j].from))'
    BY <1>1, <1>5, <1>6 DEF Held, Expiry, Refresh, list
  <1>8. \A p \in Requests : req'[p].stage = "consumed" => Held(Refresh(req[p].pair))'
    BY <1>5, <1>1 DEF IInv, TypeOK, DenyInv, Held, Expiry, Refresh, list
  <1> QED  BY <1>2, <1>4, <1>7, <1>8 DEF DenyInv

LEMMA IssueForCodeInv ==
    ASSUME IInv, NEW g \in Grants, NEW ok \in BOOLEAN, IssueForCode(g, ok) PROVE IInv'
  <1>1. CASE ~ok
    <2>1. pairs' = pairs
      BY <1>1 DEF IssueForCode, issueTokens
    <2> QED  BY <2>1, SettleStep DEF IssueForCode
  <1>2. CASE ok
    <2> DEFINE x == [subject |-> grant[g].subject, at |-> now, root |-> g, from |-> 0,
                     under |-> subject]
               n == Len(pairs) + 1
    <2>1. /\ grant[g].stage = "redeemed" /\ grant[g] \in authCode /\ pairs' = Append(pairs, x)
          /\ Settle(g, "ended")
          /\ UNCHANGED <<federated, subject, list, req, now, ghosts>>
      BY <1>2 DEF IssueForCode, issueTokens, IInv, TypeOK
    <2>2. /\ x \in Pair /\ x.from = 0 /\ x.root = g /\ x.subject = grant[g].subject
          /\ x.under = subject
      BY <2>1, Zenon DEF IInv, TypeOK, Pair, authCode
    <2> HIDE DEF x
    <2>3. /\ grant' \in [Grants -> authCode] /\ grant'[g].stage = "ended"
          /\ grant'[g].subject = grant[g].subject
          /\ \A h \in Grants : h # g => grant'[h] = grant[h]
      BY <2>1 DEF IInv, TypeOK, authCode, Settle
    <2>4. /\ DOMAIN pairs' = DOMAIN pairs \cup {n} /\ n \notin DOMAIN pairs /\ pairs'[n] = x
          /\ \A j \in DOMAIN pairs : pairs'[j] = pairs[j]
      BY <2>1, <2>2, AppendPair DEF IInv, TypeOK
    <2>5. TypeOK' /\ DenyInv'
      BY <2>1, <2>2, <2>3, IssueStep DEF IInv, TypeOK
    <2>6. \A j \in DOMAIN pairs : /\ pairs[j].root \in Grants /\ pairs[j].root # g
                                  /\ pairs[j].from \in 0 .. j - 1
                                  /\ grant[pairs[j].root].stage = "ended"
      BY <2>1, PairTypes DEF IInv, TypeOK, DescentInv
    <2>7. DescentInv'
      <3>1. n \in Nat /\ n > 0
        BY PairTypes DEF IInv, TypeOK
      <3>2. \A j \in DOMAIN pairs' : pairs'[j].from \in 0 .. j - 1
                                     /\ grant'[pairs'[j].root].stage = "ended"
                                     /\ pairs'[j].subject = grant'[pairs'[j].root].subject
        BY <3>1, <2>2, <2>3, <2>4, <2>6 DEF IInv, DescentInv, ConsentOnce
      <3>3. \A j, k \in DOMAIN pairs' :
                pairs'[j].root = pairs'[k].root /\ pairs'[j].from = 0 /\ pairs'[k].from = 0 => j = k
        BY <2>2, <2>4, <2>6 DEF IInv, DescentInv, ConsentOnce
      <3> QED  BY <3>2, <3>3 DEF DescentInv, ConsentOnce
    <2>8. PrincipalInv'
      <3>1. ~federated => x.subject = subject
        BY <2>1, <2>2 DEF IInv, PrincipalInv
      <3>2. LocalPrincipal'
        BY <3>1, <2>1, <2>2, <2>4 DEF IInv, PrincipalInv, LocalPrincipal
      <3>3. ~federated => \A h \in Grants :
                grant'[h].stage \in {"pending", "taken", "code", "redeemed"} => grant'[h].subject = subject
        BY <2>3 DEF IInv, PrincipalInv
      <3>4. ~federated => \A q \in Requests :
                req[q].stage # "idle" => pairs'[req[q].pair].subject = subject
        BY <2>4 DEF IInv, TypeOK, PrincipalInv
      <3> QED  BY <3>2, <3>3, <3>4, <2>1 DEF PrincipalInv
    <2>9. ASSUME ~Stalls PROVE OnceInv'
      <3>1. OnceInv
        BY <2>9 DEF IInv
      <3>2. \A q \in Requests : req[q].stage # "idle" => req[q].pair \in DOMAIN pairs /\ req[q].pair # 0
        BY PairTypes DEF IInv, TypeOK
      <3>3. RefreshOnce'
        BY <3>1, <2>2, <2>4 DEF OnceInv, RefreshOnce
      <3>4. \A q \in Requests : req'[q].stage = "parsed" => now' < Expiry(Refresh(req[q].pair))'
        BY <3>1, <3>2, <2>1, <2>4 DEF OnceInv, Expiry, Refresh
      <3> QED  BY <3>1, <3>2, <3>3, <3>4, <2>1, <2>2, <2>4 DEF OnceInv
    <2> QED  BY <2>5, <2>7, <2>8, <2>9 DEF IInv
  <1> QED  BY <1>1, <1>2

LEMMA IssueForRefreshInv ==
    ASSUME IInv, NEW q \in Requests, NEW ok \in BOOLEAN, IssueForRefresh(q, ok) PROVE IInv'
  <1> DEFINE i == req[q].pair
             n == Len(pairs) + 1
  <1>0. /\ req[q].stage = "consumed" /\ i \in DOMAIN pairs /\ i \in Nat /\ i # 0
        /\ pairs[i] \in Pair
        /\ req' = [req EXCEPT ![q] = Idle]
        /\ UNCHANGED <<federated, subject, grant, list, now, ghosts>>
    BY PairTypes DEF IssueForRefresh, IInv, TypeOK
  <1>1. CASE ~ok
    <2>1. pairs' = pairs
      BY <1>1 DEF IssueForRefresh, issueTokens
    <2>2. Live(ids) \subseteq ids' /\ stored' = stored
          /\ ids' \subseteq IssuedTokens /\ stored' \subseteq IssuedTokens
      BY <1>0 DEF Live, list, IInv, TypeOK
    <2> QED  BY <2>1, <2>2, <1>0, RequestEnds
  <1>2. CASE ok
    <2> DEFINE x == [subject |-> pairs[i].subject, at |-> now, root |-> pairs[i].root,
                     from |-> i, under |-> subject]
    <2>1. pairs' = Append(pairs, x)
      BY <1>2 DEF IssueForRefresh, issueTokens
    <2>2. /\ x \in Pair /\ x.from = i /\ x.root = pairs[i].root
          /\ x.subject = pairs[i].subject /\ x.under = subject
      BY <1>0, Zenon DEF IInv, TypeOK, Pair
    <2> HIDE DEF x
    <2>3. Idle \in Progress /\ Idle.stage = "idle"
      BY DEF Idle, Progress
    <2>4. /\ req' \in [Requests -> Progress] /\ req'[q] = Idle
          /\ \A p \in Requests : req'[p].stage # "idle" => p # q /\ req'[p] = req[p]
      BY <1>0, <2>3 DEF IInv, TypeOK
    <2>5. /\ DOMAIN pairs' = DOMAIN pairs \cup {n} /\ n \notin DOMAIN pairs /\ pairs'[n] = x
          /\ \A j \in DOMAIN pairs : pairs'[j] = pairs[j]
      BY <2>1, <2>2, AppendPair DEF IInv, TypeOK
    <2>6. Held(Refresh(i))
      BY <1>0 DEF IInv, DenyInv
    <2>7. TypeOK' /\ DenyInv'
      BY <1>0, <2>1, <2>2, <2>4, <2>6, IssueStep DEF IInv, TypeOK
    <2>8. DescentInv'
      <3>1. n \in Nat /\ i \in 0 .. n - 1
        BY <1>0, PairTypes DEF IInv, TypeOK
      <3>2. \A j \in DOMAIN pairs' : pairs'[j].from \in 0 .. j - 1
                                     /\ grant'[pairs'[j].root].stage = "ended"
                                     /\ pairs'[j].subject = grant'[pairs'[j].root].subject
        BY <3>1, <1>0, <2>2, <2>5 DEF IInv, DescentInv, ConsentOnce
      <3>3. \A j, k \in DOMAIN pairs' :
                pairs'[j].root = pairs'[k].root /\ pairs'[j].from = 0 /\ pairs'[k].from = 0 => j = k
        BY <1>0, <2>2, <2>5 DEF IInv, DescentInv, ConsentOnce
      <3> QED  BY <3>2, <3>3 DEF DescentInv, ConsentOnce
    <2>9. PrincipalInv'
      <3>1. ~federated => x.subject = subject
        BY <1>0, <2>2 DEF IInv, PrincipalInv
      <3>2. LocalPrincipal'
        BY <3>1, <1>0, <2>2, <2>5 DEF IInv, PrincipalInv, LocalPrincipal
      <3>3. ~federated => \A p \in Requests :
                req'[p].stage # "idle" => pairs'[req'[p].pair].subject = subject
        BY <2>4, <2>5 DEF IInv, TypeOK, PrincipalInv
      <3> QED  BY <3>2, <3>3, <1>0 DEF IInv, PrincipalInv
    <2>10. ASSUME ~Stalls PROVE OnceInv'
      <3>1. OnceInv
        BY <2>10 DEF IInv
      <3>2. \A p \in Requests : req[p].stage # "idle" => req[p].pair \in DOMAIN pairs
        BY DEF IInv, TypeOK
      <3>3. \A j \in DOMAIN pairs : pairs[j].from # i
        BY <3>1, <1>0 DEF OnceInv
      <3>4. \A p \in Requests : req'[p].stage = "consumed" => req[p].pair # i
        BY <3>1, <1>0, <2>4 DEF OnceInv
      <3>5. RefreshOnce'
        BY <3>1, <3>3, <2>2, <2>5 DEF OnceInv, RefreshOnce
      <3>6. \A p \in Requests : req'[p].stage = "parsed" => now' < Expiry(Refresh(req[p].pair))'
        BY <3>1, <3>2, <1>0, <2>4, <2>5 DEF OnceInv, Expiry, Refresh
      <3>7. \A p \in Requests, j \in DOMAIN pairs' :
                req'[p].stage = "consumed" => pairs'[j].from # req'[p].pair
        BY <3>1, <3>4, <2>2, <2>4, <2>5 DEF OnceInv
      <3>8. \A p, r \in Requests :
                req'[p].stage = "consumed" /\ req'[r].stage = "consumed" /\ req'[p].pair = req'[r].pair
                    => p = r
        BY <3>1, <2>4 DEF OnceInv
      <3> QED  BY <3>5, <3>6, <3>7, <3>8 DEF OnceInv
    <2> QED  BY <2>7, <2>8, <2>9, <2>10 DEF IInv
  <1> QED  BY <1>1, <1>2

-----------------------------------------------------------------------------
(* A restart keeps of the denylist what is saved and not expired. *)
LEMMA RestartInv ==
    ASSUME IInv, NEW who \in Subjects, Restart(who) PROVE IInv'
  <1>1. /\ subject' = who /\ ids' = Live(stored) /\ req' = [q \in Requests |-> Idle]
        /\ restarts' = restarts + 1
        /\ UNCHANGED <<federated, pairs, stored, now, acked, disabled, revokes>>
    BY DEF Restart
  <1>2. /\ grant' \in [Grants -> authCode]
        /\ \A g \in Grants : /\ grant'[g].subject = grant[g].subject
                             /\ grant'[g].stage \in {"new", "ended"}
                             /\ grant[g].stage = "ended" => grant'[g].stage = "ended"
    BY DEF Restart, IInv, TypeOK, authCode
  <1>3. /\ req' \in [Requests -> Progress]
        /\ \A q \in Requests : req'[q].stage = "idle"
    BY <1>1 DEF Idle, Progress
  <1>4. TypeOK'
    BY <1>1, <1>2, <1>3 DEF IInv, TypeOK, IssuedTokens, Live
  <1>5. DenyInv'
    <2>1. \A t : Held(t) => Held(t)'
      BY <1>1 DEF Held, Live, Expiry
    <2>2. \A j \in DOMAIN pairs' : pairs'[j].from # 0 => Held(Refresh(pairs[j].from))'
      BY <1>1 DEF IInv, DenyInv, Held, Refresh, Live, Expiry
    <2> QED  BY <2>1, <2>2, <1>1, <1>3 DEF IInv, DenyInv
  <1>6. DescentInv'
    <2>1. \A j \in DOMAIN pairs : pairs[j].root \in Grants
      BY PairTypes DEF IInv, TypeOK
    <2> QED  BY <1>1, <1>2, <2>1 DEF IInv, DescentInv, ConsentOnce
  <1>7. PrincipalInv'
    <2>1. \A g \in Grants : grant'[g].stage \notin {"pending", "taken", "code", "redeemed"}
      BY <1>2
    <2>2. LocalPrincipal'
      BY <1>1 DEF IInv, PrincipalInv, LocalPrincipal
    <2> QED  BY <1>3, <2>1, <2>2, Zenon DEF PrincipalInv
  <1>8. ASSUME ~Stalls PROVE OnceInv'
    BY <1>1, <1>3, <1>8 DEF IInv, OnceInv, RefreshOnce
  <1> QED  BY <1>4, <1>5, <1>6, <1>7, <1>8 DEF IInv

(* Disabling an account and stuttering change nothing the invariant is about. *)
LEMMA QuietInv ==
    ASSUME IInv, UNCHANGED <<federated, subject, grant, pairs, list, req, now, acked, revokes, restarts>>,
           disabled' \in [Subjects -> Nat \cup {-1}]
    PROVE  IInv'
  <1>1. TypeOK'
    BY DEF IInv, TypeOK, IssuedTokens, list
  <1>2. DenyInv'
    BY DEF IInv, DenyInv, Held, Expiry, list
  <1>3. DescentInv' /\ PrincipalInv'
    BY DEF IInv, DescentInv, ConsentOnce, PrincipalInv, LocalPrincipal
  <1>4. ASSUME ~Stalls PROVE OnceInv'
    BY <1>4 DEF IInv, OnceInv, RefreshOnce, Expiry
  <1> QED  BY <1>1, <1>2, <1>3, <1>4 DEF IInv

(* Time passing only shortens what the denylist owes. *)
LEMMA TickInv ==
    ASSUME IInv, Tick PROVE IInv'
  <1>1. /\ now' = now + 1 /\ now \in Nat
        /\ UNCHANGED <<federated, subject, grant, pairs, list, req, ghosts>>
    BY DEF IInv, TypeOK, Tick
  <1>2. TypeOK'
    BY <1>1 DEF IInv, TypeOK, IssuedTokens, list, ghosts
  <1>3. DenyInv'
    <2>0. \A t \in IssuedTokens : Expiry(t) \in Int
      BY PairTypes, TokenAssumption DEF IInv, TypeOK, IssuedTokens, Expiry
    <2>1. \A t \in IssuedTokens : Held(t) => Held(t)'
      BY <2>0, <1>1 DEF Held, Expiry, list
    <2>2. \A i \in DOMAIN pairs : Refresh(i) \in IssuedTokens
      BY DEF Refresh, IssuedTokens
    <2>3. \A t \in acked' : Held(t)'
      BY <2>1, <1>1 DEF IInv, TypeOK, DenyInv, ghosts
    <2>4. \A i \in DOMAIN pairs : Held(Refresh(i)) => Held(Refresh(i))'
      BY <2>0, <2>2, <1>1 DEF Held, Expiry, Refresh, list
    <2>5. \A j \in DOMAIN pairs : pairs[j].from # 0 =>
              pairs[j].from \in DOMAIN pairs /\ Held(Refresh(pairs[j].from))
      BY PairTypes DEF IInv, TypeOK, DescentInv, DenyInv
    <2>6. \A j \in DOMAIN pairs' : pairs'[j].from # 0 => Held(Refresh(pairs[j].from))'
      BY <1>1, <2>4, <2>5 DEF Held, Expiry, Refresh, list
    <2>7. \A p \in Requests : req'[p].stage = "consumed" => Held(Refresh(req[p].pair))'
      BY <1>1, <2>4 DEF IInv, TypeOK, DenyInv, Held, Expiry, Refresh, list
    <2> QED  BY <2>3, <2>6, <2>7 DEF DenyInv
  <1>4. DescentInv' /\ PrincipalInv'
    BY <1>1 DEF IInv, DescentInv, ConsentOnce, PrincipalInv, LocalPrincipal
  <1>5. ASSUME ~Stalls PROVE OnceInv'
    BY <1>1, <1>5 DEF IInv, OnceInv, RefreshOnce, Tick
  <1> QED  BY <1>2, <1>3, <1>4, <1>5 DEF IInv

(* Every step preserves the inductive invariant. *)
LEMMA NextInv == IInv /\ [Next]_vars => IInv'
  <1> SUFFICES ASSUME IInv, [Next]_vars PROVE IInv'
    OBVIOUS
  <1>1. ASSUME NEW g \in Grants, storePending(g) \/ localConsent(g) PROVE IInv'
    BY <1>1, StorePendingInv, LocalConsentInv
  <1>2. ASSUME NEW g \in Grants, NEW who \in Subjects, ssoCallback(g, who) PROVE IInv'
    BY <1>2, SsoCallbackInv
  <1>3. ASSUME NEW g \in Grants, NEW b \in BOOLEAN,
               Decide(g, b) \/ grantCode(g, b) \/ IssueForCode(g, b)
        PROVE  IInv'
    BY <1>3, DecideInv, GrantCodeInv, IssueForCodeInv
  <1>4. ASSUME NEW q \in Requests, NEW i \in 1 .. MaxPairs, grantRefresh(q, i) PROVE IInv'
    BY <1>4, GrantRefreshInv
  <1>5. ASSUME NEW q \in Requests, NEW o \in Outcomes, Consume(q, o) PROVE IInv'
    BY <1>5, ConsumeInv
  <1>6. ASSUME NEW q \in Requests, NEW b \in BOOLEAN, IssueForRefresh(q, b) PROVE IInv'
    BY <1>6, IssueForRefreshInv
  <1>7. ASSUME NEW t \in Tokens, NEW o \in Outcomes, revoke(t, o) PROVE IInv'
    BY <1>7, RevokeInv
  <1>8. ASSUME NEW who \in Subjects, Restart(who) PROVE IInv'
    BY <1>8, RestartInv
  <1>9. ASSUME NEW who \in Subjects, DisableAccount(who) PROVE IInv'
    <2>1. disabled' \in [Subjects -> Nat \cup {-1}]
      BY <1>9 DEF IInv, TypeOK, DisableAccount
    <2> QED  BY <2>1, <1>9, QuietInv DEF DisableAccount
  <1>10. CASE Tick
    BY <1>10, TickInv
  <1>11. CASE UNCHANGED vars
    <2>1. disabled' \in [Subjects -> Nat \cup {-1}]
      BY <1>11 DEF IInv, TypeOK, vars, ghosts
    <2> QED  BY <2>1, <1>11, QuietInv DEF vars, ghosts, list
  <1> QED  BY <1>1, <1>2, <1>3, <1>4, <1>5, <1>6, <1>7, <1>8, <1>9, <1>10, <1>11 DEF Next

-----------------------------------------------------------------------------
(* The inductive invariant, and with it the types, hold in every state of  *)
(* the authorization server, for every set of subjects and every lifetime. *)
THEOREM InvariantTheorem == Spec => []IInv
  <1> QED  BY InitIInv, NextInv, PTL DEF Spec

(* "A consumed refresh token cannot be replayed": as long as a request     *)
(* reaches Consume at the time it was checked for, a refresh token is      *)
(* traded for at most one pair, through restarts and failing saves.        *)
THEOREM RefreshOnceTheorem == ~Stalls => (Spec => []RefreshOnce)
  <1> SUFFICES ASSUME ~Stalls PROVE Spec => []RefreshOnce
    OBVIOUS
  <1>1. IInv => RefreshOnce
    BY DEF IInv, OnceInv
  <1> QED  BY <1>1, InvariantTheorem, PTL

(* A consent is worth one chain of pairs, issued to the subject that gave  *)
(* it, however requests, restarts and failures interleave.                 *)
THEOREM ConsentOnceTheorem == Spec => []ConsentOnce
  <1>1. IInv => ConsentOnce
    BY DEF IInv, DescentInv
  <1> QED  BY <1>1, InvariantTheorem, PTL

(* With local consent, a pair is issued to the principal the gateway runs  *)
(* as at that moment, although it may change with a restart.               *)
THEOREM LocalPrincipalTheorem == Spec => []LocalPrincipal
  <1>1. IInv => LocalPrincipal
    BY DEF IInv, PrincipalInv
  <1> QED  BY <1>1, InvariantTheorem, PTL

(* An acknowledged revocation is honoured by the refresh grant for good,   *)
(* and by the resource server at every time but the leeway that follows    *)
(* the token's expiry, after a restart too.                                *)
THEOREM RevokedRefusedTheorem == Spec => []RevokedRefused
  <1>1. IInv => RevokedRefused
    <2> SUFFICES ASSUME IInv, NEW i \in DOMAIN pairs
                 PROVE  /\ Access(i) \in acked /\ Validate(i) =>
                              now \in Expiry(Access(i)) .. Expiry(Access(i)) + Leeway - 1
                        /\ Refresh(i) \in acked => ~MayRefresh(i)
      BY DEF RevokedRefused
    <2>1. \A t \in acked : now < Expiry(t) => t \in Live(ids)
      BY DEF IInv, DenyInv, Held, Live
    <2>2. Expiry(Access(i)) \in Nat /\ now \in Nat /\ Leeway \in Nat
      <3>1. pairs[i] \in Pair /\ now \in Nat
        BY DEF IInv, TypeOK
      <3>2. pairs[i].at \in Nat
        BY <3>1 DEF Pair
      <3> QED  BY <3>1, <3>2, TokenAssumption DEF Expiry, Access
    <2>3. ASSUME Access(i) \in acked, Validate(i)
          PROVE  now \in Expiry(Access(i)) .. Expiry(Access(i)) + Leeway - 1
      <3>1. now < Expiry(Access(i)) + Leeway /\ Access(i) \notin Live(ids)
        BY <2>3 DEF Validate, IsRevoked
      <3>2. ~(now < Expiry(Access(i)))
        BY <2>1, <2>3, <3>1
      <3> QED  BY <2>2, <3>1, <3>2
    <2> QED  BY <2>1, <2>3 DEF MayRefresh, IsRevoked
  <1> QED  BY <1>1, InvariantTheorem, PTL

-----------------------------------------------------------------------------
(* Connections.  RevocationHolds is not inductive: a grant is handed from  *)
(* a flow to the secret store, the registration and the record, so         *)
(* RevocationInv ties the generation of each flow and bearer to the        *)
(* record's, and follows the files when nothing is in memory.              *)

LEMMA GoesTyped ==
    ASSUME ConnectionTypeOK, NEW f \in Flows, NEW s \in FlowStages, Goes(f, s)
    PROVE  /\ flow' \in [Flows -> oauthFlow]
           /\ flow'[f].stage = s /\ flow'[f].gen = flow[f].gen /\ flow'[f].reauth = flow[f].reauth
           /\ \A e \in Flows : e # f => flow'[e] = flow[e]
  <1>1. flow \in [Flows -> oauthFlow]
    BY DEF ConnectionTypeOK
  <1> QED
    BY <1>1 DEF Goes, oauthFlow

LEMMA CancelTyped ==
    ASSUME ConnectionTypeOK, cancelOAuthFlows
    PROVE  /\ flow' \in [Flows -> oauthFlow]
           /\ \A f \in Flows : \/ flow'[f] = flow[f]
                               \/ /\ flow[f].stage = "pending" /\ flow'[f].stage = "ended"
                                  /\ flow'[f].gen = flow[f].gen /\ flow'[f].reauth = flow[f].reauth
  <1>1. flow \in [Flows -> oauthFlow]
    BY DEF ConnectionTypeOK
  <1>2. ASSUME NEW f \in Flows
        PROVE  /\ Cancelled(f) \in oauthFlow
               /\ \/ Cancelled(f) = flow[f]
                  \/ /\ flow[f].stage = "pending" /\ Cancelled(f).stage = "ended"
                     /\ Cancelled(f).gen = flow[f].gen /\ Cancelled(f).reauth = flow[f].reauth
    BY <1>1 DEF Cancelled, oauthFlow, FlowStages
  <1>3. flow' = [f \in Flows |-> Cancelled(f)]
    BY DEF cancelOAuthFlows
  <1> HIDE DEF Cancelled
  <1> QED
    BY <1>2, <1>3

LEMMA ProceedTyped ==
    ASSUME ConnectionTypeOK, NEW h \in Handlers, Proceed(h), op[h].stage # 4
    PROVE  /\ op' \in [Handlers -> Request] /\ \A g \in Handlers : op'[g].covers = op[g].covers
           /\ \A g \in Handlers : op'[g].kind = op[g].kind
           /\ \A g \in Handlers : g # h => op'[g] = op[g]
  <1>1. op \in [Handlers -> Request]
    BY DEF ConnectionTypeOK
  <1> QED
    BY <1>1 DEF Proceed, Request

LEMMA AnswerTyped ==
    ASSUME ConnectionTypeOK, NEW h \in Handlers, Answer(h)
    PROVE  /\ op' \in [Handlers -> Request]
           /\ op'[h] = NoRequest /\ \A g \in Handlers : g # h => op'[g] = op[g]
  <1>1. op \in [Handlers -> Request] /\ NoRequest \in Request
    BY ConnectionAssumption DEF ConnectionTypeOK, NoRequest, Request, HandlerKinds
  <1> QED
    BY <1>1 DEF Answer

(* A step that neither starts, takes or commits a flow, nor touches the      *)
(* record's generation and grant: what it writes to the secret store and to  *)
(* the file must be allowed.                                                 *)
LEMMA QuietStep ==
    ASSUME RevocationInv, ConnectionTypeOK', up, up',
           mem'.there = mem.there, mem'.gen = mem.gen, mem'.revoked = mem.revoked, mem'.grant = mem.grant,
           (reg'.there /\ ~reg.there) => flow[1].stage \notin Uncommitted /\ (~unsettled' => mem.there),
           \A f \in Flows : Over(f)' => Over(f),
           \A f \in Flows : /\ bearer'[f].on = bearer[f].on /\ bearer'[f].gen = bearer[f].gen
                            /\ ~unsettled' => ~bearer'[f].checked,
           \A f \in Flows :
              \/ flow'[f] = flow[f]
              \/ /\ flow'[f].gen = flow[f].gen /\ flow'[f].reauth = flow[f].reauth
                 /\ \/ flow[f].stage # "none" /\ flow'[f].stage = "ended"
                    \/ flow[f].stage = "starting" /\ flow'[f].stage = "pending"
                    \/ flow[f].stage = "committed" /\ flow'[f].stage = "saved"
                    \/ flow[f].stage \in {"committed", "checked"} /\ flow'[f].stage \in {"checked", "saved"} /\ unsettled',
           ~unsettled' => /\ ~unsettled /\ secret' \notin dead'
                          /\ \A h \in Handlers : op'[h].kind = "delete" => op'[h].stage <= 2
    PROVE  RevocationInv'
  <1>1. 1 \in Flows
    BY ConnectionAssumption DEF Flows
  <1>2. \A f \in Flows : Over(f)' => flow'[f].stage # "none"
    BY DEF RevocationInv
  <1>3. DownOK'
    BY DEF DownOK
  <1>4. FirstFlow'
    BY <1>1 DEF RevocationInv, FirstFlow, Uncommitted
  <1>5. Generations'
    <2>1. Over(mem.grant)' => Over(mem.grant)
      BY DEF ConnectionTypeOK, Over, Request
    <2>2. ASSUME NEW f \in Flows, mem.there, bearer[f].on PROVE Behind(f, bearer[f].gen)'
      BY <2>2 DEF RevocationInv, Generations, Behind
    <2>3. ASSUME NEW f \in Flows, mem.there, flow'[f].stage \in {"starting", "pending", "taken", "committed"}
          PROVE  Behind(f, flow[f].gen)'
      BY <2>3 DEF RevocationInv, Generations, Behind
    <2>4. (mem'.there /\ ~mem'.revoked) => ~Over(mem.grant)'
      BY <2>1 DEF RevocationInv, Generations
    <2> QED
      BY <2>2, <2>3, <2>4 DEF Generations
  <1>6. SettledOK'
    BY DEF RevocationInv, SettledOK
  <1> QED
    BY <1>2, <1>3, <1>4, <1>5, <1>6 DEF RevocationInv

(* The same without a change to flows and bearers. *)
LEMMA HandlerStep ==
    ASSUME RevocationInv, ConnectionTypeOK', up, UNCHANGED <<bearer, up, flow>>,
           mem'.there = mem.there, mem'.gen = mem.gen, mem'.revoked = mem.revoked, mem'.grant = mem.grant,
           reg'.there => reg.there,
           \A f \in Flows : Over(f)' => Over(f),
           ~unsettled' => /\ ~unsettled /\ secret' \notin dead'
                          /\ \A h \in Handlers : op'[h].kind = "delete" => op'[h].stage <= 2
    PROVE  RevocationInv'
  BY QuietStep DEF RevocationInv, SettledOK

LEMMA SameOver ==
    ASSUME UNCHANGED <<dead, op>>
    PROVE  \A f \in Flows : Over(f)' => Over(f)
  BY DEF Over

(* Flows that come further without a commit. *)
LEMMA StepFlowMoves ==
    ASSUME RevocationInv, NEW f \in Flows, NEW b \in BOOLEAN,
           \/ putOAuthFlow(f, b) \/ ExpireFlow(f)
           \/ TakeFlow(f, b) /\ UNCHANGED bearer /\ Goes(f, "ended")
           \/ Commit(f, b) /\ UNCHANGED mem /\ Goes(f, "ended")
    PROVE  RevocationInv'
  <1>1. PICK s \in {"pending", "ended"} :
           Goes(f, s) /\ (s = "pending" => flow[f].stage = "starting")
    BY DEF putOAuthFlow, ExpireFlow, TakeFlow, Commit
  <1>2. /\ UNCHANGED <<mem, reg, secret, template, bearer, op, up, dead, unsettled, edits, requests, crashes>>
        /\ up /\ flow[f].stage # "none"
    BY DEF putOAuthFlow, ExpireFlow, TakeFlow, Commit, disk, promises, counters
  <1>3. /\ flow' \in [Flows -> oauthFlow]
        /\ flow'[f].stage = s /\ flow'[f].gen = flow[f].gen /\ flow'[f].reauth = flow[f].reauth
        /\ \A e \in Flows : e # f => flow'[e] = flow[e]
    BY <1>1, GoesTyped DEF RevocationInv, FlowStages
  <1>4. ConnectionTypeOK'
    BY <1>2, <1>3 DEF RevocationInv, ConnectionTypeOK
  <1>5. \A e \in Flows : Over(e)' => Over(e)
    BY <1>2, SameOver
  <1>6. ~unsettled' => secret' \notin dead' /\ \A h \in Handlers : op'[h].kind = "delete" => op'[h].stage <= 2
    BY <1>2 DEF RevocationInv, SettledOK
  <1>7. \A e \in Flows : /\ bearer'[e].on = bearer[e].on /\ bearer'[e].gen = bearer[e].gen
                         /\ ~unsettled' => ~bearer'[e].checked
    BY <1>2 DEF RevocationInv, SettledOK
  <1> QED
    BY <1>1, <1>2, <1>3, <1>4, <1>5, <1>6, <1>7, QuietStep

(* A grant is stored only if it is not over. *)
LEMMA SavedAlive ==
    ASSUME RevocationInv, NEW f \in Flows, NEW gen \in Nat, MaySave(gen),
           \/ flow[f].stage = "committed" /\ gen = flow[f].gen
           \/ bearer[f].on /\ gen = bearer[f].gen
    PROVE  f \notin dead
  <1>1. Behind(f, gen) /\ mem.gen = gen
    BY DEF RevocationInv, Generations, MaySave
  <1>2. ~Over(f)
    BY <1>1 DEF Behind
  <1> QED
    BY <1>2 DEF Over

LEMMA StepSaveToken ==
    ASSUME RevocationInv, NEW f \in Flows, NEW ok \in BOOLEAN, SaveToken(f, ok) \/ SaveUnlisted(f, ok)
    PROVE  RevocationInv'
  <1>1. /\ UNCHANGED <<mem, reg, template, bearer, op, up, dead, unsettled, edits, requests, crashes>> /\ up
        /\ flow[f].stage \in {"committed", "checked"}
        /\ secret' \in {f, secret}
    BY DEF SaveToken, SaveUnlisted, promises, counters
  <1>2. PICK s \in {"checked", "saved"} :
           Goes(f, s) /\ (s = "checked" => MaySaveUnlisted)
    BY DEF SaveToken, SaveUnlisted
  <1>3. /\ flow' \in [Flows -> oauthFlow]
        /\ flow'[f].stage = s /\ flow'[f].gen = flow[f].gen /\ flow'[f].reauth = flow[f].reauth
        /\ \A e \in Flows : e # f => flow'[e] = flow[e]
    BY <1>2, GoesTyped DEF RevocationInv, FlowStages
  <1>4. ConnectionTypeOK'
    BY <1>1, <1>3 DEF RevocationInv, ConnectionTypeOK, Flows
  <1>5. ~unsettled => /\ flow[f].stage = "committed" /\ mem.there /\ s = "saved"
                      /\ secret \notin dead
    BY <1>1, <1>2 DEF RevocationInv, SettledOK, MaySaveUnlisted
  <1>6. ~unsettled => secret' \notin dead
    <2> SUFFICES ASSUME ~unsettled, secret' # secret PROVE f \notin dead
      BY <1>1, <1>5
    <2>1. MaySave(flow[f].gen) /\ flow[f].gen \in Nat
      BY <1>5 DEF SaveToken, SaveUnlisted, RevocationInv, ConnectionTypeOK, oauthFlow
    <2> QED
      BY <1>5, <2>1, SavedAlive
  <1>7. \A e \in Flows : Over(e)' => Over(e)
    BY <1>1, SameOver
  <1>8. ~unsettled => \A h \in Handlers : op'[h].kind = "delete" => op'[h].stage <= 2
    BY <1>1 DEF RevocationInv, SettledOK
  <1>9. \A e \in Flows : /\ bearer'[e].on = bearer[e].on /\ bearer'[e].gen = bearer[e].gen
                         /\ ~unsettled' => ~bearer'[e].checked
    BY <1>1 DEF RevocationInv, SettledOK
  <1>10. unsettled \in BOOLEAN
    BY DEF RevocationInv, ConnectionTypeOK
  <1> QED
    BY <1>1, <1>3, <1>4, <1>5, <1>6, <1>7, <1>8, <1>9, <1>10, QuietStep

LEMMA StepPersistRecord ==
    ASSUME RevocationInv, NEW f \in Flows, NEW ok \in BOOLEAN, persistRegistrationRecord(f, ok)
    PROVE  RevocationInv'
  <1>1. /\ UNCHANGED <<mem, secret, template, bearer, op, up, dead, unsettled, edits, requests, crashes>> /\ up
        /\ flow[f].stage = "saved" /\ Goes(f, "ended")
    BY DEF persistRegistrationRecord, promises, counters
  <1>2. /\ flow' \in [Flows -> oauthFlow]
        /\ flow'[f].stage = "ended" /\ flow'[f].gen = flow[f].gen /\ flow'[f].reauth = flow[f].reauth
        /\ \A e \in Flows : e # f => flow'[e] = flow[e]
    BY <1>1, GoesTyped DEF RevocationInv, FlowStages
  <1>3. reg' \in upstreamReg
    BY DEF persistRegistrationRecord, RevocationInv, ConnectionTypeOK, upstreamReg, oauthFlow
  <1>4. ConnectionTypeOK'
    BY <1>1, <1>2, <1>3 DEF RevocationInv, ConnectionTypeOK
  <1>5. flow[1].stage \notin Uncommitted /\ (~unsettled => mem.there)
    BY <1>1 DEF RevocationInv, FirstFlow, SettledOK, Uncommitted
  <1>6. \A e \in Flows : Over(e)' => Over(e)
    BY <1>1, SameOver
  <1>7. ~unsettled' => secret' \notin dead' /\ \A h \in Handlers : op'[h].kind = "delete" => op'[h].stage <= 2
    BY <1>1 DEF RevocationInv, SettledOK
  <1>8. \A e \in Flows : /\ bearer'[e].on = bearer[e].on /\ bearer'[e].gen = bearer[e].gen
                         /\ ~unsettled' => ~bearer'[e].checked
    BY <1>1 DEF RevocationInv, SettledOK
  <1> QED
    BY <1>1, <1>2, <1>4, <1>5, <1>6, <1>7, <1>8, QuietStep

LEMMA StepRotate ==
    ASSUME RevocationInv, NEW f \in Flows, NEW ok \in BOOLEAN, Rotate(f, ok) \/ RotateUnlisted(f, ok)
    PROVE  RevocationInv'
  <1>1. /\ UNCHANGED <<mem, reg, template, flow, op, up, dead, unsettled, edits, requests, crashes>> /\ up
        /\ secret' \in {f, secret}
    BY DEF Rotate, RotateUnlisted, promises, counters
  <1>2. PICK c \in BOOLEAN : bearer' = [bearer EXCEPT ![f].checked = c] /\ (c => MaySaveUnlisted /\ bearer[f].on)
    <2>1. MaySaveUnlisted \in BOOLEAN
      BY DEF MaySaveUnlisted
    <2> QED
      BY <2>1 DEF Rotate, RotateUnlisted
  <1>3. /\ bearer' \in [Flows -> Bearer]
        /\ \A e \in Flows : /\ bearer'[e].on = bearer[e].on /\ bearer'[e].gen = bearer[e].gen
                            /\ bearer'[e].checked => bearer[e].checked \/ (MaySaveUnlisted /\ bearer[e].on)
    BY <1>2 DEF RevocationInv, ConnectionTypeOK, Bearer
  <1>4. ConnectionTypeOK'
    BY <1>1, <1>3 DEF RevocationInv, ConnectionTypeOK, Flows
  <1>5. ~unsettled => \A e \in Flows : ~bearer'[e].checked
    BY <1>3 DEF RevocationInv, SettledOK, MaySaveUnlisted
  <1>6. ~unsettled => secret' \notin dead
    <2> SUFFICES ASSUME ~unsettled, secret' # secret PROVE f \notin dead
      BY <1>1 DEF RevocationInv, SettledOK
    <2>1. MaySave(bearer[f].gen) /\ bearer[f].on
      BY DEF Rotate, RotateUnlisted, RevocationInv, SettledOK
    <2>2. bearer[f].gen \in Nat
      BY DEF RevocationInv, ConnectionTypeOK, Bearer
    <2> QED
      BY <2>1, <2>2, SavedAlive
  <1>7. \A e \in Flows : Over(e)' => Over(e)
    BY <1>1, SameOver
  <1>8. ~unsettled => \A h \in Handlers : op'[h].kind = "delete" => op'[h].stage <= 2
    BY <1>1 DEF RevocationInv, SettledOK
  <1> QED
    BY <1>1, <1>3, <1>4, <1>5, <1>6, <1>7, <1>8, QuietStep

LEMMA StepStart ==
    ASSUME RevocationInv, NEW f \in Flows, userStartConnection(f) \/ userReauthorizeConnection(f)
    PROVE  RevocationInv'
  <1>1. /\ UNCHANGED <<mem, reg, secret, template, bearer, op, up, dead, unsettled, edits, requests, crashes>> /\ up
        /\ flow[f].stage = "none"
    BY DEF userStartConnection, userReauthorizeConnection, StartFlow, disk, promises, counters
  <1>2. PICK d \in BOOLEAN, g \in Nat, v \in Nat :
           /\ flow' = [flow EXCEPT ![f] = [stage |-> "starting", reauth |-> (f # 1), discover |-> d, gen |-> g,
                                           ver |-> v]]
           /\ f = 1 => g = 0
           /\ f # 1 => mem.there /\ g = mem.gen
    <2>1. mem \in Record /\ template.ver \in Nat
      BY DEF RevocationInv, ConnectionTypeOK
    <2>2. CASE f = 1
      <3>1. flow' = [flow EXCEPT ![f] = [stage |-> "starting", reauth |-> (f # 1), discover |-> FALSE, gen |-> 0,
                                         ver |-> template.ver]]
        BY <2>2 DEF userStartConnection, userReauthorizeConnection, StartFlow
      <3> QED
        BY <2>1, <2>2, <3>1
    <2>3. CASE f # 1
      <3> DEFINE d == ~mem.enabled /\ ~mem.revoked
      <3>1. d \in BOOLEAN /\ mem.gen \in Nat /\ mem.there
        BY <2>1, <2>3 DEF Record, userStartConnection, userReauthorizeConnection
      <3>2. flow' = [flow EXCEPT ![f] = [stage |-> "starting", reauth |-> (f # 1), discover |-> d, gen |-> mem.gen,
                                         ver |-> template.ver]]
        BY <2>3 DEF userStartConnection, userReauthorizeConnection, StartFlow
      <3> HIDE DEF d
      <3> QED
        BY <2>1, <2>3, <3>1, <3>2
    <2> QED
      BY <2>2, <2>3
  <1> DEFINE new == [stage |-> "starting", reauth |-> (f # 1), discover |-> d, gen |-> g, ver |-> v]
  <1>3. new \in oauthFlow /\ new.stage = "starting" /\ new.reauth = (f # 1) /\ new.gen = g
    BY DEF oauthFlow, FlowStages
  <1>4. flow' = [flow EXCEPT ![f] = new]
    BY <1>2
  <1> HIDE DEF new
  <1>5. /\ flow' \in [Flows -> oauthFlow] /\ flow'[f] = new
        /\ \A e \in Flows : e # f => flow'[e] = flow[e]
    BY <1>3, <1>4 DEF RevocationInv, ConnectionTypeOK
  <1>6. ConnectionTypeOK'
    BY <1>1, <1>5 DEF RevocationInv, ConnectionTypeOK
  <1>7. \A e \in Flows : Over(e)' <=> Over(e)
    BY <1>1 DEF Over
  <1>8. ~Over(f) /\ 1 \in Flows
    BY <1>1, ConnectionAssumption DEF RevocationInv, Flows
  <1>9. \A e \in Flows : Over(e)' => flow'[e].stage # "none"
    BY <1>3, <1>5, <1>7 DEF RevocationInv
  <1>10. DownOK'
    BY <1>1 DEF DownOK
  <1>11. FirstFlow'
    BY <1>1, <1>2, <1>3, <1>5, <1>7, <1>8 DEF RevocationInv, FirstFlow, Uncommitted
  <1>12. Generations'
    <2>1. (mem'.there /\ ~mem'.revoked) => ~Over(mem.grant)'
      BY <1>1 DEF RevocationInv, Generations, Over
    <2>2. ASSUME NEW e \in Flows, mem.there, bearer[e].on PROVE Behind(e, bearer[e].gen)'
      BY <1>1, <1>7, <2>2 DEF RevocationInv, Generations, Behind
    <2>3. ASSUME NEW e \in Flows, mem.there, flow'[e].stage \in {"starting", "pending", "taken", "committed"}
          PROVE  Behind(e, flow[e].gen)'
      <3>1. CASE e # f
        BY <1>1, <1>5, <1>7, <2>3, <3>1 DEF RevocationInv, Generations, Behind
      <3>2. CASE e = f
        <4>1. f # 1 /\ g = mem.gen
          BY <1>1, <1>2, <2>3 DEF RevocationInv, FirstFlow, Uncommitted
        <4> QED
          BY <1>1, <1>3, <1>5, <1>7, <1>8, <3>2, <4>1 DEF Behind
      <3> QED
        BY <3>1, <3>2
    <2> QED
      BY <1>1, <2>1, <2>2, <2>3 DEF Generations
  <1>13. SettledOK'
    BY <1>1, <1>2, <1>3, <1>5 DEF RevocationInv, SettledOK
  <1> QED
    BY <1>6, <1>9, <1>10, <1>11, <1>12, <1>13 DEF RevocationInv

LEMMA StepTake ==
    ASSUME RevocationInv, NEW f \in Flows, TakeFlow(f, TRUE), CurrentPolicy(f)
    PROVE  RevocationInv'
  <1>1. /\ UNCHANGED <<mem, reg, secret, template, op, up, dead, unsettled, edits, requests, crashes>> /\ up
        /\ flow[f].stage = "pending" /\ Goes(f, "taken")
        /\ bearer' = [bearer EXCEPT ![f] = [on |-> TRUE, gen |-> flow[f].gen, checked |-> FALSE]]
    BY DEF TakeFlow, disk, promises, counters
  <1>2. /\ flow' \in [Flows -> oauthFlow]
        /\ flow'[f].stage = "taken" /\ flow'[f].gen = flow[f].gen /\ flow'[f].reauth = flow[f].reauth
        /\ \A e \in Flows : e # f => flow'[e] = flow[e]
    BY <1>1, GoesTyped DEF RevocationInv, FlowStages
  <1>3. flow[f].gen \in Nat /\ bearer \in [Flows -> Bearer]
    BY DEF RevocationInv, ConnectionTypeOK, oauthFlow
  <1>4. /\ bearer' \in [Flows -> Bearer]
        /\ bearer'[f].on /\ bearer'[f].gen = flow[f].gen /\ ~bearer'[f].checked
        /\ \A e \in Flows : e # f => bearer'[e] = bearer[e]
    BY <1>1, <1>3 DEF Bearer
  <1>5. ConnectionTypeOK'
    BY <1>1, <1>2, <1>4 DEF RevocationInv, ConnectionTypeOK
  <1>6. \A e \in Flows : Over(e)' <=> Over(e)
    BY <1>1 DEF Over
  <1>7. \A e \in Flows : Over(e)' => flow'[e].stage # "none"
    BY <1>2, <1>6 DEF RevocationInv
  <1>8. DownOK'
    BY <1>1 DEF DownOK
  <1>9. 1 \in Flows
    BY ConnectionAssumption DEF Flows
  <1>10. FirstFlow'
    BY <1>1, <1>2, <1>4, <1>6, <1>9 DEF RevocationInv, FirstFlow, Uncommitted
  <1>11. Generations'
    <2>1. (mem'.there /\ ~mem'.revoked) => ~Over(mem.grant)'
      BY <1>1 DEF RevocationInv, Generations, Over
    <2>2. ASSUME NEW e \in Flows, mem.there, bearer'[e].on PROVE Behind(e, bearer[e].gen)'
      <3>1. CASE e # f
        BY <1>1, <1>4, <1>6, <2>2, <3>1 DEF RevocationInv, Generations, Behind
      <3>2. CASE e = f
        BY <1>1, <1>4, <1>6, <2>2, <3>2 DEF RevocationInv, Generations, Behind
      <3> QED
        BY <3>1, <3>2
    <2>3. ASSUME NEW e \in Flows, mem.there, flow'[e].stage \in {"starting", "pending", "taken", "committed"}
          PROVE  Behind(e, flow[e].gen)'
      BY <1>1, <1>2, <1>6, <2>3 DEF RevocationInv, Generations, Behind
    <2> QED
      BY <1>1, <2>1, <2>2, <2>3 DEF Generations
  <1>12. SettledOK'
    <2>1. ~unsettled => mem.there \/ ~reg.there
      BY <1>1 DEF RevocationInv, FirstFlow, SettledOK, Uncommitted
    <2> QED
      BY <1>1, <1>2, <1>4, <2>1 DEF RevocationInv, SettledOK
  <1> QED
    BY <1>5, <1>7, <1>8, <1>10, <1>11, <1>12 DEF RevocationInv

LEMMA StepCommit ==
    ASSUME RevocationInv, NEW f \in Flows, Commit(f, TRUE), MayCommit(f)
    PROVE  RevocationInv'
  <1>1. /\ UNCHANGED <<reg, secret, template, bearer, op, up, dead, unsettled, edits, requests, crashes>> /\ up
        /\ flow[f].stage = "taken" /\ Goes(f, "committed")
    BY DEF Commit, disk, promises, counters
  <1>2. /\ flow' \in [Flows -> oauthFlow]
        /\ flow'[f].stage = "committed" /\ flow'[f].gen = flow[f].gen /\ flow'[f].reauth = flow[f].reauth
        /\ \A e \in Flows : e # f => flow'[e] = flow[e]
    BY <1>1, GoesTyped DEF RevocationInv, FlowStages
  <1>3. mem \in Record /\ flow[f] \in oauthFlow /\ 1 \in Flows /\ f \in 0 .. MaxFlows
        /\ flow[f].reauth = (f # 1)
    BY <1>1, ConnectionAssumption DEF RevocationInv, ConnectionTypeOK, Flows, FirstFlow
  <1>4. /\ mem' \in Record /\ mem'.there /\ ~mem'.revoked /\ mem'.grant = f /\ mem'.gen = flow[f].gen
        /\ f # 1 => mem.there /\ mem'.gen = mem.gen
    <2>1. CASE f = 1
      <3>1. mem' = [there |-> TRUE, enabled |-> ~flow[f].discover, revoked |-> FALSE,
                    gen |-> flow[f].gen, grant |-> f]
        BY <1>3, <2>1 DEF Commit
      <3> QED
        BY <1>3, <2>1, <3>1 DEF Record, oauthFlow
    <2>2. CASE f # 1
      <3>1. mem.there /\ mem.gen = flow[f].gen
        BY <1>3, <2>2 DEF MayCommit
      <3>2. mem' = [mem EXCEPT !.grant = f, !.revoked = FALSE, !.enabled = @ \/ mem.revoked]
        BY <1>3, <2>2 DEF Commit
      <3> QED
        BY <1>3, <2>2, <3>1, <3>2 DEF Record
    <2> QED
      BY <2>1, <2>2
  <1>5. ConnectionTypeOK'
    BY <1>1, <1>2, <1>4 DEF RevocationInv, ConnectionTypeOK
  <1>6. \A e \in Flows : Over(e)' <=> Over(e)
    BY <1>1 DEF Over
  <1>7. ~Over(f)
    <2>1. CASE f = 1
      BY <1>1, <2>1 DEF RevocationInv, FirstFlow, Uncommitted
    <2>2. CASE f # 1
      <3>1. mem.there /\ mem.gen = flow[f].gen /\ Behind(f, flow[f].gen)
        BY <1>1, <1>4, <2>2 DEF RevocationInv, Generations
      <3> QED
        BY <1>3, <3>1 DEF Behind, Record
    <2> QED
      BY <2>1, <2>2
  <1>8. \A e \in Flows : Over(e)' => flow'[e].stage # "none"
    BY <1>2, <1>6 DEF RevocationInv
  <1>9. DownOK'
    BY <1>1 DEF DownOK
  <1>10. FirstFlow'
    BY <1>1, <1>2, <1>3, <1>6 DEF RevocationInv, FirstFlow, Uncommitted
  <1>11. Generations'
    <2>1. CASE f # 1
      <3>1. ASSUME NEW e \in Flows, bearer'[e].on PROVE Behind(e, bearer[e].gen)'
        BY <1>1, <1>4, <1>6, <2>1, <3>1 DEF RevocationInv, Generations, Behind
      <3>2. ASSUME NEW e \in Flows, flow'[e].stage \in {"starting", "pending", "taken", "committed"}
            PROVE  Behind(e, flow[e].gen)'
        BY <1>1, <1>2, <1>4, <1>6, <2>1, <3>2 DEF RevocationInv, Generations, Behind
      <3> QED
        BY <1>4, <1>6, <1>7, <3>1, <3>2 DEF Generations
    <2>2. CASE f = 1
      <3>1. /\ \A e \in Flows : ~Over(e) /\ (e # 1 => flow[e].stage = "none" /\ ~bearer[e].on)
            /\ bearer[1].gen = 0 /\ flow[1].gen = 0
        BY <1>1, <2>2 DEF RevocationInv, FirstFlow, Uncommitted
      <3>2. ASSUME NEW e \in Flows, bearer'[e].on PROVE Behind(e, bearer[e].gen)'
        BY <1>1, <1>4, <1>6, <2>2, <3>1, <3>2 DEF Behind
      <3>3. ASSUME NEW e \in Flows, flow'[e].stage \in {"starting", "pending", "taken", "committed"}
            PROVE  Behind(e, flow[e].gen)'
        <4>1. e = 1 /\ flow'[e].gen = 0 /\ mem'.gen = 0
          BY <1>2, <1>4, <2>2, <3>1, <3>3
        <4> QED
          BY <1>6, <3>1, <4>1 DEF Behind
      <3> QED
        BY <1>4, <1>6, <1>7, <3>2, <3>3 DEF Generations
    <2> QED
      BY <2>1, <2>2
  <1>12. SettledOK'
    BY <1>1, <1>2, <1>4 DEF RevocationInv, SettledOK
  <1> QED
    BY <1>5, <1>8, <1>9, <1>10, <1>11, <1>12 DEF RevocationInv

LEMMA CoversTyped ==
    ASSUME NEW o \in Request, NEW C \in SUBSET Flows
    PROVE  LET p == [o EXCEPT !.stage = 2, !.covers = C]
           IN  p \in Request /\ p.covers = C /\ p.stage = 2
  <1>1. [o EXCEPT !.stage = 2] \in Request
    BY DEF Request
  <1>2. ASSUME NEW q \in Request PROVE [q EXCEPT !.covers = C] \in Request /\ [q EXCEPT !.covers = C].covers = C
                                       /\ [q EXCEPT !.covers = C].stage = q.stage
    BY DEF Request
  <1>3. [o EXCEPT !.stage = 2].stage = 2
    BY DEF Request
  <1>4. [o EXCEPT !.stage = 2, !.covers = C] = [[o EXCEPT !.stage = 2] EXCEPT !.covers = C]
    BY DEF Request
  <1> QED
    BY <1>1, <1>2, <1>3, <1>4

(* The revocation bumps the generation: whatever is under way is behind. *)
LEMMA StepRevoke ==
    ASSUME RevocationInv, NEW h \in Handlers, RevokeUpstream(h), mem.there
    PROVE  RevocationInv'
  <1> DEFINE C == {f \in Flows : flow[f].stage # "none"}
  <1>1. /\ UNCHANGED <<reg, secret, template, flow, bearer, up, dead, unsettled, edits, requests, crashes>> /\ up
        /\ op' = [op EXCEPT ![h].stage = 2, ![h].covers = C]
        /\ mem' = [mem EXCEPT !.enabled = FALSE, !.revoked = TRUE, !.gen = @ + 1]
        /\ op[h].kind \in {"revoke", "delete"}
    BY DEF RevokeUpstream, Revoked, disk, promises, counters
  <1>2. mem \in Record /\ op \in [Handlers -> Request] /\ C \subseteq Flows
    BY DEF RevocationInv, ConnectionTypeOK
  <1> HIDE DEF C
  <1>3. /\ op' \in [Handlers -> Request] /\ op'[h].covers = C /\ op'[h].stage = 2
        /\ \A g \in Handlers : g # h => op'[g] = op[g]
    <2> DEFINE o == [op[h] EXCEPT !.stage = 2, !.covers = C]
    <2>1. op' = [op EXCEPT ![h] = o]
      BY <1>1, <1>2
    <2>2. o \in Request /\ o.covers = C /\ o.stage = 2
      BY <1>2, CoversTyped
    <2> HIDE DEF o
    <2> QED
      BY <1>2, <2>1, <2>2
  <1>4. mem' \in Record /\ mem'.there /\ mem'.revoked /\ mem'.gen = mem.gen + 1 /\ mem.gen \in Nat
    <2>1. mem.gen \in Nat /\ mem.there \in BOOLEAN /\ mem.grant \in 0 .. MaxFlows
      BY <1>2 DEF Record
    <2>2. mem' = [there |-> mem.there, enabled |-> FALSE, revoked |-> TRUE, gen |-> mem.gen + 1, grant |-> mem.grant]
      BY <1>1, <1>2 DEF Record
    <2> QED
      BY <2>1, <2>2 DEF Record
  <1>5. ConnectionTypeOK'
    BY <1>1, <1>3, <1>4 DEF RevocationInv, ConnectionTypeOK
  <1>6. \A f \in Flows : Over(f)' => Over(f) \/ f \in C
    BY <1>1, <1>3 DEF Over
  <1>7. \A f \in Flows : Over(f)' => flow'[f].stage # "none"
    BY <1>1, <1>6 DEF RevocationInv, C
  <1>8. DownOK'
    BY <1>1 DEF DownOK
  <1>9. FirstFlow'
    BY <1>1, <1>4 DEF RevocationInv, FirstFlow
  <1>10. Generations'
    <2>1. ASSUME NEW f \in Flows, bearer'[f].on PROVE Behind(f, bearer[f].gen)'
      <3>1. bearer[f].gen \in Nat /\ Behind(f, bearer[f].gen)
        BY <1>1, <2>1 DEF RevocationInv, ConnectionTypeOK, Bearer, Generations
      <3>2. bearer'[f].gen = bearer[f].gen /\ bearer[f].gen < mem'.gen
        BY <1>1, <1>4, <3>1 DEF Behind
      <3> QED
        BY <1>4, <3>1, <3>2 DEF Behind
    <2>2. ASSUME NEW f \in Flows, flow'[f].stage \in {"starting", "pending", "taken", "committed"}
          PROVE  Behind(f, flow[f].gen)'
      <3>1. flow[f].gen \in Nat /\ Behind(f, flow[f].gen)
        BY <1>1, <2>2 DEF RevocationInv, ConnectionTypeOK, oauthFlow, Generations
      <3>2. flow'[f].gen = flow[f].gen /\ flow[f].gen < mem'.gen
        BY <1>1, <1>4, <3>1 DEF Behind
      <3> QED
        BY <1>4, <3>1, <3>2 DEF Behind
    <2> QED
      BY <1>4, <2>1, <2>2 DEF Generations
  <1>11. SettledOK'
    <2>1. \A g \in Handlers : ~unsettled => (op'[g].kind = "delete" => op'[g].stage <= 2)
      BY <1>3 DEF RevocationInv, SettledOK
    <2> QED
      BY <1>1, <1>4, <2>1 DEF RevocationInv, SettledOK
  <1> QED
    BY <1>5, <1>7, <1>8, <1>9, <1>10, <1>11 DEF RevocationInv

LEMMA StepTemplate ==
    ASSUME RevocationInv, TemplateNext
    PROVE  RevocationInv'
  <1>1. /\ UNCHANGED <<mem, reg, secret, bearer, op, up, dead, unsettled, requests, crashes>> /\ up
        /\ UNCHANGED flow \/ cancelOAuthFlows
    BY DEF TemplateNext, adminPutConnectionTemplate, adminDeleteConnectionTemplate, CancelSuperseded, disk, promises,
       counters
  <1>2. template' \in [ver : Nat, disabled : BOOLEAN, cancel : BOOLEAN] /\ edits' \in Nat
    <2>1. template \in [ver : Nat, disabled : BOOLEAN, cancel : BOOLEAN] /\ edits \in Nat
      BY DEF RevocationInv, ConnectionTypeOK
    <2>2. ASSUME NEW b \in BOOLEAN, adminPutConnectionTemplate(b)
          PROVE  template' \in [ver : Nat, disabled : BOOLEAN, cancel : BOOLEAN] /\ edits' \in Nat
      <3>1. template.ver + 1 \in Nat
        BY <2>1
      <3> QED
        BY <2>1, <2>2, <3>1 DEF adminPutConnectionTemplate
    <2>3. ASSUME adminDeleteConnectionTemplate
          PROVE  template' \in [ver : Nat, disabled : BOOLEAN, cancel : BOOLEAN] /\ edits' \in Nat
      BY <2>1, <2>3 DEF adminDeleteConnectionTemplate
    <2>4. ASSUME CancelSuperseded
          PROVE  template' \in [ver : Nat, disabled : BOOLEAN, cancel : BOOLEAN] /\ edits' \in Nat
      BY <2>1, <2>4 DEF CancelSuperseded, counters
    <2> QED
      BY <2>2, <2>3, <2>4 DEF TemplateNext
  <1>3. /\ flow' \in [Flows -> oauthFlow]
        /\ \A f \in Flows : \/ flow'[f] = flow[f]
                            \/ /\ flow[f].stage = "pending" /\ flow'[f].stage = "ended"
                               /\ flow'[f].gen = flow[f].gen /\ flow'[f].reauth = flow[f].reauth
    BY <1>1, CancelTyped DEF RevocationInv, ConnectionTypeOK
  <1>4. ConnectionTypeOK'
    BY <1>1, <1>2, <1>3 DEF RevocationInv, ConnectionTypeOK
  <1>5. \A f \in Flows : Over(f)' => Over(f)
    BY <1>1, SameOver
  <1>6. ~unsettled' => secret' \notin dead' /\ \A h \in Handlers : op'[h].kind = "delete" => op'[h].stage <= 2
    BY <1>1 DEF RevocationInv, SettledOK
  <1>7. \A e \in Flows : /\ bearer'[e].on = bearer[e].on /\ bearer'[e].gen = bearer[e].gen
                         /\ ~unsettled' => ~bearer'[e].checked
    BY <1>1 DEF RevocationInv, SettledOK
  <1> QED
    BY <1>1, <1>3, <1>4, <1>5, <1>6, <1>7, QuietStep

LEMMA StepRequest ==
    ASSUME RevocationInv, NEW h \in Handlers,
           \/ adminRevokeUpstream(h) \/ userDeleteConnection(h)
           \/ adminEnableUpstream(h) \/ adminDisableUpstream(h)
    PROVE  RevocationInv'
  <1>1. PICK kind \in HandlerKinds, s \in {1, 2} :
           Begin(h, kind, s) /\ (UNCHANGED flow \/ cancelOAuthFlows)
    BY DEF adminRevokeUpstream, userDeleteConnection, adminEnableUpstream, adminDisableUpstream, HandlerKinds
  <1>2. /\ UNCHANGED <<mem, reg, secret, template, bearer, up, dead, unsettled, edits, crashes>> /\ up
        /\ requests' = requests + 1
        /\ op' = [op EXCEPT ![h] = [NoRequest EXCEPT !.kind = kind, !.grant = mem.grant, !.stage = s]]
    BY <1>1 DEF Begin, disk, promises
  <1> DEFINE o == [NoRequest EXCEPT !.kind = kind, !.grant = mem.grant, !.stage = s]
  <1>3. o \in Request /\ o.covers = {} /\ o.stage = s
    <2>1. mem.grant \in 0 .. MaxFlows /\ s \in 0 .. 4
      BY DEF RevocationInv, ConnectionTypeOK, Record
    <2> QED
      BY <2>1, ConnectionAssumption DEF NoRequest, Request, HandlerKinds
  <1> HIDE DEF o
  <1>4. op' \in [Handlers -> Request] /\ op'[h] = o /\ \A g \in Handlers : g # h => op'[g] = op[g]
    BY <1>2, <1>3 DEF RevocationInv, ConnectionTypeOK, o
  <1>5. /\ flow' \in [Flows -> oauthFlow]
        /\ \A f \in Flows : \/ flow'[f] = flow[f]
                            \/ /\ flow[f].stage = "pending" /\ flow'[f].stage = "ended"
                               /\ flow'[f].gen = flow[f].gen /\ flow'[f].reauth = flow[f].reauth
    BY <1>1, CancelTyped DEF RevocationInv, ConnectionTypeOK
  <1>6. ConnectionTypeOK'
    BY <1>2, <1>4, <1>5 DEF RevocationInv, ConnectionTypeOK
  <1>7. \A f \in Flows : Over(f)' => Over(f)
    BY <1>2, <1>3, <1>4 DEF Over
  <1>8. ~unsettled' => secret' \notin dead' /\ \A g \in Handlers : op'[g].kind = "delete" => op'[g].stage <= 2
    BY <1>2, <1>3, <1>4 DEF RevocationInv, SettledOK
  <1>9. \A e \in Flows : /\ bearer'[e].on = bearer[e].on /\ bearer'[e].gen = bearer[e].gen
                         /\ ~unsettled' => ~bearer'[e].checked
    BY <1>2 DEF RevocationInv, SettledOK
  <1> QED
    BY <1>2, <1>5, <1>6, <1>7, <1>8, <1>9, QuietStep

(* A handler that changes the switch in the record, or the registration. *)
LEMMA StepSwitch ==
    ASSUME RevocationInv, NEW h \in Handlers, NEW b \in BOOLEAN,
           \/ EnableUpstream(h, b) \/ DisableUpstream(h)
           \/ markRegistrationEnabled(h, b) \/ persistDisabledStrict(h, b)
           \/ RevokeUpstream(h) /\ ~mem.there
    PROVE  RevocationInv'
  <1>1. /\ UNCHANGED <<secret, template, flow, bearer, up, dead, unsettled, edits, requests, crashes>> /\ up
        /\ Answer(h) \/ (Proceed(h) /\ op[h].stage = 1 /\ op[h].kind \in {"enable", "disable"})
    BY DEF EnableUpstream, DisableUpstream, markRegistrationEnabled, persistDisabledStrict, RevokeUpstream, disk,
       promises, counters
  <1>2. mem \in Record /\ reg \in upstreamReg
    BY DEF RevocationInv, ConnectionTypeOK
  <1>3. /\ mem' \in Record /\ mem'.there = mem.there /\ mem'.gen = mem.gen /\ mem'.revoked = mem.revoked
        /\ mem'.grant = mem.grant
    BY <1>2 DEF EnableUpstream, DisableUpstream, markRegistrationEnabled, persistDisabledStrict, RevokeUpstream, Record
  <1>4. reg' \in upstreamReg /\ (reg'.there => reg.there)
    BY <1>2 DEF EnableUpstream, DisableUpstream, markRegistrationEnabled, persistDisabledStrict, RevokeUpstream, disk,
       upstreamReg
  <1>5. /\ op' \in [Handlers -> Request]
        /\ \A g \in Handlers : /\ op'[g].covers = op[g].covers \/ op'[g].covers = {}
                               /\ op'[g].kind = "delete" => op'[g] = op[g]
    <2>1. CASE Answer(h)
      BY <2>1, AnswerTyped DEF RevocationInv, NoRequest
    <2>2. CASE Proceed(h) /\ op[h].stage = 1 /\ op[h].kind \in {"enable", "disable"}
      BY <2>2, ProceedTyped DEF RevocationInv
    <2> QED
      BY <1>1, <2>1, <2>2
  <1>6. ConnectionTypeOK'
    BY <1>1, <1>3, <1>4, <1>5 DEF RevocationInv, ConnectionTypeOK
  <1>7. \A f \in Flows : Over(f)' => Over(f)
    BY <1>1, <1>5 DEF Over
  <1>8. ~unsettled' => secret' \notin dead' /\ \A g \in Handlers : op'[g].kind = "delete" => op'[g].stage <= 2
    BY <1>1, <1>5 DEF RevocationInv, SettledOK
  <1> QED
    BY <1>1, <1>3, <1>4, <1>6, <1>7, <1>8, HandlerStep

LEMMA HeldTyped ==
    ASSUME NEW o \in Request, NEW b \in BOOLEAN
    PROVE  LET p == [o EXCEPT !.stage = 3, !.held = b]
           IN  p \in Request /\ p.covers = o.covers /\ p.kind = o.kind
  <1>1. [o EXCEPT !.stage = 3] \in Request /\ [o EXCEPT !.stage = 3].covers = o.covers
        /\ [o EXCEPT !.stage = 3].kind = o.kind
    BY DEF Request
  <1>2. ASSUME NEW q \in Request PROVE [q EXCEPT !.held = b] \in Request /\ [q EXCEPT !.held = b].covers = q.covers
                                       /\ [q EXCEPT !.held = b].kind = q.kind
    BY DEF Request
  <1>3. [o EXCEPT !.stage = 3, !.held = b] = [[o EXCEPT !.stage = 3] EXCEPT !.held = b]
    BY DEF Request
  <1> QED
    BY <1>1, <1>2, <1>3

(* The registration becomes a tombstone or is removed. *)
LEMMA StepRegistration ==
    ASSUME RevocationInv, NEW h \in Handlers, NEW ok \in BOOLEAN,
           revokeRegistration(h, ok) \/ removeSelfServiceRegistration(h, ok)
    PROVE  RevocationInv'
  <1>1. /\ UNCHANGED <<mem, secret, template, flow, bearer, up, dead, edits, requests, crashes>> /\ up
        /\ unsettled' \in BOOLEAN
        /\ ~unsettled' => ~unsettled /\ op[h].kind = "revoke"
    BY DEF revokeRegistration, removeSelfServiceRegistration, promises, counters, RevocationInv, ConnectionTypeOK
  <1>2. reg \in upstreamReg /\ op \in [Handlers -> Request]
    BY DEF RevocationInv, ConnectionTypeOK
  <1>3. reg' \in upstreamReg /\ (reg'.there => reg.there)
    <2>1. CASE revokeRegistration(h, ok)
      BY <1>2, <2>1 DEF revokeRegistration, upstreamReg
    <2>2. CASE removeSelfServiceRegistration(h, ok)
      BY <1>2, <2>2 DEF removeSelfServiceRegistration, upstreamReg, NoReg
    <2> QED
      BY <2>1, <2>2
  <1>4. /\ op' \in [Handlers -> Request]
        /\ \A g \in Handlers : /\ op'[g].covers = op[g].covers \/ op'[g].covers = {}
                               /\ op'[g].kind = "delete" => op'[g] = op[g] \/ op[h].kind = "delete"
    <2>1. CASE Answer(h)
      BY <2>1, AnswerTyped DEF RevocationInv, NoRequest
    <2>2. CASE ~Answer(h)
      <3> DEFINE b == ok \/ ~reg.there
                 o == [op[h] EXCEPT !.stage = 3, !.held = b]
      <3>1. b \in BOOLEAN
        OBVIOUS
      <3>2. op' = [op EXCEPT ![h].stage = 3, ![h].held = b]
        BY <2>2 DEF revokeRegistration, removeSelfServiceRegistration
      <3> HIDE DEF b
      <3>3. op' = [op EXCEPT ![h] = o]
        BY <1>2, <3>2
      <3>4. o \in Request /\ o.covers = op[h].covers /\ o.kind = op[h].kind
        BY <1>2, <3>1, HeldTyped
      <3> HIDE DEF o
      <3> QED
        BY <1>2, <3>3, <3>4
    <2> QED
      BY <2>1, <2>2
  <1>5. ConnectionTypeOK'
    BY <1>1, <1>3, <1>4 DEF RevocationInv, ConnectionTypeOK
  <1>6. \A f \in Flows : Over(f)' => Over(f)
    BY <1>1, <1>4 DEF Over
  <1>7. ~unsettled' => secret' \notin dead' /\ \A g \in Handlers : op'[g].kind = "delete" => op'[g].stage <= 2
    BY <1>1, <1>4 DEF RevocationInv, SettledOK
  <1> QED
    BY <1>1, <1>3, <1>5, <1>6, <1>7, HandlerStep

LEMMA StepDeleteSecret ==
    ASSUME RevocationInv, NEW h \in Handlers, NEW ok \in BOOLEAN, DeleteSecret(h, ok)
    PROVE  RevocationInv'
  <1>1. /\ UNCHANGED <<mem, reg, template, flow, bearer, up, edits, requests, crashes>> /\ up
        /\ op[h].stage = 3 /\ unsettled' = (unsettled \/ ~ok)
        /\ secret' = IF ok THEN 0 ELSE secret
        /\ Answer(h) \/ (Proceed(h) /\ op[h].kind = "delete")
        /\ dead' = dead \/ dead' = dead \cup op[h].covers
    BY DEF DeleteSecret, counters
  <1>2. op[h] \in Request /\ dead \subseteq Flows /\ unsettled \in BOOLEAN /\ secret \in 0 .. MaxFlows
    BY DEF RevocationInv, ConnectionTypeOK
  <1>3. dead' \subseteq Flows /\ unsettled' \in BOOLEAN /\ secret' \in 0 .. MaxFlows
    BY <1>1, <1>2, ConnectionAssumption DEF Request
  <1>4. /\ op' \in [Handlers -> Request]
        /\ \A g \in Handlers : /\ op'[g].covers = op[g].covers \/ op'[g].covers = {}
                               /\ op'[g].kind = "delete" => op'[g] = op[g] \/ op[h].kind = "delete"
    <2>1. CASE Answer(h)
      BY <2>1, AnswerTyped DEF RevocationInv, NoRequest
    <2>2. CASE Proceed(h) /\ op[h].kind = "delete"
      BY <1>1, <2>2, ProceedTyped DEF RevocationInv
    <2> QED
      BY <1>1, <2>1, <2>2
  <1>5. ConnectionTypeOK'
    BY <1>1, <1>3, <1>4 DEF RevocationInv, ConnectionTypeOK
  <1>6. \A f \in Flows : Over(f)' => Over(f)
    BY <1>1, <1>4 DEF Over
  <1>7. ASSUME ~unsettled'
        PROVE  ~unsettled /\ secret' \notin dead' /\ \A g \in Handlers : op'[g].kind = "delete" => op'[g].stage <= 2
    <2>1. ok /\ ~unsettled
      BY <1>1, <1>2, <1>7
    <2>3. secret' = 0 /\ 0 \notin dead'
      BY <1>1, <1>3, <2>1 DEF Flows
    <2>2. op[h].kind # "delete"
      BY <1>1, <2>1 DEF RevocationInv, SettledOK
    <2> QED
      BY <1>4, <2>1, <2>2, <2>3 DEF RevocationInv, SettledOK
  <1> QED
    BY <1>1, <1>5, <1>6, <1>7, HandlerStep

LEMMA NoneTyped == NoRecord \in Record /\ NoReg \in upstreamReg /\ NoBearer \in Bearer /\ NoRequest \in Request
  BY ConnectionAssumption DEF NoRecord, Record, NoReg, upstreamReg, NoBearer, Bearer, NoRequest, Request, HandlerKinds

LEMMA StepRemove ==
    ASSUME RevocationInv, NEW h \in Handlers, RemoveUpstream(h)
    PROVE  RevocationInv'
  <1>1. /\ UNCHANGED <<reg, secret, template, flow, bearer, up, dead, unsettled, edits, requests, crashes>> /\ up
        /\ op[h].kind = "delete" /\ op[h].stage = 4 /\ mem' = NoRecord /\ Answer(h)
    BY DEF RemoveUpstream, disk, promises, counters
  <1>2. /\ op' \in [Handlers -> Request]
        /\ op'[h] = NoRequest /\ \A g \in Handlers : g # h => op'[g] = op[g]
    BY <1>1, AnswerTyped DEF RevocationInv
  <1>3. ConnectionTypeOK'
    BY <1>1, <1>2, NoneTyped DEF RevocationInv, ConnectionTypeOK
  <1>4. \A f \in Flows : Over(f)' => Over(f)
    BY <1>1, <1>2 DEF Over, NoRequest
  <1>5. unsettled
    BY <1>1 DEF RevocationInv, SettledOK
  <1>6. ~mem'.there
    BY <1>1 DEF NoRecord
  <1>7. FirstFlow'
    BY <1>1, <1>4, <1>6 DEF RevocationInv, FirstFlow
  <1>8. \A f \in Flows : Over(f)' => flow'[f].stage # "none"
    BY <1>1, <1>4 DEF RevocationInv
  <1> QED
    BY <1>1, <1>3, <1>5, <1>6, <1>7, <1>8 DEF RevocationInv, DownOK, Generations, SettledOK

LEMMA StepCrash ==
    ASSUME RevocationInv, Crash
    PROVE  RevocationInv'
  <1>1. /\ UNCHANGED <<reg, secret, template, unsettled, edits, requests>> /\ ~up' /\ up' \in BOOLEAN
        /\ crashes' = crashes + 1 /\ mem' = NoRecord /\ bearer' = [f \in Flows |-> NoBearer]
        /\ op' = [h \in Handlers |-> NoRequest] /\ dead' = IF unsettled THEN {} ELSE dead
    BY DEF Crash, disk
  <1>2. flow \in [Flows -> oauthFlow]
    BY DEF RevocationInv, ConnectionTypeOK
  <1>3. /\ flow' \in [Flows -> oauthFlow]
        /\ \A f \in Flows : /\ flow'[f].stage = IF flow[f].stage = "none" THEN "none" ELSE "ended"
                            /\ flow'[f].gen = flow[f].gen
    <2> DEFINE g(f) == IF flow[f].stage = "none" THEN flow[f] ELSE [flow[f] EXCEPT !.stage = "ended"]
    <2>1. ASSUME NEW f \in Flows PROVE /\ g(f) \in oauthFlow /\ g(f).gen = flow[f].gen
                                       /\ g(f).stage = IF flow[f].stage = "none" THEN "none" ELSE "ended"
      BY <1>2 DEF oauthFlow, FlowStages
    <2>2. flow' = [f \in Flows |-> g(f)]
      BY DEF Crash
    <2> HIDE DEF g
    <2> QED
      BY <2>1, <2>2
  <1>4. ConnectionTypeOK'
    BY <1>1, <1>3, NoneTyped DEF RevocationInv, ConnectionTypeOK
  <1>5. \A f \in Flows : Over(f)' => Over(f)
    BY <1>1 DEF Over, NoRequest
  <1>6. \A f \in Flows : Over(f)' => flow'[f].stage # "none"
    BY <1>3, <1>5 DEF RevocationInv
  <1>7. DownOK'
    BY <1>1, <1>3 DEF DownOK
  <1>8. FirstFlow'
    <2>1. 1 \in Flows /\ bearer'[1].gen = 0 /\ \A f \in Flows : ~bearer'[f].on
      BY <1>1, ConnectionAssumption DEF Flows, NoBearer
    <2>2. ~mem'.there
      BY <1>1 DEF NoRecord
    <2> QED
      BY <1>1, <1>3, <1>5, <2>1, <2>2 DEF RevocationInv, FirstFlow, Uncommitted
  <1>9. Generations'
    BY <1>1 DEF Generations, NoRecord
  <1>10. SettledOK'
    <2>1. \A f \in Flows : ~bearer'[f].on /\ ~bearer'[f].checked
      BY <1>1 DEF NoBearer
    <2>2. \A h \in Handlers : op'[h].kind = "none"
      BY <1>1 DEF NoRequest
    <2> QED
      BY <1>1, <1>3, <2>1, <2>2 DEF RevocationInv, SettledOK
  <1> QED
    BY <1>4, <1>6, <1>7, <1>8, <1>9, <1>10 DEF RevocationInv

(* What a restart brings back is a tombstone, or a grant that is not over. *)
LEMMA StepReload ==
    ASSUME RevocationInv, NEW b \in BOOLEAN, Reload(b)
    PROVE  RevocationInv'
  <1> DEFINE restored == reg.there /\ ~reg.revoked /\ secret # 0 /\ b
  <1>1. /\ UNCHANGED <<reg, secret, flow, op, dead, unsettled, edits, requests, crashes>> /\ ~up /\ up' = TRUE
        /\ template' = [template EXCEPT !.ver = IF @ = 0 THEN 0 ELSE 1, !.cancel = FALSE]
        /\ bearer' = [f \in Flows |-> [NoBearer EXCEPT !.on = restored /\ f = secret]]
    BY DEF Reload, disk, promises, counters
  <1>2. /\ restored => mem' = [there |-> TRUE, enabled |-> ~reg.discover, revoked |-> FALSE,
                               gen |-> 0, grant |-> secret]
        /\ ~restored => mem' = NoRecord \/ mem' = [NoRecord EXCEPT !.there = TRUE, !.revoked = TRUE]
        /\ mem' # NoRecord => reg.there
    BY DEF Reload
  <1>3. /\ reg \in upstreamReg /\ secret \in 0 .. MaxFlows /\ dead \subseteq Flows
        /\ template \in [ver : Nat, disabled : BOOLEAN, cancel : BOOLEAN]
    BY DEF RevocationInv, ConnectionTypeOK
  <1>4. restored => reg.there
    OBVIOUS
  <1>5. /\ mem' \in Record /\ (mem'.there => reg.there) /\ mem'.gen = 0
        /\ (mem'.there /\ ~mem'.revoked) => restored /\ mem'.grant = secret
        /\ restored => mem'.there
    <2> HIDE DEF restored
    <2>1. CASE restored
      <3>1. PICK e \in BOOLEAN : mem' = [there |-> TRUE, enabled |-> e, revoked |-> FALSE, gen |-> 0, grant |-> secret]
        BY <1>2, <1>3, <2>1 DEF upstreamReg
      <3> QED
        BY <1>3, <1>4, <2>1, <3>1 DEF Record
    <2>2. CASE ~restored
      <3>1. CASE mem' = NoRecord
        BY <2>2, <3>1, NoneTyped DEF NoRecord
      <3>2. CASE mem' = [NoRecord EXCEPT !.there = TRUE, !.revoked = TRUE]
        <4>1. mem' \in Record /\ mem'.there /\ mem'.revoked /\ mem'.gen = 0
          <5>1. NoRecord.gen = 0
            BY DEF NoRecord
          <5> QED
            BY <3>2, <5>1, NoneTyped DEF Record
        <4>2. mem' # NoRecord
          BY <4>1 DEF NoRecord
        <4> QED
          BY <1>2, <2>2, <4>1, <4>2
      <3> QED
        BY <1>2, <2>2, <3>1, <3>2
    <2> QED
      BY <2>1, <2>2
  <1>6. /\ bearer' \in [Flows -> Bearer]
        /\ \A f \in Flows : /\ bearer'[f].gen = 0 /\ ~bearer'[f].checked
                            /\ bearer'[f].on => restored /\ f = secret
    <2> DEFINE on(f) == restored /\ f = secret
               g(f) == [NoBearer EXCEPT !.on = on(f)]
    <2>1. ASSUME NEW f \in Flows PROVE g(f) \in Bearer /\ g(f).gen = 0 /\ ~g(f).checked /\ g(f).on = on(f)
      <3>1. on(f) \in BOOLEAN
        OBVIOUS
      <3> HIDE DEF on
      <3> QED
        BY <3>1 DEF NoBearer, Bearer
    <2>2. bearer' = [f \in Flows |-> g(f)]
      BY <1>1
    <2>3. ASSUME NEW f \in Flows PROVE bearer'[f] = g(f)
      BY <2>2
    <2> HIDE DEF g
    <2> QED
      BY <2>1, <2>2, <2>3
  <1> HIDE DEF restored
  <1>7. template' \in [ver : Nat, disabled : BOOLEAN, cancel : BOOLEAN]
    BY <1>1, <1>3
  <1>8. ConnectionTypeOK'
    BY <1>1, <1>5, <1>6, <1>7 DEF RevocationInv, ConnectionTypeOK
  <1>9. \A f : Over(f)' <=> f \in dead
    <2>1. \A h \in Handlers : op[h].covers = {}
      BY <1>1 DEF RevocationInv, DownOK, NoRequest
    <2> QED
      BY <1>1, <2>1 DEF Over
  <1>10. restored => secret \notin dead
    BY <1>1, <1>3 DEF restored, RevocationInv, DownOK, SettledOK
  <1>11. \A f \in Flows : Over(f)' => flow'[f].stage # "none"
    BY <1>1, <1>9 DEF RevocationInv, Over
  <1>12. DownOK'
    BY <1>1 DEF DownOK
  <1>13. /\ \A f \in Flows : flow'[f].stage \in {"none", "ended"}
         /\ \A h \in Handlers : op'[h].kind = "none"
    BY <1>1 DEF RevocationInv, DownOK, NoRequest
  <1>14. FirstFlow'
    <2>1. 1 \in Flows
      BY ConnectionAssumption DEF Flows
    <2>2. restored => reg.there
      BY DEF restored
    <2> QED
      BY <1>1, <1>5, <1>6, <1>9, <1>13, <2>1, <2>2 DEF RevocationInv, FirstFlow, Uncommitted, Over
  <1>15. Generations'
    <2>1. ASSUME NEW f \in Flows, bearer'[f].on PROVE Behind(f, bearer[f].gen)'
      BY <1>5, <1>6, <1>9, <1>10, <2>1 DEF Behind
    <2> QED
      BY <1>5, <1>9, <1>10, <1>13, <2>1 DEF Generations
  <1>16. SettledOK'
    BY <1>1, <1>5, <1>6, <1>13 DEF RevocationInv, SettledOK
  <1> QED
    BY <1>8, <1>11, <1>12, <1>14, <1>15, <1>16 DEF RevocationInv

LEMMA InitRevocation == ConnectionInit => RevocationInv
  <1> SUFFICES ASSUME ConnectionInit PROVE RevocationInv
    OBVIOUS
  <1>1. /\ mem = NoRecord /\ reg = NoReg /\ secret = 0 /\ dead = {} /\ unsettled = FALSE /\ up = TRUE
        /\ template = [ver |-> 1, disabled |-> FALSE, cancel |-> FALSE]
        /\ edits = 0 /\ requests = 0 /\ crashes = 0
        /\ flow = [f \in Flows |-> [NoFlow EXCEPT !.stage = "none"]]
        /\ bearer = [f \in Flows |-> NoBearer] /\ op = [h \in Handlers |-> NoRequest]
    BY DEF ConnectionInit, Opening
  <1>2. /\ [NoFlow EXCEPT !.stage = "none"] \in oauthFlow
        /\ [NoFlow EXCEPT !.stage = "none"].stage = "none" /\ [NoFlow EXCEPT !.stage = "none"].gen = 0
    BY DEF NoFlow, oauthFlow, FlowStages
  <1> DEFINE n == [NoFlow EXCEPT !.stage = "none"]
  <1>3. flow = [f \in Flows |-> n]
    BY <1>1
  <1>4. n \in oauthFlow /\ n.stage = "none" /\ n.gen = 0
    BY <1>2
  <1> HIDE DEF n
  <1>5. flow \in [Flows -> oauthFlow] /\ \A f \in Flows : flow[f].stage = "none" /\ flow[f].gen = 0
    BY <1>3, <1>4
  <1>6. bearer \in [Flows -> Bearer] /\ op \in [Handlers -> Request] /\ mem \in Record /\ reg \in upstreamReg
    BY <1>1, NoneTyped
  <1>7. template \in [ver : Nat, disabled : BOOLEAN, cancel : BOOLEAN]
    BY <1>1
  <1>8. secret \in 0 .. MaxFlows /\ up \in BOOLEAN /\ dead \subseteq Flows /\ unsettled \in BOOLEAN
        /\ edits \in Nat /\ requests \in Nat /\ crashes \in Nat
    <2>1. secret = 0 /\ dead = {} /\ unsettled = FALSE /\ up = TRUE /\ edits = 0 /\ requests = 0 /\ crashes = 0
      BY <1>1
    <2>2. secret \in 0 .. MaxFlows
      BY <2>1, ConnectionAssumption
    <2>3. dead \subseteq Flows
      BY <2>1
    <2>4. edits \in Nat /\ requests \in Nat /\ crashes \in Nat
      BY <2>1
    <2> QED
      BY <2>1, <2>2, <2>3, <2>4
  <1>9. ConnectionTypeOK
    BY <1>5, <1>6, <1>7, <1>8 DEF ConnectionTypeOK
  <1>10. /\ \A f \in Flows : flow[f].stage = "none" /\ flow[f].gen = 0
         /\ \A f \in Flows : ~bearer[f].on /\ ~bearer[f].checked /\ bearer[f].gen = 0
         /\ \A h \in Handlers : op[h].kind = "none" /\ op[h].covers = {}
         /\ ~mem.there /\ ~reg.there /\ 1 \in Flows
    <2>1. \A f \in Flows : ~bearer[f].on /\ ~bearer[f].checked /\ bearer[f].gen = 0
      BY <1>1 DEF NoBearer
    <2>2. \A h \in Handlers : op[h].kind = "none" /\ op[h].covers = {}
      BY <1>1 DEF NoRequest
    <2>3. ~mem.there /\ ~reg.there /\ 1 \in Flows
      BY <1>1, ConnectionAssumption DEF NoRecord, NoReg, Flows
    <2> QED
      BY <1>5, <2>1, <2>2, <2>3
  <1>11. \A f \in Flows : ~Over(f)
    BY <1>1, <1>10 DEF Over
  <1>12. DownOK /\ FirstFlow
    BY <1>1, <1>10, <1>11 DEF DownOK, FirstFlow
  <1>13. Generations
    BY <1>1, <1>10, <1>11 DEF Generations
  <1>14. SettledOK
    BY <1>1, <1>10, <1>11 DEF SettledOK, Uncommitted
  <1> QED
    BY <1>9, <1>11, <1>12, <1>13, <1>14 DEF RevocationInv

LEMMA NextRevocation == RevocationInv /\ [ConnectionNext]_connectionVars => RevocationInv'
  <1> SUFFICES ASSUME RevocationInv, [ConnectionNext]_connectionVars PROVE RevocationInv'
    OBVIOUS
  <1>1. CASE FlowNext
    <2> SUFFICES ASSUME NEW f \in Flows,
                        \/ userStartConnection(f)
                        \/ userReauthorizeConnection(f)
                        \/ \E b \in BOOLEAN : putOAuthFlow(f, b) \/ TakeFlow(f, b) \/ Commit(f, b)
                        \/ ExpireFlow(f)
                        \/ \E ok \in BOOLEAN : SaveToken(f, ok) \/ SaveUnlisted(f, ok)
                        \/ \E ok \in BOOLEAN : persistRegistrationRecord(f, ok)
                        \/ \E ok \in BOOLEAN : Rotate(f, ok) \/ RotateUnlisted(f, ok)
                 PROVE  RevocationInv'
      BY <1>1, ConnectionAssumption DEF FlowNext
    <2>1. ASSUME NEW b \in BOOLEAN, TakeFlow(f, b) PROVE RevocationInv'
      <3>1. CASE b = TRUE /\ CurrentPolicy(f)
        BY <2>1, <3>1, StepTake
      <3>2. CASE ~(b /\ CurrentPolicy(f))
        BY <2>1, <3>2, StepFlowMoves DEF TakeFlow
      <3> QED
        BY <3>1, <3>2
    <2>2. ASSUME NEW b \in BOOLEAN, Commit(f, b) PROVE RevocationInv'
      <3>1. CASE b = TRUE /\ MayCommit(f)
        BY <2>2, <3>1, StepCommit
      <3>2. CASE ~(b /\ MayCommit(f))
        BY <2>2, <3>2, StepFlowMoves DEF Commit
      <3> QED
        BY <3>1, <3>2
    <2>3. ASSUME NEW b \in BOOLEAN, putOAuthFlow(f, b) PROVE RevocationInv'
      BY <2>3, StepFlowMoves
    <2>4. CASE ExpireFlow(f)
      BY <2>4, StepFlowMoves
    <2> QED
      BY <2>1, <2>2, <2>3, <2>4, StepStart, StepSaveToken, StepPersistRecord, StepRotate
  <1>2. CASE TemplateNext
    BY <1>2, StepTemplate
  <1>3. CASE HandlerNext
    <2> SUFFICES ASSUME NEW h \in Handlers,
                        \/ adminRevokeUpstream(h) \/ userDeleteConnection(h)
                        \/ adminEnableUpstream(h) \/ adminDisableUpstream(h)
                        \/ RevokeUpstream(h) \/ RemoveUpstream(h) \/ DisableUpstream(h)
                        \/ \E b \in BOOLEAN :
                              \/ revokeRegistration(h, b) \/ removeSelfServiceRegistration(h, b)
                              \/ DeleteSecret(h, b) \/ EnableUpstream(h, b)
                              \/ markRegistrationEnabled(h, b) \/ persistDisabledStrict(h, b)
                 PROVE  RevocationInv'
      BY <1>3, ConnectionAssumption DEF HandlerNext
    <2>1. CASE RevokeUpstream(h)
      BY <2>1, StepRevoke, StepSwitch
    <2>2. CASE DisableUpstream(h)
      BY <2>2, StepSwitch
    <2> QED
      BY <2>1, <2>2, StepRequest, StepRemove, StepRegistration, StepDeleteSecret, StepSwitch
  <1>4. CASE Crash
    BY <1>4, StepCrash
  <1>5. ASSUME NEW b \in BOOLEAN, Reload(b) PROVE RevocationInv'
    BY <1>5, StepReload
  <1>6. CASE UNCHANGED connectionVars
    BY <1>6 DEF connectionVars, disk, promises, counters, RevocationInv, ConnectionTypeOK, DownOK, FirstFlow,
       Generations, SettledOK, Over, Behind
  <1> QED
    BY <1>1, <1>2, <1>3, <1>4, <1>5, <1>6 DEF ConnectionNext

(* RevocationHolds for any number of flows, handlers and restarts: once a  *)
(* revocation took effect, no callback, refresh, rebinding or restart that *)
(* was under way makes a grant from before it callable again, and none     *)
(* leaves it where a restart would find it.                                *)
THEOREM RevocationHoldsTheorem == ConnectionSpec => []RevocationHolds
  <1>1. RevocationInv => RevocationHolds
    BY DEF RevocationInv, Generations, SettledOK, RevocationHolds, RevokedNotCallable, RevokedNotReloadable, Callable,
       Over
  <1> QED
    BY <1>1, InitRevocation, NextRevocation, PTL DEF ConnectionSpec

-----------------------------------------------------------------------------
(* SelfService.  A request carries the template it read and the client it  *)
(* was given; SelfInv says they are the current ones while the version is. *)

(* What holds of a request under way, o standing for its record. *)
RequestWithin(o) ==
    /\ o.version \in Nat
    /\ o.scopes \subseteq o.template.allowed
    /\ templateMatchesConnection(o.template, o.url)
    /\ o.stage \in {"pending", "taken"} => o.resource = o.url.base
    /\ (o.stage \in {"dialled", "pending", "taken"} /\ o.template.client) => o.client # 0
    /\ self.template.there =>
          /\ o.version <= self.version
          /\ o.version = self.version =>
                /\ o.template = self.template
                /\ (o.stage \in {"dialled", "pending", "taken"} /\ o.template.client)
                      => o.client \notin replaced

LEMMA RequestWithinOK ==
    ASSUME NEW s \in Starts
    PROVE  StartOK(s) <=> (start[s].stage \in Active => RequestWithin(start[s]))
  BY DEF StartOK, RequestWithin

(* One request moves on; template, clients and edit stay as they are. *)
LEMMA StartStep ==
    ASSUME SelfInv, NEW s \in Starts, NEW o, start' = [start EXCEPT ![s] = o],
           "stage" \in DOMAIN o, o.stage \in Active => DOMAIN o = StartFields /\ RequestWithin(o),
           UNCHANGED <<tclient, edit, puts, replaced>>,
           DOMAIN self' = DOMAIN self, self'.template = self.template, self'.version = self.version,
           \A t \in self'.pending : \/ t # s /\ t \in self.pending
                                    \/ t = s /\ o.stage \in {"reserved", "dialled", "pending", "taken"}
    PROVE  SelfInv'
  <1>1. start' = [t \in Starts |-> IF t = s THEN o ELSE start[t]]
    BY DEF SelfInv, SelfShape
  <1>2. SelfShape'
    BY <1>1 DEF SelfInv, SelfShape
  <1>3. ReservationsLive'
    BY <1>1 DEF SelfInv, SelfShape, ReservationsLive
  <1>4. ClientsOK'
    BY DEF SelfInv, ClientsOK
  <1>5. ASSUME NEW t \in Starts PROVE StartOK(t)'
    <2>1. CASE t = s
      <3>1. start'[t] = o
        BY <1>1, <2>1
      <3> QED
        BY <3>1 DEF StartOK, RequestWithin
    <2>2. CASE t # s
      <3>1. start'[t] = start[t] /\ StartOK(t)
        BY <1>1, <2>2 DEF SelfInv
      <3> QED
        BY <3>1 DEF StartOK
    <2> QED
      BY <2>1, <2>2
  <1> QED
    BY <1>2, <1>3, <1>4, <1>5 DEF SelfInv

LEMMA StepFails ==
    ASSUME SelfInv, NEW s \in Starts, failConnection(s), UNCHANGED <<tclient, edit, puts, replaced>>
    PROVE  SelfInv'
  <1> DEFINE o == Ended(s)
  <1>1. "stage" \in DOMAIN o /\ o.stage = "ended"
    BY DEF SelfInv, SelfShape, Ended
  <1>2. start' = [start EXCEPT ![s] = o] /\ self' = [self EXCEPT !.pending = @ \ {s}]
    BY DEF failConnection, Release
  <1>3. /\ DOMAIN self' = DOMAIN self /\ self'.template = self.template /\ self'.version = self.version
        /\ self'.pending = self.pending \ {s}
    BY <1>2 DEF SelfInv, SelfShape
  <1> HIDE DEF o
  <1> QED
    BY <1>1, <1>2, <1>3, StartStep DEF Active

LEMMA StepAdvance ==
    ASSUME SelfInv, NEW s \in Starts, NEW stage, Advance(s, stage), UNCHANGED <<tclient, edit, puts, replaced>>,
           DOMAIN self' = DOMAIN self, self'.template = self.template, self'.version = self.version,
           start[s].stage \in Active,
           \A t \in self'.pending : \/ t # s /\ t \in self.pending
                                    \/ t = s /\ stage \in {"reserved", "dialled", "pending", "taken"},
           \/ stage = "taken" /\ start[s].stage = "pending"
           \/ stage \in {"reserved", "ended", "connected"}
    PROVE  SelfInv'
  <1> DEFINE o == [start[s] EXCEPT !.stage = stage]
  <1>1. /\ DOMAIN o = StartFields /\ o.stage = stage /\ o.version = start[s].version /\ o.template = start[s].template
        /\ o.scopes = start[s].scopes /\ o.url = start[s].url /\ o.client = start[s].client
        /\ o.resource = start[s].resource
    BY DEF SelfInv, SelfShape, StartFields
  <1>2. start' = [start EXCEPT ![s] = o]
    BY DEF Advance
  <1>3. RequestWithin(start[s])
    BY RequestWithinOK DEF SelfInv
  <1> HIDE DEF o
  <1>4. o.stage \in Active => RequestWithin(o)
    BY <1>1, <1>3 DEF RequestWithin, Active
  <1>5. "stage" \in DOMAIN o
    BY <1>1 DEF StartFields
  <1> QED
    BY <1>1, <1>2, <1>4, <1>5, StartStep

LEMMA StepRead ==
    ASSUME SelfInv, NEW s \in Starts, NEW asked, NEW c,
           ReadTemplate(s, asked) \/ ReadForReauth(s, c, asked)
    PROVE  SelfInv'
  <1>1. PICK o : /\ DOMAIN o = StartFields /\ o.stage = "read" /\ o.template = self.template
                 /\ o.version = self.version /\ o.scopes = requestedTemplateScopes(self.template, asked)
                 /\ templateMatchesConnection(self.template, o.url)
                 /\ start' = [start EXCEPT ![s] = o]
    <2>1. CASE ReadTemplate(s, asked)
      <3> DEFINE o == [stage |-> "read", reauth |-> s, template |-> self.template, version |-> self.version,
                       scopes |-> requestedTemplateScopes(self.template, asked),
                       url |-> scopedTemplateURL(self.template, asked), seen |-> 0, client |-> 0,
                       at |-> "", resource |-> ""]
      <3>1. start' = [start EXCEPT ![s] = o]
        BY <2>1 DEF ReadTemplate
      <3>2. templateMatchesConnection(self.template, o.url)
        BY <2>1 DEF ReadTemplate, templateMatchesConnection, scopedTemplateURL
      <3> QED
        BY <3>1, <3>2 DEF StartFields
    <2>2. CASE ReadForReauth(s, c, asked)
      <3> DEFINE o == [stage |-> "read", reauth |-> c, template |-> self.template, version |-> self.version,
                       scopes |-> requestedTemplateScopes(self.template, asked),
                       url |-> start[c].url, seen |-> 0, client |-> 0, at |-> "", resource |-> ""]
      <3>1. start' = [start EXCEPT ![s] = o] /\ templateMatchesConnection(self.template, o.url)
        BY <2>2 DEF ReadForReauth
      <3> QED
        BY <3>1 DEF StartFields
    <2> QED
      BY <2>1, <2>2
  <1>2. /\ UNCHANGED <<self, tclient, edit, puts, replaced>> /\ start[s].stage = "none"
        /\ ScopesAllowed(self.template, asked)
    BY DEF ReadTemplate, ReadForReauth
  <1>3. o.scopes \subseteq self.template.allowed
    BY <1>1, <1>2 DEF ScopesAllowed
  <1>4. RequestWithin(o)
    BY <1>1, <1>3 DEF RequestWithin, SelfInv, SelfShape
  <1>5. \A t \in self'.pending : t # s /\ t \in self.pending
    BY <1>2 DEF SelfInv, ReservationsLive
  <1>6. "stage" \in DOMAIN o
    BY <1>1 DEF StartFields
  <1> QED
    BY <1>1, <1>2, <1>4, <1>5, <1>6, StartStep

LEMMA StepCounts ==
    ASSUME SelfInv, NEW s \in Starts, selfServiceCounts(s)
    PROVE  SelfInv'
  <1> DEFINE n == Cardinality(conns)
             o == [start[s] EXCEPT !.stage = "counted", !.seen = n]
  <1>1. UNCHANGED <<self, tclient, edit, puts, replaced>> /\ start[s].stage = "read"
        /\ start' = [start EXCEPT ![s].stage = "counted", ![s].seen = n]
    BY DEF selfServiceCounts
  <1> HIDE DEF n
  <1>2. start' = [start EXCEPT ![s] = o]
    BY <1>1 DEF SelfInv, SelfShape
  <1>3. DOMAIN start[s] = StartFields /\ RequestWithin(start[s])
    BY <1>1, RequestWithinOK DEF SelfInv, SelfShape, Active
  <1>4. /\ DOMAIN o = StartFields /\ o.stage = "counted" /\ o.version = start[s].version
        /\ o.template = start[s].template /\ o.scopes = start[s].scopes /\ o.url = start[s].url
    BY <1>3 DEF StartFields
  <1> HIDE DEF o
  <1>5. RequestWithin(o)
    BY <1>1, <1>3, <1>4 DEF RequestWithin
  <1>6. \A t \in self'.pending : t # s /\ t \in self.pending
    BY <1>1 DEF SelfInv, ReservationsLive
  <1>7. "stage" \in DOMAIN o
    BY <1>4 DEF StartFields
  <1> QED
    BY <1>1, <1>2, <1>4, <1>5, <1>6, <1>7, StartStep

LEMMA StepReserve ==
    ASSUME SelfInv, NEW s \in Starts, NEW lapsed, NEW newHour, reserveConnectionStart(s, lapsed, newHour)
    PROVE  SelfInv'
  <1>1. UNCHANGED <<tclient, edit, puts, replaced>> /\ start[s].stage = "counted"
    BY DEF reserveConnectionStart
  <1>2. DOMAIN self = {"template", "version", "pending", "rate"} /\ s \notin self.pending
    BY <1>1 DEF SelfInv, SelfShape, ReservationsLive
  <1>3. PICK pending, rate : /\ self' = [self EXCEPT !.pending = pending, !.rate = rate]
                             /\ \/ pending \subseteq self.pending \cup {s} /\ Advance(s, "reserved")
                                \/ pending \subseteq self.pending /\ Advance(s, "ended")
    <2> DEFINE p == self.pending \ lapsed
               r == IF newHour THEN 0 ELSE self.rate
    <2>1. IF Admitted(s, p, r)
          THEN Advance(s, "reserved") /\ self' = [self EXCEPT !.pending = p \cup {s}, !.rate = r + 1]
          ELSE Advance(s, "ended") /\ self' = [self EXCEPT !.pending = p, !.rate = r]
      BY DEF reserveConnectionStart
    <2>2. p \subseteq self.pending
      OBVIOUS
    <2> HIDE DEF p, r
    <2> DEFINE next == r + 1
               more == p \cup {s}
    <2>3. more \subseteq self.pending \cup {s}
      BY <2>2
    <2>4. \/ Advance(s, "reserved") /\ self' = [self EXCEPT !.pending = more, !.rate = next]
          \/ Advance(s, "ended") /\ self' = [self EXCEPT !.pending = p, !.rate = r]
      BY <2>1
    <2> HIDE DEF next, more
    <2> QED
      BY <2>2, <2>3, <2>4
  <1>4. /\ DOMAIN self' = DOMAIN self /\ self'.template = self.template /\ self'.version = self.version
        /\ self'.pending = pending
    BY <1>2, <1>3
  <1>5. CASE pending \subseteq self.pending \cup {s} /\ Advance(s, "reserved")
    BY <1>1, <1>4, <1>5, StepAdvance DEF Active
  <1>6. CASE pending \subseteq self.pending /\ Advance(s, "ended")
    BY <1>1, <1>2, <1>4, <1>6, StepAdvance DEF Active
  <1> QED
    BY <1>3, <1>5, <1>6

(* A client read from the store is the latest, so no edit has replaced it. *)
LEMMA StepProbe ==
    ASSUME SelfInv, NEW s \in Starts, NEW answer, probeUpstreamOAuth(s, answer)
    PROVE  SelfInv'
  <1>1. UNCHANGED <<tclient, edit, puts, replaced>> /\ start[s].stage = "reserved"
    BY DEF probeUpstreamOAuth
  <1>2. CASE failConnection(s)
    BY <1>1, <1>2, StepFails
  <1>3. CASE ~failConnection(s)
    <2> DEFINE c == templateClient(s)
               a == Probe(answer)
               o == [start[s] EXCEPT !.stage = "dialled", !.client = c, !.at = a]
    <2>1. /\ start' = [start EXCEPT ![s].stage = "dialled", ![s].client = c, ![s].at = a]
          /\ UNCHANGED self /\ (start[s].template.client => c # 0)
      BY <1>3 DEF probeUpstreamOAuth
    <2>2. start[s].template.client => c = tclient
      BY DEF templateClient
    <2> HIDE DEF c, a
    <2>3. start' = [start EXCEPT ![s] = o]
      BY <2>1 DEF SelfInv, SelfShape
    <2>4. DOMAIN start[s] = StartFields /\ RequestWithin(start[s])
      BY <1>1, RequestWithinOK DEF SelfInv, SelfShape, Active
    <2>5. /\ DOMAIN o = StartFields /\ o.stage = "dialled" /\ o.version = start[s].version /\ o.client = c
          /\ o.template = start[s].template /\ o.scopes = start[s].scopes /\ o.url = start[s].url
      BY <2>4 DEF StartFields
    <2> HIDE DEF o
    <2>6. RequestWithin(o)
      BY <1>1, <2>1, <2>2, <2>4, <2>5 DEF RequestWithin, SelfInv, ClientsOK
    <2>7. "stage" \in DOMAIN o
      BY <2>5 DEF StartFields
    <2> QED
      BY <1>1, <2>1, <2>3, <2>5, <2>6, <2>7, StartStep
  <1> QED
    BY <1>2, <1>3

LEMMA StepStartOAuth ==
    ASSUME SelfInv, NEW s \in Starts, NEW answer, startUpstreamOAuth(s, answer)
    PROVE  SelfInv'
  <1>1. UNCHANGED <<tclient, edit, puts, replaced>> /\ start[s].stage = "dialled"
    BY DEF startUpstreamOAuth
  <1>2. CASE failConnection(s)
    BY <1>1, <1>2, StepFails
  <1>3. CASE ~failConnection(s)
    <2> DEFINE server == DiscoverAS(answer, start[s].at)
               c == ClientFor(s, server)
               r == IF server.resource = "" THEN start[s].url.base ELSE server.resource
               o == [start[s] EXCEPT !.stage = "pending", !.client = c, !.at = "", !.resource = r]
    <2>1. /\ start' = [start EXCEPT ![s].stage = "pending", ![s].client = c, ![s].at = "", ![s].resource = r]
          /\ UNCHANGED self /\ MayStart(s, answer)
      BY <1>3 DEF startUpstreamOAuth
    <2>2. r = start[s].url.base
      BY <2>1 DEF MayStart, resourceAllowedForUpstream, sameOrigin
    <2> HIDE DEF server
    <2>3. start[s].client # 0 => c = start[s].client
      BY DEF ClientFor
    <2> HIDE DEF c, r
    <2>4. start' = [start EXCEPT ![s] = o]
      BY <2>1 DEF SelfInv, SelfShape
    <2>5. DOMAIN start[s] = StartFields /\ RequestWithin(start[s])
      BY <1>1, RequestWithinOK DEF SelfInv, SelfShape, Active
    <2>6. /\ DOMAIN o = StartFields /\ o.stage = "pending" /\ o.version = start[s].version /\ o.client = c
          /\ o.template = start[s].template /\ o.scopes = start[s].scopes /\ o.url = start[s].url
          /\ o.resource = r
      BY <2>5 DEF StartFields
    <2> HIDE DEF o
    <2>7. RequestWithin(o)
      BY <1>1, <2>2, <2>3, <2>5, <2>6 DEF RequestWithin
    <2>8. "stage" \in DOMAIN o
      BY <2>6 DEF StartFields
    <2> QED
      BY <1>1, <2>1, <2>4, <2>6, <2>7, <2>8, StartStep
  <1> QED
    BY <1>2, <1>3

LEMMA StepCallback ==
    ASSUME SelfInv, NEW s \in Starts, NEW ok, TakeStart(s, ok) \/ CommitStart(s, ok) \/ ExpireStart(s)
    PROVE  SelfInv'
  <1>1. UNCHANGED <<tclient, edit, puts, replaced>> /\ start[s].stage \in Active
    BY DEF TakeStart, CommitStart, ExpireStart, Active
  <1>2. CASE failConnection(s)
    BY <1>1, <1>2, StepFails
  <1>3. CASE TakeStart(s, ok) /\ ~failConnection(s)
    <2>1. Advance(s, "taken") /\ UNCHANGED self /\ start[s].stage = "pending"
      BY <1>3 DEF TakeStart
    <2> QED
      BY <1>1, <2>1, StepAdvance
  <1>4. CASE CommitStart(s, ok) /\ ~failConnection(s)
    <2>1. Advance(s, "connected") /\ self' = [self EXCEPT !.pending = @ \ {s}]
      BY <1>4 DEF CommitStart, Release
    <2>2. /\ DOMAIN self' = DOMAIN self /\ self'.template = self.template /\ self'.version = self.version
          /\ self'.pending = self.pending \ {s}
      BY <2>1 DEF SelfInv, SelfShape
    <2> QED
      BY <1>1, <2>1, <2>2, StepAdvance
  <1> QED
    BY <1>2, <1>3, <1>4 DEF ExpireStart

LEMMA StepForget ==
    ASSUME SelfInv, NEW c, deleteSelfServiceClientIfUnused(c)
    PROVE  SelfInv'
  BY DEF deleteSelfServiceClientIfUnused, SelfInv, SelfShape, ReservationsLive, ClientsOK, StartOK

(* Only the operator's edit and the stored client change. *)
LEMMA EditStep ==
    ASSUME SelfInv, UNCHANGED <<self, start, replaced>>, ClientsOK', puts' \in Nat
    PROVE  SelfInv'
  BY DEF SelfInv, SelfShape, ReservationsLive, StartOK

(* The client named by this edit is new, so no replaced one comes back. *)
LEMMA StepStore ==
    ASSUME SelfInv, NEW draft, NEW client \in {"keep", "set", "clear"}, StoreTemplateClient(draft, client)
    PROVE  SelfInv'
  <1>1. /\ UNCHANGED <<self, start, replaced>> /\ puts' = puts + 1 /\ self.template.there
        /\ edit.stage = "none"
        /\ tclient' = IF client = "set" THEN puts' ELSE IF client = "clear" THEN 0 ELSE tclient
    BY DEF StoreTemplateClient, BeginEdit
  <1>2. PICK t : edit' = [stage |-> "stored", previous |-> tclient, client |-> client, template |-> t]
    BY DEF StoreTemplateClient
  <1>3. /\ DOMAIN edit' = {"stage", "previous", "client", "template"}
        /\ edit'.previous = tclient /\ edit'.client = client
    BY <1>2
  <1>4. puts \in Nat /\ puts' \in Nat /\ puts' > puts
    BY <1>1 DEF SelfInv, SelfShape
  <1>5. /\ tclient \in 0 .. puts' /\ replaced' \subseteq 0 .. puts' /\ puts' \notin replaced
        /\ tclient # puts' /\ tclient' \in 0 .. puts'
    BY <1>1, <1>4 DEF SelfInv, ClientsOK
  <1>6. ClientsOK'
    BY <1>1, <1>3, <1>5 DEF SelfInv, ClientsOK
  <1> QED
    BY <1>1, <1>4, <1>6, EditStep

LEMMA StepRollback ==
    ASSUME SelfInv, NEW ok, RollbackTemplateClient(ok)
    PROVE  SelfInv'
  <1>1. /\ UNCHANGED <<self, start, puts, replaced>> /\ edit.stage = "failed" /\ edit' = [stage |-> "none"]
        /\ tclient' = IF ok THEN edit.previous ELSE tclient
    BY DEF RollbackTemplateClient, NoEdit
  <1>2. ClientsOK'
    BY <1>1 DEF SelfInv, ClientsOK
  <1> QED
    BY <1>1, <1>2, EditStep DEF SelfInv, SelfShape

(* A template that takes effect has a version of its own: the requests     *)
(* that read an earlier one are left behind.                               *)
LEMMA TemplateStep ==
    ASSUME SelfInv, UNCHANGED <<start, puts>>, ClientsOK', DOMAIN self' = DOMAIN self,
           self'.pending = self.pending, self'.version \in Nat,
           self'.template.there => self.template.there /\ self'.version = self.version + 1
    PROVE  SelfInv'
  <1>1. SelfShape' /\ ReservationsLive'
    BY DEF SelfInv, SelfShape, ReservationsLive
  <1>2. ASSUME NEW s \in Starts, start[s].stage \in Active PROVE StartOK(s)'
    <2>1. RequestWithin(start[s]) /\ self.version \in Nat
      BY <1>2, RequestWithinOK DEF SelfInv, SelfShape
    <2>2. self'.template.there => start[s].version < self'.version /\ start[s].version # self'.version
      BY <2>1 DEF RequestWithin
    <2> QED
      BY <1>2, <2>1, <2>2 DEF StartOK, RequestWithin
  <1>3. ASSUME NEW s \in Starts PROVE StartOK(s)'
    BY <1>2 DEF StartOK
  <1> QED
    BY <1>1, <1>3 DEF SelfInv

LEMMA StepWrite ==
    ASSUME SelfInv, NEW ok, WriteTemplate(ok)
    PROVE  SelfInv'
  <1>1. /\ edit.stage = "stored" /\ UNCHANGED <<tclient, start, puts>>
        /\ DOMAIN edit = {"stage", "previous", "client", "template"} /\ self.template.there
    BY DEF WriteTemplate, SelfInv, ClientsOK
  <1>2. CASE ok
    <2>1. /\ self' = [self EXCEPT !.template = edit.template, !.version = Bumped]
          /\ edit' = [edit EXCEPT !.stage = "written"]
          /\ replaced' = IF edit.client = "keep" THEN replaced ELSE replaced \cup {edit.previous}
      BY <1>2 DEF WriteTemplate
    <2>2. edit'.stage = "written" /\ "stage" \in DOMAIN edit'
      BY <1>1, <2>1
    <2>3. ClientsOK'
      BY <1>1, <2>1, <2>2 DEF SelfInv, SelfShape, ClientsOK
    <2>4. /\ DOMAIN self' = DOMAIN self /\ self'.pending = self.pending
          /\ self'.version = Bumped
      BY <2>1 DEF SelfInv, SelfShape
    <2>5. Bumped = self.version + 1 /\ Bumped \in Nat
      BY DEF Bumped, SelfInv, SelfShape
    <2> QED
      BY <1>1, <2>3, <2>4, <2>5, TemplateStep
  <1>3. CASE ~ok
    <2>1. UNCHANGED <<self, replaced>> /\ edit' = [edit EXCEPT !.stage = "failed"]
      BY <1>3 DEF WriteTemplate
    <2>2. /\ DOMAIN edit' = DOMAIN edit /\ edit'.stage = "failed" /\ edit'.previous = edit.previous
          /\ edit'.client = edit.client
      BY <1>1, <2>1
    <2>3. ClientsOK'
      BY <1>1, <2>1, <2>2 DEF SelfInv, ClientsOK
    <2> QED
      BY <1>1, <2>1, <2>3, EditStep DEF SelfInv, SelfShape
  <1> QED
    BY <1>2, <1>3

LEMMA StepRemoveTemplate ==
    ASSUME SelfInv, RemoveTemplate
    PROVE  SelfInv'
  <1>1. /\ UNCHANGED <<tclient, start, replaced>> /\ puts' = puts + 1
        /\ self' = [self EXCEPT !.template = [there |-> FALSE], !.version = 0]
        /\ edit' = [stage |-> "written", client |-> "clear", previous |-> tclient]
    BY DEF RemoveTemplate, BeginEdit, NoTemplate
  <1>2. /\ DOMAIN self' = {"template", "version", "pending", "rate"} /\ self'.pending = self.pending
        /\ self'.version = 0 /\ self'.template = [there |-> FALSE]
    BY <1>1 DEF SelfInv, SelfShape
  <1>3. ~self'.template.there
    BY <1>2
  <1>4. puts \in Nat /\ puts' \in Nat /\ puts' > puts
    BY <1>1 DEF SelfInv, SelfShape
  <1>5. SelfShape' /\ ReservationsLive'
    BY <1>1, <1>2, <1>4 DEF SelfInv, SelfShape, ReservationsLive
  <1>6. ClientsOK'
    BY <1>1, <1>4 DEF SelfInv, ClientsOK
  <1>7. ASSUME NEW s \in Starts PROVE StartOK(s)'
    BY <1>1, <1>3 DEF SelfInv, StartOK
  <1> QED
    BY <1>5, <1>6, <1>7 DEF SelfInv

(* A record that is over keeps its other fields. *)
LEMMA EndedOver ==
    ASSUME SelfInv, NEW s \in Starts
    PROVE  "stage" \in DOMAIN Ended(s) /\ Ended(s).stage = "ended"
  BY DEF SelfInv, SelfShape, Ended

(* Requests are ended, and the reservations of the ended ones with them. *)
LEMMA EndStep ==
    ASSUME SelfInv, NEW over \in SUBSET Starts, UNCHANGED replaced, ClientsOK',
           start' = [s \in Starts |-> IF s \in over THEN Ended(s) ELSE start[s]],
           DOMAIN self' = DOMAIN self, self'.version \in Nat, self'.pending \subseteq self.pending \ over,
           puts' \in Nat,
           \/ self'.template = self.template /\ self'.version = self.version
           \/ \A s \in Starts \ over : start[s].stage \notin Active
    PROVE  SelfInv'
  <1>1. \A s \in Starts : \/ s \notin over /\ start'[s] = start[s]
                          \/ /\ s \in over /\ "stage" \in DOMAIN start'[s] /\ start'[s].stage = "ended"
                             /\ start'[s].stage \notin Active
    BY EndedOver DEF Active
  <1>2. SelfShape'
    BY <1>1 DEF SelfInv, SelfShape
  <1>3. ReservationsLive'
    BY <1>1 DEF SelfInv, SelfShape, ReservationsLive
  <1>4. ASSUME NEW s \in Starts PROVE StartOK(s)'
    BY <1>1 DEF SelfInv, StartOK
  <1> QED
    BY <1>2, <1>3, <1>4 DEF SelfInv

LEMMA StepFinish ==
    ASSUME SelfInv, NEW ok, FinishEdit(ok)
    PROVE  SelfInv'
  <1> DEFINE over == InByState
  <1>1. /\ UNCHANGED <<puts, replaced>> /\ edit' = [stage |-> "none"]
        /\ start' = [s \in Starts |-> IF s \in over THEN Ended(s) ELSE start[s]]
        /\ self' = [self EXCEPT !.pending = @ \ over]
        /\ tclient' \in {0, tclient}
    BY DEF FinishEdit, CancelStarts, NoEdit
  <1>2. over \in SUBSET Starts
    BY DEF InByState
  <1> HIDE DEF over
  <1>3. /\ DOMAIN self' = DOMAIN self /\ self'.pending = self.pending \ over
        /\ self'.template = self.template /\ self'.version = self.version
    BY <1>1 DEF SelfInv, SelfShape
  <1>4. ClientsOK'
    BY <1>1 DEF SelfInv, SelfShape, ClientsOK
  <1> QED
    BY <1>1, <1>2, <1>3, <1>4, EndStep DEF SelfInv, SelfShape

LEMMA StepLoad ==
    ASSUME SelfInv, loadConnectionTemplates
    PROVE  SelfInv'
  <1> DEFINE over == {s \in Starts : start[s].stage \notin {"none", "connected"}}
             ver == IF tfile.there THEN 1 ELSE 0
  <1>1. /\ UNCHANGED <<tclient, puts, replaced>> /\ edit' = [stage |-> "none"]
        /\ start' = [s \in Starts |-> IF s \in over THEN Ended(s) ELSE start[s]]
        /\ self' = [template |-> tfile, version |-> ver, pending |-> {}, rate |-> 0]
    BY DEF loadConnectionTemplates, NoEdit
  <1>2. ver \in Nat
    OBVIOUS
  <1> HIDE DEF ver
  <1>3. /\ DOMAIN self' = {"template", "version", "pending", "rate"} /\ self'.pending = {}
        /\ self'.version = ver
    BY <1>1
  <1>4. ClientsOK'
    BY <1>1 DEF SelfInv, SelfShape, ClientsOK
  <1>5. over \in SUBSET Starts /\ \A s \in Starts \ over : start[s].stage \notin Active
    BY DEF Active
  <1> HIDE DEF over
  <1> QED
    BY <1>1, <1>2, <1>3, <1>4, <1>5, EndStep DEF SelfInv, SelfShape

LEMMA InitSelf ==
    ASSUME NEW draft, SelfInit(draft, FALSE)
    PROVE  SelfInv
  <1>1. /\ self = [template |-> tfile, version |-> 1, pending |-> {}, rate |-> 0]
        /\ tclient = 0 /\ edit = [stage |-> "none"] /\ replaced = {} /\ puts = 0
        /\ start = [s \in Starts |-> [stage |-> "none"]]
    BY DEF SelfInit, NoEdit
  <1>2. /\ DOMAIN self = {"template", "version", "pending", "rate"} /\ self.version = 1 /\ self.pending = {}
    BY <1>1
  <1>3. SelfShape /\ ReservationsLive
    BY <1>1, <1>2 DEF SelfShape, ReservationsLive, Active
  <1>4. ClientsOK
    BY <1>1 DEF ClientsOK
  <1>5. \A s \in Starts : StartOK(s)
    BY <1>1 DEF StartOK, Active
  <1> QED
    BY <1>3, <1>4, <1>5 DEF SelfInv

LEMMA NextSelf ==
    ASSUME SelfInv, [SelfNext]_selfVars
    PROVE  SelfInv'
  <1>1. CASE EditNext
    BY <1>1, StepStore, StepRemoveTemplate, StepWrite, StepRollback, StepFinish DEF EditNext
  <1>2. CASE StartNext
    BY <1>2, StepRead, StepCounts, StepReserve, StepProbe, StepStartOAuth, StepCallback, StepForget
       DEF StartNext
  <1>3. CASE loadConnectionTemplates
    BY <1>3, StepLoad
  <1>4. CASE UNCHANGED selfVars
    BY <1>4 DEF selfVars, SelfInv, SelfShape, ReservationsLive, ClientsOK, StartOK
  <1> QED
    BY <1>1, <1>2, <1>3, <1>4 DEF SelfNext

(* A reservation never outlives its request (ReservationsLive), for any    *)
(* number of requests and edits: whatever reserveConnectionStart adds is   *)
(* taken out by the failure, cancellation, callback or restart that ends   *)
(* the request.                                                            *)
THEOREM ReservationsLiveTheorem == SelfSpec => []ReservationsLive
  <1>1. ASSUME \E draft \in Drafts : normalizeConnectionTemplate(draft) /\ SelfInit(draft, FALSE)
        PROVE  SelfInv
    BY <1>1, InitSelf
  <1>2. SelfInv /\ [SelfNext]_selfVars => SelfInv'
    BY NextSelf
  <1>3. SelfInv => ReservationsLive
    BY DEF SelfInv
  <1> QED
    BY <1>1, <1>2, <1>3, PTL DEF SelfSpec

(* Among the steps of a request only commitSelfServiceOAuth connects it. *)
LEMMA OnlyCommitConnects ==
    ASSUME SelfInv, NEW s \in Starts, start[s].stage = "taken", start'[s].stage = "connected",
           [SelfNext]_selfVars
    PROVE  SameVersion(s)
  <1>1. ASSUME NEW t \in Starts, failConnection(t) PROVE FALSE
    <2>1. start'[s] = IF t = s THEN Ended(s) ELSE start[s]
      BY <1>1 DEF failConnection, SelfInv, SelfShape
    <2> QED
      BY <2>1, EndedOver
  <1>2. ASSUME NEW t \in Starts, NEW stage, Advance(t, stage), start[t].stage # "taken" PROVE FALSE
    BY <1>2 DEF Advance, SelfInv, SelfShape
  <1>3. CASE EditNext
    <2>1. \/ UNCHANGED start
          \/ start' = [t \in Starts |-> IF t \in InByState THEN Ended(t) ELSE start[t]]
      BY <1>3 DEF EditNext, StoreTemplateClient, RemoveTemplate, WriteTemplate, RollbackTemplateClient,
         FinishEdit, CancelStarts
    <2> QED
      BY <2>1, EndedOver DEF InByState
  <1>4. CASE loadConnectionTemplates
    BY <1>4, EndedOver DEF loadConnectionTemplates
  <1>5. CASE UNCHANGED selfVars
    BY <1>5 DEF selfVars
  <1>6. ASSUME NEW t \in Starts, NEW asked, NEW c, ReadTemplate(t, asked) \/ ReadForReauth(t, c, asked)
        PROVE  FALSE
    <2>1. PICK o : start' = [start EXCEPT ![t] = o] /\ start[t].stage = "none"
      BY <1>6 DEF ReadTemplate, ReadForReauth
    <2> QED
      BY <2>1 DEF SelfInv, SelfShape
  <1>7. ASSUME NEW t \in Starts, selfServiceCounts(t) PROVE FALSE
    <2>1. start'[s] = start[s]
      BY <1>7 DEF selfServiceCounts, SelfInv, SelfShape
    <2> QED
      BY <2>1
  <1>8. ASSUME NEW t \in Starts, NEW lapsed, NEW newHour, reserveConnectionStart(t, lapsed, newHour)
        PROVE  FALSE
    BY <1>2, <1>8 DEF reserveConnectionStart
  <1>9. ASSUME NEW t \in Starts, NEW answer, probeUpstreamOAuth(t, answer) \/ startUpstreamOAuth(t, answer)
        PROVE  FALSE
    <2>1. start[t].stage # "taken"
      BY <1>9 DEF probeUpstreamOAuth, startUpstreamOAuth
    <2>2. \A u \in Starts \ {t} : failConnection(t) \/ start'[u] = start[u]
      BY <1>9 DEF probeUpstreamOAuth, startUpstreamOAuth, SelfInv, SelfShape
    <2> QED
      BY <1>1, <2>1, <2>2
  <1>10. ASSUME NEW t \in Starts, NEW ok, TakeStart(t, ok) \/ CommitStart(t, ok) \/ ExpireStart(t)
         PROVE  SameVersion(s)
    <2>1. CASE t = s
      BY <1>1, <1>10, <2>1 DEF TakeStart, CommitStart, ExpireStart
    <2>2. CASE t # s
      <3>1. \/ failConnection(t)
            \/ \E stage : Advance(t, stage)
        BY <1>10 DEF TakeStart, CommitStart, ExpireStart
      <3>2. start'[s] = start[s]
        BY <1>1, <2>2, <3>1 DEF Advance, SelfInv, SelfShape
      <3> QED
        BY <3>2
    <2> QED
      BY <2>1, <2>2
  <1>11. ASSUME NEW t \in Starts, deleteSelfServiceClientIfUnused(t) PROVE FALSE
    BY <1>11 DEF deleteSelfServiceClientIfUnused
  <1>12. CASE StartNext
    BY <1>6, <1>7, <1>8, <1>9, <1>10, <1>11, <1>12 DEF StartNext
  <1> QED
    BY <1>3, <1>4, <1>5, <1>12 DEF SelfNext

(* A connection is made or reauthorized within the template as it is at    *)
(* that moment, and not with a client an edit has replaced                 *)
(* (CommitsWithinTemplate): commitSelfServiceOAuth compares versions, and  *)
(* no edit changes template or client without changing the version.        *)
THEOREM CommitsWithinTemplateTheorem == SelfSpec => CommitsWithinTemplate
  <1> DEFINE Within ==
        \A s \in Starts : start[s].stage = "taken" /\ start'[s].stage = "connected" =>
            /\ Published
            /\ start[s].scopes \subseteq self.template.allowed
            /\ templateMatchesConnection(self.template, start[s].url)
            /\ start[s].reauth = s => start[s].template.readOnly = self.template.readOnly
            /\ start[s].resource = start[s].url.base
            /\ self.template.client => start[s].client \notin replaced
  <1>1. ASSUME \E draft \in Drafts : normalizeConnectionTemplate(draft) /\ SelfInit(draft, FALSE)
        PROVE  SelfInv
    BY <1>1, InitSelf
  <1>2. SelfInv /\ [SelfNext]_selfVars => SelfInv'
    BY NextSelf
  <1>3. ASSUME SelfInv, [SelfNext]_selfVars PROVE [Within]_selfVars
    <2>1. ASSUME NEW s \in Starts, start[s].stage = "taken", start'[s].stage = "connected"
          PROVE  /\ Published
                 /\ start[s].scopes \subseteq self.template.allowed
                 /\ templateMatchesConnection(self.template, start[s].url)
                 /\ start[s].reauth = s => start[s].template.readOnly = self.template.readOnly
                 /\ start[s].resource = start[s].url.base
                 /\ self.template.client => start[s].client \notin replaced
      <3>1. Published /\ self.version = start[s].version /\ self.template.there
        BY <1>3, <2>1, OnlyCommitConnects DEF SameVersion, Published
      <3>2. RequestWithin(start[s])
        BY <1>3, <2>1, RequestWithinOK DEF SelfInv, Active
      <3> QED
        BY <2>1, <3>1, <3>2 DEF RequestWithin
    <2> QED
      BY <2>1
  <1> QED
    BY <1>1, <1>2, <1>3, PTL DEF SelfSpec, CommitsWithinTemplate
=============================================================================
