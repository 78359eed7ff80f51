---------------------------- MODULE TokenGrants ----------------------------
(***************************************************************************)
(* The built-in authorization server of internal/auth/authserver.go: how a *)
(* consent becomes a code, a code a pair of tokens and a refresh token its *)
(* successors; the denylist of revocation.go with its file; and the        *)
(* resource server's check of an access token (auth.go).                   *)
(*                                                                         *)
(* Tokens are signed and stateless, so a token is the number of the pair   *)
(* it was issued in and which of the two it is; its claims are the pair's  *)
(* record.  What a caller may send wrongly (verifier, client, redirect,    *)
(* resource) is one bit, does it match.  The table of registered clients   *)
(* is not part of this module.                                             *)
(***************************************************************************)
EXTENDS Integers, Sequences, FiniteSets

CONSTANTS
    Modes,          \* subset of BOOLEAN: federated sign-in or local consent
    Subjects,       \* who may sign in, or be the local principal
    MaxGrants,      \* bound on authorization requests
    Requests,       \* refresh requests in progress
    MaxPending,     \* the cap of s.pending (4096)
    PendingTTL,     \* 5 minutes, in ticks
    CodeTTL,        \* 60 seconds
    AccessTTL,      \* s.accessTTL
    RefreshTTL,     \* refreshTTL, 30 days
    Leeway,         \* ResourceServer.Leeway, 30 seconds
    Stalls,         \* may time pass between a refresh's parsing and its Consume?
    MaxPairs,       \* bound on token pairs issued
    MaxRevokes,     \* bound on revocation requests
    MaxRestarts,    \* bound on restarts
    MaxTime         \* bound on the clock

ASSUME TokenAssumption ==
    /\ Modes \subseteq BOOLEAN /\ Stalls \in BOOLEAN
    /\ MaxGrants \in Nat /\ MaxPending \in Nat
    /\ PendingTTL \in Nat /\ CodeTTL \in Nat
    /\ AccessTTL \in Nat /\ RefreshTTL \in Nat /\ Leeway \in Nat
    /\ MaxPairs \in Nat /\ MaxRevokes \in Nat /\ MaxRestarts \in Nat /\ MaxTime \in Nat

VARIABLES
    federated,  \* s.federation # nil
    subject,    \* s.Subject, the local principal
    grant,      \* the authCodes, in s.pending, in s.codes or in a handler's hands
    pairs,      \* the token pairs issued so far
    ids,        \* RevocationList.ids
    stored,     \* the ids in oauth-revocations.json
    req,        \* each refresh request's progress
    now,
    acked,      \* the tokens whose revocation was acknowledged
    disabled,   \* when the provider disabled each account; -1: not yet
    revokes, restarts

list == <<ids, stored>>
ghosts == <<acked, disabled, revokes, restarts>>
vars == <<federated, subject, grant, pairs, list, req, now, ghosts>>

Grants == 1 .. MaxGrants

(* "taken": out of s.pending and approved, its code not stored yet.        *)
(* "redeemed": its code was accepted, its tokens are not issued yet.       *)
authCode == [stage : {"new", "pending", "taken", "code", "redeemed", "ended"},
             expiry : Nat, subject : Subjects \cup {""}]

(* root: the authorization request it descends from.  from: the pair whose *)
(* refresh token it was traded for; 0: a code.  under: the local principal *)
(* when it was issued.                                                     *)
Pair == [subject : Subjects \cup {""}, at : Nat, root : Grants, from : Nat,
         under : Subjects]

Access(i) == <<"access", i>>
Refresh(i) == <<"refresh", i>>
Tokens == {"access", "refresh"} \X (1 .. MaxPairs)

Expiry(t) == pairs[t[2]].at + (IF t[1] = "access" THEN AccessTTL ELSE RefreshTTL)

Progress == [stage : {"idle", "parsed", "consumed"}, pair : Nat]
Idle == [stage |-> "idle", pair |-> 0]

Init ==
    /\ federated \in Modes /\ subject \in Subjects
    /\ grant = [g \in Grants |-> [stage |-> "new", expiry |-> 0, subject |-> ""]]
    /\ pairs = <<>> /\ ids = {} /\ stored = {}
    /\ req = [q \in Requests |-> Idle]
    /\ now = 0 /\ acked = {}
    /\ disabled = [s \in Subjects |-> -1] /\ revokes = 0 /\ restarts = 0

-----------------------------------------------------------------------------
(* From the authorization request to the code *)

Settle(g, stage) == grant' = [grant EXCEPT ![g].stage = stage]

Pending(g) == grant[g].stage = "pending" /\ now < grant[g].expiry

(* storePending, behind authorize's checks of its parameters: expired      *)
(* requests make room, and the local principal is stamped.                 *)
storePending(g) ==
    /\ grant[g].stage = "new" /\ \A h \in Grants : h < g => grant[h].stage # "new"
    /\ Cardinality({h \in Grants : Pending(h)}) < MaxPending
    /\ grant' = [grant EXCEPT ![g] =
                    [stage |-> "pending", expiry |-> now + PendingTTL,
                     subject |-> IF federated THEN "" ELSE subject]]
    /\ UNCHANGED <<federated, subject, pairs, list, req, now, ghosts>>

(* localConsent, operatorConsent and the first half of ssoCallback: the    *)
(* request is used up by any decision.                                     *)
Decide(g, approved) ==
    /\ Pending(g)
    /\ Settle(g, IF approved THEN "taken" ELSE "ended")
    /\ UNCHANGED <<federated, subject, pairs, list, req, now, ghosts>>

Coded(g, who) ==
    grant' = [grant EXCEPT ![g] = [stage |-> "code", expiry |-> now + CodeTTL, subject |-> who]]

(* The second critical section of the local decisions. *)
localConsent(g) ==
    /\ ~federated /\ grant[g].stage = "taken"
    /\ Coded(g, grant[g].subject)
    /\ UNCHANGED <<federated, subject, pairs, list, req, now, ghosts>>

(* ssoCallback after the exchange with the provider: it vouches for an     *)
(* account that is not disabled, or the exchange fails.                    *)
ssoCallback(g, who) ==
    /\ federated /\ grant[g].stage = "taken"
    /\ \/ disabled[who] = -1 /\ Coded(g, who)
       \/ Settle(g, "ended")
    /\ UNCHANGED <<federated, subject, pairs, list, req, now, ghosts>>

(* grantCode: the code is deleted whether or not the request is good. *)
grantCode(g, matches) ==
    /\ grant[g].stage = "code"
    /\ Settle(g, IF now <= grant[g].expiry /\ matches /\ grant[g].subject # ""
                 THEN "redeemed" ELSE "ended")
    /\ UNCHANGED <<federated, subject, pairs, list, req, now, ghosts>>

(* issueTokens, or the failure of the signer. *)
issueTokens(who, root, from, ok) ==
    /\ Len(pairs) < MaxPairs
    /\ pairs' = IF ok THEN Append(pairs, [subject |-> who, at |-> now, root |-> root,
                                          from |-> from, under |-> subject])
                ELSE pairs

(* A mutant: a code stays in s.codes after its use. *)
IssueCodeKept(g, ok) ==
    /\ grant[g].stage = "redeemed"
    /\ issueTokens(grant[g].subject, g, 0, ok)
    /\ Settle(g, "code")
    /\ UNCHANGED <<federated, subject, list, req, now, ghosts>>

IssueForCode(g, ok) ==
    /\ grant[g].stage = "redeemed"
    /\ issueTokens(grant[g].subject, g, 0, ok)
    /\ Settle(g, "ended")
    /\ UNCHANGED <<federated, subject, list, req, now, ghosts>>

-----------------------------------------------------------------------------
(* The denylist *)

(* pruneLocked: an entry is dropped when its token expires.  IsRevoked     *)
(* drops one entry the same way; an expired entry is never looked at       *)
(* again, so that is not a change of its own.                              *)
Live(tokens) == {t \in tokens : now < Expiry(t)}

(* A mutant: the denylist is not saved. *)
NotPersisted(entries, outcome) == ids' = entries /\ UNCHANGED stored

(* persistLocked after the entry was added in memory: written; failed;     *)
(* renamed into place but reported as failed.                              *)
Outcomes == {"ok", "failed", "unsynced"}
persistLocked(entries, outcome) ==
    /\ ids' = entries
    /\ stored' = IF outcome = "failed" THEN stored ELSE entries

IsRevoked(t) == t \in Live(ids)

(* A mutant: the token's subject is not compared with the principal. *)
MayRefreshAny(i) == now < Expiry(Refresh(i)) /\ ~IsRevoked(Refresh(i))

(* parseRefreshGrant and the checks of grantRefresh before Consume. *)
MayRefresh(i) ==
    /\ now < Expiry(Refresh(i)) /\ ~IsRevoked(Refresh(i))
    /\ ~federated => pairs[i].subject = subject

grantRefresh(q, i) ==
    /\ req[q] = Idle /\ i \in DOMAIN pairs /\ MayRefresh(i)
    /\ req' = [req EXCEPT ![q] = [stage |-> "parsed", pair |-> i]]
    /\ UNCHANGED <<federated, subject, grant, pairs, list, now, ghosts>>

(* A mutant: what Consume finds consumed already is consumed again. *)
ConsumeAnyway(q, outcome) ==
    LET t == Refresh(req[q].pair) IN
    /\ req[q].stage = "parsed"
    /\ persistLocked(Live(ids) \cup {t}, outcome)
    /\ req' = [req EXCEPT ![q] = IF outcome = "ok" THEN [@ EXCEPT !.stage = "consumed"] ELSE Idle]
    /\ UNCHANGED <<federated, subject, grant, pairs, now, ghosts>>

(* Consume: a second use is refused; a failed save burns the token for     *)
(* this process only.                                                      *)
Consume(q, outcome) ==
    LET t == Refresh(req[q].pair) IN
    /\ req[q].stage = "parsed"
    /\ IF t \in Live(ids)
       THEN ids' = Live(ids) /\ req' = [req EXCEPT ![q] = Idle] /\ UNCHANGED stored
       ELSE /\ persistLocked(Live(ids) \cup {t}, outcome)
            /\ req' = [req EXCEPT ![q] = IF outcome = "ok" THEN [@ EXCEPT !.stage = "consumed"]
                                         ELSE Idle]
    /\ UNCHANGED <<federated, subject, grant, pairs, now, ghosts>>

IssueForRefresh(q, ok) ==
    LET i == req[q].pair IN
    /\ req[q].stage = "consumed"
    /\ issueTokens(pairs[i].subject, pairs[i].root, i, ok)
    /\ req' = [req EXCEPT ![q] = Idle]
    /\ UNCHANGED <<federated, subject, grant, list, now, ghosts>>

(* revoke: an expired token is answered alike and nothing is recorded. *)
revoke(t, outcome) ==
    /\ revokes < MaxRevokes /\ revokes' = revokes + 1
    /\ t[2] \in DOMAIN pairs /\ now < Expiry(t)
    /\ persistLocked(Live(ids) \cup {t}, outcome)
    /\ acked' = IF outcome = "ok" THEN acked \cup {t} ELSE acked
    /\ UNCHANGED <<federated, subject, grant, pairs, req, now, disabled, restarts>>

(* Would ResourceServer.Validate accept the access token of pair i? *)
Validate(i) == now < Expiry(Access(i)) + Leeway /\ ~IsRevoked(Access(i))

-----------------------------------------------------------------------------
(* A restart: NewRevocationList reads what is not expired; requests and    *)
(* codes are gone; the gateway may now run as another local principal.     *)
Restart(who) ==
    /\ restarts < MaxRestarts /\ restarts' = restarts + 1
    /\ subject' = who
    /\ grant' = [g \in Grants |-> IF grant[g].stage = "new" THEN grant[g]
                                  ELSE [grant[g] EXCEPT !.stage = "ended"]]
    /\ ids' = Live(stored)
    /\ req' = [q \in Requests |-> Idle]
    /\ UNCHANGED <<federated, pairs, stored, now, acked, disabled, revokes>>

(* The provider disables an account (outside the gateway). *)
DisableAccount(who) ==
    /\ federated /\ disabled[who] = -1
    /\ disabled' = [disabled EXCEPT ![who] = now]
    /\ UNCHANGED <<federated, subject, grant, pairs, list, req, now, acked, revokes, restarts>>

Tick ==
    /\ now < MaxTime
    /\ ~Stalls => \A q \in Requests : req[q].stage # "parsed"
    /\ now' = now + 1
    /\ UNCHANGED <<federated, subject, grant, pairs, list, req, ghosts>>

Next ==
    \/ \E g \in Grants :
          \/ storePending(g)
          \/ localConsent(g)
          \/ \E who \in Subjects : ssoCallback(g, who)
          \/ \E b \in BOOLEAN : Decide(g, b) \/ grantCode(g, b) \/ IssueForCode(g, b)
    \/ \E q \in Requests :
          \/ \E i \in 1 .. MaxPairs : grantRefresh(q, i)
          \/ \E o \in Outcomes : Consume(q, o)
          \/ \E b \in BOOLEAN : IssueForRefresh(q, b)
    \/ \E t \in Tokens, o \in Outcomes : revoke(t, o)
    \/ \E who \in Subjects : Restart(who) \/ DisableAccount(who)
    \/ Tick

Spec == Init /\ [][Next]_vars

-----------------------------------------------------------------------------
(* Properties *)

IssuedTokens == {"access", "refresh"} \X DOMAIN pairs

(* Types: the denylist and the requests name tokens that were issued. *)
TypeOK ==
    /\ federated \in BOOLEAN /\ subject \in Subjects
    /\ grant \in [Grants -> authCode]
    /\ pairs \in Seq(Pair)
    /\ ids \subseteq IssuedTokens /\ stored \subseteq IssuedTokens /\ acked \subseteq IssuedTokens
    /\ req \in [Requests -> Progress]
    /\ \A q \in Requests : req[q].stage # "idle" => req[q].pair \in DOMAIN pairs
    /\ now \in Nat /\ disabled \in [Subjects -> Nat \cup {-1}]
    /\ revokes \in Nat /\ restarts \in Nat

(* "A consumed refresh token cannot be replayed": however many requests    *)
(* present it at once, and across restarts and failing saves, a refresh    *)
(* token is traded for at most one new pair.                               *)
RefreshOnce ==
    \A j, k \in DOMAIN pairs : pairs[j].from = pairs[k].from /\ pairs[j].from # 0 => j = k

(* A consent is worth one chain of pairs, all of them issued to the        *)
(* subject that gave it.                                                   *)
ConsentOnce ==
    /\ \A j, k \in DOMAIN pairs :
          pairs[j].root = pairs[k].root /\ pairs[j].from = 0 /\ pairs[k].from = 0 => j = k
    /\ \A j \in DOMAIN pairs : pairs[j].subject = grant[pairs[j].root].subject

(* "refuse so the client re-consents rather than silently rebinding the    *)
(* session across the identity change": with local consent, whatever is    *)
(* issued is issued to the principal the gateway runs as.                  *)
LocalPrincipal == \A j \in DOMAIN pairs : ~federated => pairs[j].subject = pairs[j].under

(* "Revoking a token at /oauth/revoke cuts off /mcp access immediately",   *)
(* also after a restart: a token whose revocation was acknowledged never   *)
(* refreshes, and admits a call in one interval only.  That is the leeway  *)
(* after it expired, when the denylist has dropped its entry and Validate  *)
(* still takes the token: there the sentence fails.                        *)
RevokedRefused ==
    \A i \in DOMAIN pairs :
        /\ Access(i) \in acked /\ Validate(i) =>
              now \in Expiry(Access(i)) .. Expiry(Access(i)) + Leeway - 1
        /\ Refresh(i) \in acked => ~MayRefresh(i)

-----------------------------------------------------------------------------
(* The inductive invariant behind the first four properties.               *)

(* Until it expires, t is denied, and would be after a restart. *)
Held(t) == now < Expiry(t) => t \in ids /\ t \in stored

(* What was revoked, and what was traded in or is being traded in. *)
DenyInv ==
    /\ \A t \in acked : Held(t)
    /\ \A j \in DOMAIN pairs : pairs[j].from # 0 => Held(Refresh(pairs[j].from))
    /\ \A q \in Requests : req[q].stage = "consumed" => Held(Refresh(req[q].pair))

(* A request that is about to consume a token does so before it expires,   *)
(* and only one request ever has.                                          *)
OnceInv ==
    /\ \A q \in Requests : req[q].stage = "parsed" => now < Expiry(Refresh(req[q].pair))
    /\ \A p, q \in Requests :
          req[p].stage = "consumed" /\ req[q].stage = "consumed" /\ req[p].pair = req[q].pair
              => p = q
    /\ \A q \in Requests, j \in DOMAIN pairs :
          req[q].stage = "consumed" => pairs[j].from # req[q].pair
    /\ RefreshOnce

(* Pairs descend from earlier pairs and from grants that are used up. *)
DescentInv ==
    /\ \A j \in DOMAIN pairs :
          pairs[j].from \in 0 .. j - 1 /\ grant[pairs[j].root].stage = "ended"
    /\ ConsentOnce

(* Locally, all that can still be issued is the current principal's. *)
PrincipalInv ==
    /\ ~federated =>
          /\ \A g \in Grants : grant[g].stage \in {"pending", "taken", "code", "redeemed"}
                                   => grant[g].subject = subject
          /\ \A q \in Requests : req[q].stage # "idle" => pairs[req[q].pair].subject = subject
    /\ LocalPrincipal

(* Together, what every request, revocation and restart preserves. *)
IInv ==
    /\ TypeOK /\ DenyInv /\ DescentInv /\ PrincipalInv
    /\ ~Stalls => OnceInv
=============================================================================
