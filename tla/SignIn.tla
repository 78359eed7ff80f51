------------------------------- MODULE SignIn -------------------------------
(***************************************************************************)
(* Federated sign-in at the built-in authorization server: a registered    *)
(* client sends a person to the identity provider (authorize), the         *)
(* provider's answer comes back (ssoCallback of internal/auth/             *)
(* authserver.go), the code is exchanged for an ID token whose signing key *)
(* is looked up (jwks.go), the identity is checked against the declared    *)
(* audience (federation.go) and recorded (ssoidentities.go), and the       *)
(* client exchanges the gateway's own code (grantCode), which is what      *)
(* makes it a used client.  TokenGrants has what a code may be redeemed    *)
(* for, and by whom.                                                       *)
(***************************************************************************)
EXTENDS ClientRegistration, AudienceRules

CONSTANTS
    Accounts,       \* people the provider can authenticate
    Claims,         \* what it may assert of them: [subject, email, verified, groups, hd]
    Flows,          \* sign-ins in progress at a time
    Providers,      \* --sso-issuer and --sso-client-id: the clients the gateway can be
    Postures,       \* [hd, any]: --sso-hd and --sso-any-account
    MinRefresh, PendingTTL, CodeTTL,
    MaxKid,         \* bound on the provider's signing keys
    Unusable,       \* keys it publishes that cannot verify a signature
    MaxSignIns, MaxRestarts,
    Spent           \* how much of the bounds a behaviour does without

ASSUME SignInAssumption ==
    /\ \A c \in Claims : c.subject \in Accounts
    /\ Postures \subseteq [hd : BOOLEAN, any : BOOLEAN]
    /\ {MinRefresh, PendingTTL, CodeTTL, MaxKid} \subseteq Nat \ {0}
    /\ MaxSignIns \in Nat /\ MaxRestarts \in Nat
    /\ Spent \subseteq [ids : 0 .. MaxIds, kids : 0 .. MaxKid - 1, edits : 0 .. MaxEdits,
                        damages : 0 .. MaxDamage, signIns : 0 .. MaxSignIns,
                        restarts : 0 .. MaxRestarts]

VARIABLES
    posture,        \* the flags of this start
    ssoSecret,      \* the provider whose client secret is in the secret store, if any
    kid,            \* the provider's current signing key
    keys, lastLoad, \* JWKSKeySet
    identities,     \* s.identities: the recorded address of each subject
    idFile,         \* sso-identities.json
    flow,           \* each sign-in
    signIns, restarts

keyVars == <<keys, lastLoad>>
idVars == <<identities, idFile>>
boundVars == <<mode, issuer, minted, signIns, restarts>>
signInVars == <<up, boundVars, now, clientVars, ruleVars, posture, ssoSecret, kid, keyVars, idVars, flow>>

(* nonce: was the token made for this request?  fetched: the key set the   *)
(* provider answered with.  seen: what the audience was declared to be, at *)
(* some time since the callback took the pending request.                  *)
NoFlow == [stage |-> "idle", client |-> 0, expiry |-> 0,
           id |-> CHOOSE c \in Claims : TRUE, nonce |-> FALSE,
           kid |-> 0, fetched |-> {}, seen |-> {}]

NoPosture == [hd |-> FALSE, any |-> FALSE]

Declaration == [readable |-> rules.readable, set |-> declared]

SignInInit ==
    /\ RegistrationInit /\ RulesInit
    /\ up = FALSE /\ posture = NoPosture /\ ssoSecret = {}
    /\ keys = {} /\ lastLoad = -1
    /\ identities = NoEntries /\ idFile = NoEntries
    /\ flow = [f \in Flows |-> NoFlow]
    /\ \E b \in Spent : /\ minted = b.ids /\ kid = 1 + b.kids /\ edits = b.edits
                         /\ damages = b.damages /\ signIns = b.signIns /\ restarts = b.restarts

InStage(f, stage) == up /\ flow[f].stage = stage
Fails(f) == flow' = [flow EXCEPT ![f] = NoFlow]

-----------------------------------------------------------------------------
(* Requests and callbacks *)

(* authorize and storePending: only a registered client gets a pending     *)
(* request; the nonce and the verifier are its own.                        *)
authorize(f, c) ==
    /\ InStage(f, "idle") /\ c \in DOMAIN clients /\ signIns < MaxSignIns
    /\ flow' = [flow EXCEPT ![f] = [NoFlow EXCEPT !.stage = "pending", !.client = c,
                                                  !.expiry = now + PendingTTL]]
    /\ signIns' = signIns + 1
    /\ UNCHANGED <<up, mode, issuer, minted, restarts, now, clientVars, ruleVars, posture,
                   ssoSecret, kid, keyVars, idVars>>

(* ssoCallback: the pending request is taken, once, before anything else;  *)
(* one that expired, or that the person declined, ends here.               *)
ssoCallback(f) ==
    /\ InStage(f, "pending")
    /\ \/ /\ now < flow[f].expiry
          /\ flow' = [flow EXCEPT ![f].stage = "taken", ![f].expiry = 0, ![f].seen = {Declaration}]
       \/ Fails(f)
    /\ UNCHANGED <<up, boundVars, now, clientVars, ruleVars, posture, ssoSecret, kid, keyVars, idVars>>

(* Exchange: the provider trades the code for an ID token, or does not.    *)
(* external: the token, signed with the provider's current key.            *)
Exchange(f) ==
    /\ InStage(f, "taken")
    /\ \/ \E id \in Claims, mine \in BOOLEAN :
            flow' = [flow EXCEPT ![f].stage = "keyed", ![f].id = id, ![f].nonce = mine,
                                 ![f].kid = kid]
       \/ Fails(f)
    /\ UNCHANGED <<up, boundVars, now, clientVars, ruleVars, posture, ssoSecret, kid, keyVars, idVars>>

-----------------------------------------------------------------------------
(* JWKSKeySet *)

(* The document the provider answers with, and the keys in it that parse. *)
getJSON == {kid} \cup Unusable
publicKey(k) == k \notin Unusable

cached(k) == k \in keys
RateLimited == lastLoad # -1 /\ now - lastLoad < MinRefresh

(* Key: a cached key is used; a miss fetches the set, unless it was loaded *)
(* less than MinRefresh ago.  The fetch runs outside the lock.             *)
Key(f) ==
    /\ InStage(f, "keyed")
    /\ \/ /\ cached(flow[f].kid)
          /\ flow' = [flow EXCEPT ![f].stage = "signed", ![f].kid = 0]
       \/ /\ ~cached(flow[f].kid) /\ RateLimited /\ Fails(f)
       \/ /\ ~cached(flow[f].kid) /\ ~RateLimited
          /\ flow' = [flow EXCEPT ![f].stage = "fetching", ![f].fetched = getJSON]
    /\ UNCHANGED <<up, boundVars, now, clientVars, ruleVars, posture, ssoSecret, kid, keyVars, idVars>>

(* refresh: what was fetched replaces the set; only a fetch that succeeded *)
(* counts for the limit.                                                   *)
refresh(f) ==
    /\ InStage(f, "fetching")
    /\ \/ /\ keys' = {k \in flow[f].fetched : publicKey(k)} /\ lastLoad' = now
          /\ IF flow[f].kid \in keys'
             THEN flow' = [flow EXCEPT ![f].stage = "signed", ![f].kid = 0, ![f].fetched = {}]
             ELSE Fails(f)
       \/ Fails(f) /\ UNCHANGED keyVars
    /\ UNCHANGED <<up, boundVars, now, clientVars, ruleVars, posture, ssoSecret, kid, idVars>>

-----------------------------------------------------------------------------
(* The audience *)

(* A mutant: no rules, or none that can be read, fall back to the domain.  *)
PermitsFallback(id) ==
    \/ posture.any
    \/ IF Match(id).count > 0 /\ ~Match(id).err THEN Match(id).matched ELSE posture.hd
(* Permits: an unreadable rule set refuses; rules decide if there are any; *)
(* with none, a hosted domain must have been required.                     *)
Permits(id) ==
    \/ posture.any
    \/ /\ ~Match(id).err
       /\ IF Match(id).count > 0 THEN Match(id).matched ELSE posture.hd

(* An address that the provider does not call verified is left out, and a  *)
(* group that is not a name.                                               *)
groupsFromClaims(claims) == claims.groups \ {""}
FederatedIdentity(claims) ==
    [subject |-> claims.subject, email |-> IF claims.verified THEN claims.email ELSE "",
     groups |-> groupsFromClaims(claims), hd |-> claims.hd]

(* validateIDToken, once the signature holds: the nonce, the hosted domain *)
(* and then the audience, read from the rules file now.                    *)
validateIDToken(f) ==
    /\ InStage(f, "signed")
    /\ IF flow[f].nonce /\ (posture.hd => flow[f].id.hd) /\ Permits(FederatedIdentity(flow[f].id))
       THEN flow' = [flow EXCEPT ![f].stage = "admitted"] ELSE Fails(f)
    /\ UNCHANGED <<up, boundVars, now, clientVars, ruleVars, posture, ssoSecret, kid, keyVars, idVars>>

(* recordFederatedIdentity, with its best-effort write, and then the code. *)
(* The write is in place: one that fails half way leaves a file that does  *)
(* not parse, which is as good as none.                                    *)
recordFederatedIdentity(f) ==
    /\ InStage(f, "admitted")
    /\ identities' = With(identities, flow[f].id.subject, FederatedIdentity(flow[f].id).email)
    /\ idFile' \in {idFile, NoEntries, identities'}
    /\ flow' = [flow EXCEPT ![f].stage = "coded", ![f].expiry = now + CodeTTL]
    /\ UNCHANGED <<up, boundVars, now, clientVars, ruleVars, posture, ssoSecret, kid, keyVars>>

(* grantCode: the code is taken; in time, and with the client, verifier,   *)
(* redirect and resource it was made for, its client is marked used before *)
(* the tokens are issued.                                                  *)
grantCode(f, matching, how) ==
    /\ InStage(f, "coded")
    /\ IF now <= flow[f].expiry /\ matching
       THEN markClientUsedLocked(flow[f].client, how)
       ELSE UNCHANGED clientVars
    /\ Fails(f)
    /\ UNCHANGED <<up, boundVars, now, ruleVars, posture, ssoSecret, kid, keyVars, idVars>>

-----------------------------------------------------------------------------
(* The process and its environment *)

(* validateFederationAudience: a start must say who may sign in.           *)
validateFederationAudience(p) == p.any \/ p.hd \/ RuleTotal > 0

(* A secret supplied now is stored; otherwise the stored one is used, if   *)
(* it is this provider's.                                                  *)
resolveSSOClientSecret(q, supplied) == (supplied \/ ssoSecret = {q}) /\ ssoSecret' = {q}

(* A new federation begins with no keys.                                   *)
DiscoverFederation == keys' = {} /\ lastLoad' = -1

(* LoadFederatedIdentities: what earlier sign-ins recorded; a file that is *)
(* missing or does not parse starts empty.                                 *)
LoadFederatedIdentities == identities' = idFile /\ UNCHANGED idFile

(* A start: configureBuiltInFederation, then the clients.                  *)
Start(p, q, m, i, how, supplied) ==
    /\ ~up /\ validateFederationAudience(p)
    /\ resolveSSOClientSecret(q, supplied) /\ DiscoverFederation
    /\ up' = TRUE /\ posture' = p
    /\ LoadFederatedIdentities
    /\ SetClientRegistration(m) /\ LoadClients(i, how)
    /\ UNCHANGED <<minted, signIns, restarts, now, ruleVars, kid, flow>>

(* A start that fails after the secret was resolved (the provider's        *)
(* document is not found, or its issuer or an endpoint does not pass)      *)
(* keeps the secret it was given.                                          *)
StartFails(p, q) ==
    /\ ~up /\ validateFederationAudience(p) /\ resolveSSOClientSecret(q, TRUE)
    /\ UNCHANGED <<up, boundVars, now, clientVars, ruleVars, posture, kid, keyVars, idVars, flow>>

(* A crash loses what is in memory, the requests and callbacks included.   *)
Crash ==
    /\ up /\ restarts < MaxRestarts
    /\ up' = FALSE /\ restarts' = restarts + 1
    /\ ForgetClients /\ identities' = NoEntries /\ keys' = {} /\ lastLoad' = -1
    /\ flow' = [f \in Flows |-> NoFlow] /\ posture' = NoPosture
    /\ UNCHANGED <<mode, issuer, minted, signIns, now, ruleVars, ssoSecret, kid, idFile>>

Register(s, how) == register(s, how) /\ UNCHANGED <<ruleVars, posture, ssoSecret, kid, keyVars, idVars, flow,
                                                    signIns, restarts>>

(* The operator's edits; a callback in progress sees each declaration.     *)
InCallback == {"taken", "keyed", "fetching", "signed"}
adminAddAudienceRule(e, spec) == up /\ Add(e, spec)
adminDeleteAudienceRule(e, spec) == up /\ Remove(e, spec)
AdminStep ==
    \E e \in Editors, spec \in Specs : \/ adminAddAudienceRule(e, spec)
                                      \/ adminDeleteAudienceRule(e, spec)
Edit ==
    /\ EditStep \/ AdminStep
    /\ flow' = [f \in Flows |->
                  IF flow[f].stage \in InCallback
                  THEN [flow[f] EXCEPT !.seen = @ \cup {Declaration'}] ELSE flow[f]]
    /\ UNCHANGED <<up, boundVars, now, clientVars, posture, ssoSecret, kid, keyVars, idVars>>

(* external: the provider starts signing with a new key.                   *)
Rotate ==
    /\ kid < MaxKid /\ kid' = kid + 1
    /\ UNCHANGED <<up, boundVars, now, clientVars, ruleVars, posture, ssoSecret, keyVars, idVars, flow>>

Tick ==
    /\ now < MaxTime /\ now' = now + 1
    /\ UNCHANGED <<up, boundVars, clientVars, ruleVars, posture, ssoSecret, kid, keyVars, idVars, flow>>

SignInNext ==
    \/ \E f \in Flows : \/ \E c \in Ids : authorize(f, c)
                        \/ ssoCallback(f)
                        \/ Exchange(f)
                        \/ Key(f)
                        \/ refresh(f)
                        \/ validateIDToken(f)
                        \/ recordFederatedIdentity(f)
                        \/ \E how \in ClientWrites, matching \in BOOLEAN : grantCode(f, matching, how)
    \/ \E s \in Sources, how \in ClientWrites : Register(s, how)
    \/ \E p \in Postures, q \in Providers :
          \/ \E m \in RegistrationModes, i \in Issuers, how \in ClientWrites,
                supplied \in BOOLEAN : Start(p, q, m, i, how, supplied)
          \/ StartFails(p, q)
    \/ Crash
    \/ Edit
    \/ Rotate
    \/ Tick

SignInSpec == SignInInit /\ [][SignInNext]_signInVars

-----------------------------------------------------------------------------
(* Who a declaration admits, as federation.go and the documentation put    *)
(* it: the bounds compose by AND, any account is a bound of its own, and   *)
(* what cannot be read admits nobody.                                      *)
InAudience(claims, d) ==
    LET id == FederatedIdentity(claims) IN
    /\ posture.hd => id.hd
    /\ ~posture.any => /\ d.readable
                       /\ posture.hd \/ d.set # {}
                       /\ d.set # {} => \E r \in d.set : matches(r, id)

(* Nobody reaches a code who was not in the audience, as the operator's    *)
(* acknowledged edits declared it, at some time between the callback and   *)
(* the check: no rule is dropped or comes back behind the operator, an     *)
(* edit takes effect on the next sign-in without a restart, and a rule     *)
(* file that cannot be read refuses instead of widening.  And the token    *)
(* was made for this request.                                              *)
AdmissionCurrent ==
    \A f \in Flows : flow[f].stage \in {"admitted", "coded"} =>
        flow[f].nonce /\ \E d \in flow[f].seen : InAudience(flow[f].id, d)

-----------------------------------------------------------------------------
(* Why AdmissionCurrent: a callback has seen what the file says now.       *)
FlowFields == {"stage", "client", "expiry", "id", "nonce", "kid", "fetched", "seen"}

AudienceInv ==
    /\ up \in BOOLEAN
    /\ flow = [f \in Flows |-> flow[f]] /\ \A f \in Flows : DOMAIN flow[f] = FlowFields
    /\ ~up => \A f \in Flows : flow[f].stage = "idle"
    /\ \A f \in Flows : flow[f].stage \in InCallback => Declaration \in flow[f].seen
    /\ RulesOK
    /\ AdmissionCurrent
=============================================================================
