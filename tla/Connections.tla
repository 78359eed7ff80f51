---------------------------- MODULE Connections ----------------------------
(***************************************************************************)
(* The life of one self-service connection: its in-memory record (the      *)
(* registry of internal/mcp/gateway.go), its persisted registration        *)
(* (upstreampersist.go), its stored credential (the secret store), the     *)
(* OAuth flows that authorize it (oauthadd.go, userconnections.go), the    *)
(* operator-approved template it instantiates, and the handlers that       *)
(* revoke, delete, enable and disable it.                                  *)
(*                                                                         *)
(* The handlers take reg.mu, self.mu, flows.mu and persistMu one critical  *)
(* section at a time; each section is one action, so every interleaving of *)
(* them is a behaviour.  A credential is the number of the flow that       *)
(* obtained it; refreshing rotates the token, not the grant behind it.     *)
(***************************************************************************)
EXTENDS Integers, FiniteSets

CONSTANTS
    Handlers,       \* operator and user requests in progress
    Kinds,          \* what they may do: a subset of HandlerKinds
    TemplateOps,    \* what the operator does to the template: {"put", "delete"}
    SecretOutcomes, \* do secret store writes and deletes succeed?
    PersistOutcomes,\* do writes of upstreams.json succeed?
    Rotations,      \* may a call in flight refresh its token?
    MaxFlows,       \* bound on OAuth flows
    MaxEdits,       \* bound on template edits
    MaxRequests,    \* bound on handler requests
    MaxCrashes      \* bound on restarts

HandlerKinds == {"revoke", "delete", "enable", "disable"}

ASSUME ConnectionAssumption ==
    /\ Kinds \subseteq HandlerKinds /\ TemplateOps \subseteq {"put", "delete"}
    /\ SecretOutcomes \subseteq BOOLEAN /\ PersistOutcomes \subseteq BOOLEAN
    /\ Rotations \in BOOLEAN /\ MaxFlows \in Nat \ {0}
    /\ MaxEdits \in Nat /\ MaxRequests \in Nat /\ MaxCrashes \in Nat

VARIABLES
    mem,        \* s.reg.conns[name]; NoRecord: absent
    reg,        \* the registration in upstreams.json; NoReg: absent
    secret,     \* the grant stored under the connection's token key; 0: none
    template,   \* its version (0: absent), disabled flag, and whether an edit's
                \* cancellation of pending flows is still to come
    flow,       \* the oauthFlows, and how far each one's callback has come
    bearer,     \* for each grant, the refreshing bearer alive in this process
    op,         \* each handler's request and progress
    up,
    dead,       \* grants whose revocation or deletion took durable effect
    unsettled,  \* a deletion removed the tombstone, or a credential's deletion failed
    edits, requests, crashes

disk == <<reg, secret>>
promises == <<dead, unsettled>>
counters == <<edits, requests, crashes>>
connectionVars == <<mem, disk, template, flow, bearer, op, up, promises, counters>>

Flows == 1 .. MaxFlows
Record == [there : BOOLEAN, enabled : BOOLEAN, revoked : BOOLEAN, gen : Nat, grant : 0 .. MaxFlows]
NoRecord == [there |-> FALSE, enabled |-> FALSE, revoked |-> FALSE, gen |-> 0, grant |-> 0]
upstreamReg == [there : BOOLEAN, discover : BOOLEAN, revoked : BOOLEAN]
NoReg == [there |-> FALSE, discover |-> FALSE, revoked |-> FALSE]

(* "starting": between reading template and record and putOAuthFlow.       *)
(* "pending": in byState.  "taken", "committed", "checked", "saved": the   *)
(* callback has the flow, has committed it, has found a live registration  *)
(* for a missing record, has dealt with the token.                         *)
FlowStages == {"none", "starting", "pending", "taken", "committed", "checked", "saved", "ended"}
oauthFlow == [stage : FlowStages, reauth : BOOLEAN, discover : BOOLEAN, gen : Nat, ver : Nat]
NoFlow == [stage |-> "none", reauth |-> FALSE, discover |-> FALSE, gen |-> 0, ver |-> 0]

Bearer == [on : BOOLEAN, gen : Nat, checked : BOOLEAN]
NoBearer == [on |-> FALSE, gen |-> 0, checked |-> FALSE]

(* grant: the connection an enable listed tools from.  held: did a         *)
(* revocation's registration write succeed?  covers: the flows begun       *)
(* before it, whose grants it ends.                                        *)
Request == [kind : HandlerKinds \cup {"none"}, stage : 0 .. 4, grant : 0 .. MaxFlows,
            held : BOOLEAN, covers : SUBSET Flows]
NoRequest == [kind |-> "none", stage |-> 0, grant |-> 0, held |-> FALSE, covers |-> {}]

(* Nothing is registered; some of the bounds may be used up already. *)
Opening(stage, e, q, r) ==
    /\ mem = NoRecord /\ reg = NoReg /\ secret = 0
    /\ template = [ver |-> 1, disabled |-> FALSE, cancel |-> FALSE]
    /\ flow = [f \in Flows |-> [NoFlow EXCEPT !.stage = stage]]
    /\ bearer = [f \in Flows |-> NoBearer] /\ op = [h \in Handlers |-> NoRequest]
    /\ up = TRUE /\ dead = {} /\ unsettled = FALSE
    /\ edits = e /\ requests = q /\ crashes = r

ConnectionInit == Opening("none", 0, 0, 0)

Callable == mem.there /\ mem.enabled /\ ~mem.revoked

-----------------------------------------------------------------------------
(* The OAuth flow *)

Goes(f, stage) == flow' = [flow EXCEPT ![f].stage = stage]

(* userStartConnection and userReauthorizeConnection, up to the network:   *)
(* the first flow creates the connection, the others reauthorize it.       *)
StartFlow(f, started) ==
    /\ up /\ flow[f].stage = "none" /\ \A e \in Flows : e < f => flow[e].stage # "none"
    /\ template.ver # 0 /\ ~template.disabled
    /\ flow' = [flow EXCEPT ![f] = started]
    /\ UNCHANGED <<mem, disk, template, bearer, op, up, promises, counters>>

userStartConnection(f) ==
    /\ f = 1
    /\ StartFlow(f, [stage |-> "starting", reauth |-> FALSE, discover |-> FALSE, gen |-> 0,
                     ver |-> template.ver])

userReauthorizeConnection(f) ==
    /\ f # 1 /\ mem.there
    /\ StartFlow(f, [stage |-> "starting", reauth |-> TRUE,
                     discover |-> ~mem.enabled /\ ~mem.revoked, gen |-> mem.gen,
                     ver |-> template.ver])

(* startUpstreamOAuth reached the authorization server, or failed to. *)
putOAuthFlow(f, reached) ==
    /\ up /\ flow[f].stage = "starting"
    /\ Goes(f, IF reached THEN "pending" ELSE "ended")
    /\ UNCHANGED <<mem, disk, template, bearer, op, up, promises, counters>>

(* A pending flow expires, unredeemed. *)
ExpireFlow(f) ==
    /\ up /\ flow[f].stage = "pending"
    /\ Goes(f, "ended")
    /\ UNCHANGED <<mem, disk, template, bearer, op, up, promises, counters>>

CurrentPolicy(f) == template.ver = flow[f].ver /\ ~template.disabled

(* completeUpstreamOAuth takes the flow, checks the template and exchanges *)
(* the code for a token.                                                   *)
TakeFlow(f, exchanged) ==
    /\ up /\ flow[f].stage = "pending"
    /\ IF CurrentPolicy(f) /\ exchanged
       THEN /\ Goes(f, "taken")
            /\ bearer' = [bearer EXCEPT ![f] = [on |-> TRUE, gen |-> flow[f].gen, checked |-> FALSE]]
       ELSE Goes(f, "ended") /\ UNCHANGED bearer
    /\ UNCHANGED <<mem, disk, template, op, up, promises, counters>>

(* commitSelfServiceOAuth: after listing tools, under both locks. *)
MayCommit(f) ==
    /\ CurrentPolicy(f)
    /\ IF flow[f].reauth THEN mem.there /\ mem.gen = flow[f].gen ELSE ~mem.there

Commit(f, listed) ==
    /\ up /\ flow[f].stage = "taken"
    /\ IF listed /\ MayCommit(f)
       THEN /\ Goes(f, "committed")
            /\ mem' = IF flow[f].reauth
                      THEN [mem EXCEPT !.grant = f, !.revoked = FALSE,
                                       !.enabled = @ \/ mem.revoked]
                      ELSE [there |-> TRUE, enabled |-> ~flow[f].discover, revoked |-> FALSE,
                            gen |-> flow[f].gen, grant |-> f]
       ELSE Goes(f, "ended") /\ UNCHANGED mem
    /\ UNCHANGED <<disk, template, bearer, op, up, promises, counters>>

(* saveUpstreamTokenAtKey: with a record, only under its own generation;   *)
(* without one, only if a live registration is found, and then later.      *)
MaySave(gen) == mem.there /\ ~mem.revoked /\ mem.gen = gen
MaySaveUnlisted == ~mem.there /\ reg.there /\ ~reg.revoked

SaveToken(f, ok) ==
    /\ up /\ flow[f].stage = "committed"
    /\ secret' = IF ok /\ MaySave(flow[f].gen) THEN f ELSE secret
    /\ Goes(f, IF MaySaveUnlisted THEN "checked" ELSE "saved")
    /\ UNCHANGED <<mem, reg, template, bearer, op, up, promises, counters>>

SaveUnlisted(f, ok) ==
    /\ up /\ flow[f].stage = "checked"
    /\ secret' = IF ok THEN f ELSE secret
    /\ Goes(f, "saved")
    /\ UNCHANGED <<mem, reg, template, bearer, op, up, promises, counters>>

(* The registration is written whatever happened since the commit. *)
persistRegistrationRecord(f, ok) ==
    /\ up /\ flow[f].stage = "saved"
    /\ reg' = IF ok THEN [there |-> TRUE, discover |-> flow[f].discover, revoked |-> FALSE]
              ELSE reg
    /\ Goes(f, "ended")
    /\ UNCHANGED <<mem, secret, template, bearer, op, up, promises, counters>>

(* A call in flight refreshes the token of its grant and stores it. *)
Rotate(f, ok) ==
    /\ up /\ Rotations /\ bearer[f].on /\ ~bearer[f].checked
    /\ MaySave(bearer[f].gen) \/ MaySaveUnlisted
    /\ secret' = IF ok /\ MaySave(bearer[f].gen) THEN f ELSE secret
    /\ bearer' = [bearer EXCEPT ![f].checked = MaySaveUnlisted]
    /\ UNCHANGED <<mem, reg, template, flow, op, up, promises, counters>>

RotateUnlisted(f, ok) ==
    /\ up /\ bearer[f].checked
    /\ secret' = IF ok THEN f ELSE secret
    /\ bearer' = [bearer EXCEPT ![f].checked = FALSE]
    /\ UNCHANGED <<mem, reg, template, flow, op, up, promises, counters>>

-----------------------------------------------------------------------------
(* Template edits: a write under self.mu and then, still under adminMu, a  *)
(* cancellation.  A write that fails is rolled back and changes nothing.   *)

Cancelled(f) == IF flow[f].stage = "pending" THEN [flow[f] EXCEPT !.stage = "ended"] ELSE flow[f]
cancelOAuthFlows == flow' = [f \in Flows |-> Cancelled(f)]

adminPutConnectionTemplate(disabled) ==
    /\ up /\ "put" \in TemplateOps /\ edits < MaxEdits /\ ~template.cancel
    /\ template' = [ver |-> template.ver + 1, disabled |-> disabled, cancel |-> TRUE]
    /\ edits' = edits + 1
    /\ UNCHANGED <<mem, disk, flow, bearer, op, up, promises, requests, crashes>>

adminDeleteConnectionTemplate ==
    /\ up /\ "delete" \in TemplateOps /\ edits < MaxEdits /\ ~template.cancel /\ template.ver # 0
    /\ template' = [ver |-> 0, disabled |-> FALSE, cancel |-> TRUE]
    /\ edits' = edits + 1
    /\ UNCHANGED <<mem, disk, flow, bearer, op, up, promises, requests, crashes>>

CancelSuperseded ==
    /\ up /\ template.cancel
    /\ cancelOAuthFlows
    /\ template' = [template EXCEPT !.cancel = FALSE]
    /\ UNCHANGED <<mem, disk, bearer, op, up, promises, counters>>

-----------------------------------------------------------------------------
(* Handlers *)

Answer(h) == op' = [op EXCEPT ![h] = NoRequest]
Proceed(h) == op' = [op EXCEPT ![h].stage = @ + 1]

(* A request arrives.  Revoke and delete first cancel pending flows;       *)
(* enable snapshots the record and, unless it is enabled already, goes to  *)
(* the network.                                                            *)
Begin(h, kind, stage) ==
    /\ up /\ op[h] = NoRequest /\ requests < MaxRequests /\ kind \in Kinds
    /\ op' = [op EXCEPT ![h] = [NoRequest EXCEPT !.kind = kind, !.grant = mem.grant,
                                                !.stage = stage]]
    /\ requests' = requests + 1
    /\ UNCHANGED <<mem, disk, template, bearer, up, promises, edits, crashes>>

adminRevokeUpstream(h) == Begin(h, "revoke", 1) /\ cancelOAuthFlows

userDeleteConnection(h) == mem.there /\ Begin(h, "delete", 1) /\ cancelOAuthFlows

adminEnableUpstream(h) ==
    /\ mem.there /\ ~mem.revoked
    /\ Begin(h, "enable", IF mem.enabled THEN 2 ELSE 1) /\ UNCHANGED flow

adminDisableUpstream(h) == Begin(h, "disable", 1) /\ UNCHANGED flow

(* A mutant: the generation is not bumped. *)
RevokedSameGeneration == [mem EXCEPT !.enabled = FALSE, !.revoked = TRUE]

Revoked == [mem EXCEPT !.enabled = FALSE, !.revoked = TRUE, !.gen = @ + 1]

RevokeUpstream(h) ==
    /\ up /\ op[h].kind \in {"revoke", "delete"} /\ op[h].stage = 1
    /\ IF mem.there
       THEN /\ mem' = Revoked
            /\ op' = [op EXCEPT ![h].stage = 2,
                                ![h].covers = {f \in Flows : flow[f].stage # "none"}]
       ELSE Answer(h) /\ UNCHANGED mem
    /\ UNCHANGED <<disk, template, flow, bearer, up, promises, counters>>

(* The registration becomes a tombstone, or goes.  Neither finds anything  *)
(* to write when no registration exists.                                   *)
revokeRegistration(h, ok) ==
    /\ up /\ op[h].kind = "revoke" /\ op[h].stage = 2
    /\ reg' = IF ok /\ reg.there THEN [reg EXCEPT !.revoked = TRUE, !.discover = TRUE] ELSE reg
    /\ IF ~reg.there /\ ~mem.there
       THEN Answer(h)
       ELSE op' = [op EXCEPT ![h].stage = 3, ![h].held = ok \/ ~reg.there]
    /\ UNCHANGED <<mem, secret, template, flow, bearer, up, promises, counters>>

removeSelfServiceRegistration(h, ok) ==
    /\ up /\ op[h].kind = "delete" /\ op[h].stage = 2
    /\ reg' = IF ok THEN NoReg ELSE reg
    /\ op' = [op EXCEPT ![h].stage = 3, ![h].held = ok \/ ~reg.there]
    /\ unsettled' = TRUE
    /\ UNCHANGED <<mem, secret, template, flow, bearer, up, dead, counters>>

(* The credential is deleted in any case.  The grants the revocation       *)
(* covers are then meant to be dead, unless both durable steps failed.     *)
DeleteSecret(h, ok) ==
    /\ up /\ op[h].kind \in {"revoke", "delete"} /\ op[h].stage = 3
    /\ secret' = IF ok THEN 0 ELSE secret
    /\ dead' = IF ok \/ op[h].held THEN dead \cup op[h].covers ELSE dead
    /\ IF op[h].kind = "delete" /\ ok /\ op[h].held THEN Proceed(h) ELSE Answer(h)
    /\ unsettled' = (unsettled \/ ~ok)
    /\ UNCHANGED <<mem, reg, template, flow, bearer, up, counters>>

RemoveUpstream(h) ==
    /\ up /\ op[h].kind = "delete" /\ op[h].stage = 4
    /\ mem' = NoRecord
    /\ Answer(h)
    /\ UNCHANGED <<disk, template, flow, bearer, up, promises, counters>>

(* EnableUpstream's commit and markRegistrationEnabled. *)
EnableUpstream(h, listed) ==
    /\ up /\ op[h].kind = "enable" /\ op[h].stage = 1
    /\ IF listed /\ mem.there /\ mem.grant = op[h].grant
       THEN mem' = [mem EXCEPT !.enabled = TRUE] /\ Proceed(h)
       ELSE Answer(h) /\ UNCHANGED mem
    /\ UNCHANGED <<disk, template, flow, bearer, up, promises, counters>>

markRegistrationEnabled(h, ok) ==
    /\ up /\ op[h].kind = "enable" /\ op[h].stage = 2
    /\ reg' = IF ok /\ reg.there THEN [reg EXCEPT !.discover = FALSE, !.revoked = FALSE] ELSE reg
    /\ Answer(h)
    /\ UNCHANGED <<mem, secret, template, flow, bearer, up, promises, counters>>

(* DisableUpstream and persistDisabledStrict. *)
DisableUpstream(h) ==
    /\ up /\ op[h].kind = "disable" /\ op[h].stage = 1
    /\ IF mem.there THEN mem' = [mem EXCEPT !.enabled = FALSE] /\ Proceed(h)
       ELSE Answer(h) /\ UNCHANGED mem
    /\ UNCHANGED <<disk, template, flow, bearer, up, promises, counters>>

persistDisabledStrict(h, ok) ==
    /\ up /\ op[h].kind = "disable" /\ op[h].stage = 2
    /\ reg' = IF ok /\ reg.there THEN [reg EXCEPT !.discover = TRUE] ELSE reg
    /\ Answer(h)
    /\ UNCHANGED <<mem, secret, template, flow, bearer, up, promises, counters>>

-----------------------------------------------------------------------------
(* No promise about an unsettled connection survives the process: see      *)
(* RevocationHolds.                                                        *)
Crash ==
    /\ up /\ crashes < MaxCrashes
    /\ up' = FALSE /\ crashes' = crashes + 1
    /\ mem' = NoRecord /\ bearer' = [f \in Flows |-> NoBearer]
    /\ flow' = [f \in Flows |-> IF flow[f].stage = "none" THEN flow[f]
                                ELSE [flow[f] EXCEPT !.stage = "ended"]]
    /\ op' = [h \in Handlers |-> NoRequest]
    /\ dead' = IF unsettled THEN {} ELSE dead
    /\ UNCHANGED <<disk, template, unsettled, edits, requests>>

(* loadConnectionTemplates and ReloadUpstreams, before anything is served. *)
Reload(listed) ==
    /\ ~up /\ up' = TRUE
    /\ template' = [template EXCEPT !.ver = IF @ = 0 THEN 0 ELSE 1, !.cancel = FALSE]
    /\ LET restored == reg.there /\ ~reg.revoked /\ secret # 0 /\ listed IN
       /\ mem' = CASE reg.there /\ reg.revoked -> [NoRecord EXCEPT !.there = TRUE, !.revoked = TRUE]
                   [] restored -> [there |-> TRUE, enabled |-> ~reg.discover, revoked |-> FALSE,
                                   gen |-> 0, grant |-> secret]
                   [] OTHER -> NoRecord
       /\ bearer' = [f \in Flows |-> [NoBearer EXCEPT !.on = restored /\ f = secret]]
    /\ UNCHANGED <<disk, flow, op, promises, counters>>

FlowNext ==
    \E f \in Flows :
        \/ userStartConnection(f)
        \/ userReauthorizeConnection(f)
        \/ \E b \in BOOLEAN : putOAuthFlow(f, b) \/ TakeFlow(f, b) \/ Commit(f, b)
        \/ ExpireFlow(f)
        \/ \E ok \in SecretOutcomes : SaveToken(f, ok) \/ SaveUnlisted(f, ok)
        \/ \E ok \in PersistOutcomes : persistRegistrationRecord(f, ok)
        \/ \E ok \in SecretOutcomes : Rotate(f, ok) \/ RotateUnlisted(f, ok)

TemplateNext ==
    \/ \E b \in BOOLEAN : adminPutConnectionTemplate(b)
    \/ adminDeleteConnectionTemplate
    \/ CancelSuperseded

HandlerNext ==
    \E h \in Handlers :
        \/ adminRevokeUpstream(h)
        \/ userDeleteConnection(h)
        \/ adminEnableUpstream(h)
        \/ adminDisableUpstream(h)
        \/ RevokeUpstream(h)
        \/ \E ok \in PersistOutcomes :
              revokeRegistration(h, ok) \/ removeSelfServiceRegistration(h, ok)
        \/ \E ok \in SecretOutcomes : DeleteSecret(h, ok)
        \/ RemoveUpstream(h)
        \/ \E b \in BOOLEAN : EnableUpstream(h, b)
        \/ DisableUpstream(h)
        \/ \E ok \in PersistOutcomes : markRegistrationEnabled(h, ok) \/ persistDisabledStrict(h, ok)

ConnectionNext == FlowNext \/ TemplateNext \/ HandlerNext \/ Crash \/ \E b \in BOOLEAN : Reload(b)

ConnectionSpec == ConnectionInit /\ [][ConnectionNext]_connectionVars

-----------------------------------------------------------------------------
(* Properties *)

ConnectionTypeOK ==
    /\ mem \in Record /\ reg \in upstreamReg /\ secret \in 0 .. MaxFlows
    /\ template \in [ver : Nat, disabled : BOOLEAN, cancel : BOOLEAN]
    /\ flow \in [Flows -> oauthFlow] /\ bearer \in [Flows -> Bearer]
    /\ op \in [Handlers -> Request] /\ up \in BOOLEAN
    /\ dead \subseteq Flows /\ unsettled \in BOOLEAN
    /\ edits \in Nat /\ requests \in Nat /\ crashes \in Nat

(* "an in-flight operation cannot resurrect a revoked grant".  Once the    *)
(* revocation took effect no call reaches the upstream on a grant from     *)
(* before it, whatever callbacks and refreshes were under way, and no      *)
(* restart would bring it back: the registration stays a tombstone or the  *)
(* credential is gone.  A deletion removes the tombstone and a failed      *)
(* deletion leaves the credential: from then on nothing holds back a       *)
(* callback, which may write what is missing.                              *)
RevokedNotCallable == Callable => mem.grant \notin dead
RevokedNotReloadable ==
    ~unsettled /\ reg.there /\ ~reg.revoked /\ secret # 0 => secret \notin dead
RevocationHolds == RevokedNotCallable /\ RevokedNotReloadable

-----------------------------------------------------------------------------
(* Why RevocationHolds: a grant that is over was obtained under an earlier *)
(* generation than the record's, so no callback or refresh of it gets      *)
(* past commitSelfServiceOAuth or saveUpstreamTokenAtKey.                  *)

Over(f) == f \in dead \/ \E h \in Handlers : f \in op[h].covers
Behind(f, gen) == gen <= mem.gen /\ (Over(f) => gen < mem.gen)

Uncommitted == {"none", "starting", "pending", "taken"}

(* Nothing is under way in a process that is down. *)
DownOK ==
    ~up => /\ mem = NoRecord /\ (unsettled => dead = {})
           /\ \A f \in Flows : flow[f].stage \in {"none", "ended"} /\ bearer[f] = NoBearer
           /\ \A h \in Handlers : op[h] = NoRequest

(* The first flow creates the connection; nothing precedes it. *)
FirstFlow ==
    /\ flow[1].gen = 0 /\ bearer[1].gen = 0
    /\ \A f \in Flows : flow[f].stage \in {"starting", "pending", "taken"} => flow[f].reauth = (f # 1)
    /\ flow[1].stage \in Uncommitted =>
          /\ ~mem.there /\ ~reg.there
          /\ \A f \in Flows : ~Over(f) /\ (f # 1 => flow[f].stage = "none" /\ ~bearer[f].on)

Generations ==
    mem.there =>
        /\ \A f \in Flows :
              /\ flow[f].stage \in {"starting", "pending", "taken", "committed"} => Behind(f, flow[f].gen)
              /\ bearer[f].on => Behind(f, bearer[f].gen)
        /\ ~mem.revoked => ~Over(mem.grant)

(* As long as no tombstone was removed and no credential was left behind,  *)
(* there is a record to check a token against.                             *)
SettledOK ==
    ~unsettled =>
        /\ secret \notin dead
        /\ \A h \in Handlers : op[h].kind = "delete" => op[h].stage <= 2
        /\ \A f \in Flows :
              /\ flow[f].stage # "checked" /\ ~bearer[f].checked
              /\ (f # 1 /\ flow[f].stage \notin {"none", "ended"}) => mem.there
              /\ flow[f].stage \in {"committed", "saved"} => mem.there
              /\ bearer[f].on => mem.there \/ ~reg.there

RevocationInv ==
    /\ ConnectionTypeOK
    /\ \A f \in Flows : Over(f) => flow[f].stage # "none"
    /\ DownOK /\ FirstFlow /\ Generations /\ SettledOK
=============================================================================
