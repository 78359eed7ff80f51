------------------------------ MODULE Registry ------------------------------
(***************************************************************************)
(* What the operator decides about one connection, and where it is kept:   *)
(* in the registry's record (internal/mcp/gateway.go), which is what calls *)
(* are checked against, and in upstreams.json (upstreampersist.go), which  *)
(* is what a restart brings back.  Every admin handler (admin.go) changes  *)
(* the record under reg.mu and then, separately, the file under persistMu, *)
(* with the network in between for those that dial.  Operator connections  *)
(* only: Connections has the self-service ones.                            *)
(*                                                                         *)
(* A policy field is an owner, a label, a switch, a list of grants or a    *)
(* minimization policy; 0 stands for none, "" or false.                    *)
(***************************************************************************)
EXTENDS Integers, FiniteSets

CONSTANTS
    Handlers,       \* operator requests in progress
    Fields,         \* the policy fields in play: a subset of PolicyFields
    Values,         \* the values of a field; 0 is its default
    Kinds,          \* what operators do besides setting fields
    Auths,          \* how added connections authenticate
    WriteOutcomes,  \* do writes of upstreams.json and the secret store succeed?
    DialOutcomes,   \* is the upstream reached, and accepted by the mediation?
    MaxRequests,    \* bound on requests
    MaxRestarts     \* bound on restarts

PolicyFields == {"owner", "label", "readOnly", "auditFullArgs", "grants", "minimize"}
AuthKinds == {"none", "static", "oauth"}
RequestKinds == {"add", "import", "reauth", "enable", "refresh", "disable", "revoke", "delete"}

ASSUME RegistryAssumption ==
    /\ IsFiniteSet(Handlers) /\ Fields \subseteq PolicyFields
    /\ Values \subseteq Nat /\ 0 \in Values
    /\ Kinds \subseteq RequestKinds /\ Auths \subseteq AuthKinds
    /\ WriteOutcomes \subseteq BOOLEAN /\ DialOutcomes \subseteq BOOLEAN
    /\ MaxRequests \in Nat /\ MaxRestarts \in Nat

VARIABLES
    mem,        \* s.reg.conns[name]; NoRecord: absent
    live,       \* its policy fields, and s.reg.policies[name] as "minimize"
    reg,        \* the registration in upstreams.json; NoReg: absent
    saved,      \* its policy fields
    secret,     \* is a credential stored under the connection's key?
    req,         \* each request and how far it has come
    up,
    expect,     \* for each field, what the file may hold given what was asked
    requests, restarts

memory == <<mem, live>>
file == <<reg, saved>>
counters == <<requests, restarts>>
registryVars == <<memory, file, secret, req, up, expect, counters>>

(* conn: which gateway.Upstream is bound, its identity being the pointer;  *)
(* tools: the one the indexed tools were listed from, 0 for a catalog's.   *)
Upstreams == 0 .. Cardinality(Handlers) + 2
NoRecord == [there |-> FALSE, enabled |-> FALSE, revoked |-> FALSE, conn |-> 0, tools |-> 0]
NoReg == [there |-> FALSE, discover |-> FALSE, revoked |-> FALSE, auth |-> "none"]
NoPolicy == [f \in Fields |-> 0]

(* stage: the request's next step, a field's name meaning that the field   *)
(* is to be written to the file.  sets: the fields it was asked to set.    *)
(* conn: the connection it listed tools from.  unsure: what comes of it is *)
(* not determined by it alone.                                             *)
Nothing == [f \in {} |-> 0]
NoRequest == [stage |-> "idle", reauth |-> FALSE, auth |-> "none", discover |-> FALSE,
              sets |-> Nothing, conn |-> 0, unsure |-> FALSE]

RegistryInit ==
    /\ mem = NoRecord /\ live = NoPolicy
    /\ reg = NoReg /\ saved = NoPolicy /\ secret = FALSE
    /\ req = [h \in Handlers |-> NoRequest] /\ up = TRUE
    /\ expect = [f \in Fields |-> {0}]
    /\ requests = 0 /\ restarts = 0

-----------------------------------------------------------------------------
(* Requests *)

At(h, stage) == up /\ req[h].stage = stage
Goes(h, stage) == req' = [req EXCEPT ![h].stage = stage]

(* Two requests set the same field at once: either may come out on top. *)
Asked(o, f) == f \in DOMAIN o.sets
Contend(o, sets) == \E f \in DOMAIN sets : Asked(o, f)

BeginRequest(h, request) ==
    /\ At(h, "idle") /\ requests < MaxRequests
    /\ requests' = requests + 1
    /\ req' = [g \in Handlers |->
                IF g = h THEN [request EXCEPT !.unsure = \E o \in Handlers : Contend(req[o], request.sets)]
                ELSE [req[g] EXCEPT !.unsure = @ \/ Contend(req[g], request.sets)]]
    /\ expect' = [f \in Fields |-> IF Asked(request, f) THEN expect[f] \cup {request.sets[f]}
                                   ELSE expect[f]]
    /\ UNCHANGED restarts

(* The request ends; it was carried out, alone, if "done". *)
Finish(h, done) ==
    /\ req' = [req EXCEPT ![h] = NoRequest]
    /\ expect' = [f \in Fields |-> IF done /\ ~req[h].unsure /\ Asked(req[h], f)
                                   THEN {req[h].sets[f]} ELSE expect[f]]

(* Deleting or revoking first cancels the pending flows of the name. *)
Cancelled(g) == IF req[g].stage = "flow" THEN NoRequest ELSE req[g]

(* A gateway.Upstream nobody holds a pointer to yet. *)
NewConn == CHOOSE c \in Upstreams \ {0} : c \notin {mem.conn, mem.tools} \cup {req[h].conn : h \in Handlers}

-----------------------------------------------------------------------------
(* Adding and reauthorizing *)

(* The fields a request names; a default is not distinguished from none. *)
Named(owner, readOnly) ==
    [f \in {g \in Fields : (g = "owner" /\ owner # 0) \/ (g = "readOnly" /\ readOnly # 0)} |->
        IF f = "owner" THEN owner ELSE readOnly]

adminAddUpstream(h, auth, discover, owner, readOnly) ==
    /\ "add" \in Kinds /\ ~mem.there
    /\ BeginRequest(h, [NoRequest EXCEPT !.stage = IF auth = "oauth" THEN "flow" ELSE "register",
                                  !.auth = auth, !.discover = discover,
                                  !.sets = Named(owner, readOnly)])
    /\ UNCHANGED <<memory, file, secret, up>>

adminReauthUpstream(h) ==
    /\ "reauth" \in Kinds /\ mem.there
    /\ BeginRequest(h, [NoRequest EXCEPT !.stage = "flow", !.reauth = TRUE, !.auth = "oauth",
                                  !.discover = ~mem.enabled /\ ~mem.revoked])
    /\ UNCHANGED <<memory, file, secret, up>>

(* The callback redeems the flow, or it expires or is denied. *)
completeUpstreamOAuth(h, exchanged) ==
    /\ At(h, "flow")
    /\ IF exchanged
       THEN Goes(h, IF req[h].reauth THEN "rebind" ELSE "register") /\ UNCHANGED expect
       ELSE Finish(h, FALSE)
    /\ UNCHANGED <<memory, file, secret, up, counters>>

(* What a fresh record starts with: the options given at registration.     *)
(* Minimization policies are keyed by name, apart from the record.         *)
Registered(owner) == [f \in Fields |-> CASE f = "minimize" -> live[f]
                                         [] f = "owner" -> owner
                                         [] OTHER -> 0]

(* AddUpstream and DiscoverUpstream: list the tools, then register. *)
registerUpstream(h, reached) ==
    /\ At(h, "register")
    /\ IF reached /\ ~mem.there
       THEN /\ mem' = [there |-> TRUE, enabled |-> ~req[h].discover, revoked |-> FALSE,
                       conn |-> NewConn, tools |-> NewConn]
            /\ live' = Registered(IF Asked(req[h], "owner") THEN req[h].sets["owner"] ELSE 0)
            /\ Goes(h, "token") /\ UNCHANGED expect
       ELSE Finish(h, FALSE) /\ UNCHANGED memory
    /\ UNCHANGED <<file, secret, up, counters>>

(* The registry's servers are indexed without being dialled or saved. *)
adminRegistryImport(h) ==
    /\ "import" \in Kinds /\ At(h, "idle") /\ ~mem.there /\ requests < MaxRequests
    /\ mem' = [NoRecord EXCEPT !.there = TRUE, !.conn = NewConn]
    /\ live' = Registered(0)
    /\ requests' = requests + 1
    /\ UNCHANGED <<file, secret, req, up, expect, restarts>>

RebindUpstream(h, reached) ==
    /\ At(h, "rebind")
    /\ IF reached /\ mem.there
       THEN /\ mem' = [mem EXCEPT !.conn = NewConn, !.tools = NewConn, !.revoked = FALSE,
                                  !.enabled = @ \/ mem.revoked]
            /\ Goes(h, "token") /\ UNCHANGED expect
       ELSE Finish(h, FALSE) /\ UNCHANGED mem
    /\ UNCHANGED <<live, file, secret, up, counters>>

(* A failure to save it is logged and nothing else. *)
saveStaticToken(h, ok) ==
    /\ At(h, "token")
    /\ secret' = (secret \/ (ok /\ req[h].auth # "none"))
    /\ Goes(h, "record")
    /\ UNCHANGED <<memory, file, up, expect, counters>>

(* A mutant: the policy of the registration that is there is forgotten. *)
ReRegisteredBare(h, f) == IF Asked(req[h], f) /\ f = "owner" THEN req[h].sets[f] ELSE 0

(* The record to write names the owner and, after an OAuth flow, the       *)
(* read-only choice; what it does not name, and the switches even if it    *)
(* does, stay as in the registration that is there.                        *)
InRecord(h, f) ==
    IF Asked(req[h], f) /\ (f = "readOnly" => req[h].auth = "oauth") THEN req[h].sets[f] ELSE 0
ReRegistered(h, f) ==
    IF f \in {"owner", "label", "grants"} /\ InRecord(h, f) # 0 THEN InRecord(h, f) ELSE saved[f]

(* With a new registration the operator starts afresh; what is still under *)
(* way may or may not reach it.                                            *)
Unsettled(g) == [req[g] EXCEPT !.unsure = req[g].stage # "idle"]
Fresh == [f \in Fields |-> {0} \cup {req[g].sets[f] : g \in {k \in Handlers : Asked(req[k], f)}}]

persistRegistrationRecord(h, ok) ==
    /\ At(h, "record")
    /\ IF ok
       THEN /\ reg' = [there |-> TRUE, discover |-> req[h].discover, revoked |-> FALSE,
                       auth |-> req[h].auth]
            /\ saved' = [f \in Fields |-> IF reg.there THEN ReRegistered(h, f) ELSE InRecord(h, f)]
       ELSE UNCHANGED file
    /\ LET more == Asked(req[h], "readOnly") /\ ~req[h].reauth
           left == IF more THEN [req[h] EXCEPT !.stage = "applyReadOnly", !.unsure = @ \/ ~ok]
                   ELSE NoRequest
       IN IF ok /\ ~reg.there
          THEN req' = [g \in Handlers |-> IF g = h THEN left ELSE Unsettled(g)] /\ expect' = Fresh
          ELSE IF more THEN req' = [req EXCEPT ![h] = left] /\ UNCHANGED expect
          ELSE Finish(h, ok)
    /\ UNCHANGED <<memory, secret, up, counters>>

(* The onboarding choice, after the connection is registered and saved. *)
applyReadOnly(h) ==
    /\ At(h, "applyReadOnly")
    /\ live' = IF mem.there THEN [live EXCEPT !["readOnly"] = req[h].sets["readOnly"]] ELSE live
    /\ Goes(h, "readOnly")
    /\ UNCHANGED <<mem, file, secret, up, expect, counters>>

-----------------------------------------------------------------------------
(* Setting one field: in the record, then in the file *)

SetField(h, f, v) ==
    /\ f \in Fields /\ (mem.there \/ f = "minimize")
    /\ BeginRequest(h, [NoRequest EXCEPT !.stage = f, !.sets = [g \in {f} |-> v]])
    /\ live' = [live EXCEPT ![f] = v]
    /\ UNCHANGED <<mem, file, secret, up>>

(* updateRegistrations: load, change and write under persistMu. *)
PersistField(h, f, ok) ==
    /\ At(h, f)
    /\ saved' = IF ok /\ reg.there THEN [saved EXCEPT ![f] = req[h].sets[f]] ELSE saved
    /\ Finish(h, ok)
    /\ UNCHANGED <<memory, reg, secret, up, counters>>

(* ownedSelfServiceConnection: a user's own connection, to label and refresh. *)
OwnedByUser == "owner" \in Fields /\ live["owner"] # 0

adminSetOwner(h, v) == SetField(h, "owner", v)
adminSetLabel(h, v) == SetField(h, "label", v)
userSetConnectionLabel(h, v) == OwnedByUser /\ SetField(h, "label", v)
adminSetReadOnly(h, v) == SetField(h, "readOnly", v)
adminSetAuditCapture(h, v) == SetField(h, "auditFullArgs", v)
adminSetGrants(h, v) == SetField(h, "grants", v)
adminSetMinimize(h, v) == SetField(h, "minimize", v)

persistOwner(h, ok) == PersistField(h, "owner", ok)
persistLabel(h, ok) == PersistField(h, "label", ok)
persistReadOnly(h, ok) == PersistField(h, "readOnly", ok)
persistAuditFullArgs(h, ok) == PersistField(h, "auditFullArgs", ok)
persistMinimize(h, ok) == PersistField(h, "minimize", ok)

(* Grants that cannot be saved disable the connection, in memory. *)
persistGrantsStrict(h, ok) ==
    /\ At(h, "grants")
    /\ IF ok /\ reg.there
       THEN saved' = [saved EXCEPT !["grants"] = req[h].sets["grants"]] /\ UNCHANGED mem
       ELSE mem' = [mem EXCEPT !.enabled = FALSE] /\ UNCHANGED saved
    /\ Finish(h, ok /\ reg.there)
    /\ UNCHANGED <<live, reg, secret, up, counters>>

-----------------------------------------------------------------------------
(* Enabling, refreshing, disabling, revoking, deleting *)

BeginState(h, kind, stage) ==
    /\ kind \in Kinds /\ mem.there
    /\ BeginRequest(h, [NoRequest EXCEPT !.stage = stage, !.conn = mem.conn])
    /\ UNCHANGED <<live, file, secret, up>>

adminEnableUpstream(h) ==
    /\ ~mem.revoked /\ BeginState(h, "enable", IF mem.enabled THEN "mark" ELSE "enabling")
    /\ UNCHANGED mem
adminRefreshUpstream(h) ==
    /\ ~mem.revoked /\ BeginState(h, "refresh", "refreshing")
    /\ UNCHANGED mem
userRefreshConnection(h) == OwnedByUser /\ adminRefreshUpstream(h)

(* A mutant: only the record's existence is re-validated. *)
StillThere(h) == mem.there

(* The record is looked up again after the network; the connection it      *)
(* listed must still be the one bound.                                     *)
StillBound(h) == mem.there /\ mem.conn = req[h].conn

EnableUpstream(h, reached) ==
    /\ At(h, "enabling")
    /\ IF reached /\ StillBound(h)
       THEN mem' = [mem EXCEPT !.enabled = TRUE, !.tools = req[h].conn]
            /\ req' = [req EXCEPT ![h].stage = "mark", ![h].conn = 0] /\ UNCHANGED expect
       ELSE Finish(h, FALSE) /\ UNCHANGED mem
    /\ UNCHANGED <<live, file, secret, up, counters>>

markRegistrationEnabled(h, ok) ==
    /\ At(h, "mark")
    /\ reg' = IF ok /\ reg.there THEN [reg EXCEPT !.discover = FALSE, !.revoked = FALSE] ELSE reg
    /\ Finish(h, ok)
    /\ UNCHANGED <<memory, saved, secret, up, counters>>

RefreshUpstream(h, reached) ==
    /\ At(h, "refreshing")
    /\ mem' = IF reached /\ StillBound(h) THEN [mem EXCEPT !.tools = req[h].conn] ELSE mem
    /\ Finish(h, TRUE)
    /\ UNCHANGED <<live, file, secret, up, counters>>

adminDisableUpstream(h) ==
    /\ BeginState(h, "disable", "undiscover")
    /\ mem' = [mem EXCEPT !.enabled = FALSE]

persistDisabledStrict(h, ok) ==
    /\ At(h, "undiscover")
    /\ reg' = IF ok /\ reg.there THEN [reg EXCEPT !.discover = TRUE] ELSE reg
    /\ Finish(h, ok)
    /\ UNCHANGED <<memory, saved, secret, up, counters>>

(* adminRevokeUpstream and adminDeleteUpstream, up to the cancellation. *)
BeginEnding(h, kind, stage) ==
    /\ kind \in Kinds /\ mem.there
    /\ At(h, "idle") /\ requests < MaxRequests
    /\ requests' = requests + 1
    /\ req' = [g \in Handlers |-> IF g = h THEN [NoRequest EXCEPT !.stage = stage] ELSE Cancelled(g)]
    /\ UNCHANGED <<memory, file, secret, up, expect, restarts>>

adminRevokeUpstream(h) == BeginEnding(h, "revoke", "revoking")
adminDeleteUpstream(h) == BeginEnding(h, "delete", "removing")

RevokeUpstream(h) ==
    /\ At(h, "revoking")
    /\ IF mem.there
       THEN mem' = [mem EXCEPT !.enabled = FALSE, !.revoked = TRUE]
            /\ Goes(h, "tombstone") /\ UNCHANGED expect
       ELSE Finish(h, FALSE) /\ UNCHANGED mem
    /\ UNCHANGED <<live, file, secret, up, counters>>

revokeRegistration(h, ok) ==
    /\ At(h, "tombstone")
    /\ reg' = IF ok /\ reg.there THEN [reg EXCEPT !.discover = TRUE, !.revoked = TRUE] ELSE reg
    /\ IF reg.there \/ mem.there THEN Goes(h, "revokeSecret") /\ UNCHANGED expect ELSE Finish(h, FALSE)
    /\ UNCHANGED <<memory, saved, secret, up, counters>>

removeRegistration(h, ok) ==
    /\ At(h, "removing")
    /\ reg' = IF ok THEN NoReg ELSE reg
    /\ saved' = IF ok THEN NoPolicy ELSE saved
    /\ Goes(h, "removeSecret")
    /\ UNCHANGED <<memory, secret, up, expect, counters>>

(* The credential goes in any case; a deletion then drops the record. *)
deleteSecret(h, ok) ==
    /\ At(h, "revokeSecret") \/ At(h, "removeSecret")
    /\ secret' = (secret /\ ~ok)
    /\ IF req[h].stage = "removeSecret" THEN Goes(h, "gone") /\ UNCHANGED expect ELSE Finish(h, ok)
    /\ UNCHANGED <<memory, file, up, counters>>

RemoveUpstream(h) ==
    /\ At(h, "gone")
    /\ mem' = NoRecord
    /\ live' = Registered(0)
    /\ Finish(h, TRUE)
    /\ UNCHANGED <<file, secret, up, counters>>

-----------------------------------------------------------------------------
Crash ==
    /\ up /\ restarts < MaxRestarts
    /\ up' = FALSE /\ restarts' = restarts + 1
    /\ mem' = NoRecord /\ live' = NoPolicy
    /\ req' = [h \in Handlers |-> NoRequest]
    /\ UNCHANGED <<file, secret, expect, requests>>

(* A revoked registration is only listed; another needs its credential and *)
(* an upstream that answers, and gets its policy back.                     *)
ReloadUpstreams(reached) ==
    /\ ~up /\ up' = TRUE
    /\ LET reloads == reg.there /\ ~reg.revoked /\ (reg.auth # "none" => secret) /\ reached IN
       /\ mem' = CASE reg.there /\ reg.revoked ->
                        [NoRecord EXCEPT !.there = TRUE, !.revoked = TRUE, !.conn = NewConn]
                   [] reloads -> [there |-> TRUE, enabled |-> ~reg.discover, revoked |-> FALSE,
                                  conn |-> NewConn, tools |-> NewConn]
                   [] OTHER -> NoRecord
       /\ live' = CASE reloads -> saved
                    [] reg.there /\ reg.revoked -> [f \in Fields |-> IF f = "owner" THEN saved[f] ELSE 0]
                    [] OTHER -> NoPolicy
    /\ UNCHANGED <<file, secret, req, expect, counters>>

AddNext(h) ==
    \/ \E auth \in Auths, discover \in BOOLEAN, owner, readOnly \in Values :
          adminAddUpstream(h, auth, discover, owner, readOnly)
    \/ adminReauthUpstream(h)
    \/ \E b \in BOOLEAN : completeUpstreamOAuth(h, b)
    \/ \E b \in DialOutcomes : registerUpstream(h, b) \/ RebindUpstream(h, b)
    \/ \E ok \in WriteOutcomes : saveStaticToken(h, ok) \/ persistRegistrationRecord(h, ok)
    \/ applyReadOnly(h)
    \/ adminRegistryImport(h)

PolicyNext(h) ==
    \/ \E v \in Values :
          \/ adminSetOwner(h, v) \/ adminSetLabel(h, v) \/ userSetConnectionLabel(h, v)
          \/ adminSetReadOnly(h, v)
          \/ adminSetAuditCapture(h, v) \/ adminSetGrants(h, v) \/ adminSetMinimize(h, v)
    \/ \E ok \in WriteOutcomes :
          \/ persistOwner(h, ok) \/ persistLabel(h, ok) \/ persistReadOnly(h, ok)
          \/ persistAuditFullArgs(h, ok) \/ persistGrantsStrict(h, ok) \/ persistMinimize(h, ok)

StateNext(h) ==
    \/ adminEnableUpstream(h) \/ adminRefreshUpstream(h) \/ userRefreshConnection(h)
    \/ adminDisableUpstream(h)
    \/ adminRevokeUpstream(h) \/ adminDeleteUpstream(h)
    \/ \E b \in DialOutcomes : EnableUpstream(h, b) \/ RefreshUpstream(h, b)
    \/ RevokeUpstream(h) \/ RemoveUpstream(h)
    \/ \E ok \in WriteOutcomes :
          \/ markRegistrationEnabled(h, ok) \/ persistDisabledStrict(h, ok)
          \/ revokeRegistration(h, ok) \/ removeRegistration(h, ok) \/ deleteSecret(h, ok)

RegistryNext ==
    \/ \E h \in Handlers : AddNext(h) \/ PolicyNext(h) \/ StateNext(h)
    \/ Crash
    \/ \E b \in DialOutcomes : ReloadUpstreams(b)

RegistrySpec == RegistryInit /\ [][RegistryNext]_registryVars

-----------------------------------------------------------------------------
(* Properties *)

(* An operator's decision, once carried out, stays in upstreams.json until *)
(* the operator changes it or deletes the connection: not lost to a        *)
(* concurrent change of another field, nor to enabling, revoking,          *)
(* reauthorizing or re-adding the connection, nor to a crash in between    *)
(* ("persistRegistrationRecord preserves operator policy fields across     *)
(* reauthorization"; "an unlocked read-modify-write can drop a             *)
(* registration whose write interleaved with another").                    *)
PolicyKept == reg.there => \A f \in Fields : saved[f] \in expect[f]

(* The tools an enabled connection offers, and the write guard validates   *)
(* against, were listed from the connection that will be called, whatever  *)
(* was rebound, removed and re-added while another handler was listing     *)
(* ("enabling with tools listed from a stale connection would be wrong").  *)
ToolsOfConnection == mem.there /\ mem.enabled => mem.tools = mem.conn

(* "reauth preserves the existing setting" and "rebind preserves the       *)
(* record": between requests, a callable connection is held to the policy  *)
(* the operator set for it, the one a restart would bring back.            *)
PolicyInForce ==
    (/\ up /\ mem.enabled /\ ~mem.revoked /\ reg.there
     /\ \A h \in Handlers : req[h] = NoRequest) => live = saved

-----------------------------------------------------------------------------
(* Why PolicyKept holds: what is expected of a field includes what every   *)
(* request under way may still make of it, and a request that will be      *)
(* taken at its word is the only one that sets the field.                  *)

AddStages == {"flow", "register", "rebind", "token", "record"}

RequestShape(o) ==
    /\ DOMAIN o = DOMAIN NoRequest
    /\ o.unsure \in BOOLEAN /\ o.reauth \in BOOLEAN
    /\ o.sets = [f \in DOMAIN o.sets |-> o.sets[f]]
    /\ DOMAIN o.sets \subseteq Fields

(* What a request at each stage asks for.  An addition names no default;   *)
(* a request about to write one field asks for that one, and the read-only *)
(* choice of an addition comes with its owner.                             *)
AsksAt(o) ==
    /\ o.stage \in AddStages =>
          /\ DOMAIN o.sets \subseteq {"owner", "readOnly"}
          /\ \A f \in DOMAIN o.sets : o.sets[f] # 0
          /\ o.reauth => DOMAIN o.sets = {}
    /\ o.stage \in {"applyReadOnly", "readOnly"} =>
          "readOnly" \in DOMAIN o.sets /\ DOMAIN o.sets \subseteq {"owner", "readOnly"}
    /\ o.stage \in PolicyFields \ {"readOnly"} => DOMAIN o.sets = {o.stage}
    /\ o.stage \notin AddStages \cup PolicyFields \cup {"applyReadOnly"} => DOMAIN o.sets = {}

RequestKept(h) ==
    /\ RequestShape(req[h]) /\ AsksAt(req[h])
    /\ \A f \in DOMAIN req[h].sets : req[h].sets[f] \in expect[f]
    /\ (req[h].stage \in {"applyReadOnly", "readOnly"} /\ ~req[h].unsure /\ reg.there
        /\ Asked(req[h], "owner")) => saved["owner"] = req[h].sets["owner"]

Uncontended ==
    \A h, g \in Handlers : \A f \in Fields :
        h # g /\ Asked(req[h], f) /\ Asked(req[g], f) => req[h].unsure

PolicyInv ==
    /\ PolicyKept
    /\ req = [h \in Handlers |-> req[h]]
    /\ saved = [f \in Fields |-> saved[f]]
    /\ \A h \in Handlers : RequestKept(h)
    /\ Uncontended
=============================================================================
