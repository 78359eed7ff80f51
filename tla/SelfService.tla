----------------------------- MODULE SelfService -----------------------------
(***************************************************************************)
(* How one user turns one operator-approved template into connections: the *)
(* template with its OAuth client (internal/mcp/userconnections.go), the   *)
(* quota and its reservations, and the requests that read the template,    *)
(* count, reserve, dial the provider and come back through the callback.   *)
(* What happens to a connection afterwards is in Connections.              *)
(*                                                                         *)
(* A request reads the template once under self.mu, counts connections     *)
(* under reg.mu, reserves under self.mu again and reads the client from    *)
(* the secret store later still; an edit stores the client, writes the     *)
(* template and cancels pending flows one after the other.                 *)
(***************************************************************************)
EXTENDS Integers, FiniteSets, UpstreamDiscovery

CONSTANTS
    Starts,         \* requests to connect or to reauthorize
    Drafts,         \* the templates the operator may submit
    Asked,          \* the scopes and parameters a request may name
    Bases,          \* upstream URLs, before provider parameters
    Params,         \* provider parameters
    Answers,        \* what the network may answer
    Malformed,      \* a scope normalizeScopes refuses
    defaultConnectionsPerUser, maxConnectionsPerUser,
    maxPendingConnectionsPerUser, maxConnectionStartsPerHour,
    WriteOutcomes,  \* do writes of connection-templates.json succeed?
    MaxPuts         \* bound on template edits and on OAuth clients

ASSUME SelfServiceAssumption ==
    /\ defaultConnectionsPerUser \in 1 .. maxConnectionsPerUser
    /\ maxConnectionsPerUser \in Nat /\ maxPendingConnectionsPerUser \in Nat
    /\ maxConnectionStartsPerHour \in Nat /\ WriteOutcomes \subseteq BOOLEAN /\ MaxPuts \in Nat

VARIABLES
    self,       \* s.self: the template, its version, the reservations and the hour's starts
    tfile,      \* connection-templates.json
    tclient,    \* the template's stored OAuth client; 0: none
    uclient,    \* the user's stored client for each upstream URL; 0: none
    edit,       \* the operator's edit, alone under adminMu
    start,      \* each request, and how far it has come
    conns,      \* connections, each named by the request that made it
    puts,       \* edits so far; an edit's client is named by its number
    replaced    \* clients an edit that took effect has replaced

selfVars == <<self, tfile, tclient, uclient, edit, start, conns, puts, replaced>>

URLs == [base : Bases, params : SUBSET Params]
NoTemplate == [there |-> FALSE]

-----------------------------------------------------------------------------
(* Templates *)

(* Scopes are kept without repetition and in order, so as a set. *)
normalizeScopes(scopes) == Malformed \notin scopes

MaxPerUser(draft) == IF draft.max = 0 THEN defaultConnectionsPerUser ELSE draft.max

normalizeConnectionTemplate(draft) ==
    /\ draft.wellFormed
    /\ normalizeScopes(draft.allowed) /\ normalizeScopes(draft.defaults)
    /\ draft.defaults \subseteq draft.allowed
    /\ draft.params \subseteq draft.curated
    /\ MaxPerUser(draft) \in 1 .. maxConnectionsPerUser

Published == self.template.there /\ ~self.template.disabled

(* The scopes a request gets: those it names, or the template's defaults. *)
requestedTemplateScopes(template, asked) ==
    IF asked.scopes = {} THEN template.defaults ELSE asked.scopes

ScopesAllowed(template, asked) ==
    LET scopes == requestedTemplateScopes(template, asked) IN
    normalizeScopes(scopes) /\ scopes \subseteq template.allowed

scopedTemplateURL(template, asked) == [base |-> template.base, params |-> asked.params]

(* Equal once the parameters the template allows are taken out of both. *)
templateMatchesConnection(template, url) ==
    template.base = url.base /\ url.params \subseteq template.params

-----------------------------------------------------------------------------
(* The operator's edits.  A template deleted is not put again: the version *)
(* would start over (see README.md).                                       *)

NoEdit == [stage |-> "none"]
BeginEdit == edit.stage = "none" /\ puts < MaxPuts /\ self.template.there /\ puts' = puts + 1

(* The checks, then the client: stored, cleared or left alone. *)
StoreTemplateClient(draft, client) ==
    /\ BeginEdit /\ normalizeConnectionTemplate(draft)
    /\ tclient' = CASE client = "set" -> puts' [] client = "clear" -> 0 [] OTHER -> tclient
    /\ edit' = [stage |-> "stored", previous |-> tclient, client |-> client,
                template |-> [there |-> TRUE, disabled |-> draft.disabled, base |-> draft.base,
                              allowed |-> draft.allowed, defaults |-> draft.defaults,
                              params |-> draft.params, max |-> MaxPerUser(draft),
                              readOnly |-> draft.readOnly,
                              client |-> client = "set" \/ (client = "keep" /\ self.template.client)]]
    /\ UNCHANGED <<self, tfile, uclient, start, conns, replaced>>

(* A mutant: an edit that changes only the client keeps the version. *)
BumpedForPolicy ==
    IF [edit.template EXCEPT !.client = TRUE] = [self.template EXCEPT !.client = TRUE]
    THEN self.version ELSE self.version + 1

Bumped == self.version + 1

(* writeConnectionTemplatesLocked renames a whole file into place, or      *)
(* fails; the template in memory is then put back.                         *)
WriteTemplate(ok) ==
    /\ edit.stage = "stored"
    /\ IF ok
       THEN /\ self' = [self EXCEPT !.template = edit.template, !.version = Bumped]
            /\ tfile' = edit.template
            /\ replaced' = IF edit.client = "keep" THEN replaced ELSE replaced \cup {edit.previous}
            /\ edit' = [edit EXCEPT !.stage = "written"]
       ELSE /\ edit' = [edit EXCEPT !.stage = "failed"]
            /\ UNCHANGED <<self, tfile, replaced>>
    /\ UNCHANGED <<tclient, uclient, start, conns, puts>>

(* The previous client is put back, if the store lets it. *)
RollbackTemplateClient(ok) ==
    /\ edit.stage = "failed"
    /\ tclient' = IF ok THEN edit.previous ELSE tclient
    /\ edit' = NoEdit
    /\ UNCHANGED <<self, tfile, uclient, start, conns, puts, replaced>>

(* The template goes first; a write that fails puts it back. *)
RemoveTemplate ==
    /\ BeginEdit
    /\ self' = [self EXCEPT !.template = NoTemplate, !.version = 0]
    /\ tfile' = NoTemplate
    /\ edit' = [stage |-> "written", client |-> "clear", previous |-> tclient]
    /\ UNCHANGED <<tclient, uclient, start, conns, replaced>>

InByState == {s \in Starts : start[s].stage = "pending"}
Ended(s) == [start[s] EXCEPT !.stage = "ended"]

(* A mutant: cancelled flows keep their reservations. *)
CancelStartsOnly ==
    /\ start' = [s \in Starts |-> IF s \in InByState THEN Ended(s) ELSE start[s]]
    /\ UNCHANGED self

CancelStarts ==
    /\ start' = [s \in Starts |-> IF s \in InByState THEN Ended(s) ELSE start[s]]
    /\ self' = [self EXCEPT !.pending = @ \ InByState]

(* cancelOAuthFlows, and for a deletion the client goes last. *)
FinishEdit(ok) ==
    /\ edit.stage = "written"
    /\ CancelStarts
    /\ tclient' = IF ~self.template.there /\ ok THEN 0 ELSE tclient
    /\ edit' = NoEdit
    /\ UNCHANGED <<tfile, uclient, conns, puts, replaced>>

-----------------------------------------------------------------------------
(* Requests *)

NoStart == [stage |-> "none"]
Advance(s, stage) == start' = [start EXCEPT ![s].stage = stage]
Release(s) == self' = [self EXCEPT !.pending = @ \ {s}]

(* A request fails: recorded, answered, its reservation released. *)
failConnection(s) == start' = [start EXCEPT ![s] = Ended(s)] /\ Release(s)

(* connectionTemplateWithVersion and the checks on what is asked for. *)
ReadTemplate(s, asked) ==
    /\ start[s].stage = "none" /\ Published /\ ScopesAllowed(self.template, asked)
    /\ asked.params \subseteq self.template.params
    /\ start' = [start EXCEPT ![s] =
          [stage |-> "read", reauth |-> s, template |-> self.template, version |-> self.version,
           scopes |-> requestedTemplateScopes(self.template, asked),
           url |-> scopedTemplateURL(self.template, asked), seen |-> 0, client |-> 0,
           at |-> "", resource |-> ""]]
    /\ UNCHANGED <<self, tfile, tclient, uclient, edit, conns, puts, replaced>>

(* The same for reauthorizing an existing connection at its own URL. *)
ReadForReauth(s, c, asked) ==
    /\ start[s].stage = "none" /\ c \in conns /\ Published
    /\ templateMatchesConnection(self.template, start[c].url)
    /\ ScopesAllowed(self.template, asked)
    /\ start' = [start EXCEPT ![s] =
          [stage |-> "read", reauth |-> c, template |-> self.template, version |-> self.version,
           scopes |-> requestedTemplateScopes(self.template, asked),
           url |-> start[c].url, seen |-> 0, client |-> 0, at |-> "", resource |-> ""]]
    /\ UNCHANGED <<self, tfile, tclient, uclient, edit, conns, puts, replaced>>

selfServiceCounts(s) ==
    /\ start[s].stage = "read"
    /\ start' = [start EXCEPT ![s].stage = "counted", ![s].seen = Cardinality(conns)]
    /\ UNCHANGED <<self, tfile, tclient, uclient, edit, conns, puts, replaced>>

(* Reservations last ten minutes from here; the flow's ten begin later, so *)
(* a reservation may lapse under a flow that can still be redeemed.        *)
MayLapse == {s \in self.pending : start[s].stage \in {"pending", "taken"}}

Admitted(s, pending, rate) ==
    /\ rate < maxConnectionStartsPerHour
    /\ Cardinality(pending) < maxPendingConnectionsPerUser
    /\ start[s].reauth = s => start[s].seen + Cardinality(pending) < start[s].template.max

reserveConnectionStart(s, lapsed, newHour) ==
    /\ start[s].stage = "counted"
    /\ LET pending == self.pending \ lapsed
           rate == IF newHour THEN 0 ELSE self.rate
       IN IF Admitted(s, pending, rate)
          THEN /\ Advance(s, "reserved")
               /\ self' = [self EXCEPT !.pending = pending \cup {s}, !.rate = rate + 1]
          ELSE /\ Advance(s, "ended")
               /\ self' = [self EXCEPT !.pending = pending, !.rate = rate]
    /\ UNCHANGED <<tfile, tclient, uclient, edit, conns, puts, replaced>>

(* The client configured for the template; 0: none, or it is not there. *)
templateClient(s) == IF start[s].template.client THEN tclient ELSE 0

(* The provider is reached and says where its metadata is, or not; then    *)
(* the client is read, whatever the operator has done to it since the      *)
(* template was.                                                           *)
probeUpstreamOAuth(s, answer) ==
    /\ start[s].stage = "reserved"
    /\ IF /\ answer.reached /\ Probe(answer) # ""
          /\ start[s].template.client => templateClient(s) # 0
       THEN /\ start' = [start EXCEPT ![s].stage = "dialled", ![s].client = templateClient(s),
                                      ![s].at = Probe(answer)]
            /\ UNCHANGED self
       ELSE failConnection(s)
    /\ UNCHANGED <<tfile, tclient, uclient, edit, conns, puts, replaced>>

(* loadOrRegisterClientAtKey: the template's client wins and is stored,    *)
(* then the stored one, then dynamic registration (RegisterClient); 0:     *)
(* there is none to be had.                                                *)
RegisterClient(server) == IF server.registration THEN MaxPuts + 1 ELSE 0
ClientFor(s, server) ==
    IF start[s].client # 0 THEN start[s].client
    ELSE IF uclient[start[s].url] # 0 THEN uclient[start[s].url]
    ELSE RegisterClient(server)

(* startUpstreamOAuth: metadata, resource indicator, client, pending flow; *)
(* classifyConnectionStart names the failures, which end the request alike.*)
MayStart(s, answer) ==
    /\ answer.reached /\ ASFound(answer, start[s].at)
    /\ LET server == DiscoverAS(answer, start[s].at) IN
       /\ resourceAllowedForUpstream(server.resource, start[s].url.base)
       /\ ClientFor(s, server) # 0

startUpstreamOAuth(s, answer) ==
    /\ start[s].stage = "dialled"
    /\ IF MayStart(s, answer)
       THEN LET server == DiscoverAS(answer, start[s].at)
                client == ClientFor(s, server)
            IN /\ start' = [start EXCEPT ![s].stage = "pending", ![s].client = client, ![s].at = "",
                               ![s].resource = IF server.resource = "" THEN start[s].url.base
                                               ELSE server.resource]
               /\ uclient' = [uclient EXCEPT ![start[s].url] = client]
               /\ UNCHANGED self
       ELSE failConnection(s) /\ UNCHANGED uclient
    /\ UNCHANGED <<tfile, tclient, edit, conns, puts, replaced>>

(* The flow expires, and its reservation has expired before it. *)
ExpireStart(s) ==
    /\ start[s].stage = "pending"
    /\ failConnection(s)
    /\ UNCHANGED <<tfile, tclient, uclient, edit, conns, puts, replaced>>

SameVersion(s) == Published /\ self.version = start[s].version

TakeStart(s, exchanged) ==
    /\ start[s].stage = "pending"
    /\ IF SameVersion(s) /\ exchanged THEN Advance(s, "taken") /\ UNCHANGED self
       ELSE failConnection(s)
    /\ UNCHANGED <<tfile, tclient, uclient, edit, conns, puts, replaced>>

(* commitSelfServiceOAuth; the callback releases the reservation. *)
CommitStart(s, listed) ==
    /\ start[s].stage = "taken"
    /\ LET c == start[s].reauth IN
       IF listed /\ SameVersion(s) /\ (c # s => c \in conns)
       THEN /\ conns' = conns \cup {c}
            /\ Advance(s, "connected") /\ Release(s)
       ELSE failConnection(s) /\ UNCHANGED conns
    /\ UNCHANGED <<tfile, tclient, uclient, edit, puts, replaced>>

(* userDeleteConnection's last step, after the connection is gone. *)
deleteSelfServiceClientIfUnused(c) ==
    /\ c \in conns
    /\ conns' = conns \ {c}
    /\ uclient' = IF conns' = {} /\ InByState = {} THEN [uclient EXCEPT ![start[c].url] = 0]
                  ELSE uclient
    /\ UNCHANGED <<self, tfile, tclient, edit, start, puts, replaced>>

(* loadConnectionTemplates: pending flows and reservations are gone. *)
loadConnectionTemplates ==
    /\ self' = [template |-> tfile, version |-> IF tfile.there THEN 1 ELSE 0,
                pending |-> {}, rate |-> 0]
    /\ start' = [s \in Starts |-> IF start[s].stage \in {"none", "connected"} THEN start[s]
                                  ELSE Ended(s)]
    /\ edit' = NoEdit
    /\ UNCHANGED <<tfile, tclient, uclient, conns, puts, replaced>>

-----------------------------------------------------------------------------
SelfInit(draft, spent) ==
    /\ tfile = [there |-> TRUE, disabled |-> draft.disabled, base |-> draft.base,
                allowed |-> draft.allowed, defaults |-> draft.defaults, params |-> draft.params,
                max |-> MaxPerUser(draft), readOnly |-> draft.readOnly, client |-> FALSE]
    /\ self = [template |-> tfile, version |-> 1, pending |-> {}, rate |-> 0]
    /\ tclient = 0 /\ uclient = [u \in URLs |-> 0]
    /\ edit = NoEdit /\ conns = {} /\ replaced = {}
    /\ start = [s \in Starts |-> [stage |-> IF spent THEN "ended" ELSE "none"]]
    /\ puts = IF spent THEN MaxPuts ELSE 0

EditNext ==
    \/ \E draft \in Drafts, client \in {"keep", "set", "clear"} : StoreTemplateClient(draft, client)
    \/ RemoveTemplate
    \/ \E ok \in WriteOutcomes : WriteTemplate(ok)
    \/ \E ok \in BOOLEAN : RollbackTemplateClient(ok) \/ FinishEdit(ok)

StartNext ==
    \E s \in Starts :
        \/ \E asked \in Asked : ReadTemplate(s, asked) \/ \E c \in conns : ReadForReauth(s, c, asked)
        \/ selfServiceCounts(s)
        \/ \E lapsed \in SUBSET MayLapse, newHour \in BOOLEAN : reserveConnectionStart(s, lapsed, newHour)
        \/ \E answer \in Answers : probeUpstreamOAuth(s, answer) \/ startUpstreamOAuth(s, answer)
        \/ \E ok \in BOOLEAN : TakeStart(s, ok) \/ CommitStart(s, ok)
        \/ ExpireStart(s)
        \/ deleteSelfServiceClientIfUnused(s)

SelfNext == EditNext \/ StartNext \/ loadConnectionTemplates

(* A template the operator has published, and requests still to come. *)
SelfSpec ==
    /\ \E draft \in Drafts : normalizeConnectionTemplate(draft) /\ SelfInit(draft, FALSE)
    /\ [][SelfNext]_selfVars

-----------------------------------------------------------------------------
(* Properties *)

(* "The URL, scopes, provider parameters, read-only posture ... are all    *)
(* operator bounds; a user can only narrow them": a connection is made or  *)
(* reauthorized within the template as it is then, and while the template  *)
(* has a client, not with one an edit has replaced, though request, edit   *)
(* and callback each read them at different times.  Its token is bound to  *)
(* that upstream and no other.                                             *)
CommitsWithinTemplate ==
    [][\A s \in Starts : start[s].stage = "taken" /\ start'[s].stage = "connected" =>
           /\ Published
           /\ start[s].scopes \subseteq self.template.allowed
           /\ templateMatchesConnection(self.template, start[s].url)
           /\ start[s].reauth = s => start[s].template.readOnly = self.template.readOnly
           /\ start[s].resource = start[s].url.base
           /\ self.template.client => start[s].client \notin replaced]_selfVars

(* A reservation never outlives its request, whichever of the failures,    *)
(* cancellations and callbacks ended it: a user is not locked out by       *)
(* requests that are over.                                                 *)
ReservationsLive ==
    \A s \in self.pending : start[s].stage \in {"reserved", "dialled", "pending", "taken"}

-----------------------------------------------------------------------------
(* Why CommitsWithinTemplate holds: a request under way has read the       *)
(* template of its version, and nothing is replaced without a new version. *)

Active == {"read", "counted", "reserved", "dialled", "pending", "taken"}
StartFields == {"stage", "reauth", "template", "version", "scopes", "url", "seen", "client", "at",
                "resource"}

SelfShape ==
    /\ DOMAIN self = {"template", "version", "pending", "rate"}
    /\ self.version \in Nat /\ self.pending \subseteq Starts /\ puts \in Nat
    /\ start = [s \in Starts |-> start[s]]
    /\ \A s \in Starts : /\ "stage" \in DOMAIN start[s]
                         /\ start[s].stage \in Active => DOMAIN start[s] = StartFields

(* Clients are numbered by the edits that set them, so a replaced one does *)
(* not come back: a rollback restores one that was not replaced.           *)
ClientsOK ==
    /\ tclient \in 0 .. puts /\ replaced \subseteq 0 .. puts
    /\ tclient # 0 => tclient \notin replaced
    /\ "stage" \in DOMAIN edit
    /\ edit.stage \in {"stored", "failed"} =>
          /\ DOMAIN edit = {"stage", "previous", "client", "template"} /\ self.template.there
          /\ edit.previous \in 0 .. puts /\ (edit.previous # 0 => edit.previous \notin replaced)
          /\ edit.client \in {"keep", "set", "clear"}
          /\ edit.client = "set" => tclient = puts /\ edit.previous # puts
          /\ edit.client = "clear" => tclient = 0

StartOK(s) ==
    start[s].stage \in Active =>
        /\ start[s].version \in Nat
        /\ start[s].scopes \subseteq start[s].template.allowed
        /\ templateMatchesConnection(start[s].template, start[s].url)
        /\ start[s].stage \in {"pending", "taken"} => start[s].resource = start[s].url.base
        /\ (start[s].stage \in {"dialled", "pending", "taken"} /\ start[s].template.client) =>
              start[s].client # 0
        /\ self.template.there =>
              /\ start[s].version <= self.version
              /\ start[s].version = self.version =>
                    /\ start[s].template = self.template
                    /\ (start[s].stage \in {"dialled", "pending", "taken"} /\ start[s].template.client)
                          => start[s].client \notin replaced

SelfInv == SelfShape /\ ReservationsLive /\ ClientsOK /\ \A s \in Starts : StartOK(s)
=============================================================================
