----------------------------- MODULE Invocation -----------------------------
(* call_tool, from the name an agent sends to the answer it gets: the gates  *)
(* of invokeUpstream, the grant of a governed connection, placeholders, the  *)
(* gates of proxyCall, the call, and what becomes of the result              *)
(* (internal/mcp/gateway.go, ambiguity.go, fused.go, minimizehook.go), with  *)
(* the discovery index beside it and an operator who edits the registry      *)
(* while calls are under way.                                                *)
(*                                                                           *)
(* One call is in progress at a time: calls meet only in the decision        *)
(* ledger, the in-flight cache and the audit log, which have their own       *)
(* modules.  The ledger's answer is a choice here, and so is whether the     *)
(* in-flight cache still holds the execution of an earlier read.  A          *)
(* principal is a caller with its campaign.                                  *)
EXTENDS Grants

CONSTANTS
    Callers, Conns, Secrets,
    Starts,            \* the registries and postures a gateway may start with
    Documents,         \* the arguments an agent may send
    Responses,         \* what an upstream may answer
    GrantLists,        \* the grant lists an operator may write
    Classes,           \* the tool lists a refresh may bring
    Registrations,     \* the connections an operator may register
    Emails,            \* callers with a provider-verified email
    MultiPrincipal,    \* multiPrincipalAudit
    MaxBytes,          \* the inline budget
    MaxCalls, MaxOps,  \* bounds: calls, operator steps
    MaxEras            \* bound: registrations made under a name

(* A sequence, of whatever its elements are. *)
Sequence(s) == s \in Seq({s[i] : i \in DOMAIN s})

RecordFields ==
    {"owner", "enabled", "revoked", "readOnly", "template", "label", "tools", "grants",
     "delegated", "full"}

(* SetUpstreamGrants: all of the list is valid and no two grants share an id *)
(* or a principal and tool, or nothing changes.                              *)
GrantListValid(n, gs) ==
    /\ \A g \in gs : ValidateOperationGrant(g, n)
    /\ \A g, h \in gs : (g.id = h.id \/ (g.principal = h.principal /\ g.tool = h.tool)) => g = h

(* A grant's expiry is a time and its path prefixes are lists of segments.   *)
GrantTyped(g) ==
    /\ g.expires \in Nat
    /\ \A t \in g.targets : \A p \in t.paths : Sequence(p)

Absent == [absent |-> TRUE]

(* A registration is absent or has all its fields, and the registry that was *)
(* loaded holds only the grant lists SetUpstreamGrants would take.           *)
RecordOK(n, rec) ==
    rec # Absent =>
        /\ DOMAIN rec = RecordFields
        /\ GrantListValid(n, rec.grants)
        /\ \A g \in rec.grants : GrantTyped(g)

(* What the proofs need of the inputs.  Nothing lies below a leaf of a JSON  *)
(* document, and a pointer is a list of tokens.                              *)
ASSUME InvocationAssumption ==
    /\ IsFiniteSet(Conns)
    /\ MultiPrincipal \in BOOLEAN
    /\ \A s \in Starts :
          /\ DOMAIN s.conns = Conns
          /\ \A n \in Conns : RecordOK(n, s.conns[n])
    /\ \A gs \in GrantLists : \A g \in gs : GrantTyped(g)
    /\ \A n \in Conns, rec \in Registrations : rec # Absent /\ RecordOK(n, rec)
    /\ MaxEras \in Nat
    /\ \A d \in Documents :
          /\ DOMAIN d = {"form", "gaps", "at"}
          /\ \A l \in DOMAIN d.at : Sequence(l)
          /\ \A l, m \in DOMAIN d.at : IsPrefix(l, m) => l = m

VARIABLES
    assured,   \* --high-assurance-multi-user
    conns,     \* reg.conns
    minimize,  \* the connections whose effective policy protects something
    tokens,    \* TokenStore: <<caller, connection, secret>>
    now,       \* 0, then 1: the moment the short grants expire
    flights,   \* the executions of reads, any of which may still be in the cache
    call,      \* the call in progress
    runs,      \* its audit records, in order
    made, ops, \* calls begun, operator steps taken
    era,       \* history: how often each name was registered since the start
    surfaced   \* history: <<caller, connection, era, secret>> of the answers given

vars == <<assured, conns, minimize, tokens, now, flights, call, runs, made, ops, era, surfaced>>

history == <<era, surfaced>>

Shared == "shared"

NoCall == [pc |-> "idle"]

NoProgram == [on |-> FALSE, allowed |-> {}]

Registered(rec) == rec # Absent

-----------------------------------------------------------------------------
(* Classification.  A tool class is what its annotations and its name say:   *)
(* "claimed" is annotated read-only and named like a write.                  *)

(* isWriteTool *)
IsWriteTool(class) == class = "write"

(* isHighAssuranceWriteTool *)
IsHighAssuranceWriteTool(class) == class \in {"write", "claimed"}

HasTool(rec, tool) == tool \in DOMAIN rec.tools

(* matchingGrant *)
MatchingGrants(rec, c, tool) == {g \in rec.grants : g.principal = c /\ g.tool = tool}

IsGoverned(rec) == assured \/ (Registered(rec) /\ rec.grants # {})

SharedWritable(g) == g.resources # {} /\ \A r \in g.resources : r.shared

-----------------------------------------------------------------------------
(* Discovery: indexedToolsFor *)

(* connectionVisibleTo *)
VisibleTo(rec, c) ==
    /\ Registered(rec) /\ ~rec.revoked
    /\ rec.owner \in {Shared, c}
    /\ rec.delegated => c \in Emails

(* toolIndexable *)
ToolIndexable(rec, tool, c) ==
    \/ ~IsGoverned(rec)
    \/ \E g \in MatchingGrants(rec, c, tool) :
          /\ assured => g.highAssurance
          /\ rec.owner = Shared => g.allowShared
          /\ now < g.expires
          /\ (g.effect = "write") = IsHighAssuranceWriteTool(rec.tools[tool])
          /\ ~(rec.readOnly /\ g.effect = "write")
          /\ rec.owner = Shared /\ g.effect = "write" => SharedWritable(g)

(* callerToolIsInvocable, and the "invocable" of an index entry.             *)
Invocable(rec, tool, c) ==
    /\ rec.enabled
    /\ ~(rec.readOnly /\ IsWriteTool(rec.tools[tool]))
    /\ ToolIndexable(rec, tool, c)

(* indexedToolsFor: the entries a caller is shown as invocable.              *)
Listed(c, n, tool) ==
    VisibleTo(conns[n], c) /\ HasTool(conns[n], tool) /\ Invocable(conns[n], tool, c)

(* labelDistinguishes, labels being compared without case.                   *)
LabelDistinguishes(label, peers) == label # "" /\ \A p \in peers : conns[p].label # label

(* markAmbiguousCandidates: an entry that its label does not pick out of the *)
(* entries of its template and tool.                                         *)
MarkedAmbiguous(c, n, tool) ==
    LET group == {m \in Conns : Listed(c, m, tool) /\ conns[m].template = conns[n].template}
    IN  /\ conns[n].template # "" /\ Listed(c, n, tool)
        /\ Cardinality(group) > 1
        /\ ~LabelDistinguishes(conns[n].label, group \ {n})

(* A mutant: connections that could not answer the call count as peers.      *)
PeersAnyState(snap, c, n, tool) ==
    IF snap.template # "" /\ snap.enabled /\ ~snap.revoked /\ Registered(conns[n])
    THEN {m \in Conns \ {n} : VisibleTo(conns[m], c) /\ conns[m].template = conns[n].template}
    ELSE {}

(* indistinguishablePeers: read from the registry of the moment, not from    *)
(* the snapshot.                                                             *)
IndistinguishablePeers(snap, c, n, tool) ==
    IF /\ snap.template # "" /\ snap.enabled /\ ~snap.revoked
       /\ Registered(conns[n]) /\ HasTool(conns[n], tool) /\ Invocable(conns[n], tool, c)
    THEN {m \in Conns \ {n} :
            /\ VisibleTo(conns[m], c)
            /\ conns[m].template = conns[n].template
            /\ HasTool(conns[m], tool)
            /\ Invocable(conns[m], tool, c)}
    ELSE {}

Ambiguous(snap, c, n, tool) ==
    LET peers == IndistinguishablePeers(snap, c, n, tool)
    IN  peers # {} /\ ~LabelDistinguishes(snap.label, peers)

-----------------------------------------------------------------------------
(* The gates of invokeUpstream, on a snapshot. *)

(* connections another principal owns, and revoked ones, are as if absent.   *)
Hidden(rec, c) == ~Registered(rec) \/ rec.owner \notin {Shared, c} \/ rec.revoked

(* What the grant must say beyond its arguments. *)
GrantGate(rec, g, cl) ==
    /\ assured => g.highAssurance
    /\ rec.owner = Shared => g.allowShared
    /\ HasTool(rec, cl.tool)
    /\ (g.effect = "write") = IsHighAssuranceWriteTool(rec.tools[cl.tool])
    /\ ~(rec.readOnly /\ g.effect = "write")
    /\ cl.program.on => <<cl.name, cl.tool>> \in cl.program.allowed /\ g.effect = "read"
    /\ g.effect = "write" => g.resources # {}
    /\ rec.owner = Shared /\ g.effect = "write" => SharedWritable(g)

(* The grants the call may cross under, its arguments included.              *)
Crossing(rec, cl, doc) ==
    {g \in MatchingGrants(rec, cl.caller, cl.tool) :
        GrantGate(rec, g, cl) /\ EvaluateOperationGrant(g, cl.caller, cl.tool, doc, now)}

(* The answer of the gates: a governed refusal is always the same one.       *)
GateAnswer(rec, cl, doc) ==
    IF IsGoverned(rec)
    THEN IF ~Hidden(rec, cl.caller) /\ rec.enabled /\ Crossing(rec, cl, doc) # {}
         THEN "pass" ELSE "not authorized"
    ELSE IF Hidden(rec, cl.caller) THEN "unknown tool"
    ELSE IF ~rec.enabled THEN "not enabled"
    ELSE IF Ambiguous(rec, cl.caller, cl.name, cl.tool) THEN "ambiguous"
    ELSE "pass"

(* A mutant: the read-only switch is read from the live record.              *)
ProxyGateLive(rec, cl, doc) ==
    LET write == ~HasTool(rec, cl.tool) \/ IsWriteTool(rec.tools[cl.tool])
        live  == conns[cl.name]
    IN  /\ cl.program.on => <<cl.name, cl.tool>> \in cl.program.allowed /\ ~write
        /\ ~(Registered(live) /\ live.readOnly /\ write)
        /\ HasTool(rec, cl.tool) /\ write => ~doc.gaps

(* The gates of proxyCall, before anything is dialed. *)
ProxyGate(rec, cl, doc) ==
    LET write == ~HasTool(rec, cl.tool) \/ IsWriteTool(rec.tools[cl.tool])
    IN  /\ cl.program.on => <<cl.name, cl.tool>> \in cl.program.allowed /\ ~write
        /\ ~(rec.readOnly /\ write)
        /\ HasTool(rec, cl.tool) /\ write => ~doc.gaps

(* Whether the registry of one moment lets the call through, ties aside:     *)
(* written out from one record, as a reference for the gates.                *)
Allows(rec, cl, doc) ==
    /\ ~Hidden(rec, cl.caller) /\ rec.enabled
    /\ IsGoverned(rec) => Crossing(rec, cl, doc) # {}
    /\ rec.delegated => cl.caller \in Emails
    /\ \/ HasTool(rec, cl.tool) /\ ~IsWriteTool(rec.tools[cl.tool])
       \/ ~rec.readOnly /\ ~cl.program.on /\ (HasTool(rec, cl.tool) => ~doc.gaps)
    /\ cl.program.on => <<cl.name, cl.tool>> \in cl.program.allowed

(* A mutant: bindings are looked up by caller alone.                         *)
ResolveAnywhere(c, n, doc) ==
    [doc EXCEPT !.at = [l \in DOMAIN doc.at |->
        LET leaf == doc.at[l]
        IN  IF leaf.kind = "hole" /\ \E m \in Conns : <<c, m, leaf.secret>> \in tokens
            THEN [kind |-> "text", text |-> leaf.secret] ELSE leaf]]

(* resolveOutbound: placeholders of this caller and this connection become   *)
(* the values they stand for.                                                *)
ResolveOutbound(c, n, doc) ==
    [doc EXCEPT !.at = [l \in DOMAIN doc.at |->
        LET leaf == doc.at[l]
        IN  IF leaf.kind = "hole" /\ <<c, n, leaf.secret>> \in tokens
            THEN [kind |-> "text", text |-> leaf.secret] ELSE leaf]]

-----------------------------------------------------------------------------
(* The call. *)

(* callTool: a transform that does not parse is answered at once.            *)
CallTool ==
    /\ call.pc = "idle" /\ made < MaxCalls
    /\ \E c \in Callers, n \in Conns, t \in {"r", "w"}, d \in Documents, f \in {"none", "query", "bad"} :
       \E p \in {NoProgram, [on |-> TRUE, allowed |-> {<<n, "r">>}]} :
        /\ f # "none" => ~p.on
        /\ call' = [pc |-> IF f = "bad" THEN "done" ELSE "named",
                    caller |-> c, name |-> n, tool |-> t, doc |-> d, program |-> p, fused |-> f,
                    snap |-> Absent, sent |-> d, grant |-> {}, egress |-> "none", era |-> 0,
                    answer |-> IF f = "bad" THEN "bad transform" ELSE "",
                    could |-> FALSE]
    /\ runs' = <<>> /\ made' = made + 1
    /\ UNCHANGED <<assured, conns, minimize, tokens, now, flights, ops, history>>

(* snapshotUpstream *)
SnapshotUpstream ==
    /\ call.pc = "named"
    /\ call' = [call EXCEPT !.pc = "snapshot", !.snap = conns[call.name], !.era = era[call.name],
                            !.could = Allows(conns[call.name], call,
                                             ResolveOutbound(call.caller, call.name, call.doc))]
    /\ UNCHANGED <<assured, conns, minimize, tokens, now, flights, runs, made, ops, history>>

(* recordProxy: what the audit record says of the call's egress, arguments   *)
(* and resources.                                                            *)
RecordProxy(egress) ==
    [kind      |-> "proxy",
     egress    |-> egress,
     values    |-> call.grant = {} /\ (~MultiPrincipal \/ call.snap.full),
     resources |-> UNION {{OpaqueResourceID(g, call.sent, r) : r \in g.resources} : g \in call.grant}]

(* recordGovernedDenial *)
Denial == [kind |-> "decision", egress |-> FALSE, values |-> FALSE, resources |-> {}]

DenialOf(rec) == IF IsGoverned(rec) THEN <<Denial>> ELSE <<>>

(* The gates refuse: one answer, and a record if the connection is governed. *)
Refuse ==
    LET doc == ResolveOutbound(call.caller, call.name, call.doc)
        ans == GateAnswer(call.snap, call, doc)
    IN  /\ call.pc = "snapshot"
        /\ ans # "pass"
        /\ call' = [call EXCEPT !.pc = "done", !.answer = ans]
        /\ runs' = runs \o DenialOf(call.snap)
        /\ UNCHANGED <<assured, conns, minimize, tokens, now, flights, made, ops, history>>

(* authorizeDecision says no: DecisionLedger is the module of its reasons.   *)
LedgerRefuses ==
    /\ call.pc = "snapshot" /\ IsGoverned(call.snap)
    /\ GateAnswer(call.snap, call, ResolveOutbound(call.caller, call.name, call.doc)) = "pass"
    /\ call' = [call EXCEPT !.pc = "done", !.answer = "not authorized"]
    /\ runs' = runs \o DenialOf(call.snap)
    /\ UNCHANGED <<assured, conns, minimize, tokens, now, flights, made, ops, history>>

(* A mutant: the grant is evaluated on what the agent wrote, and the         *)
(* placeholders are resolved afterwards.                                     *)
AuthorizeThenResolve ==
    LET doc == ResolveOutbound(call.caller, call.name, call.doc)
    IN  /\ call.pc = "snapshot"
        /\ GateAnswer(call.snap, call, call.doc) = "pass"
        /\ call' = [call EXCEPT !.pc = "proxy", !.sent = doc,
                                !.grant = IF IsGoverned(call.snap)
                                          THEN Crossing(call.snap, call, call.doc) ELSE {}]
        /\ UNCHANGED <<assured, conns, minimize, tokens, now, flights, runs, made, ops, history>>

(* The gates and the ledger let the call through, with its resolved          *)
(* arguments.                                                                *)
Authorize ==
    LET doc == ResolveOutbound(call.caller, call.name, call.doc)
    IN  /\ call.pc = "snapshot"
        /\ GateAnswer(call.snap, call, doc) = "pass"
        /\ call' = [call EXCEPT !.pc = "proxy", !.sent = doc,
                                !.grant = IF IsGoverned(call.snap)
                                          THEN Crossing(call.snap, call, doc) ELSE {}]
        /\ UNCHANGED <<assured, conns, minimize, tokens, now, flights, runs, made, ops, history>>

NoIdentity == call.snap.delegated /\ call.caller \notin Emails

(* A delegated connection has nobody to act as, or a gate of proxyCall       *)
(* refuses: nothing is dialed, and the record says so.                       *)
RefuseToDial ==
    /\ call.pc = "proxy"
    /\ NoIdentity \/ ~ProxyGate(call.snap, call, call.sent)
    /\ call' = [call EXCEPT !.pc = "done",
                            !.answer = IF NoIdentity THEN "no identity" ELSE "refused"]
    /\ runs' = Append(runs, RecordProxy(FALSE))
    /\ UNCHANGED <<assured, conns, minimize, tokens, now, flights, made, ops, history>>

Reads(cl) == HasTool(cl.snap, cl.tool) /\ ~IsWriteTool(cl.snap.tools[cl.tool])

(* An execution of a read, for whom and of what, and the registration it was *)
(* made under.                                                               *)
Flight(cl) == [caller |-> cl.caller, name |-> cl.name, tool |-> cl.tool, args |-> cl.sent,
               era |-> cl.era]

(* A mutant: the key leaves out the caller.                                  *)
KeyWithoutCaller(f) == <<f.name, f.tool, f.args>>

(* inflightKey *)
InflightKey(f) == <<f.caller, f.name, f.tool, f.args>>

(* The gates of proxyCall are behind.  A write, and a read that starts an    *)
(* execution, is sent to the upstream, or is not because the connection's    *)
(* bearer fails before the request is made; a read may instead join an       *)
(* earlier execution of its key, or be given its result (to join one that    *)
(* fails on its bearer is to fail on it).                                    *)
Dial(how) ==
    /\ call.pc = "proxy"
    /\ ~NoIdentity /\ ProxyGate(call.snap, call, call.sent)
    /\ \/ /\ how \in {"sent", "unsent"}
          /\ call' = [call EXCEPT !.pc = "waiting", !.egress = how]
          /\ flights' = IF how = "sent" /\ Reads(call) THEN flights \cup {Flight(call)} ELSE flights
       \/ /\ how = "shared" /\ Reads(call)
          /\ \E f \in flights :
                /\ InflightKey(f) = InflightKey(Flight(call))
                /\ call' = [call EXCEPT !.pc = "waiting", !.egress = how, !.era = f.era]
          /\ UNCHANGED flights
    /\ UNCHANGED <<assured, conns, minimize, tokens, now, runs, made, ops, history>>

-----------------------------------------------------------------------------
(* The result. *)

(* fetchOffload: under a grant every hop must be granted.                    *)
Fetched(resp) == resp.fetched /\ \A g \in call.grant : OffloadGranted(g, resp.link)

(* What proxyCall and fusedProxyResult make of a response: withheld, parked  *)
(* behind a reference, or inline.  "scan" and "ran" are the minimizer and    *)
(* the transformation engine succeeding.                                     *)
Outcome(resp, scan, ran) ==
    IF \/ resp.kind \in {"fail", "malformed"}
       \/ \E g \in call.grant : resp.wire > g.maxResponse
       \/ resp.kind # "error" /\ resp.link # <<>> /\ ~Fetched(resp) THEN "withheld"
    ELSE IF resp.kind = "error" THEN (IF scan THEN "scrubbed" ELSE "withheld")
    ELSE IF call.fused = "query"
         THEN IF resp.truncated \/ ~ran \/ ~scan THEN "withheld"
              ELSE IF resp.size > MaxBytes THEN "parked scrubbed" ELSE "scrubbed"
    ELSE IF resp.truncated THEN "notice"
    ELSE IF resp.size > MaxBytes THEN "parked"
    ELSE IF resp.link # <<>> THEN "rehydrated"
    ELSE IF scan THEN "scrubbed" ELSE "withheld"

(* The TokenScope of the bindings a scan made. *)
Bindings(resp) == {<<call.caller, call.name, s>> : s \in resp.secrets}

(* The call returns: scrubInbound keeps a binding for every value it         *)
(* replaced, and the one audit record is written.                            *)
Respond(resp, scan, ran) ==
    LET out  == Outcome(resp, scan, ran)
        acts == call.name \in minimize
    IN  /\ call.pc = "waiting"
        /\ call.egress = "unsent" => resp.kind = "fail"
        /\ ~acts => scan
        /\ call.fused = "none" => ran
        /\ tokens' = IF acts /\ out \in {"scrubbed", "parked scrubbed"}
                     THEN tokens \cup Bindings(resp)
                     ELSE tokens
        /\ surfaced' = IF out = "withheld" THEN surfaced
                       ELSE surfaced \cup {<<call.caller, call.name, call.era, s>> : s \in resp.secrets}
        /\ call' = [call EXCEPT !.pc = "done", !.answer = out]
        /\ runs' = Append(runs, RecordProxy(TRUE))
        /\ UNCHANGED <<assured, conns, minimize, now, flights, made, ops, era>>

(* The client stops waiting for a read: recorded as an egress, not aborted.  *)
Cancel ==
    /\ call.pc = "waiting"
    /\ Reads(call)
    /\ call' = [call EXCEPT !.pc = "done", !.answer = "still running"]
    /\ runs' = Append(runs, RecordProxy(TRUE))
    /\ UNCHANGED <<assured, conns, minimize, tokens, now, flights, made, ops, history>>

Return ==
    /\ call.pc = "done"
    /\ call' = NoCall /\ runs' = <<>>
    /\ UNCHANGED <<assured, conns, minimize, tokens, now, flights, made, ops, history>>

-----------------------------------------------------------------------------
(* The operator, each edit under the registry lock. *)

Edit(n, rec) ==
    /\ ops < MaxOps /\ ops' = ops + 1
    /\ conns' = [conns EXCEPT ![n] = rec]
    /\ UNCHANGED <<assured, minimize, tokens, now, flights, call, runs, made, history>>

SetUpstreamReadOnly(n) == Registered(conns[n]) /\ Edit(n, [conns[n] EXCEPT !.readOnly = ~@])

SetUpstreamAuditFullArgs(n) == Registered(conns[n]) /\ Edit(n, [conns[n] EXCEPT !.full = ~@])

SetUpstreamLabel(n, label) == Registered(conns[n]) /\ Edit(n, [conns[n] EXCEPT !.label = label])

(* A self-service connection keeps its owner. *)
SetUpstreamOwner(n, owner) ==
    /\ Registered(conns[n])
    /\ conns[n].template # "" => owner = conns[n].owner
    /\ Edit(n, [conns[n] EXCEPT !.owner = owner])

DisableUpstream(n) == Registered(conns[n]) /\ Edit(n, [conns[n] EXCEPT !.enabled = FALSE])

RevokeUpstream(n) ==
    Registered(conns[n]) /\ Edit(n, [conns[n] EXCEPT !.enabled = FALSE, !.revoked = TRUE])

(* The last, locked part of EnableUpstream and RefreshUpstream, whose tool   *)
(* list was read before: Connections is the module of the races between.     *)
EnableUpstream(n, tools) ==
    /\ Registered(conns[n]) /\ ~conns[n].enabled /\ ~conns[n].revoked
    /\ Edit(n, [conns[n] EXCEPT !.enabled = TRUE, !.tools = tools])

RefreshUpstream(n, tools) ==
    /\ Registered(conns[n]) /\ ~conns[n].revoked
    /\ Edit(n, [conns[n] EXCEPT !.tools = tools])

SetUpstreamGrants(n, gs) ==
    /\ Registered(conns[n]) /\ GrantListValid(n, gs)
    /\ Edit(n, [conns[n] EXCEPT !.grants = gs])

(* The bindings of the name stay: the token store is keyed by it.            *)
RemoveUpstream(n) == Registered(conns[n]) /\ Edit(n, Absent)

(* registerUpstream: a name is free again once its connection was removed.   *)
RegisterUpstream(n, rec) ==
    /\ ~Registered(conns[n]) /\ era[n] < MaxEras
    /\ conns' = [conns EXCEPT ![n] = rec]
    /\ era' = [era EXCEPT ![n] = @ + 1]
    /\ UNCHANGED <<assured, minimize, tokens, now, flights, call, runs, made, ops, surfaced>>

SetMinimizePolicy(n) ==
    /\ ops < MaxOps /\ ops' = ops + 1
    /\ minimize' = IF n \in minimize THEN minimize \ {n} ELSE minimize \cup {n}
    /\ UNCHANGED <<assured, conns, tokens, now, flights, call, runs, made, history>>

(* Time passes: the short grants expire.  Nothing reads the clock once the   *)
(* gates are behind.                                                         *)
Tick ==
    /\ now = 0 /\ now' = 1 /\ call.pc \in {"idle", "named", "snapshot"}
    /\ UNCHANGED <<assured, conns, minimize, tokens, flights, call, runs, made, ops, history>>

Init ==
    /\ \E s \in Starts : conns = s.conns /\ assured = s.assured
    /\ minimize = Conns
    /\ tokens = {} /\ now = 0
    /\ flights = {} /\ call = NoCall /\ runs = <<>>
    /\ made = 0 /\ ops = 0
    /\ era = [n \in Conns |-> 0] /\ surfaced = {}

Serve ==
    \/ CallTool \/ SnapshotUpstream \/ Refuse \/ LedgerRefuses \/ Authorize
    \/ RefuseToDial \/ Cancel \/ Return
    \/ \E how \in {"sent", "unsent", "shared"} : Dial(how)
    \/ \E resp \in Responses, scan, ran \in BOOLEAN : Respond(resp, scan, ran)

Operate ==
    \E n \in Conns :
        \/ SetUpstreamReadOnly(n) \/ SetUpstreamAuditFullArgs(n)
        \/ \E l \in {"", "prod"} : SetUpstreamLabel(n, l)
        \/ \E o \in Callers \cup {Shared} : SetUpstreamOwner(n, o)
        \/ DisableUpstream(n) \/ RevokeUpstream(n) \/ RemoveUpstream(n)
        \/ \E tools \in Classes : EnableUpstream(n, tools) \/ RefreshUpstream(n, tools)
        \/ \E gs \in GrantLists : SetUpstreamGrants(n, gs)
        \/ \E rec \in Registrations : RegisterUpstream(n, rec)
        \/ SetMinimizePolicy(n)

Next == Serve \/ Operate \/ Tick

Spec == Init /\ [][Next]_vars

-----------------------------------------------------------------------------
(* Properties. *)

(* The call is in a known step and its sets hold what they should.           *)
TypeOK ==
    /\ call.pc \in {"idle", "named", "snapshot", "proxy", "waiting", "done"}
    /\ \A n \in Conns : Registered(conns[n]) => conns[n].owner \in Callers \cup {Shared}
    /\ minimize \subseteq Conns
    /\ tokens \subseteq Callers \X Conns \X Secrets
    /\ assured \in BOOLEAN
    /\ now \in 0..1 /\ made \in 0..MaxCalls /\ ops \in 0..MaxOps

Active == call.pc # "idle"

(* The call is past every gate: it was sent, it failed on its bearer, or it  *)
(* shares an execution.                                                      *)
Crossed == Active /\ call.egress # "none"

(* A call that leaves the gateway, or is given the result of another, was    *)
(* allowed, by every gate but the tie check, under the registry of one       *)
(* single moment, that of its snapshot: edits that land in between           *)
(* (read-only, disable, revoke, new owner, new grants, new tool classes, a   *)
(* new registration) never combine into a permission that was never given.   *)
EgressWasAllowed == Crossed => call.could

(* What a grant says of one argument, leaf by leaf: a reference for the      *)
(* walk, the pointers and the array handling of evaluateOperationGrant.      *)
LeafConstrained(g, doc, l) ==
    \E r \in g.arguments :
        LET leaf == doc.at[l] IN
        /\ IsPrefix(r.pointer, l)
        /\ leaf.kind # "null"
        /\ r.admits # {} => leaf.text \in r.admits
        /\ leaf.kind = "url" <=> r.target # NoTarget
        /\ leaf.kind = "url" =>
              \E t \in g.targets :
                  /\ t.id = r.target /\ leaf.url.normal /\ leaf.url.origin \in t.origins
                  /\ leaf.url.query = t.query
                  /\ t.paths = {} \/ \E p \in t.paths : SubSeq(leaf.url.path, 1, Len(p)) = p

(* Every scalar leaf is covered by a pointer with a value, a pattern or a    *)
(* URL target.                                                               *)
LeafAdmitted(g, doc, l) == doc.at[l].kind = "empty" \/ LeafConstrained(g, doc, l)

(* A leaf that a resource of the grant takes its value from.                 *)
NamedByResource(g, doc, l) == \E r \in g.resources : r.argument = l /\ Scalar(doc.at[l])

(* On a governed connection what is sent, after placeholders were resolved,  *)
(* is what the one matching grant admits, leaf by leaf.  A leaf that only a  *)
(* resource names may hold any value (rejectUngovernedArguments lets it by   *)
(* and no rule reads it), and the resource's id is then on the call's        *)
(* record: the documents know no such leaf.                                  *)
EgressGoverned ==
    Crossed /\ IsGoverned(call.snap) =>
        /\ Cardinality(call.grant) = 1
        /\ \A g \in call.grant :
              /\ \A l \in DOMAIN call.sent.at :
                    LeafAdmitted(g, call.sent, l) \/ NamedByResource(g, call.sent, l)
              /\ \A i \in DOMAIN runs, r \in g.resources :
                    OpaqueResourceID(g, call.sent, r) \in runs[i].resources

(* A secret that the agent only held as a placeholder leaves only in a call  *)
(* of a caller who was given an answer that held it, to a connection of the  *)
(* name that answered.  The name may have been registered anew since: it     *)
(* need not be the registration that answered.                               *)
PlaceholderScoped ==
    Active /\ call.egress = "sent" =>
        \A l \in DOMAIN call.sent.at :
            call.doc.at[l].kind = "hole" /\ call.sent.at[l].kind # "hole" =>
                \E e \in 0..call.era :
                    <<call.caller, call.name, e, call.doc.at[l].secret>> \in surfaced

(* Every call that passed the gates, and every governed refusal, has exactly *)
(* one record when it is answered.  The record names an egress exactly when  *)
(* the gates were behind: whenever a request left, and also when a read was  *)
(* answered from an execution of the same caller, tool and arguments, or the *)
(* bearer failed.  It holds argument values only of an ungoverned call, with *)
(* several principals only where the operator opted up.                      *)
OutcomeRecorded ==
    /\ call.pc = "done" =>
        /\ Len(runs) =
              IF call.answer \in {"unknown tool", "not enabled", "ambiguous", "bad transform"}
              THEN 0 ELSE 1
        /\ \A i \in DOMAIN runs :
              /\ runs[i].egress = (call.egress # "none")
              /\ runs[i].values => ~IsGoverned(call.snap) /\ (MultiPrincipal => call.snap.full)
    /\ Active /\ call.egress = "shared" =>
        \E f \in flights : f.caller = call.caller /\ f.name = call.name
                         /\ f.tool = call.tool /\ f.args = call.sent

(* Discovery and invocation agree: a retained tool that the gates would let  *)
(* through is in the caller's index, and an ungoverned call is refused as    *)
(* ambiguous exactly when its entry is marked so.                            *)
DiscoveryAgrees ==
    \A c \in Callers, n \in Conns, t \in {"r", "w"} :
        LET cl == [caller |-> c, name |-> n, tool |-> t, program |-> NoProgram]
        IN  Registered(conns[n]) /\ HasTool(conns[n], t) =>
              /\ ~Listed(c, n, t) => \A d \in Documents : ~Allows(conns[n], cl, d)
              /\ ~IsGoverned(conns[n]) /\ ~conns[n].delegated =>
                    (GateAnswer(conns[n], cl, [at |-> <<>>]) = "ambiguous") = MarkedAmbiguous(c, n, t)

-----------------------------------------------------------------------------
(* The inductive invariant behind the properties. *)

CallFields ==
    {"pc", "caller", "name", "tool", "doc", "program", "fused", "snap", "sent", "grant",
     "egress", "era", "answer", "could"}

(* Every registration is well formed, the snapshot of the call among them.   *)
RecordsOK ==
    /\ DOMAIN conns = Conns
    /\ \A n \in Conns : RecordOK(n, conns[n])

CallOK ==
    Active =>
        /\ DOMAIN call = CallFields
        /\ call.name \in Conns /\ call.doc \in Documents
        /\ RecordOK(call.name, call.snap)
        /\ call.egress \in {"none", "sent", "unsent", "shared"}
        /\ call.era \in Nat

(* Where a call stands: nothing has left before Dial, and nothing is on      *)
(* record before the answer.                                                 *)
Staged ==
    /\ call.pc \in {"idle", "named", "snapshot", "proxy", "waiting", "done"}
    /\ call.pc \in {"named", "snapshot", "proxy"} => call.egress = "none"
    /\ call.pc = "waiting" => call.egress # "none"
    /\ call.pc # "done" => runs = <<>>

(* The gates still to pass allow no more than the snapshot's moment did:     *)
(* time only takes grants away.                                              *)
GatesNarrow ==
    /\ call.pc = "snapshot" =>
          (Allows(call.snap, call, ResolveOutbound(call.caller, call.name, call.doc)) => call.could)
    /\ call.pc = "proxy" => (~NoIdentity /\ ProxyGate(call.snap, call, call.sent) => call.could)

(* Every binding comes from an answer its caller was given, under a          *)
(* registration of the name that is not later than the present one, nor than *)
(* that of a call whose placeholders are still to be resolved.               *)
BindingsSurfaced ==
    /\ era \in [Conns -> Nat]
    /\ \A f \in flights : f.name \in Conns /\ f.era \in 0..era[f.name]
    /\ \A b \in tokens :
          b[2] \in Conns /\ \E e \in 0..era[b[2]] : <<b[1], b[2], e, b[3]>> \in surfaced
    /\ call.pc = "snapshot" =>
          \A b \in tokens : b[2] = call.name =>
              \E e \in 0..call.era : <<b[1], b[2], e, b[3]>> \in surfaced

(* The call is of the present registration or an earlier one, and the        *)
(* placeholders resolved so far are of answers given before it.              *)
ResolvedInScope ==
    Active =>
        /\ call.era <= era[call.name]
        /\ call.egress # "shared" =>
              \A l \in DOMAIN call.sent.at :
                call.doc.at[l].kind = "hole" /\ call.sent.at[l].kind # "hole" =>
                    \E e \in 0..call.era :
                        <<call.caller, call.name, e, call.doc.at[l].secret>> \in surfaced

(* Past the gates, a governed call holds the one grant it crosses under, and *)
(* the grant admits what is sent.                                            *)
CrossesUnderGrant ==
    Active /\ (call.pc \in {"proxy", "waiting"} \/ call.egress # "none") /\ IsGoverned(call.snap) =>
        /\ Cardinality(call.grant) = 1
        /\ \A g \in call.grant :
              /\ \A l \in DOMAIN call.sent.at :
                    LeafAdmitted(g, call.sent, l) \/ NamedByResource(g, call.sent, l)
              /\ \A i \in DOMAIN runs, r \in g.resources :
                    OpaqueResourceID(g, call.sent, r) \in runs[i].resources

IInv ==
    /\ RecordsOK /\ CallOK /\ Staged /\ GatesNarrow /\ BindingsSurfaced /\ ResolvedInScope
    /\ CrossesUnderGrant /\ EgressWasAllowed /\ OutcomeRecorded
=============================================================================
