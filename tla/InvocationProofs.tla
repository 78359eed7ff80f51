-------------------------- MODULE InvocationProofs --------------------------
(* Proofs about Invocation: that a call which leaves the gateway was allowed *)
(* at the moment of its snapshot, what it carries under a grant, and what is *)
(* on record of it, for every registry, document and grant list.             *)
EXTENDS Invocation, FiniteSetTheorems, SequenceTheorems, TLAPS

-----------------------------------------------------------------------------
(* Sequences. *)

(* A sequence is a sequence over some set. *)
LEMMA SequencePicks ==
    ASSUME NEW s, Sequence(s)
    PROVE  /\ Len(s) \in Nat
           /\ DOMAIN s = 1..Len(s)
           /\ SubSeq(s, 1, Len(s)) = s
<1> DEFINE S == {s[i] : i \in DOMAIN s}
<1>1. s \in Seq(S)
    BY DEF Sequence
<1> HIDE DEF S
<1> QED BY <1>1, SMT

(* What is cut off a sequence at the front is a prefix of it. *)
LEMMA FrontIsPrefix ==
    ASSUME NEW l, Sequence(l), NEW k \in 1..Len(l)
    PROVE  IsPrefix(SubSeq(l, 1, k), l)
<1> DEFINE S == {l[i] : i \in DOMAIN l}
           p == SubSeq(l, 1, k)
<1>1. l \in Seq(S)
    BY DEF Sequence
<1> HIDE DEF S
<1>2. Len(l) \in Nat /\ k \in Nat /\ k <= Len(l)
    BY <1>1, SMT
<1>3. p \in Seq(S) /\ Len(p) = k
    BY <1>1, <1>2, SMT
<1> HIDE DEF p
<1>4. SubSeq(p, 1, k) = p
    BY <1>3, SMT
<1>5. SubSeq(p, 1, Len(p)) = SubSeq(l, 1, Len(p))
    BY <1>3, <1>4 DEF p
<1> QED BY <1>2, <1>3, <1>5 DEF IsPrefix, p

-----------------------------------------------------------------------------
(* What a grant lets through. *)

(* A document as the walk of evaluateOperationGrant may assume it.           *)
DocumentOK(doc) ==
    /\ \A l \in DOMAIN doc.at : Sequence(l)
    /\ \A l, m \in DOMAIN doc.at : IsPrefix(l, m) => l = m

(* validateGrantedURL on a leaf says what the reference definition says.     *)
LEMMA GrantedURL ==
    ASSUME NEW u, NEW t, \A p \in t.paths : Sequence(p), ValidateGrantedURL(u, t)
    PROVE  /\ u.normal /\ u.origin \in t.origins /\ u.query = t.query
           /\ t.paths = {} \/ \E p \in t.paths : SubSeq(u.path, 1, Len(p)) = p
<1>1. ASSUME t.paths # {}
      PROVE  \E p \in t.paths : SubSeq(u.path, 1, Len(p)) = p
  <2>1. PICK p \in t.paths : IsPrefix(p, u.path)
      BY <1>1 DEF ValidateGrantedURL
  <2>2. SubSeq(p, 1, Len(p)) = p
      BY <2>1, SequencePicks
  <2> QED BY <2>1, <2>2 DEF IsPrefix
<1> QED BY <1>1 DEF ValidateGrantedURL

(* The rule of an argument constrains every leaf below its pointer.          *)
LEMMA RuleConstrains ==
    ASSUME NEW g, NEW doc, NEW r \in g.arguments, NEW l \in DOMAIN doc.at,
           GrantTyped(g), IsPrefix(r.pointer, l), ValidateArgumentValue(doc, r, g.targets)
    PROVE  LeafConstrained(g, doc, l)
<1> DEFINE leaf == doc.at[l]
           values == FlattenScalars(doc, r.pointer)
<1>1. l \in Under(doc, r.pointer)
    BY DEF Under, Leaves
<1>2. values # {}
    BY DEF ValidateArgumentValue
<1>3. /\ Scalar(leaf)
      /\ leaf \in values
    BY <1>1, <1>2 DEF FlattenScalars
<1>4. /\ r.admits # {} => leaf.text \in r.admits
      /\ r.target = NoTarget => leaf.kind # "url"
      /\ r.target # NoTarget =>
            /\ leaf.kind = "url"
            /\ \E t \in FindURLTarget(g.targets, r.target) : ValidateGrantedURL(leaf.url, t)
    BY <1>3 DEF ValidateArgumentValue
<1>5. leaf.kind # "null"
    BY <1>3 DEF Scalar
<1>6. ASSUME leaf.kind = "url"
      PROVE  \E t \in g.targets :
                  /\ t.id = r.target /\ leaf.url.normal /\ leaf.url.origin \in t.origins
                  /\ leaf.url.query = t.query
                  /\ t.paths = {} \/ \E p \in t.paths : SubSeq(leaf.url.path, 1, Len(p)) = p
  <2>1. PICK t \in FindURLTarget(g.targets, r.target) : ValidateGrantedURL(leaf.url, t)
      BY <1>4, <1>6
  <2>2. t \in g.targets /\ t.id = r.target
      BY <2>1 DEF FindURLTarget
  <2>3. \A p \in t.paths : Sequence(p)
      BY <2>2 DEF GrantTyped
  <2>4. /\ leaf.url.normal /\ leaf.url.origin \in t.origins /\ leaf.url.query = t.query
        /\ t.paths = {} \/ \E p \in t.paths : SubSeq(leaf.url.path, 1, Len(p)) = p
      BY <2>1, <2>3, GrantedURL
  <2> QED BY <2>2, <2>4
<1> QED BY <1>4, <1>5, <1>6 DEF LeafConstrained

(* evaluateOperationGrant admits a document only if the grant admits each of *)
(* its leaves: the walk skips nothing, and a resource pointer that holds a   *)
(* scalar has nothing below it.                                              *)
LEMMA EvaluationAdmits ==
    ASSUME NEW g, NEW c, NEW tool, NEW doc, NEW time, NEW l \in DOMAIN doc.at,
           GrantTyped(g), DocumentOK(doc), EvaluateOperationGrant(g, c, tool, doc, time)
    PROVE  LeafAdmitted(g, doc, l) \/ NamedByResource(g, doc, l)
<1>1. CASE doc.at[l].kind = "empty"
    BY <1>1 DEF LeafAdmitted
<1>2. CASE doc.at[l].kind # "empty"
  <2>1. PICK k \in 1..Len(l) :
            SubSeq(l, 1, k) \in {r.pointer : r \in g.arguments}
                                \cup ({r.argument : r \in g.resources} \ {NoResourceArgument})
      BY <1>2 DEF EvaluateOperationGrant, Governed, Leaves
  <2>2. IsPrefix(SubSeq(l, 1, k), l)
      BY FrontIsPrefix DEF DocumentOK
  <2>3. CASE SubSeq(l, 1, k) \in {r.pointer : r \in g.arguments}
    <3>1. PICK r \in g.arguments : SubSeq(l, 1, k) = r.pointer
        BY <2>3
    <3>2. IsPrefix(r.pointer, l)
        BY <2>2, <3>1
    <3>3. Under(doc, r.pointer) # {}
        BY <3>2 DEF Under, Leaves
    <3>4. ValidateArgumentValue(doc, r, g.targets)
        BY <3>3 DEF EvaluateOperationGrant
    <3> QED BY <3>2, <3>4, RuleConstrains DEF LeafAdmitted
  <2>4. CASE SubSeq(l, 1, k) \in {r.argument : r \in g.resources} \ {NoResourceArgument}
    <3>1. PICK r \in g.resources : SubSeq(l, 1, k) = r.argument /\ r.argument # NoResourceArgument
        BY <2>4
    <3>2. r.argument \in DOMAIN doc.at /\ Scalar(doc.at[r.argument])
        BY <3>1 DEF EvaluateOperationGrant, ResourceHeld, Leaves
    <3>3. r.argument = l
        BY <2>2, <3>1, <3>2 DEF DocumentOK
    <3> QED BY <3>1, <3>2, <3>3 DEF NamedByResource
  <2> QED BY <2>1, <2>3, <2>4
<1> QED BY <1>1, <1>2

-----------------------------------------------------------------------------
(* The inductive invariant. *)

(* resolveOutbound keeps a document's leaves and touches only placeholders   *)
(* of this caller and this connection.                                       *)
LEMMA Resolved ==
    ASSUME NEW c, NEW n, NEW doc \in Documents
    PROVE  LET sent == ResolveOutbound(c, n, doc) IN
           /\ sent.gaps = doc.gaps
           /\ DOMAIN sent.at = DOMAIN doc.at
           /\ \A l \in DOMAIN doc.at :
                 sent.at[l] # doc.at[l] => <<c, n, doc.at[l].secret>> \in tokens
           /\ DocumentOK(sent)
<1> DEFINE at == [l \in DOMAIN doc.at |->
                     IF doc.at[l].kind = "hole" /\ <<c, n, doc.at[l].secret>> \in tokens
                     THEN [kind |-> "text", text |-> doc.at[l].secret] ELSE doc.at[l]]
           sent == ResolveOutbound(c, n, doc)
<1>1. DOMAIN doc = {"form", "gaps", "at"}
    BY InvocationAssumption
<1>2. sent = [doc EXCEPT !.at = at]
    BY DEF ResolveOutbound
<1>3. /\ DOMAIN at = DOMAIN doc.at
      /\ \A l \in DOMAIN doc.at :
            at[l] # doc.at[l] => <<c, n, doc.at[l].secret>> \in tokens
    OBVIOUS
<1> HIDE DEF at, sent
<1>4. sent.at = at /\ sent.gaps = doc.gaps
    BY <1>1, <1>2
<1>5. DocumentOK(doc)
    BY InvocationAssumption DEF DocumentOK
<1>6. DocumentOK(sent)
    BY <1>3, <1>4, <1>5 DEF DocumentOK
<1> QED BY <1>3, <1>4, <1>6 DEF sent

(* Everything but the registrations. *)
CallInv ==
    /\ CallOK /\ Staged /\ GatesNarrow /\ BindingsSurfaced /\ ResolvedInScope /\ CrossesUnderGrant
    /\ EgressWasAllowed /\ OutcomeRecorded

(* A step that leaves the call, its record, the tokens and the clock alone,  *)
(* and takes no registration back, keeps what is said of the call.           *)
LEMMA CallAlone ==
    ASSUME CallInv, UNCHANGED <<assured, tokens, now, flights, call, runs, surfaced>>,
           era' \in [Conns -> Nat], \A n \in Conns : era[n] <= era'[n]
    PROVE  CallInv'
<1>1. /\ Active' = Active /\ IsGoverned(call.snap)' = IsGoverned(call.snap) /\ NoIdentity' = NoIdentity
      /\ Crossed' = Crossed
    BY DEF Active, IsGoverned, NoIdentity, Crossed
<1>2. Allows(call.snap, call, ResolveOutbound(call.caller, call.name, call.doc))'
         = Allows(call.snap, call, ResolveOutbound(call.caller, call.name, call.doc))
    BY DEF Allows, IsGoverned, Crossing, GrantGate, ResolveOutbound
<1>3. CallOK' /\ Staged' /\ EgressWasAllowed'
    BY <1>1 DEF CallInv, CallOK, Staged, EgressWasAllowed
<1>4. GatesNarrow'
    BY <1>1, <1>2 DEF CallInv, GatesNarrow
<1>5. BindingsSurfaced'
  <2>1. era \in [Conns -> Nat]
      BY DEF CallInv, BindingsSurfaced
  <2>2. \A n \in Conns : 0..era[n] \subseteq 0..era'[n]
      BY <2>1
  <2> QED BY <2>1, <2>2 DEF CallInv, BindingsSurfaced
<1>6. ResolvedInScope'
  <2>1. era \in [Conns -> Nat]
      BY DEF CallInv, BindingsSurfaced
  <2>2. Active => call.name \in Conns /\ call.era \in Nat
      BY DEF CallInv, CallOK
  <2>3. Active => call.era <= era'[call.name]
      BY <2>1, <2>2 DEF CallInv, ResolvedInScope
  <2> QED BY <1>1, <2>3 DEF CallInv, ResolvedInScope
<1>7. CrossesUnderGrant'
    BY <1>1 DEF CallInv, CrossesUnderGrant
<1>8. OutcomeRecorded'
    BY <1>1 DEF CallInv, OutcomeRecorded
<1> QED BY <1>3, <1>4, <1>5, <1>6, <1>7, <1>8 DEF CallInv

(* Nothing is registered in most steps. *)
LEMMA SameEras ==
    ASSUME CallInv, era' = era
    PROVE  era' \in [Conns -> Nat] /\ \A n \in Conns : era[n] <= era'[n]
BY DEF CallInv, BindingsSurfaced

(* An edit replaces one registration by a well-formed one. *)
LEMMA EditKeeps ==
    ASSUME IInv, NEW n \in Conns, NEW rec, RecordOK(n, rec), Edit(n, rec)
    PROVE  IInv'
<1>1. RecordsOK'
    BY DEF IInv, RecordsOK, Edit
<1>2. CallInv /\ era' = era
    BY DEF IInv, CallInv, Edit, history
<1>3. CallInv'
    BY <1>2, CallAlone, SameEras DEF Edit, history
<1> QED BY <1>1, <1>3 DEF IInv, CallInv

(* The edits of a registered connection: all but SetUpstreamGrants leave its *)
(* grants as they are.                                                       *)
LEMMA OperateKeeps ==
    ASSUME IInv, Operate
    PROVE  IInv'
<1>1. PICK n \in Conns :
        \/ SetUpstreamReadOnly(n) \/ SetUpstreamAuditFullArgs(n)
        \/ \E l \in {"", "prod"} : SetUpstreamLabel(n, l)
        \/ \E o \in Callers \cup {Shared} : SetUpstreamOwner(n, o)
        \/ DisableUpstream(n) \/ RevokeUpstream(n) \/ RemoveUpstream(n)
        \/ \E tools \in Classes : EnableUpstream(n, tools) \/ RefreshUpstream(n, tools)
        \/ \E gs \in GrantLists : SetUpstreamGrants(n, gs)
        \/ \E rec \in Registrations : RegisterUpstream(n, rec)
        \/ SetMinimizePolicy(n)
    BY DEF Operate
<1> DEFINE old == conns[n]
<1>2. Registered(old) =>
        /\ DOMAIN old = RecordFields
        /\ GrantListValid(n, old.grants)
        /\ \A g \in old.grants : GrantTyped(g)
    BY DEF IInv, RecordsOK, RecordOK, Registered
<1>3. ASSUME NEW rec, Registered(old), DOMAIN rec = DOMAIN old, rec.grants = old.grants
      PROVE  RecordOK(n, rec)
    BY <1>2, <1>3 DEF RecordOK
<1>4. CASE SetUpstreamReadOnly(n)
  <2> DEFINE rec == [old EXCEPT !.readOnly = ~@]
  <2>a. Registered(old)
      BY <1>4 DEF SetUpstreamReadOnly
  <2>b. DOMAIN rec = DOMAIN old /\ rec.grants = old.grants
      BY <1>2, <2>a DEF RecordFields
  <2>1. RecordOK(n, rec)
      BY <1>3, <2>a, <2>b
  <2> QED BY <1>4, <2>1, EditKeeps DEF SetUpstreamReadOnly
<1>5. CASE SetUpstreamAuditFullArgs(n)
  <2> DEFINE rec == [old EXCEPT !.full = ~@]
  <2>a. Registered(old)
      BY <1>5 DEF SetUpstreamAuditFullArgs
  <2>b. DOMAIN rec = DOMAIN old /\ rec.grants = old.grants
      BY <1>2, <2>a DEF RecordFields
  <2>1. RecordOK(n, rec)
      BY <1>3, <2>a, <2>b
  <2> QED BY <1>5, <2>1, EditKeeps DEF SetUpstreamAuditFullArgs
<1>6. CASE \E l \in {"", "prod"} : SetUpstreamLabel(n, l)
  <2>1. PICK l \in {"", "prod"} : SetUpstreamLabel(n, l)
      BY <1>6
  <2> DEFINE rec == [old EXCEPT !.label = l]
  <2>a. Registered(old)
      BY <2>1 DEF SetUpstreamLabel
  <2>b. DOMAIN rec = DOMAIN old /\ rec.grants = old.grants
      BY <1>2, <2>a DEF RecordFields
  <2>2. RecordOK(n, rec)
      BY <1>3, <2>a, <2>b
  <2> QED BY <2>1, <2>2, EditKeeps DEF SetUpstreamLabel
<1>7. CASE \E o \in Callers \cup {Shared} : SetUpstreamOwner(n, o)
  <2>1. PICK o \in Callers \cup {Shared} : SetUpstreamOwner(n, o)
      BY <1>7
  <2> DEFINE rec == [old EXCEPT !.owner = o]
  <2>a. Registered(old)
      BY <2>1 DEF SetUpstreamOwner
  <2>b. DOMAIN rec = DOMAIN old /\ rec.grants = old.grants
      BY <1>2, <2>a DEF RecordFields
  <2>2. RecordOK(n, rec)
      BY <1>3, <2>a, <2>b
  <2> QED BY <2>1, <2>2, EditKeeps DEF SetUpstreamOwner
<1>8. CASE DisableUpstream(n)
  <2> DEFINE rec == [old EXCEPT !.enabled = FALSE]
  <2>a. Registered(old)
      BY <1>8 DEF DisableUpstream
  <2>b. DOMAIN rec = DOMAIN old /\ rec.grants = old.grants
      BY <1>2, <2>a DEF RecordFields
  <2>1. RecordOK(n, rec)
      BY <1>3, <2>a, <2>b
  <2> QED BY <1>8, <2>1, EditKeeps DEF DisableUpstream
<1>9. CASE RevokeUpstream(n)
  <2> DEFINE rec == [old EXCEPT !.enabled = FALSE, !.revoked = TRUE]
  <2>a. DOMAIN rec = DOMAIN old /\ rec.grants = old.grants
      BY <1>2, <1>9 DEF RevokeUpstream, RecordFields
  <2> HIDE DEF rec
  <2>1. RecordOK(n, rec)
      BY <1>3, <1>9, <2>a DEF RevokeUpstream
  <2> USE DEF rec
  <2> QED BY <1>9, <2>1, EditKeeps DEF RevokeUpstream
<1>10. CASE RemoveUpstream(n)
  <2>1. RecordOK(n, Absent)
      BY DEF RecordOK
  <2> QED BY <1>10, <2>1, EditKeeps DEF RemoveUpstream
<1>11. CASE \E tools \in Classes : EnableUpstream(n, tools) \/ RefreshUpstream(n, tools)
  <2>1. PICK tools \in Classes : EnableUpstream(n, tools) \/ RefreshUpstream(n, tools)
      BY <1>11
  <2>2. CASE EnableUpstream(n, tools)
    <3> DEFINE rec == [old EXCEPT !.enabled = TRUE, !.tools = tools]
    <3>a. Registered(old)
        BY <2>2 DEF EnableUpstream
    <3>b. DOMAIN rec = DOMAIN old /\ rec.grants = old.grants
        BY <1>2, <3>a DEF RecordFields
    <3>1. RecordOK(n, rec)
        BY <1>3, <3>a, <3>b
    <3> QED BY <2>2, <3>1, EditKeeps DEF EnableUpstream
  <2>3. CASE RefreshUpstream(n, tools)
    <3> DEFINE rec == [old EXCEPT !.tools = tools]
    <3>a. Registered(old)
        BY <2>3 DEF RefreshUpstream
    <3>b. DOMAIN rec = DOMAIN old /\ rec.grants = old.grants
        BY <1>2, <3>a DEF RecordFields
    <3>1. RecordOK(n, rec)
        BY <1>3, <3>a, <3>b
    <3> QED BY <2>3, <3>1, EditKeeps DEF RefreshUpstream
  <2> QED BY <2>1, <2>2, <2>3
<1>12. CASE \E gs \in GrantLists : SetUpstreamGrants(n, gs)
  <2>1. PICK gs \in GrantLists : SetUpstreamGrants(n, gs)
      BY <1>12
  <2> DEFINE rec == [old EXCEPT !.grants = gs]
  <2>2. DOMAIN rec = RecordFields /\ rec.grants = gs
      BY <1>2, <2>1 DEF SetUpstreamGrants, RecordFields
  <2>3. RecordOK(n, rec)
      BY <2>1, <2>2, InvocationAssumption DEF SetUpstreamGrants, RecordOK
  <2> QED BY <2>1, <2>3, EditKeeps DEF SetUpstreamGrants
<1>13. CASE SetMinimizePolicy(n)
  <2>1. CallInv /\ era' = era
      BY <1>13 DEF IInv, CallInv, SetMinimizePolicy, history
  <2>2. CallInv'
      BY <1>13, <2>1, CallAlone, SameEras DEF SetMinimizePolicy, history
  <2> QED BY <1>13, <2>2 DEF IInv, CallInv, RecordsOK, SetMinimizePolicy
<1>14. CASE \E rec \in Registrations : RegisterUpstream(n, rec)
  <2>1. PICK rec \in Registrations : RegisterUpstream(n, rec)
      BY <1>14
  <2>2. RecordOK(n, rec)
      BY InvocationAssumption
  <2>3. RecordsOK'
      BY <2>1, <2>2 DEF IInv, RecordsOK, RegisterUpstream
  <2>4. CallInv /\ era \in [Conns -> Nat]
      BY DEF IInv, CallInv, BindingsSurfaced
  <2>5. era' = [era EXCEPT ![n] = @ + 1]
      BY <2>1 DEF RegisterUpstream
  <2>6. era' \in [Conns -> Nat] /\ \A m \in Conns : era[m] <= era'[m]
      BY <2>4, <2>5
  <2>7. CallInv'
      BY <2>1, <2>4, <2>6, CallAlone DEF RegisterUpstream
  <2> QED BY <2>3, <2>7 DEF IInv, CallInv
<1> QED BY <1>1, <1>4, <1>5, <1>6, <1>7, <1>8, <1>9, <1>10, <1>11, <1>12, <1>13, <1>14

-----------------------------------------------------------------------------
(* The steps of a call. *)

LEMMA CallToolKeeps ==
    ASSUME CallInv, CallTool
    PROVE  CallInv'
<1>1. PICK c \in Callers, n \in Conns, t \in {"r", "w"}, d \in Documents, f \in {"none", "query", "bad"} :
      \E p \in {NoProgram, [on |-> TRUE, allowed |-> {<<n, "r">>}]} :
       /\ f # "none" => ~p.on
       /\ call' = [pc |-> IF f = "bad" THEN "done" ELSE "named",
                 caller |-> c, name |-> n, tool |-> t, doc |-> d, program |-> p, fused |-> f,
                 snap |-> Absent, sent |-> d, grant |-> {}, egress |-> "none", era |-> 0,
                 answer |-> IF f = "bad" THEN "bad transform" ELSE "",
                 could |-> FALSE]
    BY Zenon DEF CallTool
<1>a. PICK p \in {NoProgram, [on |-> TRUE, allowed |-> {<<n, "r">>}]} :
        call' = [pc |-> IF f = "bad" THEN "done" ELSE "named",
                 caller |-> c, name |-> n, tool |-> t, doc |-> d, program |-> p, fused |-> f,
                 snap |-> Absent, sent |-> d, grant |-> {}, egress |-> "none", era |-> 0,
                 answer |-> IF f = "bad" THEN "bad transform" ELSE "",
                 could |-> FALSE]
    BY <1>1, Zenon
<1>2. /\ DOMAIN call' = CallFields
      /\ call'.pc \in {"named", "done"}
      /\ call'.name = n /\ call'.doc = d /\ call'.sent = d /\ call'.snap = Absent
      /\ call'.egress = "none" /\ call'.era = 0
      /\ call'.pc = "done" => call'.answer = "bad transform"
    BY <1>a DEF CallFields
<1>3. runs' = <<>> /\ UNCHANGED <<tokens, flights, era, surfaced>>
    BY DEF CallTool, history
<1>d. n \in Conns /\ d \in Documents
    OBVIOUS
<1>e. RecordOK(call'.name, Absent)
    BY DEF RecordOK
<1>g. call'.era = 0
    BY <1>2, Zenon
<1>h. 0 \in Nat
    OBVIOUS
<1>f. call'.era \in Nat
    BY <1>g, <1>h, Zenon
<1>b. /\ call'.name \in Conns /\ call'.doc \in Documents /\ call'.era \in Nat
      /\ RecordOK(call'.name, call'.snap)
    BY <1>2, <1>d, <1>e, <1>f, Zenon
<1>c. Len(runs') = 0 /\ DOMAIN runs' = {}
    BY <1>3
<1>4. CallOK'
    BY <1>2, <1>b DEF CallOK
<1>5. Staged' /\ GatesNarrow' /\ EgressWasAllowed'
    BY <1>2, <1>3 DEF Staged, GatesNarrow, EgressWasAllowed, Crossed
<1>6. BindingsSurfaced'
    BY <1>2, <1>3 DEF CallInv, BindingsSurfaced
<1>7. ResolvedInScope'
  <2>1. era' \in [Conns -> Nat]
      BY <1>6 DEF BindingsSurfaced
  <2>2. era'[call'.name] \in Nat
      BY <1>b, <2>1
  <2>3. call'.era = 0
      BY <1>2
  <2>4. call'.era <= era'[call'.name]
      BY <2>2, <2>3, SMT
  <2> QED BY <1>2, <2>4 DEF ResolvedInScope
<1>8. CrossesUnderGrant'
    BY <1>2 DEF CrossesUnderGrant
<1>9. OutcomeRecorded'
    BY <1>2, <1>c DEF OutcomeRecorded
<1> QED BY <1>4, <1>5, <1>6, <1>7, <1>8, <1>9 DEF CallInv

LEMMA SnapshotKeeps ==
    ASSUME RecordsOK, CallInv, SnapshotUpstream
    PROVE  CallInv'
<1> DEFINE doc == ResolveOutbound(call.caller, call.name, call.doc)
           rec == conns[call.name]
<1>1. /\ call.pc = "named" /\ Active
      /\ DOMAIN call = CallFields /\ call.name \in Conns
      /\ call.egress = "none" /\ runs = <<>>
    BY DEF SnapshotUpstream, CallInv, CallOK, Staged, Active
<1>2. /\ DOMAIN call' = CallFields
      /\ call'.pc = "snapshot" /\ call'.snap = rec /\ call'.era = era[call.name]
      /\ call'.could = Allows(rec, call, doc)
      /\ \A f \in CallFields \ {"pc", "snap", "era", "could"} : call'[f] = call[f]
    BY <1>1 DEF SnapshotUpstream, CallFields
<1> HIDE DEF doc, rec
<1>3. /\ call'.caller = call.caller /\ call'.name = call.name /\ call'.tool = call.tool
      /\ call'.doc = call.doc /\ call'.program = call.program /\ call'.sent = call.sent
      /\ call'.egress = "none"
    BY <1>1, <1>2 DEF CallFields
<1>4. /\ assured' = assured /\ tokens' = tokens /\ now' = now /\ runs' = runs
      /\ flights' = flights /\ era' = era /\ surfaced' = surfaced
    BY DEF SnapshotUpstream, history
<1>a. era \in [Conns -> Nat] /\ call'.era \in Nat /\ call'.era = era'[call'.name]
    BY <1>1, <1>2, <1>3, <1>4 DEF CallInv, BindingsSurfaced
<1>5. RecordOK(call'.name, call'.snap)
    BY <1>1, <1>2, <1>3 DEF RecordsOK, rec
<1>6. CallOK'
    BY <1>1, <1>2, <1>3, <1>5, <1>a DEF CallInv, CallOK
<1>7. Staged' /\ EgressWasAllowed' /\ CrossesUnderGrant' /\ OutcomeRecorded'
    BY <1>1, <1>2, <1>3, <1>4
    DEF Staged, EgressWasAllowed, Crossed, CrossesUnderGrant, OutcomeRecorded
<1>b. BindingsSurfaced'
    BY <1>2, <1>3, <1>4, <1>a DEF CallInv, BindingsSurfaced
<1>8. ResolvedInScope'
  <2>1. call.era \in Nat /\ call.era <= call'.era
      BY <1>1, <1>2 DEF CallInv, CallOK, ResolvedInScope
  <2>2. 0..call.era \subseteq 0..call'.era
      BY <1>a, <2>1
  <2>3. call'.era <= era'[call'.name]
      BY <1>a
  <2> QED BY <1>1, <1>3, <1>4, <2>2, <2>3 DEF CallInv, ResolvedInScope
<1>9. ResolveOutbound(call.caller, call.name, call.doc)' = doc
    BY <1>3, <1>4 DEF ResolveOutbound, doc
<1>10. Allows(call.snap, call, ResolveOutbound(call.caller, call.name, call.doc))'
          => Allows(rec, call, doc)
    BY <1>2, <1>3, <1>4, <1>9
    DEF Allows, IsGoverned, Crossing, GrantGate, Hidden, MatchingGrants, Registered, HasTool
<1>11. GatesNarrow'
    BY <1>2, <1>10 DEF GatesNarrow
<1> QED BY <1>6, <1>7, <1>8, <1>11, <1>b DEF CallInv

(* Time takes grants away: what the gates allow after a tick they allowed    *)
(* before it.                                                                *)
LEMMA TickKeeps ==
    ASSUME CallInv, Tick
    PROVE  CallInv'
<1> DEFINE doc == ResolveOutbound(call.caller, call.name, call.doc)
<1>1. /\ now = 0 /\ now' = 1
      /\ call' = call /\ assured' = assured /\ tokens' = tokens /\ runs' = runs
      /\ flights' = flights /\ era' = era /\ surfaced' = surfaced
      /\ call.pc # "proxy"
    BY DEF Tick, history
<1>2. CallOK' /\ Staged' /\ EgressWasAllowed' /\ ResolvedInScope'
    BY <1>1 DEF CallInv, CallOK, Staged, EgressWasAllowed, Crossed, ResolvedInScope, Active
<1>a. BindingsSurfaced'
    BY <1>1 DEF CallInv, BindingsSurfaced
<1>3. IsGoverned(call.snap)' = IsGoverned(call.snap) /\ Active' = Active
    BY <1>1 DEF IsGoverned, Active
<1>4. CrossesUnderGrant' /\ OutcomeRecorded'
    BY <1>1, <1>3 DEF CallInv, CrossesUnderGrant, OutcomeRecorded
<1>5. ASSUME call.pc = "snapshot", Allows(call.snap, call, doc)'
      PROVE  Allows(call.snap, call, doc)
  <2>1. doc' = doc
      BY <1>1 DEF ResolveOutbound
  <2>2. Registered(call.snap) /\ ~Hidden(call.snap, call.caller)
      BY <1>1, <1>5 DEF Allows, Hidden, Registered
  <2>3. \A g \in call.snap.grants : g.expires \in Nat
      BY <1>5, <2>2 DEF CallInv, CallOK, Active, RecordOK, Registered, GrantTyped
  <2> HIDE DEF doc
  <2>4. ASSUME NEW g \in Crossing(call.snap, call, doc)'
        PROVE  g \in Crossing(call.snap, call, doc)
    <3>1. /\ g \in MatchingGrants(call.snap, call.caller, call.tool)
          /\ GrantGate(call.snap, g, call)
          /\ EvaluateOperationGrant(g, call.caller, call.tool, doc, 1)
        BY <1>1, <2>1, <2>4 DEF Crossing, GrantGate
    <3>2. g.expires \in Nat
        BY <2>3, <3>1 DEF MatchingGrants
    <3>3. EvaluateOperationGrant(g, call.caller, call.tool, doc, 0)
        BY <3>1, <3>2 DEF EvaluateOperationGrant
    <3> QED BY <1>1, <3>1, <3>3 DEF Crossing
  <2> QED BY <1>1, <1>3, <1>5, <2>1, <2>4 DEF Allows
<1>6. GatesNarrow'
    BY <1>1, <1>5 DEF CallInv, GatesNarrow
<1> QED BY <1>2, <1>4, <1>6, <1>a DEF CallInv

(* The answers that leave no record: nothing was governed, nothing was sent. *)
Quiet == {"unknown tool", "not enabled", "ambiguous", "bad transform"}

(* A refusal by the gates or by the ledger. *)
LEMMA RefusalKeeps ==
    ASSUME CallInv, call.pc = "snapshot",
           call' = [call EXCEPT !.pc = "done", !.answer = call'.answer],
           call'.answer \in Quiet <=> ~IsGoverned(call.snap),
           runs' = runs \o DenialOf(call.snap),
           UNCHANGED <<assured, tokens, now, flights, era, surfaced>>
    PROVE  CallInv'
<1>1. /\ Active /\ DOMAIN call = CallFields /\ call.egress = "none" /\ runs = <<>>
    BY DEF CallInv, CallOK, Staged, Active
<1>2. /\ DOMAIN call' = CallFields /\ call'.pc = "done"
      /\ call'.caller = call.caller /\ call'.name = call.name /\ call'.doc = call.doc
      /\ call'.sent = call.sent /\ call'.snap = call.snap /\ call'.egress = "none"
      /\ call'.era = call.era
    BY <1>1 DEF CallFields
<1>3. CallOK' /\ Staged' /\ GatesNarrow' /\ EgressWasAllowed'
    BY <1>1, <1>2 DEF CallInv, CallOK, Staged, GatesNarrow, EgressWasAllowed, Crossed
<1>4. ResolvedInScope'
    BY <1>1, <1>2 DEF CallInv, ResolvedInScope
<1>5. CrossesUnderGrant'
    BY <1>2 DEF CrossesUnderGrant
<1>7. BindingsSurfaced'
    BY <1>2 DEF CallInv, BindingsSurfaced
<1>6. OutcomeRecorded'
  <2>1. CASE IsGoverned(call.snap)
    <3> DEFINE d == Denial
    <3>1. d.egress = FALSE /\ d.values = FALSE
        BY DEF Denial
    <3> HIDE DEF d
    <3>2. runs' = <<d>> /\ call'.answer \notin Quiet
        BY <1>1, <2>1 DEF DenialOf, d
    <3>3. Len(runs') = 1 /\ DOMAIN runs' = {1} /\ runs'[1] = d
        BY <3>2
    <3> QED BY <1>2, <3>1, <3>2, <3>3 DEF OutcomeRecorded, Quiet
  <2>2. CASE ~IsGoverned(call.snap)
    <3> DEFINE none == DenialOf(call.snap)
    <3>a. none = <<>>
        BY <2>2 DEF DenialOf
    <3> HIDE DEF none
    <3>1. runs' = <<>> /\ call'.answer \in Quiet
        BY <1>1, <2>2, <3>a DEF none
    <3>2. Len(runs') = 0 /\ DOMAIN runs' = {}
        BY <3>1
    <3>3. \A i \in DOMAIN runs' : FALSE
        BY <3>2, Zenon
    <3>4. ~(call'.egress = "shared")
        BY <1>2
    <3>5. call'.answer \in {"unknown tool", "not enabled", "ambiguous", "bad transform"}
        BY <3>1 DEF Quiet
    <3> QED BY <3>2, <3>3, <3>4, <3>5 DEF OutcomeRecorded
  <2> QED BY <2>1, <2>2
<1> QED BY <1>3, <1>4, <1>5, <1>6, <1>7 DEF CallInv

LEMMA RefuseKeeps ==
    ASSUME CallInv, Refuse \/ LedgerRefuses
    PROVE  CallInv'
<1>1. /\ call.pc = "snapshot" /\ runs' = runs \o DenialOf(call.snap)
      /\ UNCHANGED <<assured, tokens, now, flights, era, surfaced>>
    BY DEF Refuse, LedgerRefuses, history
<1>2. DOMAIN call = CallFields
    BY <1>1 DEF CallInv, CallOK, Active
<1>3. CASE LedgerRefuses
  <2>1. call'.answer = "not authorized" /\ IsGoverned(call.snap)
      BY <1>2, <1>3 DEF LedgerRefuses, CallFields
  <2>2. call' = [call EXCEPT !.pc = "done", !.answer = call'.answer]
      BY <1>3, <2>1 DEF LedgerRefuses
  <2> QED BY <1>1, <2>1, <2>2, RefusalKeeps DEF Quiet
<1>4. CASE Refuse
  <2> DEFINE ans == GateAnswer(call.snap, call, ResolveOutbound(call.caller, call.name, call.doc))
  <2>1. ans # "pass" /\ call' = [call EXCEPT !.pc = "done", !.answer = ans]
      BY <1>4 DEF Refuse
  <2>2. ans \in Quiet <=> ~IsGoverned(call.snap)
      BY <2>1 DEF GateAnswer, Quiet
  <2> HIDE DEF ans
  <2>3. call'.answer = ans
      BY <1>2, <2>1 DEF CallFields
  <2> QED BY <1>1, <2>1, <2>2, <2>3, RefusalKeeps
<1> QED BY <1>3, <1>4

(* The gates pass: what is left to check allows no more than the snapshot    *)
(* did, and a governed call has exactly the grant that admits what it sends. *)
LEMMA AuthorizeKeeps ==
    ASSUME CallInv, Authorize
    PROVE  CallInv'
<1> DEFINE doc == ResolveOutbound(call.caller, call.name, call.doc)
           grant == IF IsGoverned(call.snap) THEN Crossing(call.snap, call, doc) ELSE {}
<1>1. /\ call.pc = "snapshot" /\ Active /\ DOMAIN call = CallFields
      /\ call.egress = "none" /\ call.doc \in Documents
      /\ RecordOK(call.name, call.snap) /\ runs = <<>>
    BY DEF Authorize, CallInv, CallOK, Staged, Active
<1>2. /\ GateAnswer(call.snap, call, doc) = "pass"
      /\ call' = [call EXCEPT !.pc = "proxy", !.sent = doc, !.grant = grant]
      /\ UNCHANGED <<assured, tokens, now, flights, runs, era, surfaced>>
    BY DEF Authorize, history
<1>3. /\ doc.gaps = call.doc.gaps
      /\ DOMAIN doc.at = DOMAIN call.doc.at
      /\ \A l \in DOMAIN call.doc.at :
            doc.at[l] # call.doc.at[l] => <<call.caller, call.name, call.doc.at[l].secret>> \in tokens
      /\ DocumentOK(doc)
    BY <1>1, Resolved
<1>4. Allows(call.snap, call, doc) => call.could
    BY <1>1 DEF CallInv, GatesNarrow
<1>5. /\ ~Hidden(call.snap, call.caller) /\ call.snap.enabled
      /\ IsGoverned(call.snap) => Crossing(call.snap, call, doc) # {}
    BY <1>2 DEF GateAnswer
<1> HIDE DEF doc, grant
<1>6. /\ DOMAIN call' = CallFields /\ call'.pc = "proxy"
      /\ call'.sent = doc /\ call'.grant = grant
      /\ \A f \in CallFields \ {"pc", "sent", "grant"} : call'[f] = call[f]
    BY <1>1, <1>2 DEF CallFields
<1>7. /\ call'.caller = call.caller /\ call'.name = call.name /\ call'.tool = call.tool
      /\ call'.doc = call.doc /\ call'.program = call.program /\ call'.snap = call.snap
      /\ call'.egress = "none" /\ call'.could = call.could /\ call'.era = call.era
    BY <1>1, <1>6 DEF CallFields
<1>8. CallOK' /\ Staged' /\ EgressWasAllowed' /\ OutcomeRecorded'
    BY <1>1, <1>2, <1>6, <1>7
    DEF CallInv, CallOK, Staged, EgressWasAllowed, Crossed, OutcomeRecorded
<1>a. BindingsSurfaced'
    BY <1>2, <1>6 DEF CallInv, BindingsSurfaced
<1>9. ResolvedInScope'
  <2>1. ASSUME NEW l \in DOMAIN doc.at,
               call.doc.at[l].kind = "hole", doc.at[l].kind # "hole"
        PROVE  \E e \in 0..call.era : <<call.caller, call.name, e, call.doc.at[l].secret>> \in surfaced
    <3> DEFINE b == <<call.caller, call.name, call.doc.at[l].secret>>
    <3>1. b \in tokens
        BY <1>3, <2>1
    <3>2. b[1] = call.caller /\ b[2] = call.name /\ b[3] = call.doc.at[l].secret
        OBVIOUS
    <3> HIDE DEF b
    <3>3. \E e \in 0..call.era : <<b[1], b[2], e, b[3]>> \in surfaced
        BY <1>1, <3>1, <3>2 DEF CallInv, BindingsSurfaced
    <3> QED BY <3>2, <3>3
  <2>2. call.era <= era[call.name]
      BY <1>1 DEF CallInv, ResolvedInScope
  <2> QED BY <1>2, <1>6, <1>7, <2>1, <2>2 DEF ResolvedInScope
<1>10. GatesNarrow'
  <2>1. SUFFICES ASSUME ~(call.snap.delegated /\ call.caller \notin Emails),
                        ProxyGate(call.snap, call', doc)
                 PROVE  call.could
      BY <1>6, <1>7 DEF GatesNarrow, NoIdentity
  <2>2. ProxyGate(call.snap, call, doc)
      BY <1>7, <2>1 DEF ProxyGate
  <2>3. Allows(call.snap, call, doc)
      BY <1>5, <2>1, <2>2 DEF Allows, ProxyGate
  <2> QED BY <1>4, <2>3
<1>11. CrossesUnderGrant'
  <2>1. SUFFICES ASSUME IsGoverned(call.snap)
                 PROVE  /\ Cardinality(grant) = 1
                        /\ \A g \in grant, l \in DOMAIN doc.at :
                              LeafAdmitted(g, doc, l) \/ NamedByResource(g, doc, l)
      BY <1>1, <1>2, <1>6, <1>7 DEF CrossesUnderGrant, IsGoverned
  <2>2. grant = Crossing(call.snap, call, doc) /\ grant # {}
      BY <1>5, <2>1 DEF grant
  <2>3. /\ GrantListValid(call.name, call.snap.grants)
        /\ \A g \in call.snap.grants : GrantTyped(g)
      BY <1>1, <1>5 DEF RecordOK, Hidden, Registered
  <2>4. ASSUME NEW g \in grant
        PROVE  /\ g \in call.snap.grants /\ g.principal = call.caller /\ g.tool = call.tool
               /\ EvaluateOperationGrant(g, call.caller, call.tool, doc, now)
      BY <2>2, <2>4 DEF Crossing, MatchingGrants
  <2>5. \A g, h \in grant : g = h
      BY <2>3, <2>4 DEF GrantListValid
  <2>6. PICK g \in grant : grant = {g}
      BY <2>2, <2>5
  <2>7. Cardinality(grant) = 1
      BY <2>6, FS_Singleton
  <2>8. ASSUME NEW h \in grant, NEW l \in DOMAIN doc.at
        PROVE  LeafAdmitted(h, doc, l) \/ NamedByResource(h, doc, l)
      BY <1>3, <2>3, <2>4, EvaluationAdmits
  <2> QED BY <2>7, <2>8
<1> QED BY <1>8, <1>9, <1>10, <1>11, <1>a DEF CallInv

LEMMA DialKeeps ==
    ASSUME CallInv, NEW how \in {"sent", "unsent", "shared"}, Dial(how)
    PROVE  CallInv'
<1>1. /\ call.pc = "proxy" /\ Active /\ DOMAIN call = CallFields /\ call.egress = "none"
      /\ ~NoIdentity /\ ProxyGate(call.snap, call, call.sent) /\ runs = <<>>
      /\ call.name \in Conns /\ call.era \in Nat
      /\ UNCHANGED <<assured, tokens, now, runs, era, surfaced>>
    BY DEF Dial, history, CallInv, CallOK, Staged, Active
<1>2. call.could
    BY <1>1 DEF CallInv, GatesNarrow
<1>3. era \in [Conns -> Nat] /\ call.era \in 0..era[call.name]
    BY <1>1 DEF CallInv, BindingsSurfaced, ResolvedInScope
<1>4. /\ DOMAIN call' = CallFields /\ call'.pc = "waiting" /\ call'.egress = how
      /\ call'.caller = call.caller /\ call'.name = call.name /\ call'.doc = call.doc
      /\ call'.tool = call.tool /\ call'.sent = call.sent /\ call'.grant = call.grant
      /\ call'.snap = call.snap /\ call'.could = call.could
    BY <1>1 DEF Dial, CallFields
<1>5. /\ call'.era \in 0..era[call.name]
      /\ how # "shared" => call'.era = call.era
      /\ \A f \in flights' : f.name \in Conns /\ f.era \in 0..era[f.name]
      /\ how = "shared" => \E f \in flights' : f.caller = call.caller /\ f.name = call.name
                                             /\ f.tool = call.tool /\ f.args = call.sent
  <2> DEFINE own == Flight(call)
  <2>1. /\ own.caller = call.caller /\ own.name = call.name /\ own.tool = call.tool
        /\ own.args = call.sent /\ own.era = call.era
      BY DEF Flight
  <2> HIDE DEF own
  <2>2. \A f \in flights : f.name \in Conns /\ f.era \in 0..era[f.name]
      BY DEF CallInv, BindingsSurfaced
  <2>3. CASE how # "shared"
    <3>1. call' = [call EXCEPT !.pc = "waiting", !.egress = how] /\ flights' \subseteq flights \cup {own}
        BY <2>3 DEF Dial, own
    <3>2. call'.era = call.era
        BY <1>1, <3>1 DEF CallFields
    <3> QED BY <1>1, <1>3, <2>1, <2>2, <2>3, <3>1, <3>2
  <2>4. CASE how = "shared"
    <3>1. PICK f \in flights :
              /\ InflightKey(f) = InflightKey(own)
              /\ call' = [call EXCEPT !.pc = "waiting", !.egress = how, !.era = f.era]
        BY <2>4 DEF Dial, own
    <3>2. flights' = flights
        BY <2>4 DEF Dial
    <3>3. f.caller = own.caller /\ f.name = own.name /\ f.tool = own.tool /\ f.args = own.args
        BY <3>1 DEF InflightKey
    <3>4. call'.era = f.era
        BY <1>1, <3>1 DEF CallFields
    <3>5. f.era \in 0..era[call.name]
        BY <2>1, <2>2, <3>3
    <3> QED BY <2>1, <2>2, <2>4, <3>2, <3>3, <3>4, <3>5
  <2> QED BY <2>3, <2>4
<1>6. call'.era \in Nat /\ call'.era <= era'[call'.name]
    BY <1>1, <1>3, <1>4, <1>5
<1>7. CallOK' /\ Staged' /\ GatesNarrow' /\ EgressWasAllowed'
    BY <1>1, <1>2, <1>4, <1>6
    DEF CallInv, CallOK, Staged, GatesNarrow, EgressWasAllowed
<1>8. OutcomeRecorded'
    BY <1>4, <1>5 DEF OutcomeRecorded
<1>9. BindingsSurfaced'
    BY <1>1, <1>4, <1>5 DEF CallInv, BindingsSurfaced
<1>10. ResolvedInScope'
    BY <1>1, <1>4, <1>5, <1>6 DEF CallInv, ResolvedInScope
<1>11. CrossesUnderGrant'
    BY <1>1, <1>4 DEF CallInv, CrossesUnderGrant, IsGoverned
<1> QED BY <1>7, <1>8, <1>9, <1>10, <1>11 DEF CallInv

(* The call is answered with the one record of recordProxy, and what it      *)
(* binds is among what it surfaces.                                          *)
LEMMA AnswerKeeps ==
    ASSUME CallInv, call.pc \in {"proxy", "waiting"},
           call' = [call EXCEPT !.pc = "done", !.answer = call'.answer],
           call'.answer \notin Quiet,
           runs' = Append(runs, RecordProxy(call.egress # "none")),
           UNCHANGED <<assured, flights, era>>,
           surfaced \subseteq surfaced',
           \A b \in tokens' \ tokens :
              /\ b[2] = call.name
              /\ <<b[1], b[2], call.era, b[3]>> \in surfaced'
    PROVE  CallInv'
<1>1. /\ Active /\ DOMAIN call = CallFields /\ runs = <<>>
      /\ call.name \in Conns /\ call.era \in Nat
      /\ call.egress \in {"none", "sent", "unsent", "shared"}
    BY DEF CallInv, CallOK, Staged, Active
<1>2. /\ DOMAIN call' = CallFields /\ call'.pc = "done"
      /\ call'.caller = call.caller /\ call'.name = call.name /\ call'.doc = call.doc
      /\ call'.tool = call.tool /\ call'.sent = call.sent /\ call'.grant = call.grant
      /\ call'.snap = call.snap /\ call'.egress = call.egress /\ call'.era = call.era
      /\ call'.could = call.could
    BY <1>1 DEF CallFields
<1>3. CallOK' /\ Staged' /\ GatesNarrow' /\ EgressWasAllowed'
    BY <1>1, <1>2 DEF CallInv, CallOK, Staged, GatesNarrow, EgressWasAllowed, Crossed
<1>4. ResolvedInScope'
    BY <1>1, <1>2 DEF CallInv, ResolvedInScope
<1>5. BindingsSurfaced'
  <2>1. era \in [Conns -> Nat] /\ call.era \in 0..era[call.name]
      BY <1>1 DEF CallInv, BindingsSurfaced, ResolvedInScope
  <2>2. ASSUME NEW b \in tokens'
        PROVE  b[2] \in Conns /\ \E e \in 0..era[b[2]] : <<b[1], b[2], e, b[3]>> \in surfaced'
    <3>1. CASE b \in tokens
        BY <3>1 DEF CallInv, BindingsSurfaced
    <3>2. CASE b \notin tokens
        BY <1>1, <2>1, <3>2
    <3> QED BY <3>1, <3>2
  <2> QED BY <1>2, <2>1, <2>2 DEF CallInv, BindingsSurfaced
<1>6. IsGoverned(call.snap)' = IsGoverned(call.snap)
    BY <1>2 DEF IsGoverned
<1> DEFINE r == RecordProxy(call.egress # "none")
<1>7. /\ r.egress = (call.egress # "none")
      /\ r.values = (call.grant = {} /\ (~MultiPrincipal \/ call.snap.full))
      /\ \A g \in call.grant : \A x \in g.resources : OpaqueResourceID(g, call.sent, x) \in r.resources
    BY DEF RecordProxy
<1>8. Len(runs') = 1 /\ DOMAIN runs' = {1} /\ runs'[1] = r
  <2> HIDE DEF r
  <2>1. runs' = Append(<<>>, r)
      BY <1>1 DEF r
  <2> QED BY <2>1
<1> HIDE DEF r
<1>9. CrossesUnderGrant'
  <2>1. SUFFICES ASSUME IsGoverned(call.snap)
                 PROVE  /\ Cardinality(call.grant) = 1
                        /\ \A g \in call.grant, l \in DOMAIN call.sent.at :
                              LeafAdmitted(g, call.sent, l) \/ NamedByResource(g, call.sent, l)
      BY <1>2, <1>6, <1>7, <1>8 DEF CrossesUnderGrant
  <2> QED BY <1>1, <2>1 DEF CallInv, CrossesUnderGrant
<1>10. OutcomeRecorded'
  <2>1. ASSUME IsGoverned(call.snap) PROVE call.grant # {}
    <3>1. Cardinality(call.grant) = 1
        BY <1>1, <2>1 DEF CallInv, CrossesUnderGrant
    <3>2. Cardinality({}) = 0
        BY FS_EmptySet
    <3>3. 0 # 1
        OBVIOUS
    <3> QED BY <3>1, <3>2, <3>3, Zenon
  <2>2. call.egress = "shared" =>
            \E f \in flights : f.caller = call.caller /\ f.name = call.name
                             /\ f.tool = call.tool /\ f.args = call.sent
      BY <1>1 DEF CallInv, OutcomeRecorded
  <2>3. \A i \in DOMAIN runs' :
            /\ runs'[i].egress = (call.egress # "none")
            /\ runs'[i].values => ~IsGoverned(call.snap) /\ (MultiPrincipal => call.snap.full)
      BY <1>7, <1>8, <2>1, InvocationAssumption
  <2> QED BY <1>2, <1>6, <1>8, <2>2, <2>3 DEF OutcomeRecorded, Quiet
<1> QED BY <1>3, <1>4, <1>5, <1>9, <1>10 DEF CallInv

LEMMA RefuseToDialKeeps ==
    ASSUME CallInv, RefuseToDial
    PROVE  CallInv'
<1> DEFINE ans == IF NoIdentity THEN "no identity" ELSE "refused"
<1>1. /\ call.pc = "proxy" /\ call.egress = "none" /\ DOMAIN call = CallFields
    BY DEF RefuseToDial, CallInv, Staged, CallOK, Active
<1>2. /\ call' = [call EXCEPT !.pc = "done", !.answer = ans]
      /\ runs' = Append(runs, RecordProxy(FALSE))
      /\ UNCHANGED <<assured, tokens, flights, era, surfaced>>
    BY DEF RefuseToDial, history
<1>3. ans \notin Quiet
    BY DEF Quiet
<1> HIDE DEF ans
<1>4. call'.answer = ans
    BY <1>1, <1>2 DEF CallFields
<1>5. (call.egress # "none") = FALSE
    BY <1>1
<1> QED BY <1>1, <1>2, <1>3, <1>4, <1>5, AnswerKeeps

(* A response, or the client gone: either way the gates were passed. *)
LEMMA ReturnedKeeps ==
    ASSUME CallInv, Cancel \/ \E resp \in Responses, scan, ran \in BOOLEAN : Respond(resp, scan, ran)
    PROVE  CallInv'
<1>1. CASE Cancel
  <2>1. /\ call.pc = "waiting" /\ (call.egress # "none") = TRUE /\ DOMAIN call = CallFields
      BY <1>1 DEF Cancel, CallInv, Staged, CallOK, Active
  <2>2. /\ call' = [call EXCEPT !.pc = "done", !.answer = "still running"]
        /\ runs' = Append(runs, RecordProxy(TRUE))
        /\ UNCHANGED <<assured, tokens, flights, era, surfaced>>
      BY <1>1 DEF Cancel, history
  <2>3. call'.answer = "still running"
      BY <2>1, <2>2 DEF CallFields
  <2> QED BY <2>1, <2>2, <2>3, AnswerKeeps DEF Quiet
<1>2. CASE \E resp \in Responses, scan, ran \in BOOLEAN : Respond(resp, scan, ran)
  <2>1. PICK resp \in Responses, scan, ran \in BOOLEAN : Respond(resp, scan, ran)
      BY <1>2
  <2> DEFINE out == Outcome(resp, scan, ran)
             shows == {<<call.caller, call.name, call.era, s>> : s \in resp.secrets}
  <2>2. /\ call.pc = "waiting" /\ (call.egress # "none") = TRUE /\ DOMAIN call = CallFields
      BY <2>1 DEF Respond, CallInv, Staged, CallOK, Active
  <2>3. /\ call' = [call EXCEPT !.pc = "done", !.answer = out]
        /\ runs' = Append(runs, RecordProxy(TRUE)) /\ UNCHANGED <<assured, flights, era>>
      BY <2>1 DEF Respond
  <2>4. surfaced' = IF out = "withheld" THEN surfaced ELSE surfaced \cup shows
      BY <2>1 DEF Respond
  <2>5. tokens' \subseteq tokens \cup Bindings(resp) /\ (out = "withheld" => tokens' = tokens)
      BY <2>1 DEF Respond
  <2>6. out \notin Quiet
      BY DEF Outcome, Quiet
  <2> HIDE DEF out
  <2>7. call'.answer = out
      BY <2>2, <2>3 DEF CallFields
  <2>8. ASSUME NEW b \in tokens' \ tokens
        PROVE  b[2] = call.name /\ <<b[1], b[2], call.era, b[3]>> \in surfaced'
    <3>1. out # "withheld" /\ b \in Bindings(resp)
        BY <2>5, <2>8
    <3>2. PICK s \in resp.secrets : b = <<call.caller, call.name, s>>
        BY <3>1 DEF Bindings
    <3> QED BY <2>4, <3>1, <3>2
  <2> HIDE DEF shows
  <2> QED BY <2>2, <2>3, <2>4, <2>6, <2>7, <2>8, AnswerKeeps
<1> QED BY <1>1, <1>2

LEMMA ReturnKeeps ==
    ASSUME CallInv, Return
    PROVE  CallInv'
<1>1. call'.pc = "idle" /\ runs' = <<>> /\ UNCHANGED <<tokens, flights, era, surfaced>>
    BY DEF Return, NoCall, history
<1>2. BindingsSurfaced'
    BY <1>1 DEF CallInv, BindingsSurfaced
<1> QED BY <1>1, <1>2 DEF CallInv, CallOK, Staged, GatesNarrow, ResolvedInScope, CrossesUnderGrant,
                    EgressWasAllowed, Crossed, OutcomeRecorded, Active

-----------------------------------------------------------------------------
(* The theorems. *)

LEMMA ServeKeeps ==
    ASSUME IInv, Serve
    PROVE  IInv'
<1>1. CallInv
    BY DEF IInv, CallInv
<1>2. RecordsOK'
    BY DEF IInv, RecordsOK, Serve, CallTool, SnapshotUpstream, Refuse, LedgerRefuses, Authorize,
           RefuseToDial, Dial, Cancel, Return, Respond
<1>3. CallInv'
    BY <1>1, CallToolKeeps, SnapshotKeeps, RefuseKeeps, AuthorizeKeeps, RefuseToDialKeeps,
       DialKeeps, ReturnedKeeps, ReturnKeeps DEF Serve, IInv
<1> QED BY <1>2, <1>3 DEF IInv, CallInv

(* The invariant the properties below rest on holds in every behaviour: the  *)
(* registrations and the call's snapshot hold valid grant lists, the gates   *)
(* only narrow, every binding comes from an answer its caller was given, and *)
(* a governed call past the gates has exactly one grant that admits what it  *)
(* sends.                                                                    *)
THEOREM InvariantTheorem == Spec => []IInv
<1>1. Init => IInv
  <2> SUFFICES ASSUME Init PROVE IInv
      OBVIOUS
  <2>1. RecordsOK
      BY InvocationAssumption DEF Init, RecordsOK
  <2>2. call.pc = "idle" /\ runs = <<>>
      BY DEF Init, NoCall
  <2>3. BindingsSurfaced
      BY <2>2 DEF Init, BindingsSurfaced
  <2> QED BY <2>1, <2>2, <2>3
          DEF IInv, CallOK, Staged, GatesNarrow, ResolvedInScope, CrossesUnderGrant,
              EgressWasAllowed, Crossed, OutcomeRecorded, Active
<1>2. IInv /\ [Next]_vars => IInv'
  <2> SUFFICES ASSUME IInv, [Next]_vars PROVE IInv'
      OBVIOUS
  <2>1. CASE Serve
      BY <2>1, ServeKeeps
  <2>2. CASE Operate
      BY <2>2, OperateKeeps
  <2>3. CASE Tick
    <3>1. RecordsOK'
        BY <2>3 DEF IInv, RecordsOK, Tick
    <3>2. CallInv'
        BY <2>3, TickKeeps DEF IInv, CallInv
    <3> QED BY <3>1, <3>2 DEF IInv, CallInv
  <2>4. CASE UNCHANGED vars
    <3>1. RecordsOK'
        BY <2>4 DEF IInv, RecordsOK, vars
    <3>2. CallInv /\ era' = era
        BY <2>4 DEF IInv, CallInv, vars
    <3>3. CallInv'
        BY <2>4, <3>2, CallAlone, SameEras DEF vars
    <3> QED BY <3>1, <3>3 DEF IInv, CallInv
  <2> QED BY <2>1, <2>2, <2>3, <2>4 DEF Next
<1> QED BY <1>1, <1>2, PTL DEF Spec

(* A call that leaves was allowed by every gate but the tie check under the  *)
(* registration its snapshot took, whatever is edited meanwhile.             *)
THEOREM EgressWasAllowedTheorem == Spec => []EgressWasAllowed
<1>1. IInv => EgressWasAllowed
    BY DEF IInv
<1> QED BY <1>1, InvariantTheorem, PTL

(* Under a governed snapshot a call leaves under exactly one grant, and that *)
(* grant admits every leaf of what is sent after placeholders were resolved, *)
(* but for those a resource names, whose ids are on the call's record.       *)
THEOREM EgressGovernedTheorem == Spec => []EgressGoverned
<1>1. IInv => EgressGoverned
    BY DEF IInv, CrossesUnderGrant, EgressGoverned, Crossed
<1> QED BY <1>1, InvariantTheorem, PTL

(* A secret the agent held as a placeholder leaves only in a call of a       *)
(* caller who was given an answer that held it, and to the name that         *)
(* answered, however often connections are removed and registered.           *)
THEOREM PlaceholderScopedTheorem == Spec => []PlaceholderScoped
<1>1. IInv => PlaceholderScoped
    BY DEF IInv, ResolvedInScope, PlaceholderScoped
<1> QED BY <1>1, InvariantTheorem, PTL

(* A call that passed the gates and a governed refusal leave exactly one     *)
(* record: no request leaves off the record, a record that names an egress   *)
(* without one is of a call past every gate, a shared execution is of the    *)
(* same caller, and values are held only where that is allowed.              *)
THEOREM OutcomeRecordedTheorem == Spec => []OutcomeRecorded
<1>1. IInv => OutcomeRecorded
    BY DEF IInv
<1> QED BY <1>1, InvariantTheorem, PTL

-----------------------------------------------------------------------------
(* Discovery. *)

LEMMA ListedEntry ==
    ASSUME NEW c, NEW n \in Conns, NEW t \in {"r", "w"}
    PROVE  Listed(c, n, t) <=>
              VisibleTo(conns[n], c) /\ HasTool(conns[n], t) /\ Invocable(conns[n], t, c)
BY DEF Listed

(* What the gates would let through is in the index. *)
LEMMA AllowedIsListed ==
    ASSUME NEW c \in Callers, NEW n \in Conns, NEW t \in {"r", "w"}, NEW d,
           NEW cl, cl.caller = c, cl.tool = t, HasTool(conns[n], t), Allows(conns[n], cl, d)
    PROVE  Listed(c, n, t)
<1> DEFINE rec == conns[n]
<1>1. VisibleTo(rec, c)
    BY DEF Allows, Hidden, VisibleTo
<1>2. rec.enabled /\ ~(rec.readOnly /\ IsWriteTool(rec.tools[t]))
    BY DEF Allows
<1>3. ToolIndexable(rec, t, c)
  <2>1. CASE IsGoverned(rec)
    <3>1. PICK g \in MatchingGrants(rec, c, t) :
              GrantGate(rec, g, cl) /\ EvaluateOperationGrant(g, c, t, d, now)
        BY <2>1 DEF Allows, Crossing
    <3> QED BY <3>1 DEF ToolIndexable, GrantGate, EvaluateOperationGrant
  <2>2. CASE ~IsGoverned(rec)
      BY <2>2 DEF ToolIndexable
  <2> QED BY <2>1, <2>2
<1> QED BY <1>1, <1>2, <1>3, ListedEntry DEF Invocable

(* The tie check of a call and the mark in the index look at the same peers. *)
LEMMA TiesAgree ==
    ASSUME NEW c \in Callers, NEW n \in Conns, NEW t \in {"r", "w"}, NEW d,
           NEW cl, cl.caller = c, cl.tool = t, cl.name = n,
           Registered(conns[n]), HasTool(conns[n], t),
           ~IsGoverned(conns[n]), ~conns[n].delegated
    PROVE  GateAnswer(conns[n], cl, d) = "ambiguous" <=> MarkedAmbiguous(c, n, t)
<1> DEFINE rec == conns[n]
           group == {m \in Conns : Listed(c, m, t) /\ conns[m].template = rec.template}
           peers == IndistinguishablePeers(rec, c, n, t)
<1>1. GateAnswer(rec, cl, d) = "ambiguous" <=>
          ~Hidden(rec, c) /\ rec.enabled /\ peers # {} /\ ~LabelDistinguishes(rec.label, peers)
    BY DEF GateAnswer, Ambiguous
<1>2. VisibleTo(rec, c) <=> ~Hidden(rec, c)
    BY DEF VisibleTo, Hidden
<1>3. CASE ~(rec.template # "" /\ Listed(c, n, t))
  <2>1. ~MarkedAmbiguous(c, n, t)
      BY <1>3 DEF MarkedAmbiguous
  <2>2. CASE ~Hidden(rec, c)
    <3>1. peers = {}
        BY <1>2, <1>3, <2>2, ListedEntry DEF IndistinguishablePeers
    <3> QED BY <1>1, <2>1, <3>1
  <2> QED BY <1>1, <2>1, <2>2
<1>4. CASE rec.template # "" /\ Listed(c, n, t)
  <2>a. VisibleTo(rec, c) /\ Invocable(rec, t, c)
      BY <1>4, ListedEntry
  <2>1. rec.enabled /\ ~rec.revoked
      BY <2>a DEF Invocable, VisibleTo
  <2>2. peers = {m \in Conns \ {n} :
                    /\ VisibleTo(conns[m], c) /\ conns[m].template = rec.template
                    /\ HasTool(conns[m], t) /\ Invocable(conns[m], t, c)}
      BY <1>4, <2>a, <2>1 DEF IndistinguishablePeers
  <2>b. ASSUME NEW m \in Conns
        PROVE  Listed(c, m, t) <=>
                  VisibleTo(conns[m], c) /\ HasTool(conns[m], t) /\ Invocable(conns[m], t, c)
      BY ListedEntry
  <2>3. peers = group \ {n}
      BY <2>2, <2>b
  <2>4. n \in group /\ IsFiniteSet(group)
      BY <1>4, InvocationAssumption, FS_Subset
  <2> HIDE DEF group, peers
  <2>5. Cardinality(group) > 1 <=> peers # {}
    <3>1. IsFiniteSet(peers) /\ Cardinality(peers) = Cardinality(group) - 1 /\ Cardinality(group) \in Nat
        BY <2>3, <2>4, FS_RemoveElement, FS_CardinalityType
    <3>2. Cardinality(peers) \in Nat /\ (Cardinality(peers) = 0 <=> peers = {})
        BY <3>1, FS_EmptySet, FS_CardinalityType
    <3> QED BY <3>1, <3>2
  <2>6. MarkedAmbiguous(c, n, t) <=>
            Cardinality(group) > 1 /\ ~LabelDistinguishes(rec.label, peers)
      BY <1>4, <2>3 DEF MarkedAmbiguous, group
  <2> QED BY <1>1, <1>2, <2>a, <2>1, <2>5, <2>6
<1> QED BY <1>3, <1>4

(* In every state the index and the gates agree: a retained tool the gates   *)
(* would let through is listed as invocable, and an ungoverned call is       *)
(* refused as ambiguous exactly when its entry is marked so.                 *)
THEOREM DiscoveryAgreesTheorem == Spec => []DiscoveryAgrees
<1>1. DiscoveryAgrees
  <2>1. SUFFICES ASSUME NEW c \in Callers, NEW n \in Conns, NEW t \in {"r", "w"},
                        Registered(conns[n]), HasTool(conns[n], t)
                 PROVE  LET cl == [caller |-> c, name |-> n, tool |-> t, program |-> NoProgram] IN
                        /\ ~Listed(c, n, t) => \A d \in Documents : ~Allows(conns[n], cl, d)
                        /\ ~IsGoverned(conns[n]) /\ ~conns[n].delegated =>
                              (GateAnswer(conns[n], cl, [at |-> <<>>]) = "ambiguous")
                                 = MarkedAmbiguous(c, n, t)
      BY DEF DiscoveryAgrees
  <2> DEFINE cl == [caller |-> c, name |-> n, tool |-> t, program |-> NoProgram]
  <2>2. cl.caller = c /\ cl.name = n /\ cl.tool = t
      OBVIOUS
  <2> HIDE DEF cl
  <2>3. ~Listed(c, n, t) => \A d \in Documents : ~Allows(conns[n], cl, d)
      BY <2>1, <2>2, AllowedIsListed
  <2>4. ~IsGoverned(conns[n]) /\ ~conns[n].delegated =>
            (GateAnswer(conns[n], cl, [at |-> <<>>]) = "ambiguous" <=> MarkedAmbiguous(c, n, t))
      BY <2>1, <2>2, TiesAgree
  <2>5. MarkedAmbiguous(c, n, t) \in BOOLEAN
      BY DEF MarkedAmbiguous
  <2> QED BY <2>3, <2>4, <2>5 DEF cl
<1> QED BY <1>1, PTL
=============================================================================
