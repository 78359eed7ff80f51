------------------------ MODULE DecisionLedgerProofs ------------------------
(***************************************************************************)
(* Machine-checked proofs about DecisionLedger, for every set of callers,  *)
(* every grant and every bound: the type invariant, and what request and   *)
(* byte budgets, rates and anchors survive: crashes, failed writes, any    *)
(* loss of the file, and restarts that may fail to open it.                *)
(***************************************************************************)
EXTENDS DecisionLedger, FiniteSetTheorems, SequenceTheorems, TLAPS

-----------------------------------------------------------------------------
(* Histories: what appending, extending and reloading does to the totals.  *)

(* The authorized positions of a history are a finite set of its indices,  *)
(* so a request count is a natural number.                                 *)
LEMMA AuthorizedFinite ==
    ASSUME NEW recs \in Seq(Record), NEW g
    PROVE  /\ AuthorizedAt(recs, g) \subseteq 1 .. Len(recs)
           /\ IsFiniteSet(AuthorizedAt(recs, g))
           /\ Cardinality(AuthorizedAt(recs, g)) \in Nat
<1>1. AuthorizedAt(recs, g) \subseteq 1 .. Len(recs)
    BY DEF AuthorizedAt
<1>2. IsFiniteSet(1 .. Len(recs))
    BY FS_Interval
<1>3. IsFiniteSet(AuthorizedAt(recs, g))
    BY <1>1, <1>2, FS_Subset
<1> QED BY <1>1, <1>3, FS_CardinalityType

(* A finite union of byte units, one block per member of a finite set. *)
LEMMA BlocksFinite ==
    ASSUME NEW S, IsFiniteSet(S), NEW n, \A x \in S : n[x] \in Nat
    PROVE  IsFiniteSet(UNION {{x} \X (1 .. n[x]) : x \in S})
<1> DEFINE f == [x \in S |-> {x} \X (1 .. n[x])]
<1> DEFINE T == {{x} \X (1 .. n[x]) : x \in S}
<1>1. f \in Surjection(S, T)
    BY DEF Surjection
<1>2. IsFiniteSet(T)
    BY <1>1, FS_Surjection
<1>3. \A B \in T : IsFiniteSet(B)
  <2> TAKE B \in T
  <2>1. PICK x \in S : B = {x} \X (1 .. n[x])
      OBVIOUS
  <2>2. IsFiniteSet({x})
      BY FS_Singleton
  <2>3. IsFiniteSet(1 .. n[x])
      BY FS_Interval
  <2> QED BY <2>1, <2>2, <2>3, FS_Product
<1> QED BY <1>2, <1>3, FS_UNION

(* One block has as many units as it has bytes. *)
LEMMA BlockSize ==
    ASSUME NEW x, NEW n \in Nat
    PROVE  /\ IsFiniteSet({x} \X (1 .. n))
           /\ Cardinality({x} \X (1 .. n)) = n
<1>1. IsFiniteSet({x}) /\ Cardinality({x}) = 1
    BY FS_Singleton
<1>2. IsFiniteSet(1 .. n) /\ Cardinality(1 .. n) = n
    BY FS_Interval
<1>3. /\ IsFiniteSet({x} \X (1 .. n))
      /\ Cardinality({x} \X (1 .. n)) = Cardinality({x}) * Cardinality(1 .. n)
    BY <1>1, <1>2, FS_Product
<1> QED BY <1>1, <1>2, <1>3

(* Adding a disjoint block of n bytes to a finite set of units adds n. *)
LEMMA AddBlock ==
    ASSUME NEW U, IsFiniteSet(U), NEW x, NEW n \in Nat,
           U \cap ({x} \X (1 .. n)) = {}
    PROVE  Cardinality(U \cup ({x} \X (1 .. n))) = Cardinality(U) + n
<1> DEFINE B == {x} \X (1 .. n)
<1>1. IsFiniteSet(B) /\ Cardinality(B) = n
    BY BlockSize
<1>2. Cardinality(U \cup B) = Cardinality(U) + Cardinality(B) - Cardinality(U \cap B)
    BY <1>1, FS_Union
<1>3. Cardinality(U \cap B) = 0
    BY FS_EmptySet
<1>4. Cardinality(U) \in Nat
    BY FS_CardinalityType
<1> HIDE DEF B
<1>5. Cardinality(U \cup B) = Cardinality(U) + n
    BY <1>1, <1>2, <1>3, <1>4
<1> QED BY <1>5 DEF B

(* The bytes a history reserves are a natural number. *)
LEMMA UnitsFinite ==
    ASSUME NEW recs \in Seq(Record), NEW g
    PROVE  /\ IsFiniteSet(ReservedUnits(recs, g))
           /\ ReservedBytes(recs, g) \in Nat
<1> DEFINE n == [i \in DOMAIN recs |-> recs[i].reserved]
<1> DEFINE A == AuthorizedAt(recs, g)
<1>1. IsFiniteSet(A) /\ A \subseteq DOMAIN recs
    BY AuthorizedFinite DEF AuthorizedAt
<1>2. \A i \in A : n[i] \in Nat
  <2>1. \A i \in A : recs[i] \in Record
      BY <1>1
  <2> QED BY <1>1, <2>1 DEF Record
<1>4. ReservedUnits(recs, g) = UNION {{i} \X (1 .. n[i]) : i \in A}
    BY <1>1 DEF ReservedUnits
<1> HIDE DEF n, A
<1>3. IsFiniteSet(UNION {{i} \X (1 .. n[i]) : i \in A})
    BY <1>1, <1>2, BlocksFinite
<1>5. IsFiniteSet(ReservedUnits(recs, g))
    BY <1>3, <1>4
<1> QED BY <1>5, FS_CardinalityType DEF ReservedBytes

(* Appending a record that authorizes nothing for g leaves g's totals;     *)
(* appending one that does adds one request and its reserved bytes.        *)
LEMMA AppendCounts ==
    ASSUME NEW recs \in Seq(Record), NEW r \in Record, NEW g
    PROVE  LET hit == r.decision = "authorized" /\ r.grant = g
               A(s) == Cardinality(AuthorizedAt(s, g))
               B(s) == ReservedBytes(s, g)
               new  == Append(recs, r)
           IN  /\ hit => A(new) = A(recs) + 1 /\ B(new) = B(recs) + r.reserved
               /\ ~hit => A(new) = A(recs) /\ B(new) = B(recs)
<1> DEFINE new == Append(recs, r)
           last == Len(recs) + 1
           hit == r.decision = "authorized" /\ r.grant = g
<1>1. /\ DOMAIN recs = 1 .. Len(recs) /\ DOMAIN new = 1 .. last /\ Len(recs) \in Nat
      /\ \A i \in 1 .. Len(recs) : new[i] = recs[i]
      /\ new[last] = r
    OBVIOUS
<1>2. r.reserved \in Nat
    BY DEF Record
<1> HIDE DEF new
<1>3. CASE hit
  <2>1. AuthorizedAt(new, g) = AuthorizedAt(recs, g) \cup {last}
      BY <1>1, <1>3 DEF AuthorizedAt
  <2>2. last \notin AuthorizedAt(recs, g)
      BY <1>1 DEF AuthorizedAt
  <2>3. Cardinality(AuthorizedAt(new, g)) = Cardinality(AuthorizedAt(recs, g)) + 1
      BY <2>1, <2>2, AuthorizedFinite, FS_AddElement
  <2>4. ReservedUnits(new, g) = ReservedUnits(recs, g) \cup ({last} \X (1 .. r.reserved))
    <3>1. ReservedUnits(new, g)
            = UNION {{i} \X (1 .. new[i].reserved) : i \in AuthorizedAt(recs, g) \cup {last}}
        BY <2>1 DEF ReservedUnits
    <3>2. \A i \in AuthorizedAt(recs, g) : new[i].reserved = recs[i].reserved
        BY <1>1 DEF AuthorizedAt
    <3> QED BY <3>1, <3>2, <1>1 DEF ReservedUnits
  <2>5. ReservedUnits(recs, g) \cap ({last} \X (1 .. r.reserved)) = {}
      BY <2>2 DEF ReservedUnits
  <2>6. Cardinality(ReservedUnits(recs, g) \cup ({last} \X (1 .. r.reserved)))
          = ReservedBytes(recs, g) + r.reserved
      BY <1>2, <2>5, UnitsFinite, AddBlock DEF ReservedBytes
  <2>7. ReservedBytes(new, g) = ReservedBytes(recs, g) + r.reserved
      BY <2>4, <2>6 DEF ReservedBytes
  <2> QED BY <1>3, <2>3, <2>7 DEF new
<1>4. CASE ~hit
  <2>1. AuthorizedAt(new, g) = AuthorizedAt(recs, g)
      BY <1>1, <1>4 DEF AuthorizedAt
  <2>2. \A i \in AuthorizedAt(recs, g) : new[i].reserved = recs[i].reserved
      BY <1>1 DEF AuthorizedAt
  <2>3. ReservedUnits(new, g) = ReservedUnits(recs, g)
      BY <2>1, <2>2 DEF ReservedUnits
  <2> QED BY <1>4, <2>1, <2>3 DEF ReservedBytes, new
<1> QED BY <1>3, <1>4

(* The records of the file are a history. *)
LEMMA RecordsType ==
    ASSUME NEW lines \in Seq(Line)
    PROVE  Records(lines) \in Seq(Record)
<1>1. \A i \in 1 .. Len(lines) : lines[i].rec \in Record
  <2>1. \A i \in 1 .. Len(lines) : lines[i] \in Line
      OBVIOUS
  <2> QED BY <2>1 DEF Line
<1>2. DOMAIN lines = 1 .. Len(lines) /\ Len(lines) \in Nat
    OBVIOUS
<1> QED BY <1>1, <1>2 DEF Records

(* The counters rebuilt from a history are well formed. *)
LEMMA UsageType ==
    ASSUME NEW recs \in Seq(Record)
    PROVE  UsageOf(recs) \in [Grants -> grantUsage]
<1>1. \A g \in Grants : Cardinality(AuthorizedAt(recs, g)) \in Nat
    BY AuthorizedFinite
<1>2. \A g \in Grants : ReservedBytes(recs, g) \in Nat
    BY UnitsFinite
<1>3. \A g \in Grants : {[seq |-> i, at |-> recs[i].at] : i \in AuthorizedAt(recs, g)}
                             \subseteq [seq : Nat, at : Nat]
  <2>1. \A i \in 1 .. Len(recs) : recs[i] \in Record
      OBVIOUS
  <2>2. \A i \in 1 .. Len(recs) : recs[i].at \in Nat
      BY <2>1 DEF Record
  <2> QED BY <2>2, AuthorizedFinite
<1> QED BY <1>1, <1>2, <1>3 DEF UsageOf, grantUsage

-----------------------------------------------------------------------------
(* Type correctness. *)

(* The record a caller starts from, and every grant's parameters, are well *)
(* formed.                                                                 *)
LEMMA GrantTypes ==
    /\ NoCall \in Record /\ NoCall.decision = "refused"
    /\ NoUsage \in grantUsage
    /\ \A g \in Grants : /\ MaxRequests[g] \in Nat /\ MaxBytes[g] \in Nat
                          /\ MaxResponse[g] \in Nat
<1>1. (CHOOSE g \in Grants : TRUE) \in Grants
    BY BoundAssumption
<1>2. NoCall \in Record /\ NoCall.decision = "refused"
    BY <1>1 DEF NoCall, Refusal, Record
<1>3. NoUsage \in grantUsage
    BY DEF NoUsage, grantUsage
<1> QED BY <1>2, <1>3, GrantAssumption

(* What a start takes from the file is a history. *)
LEMMA LoadedType ==
    ASSUME TypeOK, NEW o \in BOOLEAN
    PROVE  Loaded(o) \in Seq(Record)
<1>1. Records(ledger) \in Seq(Record)
    BY RecordsType DEF TypeOK
<1> QED BY <1>1, EmptySeq DEF Loaded

(* Pruning the rate window keeps the counters well formed and changes      *)
(* neither requests nor bytes.                                             *)
LEMMA PruneUsage ==
    ASSUME TypeOK, NEW r \in Record
    PROVE  /\ Prune(r) \in [Grants -> grantUsage]
           /\ \A g \in Grants : /\ Prune(r)[g].Requests = usage[g].Requests
                                /\ Prune(r)[g].Bytes = usage[g].Bytes
<1>1. usage \in [Grants -> grantUsage]
    BY DEF TypeOK
<1>2. r.grant \in Grants
    BY DEF Record
<1>3. \A g \in Grants : usage[g] \in grantUsage
    BY <1>1
<1>4. \A g \in Grants : \A t : [usage[g] EXCEPT !.Times = Kept(usage[g].Times, g, t)] \in grantUsage
    BY <1>3 DEF grantUsage, Kept
<1> QED BY <1>1, <1>2, <1>3, <1>4 DEF Prune, grantUsage

(* Every step of the gateway, its disk and the clock keeps the state well  *)
(* formed.                                                                 *)
LEMMA TypeStep == TypeOK /\ [Next]_vars => TypeOK'
<1> SUFFICES ASSUME TypeOK, [Next]_vars PROVE TypeOK'
    OBVIOUS
<1>a. \A c \in Callers : Leave(c) => /\ pc' \in [Callers -> CallerSteps]
                                     /\ call' \in [Callers -> Record]
    BY GrantTypes DEF TypeOK, Leave, CallerSteps
<1>b. ASSUME NEW c \in Callers, NEW r \in Record, NEW o \in AppendOutcomes,
             AppendDecision(c, r, o)
      PROVE  /\ file' \in {"missing", "present"} /\ ledger' \in Seq(Line)
             /\ anchor' \in Seq(Record) /\ head' \in Seq(Record) /\ loadErr' \in BOOLEAN
             /\ pc' \in [Callers -> CallerSteps] /\ call' \in [Callers -> Record]
  <2> DEFINE line == [prev |-> head, rec |-> r, torn |-> o = "torn"]
  <2>1. line \in Line
      BY DEF Line, TypeOK
  <2>2. Append(ledger, line) \in Seq(Line)
      BY <2>1 DEF TypeOK
  <2>3. Append(head, r) \in Seq(Record)
      BY DEF TypeOK
  <2>4. CASE loadErr /\ Leave(c) /\ UNCHANGED <<disk, head, loadErr>>
      BY <2>4, <1>a DEF TypeOK, disk
  <2>5. CASE ~loadErr
    <3>1. ledger' = ledger \/ ledger' = Append(ledger, line)
        BY <1>b, <2>5 DEF AppendDecision
    <3>2. head' = head \/ head' = Append(head, r)
        BY <1>b, <2>5 DEF AppendDecision
    <3>3. file' \in {file, "present"} /\ UNCHANGED <<anchor, loadErr>>
        BY <1>b, <2>5 DEF AppendDecision
    <3>4. Leave(c) \/ (pc' = [pc EXCEPT ![c] = "anchor"] /\ call' = [call EXCEPT ![c] = r])
        BY <1>b, <2>5 DEF AppendDecision
    <3>5. pc' \in [Callers -> CallerSteps] /\ call' \in [Callers -> Record]
        BY <3>4, <1>a DEF TypeOK, CallerSteps
    <3> QED BY <3>1, <3>2, <3>3, <3>5, <2>2, <2>3 DEF TypeOK
  <2> QED BY <1>b, <2>4, <2>5 DEF AppendDecision
<1>1. CASE \E c \in Callers, g \in Grants, n \in ArgSizes : Evaluate(c, g, n)
  <2>1. PICK c \in Callers, g \in Grants, n \in ArgSizes : Evaluate(c, g, n)
      BY <1>1
  <2>2. n \in Nat /\ MaxResponse[g] \in Nat /\ now \in Nat
      BY BoundAssumption, GrantTypes DEF TypeOK
  <2>3. [decision |-> "authorized", grant |-> g,
         reserved |-> n + MaxResponse[g], at |-> now] \in Record
      BY <2>2 DEF Record
  <2> QED BY <2>1, <2>3 DEF Evaluate, TypeOK, disk, memory, CallerSteps
<1>2. CASE \E c \in Callers, o \in AppendOutcomes : Authorize(c, o)
  <2>1. PICK c \in Callers, o \in AppendOutcomes : Authorize(c, o)
      BY <1>2
  <2> DEFINE r == IF WithinBudget(call[c]) THEN call[c] ELSE Refusal(call[c].grant)
  <2>2. call[c] \in Record
      BY DEF TypeOK
  <2>3. r \in Record
      BY <2>2 DEF Record, Refusal
  <2>4. AppendDecision(c, r, o)
      BY <2>1 DEF Authorize
  <2>5. usage' \in [Grants -> grantUsage]
      BY <2>1, <2>2, PruneUsage DEF Authorize
  <2> QED BY <2>1, <2>3, <2>4, <2>5, <1>b DEF Authorize, TypeOK
<1>3. CASE \E c \in Callers, g \in Grants, o \in AppendOutcomes : Refuse(c, g, o)
  <2>1. PICK c \in Callers, g \in Grants, o \in AppendOutcomes : Refuse(c, g, o)
      BY <1>3
  <2> DEFINE r == Refusal(g)
  <2>2. r \in Record
      BY DEF Record, Refusal
  <2>3. AppendDecision(c, r, o)
      BY <2>1 DEF Refuse
  <2> QED BY <2>1, <2>2, <2>3, <1>b DEF Refuse, TypeOK
<1>4. CASE \E c \in Callers, o \in {"ok", "failed", "lost"} : SaveAnchor(c, o)
  <2>1. PICK c \in Callers, o \in {"ok", "failed", "lost"} : SaveAnchor(c, o)
      BY <1>4
  <2> DEFINE g == call[c].grant
             u == [Requests |-> usage[g].Requests + 1,
                   Bytes    |-> usage[g].Bytes + call[c].reserved,
                   Times    |-> usage[g].Times \cup {[seq |-> Len(head), at |-> call[c].at]}]
  <2>2. call[c] \in Record /\ Len(head) \in Nat
      BY DEF TypeOK
  <2>3. g \in Grants /\ call[c].reserved \in Nat /\ call[c].at \in Nat
      BY <2>2 DEF Record
  <2>4. usage[g] \in grantUsage
      BY <2>3 DEF TypeOK
  <2>5. u \in grantUsage
      BY <2>2, <2>3, <2>4 DEF grantUsage
  <2>6. CASE o = "ok" /\ call[c].decision = "authorized"
    <3>1. usage' = [usage EXCEPT ![g] = u] /\ pc' = [pc EXCEPT ![c] = "cleared"]
          /\ UNCHANGED call
        BY <2>1, <2>6 DEF SaveAnchor, Counted
    <3> HIDE DEF u
    <3>2. usage' \in [Grants -> grantUsage]
        BY <3>1, <2>3, <2>5 DEF TypeOK
    <3>3. pc' \in [Callers -> CallerSteps]
        BY <3>1 DEF TypeOK, CallerSteps
    <3> QED BY <2>1, <3>1, <3>2, <3>3 DEF SaveAnchor, TypeOK
  <2>7. CASE ~(o = "ok" /\ call[c].decision = "authorized")
      BY <2>1, <2>7, <1>a DEF SaveAnchor, TypeOK
  <2> QED BY <2>6, <2>7
<1>5. CASE \E c \in Callers : Cross(c)
  <2>1. PICK c \in Callers : Cross(c)
      BY <1>5
  <2>2. Append(crossed, call[c]) \in Seq(Record)
      BY DEF TypeOK
  <2> QED BY <2>1, <2>2, <1>a DEF Cross, TypeOK, disk, memory
<1>6. CASE Crash
  <2>1. usage' \in [Grants -> grantUsage] /\ call' \in [Callers -> Record]
      BY <1>6, GrantTypes DEF Crash
  <2>2. pc' \in [Callers -> CallerSteps]
      BY <1>6 DEF Crash, CallerSteps
  <2>3. head' \in Seq(Record)
      BY <1>6, EmptySeq DEF Crash
  <2>4. up' \in BOOLEAN /\ loadErr' \in BOOLEAN
      BY <1>6 DEF Crash
  <2> QED BY <1>6, <2>1, <2>2, <2>3, <2>4 DEF Crash, TypeOK, disk
<1>7. CASE \E k \in DiskLoss : LoseLines(k)
  <2>1. PICK k \in LossKinds : LoseLines(k)
      BY <1>7, BoundAssumption
  <2>2. ledger' \in Seq(Line) /\ file' \in {"missing", "present"}
    <3>1. CASE k = "rollback"
      <4>1. PICK n \in 1 .. Len(ledger) - 1 : ledger' = SubSeq(ledger, 1, n) /\ UNCHANGED file
          BY <2>1, <3>1 DEF LoseLines
      <4> QED BY <4>1, SubSeqProperties DEF TypeOK
    <3>2. CASE k = "missing"
      <4>1. ledger' = <<>> /\ file' = "missing"
          BY <2>1, <3>2 DEF LoseLines
      <4> QED BY <4>1
    <3>3. CASE k = "emptied"
      <4>1. ledger' = <<>> /\ file' = file
          BY <2>1, <3>3 DEF LoseLines
      <4> QED BY <4>1 DEF TypeOK
    <3> QED BY <3>1, <3>2, <3>3 DEF LossKinds
  <2> QED BY <2>1, <2>2 DEF LoseLines, TypeOK, memory
<1>8. CASE \E b, o \in BOOLEAN : Restart(b, o)
  <2>1. PICK b, o \in BOOLEAN : Restart(b, o)
      BY <1>8
  <2>2. Loaded(o) \in Seq(Record)
      BY LoadedType
  <2>3. usage' \in [Grants -> grantUsage] /\ head' \in Seq(Record)
      BY <2>1, <2>2, UsageType DEF Restart
  <2>4. forgotten' \in Nat
      BY <2>1 DEF Restart, TypeOK
  <2> QED BY <2>1, <2>3, <2>4 DEF Restart, TypeOK, disk
<1>9. CASE Tick
    BY <1>9 DEF Tick, TypeOK, disk, memory
<1>10. CASE UNCHANGED vars
    BY <1>10 DEF vars, TypeOK
<1> QED BY <1>1, <1>2, <1>3, <1>4, <1>5, <1>6, <1>7, <1>8, <1>9, <1>10 DEF Next

(* The state the program starts in is well formed. *)
LEMMA TypeInit == Init => TypeOK
<1> SUFFICES ASSUME Init PROVE TypeOK
    OBVIOUS
<1>1. usage \in [Grants -> grantUsage] /\ call \in [Callers -> Record]
    BY GrantTypes DEF Init
<1>2. pc \in [Callers -> CallerSteps]
    BY DEF Init, CallerSteps
<1>3. ledger \in Seq(Line) /\ \A s \in {anchor, head, crossed} : s \in Seq(Record)
    BY EmptySeq DEF Init
<1>4. up \in BOOLEAN /\ loadErr \in BOOLEAN
    BY DEF Init
<1> QED BY <1>1, <1>2, <1>3, <1>4 DEF Init, TypeOK

(* The ledger, its anchor, the in-memory counters and every caller stay    *)
(* well formed for every number of callers and grants.                     *)
THEOREM TypeCorrect == Spec => []TypeOK
    BY TypeInit, TypeStep, PTL DEF Spec

-----------------------------------------------------------------------------
(* The calls begun, and what each kind of step does to them. *)

(* The callers cleared under a grant, and the bytes they hold, are finite. *)
LEMMA BegunFinite ==
    ASSUME TypeOK, NEW g
    PROVE  /\ IsFiniteSet(Cleared(g)) /\ Cardinality(Cleared(g)) \in Nat
           /\ IsFiniteSet(BegunUnits(g)) /\ Cardinality(BegunUnits(g)) \in Nat
           /\ Begun(g) \in Nat /\ BegunBytes(g) \in Nat
<1> DEFINE n == [c \in Callers |-> call[c].reserved]
<1>1. IsFiniteSet(Cleared(g)) /\ Cleared(g) \subseteq Callers
    BY BoundAssumption, FS_Subset DEF Cleared
<1>2. \A c \in Cleared(g) : n[c] \in Nat
  <2>1. \A c \in Callers : call[c] \in Record
      BY DEF TypeOK
  <2> QED BY <1>1, <2>1 DEF Record
<1>3. BegunUnits(g) = UNION {{c} \X (1 .. n[c]) : c \in Cleared(g)}
    BY <1>1 DEF BegunUnits
<1> HIDE DEF n
<1>4. IsFiniteSet(BegunUnits(g))
    BY <1>1, <1>2, <1>3, BlocksFinite
<1>5. Cardinality(Cleared(g)) \in Nat /\ Cardinality(BegunUnits(g)) \in Nat
    BY <1>1, <1>4, FS_CardinalityType
<1>6. Cardinality(AuthorizedAt(crossed, g)) \in Nat /\ ReservedBytes(crossed, g) \in Nat
    BY AuthorizedFinite, UnitsFinite DEF TypeOK
<1> QED BY <1>1, <1>4, <1>5, <1>6 DEF Begun, BegunBytes

(* A step that clears nobody, begins no call and leaves cleared callers    *)
(* alone changes no total.                                                 *)
LEMMA BegunSame ==
    ASSUME crossed' = crossed,
           \A c \in Callers : /\ pc'[c] = "cleared" <=> pc[c] = "cleared"
                              /\ pc[c] = "cleared" => call'[c] = call[c]
    PROVE  \A g : Begun(g)' = Begun(g) /\ BegunBytes(g)' = BegunBytes(g)
<1> SUFFICES ASSUME NEW g
             PROVE  Begun(g)' = Begun(g) /\ BegunBytes(g)' = BegunBytes(g)
    OBVIOUS
<1>1. Cleared(g)' = Cleared(g)
    BY DEF Cleared
<1>2. \A c \in Cleared(g) : call'[c].reserved = call[c].reserved
    BY DEF Cleared
<1>3. BegunUnits(g)' = BegunUnits(g)
    BY <1>1, <1>2 DEF BegunUnits
<1> QED BY <1>1, <1>3 DEF Begun, BegunBytes

(* When an authorized caller is cleared, its grant's totals grow by one    *)
(* request and its reserved bytes, and no other grant's totals change.     *)
LEMMA BegunClear ==
    ASSUME TypeOK, NEW c \in Callers, pc[c] # "cleared",
           pc' = [pc EXCEPT ![c] = "cleared"], call' = call, crossed' = crossed,
           NEW h, h = call[c].grant
    PROVE  /\ Begun(h)' = Begun(h) + 1
           /\ BegunBytes(h)' = BegunBytes(h) + call[c].reserved
           /\ \A g : g # h => Begun(g)' = Begun(g) /\ BegunBytes(g)' = BegunBytes(g)
<1>0. call[c].reserved \in Nat
  <2>1. call[c] \in Record
      BY DEF TypeOK
  <2> QED BY <2>1 DEF Record
<1>1. Cleared(h)' = Cleared(h) \cup {c} /\ c \notin Cleared(h)
    BY DEF Cleared, TypeOK
<1>2. Cardinality(Cleared(h)') = Cardinality(Cleared(h)) + 1
    BY <1>1, BegunFinite, FS_AddElement
<1>3. BegunUnits(h)' = BegunUnits(h) \cup ({c} \X (1 .. call[c].reserved))
    BY <1>1 DEF BegunUnits
<1>4. BegunUnits(h) \cap ({c} \X (1 .. call[c].reserved)) = {}
    BY <1>1 DEF BegunUnits
<1>5. Cardinality(BegunUnits(h) \cup ({c} \X (1 .. call[c].reserved)))
        = Cardinality(BegunUnits(h)) + call[c].reserved
    BY <1>0, <1>4, BegunFinite, AddBlock
<1>6. Cardinality(AuthorizedAt(crossed, h)) \in Nat /\ ReservedBytes(crossed, h) \in Nat
    BY AuthorizedFinite, UnitsFinite DEF TypeOK
<1>7. Begun(h)' = Begun(h) + 1
    BY <1>2, <1>6, BegunFinite DEF Begun
<1>8. BegunBytes(h)' = BegunBytes(h) + call[c].reserved
    BY <1>0, <1>3, <1>5, <1>6, BegunFinite DEF BegunBytes
<1>9. ASSUME NEW g, g # h PROVE Begun(g)' = Begun(g) /\ BegunBytes(g)' = BegunBytes(g)
  <2>1. Cleared(g)' = Cleared(g)
      BY <1>9 DEF Cleared, TypeOK
  <2> QED BY <2>1 DEF Begun, BegunBytes, BegunUnits
<1> QED BY <1>7, <1>8, <1>9

(* When a cleared caller's upstream call begins, it moves from the cleared *)
(* to the crossed and no total changes.                                    *)
LEMMA BegunCross ==
    ASSUME TypeOK, NEW c \in Callers, pc[c] = "cleared", call[c].decision = "authorized",
           Cross(c)
    PROVE  \A g : Begun(g)' = Begun(g) /\ BegunBytes(g)' = BegunBytes(g)
<1> SUFFICES ASSUME NEW g
             PROVE  Begun(g)' = Begun(g) /\ BegunBytes(g)' = BegunBytes(g)
    OBVIOUS
<1> DEFINE hit == call[c].grant = g
<1>0. call[c] \in Record /\ call[c].reserved \in Nat
  <2>1. call[c] \in Record
      BY DEF TypeOK
  <2> QED BY <2>1 DEF Record
<1>1. crossed' = Append(crossed, call[c]) /\ crossed \in Seq(Record)
    BY DEF Cross, TypeOK
<1>2. /\ hit => /\ Cardinality(AuthorizedAt(crossed', g)) = Cardinality(AuthorizedAt(crossed, g)) + 1
                /\ ReservedBytes(crossed', g) = ReservedBytes(crossed, g) + call[c].reserved
      /\ ~hit => /\ Cardinality(AuthorizedAt(crossed', g)) = Cardinality(AuthorizedAt(crossed, g))
                 /\ ReservedBytes(crossed', g) = ReservedBytes(crossed, g)
    BY <1>0, <1>1, AppendCounts
<1>3. Cardinality(AuthorizedAt(crossed, g)) \in Nat /\ ReservedBytes(crossed, g) \in Nat
    BY AuthorizedFinite, UnitsFinite DEF TypeOK
<1>4. /\ pc' = [pc EXCEPT ![c] = "idle"]
      /\ \A d \in Callers : d # c => call'[d] = call[d]
    BY DEF Cross, Leave, TypeOK
<1>5. CASE hit
  <2>1. Cleared(g)' = Cleared(g) \ {c} /\ c \in Cleared(g)
      BY <1>4, <1>5 DEF Cleared, TypeOK
  <2>2. Cardinality(Cleared(g)') = Cardinality(Cleared(g)) - 1
      BY <2>1, BegunFinite, FS_RemoveElement
  <2>3. \A d \in Cleared(g) \ {c} : call'[d].reserved = call[d].reserved
      BY <1>4 DEF Cleared
  <2>4. BegunUnits(g) = BegunUnits(g)' \cup ({c} \X (1 .. call[c].reserved))
      BY <2>1, <2>3 DEF BegunUnits
  <2>5. BegunUnits(g)' \cap ({c} \X (1 .. call[c].reserved)) = {}
      BY <2>1 DEF BegunUnits
  <2>6. IsFiniteSet(BegunUnits(g)') /\ Cardinality(BegunUnits(g)') \in Nat
      BY <2>4, BegunFinite, FS_Subset, FS_CardinalityType
  <2>7. Cardinality(BegunUnits(g)) = Cardinality(BegunUnits(g)') + call[c].reserved
    <3> DEFINE V == BegunUnits(g)'
    <3> HIDE DEF V
    <3>1. IsFiniteSet(V) /\ V \cap ({c} \X (1 .. call[c].reserved)) = {}
        BY <2>5, <2>6 DEF V
    <3>2. Cardinality(V \cup ({c} \X (1 .. call[c].reserved)))
            = Cardinality(V) + call[c].reserved
        BY <1>0, <3>1, AddBlock
    <3> QED BY <2>4, <3>2 DEF V
  <2>8. Begun(g)' = Begun(g)
      BY <1>2, <1>3, <1>5, <2>2, BegunFinite DEF Begun
  <2>9. BegunBytes(g)' = BegunBytes(g)
      BY <1>0, <1>2, <1>3, <1>5, <2>6, <2>7 DEF BegunBytes
  <2> QED BY <2>8, <2>9
<1>6. CASE ~hit
  <2>1. Cleared(g)' = Cleared(g) /\ c \notin Cleared(g)
      BY <1>4, <1>6 DEF Cleared, TypeOK
  <2>2. \A d \in Cleared(g) : call'[d].reserved = call[d].reserved
      BY <1>4, <2>1 DEF Cleared
  <2>3. BegunUnits(g)' = BegunUnits(g)
      BY <2>1, <2>2 DEF BegunUnits
  <2> QED BY <1>2, <1>6, <2>1, <2>3 DEF Begun, BegunBytes
<1> QED BY <1>5, <1>6

-----------------------------------------------------------------------------
(* The inductive invariant, one lemma per kind of step. *)

(* What forgotten histories are worth, and what one more of them adds. *)
LEMMA LostTypes ==
    ASSUME TypeOK, NEW g \in Grants
    PROVE  /\ Lost(g) \in Nat /\ LostBytes(g) \in Nat /\ LostRate(g) \in Nat
           /\ (forgotten + 1) * MaxRequests[g] = Lost(g) + MaxRequests[g]
           /\ (forgotten + 1) * MaxBytes[g] = LostBytes(g) + MaxBytes[g]
           /\ (forgotten + 1) * RateRequests[g] = LostRate(g) + RateRequests[g]
<1>1. \A f, m \in Nat : f * m \in Nat /\ (f + 1) * m = f * m + m
    OBVIOUS
<1>2. /\ forgotten \in Nat /\ MaxRequests[g] \in Nat /\ MaxBytes[g] \in Nat
      /\ RateRequests[g] \in Nat
    BY GrantAssumption DEF TypeOK
<1> QED BY <1>1, <1>2 DEF Lost, LostBytes, LostRate

(* All numbers of the budget invariant are natural numbers. *)
LEMMA BudgetTypes ==
    ASSUME TypeOK, NEW g \in Grants
    PROVE  /\ Begun(g) \in Nat /\ BegunBytes(g) \in Nat
           /\ Lost(g) \in Nat /\ LostBytes(g) \in Nat
           /\ MaxRequests[g] \in Nat /\ MaxBytes[g] \in Nat
           /\ usage[g].Requests \in Nat /\ usage[g].Bytes \in Nat
           /\ \A recs \in Seq(Record) : /\ Cardinality(AuthorizedAt(recs, g)) \in Nat
                                        /\ ReservedBytes(recs, g) \in Nat
           /\ \A c \in Callers : call[c] \in Record /\ call[c].reserved \in Nat
<1>1. usage[g] \in grantUsage
    BY DEF TypeOK
<1>2. \A c \in Callers : call[c] \in Record
    BY DEF TypeOK
<1>3. \A r \in Record : r.reserved \in Nat
    BY DEF Record
<1>4. usage[g].Requests \in Nat /\ usage[g].Bytes \in Nat
    BY <1>1 DEF grantUsage
<1>5. \A recs \in Seq(Record) : /\ Cardinality(AuthorizedAt(recs, g)) \in Nat
                                /\ ReservedBytes(recs, g) \in Nat
    BY AuthorizedFinite, UnitsFinite
<1> QED BY <1>2, <1>3, <1>4, <1>5, BegunFinite, LostTypes, GrantTypes

(* A step that begins, counts and anchors nothing. *)
LEMMA BudgetQuiet ==
    ASSUME BudgetInv, UNCHANGED <<anchor, head, usage, forgotten>>, Trusted' => Trusted,
           \A g : Begun(g)' = Begun(g) /\ BegunBytes(g)' = BegunBytes(g),
           \A c \in Callers : pc'[c] = "anchor" => pc[c] = "anchor" /\ call'[c] = call[c]
    PROVE  BudgetInv'
    BY DEF BudgetInv, Accounts, Lost, LostBytes, RequestsLeft, BytesLeft

(* Steps that write no durable state and clear nobody: a caller evaluating *)
(* its grant, the clock, and stuttering.                                   *)
LEMMA QuietStep ==
    ASSUME IInv, UNCHANGED <<disk, memory, up, crossed, forgotten>>,
           \/ \E c \in Callers, g \in Grants, n \in ArgSizes : Evaluate(c, g, n)
           \/ UNCHANGED <<pc, call>>
    PROVE  CallersInv' /\ HeadInv' /\ BudgetInv'
<1> USE DEF IInv
<1>1. \A c \in Callers : \/ pc'[c] = pc[c] /\ call'[c] = call[c]
                         \/ /\ up /\ pc[c] = "idle" /\ pc'[c] = "ready"
                            /\ call'[c].decision = "authorized"
    BY DEF Evaluate, TypeOK
<1>2. \A g : Begun(g)' = Begun(g) /\ BegunBytes(g)' = BegunBytes(g)
    BY <1>1, BegunSame
<1>3. CallersInv'
    BY <1>1 DEF CallersInv, Trusted, TypeOK, disk, memory
<1>4. HeadInv'
    BY DEF HeadInv, Trusted, disk, memory, Continues
<1>5. BudgetInv'
  <2>1. /\ UNCHANGED <<anchor, head, usage, forgotten>> /\ (Trusted' <=> Trusted)
      BY DEF Trusted, disk, memory
  <2>2. \A c \in Callers : pc'[c] = "anchor" => pc[c] = "anchor" /\ call'[c] = call[c]
      BY <1>1
  <2> QED BY <1>2, <2>1, <2>2, BudgetQuiet
<1> QED BY <1>3, <1>4, <1>5

(* appendDecisionLocked up to the anchor: the head grows by the record the *)
(* caller carries to the anchor, or nothing that counts has changed.       *)
LEMMA AppendStep ==
    ASSUME IInv, NEW c \in Callers, NEW r \in Record, NEW o \in AppendOutcomes,
           up, pc[c] # "cleared", LockFree, AppendDecision(c, r, o),
           r.decision = "authorized" => RequestsLeft(r) /\ BytesLeft(r),
           usage' \in [Grants -> grantUsage],
           \A g \in Grants : /\ usage'[g].Requests = usage[g].Requests
                             /\ usage'[g].Bytes = usage[g].Bytes,
           UNCHANGED <<up, now, crossed, forgotten>>
    PROVE  CallersInv' /\ HeadInv' /\ BudgetInv'
<1> USE DEF IInv
<1>0. anchor' = anchor /\ loadErr' = loadErr /\ (Trusted' <=> Trusted)
    BY DEF AppendDecision, Trusted, disk
<1>1. \A d \in Callers : d # c => pc'[d] = pc[d] /\ call'[d] = call[d] /\ pc[d] # "anchor"
    BY DEF AppendDecision, Leave, TypeOK, LockFree
<1>2. \/ pc'[c] = "idle" /\ head' = head
      \/ /\ Trusted /\ pc'[c] = "anchor" /\ call'[c] = r /\ head' = Append(head, r)
    BY DEF AppendDecision, Leave, TypeOK, disk, Trusted
<1>3. \A g : Begun(g)' = Begun(g) /\ BegunBytes(g)' = BegunBytes(g)
    BY <1>1, <1>2, BegunSame
<1>4. CallersInv'
    BY <1>0, <1>1, <1>2 DEF CallersInv, Trusted
<1>5. HeadInv'
  <2>1. Continues(head, anchor) => Continues(Append(head, r), anchor)
      BY DEF Continues, TypeOK
  <2> QED BY <1>0, <1>2, <2>1 DEF HeadInv
<1>6. BudgetInv'
  <2> SUFFICES ASSUME NEW g \in Grants
               PROVE  /\ Begun(g)' <= Lost(g)' + MaxRequests[g]
                      /\ BegunBytes(g)' <= LostBytes(g)' + MaxBytes[g]
                      /\ Accounts(anchor, g, 0, 0)'
                      /\ Trusted' => /\ Accounts(head, g, 0, 0)'
                                     /\ Begun(g)' <= Lost(g)' + usage'[g].Requests
                                     /\ BegunBytes(g)' <= LostBytes(g)' + usage'[g].Bytes
                      /\ \A d \in Callers :
                           pc'[d] = "anchor" /\ call'[d].decision = "authorized" /\ call'[d].grant = g
                              => /\ Accounts(head, g, 1, call[d].reserved)'
                                 /\ RequestsLeft(call[d])' /\ BytesLeft(call[d])'
      BY DEF BudgetInv
  <2>1. /\ Lost(g)' = Lost(g) /\ LostBytes(g)' = LostBytes(g)
      BY DEF Lost, LostBytes
  <2>2. /\ Begun(g) <= Lost(g) + MaxRequests[g] /\ BegunBytes(g) <= LostBytes(g) + MaxBytes[g]
        /\ Accounts(anchor, g, 0, 0)
        /\ Trusted => /\ Accounts(head, g, 0, 0)
                      /\ Begun(g) <= Lost(g) + usage[g].Requests
                      /\ BegunBytes(g) <= LostBytes(g) + usage[g].Bytes
      BY DEF BudgetInv
  <2>3. Accounts(anchor, g, 0, 0)'
      BY <1>0, <1>3, <2>1, <2>2 DEF Accounts
  <2> DEFINE hit == r.decision = "authorized" /\ r.grant = g
             A(s) == Cardinality(AuthorizedAt(s, g))
             B(s) == ReservedBytes(s, g)
             more == Append(head, r)
  <2>4. /\ hit => A(more) = A(head) + 1 /\ B(more) = B(head) + r.reserved
        /\ ~hit => A(more) = A(head) /\ B(more) = B(head)
      BY AppendCounts DEF TypeOK
  <2>5. /\ r.reserved \in Nat /\ r.grant \in Grants /\ A(head) \in Nat /\ B(head) \in Nat
        /\ Begun(g) \in Nat /\ BegunBytes(g) \in Nat /\ Lost(g) \in Nat /\ LostBytes(g) \in Nat
      BY BudgetTypes DEF TypeOK, Record
  <2>6. Trusted => /\ Begun(g) <= Lost(g) + A(head) /\ BegunBytes(g) <= LostBytes(g) + B(head)
      BY <2>2, <2>5 DEF Accounts
  <2>7. CASE pc'[c] = "idle" /\ head' = head
    <3>1. \A d \in Callers : pc'[d] # "anchor"
        BY <1>1, <2>7
    <3>2. Trusted' => Accounts(head, g, 0, 0)'
        BY <1>0, <1>3, <2>1, <2>2, <2>7 DEF Accounts
    <3> QED BY <1>0, <1>3, <2>1, <2>2, <2>3, <3>1, <3>2
  <2>8. CASE Trusted /\ pc'[c] = "anchor" /\ call'[c] = r /\ head' = more
    <3>1. Accounts(head, g, 0, 0)'
      <4>1. Begun(g) + 0 <= Lost(g) + A(more) /\ BegunBytes(g) + 0 <= LostBytes(g) + B(more)
        <5> HIDE DEF A, B, more
        <5> QED BY <2>4, <2>5, <2>6, <2>8
      <4> QED BY <1>3, <2>1, <2>8, <4>1 DEF Accounts
    <3>2. ASSUME hit
          PROVE  Accounts(head, g, 1, r.reserved)'
      <4>1. Begun(g) + 1 <= Lost(g) + A(more) /\ BegunBytes(g) + r.reserved <= LostBytes(g) + B(more)
        <5> HIDE DEF A, B, more
        <5> QED BY <2>4, <2>5, <2>6, <2>8, <3>2
      <4> QED BY <1>3, <2>1, <2>8, <4>1 DEF Accounts
    <3>3. ASSUME NEW d \in Callers, pc'[d] = "anchor", call'[d].decision = "authorized",
                 call'[d].grant = g
          PROVE  /\ Accounts(head, g, 1, call[d].reserved)'
                 /\ RequestsLeft(call[d])' /\ BytesLeft(call[d])'
      <4>1. d = c /\ call'[d] = r
          BY <1>1, <2>8, <3>3
      <4>2. Accounts(head, g, 1, call[d].reserved)'
          BY <3>2, <3>3, <4>1 DEF Accounts
      <4>3. RequestsLeft(call[d])' /\ BytesLeft(call[d])'
          BY <2>5, <3>3, <4>1 DEF RequestsLeft, BytesLeft
      <4> QED BY <4>2, <4>3
    <3> QED BY <1>0, <1>3, <2>1, <2>2, <2>3, <3>1, <3>3
  <2> QED BY <1>2, <2>7, <2>8
<1> QED BY <1>4, <1>5, <1>6

(* Saving the anchor: the anchored history becomes the head, and only then *)
(* is the caller cleared and its reservation counted.                      *)
LEMMA AnchorStep ==
    ASSUME IInv, NEW c \in Callers, NEW o \in {"ok", "failed", "lost"}, SaveAnchor(c, o)
    PROVE  /\ CallersInv' /\ HeadInv' /\ BudgetInv'
           /\ forgotten = 0 => Continues(anchor', anchor)
<1> USE DEF IInv
<1> DEFINE passes == o = "ok" /\ call[c].decision = "authorized"
<1>0. /\ pc[c] = "anchor" /\ Trusted /\ Trusted'
      /\ UNCHANGED <<up, head, loadErr, now, crossed, forgotten>>
    BY DEF SaveAnchor, CallersInv, Trusted
<1>a. call[c] \in Record /\ head \in Seq(Record) /\ anchor \in Seq(Record)
    BY DEF TypeOK
<1>b. PICK h \in Grants : h = call[c].grant
    BY <1>a DEF Record
<1>1. call[c].reserved \in Nat
    BY <1>a DEF Record
<1>2. forgotten = 0 => Continues(head, anchor)
    BY <1>0 DEF HeadInv
<1>3. anchor' \in {anchor, head} /\ (o = "ok" => anchor' = head)
    BY DEF SaveAnchor
<1>4. forgotten = 0 => Continues(anchor', anchor) /\ Continues(head', anchor')
    BY <1>0, <1>2, <1>3 DEF Continues, TypeOK
<1>5. \A d \in Callers : d # c => pc'[d] = pc[d] /\ call'[d] = call[d] /\ pc[d] # "anchor"
  <2>1. \A d \in Callers : d # c => pc[d] # "anchor"
      BY <1>0 DEF CallersInv
  <2> QED BY <2>1 DEF SaveAnchor, Leave, TypeOK
<1>6. /\ passes => pc'[c] = "cleared" /\ call' = call
      /\ ~passes => pc'[c] = "idle"
    BY DEF SaveAnchor, Leave, TypeOK
<1>7. CallersInv'
    BY <1>0, <1>5, <1>6 DEF CallersInv, Trusted
<1>8. HeadInv'
    BY <1>0, <1>4 DEF HeadInv
<1>9. \A d \in Callers : pc'[d] # "anchor"
    BY <1>5, <1>6
<1>10. BudgetInv'
  <2> SUFFICES ASSUME NEW g \in Grants
               PROVE  /\ Begun(g)' <= Lost(g)' + MaxRequests[g]
                      /\ BegunBytes(g)' <= LostBytes(g)' + MaxBytes[g]
                      /\ Accounts(anchor, g, 0, 0)' /\ Accounts(head, g, 0, 0)'
                      /\ Begun(g)' <= Lost(g)' + usage'[g].Requests
                      /\ BegunBytes(g)' <= LostBytes(g)' + usage'[g].Bytes
      BY <1>9 DEF BudgetInv
  <2> DEFINE A(s) == Cardinality(AuthorizedAt(s, g))
             B(s) == ReservedBytes(s, g)
  <2>1. Lost(g)' = Lost(g) /\ LostBytes(g)' = LostBytes(g)
      BY <1>0 DEF Lost, LostBytes
  <2>2. /\ Begun(g) <= Lost(g) + MaxRequests[g] /\ BegunBytes(g) <= LostBytes(g) + MaxBytes[g]
        /\ Accounts(anchor, g, 0, 0) /\ Accounts(head, g, 0, 0)
        /\ Begun(g) <= Lost(g) + usage[g].Requests
        /\ BegunBytes(g) <= LostBytes(g) + usage[g].Bytes
      BY <1>0 DEF BudgetInv
  <2>3. /\ Begun(g) \in Nat /\ BegunBytes(g) \in Nat /\ Lost(g) \in Nat /\ LostBytes(g) \in Nat
        /\ MaxRequests[g] \in Nat /\ MaxBytes[g] \in Nat
        /\ usage[g].Requests \in Nat /\ usage[g].Bytes \in Nat
        /\ A(head) \in Nat /\ B(head) \in Nat /\ A(anchor) \in Nat /\ B(anchor) \in Nat
      BY <1>a, BudgetTypes
  <2>4. CASE passes /\ g = h
    <3>1. pc' = [pc EXCEPT ![c] = "cleared"] /\ call' = call /\ crossed' = crossed
        BY <2>4 DEF SaveAnchor
    <3>2. Begun(g)' = Begun(g) + 1 /\ BegunBytes(g)' = BegunBytes(g) + call[c].reserved
        BY <1>0, <1>b, <2>4, <3>1, BegunClear
    <3>3. /\ usage'[g].Requests = usage[g].Requests + 1
          /\ usage'[g].Bytes = usage[g].Bytes + call[c].reserved
        BY <1>b, <2>4 DEF SaveAnchor, Counted, TypeOK
    <3>4. /\ Accounts(head, g, 1, call[c].reserved)
          /\ RequestsLeft(call[c]) /\ BytesLeft(call[c])
        BY <1>0, <1>b, <2>4 DEF BudgetInv
    <3>5. /\ usage[g].Requests + 1 <= MaxRequests[g]
          /\ usage[g].Bytes + call[c].reserved <= MaxBytes[g]
        BY <1>b, <2>4, <3>4 DEF RequestsLeft, BytesLeft
    <3>6. /\ Begun(g) + 1 <= Lost(g) + A(head)
          /\ BegunBytes(g) + call[c].reserved <= LostBytes(g) + B(head)
        BY <3>4 DEF Accounts
    <3>7. anchor' = head /\ head' = head
        BY <1>0, <1>3, <2>4
    <3>8. Accounts(anchor, g, 0, 0)' /\ Accounts(head, g, 0, 0)'
      <4>1. /\ Begun(g)' + 0 <= Lost(g) + A(head)
            /\ BegunBytes(g)' + 0 <= LostBytes(g) + B(head)
        <5> HIDE DEF A, B
        <5> QED BY <1>1, <2>3, <3>2, <3>6
      <4> QED BY <2>1, <3>7, <4>1 DEF Accounts
    <3> QED BY <1>1, <2>1, <2>2, <2>3, <3>2, <3>3, <3>5, <3>8
  <2>5. CASE ~(passes /\ g = h)
    <3>1. Begun(g)' = Begun(g) /\ BegunBytes(g)' = BegunBytes(g)
      <4>1. CASE passes
        <5>1. pc' = [pc EXCEPT ![c] = "cleared"] /\ call' = call /\ crossed' = crossed
            BY <4>1 DEF SaveAnchor
        <5> QED BY <1>0, <1>b, <2>5, <4>1, <5>1, BegunClear
      <4>2. CASE ~passes
          BY <1>0, <1>5, <1>6, <4>2, BegunSame
      <4> QED BY <4>1, <4>2
    <3>2. usage'[g] = usage[g]
        BY <1>b, <2>5 DEF SaveAnchor, Counted, TypeOK
    <3>3. Accounts(anchor, g, 0, 0)' /\ Accounts(head, g, 0, 0)'
        BY <1>0, <1>3, <2>1, <2>2, <3>1 DEF Accounts
    <3> QED BY <2>1, <2>2, <3>1, <3>2, <3>3
  <2> QED BY <2>4, <2>5
<1> QED BY <1>4, <1>7, <1>8, <1>10

(* The upstream call of a cleared caller begins. *)
LEMMA CrossStep ==
    ASSUME IInv, NEW c \in Callers, Cross(c)
    PROVE  CallersInv' /\ HeadInv' /\ BudgetInv'
<1> USE DEF IInv
<1>1. /\ pc[c] = "cleared" /\ call[c].decision = "authorized"
      /\ UNCHANGED <<disk, memory, up, forgotten>>
    BY DEF Cross, CallersInv
<1>2. /\ pc'[c] = "idle"
      /\ \A d \in Callers : d # c => pc'[d] = pc[d] /\ call'[d] = call[d]
    BY DEF Cross, Leave, TypeOK
<1>3. \A g : Begun(g)' = Begun(g) /\ BegunBytes(g)' = BegunBytes(g)
    BY <1>1, BegunCross
<1>4. CallersInv'
    BY <1>1, <1>2 DEF CallersInv, Trusted, memory
<1>5. HeadInv'
    BY <1>1 DEF HeadInv, Trusted, disk, memory, Continues
<1>6. BudgetInv'
  <2>1. UNCHANGED <<anchor, head, usage, forgotten>> /\ (Trusted' <=> Trusted)
      BY <1>1 DEF Trusted, disk, memory
  <2>2. \A d \in Callers : pc'[d] = "anchor" => pc[d] = "anchor" /\ call'[d] = call[d]
      BY <1>2
  <2> QED BY <1>3, <2>1, <2>2, BudgetQuiet
<1> QED BY <1>4, <1>5, <1>6

(* A crash forgets the cleared callers, so totals can only shrink. *)
LEMMA CrashStep ==
    ASSUME IInv, Crash
    PROVE  CallersInv' /\ HeadInv' /\ BudgetInv'
<1> USE DEF IInv
<1>1. /\ \A c \in Callers : pc'[c] = "idle" /\ call'[c] = NoCall
      /\ UNCHANGED <<disk, crossed, forgotten>> /\ ~Trusted' /\ ~up'
    BY DEF Crash, Trusted
<1>2. CallersInv'
    BY <1>1 DEF CallersInv
<1>3. HeadInv'
    BY <1>1 DEF HeadInv
<1>4. BudgetInv'
  <2> SUFFICES ASSUME NEW g \in Grants
               PROVE  /\ Begun(g)' <= Lost(g)' + MaxRequests[g]
                      /\ BegunBytes(g)' <= LostBytes(g)' + MaxBytes[g]
                      /\ Accounts(anchor, g, 0, 0)'
      BY <1>1 DEF BudgetInv
  <2>1. Cleared(g)' = {}
      BY <1>1 DEF Cleared
  <2>2. BegunUnits(g)' = {}
      BY <2>1 DEF BegunUnits
  <2>3. /\ Begun(g)' = Cardinality(AuthorizedAt(crossed, g)) + 0
        /\ BegunBytes(g)' = ReservedBytes(crossed, g) + 0
      BY <1>1, <2>1, <2>2, FS_EmptySet DEF Begun, BegunBytes
  <2>4. Cardinality(AuthorizedAt(crossed, g)) \in Nat /\ ReservedBytes(crossed, g) \in Nat
      BY AuthorizedFinite, UnitsFinite DEF TypeOK
  <2>5. /\ Begun(g)' \in Nat /\ BegunBytes(g)' \in Nat
        /\ Begun(g)' <= Begun(g) /\ BegunBytes(g)' <= BegunBytes(g)
      BY <2>3, <2>4, BegunFinite DEF Begun, BegunBytes
  <2>6. /\ Begun(g) <= Lost(g) + MaxRequests[g] /\ BegunBytes(g) <= LostBytes(g) + MaxBytes[g]
        /\ Accounts(anchor, g, 0, 0)
      BY DEF BudgetInv
  <2>7. /\ Lost(g)' = Lost(g) /\ LostBytes(g)' = LostBytes(g) /\ anchor' = anchor
      BY <1>1 DEF Lost, LostBytes, disk
  <2>8. /\ Begun(g) \in Nat /\ BegunBytes(g) \in Nat /\ Lost(g) \in Nat /\ LostBytes(g) \in Nat
        /\ MaxRequests[g] \in Nat /\ MaxBytes[g] \in Nat
        /\ Cardinality(AuthorizedAt(anchor, g)) \in Nat /\ ReservedBytes(anchor, g) \in Nat
      BY BudgetTypes DEF TypeOK
  <2>9. /\ Begun(g)' + 0 <= Lost(g) + Cardinality(AuthorizedAt(anchor, g))
        /\ BegunBytes(g)' + 0 <= LostBytes(g) + ReservedBytes(anchor, g)
    <3>1. /\ Begun(g) + 0 <= Lost(g) + Cardinality(AuthorizedAt(anchor, g))
          /\ BegunBytes(g) + 0 <= LostBytes(g) + ReservedBytes(anchor, g)
        BY <2>6 DEF Accounts
    <3> QED BY <2>5, <2>8, <3>1
  <2>10. Accounts(anchor, g, 0, 0)'
      BY <2>7, <2>9 DEF Accounts
  <2> QED BY <2>5, <2>6, <2>7, <2>8, <2>10
<1> QED BY <1>2, <1>3, <1>4

(* Whatever happens to the file while the gateway is down. *)
LEMMA LoseStep ==
    ASSUME IInv, NEW k, LoseLines(k)
    PROVE  CallersInv' /\ HeadInv' /\ BudgetInv'
<1> USE DEF IInv
<1>1. /\ ~up /\ UNCHANGED <<anchor, up, head, usage, loadErr, pc, call, crossed, forgotten>>
      /\ ~Trusted /\ ~Trusted'
    BY DEF LoseLines, Trusted, memory
<1>2. \A g : Begun(g)' = Begun(g) /\ BegunBytes(g)' = BegunBytes(g)
    BY <1>1, BegunSame
<1>3. BudgetInv'
    BY <1>1, <1>2, BudgetQuiet
<1> QED BY <1>1, <1>3 DEF CallersInv, HeadInv

(* A restart that trusts the ledger has reloaded exactly the anchored      *)
(* history, or has forgotten it and starts from nothing.                   *)
LEMMA ReloadsAnchor ==
    ASSUME TypeOK, NEW b \in BOOLEAN, NEW o \in BOOLEAN, Restart(b, o), Trusted'
    PROVE  \/ forgotten' = forgotten /\ head' = anchor /\ usage' = UsageOf(anchor)
           \/ forgotten' = forgotten + 1 /\ head' = <<>> /\ usage' = UsageOf(<<>>)
<1>1. Records(<<>>) = <<>>
    BY DEF Records
<1>2. LedgerTrusted(b, o)
    BY DEF Restart, Trusted
<1>3. CASE Forgets(o)
  <2>1. Loaded(o) = <<>>
      BY <1>1, <1>3 DEF Forgets, Loaded
  <2> QED BY <1>3, <2>1 DEF Restart
<1>4. CASE ~Forgets(o)
  <2>1. Loaded(o) = anchor
    <3>1. CASE ~o
        BY <1>4, <3>1 DEF Forgets, Loaded
    <3>2. CASE o /\ file = "missing"
        BY <1>2, <3>2 DEF LedgerTrusted, Loaded
    <3>3. CASE o /\ file = "present"
        BY <1>1, <1>2, <1>4, <3>3 DEF LedgerTrusted, Loaded, Forgets
    <3> QED BY <3>1, <3>2, <3>3 DEF TypeOK
  <2> QED BY <1>4, <2>1 DEF Restart
<1> QED BY <1>3, <1>4

(* So its counters cover everything that ever began, or what began is      *)
(* within the budgets of the histories that were forgotten.                *)
LEMMA RestartStep ==
    ASSUME IInv, NEW b \in BOOLEAN, NEW o \in BOOLEAN, Restart(b, o)
    PROVE  CallersInv' /\ HeadInv' /\ BudgetInv'
<1> USE DEF IInv
<1>1. ~up /\ UNCHANGED <<disk, pc, call, crossed>> /\ \A c \in Callers : pc[c] = "idle"
    BY DEF Restart, CallersInv
<1>2. forgotten \in Nat /\ forgotten' \in {forgotten, forgotten + 1}
    BY DEF Restart, TypeOK
<1>3. ASSUME Trusted'
      PROVE  \/ forgotten' = forgotten /\ head' = anchor /\ usage' = UsageOf(anchor)
             \/ forgotten' = forgotten + 1 /\ head' = <<>> /\ usage' = UsageOf(<<>>)
    BY <1>3, ReloadsAnchor
<1>4. \A g : Begun(g)' = Begun(g) /\ BegunBytes(g)' = BegunBytes(g)
    BY <1>1, BegunSame
<1>5. CallersInv'
    BY <1>1 DEF CallersInv
<1>6. HeadInv'
  <2>1. ASSUME Trusted', forgotten' = 0 PROVE head' = anchor
      BY <1>2, <1>3, <2>1
  <2> QED BY <1>1, <2>1 DEF HeadInv, Continues, TypeOK, disk
<1>7. BudgetInv'
  <2> SUFFICES ASSUME NEW g \in Grants
               PROVE  /\ Begun(g)' <= Lost(g)' + MaxRequests[g]
                      /\ BegunBytes(g)' <= LostBytes(g)' + MaxBytes[g]
                      /\ Accounts(anchor, g, 0, 0)'
                      /\ Trusted' => /\ Accounts(head, g, 0, 0)'
                                     /\ Begun(g)' <= Lost(g)' + usage'[g].Requests
                                     /\ BegunBytes(g)' <= LostBytes(g)' + usage'[g].Bytes
      BY <1>1 DEF BudgetInv
  <2> DEFINE A(s) == Cardinality(AuthorizedAt(s, g))
             B(s) == ReservedBytes(s, g)
  <2>0. Begun(g)' = Begun(g) /\ BegunBytes(g)' = BegunBytes(g)
      BY <1>4
  <2>1. /\ Begun(g) \in Nat /\ BegunBytes(g) \in Nat /\ Lost(g) \in Nat /\ LostBytes(g) \in Nat
        /\ MaxRequests[g] \in Nat /\ MaxBytes[g] \in Nat
        /\ A(anchor) \in Nat /\ B(anchor) \in Nat /\ A(<<>>) \in Nat /\ B(<<>>) \in Nat
      BY BudgetTypes, EmptySeq DEF TypeOK
  <2>2. /\ Begun(g) <= Lost(g) + MaxRequests[g] /\ BegunBytes(g) <= LostBytes(g) + MaxBytes[g]
        /\ Begun(g) + 0 <= Lost(g) + A(anchor) /\ BegunBytes(g) + 0 <= LostBytes(g) + B(anchor)
      BY DEF BudgetInv, Accounts
  <2>3. /\ forgotten' = forgotten => Lost(g)' = Lost(g) /\ LostBytes(g)' = LostBytes(g)
        /\ forgotten' = forgotten + 1 => /\ Lost(g)' = Lost(g) + MaxRequests[g]
                                         /\ LostBytes(g)' = LostBytes(g) + MaxBytes[g]
    <3>1. Lost(g)' = forgotten' * MaxRequests[g] /\ LostBytes(g)' = forgotten' * MaxBytes[g]
        BY DEF Lost, LostBytes
    <3> QED BY <3>1, LostTypes DEF Lost, LostBytes
  <2>4. /\ Begun(g)' <= Lost(g)' + MaxRequests[g]
        /\ BegunBytes(g)' <= LostBytes(g)' + MaxBytes[g]
        /\ Begun(g)' + 0 <= Lost(g)' + A(anchor) /\ BegunBytes(g)' + 0 <= LostBytes(g)' + B(anchor)
    <3> HIDE DEF A, B
    <3>1. CASE forgotten' = forgotten
        BY <2>0, <2>1, <2>2, <2>3, <3>1
    <3>2. CASE forgotten' = forgotten + 1
      <4>1. Lost(g)' = Lost(g) + MaxRequests[g] /\ LostBytes(g)' = LostBytes(g) + MaxBytes[g]
          BY <2>3, <3>2
      <4>2. /\ Begun(g) <= (Lost(g) + MaxRequests[g]) + MaxRequests[g]
            /\ BegunBytes(g) <= (LostBytes(g) + MaxBytes[g]) + MaxBytes[g]
          BY <2>1, <2>2
      <4>3. /\ Begun(g) + 0 <= (Lost(g) + MaxRequests[g]) + A(anchor)
            /\ BegunBytes(g) + 0 <= (LostBytes(g) + MaxBytes[g]) + B(anchor)
          BY <2>1, <2>2
      <4> QED BY <2>0, <4>1, <4>2, <4>3
    <3> QED BY <1>2, <3>1, <3>2
  <2>5. Accounts(anchor, g, 0, 0)'
      BY <1>1, <2>4 DEF Accounts, disk
  <2>6. ASSUME Trusted'
        PROVE  /\ Begun(g)' + 0 <= Lost(g)' + A(head') /\ BegunBytes(g)' + 0 <= LostBytes(g)' + B(head')
               /\ usage'[g].Requests = A(head') /\ usage'[g].Bytes = B(head')
    <3>1. usage' = UsageOf(head')
        BY <1>3, <2>6
    <3>2. usage'[g].Requests = A(head') /\ usage'[g].Bytes = B(head')
        BY <3>1 DEF UsageOf
    <3>3. CASE forgotten' = forgotten /\ head' = anchor
        BY <2>4, <3>2, <3>3
    <3>4. CASE forgotten' = forgotten + 1 /\ head' = <<>>
      <4>1. /\ Begun(g)' + 0 <= Lost(g)' + A(<<>>) /\ BegunBytes(g)' + 0 <= LostBytes(g)' + B(<<>>)
        <5> HIDE DEF A, B
        <5>1. Lost(g)' = Lost(g) + MaxRequests[g] /\ LostBytes(g)' = LostBytes(g) + MaxBytes[g]
            BY <2>3, <3>4
        <5>2. /\ Begun(g) + 0 <= (Lost(g) + MaxRequests[g]) + A(<<>>)
              /\ BegunBytes(g) + 0 <= (LostBytes(g) + MaxBytes[g]) + B(<<>>)
            BY <2>1, <2>2
        <5> QED BY <2>0, <5>1, <5>2
      <4> QED BY <3>2, <3>4, <4>1
    <3> QED BY <1>3, <2>6, <3>3, <3>4
  <2>7. Trusted' => /\ Accounts(head, g, 0, 0)'
                    /\ Begun(g)' <= Lost(g)' + usage'[g].Requests
                    /\ BegunBytes(g)' <= LostBytes(g)' + usage'[g].Bytes
    <3>1. Trusted' => Accounts(head, g, 0, 0)'
        BY <2>6 DEF Accounts
    <3>2. Begun(g)' + 0 = Begun(g)' /\ BegunBytes(g)' + 0 = BegunBytes(g)'
        BY <1>4, <2>1
    <3> QED BY <2>6, <3>1, <3>2
  <2> QED BY <2>4, <2>5, <2>7
<1> QED BY <1>5, <1>6, <1>7

-----------------------------------------------------------------------------
(* The inductive invariant holds initially. *)
LEMMA InvInit == Init => IInv
<1> SUFFICES ASSUME Init PROVE IInv
    OBVIOUS
<1>1. TypeOK
    BY TypeInit
<1>2. CallersInv /\ HeadInv
    BY DEF Init, CallersInv, HeadInv, Continues
<1>3. BudgetInv
  <2> SUFFICES ASSUME NEW g \in Grants
               PROVE  /\ Begun(g) <= Lost(g) + MaxRequests[g]
                      /\ BegunBytes(g) <= LostBytes(g) + MaxBytes[g]
                      /\ Accounts(anchor, g, 0, 0) /\ Accounts(head, g, 0, 0)
                      /\ Begun(g) <= Lost(g) + usage[g].Requests
                      /\ BegunBytes(g) <= LostBytes(g) + usage[g].Bytes
      BY DEF BudgetInv, Init
  <2>1. Cleared(g) = {} /\ AuthorizedAt(crossed, g) = {}
      BY DEF Init, Cleared, AuthorizedAt
  <2>2. BegunUnits(g) = {} /\ ReservedUnits(crossed, g) = {}
      BY <2>1 DEF BegunUnits, ReservedUnits
  <2>3. Begun(g) = 0 /\ BegunBytes(g) = 0
      BY <2>1, <2>2, FS_EmptySet DEF Begun, BegunBytes, ReservedBytes
  <2>4. /\ Cardinality(AuthorizedAt(anchor, g)) \in Nat /\ ReservedBytes(anchor, g) \in Nat
        /\ Cardinality(AuthorizedAt(head, g)) \in Nat /\ ReservedBytes(head, g) \in Nat
        /\ Lost(g) \in Nat /\ LostBytes(g) \in Nat
        /\ MaxRequests[g] \in Nat /\ MaxBytes[g] \in Nat
        /\ usage[g].Requests \in Nat /\ usage[g].Bytes \in Nat
      BY <1>1, BudgetTypes DEF TypeOK
  <2> QED BY <2>3, <2>4 DEF Accounts
<1> QED BY <1>1, <1>2, <1>3 DEF IInv

(* Every step keeps the inductive invariant, and unless a history was      *)
(* forgotten only continues the anchor.                                    *)
LEMMA InvStep ==
    ASSUME IInv, [Next]_vars
    PROVE  IInv' /\ (forgotten' = 0 => Continues(anchor', anchor))
<1>0. TypeOK'
    BY TypeStep DEF IInv
<1>c. anchor' = anchor => Continues(anchor', anchor)
    BY DEF Continues, IInv, TypeOK
<1>1. ASSUME NEW c \in Callers, NEW g \in Grants, NEW n \in ArgSizes, Evaluate(c, g, n)
      PROVE  CallersInv' /\ HeadInv' /\ BudgetInv' /\ anchor' = anchor
  <2>1. UNCHANGED <<disk, memory, up, crossed, forgotten>>
      BY <1>1 DEF Evaluate
  <2> QED BY <1>1, <2>1, QuietStep DEF disk
<1>2. ASSUME NEW c \in Callers, NEW o \in AppendOutcomes, Authorize(c, o)
      PROVE  CallersInv' /\ HeadInv' /\ BudgetInv' /\ anchor' = anchor
  <2> DEFINE r == IF WithinBudget(call[c]) THEN call[c] ELSE Refusal(call[c].grant)
  <2>1. call[c] \in Record
      BY DEF IInv, TypeOK
  <2>2. r \in Record
      BY <2>1 DEF Record, Refusal
  <2>3. r.decision = "authorized" => RequestsLeft(r) /\ BytesLeft(r)
    <3>1. CASE WithinBudget(call[c])
        BY <3>1 DEF WithinBudget
    <3>2. CASE ~WithinBudget(call[c])
        BY <3>2 DEF Refusal
    <3> QED BY <3>1, <3>2
  <2>4. /\ usage' \in [Grants -> grantUsage]
        /\ \A g \in Grants : /\ usage'[g].Requests = usage[g].Requests
                              /\ usage'[g].Bytes = usage[g].Bytes
      BY <1>2, <2>1, PruneUsage DEF Authorize, IInv
  <2>5. /\ up /\ pc[c] # "cleared" /\ LockFree /\ AppendDecision(c, r, o)
        /\ UNCHANGED <<up, now, crossed, forgotten>>
      BY <1>2 DEF Authorize
  <2> HIDE DEF r
  <2>6. anchor' = anchor
      BY <2>5 DEF AppendDecision, disk
  <2> QED BY <2>2, <2>3, <2>4, <2>5, <2>6, AppendStep
<1>3. ASSUME NEW c \in Callers, NEW g \in Grants, NEW o \in AppendOutcomes, Refuse(c, g, o)
      PROVE  CallersInv' /\ HeadInv' /\ BudgetInv' /\ anchor' = anchor
  <2> DEFINE r == Refusal(g)
  <2>1. r \in Record /\ r.decision = "refused"
      BY DEF Record, Refusal
  <2>2. /\ up /\ pc[c] # "cleared" /\ LockFree /\ AppendDecision(c, r, o)
        /\ UNCHANGED <<usage, up, now, crossed, forgotten>>
      BY <1>3 DEF Refuse
  <2>3. usage' \in [Grants -> grantUsage]
      BY <2>2 DEF IInv, TypeOK
  <2> HIDE DEF r
  <2>4. anchor' = anchor
      BY <2>2 DEF AppendDecision, disk
  <2>5. r.decision = "authorized" => RequestsLeft(r) /\ BytesLeft(r)
      BY <2>1
  <2> QED BY <2>1, <2>2, <2>3, <2>4, <2>5, AppendStep
<1>4. ASSUME NEW c \in Callers, NEW o \in {"ok", "failed", "lost"}, SaveAnchor(c, o)
      PROVE  /\ CallersInv' /\ HeadInv' /\ BudgetInv'
             /\ forgotten' = 0 => Continues(anchor', anchor)
    BY <1>4, AnchorStep DEF SaveAnchor
<1>5. ASSUME NEW c \in Callers, Cross(c)
      PROVE  CallersInv' /\ HeadInv' /\ BudgetInv' /\ anchor' = anchor
    BY <1>5, CrossStep DEF Cross, disk
<1>6. ASSUME Crash
      PROVE  CallersInv' /\ HeadInv' /\ BudgetInv' /\ anchor' = anchor
    BY <1>6, CrashStep DEF Crash, disk
<1>7. ASSUME NEW k \in DiskLoss, LoseLines(k)
      PROVE  CallersInv' /\ HeadInv' /\ BudgetInv' /\ anchor' = anchor
    BY <1>7, LoseStep DEF LoseLines
<1>8. ASSUME NEW b \in BOOLEAN, NEW o \in BOOLEAN, Restart(b, o)
      PROVE  CallersInv' /\ HeadInv' /\ BudgetInv' /\ anchor' = anchor
    BY <1>8, RestartStep DEF Restart, disk
<1>9. ASSUME Tick \/ UNCHANGED vars
      PROVE  CallersInv' /\ HeadInv' /\ BudgetInv' /\ anchor' = anchor
  <2>1. UNCHANGED <<disk, memory, up, crossed, forgotten>> /\ UNCHANGED <<pc, call>>
      BY <1>9 DEF Tick, vars, disk, memory
  <2> QED BY <2>1, QuietStep DEF disk
<1>10. CallersInv' /\ HeadInv' /\ BudgetInv' /\ (forgotten' = 0 => Continues(anchor', anchor))
    BY <1>1, <1>2, <1>3, <1>4, <1>5, <1>6, <1>7, <1>8, <1>9, <1>c DEF Next
<1> QED BY <1>0, <1>10 DEF IInv

(* What the invariant says of the calls that began. *)
LEMMA InvBudgets == IInv => RequestBudgetHeld /\ ByteBudgetHeld /\ CrossingsAnchored
<1> SUFFICES ASSUME IInv, NEW g \in Grants
             PROVE  /\ Cardinality(AuthorizedAt(crossed, g)) <= (1 + forgotten) * MaxRequests[g]
                    /\ ReservedBytes(crossed, g) <= (1 + forgotten) * MaxBytes[g]
                    /\ Cardinality(AuthorizedAt(crossed, g))
                          <= Cardinality(AuthorizedAt(anchor, g)) + forgotten * MaxRequests[g]
    BY DEF RequestBudgetHeld, ByteBudgetHeld, CrossingsAnchored
<1>1. /\ Begun(g) <= Lost(g) + MaxRequests[g] /\ BegunBytes(g) <= LostBytes(g) + MaxBytes[g]
      /\ Begun(g) + 0 <= Lost(g) + Cardinality(AuthorizedAt(anchor, g))
    BY DEF IInv, BudgetInv, Accounts
<1>2. /\ Cardinality(AuthorizedAt(crossed, g)) \in Nat /\ ReservedBytes(crossed, g) \in Nat
      /\ Cardinality(AuthorizedAt(anchor, g)) \in Nat
      /\ Cardinality(Cleared(g)) \in Nat /\ Cardinality(BegunUnits(g)) \in Nat
    BY AuthorizedFinite, UnitsFinite, BegunFinite DEF IInv, TypeOK
<1>3. /\ Lost(g) \in Nat /\ LostBytes(g) \in Nat /\ MaxRequests[g] \in Nat /\ MaxBytes[g] \in Nat
      /\ (1 + forgotten) * MaxRequests[g] = Lost(g) + MaxRequests[g]
      /\ (1 + forgotten) * MaxBytes[g] = LostBytes(g) + MaxBytes[g]
  <2>1. 1 + forgotten = forgotten + 1
      BY DEF IInv, TypeOK
  <2> QED BY <2>1, LostTypes, GrantTypes DEF IInv
<1>4. Lost(g) = forgotten * MaxRequests[g]
    BY DEF Lost
<1>5. /\ Cardinality(AuthorizedAt(crossed, g)) <= Lost(g) + MaxRequests[g]
      /\ ReservedBytes(crossed, g) <= LostBytes(g) + MaxBytes[g]
      /\ Cardinality(AuthorizedAt(crossed, g)) <= Cardinality(AuthorizedAt(anchor, g)) + Lost(g)
    BY <1>1, <1>2, <1>3 DEF Begun, BegunBytes
<1> QED BY <1>3, <1>4, <1>5

(* For every set of callers, every grant and every sequence of crashes,    *)
(* failed appends, failed anchor saves, losses of the file and restarts,   *)
(* no more upstream calls begin under a grant than its max_requests, and   *)
(* as many again for each start that forgot the history.                   *)
THEOREM RequestBudgetTheorem == Spec => []RequestBudgetHeld
<1>1. IInv /\ [Next]_vars => IInv'
    BY InvStep
<1> QED BY InvInit, <1>1, InvBudgets, PTL DEF Spec

(* ... nor are more bytes reserved for them than its max_bytes, and as     *)
(* many again for each such start.                                         *)
THEOREM ByteBudgetTheorem == Spec => []ByteBudgetHeld
<1>1. IInv /\ [Next]_vars => IInv'
    BY InvStep
<1> QED BY InvInit, <1>1, InvBudgets, PTL DEF Spec

(* The history the signed anchor commits to accounts for every call that   *)
(* began, but for a budget for each start that forgot the history.         *)
THEOREM CrossingsAnchoredTheorem == Spec => []CrossingsAnchored
<1>1. IInv /\ [Next]_vars => IInv'
    BY InvStep
<1> QED BY InvInit, <1>1, InvBudgets, PTL DEF Spec

(* No step rewrites the anchored history unless a start forgot it. *)
THEOREM AnchorExtendsTheorem == Spec => AnchorExtends
<1>1. IInv /\ [Next]_vars => IInv'
    BY InvStep
<1>2. IInv /\ [Next]_vars => [forgotten' = 0 => Continues(anchor', anchor)]_vars
    BY InvStep
<1> QED BY InvInit, <1>1, <1>2, PTL DEF Spec, AnchorExtends

(* A ledger that VerifyDecisionLedger reports as anchored holds an         *)
(* authorization for every call that began, but for the histories that     *)
(* were forgotten: no rollback or removal of the file can hide one.        *)
THEOREM VerificationSoundTheorem == Spec => []VerificationSound
<1>1. CrossingsAnchored => VerificationSound
  <2>1. VerifyDecisionLedger = "anchored" => anchor = Records(ledger)
      BY DEF VerifyDecisionLedger
  <2> QED BY <2>1 DEF CrossingsAnchored, VerificationSound
<1>2. Spec => []CrossingsAnchored
    BY CrossingsAnchoredTheorem
<1> QED BY <1>1, <1>2, PTL

-----------------------------------------------------------------------------
(* The rate: what begins within any set of instants. *)

(* These counts are natural numbers. *)
LEMMA InstantsFinite ==
    ASSUME TypeOK, NEW g \in Grants, NEW W
    PROVE  /\ \A recs \in Seq(Record) : /\ IsFiniteSet(AuthorizedIn(recs, g, W))
                                        /\ Cardinality(AuthorizedIn(recs, g, W)) \in Nat
           /\ IsFiniteSet(ClearedIn(g, W)) /\ Cardinality(ClearedIn(g, W)) \in Nat
           /\ BegunIn(g, W) \in Nat
<1>1. ASSUME NEW recs \in Seq(Record)
      PROVE  /\ IsFiniteSet(AuthorizedIn(recs, g, W))
             /\ Cardinality(AuthorizedIn(recs, g, W)) \in Nat
  <2>1. AuthorizedIn(recs, g, W) \subseteq AuthorizedAt(recs, g)
      BY DEF AuthorizedIn
  <2> QED BY <2>1, AuthorizedFinite, FS_Subset, FS_CardinalityType
<1>2. IsFiniteSet(ClearedIn(g, W)) /\ Cardinality(ClearedIn(g, W)) \in Nat
  <2>1. ClearedIn(g, W) \subseteq Cleared(g)
      BY DEF ClearedIn
  <2> QED BY <2>1, BegunFinite, FS_Subset, FS_CardinalityType
<1>3. crossed \in Seq(Record)
    BY DEF TypeOK
<1> QED BY <1>1, <1>2, <1>3 DEF BegunIn

(* One more record counts once, when it authorizes g at such a time. *)
LEMMA AppendIn ==
    ASSUME TypeOK, NEW recs \in Seq(Record), NEW r \in Record, NEW g \in Grants, NEW W
    PROVE  Cardinality(AuthorizedIn(Append(recs, r), g, W))
             = IF r.decision = "authorized" /\ r.grant = g /\ r.at \in W
               THEN Cardinality(AuthorizedIn(recs, g, W)) + 1
               ELSE Cardinality(AuthorizedIn(recs, g, W))
<1> DEFINE X == AuthorizedIn(recs, g, W)  last == Len(recs) + 1  more == Append(recs, r)
           hit == r.decision = "authorized" /\ r.grant = g /\ r.at \in W
<1>1. /\ DOMAIN recs = 1 .. Len(recs) /\ DOMAIN more = 1 .. last /\ Len(recs) \in Nat
      /\ more[last] = r /\ \A i \in 1 .. Len(recs) : more[i] = recs[i]
    OBVIOUS
<1>2. IsFiniteSet(X)
    BY InstantsFinite
<1> HIDE DEF more
<1>3. CASE hit
  <2>1. AuthorizedIn(more, g, W) = X \cup {last} /\ last \notin X
      BY <1>1, <1>3 DEF AuthorizedIn, AuthorizedAt
  <2>2. Cardinality(AuthorizedIn(more, g, W)) = Cardinality(X) + 1
    <3> HIDE DEF X
    <3> QED BY <1>2, <2>1, FS_AddElement
  <2> QED BY <1>3, <2>2 DEF more
<1>4. CASE ~hit
  <2>1. AuthorizedIn(more, g, W) = X
      BY <1>1, <1>4 DEF AuthorizedIn, AuthorizedAt
  <2> QED BY <1>4, <2>1 DEF more
<1> QED BY <1>3, <1>4

(* The steps that clear nobody and begin no call. *)
LEMMA BegunInSame ==
    ASSUME crossed' = crossed,
           \A c \in Callers : /\ pc'[c] = "cleared" <=> pc[c] = "cleared"
                              /\ pc[c] = "cleared" => call'[c] = call[c]
    PROVE  \A g, W : BegunIn(g, W)' = BegunIn(g, W)
<1> SUFFICES ASSUME NEW g, NEW W
             PROVE  BegunIn(g, W)' = BegunIn(g, W)
    OBVIOUS
<1>1. ClearedIn(g, W)' = ClearedIn(g, W)
    BY DEF ClearedIn, Cleared
<1> QED BY <1>1 DEF BegunIn

(* A caller is cleared: one more at its instant. *)
LEMMA BegunInClear ==
    ASSUME TypeOK, NEW c \in Callers, pc[c] # "cleared",
           pc' = [pc EXCEPT ![c] = "cleared"], call' = call, crossed' = crossed,
           NEW g \in Grants, NEW W
    PROVE  BegunIn(g, W)' = IF call[c].grant = g /\ call[c].at \in W
                            THEN BegunIn(g, W) + 1 ELSE BegunIn(g, W)
<1>1. IsFiniteSet(ClearedIn(g, W)) /\ Cardinality(ClearedIn(g, W)) \in Nat
    BY InstantsFinite
<1>2. Cardinality(AuthorizedIn(crossed, g, W)) \in Nat
    BY InstantsFinite DEF TypeOK
<1>3. CASE call[c].grant = g /\ call[c].at \in W
  <2>1. ClearedIn(g, W)' = ClearedIn(g, W) \cup {c} /\ c \notin ClearedIn(g, W)
      BY <1>3 DEF ClearedIn, Cleared, TypeOK
  <2>2. Cardinality(ClearedIn(g, W)') = Cardinality(ClearedIn(g, W)) + 1
      BY <1>1, <2>1, FS_AddElement
  <2> QED BY <1>1, <1>2, <1>3, <2>2 DEF BegunIn
<1>4. CASE ~(call[c].grant = g /\ call[c].at \in W)
  <2>1. ClearedIn(g, W)' = ClearedIn(g, W)
      BY <1>4 DEF ClearedIn, Cleared, TypeOK
  <2> QED BY <1>4, <2>1 DEF BegunIn
<1> QED BY <1>3, <1>4

(* Its call begins: it moves from the cleared to the crossed. *)
LEMMA BegunInCross ==
    ASSUME TypeOK, NEW c \in Callers, pc[c] = "cleared", call[c].decision = "authorized",
           Cross(c), NEW g \in Grants, NEW W
    PROVE  BegunIn(g, W)' = BegunIn(g, W)
<1> DEFINE X == AuthorizedIn(crossed, g, W)
           hit == call[c].grant = g /\ call[c].at \in W
<1>1. crossed' = Append(crossed, call[c]) /\ crossed \in Seq(Record) /\ call[c] \in Record
    BY DEF Cross, TypeOK
<1>2. Cardinality(AuthorizedIn(crossed', g, W))
        = IF hit THEN Cardinality(X) + 1 ELSE Cardinality(X)
    BY <1>1, AppendIn
<1>3. /\ pc' = [pc EXCEPT ![c] = "idle"]
      /\ \A d \in Callers : d # c => call'[d] = call[d]
    BY DEF Cross, Leave, TypeOK
<1>4. Cardinality(X) \in Nat
    BY <1>1, InstantsFinite
<1>5. IsFiniteSet(ClearedIn(g, W)) /\ Cardinality(ClearedIn(g, W)) \in Nat
    BY InstantsFinite
<1>6. CASE hit
  <2>1. ClearedIn(g, W)' = ClearedIn(g, W) \ {c} /\ c \in ClearedIn(g, W)
      BY <1>3, <1>6 DEF ClearedIn, Cleared, TypeOK
  <2>2. Cardinality(ClearedIn(g, W)') = Cardinality(ClearedIn(g, W)) - 1
      BY <1>5, <2>1, FS_RemoveElement
  <2> QED BY <1>2, <1>4, <1>5, <1>6, <2>2 DEF BegunIn
<1>7. CASE ~hit
  <2>1. ClearedIn(g, W)' = ClearedIn(g, W)
      BY <1>3, <1>7 DEF ClearedIn, Cleared, TypeOK
  <2> QED BY <1>2, <1>7, <2>1 DEF BegunIn
<1> QED BY <1>6, <1>7

(* A crash forgets the cleared. *)
LEMMA BegunInCrash ==
    ASSUME TypeOK, Crash, NEW g \in Grants, NEW W
    PROVE  BegunIn(g, W)' \in Nat /\ BegunIn(g, W)' <= BegunIn(g, W)
<1>1. ClearedIn(g, W)' = {} /\ crossed' = crossed
    BY DEF Crash, ClearedIn, Cleared
<1>2. BegunIn(g, W)' = Cardinality(AuthorizedIn(crossed, g, W)) + 0
    BY <1>1, FS_EmptySet DEF BegunIn
<1>3. Cardinality(AuthorizedIn(crossed, g, W)) \in Nat /\ Cardinality(ClearedIn(g, W)) \in Nat
    BY InstantsFinite DEF TypeOK
<1> QED BY <1>2, <1>3 DEF BegunIn

-----------------------------------------------------------------------------
(* The rate invariant, one lemma per kind of step. *)

LEMMA RateTypes ==
    ASSUME TypeOK, NEW g \in Grants
    PROVE  /\ RateWindow[g] \in Nat /\ RateRequests[g] \in Nat /\ MaxDelay \in Nat /\ now \in Nat
           /\ usage[g].Times \subseteq [seq : Nat, at : Nat]
           /\ \A c \in Callers : call[c] \in Record /\ call[c].grant \in Grants /\ call[c].at \in Nat
<1>1. usage[g].Times \subseteq [seq : Nat, at : Nat]
  <2>1. usage[g] \in grantUsage
      BY DEF TypeOK
  <2> QED BY <2>1 DEF grantUsage
<1>2. \A c \in Callers : call[c] \in Record
    BY DEF TypeOK
<1>3. \A r \in Record : r.grant \in Grants /\ r.at \in Nat
    BY DEF Record
<1>4. RateWindow[g] \in Nat /\ RateRequests[g] \in Nat /\ MaxDelay \in Nat /\ now \in Nat
    BY GrantAssumption, BoundAssumption DEF TypeOK
<1> QED BY <1>1, <1>2, <1>3, <1>4

(* Steps that count and begin nothing: evaluation, a call beginning, the   *)
(* clock, a loss of the file.                                              *)
LEMMA RateQuiet ==
    ASSUME IInv, RateInv, UNCHANGED <<anchor, head, usage, forgotten>>, Trusted' => Trusted,
           now' \in {now, now + 1},
           \A g \in Grants, W \in SUBSET Nat : BegunIn(g, W)' = BegunIn(g, W),
           \A c \in Callers : pc'[c] = "anchor" => pc[c] = "anchor" /\ call'[c] = call[c],
           \A c \in Callers : pc'[c] = "ready" => call'[c].at <= now' /\ now' <= call'[c].at + MaxDelay
    PROVE  RateInv'
<1> USE DEF IInv, RateInv
<1>1. WaitInv'
  <2>1. \A c \in Callers : pc'[c] = "anchor" /\ call'[c].decision = "authorized" => RateLeft(call[c])'
      BY DEF WaitInv, RateLeft, Kept
  <2> QED BY <2>1 DEF WaitInv
<1>2. TimesInv'
    BY DEF TimesInv
<1>3. WindowInv'
  <2> SUFFICES ASSUME NEW g \in Grants, NEW W \in SUBSET Nat, Close(W, g)
               PROVE  /\ BegunIn(g, W)' <= LostRate(g)' + RateRequests[g]
                      /\ BegunIn(g, W)' <= LostRate(g)' + Cardinality(AuthorizedIn(anchor, g, W))
                      /\ Trusted' => BegunIn(g, W)' <= LostRate(g)' + Cardinality(AuthorizedIn(head, g, W))
                      /\ Trusted' /\ Uncut(W, g)' =>
                            BegunIn(g, W)' <= LostRate(g)' + Cardinality(CountedIn(g, W)')
                      /\ \A c \in Callers :
                            /\ pc'[c] = "anchor" /\ call'[c].decision = "authorized"
                            /\ call'[c].grant = g /\ call'[c].at \in W
                            => BegunIn(g, W)' + 1 <= LostRate(g)' + Cardinality(AuthorizedIn(head, g, W))
      BY DEF WindowInv, Close
  <2>1. Uncut(W, g)' => Uncut(W, g)
    <3>1. Spared(W, g, now') => Spared(W, g, now)
      <4>1. now \in Nat /\ RateWindow[g] \in Nat /\ \A x \in W : x \in Nat
          BY RateTypes
      <4>2. now' = now \/ now' = now + 1
          OBVIOUS
      <4> HIDE DEF IInv, RateInv
      <4>3. ASSUME NEW x \in W, x > now' - RateWindow[g]
            PROVE  x > now - RateWindow[g]
        <5>1. CASE now' = now
            BY <4>3, <5>1
        <5>2. CASE now' = now + 1
            BY <4>1, <4>3, <5>2
        <5> QED BY <4>2, <5>1, <5>2
      <4> QED BY <4>3 DEF Spared
    <3> QED BY <3>1 DEF Uncut, Spared
  <2>2. CountedIn(g, W)' = CountedIn(g, W) /\ LostRate(g)' = LostRate(g)
      BY DEF CountedIn, LostRate
  <2>3. /\ BegunIn(g, W) <= LostRate(g) + RateRequests[g]
        /\ BegunIn(g, W) <= LostRate(g) + Cardinality(AuthorizedIn(anchor, g, W))
        /\ Trusted => BegunIn(g, W) <= LostRate(g) + Cardinality(AuthorizedIn(head, g, W))
        /\ Trusted /\ Uncut(W, g) => BegunIn(g, W) <= LostRate(g) + Cardinality(CountedIn(g, W))
        /\ \A c \in Callers :
              /\ pc[c] = "anchor" /\ call[c].decision = "authorized"
              /\ call[c].grant = g /\ call[c].at \in W
              => BegunIn(g, W) + 1 <= LostRate(g) + Cardinality(AuthorizedIn(head, g, W))
      BY DEF WindowInv
  <2>4. BegunIn(g, W)' = BegunIn(g, W)
      OBVIOUS
  <2> QED BY <2>1, <2>2, <2>3, <2>4
<1> QED BY <1>1, <1>2, <1>3

(* authorizeDecision and refuseDecision up to the anchor: pruning at the   *)
(* caller's own time touches no window that could still be charged.        *)
LEMMA RateAppend ==
    ASSUME IInv, RateInv, NEW c \in Callers, NEW r \in Record, NEW o \in AppendOutcomes,
           up, pc[c] # "cleared", LockFree, AppendDecision(c, r, o),
           UNCHANGED <<up, now, crossed, forgotten>>,
           NEW t \in Nat, t <= now, now <= t + MaxDelay,
           r.decision = "authorized" => RateLeft(r) /\ r.at = t,
           usage' = usage \/ usage' = [usage EXCEPT ![r.grant].Times = Kept(@, r.grant, t)]
    PROVE  RateInv'
<1> USE DEF IInv, RateInv
<1>0. anchor' = anchor /\ (Trusted' <=> Trusted)
    BY DEF AppendDecision, Trusted, disk
<1>1. \A d \in Callers : d # c => pc'[d] = pc[d] /\ call'[d] = call[d] /\ pc[d] # "anchor"
    BY DEF AppendDecision, Leave, TypeOK, LockFree
<1>2. \/ pc'[c] = "idle" /\ head' = head
      \/ ~loadErr /\ pc'[c] = "anchor" /\ call'[c] = r /\ head' = Append(head, r)
    BY DEF AppendDecision, Leave, TypeOK, disk
<1>3. r.grant \in Grants /\ r.at \in Nat
    BY DEF Record
<1>4. Len(head) \in Nat /\ Len(Append(head, r)) = Len(head) + 1
    BY DEF TypeOK
<1>5. ASSUME NEW g \in Grants
      PROVE  /\ usage'[g].Times \subseteq usage[g].Times
             /\ g # r.grant => usage'[g].Times = usage[g].Times
             /\ \A e \in usage[g].Times : e.at > t - RateWindow[g] => e \in usage'[g].Times
  <2>1. usage \in [Grants -> grantUsage] /\ usage[g] \in grantUsage
      BY DEF TypeOK
  <2>2. CASE usage' = usage
      BY <2>2
  <2>3. CASE usage' = [usage EXCEPT ![r.grant].Times = Kept(@, r.grant, t)]
    <3>1. CASE g = r.grant
      <4>1. usage'[g].Times = Kept(usage[g].Times, g, t)
          BY <2>1, <2>3, <3>1 DEF grantUsage
      <4> QED BY <3>1, <4>1 DEF Kept
    <3>2. CASE g # r.grant
        BY <2>1, <2>3, <3>2
    <3> QED BY <3>1, <3>2
  <2> QED BY <2>2, <2>3
<1>6. WaitInv'
  <2>1. \A d \in Callers : pc'[d] = "ready" => pc[d] = "ready" /\ call'[d] = call[d]
      BY <1>1, <1>2
  <2>2. ASSUME NEW d \in Callers, pc'[d] = "anchor", call'[d].decision = "authorized"
        PROVE  RateLeft(call[d])'
    <3>1. d = c /\ call'[d] = r
        BY <1>1, <1>2, <2>2
    <3>2. RateLeft(r) /\ r.at = t
        BY <2>2, <3>1
    <3>3. Kept(usage'[r.grant].Times, r.grant, r.at) = Kept(usage[r.grant].Times, r.grant, r.at)
        BY <1>3, <1>5, <3>2 DEF Kept
    <3> QED BY <3>1, <3>2, <3>3 DEF RateLeft, Kept
  <2> QED BY <2>1, <2>2 DEF WaitInv
<1>7. TimesInv'
  <2> SUFFICES ASSUME NEW g \in Grants
               PROVE  /\ IsFiniteSet(usage'[g].Times)
                      /\ Trusted => \A e \in usage'[g].Times : e.seq <= Len(head')
                      /\ \A d \in Callers : pc'[d] = "anchor" =>
                            \A e \in usage'[g].Times : e.seq < Len(head')
      BY <1>0 DEF TimesInv
  <2>1. IsFiniteSet(usage'[g].Times)
      BY <1>5, FS_Subset DEF TimesInv
  <2>2. \A e \in usage[g].Times : e.seq \in Nat
      BY RateTypes
  <2>3. Trusted => \A e \in usage[g].Times : e.seq <= Len(head)
      BY DEF TimesInv
  <2>4. Trusted => \A e \in usage'[g].Times : e.seq <= Len(head')
      BY <1>2, <1>4, <1>5, <2>2, <2>3
  <2>5. ASSUME NEW d \in Callers, pc'[d] = "anchor", NEW e \in usage'[g].Times
        PROVE  e.seq < Len(head')
    <3>1. Trusted /\ head' = Append(head, r)
        BY <1>1, <1>2, <2>5 DEF Trusted
    <3> QED BY <1>4, <1>5, <2>2, <2>3, <3>1
  <2> QED BY <2>1, <2>4, <2>5
<1>8. WindowInv'
  <2> SUFFICES ASSUME NEW g \in Grants, NEW W \in SUBSET Nat, Close(W, g)
               PROVE  /\ BegunIn(g, W)' <= LostRate(g)' + RateRequests[g]
                      /\ BegunIn(g, W)' <= LostRate(g)' + Cardinality(AuthorizedIn(anchor, g, W))
                      /\ Trusted => BegunIn(g, W)' <= LostRate(g)' + Cardinality(AuthorizedIn(head', g, W))
                      /\ Trusted /\ Uncut(W, g)' =>
                            BegunIn(g, W)' <= LostRate(g)' + Cardinality(CountedIn(g, W)')
                      /\ \A d \in Callers :
                            /\ pc'[d] = "anchor" /\ call'[d].decision = "authorized"
                            /\ call'[d].grant = g /\ call'[d].at \in W
                            => BegunIn(g, W)' + 1 <= LostRate(g)' + Cardinality(AuthorizedIn(head', g, W))
      BY <1>0 DEF WindowInv, Close
  <2> DEFINE B == BegunIn(g, W)  A(s) == Cardinality(AuthorizedIn(s, g, W))  L == LostRate(g)
             hit == r.decision = "authorized" /\ r.grant = g /\ r.at \in W
  <2>1. /\ B <= L + RateRequests[g] /\ B <= L + A(anchor)
        /\ Trusted => B <= L + A(head)
        /\ Trusted /\ Uncut(W, g) => B <= L + Cardinality(CountedIn(g, W))
      BY DEF WindowInv
  <2>2. BegunIn(g, W)' = B /\ LostRate(g)' = L
    <3>1. BegunIn(g, W)' = B
        BY <1>1, <1>2, BegunInSame
    <3> QED BY <3>1 DEF LostRate
  <2>3. ASSUME Uncut(W, g)'
        PROVE  Uncut(W, g) /\ CountedIn(g, W)' = CountedIn(g, W)
    <3>1. Spared(W, g, now)
      <4>1. Spared(W, g, t + MaxDelay) => Spared(W, g, now)
          BY RateTypes DEF Spared
      <4> QED BY <1>1, <1>2, <2>3, <4>1 DEF Uncut, Spared
    <3>2. \A x \in W : x > t - RateWindow[g]
        BY <3>1, RateTypes DEF Spared
    <3>3. CountedIn(g, W)' = CountedIn(g, W)
        BY <1>5, <3>2 DEF CountedIn
    <3> QED BY <3>1, <3>3 DEF Uncut
  <2>4. /\ B \in Nat /\ L \in Nat /\ A(head) \in Nat
        /\ A(Append(head, r)) = IF hit THEN A(head) + 1 ELSE A(head)
    <3>1. head \in Seq(Record)
        BY DEF TypeOK
    <3>2. A(Append(head, r)) = IF hit THEN A(head) + 1 ELSE A(head)
        BY <3>1, AppendIn
    <3>3. B \in Nat /\ A(head) \in Nat
        BY <3>1, InstantsFinite
    <3>4. L \in Nat
        BY LostTypes
    <3> QED BY <3>2, <3>3, <3>4
  <2>5. ASSUME Trusted
        PROVE  B <= L + A(head') /\ (hit /\ head' = Append(head, r) => B + 1 <= L + A(head'))
    <3>1. B <= L + A(head)
        BY <2>1, <2>5
    <3> HIDE DEF A, B, L, hit
    <3>2. CASE head' = head
      <4>1. ~(hit /\ head' = Append(head, r))
          BY <1>4, <3>2
      <4> QED BY <3>1, <3>2, <4>1
    <3>3. CASE head' = Append(head, r)
      <4>1. CASE hit
          BY <2>4, <3>1, <3>3, <4>1
      <4>2. CASE ~hit
          BY <2>4, <3>1, <3>3, <4>2
      <4> QED BY <4>1, <4>2
    <3> QED BY <1>2, <3>2, <3>3
  <2>6. ASSUME NEW d \in Callers, pc'[d] = "anchor", call'[d].decision = "authorized",
               call'[d].grant = g, call'[d].at \in W
        PROVE  B + 1 <= L + A(head')
    <3>1. d = c /\ call'[d] = r /\ head' = Append(head, r) /\ Trusted
        BY <1>1, <1>2, <2>6 DEF Trusted
    <3> QED BY <2>5, <2>6, <3>1
  <2> HIDE DEF A, B, L
  <2> QED BY <2>1, <2>2, <2>3, <2>5, <2>6 DEF A, B, L
<1> QED BY <1>6, <1>7, <1>8

(* The anchor is saved, or not: who passes is counted, at its own instant, *)
(* in memory and in the anchored history, and fills no window beyond the   *)
(* rate, because none of that window's calls had been pruned.              *)
LEMMA RateAnchor ==
    ASSUME IInv, RateInv, NEW c \in Callers, NEW o \in {"ok", "failed", "lost"}, SaveAnchor(c, o)
    PROVE  RateInv'
<1> USE DEF IInv, RateInv
<1> DEFINE passes == o = "ok" /\ call[c].decision = "authorized"
           G == call[c].grant
           new == [seq |-> Len(head), at |-> call[c].at]
<1>0. /\ pc[c] = "anchor" /\ UNCHANGED <<head, now, crossed, forgotten>> /\ anchor' \in {anchor, head}
      /\ passes => anchor' = head
    BY DEF SaveAnchor
<1>1. Trusted /\ Trusted'
    BY <1>0 DEF SaveAnchor, CallersInv, Trusted
<1>2. \A d \in Callers : d # c => pc'[d] = pc[d] /\ call'[d] = call[d] /\ pc[d] # "anchor"
    BY <1>0 DEF SaveAnchor, Leave, TypeOK, CallersInv
<1>3. /\ pc'[c] # "anchor" /\ pc'[c] # "ready"
      /\ ~passes => pc'[c] = "idle" /\ usage' = usage
      /\ passes => pc' = [pc EXCEPT ![c] = "cleared"] /\ call' = call
    BY DEF SaveAnchor, Leave, TypeOK
<1>4. \A d \in Callers : pc'[d] # "anchor"
    BY <1>2, <1>3
<1>5. G \in Grants /\ call[c].at \in Nat /\ Len(head) \in Nat
  <2>1. call[c] \in Record /\ head \in Seq(Record)
      BY DEF TypeOK
  <2> QED BY <2>1 DEF Record
<1>6. ASSUME NEW g \in Grants
      PROVE  usage'[g].Times = IF passes /\ g = G THEN usage[g].Times \cup {new} ELSE usage[g].Times
  <2>1. usage \in [Grants -> grantUsage] /\ usage[g] \in grantUsage
      BY DEF TypeOK
  <2>2. passes => usage' = Counted(c)
      BY DEF SaveAnchor
  <2>3. CASE passes /\ g = G
    <3>1. usage'[g] = [Requests |-> usage[g].Requests + 1,
                       Bytes    |-> usage[g].Bytes + call[c].reserved,
                       Times    |-> usage[g].Times \cup {new}]
        BY <2>1, <2>2, <2>3 DEF Counted
    <3> QED BY <2>3, <3>1
  <2>4. CASE passes /\ g # G
    <3>1. usage'[g] = usage[g]
        BY <2>1, <2>2, <2>4 DEF Counted
    <3> QED BY <2>4, <3>1
  <2>5. CASE ~passes
      BY <1>3, <2>5
  <2> QED BY <2>3, <2>4, <2>5
<1>7. WaitInv'
    BY <1>0, <1>2, <1>3, <1>4 DEF WaitInv
<1>8. TimesInv'
  <2> SUFFICES ASSUME NEW g \in Grants
               PROVE  /\ IsFiniteSet(usage'[g].Times)
                      /\ \A e \in usage'[g].Times : e.seq <= Len(head)
      BY <1>0, <1>4 DEF TimesInv
  <2>1. IsFiniteSet(usage[g].Times) /\ \A e \in usage[g].Times : e.seq <= Len(head)
      BY <1>1 DEF TimesInv
  <2>2. IsFiniteSet(usage[g].Times \cup {new})
      BY <2>1, FS_AddElement
  <2>3. IsFiniteSet(usage'[g].Times)
      BY <1>6, <2>1, <2>2
  <2>4. ASSUME NEW e \in usage'[g].Times
        PROVE  e.seq <= Len(head)
    <3>1. e \in usage[g].Times \/ e = new
        BY <1>6, <2>4
    <3>2. CASE e = new
      <4>1. e.seq = Len(head)
          BY <3>2
      <4> QED BY <1>5, <4>1
    <3> QED BY <2>1, <3>1, <3>2
  <2> QED BY <2>3, <2>4
<1>9. WindowInv'
  <2> SUFFICES ASSUME NEW g \in Grants, NEW W \in SUBSET Nat, Close(W, g)
               PROVE  /\ BegunIn(g, W)' <= LostRate(g)' + RateRequests[g]
                      /\ BegunIn(g, W)' <= LostRate(g)' + Cardinality(AuthorizedIn(anchor', g, W))
                      /\ BegunIn(g, W)' <= LostRate(g)' + Cardinality(AuthorizedIn(head, g, W))
                      /\ Uncut(W, g)' => BegunIn(g, W)' <= LostRate(g)' + Cardinality(CountedIn(g, W)')
      BY <1>0, <1>4 DEF WindowInv, Close
  <2> DEFINE hit == passes /\ G = g /\ call[c].at \in W
             B == BegunIn(g, W)
             A(s) == Cardinality(AuthorizedIn(s, g, W))
             L == LostRate(g)
             old == CountedIn(g, W)
  <2>0. LostRate(g)' = L
      BY <1>0 DEF LostRate
  <2>1. /\ B <= L + RateRequests[g] /\ B <= L + A(anchor) /\ B <= L + A(head)
        /\ Uncut(W, g) => B <= L + Cardinality(old)
        /\ hit => B + 1 <= L + A(head)
      BY <1>0, <1>1 DEF WindowInv
  <2>2. BegunIn(g, W)' = IF hit THEN B + 1 ELSE B
    <3>1. CASE passes
        BY <1>0, <1>3, <3>1, BegunInClear
    <3>2. CASE ~passes
      <4>1. BegunIn(g, W)' = B
          BY <1>0, <1>2, <1>3, <3>2, BegunInSame
      <4> QED BY <3>2, <4>1
    <3> QED BY <3>1, <3>2
  <2>3. /\ IsFiniteSet(old) /\ Cardinality(old) \in Nat /\ B \in Nat /\ L \in Nat
        /\ RateRequests[g] \in Nat /\ RateWindow[g] \in Nat /\ MaxDelay \in Nat /\ now \in Nat
    <3>1. old \subseteq usage[g].Times /\ IsFiniteSet(usage[g].Times)
        BY DEF CountedIn, TimesInv
    <3>2. IsFiniteSet(old) /\ Cardinality(old) \in Nat
      <4> HIDE DEF old
      <4> QED BY <3>1, FS_Subset, FS_CardinalityType
    <3> QED BY <3>2, RateTypes, InstantsFinite, LostTypes
  <2>4. ASSUME hit
        PROVE  B + 1 <= L + RateRequests[g]
    <3>1. \A x \in W : x \in Nat /\ call[c].at - x < RateWindow[g] - MaxDelay
        BY <2>4 DEF Close
    <3>2. Spared(W, g, call[c].at + MaxDelay)
        BY <1>5, <2>3, <3>1 DEF Spared
    <3>3. B <= L + Cardinality(old)
        BY <1>0, <2>1, <2>4, <3>2 DEF Uncut
    <3> DEFINE kept == Kept(usage[g].Times, g, call[c].at)
    <3>4. old \subseteq kept
      <4>1. \A x \in W : x > call[c].at - RateWindow[g]
          BY <1>5, <2>3, <3>1
      <4> QED BY <4>1 DEF CountedIn, Kept
    <3>5. IsFiniteSet(kept)
      <4>1. kept \subseteq usage[g].Times /\ IsFiniteSet(usage[g].Times)
          BY DEF Kept, TimesInv
      <4> HIDE DEF kept
      <4> QED BY <4>1, FS_Subset
    <3>6. Cardinality(kept) + 1 <= RateRequests[g]
        BY <1>0, <2>4 DEF WaitInv, RateLeft
    <3>7. Cardinality(old) <= Cardinality(kept) /\ Cardinality(kept) \in Nat
      <4> HIDE DEF old, kept
      <4> QED BY <3>4, <3>5, FS_Subset, FS_CardinalityType
    <3> HIDE DEF B, L, old, kept
    <3> QED BY <2>3, <3>3, <3>6, <3>7
  <2>5. BegunIn(g, W)' <= L + A(anchor') /\ BegunIn(g, W)' <= L + A(head)
    <3>1. CASE hit
        BY <1>0, <2>1, <2>2, <3>1
    <3>2. CASE ~hit
        BY <1>0, <2>1, <2>2, <3>2
    <3> QED BY <3>1, <3>2
  <2>6. ASSUME Uncut(W, g)'
        PROVE  BegunIn(g, W)' <= L + Cardinality(CountedIn(g, W)')
    <3>1. B <= L + Cardinality(old)
      <4>1. Spared(W, g, now)
          BY <1>0, <1>4, <2>6 DEF Uncut, Spared
      <4> QED BY <2>1, <4>1 DEF Uncut
    <3>2. CASE hit
      <4>1. CountedIn(g, W)' = old \cup {new}
        <5>1. usage'[g].Times = usage[g].Times \cup {new} /\ new.at \in W
            BY <1>6, <3>2
        <5> HIDE DEF new
        <5> QED BY <5>1 DEF CountedIn
      <4>2. new \notin old
        <5>1. \A e \in old : e.seq < Len(head)
            BY <1>0 DEF TimesInv, CountedIn
        <5> QED BY <1>5, <5>1
      <4>3. Cardinality(CountedIn(g, W)') = Cardinality(old) + 1
        <5> HIDE DEF old, new
        <5> QED BY <2>3, <4>1, <4>2, FS_AddElement
      <4> QED BY <2>2, <2>3, <3>1, <3>2, <4>3
    <3>3. CASE ~hit
      <4>1. CountedIn(g, W)' = old
        <5>1. CASE passes /\ G = g
          <6>1. usage'[g].Times = usage[g].Times \cup {new} /\ new.at \notin W
              BY <1>6, <3>3, <5>1
          <6> QED BY <6>1 DEF CountedIn
        <5>2. CASE ~(passes /\ G = g)
          <6>1. usage'[g].Times = usage[g].Times
              BY <1>6, <5>2
          <6> QED BY <6>1 DEF CountedIn
        <5> QED BY <5>1, <5>2
      <4> QED BY <2>2, <3>1, <3>3, <4>1
    <3> QED BY <3>2, <3>3
  <2> QED BY <2>0, <2>1, <2>2, <2>4, <2>5, <2>6
<1> QED BY <1>7, <1>8, <1>9

(* A crash forgets the counters and the cleared. *)
LEMMA RateCrash ==
    ASSUME IInv, RateInv, Crash
    PROVE  RateInv'
<1> USE DEF IInv, RateInv
<1>1. /\ \A c \in Callers : pc'[c] = "idle"
      /\ ~Trusted' /\ anchor' = anchor /\ forgotten' = forgotten
      /\ \A g \in Grants : usage'[g].Times = {}
    BY DEF Crash, Trusted, disk, NoUsage
<1>2. WaitInv'
    BY <1>1 DEF WaitInv
<1>3. TimesInv'
    BY <1>1, FS_EmptySet DEF TimesInv
<1>4. WindowInv'
  <2> SUFFICES ASSUME NEW g \in Grants, NEW W \in SUBSET Nat, Close(W, g)
               PROVE  /\ BegunIn(g, W)' <= LostRate(g)' + RateRequests[g]
                      /\ BegunIn(g, W)' <= LostRate(g)' + Cardinality(AuthorizedIn(anchor, g, W))
      BY <1>1 DEF WindowInv, Close
  <2> DEFINE A == Cardinality(AuthorizedIn(anchor, g, W))
  <2>1. BegunIn(g, W) <= LostRate(g) + RateRequests[g] /\ BegunIn(g, W) <= LostRate(g) + A
      BY DEF WindowInv
  <2>2. BegunIn(g, W)' \in Nat /\ BegunIn(g, W)' <= BegunIn(g, W) /\ LostRate(g)' = LostRate(g)
      BY <1>1, BegunInCrash DEF LostRate
  <2>3. BegunIn(g, W) \in Nat /\ RateRequests[g] \in Nat /\ A \in Nat /\ LostRate(g) \in Nat
      BY InstantsFinite, RateTypes, LostTypes DEF TypeOK
  <2> HIDE DEF A
  <2> QED BY <2>1, <2>2, <2>3 DEF A
<1> QED BY <1>2, <1>3, <1>4

(* The times rebuilt from a history: finitely many, one per authorization. *)
LEMMA RebuiltTimes ==
    ASSUME TypeOK, NEW recs \in Seq(Record), NEW g \in Grants, NEW W
    PROVE  LET T == UsageOf(recs)[g].Times
           IN  /\ IsFiniteSet(T) /\ \A e \in T : e.seq <= Len(recs)
               /\ Cardinality(AuthorizedIn(recs, g, W)) <= Cardinality({e \in T : e.at \in W})
<1> DEFINE entry(i) == [seq |-> i, at |-> recs[i].at]
           A == AuthorizedAt(recs, g)
           T == {entry(i) : i \in A}
           AW == AuthorizedIn(recs, g, W)
           TW == {e \in T : e.at \in W}
           f == [i \in A |-> entry(i)]
           h == [i \in AW |-> entry(i)]
<1>1. UsageOf(recs)[g].Times = T
    BY DEF UsageOf
<1>2. IsFiniteSet(A) /\ DOMAIN recs = 1 .. Len(recs) /\ Len(recs) \in Nat
    BY AuthorizedFinite
<1>3. \A e \in T : e.seq <= Len(recs)
    BY <1>2 DEF AuthorizedAt
<1>4. f \in Surjection(A, T)
    BY DEF Surjection
<1>5. h \in Injection(AW, TW)
  <2>1. \A i \in AW : entry(i) \in TW
      BY DEF AuthorizedIn
  <2>2. \A i, j \in AW : entry(i) = entry(j) => i = j
    <3>1. \A i : entry(i).seq = i
        OBVIOUS
    <3> QED BY <3>1
  <2> QED BY <2>1, <2>2 DEF Injection, IsInjective
<1> HIDE DEF T, A, AW, f, h
<1>6. IsFiniteSet(T)
    BY <1>2, <1>4, FS_Surjection
<1>7. IsFiniteSet(TW)
    BY <1>6, FS_Subset
<1> HIDE DEF TW
<1>8. Cardinality(AW) <= Cardinality(TW)
    BY <1>5, <1>7, FS_Injection
<1> QED BY <1>1, <1>3, <1>6, <1>8 DEF TW, AW

(* A restart that trusts the file has every instant back, or the calls of  *)
(* the history it forgot are within the rates it is worth.                 *)
LEMMA RateRestart ==
    ASSUME IInv, RateInv, NEW b \in BOOLEAN, NEW o \in BOOLEAN, Restart(b, o)
    PROVE  RateInv'
<1> USE DEF IInv, RateInv
<1>1. /\ UNCHANGED <<anchor, pc, call, now, crossed>> /\ \A c \in Callers : pc'[c] = "idle"
      /\ forgotten' \in {forgotten, forgotten + 1}
    BY DEF Restart, CallersInv, disk
<1>2. Loaded(o) \in Seq(Record) /\ head' = Loaded(o) /\ usage' = UsageOf(Loaded(o))
    BY LoadedType DEF Restart
<1>3. ASSUME Trusted'
      PROVE  \/ forgotten' = forgotten /\ head' = anchor
             \/ forgotten' = forgotten + 1
    BY <1>3, ReloadsAnchor
<1>4. anchor \in Seq(Record)
    BY DEF TypeOK
<1>5. WaitInv'
    BY <1>1 DEF WaitInv
<1>6. TimesInv'
  <2> SUFFICES ASSUME NEW g \in Grants
               PROVE  /\ IsFiniteSet(usage'[g].Times)
                      /\ \A e \in usage'[g].Times : e.seq <= Len(head')
      BY <1>1 DEF TimesInv
  <2> QED BY <1>2, RebuiltTimes
<1>7. WindowInv'
  <2> SUFFICES ASSUME NEW g \in Grants, NEW W \in SUBSET Nat, Close(W, g)
               PROVE  /\ BegunIn(g, W)' <= LostRate(g)' + RateRequests[g]
                      /\ BegunIn(g, W)' <= LostRate(g)' + Cardinality(AuthorizedIn(anchor, g, W))
                      /\ Trusted' => /\ BegunIn(g, W)' <= LostRate(g)' + Cardinality(AuthorizedIn(head', g, W))
                                     /\ BegunIn(g, W)' <= LostRate(g)' + Cardinality(CountedIn(g, W)')
      BY <1>1 DEF WindowInv, Close
  <2> DEFINE B == BegunIn(g, W)  L == LostRate(g)  R == RateRequests[g]
             A(s) == Cardinality(AuthorizedIn(s, g, W))
             TW == {e \in UsageOf(Loaded(o))[g].Times : e.at \in W}
  <2>1. BegunIn(g, W)' = B
      BY <1>1, BegunInSame
  <2>2. B <= L + R /\ B <= L + A(anchor)
      BY DEF WindowInv
  <2>3. /\ forgotten' = forgotten => LostRate(g)' = L
        /\ forgotten' = forgotten + 1 => LostRate(g)' = L + R
      BY LostTypes DEF LostRate
  <2>4. CountedIn(g, W)' = TW /\ A(Loaded(o)) <= Cardinality(TW) /\ IsFiniteSet(TW)
    <3>1. IsFiniteSet(UsageOf(Loaded(o))[g].Times) /\ A(Loaded(o)) <= Cardinality(TW)
        BY <1>2, RebuiltTimes
    <3>2. IsFiniteSet(TW)
        BY <3>1, FS_Subset
    <3> QED BY <1>2, <3>1, <3>2 DEF CountedIn
  <2>5. /\ B \in Nat /\ L \in Nat /\ R \in Nat /\ A(anchor) \in Nat /\ A(Loaded(o)) \in Nat
        /\ Cardinality(TW) \in Nat
    <3>1. Cardinality(TW) \in Nat
      <4> HIDE DEF TW
      <4> QED BY <2>4, FS_CardinalityType
    <3> QED BY <1>2, <1>4, <3>1, InstantsFinite, LostTypes, RateTypes
  <2> HIDE DEF A, B, L, R, TW
  <2>6. CASE forgotten' = forgotten
    <3>1. LostRate(g)' = L
        BY <2>3, <2>6
    <3>2. ASSUME Trusted' PROVE Loaded(o) = anchor
      <4>1. forgotten \in Nat
          BY DEF TypeOK
      <4> QED BY <1>2, <1>3, <2>6, <3>2, <4>1
    <3>3. Loaded(o) = anchor => B <= L + A(Loaded(o)) /\ B <= L + Cardinality(TW)
        BY <2>2, <2>4, <2>5
    <3> QED BY <1>2, <2>1, <2>2, <2>4, <3>1, <3>2, <3>3 DEF A, R
  <2>7. CASE forgotten' = forgotten + 1
    <3>1. LostRate(g)' = L + R
        BY <2>3, <2>7
    <3>2. B <= (L + R) + R /\ B <= (L + R) + A(anchor)
        BY <2>2, <2>5
    <3>3. B <= (L + R) + A(Loaded(o)) /\ B <= (L + R) + Cardinality(TW)
        BY <2>2, <2>5
    <3> QED BY <1>2, <2>1, <2>4, <3>1, <3>2, <3>3 DEF A, R
  <2> QED BY <1>1, <2>6, <2>7
<1> QED BY <1>5, <1>6, <1>7

LEMMA RateInit == Init => RateInv
<1> SUFFICES ASSUME Init PROVE RateInv
    OBVIOUS
<1>0. TypeOK
    BY TypeInit
<1>1. /\ \A c \in Callers : pc[c] = "idle"
      /\ \A g \in Grants : usage[g].Times = {}
    BY DEF Init, NoUsage
<1>2. WaitInv
    BY <1>1 DEF WaitInv
<1>3. TimesInv
    BY <1>1, FS_EmptySet DEF TimesInv
<1>4. WindowInv
  <2> SUFFICES ASSUME NEW g \in Grants, NEW W \in SUBSET Nat
               PROVE  /\ BegunIn(g, W) <= LostRate(g) + RateRequests[g]
                      /\ BegunIn(g, W) <= LostRate(g) + Cardinality(AuthorizedIn(anchor, g, W))
                      /\ BegunIn(g, W) <= LostRate(g) + Cardinality(AuthorizedIn(head, g, W))
                      /\ BegunIn(g, W) <= LostRate(g) + Cardinality(CountedIn(g, W))
      BY <1>1 DEF WindowInv
  <2>1. AuthorizedIn(crossed, g, W) = {} /\ ClearedIn(g, W) = {} /\ CountedIn(g, W) = {}
      BY <1>1 DEF Init, AuthorizedIn, AuthorizedAt, ClearedIn, Cleared, CountedIn
  <2>2. BegunIn(g, W) = 0 /\ Cardinality(CountedIn(g, W)) = 0
      BY <2>1, FS_EmptySet DEF BegunIn
  <2>3. /\ RateRequests[g] \in Nat /\ LostRate(g) \in Nat
        /\ Cardinality(AuthorizedIn(anchor, g, W)) \in Nat
        /\ Cardinality(AuthorizedIn(head, g, W)) \in Nat
      BY <1>0, RateTypes, InstantsFinite, LostTypes DEF TypeOK
  <2> QED BY <2>2, <2>3
<1> QED BY <1>2, <1>3, <1>4 DEF RateInv

LEMMA RateStep ==
    ASSUME IInv, RateInv, [Next]_vars
    PROVE  RateInv'
<1> USE DEF IInv
<1>0. /\ now \in Nat /\ MaxDelay \in Nat
      /\ \A c \in Callers : call[c] \in Record /\ call[c].at \in Nat
      /\ \A c \in Callers : pc[c] = "ready" => call[c].at <= now /\ now <= call[c].at + MaxDelay
  <2>1. now \in Nat /\ MaxDelay \in Nat /\ \A c \in Callers : call[c] \in Record
      BY BoundAssumption DEF TypeOK
  <2> QED BY <2>1 DEF RateInv, WaitInv, Record
<1>1. ASSUME NEW c \in Callers, NEW g \in Grants, NEW n \in ArgSizes, Evaluate(c, g, n)
      PROVE  RateInv'
  <2>1. /\ UNCHANGED <<anchor, head, usage, now, crossed, forgotten>> /\ (Trusted' <=> Trusted)
        /\ pc[c] = "idle" /\ pc'[c] = "ready" /\ call'[c].at = now
        /\ \A d \in Callers : d # c => pc'[d] = pc[d] /\ call'[d] = call[d]
      BY <1>1 DEF Evaluate, Trusted, disk, memory, TypeOK
  <2>2. \A h, W : BegunIn(h, W)' = BegunIn(h, W)
      BY <2>1, BegunInSame
  <2>3. \A d \in Callers : pc'[d] = "ready" => call'[d].at <= now' /\ now' <= call'[d].at + MaxDelay
      BY <1>0, <2>1
  <2> QED BY <2>1, <2>2, <2>3, RateQuiet
<1>2. ASSUME NEW c \in Callers, NEW o \in AppendOutcomes, Authorize(c, o)
      PROVE  RateInv'
  <2> DEFINE r == IF WithinBudget(call[c]) THEN call[c] ELSE Refusal(call[c].grant)
  <2>1. r \in Record /\ r.grant = call[c].grant
      BY <1>0 DEF Record, Refusal
  <2>2. r.decision = "authorized" => RateLeft(r) /\ r.at = call[c].at
    <3>1. CASE WithinBudget(call[c])
        BY <3>1 DEF WithinBudget
    <3>2. CASE ~WithinBudget(call[c])
        BY <3>2 DEF Refusal
    <3> QED BY <3>1, <3>2
  <2>3. /\ up /\ pc[c] = "ready" /\ LockFree /\ AppendDecision(c, r, o)
        /\ UNCHANGED <<up, now, crossed, forgotten>> /\ usage' = Prune(call[c])
      BY <1>2 DEF Authorize
  <2> HIDE DEF r
  <2> DEFINE t == call[c].at
  <2>4. usage' = usage \/ usage' = [usage EXCEPT ![r.grant].Times = Kept(@, r.grant, t)]
      BY <2>1, <2>3 DEF Prune
  <2>5. t \in Nat /\ t <= now /\ now <= t + MaxDelay
      BY <1>0, <2>3
  <2> HIDE DEF t
  <2>6. r.decision = "authorized" => RateLeft(r) /\ r.at = t
      BY <2>2 DEF t
  <2> QED BY <2>1, <2>3, <2>4, <2>5, <2>6, RateAppend
<1>3. ASSUME NEW c \in Callers, NEW g \in Grants, NEW o \in AppendOutcomes, Refuse(c, g, o)
      PROVE  RateInv'
  <2> DEFINE r == Refusal(g)
  <2>1. r \in Record /\ r.decision = "refused"
      BY DEF Record, Refusal
  <2>2. /\ up /\ pc[c] = "idle" /\ LockFree /\ AppendDecision(c, r, o)
        /\ UNCHANGED <<usage, up, now, crossed, forgotten>>
      BY <1>3 DEF Refuse
  <2> HIDE DEF r
  <2>3. now <= now /\ now <= now + MaxDelay
      BY <1>0
  <2>4. r.decision = "authorized" => RateLeft(r) /\ r.at = now
      BY <2>1
  <2> QED BY <1>0, <2>1, <2>2, <2>3, <2>4, RateAppend
<1>4. ASSUME NEW c \in Callers, NEW o \in {"ok", "failed", "lost"}, SaveAnchor(c, o)
      PROVE  RateInv'
    BY <1>4, RateAnchor
<1>5. ASSUME NEW c \in Callers, Cross(c)
      PROVE  RateInv'
  <2>1. /\ UNCHANGED <<anchor, head, usage, now, forgotten>> /\ (Trusted' <=> Trusted)
        /\ pc[c] = "cleared" /\ pc'[c] = "idle"
        /\ \A d \in Callers : d # c => pc'[d] = pc[d] /\ call'[d] = call[d]
      BY <1>5 DEF Cross, Leave, Trusted, disk, memory, TypeOK
  <2>2. call[c].decision = "authorized"
      BY <2>1 DEF CallersInv
  <2>3. \A g \in Grants, W \in SUBSET Nat : BegunIn(g, W)' = BegunIn(g, W)
      BY <1>5, <2>1, <2>2, BegunInCross
  <2>4. \A d \in Callers : pc'[d] = "ready" => call'[d].at <= now' /\ now' <= call'[d].at + MaxDelay
      BY <1>0, <2>1
  <2>5. \A d \in Callers : pc'[d] = "anchor" => pc[d] = "anchor" /\ call'[d] = call[d]
      BY <2>1
  <2> QED BY <2>1, <2>3, <2>4, <2>5, RateQuiet
<1>6. ASSUME Crash
      PROVE  RateInv'
    BY <1>6, RateCrash
<1>7. ASSUME NEW k \in DiskLoss, LoseLines(k)
      PROVE  RateInv'
  <2>1. UNCHANGED <<anchor, head, usage, now, crossed, pc, call, forgotten>> /\ (Trusted' <=> Trusted)
      BY <1>7 DEF LoseLines, Trusted, memory
  <2>2. \A g, W : BegunIn(g, W)' = BegunIn(g, W)
      BY <2>1, BegunInSame
  <2> QED BY <1>0, <2>1, <2>2, RateQuiet
<1>8. ASSUME NEW b \in BOOLEAN, NEW o \in BOOLEAN, Restart(b, o)
      PROVE  RateInv'
    BY <1>8, RateRestart
<1>9. ASSUME Tick \/ UNCHANGED vars
      PROVE  RateInv'
  <2>1. UNCHANGED <<anchor, head, usage, crossed, pc, call, forgotten>> /\ (Trusted' <=> Trusted)
      BY <1>9 DEF Tick, vars, Trusted, disk, memory
  <2>2. \A g, W : BegunIn(g, W)' = BegunIn(g, W)
      BY <2>1, BegunInSame
  <2>3. now' \in {now, now + 1}
      BY <1>9 DEF Tick, vars
  <2>4. \A d \in Callers : pc'[d] = "ready" => call'[d].at <= now' /\ now' <= call'[d].at + MaxDelay
    <3>1. CASE Tick
      <4>1. now' = now + 1 /\ \A d \in Callers : pc[d] = "ready" => now - call[d].at < MaxDelay
          BY <3>1 DEF Tick
      <4> QED BY <1>0, <2>1, <4>1
    <3>2. CASE UNCHANGED vars
        BY <1>0, <3>2 DEF vars
    <3> QED BY <1>9, <3>1, <3>2
  <2> QED BY <2>1, <2>2, <2>3, <2>4, RateQuiet
<1> QED BY <1>1, <1>2, <1>3, <1>4, <1>5, <1>6, <1>7, <1>8, <1>9 DEF Next

(* What the invariant says of a window that ends at a begun call. *)
LEMMA InvRate ==
    ASSUME IInv, RateInv
    PROVE  RateDespiteWaits
<1> USE DEF IInv
<1> SUFFICES ASSUME NEW i \in DOMAIN crossed
             PROVE  LET g == crossed[i].grant
                        window == {j \in AuthorizedAt(crossed, g) :
                                      /\ crossed[j].at > crossed[i].at - (RateWindow[g] - MaxDelay)
                                      /\ crossed[j].at <= crossed[i].at}
                    IN  Cardinality(window) <= (1 + forgotten) * RateRequests[g]
    BY DEF RateDespiteWaits
<1> DEFINE g == crossed[i].grant  a == crossed[i].at  length == RateWindow[g] - MaxDelay
           W == {x \in Nat : x > a - length /\ x <= a}
           window == {j \in AuthorizedAt(crossed, g) :
                         crossed[j].at > a - length /\ crossed[j].at <= a}
<1>1. \A j \in DOMAIN crossed : crossed[j] \in Record
    BY DEF TypeOK
<1>2. /\ g \in Grants /\ a \in Nat
      /\ \A j \in DOMAIN crossed : crossed[j].at \in Nat
    BY <1>1 DEF Record
<1>3. RateWindow[g] \in Nat /\ MaxDelay \in Nat /\ RateRequests[g] \in Nat /\ length \in Int
    BY <1>2, RateTypes
<1>4. Close(W, g)
    BY <1>2, <1>3 DEF Close
<1>5. window = AuthorizedIn(crossed, g, W)
    BY <1>2 DEF AuthorizedIn, AuthorizedAt
<1>6. W \in SUBSET Nat
    OBVIOUS
<1> HIDE DEF W, g
<1>7. BegunIn(g, W) <= LostRate(g) + RateRequests[g]
    BY <1>2, <1>4, <1>6 DEF RateInv, WindowInv
<1>8. /\ Cardinality(AuthorizedIn(crossed, g, W)) \in Nat
      /\ Cardinality(ClearedIn(g, W)) \in Nat
    BY <1>2, InstantsFinite DEF TypeOK
<1>9. (1 + forgotten) * RateRequests[g] = LostRate(g) + RateRequests[g] /\ LostRate(g) \in Nat
  <2>1. 1 + forgotten = forgotten + 1
      BY DEF TypeOK
  <2> QED BY <1>2, <2>1, LostTypes
<1>10. Cardinality(AuthorizedIn(crossed, g, W)) <= LostRate(g) + RateRequests[g]
    BY <1>3, <1>7, <1>8, <1>9 DEF BegunIn
<1> QED BY <1>5, <1>9, <1>10 DEF g

(* For every grant and every sequence of waits for the lock, crashes,      *)
(* failed appends, failed anchor saves, losses of the file and restarts,   *)
(* no stretch shorter than the rate window by the longest wait between a   *)
(* call's timestamp and the lock holds more begun calls than the rate, but *)
(* for one more rate per start that took nothing for the anchored history. *)
THEOREM RateDespiteWaitsTheorem == Spec => []RateDespiteWaits
<1>1. IInv /\ RateInv => RateDespiteWaits
    BY InvRate
<1>2. Init => IInv /\ RateInv
    BY InvInit, RateInit
<1>3. IInv /\ RateInv /\ [Next]_vars => (IInv /\ RateInv)'
    BY InvStep, RateStep
<1> QED BY <1>1, <1>2, <1>3, PTL DEF Spec
=============================================================================
