--------------------------- MODULE AuditLogProofs ---------------------------
(***************************************************************************)
(* What the audit log guarantees for every number of writers and records,  *)
(* through torn writes, truncations, crashes and restarts: run ids are     *)
(* unique, an unfaulted file verifies, a truncation the gateway appended   *)
(* after is caught, and the undetectable rest is shorter than the anchor   *)
(* interval.                                                               *)
(***************************************************************************)
EXTENDS AuditLog, FiniteSetTheorems, WellFoundedInduction, TLAPS

-----------------------------------------------------------------------------
(* Naturals: a least and a greatest element, and with them induction. *)

LEMMA LeastNatural ==
    ASSUME NEW T \in SUBSET Nat, T # {}
    PROVE  \E m \in T : \A k \in T : m <= k
<1> DEFINE R == OpToRel(<, Nat)
<1>1. IsWellFoundedOn(R, Nat)
    BY NatLessThanWellFounded, Zenon
<1>2. PICK m \in T : \A k \in T : ~(<<k, m>> \in R)
  <2> HIDE DEF R
  <2> QED BY <1>1, WFMin
<1>3. \A k \in T : ~(k < m)
    BY <1>2 DEF OpToRel
<1> QED BY <1>3

LEMMA LargestOf ==
    ASSUME NEW S \in SUBSET Nat, S # {}, NEW b \in Nat, \A x \in S : x <= b
    PROVE  Largest(S) \in S /\ \A y \in S : y <= Largest(S)
<1> DEFINE T == {b - x : x \in S}
<1>a. \A x \in S : x \in Nat /\ b - x \in Nat
    OBVIOUS
<1>1. T \in SUBSET Nat /\ T # {}
    BY <1>a
<1>2. PICK m \in T : \A k \in T : m <= k
    BY <1>1, LeastNatural
<1>3. PICK x \in S : m = b - x
    BY <1>2
<1>4. \A y \in S : b - x <= b - y
    BY <1>2, <1>3
<1>5. \A y \in S : y <= x
    BY <1>4
<1> QED BY <1>5 DEF Largest

-----------------------------------------------------------------------------
(* The file. *)

LEMMA LineTypes ==
    ASSUME TypeOK
    PROVE  /\ Len(log) \in Nat /\ DOMAIN log = 1 .. Len(log)
           /\ \A i \in DOMAIN log : /\ log[i] \in Line /\ log[i].id \in Nat /\ log[i].rec \in Nat
                                    /\ log[i].prev \in Seq(Nat)
           /\ Whole(log) \subseteq DOMAIN log /\ Whole(log) \subseteq Nat
           /\ IsFiniteSet(Whole(log)) /\ Cardinality(Whole(log)) \in Nat
<1>1. Len(log) \in Nat /\ DOMAIN log = 1 .. Len(log) /\ \A i \in DOMAIN log : log[i] \in Line
    BY DEF TypeOK
<1>2. \A l \in Line : l.id \in Nat /\ l.rec \in Nat /\ l.prev \in Seq(Nat)
    BY DEF Line
<1>3. Whole(log) \subseteq DOMAIN log
    BY DEF Whole
<1>4. IsFiniteSet(1 .. Len(log))
    BY <1>1, FS_Interval
<1>5. IsFiniteSet(Whole(log)) /\ Cardinality(Whole(log)) \in Nat
    BY <1>1, <1>3, <1>4, FS_Subset, FS_CardinalityType
<1> QED BY <1>1, <1>2, <1>3, <1>5

(* Appending text never changes a whole line, and adds at most one, at the *)
(* end.                                                                    *)
LEMMA WrittenFacts ==
    ASSUME NEW lines \in Seq(Line), NEW line \in Line, line.form \in {"whole", "open"}
    PROVE  /\ Written(lines, line) \in Seq(Line)
           /\ \A i \in Whole(Written(lines, line)) :
                 \/ i \in Whole(lines) /\ Written(lines, line)[i] = lines[i]
                 \/ /\ line.form = "whole" /\ i = Len(lines) + 1
                    /\ Written(lines, line)[i] = line
<1>1. CASE lines # <<>> /\ lines[Len(lines)].form = "open"
  <2> DEFINE n == Len(lines)
             f == IF line.form = "open" THEN "open" ELSE "junk"
             new == [lines[n] EXCEPT !.form = f]
  <2>1. n \in 1 .. n /\ n \in DOMAIN lines /\ n \in Nat /\ lines[n] \in Line
      BY <1>1
  <2>2. new \in Line /\ new.form = f
      BY <2>1 DEF Line
  <2> HIDE DEF new
  <2>3. Written(lines, line) = [lines EXCEPT ![n] = new]
      BY <1>1 DEF Written, new
  <2>4. /\ Written(lines, line) \in Seq(Line)
        /\ DOMAIN Written(lines, line) = DOMAIN lines
        /\ Written(lines, line)[n] = new
        /\ \A i \in DOMAIN lines : i # n => Written(lines, line)[i] = lines[i]
      BY <2>1, <2>2, <2>3
  <2>5. new.form # "whole"
      BY <2>2
  <2> QED BY <2>4, <2>5 DEF Whole
<1>2. CASE ~(lines # <<>> /\ lines[Len(lines)].form = "open")
  <2>1. Written(lines, line) = Append(lines, line)
      BY <1>2 DEF Written
  <2>2. /\ Append(lines, line) \in Seq(Line)
        /\ DOMAIN Append(lines, line) = 1 .. Len(lines) + 1
        /\ Append(lines, line)[Len(lines) + 1] = line
        /\ \A i \in 1 .. Len(lines) : Append(lines, line)[i] = lines[i]
        /\ DOMAIN lines = 1 .. Len(lines) /\ Len(lines) \in Nat
      OBVIOUS
  <2> QED BY <2>1, <2>2 DEF Whole
<1> QED BY <1>1, <1>2

(* ... and counts at most one more. *)
LEMMA WrittenCount ==
    ASSUME TypeOK, NEW line \in Line, line.form \in {"whole", "open"}
    PROVE  /\ Cardinality(Whole(Written(log, line))) \in Nat
           /\ Cardinality(Whole(Written(log, line)))
                 <= Cardinality(Whole(log)) + (IF line.form = "whole" THEN 1 ELSE 0)
<1> DEFINE W == Whole(log)  V == Whole(Written(log, line))  n == Len(log) + 1
<1>1. log \in Seq(Line)
    BY DEF TypeOK
<1>2. V \subseteq W \cup (IF line.form = "whole" THEN {n} ELSE {})
    BY <1>1, WrittenFacts
<1>3. IsFiniteSet(W) /\ Cardinality(W) \in Nat
    BY LineTypes
<1>4. n \notin W
    BY LineTypes
<1> HIDE DEF W, V, n
<1>5. /\ IsFiniteSet(W \cup {n}) /\ Cardinality(W \cup {n}) = Cardinality(W) + 1
    BY <1>3, <1>4, FS_AddElement
<1>6. CASE line.form = "whole"
  <2>1. V \subseteq W \cup {n}
      BY <1>2, <1>6
  <2>2. IsFiniteSet(V) /\ Cardinality(V) <= Cardinality(W \cup {n})
      BY <1>5, <2>1, FS_Subset
  <2>3. Cardinality(V) \in Nat
      BY <2>2, FS_CardinalityType
  <2> QED BY <1>5, <1>6, <2>2, <2>3 DEF V, W
<1>7. CASE line.form # "whole"
  <2>1. V \subseteq W
      BY <1>2, <1>7
  <2>2. IsFiniteSet(V) /\ Cardinality(V) <= Cardinality(W)
      BY <1>3, <2>1, FS_Subset
  <2>3. Cardinality(V) \in Nat
      BY <2>2, FS_CardinalityType
  <2> QED BY <1>3, <1>7, <2>2, <2>3 DEF V, W
<1> QED BY <1>6, <1>7

(* What is cut off the end leaves the rest as it was. *)
LEMMA CutFacts ==
    ASSUME TypeOK, NEW n \in 0 .. Len(log) - 1
    PROVE  /\ SubSeq(log, 1, n) \in Seq(Line)
           /\ \A i \in Whole(SubSeq(log, 1, n)) :
                 i \in Whole(log) /\ i <= n /\ SubSeq(log, 1, n)[i] = log[i]
           /\ Cardinality(Whole(SubSeq(log, 1, n))) <= Cardinality(Whole(log))
<1> DEFINE cut == SubSeq(log, 1, n)
<1>1. log \in Seq(Line) /\ Len(log) \in Nat /\ n \in Nat /\ n <= Len(log) /\ DOMAIN log = 1 .. Len(log)
    BY LineTypes DEF TypeOK
<1>2. cut \in Seq(Line) /\ Len(cut) = n
    BY <1>1
<1>3. \A i \in 1 .. n : cut[i] = log[i]
    BY <1>1
<1>4. DOMAIN cut = 1 .. n
    BY <1>2
<1> HIDE DEF cut
<1>5. \A i \in Whole(cut) : i \in Whole(log) /\ i <= n /\ cut[i] = log[i]
    BY <1>1, <1>3, <1>4 DEF Whole
<1>6. Cardinality(Whole(cut)) <= Cardinality(Whole(log))
  <2>1. Whole(cut) \subseteq Whole(log)
      BY <1>5
  <2> QED BY <2>1, LineTypes, FS_Subset
<1> QED BY <1>2, <1>5, <1>6 DEF cut

-----------------------------------------------------------------------------
(* Types. *)

LEMMA Members ==
    /\ NoAnchor \in AuditAnchor /\ NoRun \in [id : Nat, rec : Nat] /\ Fragment \in Line
    /\ Fragment.form = "open" /\ NoAnchor.Chained = 0
<1>1. <<>> \in Seq(Nat)
    OBVIOUS
<1> QED BY <1>1 DEF NoAnchor, NoRun, Fragment, AuditAnchor, Line

(* The line a writer adds. *)
NewLine(w, signed) ==
    [form |-> "whole", id |-> run[w].id, rec |-> run[w].rec, prev |-> auditHash, signed |-> signed]

LEMMA NewLineType ==
    ASSUME TypeOK, NEW w \in Writers, NEW signed \in BOOLEAN
    PROVE  /\ NewLine(w, signed) \in Line /\ NewLine(w, signed).form = "whole"
           /\ NewLine(w, signed).id = run[w].id /\ NewLine(w, signed).rec = run[w].rec
           /\ NewLine(w, signed).prev = auditHash /\ NewLine(w, signed).signed = signed
           /\ Hash(NewLine(w, signed)) \in Seq(Nat)
           /\ AnchorAt(NewLine(w, signed)) \in AuditAnchor
           /\ AnchorAt(NewLine(w, signed)).Chained = auditChained + 1
<1>1. run[w].id \in Nat /\ run[w].rec \in Nat /\ auditHash \in Seq(Nat) /\ auditChained \in Nat
    BY DEF TypeOK
<1>2. /\ NewLine(w, signed) \in Line /\ NewLine(w, signed).form = "whole"
      /\ NewLine(w, signed).id = run[w].id /\ NewLine(w, signed).rec = run[w].rec
      /\ NewLine(w, signed).prev = auditHash /\ NewLine(w, signed).signed = signed
    BY <1>1 DEF NewLine, Line
<1>3. Hash(NewLine(w, signed)) \in Seq(Nat)
    BY <1>1, <1>2 DEF Hash
<1>4. auditChained + 1 \in Nat
    BY <1>1
<1> QED BY <1>2, <1>3, <1>4 DEF AnchorAt, AuditAnchor

(* The outcomes of writeAuditLine: the line, nothing, or a fragment. *)
LEMMA WriteOutcome ==
    ASSUME TypeOK, NEW w \in Writers, NEW o \in WriteOutcomes, NEW s \in SignOutcomes,
           writeAuditLine(w, o, s)
    PROVE  /\ s \in BOOLEAN
           /\ up /\ up' = up /\ pc[w] = "writing"
           /\ faulted' = (faulted \/ o # "ok" \/ ~s)
           /\ slipped' = (slipped \/ \E v \in Writers \ {w} : pc[v] = "anchoring")
           /\ UNCHANGED <<anchor, seq, made, erased, unread>>
           /\ \/ o = "ok" /\ log' = Written(log, NewLine(w, s))
              \/ o = "failed" /\ log' = log
              \/ o = "torn" /\ log' = Written(log, Fragment)
           /\ height' = Cardinality(Whole(log'))
<1>1. s \in BOOLEAN /\ o \in {"ok", "failed", "torn"}
    BY AuditAssumption DEF Outcomes
<1>2. \/ o = "ok" /\ log' = Written(log, NewLine(w, s))
      \/ o = "failed" /\ log' = log
      \/ o = "torn" /\ log' = Written(log, Fragment)
    BY <1>1 DEF writeAuditLine, NewLine
<1>3. /\ up /\ up' = up /\ pc[w] = "writing"
      /\ faulted' = (faulted \/ o # "ok" \/ ~s)
      /\ slipped' = (slipped \/ \E v \in Writers \ {w} : pc[v] = "anchoring")
      /\ UNCHANGED <<anchor, seq, made, erased, unread>>
      /\ height' = Cardinality(Whole(log'))
    BY DEF writeAuditLine, store
<1> QED BY <1>1, <1>2, <1>3

(* ... and what it does to the chain in memory and to its writer. *)
LEMMA WriteChain ==
    ASSUME TypeOK, NEW w \in Writers, NEW o \in WriteOutcomes, NEW s \in SignOutcomes,
           writeAuditLine(w, o, s)
    PROVE  \/ /\ o = "ok" /\ AnchorDue
              /\ auditHash' = Hash(NewLine(w, s)) /\ auditChained' = auditChained + 1
              /\ auditAnchoredAt' = auditChained + 1
              /\ pending' = [pending EXCEPT ![w] = AnchorAt(NewLine(w, s))]
              /\ pc' = [pc EXCEPT ![w] = "anchoring"] /\ run' = run
           \/ /\ o = "ok" /\ ~AnchorDue
              /\ auditHash' = Hash(NewLine(w, s)) /\ auditChained' = auditChained + 1
              /\ Leave(w) /\ UNCHANGED <<auditAnchoredAt, pending>>
           \/ /\ o # "ok" /\ Leave(w)
              /\ UNCHANGED <<auditHash, auditChained, auditAnchoredAt, pending>>
BY DEF writeAuditLine, NewLine, chain

LEMMA WriteType ==
    ASSUME TypeOK, NEW w \in Writers, NEW o \in WriteOutcomes, NEW s \in SignOutcomes,
           writeAuditLine(w, o, s)
    PROVE  TypeOK'
<1>1. s \in BOOLEAN
    BY WriteOutcome
<1>2. log \in Seq(Line)
    BY DEF TypeOK
<1>3. log' \in Seq(Line)
  <2>1. Written(log, Fragment) \in Seq(Line)
      BY <1>2, WrittenFacts, Members
  <2>2. NewLine(w, s) \in Line /\ NewLine(w, s).form = "whole"
      BY <1>1, NewLineType
  <2>3. Written(log, NewLine(w, s)) \in Seq(Line)
      BY <1>2, <2>2, WrittenFacts
  <2> QED BY <1>2, <2>1, <2>3, WriteOutcome
<1>4. height' \in Nat
  <2>1. height' = Cardinality(Whole(log'))
      BY WriteOutcome
  <2>2. NewLine(w, s) \in Line /\ NewLine(w, s).form = "whole"
      BY <1>1, NewLineType
  <2>3. CASE log' = Written(log, NewLine(w, s))
      BY <2>1, <2>2, <2>3, WrittenCount
  <2>4. CASE log' = log
      BY <2>1, <2>4, LineTypes
  <2>5. CASE log' = Written(log, Fragment)
      BY <2>1, <2>5, WrittenCount, Members
  <2> QED BY <2>3, <2>4, <2>5, WriteOutcome
<1>5. /\ auditHash' \in Seq(Nat) /\ auditChained' \in Nat /\ auditAnchoredAt' \in Nat
      /\ pending' \in [Writers -> AuditAnchor]
      /\ pc' \in [Writers -> {"idle", "running", "writing", "anchoring"}]
      /\ run' \in [Writers -> [id : Nat, rec : Nat]]
  <2>1. CASE /\ o = "ok" /\ AnchorDue
             /\ auditHash' = Hash(NewLine(w, s)) /\ auditChained' = auditChained + 1
             /\ auditAnchoredAt' = auditChained + 1
             /\ pending' = [pending EXCEPT ![w] = AnchorAt(NewLine(w, s))]
             /\ pc' = [pc EXCEPT ![w] = "anchoring"] /\ run' = run
      BY <1>1, <2>1, NewLineType DEF TypeOK
  <2>2. CASE /\ o = "ok" /\ ~AnchorDue
             /\ auditHash' = Hash(NewLine(w, s)) /\ auditChained' = auditChained + 1
             /\ Leave(w) /\ UNCHANGED <<auditAnchoredAt, pending>>
      BY <1>1, <2>2, NewLineType, Members DEF TypeOK, Leave
  <2>3. CASE /\ o # "ok" /\ Leave(w)
             /\ UNCHANGED <<auditHash, auditChained, auditAnchoredAt, pending>>
      BY <2>3, Members DEF TypeOK, Leave
  <2> QED BY <2>1, <2>2, <2>3, WriteChain
<1>6. faulted' \in BOOLEAN /\ slipped' \in BOOLEAN
    BY WriteOutcome
<1>7. UNCHANGED <<anchor, up, seq, made, erased, unread>>
    BY WriteOutcome
<1> QED BY <1>3, <1>4, <1>5, <1>6, <1>7 DEF TypeOK

(* What a restart that read n lines has back from the file. *)
LEMMA Replayed ==
    ASSUME TypeOK, LinesNumbered, NEW n \in Nat
    PROVE  /\ ReplayedSeq(n) \in Nat /\ ReplayedSeq(n) <= made
           /\ \A i \in Read(n) : log[i].id <= ReplayedSeq(n)
           /\ ReplayedHash(n) \in Seq(Nat) /\ Cardinality(Read(n)) \in Nat
           /\ Read(n) # {} => /\ Largest(Read(n)) \in Read(n)
                              /\ \A i \in Read(n) : i <= Largest(Read(n))
<1>0. Read(n) \subseteq Whole(log) /\ Cardinality(Read(n)) \in Nat
  <2>1. Read(n) \subseteq Whole(log) /\ IsFiniteSet(Whole(log))
      BY LineTypes DEF Read
  <2> QED BY <2>1, FS_Subset, FS_CardinalityType
<1>1. CASE Read(n) = {}
  <2>1. ReplayedSeq(n) = 0 /\ ReplayedHash(n) = <<>>
      BY <1>1 DEF ReplayedSeq, ReplayedHash
  <2> QED BY <1>0, <1>1, <2>1 DEF TypeOK
<1>2. CASE Read(n) # {}
  <2>1. /\ ReplayedIds(n) \in SUBSET Nat /\ ReplayedIds(n) # {}
        /\ \A x \in ReplayedIds(n) : x <= made
      BY <1>0, <1>2, LineTypes DEF ReplayedIds, LinesNumbered
  <2>2. made \in Nat
      BY DEF TypeOK
  <2>3. /\ Largest(ReplayedIds(n)) \in ReplayedIds(n)
        /\ \A y \in ReplayedIds(n) : y <= Largest(ReplayedIds(n))
      BY <2>1, <2>2, LargestOf
  <2>4. ReplayedSeq(n) = Largest(ReplayedIds(n))
      BY <1>2 DEF ReplayedSeq
  <2>5. /\ ReplayedSeq(n) \in Nat /\ ReplayedSeq(n) <= made
        /\ \A i \in Read(n) : log[i].id <= ReplayedSeq(n)
      BY <2>1, <2>3, <2>4 DEF ReplayedIds
  <2>6. /\ Largest(Read(n)) \in Read(n)
        /\ \A i \in Read(n) : i <= Largest(Read(n))
    <3>1. \A i \in Read(n) : i <= n
        BY DEF Read
    <3>2. Read(n) \in SUBSET Nat
        BY <1>0, LineTypes
    <3> QED BY <1>2, <3>1, <3>2, LargestOf
  <2>7. ReplayedHash(n) \in Seq(Nat)
    <3>1. log[Largest(Read(n))].prev \in Seq(Nat) /\ log[Largest(Read(n))].rec \in Nat
        BY <1>0, <2>6, LineTypes
    <3> QED BY <1>2, <3>1 DEF ReplayedHash, Hash
  <2> QED BY <1>0, <2>5, <2>6, <2>7
<1> QED BY <1>1, <1>2

(* A restart that read every line has read all that are whole. *)
LEMMA ReadAll ==
    ASSUME TypeOK
    PROVE  Read(Len(log)) = Whole(log)
BY LineTypes DEF Read

(* How a restart leaves the state, but for the window. *)
LEMMA Loads ==
    ASSUME NEW n, loadAudit(n)
    PROVE  /\ ~up /\ up' = TRUE /\ n \in 0 .. Len(log)
           /\ seq' = ReplayedSeq(n) /\ auditHash' = ReplayedHash(n)
           /\ auditChained' = Cardinality(Read(n)) /\ auditAnchoredAt' = Cardinality(Read(n))
           /\ slipped' = TRUE
           /\ unread' = (unread \/ n # Len(log)) /\ faulted' = (faulted \/ n # Len(log))
           /\ UNCHANGED <<log, anchor, pc, run, pending, made, erased, height>>
BY DEF loadAudit, writers

(* Types are kept: of a restart this takes the bound on the ids. *)
LEMMA TypeStep ==
    ASSUME TypeOK, LinesNumbered, [Next]_vars
    PROVE  TypeOK'
<1>1. ASSUME NEW w \in Writers, nextRunID(w)
      PROVE  TypeOK'
  <2>1. seq + 1 \in Nat /\ made + 1 \in Nat
      BY DEF TypeOK
  <2> QED BY <1>1, <2>1 DEF TypeOK, nextRunID, chain
<1>2. ASSUME NEW w \in Writers, putRun(w)
      PROVE  TypeOK'
    BY <1>2 DEF TypeOK, putRun, chain, ghosts
<1>3. ASSUME NEW w \in Writers, NEW o \in WriteOutcomes, NEW s \in SignOutcomes, writeAuditLine(w, o, s)
      PROVE  TypeOK'
    BY <1>3, WriteType
<1>4. ASSUME NEW w \in Writers, NEW s \in SaveOutcomes, NEW t \in SignOutcomes, saveAuditAnchor(w, s, t)
      PROVE  TypeOK'
    BY <1>4, Members DEF TypeOK, saveAuditAnchor, Leave, store, chain
<1>5. CASE Scan \/ LoadAnchor
    BY <1>5 DEF TypeOK, Scan, LoadAnchor, store, chain, writers, ghosts
<1>6. CASE Crash
  <2>1. <<>> \in Seq(Nat)
      OBVIOUS
  <2> QED BY <1>6, <2>1, Members DEF TypeOK, Crash, ghosts
<1>7. ASSUME NEW n \in 0 .. MaxRuns, loadAudit(n)
      PROVE  TypeOK'
  <2>1. n \in Nat
      BY AuditAssumption
  <2> QED BY <1>7, <2>1, Replayed, Loads DEF TypeOK
<1>8. ASSUME NEW n \in 0 .. MaxRuns, Truncate(n)
      PROVE  TypeOK'
  <2>1. n \in 0 .. Len(log) - 1 /\ log' = SubSeq(log, 1, n)
      BY <1>8 DEF Truncate
  <2>2. log' \in Seq(Line)
      BY <2>1, CutFacts
  <2>3. erased' \subseteq Nat
    <3>1. \A i \in Whole(log) : log[i].rec \in Nat
        BY LineTypes
    <3>2. erased' = erased \cup {log[i].rec : i \in Whole(log) \cap (n + 1 .. Len(log))}
        BY <1>8 DEF Truncate
    <3>3. erased \subseteq Nat
        BY DEF TypeOK
    <3> DEFINE gone == {log[i].rec : i \in Whole(log) \cap (n + 1 .. Len(log))}
    <3>4. gone \subseteq Nat
        BY <3>1
    <3> HIDE DEF gone
    <3> QED BY <3>2, <3>3, <3>4 DEF gone
  <2> QED BY <1>8, <2>2, <2>3 DEF TypeOK, Truncate, store, chain, writers
<1>9. CASE UNCHANGED vars
    BY <1>9 DEF TypeOK, vars, store, chain, writers, ghosts
<1> QED BY <1>1, <1>2, <1>3, <1>4, <1>5, <1>6, <1>7, <1>8, <1>9 DEF Next

-----------------------------------------------------------------------------
(* Numbers. *)

(* A step that adds no whole line, erases nothing and hands out no number, *)
(* and after which no more writers hold one.                               *)
LEMMA NumbersAlone ==
    ASSUME TypeOK, LinesNumbered, RunsNumbered,
           UNCHANGED <<seq, made, erased, up, unread>>,
           \A i \in Whole(log') : i \in Whole(log) /\ log'[i] = log[i],
           up \/ pc' = pc,
           \A v \in Writers : pc'[v] \in {"running", "writing"} => Holding(v) /\ run'[v] = run[v]
    PROVE  LinesNumbered' /\ RunsNumbered'
<1>1. LinesNumbered'
    BY DEF LinesNumbered
<1>2. RunsNumbered'
    BY DEF RunsNumbered, Holding
<1> QED BY <1>1, <1>2

LEMMA NextRunNumbers ==
    ASSUME TypeOK, LinesNumbered, RunsNumbered, NEW w \in Writers, nextRunID(w)
    PROVE  LinesNumbered' /\ RunsNumbered'
<1>1. /\ up /\ up' = up /\ log' = log /\ erased' = erased /\ unread' = unread
      /\ seq' = seq + 1 /\ made' = made + 1 /\ seq \in Nat /\ made \in Nat
      /\ run'[w].id = seq + 1 /\ run'[w].rec = made + 1
      /\ \A v \in Writers : v # w => pc'[v] = pc[v] /\ run'[v] = run[v]
    BY DEF nextRunID, TypeOK
<1>2. \A i \in Whole(log) : log[i].id \in Nat /\ log[i].rec \in Nat
    BY LineTypes
<1>3. \A v \in Writers : run[v].id \in Nat /\ run[v].rec \in Nat
    BY DEF TypeOK
<1>4. \A e \in erased : e \in Nat
    BY DEF TypeOK
<1>5. LinesNumbered'
    BY <1>1, <1>2, <1>4 DEF LinesNumbered
<1>6. RunsNumbered'
  <2>1. ~up' => \A v \in Writers : pc'[v] = "idle"
      BY <1>1
  <2>2. ASSUME NEW v \in Writers, Holding(v)'
        PROVE  /\ run'[v].id <= seq' /\ run'[v].rec <= made' /\ run'[v].rec \notin erased'
               /\ \A i \in Whole(log') : log'[i].rec # run'[v].rec /\ (~unread => log'[i].id # run'[v].id)
    <3>1. CASE v = w
      <4>1. \A i \in Whole(log) : (~unread => log[i].id <= seq) /\ log[i].rec <= made
          BY <1>1 DEF LinesNumbered
      <4>2. \A e \in erased : e <= made
          BY DEF LinesNumbered
      <4> QED BY <1>1, <1>2, <1>4, <3>1, <4>1, <4>2
    <3>2. CASE v # w
      <4>1. Holding(v)
          BY <1>1, <2>2, <3>2 DEF Holding
      <4>2. /\ run[v].id <= seq /\ run[v].rec <= made /\ run[v].rec \notin erased
            /\ \A i \in Whole(log) : log[i].rec # run[v].rec /\ (~unread => log[i].id # run[v].id)
          BY <4>1 DEF RunsNumbered
      <4> QED BY <1>1, <1>3, <3>2, <4>2
    <3> QED BY <3>1, <3>2
  <2>3. ASSUME NEW u \in Writers, NEW v \in Writers, Holding(u)', Holding(v)', u # v
        PROVE  run'[u].id # run'[v].id /\ run'[u].rec # run'[v].rec
    <3>1. \A x \in Writers : Holding(x)' /\ x # w => Holding(x) /\ run'[x] = run[x]
        BY <1>1 DEF Holding
    <3>2. \A x \in Writers : Holding(x) => run[x].id <= seq /\ run[x].rec <= made
        BY DEF RunsNumbered
    <3>3. CASE u = w
        BY <1>1, <1>3, <2>3, <3>1, <3>2, <3>3
    <3>4. CASE v = w
        BY <1>1, <1>3, <2>3, <3>1, <3>2, <3>4
    <3>5. CASE u # w /\ v # w
        BY <2>3, <3>1, <3>5 DEF RunsNumbered
    <3> QED BY <3>3, <3>4, <3>5
  <2> QED BY <1>1, <2>1, <2>2, <2>3 DEF RunsNumbered
<1> QED BY <1>5, <1>6

(* The new line takes over the numbers its writer held. *)
LEMMA WriteNumbers ==
    ASSUME TypeOK, LinesNumbered, RunsNumbered,
           NEW w \in Writers, NEW o \in WriteOutcomes, NEW s \in SignOutcomes,
           writeAuditLine(w, o, s)
    PROVE  LinesNumbered' /\ RunsNumbered'
<1> DEFINE line == NewLine(w, s)
<1>1. /\ s \in BOOLEAN /\ up /\ up' = up /\ pc[w] = "writing"
      /\ UNCHANGED <<seq, made, erased, unread>>
    BY WriteOutcome
<1>2. log \in Seq(Line)
    BY DEF TypeOK
<1>3. /\ pc'[w] \in {"idle", "anchoring"}
      /\ \A v \in Writers : v # w => pc'[v] = pc[v] /\ run'[v] = run[v]
    BY WriteChain DEF TypeOK, Leave
<1>4. \A v \in Writers : Holding(v)' => v # w /\ Holding(v) /\ run'[v] = run[v]
    BY <1>3 DEF Holding
<1>5. Holding(w)
    BY <1>1 DEF Holding
<1>6. /\ line \in Line /\ line.form = "whole" /\ line.id = run[w].id /\ line.rec = run[w].rec
    BY <1>1, NewLineType
<1> HIDE DEF line
<1>7. \A i \in Whole(log') :
          \/ i \in Whole(log) /\ log'[i] = log[i]
          \/ i = Len(log) + 1 /\ log'[i] = line
  <2>1. CASE log' = Written(log, line)
      BY <1>2, <1>6, <2>1, WrittenFacts
  <2>2. CASE log' = log
      BY <2>2
  <2>3. CASE log' = Written(log, Fragment)
      BY <1>2, <2>3, WrittenFacts, Members
  <2> QED BY <2>1, <2>2, <2>3, WriteOutcome DEF line
<1>8. /\ run[w].id <= seq /\ run[w].rec <= made /\ run[w].rec \notin erased
      /\ \A i \in Whole(log) : log[i].rec # run[w].rec /\ (~unread => log[i].id # run[w].id)
    BY <1>5 DEF RunsNumbered
<1>9. run[w].id \in Nat /\ seq \in Nat /\ made \in Nat /\ seq <= made
    BY DEF TypeOK, LinesNumbered
<1>10. LinesNumbered'
  <2>1. \A i \in Whole(log') :
            /\ log'[i].id <= made /\ log'[i].rec <= made /\ log'[i].rec \notin erased
            /\ ~unread => log'[i].id <= seq
      BY <1>1, <1>6, <1>7, <1>8, <1>9 DEF LinesNumbered
  <2>2. \A i, j \in Whole(log') : i # j => log'[i].rec # log'[j].rec /\ (~unread => log'[i].id # log'[j].id)
      BY <1>6, <1>7, <1>8 DEF LinesNumbered
  <2> QED BY <1>1, <1>9, <2>1, <2>2 DEF LinesNumbered
<1>11. RunsNumbered'
  <2>1. ASSUME NEW v \in Writers, Holding(v)'
        PROVE  /\ run'[v].id <= seq /\ run'[v].rec <= made /\ run'[v].rec \notin erased
               /\ \A i \in Whole(log') : log'[i].rec # run'[v].rec /\ (~unread => log'[i].id # run'[v].id)
    <3>1. v # w /\ Holding(v) /\ run'[v] = run[v]
        BY <1>4, <2>1
    <3>2. /\ run[v].id <= seq /\ run[v].rec <= made /\ run[v].rec \notin erased
          /\ \A i \in Whole(log) : log[i].rec # run[v].rec /\ (~unread => log[i].id # run[v].id)
          /\ run[w].id # run[v].id /\ run[w].rec # run[v].rec
        BY <1>5, <3>1 DEF RunsNumbered
    <3> QED BY <1>6, <1>7, <3>1, <3>2
  <2>2. \A u, v \in Writers : Holding(u)' /\ Holding(v)' /\ u # v =>
            run'[u].id # run'[v].id /\ run'[u].rec # run'[v].rec
      BY <1>4 DEF RunsNumbered
  <2> QED BY <1>1, <2>1, <2>2 DEF RunsNumbered
<1> QED BY <1>10, <1>11

(* An erased record is that of a line no longer in the file. *)
LEMMA TruncateNumbers ==
    ASSUME TypeOK, LinesNumbered, RunsNumbered, NEW n \in Nat, Truncate(n)
    PROVE  LinesNumbered' /\ RunsNumbered'
<1>0. UNCHANGED <<up, seq, made, pc, run, unread>>
    BY DEF Truncate, store, writers
<1>1. /\ n \in 0 .. Len(log) - 1 /\ log' = SubSeq(log, 1, n)
      /\ erased' = erased \cup {log[i].rec : i \in Whole(log) \cap (n + 1 .. Len(log))}
    BY DEF Truncate, store, writers
<1>2. \A i \in Whole(log') : i \in Whole(log) /\ i <= n /\ log'[i] = log[i]
    BY <1>1, CutFacts
<1>3. \A e \in erased' : e \in erased \/ \E i \in Whole(log) : i > n /\ e = log[i].rec
    BY <1>1, LineTypes
<1>4. \A i \in Whole(log) : i \in Nat
    BY LineTypes
<1>5. LinesNumbered'
  <2>1. \A e \in erased' : e <= made
      BY <1>3 DEF LinesNumbered
  <2>2. \A i \in Whole(log') : log'[i].rec \notin erased'
      BY <1>2, <1>3, <1>4 DEF LinesNumbered
  <2>3. \A i \in Whole(log') :
            /\ log'[i].id <= made /\ log'[i].rec <= made
            /\ up /\ ~unread => log'[i].id <= seq
      BY <1>2 DEF LinesNumbered
  <2>4. \A i, j \in Whole(log') : i # j => log'[i].rec # log'[j].rec /\ (~unread => log'[i].id # log'[j].id)
      BY <1>2 DEF LinesNumbered
  <2>5. seq <= made
      BY DEF LinesNumbered
  <2> QED BY <1>0, <2>1, <2>2, <2>3, <2>4, <2>5 DEF LinesNumbered
<1>6. RunsNumbered'
  <2>1. \A v \in Writers : Holding(v)' <=> Holding(v)
      BY <1>0 DEF Holding
  <2>2. \A v \in Writers : Holding(v) => run[v].rec \notin erased'
      BY <1>3 DEF RunsNumbered
  <2>3. \A v \in Writers : Holding(v) =>
            /\ run[v].id <= seq /\ run[v].rec <= made
            /\ \A i \in Whole(log') : log'[i].rec # run[v].rec /\ (~unread => log'[i].id # run[v].id)
      BY <1>2 DEF RunsNumbered
  <2>4. /\ ~up => \A v \in Writers : pc[v] = "idle"
        /\ \A u, v \in Writers : Holding(u) /\ Holding(v) /\ u # v =>
              run[u].id # run[v].id /\ run[u].rec # run[v].rec
      BY DEF RunsNumbered
  <2> QED BY <1>0, <2>1, <2>2, <2>3, <2>4 DEF RunsNumbered
<1> QED BY <1>5, <1>6

LEMMA NumbersStep ==
    ASSUME TypeOK, LinesNumbered, RunsNumbered, [Next]_vars
    PROVE  LinesNumbered' /\ RunsNumbered'
<1>1. ASSUME NEW w \in Writers, nextRunID(w)
      PROVE  LinesNumbered' /\ RunsNumbered'
    BY <1>1, NextRunNumbers
<1>2. ASSUME NEW w \in Writers, putRun(w)
      PROVE  LinesNumbered' /\ RunsNumbered'
    BY <1>2, NumbersAlone DEF putRun, Holding, TypeOK, chain, ghosts
<1>3. ASSUME NEW w \in Writers, NEW o \in WriteOutcomes, NEW s \in SignOutcomes, writeAuditLine(w, o, s)
      PROVE  LinesNumbered' /\ RunsNumbered'
    BY <1>3, WriteNumbers
<1>4. ASSUME NEW w \in Writers, NEW s \in SaveOutcomes, NEW t \in SignOutcomes, saveAuditAnchor(w, s, t)
      PROVE  LinesNumbered' /\ RunsNumbered'
  <2>1. \A v \in Writers : pc'[v] \in {"running", "writing"} => Holding(v) /\ run'[v] = run[v]
      BY <1>4 DEF saveAuditAnchor, Leave, Holding, TypeOK
  <2> QED BY <1>4, <2>1, NumbersAlone DEF saveAuditAnchor, store
<1>5. CASE Scan \/ LoadAnchor
    BY <1>5, NumbersAlone DEF Scan, LoadAnchor, Holding, store, writers, ghosts
<1>6. CASE Crash
    BY <1>6 DEF Crash, TypeOK, LinesNumbered, RunsNumbered, Holding, ghosts
<1>7. ASSUME NEW n \in 0 .. MaxRuns, loadAudit(n)
      PROVE  LinesNumbered' /\ RunsNumbered'
  <2>0. n \in Nat
      BY AuditAssumption
  <2>1. /\ ~up /\ seq' = ReplayedSeq(n) /\ UNCHANGED <<log, pc, run, made, erased>>
        /\ unread' = (unread \/ n # Len(log))
      BY <1>7, Loads
  <2>2. \A w \in Writers : pc[w] = "idle"
      BY <2>1 DEF RunsNumbered
  <2>3. LinesNumbered'
    <3>1. ASSUME ~unread'
          PROVE  ~unread /\ \A i \in Whole(log) : log[i].id <= seq'
        BY <2>0, <2>1, <3>1, ReadAll, Replayed
    <3>2. seq' <= made
        BY <2>0, <2>1, Replayed
    <3> QED BY <2>1, <3>1, <3>2 DEF LinesNumbered
  <2>4. RunsNumbered'
      BY <2>1, <2>2 DEF RunsNumbered, Holding
  <2> QED BY <2>3, <2>4
<1>8. ASSUME NEW n \in 0 .. MaxRuns, Truncate(n)
      PROVE  LinesNumbered' /\ RunsNumbered'
    BY <1>8, TruncateNumbers, AuditAssumption
<1>9. CASE UNCHANGED vars
    BY <1>9, NumbersAlone DEF vars, Holding, store, writers, ghosts
<1> QED BY <1>1, <1>2, <1>3, <1>4, <1>5, <1>6, <1>7, <1>8, <1>9 DEF Next

-----------------------------------------------------------------------------
(* The chain. *)

(* The hash the next line must carry. *)
Tip(lines) == IF lines = <<>> THEN <<>> ELSE Hash(lines[Len(lines)])

(* A signed line onto the tip of a file that verifies: it still does. *)
LEMMA VerifiedAppend ==
    ASSUME NEW lines \in Seq(Line), VerifyAuditLog(lines),
           NEW line \in Line, line.form = "whole", line.signed = TRUE, line.prev = Tip(lines)
    PROVE  /\ Written(lines, line) = Append(lines, line)
           /\ VerifyAuditLog(Append(lines, line))
           /\ Tip(Append(lines, line)) = Hash(line)
<1> DEFINE n == Len(lines)  new == Append(lines, line)
<1>1. n \in Nat /\ DOMAIN lines = 1 .. n
    OBVIOUS
<1>2. /\ new \in Seq(Line) /\ Len(new) = n + 1 /\ DOMAIN new = 1 .. n + 1 /\ new # <<>>
      /\ new[n + 1] = line /\ \A i \in 1 .. n : new[i] = lines[i]
    OBVIOUS
<1>3. lines # <<>> => n \in 1 .. n
    BY <1>1
<1>4. Written(lines, line) = new
    BY <1>1, <1>3 DEF Written, VerifyAuditLog
<1> HIDE DEF new
<1>5. ASSUME NEW i \in DOMAIN new
      PROVE  /\ new[i].form = "whole"
             /\ new[i].prev = IF i = 1 THEN <<>> ELSE Hash(new[i - 1])
             /\ ~UnsignedAfterSigned(new, i)
  <2>1. CASE i = n + 1
    <3>1. new[i] = line
        BY <1>2, <2>1
    <3>2. n = 0 <=> lines = <<>>
        OBVIOUS
    <3>3. n # 0 => new[i - 1] = lines[n]
        BY <1>1, <1>2, <2>1
    <3> QED BY <1>1, <2>1, <3>1, <3>2, <3>3 DEF Tip, UnsignedAfterSigned
  <2>2. CASE i # n + 1
    <3>1. i \in 1 .. n /\ new[i] = lines[i] /\ i \in DOMAIN lines
        BY <1>1, <1>2, <2>2
    <3>2. i # 1 => i - 1 \in 1 .. n /\ new[i - 1] = lines[i - 1]
        BY <1>1, <1>2, <3>1
    <3>3. \A j \in 1 .. i - 1 : new[j] = lines[j]
        BY <1>1, <1>2, <3>1
    <3>4. /\ lines[i].form = "whole"
          /\ lines[i].prev = IF i = 1 THEN <<>> ELSE Hash(lines[i - 1])
          /\ ~UnsignedAfterSigned(lines, i)
        BY <3>1 DEF VerifyAuditLog
    <3>5. ~UnsignedAfterSigned(new, i)
        BY <3>1, <3>3, <3>4 DEF UnsignedAfterSigned
    <3> QED BY <3>1, <3>2, <3>4, <3>5
  <2> QED BY <2>1, <2>2
<1>6. VerifyAuditLog(new)
    BY <1>5 DEF VerifyAuditLog
<1>7. Tip(new) = Hash(line)
    BY <1>1, <1>2 DEF Tip
<1> QED BY <1>4, <1>6, <1>7 DEF new

(* A restart resumes at the tip of a file that verifies. *)
LEMMA ResumesAtTip ==
    ASSUME TypeOK, LinesNumbered, VerifyAuditLog(log)
    PROVE  ReplayedHash(Len(log)) = Tip(log)
<1>0. Read(Len(log)) = Whole(log)
    BY ReadAll
<1>1. Whole(log) = DOMAIN log
    BY DEF VerifyAuditLog, Whole
<1>2. Len(log) \in Nat /\ DOMAIN log = 1 .. Len(log)
    BY LineTypes
<1>3. CASE log = <<>>
    BY <1>0, <1>1, <1>2, <1>3 DEF ReplayedHash, Tip
<1>4. CASE log # <<>>
  <2>1. Len(log) \in Whole(log)
      BY <1>1, <1>2, <1>4 DEF TypeOK
  <2>2. Largest(Whole(log)) \in Whole(log) /\ Len(log) <= Largest(Whole(log))
      BY <1>0, <1>2, <2>1, Replayed
  <2>3. Largest(Whole(log)) = Len(log)
      BY <1>1, <1>2, <2>2
  <2> QED BY <1>0, <1>4, <2>1, <2>3 DEF ReplayedHash, Tip
<1> QED BY <1>3, <1>4

LEMMA ChainStep ==
    ASSUME TypeOK, LinesNumbered, ChainKept, [Next]_vars
    PROVE  ChainKept'
<1>0. ASSUME UNCHANGED <<log, auditHash, faulted>>, up' => up
      PROVE  ChainKept'
    BY <1>0 DEF ChainKept, VerifyAuditLog, UnsignedAfterSigned
<1>1. ASSUME NEW w \in Writers, nextRunID(w)
      PROVE  ChainKept'
    BY <1>0, <1>1 DEF nextRunID, chain
<1>2. ASSUME NEW w \in Writers, putRun(w)
      PROVE  ChainKept'
    BY <1>0, <1>2 DEF putRun, chain, ghosts
<1>3. ASSUME NEW w \in Writers, NEW o \in WriteOutcomes, NEW s \in SignOutcomes, writeAuditLine(w, o, s)
      PROVE  ChainKept'
  <2> SUFFICES ASSUME ~faulted'
               PROVE  VerifyAuditLog(log)' /\ auditHash' = Tip(log')
      BY DEF ChainKept, Tip
  <2> DEFINE line == NewLine(w, s)
  <2>1. ~faulted /\ o = "ok" /\ s = TRUE /\ s \in BOOLEAN /\ up /\ log' = Written(log, line)
      BY <1>3, WriteOutcome
  <2>2. VerifyAuditLog(log) /\ auditHash = Tip(log)
      BY <2>1 DEF ChainKept, Tip
  <2>3. /\ line \in Line /\ line.form = "whole" /\ line.signed = TRUE /\ line.prev = Tip(log)
      BY <2>1, <2>2, NewLineType
  <2>4. auditHash' = Hash(line)
      BY <1>3, <2>1, WriteChain
  <2>5. log \in Seq(Line)
      BY DEF TypeOK
  <2> HIDE DEF line
  <2>6. log' = Append(log, line) /\ VerifyAuditLog(log') /\ Tip(log') = Hash(line)
      BY <2>1, <2>2, <2>3, <2>5, VerifiedAppend
  <2> QED BY <2>4, <2>6
<1>4. ASSUME NEW w \in Writers, NEW s \in SaveOutcomes, NEW t \in SignOutcomes, saveAuditAnchor(w, s, t)
      PROVE  ChainKept'
    BY <1>0, <1>4 DEF saveAuditAnchor, chain
<1>5. CASE Scan \/ LoadAnchor
    BY <1>0, <1>5 DEF Scan, LoadAnchor, chain, ghosts
<1>6. CASE Crash
    BY <1>6 DEF ChainKept, Crash, ghosts
<1>7. ASSUME NEW n \in 0 .. MaxRuns, loadAudit(n)
      PROVE  ChainKept'
  <2> SUFFICES ASSUME ~faulted'
               PROVE  VerifyAuditLog(log') /\ auditHash' = Tip(log')
      BY DEF ChainKept, Tip
  <2>1. ~faulted /\ n = Len(log) /\ log' = log /\ auditHash' = ReplayedHash(n)
    <3>1. /\ faulted' = (faulted \/ n # Len(log)) /\ log' = log
          /\ auditHash' = ReplayedHash(n)
        BY <1>7, Loads
    <3> QED BY <3>1
  <2>2. VerifyAuditLog(log)
      BY <2>1 DEF ChainKept
  <2> QED BY <2>1, <2>2, ResumesAtTip
<1>8. ASSUME NEW n \in 0 .. MaxRuns, Truncate(n)
      PROVE  ChainKept'
    BY <1>8 DEF ChainKept, Truncate
<1>9. CASE UNCHANGED vars
    BY <1>0, <1>9 DEF vars, chain, ghosts
<1> QED BY <1>1, <1>2, <1>3, <1>4, <1>5, <1>6, <1>7, <1>8, <1>9 DEF Next

-----------------------------------------------------------------------------
(* Anchors. *)

(* While nothing slipped, a line is written only when no anchor is on its  *)
(* way, and the anchor that falls due with it is the only one.             *)
LEMMA WriteAnchors ==
    ASSUME TypeOK, AnchorsInTurn,
           NEW w \in Writers, NEW o \in WriteOutcomes, NEW s \in SignOutcomes,
           writeAuditLine(w, o, s)
    PROVE  AnchorsInTurn'
<1> SUFFICES ASSUME ~slipped'
             PROVE  /\ Cardinality(Whole(log')) <= auditChained' /\ height' <= auditChained'
                    /\ auditChained' - auditAnchoredAt' < AnchorEvery
                    /\ \A u, v \in Writers : pc'[u] = "anchoring" /\ pc'[v] = "anchoring" => u = v
                    /\ \A v \in Writers : pc'[v] = "anchoring" => pending'[v].Chained = auditAnchoredAt'
                    /\ (\A v \in Writers : pc'[v] # "anchoring") => anchor'.Chained = auditAnchoredAt'
    BY DEF AnchorsInTurn
<1>1. /\ s \in BOOLEAN /\ up /\ ~slipped /\ pc[w] = "writing" /\ anchor' = anchor
      /\ \A v \in Writers : pc[v] # "anchoring"
      /\ height' = Cardinality(Whole(log'))
    BY WriteOutcome
<1>2. /\ Cardinality(Whole(log)) <= auditChained
      /\ auditChained - auditAnchoredAt < AnchorEvery /\ anchor.Chained = auditAnchoredAt
    BY <1>1 DEF AnchorsInTurn
<1>3. auditChained \in Nat /\ auditAnchoredAt \in Nat /\ AnchorEvery \in Nat \ {0}
    BY AuditAssumption DEF TypeOK
<1>4. pc \in [Writers -> {"idle", "running", "writing", "anchoring"}] /\ pending \in [Writers -> AuditAnchor]
    BY DEF TypeOK
<1>5. Cardinality(Whole(log)) \in Nat
    BY LineTypes
<1>6. CASE o = "ok"
  <2>1. auditChained' = auditChained + 1 /\ log' = Written(log, NewLine(w, s))
      BY <1>6, WriteOutcome, WriteChain
  <2>2. /\ Cardinality(Whole(log')) \in Nat
        /\ Cardinality(Whole(log')) <= Cardinality(Whole(log)) + 1
      BY <1>1, <2>1, NewLineType, WrittenCount
  <2>3. Cardinality(Whole(log')) <= auditChained'
      BY <1>2, <1>3, <1>5, <2>1, <2>2
  <2>4. CASE AnchorDue
    <3>1. /\ auditAnchoredAt' = auditChained + 1
          /\ pending' = [pending EXCEPT ![w] = AnchorAt(NewLine(w, s))]
          /\ pc' = [pc EXCEPT ![w] = "anchoring"]
        BY <1>6, <2>4, WriteChain
    <3>2. /\ pc'[w] = "anchoring" /\ \A v \in Writers : v # w => pc'[v] = pc[v]
          /\ pending'[w] = AnchorAt(NewLine(w, s))
        BY <1>4, <3>1
    <3>3. pending'[w].Chained = auditAnchoredAt'
        BY <1>1, <3>1, <3>2, NewLineType
    <3> QED BY <1>1, <1>3, <2>1, <2>3, <3>1, <3>2, <3>3
  <2>5. CASE ~AnchorDue
    <3>1. auditAnchoredAt' = auditAnchoredAt /\ pc' = [pc EXCEPT ![w] = "idle"]
        BY <1>6, <2>5, WriteChain DEF Leave
    <3>2. \A v \in Writers : pc'[v] # "anchoring"
        BY <1>1, <1>4, <3>1
    <3>3. auditChained' - auditAnchoredAt' < AnchorEvery
        BY <1>3, <2>1, <2>5, <3>1 DEF AnchorDue
    <3> QED BY <1>1, <1>2, <2>3, <3>1, <3>2, <3>3
  <2> QED BY <2>4, <2>5
<1>7. CASE o # "ok"
  <2>1. UNCHANGED <<auditChained, auditAnchoredAt, pending>> /\ pc' = [pc EXCEPT ![w] = "idle"]
      BY <1>7, WriteChain DEF Leave
  <2>2. \A v \in Writers : pc'[v] # "anchoring"
      BY <1>1, <1>4, <2>1
  <2>3. Cardinality(Whole(log')) \in Nat /\ Cardinality(Whole(log')) <= Cardinality(Whole(log))
    <3>1. CASE log' = log
        BY <1>5, <3>1
    <3>2. CASE log' = Written(log, Fragment)
      <4>1. /\ Cardinality(Whole(log')) \in Nat
            /\ Cardinality(Whole(log')) <= Cardinality(Whole(log)) + 0
          BY <3>2, WrittenCount, Members
      <4> QED BY <1>5, <4>1
    <3> QED BY <1>7, <3>1, <3>2, WriteOutcome
  <2>4. Cardinality(Whole(log')) <= auditChained
      BY <1>2, <1>3, <1>5, <2>3
  <2> QED BY <1>1, <1>2, <2>1, <2>2, <2>4
<1> QED BY <1>6, <1>7

LEMMA SaveAnchors ==
    ASSUME TypeOK, AnchorsInTurn,
           NEW w \in Writers, NEW s \in SaveOutcomes, NEW t \in SignOutcomes, saveAuditAnchor(w, s, t)
    PROVE  AnchorsInTurn'
<1> SUFFICES ASSUME ~slipped'
             PROVE  AnchorsInTurn'
    BY DEF AnchorsInTurn
<1>1. /\ up /\ ~slipped /\ s /\ t /\ pc[w] = "anchoring"
      /\ UNCHANGED <<log, auditChained, auditAnchoredAt, height>>
      /\ pc' = [pc EXCEPT ![w] = "idle"]
    BY DEF saveAuditAnchor, Leave, chain
<1>2. anchor' = pending[w]
    BY <1>1 DEF saveAuditAnchor
<1>3. pending[w].Chained = auditAnchoredAt /\ \A v \in Writers : pc[v] = "anchoring" => v = w
    BY <1>1 DEF AnchorsInTurn
<1>4. \A v \in Writers : pc'[v] # "anchoring"
    BY <1>1, <1>3 DEF TypeOK
<1>5. /\ Cardinality(Whole(log)) <= auditChained /\ height <= auditChained
      /\ auditChained - auditAnchoredAt < AnchorEvery
    BY <1>1 DEF AnchorsInTurn
<1> QED BY <1>1, <1>2, <1>3, <1>4, <1>5 DEF AnchorsInTurn

LEMMA AnchorStep ==
    ASSUME TypeOK, AnchorsInTurn, [Next]_vars
    PROVE  AnchorsInTurn'
<1>0. ASSUME UNCHANGED <<log, anchor, up, auditChained, auditAnchoredAt, pending, height, slipped>>,
             \A v \in Writers : pc'[v] = "anchoring" <=> pc[v] = "anchoring"
      PROVE  AnchorsInTurn'
    BY <1>0 DEF AnchorsInTurn
<1>1. ASSUME NEW w \in Writers, nextRunID(w)
      PROVE  AnchorsInTurn'
  <2>1. \A v \in Writers : pc'[v] = "anchoring" <=> pc[v] = "anchoring"
      BY <1>1 DEF nextRunID, TypeOK
  <2> QED BY <1>0, <1>1, <2>1 DEF nextRunID, chain
<1>2. ASSUME NEW w \in Writers, putRun(w)
      PROVE  AnchorsInTurn'
  <2>1. \A v \in Writers : pc'[v] = "anchoring" <=> pc[v] = "anchoring"
      BY <1>2 DEF putRun, TypeOK
  <2> QED BY <1>0, <1>2, <2>1 DEF putRun, chain, ghosts
<1>3. ASSUME NEW w \in Writers, NEW o \in WriteOutcomes, NEW s \in SignOutcomes, writeAuditLine(w, o, s)
      PROVE  AnchorsInTurn'
    BY <1>3, WriteAnchors
<1>4. ASSUME NEW w \in Writers, NEW s \in SaveOutcomes, NEW t \in SignOutcomes, saveAuditAnchor(w, s, t)
      PROVE  AnchorsInTurn'
    BY <1>4, SaveAnchors
<1>5. CASE Scan \/ LoadAnchor
    BY <1>0, <1>5 DEF Scan, LoadAnchor, chain, writers, ghosts
<1>6. CASE Crash
    BY <1>6 DEF AnchorsInTurn, Crash
<1>7. ASSUME NEW n \in 0 .. MaxRuns, loadAudit(n)
      PROVE  AnchorsInTurn'
    BY <1>7, Loads DEF AnchorsInTurn
<1>8. ASSUME NEW n \in 0 .. MaxRuns, Truncate(n)
      PROVE  AnchorsInTurn'
  <2>1. n \in 0 .. Len(log) - 1 /\ log' = SubSeq(log, 1, n)
      BY <1>8 DEF Truncate
  <2>2. UNCHANGED <<anchor, up, auditChained, auditAnchoredAt, pc, pending, height, slipped>>
      BY <1>8 DEF Truncate, chain, writers
  <2>3. Cardinality(Whole(log')) <= Cardinality(Whole(log))
      BY <2>1, CutFacts
  <2>4. Cardinality(Whole(log')) \in Nat /\ Cardinality(Whole(log)) \in Nat
    <3>1. IsFiniteSet(Whole(log)) /\ Whole(log') \subseteq Whole(log)
        BY <2>1, CutFacts, LineTypes
    <3> QED BY <3>1, FS_Subset, FS_CardinalityType
  <2>5. auditChained \in Nat
      BY DEF TypeOK
  <2>6. up /\ ~slipped => Cardinality(Whole(log')) <= auditChained
      BY <2>3, <2>4, <2>5 DEF AnchorsInTurn
  <2> QED BY <2>2, <2>6 DEF AnchorsInTurn
<1>9. CASE UNCHANGED vars
    BY <1>0, <1>9 DEF vars, chain, writers, ghosts
<1> QED BY <1>1, <1>2, <1>3, <1>4, <1>5, <1>6, <1>7, <1>8, <1>9 DEF Next

-----------------------------------------------------------------------------
(* The invariant holds at the start. *)
LEMMA InitInv ==
    ASSUME Init
    PROVE  IInv
<1>1. log = <<>> /\ DOMAIN log = {} /\ Whole(log) = {}
  <2>1. log = <<>> /\ DOMAIN log = {}
      BY DEF Init
  <2> QED BY <2>1 DEF Whole
<1>2. <<>> \in Seq(Line) /\ <<>> \in Seq(Nat)
    OBVIOUS
<1>3. TypeOK
    BY <1>2, Members DEF Init, TypeOK
<1>4. LinesNumbered /\ RunsNumbered
    BY <1>1 DEF Init, LinesNumbered, RunsNumbered, Holding
<1>5. ChainKept
    BY <1>1 DEF Init, ChainKept, VerifyAuditLog
<1>6. AnchorsInTurn
  <2>1. Cardinality(Whole(log)) = 0
      BY <1>1, FS_EmptySet
  <2>2. \A w \in Writers : pc[w] # "anchoring"
      BY DEF Init
  <2>3. /\ height = 0 /\ auditChained = 0 /\ auditAnchoredAt = 0 /\ anchor.Chained = 0
      BY Members DEF Init
  <2>4. 0 - 0 < AnchorEvery
      BY AuditAssumption
  <2> QED BY <2>1, <2>2, <2>3, <2>4 DEF AnchorsInTurn
<1> QED BY <1>3, <1>4, <1>5, <1>6 DEF IInv

(* The inductive invariant: what auditlog.go keeps between the file, its   *)
(* anchor and the chain in memory holds in every reachable state.          *)
THEOREM InvariantTheorem == Spec => []IInv
<1>1. Init => IInv
    BY InitInv
<1>2. IInv /\ [Next]_vars => IInv'
  <2> SUFFICES ASSUME IInv, [Next]_vars
               PROVE  IInv'
      OBVIOUS
  <2>1. TypeOK /\ LinesNumbered /\ RunsNumbered /\ ChainKept /\ AnchorsInTurn
      BY DEF IInv
  <2>2. TypeOK'
      BY <2>1, TypeStep
  <2>3. LinesNumbered' /\ RunsNumbered'
      BY <2>1, NumbersStep
  <2>4. ChainKept' /\ AnchorsInTurn'
      BY <2>1, ChainStep, AnchorStep
  <2> QED BY <2>2, <2>3, <2>4 DEF IInv
<1> QED BY <1>1, <1>2, PTL DEF Spec

(* loadAudit resumes the ids past every one it read, so while every start  *)
(* reads the file to its end no two lines carry the same run id, whatever  *)
(* was torn, cut off or lost.                                              *)
THEOREM RunIdsUniqueTheorem == Spec => []RunIdsUnique
<1>1. IInv => RunIdsUnique
    BY DEF IInv, LinesNumbered, RunIdsUnique
<1> QED BY <1>1, InvariantTheorem, PTL

(* auditMu keeps the chain unforked: while no read, write, signature or    *)
(* cut fails it, the file verifies, through crashes and restarts.              *)
THEOREM UnfaultedVerifiesTheorem == Spec => []UnfaultedVerifies
<1>1. IInv => UnfaultedVerifies
    BY DEF IInv, ChainKept, UnfaultedVerifies
<1> QED BY <1>1, InvariantTheorem, PTL

(* In a file that verifies, each hash commits to the records of the lines  *)
(* before it: the first line that committed to an erased record would have *)
(* to follow the line of that record.                                      *)
LEMMA CommitsToLines ==
    ASSUME TypeOK, LinesNumbered, VerifyAuditLog(log)
    PROVE  \A i \in DOMAIN log, k \in Nat :
               k \in DOMAIN log[i].prev => log[i].prev[k] \notin erased
<1> DEFINE Commits(i) == \E k \in DOMAIN log[i].prev : log[i].prev[k] \in erased
           S == {i \in DOMAIN log : Commits(i)}
<1>1. SUFFICES ASSUME S # {}
               PROVE  FALSE
    OBVIOUS
<1>2. S \in SUBSET Nat
    BY LineTypes
<1>3. PICK m \in S : \A j \in S : m <= j
    BY <1>1, <1>2, LeastNatural
<1>4. m \in DOMAIN log /\ m \in Nat /\ Commits(m)
    BY <1>2, <1>3
<1>5. PICK k \in DOMAIN log[m].prev : log[m].prev[k] \in erased
    BY <1>4
<1>6. log[m].prev = IF m = 1 THEN <<>> ELSE Hash(log[m - 1])
    BY <1>4 DEF VerifyAuditLog
<1>7. CASE m = 1
    BY <1>5, <1>6, <1>7
<1>8. CASE m # 1
  <2> DEFINE l == log[m - 1]
  <2>1. m - 1 \in DOMAIN log /\ m - 1 \in Nat
      BY <1>4, <1>8, LineTypes
  <2>2. l.prev \in Seq(Nat) /\ l.rec \in Nat
      BY <2>1, LineTypes
  <2>3. m - 1 \notin S
      BY <1>3, <1>4, <2>1
  <2>4. \A j \in DOMAIN l.prev : l.prev[j] \notin erased
      BY <2>1, <2>3
  <2>5. l.rec \notin erased
    <3>1. m - 1 \in Whole(log)
        BY <2>1 DEF VerifyAuditLog, Whole
    <3> QED BY <3>1 DEF LinesNumbered
  <2>6. log[m].prev = Append(l.prev, l.rec)
      BY <1>6, <1>8 DEF Hash
  <2> HIDE DEF l
  <2>7. k \in DOMAIN Append(l.prev, l.rec) /\ Append(l.prev, l.rec)[k] \in erased
      BY <1>5, <2>6
  <2>8. CASE k = Len(l.prev) + 1
      BY <2>2, <2>5, <2>7, <2>8
  <2>9. CASE k # Len(l.prev) + 1
    <3>1. k \in DOMAIN l.prev /\ Append(l.prev, l.rec)[k] = l.prev[k]
        BY <2>2, <2>7, <2>9
    <3> QED BY <2>4, <2>7, <3>1
  <2> QED BY <2>8, <2>9
<1> QED BY <1>7, <1>8

(* A cut under the running gateway is caught once it appends again: the    *)
(* new line commits to a record that is gone, and VerifyAuditLog's walk    *)
(* cannot accept it.                                                       *)
THEOREM TruncationCaughtTheorem == Spec => []TruncationCaught
<1>1. IInv => TruncationCaught
  <2> SUFFICES ASSUME IInv, VerifiedNow \in Intact
               PROVE  \A i \in DOMAIN log, k \in 1 .. MaxRuns :
                          k \in DOMAIN log[i].prev => log[i].prev[k] \notin erased
      BY DEF TruncationCaught
  <2>1. VerifyAuditLog(log)
      BY DEF VerifiedNow, Intact
  <2>2. \A k \in 1 .. MaxRuns : k \in Nat
      BY AuditAssumption
  <2> QED BY <2>1, <2>2, CommitsToLines DEF IInv
<1> QED BY <1>1, InvariantTheorem, PTL

(* What a cut can remove unnoticed is less than auditAnchorEvery lines, as *)
(* long as writeAuditLine's anchors were each saved in turn.               *)
THEOREM ResidualWindowTheorem == Spec => []ResidualWindow
<1>1. IInv => ResidualWindow
  <2> SUFFICES ASSUME IInv, up, ~slipped, VerifiedNow \in Intact,
                      \A w \in Writers : pc[w] # "anchoring"
               PROVE  height - Len(log) < AnchorEvery
      BY DEF ResidualWindow
  <2>1. /\ height <= auditChained /\ auditChained - auditAnchoredAt < AnchorEvery
        /\ anchor.Chained = auditAnchoredAt
      BY DEF IInv, AnchorsInTurn
  <2>2. /\ Len(log) \in Nat /\ height \in Nat /\ auditChained \in Nat /\ auditAnchoredAt \in Nat
        /\ AnchorEvery \in Nat
      BY LineTypes, AuditAssumption DEF IInv, TypeOK
  <2>3. AnchorVerdict(Len(log)) \in Intact
      BY DEF VerifiedNow, Intact
  <2>4. anchor = NoAnchor \/ ~(Len(log) < anchor.Chained)
      BY <2>3 DEF AnchorVerdict, Intact
  <2>5. auditAnchoredAt <= Len(log)
      BY <2>1, <2>2, <2>4, Members
  <2> QED BY <2>1, <2>2, <2>5
<1> QED BY <1>1, InvariantTheorem, PTL
=============================================================================
