------------------------------ MODULE AuditLog ------------------------------
(***************************************************************************)
(* The audit log: the run store of internal/mcp/server.go (run ids, the    *)
(* bounded recent window, the all-time total) and the hash-chained file of *)
(* internal/mcp/auditlog.go with its out-of-band head anchor and its       *)
(* verification.                                                           *)
(*                                                                         *)
(* A runRecord is a serial number.  A chain hash is what it commits to,    *)
(* the sequence of records chained up to it.  The verification walks the   *)
(* file first and loads the anchor afterwards, so it is two steps.         *)
(***************************************************************************)
EXTENDS Integers, Sequences, FiniteSets

CONSTANTS
    Writers,        \* request goroutines that record a run
    AnchorEvery,    \* auditAnchorEvery
    MaxKept,        \* rs.maxKept, the window cap; 0: unbounded
    WriteOutcomes,  \* what a write may do: a subset of Outcomes
    SignOutcomes,   \* does the signer work?  a subset of BOOLEAN
    SaveOutcomes,   \* does the anchor save succeed?  a subset of BOOLEAN
    MaxRuns,        \* bound on records made
    MaxRestarts,    \* bound on restarts
    MaxCuts         \* bound on truncations of the file

(* Written whole; not at all; partly, with no newline. *)
Outcomes == {"ok", "failed", "torn"}

ASSUME AuditAssumption ==
    /\ AnchorEvery \in Nat \ {0} /\ MaxKept \in Nat
    /\ WriteOutcomes \subseteq Outcomes
    /\ SignOutcomes \subseteq BOOLEAN /\ SaveOutcomes \subseteq BOOLEAN
    /\ MaxRuns \in Nat /\ MaxRestarts \in Nat /\ MaxCuts \in Nat

VARIABLES
    log,            \* the lines of the file
    anchor,         \* the AuditAnchor loadAuditAnchor would return; NoAnchor: none
    up,             \* is the gateway running?
    seq,            \* s.rs.seq
    order, total,   \* s.rs.order (the keys of byID, oldest first) and s.rs.total
    auditHash,      \* as the history it commits to
    auditChained, auditAnchoredAt,
    pc, run,        \* each writer's step, and its run id and record
    pending,        \* each writer's anchor waiting to be saved
    scan, verdict,  \* the verification in progress and the last one's outcome
    made, restarts, cuts,   \* the bounded counters
    erased,         \* records truncated away so far
    height,         \* chained lines in the file right after the last write
    faulted,        \* has a read, a write, a signature or the file itself
                    \* ever failed?
    slipped,        \* was an anchor ever not saved, saved out of turn, or
                    \* skipped by a restart?
    unread          \* did a start ever not read the file to its end?

store == <<seq, order, total>>
chain == <<auditHash, auditChained, auditAnchoredAt>>
writers == <<pc, run, pending>>
verifier == <<scan, verdict>>
ghosts == <<made, restarts, cuts, erased, height, faulted, slipped, unread>>
vars == <<log, anchor, up, store, chain, writers, verifier, ghosts>>

NoAnchor == [Chained |-> 0, Head |-> <<>>]
NoRun == [id |-> 0, rec |-> 0]

(* One line of the file.  "whole": a well-formed auditLine.  "open": an    *)
(* unterminated fragment.  "junk": a fragment and the line that was        *)
(* written onto its end, malformed together.                               *)
Line == [form : {"whole", "open", "junk"}, id : Nat, rec : Nat,
         prev : Seq(Nat), signed : BOOLEAN]

Fragment == [form |-> "open", id |-> 0, rec |-> 0, prev |-> <<>>, signed |-> FALSE]

Whole(lines) == {i \in DOMAIN lines : lines[i].form = "whole"}
Hash(line) == Append(line.prev, line.rec)
Largest(S) == CHOOSE x \in S : \A y \in S : y <= x

(* Appending text to the file: after an unterminated fragment it only      *)
(* completes that malformed line.                                          *)
Written(lines, line) ==
    IF lines # <<>> /\ lines[Len(lines)].form = "open"
    THEN [lines EXCEPT ![Len(lines)].form = IF line.form = "open" THEN "open" ELSE "junk"]
    ELSE Append(lines, line)

-----------------------------------------------------------------------------
Init ==
    /\ log = <<>> /\ anchor = NoAnchor /\ up = TRUE
    /\ seq = 0 /\ order = <<>> /\ total = 0
    /\ auditHash = <<>> /\ auditChained = 0 /\ auditAnchoredAt = 0
    /\ pc = [w \in Writers |-> "idle"] /\ run = [w \in Writers |-> NoRun]
    /\ pending = [w \in Writers |-> NoAnchor]
    /\ scan = -1 /\ verdict = "none"
    /\ made = 0 /\ restarts = 0 /\ cuts = 0
    /\ erased = {} /\ height = 0 /\ faulted = FALSE /\ slipped = FALSE
    /\ unread = FALSE

(* nextRunID reserves an id; the run it names then executes. *)
nextRunID(w) ==
    /\ up /\ pc[w] = "idle" /\ made < MaxRuns
    /\ seq' = seq + 1 /\ made' = made + 1
    /\ pc' = [pc EXCEPT ![w] = "running"]
    /\ run' = [run EXCEPT ![w] = [id |-> seq + 1, rec |-> made + 1]]
    /\ UNCHANGED <<log, anchor, up, order, total, chain, pending, verifier,
                   restarts, cuts, erased, height, faulted, slipped, unread>>

(* addRunLocked: the id enters the window once, the oldest leave it. *)
Windowed(ids) ==
    IF MaxKept > 0 /\ Len(ids) > MaxKept
    THEN SubSeq(ids, Len(ids) - MaxKept + 1, Len(ids)) ELSE ids

(* What addRunLocked leaves of a window and its total. *)
Added(w, id) ==
    IF \E i \in DOMAIN w.order : w.order[i] = id THEN w
    ELSE [order |-> Windowed(Append(w.order, id)), total |-> w.total + 1]

addRunLocked(id) ==
    LET w == Added([order |-> order, total |-> total], id)
    IN  order' = w.order /\ total' = w.total

(* putRun, before appendAudit. *)
putRun(w) ==
    /\ up /\ pc[w] = "running"
    /\ addRunLocked(run[w].id)
    /\ pc' = [pc EXCEPT ![w] = "writing"]
    /\ UNCHANGED <<log, anchor, up, seq, chain, run, pending, verifier, ghosts>>

Leave(w) == pc' = [pc EXCEPT ![w] = "idle"] /\ run' = [run EXCEPT ![w] = NoRun]

(* A mutant: the anchor comes one line late. *)
AnchorDueLate == auditChained + 1 - auditAnchoredAt > AnchorEvery

(* Is an anchor due after this line?  Decided under auditMu. *)
AnchorDue == auditChained + 1 - auditAnchoredAt >= AnchorEvery

AnchorAt(line) == [Chained |-> auditChained + 1, Head |-> Hash(line)]

(* writeAuditLine, whole under auditMu.  A failed write leaves the chain   *)
(* in memory as it was.                                                    *)
writeAuditLine(w, outcome, signed) ==
    LET line == [form |-> "whole", id |-> run[w].id, rec |-> run[w].rec,
                 prev |-> auditHash, signed |-> signed]
    IN
    /\ up /\ pc[w] = "writing"
    /\ faulted' = (faulted \/ outcome # "ok" \/ ~signed)
    /\ log' = CASE outcome = "ok" -> Written(log, line)
                [] outcome = "failed" -> log
                [] outcome = "torn" -> Written(log, Fragment)
    /\ height' = Cardinality(Whole(log'))
    /\ slipped' = (slipped \/ \E v \in Writers \ {w} : pc[v] = "anchoring")
    /\ IF outcome = "ok"
       THEN /\ auditHash' = Hash(line)
            /\ auditChained' = auditChained + 1
            /\ IF AnchorDue
               THEN /\ auditAnchoredAt' = auditChained + 1
                    /\ pending' = [pending EXCEPT ![w] = AnchorAt(line)]
                    /\ pc' = [pc EXCEPT ![w] = "anchoring"] /\ UNCHANGED run
               ELSE Leave(w) /\ UNCHANGED <<auditAnchoredAt, pending>>
       ELSE Leave(w) /\ UNCHANGED <<chain, pending>>
    /\ UNCHANGED <<anchor, up, store, verifier, made, restarts, cuts, erased, unread>>

(* saveAuditAnchor, outside auditMu and best effort.  An anchor that could *)
(* not be signed is saved all the same, and loadAuditAnchor then treats it *)
(* as absent.                                                              *)
saveAuditAnchor(w, saved, signed) ==
    /\ up /\ pc[w] = "anchoring"
    /\ anchor' = IF ~saved THEN anchor ELSE IF signed THEN pending[w] ELSE NoAnchor
    /\ pending' = [pending EXCEPT ![w] = NoAnchor]
    /\ Leave(w)
    /\ slipped' = (slipped \/ ~saved \/ ~signed)
    /\ UNCHANGED <<log, up, store, chain, verifier, made, restarts, cuts, erased, height, faulted,
                   unread>>

-----------------------------------------------------------------------------
(* VerifyAuditLog: every line well formed and signed, each following the   *)
(* hash of the one before it.  (Every line here postdates chain and        *)
(* signer, so the tolerated legacy prefixes are empty.)                    *)
UnsignedAfterSigned(lines, i) ==
    ~lines[i].signed /\ \E j \in 1 .. i - 1 : lines[j].signed

(* A mutant: each line is checked by itself, not against the one before. *)
VerifyLinesOnly(lines) ==
    \A i \in DOMAIN lines :
        lines[i].form = "whole" /\ ~UnsignedAfterSigned(lines, i)

VerifyAuditLog(lines) ==
    \A i \in DOMAIN lines :
        /\ lines[i].form = "whole"
        /\ lines[i].prev = IF i = 1 THEN <<>> ELSE Hash(lines[i - 1])
        /\ ~UnsignedAfterSigned(lines, i)

Scan ==
    /\ up /\ scan = -1
    /\ IF VerifyAuditLog(log)
       THEN scan' = Len(log) /\ verdict' = "none"
       ELSE scan' = -1 /\ verdict' = "broken"
    /\ UNCHANGED <<log, anchor, up, store, chain, writers, ghosts>>

(* The rest of VerifyAudit, on the count the walk found. *)
AnchorVerdict(chained) ==
    CASE anchor = NoAnchor -> "intact"
      [] anchor # NoAnchor /\ chained < anchor.Chained -> "truncated"
      [] OTHER -> "anchored"

LoadAnchor ==
    /\ up /\ scan # -1
    /\ verdict' = AnchorVerdict(scan) /\ scan' = -1
    /\ UNCHANGED <<log, anchor, up, store, chain, writers, ghosts>>

-----------------------------------------------------------------------------
Crash ==
    /\ up /\ restarts < MaxRestarts
    /\ up' = FALSE
    /\ seq' = 0 /\ order' = <<>> /\ total' = 0
    /\ auditHash' = <<>> /\ auditChained' = 0 /\ auditAnchoredAt' = 0
    /\ pc' = [w \in Writers |-> "idle"] /\ run' = [w \in Writers |-> NoRun]
    /\ pending' = [w \in Writers |-> NoAnchor]
    /\ scan' = -1 /\ verdict' = "none"
    /\ UNCHANGED <<log, anchor, ghosts>>

(* loadAudit replays the lines it reads, skipping the malformed ones.  How *)
(* far it reads is up to the file: an open that fails, for any reason,     *)
(* counts as no history, and an error of the scanner ends it early.        *)
Read(n) == Whole(log) \cap (1 .. n)

ReplayedIds(n) == {log[i].id : i \in Read(n)}

(* A mutant: ids resume at the number of lines, not at the largest id. *)
SeqByCount(n) == Cardinality(Read(n))

ReplayedSeq(n) == IF Read(n) = {} THEN 0 ELSE Largest(ReplayedIds(n))

(* A mutant: every process starts a chain of its own. *)
HashFromGenesis(n) == <<>>

ReplayedHash(n) == IF Read(n) = {} THEN <<>> ELSE Hash(log[Largest(Read(n))])

loadAudit(n) ==
    LET replay[i \in 0 .. n] ==
            IF i = 0 THEN [order |-> <<>>, total |-> 0]
            ELSE IF i \in Whole(log) THEN Added(replay[i - 1], log[i].id) ELSE replay[i - 1]
    IN
    /\ ~up /\ n \in 0 .. Len(log)
    /\ up' = TRUE /\ restarts' = restarts + 1
    /\ seq' = ReplayedSeq(n)
    /\ order' = replay[n].order /\ total' = replay[n].total
    /\ auditHash' = ReplayedHash(n)
    /\ auditChained' = Cardinality(Read(n))
    /\ auditAnchoredAt' = Cardinality(Read(n))
    /\ slipped' = TRUE
    /\ unread' = (unread \/ n # Len(log)) /\ faulted' = (faulted \/ n # Len(log))
    /\ UNCHANGED <<log, anchor, writers, verifier, made, cuts, erased, height>>

(* The end of the file is lost, with or without the gateway running. *)
Truncate(n) ==
    /\ cuts < MaxCuts /\ n \in 0 .. Len(log) - 1
    /\ log' = SubSeq(log, 1, n)
    /\ erased' = erased \cup {log[i].rec : i \in Whole(log) \cap (n + 1 .. Len(log))}
    /\ cuts' = cuts + 1 /\ faulted' = TRUE
    /\ UNCHANGED <<anchor, up, store, chain, writers, verifier, made, restarts, height, slipped, unread>>

Next ==
    \/ \E w \in Writers : nextRunID(w)
    \/ \E w \in Writers : putRun(w)
    \/ \E w \in Writers, o \in WriteOutcomes, s \in SignOutcomes : writeAuditLine(w, o, s)
    \/ \E w \in Writers, s \in SaveOutcomes, t \in SignOutcomes : saveAuditAnchor(w, s, t)
    \/ Scan
    \/ LoadAnchor
    \/ Crash
    \/ \E n \in 0 .. MaxRuns : loadAudit(n)
    \/ \E n \in 0 .. MaxRuns : Truncate(n)

Spec == Init /\ [][Next]_vars

-----------------------------------------------------------------------------
(* Properties *)

AuditAnchor == [Chained : Nat, Head : Seq(Nat)]

(* Types of the file, its anchor, the chain in memory and the writers. *)
TypeOK ==
    /\ log \in Seq(Line) /\ anchor \in AuditAnchor /\ up \in BOOLEAN
    /\ seq \in Nat
    /\ auditHash \in Seq(Nat) /\ auditChained \in Nat /\ auditAnchoredAt \in Nat
    /\ pc \in [Writers -> {"idle", "running", "writing", "anchoring"}]
    /\ run \in [Writers -> [id : Nat, rec : Nat]]
    /\ pending \in [Writers -> AuditAnchor]
    /\ made \in Nat /\ erased \subseteq Nat /\ height \in Nat
    /\ faulted \in BOOLEAN /\ slipped \in BOOLEAN /\ unread \in BOOLEAN

(* "new run ids don't collide with history": whatever was torn, truncated  *)
(* or lost in a crash, no two lines of the file carry the same run id, as  *)
(* long as every start could read the file to its end.                     *)
RunIdsUnique ==
    ~unread => \A i, j \in Whole(log) : i # j => log[i].id # log[j].id

(* "concurrent runs can't interleave and fork the chain": as long as every *)
(* read, write and signature succeeds and nobody touches the file, it      *)
(* verifies at every instant, through crashes and restarts too.            *)
UnfaultedVerifies == ~faulted => VerifyAuditLog(log)

(* What VerifyAudit would answer if nothing ran between its two steps. *)
VerifiedNow ==
    IF VerifyAuditLog(log) THEN AnchorVerdict(Len(log)) ELSE "broken"

Intact == {"intact", "anchored"}

(* A truncation under the running gateway is caught once it appends again: *)
(* an intact log has no line chained onto a record that was erased.        *)
TruncationCaught ==
    VerifiedNow \in Intact =>
        \A i \in DOMAIN log, k \in 1 .. MaxRuns :
            k \in DOMAIN log[i].prev => log[i].prev[k] \notin erased

(* "the window of most-recent lines a truncation could remove undetected"  *)
(* is less than auditAnchorEvery, as long as every anchor that came due    *)
(* was saved, and in turn.                                                 *)
ResidualWindow ==
    up /\ ~slipped /\ VerifiedNow \in Intact /\ (\A w \in Writers : pc[w] # "anchoring")
        => height - Len(log) < AnchorEvery

-----------------------------------------------------------------------------
(* The inductive invariant behind the properties. *)

Holding(w) == pc[w] \in {"running", "writing"}

(* Records are handed out once, and so are ids as far as starts read the   *)
(* file: the lines of the file, the runs that have yet to be written and   *)
(* the records that were erased never share one, and nothing was numbered  *)
(* past the counters.                                                      *)
LinesNumbered ==
    /\ seq <= made
    /\ \A e \in erased : e <= made
    /\ \A i \in Whole(log) :
          /\ log[i].id <= made /\ log[i].rec <= made /\ log[i].rec \notin erased
          /\ up /\ ~unread => log[i].id <= seq
    /\ \A i, j \in Whole(log) : i # j => log[i].rec # log[j].rec
    /\ ~unread => \A i, j \in Whole(log) : i # j => log[i].id # log[j].id

RunsNumbered ==
    /\ ~up => \A w \in Writers : pc[w] = "idle"
    /\ \A w \in Writers : Holding(w) =>
          /\ run[w].id <= seq /\ run[w].rec <= made /\ run[w].rec \notin erased
          /\ \A i \in Whole(log) : log[i].rec # run[w].rec /\ (~unread => log[i].id # run[w].id)
    /\ \A v, w \in Writers : Holding(v) /\ Holding(w) /\ v # w =>
          run[v].id # run[w].id /\ run[v].rec # run[w].rec

(* The hash in memory is that of the last line. *)
ChainKept ==
    ~faulted =>
        /\ VerifyAuditLog(log)
        /\ up => auditHash = IF log = <<>> THEN <<>> ELSE Hash(log[Len(log)])

(* The anchor in the store, or the one on its way there, is the last that  *)
(* came due, and no more lines are in the file than were chained.          *)
AnchorsInTurn ==
    up /\ ~slipped =>
        /\ Cardinality(Whole(log)) <= auditChained /\ height <= auditChained
        /\ auditChained - auditAnchoredAt < AnchorEvery
        /\ \A v, w \in Writers : pc[v] = "anchoring" /\ pc[w] = "anchoring" => v = w
        /\ \A w \in Writers : pc[w] = "anchoring" => pending[w].Chained = auditAnchoredAt
        /\ (\A w \in Writers : pc[w] # "anchoring") => anchor.Chained = auditAnchoredAt

IInv == TypeOK /\ LinesNumbered /\ RunsNumbered /\ ChainKept /\ AnchorsInTurn
=============================================================================
