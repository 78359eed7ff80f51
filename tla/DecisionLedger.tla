--------------------------- MODULE DecisionLedger ---------------------------
(***************************************************************************)
(* The governed decision ledger of internal/mcp/decisionledger.go: the     *)
(* signed, fsynced, anchored file in which the gateway reserves a finite   *)
(* operation grant's budget BEFORE an upstream call may begin.             *)
(*                                                                         *)
(* A SHA-256 chain hash is modelled by what it commits to: the sequence of *)
(* records from the first line up to the hashed one.  Equal hashes are     *)
(* equal histories and s.decisionSequence is the length of the history.    *)
(* Signatures always verify, because every line and anchor is written by   *)
(* this gateway with one key.                                              *)
(*                                                                         *)
(* Steps that a crash can separate are separate actions; everything that   *)
(* authorizeDecision does under decisionMu between two durable writes is   *)
(* one action.  The mutex is held exactly while a caller is at "anchor".   *)
(***************************************************************************)
EXTENDS Integers, Sequences, FiniteSets

CONSTANTS
    Callers,        \* request goroutines inside invokeUpstream
    Grants,         \* grant digests
    MaxRequests,    \* grant.MaxRequests, per digest
    MaxBytes,       \* grant.MaxBytes
    MaxResponse,    \* grant.MaxResponseBytes, the reserved response ceiling
    RateRequests,   \* grant.Rate.Requests
    RateWindow,     \* grant.Rate.WindowS, in ticks
    Expiry,         \* grant.ExpiresAt, in ticks
    ArgSizes,       \* the argument sizes a call may have
    DiskLoss,       \* what may happen to the file while the gateway is down
    MaxDelay,       \* ticks a caller may wait between time.Now() and the lock
    MaxTime,        \* bound on the clock
    MaxLines,       \* bound on the lines of the file
    MaxForgotten    \* bound on the starts that forget the history

LossKinds == {"rollback", "missing", "emptied"}

ASSUME GrantAssumption ==
    /\ MaxRequests  \in [Grants -> Nat \ {0}]
    /\ MaxBytes     \in [Grants -> Nat \ {0}]
    /\ MaxResponse  \in [Grants -> Nat \ {0}]
    /\ RateRequests \in [Grants -> Nat \ {0}]
    /\ RateWindow   \in [Grants -> Nat \ {0}]
    /\ Expiry       \in [Grants -> Nat]
    /\ \A g \in Grants : MaxResponse[g] < MaxBytes[g]

ASSUME BoundAssumption ==
    /\ IsFiniteSet(Callers) /\ Grants # {} /\ ArgSizes \subseteq Nat
    /\ DiskLoss \subseteq LossKinds
    /\ MaxDelay \in Nat /\ MaxTime \in Nat /\ MaxLines \in Nat /\ MaxForgotten \in Nat

VARIABLES
    file,       \* "missing" or "present": does the ledger file exist?
    ledger,     \* its lines
    anchor,     \* the history the signed anchor commits to; <<>>: no anchor
    up,         \* is the gateway process running?
    head,       \* s.decisionHash, as the history it commits to
    usage,      \* s.decisionUsage
    loadErr,    \* s.decisionLoadErr # ""
    pc, call,   \* where each caller is, and the record it carries
    now,        \* the clock
    crossed,    \* the upstream calls begun so far (the outside world)
    forgotten   \* how many starts took nothing for the anchored history

vars == <<file, ledger, anchor, up, head, usage, loadErr, pc, call, now, crossed,
          forgotten>>
disk == <<file, ledger, anchor>>
memory == <<head, usage, loadErr>>

(* One decisionRecord, reduced to what budgets and the chain depend on. *)
Record == [decision : {"authorized", "refused"}, grant : Grants,
           reserved : Nat, at : Nat]

(* A line: the history it claims to follow, its record, and whether only   *)
(* part of it reached the file.                                            *)
Line == [prev : Seq(Record), rec : Record, torn : BOOLEAN]

(* Times is a list that may repeat an instant; the decision's sequence     *)
(* number keeps its entries apart in a set.                                *)
grantUsage == [Requests : Nat, Bytes : Nat, Times : SUBSET [seq : Nat, at : Nat]]

(* A refused decision.  Nothing reads the time of one, so it is left out.  *)
Refusal(g) == [decision |-> "refused", grant |-> g, reserved |-> 0, at |-> 0]

NoCall == Refusal(CHOOSE g \in Grants : TRUE)

NoUsage == [Requests |-> 0, Bytes |-> 0, Times |-> {}]

-----------------------------------------------------------------------------
(* What the records of a history say.                                      *)

AuthorizedAt(recs, g) ==
    {i \in DOMAIN recs : recs[i].decision = "authorized" /\ recs[i].grant = g}

(* The bytes reserved by those records, one unit per byte so that their    *)
(* total is a cardinality.                                                 *)
ReservedUnits(recs, g) ==
    UNION {{i} \X (1 .. recs[i].reserved) : i \in AuthorizedAt(recs, g)}

ReservedBytes(recs, g) == Cardinality(ReservedUnits(recs, g))

Records(lines) == [i \in DOMAIN lines |-> lines[i].rec]

Follows(lines, i) == lines[i].prev = [j \in 1 .. i - 1 |-> lines[j].rec]

(* The loop of loadDecisionLedger: every line parses, follows the previous *)
(* hash and has the next sequence number.                                  *)
ChainIntact(lines) ==
    \A i \in DOMAIN lines : ~lines[i].torn /\ Follows(lines, i)

(* A mutant: the rate window is forgotten over a restart. *)
UsageWithoutTimes(recs) ==
    [g \in Grants |->
        [NoUsage EXCEPT !.Requests = Cardinality(AuthorizedAt(recs, g)),
                        !.Bytes = ReservedBytes(recs, g)]]

(* The counters loadDecisionLedger rebuilds from a verified chain.         *)
UsageOf(recs) ==
    [g \in Grants |->
        [Requests |-> Cardinality(AuthorizedAt(recs, g)),
         Bytes    |-> ReservedBytes(recs, g),
         Times    |-> {[seq |-> i, at |-> recs[i].at] : i \in AuthorizedAt(recs, g)}]]

(* The times authorizeDecision keeps: strictly after now - window.         *)
Kept(times, g, t) == {e \in times : e.at > t - RateWindow[g]}

-----------------------------------------------------------------------------
Init ==
    /\ file = "missing" /\ ledger = <<>> /\ anchor = <<>>
    /\ up = TRUE /\ head = <<>> /\ usage = [g \in Grants |-> NoUsage]
    /\ loadErr = FALSE
    /\ pc = [c \in Callers |-> "idle"]
    /\ call = [c \in Callers |-> NoCall]
    /\ now = 0 /\ crossed = <<>> /\ forgotten = 0

(* Caller c returns to its client; its locals are gone. *)
Leave(c) ==
    /\ pc' = [pc EXCEPT ![c] = "idle"]
    /\ call' = [call EXCEPT ![c] = NoCall]

LockFree == \A c \in Callers : pc[c] # "anchor"

(* invokeUpstream evaluated the grant (not expired) and read the clock;    *)
(* the caller now contends for decisionMu.                                 *)
Evaluate(c, g, n) ==
    /\ up /\ pc[c] = "idle"
    /\ now < Expiry[g]
    /\ pc' = [pc EXCEPT ![c] = "ready"]
    /\ call' = [call EXCEPT ![c] = [decision |-> "authorized", grant |-> g,
                                    reserved |-> n + MaxResponse[g], at |-> now]]
    /\ UNCHANGED <<disk, memory, up, now, crossed, forgotten>>

(* The outcomes of appending and fsyncing one line: done, nothing written, *)
(* written but the fsync failed, partly written.                           *)
AppendOutcomes == {"ok", "nothing", "unsynced", "torn"}

(* appendDecisionLocked up to the assignment of the new head, for the      *)
(* record r of caller c.  An untrusted ledger refuses before any write.    *)
AppendDecision(c, r, outcome) ==
    LET line == [prev |-> head, rec |-> r, torn |-> outcome = "torn"]
    IN
    \/ /\ loadErr
       /\ outcome = "nothing"
       /\ Leave(c)
       /\ UNCHANGED <<disk, head, loadErr>>
    \/ /\ ~loadErr /\ Len(ledger) < MaxLines
       /\ file' \in (IF outcome = "nothing" THEN {file, "present"} ELSE {"present"})
       /\ ledger' = IF outcome = "nothing" THEN ledger ELSE Append(ledger, line)
       /\ head' = IF outcome = "ok" THEN Append(head, r) ELSE head
       /\ IF outcome = "ok"
          THEN /\ pc' = [pc EXCEPT ![c] = "anchor"]
               /\ call' = [call EXCEPT ![c] = r]
          ELSE Leave(c)
       /\ UNCHANGED <<anchor, loadErr>>

(* Mutants: what was used is checked, not what would be. *)
RequestsUsed(r) == usage[r.grant].Requests <= MaxRequests[r.grant]
BytesUsed(r)    == usage[r.grant].Bytes <= MaxBytes[r.grant]

(* authorizeDecision: the budget checks, in the code's order.  Only a call *)
(* that passes the request and byte checks prunes the rate window.         *)
RequestsLeft(r) == usage[r.grant].Requests + 1 <= MaxRequests[r.grant]
BytesLeft(r)    == usage[r.grant].Bytes + r.reserved <= MaxBytes[r.grant]
RateLeft(r)     == Cardinality(Kept(usage[r.grant].Times, r.grant, r.at)) + 1
                       <= RateRequests[r.grant]
WithinBudget(r) == RequestsLeft(r) /\ BytesLeft(r) /\ RateLeft(r)

Prune(r) ==
    IF RequestsLeft(r) /\ BytesLeft(r)
    THEN [usage EXCEPT ![r.grant].Times = Kept(@, r.grant, r.at)]
    ELSE usage

Authorize(c, outcome) ==
    LET r == call[c] IN
    /\ up /\ pc[c] = "ready" /\ LockFree
    /\ AppendDecision(c, IF WithinBudget(r) THEN r ELSE Refusal(r.grant), outcome)
    /\ usage' = Prune(r)
    /\ UNCHANGED <<up, now, crossed, forgotten>>

(* refuseDecision: a gate before the budgets denied the call.              *)
Refuse(c, g, outcome) ==
    /\ up /\ pc[c] = "idle" /\ LockFree
    /\ AppendDecision(c, Refusal(g), outcome)
    /\ UNCHANGED <<usage, up, now, crossed, forgotten>>

Counted(c) ==
    [usage EXCEPT ![call[c].grant] =
        [Requests |-> @.Requests + 1,
         Bytes    |-> @.Bytes + call[c].reserved,
         Times    |-> @.Times \cup {[seq |-> Len(head), at |-> call[c].at]}]]

(* A mutant: the anchor is best effort, as the audit log's is. *)
AnchorBestEffort(c, outcome) ==
    /\ up /\ pc[c] = "anchor"
    /\ anchor' = IF outcome = "failed" THEN anchor ELSE head
    /\ IF call[c].decision = "authorized"
       THEN usage' = Counted(c) /\ pc' = [pc EXCEPT ![c] = "cleared"] /\ UNCHANGED call
       ELSE Leave(c) /\ UNCHANGED usage
    /\ UNCHANGED <<file, ledger, up, head, loadErr, now, crossed, forgotten>>

(* The end of appendDecisionLocked and of authorizeDecision: sign and save *)
(* the anchor; only when that succeeded does the reservation count and the *)
(* caller pass.  "lost": the store took the anchor but reported an error.  *)
SaveAnchor(c, outcome) ==
    /\ up /\ pc[c] = "anchor"
    /\ anchor' = IF outcome = "failed" THEN anchor ELSE head
    /\ IF outcome = "ok" /\ call[c].decision = "authorized"
       THEN /\ usage' = Counted(c)
            /\ pc' = [pc EXCEPT ![c] = "cleared"]
            /\ UNCHANGED call
       ELSE Leave(c) /\ UNCHANGED usage
    /\ UNCHANGED <<file, ledger, up, head, loadErr, now, crossed, forgotten>>

(* proxyCall begins the upstream call that was cleared.                    *)
Cross(c) ==
    /\ up /\ pc[c] = "cleared"
    /\ crossed' = Append(crossed, call[c])
    /\ Leave(c)
    /\ UNCHANGED <<disk, memory, up, now, forgotten>>

-----------------------------------------------------------------------------
(* The process stops at any point, with whatever the disk then holds.      *)
Crash ==
    /\ up
    /\ up' = FALSE
    /\ head' = <<>> /\ usage' = [g \in Grants |-> NoUsage] /\ loadErr' = FALSE
    /\ pc' = [c \in Callers |-> "idle"] /\ call' = [c \in Callers |-> NoCall]
    /\ UNCHANGED <<disk, now, crossed, forgotten>>

(* While the gateway is down the file is replaced by an older copy of      *)
(* itself, removed, or emptied in place.                                   *)
LoseLines(kind) ==
    /\ ~up /\ file = "present"
    /\ CASE kind = "rollback" ->
              \E n \in 1 .. Len(ledger) - 1 :
                  ledger' = SubSeq(ledger, 1, n) /\ UNCHANGED file
         [] kind = "missing" -> ledger' = <<>> /\ file' = "missing"
         [] kind = "emptied" -> ledger' = <<>> /\ UNCHANGED file
    /\ UNCHANGED <<anchor, up, memory, pc, call, now, crossed, forgotten>>

(* A mutant: an intact chain is trusted without its anchor. *)
ChainTrusted(readable, opened) == ~opened \/ file = "missing" \/ ChainIntact(ledger)

(* loadDecisionLedger: is the ledger trusted?  An open that fails for      *)
(* another reason than a missing file returns without an error, whatever   *)
(* the file and the anchor hold; an empty file is accepted before the      *)
(* anchor is looked at.                                                    *)
LedgerTrusted(readable, opened) ==
    \/ ~opened
    \/ opened /\ file = "missing" /\ readable /\ anchor = <<>>
    \/ /\ opened /\ file = "present" /\ ChainIntact(ledger)
       /\ ledger = <<>> \/ (readable /\ anchor = Records(ledger))

(* The history a start takes from the file: nothing when it could not be   *)
(* opened or its chain is malformed.  A failed anchor check comes later.   *)
Loaded(opened) ==
    IF opened /\ file = "present" /\ ChainIntact(ledger) THEN Records(ledger) ELSE <<>>

(* There is an anchored history, and the start cannot open the file or     *)
(* finds it empty.                                                         *)
Forgets(opened) == anchor # <<>> /\ (~opened \/ (file = "present" /\ ledger = <<>>))

(* A mutant: the verification stops at the end of the chain. *)
VerifyChainOnly ==
    IF ChainIntact(ledger) THEN "anchored" ELSE "broken"

(* VerifyDecisionLedger, with the file and the anchor read in one instant. *)
(* Unlike the loading, it looks at the anchor of an empty file too.        *)
VerifyDecisionLedger ==
    IF file = "missing" THEN IF anchor = <<>> THEN "intact" ELSE "broken"
    ELSE IF ChainIntact(ledger) /\ anchor # <<>> /\ anchor = Records(ledger)
         THEN "anchored" ELSE "broken"

(* The new process loads the ledger, with or without being able to read    *)
(* the anchor and to open the file.                                        *)
Restart(readable, opened) ==
    /\ ~up
    /\ up' = TRUE
    /\ loadErr' = ~LedgerTrusted(readable, opened)
    /\ head' = Loaded(opened) /\ usage' = UsageOf(Loaded(opened))
    /\ forgotten' = IF Forgets(opened) THEN forgotten + 1 ELSE forgotten
    /\ forgotten' <= MaxForgotten
    /\ UNCHANGED <<disk, pc, call, now, crossed>>

Tick ==
    /\ now < MaxTime
    /\ \A c \in Callers : pc[c] = "ready" => now - call[c].at < MaxDelay
    /\ now' = now + 1
    /\ UNCHANGED <<disk, memory, up, pc, call, crossed, forgotten>>

Next ==
    \/ \E c \in Callers, g \in Grants, n \in ArgSizes : Evaluate(c, g, n)
    \/ \E c \in Callers, o \in AppendOutcomes : Authorize(c, o)
    \/ \E c \in Callers, g \in Grants, o \in AppendOutcomes : Refuse(c, g, o)
    \/ \E c \in Callers, o \in {"ok", "failed", "lost"} : SaveAnchor(c, o)
    \/ \E c \in Callers : Cross(c)
    \/ Crash
    \/ \E k \in DiskLoss : LoseLines(k)
    \/ \E r, o \in BOOLEAN : Restart(r, o)
    \/ Tick

Spec == Init /\ [][Next]_vars

-----------------------------------------------------------------------------
(* Properties *)

CallerSteps == {"idle", "ready", "anchor", "cleared"}

(* Types of the ledger, its anchor, the counters and the callers. *)
TypeOK ==
    /\ file \in {"missing", "present"} /\ ledger \in Seq(Line)
    /\ anchor \in Seq(Record) /\ head \in Seq(Record)
    /\ up \in BOOLEAN /\ loadErr \in BOOLEAN
    /\ usage \in [Grants -> grantUsage]
    /\ pc \in [Callers -> CallerSteps] /\ call \in [Callers -> Record]
    /\ now \in Nat /\ crossed \in Seq(Record) /\ forgotten \in Nat

(* "restarting the gateway does not replenish a grant": over any number of *)
(* crashes, failed appends, failed anchor saves and restarts, no more      *)
(* upstream calls begin under a grant than its max_requests.  The starts   *)
(* that could not open the file, or found it emptied, are the exception:   *)
(* each is worth one more budget, and no more ...                          *)
RequestBudgetHeld ==
    \A g \in Grants : Cardinality(AuthorizedAt(crossed, g)) <= (1 + forgotten) * MaxRequests[g]

(* ... and so for the bytes reserved for them and its max_bytes.           *)
ByteBudgetHeld ==
    \A g \in Grants : ReservedBytes(crossed, g) <= (1 + forgotten) * MaxBytes[g]

(* A call that waited for the lock is judged by the time it evaluated its  *)
(* grant at, so a prune of Times may reach MaxDelay into its window: what  *)
(* is left of the window the grant names, ending at any begun call, holds  *)
(* no more begun calls than its rate, once per history forgotten.          *)
RateDespiteWaits ==
    \A i \in DOMAIN crossed :
        LET g == crossed[i].grant
            window == {j \in AuthorizedAt(crossed, g) :
                          /\ crossed[j].at > crossed[i].at - (RateWindow[g] - MaxDelay)
                          /\ crossed[j].at <= crossed[i].at}
        IN  Cardinality(window) <= (1 + forgotten) * RateRequests[g]

(* Every upstream call that began is accounted for in the history that the *)
(* signed anchor commits to, whatever happened to the file since; what an  *)
(* anchor that was replaced accounted for is at most a budget for each     *)
(* start that forgot it.                                                   *)
CrossingsAnchored ==
    \A g \in Grants : Cardinality(AuthorizedAt(crossed, g))
                          <= Cardinality(AuthorizedAt(anchor, g)) + forgotten * MaxRequests[g]

(* A ledger that verifies as anchored holds an authorization for every     *)
(* upstream call that began, after any rollback or loss of the file, but   *)
(* for what the histories forgotten accounted for.                         *)
VerificationSound ==
    VerifyDecisionLedger = "anchored" =>
        \A g \in Grants : Cardinality(AuthorizedAt(crossed, g))
                              <= Cardinality(AuthorizedAt(Records(ledger), g)) + forgotten * MaxRequests[g]

(* q continues p: the same records, then possibly more. *)
Continues(q, p) == Len(p) <= Len(q) /\ \A i \in DOMAIN p : q[i] = p[i]

(* The anchored history is never rewritten, only continued, unless a start *)
(* forgot it.                                                              *)
AnchorExtends == [][forgotten' = 0 => Continues(anchor', anchor)]_vars

-----------------------------------------------------------------------------
(* The inductive invariant behind the budget properties.                   *)

Cleared(g) == {c \in Callers : pc[c] = "cleared" /\ call[c].grant = g}

(* The calls begun or about to begin under grant g. *)
Begun(g) == Cardinality(AuthorizedAt(crossed, g)) + Cardinality(Cleared(g))

BegunUnits(g) ==
    UNION {{c} \X (1 .. call[c].reserved) : c \in Cleared(g)}

BegunBytes(g) == ReservedBytes(crossed, g) + Cardinality(BegunUnits(g))

(* What the forgotten histories may have accounted for. *)
Lost(g) == forgotten * MaxRequests[g]
LostBytes(g) == forgotten * MaxBytes[g]

(* A history accounts for the calls begun, and for n more of b bytes.      *)
Accounts(recs, g, n, b) ==
    /\ Begun(g) + n <= Lost(g) + Cardinality(AuthorizedAt(recs, g))
    /\ BegunBytes(g) + b <= LostBytes(g) + ReservedBytes(recs, g)

Trusted == up /\ ~loadErr

(* Only a process that trusts its ledger has callers past the lock; a      *)
(* caller about to authorize carries an authorized record.                 *)
CallersInv ==
    /\ ~up => \A c \in Callers : pc[c] = "idle"
    /\ ~Trusted => \A c \in Callers : pc[c] \in {"idle", "ready"}
    /\ \A c \in Callers : pc[c] \in {"ready", "cleared"} => call[c].decision = "authorized"
    /\ \A c, d \in Callers : pc[c] = "anchor" /\ pc[d] = "anchor" => c = d

(* Unless it forgot, the running process extends the anchored history.     *)
HeadInv == Trusted /\ forgotten = 0 => Continues(head, anchor)

(* Head, memory and anchor each account for everything begun, within       *)
(* budget; the head also for the call of whoever holds the lock, which is  *)
(* within the budget it still sees.                                        *)
BudgetInv ==
    \A g \in Grants :
        /\ Begun(g) <= Lost(g) + MaxRequests[g] /\ BegunBytes(g) <= LostBytes(g) + MaxBytes[g]
        /\ Accounts(anchor, g, 0, 0)
        /\ Trusted => /\ Accounts(head, g, 0, 0)
                      /\ Begun(g) <= Lost(g) + usage[g].Requests
                      /\ BegunBytes(g) <= LostBytes(g) + usage[g].Bytes
        /\ \A c \in Callers :
              pc[c] = "anchor" /\ call[c].decision = "authorized" /\ call[c].grant = g
                 => /\ Accounts(head, g, 1, call[c].reserved)
                    /\ RequestsLeft(call[c]) /\ BytesLeft(call[c])

(* Together, what every step under decisionMu and every failure preserves. *)
IInv == TypeOK /\ CallersInv /\ HeadInv /\ BudgetInv

(* The invariant behind the rate.  Instants are grouped in arbitrary sets: *)
(* what was authorized, cleared or counted at an instant of W.             *)
AuthorizedIn(recs, g, W) == {i \in AuthorizedAt(recs, g) : recs[i].at \in W}
ClearedIn(g, W) == {c \in Cleared(g) : call[c].at \in W}
CountedIn(g, W) == {e \in usage[g].Times : e.at \in W}

BegunIn(g, W) == Cardinality(AuthorizedIn(crossed, g, W)) + Cardinality(ClearedIn(g, W))

LostRate(g) == forgotten * RateRequests[g]

(* Pruning at time t removes nothing of W. *)
Spared(W, g, t) == \A x \in W : x > t - RateWindow[g]

(* No prune so far has touched W: those were made by now, and none since   *)
(* the caller that holds the lock to be authorized made its own.           *)
Uncut(W, g) ==
    \/ Spared(W, g, now)
    \/ \E c \in Callers : /\ pc[c] = "anchor" /\ call[c].decision = "authorized"
                         /\ Spared(W, g, call[c].at + MaxDelay)

(* Together within a window, even if each waited for the lock. *)
Close(W, g) == \A x, y \in W : x - y < RateWindow[g] - MaxDelay

(* A caller waits MaxDelay at most; whoever holds the lock is within the   *)
(* rate it still sees.                                                     *)
WaitInv ==
    /\ \A c \in Callers : pc[c] = "ready" => call[c].at <= now /\ now <= call[c].at + MaxDelay
    /\ \A c \in Callers : pc[c] = "anchor" /\ call[c].decision = "authorized" => RateLeft(call[c])

(* Times holds no entry for the decision the lock's holder is making.      *)
TimesInv ==
    \A g \in Grants :
        /\ IsFiniteSet(usage[g].Times)
        /\ Trusted => \A e \in usage[g].Times : e.seq <= Len(head)
        /\ \A c \in Callers : pc[c] = "anchor" => \A e \in usage[g].Times : e.seq < Len(head)

(* Memory, as far as it is uncut, head and anchor account for everything   *)
(* begun close together.                                                   *)
WindowInv ==
    \A g \in Grants : \A W \in SUBSET Nat : Close(W, g) =>
        /\ BegunIn(g, W) <= LostRate(g) + RateRequests[g]
        /\ BegunIn(g, W) <= LostRate(g) + Cardinality(AuthorizedIn(anchor, g, W))
        /\ Trusted => BegunIn(g, W) <= LostRate(g) + Cardinality(AuthorizedIn(head, g, W))
        /\ Trusted /\ Uncut(W, g) => BegunIn(g, W) <= LostRate(g) + Cardinality(CountedIn(g, W))
        /\ \A c \in Callers :
              /\ pc[c] = "anchor" /\ call[c].decision = "authorized"
              /\ call[c].grant = g /\ call[c].at \in W
              => BegunIn(g, W) + 1 <= LostRate(g) + Cardinality(AuthorizedIn(head, g, W))

RateInv == WaitInv /\ TimesInv /\ WindowInv
=============================================================================
