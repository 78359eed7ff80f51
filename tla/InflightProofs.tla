--------------------------- MODULE InflightProofs ---------------------------
(***************************************************************************)
(* What Inflight guarantees for every number of callers, keys, slots,      *)
(* ticks and rebinds: identical reads share one execution, an error is     *)
(* never replayed to a caller that did not share it, and a replaced        *)
(* connection's results are gone after a bounded time.                     *)
(***************************************************************************)
EXTENDS Inflight, TLAPS

LEMMA Members ==
    /\ SomeKey \in Keys /\ 0 \in Conns /\ 0 \in 0 .. MaxRuns
    /\ Idle \in Request /\ Nothing \in Answer
  BY InflightAssumption DEF SomeKey, Conns, Idle, Nothing, Request, Answer

(* The initial state satisfies the inductive invariant. *)
LEMMA InitIInv == Init => IInv
  <1> SUFFICES ASSUME Init PROVE IInv
    OBVIOUS
  <1>1. TypeOK
    BY Members, InflightAssumption
       DEF Init, TypeOK, inflightCall, Stages, Runs, Conns
  <1>2. RunningListed /\ ListedUsable /\ WaitersKeyed
    BY DEF Init, RunningListed, ListedUsable, WaitersKeyed, Listed, Runs
  <1>3. ErrorsNotReplayed
    BY DEF Init, ErrorsNotReplayed, Nothing
  <1> QED  BY <1>1, <1>2, <1>3 DEF IInv

(* What a return step does to the caller and to the ghost. *)
LEMMA ReturnStep ==
    ASSUME TypeOK, NEW c \in Callers, NEW kind \in {"ok", "error", "canceled"},
           NEW r \in 0 .. MaxRuns, NEW g \in Conns, NEW asked \in Nat,
           NEW shared \in BOOLEAN, Return(c, kind, r, g, asked, shared)
    PROVE  /\ pc' \in [Callers -> {"idle", "called", "waiting", "inline"}]
           /\ req' \in [Callers -> Request] /\ told' \in Answer
           /\ told'.kind = kind /\ told'.run = r /\ told'.shared = shared
  BY Members DEF TypeOK, Return, Answer

(* A caller that stops waiting leaves the others as they were. *)
LEMMA LeaveStep ==
    ASSUME TypeOK, WaitersKeyed, NEW c \in Callers, NEW step \in {"idle", "called", "inline"},
           pc' = [pc EXCEPT ![c] = step], runs' = runs,
           \A d \in Callers : d # c => req'[d] = req[d]
    PROVE  WaitersKeyed'
  <1> SUFFICES ASSUME NEW d \in Callers, pc'[d] = "waiting"
               PROVE  d # c /\ pc[d] = "waiting" /\ req'[d] = req[d]
    BY DEF WaitersKeyed
  <1> QED  BY DEF TypeOK

(* Each action preserves the inductive invariant. *)
LEMMA SnapshotInv ==
    ASSUME IInv, NEW c \in Callers, NEW k \in Keys, Snapshot(c, k) PROVE IInv'
  <1>1. TypeOK'
    BY Members DEF IInv, TypeOK, Snapshot, Request
  <1>2. RunningListed' /\ ListedUsable'
    BY DEF IInv, Snapshot, RunningListed, ListedUsable, Listed, Completed
  <1>3. ErrorsNotReplayed'
    BY DEF Snapshot, ErrorsNotReplayed, Nothing
  <1>4. WaitersKeyed'
    BY LeaveStep DEF IInv, TypeOK, Snapshot
  <1> QED  BY <1>1, <1>2, <1>3, <1>4 DEF IInv

LEMMA CollectInv ==
    ASSUME IInv, NEW c \in Callers, Collect(c) PROVE IInv'
  <1> DEFINE k == req[c].key  r == calls[k]
  <1>1. k \in Keys /\ r \in 0 .. MaxRuns /\ r \in Runs
    BY DEF IInv, TypeOK, Request, Collect, Listed, Runs
  <1>2. runs[r].ok /\ runs[r].conn \in Conns /\ now \in Nat
    BY <1>1 DEF IInv, TypeOK, ListedUsable, Collect, inflightCall
  <1>3. Return(c, "ok", r, runs[r].conn, now, FALSE)
    BY <1>2 DEF Collect, ResultKind
  <1>4. TypeOK' /\ told'.kind = "ok"
    BY <1>1, <1>2, <1>3, ReturnStep DEF IInv, TypeOK, Collect
  <1>5. RunningListed' /\ ListedUsable'
    BY DEF IInv, Collect, RunningListed, ListedUsable, Listed, Completed
  <1>6. WaitersKeyed'
    BY <1>3, LeaveStep DEF IInv, TypeOK, Collect, Return
  <1> QED  BY <1>4, <1>5, <1>6 DEF IInv, ErrorsNotReplayed

LEMMA JoinInv ==
    ASSUME IInv, NEW c \in Callers, Join(c) PROVE IInv'
  <1>1. TypeOK'
    BY Members DEF IInv, TypeOK, Join, Request
  <1>2. RunningListed' /\ ListedUsable'
    BY DEF IInv, Join, RunningListed, ListedUsable, Listed, Completed
  <1>3. ErrorsNotReplayed'
    BY DEF Join, ErrorsNotReplayed, Nothing
  <1>4. WaitersKeyed'
    <2> SUFFICES ASSUME NEW d \in Callers, pc'[d] = "waiting"
                 PROVE  /\ req'[d].run # 0
                        /\ runs[req'[d].run].key = req'[d].key
                        /\ runs[req'[d].run].stage # "free"
      BY DEF WaitersKeyed, Join
    <2>1. CASE d = c
      <3>1. req'[c].run = calls[req[c].key] /\ req'[c].key = req[c].key /\ req[c].key \in Keys
        BY DEF IInv, TypeOK, Join, Request
      <3> QED  BY <2>1, <3>1 DEF IInv, ListedUsable, Listed, Join
    <2>2. CASE d # c
      BY <2>2 DEF IInv, TypeOK, WaitersKeyed, Join
    <2> QED  BY <2>1, <2>2
  <1> QED  BY <1>1, <1>2, <1>3, <1>4 DEF IInv

(* Sweeping keeps every running execution and adds nothing. *)
LEMMA SweptFacts ==
    ASSUME IInv, NEW k \in Keys, MustRun(k)
    PROVE  /\ Swept(k) \in [Keys -> 0 .. MaxRuns]
           /\ \A j \in Keys : Swept(k)[j] \in {0, calls[j]}
           /\ Swept(k)[k] = 0
           /\ \A r \in Runs : runs[r].stage = "running" => runs[r].key # k
           /\ \A r \in Runs : runs[r].stage = "running" => Swept(k)[runs[r].key] = r
  <1>1. Swept(k) \in [Keys -> 0 .. MaxRuns]
    BY InflightAssumption DEF IInv, TypeOK, Swept
  <1>2. \A j \in Keys : Swept(k)[j] \in {0, calls[j]}
    BY DEF Swept
  <1>3. Swept(k)[k] = 0
    BY DEF Swept
  <1>4. ASSUME NEW r \in Runs, runs[r].stage = "running"
        PROVE  runs[r].key # k /\ Swept(k)[runs[r].key] = r
    <2>1. runs[r].key \in Keys /\ calls[runs[r].key] = r /\ r # 0
      BY <1>4 DEF IInv, TypeOK, RunningListed, inflightCall, Runs
    <2>2. ~Completed(r)
      BY <1>4 DEF Completed
    <2>3. runs[r].key # k
      BY <2>1, <2>2 DEF MustRun, Listed
    <2> QED  BY <2>1, <2>2, <2>3 DEF Swept
  <1> QED  BY <1>1, <1>2, <1>3, <1>4

LEMMA DetachInv ==
    ASSUME IInv, NEW c \in Callers, NEW r \in Runs, Detach(c, r) PROVE IInv'
  <1> DEFINE k == req[c].key
  <1>1. k \in Keys /\ req[c].conn \in Conns /\ now \in Nat /\ r \in 0 .. MaxRuns /\ r # 0
    BY DEF IInv, TypeOK, Request, Runs
  <1>2. MustRun(k)
    BY DEF Detach
  <1>3. calls' = [Swept(k) EXCEPT ![k] = r]
    BY DEF Detach
  <1>4. runs' = [runs EXCEPT ![r] = [key |-> k, stage |-> "running", ok |-> FALSE,
                                     began |-> now, at |-> 0, conn |-> req[c].conn]]
    BY DEF Detach
  <1>5. TypeOK'
    <2>1. calls' \in [Keys -> 0 .. MaxRuns]
      BY <1>1, <1>2, <1>3, SweptFacts
    <2>2. runs' \in [Runs -> inflightCall]
      BY <1>1, <1>4 DEF IInv, TypeOK, inflightCall, Stages
    <2>3. req' \in [Callers -> Request]
      BY <1>1, Members DEF IInv, TypeOK, Detach, Request
    <2>4. pc' \in [Callers -> {"idle", "called", "waiting", "inline"}] /\ told' \in Answer
      BY Members DEF IInv, TypeOK, Detach
    <2> QED  BY <2>1, <2>2, <2>3, <2>4 DEF IInv, TypeOK, Detach
  <1>6. RunningListed'
    <2> SUFFICES ASSUME NEW q \in Runs, runs'[q].stage = "running"
                 PROVE  calls'[runs'[q].key] = q
      BY DEF RunningListed
    <2>1. CASE q = r
      BY <2>1, <1>1, <1>2, <1>3, <1>4, SweptFacts DEF IInv, TypeOK
    <2>2. CASE q # r
      <3>1. runs'[q] = runs[q] /\ runs[q].key \in Keys
        BY <2>2, <1>4 DEF IInv, TypeOK, inflightCall
      <3>2. runs[q].key # k /\ Swept(k)[runs[q].key] = q
        BY <3>1, <1>1, <1>2, SweptFacts
      <3> QED  BY <3>1, <3>2, <1>1, <1>2, <1>3, SweptFacts
    <2> QED  BY <2>1, <2>2
  <1>7. ListedUsable'
    <2> SUFFICES ASSUME NEW j \in Keys, calls'[j] # 0
                 PROVE  /\ runs'[calls'[j]].key = j /\ runs'[calls'[j]].stage # "free"
                        /\ runs'[calls'[j]].stage \in {"settled", "done"} => runs'[calls'[j]].ok
      BY DEF ListedUsable, Listed, Completed
    <2>1. CASE j = k
      BY <2>1, <1>1, <1>2, <1>3, <1>4, SweptFacts DEF IInv, TypeOK
    <2>2. CASE j # k
      <3>1. calls'[j] = calls[j] /\ calls[j] # 0 /\ calls[j] \in Runs
        BY <2>2, <1>1, <1>2, <1>3, SweptFacts DEF IInv, TypeOK, Runs
      <3>2. runs[calls[j]].stage # "free"
        BY <3>1 DEF IInv, ListedUsable, Listed
      <3>3. calls[j] # r
        BY <3>1, <3>2 DEF Detach, Unused
      <3>4. runs'[calls[j]] = runs[calls[j]]
        BY <3>1, <3>3, <1>4 DEF IInv, TypeOK
      <3> QED  BY <3>1, <3>4 DEF IInv, ListedUsable, Listed, Completed
    <2> QED  BY <2>1, <2>2
  <1>8. ErrorsNotReplayed'
    BY DEF Detach, ErrorsNotReplayed, Nothing
  <1>9. WaitersKeyed'
    <2> SUFFICES ASSUME NEW d \in Callers, pc'[d] = "waiting"
                 PROVE  /\ req'[d].run # 0
                        /\ runs'[req'[d].run].key = req'[d].key
                        /\ runs'[req'[d].run].stage # "free"
      BY DEF WaitersKeyed
    <2>1. CASE d = c
      <3>1. req'[c].run = r /\ req'[c].key = k
        BY DEF IInv, TypeOK, Detach, Request
      <3> QED  BY <2>1, <3>1, <1>1, <1>4 DEF IInv, TypeOK
    <2>2. CASE d # c
      <3>1. pc[d] = "waiting" /\ req'[d] = req[d]
        BY <2>2 DEF IInv, TypeOK, Detach
      <3>2. req[d].run # 0 /\ req[d].run \in Runs /\ runs[req[d].run].stage # "free"
        BY <3>1 DEF IInv, TypeOK, Request, WaitersKeyed, Runs
      <3>3. req[d].run # r
        BY <3>2 DEF Detach, Unused
      <3>4. runs'[req[d].run] = runs[req[d].run]
        BY <3>2, <3>3, <1>4 DEF IInv, TypeOK
      <3> QED  BY <3>1, <3>4 DEF IInv, WaitersKeyed
    <2> QED  BY <2>1, <2>2
  <1> QED  BY <1>5, <1>6, <1>7, <1>8, <1>9 DEF IInv

LEMMA RunInlineInv ==
    ASSUME IInv, NEW c \in Callers, RunInline(c) PROVE IInv'
  <1> DEFINE k == req[c].key
  <1>1. k \in Keys /\ now \in Nat
    BY DEF IInv, TypeOK, Request
  <1>2. MustRun(k) /\ calls' = Swept(k) /\ runs' = runs
    BY DEF RunInline
  <1>3. TypeOK'
    <2>1. calls' \in [Keys -> 0 .. MaxRuns]
      BY <1>1, <1>2, SweptFacts
    <2> QED  BY <2>1, <1>1, Members DEF IInv, TypeOK, RunInline, Request
  <1>4. RunningListed'
    BY <1>1, <1>2, SweptFacts DEF IInv, RunningListed
  <1>5. ListedUsable'
    BY <1>1, <1>2, SweptFacts DEF IInv, ListedUsable, Listed, Completed
  <1>6. ErrorsNotReplayed'
    BY DEF RunInline, ErrorsNotReplayed, Nothing
  <1>7. WaitersKeyed'
    BY LeaveStep DEF IInv, TypeOK, RunInline
  <1> QED  BY <1>3, <1>4, <1>5, <1>6, <1>7 DEF IInv

LEMMA SettleInv ==
    ASSUME IInv, NEW r \in Runs, NEW ok \in BOOLEAN, Settle(r, ok) PROVE IInv'
  <1>1. runs[r].key \in Keys /\ now \in Nat /\ calls[runs[r].key] = r /\ r # 0
    BY DEF IInv, TypeOK, inflightCall, RunningListed, Settle, Runs
  <1>2. /\ runs'[r].key = runs[r].key /\ runs'[r].stage = "settled" /\ runs'[r].ok = ok
        /\ runs' \in [Runs -> inflightCall]
        /\ \A q \in Runs : q # r => runs'[q] = runs[q]
    BY <1>1 DEF Settle, IInv, TypeOK, inflightCall, Stages
  <1>3. calls' = IF ~ok THEN [calls EXCEPT ![runs[r].key] = 0] ELSE calls
    BY <1>1 DEF Settle
  <1>4. TypeOK'
    <2>1. calls' \in [Keys -> 0 .. MaxRuns]
      BY <1>1, <1>3, Members DEF IInv, TypeOK
    <2> QED  BY <2>1, <1>2, Members DEF IInv, TypeOK, Settle
  <1>5. RunningListed'
    <2> SUFFICES ASSUME NEW q \in Runs, runs'[q].stage = "running"
                 PROVE  calls'[runs'[q].key] = q
      BY DEF RunningListed
    <2>1. q # r /\ runs'[q] = runs[q]
      BY <1>2
    <2>2. runs[q].key \in Keys /\ calls[runs[q].key] = q
      BY <2>1 DEF IInv, TypeOK, inflightCall, RunningListed
    <2>3. runs[q].key # runs[r].key
      BY <2>1, <2>2, <1>1
    <2> QED  BY <2>1, <2>2, <2>3, <1>1, <1>3 DEF IInv, TypeOK
  <1>6. ListedUsable'
    <2> SUFFICES ASSUME NEW j \in Keys, calls'[j] # 0
                 PROVE  /\ runs'[calls'[j]].key = j /\ runs'[calls'[j]].stage # "free"
                        /\ runs'[calls'[j]].stage \in {"settled", "done"} => runs'[calls'[j]].ok
      BY DEF ListedUsable, Listed, Completed
    <2>1. calls'[j] = calls[j] /\ calls[j] \in Runs
      BY <1>1, <1>3 DEF IInv, TypeOK, Runs
    <2>2. CASE calls[j] = r
      <3>1. j = runs[r].key
        BY <2>1, <2>2, <1>1 DEF IInv, ListedUsable, Listed
      <3>2. ok
        BY <3>1, <2>1, <2>2, <1>1, <1>3 DEF IInv, TypeOK
      <3> QED  BY <3>1, <3>2, <2>1, <2>2, <1>2
    <2>3. CASE calls[j] # r
      <3>1. runs'[calls[j]] = runs[calls[j]]
        BY <2>1, <2>3, <1>2
      <3> QED  BY <3>1, <2>1 DEF IInv, ListedUsable, Listed, Completed
    <2> QED  BY <2>2, <2>3
  <1>7. ErrorsNotReplayed'
    BY DEF Settle, ErrorsNotReplayed, Nothing
  <1>8. WaitersKeyed'
    <2> SUFFICES ASSUME NEW d \in Callers, pc[d] = "waiting"
                 PROVE  /\ req[d].run # 0
                        /\ runs'[req[d].run].key = req[d].key
                        /\ runs'[req[d].run].stage # "free"
      BY DEF WaitersKeyed, Settle
    <2>1. req[d].run \in Runs
      BY DEF IInv, TypeOK, Request, WaitersKeyed, Runs
    <2> QED  BY <2>1, <1>2 DEF IInv, WaitersKeyed
  <1> QED  BY <1>4, <1>5, <1>6, <1>7, <1>8 DEF IInv

LEMMA CloseInv ==
    ASSUME IInv, NEW r \in Runs, Close(r) PROVE IInv'
  <1>1. /\ runs'[r].key = runs[r].key /\ runs'[r].stage = "done" /\ runs'[r].ok = runs[r].ok
        /\ runs' \in [Runs -> inflightCall] /\ runs[r].stage = "settled"
        /\ \A q \in Runs : q # r => runs'[q] = runs[q]
    BY DEF Close, IInv, TypeOK, inflightCall, Stages
  <1>2. TypeOK'
    BY <1>1, Members DEF IInv, TypeOK, Close
  <1>3. RunningListed'
    BY <1>1 DEF IInv, RunningListed, Close
  <1>4. ListedUsable'
    <2> SUFFICES ASSUME NEW j \in Keys, calls[j] # 0
                 PROVE  /\ runs'[calls[j]].key = j /\ runs'[calls[j]].stage # "free"
                        /\ runs'[calls[j]].stage \in {"settled", "done"} => runs'[calls[j]].ok
      BY DEF ListedUsable, Listed, Completed, Close
    <2>1. calls[j] \in Runs
      BY DEF IInv, TypeOK, Runs
    <2> QED  BY <2>1, <1>1 DEF IInv, ListedUsable, Listed, Completed
  <1>5. ErrorsNotReplayed'
    BY DEF Close, ErrorsNotReplayed, Nothing
  <1>6. WaitersKeyed'
    <2> SUFFICES ASSUME NEW d \in Callers, pc[d] = "waiting"
                 PROVE  /\ req[d].run # 0
                        /\ runs'[req[d].run].key = req[d].key
                        /\ runs'[req[d].run].stage # "free"
      BY DEF WaitersKeyed, Close
    <2>1. req[d].run \in Runs
      BY DEF IInv, TypeOK, Request, WaitersKeyed, Runs
    <2> QED  BY <2>1, <1>1 DEF IInv, WaitersKeyed
  <1> QED  BY <1>2, <1>3, <1>4, <1>5, <1>6 DEF IInv

(* The steps that return from do and touch neither the map nor the runs. *)
LEMMA ReturnInv ==
    ASSUME IInv, NEW c \in Callers, NEW kind \in {"ok", "error", "canceled"},
           NEW r \in 0 .. MaxRuns, NEW g \in Conns, NEW shared \in BOOLEAN,
           Return(c, kind, r, g, req[c].at, shared), shared \/ r = 0,
           UNCHANGED <<calls, runs, conn, retired, now>>
    PROVE  IInv'
  <1>1. req[c].at \in Nat
    BY DEF IInv, TypeOK, Request
  <1>2. TypeOK' /\ told'.run = r /\ told'.shared = shared
    BY <1>1, ReturnStep DEF IInv, TypeOK
  <1>3. RunningListed' /\ ListedUsable'
    BY DEF IInv, RunningListed, ListedUsable, Listed, Completed
  <1>4. WaitersKeyed'
    BY LeaveStep DEF IInv, TypeOK, Return
  <1> QED  BY <1>2, <1>3, <1>4 DEF IInv, ErrorsNotReplayed

LEMMA DeliverInv ==
    ASSUME IInv, NEW c \in Callers, Deliver(c) \/ Cancel(c) PROVE IInv'
  <1>1. req[c].run \in 0 .. MaxRuns /\ req[c].conn \in Conns
    BY DEF IInv, TypeOK, Request
  <1>2. CASE Cancel(c)
    BY <1>1, <1>2, ReturnInv, Members DEF Cancel
  <1>3. CASE Deliver(c)
    <2> DEFINE r == req[c].run
    <2>1. r \in Runs
      BY <1>1, <1>3 DEF IInv, WaitersKeyed, Deliver, Runs
    <2>2. runs[r].conn \in Conns /\ ResultKind(runs[r].ok) \in {"ok", "error", "canceled"}
      BY <2>1 DEF IInv, TypeOK, inflightCall, ResultKind
    <2> QED  BY <2>2, <1>1, <1>3, ReturnInv DEF Deliver
  <1> QED  BY <1>2, <1>3

LEMMA InlineReturnInv ==
    ASSUME IInv, NEW c \in Callers, NEW kind \in {"ok", "error", "canceled"},
           InlineReturn(c, kind)
    PROVE  IInv'
  <1>1. req[c].conn \in Conns /\ 0 \in 0 .. MaxRuns
    BY Members DEF IInv, TypeOK, Request
  <1> QED  BY <1>1, ReturnInv DEF InlineReturn

(* Rebinding and the clock change nothing the invariant speaks of. *)
LEMMA EnvironmentInv ==
    ASSUME IInv, Rebind \/ Tick PROVE IInv'
  <1>1. TypeOK'
    <2>1. CASE Rebind
      <3>1. conn' \in Conns /\ retired' \in [Conns -> Nat \cup {-1}]
        BY <2>1, InflightAssumption DEF IInv, TypeOK, Rebind, Conns
      <3> QED  BY <2>1, <3>1, Members DEF IInv, TypeOK, Rebind
    <2>2. CASE Tick
      BY <2>2, Members DEF IInv, TypeOK, Tick
    <2> QED  BY <2>1, <2>2
  <1>2. RunningListed' /\ ListedUsable' /\ WaitersKeyed'
    BY DEF IInv, Rebind, Tick, RunningListed, ListedUsable, WaitersKeyed, Listed, Completed
  <1>3. ErrorsNotReplayed'
    BY DEF Rebind, Tick, ErrorsNotReplayed, Nothing
  <1> QED  BY <1>1, <1>2, <1>3 DEF IInv

LEMMA StepIInv == IInv /\ [Next]_vars => IInv'
  <1> SUFFICES ASSUME IInv, [Next]_vars PROVE IInv'
    OBVIOUS
  <1>1. CASE \E c \in Callers, k \in Keys : Snapshot(c, k)
    BY <1>1, SnapshotInv
  <1>2. CASE \E c \in Callers : Do(c)
    BY <1>2, CollectInv, JoinInv, RunInlineInv, DetachInv DEF Do
  <1>3. CASE \E r \in Runs, ok \in BOOLEAN : Settle(r, ok)
    BY <1>3, SettleInv
  <1>4. CASE \E r \in Runs : Close(r)
    BY <1>4, CloseInv
  <1>5. CASE \E c \in Callers : Deliver(c) \/ Cancel(c)
    BY <1>5, DeliverInv
  <1>6. CASE \E c \in Callers, kind \in {"ok", "error", "canceled"} : InlineReturn(c, kind)
    BY <1>6, InlineReturnInv
  <1>7. CASE Rebind \/ Tick
    BY <1>7, EnvironmentInv
  <1>8. CASE UNCHANGED vars
    BY <1>8 DEF vars, IInv, TypeOK, RunningListed, ListedUsable, WaitersKeyed,
                ErrorsNotReplayed, Listed, Completed
  <1> QED  BY <1>1, <1>2, <1>3, <1>4, <1>5, <1>6, <1>7, <1>8 DEF Next

LEMMA IInvHolds == Spec => []IInv
  BY InitIInv, StepIInv, PTL DEF Spec

-----------------------------------------------------------------------------
(* Concurrent identical reads share one execution: for every number of     *)
(* callers, keys and slots, inflight.do never has two detached runs of one *)
(* key going at once.                                                      *)
THEOREM SingleFlightTheorem == Spec => []SingleFlight
  <1>1. IInv => SingleFlight
    BY DEF IInv, RunningListed, SingleFlight
  <1> QED  BY <1>1, IInvHolds, PTL

(* A failed execution's error reaches only the callers that awaited it;    *)
(* inflight.do never replays it to a later call.                           *)
THEOREM ErrorsNotReplayedTheorem == Spec => []ErrorsNotReplayed
  <1>1. IInv => ErrorsNotReplayed
    BY DEF IInv
  <1> QED  BY <1>1, IInvHolds, PTL

-----------------------------------------------------------------------------
(* How stale a connection's answers can be. *)

LEMMA AgeTypes ==
    ASSUME TypeOK
    PROVE  /\ now \in Nat /\ conn \in Nat /\ conn \in Conns
           /\ TTL \in Nat /\ TTL >= 1 /\ RunBound \in Nat /\ MaxLag \in Nat
           /\ \A g \in Conns : g \in Nat /\ retired[g] \in Int
           /\ \A c \in Callers : req[c].at \in Nat /\ req[c].conn \in Conns /\ req[c].key \in Keys
           /\ \A r \in Runs : runs[r].began \in Nat /\ runs[r].at \in Nat /\ runs[r].conn \in Conns
  <1>1. \A r \in Runs : runs[r] \in inflightCall
    BY DEF TypeOK
  <1>2. \A c \in Callers : req[c] \in Request
    BY DEF TypeOK
  <1>3. \A g \in Conns : g \in Nat /\ retired[g] \in Int
    BY InflightAssumption DEF TypeOK, Conns
  <1> QED  BY <1>1, <1>2, <1>3, InflightAssumption DEF TypeOK, inflightCall, Request

LEMMA AgeInit == Init => AgeInv
  <1> SUFFICES ASSUME Init PROVE AgeInv
    OBVIOUS
  <1>1. RetiredInPast
    BY DEF Init, RetiredInPast
  <1>2. CallersBehind
    BY DEF Init, CallersBehind, Idle
  <1>3. RunsBehind
    BY DEF Init, RunsBehind
  <1>4. StaleConnectionBounded
    BY DEF Init, StaleConnectionBounded, Nothing
  <1> QED  BY <1>1, <1>2, <1>3, <1>4 DEF AgeInv

(* Caller c moves and nothing else: only c's own age is to be shown. *)
LEMMA CallerMoves ==
    ASSUME IInv, AgeInv, NEW c \in Callers, NEW step \in {"idle", "called", "waiting", "inline"},
           pc' = [pc EXCEPT ![c] = step],
           \A d \in Callers : d # c => req'[d] = req[d],
           UNCHANGED <<runs, conn, retired, now>>,
           req'[c].at <= now,
           step = "called" => now - req'[c].at <= MaxLag /\ Behind(req'[c].conn, req'[c].at, 0),
           step = "inline" => Behind(req'[c].conn, req'[c].at, MaxLag),
           step = "waiting" => Behind(runs[req'[c].run].conn, req'[c].at, RunBound + MaxLag)
    PROVE  RetiredInPast' /\ CallersBehind' /\ RunsBehind'
  <1>1. RetiredInPast'
    BY DEF AgeInv, RetiredInPast
  <1>2. RunsBehind'
    BY DEF AgeInv, RunsBehind, Behind
  <1>3. pc'[c] = step /\ \A d \in Callers : d # c => pc'[d] = pc[d]
    BY DEF IInv, TypeOK
  <1>4. CallersBehind'
    <2> SUFFICES ASSUME NEW d \in Callers
                 PROVE  /\ req'[d].at <= now
                        /\ pc'[d] = "called" =>
                              now - req'[d].at <= MaxLag /\ Behind(req'[d].conn, req'[d].at, 0)
                        /\ pc'[d] = "inline" => Behind(req'[d].conn, req'[d].at, MaxLag)
                        /\ pc'[d] = "waiting" =>
                              Behind(runs[req'[d].run].conn, req'[d].at, RunBound + MaxLag)
      BY DEF CallersBehind, Behind
    <2>1. CASE d = c
      BY <1>3, <2>1
    <2>2. CASE d # c
      BY <1>3, <2>2 DEF AgeInv, CallersBehind
    <2> QED  BY <2>1, <2>2
  <1> QED  BY <1>1, <1>2, <1>4

LEMMA QuietBounded == told' = Nothing => StaleConnectionBounded'
  BY DEF StaleConnectionBounded, Nothing

LEMMA SnapshotAge ==
    ASSUME IInv, AgeInv, NEW c \in Callers, NEW k \in Keys, Snapshot(c, k) PROVE AgeInv'
  <1>1. req'[c].conn = conn /\ req'[c].at = now /\ \A d \in Callers : d # c => req'[d] = req[d]
    BY DEF IInv, TypeOK, Snapshot
  <1>2. Behind(conn, now, 0) /\ now - now <= MaxLag /\ now <= now
    BY AgeTypes DEF IInv, AgeInv, RetiredInPast, Behind
  <1>3. RetiredInPast' /\ CallersBehind' /\ RunsBehind'
    BY <1>1, <1>2, CallerMoves DEF Snapshot
  <1> QED  BY <1>3, QuietBounded DEF Snapshot, AgeInv

(* A caller that leaves carries nothing of an age. *)
LEMMA LeaveAge ==
    ASSUME IInv, AgeInv, NEW c \in Callers,
           pc' = [pc EXCEPT ![c] = "idle"], req' = [req EXCEPT ![c] = Idle],
           UNCHANGED <<runs, conn, retired, now>>
    PROVE  RetiredInPast' /\ CallersBehind' /\ RunsBehind'
  <1>1. req'[c].at = 0 /\ \A d \in Callers : d # c => req'[d] = req[d]
    BY DEF IInv, TypeOK, Idle
  <1>2. 0 <= now
    BY AgeTypes DEF IInv
  <1> QED  BY <1>1, <1>2, CallerMoves

(* A collected result settled less than the TTL ago. *)
LEMMA CollectAge ==
    ASSUME IInv, AgeInv, NEW c \in Callers, Collect(c) PROVE AgeInv'
  <1> DEFINE k == req[c].key  r == calls[k]  g == runs[r].conn
  <1>1. k \in Keys /\ r \in Runs /\ runs[r].stage \in {"settled", "done"}
    BY DEF IInv, TypeOK, Request, Collect, Listed, Runs, Completed
  <1>2. /\ g \in Conns /\ runs[r].at \in Nat /\ retired[g] \in Int /\ now \in Nat
        /\ TTL \in Nat /\ RunBound \in Nat /\ MaxLag \in Nat
    BY <1>1, AgeTypes DEF IInv
  <1>3. Behind(g, runs[r].at, RunBound + MaxLag) /\ now - runs[r].at < TTL
    BY <1>1 DEF AgeInv, RunsBehind, Collect, Fresh
  <1>4. told'.conn = g /\ told'.asked = now /\ retired' = retired
    BY DEF Collect, Return
  <1> HIDE DEF g, r
  <1>5. StaleConnectionBounded'
    BY <1>2, <1>3, <1>4 DEF StaleConnectionBounded, Behind
  <1>6. RetiredInPast' /\ CallersBehind' /\ RunsBehind'
    BY LeaveAge DEF Collect, Return
  <1> QED  BY <1>5, <1>6 DEF AgeInv

(* A joined execution began at most RunBound ago. *)
LEMMA JoinAge ==
    ASSUME IInv, AgeInv, NEW c \in Callers, Join(c) PROVE AgeInv'
  <1> DEFINE k == req[c].key  r == calls[k]  g == runs[r].conn
  <1>1. k \in Keys /\ r \in Runs
    BY DEF IInv, TypeOK, Request, Join, Listed, Runs
  <1>2. runs[r].stage = "running"
    BY <1>1 DEF IInv, TypeOK, ListedUsable, Join, Listed, Completed, inflightCall, Stages
  <1>3. /\ g \in Conns /\ runs[r].began \in Nat /\ retired[g] \in Int /\ now \in Nat
        /\ RunBound \in Nat /\ MaxLag \in Nat
    BY <1>1, AgeTypes DEF IInv
  <1>4. now - runs[r].began <= RunBound /\ Behind(g, runs[r].began, MaxLag)
    BY <1>1, <1>2 DEF AgeInv, RunsBehind
  <1>5. /\ req'[c].run = r /\ req'[c].at = now
        /\ \A d \in Callers : d # c => req'[d] = req[d]
    BY DEF IInv, TypeOK, Request, Join
  <1> HIDE DEF r
  <1>6. Behind(g, now, RunBound + MaxLag) /\ now <= now
    BY <1>3, <1>4 DEF Behind
  <1>7. RetiredInPast' /\ CallersBehind' /\ RunsBehind'
    BY <1>5, <1>6, CallerMoves DEF Join
  <1> QED  BY <1>7, QuietBounded DEF Join, AgeInv

(* When an execution starts its snapshot is at most MaxLag old. *)
LEMMA SnapshotLag ==
    ASSUME IInv, AgeInv, NEW c \in Callers, pc[c] = "called"
    PROVE  Behind(req[c].conn, now, MaxLag)
  <1>1. /\ req[c].at \in Nat /\ retired[req[c].conn] \in Int /\ now \in Nat /\ MaxLag \in Nat
    BY AgeTypes DEF IInv
  <1>2. now - req[c].at <= MaxLag /\ Behind(req[c].conn, req[c].at, 0)
    BY DEF AgeInv, CallersBehind
  <1> QED  BY <1>1, <1>2 DEF Behind

LEMMA RunInlineAge ==
    ASSUME IInv, AgeInv, NEW c \in Callers, RunInline(c) PROVE AgeInv'
  <1>1. /\ req'[c].conn = req[c].conn /\ req'[c].at = now
        /\ \A d \in Callers : d # c => req'[d] = req[d]
    BY DEF IInv, TypeOK, Request, RunInline
  <1>2. Behind(req[c].conn, now, MaxLag) /\ now <= now
    BY SnapshotLag, AgeTypes DEF RunInline, IInv
  <1>3. RetiredInPast' /\ CallersBehind' /\ RunsBehind'
    BY <1>1, <1>2, CallerMoves DEF RunInline
  <1> QED  BY <1>3, QuietBounded DEF RunInline, AgeInv

(* What a waiting or inline caller is told is as old as what it awaited. *)
LEMMA ReturnAge ==
    ASSUME IInv, AgeInv, NEW c \in Callers,
           \/ Deliver(c) \/ Cancel(c)
           \/ \E kind \in {"ok", "error", "canceled"} : InlineReturn(c, kind)
    PROVE  AgeInv'
  <1>1. RetiredInPast' /\ CallersBehind' /\ RunsBehind'
    BY LeaveAge DEF Deliver, Cancel, InlineReturn, Return
  <1>t. /\ TTL \in Nat /\ TTL >= 1 /\ RunBound \in Nat /\ MaxLag \in Nat /\ req[c].at \in Nat
        /\ \A g \in Conns : retired[g] \in Int
        /\ req[c].conn \in Conns
    BY AgeTypes DEF IInv
  <1>2. CASE Deliver(c)
    <2> DEFINE g == runs[req[c].run].conn
    <2>1. req[c].run \in Runs
      BY <1>2 DEF IInv, TypeOK, Request, WaitersKeyed, Deliver, Runs
    <2>2. g \in Conns /\ Behind(g, req[c].at, RunBound + MaxLag)
      BY <1>2, <2>1, AgeTypes DEF IInv, AgeInv, CallersBehind, Deliver
    <2>3. told'.conn = g /\ told'.asked = req[c].at /\ retired' = retired
      BY <1>2 DEF Deliver, Return
    <2> HIDE DEF g
    <2>4. StaleConnectionBounded'
      BY <1>t, <2>2, <2>3 DEF StaleConnectionBounded, Behind
    <2> QED  BY <1>1, <2>4 DEF AgeInv
  <1>3. CASE Cancel(c)
    <2>1. told'.kind = "canceled"
      BY <1>3 DEF Cancel, Return
    <2> QED  BY <1>1, <2>1 DEF AgeInv, StaleConnectionBounded
  <1>4. CASE \E kind \in {"ok", "error", "canceled"} : InlineReturn(c, kind)
    <2>1. Behind(req[c].conn, req[c].at, MaxLag)
      BY <1>4 DEF AgeInv, CallersBehind, InlineReturn
    <2>2. told'.conn = req[c].conn /\ told'.asked = req[c].at /\ retired' = retired
      BY <1>4 DEF InlineReturn, Return
    <2>3. StaleConnectionBounded'
      BY <1>t, <2>1, <2>2 DEF StaleConnectionBounded, Behind
    <2> QED  BY <1>1, <2>3 DEF AgeInv
  <1> QED  BY <1>2, <1>3, <1>4

(* A new execution starts from a snapshot at most MaxLag old, in a slot    *)
(* that no waiting caller refers to.                                       *)
LEMMA DetachAge ==
    ASSUME IInv, AgeInv, NEW c \in Callers, NEW r \in Runs, Detach(c, r) PROVE AgeInv'
  <1> DEFINE g == req[c].conn
  <1>t. /\ now \in Nat /\ g \in Conns /\ retired[g] \in Int /\ RunBound \in Nat /\ MaxLag \in Nat
    BY AgeTypes DEF IInv
  <1>1. Behind(g, now, MaxLag)
    BY SnapshotLag DEF Detach
  <1>2. /\ runs'[r].stage = "running" /\ runs'[r].began = now /\ runs'[r].at = 0
        /\ runs'[r].conn = g
        /\ \A q \in Runs : q # r => runs'[q] = runs[q]
    BY DEF IInv, TypeOK, Detach
  <1>3. /\ pc'[c] = "waiting" /\ req'[c].run = r /\ req'[c].at = now
        /\ \A d \in Callers : d # c => req'[d] = req[d] /\ pc'[d] = pc[d]
    BY DEF IInv, TypeOK, Request, Detach
  <1>4. UNCHANGED <<conn, retired, now>>
    BY DEF Detach
  <1>5. \A d \in Callers : pc[d] = "waiting" => req[d].run \in Runs /\ req[d].run # r
    BY DEF IInv, TypeOK, Request, WaitersKeyed, Detach, Unused, Runs
  <1> HIDE DEF g
  <1>6. RetiredInPast'
    BY <1>4 DEF AgeInv, RetiredInPast
  <1>7. RunsBehind'
    <2> SUFFICES ASSUME NEW q \in Runs
                 PROVE  /\ runs'[q].began <= now /\ runs'[q].at <= now
                        /\ runs'[q].stage = "running" =>
                              /\ now - runs'[q].began <= RunBound
                              /\ Behind(runs'[q].conn, runs'[q].began, MaxLag)
                        /\ runs'[q].stage \in {"settled", "done"} =>
                              Behind(runs'[q].conn, runs'[q].at, RunBound + MaxLag)
      BY <1>4 DEF RunsBehind, Behind
    <2>1. CASE q = r
      BY <1>t, <1>1, <1>2, <2>1
    <2>2. CASE q # r
      BY <1>2, <2>2 DEF AgeInv, RunsBehind
    <2> QED  BY <2>1, <2>2
  <1>8. CallersBehind'
    <2> SUFFICES ASSUME NEW d \in Callers
                 PROVE  /\ req'[d].at <= now
                        /\ pc'[d] = "called" =>
                              now - req'[d].at <= MaxLag /\ Behind(req'[d].conn, req'[d].at, 0)
                        /\ pc'[d] = "inline" => Behind(req'[d].conn, req'[d].at, MaxLag)
                        /\ pc'[d] = "waiting" =>
                              Behind(runs'[req'[d].run].conn, req'[d].at, RunBound + MaxLag)
      BY <1>4 DEF CallersBehind, Behind
    <2>1. CASE d = c
      <3>1. Behind(g, now, RunBound + MaxLag)
        BY <1>t, <1>1 DEF Behind
      <3> QED  BY <1>t, <1>2, <1>3, <2>1, <3>1
    <2>2. CASE d # c
      BY <1>2, <1>3, <1>5, <2>2 DEF AgeInv, CallersBehind
    <2> QED  BY <2>1, <2>2
  <1> QED  BY <1>6, <1>7, <1>8, QuietBounded DEF AgeInv, Detach

(* An execution settles within RunBound of its start, and closing it       *)
(* changes no time.                                                        *)
LEMMA SettleAge ==
    ASSUME IInv, AgeInv, NEW r \in Runs, Close(r) \/ \E ok \in BOOLEAN : Settle(r, ok) PROVE AgeInv'
  <1>t. /\ now \in Nat /\ runs[r].conn \in Conns /\ retired[runs[r].conn] \in Int
        /\ RunBound \in Nat /\ MaxLag \in Nat /\ runs[r].began \in Nat
    BY AgeTypes DEF IInv
  <1>1. UNCHANGED <<pc, req, conn, retired, now>> /\ told' = Nothing
    BY DEF Close, Settle
  <1>2. runs[r] \in inflightCall
    BY DEF IInv, TypeOK
  <1>3. /\ \A q \in Runs : q # r => runs'[q] = runs[q]
        /\ runs'[r].conn = runs[r].conn
        /\ \/ /\ runs[r].stage = "settled" /\ runs'[r].stage = "done"
              /\ runs'[r].at = runs[r].at /\ runs'[r].began = runs[r].began
           \/ /\ runs[r].stage = "running" /\ runs'[r].stage = "settled"
              /\ runs'[r].at = now /\ runs'[r].began = 0
    <2>1. CASE Close(r)
      BY <1>2, <2>1 DEF IInv, TypeOK, Close, inflightCall
    <2>2. CASE \E ok \in BOOLEAN : Settle(r, ok)
      <3>1. PICK ok \in BOOLEAN : Settle(r, ok)
        BY <2>2
      <3>2. runs' = [runs EXCEPT ![r] = [runs[r] EXCEPT !.stage = "settled", !.ok = ok,
                                                         !.at = now, !.began = 0]]
        BY <3>1 DEF IInv, TypeOK, Settle
      <3> DEFINE new == [runs[r] EXCEPT !.stage = "settled", !.ok = ok, !.at = now, !.began = 0]
      <3>3. new.stage = "settled" /\ new.at = now /\ new.began = 0 /\ new.conn = runs[r].conn
        BY <1>2 DEF inflightCall
      <3> HIDE DEF new
      <3>4. runs'[r] = new /\ \A q \in Runs : q # r => runs'[q] = runs[q]
        BY <3>2 DEF IInv, TypeOK, new
      <3> QED  BY <3>1, <3>3, <3>4 DEF Settle
    <2> QED  BY <2>1, <2>2
  <1>4. RetiredInPast'
    BY <1>1 DEF AgeInv, RetiredInPast
  <1>5. /\ runs[r].began <= now /\ runs[r].at <= now
        /\ runs[r].stage = "running" =>
              now - runs[r].began <= RunBound /\ Behind(runs[r].conn, runs[r].began, MaxLag)
        /\ runs[r].stage = "settled" => Behind(runs[r].conn, runs[r].at, RunBound + MaxLag)
    BY DEF AgeInv, RunsBehind
  <1>6. runs[r].stage = "running" => Behind(runs[r].conn, now, RunBound + MaxLag)
    BY <1>t, <1>5 DEF Behind
  <1>7. RunsBehind'
    <2> SUFFICES ASSUME NEW q \in Runs
                 PROVE  /\ runs'[q].began <= now /\ runs'[q].at <= now
                        /\ runs'[q].stage = "running" =>
                              /\ now - runs'[q].began <= RunBound
                              /\ Behind(runs'[q].conn, runs'[q].began, MaxLag)
                        /\ runs'[q].stage \in {"settled", "done"} =>
                              Behind(runs'[q].conn, runs'[q].at, RunBound + MaxLag)
      BY <1>1 DEF RunsBehind, Behind
    <2>1. CASE q = r
      BY <1>t, <1>3, <1>5, <1>6, <2>1
    <2>2. CASE q # r
      BY <1>3, <2>2 DEF AgeInv, RunsBehind
    <2> QED  BY <2>1, <2>2
  <1>8. \A d \in Callers : pc[d] = "waiting" => runs'[req[d].run].conn = runs[req[d].run].conn
    <2>1. \A d \in Callers : pc[d] = "waiting" => req[d].run \in Runs
      BY DEF IInv, TypeOK, Request, WaitersKeyed, Runs
    <2> QED  BY <1>3, <2>1
  <1>9. CallersBehind'
    <2> SUFFICES ASSUME NEW d \in Callers
                 PROVE  /\ req[d].at <= now
                        /\ pc[d] = "called" =>
                              now - req[d].at <= MaxLag /\ Behind(req[d].conn, req[d].at, 0)
                        /\ pc[d] = "inline" => Behind(req[d].conn, req[d].at, MaxLag)
                        /\ pc[d] = "waiting" =>
                              Behind(runs'[req[d].run].conn, req[d].at, RunBound + MaxLag)
      BY <1>1 DEF CallersBehind, Behind
    <2> QED  BY <1>8 DEF AgeInv, CallersBehind
  <1> QED  BY <1>1, <1>4, <1>7, <1>9, QuietBounded DEF AgeInv

(* A rebind retires the live generation now, after everything that uses it *)
(* began.                                                                  *)
LEMMA RebindAge ==
    ASSUME IInv, AgeInv, Rebind PROVE AgeInv'
  <1>t. /\ now \in Nat /\ conn \in Nat /\ conn \in Conns /\ RunBound \in Nat /\ MaxLag \in Nat
        /\ \A g \in Conns : g \in Nat /\ retired[g] \in Int
        /\ \A c \in Callers : req[c].at \in Nat /\ req[c].conn \in Conns
        /\ \A r \in Runs : runs[r].began \in Nat /\ runs[r].at \in Nat /\ runs[r].conn \in Conns
    BY AgeTypes DEF IInv
  <1>1. /\ conn' = conn + 1 /\ told' = Nothing
        /\ UNCHANGED <<runs, pc, req, now>>
        /\ retired'[conn] = now /\ \A g \in Conns : g # conn => retired'[g] = retired[g]
    BY <1>t DEF IInv, TypeOK, Rebind
  <1>2. RetiredInPast'
    <2> SUFFICES ASSUME NEW g \in Conns
                 PROVE  retired'[g] <= now /\ (g >= conn + 1 => retired'[g] = -1)
      BY <1>1 DEF RetiredInPast
    <2>1. retired[g] <= now /\ (g >= conn => retired[g] = -1)
      BY DEF AgeInv, RetiredInPast
    <2>2. CASE g = conn
      BY <1>t, <1>1, <2>2
    <2>3. CASE g # conn
      BY <1>t, <1>1, <2>1, <2>3
    <2> QED  BY <2>2, <2>3
  <1>3. ASSUME NEW g \in Conns, NEW t \in Nat, NEW lag \in Nat, t <= now, Behind(g, t, lag)
        PROVE  retired'[g] # -1 => t - retired'[g] <= lag
    BY <1>t, <1>1, <1>3 DEF Behind
  <1>4. \A c \in Callers : pc[c] = "waiting" => req[c].run \in Runs
    BY DEF IInv, TypeOK, Request, WaitersKeyed, Runs
  <1>n. 0 \in Nat /\ RunBound + MaxLag \in Nat
    BY <1>t
  <1>5. CallersBehind'
    <2> SUFFICES ASSUME NEW d \in Callers
                 PROVE  /\ req[d].at <= now
                        /\ pc[d] = "called" =>
                              /\ now - req[d].at <= MaxLag
                              /\ retired'[req[d].conn] # -1 => req[d].at - retired'[req[d].conn] <= 0
                        /\ pc[d] = "inline" =>
                              (retired'[req[d].conn] # -1 => req[d].at - retired'[req[d].conn] <= MaxLag)
                        /\ pc[d] = "waiting" =>
                              LET g == runs[req[d].run].conn IN
                              retired'[g] # -1 => req[d].at - retired'[g] <= RunBound + MaxLag
      BY <1>1 DEF CallersBehind, Behind
    <2>1. /\ req[d].at <= now
          /\ pc[d] = "called" => now - req[d].at <= MaxLag /\ Behind(req[d].conn, req[d].at, 0)
          /\ pc[d] = "inline" => Behind(req[d].conn, req[d].at, MaxLag)
          /\ pc[d] = "waiting" => Behind(runs[req[d].run].conn, req[d].at, RunBound + MaxLag)
      BY DEF AgeInv, CallersBehind
    <2> QED  BY <1>t, <1>n, <1>3, <1>4, <2>1
  <1>6. RunsBehind'
    <2> SUFFICES ASSUME NEW r \in Runs
                 PROVE  /\ runs[r].began <= now /\ runs[r].at <= now
                        /\ runs[r].stage = "running" =>
                              /\ now - runs[r].began <= RunBound
                              /\ LET g == runs[r].conn IN
                                 retired'[g] # -1 => runs[r].began - retired'[g] <= MaxLag
                        /\ runs[r].stage \in {"settled", "done"} =>
                              LET g == runs[r].conn IN
                              retired'[g] # -1 => runs[r].at - retired'[g] <= RunBound + MaxLag
      BY <1>1 DEF RunsBehind, Behind
    <2>1. /\ runs[r].began <= now /\ runs[r].at <= now
          /\ runs[r].stage = "running" =>
                now - runs[r].began <= RunBound /\ Behind(runs[r].conn, runs[r].began, MaxLag)
          /\ runs[r].stage \in {"settled", "done"} =>
                Behind(runs[r].conn, runs[r].at, RunBound + MaxLag)
      BY DEF AgeInv, RunsBehind
    <2> QED  BY <1>t, <1>n, <1>3, <2>1
  <1> QED  BY <1>1, <1>2, <1>5, <1>6, QuietBounded DEF AgeInv

(* The clock waits for the bounds. *)
LEMMA TickAge ==
    ASSUME IInv, AgeInv, Tick PROVE AgeInv'
  <1>t. /\ now \in Nat /\ RunBound \in Nat /\ MaxLag \in Nat
        /\ \A g \in Conns : retired[g] \in Int
        /\ \A c \in Callers : req[c].at \in Nat
        /\ \A r \in Runs : runs[r].began \in Nat /\ runs[r].at \in Nat
    BY AgeTypes DEF IInv
  <1>1. /\ now' = now + 1 /\ told' = Nothing /\ UNCHANGED <<calls, runs, pc, req, conn, retired>>
        /\ \A r \in Runs : runs[r].stage = "running" => now - runs[r].began < RunBound
        /\ \A c \in Callers : pc[c] = "called" => now - req[c].at < MaxLag
    BY DEF Tick
  <1>2. RetiredInPast'
    BY <1>t, <1>1 DEF AgeInv, RetiredInPast
  <1>3. CallersBehind'
    BY <1>t, <1>1 DEF AgeInv, CallersBehind, Behind
  <1>4. RunsBehind'
    BY <1>t, <1>1 DEF AgeInv, RunsBehind, Behind
  <1> QED  BY <1>1, <1>2, <1>3, <1>4, QuietBounded DEF AgeInv

LEMMA StepAge == IInv /\ AgeInv /\ [Next]_vars => AgeInv'
  <1> SUFFICES ASSUME IInv, AgeInv, [Next]_vars PROVE AgeInv'
    OBVIOUS
  <1>1. CASE \E c \in Callers, k \in Keys : Snapshot(c, k)
    BY <1>1, SnapshotAge
  <1>2. CASE \E c \in Callers : Do(c)
    BY <1>2, CollectAge, JoinAge, RunInlineAge, DetachAge DEF Do
  <1>3. CASE \E r \in Runs : Close(r) \/ \E ok \in BOOLEAN : Settle(r, ok)
    BY <1>3, SettleAge
  <1>4. CASE \E c \in Callers : \/ Deliver(c) \/ Cancel(c)
                                \/ \E kind \in {"ok", "error", "canceled"} : InlineReturn(c, kind)
    BY <1>4, ReturnAge
  <1>5. CASE Rebind
    BY <1>5, RebindAge
  <1>6. CASE Tick
    BY <1>6, TickAge
  <1>7. CASE UNCHANGED vars
    BY <1>7 DEF vars, AgeInv, RetiredInPast, CallersBehind, RunsBehind, StaleConnectionBounded, Behind
  <1> QED  BY <1>1, <1>2, <1>3, <1>4, <1>5, <1>6, <1>7 DEF Next

(* Rebinding an upstream does not clear the cache of its reads, but for    *)
(* every TTL, run bound and lag no caller receives the result of a         *)
(* replaced connection once those three have passed since it was replaced. *)
THEOREM StaleConnectionBoundedTheorem == Spec => []StaleConnectionBounded
  <1>1. Spec => []AgeInv
    BY AgeInit, StepAge, IInvHolds, PTL DEF Spec
  <1>2. AgeInv => StaleConnectionBounded
    BY DEF AgeInv
  <1> QED  BY <1>1, <1>2, PTL
=============================================================================
