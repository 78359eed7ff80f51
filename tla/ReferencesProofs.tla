-------------------------- MODULE ReferencesProofs --------------------------
(* For any callers, handles, sizes, TTL and cap, and through failing writes, *)
(* sweeps, crashes and clocks that move either way: a reduce shows a caller  *)
(* nothing but what derives from the caller's own data.                      *)
(*                                                                           *)
(* OwnDataOnly is not inductive: what a reduce reads depends on what was     *)
(* parked, by whom, and on the handle still standing for the same output     *)
(* when it is read back.  IInv says so of every file and of every reduce.    *)
EXTENDS References, FiniteSetTheorems, TLAPS

(* A sweep drops files and changes none (sweepLocked). *)
LEMMA SweptDrops ==
    ASSUME NEW fs, NEW after \in Swept(fs)
    PROVE  after = [h \in Handles |-> after[h]] /\ \A h \in Handles : after[h] \in {NoFile, fs[h]}
  <1> DEFINE live == {h \in Handles : Dated(fs[h]) /\ ~Expired(fs[h])}
             keep == {k \in SUBSET live :
                   /\ Cardinality(k) = IF Cardinality(live) > MaxEntries THEN MaxEntries
                                       ELSE Cardinality(live)
                   /\ \A a \in k, b \in live \ k : fs[b].created <= fs[a].created}
             rest(k) == [h \in Handles |-> IF Dated(fs[h]) /\ h \notin k THEN NoFile ELSE fs[h]]
  <1>1. Swept(fs) = {rest(k) : k \in keep}
    BY DEF Swept
  <1> HIDE DEF keep
  <1>2. PICK k \in keep : after = rest(k)
    BY <1>1
  <1> QED
    BY <1>2

(* What a write that did not end leaves holds nothing. *)
LEMMA RemainsTyped ==
    ASSUME TypeOK
    PROVE  \A f \in Remains : f \in Files /\ f.state # "whole"
  <1>1. clock \in 1..MaxClock /\ 0 \in 0..MaxClock /\ clock \in 0..MaxClock
    BY ReferencesAssumption DEF TypeOK
  <1>2. Stub(0) \in [state : {"stub"}, created : 0..MaxClock] /\ Stub(0).state = "stub"
    BY <1>1 DEF Stub
  <1>3. Stub(clock) \in [state : {"stub"}, created : 0..MaxClock] /\ Stub(clock).state = "stub"
    BY <1>1 DEF Stub
  <1>4. Short \in [state : {"short"}, created : 1..MaxClock] /\ Short.state = "short"
    BY <1>1 DEF Short
  <1>5. NoFile.state = "none" /\ EmptyFile.state = "empty"
    BY DEF NoFile, EmptyFile
  <1> QED
    BY <1>2, <1>3, <1>4, <1>5 DEF Remains, Files

(* Put leaves each file alone or drops it, but for the one it writes, whole  *)
(* or in part, under a handle no reduce is about to read back.               *)
LEMMA PutWrites ==
    ASSUME TypeOK, NEW h \in Handles, NEW owner, NEW payload, NEW written \in BOOLEAN,
           Put(h, owner, payload, written)
    PROVE  /\ Drawn(h)
           /\ files' = [g \in Handles |-> files'[g]]
           /\ \A g \in Handles :
                \/ files'[g] \in {NoFile, files[g]}
                \/ g = h /\ files'[g] \in {File(owner, payload)} \cup Remains
           /\ faults' \in 0..MaxFaults
  <1>1. PICK f \in IF written THEN {File(owner, payload)} ELSE Remains :
          files' \in Swept([files EXCEPT ![h] = f])
    BY DEF Put
  <1> DEFINE fs == [files EXCEPT ![h] = f]
  <1>2. \A g \in Handles : fs[g] = files[g] \/ (g = h /\ fs[g] = f)
    BY DEF TypeOK
  <1>3. faults' \in 0..MaxFaults
    BY ReferencesAssumption DEF Put, TypeOK
  <1>4. Drawn(h) /\ f \in {File(owner, payload)} \cup Remains
    BY <1>1 DEF Put
  <1>5. files' \in Swept(fs)
    BY <1>1
  <1> HIDE DEF fs
  <1>6. /\ files' = [g \in Handles |-> files'[g]]
        /\ \A g \in Handles : files'[g] \in {NoFile, fs[g]}
    BY <1>5, SweptDrops
  <1> QED
    BY <1>2, <1>3, <1>4, <1>6

(* The state a start finds: no files, no requests. *)
LEMMA InitIInv == Init => IInv
  BY ReferencesAssumption
     DEF Init, IInv, TypeOK, Files, Jobs, NoFile, Idle, ParkedForItsOwner, JobsHoldOwnData, OutputsOwned

(* Files a step leaves alone or drops keep what IInv says of them. *)
LEMMA FilesDropped ==
    ASSUME IInv, files' = [g \in Handles |-> files'[g]],
           \A g \in Handles : files'[g] \in {NoFile, files[g]}
    PROVE  files' \in [Handles -> Files] /\ ParkedForItsOwner'
           /\ \A g \in Handles : files'[g].state = "whole" => files'[g] = files[g]
  <1>1. \A g \in Handles : files'[g] \in Files
    BY DEF IInv, TypeOK, Files
  <1>2. \A g \in Handles : files'[g].state = "whole" => files'[g] = files[g]
    BY DEF NoFile
  <1> QED
    BY <1>1, <1>2 DEF IInv, ParkedForItsOwner

(* Put for the caller, of data the caller may see, keeps the files in order. *)
LEMMA PutKeeps ==
    ASSUME IInv, NEW c \in Callers, NEW h \in Handles, NEW payload \in SUBSET {c},
           NEW written \in BOOLEAN, Put(h, c, payload, written)
    PROVE  /\ files' \in [Handles -> Files] /\ faults' \in 0..MaxFaults /\ ParkedForItsOwner'
           /\ \A g \in Handles : files'[g].state = "whole" =>
                files'[g] = files[g] \/ (g = h /\ files'[g].owner = c)
           /\ Drawn(h)
  <1>1. TypeOK
    BY DEF IInv
  <1>2. /\ Drawn(h)
        /\ files' = [g \in Handles |-> files'[g]]
        /\ \A g \in Handles :
             \/ files'[g] \in {NoFile, files[g]}
             \/ g = h /\ files'[g] \in {File(c, payload)} \cup Remains
        /\ faults' \in 0..MaxFaults
    BY <1>1, PutWrites
  <1>3. File(c, payload) \in Files /\ \A f \in Remains : f \in Files /\ f.state # "whole"
    BY <1>1, RemainsTyped DEF File, Files, TypeOK
  <1>4. \A g \in Handles : files'[g] \in Files
    BY <1>1, <1>2, <1>3 DEF TypeOK, Files
  <1>5. \A g \in Handles : files'[g].state = "whole" =>
            files'[g] = files[g] \/ (g = h /\ files'[g] = File(c, payload))
    BY <1>2, <1>3 DEF NoFile
  <1>6. ParkedForItsOwner'
    BY <1>5 DEF IInv, ParkedForItsOwner, File
  <1> QED
    BY <1>2, <1>4, <1>5, <1>6 DEF File

(* A request in progress is a record with all its fields. *)
LEMMA JobFields ==
    ASSUME TypeOK, NEW c \in Callers, job[c].pc # "idle"
    PROVE  job[c] \in [pc : {"resolve", "running", "finalize", "answered"}, left : SUBSET Handles,
                       of : SUBSET Callers, by : {"query", "code", "program"}, size : Sizes \cup {0},
                       out : {"none", "unknown reference", "rejected", "failed", "inline", "ref"},
                       ref : SUBSET Handles]
  <1>1. job[c] \in Jobs
    BY DEF TypeOK
  <1>2. job[c] # Idle
    BY DEF Idle
  <1> QED
    BY <1>1, <1>2 DEF Jobs

(* A step that changes only c's request keeps the others, if the files they  *)
(* name are dropped or stay.                                                 *)
LEMMA OthersKeep ==
    ASSUME IInv, NEW c \in Callers, NEW j \in Jobs, job' = [job EXCEPT ![c] = j],
           j.pc # "idle" => j.of \subseteq {c},
           j.pc \in {"resolve", "running"} => j.ref = {},
           j.pc = "finalize" =>
             \A h \in j.ref : files'[h].state = "whole" => files'[h].owner = c,
           \A d \in Callers : d # c /\ job[d].pc = "finalize" =>
             \A h \in job[d].ref : files'[h].state = "whole" => files'[h].owner = d
    PROVE  job' \in [Callers -> Jobs] /\ JobsHoldOwnData' /\ OutputsOwned'
  <1>1. /\ job' \in [Callers -> Jobs] /\ job'[c] = j
        /\ \A d \in Callers : d # c => job'[d] = job[d]
    BY DEF IInv, TypeOK
  <1>2. JobsHoldOwnData'
    BY <1>1 DEF IInv, JobsHoldOwnData
  <1>3. OutputsOwned'
    BY <1>1 DEF IInv, OutputsOwned
  <1> QED
    BY <1>1, <1>2, <1>3

(* The same when every file stays or is dropped. *)
LEMMA RequestMoves ==
    ASSUME IInv, NEW c \in Callers, NEW j \in Jobs, job' = [job EXCEPT ![c] = j],
           j.pc # "idle" => j.of \subseteq {c}, j.pc \notin {"idle", "answered"} => j.ref = {},
           files' = [g \in Handles |-> files'[g]],
           \A g \in Handles : files'[g] \in {NoFile, files[g]},
           clock' \in 1..MaxClock, faults' \in 0..MaxFaults
    PROVE  IInv'
  <1>1. files' \in [Handles -> Files] /\ ParkedForItsOwner'
        /\ \A g \in Handles : files'[g].state = "whole" => files'[g] = files[g]
    BY FilesDropped
  <1>2. \A d \in Callers : job[d].pc = "finalize" => job[d].ref \in SUBSET Handles
    BY JobFields DEF IInv
  <1>3. \A d \in Callers : d # c /\ job[d].pc = "finalize" =>
             \A h \in job[d].ref : files'[h].state = "whole" => files'[h].owner = d
    BY <1>1, <1>2 DEF IInv, OutputsOwned
  <1>4. job' \in [Callers -> Jobs] /\ JobsHoldOwnData' /\ OutputsOwned'
    BY <1>3, OthersKeep
  <1> QED
    BY <1>1, <1>4 DEF IInv, TypeOK

(* What a caller resolves is its own. *)
LEMMA StepResolve ==
    ASSUME IInv, NEW c \in Callers, NEW h \in Handles, Resolve(c, h)
    PROVE  IInv'
  <1> DEFINE j == IF MayRead(c, h)
                  THEN [job[c] EXCEPT !.left = job[c].left \ {h},
                                      !.of = job[c].of \cup files[h].payload]
                  ELSE [job[c] EXCEPT !.pc = "answered", !.out = "unknown reference"]
  <1>1. files' = [g \in Handles |-> files'[g]] /\ \A g \in Handles : files'[g] \in {NoFile, files[g]}
    BY DEF Resolve, Read, IInv, TypeOK
  <1>2. MayRead(c, h) => files[h].payload \subseteq {c}
    BY DEF MayRead, Readable, IInv, ParkedForItsOwner
  <1>3. job[c].pc = "resolve" /\ job[c].of \subseteq {c} /\ job[c].ref = {}
    BY DEF Resolve, IInv, JobsHoldOwnData, OutputsOwned
  <1>4. j \in Jobs /\ j.of \subseteq {c} /\ j.ref = {}
    BY <1>2, <1>3, JobFields DEF IInv, Jobs
  <1>5. job' = [job EXCEPT ![c] = j]
    <2>1. CASE MayRead(c, h)
      BY <2>1, <1>3, JobFields DEF Resolve, IInv, TypeOK
    <2>2. CASE ~MayRead(c, h)
      BY <2>2, <1>3, JobFields DEF Resolve, IInv, TypeOK
    <2> QED
      BY <2>1, <2>2
  <1> HIDE DEF j
  <1>6. clock' \in 1..MaxClock /\ faults' \in 0..MaxFaults
    BY DEF Resolve, IInv, TypeOK
  <1> QED
    BY <1>1, <1>4, <1>5, <1>6, RequestMoves

(* The steps of a request that leave the store alone: its beginning, its     *)
(* start, its failure, an output that stays inline, and its return.          *)
LEMMA StepQuiet ==
    ASSUME IInv, NEW c \in Callers, UNCHANGED storeVars, NEW j \in Jobs,
           job' = [job EXCEPT ![c] = j], j.pc # "idle" => j.of \subseteq {c},
           j.pc \notin {"idle", "answered"} => j.ref = {}
    PROVE  IInv'
  <1>1. files' = [g \in Handles |-> files'[g]] /\ \A g \in Handles : files'[g] \in {NoFile, files[g]}
    BY DEF storeVars, IInv, TypeOK
  <1>2. clock' \in 1..MaxClock /\ faults' \in 0..MaxFaults
    BY DEF storeVars, IInv, TypeOK
  <1> QED
    BY <1>1, <1>2, RequestMoves

(* A reduce begins with inline data, which is its caller's, or with none. *)
LEMMA StepReduce ==
    ASSUME IInv, NEW c \in Callers, NEW refs \in SUBSET Handles,
           NEW by \in {"query", "code", "program"}, NEW own \in BOOLEAN, Reduce(c, refs, by, own)
    PROVE  IInv'
  <1> DEFINE j == [pc |-> "resolve", left |-> refs, of |-> IF own THEN {c} ELSE {}, by |-> by,
                   size |-> 0, out |-> "none", ref |-> {}]
  <1>1. j \in Jobs /\ j.of \subseteq {c} /\ j.ref = {}
    BY DEF Jobs
  <1>2. job' = [job EXCEPT ![c] = j] /\ UNCHANGED storeVars
    BY DEF Reduce
  <1> HIDE DEF j
  <1> QED
    BY <1>1, <1>2, StepQuiet

LEMMA StepStart ==
    ASSUME IInv, NEW c \in Callers, NEW ok \in BOOLEAN, Start(c, ok)
    PROVE  IInv'
  <1> DEFINE j == IF ok THEN [job[c] EXCEPT !.pc = "running"]
                  ELSE [job[c] EXCEPT !.pc = "answered", !.out = "rejected"]
  <1>1. job[c].pc = "resolve" /\ job[c].of \subseteq {c} /\ job[c].ref = {}
    BY DEF Start, IInv, JobsHoldOwnData, OutputsOwned
  <1>2. j \in Jobs /\ j.of \subseteq {c} /\ j.ref = {}
    BY <1>1, JobFields DEF IInv, Jobs
  <1>3. job' = [job EXCEPT ![c] = j] /\ UNCHANGED storeVars
    BY Zenon DEF Start
  <1> HIDE DEF j
  <1> QED
    BY <1>2, <1>3, StepQuiet

LEMMA StepRun ==
    ASSUME IInv, NEW c \in Callers, RunFails(c) \/ RunInlines(c)
    PROVE  IInv'
  <1>1. job[c].pc = "running" /\ job[c].of \subseteq {c} /\ job[c].ref = {}
    BY DEF RunFails, RunInlines, IInv, JobsHoldOwnData, OutputsOwned
  <1>2. CASE RunFails(c)
    <2> DEFINE j == [job[c] EXCEPT !.pc = "answered", !.out = "failed"]
    <2>1. j \in Jobs /\ j.of \subseteq {c} /\ j.ref = {}
      BY <1>1, JobFields DEF IInv, Jobs
    <2>2. job' = [job EXCEPT ![c] = j] /\ UNCHANGED storeVars
      BY <1>2, <1>1, JobFields DEF RunFails, IInv, TypeOK
    <2> HIDE DEF j
    <2> QED
      BY <2>1, <2>2, StepQuiet
  <1>3. CASE RunInlines(c)
    <2> DEFINE j == [job[c] EXCEPT !.pc = "finalize"]
    <2>1. j \in Jobs /\ j.of \subseteq {c} /\ j.ref = {}
      BY <1>1, JobFields DEF IInv, Jobs
    <2>2. job' = [job EXCEPT ![c] = j] /\ UNCHANGED storeVars
      BY <1>3, <1>1, JobFields DEF RunInlines, IInv, TypeOK
    <2> HIDE DEF j
    <2> QED
      BY <2>1, <2>2, StepQuiet
  <1> QED
    BY <1>2, <1>3

LEMMA StepReturns ==
    ASSUME IInv, NEW c \in Callers, ReduceReturns(c)
    PROVE  IInv'
  <1>1. Idle \in Jobs /\ Idle.pc = "idle"
    BY DEF Jobs, Idle
  <1>2. job' = [job EXCEPT ![c] = Idle] /\ UNCHANGED storeVars
    BY DEF ReduceReturns
  <1> QED
    BY <1>1, <1>2, StepQuiet

(* A result parked for its caller leaves every request alone. *)
LEMMA StepPark ==
    ASSUME IInv, NEW c \in Callers, NEW h \in Handles, NEW written \in BOOLEAN,
           ParkResult(c, h, written)
    PROVE  IInv'
  <1>1. Put(h, c, {c}, written) /\ job' = job /\ clock' = clock
    BY DEF ParkResult
  <1>2. /\ files' \in [Handles -> Files] /\ faults' \in 0..MaxFaults /\ ParkedForItsOwner'
        /\ \A g \in Handles : files'[g].state = "whole" =>
              files'[g] = files[g] \/ (g = h /\ files'[g].owner = c)
        /\ Drawn(h)
    BY <1>1, PutKeeps
  <1>3. \A d \in Callers : job[d].pc = "finalize" => job[d].ref \in SUBSET Handles
    BY JobFields DEF IInv
  <1>4. OutputsOwned'
    BY <1>1, <1>2, <1>3 DEF IInv, OutputsOwned, Drawn
  <1> QED
    BY <1>1, <1>2, <1>4 DEF IInv, TypeOK, JobsHoldOwnData

(* An output is parked for its caller, under a handle no other request is    *)
(* about to read back.                                                       *)
LEMMA StepParks ==
    ASSUME IInv, NEW c \in Callers, NEW h \in Handles, NEW size \in Sizes,
           NEW written \in BOOLEAN, RunParks(c, size, h, written)
    PROVE  IInv'
  <1> DEFINE j == [job[c] EXCEPT !.pc = "finalize", !.size = size, !.ref = {h}]
  <1>1. job[c].pc = "running" /\ job[c].of \subseteq {c}
    BY DEF RunParks, IInv, JobsHoldOwnData
  <1>2. Put(h, c, job[c].of, written) /\ clock' = clock
    BY DEF RunParks
  <1>3. /\ files' \in [Handles -> Files] /\ faults' \in 0..MaxFaults /\ ParkedForItsOwner'
        /\ \A g \in Handles : files'[g].state = "whole" =>
              files'[g] = files[g] \/ (g = h /\ files'[g].owner = c)
        /\ Drawn(h)
    BY <1>1, <1>2, PutKeeps
  <1>4. job' = [job EXCEPT ![c] = j]
    BY <1>1, JobFields DEF RunParks, IInv, TypeOK
  <1>5. j \in Jobs /\ j.of \subseteq {c} /\ j.ref = {h} /\ j.pc = "finalize"
    BY <1>1, JobFields DEF IInv, Jobs
  <1> HIDE DEF j
  <1>6. files[h] = NoFile
    BY <1>2 DEF Put, Mintable
  <1>7. files'[h].state = "whole" => files'[h].owner = c
    BY <1>3, <1>6 DEF NoFile
  <1>8. \A d \in Callers : job[d].pc = "finalize" => job[d].ref \in SUBSET Handles
    BY JobFields DEF IInv
  <1>9. \A d \in Callers : d # c /\ job[d].pc = "finalize" =>
             \A g \in job[d].ref : files'[g].state = "whole" => files'[g].owner = d
    BY <1>3, <1>8 DEF IInv, OutputsOwned, Drawn
  <1>10. job' \in [Callers -> Jobs] /\ JobsHoldOwnData' /\ OutputsOwned'
    BY <1>4, <1>5, <1>7, <1>9, OthersKeep
  <1> QED
    BY <1>2, <1>3, <1>10 DEF IInv, TypeOK

(* What is read back is the caller's: the file is its own output, and what   *)
(* is parked derives from its owner.                                         *)
LEMMA StepFinalize ==
    ASSUME IInv, NEW c \in Callers, NEW ok \in BOOLEAN, FinalizeReduce(c, ok)
    PROVE  IInv'
  <1> DEFINE j == [job[c] EXCEPT !.pc = "answered",
                                 !.of = IF ok /\ Inlines(job[c]) THEN ReadBack(job[c]) ELSE @,
                                 !.out = IF ~ok THEN "failed"
                                         ELSE IF Inlines(job[c]) THEN "inline" ELSE "ref"]
  <1>1. job[c].pc = "finalize" /\ job[c].of \subseteq {c} /\ job[c].ref \subseteq Handles
    BY JobFields DEF FinalizeReduce, IInv, JobsHoldOwnData
  <1>2. Inlines(job[c]) => ReadBack(job[c]) \subseteq {c}
    <2>1. ASSUME Inlines(job[c]), job[c].ref # {}, NEW h \in job[c].ref
          PROVE  files[h].payload \subseteq {c}
      BY <1>1, <2>1 DEF Inlines, Readable, IInv, OutputsOwned, ParkedForItsOwner
    <2> QED
      BY <1>1, <2>1 DEF ReadBack
  <1>3. j \in Jobs /\ j.of \subseteq {c} /\ j.pc = "answered"
    BY <1>1, <1>2, JobFields DEF IInv, Jobs
  <1>4. job' = [job EXCEPT ![c] = j]
    BY <1>1, JobFields DEF FinalizeReduce, IInv, TypeOK
  <1> HIDE DEF j
  <1>5. files' = [g \in Handles |-> files'[g]] /\ \A g \in Handles : files'[g] \in {NoFile, files[g]}
    BY <1>1 DEF FinalizeReduce, Read, IInv, TypeOK
  <1>6. clock' \in 1..MaxClock /\ faults' \in 0..MaxFaults
    BY DEF FinalizeReduce, IInv, TypeOK
  <1> QED
    BY <1>3, <1>4, <1>5, <1>6, RequestMoves

(* The clock moves; a crash ends every request and may leave a broken file. *)
LEMMA StepEnvironment ==
    ASSUME IInv, Environment
    PROVE  IInv'
  <1>1. ASSUME NEW d \in ClockJumps, ClockMoves(d)
        PROVE  IInv'
    BY <1>1 DEF ClockMoves, IInv, TypeOK, ParkedForItsOwner, JobsHoldOwnData, OutputsOwned
  <1>2. ASSUME NEW h \in Handles, NEW rest \in Remains, Crash(h, rest)
        PROVE  IInv'
    <2>1. rest \in Files /\ rest.state # "whole"
      BY <1>2, RemainsTyped DEF IInv
    <2>2. files' \in [Handles -> Files] /\ ParkedForItsOwner'
      BY <1>2, <2>1 DEF Crash, IInv, TypeOK, ParkedForItsOwner
    <2>3. job' = [c \in Callers |-> Idle] /\ clock' = clock /\ faults' \in 0..MaxFaults
      BY <1>2, ReferencesAssumption DEF Crash, IInv, TypeOK
    <2>4. job' \in [Callers -> Jobs] /\ JobsHoldOwnData' /\ OutputsOwned'
      BY <2>3 DEF Jobs, Idle, JobsHoldOwnData, OutputsOwned
    <2> QED
      BY <2>2, <2>3, <2>4 DEF IInv, TypeOK
  <1> QED
    BY <1>1, <1>2 DEF Environment

(* Every step keeps the invariant. *)
LEMMA NextIInv == IInv /\ [Next]_vars => IInv'
  <1> SUFFICES ASSUME IInv, [Next]_vars PROVE IInv'
    OBVIOUS
  <1>1. ASSUME NEW c \in Callers, ReduceNext(c)
        PROVE  IInv'
    BY <1>1, StepReduce, StepResolve, StepStart, StepFinalize, StepRun, StepReturns, StepPark, StepParks
       DEF ReduceNext
  <1>2. CASE Environment
    BY <1>2, StepEnvironment
  <1>3. CASE UNCHANGED <<files, clock, job, faults>>
    BY <1>3 DEF IInv, TypeOK, ParkedForItsOwner, JobsHoldOwnData, OutputsOwned
  <1>4. CASE UNCHANGED vars
    BY <1>3, <1>4 DEF vars
  <1> QED
    BY <1>1, <1>2, <1>3, <1>4 DEF Next

(* The invariant holds of every reachable state: files are whole, cut short  *)
(* or empty, whole ones hold their owner's data, and a request holds and     *)
(* reads back its caller's.                                                  *)
THEOREM InvariantTheorem == Spec => []IInv
  BY InitIInv, NextIInv, PTL DEF Spec

(* A reduce never shows a caller data of another (tools.go: a reference is   *)
(* usable by its owner only; finalizeReduce reads back without asking).      *)
THEOREM OwnDataOnlyTheorem == Spec => []OwnDataOnly
  <1>1. IInv => OwnDataOnly
    BY DEF IInv, JobsHoldOwnData, OwnDataOnly
  <1> QED
    BY <1>1, InvariantTheorem, PTL

-----------------------------------------------------------------------------
(* What a handle stands for. *)

(* A step of a request leaves each whole file alone, or drops it: Put writes *)
(* under a handle that has none.                                             *)
LEMMA RequestKeepsFiles ==
    ASSUME TypeOK, NEW c \in Callers, ReduceNext(c), NEW g \in Handles,
           files[g].state = "whole", files'[g].state # "none"
    PROVE  files'[g] = files[g]
  <1>1. ASSUME NEW h \in Handles, NEW owner, NEW payload, NEW written \in BOOLEAN,
               Put(h, owner, payload, written)
        PROVE  files'[g] = files[g]
    <2>1. files[h] = NoFile
      BY <1>1 DEF Put, Mintable
    <2>2. g # h
      BY <2>1 DEF NoFile
    <2>3. files'[g] \in {NoFile, files[g]}
      BY <1>1, <2>2, PutWrites
    <2> QED
      BY <2>3 DEF NoFile
  <1>2. ASSUME NEW h, files' = Read(h)
        PROVE  files'[g] = files[g]
    BY <1>2 DEF Read, TypeOK, NoFile
  <1>3. ASSUME NEW refs, NEW by, NEW own, Reduce(c, refs, by, own)
        PROVE  files'[g] = files[g]
    BY <1>3 DEF Reduce, storeVars
  <1>4. ASSUME NEW h \in Handles, Resolve(c, h)
        PROVE  files'[g] = files[g]
    BY <1>2, <1>4 DEF Resolve
  <1>5. ASSUME NEW ok, Start(c, ok)
        PROVE  files'[g] = files[g]
    BY <1>5 DEF Start, storeVars
  <1>6. ASSUME NEW ok, FinalizeReduce(c, ok)
        PROVE  files'[g] = files[g]
    <2>1. files' = files \/ files' = Read(CHOOSE h \in job[c].ref : TRUE)
      BY <1>6 DEF FinalizeReduce
    <2> QED
      BY <2>1, <1>2
  <1>7. ASSUME RunFails(c) \/ RunInlines(c) \/ ReduceReturns(c)
        PROVE  files'[g] = files[g]
    BY <1>7 DEF RunFails, RunInlines, ReduceReturns, storeVars
  <1>8. ASSUME NEW h \in Handles, NEW written \in BOOLEAN, ParkResult(c, h, written)
        PROVE  files'[g] = files[g]
    BY <1>1, <1>8 DEF ParkResult
  <1>9. ASSUME NEW h \in Handles, NEW written \in BOOLEAN, NEW size, RunParks(c, size, h, written)
        PROVE  files'[g] = files[g]
    BY <1>1, <1>9 DEF RunParks
  <1> QED
    BY <1>3, <1>4, <1>5, <1>6, <1>7, <1>8, <1>9 DEF ReduceNext

(* While a handle is there it stands for the payload it was minted for: no   *)
(* write, sweep, read or crash replaces a whole file (mintLocked looks for   *)
(* the name on disk).                                                        *)
THEOREM HandleStableTheorem == Spec => HandleStable
  <1> DEFINE Stays(h) == files[h].state = "whole" /\ files'[h].state # "none" => files'[h] = files[h]
  <1>1. ASSUME TypeOK, [Next]_vars, NEW g \in Handles
        PROVE  Stays(g)
    <2>1. ASSUME NEW c \in Callers, ReduceNext(c)
          PROVE  Stays(g)
      BY <1>1, <2>1, RequestKeepsFiles
    <2>2. ASSUME NEW d \in ClockJumps, ClockMoves(d)
          PROVE  Stays(g)
      BY <2>2 DEF ClockMoves
    <2>3. ASSUME NEW h \in Handles, NEW rest \in Remains, Crash(h, rest)
          PROVE  Stays(g)
      BY <1>1, <2>3 DEF Crash, Mintable, NoFile, TypeOK
    <2>4. CASE files' = files
      BY <2>4
    <2> QED
      BY <1>1, <2>1, <2>2, <2>3, <2>4 DEF Next, Environment, vars
  <1>2. TypeOK /\ [Next]_vars => [\A h \in Handles : Stays(h)]_vars
    BY <1>1
  <1>3. IInv => TypeOK
    BY DEF IInv
  <1>4. Spec => [][\A h \in Handles : Stays(h)]_vars
    BY <1>2, <1>3, InvariantTheorem, PTL DEF Spec
  <1> QED
    BY <1>4 DEF HandleStable

-----------------------------------------------------------------------------
(* The broker of a program. *)

(* An open broker is a record with all its fields. *)
LEMMA OpenBrokerFields ==
    ASSUME BrokerTyped, broker.open
    PROVE  broker \in Brokers
  BY DEF BrokerTyped, Closed

(* An unseen id has not crossed. *)
LEMMA UnseenNotCrossed ==
    ASSUME BrokerInv, broker.open, NEW id \in Ids, Unseen(id)
    PROVE  crossings[id] = 0
  BY DEF BrokerInv, CallsCounted, Crossed, Unseen, BrokerTyped

(* A first answer under an id is kept for it; with it goes at most one call  *)
(* upstream, counted, and the bytes of the result, counted.                  *)
LEMMA KeepStep ==
    ASSUME BrokerInv, broker.open, NEW id \in Ids, NEW body \in Bodies, NEW b \in Brokers,
           NEW ans \in [code : Codes, size : Nat], Keep(id, body, b, ans), Unseen(id),
           b.seen = broker.seen,
           ans.code \in {"budget_exhausted", "canceled"} => b.status # "completed",
           broker.status # "completed" => b.status # "completed",
           delivered' = b.bytes, b.bytes <= ProgramBytes,
           \/ crossings' = crossings /\ b.calls = broker.calls
           \/ /\ crossings' = [crossings EXCEPT ![id] = @ + 1]
              /\ b.calls = broker.calls + 1 /\ b.calls <= ProgramCalls
    PROVE  BrokerInv'
  <1> DEFINE entry == Seen(body, ans)
  <1>1. entry \in Entries
    BY DEF Seen, Entries
  <1>2. broker' = [b EXCEPT !.seen = [broker.seen EXCEPT ![id] = entry]]
    BY DEF Keep, Brokers
  <1>3. broker.seen \in [Ids -> {NotSeen} \cup Entries]
    BY OpenBrokerFields DEF BrokerInv, Brokers
  <1>4. [broker.seen EXCEPT ![id] = entry] \in [Ids -> {NotSeen} \cup Entries]
    BY <1>1, <1>3
  <1>5. /\ broker' \in Brokers /\ broker'.open
        /\ broker'.seen = [broker.seen EXCEPT ![id] = entry]
        /\ broker'.calls = b.calls /\ broker'.bytes = b.bytes /\ broker'.status = b.status
    BY <1>2, <1>4 DEF Brokers
  <1>6. broker'.seen[id] = entry /\ \A i \in Ids : i # id => broker'.seen[i] = broker.seen[i]
    BY <1>3, <1>5
  <1>7. entry.used /\ entry.body = body /\ entry.answer = ans
    BY DEF Seen
  <1> HIDE DEF entry
  <1>8. crossings[id] = 0 /\ crossings \in [Ids -> Nat]
    BY UnseenNotCrossed DEF BrokerInv, BrokerTyped
  <1>9. BrokerTyped'
    <2>1. crossings' \in [Ids -> Nat]
      BY <1>8
    <2>2. refused' \in BOOLEAN
      BY DEF Keep
    <2>3. delivered' \in Nat
      BY DEF Brokers
    <2> QED
      BY <1>5, <2>1, <2>2, <2>3 DEF BrokerTyped
  <1>10. ClosedEmpty'
    BY <1>5 DEF ClosedEmpty
  <1>11. CallsCounted'
    <2>1. /\ IsFiniteSet(Crossed) /\ Cardinality(Crossed) = broker.calls
          /\ broker.calls <= ProgramCalls
          /\ \A i \in Ids : crossings[i] <= 1
          /\ \A i \in Crossed : broker.seen[i].used
      BY DEF BrokerInv, CallsCounted
    <2>2. CASE crossings' = crossings /\ b.calls = broker.calls
      <3>1. Crossed' = Crossed
        BY <2>2 DEF Crossed
      <3>2. \A i \in Crossed : broker'.seen[i].used
        BY <1>6, <1>7, <2>1 DEF Crossed
      <3> QED
        BY <1>5, <2>1, <2>2, <3>1, <3>2 DEF CallsCounted
    <2>3. CASE /\ crossings' = [crossings EXCEPT ![id] = @ + 1]
               /\ b.calls = broker.calls + 1 /\ b.calls <= ProgramCalls
      <3>1. crossings'[id] = 1 /\ \A i \in Ids : i # id => crossings'[i] = crossings[i]
        BY <1>8, <2>3
      <3>2. Crossed' = Crossed \cup {id} /\ id \notin Crossed
        BY <1>8, <3>1 DEF Crossed
      <3>3. IsFiniteSet(Crossed') /\ Cardinality(Crossed') = broker.calls + 1
        BY <2>1, <3>2, FS_AddElement
      <3>4. \A i \in Crossed' : broker'.seen[i].used
        BY <1>6, <1>7, <2>1, <3>2 DEF Crossed
      <3>5. \A i \in Ids : crossings'[i] <= 1
        BY <2>1, <3>1
      <3> QED
        BY <1>5, <2>3, <3>3, <3>4, <3>5 DEF CallsCounted
    <2> QED
      BY <2>2, <2>3
  <1>12. AnswersKept'
    <2>1. answers' = answers \cup {<<id, body, ans>>}
      BY DEF Keep
    <2>2. ASSUME NEW a \in answers
          PROVE  \E i \in Ids : /\ broker'.seen[i].used
                                /\ a = <<i, broker'.seen[i].body, broker'.seen[i].answer>>
      <3>1. PICK i \in Ids : /\ broker.seen[i].used
                             /\ a = <<i, broker.seen[i].body, broker.seen[i].answer>>
        BY DEF BrokerInv, AnswersKept
      <3>2. i # id
        BY <3>1 DEF Unseen
      <3> QED
        BY <1>6, <3>1, <3>2
    <2>3. /\ broker'.seen[id].used
          /\ <<id, body, ans>> = <<id, broker'.seen[id].body, broker'.seen[id].answer>>
      BY <1>6, <1>7
    <2> QED
      BY <2>1, <2>2, <2>3 DEF AnswersKept
  <1>13. BytesCounted'
    <2>1. refused' => broker'.status # "completed"
      BY <1>5 DEF Keep, BrokerInv, BytesCounted
    <2> QED
      BY <1>5, <2>1 DEF BytesCounted
  <1> QED
    BY <1>9, <1>10, <1>11, <1>12, <1>13 DEF BrokerInv

(* A step that keeps the ids seen and the counts, and the answers to them. *)
LEMMA CountedStep ==
    ASSUME BrokerInv, broker.open, NEW b \in Brokers, broker' = b, b.seen = broker.seen,
           b.calls = broker.calls, b.bytes = broker.bytes, UNCHANGED <<crossings, delivered>>,
           refused' \in BOOLEAN, refused' => b.status # "completed",
           \A a \in answers' : a \in answers \/ \E id \in Ids :
               /\ broker.seen[id].used
               /\ a = <<id, broker.seen[id].body, broker.seen[id].answer>>
    PROVE  BrokerInv'
  <1>1. broker'.open /\ b.open
    BY DEF Brokers
  <1>2. BrokerTyped'
    BY DEF BrokerInv, BrokerTyped
  <1>3. ClosedEmpty'
    BY <1>1 DEF ClosedEmpty
  <1>4. CallsCounted'
    BY <1>1 DEF BrokerInv, CallsCounted, Crossed
  <1>5. AnswersKept'
    BY <1>1 DEF BrokerInv, AnswersKept
  <1>6. BytesCounted'
    BY <1>1 DEF BrokerInv, BytesCounted
  <1> QED
    BY <1>2, <1>3, <1>4, <1>5, <1>6 DEF BrokerInv

(* A counter of the broker set to another number. *)
LEMMA CounterFields ==
    ASSUME NEW b \in Brokers, NEW n \in Nat
    PROVE  /\ [b EXCEPT !.requests = n] \in Brokers /\ [b EXCEPT !.ops = n] \in Brokers
           /\ [b EXCEPT !.bytes = n] \in Brokers /\ [b EXCEPT !.calls = n] \in Brokers
           /\ [b EXCEPT !.searches = n] \in Brokers
  BY DEF Brokers

(* Counting the request, or the operation, changes no other field. *)
LEMMA AdmittedFields ==
    ASSUME BrokerInv, broker.open, NEW s \in Statuses
    PROVE  /\ broker \in Brokers /\ broker.bytes = delivered /\ broker.bytes <= ProgramBytes
           /\ \A b \in {Admitted(broker), Operation} :
                /\ b \in Brokers /\ [b EXCEPT !.status = s] \in Brokers
                /\ b.seen = broker.seen /\ b.calls = broker.calls /\ b.bytes = broker.bytes
                /\ b.status = broker.status /\ b.searches = broker.searches
  <1>1. broker \in Brokers
    BY OpenBrokerFields DEF BrokerInv
  <1>2. broker.bytes = delivered /\ broker.bytes <= ProgramBytes
    BY DEF BrokerInv, BytesCounted
  <1>3. /\ Admitted(broker) \in Brokers /\ Admitted(broker).seen = broker.seen
        /\ Admitted(broker).calls = broker.calls /\ Admitted(broker).bytes = broker.bytes
        /\ Admitted(broker).status = broker.status /\ Admitted(broker).searches = broker.searches
    <2>1. Admitted(broker) = [broker EXCEPT !.requests = broker.requests + 1]
      BY DEF Admitted
    <2>2. broker.requests + 1 \in Nat
      BY <1>1 DEF Brokers
    <2>3. Admitted(broker) \in Brokers
      BY <1>1, <2>1, <2>2, CounterFields
    <2> QED
      BY <1>1, <2>1, <2>3 DEF Brokers
  <1>4. /\ Operation \in Brokers /\ Operation.seen = broker.seen
        /\ Operation.calls = broker.calls /\ Operation.bytes = broker.bytes
        /\ Operation.status = broker.status /\ Operation.searches = broker.searches
    <2> DEFINE a == Admitted(broker)
    <2>1. Operation = [a EXCEPT !.ops = a.ops + 1]
      BY DEF Operation
    <2>2. a \in Brokers
      BY <1>3
    <2> HIDE DEF a
    <2>3. a.ops + 1 \in Nat
      BY <2>2 DEF Brokers
    <2>4. Operation \in Brokers
      BY <2>1, <2>2, <2>3, CounterFields
    <2>5. /\ Operation.seen = a.seen /\ Operation.calls = a.calls /\ Operation.bytes = a.bytes
          /\ Operation.status = a.status /\ Operation.searches = a.searches
      BY <2>1, <2>2 DEF Brokers
    <2> QED
      BY <1>3, <2>4, <2>5 DEF a
  <1>5. \A b \in Brokers : [b EXCEPT !.status = s] \in Brokers
    BY DEF Brokers
  <1> QED
    BY <1>1, <1>2, <1>3, <1>4, <1>5

(* A refusal: an answer of no bytes, for a run marked so. *)
LEMMA RefuseStep ==
    ASSUME BrokerInv, broker.open, NEW id \in Ids, NEW body \in Bodies, Unseen(id),
           NEW b \in {Admitted(broker), Operation}, NEW s \in {"budget_exhausted", "canceled"},
           Keep(id, body, [b EXCEPT !.status = s], Answer(s, 0)),
           UNCHANGED <<crossings, delivered>>
    PROVE  BrokerInv'
  <1> DEFINE m == [b EXCEPT !.status = s]
  <1>1. s \in Statuses /\ s # "completed"
    BY DEF Statuses
  <1>2. Answer(s, 0) \in [code : Codes, size : Nat]
    BY DEF Answer, Codes
  <1>3. m \in Brokers /\ b \in Brokers
    BY <1>1, AdmittedFields
  <1>4. m.seen = b.seen /\ m.calls = b.calls /\ m.bytes = b.bytes /\ m.status = s
    BY <1>3 DEF Brokers
  <1>5. m.seen = broker.seen /\ m.calls = broker.calls /\ m.bytes = delivered /\ m.bytes <= ProgramBytes
    BY <1>1, <1>4, AdmittedFields
  <1> HIDE DEF m
  <1>6. Keep(id, body, m, Answer(s, 0))
    BY DEF m
  <1> QED
    BY <1>1, <1>2, <1>3, <1>4, <1>5, <1>6, KeepStep

(* deliver, or an error of no bytes, after at most one call upstream. *)
LEMMA DeliverStep ==
    ASSUME BrokerInv, broker.open, NEW id \in Ids, NEW body \in Bodies, Unseen(id),
           NEW b \in Brokers, b.seen = broker.seen, b.bytes = broker.bytes, b.status = broker.status,
           NEW size \in Nat, NEW code \in {"tool_error", "discovery_error", "invalid_request"},
           \/ Deliver(id, body, b, size)
           \/ Keep(id, body, b, Answer(code, 0)) /\ UNCHANGED delivered,
           \/ crossings' = crossings /\ b.calls = broker.calls
           \/ /\ crossings' = [crossings EXCEPT ![id] = @ + 1]
              /\ b.calls = broker.calls + 1 /\ b.calls <= ProgramCalls
    PROVE  BrokerInv'
  <1>1. broker.bytes = delivered /\ broker.bytes <= ProgramBytes /\ delivered \in Nat
    BY DEF BrokerInv, BytesCounted, BrokerTyped
  <1>2. ProgramBytes \in Nat
    BY ProgramBrokerAssumption
  <1>3. CASE Keep(id, body, b, Answer(code, 0)) /\ UNCHANGED delivered
    <2>1. Answer(code, 0) \in [code : Codes, size : Nat]
          /\ Answer(code, 0).code \notin {"budget_exhausted", "canceled"}
      BY DEF Answer, Codes
    <2> QED
      BY <1>1, <1>3, <2>1, KeepStep
  <1>4. CASE Deliver(id, body, b, size) /\ size > ProgramBytes - b.bytes
    <2> DEFINE m == [b EXCEPT !.status = "budget_exhausted"]
    <2>1. /\ m \in Brokers /\ m.seen = broker.seen /\ m.bytes = delivered /\ m.calls = b.calls
          /\ m.status = "budget_exhausted"
      BY <1>1 DEF Brokers, Statuses
    <2>2. Exhausted \in [code : Codes, size : Nat]
      BY DEF Exhausted, Answer, Codes
    <2>3. Keep(id, body, m, Exhausted) /\ delivered' = delivered
      BY <1>4 DEF Deliver
    <2> HIDE DEF m
    <2> QED
      BY <1>1, <2>1, <2>2, <2>3, KeepStep
  <1>5. CASE Deliver(id, body, b, size) /\ ~(size > ProgramBytes - b.bytes)
    <2> DEFINE m == [b EXCEPT !.bytes = @ + size]
    <2>1. /\ m \in Brokers /\ m.seen = broker.seen /\ m.bytes = delivered + size
          /\ m.calls = b.calls /\ m.status = b.status
      <3>1. m = [b EXCEPT !.bytes = b.bytes + size]
        OBVIOUS
      <3>2. b.bytes + size \in Nat
        BY DEF Brokers
      <3>3. m \in Brokers
        BY <3>1, <3>2, CounterFields
      <3> QED
        BY <1>1, <3>1, <3>3 DEF Brokers
    <2>2. Answer("ok", size) \in [code : Codes, size : Nat] /\ Answer("ok", size).code = "ok"
      BY DEF Answer, Codes
    <2>3. Keep(id, body, m, Answer("ok", size)) /\ delivered' = delivered + size
      BY <1>5 DEF Deliver
    <2>4. delivered + size <= ProgramBytes
      BY <1>1, <1>2, <1>5
    <2> HIDE DEF m
    <2> QED
      BY <2>1, <2>2, <2>3, <2>4, KeepStep
  <1> QED
    BY <1>3, <1>4, <1>5

(* The steps of the broker's handler. *)
LEMMA BrokerStep ==
    ASSUME BrokerInv, BrokerNext
    PROVE  BrokerInv'
  <1>1. CASE RequestsExhausted
    <2>1. broker.open /\ broker \in Brokers
      BY <1>1, OpenBrokerFields DEF RequestsExhausted, BrokerInv
    <2> DEFINE b == [broker EXCEPT !.status = "budget_exhausted", !.logged = TRUE]
    <2>2. /\ b \in Brokers /\ b.seen = broker.seen /\ b.calls = broker.calls /\ b.bytes = broker.bytes
          /\ b.status = "budget_exhausted"
      BY <2>1 DEF Brokers, Statuses
    <2>3. broker' = b /\ UNCHANGED <<crossings, delivered, answers>> /\ refused' = TRUE
      BY <1>1 DEF RequestsExhausted
    <2> HIDE DEF b
    <2> QED
      BY <2>1, <2>2, <2>3, CountedStep
  <1>2. CASE InvalidRequest
    <2>1. broker.open /\ "completed" \in Statuses
      BY <1>2 DEF InvalidRequest, Serving, Statuses
    <2>2. broker' = Admitted(broker) /\ UNCHANGED <<crossings, delivered, answers, refused>>
      BY <1>2 DEF InvalidRequest
    <2>3. refused' \in BOOLEAN /\ (refused' => broker.status # "completed")
      BY <2>1, <2>2 DEF BrokerInv, BytesCounted, BrokerTyped
    <2> QED
      BY <2>1, <2>2, <2>3, AdmittedFields, CountedStep
  <1>3. ASSUME NEW id \in Ids, NEW body \in Bodies, Replay(id, body)
        PROVE  BrokerInv'
    <2>1. broker.open /\ "completed" \in Statuses
      BY <1>3 DEF Replay, Serving, Statuses
    <2>2. broker' = Admitted(broker) /\ UNCHANGED <<crossings, delivered, refused>>
      BY <1>3 DEF Replay
    <2>3. refused' \in BOOLEAN /\ (refused' => broker.status # "completed")
      BY <2>1, <2>2 DEF BrokerInv, BytesCounted, BrokerTyped
    <2>4. \A a \in answers' : a \in answers \/ \E i \in Ids :
               /\ broker.seen[i].used
               /\ a = <<i, broker.seen[i].body, broker.seen[i].answer>>
      BY <1>3 DEF Replay, Unseen
    <2> QED
      BY <2>1, <2>2, <2>3, <2>4, AdmittedFields, CountedStep
  <1>4. ASSUME NEW id \in Ids, NEW body \in Bodies, NEW ctx \in {"deadline", "canceled"},
               TooLate(id, body, ctx)
        PROVE  BrokerInv'
    <2> DEFINE s == IF ctx = "deadline" THEN "budget_exhausted" ELSE "canceled"
    <2>1. broker.open /\ Unseen(id) /\ UNCHANGED <<crossings, delivered>>
      BY <1>4 DEF TooLate, Serving
    <2>2. Keep(id, body, [Admitted(broker) EXCEPT !.status = s], Answer(s, 0))
      BY <1>4 DEF TooLate
    <2>3. s \in {"budget_exhausted", "canceled"}
      OBVIOUS
    <2> HIDE DEF s
    <2> QED
      BY <2>1, <2>2, <2>3, RefuseStep
  <1>5. ASSUME NEW id \in Ids, NEW body \in Bodies, OpsExhausted(id, body)
        PROVE  BrokerInv'
    BY <1>5, RefuseStep DEF OpsExhausted, Live, Serving, Exhausted
  <1>6. ASSUME NEW id \in Ids, NEW body \in Bodies, UnknownOperation(id, body)
        PROVE  BrokerInv'
    <2>1. broker.open /\ Unseen(id) /\ "completed" \in Statuses
      BY <1>6 DEF UnknownOperation, Live, Serving, Statuses
    <2>2. Keep(id, body, Operation, Answer("invalid_request", 0)) /\ UNCHANGED <<crossings, delivered>>
      BY <1>6 DEF UnknownOperation
    <2> QED
      BY <2>1, <2>2, AdmittedFields, DeliverStep
  <1>7. ASSUME NEW id \in Ids, NEW body \in Bodies, NEW n \in ResultSizes, FindTools(id, body, n)
        PROVE  BrokerInv'
    <2>1. broker.open /\ Unseen(id) /\ "completed" \in Statuses /\ UNCHANGED crossings /\ n \in Nat
      BY <1>7, ProgramBrokerAssumption DEF FindTools, Live, Serving, Statuses
    <2>2. CASE broker.searches >= ProgramSearches
      BY <1>7, <2>1, <2>2, RefuseStep DEF FindTools, Exhausted
    <2>3. CASE ~(broker.searches >= ProgramSearches)
      <3> DEFINE o == Operation
                 b == [o EXCEPT !.searches = o.searches + 1]
      <3>1. /\ o \in Brokers /\ o.seen = broker.seen /\ o.calls = broker.calls
            /\ o.bytes = broker.bytes /\ o.status = broker.status
        BY <2>1, AdmittedFields
      <3>2. \/ Deliver(id, body, b, n)
            \/ Keep(id, body, b, Answer("discovery_error", 0)) /\ UNCHANGED delivered
        BY <1>7, <2>3 DEF FindTools
      <3> HIDE DEF o
      <3>3. o.searches + 1 \in Nat
        BY <3>1 DEF Brokers
      <3>4. b \in Brokers
        BY <3>1, <3>3, CounterFields
      <3>5. /\ b.seen = broker.seen /\ b.calls = broker.calls /\ b.bytes = broker.bytes
            /\ b.status = broker.status
        BY <3>1 DEF Brokers
      <3> HIDE DEF b
      <3> QED
        BY <2>1, <3>2, <3>4, <3>5, DeliverStep
    <2> QED
      BY <2>2, <2>3
  <1>8. ASSUME NEW id \in Ids, NEW body \in Bodies, NEW n \in ResultSizes, BrokeredCall(id, body, n)
        PROVE  BrokerInv'
    <2>1. broker.open /\ Unseen(id) /\ "completed" \in Statuses /\ n \in Nat
      BY <1>8, ProgramBrokerAssumption DEF BrokeredCall, Live, Serving, Statuses
    <2>2. CASE ~CallsLeft(broker)
      BY <1>8, <2>1, <2>2, RefuseStep DEF BrokeredCall, Exhausted
    <2>3. CASE CallsLeft(broker)
      <3> DEFINE o == Operation
                 b == [o EXCEPT !.calls = o.calls + 1]
      <3>1. /\ o \in Brokers /\ o.seen = broker.seen /\ o.calls = broker.calls
            /\ o.bytes = broker.bytes /\ o.status = broker.status
        BY <2>1, AdmittedFields
      <3>2. /\ crossings' = [crossings EXCEPT ![id] = @ + 1]
            /\ \/ Deliver(id, body, b, n)
               \/ Keep(id, body, b, Answer("tool_error", 0)) /\ UNCHANGED delivered
        BY <1>8, <2>3 DEF BrokeredCall
      <3> HIDE DEF o
      <3>3. o.calls \in Nat /\ o.calls + 1 \in Nat
        BY <3>1 DEF Brokers
      <3>4. b \in Brokers
        BY <3>1, <3>3, CounterFields
      <3>5. /\ b.seen = broker.seen /\ b.calls = broker.calls + 1 /\ b.bytes = broker.bytes
            /\ b.status = broker.status
        BY <3>1 DEF Brokers
      <3>6. b.calls <= ProgramCalls
        BY <2>3, <3>1, <3>3, <3>5, ProgramBrokerAssumption DEF CallsLeft
      <3> HIDE DEF b
      <3> QED
        BY <2>1, <3>2, <3>4, <3>5, <3>6, DeliverStep
    <2> QED
      BY <2>2, <2>3
  <1>9. ASSUME NEW ctx \in {"deadline", "canceled"}, ProgramEnds(ctx)
        PROVE  BrokerInv'
    <2> DEFINE b == [broker EXCEPT !.ctx = ctx]
    <2>1. broker.open /\ broker \in Brokers
      BY <1>9, OpenBrokerFields DEF ProgramEnds, BrokerInv
    <2>2. /\ b \in Brokers /\ b.seen = broker.seen /\ b.calls = broker.calls /\ b.bytes = broker.bytes
          /\ b.status = broker.status
      BY <2>1 DEF Brokers
    <2>3. broker' = b /\ UNCHANGED <<crossings, delivered, answers, refused>>
      BY <1>9 DEF ProgramEnds
    <2> HIDE DEF b
    <2>4. refused' \in BOOLEAN /\ (refused' => broker.status # "completed")
      BY <2>1, <2>3 DEF BrokerInv, BytesCounted, BrokerTyped
    <2> QED
      BY <2>1, <2>2, <2>3, <2>4, CountedStep
  <1> QED
    BY <1>1, <1>2, <1>3, <1>4, <1>5, <1>6, <1>7, <1>8, <1>9 DEF BrokerNext

(* Without a program the account is empty, and a program starts on it. *)
LEMMA BrokerEmpty ==
    ASSUME broker = Closed /\ crossings = [i \in Ids |-> 0]
           /\ delivered = 0 /\ answers = {} /\ refused = FALSE
    PROVE  BrokerInv
  BY DEF BrokerInv, BrokerTyped, ClosedEmpty, CallsCounted, AnswersKept, BytesCounted, Closed

LEMMA CloseStep ==
    ASSUME CloseBroker
    PROVE  BrokerInv'
  BY DEF CloseBroker, BrokerInv, BrokerTyped, ClosedEmpty, CallsCounted, AnswersKept, BytesCounted, Closed

LEMMA OpenStep ==
    ASSUME BrokerInv, ~broker.open, OpenBroker
    PROVE  BrokerInv'
  <1>1. broker' = Fresh /\ UNCHANGED <<crossings, delivered, answers, refused>>
    BY DEF OpenBroker
  <1>2. Fresh \in Brokers /\ Fresh.open /\ Fresh.calls = 0 /\ Fresh.bytes = 0
    BY DEF Fresh, Brokers, Statuses
  <1>3. /\ \A id \in Ids : crossings[id] = 0
        /\ delivered = 0 /\ answers = {} /\ ~refused
    BY DEF BrokerInv, ClosedEmpty
  <1>4. Crossed' = {}
    BY <1>1, <1>3 DEF Crossed
  <1>5. BrokerTyped'
    BY <1>1, <1>2 DEF BrokerInv, BrokerTyped
  <1>6. CallsCounted'
    BY <1>1, <1>2, <1>3, <1>4, FS_EmptySet, ProgramBrokerAssumption DEF CallsCounted
  <1>7. ClosedEmpty' /\ AnswersKept' /\ BytesCounted'
    BY <1>1, <1>2, <1>3, ProgramBrokerAssumption DEF ClosedEmpty, AnswersKept, BytesCounted
  <1> QED
    BY <1>5, <1>6, <1>7 DEF BrokerInv

LEMMA BrokerStays ==
    ASSUME BrokerInv, UNCHANGED brokerVars
    PROVE  BrokerInv'
  BY DEF brokerVars, BrokerInv, BrokerTyped, ClosedEmpty, CallsCounted, Crossed, AnswersKept, BytesCounted

(* Every step of the store and of the requests opens, closes or leaves the   *)
(* broker.                                                                   *)
LEMMA NextBrokerInv == BrokerInv /\ [Next]_vars => BrokerInv'
  <1> SUFFICES ASSUME BrokerInv, [Next]_vars PROVE BrokerInv'
    OBVIOUS
  <1>1. ASSUME NEW c \in Callers, ReduceNext(c)
        PROVE  BrokerInv'
    <2>1. UNCHANGED brokerVars \/ CloseBroker \/ (~broker.open /\ OpenBroker)
      BY <1>1 DEF ReduceNext, Reduce, Resolve, Start, FinalizeReduce, RunFails, RunInlines,
                  ReduceReturns, ParkResult, RunParks, EndRun
    <2> QED
      BY <2>1, BrokerStays, CloseStep, OpenStep
  <1>2. CASE Environment
    <2>1. UNCHANGED brokerVars \/ CloseBroker
      BY <1>2 DEF Environment, ClockMoves, Crash
    <2> QED
      BY <2>1, BrokerStays, CloseStep
  <1>3. CASE BrokerNext
    BY <1>3, BrokerStep
  <1>4. CASE UNCHANGED vars
    BY <1>4, BrokerStays DEF vars, brokerVars
  <1> QED
    BY <1>1, <1>2, <1>3, <1>4 DEF Next

(* The broker's account of a run agrees with what the run did. *)
THEOREM BrokerTheorem == Spec => []BrokerInv
  <1>1. Init => BrokerInv
    BY BrokerEmpty DEF Init, BrokerInit
  <1> QED
    BY <1>1, NextBrokerInv, PTL DEF Spec

(* However often the sandbox repeats its requests, in whatever order and     *)
(* under whatever ids, an id is worth one upstream call and one answer, and  *)
(* the calls stay within max_calls (programBroker's seen map and counters).  *)
THEOREM RequestOnceTheorem == Spec => []RequestOnce
  <1>1. ASSUME BrokerInv
        PROVE  RequestOnce
    <2>1. CASE broker.open
      <3>1. \A a, b \in answers : a[1] = b[1] => a = b
        BY <1>1, <2>1 DEF BrokerInv, AnswersKept
      <3> QED
        BY <1>1, <2>1, <3>1 DEF BrokerInv, CallsCounted, Crossed, RequestOnce
    <2>2. CASE ~broker.open
      <3>1. /\ \A id \in Ids : crossings[id] = 0
            /\ answers = {}
        BY <1>1, <2>2 DEF BrokerInv, ClosedEmpty
      <3>2. {id \in Ids : crossings[id] > 0} = {}
        BY <3>1
      <3> QED
        BY <3>1, <3>2, FS_EmptySet, ProgramBrokerAssumption DEF RequestOnce
    <2> QED
      BY <2>1, <2>2
  <1> QED
    BY <1>1, BrokerTheorem, PTL

(* Together the results sent into the sandbox fit in max_bytes, and a run    *)
(* that refused a request for budget or cancellation is never recorded as    *)
(* completed (deliver, and the status Stats reports).                        *)
THEOREM ProgramBudgetTheorem == Spec => []ProgramBudgetHeld
  <1>1. ASSUME BrokerInv
        PROVE  ProgramBudgetHeld
    <2>1. CASE broker.open
      BY <1>1, <2>1, OpenBrokerFields
         DEF BrokerInv, BytesCounted, ProgramBudgetHeld, ProgramStatus
    <2>2. CASE ~broker.open
      BY <1>1, <2>2, ProgramBrokerAssumption DEF BrokerInv, ClosedEmpty, ProgramBudgetHeld
    <2> QED
      BY <2>1, <2>2
  <1> QED
    BY <1>1, BrokerTheorem, PTL
=============================================================================
