----------------------------- MODULE References -----------------------------
(* Pass by reference: the encrypted file store of parked results             *)
(* (internal/refstore/filestore.go, mem.go), the budget that decides what is *)
(* parked (internal/budget), and reduce, which reads references, runs an     *)
(* engine or a sandboxed program over them and answers or parks again        *)
(* (internal/mcp/tools.go).                                                  *)
(*                                                                           *)
(* A payload is the set of callers whose data it holds.  The program of a    *)
(* sandboxed run talks to the broker of ProgramBroker.                       *)
EXTENDS ProgramBroker

CONSTANTS
    Callers,
    Handles,      \* the handles the store may mint
    Sizes,        \* sizes of payloads
    MaxInline,    \* budget.Gate.MaxBytes
    ReduceInline, \* reduceInlineBytes
    TTL, MaxEntries,
    ClockJumps,   \* how the wall clock may move between two operations
    MaxClock,     \* bound: the clock
    MaxFaults     \* bound: failing writes and crashes

ASSUME ReferencesAssumption == MaxClock \in Nat \ {0} /\ MaxFaults \in Nat

VARIABLES
    files,   \* the store's directory
    clock,   \* the wall clock, which a file keeps as its creation time
    job,     \* each caller's reduce in progress
    faults

vars == <<files, clock, job, faults, broker, crossings, delivered, answers, refused>>

storeVars == <<files, clock, faults>>

NoFile == [state |-> "none"]

Idle == [pc |-> "idle"]

(* A whole file; one cut short in its ciphertext, or in its frame, where it  *)
(* may have lost part of its creation time; and an empty one, which has none.*)
File(owner, payload) == [state |-> "whole", owner |-> owner, payload |-> payload, created |-> clock]

Short == [state |-> "short", created |-> clock]

Stub(created) == [state |-> "stub", created |-> created]

EmptyFile == [state |-> "empty"]

(* What a write that fails, or that a crash ends, leaves of its file.        *)
Remains == {NoFile, EmptyFile, Stub(0), Stub(clock), Short}

(* Get takes the creation time of a file with a whole frame, readCreated of  *)
(* one that is not empty.                                                    *)
Framed(f) == f.state \in {"whole", "short"}

Dated(f) == Framed(f) \/ f.state = "stub"

Expired(f) == clock - f.created > TTL

-----------------------------------------------------------------------------
(* The store. *)

(* sweepLocked: the expired files go, then the oldest beyond the cap; which  *)
(* of several equally old ones is up to the sort.                            *)
Swept(fs) ==
    LET live == {h \in Handles : Dated(fs[h]) /\ ~Expired(fs[h])}
        keep == {k \in SUBSET live :
                   /\ Cardinality(k) = IF Cardinality(live) > MaxEntries THEN MaxEntries
                                       ELSE Cardinality(live)
                   /\ \A a \in k, b \in live \ k : fs[b].created <= fs[a].created}
    IN  {[h \in Handles |-> IF Dated(fs[h]) /\ h \notin k THEN NoFile ELSE fs[h]] : k \in keep}

(* A mutant: a name is not looked for on disk.                               *)
MintableAny(h) == files[h].state # "short"

(* mintLocked: a handle with no file of its name. *)
Mintable(h) == files[h] = NoFile

(* randRef: some 71 random bits, so no handle that a reduce still names is   *)
(* drawn again.                                                              *)
Drawn(h) == \A c \in Callers : job[c].pc = "finalize" => h \notin job[c].ref

(* Put: the payload is written under a fresh handle and the store swept.  A  *)
(* failing write is logged, and the caller gets the handle all the same.     *)
(* What it leaves of the file stays.                                         *)
Put(h, owner, payload, written) ==
    /\ Drawn(h) /\ Mintable(h)
    /\ ~written => faults < MaxFaults
    /\ faults' = IF written THEN faults ELSE faults + 1
    /\ \E f \in IF written THEN {File(owner, payload)} ELSE Remains :
         files' \in Swept([files EXCEPT ![h] = f])

(* Get: absent, expired, cut short or sealed under another key is the same   *)
(* answer.                                                                   *)
Readable(h) == files[h].state = "whole" /\ ~Expired(files[h])

(* An expired file goes when it is read, unless its frame is cut.            *)
Read(h) == IF Framed(files[h]) /\ Expired(files[h]) THEN [files EXCEPT ![h] = NoFile] ELSE files

-----------------------------------------------------------------------------
(* Parking: proxyCall's large results, and anything Apply finds too large.   *)

(* A caller's upstream result is parked for the caller. *)
ParkResult(c, h, written) ==
    /\ job[c].pc = "idle"
    /\ Put(h, c, {c}, written)
    /\ UNCHANGED <<clock, job>> /\ UNCHANGED brokerVars

-----------------------------------------------------------------------------
(* reduce *)

(* The references, or the inline data, of a request whose shape is sound.  A *)
(* program needs code, several references too.                               *)
Reduce(c, refs, by, own) ==
    /\ job[c].pc = "idle"
    /\ refs = {} => own
    /\ Cardinality(refs) > 1 => by # "query"
    /\ by = "program" => ~broker.open
    /\ job' = [job EXCEPT ![c] =
                 [pc |-> "resolve", left |-> refs, of |-> IF own THEN {c} ELSE {}, by |-> by,
                  size |-> 0, out |-> "none", ref |-> {}]]
    /\ UNCHANGED storeVars /\ UNCHANGED brokerVars

(* A mutant: anyone who holds the handle may reduce over it.                 *)
MayReadAny(c, h) == Readable(h)

(* A reference is usable by its owner only.                                  *)
MayRead(c, h) == Readable(h) /\ files[h].owner = c

(* Each reference is read on its own; the first that is not the caller's, or *)
(* not there, ends the request with the same answer.                         *)
Resolve(c, h) ==
    /\ job[c].pc = "resolve" /\ h \in job[c].left
    /\ job' = [job EXCEPT ![c] =
                 IF MayRead(c, h)
                 THEN [job[c] EXCEPT !.left = job[c].left \ {h},
                                     !.of = job[c].of \cup files[h].payload]
                 ELSE [@ EXCEPT !.pc = "answered", !.out = "unknown reference"]]
    /\ files' = Read(h)
    /\ UNCHANGED <<clock, faults>> /\ UNCHANGED brokerVars

(* The run starts: a program opens its broker, or is rejected.               *)
Start(c, ok) ==
    /\ job[c].pc = "resolve" /\ job[c].left = {}
    /\ job[c].by # "program" => ok
    /\ job' = [job EXCEPT ![c] = IF ok THEN [@ EXCEPT !.pc = "running"]
                                 ELSE [@ EXCEPT !.pc = "answered", !.out = "rejected"]]
    /\ IF job[c].by = "program" /\ ok THEN ~broker.open /\ OpenBroker ELSE UNCHANGED brokerVars
    /\ UNCHANGED storeVars

(* A program's broker goes with its run. *)
EndRun(c) == IF job[c].by = "program" THEN CloseBroker ELSE UNCHANGED brokerVars

RunFails(c) ==
    /\ job[c].pc = "running"
    /\ job' = [job EXCEPT ![c].pc = "answered", ![c].out = "failed"]
    /\ EndRun(c)
    /\ UNCHANGED storeVars

(* budget.Apply: a small output is returned, a large one parked for the      *)
(* caller.                                                                   *)
RunInlines(c) ==
    /\ job[c].pc = "running"
    /\ job' = [job EXCEPT ![c].pc = "finalize"]
    /\ EndRun(c)
    /\ UNCHANGED storeVars

RunParks(c, size, h, written) ==
    /\ job[c].pc = "running" /\ size > MaxInline
    /\ Put(h, c, job[c].of, written)
    /\ job' = [job EXCEPT ![c].pc = "finalize", ![c].size = size, ![c].ref = {h}]
    /\ EndRun(c)
    /\ UNCHANGED clock

(* finalizeReduce: an output that is parked but small enough for a reduce is *)
(* read back by its handle, whoever owns the file, and returned inline; the  *)
(* file stays.  A program that exited with an error is answered with the     *)
(* class of the error alone.                                                 *)
Inlines(j) ==
    \/ j.ref = {}
    \/ j.size <= ReduceInline /\ \A h \in j.ref : Readable(h)

(* What is returned: the output itself, or what the handle stands for now.   *)
ReadBack(j) == IF j.ref = {} THEN j.of ELSE UNION {files[h].payload : h \in j.ref}

FinalizeReduce(c, ok) ==
    LET j == job[c] IN
    /\ j.pc = "finalize"
    /\ j.by = "query" => ok
    /\ job' = [job EXCEPT ![c].pc = "answered",
                          ![c].of = IF ok /\ Inlines(j) THEN ReadBack(j) ELSE @,
                          ![c].out = IF ~ok THEN "failed" ELSE IF Inlines(j) THEN "inline" ELSE "ref"]
    /\ files' = IF j.ref = {} THEN files ELSE Read(CHOOSE h \in j.ref : TRUE)
    /\ UNCHANGED <<clock, faults>> /\ UNCHANGED brokerVars

ReduceReturns(c) ==
    /\ job[c].pc = "answered"
    /\ job' = [job EXCEPT ![c] = Idle]
    /\ UNCHANGED storeVars /\ UNCHANGED brokerVars

-----------------------------------------------------------------------------
(* The clock, and crashes. *)

ClockMoves(d) ==
    /\ clock + d \in 1..MaxClock
    /\ clock' = clock + d
    /\ UNCHANGED <<files, job, faults>> /\ UNCHANGED brokerVars

(* The gateway stops, perhaps while a file is being written.  Requests die   *)
(* with the process; the store stays.                                        *)
Crash(h, rest) ==
    /\ faults < MaxFaults /\ faults' = faults + 1
    /\ Mintable(h)
    /\ files' = [files EXCEPT ![h] = rest]
    /\ job' = [c \in Callers |-> Idle]
    /\ CloseBroker
    /\ UNCHANGED clock

Init ==
    /\ files = [h \in Handles |-> NoFile]
    /\ clock = 1
    /\ job = [c \in Callers |-> Idle]
    /\ faults = 0
    /\ BrokerInit

(* Any handle may be tried, the caller's or not.                             *)
ReduceNext(c) ==
    \/ \E refs \in SUBSET Handles, by \in {"query", "code", "program"}, own \in BOOLEAN :
          /\ Cardinality(refs) <= 2 /\ (own => refs = {})
          /\ Reduce(c, refs, by, own)
    \/ \E h \in Handles : Resolve(c, h)
    \/ \E ok \in BOOLEAN : Start(c, ok) \/ FinalizeReduce(c, ok)
    \/ RunFails(c) \/ RunInlines(c) \/ ReduceReturns(c)
    \/ \E h \in Handles, written \in BOOLEAN :
          \/ ParkResult(c, h, written)
          \/ \E size \in Sizes : RunParks(c, size, h, written)

Environment ==
    \/ \E d \in ClockJumps : ClockMoves(d)
    \/ \E h \in Handles, rest \in Remains : Crash(h, rest)

Next ==
    \/ \E c \in Callers : ReduceNext(c)
    \/ Environment
    \/ BrokerNext /\ UNCHANGED <<files, clock, job, faults>>

Spec == Init /\ [][Next]_vars

-----------------------------------------------------------------------------
(* Properties. *)

Files ==
    {NoFile, EmptyFile} \cup [state : {"short"}, created : 1..MaxClock]
        \cup [state : {"stub"}, created : 0..MaxClock]
        \cup [state : {"whole"}, owner : Callers, payload : SUBSET Callers, created : 1..MaxClock]

Jobs ==
    {Idle} \cup [pc : {"resolve", "running", "finalize", "answered"}, left : SUBSET Handles,
                 of : SUBSET Callers, by : {"query", "code", "program"}, size : Sizes \cup {0},
                 out : {"none", "unknown reference", "rejected", "failed", "inline", "ref"},
                 ref : SUBSET Handles]

TypeOK ==
    /\ files \in [Handles -> Files]
    /\ clock \in 1..MaxClock /\ faults \in 0..MaxFaults
    /\ job \in [Callers -> Jobs]

(* Whatever handles it tries, and however its requests interleave with       *)
(* others', a caller is only ever shown what derives from its own data: by a *)
(* read-back of its own output, a join, or a second reduce over the first.   *)
OwnDataOnly ==
    \A c \in Callers : job[c].pc = "answered" /\ job[c].out = "inline" => job[c].of \subseteq {c}

(* A file's owner is everyone its payload derives from.                      *)
ParkedForItsOwner ==
    \A h \in Handles : files[h].state = "whole" => files[h].payload \subseteq {files[h].owner}

(* A reduce in progress holds its caller's data only. *)
JobsHoldOwnData ==
    \A c \in Callers : job[c].pc # "idle" => job[c].of \subseteq {c}

(* A reduce has no output while it runs, and the handle it then reads back   *)
(* is that of its own output.                                                *)
OutputsOwned ==
    \A c \in Callers :
        /\ job[c].pc \in {"resolve", "running"} => job[c].ref = {}
        /\ job[c].pc = "finalize" =>
             \A h \in job[c].ref : files[h].state = "whole" => files[h].owner = c

(* What makes OwnDataOnly inductive: what is parked derives from its owner,  *)
(* so a caller who reads only its own files can only park its own data.      *)
IInv == TypeOK /\ ParkedForItsOwner /\ JobsHoldOwnData /\ OutputsOwned

(* What a handle stands for never changes while the handle is there.         *)
HandleStable ==
    [][\A h \in Handles :
          files[h].state = "whole" /\ files'[h].state # "none" => files'[h] = files[h]]_vars
=============================================================================
