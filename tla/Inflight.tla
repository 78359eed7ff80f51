------------------------------ MODULE Inflight ------------------------------
(***************************************************************************)
(* The in-flight read cache of internal/mcp/inflight.go, as proxyCall uses *)
(* it: a slow read runs detached from its caller, identical reads share    *)
(* one execution, and a successful result stays collectable for a while.   *)
(*                                                                         *)
(* A key stands for one caller identity, upstream, tool and argument list. *)
(* All keys name one upstream, whose connection the operator may rebind    *)
(* (a generation number).  An execution is the number of the run that made *)
(* it, and a result is named by its execution.                             *)
(***************************************************************************)
EXTENDS Integers, FiniteSets

CONSTANTS
    Callers,        \* request goroutines inside proxyCall
    Keys,           \* inflightKey values
    TTL,            \* inflightTTL, in ticks
    RunBound,       \* the 5m bound on a detached execution, in ticks
    MaxLag,         \* ticks a caller may spend between its snapshot and do
    maxInflight,    \* cap on the entries of the map
    MaxRuns,        \* bound on the inflightCalls alive at once
    MaxRebinds,     \* bound on rebinds of the connection
    MaxTime         \* bound on the clock

ASSUME InflightAssumption ==
    /\ TTL \in Nat \ {0} /\ RunBound \in Nat /\ MaxLag \in Nat /\ maxInflight \in Nat
    /\ MaxRuns \in Nat /\ MaxRebinds \in Nat /\ MaxTime \in Nat /\ Keys # {}

VARIABLES
    calls,      \* f.calls: the run whose inflightCall a key maps to; 0: absent
    runs,       \* the inflightCalls, each with its goroutine
    pc, req,    \* where each caller is, and what it carries
    told,       \* what do has just returned; Nothing after any other step
    conn,       \* the generation of the upstream's live connection
    retired,    \* when each older generation was replaced; -1: not yet
    now

vars == <<calls, runs, pc, req, told, conn, retired, now>>

Runs == 1 .. MaxRuns
Conns == 0 .. MaxRebinds

(* "settled": res, err and at are set, the channel is not closed yet. *)
Stages == {"free", "running", "settled", "done"}
inflightCall == [key : Keys, stage : Stages, ok : BOOLEAN, began : Nat, at : Nat, conn : Conns]

(* The caller's key, connection snapshot, awaited run, and when it         *)
(* entered do.                                                             *)
Request == [key : Keys, conn : Conns, run : 0 .. MaxRuns, at : Nat]

(* run 0: an inline execution.  shared: the caller awaited the run itself. *)
Answer == [kind : {"none", "ok", "error", "canceled"}, run : 0 .. MaxRuns,
           conn : Conns, asked : Nat, shared : BOOLEAN]

SomeKey == CHOOSE k \in Keys : TRUE
Idle == [key |-> SomeKey, conn |-> 0, run |-> 0, at |-> 0]
Nothing == [kind |-> "none", run |-> 0, conn |-> 0, asked |-> 0, shared |-> FALSE]

Init ==
    /\ calls = [k \in Keys |-> 0]
    /\ runs = [r \in Runs |-> [key |-> SomeKey, stage |-> "free", ok |-> FALSE,
                               began |-> 0, at |-> 0, conn |-> 0]]
    /\ pc = [c \in Callers |-> "idle"] /\ req = [c \in Callers |-> Idle]
    /\ told = Nothing
    /\ conn = 0 /\ retired = [g \in Conns |-> -1] /\ now = 0

-----------------------------------------------------------------------------
(* invokeUpstream snapshots the record for a read. *)
Snapshot(c, k) ==
    /\ pc[c] = "idle"
    /\ pc' = [pc EXCEPT ![c] = "called"]
    /\ req' = [req EXCEPT ![c] = [key |-> k, conn |-> conn, run |-> 0, at |-> now]]
    /\ told' = Nothing
    /\ UNCHANGED <<calls, runs, conn, retired, now>>

Return(c, kind, r, g, asked, shared) ==
    /\ told' = [kind |-> kind, run |-> r, conn |-> g, asked |-> asked, shared |-> shared]
    /\ pc' = [pc EXCEPT ![c] = "idle"] /\ req' = [req EXCEPT ![c] = Idle]

ResultKind(ok) == IF ok THEN "ok" ELSE "error"

Listed(k) == calls[k] # 0
Completed(r) == runs[r].stage \in {"settled", "done"}
(* A mutant: a result is collectable for one tick more. *)
FreshLonger(r) == now - runs[r].at <= TTL

Fresh(r) == now - runs[r].at < TTL

(* The map do sees once it has dropped its own stale entry and swept. *)
Swept(k) ==
    [j \in Keys |->
        IF \/ j = k
           \/ Listed(j) /\ Completed(calls[j]) /\ now - runs[calls[j]].at > TTL
        THEN 0 ELSE calls[j]]

Entries(map) == {j \in Keys : map[j] # 0}

(* do, up to its select: collect a cached result, ... *)
Collect(c) ==
    LET k == req[c].key IN
    /\ pc[c] = "called"
    /\ Listed(k) /\ Completed(calls[k]) /\ Fresh(calls[k])
    /\ Return(c, ResultKind(runs[calls[k]].ok), calls[k], runs[calls[k]].conn, now, FALSE)
    /\ UNCHANGED <<calls, runs, conn, retired, now>>

(* ... join a running execution, ... *)
Join(c) ==
    LET k == req[c].key IN
    /\ pc[c] = "called"
    /\ Listed(k) /\ ~Completed(calls[k])
    /\ pc' = [pc EXCEPT ![c] = "waiting"]
    /\ req' = [req EXCEPT ![c].run = calls[k], ![c].at = now, ![c].conn = 0]
    /\ told' = Nothing /\ UNCHANGED <<calls, runs, conn, retired, now>>

(* ... or execute: detached, or inline when the map is full. *)
(* A mutant decides by the age of the entry alone. *)
MustRunByAge(k) == Listed(k) => ~Fresh(calls[k])

MustRun(k) == Listed(k) => Completed(calls[k]) /\ ~Fresh(calls[k])

(* An inflightCall that nothing refers to any more is garbage. *)
Unused(r) ==
    \/ runs[r].stage = "free"
    \/ /\ runs[r].stage = "done"
       /\ \A k \in Keys : calls[k] # r
       /\ \A c \in Callers : req[c].run # r

Detach(c, r) ==
    LET k == req[c].key IN
    /\ pc[c] = "called" /\ MustRun(k)
    /\ Cardinality(Entries(Swept(k))) < maxInflight
    /\ Unused(r) /\ \A q \in Runs : q < r => ~Unused(q)
    /\ runs' = [runs EXCEPT ![r] = [key |-> k, stage |-> "running", ok |-> FALSE,
                                    began |-> now, at |-> 0, conn |-> req[c].conn]]
    /\ calls' = [Swept(k) EXCEPT ![k] = r]
    /\ pc' = [pc EXCEPT ![c] = "waiting"]
    /\ req' = [req EXCEPT ![c].run = r, ![c].at = now, ![c].conn = 0]
    /\ told' = Nothing /\ UNCHANGED <<conn, retired, now>>

RunInline(c) ==
    LET k == req[c].key IN
    /\ pc[c] = "called" /\ MustRun(k)
    /\ Cardinality(Entries(Swept(k))) >= maxInflight
    /\ calls' = Swept(k)
    /\ pc' = [pc EXCEPT ![c] = "inline"]
    /\ req' = [req EXCEPT ![c].at = now]
    /\ told' = Nothing /\ UNCHANGED <<runs, conn, retired, now>>

-----------------------------------------------------------------------------
(* A mutant: an error stays in the map like a result. *)
SettleKeeping(r, ok) ==
    /\ runs[r].stage = "running"
    /\ runs' = [runs EXCEPT ![r] = [@ EXCEPT !.stage = "settled", !.ok = ok,
                                              !.at = now, !.began = 0]]
    /\ told' = Nothing /\ UNCHANGED <<calls, pc, req, conn, retired, now>>

(* The detached goroutine: fn returned (at the latest when its own context *)
(* expired); an error leaves the map at once ...                           *)
Settle(r, ok) ==
    /\ runs[r].stage = "running"
    /\ runs' = [runs EXCEPT ![r] = [@ EXCEPT !.stage = "settled", !.ok = ok,
                                              !.at = now, !.began = 0]]
    /\ calls' = IF ~ok /\ calls[runs[r].key] = r
                THEN [calls EXCEPT ![runs[r].key] = 0] ELSE calls
    /\ told' = Nothing /\ UNCHANGED <<pc, req, conn, retired, now>>

(* A mutant: only a success closes the channel. *)
CloseResults(r) ==
    /\ runs[r].stage = "settled" /\ runs[r].ok
    /\ runs' = [runs EXCEPT ![r].stage = "done"]
    /\ told' = Nothing /\ UNCHANGED <<calls, pc, req, conn, retired, now>>

(* ... and after unlocking it closes the channel. *)
Close(r) ==
    /\ runs[r].stage = "settled"
    /\ runs' = [runs EXCEPT ![r].stage = "done"]
    /\ told' = Nothing /\ UNCHANGED <<calls, pc, req, conn, retired, now>>

(* The two branches of do's select. *)
Deliver(c) ==
    LET r == req[c].run IN
    /\ pc[c] = "waiting" /\ runs[r].stage = "done"
    /\ Return(c, ResultKind(runs[r].ok), r, runs[r].conn, req[c].at, TRUE)
    /\ UNCHANGED <<calls, runs, conn, retired, now>>

Cancel(c) ==
    /\ pc[c] = "waiting"
    /\ Return(c, "canceled", 0, 0, req[c].at, TRUE)
    /\ UNCHANGED <<calls, runs, conn, retired, now>>

(* The inline execution ended by itself, or because its caller gave up:    *)
(* whatever it then returned, do reports canceled.                         *)
InlineReturn(c, kind) ==
    /\ pc[c] = "inline"
    /\ Return(c, kind, 0, req[c].conn, req[c].at, FALSE)
    /\ UNCHANGED <<calls, runs, conn, retired, now>>

(* The operator binds a new connection to the upstream. *)
Rebind ==
    /\ conn < MaxRebinds
    /\ conn' = conn + 1 /\ retired' = [retired EXCEPT ![conn] = now]
    /\ told' = Nothing /\ UNCHANGED <<calls, runs, pc, req, now>>

(* Time passes, within the execution's own timeout. *)
Tick ==
    /\ now < MaxTime
    /\ \A r \in Runs : runs[r].stage = "running" => now - runs[r].began < RunBound
    /\ \A c \in Callers : pc[c] = "called" => now - req[c].at < MaxLag
    /\ now' = now + 1
    /\ told' = Nothing /\ UNCHANGED <<calls, runs, pc, req, conn, retired>>

Do(c) == Collect(c) \/ Join(c) \/ RunInline(c) \/ \E r \in Runs : Detach(c, r)

Next ==
    \/ \E c \in Callers, k \in Keys : Snapshot(c, k)
    \/ \E c \in Callers : Do(c)
    \/ \E r \in Runs, ok \in BOOLEAN : Settle(r, ok)
    \/ \E r \in Runs : Close(r)
    \/ \E c \in Callers : Deliver(c) \/ Cancel(c)
    \/ \E c \in Callers, kind \in {"ok", "error", "canceled"} : InlineReturn(c, kind)
    \/ Rebind
    \/ Tick

Spec == Init /\ [][Next]_vars

(* What a caller's goroutine does next, and what an execution's does. *)
Proceed(c) ==
    Do(c) \/ Deliver(c) \/ \E kind \in {"ok", "error"} : InlineReturn(c, kind)
Progress(r) == Close(r) \/ \E ok \in BOOLEAN : Settle(r, ok)

(* Goroutines are scheduled, f.mu is granted to whoever keeps asking for   *)
(* it (sync.Mutex is starvation-free), and an execution ends because its   *)
(* context does; nothing obliges a client to give up or to call again.     *)
Fairness ==
    /\ \A c \in Callers : SF_vars(Proceed(c))
    /\ \A r \in Runs : WF_vars(Progress(r))

FairSpec == Spec /\ Fairness

-----------------------------------------------------------------------------
(* Properties *)

(* Types: the map and the waiters name inflightCalls that exist. *)
TypeOK ==
    /\ calls \in [Keys -> 0 .. MaxRuns]
    /\ runs \in [Runs -> inflightCall]
    /\ pc \in [Callers -> {"idle", "called", "waiting", "inline"}]
    /\ req \in [Callers -> Request] /\ told \in Answer
    /\ conn \in Conns /\ retired \in [Conns -> Nat \cup {-1}] /\ now \in Nat

(* "single-flights: concurrent identical calls share one execution": no    *)
(* two detached executions of one key are ever running together, whatever  *)
(* expires, is swept or fails in between.                                  *)
SingleFlight ==
    \A q, r \in Runs :
        runs[q].stage = "running" /\ runs[r].stage = "running" /\ runs[q].key = runs[r].key
            => q = r

(* "an error is delivered to the waiters that shared the execution, then   *)
(* dropped": whoever calls after the failure never receives it.            *)
ErrorsNotReplayed == told.kind = "error" /\ told.run # 0 => told.shared

(* The key carries no connection, so a rebind does not invalidate the      *)
(* cache.  A result of a replaced connection is still gone after the TTL,  *)
(* an execution's own bound and the caller's lag.                          *)
StaleConnectionBounded ==
    told.kind = "ok" /\ retired[told.conn] # -1
        => told.asked - retired[told.conn] < TTL + RunBound + MaxLag

(* Every call returns even if its client never gives up. *)
CallsReturn == \A c \in Callers : pc[c] # "idle" ~> pc[c] = "idle"

-----------------------------------------------------------------------------
(* The inductive invariant behind SingleFlight and ErrorsNotReplayed: the  *)
(* map lists every running execution under its own key, and no failed one; *)
(* a waiting caller awaits an execution of its own key.                    *)
RunningListed == \A r \in Runs : runs[r].stage = "running" => calls[runs[r].key] = r

ListedUsable ==
    \A k \in Keys : Listed(k) =>
        /\ runs[calls[k]].key = k /\ runs[calls[k]].stage # "free"
        /\ Completed(calls[k]) => runs[calls[k]].ok

WaitersKeyed ==
    \A c \in Callers : pc[c] = "waiting" =>
        /\ req[c].run # 0
        /\ runs[req[c].run].key = req[c].key /\ runs[req[c].run].stage # "free"

(* Together, what every step of do and of its goroutine preserves. *)
IInv == TypeOK /\ RunningListed /\ ListedUsable /\ WaitersKeyed /\ ErrorsNotReplayed

(* The inductive invariant behind StaleConnectionBounded: how long after   *)
(* generation g was replaced something of time t may still use it.         *)
Behind(g, t, lag) == retired[g] # -1 => t - retired[g] <= lag

RetiredInPast ==
    \A g \in Conns : /\ retired[g] <= now
                     /\ g >= conn => retired[g] = -1

(* A snapshot is at most MaxLag old when its execution starts ...          *)
CallersBehind ==
    \A c \in Callers :
        /\ req[c].at <= now
        /\ pc[c] = "called" => now - req[c].at <= MaxLag /\ Behind(req[c].conn, req[c].at, 0)
        /\ pc[c] = "inline" => Behind(req[c].conn, req[c].at, MaxLag)
        /\ pc[c] = "waiting" => Behind(runs[req[c].run].conn, req[c].at, RunBound + MaxLag)

(* ... and the execution settles within RunBound.                          *)
RunsBehind ==
    \A r \in Runs :
        /\ runs[r].began <= now /\ runs[r].at <= now
        /\ runs[r].stage = "running" =>
              now - runs[r].began <= RunBound /\ Behind(runs[r].conn, runs[r].began, MaxLag)
        /\ runs[r].stage \in {"settled", "done"} =>
              Behind(runs[r].conn, runs[r].at, RunBound + MaxLag)

AgeInv == RetiredInPast /\ CallersBehind /\ RunsBehind /\ StaleConnectionBounded
=============================================================================
