--------------------------- MODULE ProgramBroker ----------------------------
(* The tool broker of one governed program (internal/mcp/program.go): the    *)
(* sandbox posts requests, possibly again when an answer was lost, and the   *)
(* broker serves each under its lock, within the budgets of the run.         *)
(*                                                                           *)
(* A request is an id and a body; the digest of a body is the body.  The     *)
(* gates of the calls themselves are in Invocation.                          *)
EXTENDS Integers, FiniteSets

CONSTANTS
    Ids,                     \* request ids a program may use
    Bodies,                  \* request bodies: find_tools, call_tool or neither
    ProgramCalls,            \* max_calls
    ProgramBytes,            \* max_bytes
    ProgramSearches,         \* maxProgramSearches
    OpsSlack, RequestsSlack, \* the 16 and 32 added to the operation and request budgets
    ResultSizes              \* sizes of a result; 0 is an error

ASSUME ProgramBrokerAssumption ==
    ProgramCalls \in Nat /\ ProgramBytes \in Nat /\ ResultSizes \subseteq Nat

VARIABLES
    broker,     \* programBroker
    crossings,  \* upstream calls made for each request id
    delivered,  \* bytes of results sent into the sandbox for the first time
    answers,    \* the answers given for an id and a body
    refused     \* whether a request was turned down for budget or cancellation

brokerVars == <<broker, crossings, delivered, answers, refused>>

Closed == [open |-> FALSE]

NotSeen == [used |-> FALSE]

Seen(body, ans) == [used |-> TRUE, body |-> body, answer |-> ans]

(* newProgramBroker, for a configuration validateProgramConfig accepted.     *)
Fresh ==
    [open |-> TRUE, ctx |-> "live", calls |-> 0, searches |-> 0, bytes |-> 0, ops |-> 0,
     requests |-> 0, status |-> "completed", logged |-> FALSE, seen |-> [i \in Ids |-> NotSeen]]

MaxOps == ProgramCalls + ProgramSearches + OpsSlack

MaxRequests == ProgramCalls + ProgramSearches + RequestsSlack

Answer(code, size) == [code |-> code, size |-> size]

Exhausted == Answer("budget_exhausted", 0)

(* A mutant: only successes are kept, so a failed call is made again.        *)
KeepSuccesses(id, body, b, ans) ==
    /\ broker' = [b EXCEPT !.seen[id] = IF ans.code = "ok" THEN Seen(body, ans) ELSE @]
    /\ answers' = answers \cup {<<id, body, ans>>}
    /\ refused' = (refused \/ ans.code \in {"budget_exhausted", "canceled"})

(* The answer is sent and, under the request's id, kept for replays.         *)
Keep(id, body, b, ans) ==
    /\ broker' = [b EXCEPT !.seen[id] = Seen(body, ans)]
    /\ answers' = answers \cup {<<id, body, ans>>}
    /\ refused' = (refused \/ ans.code \in {"budget_exhausted", "canceled"})

(* Every request that reaches the handler is counted first.                  *)
Admitted(b) == [b EXCEPT !.requests = @ + 1]

Serving == broker.open /\ broker.requests < MaxRequests

Unseen(id) == ~broker.seen[id].used

(* The request budget is spent: the refusal is recorded once.                *)
RequestsExhausted ==
    /\ broker.open /\ broker.requests >= MaxRequests
    /\ broker' = [broker EXCEPT !.status = "budget_exhausted", !.logged = TRUE]
    /\ refused' = TRUE
    /\ UNCHANGED <<crossings, delivered, answers>>

(* A body over the cap, not JSON, or with an unusable id. *)
InvalidRequest ==
    /\ Serving
    /\ broker' = Admitted(broker)
    /\ UNCHANGED <<crossings, delivered, answers, refused>>

(* The id was used: the same body gets the same answer, another is refused.  *)
Replay(id, body) ==
    /\ Serving /\ ~Unseen(id)
    /\ broker' = Admitted(broker)
    /\ answers' = IF broker.seen[id].body = body
                  THEN answers \cup {<<id, body, broker.seen[id].answer>>} ELSE answers
    /\ UNCHANGED <<crossings, delivered, refused>>

(* The run's deadline passed, it was canceled, or this request's client went *)
(* away.                                                                     *)
TooLate(id, body, ctx) ==
    /\ Serving /\ Unseen(id)
    /\ ctx = IF broker.ctx = "live" THEN "canceled" ELSE broker.ctx
    /\ LET code == IF ctx = "deadline" THEN "budget_exhausted" ELSE "canceled"
       IN  Keep(id, body, [Admitted(broker) EXCEPT !.status = code], Answer(code, 0))
    /\ UNCHANGED <<crossings, delivered>>

Live(id) == Serving /\ Unseen(id) /\ broker.ctx = "live"

OpsExhausted(id, body) ==
    /\ Live(id) /\ broker.ops >= MaxOps
    /\ Keep(id, body, [Admitted(broker) EXCEPT !.status = "budget_exhausted"], Exhausted)
    /\ UNCHANGED <<crossings, delivered>>

Operation == [Admitted(broker) EXCEPT !.ops = @ + 1]

UnknownOperation(id, body) ==
    /\ Live(id) /\ broker.ops < MaxOps /\ body = "other"
    /\ Keep(id, body, Operation, Answer("invalid_request", 0))
    /\ UNCHANGED <<crossings, delivered>>

(* A mutant: the budget is compared with the one result.                     *)
DeliverEach(id, body, b, size) ==
    IF size > ProgramBytes
    THEN /\ Keep(id, body, [b EXCEPT !.status = "budget_exhausted"], Exhausted)
         /\ UNCHANGED delivered
    ELSE /\ Keep(id, body, [b EXCEPT !.bytes = @ + size], Answer("ok", size))
         /\ delivered' = delivered + size

(* deliver: a result that does not fit in what is left of max_bytes is       *)
(* withheld, and the run is marked.                                          *)
Deliver(id, body, b, size) ==
    IF size > ProgramBytes - b.bytes
    THEN /\ Keep(id, body, [b EXCEPT !.status = "budget_exhausted"], Exhausted)
         /\ UNCHANGED delivered
    ELSE /\ Keep(id, body, [b EXCEPT !.bytes = @ + size], Answer("ok", size))
         /\ delivered' = delivered + size

(* findToolsLocked *)
FindTools(id, body, size) ==
    /\ Live(id) /\ broker.ops < MaxOps /\ body = "find_tools"
    /\ IF broker.searches >= ProgramSearches
       THEN /\ Keep(id, body, [Operation EXCEPT !.status = "budget_exhausted"], Exhausted)
            /\ UNCHANGED delivered
       ELSE LET b == [Operation EXCEPT !.searches = @ + 1]
            IN  IF size = 0
                THEN Keep(id, body, b, Answer("discovery_error", 0)) /\ UNCHANGED delivered
                ELSE Deliver(id, body, b, size)
    /\ UNCHANGED crossings

(* callToolLocked: the call is counted before it is made.                    *)
CallsLeft(b) == b.calls < ProgramCalls

BrokeredCall(id, body, size) ==
    /\ Live(id) /\ broker.ops < MaxOps /\ body = "call_tool"
    /\ IF ~CallsLeft(broker)
       THEN /\ Keep(id, body, [Operation EXCEPT !.status = "budget_exhausted"], Exhausted)
            /\ UNCHANGED <<delivered, crossings>>
       ELSE LET b == [Operation EXCEPT !.calls = @ + 1]
            IN  /\ crossings' = [crossings EXCEPT ![id] = @ + 1]
                /\ IF size = 0
                   THEN Keep(id, body, b, Answer("tool_error", 0)) /\ UNCHANGED delivered
                   ELSE Deliver(id, body, b, size)

(* The context of the run ends while the sandbox is still up. *)
ProgramEnds(ctx) ==
    /\ broker.open /\ broker.ctx = "live"
    /\ broker' = [broker EXCEPT !.ctx = ctx]
    /\ UNCHANGED <<crossings, delivered, answers, refused>>

BrokerInit ==
    /\ broker = Closed
    /\ crossings = [i \in Ids |-> 0]
    /\ delivered = 0 /\ answers = {} /\ refused = FALSE

OpenBroker ==
    /\ broker' = Fresh
    /\ UNCHANGED <<crossings, delivered, answers, refused>>

(* The run is over, and the account of it with it. *)
CloseBroker ==
    /\ broker' = Closed
    /\ crossings' = [i \in Ids |-> 0]
    /\ delivered' = 0 /\ answers' = {} /\ refused' = FALSE

BrokerNext ==
    \/ RequestsExhausted \/ InvalidRequest
    \/ \E id \in Ids, body \in Bodies :
          \/ Replay(id, body) \/ OpsExhausted(id, body) \/ UnknownOperation(id, body)
          \/ \E ctx \in {"deadline", "canceled"} : TooLate(id, body, ctx)
          \/ \E n \in ResultSizes : FindTools(id, body, n) \/ BrokeredCall(id, body, n)
    \/ \E ctx \in {"deadline", "canceled"} : ProgramEnds(ctx)

(* Stats: what the audit record of the run says of the program.              *)
ProgramStatus ==
    IF broker.ctx # "live" /\ broker.status = "completed"
    THEN IF broker.ctx = "deadline" THEN "budget_exhausted" ELSE "canceled"
    ELSE broker.status

-----------------------------------------------------------------------------
(* However often the sandbox repeats a request, one id is worth one upstream *)
(* call and one answer: the calls of a run stay within max_calls, a repeated *)
(* request is answered as it was the first time, and its id never answers    *)
(* another body (ProgramBroker.Call, by the ids it has seen).                *)
RequestOnce ==
    /\ \A id \in Ids : crossings[id] <= 1
    /\ Cardinality({id \in Ids : crossings[id] > 0}) <= ProgramCalls
    /\ \A a, b \in answers : a[1] = b[1] => a = b

(* The results sent into the sandbox fit in max_bytes together, and a run    *)
(* that turned a request down for budget or cancellation is not recorded as  *)
(* completed.                                                                *)
ProgramBudgetHeld ==
    /\ delivered <= ProgramBytes
    /\ broker.open /\ refused => ProgramStatus # "completed"

-----------------------------------------------------------------------------
(* The inductive invariant behind both. *)

Statuses == {"completed", "budget_exhausted", "canceled"}

Codes == {"ok", "budget_exhausted", "canceled", "invalid_request", "discovery_error", "tool_error"}

Entries == [used : {TRUE}, body : Bodies, answer : [code : Codes, size : Nat]]

Brokers ==
    [open : {TRUE}, ctx : {"live", "deadline", "canceled"}, calls : Nat, searches : Nat, bytes : Nat,
     ops : Nat, requests : Nat, status : Statuses, logged : BOOLEAN,
     seen : [Ids -> {NotSeen} \cup Entries]]

BrokerTyped ==
    /\ broker \in {Closed} \cup Brokers
    /\ crossings \in [Ids -> Nat] /\ delivered \in Nat /\ refused \in BOOLEAN

(* Without a program there is nothing to account for. *)
ClosedEmpty ==
    ~broker.open => /\ \A id \in Ids : crossings[id] = 0
                    /\ delivered = 0 /\ answers = {} /\ ~refused

Crossed == {id \in Ids : crossings[id] > 0}

(* The broker's count of calls is the number of ids that crossed, each of    *)
(* them once and none of them open to another request.                       *)
CallsCounted ==
    broker.open =>
        /\ IsFiniteSet(Crossed) /\ Cardinality(Crossed) = broker.calls
        /\ broker.calls <= ProgramCalls
        /\ \A id \in Ids : crossings[id] <= 1
        /\ \A id \in Crossed : broker.seen[id].used

(* An answer given is the one kept under its id. *)
AnswersKept ==
    broker.open => \A a \in answers : \E id \in Ids :
        /\ broker.seen[id].used
        /\ a = <<id, broker.seen[id].body, broker.seen[id].answer>>

BytesCounted ==
    broker.open => /\ delivered = broker.bytes /\ broker.bytes <= ProgramBytes
                   /\ refused => broker.status # "completed"

BrokerInv == BrokerTyped /\ ClosedEmpty /\ CallsCounted /\ AnswersKept /\ BytesCounted
=============================================================================
