------------------------------ MODULE Sandbox ------------------------------
(***************************************************************************)
(* Running generated strategy code (backend/src/engine/sandbox/,           *)
(* engine/validation.py).                                                  *)
(*                                                                         *)
(* A worker process answers the requests on its standard input one after   *)
(* the other on its standard output.  A call has a worker of its own, a    *)
(* container, or one of a pool of warm workers that serve call after call. *)
(* The code of a call may be slow, and may take its worker down with it.   *)
(***************************************************************************)
EXTENDS Naturals, Sequences, FiniteSets

CONSTANTS
    Caller,         \* threads that run strategies
    PoolSize,
    MaxSandboxCalls,    \* calls of one caller (bound)
    MaxWorkers      \* workers ever started (bound)

ASSUME SandboxAssumption ==
    /\ {PoolSize, MaxSandboxCalls} \subseteq Nat \ {0} /\ MaxWorkers \in Nat /\ PoolSize <= MaxWorkers

VARIABLES
    runtime,        \* gvisor, process or pool
    idle,           \* workers of the pool nobody uses
    worker,         \* each worker: alive, the requests it has been sent and the answers it wrote
    sandbox_call,   \* what each caller is at
    calls_made      \* how many calls each caller has made

sandboxVars == <<runtime, idle, worker, sandbox_call, calls_made>>

WorkerId == 1 .. MaxWorkers
NotStarted == [alive |-> FALSE, requests |-> <<>>, answers |-> <<>>]
Fresh == [NotStarted EXCEPT !.alive = TRUE]
NoSandboxCall == [at |-> "idle"]

\* gVisor when the host has it; the pool starts its workers when it is made.
SandboxInit ==
    /\ runtime \in {"gvisor", "process", "pool"}
    /\ idle = IF runtime = "pool" THEN 1 .. PoolSize ELSE {}
    /\ worker = [w \in WorkerId |-> IF w \in idle THEN Fresh ELSE NotStarted]
    /\ sandbox_call = [c \in Caller |-> NoSandboxCall] /\ calls_made = [c \in Caller |-> 0]
-----------------------------------------------------------------------------
SetSandboxCall(c, at) == sandbox_call' = [sandbox_call EXCEPT ![c] = at]
Unstarted == {w \in WorkerId : worker[w] = NotStarted /\ w \notin idle
                               /\ \A c \in Caller : sandbox_call[c].at = "idle" \/ sandbox_call[c].worker # w}

\* A worker nobody has used yet.
spawn_worker_process == CHOOSE w \in Unstarted : \A v \in Unstarted : w <= v

\* What a call is asked to do: its number, and what its code touches that it may not.
Touches == {"nothing", "a banned name", "a file outside"}
NextCall(c, touches) == [caller |-> c, number |-> calls_made[c] + 1, touches |-> touches]

\* The pool hands out a worker, and makes the call wait for one.
warm_pool_execute(c, touches) ==
    /\ runtime = "pool" /\ sandbox_call[c] = NoSandboxCall /\ calls_made[c] < MaxSandboxCalls
    /\ \E w \in idle :
          /\ idle' = idle \ {w}
          /\ SetSandboxCall(c, [at |-> "send", worker |-> w, request |-> NextCall(c, touches)])
    /\ calls_made' = [calls_made EXCEPT ![c] = @ + 1] /\ UNCHANGED <<runtime, worker>>

StartOwn(c, touches) ==
    /\ sandbox_call[c] = NoSandboxCall /\ calls_made[c] < MaxSandboxCalls /\ Unstarted # {}
    /\ worker' = [worker EXCEPT ![spawn_worker_process] = Fresh]
    /\ SetSandboxCall(c, [at |-> "send", worker |-> spawn_worker_process, request |-> NextCall(c, touches)])
    /\ calls_made' = [calls_made EXCEPT ![c] = @ + 1] /\ UNCHANGED <<runtime, idle>>

\* A process, or a container, of its own.
process_execute(c, touches) == runtime = "process" /\ StartOwn(c, touches)
gvisor_execute(c, touches) == runtime = "gvisor" /\ StartOwn(c, touches)

\* The request is written.  A worker that has gone cannot be written to: the error is not one
\* the pool replaces a worker for.
send_request(c) ==
    /\ sandbox_call[c].at = "send"
    /\ LET w == sandbox_call[c].worker
       IN IF worker[w].alive
          THEN /\ worker' = [worker EXCEPT ![w].requests = Append(@, sandbox_call[c].request)]
               /\ SetSandboxCall(c, [sandbox_call[c] EXCEPT !.at = "wait"])
          ELSE SetSandboxCall(c, NoSandboxCall) /\ UNCHANGED worker
    /\ UNCHANGED <<runtime, idle, calls_made>>

\* Code is refused when the ban-list finds something in it; a file is opened only below the
\* scratch directory, or for reading below the data lake.
check_ast(request) == request.touches # "a banned name"
_resolve_confined(request) == request.touches # "a file outside"

\* The worker answers the oldest request: the result, or the error or the timeout that stopped
\* it.
run_one(w) ==
    /\ worker[w].alive /\ worker[w].requests # <<>>
    /\ LET request == Head(worker[w].requests)
           success == check_ast(request) /\ _resolve_confined(request)
       IN \E ok \in {FALSE, success} :
            worker' = [worker EXCEPT ![w].requests = Tail(@),
                                     ![w].answers = Append(@, [request |-> request, success |-> ok])]
    /\ UNCHANGED <<runtime, idle, sandbox_call, calls_made>>

\* A limit or the system kills the worker; what it wrote can still be read.
WorkerDies(w) ==
    /\ worker[w].alive /\ worker' = [worker EXCEPT ![w].alive = FALSE, ![w].requests = <<>>]
    /\ UNCHANGED <<runtime, idle, sandbox_call, calls_made>>

terminate_worker(w) == [worker EXCEPT ![w] = NotStarted]

\* The first line there is to read is the answer; the worker goes back to the pool, or ends.
send_request_answered(c) ==
    /\ sandbox_call[c].at = "wait"
    /\ LET w == sandbox_call[c].worker
       IN /\ worker[w].answers # <<>>
          /\ SetSandboxCall(c, [at |-> "done", worker |-> w, request |-> sandbox_call[c].request,
                                answer |-> Head(worker[w].answers)])
          /\ IF runtime = "pool"
             THEN /\ idle' = idle \cup {w}
                  /\ worker' = [worker EXCEPT ![w].answers = Tail(@)]
             ELSE worker' = terminate_worker(w) /\ UNCHANGED idle
    /\ UNCHANGED <<runtime, calls_made>>

\* Mutant: the worker goes back to the pool whatever became of the call.
replace_worker_Kept(w) == idle' = idle \cup {w} /\ UNCHANGED worker

\* The worker is ended; the pool gets another in its place.
replace_worker(w) ==
    IF runtime = "pool" /\ Unstarted # {}
    THEN /\ idle' = idle \cup {spawn_worker_process}
         /\ worker' = [terminate_worker(w) EXCEPT ![spawn_worker_process] = Fresh]
    ELSE worker' = terminate_worker(w) /\ UNCHANGED idle

\* Nothing to read in time, or the end of the stream: the worker can no longer be trusted.
send_request_failed(c) ==
    /\ sandbox_call[c].at = "wait" /\ worker[sandbox_call[c].worker].answers = <<>>
    /\ runtime = "pool" => Unstarted # {}
    /\ replace_worker(sandbox_call[c].worker)
    /\ SetSandboxCall(c, NoSandboxCall) /\ UNCHANGED <<runtime, calls_made>>

CallerGoesOn(c) ==
    /\ sandbox_call[c].at = "done" /\ SetSandboxCall(c, NoSandboxCall)
    /\ UNCHANGED <<runtime, idle, worker, calls_made>>

\* Workers in use are left to their callers.
shutdown ==
    /\ idle # {} /\ idle' = {}
    /\ worker' = [w \in WorkerId |-> IF w \in idle THEN NotStarted ELSE worker[w]]
    /\ UNCHANGED <<runtime, sandbox_call, calls_made>>

SandboxNext ==
    \/ \E c \in Caller : \/ \E touches \in Touches :
                                \/ warm_pool_execute(c, touches) \/ process_execute(c, touches)
                                \/ gvisor_execute(c, touches)
                         \/ send_request(c) \/ send_request_answered(c) \/ send_request_failed(c)
                         \/ CallerGoesOn(c)
    \/ \E w \in WorkerId : run_one(w) \/ WorkerDies(w)
    \/ shutdown
-----------------------------------------------------------------------------
SandboxTypeOK ==
    /\ runtime \in {"gvisor", "process", "pool"} /\ idle \subseteq WorkerId
    /\ \A w \in WorkerId : worker[w].alive \in BOOLEAN
    /\ \A c \in Caller : sandbox_call[c].at \in {"idle", "send", "wait", "done"}

(* A call is answered by its own code: the answer of a call that was given up on, written   *)
(* after its caller had gone, never reaches the next call that worker serves, and code that *)
(* touches what it may not is never reported to have run (send_request, SandboxWarmPool).   *)
AnswerIsOwn ==
    \A c \in Caller : sandbox_call[c].at = "done" =>
        /\ sandbox_call[c].answer.request = sandbox_call[c].request
        /\ sandbox_call[c].answer.success => sandbox_call[c].request.touches = "nothing"
=============================================================================
