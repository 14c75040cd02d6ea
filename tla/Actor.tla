-------------------------------- MODULE Actor --------------------------------
(***************************************************************************)
(* GpuActor (gpu/gpu_runtime/actor.py): a single worker thread that drains *)
(* an unbounded FIFO queue of work items for concurrent HTTP threads.      *)
(*                                                                         *)
(* A request is one call of submit, made by a thread of its own; a closer  *)
(* is one call of close.  Each block held under _metrics_guard is one      *)
(* step, and so is each call of the queue; the worker is interruptible     *)
(* between them.  The metrics are the ones /metrics reports.               *)
(***************************************************************************)
EXTENDS Integers, Sequences, FiniteSets

CONSTANTS
    Requests,  \* calls of submit
    Closers,   \* calls of close
    Sentinel   \* the None put in the queue by close

ASSUME ActorAssumption ==
    Sentinel \notin Requests /\ IsFiniteSet(Requests) /\ IsFiniteSet(Closers)

VARIABLES
    queue,      \* _queue
    closed,     \* _closed
    worker,     \* where _run is
    item,       \* the worker's local item
    call,       \* what each submit is doing
    closer,     \* what each close is doing
    done,       \* items whose done event is set
    submitted, queued, started, active, maxActive, completed, failed,
    errors      \* items that ended with an error

counters == <<submitted, queued, started, active, maxActive, completed, failed>>
vars == <<queue, closed, worker, item, call, closer, done, counters, errors>>

Init ==
    /\ queue = <<>> /\ closed = FALSE
    /\ worker = "get" /\ item = Sentinel
    /\ call = [r \in Requests |-> "new"]
    /\ closer = [k \in Closers |-> "new"]
    /\ done = {} /\ errors = {}
    /\ submitted = 0 /\ queued = 0 /\ started = 0 /\ active = 0
    /\ maxActive = 0 /\ completed = 0 /\ failed = 0

-----------------------------------------------------------------------------
(* submit                                                                  *)

MayEnterAlways == TRUE
MayEnter == ~closed

SubmitAccepted(r) ==
    /\ call[r] = "new"
    /\ MayEnter
    /\ queue' = Append(queue, r)
    /\ submitted' = submitted + 1
    /\ queued' = queued + 1
    /\ call' = [call EXCEPT ![r] = "waiting"]
    /\ UNCHANGED <<closed, worker, item, closer, done, started, active,
                   maxActive, completed, failed, errors>>

SubmitRefused(r) ==
    /\ call[r] = "new"
    /\ closed
    /\ call' = [call EXCEPT ![r] = "refused"]
    /\ UNCHANGED <<queue, closed, worker, item, closer, done, counters, errors>>

\* done.wait() returns, with the item's result or its error.
Return(r) ==
    /\ call[r] = "waiting" /\ r \in done
    /\ call' = [call EXCEPT ![r] = IF r \in errors THEN "raised" ELSE "returned"]
    /\ UNCHANGED <<queue, closed, worker, item, closer, done, counters, errors>>

-----------------------------------------------------------------------------
(* _run                                                                    *)

WorkerVars == <<closed, call, closer>>

Get ==
    /\ worker = "get" /\ queue # <<>>
    /\ queue' = Tail(queue)
    /\ item' = Head(queue)
    /\ worker' = IF Head(queue) = Sentinel THEN "exited" ELSE "start"
    /\ UNCHANGED <<WorkerVars, done, counters, errors>>

StartKeepsQueued ==
    /\ worker = "start"
    /\ started' = started + 1
    /\ active' = active + 1
    /\ maxActive' = IF active + 1 > maxActive THEN active + 1 ELSE maxActive
    /\ worker' = "run"
    /\ UNCHANGED <<WorkerVars, queue, item, done, submitted, queued, completed, failed, errors>>
Start ==
    /\ worker = "start"
    /\ queued' = queued - 1
    /\ started' = started + 1
    /\ active' = active + 1
    /\ maxActive' = IF active + 1 > maxActive THEN active + 1 ELSE maxActive
    /\ worker' = "run"
    /\ UNCHANGED <<WorkerVars, queue, item, done, submitted, completed, failed, errors>>

\* The function returns or raises; the error is kept for the caller.
Run ==
    /\ worker = "run"
    /\ errors' \in {errors, errors \cup {item}}
    /\ worker' = "finish"
    /\ UNCHANGED <<WorkerVars, queue, item, done, counters>>

\* A function that calls submit or close on its own actor gets an error at
\* once: it would otherwise wait for the thread it is running on.
RunRecursiveWaits ==
    /\ worker = "run"
    /\ worker' = "blocked"
    /\ UNCHANGED <<WorkerVars, queue, item, done, counters, errors>>
RunRecursive ==
    /\ worker = "run"
    /\ errors' = errors \cup {item}
    /\ worker' = "finish"
    /\ UNCHANGED <<WorkerVars, queue, item, done, counters>>

Finish ==
    /\ worker = "finish"
    /\ failed' = IF item \in errors THEN failed + 1 ELSE failed
    /\ active' = active - 1
    /\ completed' = completed + 1
    /\ worker' = "set"
    /\ UNCHANGED <<WorkerVars, queue, item, done, submitted, queued, started, maxActive, errors>>

SetDone ==
    /\ worker = "set"
    /\ done' = done \cup {item}
    /\ worker' = "get"
    /\ UNCHANGED <<WorkerVars, queue, item, counters, errors>>

-----------------------------------------------------------------------------
(* close                                                                   *)

CloseFirst(k) ==
    /\ closer[k] = "new"
    /\ closer' = [closer EXCEPT ![k] = "joining"]
    /\ closed' = TRUE
    /\ queue' = IF closed THEN queue ELSE Append(queue, Sentinel)
    /\ UNCHANGED <<worker, item, call, done, counters, errors>>

JoinAtOnce(k) ==
    /\ closer[k] = "joining"
    /\ closer' = [closer EXCEPT ![k] = "closed"]
    /\ UNCHANGED <<queue, closed, worker, item, call, done, counters, errors>>
Join(k) ==
    /\ closer[k] = "joining" /\ worker = "exited"
    /\ closer' = [closer EXCEPT ![k] = "closed"]
    /\ UNCHANGED <<queue, closed, worker, item, call, done, counters, errors>>

-----------------------------------------------------------------------------
WorkerStep == Get \/ Start \/ Run \/ RunRecursive \/ Finish \/ SetDone

\* Every thread has returned and the worker waits in queue.get or has ended.
Rest ==
    /\ \A r \in Requests : call[r] \in {"refused", "returned", "raised"}
    /\ \A k \in Closers : closer[k] = "closed"
    /\ UNCHANGED vars

Next ==
    \/ \E r \in Requests : SubmitAccepted(r) \/ SubmitRefused(r) \/ Return(r)
    \/ \E k \in Closers : CloseFirst(k) \/ Join(k)
    \/ WorkerStep
    \/ Rest

\* The worker thread and every waiting thread are scheduled, and a backend
\* call that was started ends.  Nobody is obliged to call submit or close.
Fairness ==
    /\ WF_vars(WorkerStep)
    /\ \A r \in Requests : WF_vars(Return(r))
    /\ \A k \in Closers : WF_vars(Join(k))

Spec == Init /\ [][Next]_vars /\ Fairness

-----------------------------------------------------------------------------
(* Properties.                                                             *)

Working == worker \in {"start", "run", "finish", "set"}

Accepted == {r \in Requests : call[r] \in {"waiting", "returned", "raised"}}

Completed == done \cup (IF worker = "set" THEN {item} ELSE {})

\* Every variable has its type.
TypeOK ==
    /\ queue \in Seq(Requests \cup {Sentinel})
    /\ closed \in BOOLEAN
    /\ worker \in {"get", "start", "run", "finish", "set", "exited"}
    /\ item \in Requests \cup {Sentinel}
    /\ call \in [Requests -> {"new", "waiting", "refused", "returned", "raised"}]
    /\ closer \in [Closers -> {"new", "joining", "closed"}]
    /\ done \subseteq Requests /\ errors \subseteq Requests
    /\ submitted \in Nat /\ queued \in Nat /\ started \in Nat /\ active \in Nat
    /\ maxActive \in Nat /\ completed \in Nat /\ failed \in Nat

\* The metrics a reader sees between any two steps add up: what was submitted
\* is queued, active or completed, completions and failures are those of the
\* callers that get an answer, and at most one call is ever active, so the
\* backend is never entered twice at a time (actor.py:95-121).
MetricsAddUp ==
    /\ submitted = queued + active + completed
    /\ started = active + completed
    /\ maxActive <= 1
    /\ active = (IF worker \in {"run", "finish"} THEN 1 ELSE 0)
    /\ completed = Cardinality(Completed)
    /\ failed = Cardinality(errors \cap Completed)

\* No accepted request lands behind the sentinel, and the worker does not end
\* while an accepted one is unanswered (actor.py:80-81).
NothingBehindSentinel ==
    /\ \A i \in DOMAIN queue : queue[i] = Sentinel => i = Len(queue) /\ closed
    /\ worker = "exited" => queue = <<>> /\ Accepted \subseteq done

\* A call of close, the first or a concurrent one, returns only when all the
\* work accepted before it has been answered (actor.py:130).
CloseDrains == (\E k \in Closers : closer[k] = "closed") => Accepted \subseteq done

\* Every accepted request is answered, also when the actor is being closed.
EveryRequestAnswered ==
    \A r \in Requests : call[r] = "waiting" ~> call[r] \in {"returned", "raised"}

\* Every call of close returns, concurrent ones included (actor.py:123-131).
EveryCloseReturns ==
    \A k \in Closers : closer[k] = "joining" ~> closer[k] = "closed"

\* The actor is a FIFO service: an item is pending from its acceptance until
\* its done event is set, and the service stops when the worker ends.
Waiting ==
    IF queue # <<>> /\ queue[Len(queue)] = Sentinel
    THEN SubSeq(queue, 1, Len(queue) - 1)
    ELSE queue

Pending == (IF Working THEN <<item>> ELSE <<>>) \o Waiting

Contract == INSTANCE Service WITH
    pending <- Pending, answered <- done,
    refused <- {r \in Requests : call[r] = "refused"},
    shut <- closed, stopped <- worker = "exited"

\* GpuActor implements that service, its liveness included.
ImplementsService == Contract!Spec
=============================================================================
