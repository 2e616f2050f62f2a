----------------------------- MODULE ScanQueue -----------------------------
(***************************************************************************)
(* The write queue of the reader: src/.../hardened/scan_queue.py.           *)
(*                                                                         *)
(* A bounded FIFO of scan jobs, one worker thread (DMSScanQueue) that hands *)
(* them to the form writer one at a time, and the operations that the tray, *)
(* the control panel and the hotkeys call from threads of their own: pause, *)
(* resume, cancel the current write, clear the pending jobs, stop.          *)
(*                                                                         *)
(* An action is one stretch of code between two points where another thread *)
(* can see or change shared state.  threading.Event and queue.Queue are     *)
(* modelled by their contracts.  A cancellation event is identified by the  *)
(* job it was created for; NoJob names the one built by __init__.           *)
(***************************************************************************)
EXTENDS Naturals, Sequences

CONSTANTS
    MaxJobs,      \* bound: jobs submitted in a behaviour
    Capacity,     \* capacity of the queue (64 by default, 1 in production)
    Users,        \* threads that call the queue's operations
    UserActions   \* the operations those threads call

ASSUME QueueAssumption ==
    /\ MaxJobs \in Nat
    /\ Capacity \in Nat \ {0}
    /\ UserActions \subseteq
         {"pause", "resume", "cancel", "clear", "stop", "config"}

Jobs  == 1..MaxJobs
NoJob == 0

VARIABLES
    queue,        \* _queue
    submitting,   \* the job a submit() call holds between its two steps
    jobState,     \* state of each job ("new": not created, "refused": QueueFull)
    gate,         \* _pause: TRUE lets the worker take jobs
    stopped,      \* _stop
    current,      \* _current
    cancelRef,    \* the event the attribute _current_cancel refers to
    cancelled,    \* the events that are set
    wpc, wjob, wresult,      \* the worker thread
    upc, removed, uref,      \* each user thread: step, locals of its call (reset
                             \* when the call ends)
    lateStarts    \* history: writes begun since writing was last paused

queueVars  == <<queue, submitting, jobState>>
flagVars   == <<gate, stopped, lateStarts>>
cancelVars == <<current, cancelRef, cancelled>>
workerVars == <<wpc, wjob, wresult>>
userVars   == <<upc, removed, uref>>
sqVars     == <<queueVars, flagVars, cancelVars, workerVars, userVars>>

JobStates == {"new", "submitting", "queued", "taken", "writing",
              "completed", "failed", "cancelled", "refused"}
Terminal  == {"completed", "failed", "cancelled", "refused"}
Results   == {"none", "success", "failure", "exception"}

SQInit ==
    /\ queue = <<>> /\ submitting = NoJob
    /\ jobState = [j \in Jobs |-> "new"]
    /\ gate = TRUE /\ stopped = FALSE /\ lateStarts = 0
    /\ current = NoJob /\ cancelRef = NoJob /\ cancelled = {}
    /\ wpc = "loop" /\ wjob = NoJob /\ wresult = "none"
    /\ upc = [u \in Users |-> "idle"]
    /\ removed = [u \in Users |-> FALSE]
    /\ uref = [u \in Users |-> NoJob]

-----------------------------------------------------------------------------
(* submit: the _stop test and put_nowait are two steps; RuntimeError and    *)
(* QueueFullError leave the job out of the queue.                           *)

BeginSubmit(j) ==
    /\ submitting = NoJob /\ jobState[j] = "new"
    /\ ~stopped
    /\ submitting' = j
    /\ jobState' = [jobState EXCEPT ![j] = "submitting"]
    /\ UNCHANGED <<queue, flagVars, cancelVars, workerVars, userVars>>

HasRoom == Len(queue) < Capacity

PutNoWait ==
    /\ submitting # NoJob
    /\ submitting' = NoJob
    /\ \/ /\ HasRoom
          /\ queue' = Append(queue, submitting)
          /\ jobState' = [jobState EXCEPT ![submitting] = "queued"]
       \/ /\ ~HasRoom
          /\ queue' = queue
          /\ jobState' = [jobState EXCEPT ![submitting] = "refused"]
    /\ UNCHANGED <<flagVars, cancelVars, workerVars, userVars>>

-----------------------------------------------------------------------------
(* The worker thread: _run.                                                 *)

WorkerGoes(from, to) == wpc = from /\ wpc' = to

\* Regression: the loop no longer looks at _stop.
WorkerLoopsForEver ==
    /\ WorkerGoes("loop", "gate")
    /\ UNCHANGED <<wjob, wresult, queueVars, flagVars, cancelVars, userVars>>

WorkerLoop ==
    /\ wpc = "loop"
    /\ wpc' = IF stopped THEN "done" ELSE "gate"
    /\ UNCHANGED <<wjob, wresult, queueVars, flagVars, cancelVars, userVars>>

\* Regression: the result of _pause.wait is not looked at.
WorkerIgnoresGate ==
    /\ WorkerGoes("gate", "get")
    /\ UNCHANGED <<wjob, wresult, queueVars, flagVars, cancelVars, userVars>>

\* _pause.wait(0.25); when it times out the loop starts again.
WorkerGate ==
    /\ wpc = "gate"
    /\ wpc' = IF gate THEN "get" ELSE "loop"
    /\ UNCHANGED <<wjob, wresult, queueVars, flagVars, cancelVars, userVars>>

\* Regression: a job is looked at and left in the queue.
WorkerPeeks ==
    /\ queue # <<>>
    /\ WorkerGoes("get", "adopt")
    /\ wjob' = Head(queue) /\ queue' = queue
    /\ jobState' = [jobState EXCEPT ![Head(queue)] = "taken"]
    /\ UNCHANGED <<wresult, submitting, flagVars, cancelVars, userVars>>

\* _queue.get(timeout=0.25): from here on no clear_pending sees the job.
WorkerGet ==
    /\ queue # <<>>
    /\ WorkerGoes("get", "adopt")
    /\ wjob' = Head(queue) /\ queue' = Tail(queue)
    /\ jobState' = [jobState EXCEPT ![Head(queue)] = "taken"]
    /\ UNCHANGED <<wresult, submitting, flagVars, cancelVars, userVars>>

WorkerGetTimesOut ==
    /\ queue = <<>>
    /\ WorkerGoes("get", "loop")
    /\ UNCHANGED <<wjob, wresult, queueVars, flagVars, cancelVars, userVars>>

\* Under _lock: the job becomes current, with a cancellation event of its own.
WorkerAdopt ==
    /\ WorkerGoes("adopt", "check")
    /\ current' = wjob /\ cancelRef' = wjob
    /\ UNCHANGED <<cancelled, wjob, wresult, queueVars, flagVars, userVars>>

\* A job taken while the queue was being stopped is not written.
WorkerCancelsOnStop ==
    /\ stopped
    /\ WorkerGoes("check", "detach")
    /\ jobState' = [jobState EXCEPT ![wjob] = "cancelled"]
    /\ UNCHANGED <<wjob, wresult, queue, submitting, flagVars, cancelVars,
                   userVars>>

\* Regression: _stop is not tested again after the get.
WorkerStartsAnyway ==
    /\ WorkerGoes("check", "write")
    /\ jobState' = [jobState EXCEPT ![wjob] = "writing"]
    /\ lateStarts' = IF gate THEN lateStarts ELSE lateStarts + 1
    /\ UNCHANGED <<wjob, wresult, queue, submitting, gate, stopped,
                   cancelVars, userVars>>

\* writer.write is entered right after the _stop test.
WorkerStartsWrite ==
    /\ ~stopped
    /\ WorkerGoes("check", "write")
    /\ jobState' = [jobState EXCEPT ![wjob] = "writing"]
    /\ lateStarts' = IF gate THEN lateStarts ELSE lateStarts + 1
    /\ UNCHANGED <<wjob, wresult, queue, submitting, gate, stopped,
                   cancelVars, userVars>>

\* The form writer (external) returns or raises; it may complete although its
\* event was set meanwhile, because it looks at the event between actions only.
WriteEnds ==
    /\ WorkerGoes("write", "written")
    /\ wresult' \in {"success", "failure", "exception"}
    /\ UNCHANGED <<wjob, queueVars, flagVars, cancelVars, userVars>>

\* Regression: an exception of the writer ends the thread.
WriterKillsWorker ==
    /\ WorkerGoes("written", IF wresult = "exception" THEN "done" ELSE "settle")
    /\ UNCHANGED <<wjob, wresult, queueVars, flagVars, cancelVars, userVars>>

\* The wrapper's finally clause has run and writer.write returns to _run.
WriterReturns ==
    /\ WorkerGoes("written", "settle")
    /\ UNCHANGED <<wjob, wresult, queueVars, flagVars, cancelVars, userVars>>

Verdict ==
    CASE wresult = "success" -> "completed"
      [] wresult = "failure" /\ cancelRef \in cancelled -> "cancelled"
      [] OTHER -> "failed"

WorkerSettles ==
    /\ WorkerGoes("settle", "detach")
    /\ jobState' = [jobState EXCEPT ![wjob] = Verdict]
    /\ UNCHANGED <<wjob, wresult, queue, submitting, flagVars, cancelVars,
                   userVars>>

\* The finally clause: _current = None, task_done.  No thread will look at the
\* job's event again, so it is forgotten; cancelRef still refers to it.
WorkerDetaches ==
    /\ WorkerGoes("detach", "loop")
    /\ current' = NoJob /\ wjob' = NoJob /\ wresult' = "none"
    /\ cancelled' = {}
    /\ UNCHANGED <<cancelRef, queueVars, flagVars, userVars>>

Worker ==
    \/ WorkerLoop \/ WorkerGate \/ WorkerGet \/ WorkerGetTimesOut
    \/ WorkerAdopt \/ WorkerCancelsOnStop \/ WorkerStartsWrite
    \/ WriteEnds \/ WriterReturns \/ WorkerSettles \/ WorkerDetaches

-----------------------------------------------------------------------------
(* The operations of a user thread u.                                       *)

UserGoes(u, from, to) ==
    /\ upc[u] = from
    /\ upc' = [upc EXCEPT ![u] = to]

Calls(u, action) == action \in UserActions /\ upc[u] = "idle"

Pause(u) ==
    /\ Calls(u, "pause")
    /\ gate' = FALSE /\ lateStarts' = 0
    /\ UNCHANGED <<stopped, queueVars, cancelVars, workerVars, userVars>>

Resume(u) ==
    /\ Calls(u, "resume")
    /\ gate' = TRUE /\ lateStarts' = 0
    /\ UNCHANGED <<stopped, queueVars, cancelVars, workerVars, userVars>>

\* cancel_current, wholly under _lock; with no current job it returns False.
CancelCurrent(u) ==
    /\ Calls(u, "cancel") /\ current # NoJob
    /\ cancelled' = cancelled \union {cancelRef}
    /\ UNCHANGED <<current, cancelRef, queueVars, flagVars, workerVars, userVars>>

\* clear_pending: a get_nowait loop that other threads interleave with.
BeginClear(u) ==
    /\ Calls(u, "clear")
    /\ UserGoes(u, "idle", "clear")
    /\ UNCHANGED <<removed, uref, queueVars, flagVars, cancelVars, workerVars>>

\* Regression: the queue is emptied at once and one job marked.
ClearForgetsRest(u) ==
    /\ upc[u] = "clear" /\ queue # <<>>
    /\ queue' = <<>>
    /\ jobState' = [jobState EXCEPT ![Head(queue)] = "cancelled"]
    /\ removed' = [removed EXCEPT ![u] = TRUE]
    /\ UNCHANGED <<submitting, upc, uref, flagVars, cancelVars, workerVars>>

ClearNext(u) ==
    /\ upc[u] = "clear" /\ queue # <<>>
    /\ queue' = Tail(queue)
    /\ jobState' = [jobState EXCEPT ![Head(queue)] = "cancelled"]
    /\ removed' = [removed EXCEPT ![u] = TRUE]
    /\ UNCHANGED <<submitting, upc, uref, flagVars, cancelVars, workerVars>>

ClearEnds(u, next) ==
    /\ queue = <<>>
    /\ UserGoes(u, "clear", next)
    /\ removed' = [removed EXCEPT ![u] = FALSE]
    /\ UNCHANGED <<uref, queueVars, flagVars, cancelVars, workerVars>>

\* stop, one statement at a time.  The attribute _current_cancel is read
\* without _lock, so the worker may replace the event before it is set.
BeginStop(u) ==
    /\ Calls(u, "stop")
    /\ UserGoes(u, "idle", "stop")
    /\ UNCHANGED <<removed, uref, queueVars, flagVars, cancelVars, workerVars>>

StopFlag(u) ==
    /\ UserGoes(u, "stop", "open")
    /\ stopped' = TRUE
    /\ UNCHANGED <<gate, lateStarts, removed, uref, queueVars, cancelVars,
                   workerVars>>

StopOpensGate(u) ==
    /\ UserGoes(u, "open", "ref")
    /\ gate' = TRUE /\ lateStarts' = 0
    /\ UNCHANGED <<stopped, removed, uref, queueVars, cancelVars, workerVars>>

StopReadsEvent(u) ==
    /\ UserGoes(u, "ref", "event")
    /\ uref' = [uref EXCEPT ![u] = cancelRef]
    /\ UNCHANGED <<removed, queueVars, flagVars, cancelVars, workerVars>>

\* The join that follows waits at most three seconds and changes nothing.
StopSetsEvent(u, next) ==
    /\ UserGoes(u, "event", next)
    /\ cancelled' = cancelled \union {uref[u]}
    /\ uref' = [uref EXCEPT ![u] = NoJob]
    /\ UNCHANGED <<current, cancelRef, removed, queueVars, flagVars,
                   workerVars>>

UserContinues(u) ==
    \/ ClearNext(u) \/ ClearEnds(u, "idle")
    \/ StopFlag(u) \/ StopOpensGate(u) \/ StopReadsEvent(u)
    \/ StopSetsEvent(u, "idle")

UserStarts(u) == Pause(u) \/ Resume(u) \/ CancelCurrent(u) \/ BeginClear(u)

-----------------------------------------------------------------------------
\* One thread submits, and numbers its jobs in the order it submits them.
InSequence(j) == \A i \in 1..(j - 1) : jobState[i] # "new"

Producer ==
    \/ \E j \in Jobs : InSequence(j) /\ BeginSubmit(j)
    \/ PutNoWait

Next ==
    \/ Producer
    \/ Worker
    \/ \E u \in Users : UserStarts(u) \/ BeginStop(u) \/ UserContinues(u)

Spec == SQInit /\ [][Next]_sqVars

\* The threads run; nobody is obliged to submit, to pause or to resume.
Fairness ==
    /\ WF_sqVars(PutNoWait)
    /\ WF_sqVars(Worker)
    /\ \A u \in Users : WF_sqVars(UserContinues(u))

FairSpec == Spec /\ Fairness

-----------------------------------------------------------------------------
UserSteps == {"idle", "clear", "stop", "open", "ref", "event"}

QueueTypes ==
    /\ queue \in Seq(Jobs) /\ Len(queue) <= Capacity
    /\ submitting \in Jobs \union {NoJob}
    /\ jobState \in [Jobs -> JobStates]
    /\ gate \in BOOLEAN /\ stopped \in BOOLEAN /\ lateStarts \in Nat
    /\ current \in Jobs \union {NoJob}
    /\ cancelRef \in Jobs \union {NoJob}
    /\ cancelled \in SUBSET (Jobs \union {NoJob})
    /\ wpc \in {"loop", "gate", "get", "adopt", "check", "write", "written",
                "settle", "detach", "done"}
    /\ wjob \in Jobs \union {NoJob}
    /\ wresult \in Results
    /\ removed \in [Users -> BOOLEAN]
    /\ uref \in [Users -> Jobs \union {NoJob}]

\* The variables have their types, and put_nowait keeps the queue within its
\* capacity.
TypeOK == QueueTypes /\ upc \in [Users -> UserSteps]

\* The accepted jobs are all somewhere and nowhere twice: a queued job is in
\* the queue once, a taken or written one is the worker's.  get_nowait in
\* clear_pending and get in _run compete for the same entries.
JobsAccounted ==
    /\ \A j \in Jobs : jobState[j] = "queued" => \E i \in 1..Len(queue) : queue[i] = j
    /\ \A i \in 1..Len(queue) :
          /\ jobState[queue[i]] = "queued"
          /\ \A k \in 1..Len(queue) : queue[i] = queue[k] => i = k
    /\ \A j \in Jobs : jobState[j] \in {"taken", "writing"} => wjob = j

\* Documents reach the form in the order they were submitted: while a job is
\* written, every earlier one has its final state.  FIFO of _queue, one worker.
WriteOrder ==
    wpc \in {"write", "written", "settle"} =>
        \A i \in 1..(wjob - 1) : jobState[i] \in Terminal

Signalling(u) == upc[u] \in {"open", "ref", "event"}

\* Once stop() has signalled, a write still under way has its event set: the
\* lock-free read of _current_cancel cannot hit the previous job's event.
StoppedWriteIsCancelled ==
    stopped /\ (\A u \in Users : ~Signalling(u)) /\ wpc = "write"
        => wjob \in cancelled

\* Pausing does not stop a job the worker has already let through its gate,
\* but it lets through at most that one.
PauseAdmitsOneWrite == lateStarts <= 1

\* No thread revives a job: its final state is final.
OutcomeIsFinal ==
    [][\A j \in Jobs : jobState[j] \in Terminal => jobState'[j] = jobState[j]]_jobState

\* stop() ends the worker thread, also when it is called in the middle of a
\* write or on a paused queue.
StopEndsWorker == stopped ~> (wpc = "done")

\* When the pauses end, every queued job gets a final state, unless the queue
\* is stopped.  (Pausing again and again can starve the worker: it looks at the
\* gate four times a second.)
QueuedJobEnds ==
    <>[]gate =>
        \A j \in Jobs : jobState[j] = "queued" ~> (stopped \/ jobState[j] \in Terminal)

\* What the queue promises, as a specification: jobs accepted, written one at
\* a time in their order, or withdrawn before they start.
HoldsTaken   == wjob \in Jobs /\ jobState[wjob] = "taken"
WaitingJobs  == IF HoldsTaken THEN <<wjob>> \o queue ELSE queue
JobInWriting == IF wjob \in Jobs /\ jobState[wjob] = "writing" THEN wjob ELSE NoJob
DecidedJobs  == {j \in Jobs : jobState[j] \in {"completed", "failed", "cancelled"}}

Delivery == INSTANCE WriteDelivery WITH
    pending <- WaitingJobs, writing <- JobInWriting,
    done <- DecidedJobs, closed <- stopped
RefinesDelivery == Delivery!Spec

=============================================================================
