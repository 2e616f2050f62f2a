----------------------------- MODULE ScanCycle -----------------------------
(***************************************************************************)
(* The scan pipeline of the production runtime: from a frame read on the    *)
(* serial port to its document written into the form.  It composes          *)
(*                                                                         *)
(*   - the serial reader threads (_submit_serial_frame),                    *)
(*   - the single parser thread (_process_scan_async and                    *)
(*     _enqueue_validated_scan of ProductionDesktopApplication and of       *)
(*     SingleScanProductionApplication),                                    *)
(*   - ScanAdmission, the one-document-at-a-time ticket,                    *)
(*   - ScanQueue, the write queue with its worker thread,                   *)
(*   - the user threads that pause, clear, cancel, change the active        *)
(*     configuration or close the application.                              *)
(*                                                                         *)
(* A frame and the job made from it share a number.  What the parser says   *)
(* of a frame, and whether its window is still there, are choices of the    *)
(* environment.                                                             *)
(***************************************************************************)
EXTENDS ScanQueue, ScanAdmission, FiniteSets

CONSTANTS
    Readers,          \* serial manager threads
    Configs,          \* the form configurations on disk
    NoConfig,         \* captured_snapshot = None
    ConfigReads,      \* how load_active may end
    ProcessingSlots,  \* permits of _processing_slots (16)
    MaxChanges,       \* bound: configuration changes in a behaviour
    PromptThreads     \* no thread needs longer than the cooldown (2 s) for the
                      \* statements that follow the write of its own frame

ASSUME CycleAssumption ==
    /\ ProcessingSlots \in Nat \ {0}
    /\ MaxChanges \in Nat
    /\ PromptThreads \in BOOLEAN
    /\ NoConfig \notin Configs
    /\ ConfigReads \subseteq {"valid", "invalid", "raises"}
    /\ "free" \notin Users /\ "parser" \notin Users

VARIABLES
    frame,        \* where each frame is, until it becomes a job
    snap,         \* the snapshot captured for it: generation, configuration
    serialOn,     \* the serial manager has not been stopped
    rpc, rframe,  \* each reader thread and the frame it submits
    slots,        \* permits left
    pool,         \* work items of _parser_pool
    poolOpen,     \* the pool has not been shut down
    ppc, pframe,  \* the parser thread and its frame
    transition,   \* owner of _configuration_transition_lock
    gen, active,  \* ConfigurationService._generation, config_actual.json
    changes       \* configuration changes begun

readerVars == <<serialOn, rpc, rframe>>
poolVars   == <<slots, pool, poolOpen>>
parserVars == <<ppc, pframe>>
configVars == <<transition, gen, active, changes>>
frameVars  == <<frame, snap>>
cycleVars  == <<readerVars, poolVars, parserVars, configVars, frameVars>>
vars       == <<sqVars, admission, cycleVars>>

FrameStages == {"unread", "read", "ignored", "admitted", "rejected",
                "raised", "dropped", "job"}

CycleInit ==
    /\ SQInit /\ AdmissionInit
    /\ frame = [f \in Jobs |-> "unread"]
    /\ active \in Configs /\ gen = 0 /\ changes = 0 /\ transition = "free"
    /\ snap = [f \in Jobs |-> [gen |-> 0, cfg |-> NoConfig]]
    /\ serialOn = TRUE
    /\ rpc = [r \in Readers |-> "idle"] /\ rframe = [r \in Readers |-> NoJob]
    /\ slots = ProcessingSlots /\ pool = <<>> /\ poolOpen = TRUE
    /\ ppc = "idle" /\ pframe = NoJob

Becomes(f, stage) == frame' = [frame EXCEPT ![f] = stage]

-----------------------------------------------------------------------------
(* A serial reader thread: _read_frame delivers, _submit_serial_frame runs. *)

ReaderGoes(r, from, to) ==
    /\ rpc[r] = from
    /\ rpc' = [rpc EXCEPT ![r] = to]

ReaderReturns(r, from) ==
    /\ ReaderGoes(r, from, "idle")
    /\ rframe' = [rframe EXCEPT ![r] = NoJob]

FrameArrives(r, f) ==
    /\ serialOn
    /\ frame[f] = "unread" /\ \A e \in 1..(f - 1) : frame[e] # "unread"
    /\ ReaderGoes(r, "idle", "paused")
    /\ rframe' = [rframe EXCEPT ![r] = f]
    /\ Becomes(f, "read")
    /\ UNCHANGED <<serialOn, snap, sqVars, admission, poolVars, parserVars,
                   configVars>>

\* Frames read while writing is paused are discarded.
CheckPaused(r) ==
    /\ IF gate
       THEN ReaderGoes(r, "paused", "reserve") /\ UNCHANGED <<rframe, frame>>
       ELSE ReaderReturns(r, "paused") /\ Becomes(rframe[r], "ignored")
    /\ UNCHANGED <<serialOn, snap, sqVars, admission, poolVars,
                   parserVars, configVars>>

ReserveCycle(r) ==
    /\ Reserve
    /\ ReaderGoes(r, "reserve", "slot")
    /\ Becomes(rframe[r], "admitted")
    /\ UNCHANGED <<serialOn, rframe, snap, sqVars, poolVars, parserVars, configVars>>

\* "busy" or "cooldown".
FrameIgnored(r) ==
    /\ ~CanReserve
    /\ ReaderReturns(r, "reserve")
    /\ Becomes(rframe[r], "ignored")
    /\ UNCHANGED <<serialOn, snap, sqVars, admission, poolVars,
                   parserVars, configVars>>

AcquireSlot(r) ==
    /\ \/ slots > 0 /\ slots' = slots - 1 /\ ReaderGoes(r, "slot", "snapshot")
       \/ slots = 0 /\ slots' = slots /\ ReaderGoes(r, "slot", "release")
    /\ UNCHANGED <<serialOn, rframe, pool, poolOpen, sqVars, admission,
                   parserVars, configVars, frameVars>>

\* Regression: without a configuration the method returns at once.
CaptureGivesUp(r) ==
    /\ transition = "free"
    /\ \/ /\ ReaderGoes(r, "snapshot", "submit") /\ rframe' = rframe
          /\ snap' = [snap EXCEPT ![rframe[r]] = [gen |-> gen, cfg |-> active]]
       \/ "invalid" \in ConfigReads /\ ReaderReturns(r, "snapshot") /\ snap' = snap
    /\ UNCHANGED <<serialOn, frame, sqVars, admission, poolVars,
                   parserVars, configVars>>

\* load_active under the transition lock; a ConfigurationError leaves None.
CaptureSnapshot(r) ==
    /\ transition = "free"
    /\ ReaderGoes(r, "snapshot", "submit")
    /\ \E read \in ConfigReads \ {"raises"} :
          snap' = [snap EXCEPT ![rframe[r]] =
                     [gen |-> gen,
                      cfg |-> IF read = "valid" THEN active ELSE NoConfig]]
    /\ UNCHANGED <<serialOn, rframe, frame, sqVars, admission, poolVars,
                   parserVars, configVars>>

\* Only ConfigurationError is caught.  AtomicJsonError (config_actual.json
\* unreadable) and OSError (migration not written) leave both methods and end
\* in the serial manager's own handler: neither slot nor ticket is returned.
CaptureRaises(r) ==
    /\ transition = "free" /\ "raises" \in ConfigReads
    /\ ReaderReturns(r, "snapshot")
    /\ Becomes(rframe[r], "raised")
    /\ UNCHANGED <<serialOn, snap, sqVars, admission, poolVars,
                   parserVars, configVars>>

\* Regression: the permit is kept when submit raises.
SubmitKeepsPermit(r) ==
    /\ IF poolOpen
       THEN ReaderReturns(r, "submit") /\ pool' = Append(pool, rframe[r])
       ELSE ReaderGoes(r, "submit", "release") /\ UNCHANGED <<rframe, pool>>
    /\ UNCHANGED <<serialOn, slots, poolOpen, sqVars, admission, parserVars,
                   configVars, frameVars>>

\* After shutdown() submit raises, the permit is returned.
SubmitToPool(r) ==
    /\ IF poolOpen
       THEN /\ ReaderReturns(r, "submit")
            /\ pool' = Append(pool, rframe[r]) /\ slots' = slots
       ELSE /\ ReaderGoes(r, "submit", "release") /\ rframe' = rframe
            /\ pool' = pool /\ slots' = slots + 1
    /\ UNCHANGED <<serialOn, poolOpen, sqVars, admission, parserVars,
                   configVars, frameVars>>

ReleaseRefusedFrame(r) ==
    /\ ReaderReturns(r, "release")
    /\ ReleaseUnhanded
    /\ Becomes(rframe[r], "rejected")
    /\ UNCHANGED <<serialOn, snap, sqVars, poolVars, parserVars, configVars>>

ReaderContinues(r) ==
    \/ CheckPaused(r) \/ ReserveCycle(r) \/ FrameIgnored(r) \/ AcquireSlot(r)
    \/ CaptureSnapshot(r) \/ CaptureRaises(r) \/ SubmitToPool(r)
    \/ ReleaseRefusedFrame(r)

-----------------------------------------------------------------------------
(* The parser thread: _process_scan_async.  Its own statements change the   *)
(* parser's step, the lock, the slots and the frame's stage; the rest comes *)
(* from the operation of the queue or of the admission it calls.            *)

ParserGoes(from, to) == ppc = from /\ ppc' = to

\* Regression: the newest frame first.
ParserTakesNewest ==
    /\ pool # <<>>
    /\ ParserGoes("idle", "parse")
    /\ pframe' = pool[Len(pool)] /\ pool' = SubSeq(pool, 1, Len(pool) - 1)
    /\ UNCHANGED <<slots, poolOpen, sqVars, admission, readerVars, configVars,
                   frameVars>>

ParserTakes ==
    /\ pool # <<>>
    /\ ParserGoes("idle", "parse")
    /\ pframe' = Head(pool) /\ pool' = Tail(pool)
    /\ UNCHANGED <<slots, poolOpen, sqVars, admission, readerVars, configVars,
                   frameVars>>

\* Parser error, unknown format, semantic quality, or no captured snapshot.
ParserRejects ==
    /\ ParserGoes("parse", "slot")
    /\ Becomes(pframe, "rejected")
    /\ UNCHANGED <<pframe, snap, sqVars, admission, readerVars, poolVars, configVars>>

ParserRecognises ==
    /\ ParserGoes("parse", "lock")
    /\ snap[pframe].cfg # NoConfig
    /\ UNCHANGED <<pframe, sqVars, admission, readerVars, poolVars, configVars,
                   frameVars>>

\* From here to UnlockTransition the configuration cannot change.
LockTransition ==
    /\ transition = "free" /\ transition' = "parser"
    /\ ParserGoes("lock", "recheck")
    /\ UNCHANGED <<gen, active, changes, pframe, sqVars, admission, readerVars,
                   poolVars, frameVars>>

\* Regression: the snapshot's generation is not compared.
AnyGeneration == TRUE
SameGeneration == snap[pframe].gen = gen

\* The active configuration cannot be read now, its generation is another one,
\* or the data does not satisfy its fields.
RecheckRejects ==
    /\ ParserGoes("recheck", "unlock")
    /\ Becomes(pframe, "rejected")
    /\ UNCHANGED <<pframe, snap, sqVars, admission, readerVars, poolVars, configVars>>

RecheckPasses ==
    /\ ParserGoes("recheck", "enqueue")
    /\ "valid" \in ConfigReads /\ SameGeneration
    /\ UNCHANGED <<pframe, sqVars, admission, readerVars, poolVars, configVars,
                   frameVars>>

\* A duplicate, no target window, another window, or the queue is stopped.
EnqueueRejects ==
    /\ ParserGoes("enqueue", "unlock")
    /\ Becomes(pframe, "rejected")
    /\ UNCHANGED <<pframe, snap, sqVars, admission, readerVars, poolVars, configVars>>

SubmitJob ==
    /\ ParserGoes("enqueue", "put")
    /\ BeginSubmit(pframe)
    /\ Becomes(pframe, "job")
    /\ UNCHANGED <<pframe, snap, admission, readerVars, poolVars, configVars>>

PutJob ==
    /\ PutNoWait
    /\ ParserGoes("put", IF HasRoom THEN "mark" ELSE "unlock")
    /\ UNCHANGED <<pframe, admission, readerVars, poolVars, configVars, frameVars>>

MarkHanded ==
    /\ MarkHandedToQueue
    /\ ParserGoes("mark", "unlock")
    /\ UNCHANGED <<pframe, sqVars, readerVars, poolVars, configVars, frameVars>>

UnlockTransition ==
    /\ ParserGoes("unlock", "slot")
    /\ transition' = "free"
    /\ UNCHANGED <<gen, active, changes, pframe, sqVars, admission, readerVars,
                   poolVars, frameVars>>

ReleaseSlot ==
    /\ ParserGoes("slot", "release")
    /\ slots' = slots + 1
    /\ UNCHANGED <<pool, poolOpen, pframe, sqVars, admission, readerVars,
                   configVars, frameVars>>

\* Regression: a frame refused by the parser keeps the ticket.
ParserKeepsTicket ==
    /\ ParserGoes("release", "idle")
    /\ pframe' = NoJob
    /\ UNCHANGED <<sqVars, admission, readerVars, poolVars, configVars, frameVars>>

\* The finally clause of SingleScanProductionApplication, whatever happened.
ParserEnds ==
    /\ ParserGoes("release", "idle")
    /\ pframe' = NoJob
    /\ ReleaseUnhanded
    /\ UNCHANGED <<sqVars, readerVars, poolVars, configVars, frameVars>>

ParserThread ==
    \/ ParserTakes \/ ParserRejects \/ ParserRecognises \/ LockTransition
    \/ RecheckRejects \/ RecheckPasses \/ EnqueueRejects \/ SubmitJob
    \/ PutJob \/ MarkHanded \/ UnlockTransition \/ ReleaseSlot \/ ParserEnds

-----------------------------------------------------------------------------
(* The worker, whose writer is wrapped by _CooldownWriter: the cycle ends   *)
(* in the wrapper's finally clause, before write() returns to _run.         *)

WorkerThread ==
    /\ Worker
    /\ IF wpc = "written" THEN FinishWrittenCycle ELSE UNCHANGED admission
    /\ UNCHANGED cycleVars

\* A thread has statements left to run for a frame whose write has ended.
Straggler ==
    \/ wpc \in {"settle", "detach"}
    \/ ppc # "idle" /\ jobState[pframe] \in Terminal

TimePasses ==
    /\ CooldownElapses
    /\ PromptThreads => ~Straggler
    /\ UNCHANGED <<sqVars, cycleVars>>

-----------------------------------------------------------------------------
(* The user threads.                                                        *)

\* A second shutdown() finds stop_event set and returns.
UserCalls(u) ==
    /\ UserStarts(u) \/ (~stopped /\ BeginStop(u))
    /\ UNCHANGED <<admission, cycleVars>>

\* clear_pending ends; under a configuration change the lock is still held.
AfterClear(u) == IF transition = u THEN "unlock" ELSE "idle"

ClearLoop(u) ==
    /\ \/ ClearNext(u)
       \/ ClearEnds(u, IF removed[u] THEN "status" ELSE AfterClear(u))
    /\ UNCHANGED <<admission, cycleVars>>

\* _SingleCycleQueue.clear_pending: status() and cancel_pending are two steps.
ClearReadsStatus(u) ==
    /\ UserGoes(u, "status", IF current = NoJob THEN "cancel" ELSE AfterClear(u))
    /\ UNCHANGED <<removed, uref, queueVars, flagVars, cancelVars, workerVars,
                   admission, cycleVars>>

ClearCancelsCycle(u) ==
    /\ UserGoes(u, "cancel", AfterClear(u))
    /\ CancelPending
    /\ UNCHANGED <<removed, uref, queueVars, flagVars, cancelVars, workerVars,
                   cycleVars>>

\* _change_configuration and _toggle_favorites.
BeginChange(u) ==
    /\ Calls(u, "config") /\ changes < MaxChanges
    /\ transition = "free" /\ transition' = u /\ changes' = changes + 1
    /\ UserGoes(u, "idle", "set")
    /\ UNCHANGED <<gen, active, removed, uref, queueVars, flagVars, cancelVars,
                   workerVars, admission, readerVars, poolVars, parserVars,
                   frameVars>>

\* set_active, and the barrier of cancel_for_configuration_change follows.
SetActive(u) ==
    /\ UserGoes(u, "set", "clear")
    /\ active' \in Configs /\ gen' = gen + 1
    /\ UNCHANGED <<transition, changes, removed, uref, queueVars, flagVars, cancelVars,
                   workerVars, admission, readerVars, poolVars, parserVars,
                   frameVars>>

\* set_active raises: the choice is not valid, or the file is not written, and
\* then the generation has been incremented already.
SetActiveRaises(u) ==
    /\ UserGoes(u, "set", "unlock")
    /\ gen' \in {gen, gen + 1}
    /\ UNCHANGED <<transition, active, changes, removed, uref, queueVars, flagVars,
                   cancelVars, workerVars, admission, readerVars, poolVars,
                   parserVars, frameVars>>

EndChange(u) ==
    /\ UserGoes(u, "unlock", "idle")
    /\ transition' = "free"
    /\ UNCHANGED <<gen, active, changes, removed, uref, queueVars, flagVars,
                   cancelVars, workerVars, admission, readerVars, poolVars,
                   parserVars, frameVars>>

\* shutdown: the queue, then the serial manager, then the parser pool.
Shutdown(u) ==
    /\ \/ StopFlag(u) \/ StopOpensGate(u) \/ StopReadsEvent(u)
       \/ StopSetsEvent(u, "serial")
    /\ UNCHANGED <<admission, cycleVars>>

ShutdownSerial(u) ==
    /\ UserGoes(u, "serial", "pool")
    /\ serialOn' = FALSE
    /\ UNCHANGED <<rpc, rframe, removed, uref, queueVars, flagVars, cancelVars,
                   workerVars, admission, poolVars, parserVars, configVars,
                   frameVars>>

\* shutdown(wait=False, cancel_futures=True) drops the items not yet started.
ShutdownPool(u) ==
    /\ UserGoes(u, "pool", "idle")
    /\ poolOpen' = FALSE /\ pool' = <<>>
    /\ frame' = [f \in Jobs |-> IF \E i \in 1..Len(pool) : pool[i] = f
                                THEN "dropped" ELSE frame[f]]
    /\ UNCHANGED <<slots, snap, removed, uref, queueVars, flagVars, cancelVars,
                   workerVars, admission, readerVars, parserVars, configVars>>

UserThread(u) ==
    \/ ClearLoop(u) \/ ClearReadsStatus(u) \/ ClearCancelsCycle(u)
    \/ SetActive(u) \/ SetActiveRaises(u) \/ EndChange(u)
    \/ Shutdown(u) \/ ShutdownSerial(u) \/ ShutdownPool(u)

-----------------------------------------------------------------------------
CycleNext ==
    \/ \E r \in Readers : (\E f \in Jobs : FrameArrives(r, f)) \/ ReaderContinues(r)
    \/ ParserThread \/ WorkerThread \/ TimePasses
    \/ \E u \in Users : UserCalls(u) \/ BeginChange(u) \/ UserThread(u)

CycleSpec == CycleInit /\ [][CycleNext]_vars

\* Every started operation goes on, the worker and the parser are never
\* descheduled for ever, and time passes.  Frames and user calls may not come.
CycleFairness ==
    /\ \A r \in Readers : WF_vars(ReaderContinues(r))
    /\ WF_vars(ParserThread) /\ WF_vars(WorkerThread) /\ WF_vars(TimePasses)
    /\ \A u \in Users : WF_vars(UserThread(u))

FairCycleSpec == CycleSpec /\ CycleFairness

-----------------------------------------------------------------------------
\* A frame that has a permit: from the serial thread to the end of
\* _process_scan_async.  A frame that the closing pool cancelled keeps its permit,
\* which nobody asks for any more: submit() raises from then on.  A frame whose
\* load_active raised holds nothing, so its permit is lost.
HoldsSlot(f) ==
    \/ \E r \in Readers : rframe[r] = f /\ rpc[r] \in {"snapshot", "submit"}
    \/ \E i \in 1..Len(pool) : pool[i] = f
    \/ pframe = f /\ ppc # "release"
    \/ frame[f] = "dropped"

\* Permits of _processing_slots are neither lost nor returned twice while the
\* configuration can be read: each one is free or held by one frame on its way.
SlotsAccounted ==
    slots + Cardinality({f \in Jobs : HoldsSlot(f)}) = ProcessingSlots

\* The configuration barrier: unless a change is being made, every pending job
\* was read under the configuration that is active.  Neither a frame parsed
\* across a change nor one enqueued during it slips through.
ConfigurationBarrier ==
    (\A u \in Users : transition # u) =>
        \A i \in 1..Len(queue) : snap[queue[i]].cfg = active

\* A frame on its way: it holds the ticket or should.
Writing(f) == wjob = f /\ wpc \in {"write", "written"}
InCycle(f) ==
    \/ frame[f] = "admitted"
    \/ frame[f] = "job" /\ jobState[f] \in {"submitting", "queued", "taken"}
    \/ Writing(f)

\* With one reader, documents are written in the order they were passed: no
\* earlier frame is on its way while a later one is written.
ScanOrderKept ==
    wpc = "write" => \A e \in 1..(wjob - 1) : frame[e] # "read" /\ ~InCycle(e)

\* One document at a time from the parser to the end of its write, with any
\* number of readers.
AtMostOneCycle ==
    \A e, f \in Jobs : InCycle(e) /\ InCycle(f) => e = f

\* A ticket without a frame on its way, and without a thread that is about to
\* give it back, is lost: every later frame would be answered "busy".  (When
\* the application is closing nobody asks for it any more.)
ReservationHasOwner ==
    reserved /\ ~stopped =>
        \/ \E f \in Jobs : InCycle(f)
        \/ \E r \in Readers : rpc[r] = "release"
        \/ ppc \in {"unlock", "slot", "release"}
        \/ wpc = "written"
        \/ \E u \in Users : upc[u] \in {"clear", "status", "cancel"}

\* The ticket comes back once writing is not paused, or the queue is stopped.
CycleFrees == <>[]gate => [](reserved => <>(~reserved \/ stopped))

\* Every admitted frame is decided: rejected, or its job reaches a final state.
Decided(f) ==
    \/ frame[f] \in {"rejected", "dropped"}
    \/ frame[f] = "job" /\ jobState[f] \in Terminal
AdmittedFrameIsDecided ==
    <>[]gate => \A f \in Jobs : frame[f] = "admitted" ~> (Decided(f) \/ stopped)

\* docs/ARCHITECTURE.md: a configuration change cancels the current job too.
ChangeCancelsCurrent ==
    \A u \in Users :
        upc[u] = "unlock" /\ wpc = "write" /\ snap[wjob].cfg # active
            => wjob \in cancelled

=============================================================================
