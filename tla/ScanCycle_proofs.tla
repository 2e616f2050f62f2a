--------------------------- MODULE ScanCycle_proofs ---------------------------
(***************************************************************************)
(* Theorems about the scan pipeline, for any number of frames, reader and   *)
(* user threads, permits and configurations.  What holds of the queue by    *)
(* itself is taken from ScanQueue_proofs: a step of the pipeline makes one  *)
(* of the moves that its lemmas are about.                                  *)
(***************************************************************************)
EXTENDS ScanCycle, ScanQueue_proofs, FiniteSetTheorems, TLAPS

ReaderSteps == {"idle", "paused", "reserve", "slot", "snapshot", "submit", "release"}
ParserSteps == {"idle", "parse", "lock", "recheck", "enqueue", "put", "mark", "unlock",
                "slot", "release"}
CycleSteps  == UserSteps \union {"status", "cancel", "set", "unlock", "serial", "pool"}
Snapshots   == [gen : Nat, cfg : Configs \union {NoConfig}]

CycleTypes ==
    /\ QueueTypes /\ upc \in [Users -> CycleSteps]
    /\ frame \in [Jobs -> FrameStages] /\ snap \in [Jobs -> Snapshots]
    /\ rpc \in [Readers -> ReaderSteps] /\ rframe \in [Readers -> Jobs \union {NoJob}]
    /\ slots \in Nat /\ pool \in Seq(Jobs)
    /\ ppc \in ParserSteps /\ pframe \in Jobs \union {NoJob}
    /\ gen \in Nat /\ active \in Configs

TicketTypes == reserved \in BOOLEAN /\ handed \in BOOLEAN /\ cooldown \in BOOLEAN

-----------------------------------------------------------------------------
(* The inductive invariants, by theme.                                      *)

\* A frame is with one thread, or with one work item of the pool, at a time,
\* and its stage says how far that thread has come with it.
ReadersHold ==
    /\ \A r \in Readers :
          /\ rpc[r] = "idle" <=> rframe[r] = NoJob
          /\ rpc[r] \in {"paused", "reserve"} => frame[rframe[r]] = "read"
          /\ rpc[r] \in {"slot", "snapshot", "submit", "release"} => frame[rframe[r]] = "admitted"
    /\ \A r \in Readers, q \in Readers : rframe[r] = rframe[q] /\ rframe[r] # NoJob => r = q

PoolHolds ==
    \A i \in 1..Len(pool) :
        /\ frame[pool[i]] = "admitted"
        /\ \A k \in 1..Len(pool) : pool[i] = pool[k] => i = k
        /\ \A r \in Readers : rframe[r] # pool[i]

ParserHolds ==
    /\ ppc = "idle" <=> pframe = NoJob
    /\ ppc \in {"parse", "lock", "recheck", "enqueue"} => frame[pframe] = "admitted"
    /\ ppc \in {"put", "mark"} => frame[pframe] = "job"
    /\ ppc \in {"unlock", "slot", "release"} => frame[pframe] \in {"rejected", "job"}
    /\ pframe # NoJob => /\ \A r \in Readers : rframe[r] # pframe
                         /\ \A i \in 1..Len(pool) : pool[i] # pframe

\* A frame becomes a job when the parser submits it.
JobsAreFrames ==
    /\ submitting = IF ppc = "put" THEN pframe ELSE NoJob
    /\ \A f \in Jobs : jobState[f] = "new" <=> frame[f] # "job"

FramesInv == CycleTypes /\ ReadersHold /\ PoolHolds /\ ParserHolds /\ JobsAreFrames

HandOver == HandsInv /\ JobsAccounted

\* Who has the transition lock, and what its owner may be doing.
LockInv ==
    /\ transition = "parser" <=> ppc \in {"recheck", "enqueue", "put", "mark", "unlock"}
    /\ \A u \in Users : upc[u] \in {"set", "unlock"} => transition = u
    /\ \A u \in Users : transition = u => upc[u] \in {"set", "clear", "status", "cancel", "unlock"}

\* A snapshot of the present generation is of the active configuration, and the
\* queue holds others only while a change is emptying it.
SnapshotInv ==
    /\ \A f \in Jobs : /\ snap[f].gen <= gen
                       /\ snap[f].gen = gen => snap[f].cfg \in {active, NoConfig}
    /\ ppc \in {"lock", "recheck", "enqueue", "put"} => snap[pframe].cfg # NoConfig
    /\ ppc \in {"enqueue", "put"} => snap[pframe].gen = gen
    /\ (\A u \in Users : transition = u => upc[u] # "clear") =>
           \A i \in 1..Len(queue) : snap[queue[i]].cfg = active

\* Nobody takes a job out of the queue but the worker, and the cooldown outlasts
\* the statements that follow a write.
UsersLeaveJobs == UserActions \intersect {"clear", "config"} = {} /\ PromptThreads

\* No user is withdrawing a job or changing the configuration.
UsersCalm ==
    TicketTypes /\ \A u \in Users :
                      upc[u] \in {"idle", "stop", "open", "ref", "event", "serial", "pool"}

\* The ticket stands for the one frame on its way.  When the parser still has
\* a frame that is over, nobody else's has begun.
OneTicket ==
    /\ AtMostOneCycle
    /\ \A f \in Jobs : InCycle(f) => reserved
    /\ ppc \in {"unlock", "slot", "release"} /\ InCycle(pframe) => handed
    /\ ppc # "idle" /\ ~InCycle(pframe) =>
          /\ \A f \in Jobs : ~InCycle(f)
          /\ \/ reserved
             \/ /\ cooldown /\ frame[pframe] = "job"
                /\ wpc \in {"settle", "detach"} \/ jobState[pframe] \in Terminal

TicketInv == UsersCalm /\ OneTicket

Accepted(f) ==
    (frame[f] = "job" /\ jobState[f] \in {"queued", "taken"}) \/ Writing(f)

\* A user who has taken a job out of the queue and will return the ticket.
Withdraws(u) == (upc[u] = "clear" /\ removed[u]) \/ upc[u] \in {"status", "cancel"}

\* The parser's frame has been written, and nobody has got the ticket since.
WrittenAlready ==
    /\ ~reserved /\ cooldown
    /\ wpc \in {"settle", "detach"} \/ jobState[pframe] \in Terminal

\* A pending job is withdrawn under the transition lock only, a configuration can
\* be read, and the cooldown outlasts the statements that follow a write.
ClearsUnderLock == "clear" \notin UserActions /\ "raises" \notin ConfigReads /\ PromptThreads

\* Jobs are withdrawn under the transition lock, the worker's job is current only
\* while it has it, and who goes on with stop() has set the flag.
OwnerTypes ==
    /\ TicketTypes /\ (handed => reserved)
    /\ current # NoJob => wpc \in {"check", "write", "written", "settle", "detach"}
    /\ \A u \in Users : upc[u] \in {"clear", "status", "cancel"} => transition = u
    /\ \A u \in Users : upc[u] \in {"open", "ref", "event", "serial", "pool"} => stopped

\* Somebody gives a ticket back: the thread that has the frame, unless the ticket
\* was handed to the queue; then the worker, or who withdraws the job.
OwnerNow ==
    /\ wpc \in {"settle", "detach"} => ~reserved /\ cooldown
    /\ ppc = "mark" => Accepted(pframe) \/ WrittenAlready
    /\ reserved => \/ \E f \in Jobs : InCycle(f)
                   \/ ppc \in {"unlock", "slot", "release"} /\ ~handed
                   \/ \E u \in Users : Withdraws(u)
    /\ handed => \/ \E f \in Jobs : Accepted(f)
                 \/ \E u \in Users : Withdraws(u)

OwnerInv == OwnerTypes /\ (~stopped => OwnerNow)

\* With one reader every place holds later frames than the places behind it.
OneReaderThread == \A q \in Readers, r \in Readers : q = r

ReaderOrder ==
    /\ \A e \in Jobs, f \in Jobs : e < f /\ frame[e] = "unread" => frame[f] = "unread"
    /\ \A f \in Jobs : frame[f] = "read" => \E r \in Readers : rframe[r] = f
    /\ \A f \in Jobs : frame[f] = "admitted" =>
          \/ \E r \in Readers : rframe[r] = f
          \/ \E i \in 1..Len(pool) : pool[i] = f
          \/ pframe = f
    /\ \A r \in Readers : rframe[r] # NoJob =>
          \A f \in Jobs : frame[f] # "unread" => f <= rframe[r]

PoolOrder ==
    /\ \A i \in 1..Len(pool), k \in 1..Len(pool) : i < k => pool[i] < pool[k]
    /\ \A i \in 1..Len(pool) : \A f \in Jobs : frame[f] = "job" \/ f = pframe => f < pool[i]
    /\ pframe # NoJob => \A f \in Jobs : frame[f] = "job" => f <= pframe

QueueOrder ==
    /\ \A i \in 1..Len(queue), k \in 1..Len(queue) : i < k => queue[i] < queue[k]
    /\ \A i \in 1..Len(queue) : wjob < queue[i]

OrderInv == ReaderOrder /\ PoolOrder /\ QueueOrder


(* A step of the pipeline is an operation of the queue or leaves it alone.  *)
LEMMA CycleOps == CycleTypes /\ ParserHolds /\ [CycleNext]_vars => QueueOps
<1> SUFFICES ASSUME CycleTypes, ParserHolds, [CycleNext]_vars PROVE QueueOps
  OBVIOUS
<1>1. ASSUME upc' = upc, UNCHANGED <<queueVars, flagVars, cancelVars, workerVars, removed, uref>>
      PROVE  QueueOps
  BY <1>1 DEF QueueOps, StopsRest
<1>2. ASSUME NEW r \in Readers, NEW f \in Jobs, FrameArrives(r, f) PROVE QueueOps
  BY <1>1, <1>2 DEF FrameArrives, sqVars, userVars
<1>3. ASSUME NEW r \in Readers, ReaderContinues(r) PROVE QueueOps
  BY <1>1, <1>3 DEF ReaderContinues, CheckPaused, ReserveCycle, FrameIgnored, AcquireSlot,
     CaptureSnapshot, CaptureRaises, SubmitToPool, ReleaseRefusedFrame, sqVars, userVars
<1>4. CASE ParserThread
  <2>1. CASE SubmitJob
    <3>1. pframe \in Jobs
      BY <2>1 DEF SubmitJob, ParserGoes, ParserHolds, CycleTypes
    <3> QED BY <2>1, <3>1 DEF SubmitJob, QueueOps
  <2>2. CASE PutJob
    BY <2>2 DEF PutJob, QueueOps
  <2>3. CASE ~SubmitJob /\ ~PutJob
    BY <1>1, <1>4, <2>3 DEF ParserThread, ParserTakes, ParserRejects, ParserRecognises,
       LockTransition, RecheckRejects, RecheckPasses, EnqueueRejects, MarkHanded,
       UnlockTransition, ReleaseSlot, ParserEnds, sqVars, userVars
  <2> QED BY <2>1, <2>2, <2>3
<1>5. CASE WorkerThread
  BY <1>5 DEF WorkerThread, QueueOps
<1>6. CASE TimePasses
  BY <1>1, <1>6 DEF TimePasses, sqVars, userVars
<1>7. ASSUME NEW u \in Users, NEW from, NEW to, from \notin StopSteps, to \notin StopSteps,
             UserGoes(u, from, to),
             UNCHANGED <<queueVars, flagVars, cancelVars, workerVars, removed, uref>>
      PROVE  QueueOps
  <2>1. StopsRest
    BY <1>7 DEF StopsRest, UserGoes, CycleTypes
  <2> QED
    BY <1>7, <2>1 DEF QueueOps
<1>8. ASSUME NEW u \in Users, UserCalls(u) \/ BeginChange(u) PROVE QueueOps
  BY <1>7, <1>8 DEF UserCalls, BeginChange, QueueOps, UserMoves, StopSteps
<1>9. ASSUME NEW u \in Users, UserThread(u) PROVE QueueOps
  <2>1. AfterClear(u) \notin StopSteps
    BY DEF AfterClear, StopSteps
  <2>2. CASE ClearLoop(u) \/ Shutdown(u)
    BY <2>1, <2>2 DEF ClearLoop, Shutdown, QueueOps, UserMoves, StopSteps
  <2>3. CASE ClearReadsStatus(u) \/ ClearCancelsCycle(u)
    BY <1>7, <2>1, <2>3 DEF ClearReadsStatus, ClearCancelsCycle, StopSteps
  <2> QED BY <1>7, <1>9, <2>2, <2>3 DEF UserThread, SetActive, SetActiveRaises, EndChange,
       ShutdownSerial, ShutdownPool, StopSteps
<1>10. CASE UNCHANGED vars
  BY <1>1, <1>10 DEF vars, sqVars, userVars
<1> QED BY <1>2, <1>3, <1>4, <1>5, <1>6, <1>8, <1>9, <1>10 DEF CycleNext

(* What the worker, the clock and a user who does not close the pool leave   *)
(* alone.                                                                    *)
Elsewhere == UNCHANGED <<frame, snap, rpc, rframe, slots, pool, ppc, pframe, submitting>>

LEMMA OthersLeave ==
    ASSUME \/ WorkerThread \/ TimePasses \/ UNCHANGED vars
           \/ \E u \in Users : UserCalls(u) \/ BeginChange(u) \/ (UserThread(u) /\ ~ShutdownPool(u))
    PROVE  Elsewhere
<1> USE DEF cycleVars, readerVars, poolVars, parserVars, frameVars, queueVars
<1>1. CASE WorkerThread
  BY <1>1 DEF WorkerThread, Elsewhere, Worker, WorkerLoop, WorkerGate, WorkerGet,
     WorkerGetTimesOut, WorkerAdopt, WorkerCancelsOnStop, WorkerStartsWrite, WriteEnds,
     WriterReturns, WorkerSettles, WorkerDetaches
<1>2. CASE TimePasses \/ UNCHANGED vars
  BY <1>2 DEF TimePasses, vars, sqVars, Elsewhere
<1>3. ASSUME NEW u \in Users, UserCalls(u) \/ BeginChange(u) PROVE Elsewhere
  BY <1>3 DEF UserCalls, UserStarts, Pause, Resume, CancelCurrent, BeginClear, BeginStop,
     BeginChange, Elsewhere
<1>4. ASSUME NEW u \in Users, UserThread(u), ~ShutdownPool(u) PROVE Elsewhere
  BY <1>4 DEF UserThread, ClearLoop, ClearNext, ClearEnds, ClearReadsStatus, ClearCancelsCycle,
     SetActive, SetActiveRaises, EndChange, Shutdown, StopFlag, StopOpensGate, StopReadsEvent,
     StopSetsEvent, ShutdownSerial, Elsewhere
<1> QED BY <1>1, <1>2, <1>3, <1>4

-----------------------------------------------------------------------------
(* Types and places of the frames.                                          *)

\* What taking and adding a work item do to the pool.
LEMMA PoolTaken ==
    ASSUME CycleTypes, pool # <<>>
    PROVE  /\ Len(pool) \in Nat \ {0} /\ Head(pool) = pool[1] /\ pool[1] \in Jobs
           /\ Tail(pool) \in Seq(Jobs) /\ Len(Tail(pool)) = Len(pool) - 1
           /\ \A i \in 1..Len(Tail(pool)) : i + 1 \in 1..Len(pool) /\ Tail(pool)[i] = pool[i + 1]
  BY FirstTaken DEF CycleTypes

LEMMA UpcStep ==
    ASSUME CycleTypes, [CycleNext]_vars PROVE upc' \in [Users -> CycleSteps]
<1> USE DEF CycleTypes, sqVars, userVars
<1>1. CASE upc' = upc
  BY <1>1
<1>2. ASSUME NEW u \in Users, NEW from, NEW to \in CycleSteps, UserGoes(u, from, to)
      PROVE  upc' \in [Users -> CycleSteps]
  BY <1>2 DEF UserGoes
<1>3. ASSUME NEW r \in Readers, (\E f \in Jobs : FrameArrives(r, f)) \/ ReaderContinues(r)
      PROVE  upc' \in [Users -> CycleSteps]
  BY <1>1, <1>3 DEF FrameArrives, ReaderContinues, CheckPaused, ReserveCycle, FrameIgnored, AcquireSlot,
     CaptureSnapshot, CaptureRaises, SubmitToPool, ReleaseRefusedFrame
<1>4. CASE ParserThread \/ TimePasses \/ UNCHANGED vars
  BY <1>1, <1>4 DEF ParserThread, ParserTakes, ParserRejects, ParserRecognises,
       LockTransition, RecheckRejects, RecheckPasses, EnqueueRejects, MarkHanded, SubmitJob, PutJob,
       BeginSubmit, PutNoWait, UnlockTransition, ReleaseSlot, ParserEnds, TimePasses, vars
<1>5. CASE WorkerThread
  BY <1>1, <1>5 DEF WorkerThread, Worker, WorkerLoop, WorkerGate, WorkerGet,
     WorkerGetTimesOut, WorkerAdopt, WorkerCancelsOnStop, WorkerStartsWrite, WriteEnds,
     WriterReturns, WorkerSettles, WorkerDetaches
<1>6. ASSUME NEW u \in Users, UserCalls(u) \/ BeginChange(u) PROVE upc' \in [Users -> CycleSteps]
  BY <1>1, <1>2, <1>6 DEF UserCalls, UserStarts, Pause, Resume, CancelCurrent, BeginClear,
     BeginStop, BeginChange, CycleSteps, UserSteps
<1>7. ASSUME NEW u \in Users, UserThread(u) PROVE upc' \in [Users -> CycleSteps]
  BY <1>1, <1>2, <1>7 DEF UserThread, ClearLoop, ClearNext, ClearEnds, ClearReadsStatus,
     ClearCancelsCycle, AfterClear, SetActive, SetActiveRaises, EndChange, Shutdown, StopFlag,
     StopOpensGate, StopReadsEvent, StopSetsEvent, ShutdownSerial, ShutdownPool, CycleSteps,
     UserSteps
<1> QED BY <1>1, <1>3, <1>4, <1>5, <1>6, <1>7 DEF CycleNext

LEMMA CycleTypesStep == FramesInv /\ [CycleNext]_vars => CycleTypes'
<1> SUFFICES ASSUME FramesInv, [CycleNext]_vars PROVE CycleTypes'
  OBVIOUS
<1>1. QueueTypes' /\ upc' \in [Users -> CycleSteps]
  BY CycleOps, TypesKept, UpcStep DEF FramesInv, CycleTypes
<1> USE CycleAssumption DEF FramesInv, CycleTypes, FrameStages, Snapshots, ReaderSteps, ParserSteps,
        readerVars, poolVars, parserVars, configVars, frameVars, cycleVars, NoJob
<1>2. ASSUME NEW r \in Readers, NEW f \in Jobs, FrameArrives(r, f) PROVE CycleTypes'
  BY <1>1, <1>2 DEF FrameArrives, ReaderGoes, Becomes
<1>3. ASSUME NEW r \in Readers, ReaderContinues(r) PROVE CycleTypes'
  <2>1. CASE CheckPaused(r) \/ ReserveCycle(r) \/ FrameIgnored(r) \/ ReleaseRefusedFrame(r)
              \/ CaptureRaises(r)
    BY <1>1, <2>1 DEF CheckPaused, ReserveCycle, FrameIgnored, ReleaseRefusedFrame,
       CaptureRaises, ReaderGoes, ReaderReturns, Becomes
  <2>2. CASE AcquireSlot(r)
    <3>1. slots' \in Nat
      BY <2>2 DEF AcquireSlot
    <3> QED BY <1>1, <2>2, <3>1 DEF AcquireSlot, ReaderGoes
  <2>3. CASE CaptureSnapshot(r)
    <3>1. PICK c \in Configs \union {NoConfig} :
             snap' = [snap EXCEPT ![rframe[r]] = [gen |-> gen, cfg |-> c]]
      BY <2>3 DEF CaptureSnapshot
    <3>2. snap' \in [Jobs -> Snapshots]
      BY <3>1
    <3> QED BY <1>1, <2>3, <3>2 DEF CaptureSnapshot, ReaderGoes
  <2>4. CASE SubmitToPool(r)
    <3>1. rframe[r] \in Jobs
      BY <2>4 DEF SubmitToPool, ReaderGoes, ReaderReturns, ReadersHold
    <3>2. Append(pool, rframe[r]) \in Seq(Jobs)
      BY <3>1, LastAdded
    <3>3. pool' \in Seq(Jobs)
      BY <2>4, <3>2 DEF SubmitToPool
    <3>4. slots' \in Nat
      BY <2>4 DEF SubmitToPool
    <3>5. rpc' \in [Readers -> ReaderSteps] /\ rframe' \in [Readers -> Jobs \union {NoJob}]
      BY <2>4 DEF SubmitToPool, ReaderGoes, ReaderReturns
    <3> QED BY <1>1, <2>4, <3>3, <3>4, <3>5 DEF SubmitToPool
  <2> QED BY <1>3, <2>1, <2>2, <2>3, <2>4 DEF ReaderContinues
<1>4. CASE ParserThread
  <2>1. CASE ParserTakes
    BY <1>1, <2>1, PoolTaken DEF ParserTakes, ParserGoes
  <2>2. CASE ParserRejects \/ RecheckRejects \/ EnqueueRejects
    BY <1>1, <2>2 DEF ParserRejects, RecheckRejects, EnqueueRejects, ParserGoes, Becomes
  <2>3. CASE ParserRecognises \/ LockTransition \/ RecheckPasses \/ MarkHanded \/ UnlockTransition
    BY <1>1, <2>3 DEF ParserRecognises, LockTransition, RecheckPasses, MarkHanded,
       UnlockTransition, ParserGoes
  <2>4. CASE SubmitJob \/ PutJob
    BY <1>1, <2>4 DEF SubmitJob, PutJob, ParserGoes, Becomes
  <2>5. CASE ReleaseSlot \/ ParserEnds
    BY <1>1, <2>5 DEF ReleaseSlot, ParserEnds, ParserGoes
  <2> QED BY <1>4, <2>1, <2>2, <2>3, <2>4, <2>5 DEF ParserThread
<1>5. CASE Elsewhere /\ UNCHANGED <<gen, active>>
  BY <1>1, <1>5 DEF Elsewhere
<1>6. CASE WorkerThread \/ TimePasses \/ UNCHANGED vars
  BY <1>5, <1>6, OthersLeave DEF WorkerThread, TimePasses, vars
<1>7. ASSUME NEW u \in Users, UserCalls(u) \/ BeginChange(u) PROVE CycleTypes'
  BY <1>5, <1>7, OthersLeave DEF UserCalls, BeginChange
<1>8. ASSUME NEW u \in Users, UserThread(u) PROVE CycleTypes'
  <2>1. CASE SetActive(u) \/ SetActiveRaises(u)
    <3>1. gen' \in Nat /\ active' \in Configs
      BY <2>1 DEF SetActive, SetActiveRaises
    <3> QED BY <1>1, <2>1, <3>1 DEF SetActive, SetActiveRaises
  <2>2. CASE ShutdownPool(u)
    <3>1. frame' \in [Jobs -> FrameStages] /\ pool' = <<>>
      BY <2>2 DEF ShutdownPool
    <3> QED BY <1>1, <2>2, <3>1 DEF ShutdownPool
  <2>3. CASE ~SetActive(u) /\ ~SetActiveRaises(u) /\ ~ShutdownPool(u)
    BY <1>5, <1>8, <2>3, OthersLeave DEF UserThread, ClearLoop, ClearReadsStatus,
       ClearCancelsCycle, EndChange, Shutdown, ShutdownSerial
  <2> QED BY <2>1, <2>2, <2>3
<1> QED BY <1>2, <1>3, <1>4, <1>6, <1>7, <1>8 DEF CycleNext

-----------------------------------------------------------------------------
(* A reader goes on with its frame, or gives it up.                         *)
ReaderPasses(r) ==
    /\ rframe' = rframe
    /\ \/ rpc[r] = "paused" /\ rpc' = [rpc EXCEPT ![r] = "reserve"] /\ frame' = frame
       \/ /\ rpc[r] = "reserve" /\ rpc' = [rpc EXCEPT ![r] = "slot"]
          /\ frame' = [frame EXCEPT ![rframe[r]] = "admitted"]

ReaderDrops(r) ==
    /\ rpc' = [rpc EXCEPT ![r] = "idle"] /\ rframe' = [rframe EXCEPT ![r] = NoJob]
    /\ \/ /\ rpc[r] \in {"paused", "reserve"}
          /\ frame' = [frame EXCEPT ![rframe[r]] = "ignored"]
       \/ rpc[r] = "release" /\ frame' = [frame EXCEPT ![rframe[r]] = "rejected"]
       \/ rpc[r] = "snapshot" /\ frame' = [frame EXCEPT ![rframe[r]] = "raised"]

LEMMA ReaderShapes ==
    ASSUME NEW r \in Readers,
           \/ CheckPaused(r) \/ ReserveCycle(r) \/ FrameIgnored(r) \/ ReleaseRefusedFrame(r)
           \/ CaptureRaises(r)
    PROVE  /\ UNCHANGED <<pool, ppc, pframe, queueVars, workerVars, transition, upc>>
           /\ ReaderPasses(r) \/ ReaderDrops(r)
           /\ rpc[r] # "idle"
<1> USE DEF ReaderGoes, ReaderReturns, Becomes, ReaderPasses, ReaderDrops, sqVars, userVars,
        poolVars, parserVars, configVars
<1>1. CASE CheckPaused(r)
  BY <1>1 DEF CheckPaused
<1>2. CASE ReserveCycle(r)
  BY <1>2 DEF ReserveCycle
<1>3. CASE FrameIgnored(r)
  BY <1>3 DEF FrameIgnored
<1>4. CASE ReleaseRefusedFrame(r)
  BY <1>4 DEF ReleaseRefusedFrame
<1>5. CASE CaptureRaises(r)
  BY <1>5 DEF CaptureRaises
<1> QED BY <1>1, <1>2, <1>3, <1>4, <1>5

\* A frame stays with one thread or one work item, at the stage its place says.
LEMMA PlacesStep ==
    FramesInv /\ [CycleNext]_vars => ReadersHold' /\ PoolHolds' /\ ParserHolds'
<1> SUFFICES ASSUME FramesInv, [CycleNext]_vars PROVE ReadersHold' /\ PoolHolds' /\ ParserHolds'
  OBVIOUS
<1> DEFINE Placed == ReadersHold /\ PoolHolds /\ ParserHolds
<1> USE DEF FramesInv, CycleTypes, ReadersHold, PoolHolds, ParserHolds, Jobs, NoJob, FrameStages,
        ReaderSteps, ParserSteps, readerVars, poolVars, parserVars, frameVars, cycleVars
<1>0. /\ Len(pool) \in Nat
      /\ \A i \in 1..Len(pool) : pool[i] \in Jobs
  BY ElementOfSeq, LenProperties
<1>1. ASSUME NEW r \in Readers, NEW f \in Jobs, FrameArrives(r, f) PROVE Placed'
  BY <1>0, <1>1, SMTT(30) DEF FrameArrives, ReaderGoes, Becomes
<1>2. ASSUME NEW r \in Readers, ReaderContinues(r) PROVE Placed'
  <2>0. rpc[r] # "idle" => rframe[r] \in Jobs
    OBVIOUS
  <2>1. CASE CheckPaused(r) \/ ReserveCycle(r) \/ FrameIgnored(r) \/ ReleaseRefusedFrame(r)
              \/ CaptureRaises(r)
    <3>1. /\ rframe[r] \in Jobs /\ UNCHANGED <<pool, ppc, pframe>>
          /\ ReaderPasses(r) \/ ReaderDrops(r)
      BY <2>0, <2>1, ReaderShapes
    <3>2. ReadersHold'
      <4>1. CASE ReaderPasses(r)
        <5>1. /\ \A q \in Readers : q # r => rpc'[q] = rpc[q] /\ rframe'[q] # rframe[r]
              /\ rpc'[r] \in {"reserve", "slot"} /\ rframe' = rframe
              /\ rpc'[r] = "reserve" => frame'[rframe[r]] = "read"
              /\ rpc'[r] = "slot" => frame'[rframe[r]] = "admitted"
              /\ \A f \in Jobs : f # rframe[r] => frame'[f] = frame[f]
          <6>1. /\ rpc[r] # "idle" /\ rframe[r] # NoJob
                /\ \A q \in Readers : q # r => rframe[q] # rframe[r]
            BY <2>1, ReaderShapes
          <6>2. CASE rpc[r] = "paused" /\ rpc' = [rpc EXCEPT ![r] = "reserve"] /\ frame' = frame
            BY <4>1, <6>1, <6>2 DEF ReaderPasses
          <6>3. CASE rpc' = [rpc EXCEPT ![r] = "slot"] /\ frame' = [frame EXCEPT ![rframe[r]] = "admitted"]
            BY <3>1, <4>1, <6>1, <6>3 DEF ReaderPasses
          <6> QED BY <4>1, <6>2, <6>3 DEF ReaderPasses
        <5> QED BY <3>1, <5>1
      <4>2. CASE ReaderDrops(r)
        <5>1. PICK stage \in {"ignored", "rejected", "raised"} :
                /\ frame' = [frame EXCEPT ![rframe[r]] = stage]
                /\ rpc' = [rpc EXCEPT ![r] = "idle"] /\ rframe' = [rframe EXCEPT ![r] = NoJob]
          BY <4>2 DEF ReaderDrops
        <5> QED BY <3>1, <5>1
      <4> QED BY <3>1, <4>1, <4>2
    <3>6. /\ rframe' = rframe \/ rframe' = [rframe EXCEPT ![r] = NoJob]
          /\ \A f \in Jobs : f # rframe[r] => frame'[f] = frame[f]
      <4>1. frame' = frame \/ \E stage : frame' = [frame EXCEPT ![rframe[r]] = stage]
        BY <3>1 DEF ReaderPasses, ReaderDrops
      <4>2. rframe' = rframe \/ rframe' = [rframe EXCEPT ![r] = NoJob]
        BY <3>1 DEF ReaderPasses, ReaderDrops
      <4> QED BY <4>1, <4>2
    <3>3. \A q \in Readers : rframe'[q] \in {rframe[q], NoJob}
      BY <3>6
    <3>4. PoolHolds'
      BY <1>0, <3>1, <3>3, <3>6
    <3>5. ParserHolds'
      BY <3>1, <3>3, <3>6
    <3> QED BY <3>2, <3>4, <3>5
  <2>2. CASE AcquireSlot(r) \/ CaptureSnapshot(r)
    <3>1. UNCHANGED <<frame, rframe, pool, ppc, pframe>>
      BY <2>2 DEF AcquireSlot, CaptureSnapshot
    <3>2. /\ rpc[r] \in {"slot", "snapshot"}
          /\ \E to \in {"snapshot", "submit", "release"} : rpc' = [rpc EXCEPT ![r] = to]
      BY <2>2 DEF AcquireSlot, CaptureSnapshot, ReaderGoes
    <3> QED BY <3>1, <3>2
  <2>3. CASE SubmitToPool(r) /\ ~poolOpen
    BY <2>3 DEF SubmitToPool, ReaderGoes
  <2>4. CASE SubmitToPool(r) /\ poolOpen
    <3>1. /\ rframe[r] \in Jobs /\ frame[rframe[r]] = "admitted" /\ pool' = Append(pool, rframe[r])
          /\ rpc' = [rpc EXCEPT ![r] = "idle"] /\ rframe' = [rframe EXCEPT ![r] = NoJob]
          /\ UNCHANGED <<frame, ppc, pframe>>
      BY <2>4 DEF SubmitToPool, ReaderGoes, ReaderReturns
    <3>2. /\ Len(pool') = Len(pool) + 1 /\ pool'[Len(pool) + 1] = rframe[r]
          /\ \A i \in 1..Len(pool) : pool'[i] = pool[i]
      BY <3>1, LastAdded
    <3>3. \A i \in 1..Len(pool') : i \in 1..Len(pool) \/ i = Len(pool) + 1
      BY <1>0, <3>2
    <3>4. ReadersHold'
      BY <3>1
    <3>5. PoolHolds'
      BY <1>0, <3>1, <3>2, <3>3
    <3>6. ParserHolds'
      BY <1>0, <3>1, <3>2, <3>3
    <3> QED BY <3>4, <3>5, <3>6
  <2> QED BY <1>2, <2>1, <2>2, <2>3, <2>4 DEF ReaderContinues
<1>3. CASE ParserThread
  <2>1. CASE ParserTakes
    <3>1. /\ Len(pool) \in Nat \ {0} /\ pframe' = pool[1]
          /\ Len(pool') = Len(pool) - 1
          /\ \A i \in 1..Len(pool') : i + 1 \in 1..Len(pool) /\ pool'[i] = pool[i + 1]
      BY <2>1, PoolTaken DEF ParserTakes
    <3>2. /\ ppc = "idle" /\ ppc' = "parse" /\ 1 \in 1..Len(pool)
          /\ UNCHANGED <<frame, rpc, rframe>>
      BY <2>1, <3>1 DEF ParserTakes, ParserGoes
    <3>3. PoolHolds'
      <4>1. ASSUME NEW i \in 1..Len(pool'), NEW k \in 1..Len(pool'), pool'[i] = pool'[k] PROVE i = k
        <5>1. i + 1 = k + 1
          BY <3>1, <4>1
        <5> QED BY <3>1, <5>1
      <4> QED BY <3>1, <3>2, <4>1
    <3>4. ParserHolds'
      <4>1. \A i \in 1..Len(pool') : pool'[i] # pool[1]
        BY <3>1, <3>2
      <4> QED BY <1>0, <3>1, <3>2, <4>1
    <3> QED BY <3>2, <3>3, <3>4
  <2>2. CASE ParserRejects \/ RecheckRejects \/ EnqueueRejects \/ SubmitJob
    <3>1. /\ pframe \in Jobs /\ \E stage \in {"rejected", "job"} : Becomes(pframe, stage)
          /\ UNCHANGED <<rpc, rframe, pool, pframe>>
      BY <2>2 DEF ParserRejects, RecheckRejects, EnqueueRejects, SubmitJob, ParserGoes
    <3>2. ReadersHold' /\ PoolHolds'
      BY <1>0, <3>1 DEF Becomes
    <3>3. ParserHolds'
      BY <2>2, <3>1 DEF ParserRejects, RecheckRejects, EnqueueRejects, SubmitJob, ParserGoes, Becomes
    <3> QED BY <3>2, <3>3
  <2>3. CASE ParserRecognises \/ LockTransition \/ RecheckPasses \/ MarkHanded \/ UnlockTransition
             \/ PutJob \/ ReleaseSlot \/ ParserEnds
    <3>1. UNCHANGED <<frame, rpc, rframe, pool>> /\ pframe' \in {pframe, NoJob}
      BY <2>3 DEF ParserRecognises, LockTransition, RecheckPasses, MarkHanded, PutJob,
         UnlockTransition, ReleaseSlot, ParserEnds
    <3>2. ReadersHold' /\ PoolHolds'
      BY <3>1
    <3>3. CASE ParserEnds
      BY <3>1, <3>3 DEF ParserEnds, ParserGoes
    <3>4. CASE PutJob \/ MarkHanded \/ UnlockTransition \/ ReleaseSlot
      BY <3>1, <3>4 DEF PutJob, MarkHanded, UnlockTransition, ReleaseSlot, ParserGoes
    <3>5. CASE ParserRecognises \/ LockTransition \/ RecheckPasses
      BY <3>1, <3>5 DEF ParserRecognises, LockTransition, RecheckPasses, ParserGoes
    <3> QED BY <2>3, <3>2, <3>3, <3>4, <3>5
  <2> QED BY <1>3, <2>1, <2>2, <2>3 DEF ParserThread
<1>4. ASSUME NEW u \in Users, ShutdownPool(u) PROVE Placed'
  <2>1. /\ UNCHANGED <<rpc, rframe, ppc, pframe>> /\ pool' = <<>> /\ Len(pool') = 0
        /\ \A f \in Jobs : (\A i \in 1..Len(pool) : pool[i] # f) => frame'[f] = frame[f]
    BY <1>4, EmptySeq DEF ShutdownPool
  <2> QED BY <2>1
<1>5. CASE Elsewhere
  BY <1>5 DEF Elsewhere
<1> QED BY <1>1, <1>2, <1>3, <1>4, <1>5, OthersLeave DEF CycleNext

-----------------------------------------------------------------------------
(* The frames and their jobs.                                               *)

\* Only submit() makes a job of a number that had none.
LEMMA JobsStayBegun ==
    ASSUME QueueTypes, HandOver,
           \/ PutNoWait \/ Worker \/ UNCHANGED <<queueVars, workerVars>>
           \/ \E u \in Users : ClearNext(u)
    PROVE  \A f \in Jobs : jobState'[f] = "new" <=> jobState[f] = "new"
<1> DEFINE Kept == \A f \in Jobs : jobState'[f] = "new" <=> jobState[f] = "new"
           Settled(j, state) == /\ j \in Jobs /\ jobState[j] # "new" /\ state # "new"
                                /\ jobState' = [jobState EXCEPT ![j] = state]
<1>0. ASSUME NEW j, NEW state, Settled(j, state) PROVE Kept
  BY <1>0 DEF QueueTypes
<1>1. CASE PutNoWait
  <2>1. submitting \in Jobs /\ jobState[submitting] = "submitting"
    BY <1>1 DEF PutNoWait, QueueTypes, HandOver, HandsInv
  <2>2. Settled(submitting, "queued") \/ Settled(submitting, "refused")
    BY <1>1, <2>1 DEF PutNoWait
  <2> QED BY <1>0, <2>2
<1>2. CASE WorkerGet \/ \E u \in Users : ClearNext(u)
  <2>1. queue # <<>> /\ \E state \in {"taken", "cancelled"} :
                            jobState' = [jobState EXCEPT ![Head(queue)] = state]
    BY <1>2 DEF WorkerGet, ClearNext
  <2>2. Head(queue) \in Jobs /\ jobState[Head(queue)] = "queued"
    BY <2>1, HeadLeaves DEF HandOver, JobsAccounted, QueueTypes
  <2>3. PICK state \in {"taken", "cancelled"} : Settled(Head(queue), state)
    BY <2>1, <2>2
  <2> QED BY <1>0, <2>3
<1>3. CASE Worker /\ ~WorkerGet
  <2>1. \/ jobState' = jobState
        \/ \E state \in {"writing", "completed", "cancelled", "failed"} :
              /\ wpc \in {"check", "settle"} /\ jobState' = [jobState EXCEPT ![wjob] = state]
    BY <1>3 DEF Worker, WorkerLoop, WorkerGate, WorkerGetTimesOut, WorkerAdopt, WorkerCancelsOnStop,
       WorkerStartsWrite, WriteEnds, WriterReturns, WorkerSettles, WorkerDetaches, WorkerGoes,
       Verdict, queueVars
  <2>2. wpc \in {"check", "settle"} => wjob \in Jobs /\ jobState[wjob] # "new"
    BY DEF QueueTypes, HandOver, HandsInv
  <2>3. jobState' = jobState \/ \E state : Settled(wjob, state)
    BY <2>1, <2>2
  <2> QED BY <1>0, <2>3
<1>4. CASE UNCHANGED <<queueVars, workerVars>>
  BY <1>4 DEF queueVars
<1> QED BY <1>1, <1>2, <1>3, <1>4

LEMMA JobsStep == FramesInv /\ HandOver /\ [CycleNext]_vars => JobsAreFrames'
<1> SUFFICES ASSUME FramesInv, HandOver, [CycleNext]_vars PROVE JobsAreFrames'
  OBVIOUS
<1> USE DEF FramesInv, JobsAreFrames, CycleTypes, Jobs, NoJob, FrameStages, readerVars, poolVars,
        parserVars, frameVars, cycleVars, queueVars
<1>1. ASSUME NEW r \in Readers, (\E f \in Jobs : FrameArrives(r, f)) \/ ReaderContinues(r)
      PROVE  JobsAreFrames'
  <2>1. UNCHANGED <<queueVars, workerVars, ppc, pframe>>
    BY <1>1 DEF FrameArrives, ReaderContinues, CheckPaused, ReserveCycle, FrameIgnored, AcquireSlot,
       CaptureSnapshot, CaptureRaises, SubmitToPool, ReleaseRefusedFrame, sqVars
  <2>2. \A f \in Jobs : frame'[f] = "job" <=> frame[f] = "job"
    <3>1. CASE \E f \in Jobs : FrameArrives(r, f)
      BY <3>1 DEF FrameArrives, Becomes
    <3>2. CASE \/ CheckPaused(r) \/ ReserveCycle(r) \/ FrameIgnored(r) \/ CaptureRaises(r)
               \/ ReleaseRefusedFrame(r)
      <4>1. rpc[r] # "idle" /\ (ReaderPasses(r) \/ ReaderDrops(r))
        BY <3>2, ReaderShapes
      <4>2. rframe[r] \in Jobs /\ frame[rframe[r]] # "job"
        BY <4>1 DEF ReadersHold, ReaderSteps
      <4>3. frame' = frame \/ \E stage \in {"admitted", "ignored", "rejected", "raised"} :
                                frame' = [frame EXCEPT ![rframe[r]] = stage]
        BY <4>1 DEF ReaderPasses, ReaderDrops
      <4> QED BY <4>2, <4>3
    <3>4. CASE AcquireSlot(r) \/ CaptureSnapshot(r) \/ SubmitToPool(r)
      BY <3>4 DEF AcquireSlot, CaptureSnapshot, SubmitToPool
    <3> QED BY <1>1, <3>1, <3>2, <3>4 DEF ReaderContinues
  <2> QED BY <2>1, <2>2
<1>2. CASE SubmitJob
  BY <1>2 DEF SubmitJob, BeginSubmit, ParserGoes, ParserHolds, Becomes, QueueTypes
<1>3. CASE PutJob
  <2>1. \A f \in Jobs : jobState'[f] = "new" <=> jobState[f] = "new"
    BY <1>3, JobsStayBegun DEF PutJob
  <2>2. submitting' = NoJob /\ ppc' # "put" /\ frame' = frame
    BY <1>3 DEF PutJob, PutNoWait, ParserGoes
  <2> QED BY <2>1, <2>2
<1>4. CASE ParserThread /\ ~SubmitJob /\ ~PutJob
  <2>1. UNCHANGED queueVars /\ ppc # "put" /\ ppc' # "put"
    BY <1>4 DEF ParserThread, ParserTakes, ParserRejects, ParserRecognises, LockTransition,
       RecheckRejects, RecheckPasses, EnqueueRejects, MarkHanded, UnlockTransition, ReleaseSlot,
       ParserEnds, ParserGoes, sqVars
  <2>2. \A f \in Jobs : frame'[f] = "job" <=> frame[f] = "job"
    BY <1>4 DEF ParserThread, ParserTakes, ParserRejects, ParserRecognises, LockTransition,
       RecheckRejects, RecheckPasses, EnqueueRejects, MarkHanded, UnlockTransition, ReleaseSlot,
       ParserEnds, ParserGoes, ParserHolds, Becomes
  <2> QED BY <2>1, <2>2
<1>5. ASSUME NEW u \in Users, ShutdownPool(u) PROVE JobsAreFrames'
  <2>1. UNCHANGED <<queueVars, ppc, pframe>> /\ \A f \in Jobs : frame'[f] = "job" <=> frame[f] = "job"
    BY <1>5, ElementOfSeq DEF ShutdownPool, PoolHolds
  <2> QED BY <2>1
<1>6. CASE WorkerThread
  BY <1>6, OthersLeave, JobsStayBegun DEF WorkerThread, Elsewhere
<1>7. CASE TimePasses \/ UNCHANGED vars
  BY <1>7 DEF TimePasses, vars, sqVars
<1>8. ASSUME NEW u \in Users, UserCalls(u) \/ BeginChange(u) \/ (UserThread(u) /\ ~ShutdownPool(u))
      PROVE  JobsAreFrames'
  <2>1. Elsewhere
    BY <1>8, OthersLeave
  <2>2. ClearNext(u) \/ UNCHANGED <<queueVars, workerVars>>
    BY <1>8 DEF UserCalls, UserStarts, Pause, Resume, CancelCurrent, BeginClear, BeginStop,
       BeginChange, UserThread, ClearLoop, ClearEnds, ClearReadsStatus, ClearCancelsCycle,
       SetActive, SetActiveRaises, EndChange, Shutdown, StopFlag, StopOpensGate, StopReadsEvent,
       StopSetsEvent, ShutdownSerial
  <2>3. \A f \in Jobs : jobState'[f] = "new" <=> jobState[f] = "new"
    BY <2>2, JobsStayBegun
  <2> QED BY <2>1, <2>3 DEF Elsewhere
<1> QED BY <1>1, <1>2, <1>3, <1>4, <1>5, <1>6, <1>7, <1>8 DEF CycleNext

LEMMA FramesStep ==
    FramesInv /\ HandOver /\ [CycleNext]_vars => FramesInv' /\ HandOver'
<1> SUFFICES ASSUME FramesInv, HandOver, [CycleNext]_vars PROVE FramesInv' /\ HandOver'
  OBVIOUS
<1>1. QueueMoves
  BY CycleOps, OpsMove DEF FramesInv
<1>2. HandOver'
  BY <1>1, HandsStep, AccountStep DEF HandOver, FramesInv, CycleTypes
<1> QED BY <1>2, CycleTypesStep, PlacesStep, JobsStep DEF FramesInv

LEMMA FramesStart == CycleInit => FramesInv /\ HandOver
<1> SUFFICES ASSUME CycleInit PROVE FramesInv /\ HandOver
  OBVIOUS
<1> USE QueueAssumption, CycleAssumption, EmptySeq
    DEF CycleInit, SQInit, AdmissionInit, Jobs, NoJob, FrameStages, JobStates, Results
<1>1. QueueTypes
  <2>1. queue \in Seq(Jobs) /\ Len(queue) <= Capacity
    OBVIOUS
  <2>2. jobState \in [Jobs -> JobStates]
    OBVIOUS
  <2> QED BY <2>1, <2>2 DEF QueueTypes
<1>2. CycleTypes
  BY <1>1 DEF CycleTypes, CycleSteps, UserSteps, Snapshots, ReaderSteps, ParserSteps
<1>3. ReadersHold /\ PoolHolds /\ ParserHolds /\ JobsAreFrames
  BY DEF ReadersHold, PoolHolds, ParserHolds, JobsAreFrames
<1> QED BY <1>1, <1>2, <1>3 DEF FramesInv, HandOver, HandsInv, JobsAccounted

-----------------------------------------------------------------------------
(* The permits.                                                             *)

Holders == {f \in Jobs : HoldsSlot(f)}

LEMMA HoldersFinite == IsFiniteSet(Holders) /\ Cardinality(Holders) \in Nat
<1>1. IsFiniteSet(Jobs)
  BY QueueAssumption, FS_Interval DEF Jobs
<1> QED BY <1>1, FS_Subset, FS_CardinalityType DEF Holders

\* A thread that takes a permit becomes a holder, one that returns it was one,
\* and all others only pass their frames on, if no load_active raises.
LEMMA HoldersMove ==
    ASSUME "raises" \notin ConfigReads, FramesInv, FramesInv', [CycleNext]_vars
    PROVE  \/ slots' = slots /\ Holders' = Holders
           \/ \E f \in Jobs \ Holders : slots' = slots - 1 /\ Holders' = Holders \union {f}
           \/ \E f \in Holders : slots' = slots + 1 /\ Holders' = Holders \ {f}
<1> DEFINE Moves == \/ slots' = slots /\ Holders' = Holders
                    \/ \E f \in Jobs \ Holders : slots' = slots - 1 /\ Holders' = Holders \union {f}
                    \/ \E f \in Holders : slots' = slots + 1 /\ Holders' = Holders \ {f}
<1>a. ASSUME slots' = slots, \A f \in Jobs : HoldsSlot(f)' <=> HoldsSlot(f) PROVE Moves
  BY <1>a DEF Holders
<1>b. ASSUME NEW e \in Jobs, HoldsSlot(e), slots' = slots + 1,
             \A f \in Jobs : HoldsSlot(f)' <=> HoldsSlot(f) /\ f # e
      PROVE  Moves
  <2>1. e \in Holders /\ Holders' = Holders \ {e}
    BY <1>b DEF Holders
  <2> QED BY <1>b, <2>1
<1>c. ASSUME NEW e \in Jobs, ~HoldsSlot(e), slots' = slots - 1,
             \A f \in Jobs : HoldsSlot(f)' <=> HoldsSlot(f) \/ f = e
      PROVE  Moves
  <2>1. e \in Jobs \ Holders /\ Holders' = Holders \union {e}
    BY <1>c DEF Holders
  <2> QED BY <1>c, <2>1
<1> USE DEF FramesInv, CycleTypes, ReadersHold, PoolHolds, ParserHolds, HoldsSlot, Jobs, NoJob,
        FrameStages, ReaderSteps, ParserSteps, readerVars, poolVars, parserVars, frameVars,
        cycleVars
<1>0. /\ Len(pool) \in Nat
      /\ \A i \in 1..Len(pool) : pool[i] \in Jobs
  BY ElementOfSeq, LenProperties
<1>1. ASSUME NEW r \in Readers, NEW f \in Jobs, FrameArrives(r, f) PROVE Moves
  BY <1>a, <1>1 DEF FrameArrives, ReaderGoes, Becomes
<1>2. ASSUME NEW r \in Readers, ReaderContinues(r) PROVE Moves
  <2>1. CASE CheckPaused(r) \/ ReserveCycle(r) \/ FrameIgnored(r) \/ ReleaseRefusedFrame(r)
    <3>1. /\ rframe[r] \in Jobs /\ rpc[r] \in {"paused", "reserve", "release"}
          /\ \E to \in {"idle", "reserve", "slot"} : rpc' = [rpc EXCEPT ![r] = to]
          /\ rframe' = rframe \/ rframe' = [rframe EXCEPT ![r] = NoJob]
          /\ frame' = frame \/ \E stage \in {"ignored", "admitted", "rejected"} :
                                 frame' = [frame EXCEPT ![rframe[r]] = stage]
          /\ UNCHANGED <<pool, ppc, pframe, slots>>
      BY <2>1 DEF CheckPaused, ReserveCycle, FrameIgnored, ReleaseRefusedFrame,
         ReaderGoes, ReaderReturns, Becomes
    <3>2. \A f \in Jobs : frame'[f] = "dropped" <=> frame[f] = "dropped"
      BY <3>1
    <3>3. \A f \in Jobs, q \in Readers : rframe'[q] = f /\ rpc'[q] \in {"snapshot", "submit"}
                                      <=> rframe[q] = f /\ rpc[q] \in {"snapshot", "submit"}
      BY <3>1
    <3>4. \A f \in Jobs : HoldsSlot(f)' <=> HoldsSlot(f)
      BY <3>1, <3>2, <3>3
    <3> QED BY <1>a, <3>1, <3>4
  <2>2. CASE CaptureSnapshot(r)
    <3>1. /\ rpc[r] = "snapshot" /\ rpc' = [rpc EXCEPT ![r] = "submit"]
          /\ UNCHANGED <<rframe, frame, pool, ppc, pframe, slots>>
      BY <2>2 DEF CaptureSnapshot, ReaderGoes
    <3>2. \A f \in Jobs : HoldsSlot(f)' <=> HoldsSlot(f)
      BY <3>1
    <3> QED BY <1>a, <3>1, <3>2
  <2>7. ~CaptureRaises(r)
    BY DEF CaptureRaises
  <2>3. CASE AcquireSlot(r) /\ slots = 0
    BY <1>a, <2>3 DEF AcquireSlot, ReaderGoes
  <2>4. CASE AcquireSlot(r) /\ slots > 0
    <3>1. /\ rframe[r] \in Jobs /\ rpc[r] = "slot" /\ slots' = slots - 1
          /\ rpc' = [rpc EXCEPT ![r] = "snapshot"]
          /\ UNCHANGED <<rframe, frame, pool, ppc, pframe>>
      BY <2>4 DEF AcquireSlot, ReaderGoes
    <3>2. ~HoldsSlot(rframe[r])
      BY <3>1
    <3>3. \A f \in Jobs : HoldsSlot(f)' <=> HoldsSlot(f) \/ f = rframe[r]
      BY <3>1
    <3> QED BY <1>c, <3>1, <3>2, <3>3
  <2>5. CASE SubmitToPool(r) /\ ~poolOpen
    <3>1. /\ rframe[r] \in Jobs /\ rpc[r] = "submit" /\ slots' = slots + 1
          /\ rpc' = [rpc EXCEPT ![r] = "release"]
          /\ UNCHANGED <<rframe, frame, pool, ppc, pframe>>
      BY <2>5 DEF SubmitToPool, ReaderGoes
    <3>2. HoldsSlot(rframe[r])
      BY <3>1
    <3>3. \A f \in Jobs : HoldsSlot(f)' <=> HoldsSlot(f) /\ f # rframe[r]
      BY <3>1
    <3> QED BY <1>b, <3>1, <3>2, <3>3
  <2>6. CASE SubmitToPool(r) /\ poolOpen
    <3>1. /\ rframe[r] \in Jobs /\ rpc[r] = "submit" /\ slots' = slots
          /\ pool' = Append(pool, rframe[r])
          /\ rpc' = [rpc EXCEPT ![r] = "idle"] /\ rframe' = [rframe EXCEPT ![r] = NoJob]
          /\ UNCHANGED <<frame, ppc, pframe>>
      BY <2>6 DEF SubmitToPool, ReaderGoes, ReaderReturns
    <3>2. /\ Len(pool') = Len(pool) + 1 /\ pool'[Len(pool) + 1] = rframe[r]
          /\ \A i \in 1..Len(pool) : pool'[i] = pool[i]
      BY <3>1, LastAdded
    <3>3. \A f \in Jobs : (\E i \in 1..Len(pool') : pool'[i] = f) <=>
                          (\E i \in 1..Len(pool) : pool[i] = f) \/ f = rframe[r]
      <4>1. \A i \in 1..Len(pool') : i \in 1..Len(pool) \/ i = Len(pool) + 1
        BY <1>0, <3>2
      <4>2. Len(pool) + 1 \in 1..Len(pool') /\ \A i \in 1..Len(pool) : i \in 1..Len(pool')
        BY <1>0, <3>2
      <4>3. ASSUME NEW f \in Jobs, NEW i \in 1..Len(pool'), pool'[i] = f
            PROVE  (\E k \in 1..Len(pool) : pool[k] = f) \/ f = rframe[r]
        <5>1. CASE i \in 1..Len(pool)
          BY <3>2, <4>3, <5>1
        <5>2. CASE i = Len(pool) + 1
          BY <3>2, <4>3, <5>2
        <5> QED BY <4>1, <5>1, <5>2
      <4>4. ASSUME NEW f \in Jobs, NEW i \in 1..Len(pool), pool[i] = f
            PROVE  \E k \in 1..Len(pool') : pool'[k] = f
        BY <3>2, <4>2, <4>4
      <4>5. \E k \in 1..Len(pool') : pool'[k] = rframe[r]
        BY <3>2, <4>2
      <4> QED BY <4>3, <4>4, <4>5
    <3>4. \A f \in Jobs : HoldsSlot(f)' <=> HoldsSlot(f)
      BY <3>1, <3>3
    <3> QED BY <1>a, <3>1, <3>4
  <2> QED BY <1>2, <2>1, <2>2, <2>3, <2>4, <2>5, <2>6, <2>7 DEF ReaderContinues, AcquireSlot
<1>3. CASE ParserThread
  <2>1. CASE ParserTakes
    <3>1. /\ Len(pool) \in Nat \ {0} /\ pframe' = pool[1]
          /\ Len(pool') = Len(pool) - 1
          /\ \A i \in 1..Len(pool') : i + 1 \in 1..Len(pool) /\ pool'[i] = pool[i + 1]
      BY <2>1, PoolTaken DEF ParserTakes
    <3>2. /\ ppc = "idle" /\ ppc' = "parse" /\ pframe = NoJob
          /\ UNCHANGED <<frame, rpc, rframe, slots>>
      BY <2>1 DEF ParserTakes, ParserGoes
    <3>3. \A i \in 1..Len(pool) : i = 1 \/ (i - 1 \in 1..Len(pool') /\ pool'[i - 1] = pool[i])
      BY <3>1
    <3>4. \A f \in Jobs : (\E i \in 1..Len(pool) : pool[i] = f) <=>
                          (\E i \in 1..Len(pool') : pool'[i] = f) \/ f = pool[1]
      <4>1. 1 \in 1..Len(pool)
        BY <3>1
      <4>2. ASSUME NEW f \in Jobs, NEW i \in 1..Len(pool), pool[i] = f
            PROVE  (\E k \in 1..Len(pool') : pool'[k] = f) \/ f = pool[1]
        <5>1. CASE i = 1
          BY <4>2, <5>1
        <5>2. CASE i # 1
          <6>1. i - 1 \in 1..Len(pool') /\ pool'[i - 1] = f
            BY <3>3, <4>2, <5>2
          <6> QED BY <6>1
        <5> QED BY <5>1, <5>2
      <4>3. ASSUME NEW f \in Jobs, NEW i \in 1..Len(pool'), pool'[i] = f
            PROVE  \E k \in 1..Len(pool) : pool[k] = f
        BY <3>1, <4>3
      <4> QED BY <4>1, <4>2, <4>3
    <3>5. \A f \in Jobs : HoldsSlot(f)' <=> HoldsSlot(f)
      BY <3>1, <3>2, <3>4
    <3> QED BY <1>a, <3>2, <3>5
  <2>2. CASE ParserRejects \/ RecheckRejects \/ EnqueueRejects \/ SubmitJob
    BY <1>a, <2>2 DEF ParserRejects, RecheckRejects, EnqueueRejects, SubmitJob, ParserGoes, Becomes
  <2>3. CASE ParserRecognises \/ LockTransition \/ RecheckPasses \/ MarkHanded \/ UnlockTransition
             \/ PutJob \/ ParserEnds
    BY <1>a, <2>3 DEF ParserRecognises, LockTransition, RecheckPasses, MarkHanded, PutJob,
       UnlockTransition, ParserEnds, ParserGoes
  <2>4. CASE ReleaseSlot
    <3>1. /\ pframe \in Jobs /\ ppc = "slot" /\ ppc' = "release" /\ slots' = slots + 1
          /\ UNCHANGED <<rpc, rframe, frame, pool, pframe>>
      BY <2>4 DEF ReleaseSlot, ParserGoes
    <3>2. HoldsSlot(pframe)
      BY <3>1
    <3>3. \A f \in Jobs : HoldsSlot(f)' <=> HoldsSlot(f) /\ f # pframe
      BY <3>1
    <3> QED BY <1>b, <3>1, <3>2, <3>3
  <2> QED BY <1>3, <2>1, <2>2, <2>3, <2>4 DEF ParserThread
<1>4. ASSUME NEW u \in Users, ShutdownPool(u) PROVE Moves
  <2>1. /\ UNCHANGED <<rpc, rframe, ppc, pframe, slots>> /\ pool' = <<>> /\ Len(pool') = 0
        /\ \A f \in Jobs : frame'[f] = IF \E i \in 1..Len(pool) : pool[i] = f
                                       THEN "dropped" ELSE frame[f]
    BY <1>4, EmptySeq DEF ShutdownPool
  <2>2. \A f \in Jobs : HoldsSlot(f)' <=> HoldsSlot(f)
    BY <2>1
  <2> QED BY <1>a, <2>1, <2>2
<1>5. CASE Elsewhere
  BY <1>a, <1>5 DEF Elsewhere
<1> QED BY <1>1, <1>2, <1>3, <1>4, <1>5, OthersLeave DEF CycleNext

LEMMA SlotsStep ==
    ASSUME "raises" \notin ConfigReads
    PROVE  FramesInv /\ SlotsAccounted /\ FramesInv' /\ [CycleNext]_vars => SlotsAccounted'
<1> SUFFICES ASSUME FramesInv, SlotsAccounted, FramesInv', [CycleNext]_vars PROVE SlotsAccounted'
  OBVIOUS
<1>1. /\ slots \in Nat /\ ProcessingSlots \in Nat /\ slots + Cardinality(Holders) = ProcessingSlots
  BY CycleAssumption DEF FramesInv, CycleTypes, SlotsAccounted, Holders
<1>2. \/ slots' = slots /\ Cardinality(Holders') = Cardinality(Holders)
      \/ slots' = slots - 1 /\ Cardinality(Holders') = Cardinality(Holders) + 1
      \/ slots' = slots + 1 /\ Cardinality(Holders') = Cardinality(Holders) - 1
  BY HoldersMove, HoldersFinite, FS_AddElement, FS_RemoveElement
<1>3. slots' + Cardinality(Holders') = ProcessingSlots
  BY <1>1, <1>2, HoldersFinite
<1> QED BY <1>3 DEF SlotsAccounted, Holders

(* No permit of _processing_slots is lost or returned twice, however the     *)
(* serial threads, the parser, configuration changes and the closing of the  *)
(* pool follow one another, as long as load_active returns or raises         *)
(* ConfigurationError: free permits and frames on their way that hold one    *)
(* always add up to the size of the semaphore.  Any other exception of       *)
(* load_active loses the permit, which is why the hypothesis is needed.      *)
THEOREM SlotsStayAccounted ==
    ASSUME "raises" \notin ConfigReads
    PROVE  CycleSpec => []SlotsAccounted
<1>1. CycleInit => SlotsAccounted
  <2> SUFFICES ASSUME CycleInit PROVE SlotsAccounted
    OBVIOUS
  <2>1. Holders = {}
    BY EmptySeq DEF Holders, HoldsSlot, CycleInit, Jobs, NoJob
  <2>2. Cardinality(Holders) = 0 /\ slots = ProcessingSlots /\ ProcessingSlots \in Nat
    BY <2>1, FS_EmptySet, CycleAssumption DEF CycleInit
  <2>3. slots + Cardinality(Holders) = ProcessingSlots
    BY <2>2
  <2> QED BY <2>3 DEF SlotsAccounted, Holders
<1>2. CycleInit => FramesInv /\ HandOver
  BY FramesStart
<1>3. FramesInv /\ HandOver /\ SlotsAccounted /\ [CycleNext]_vars
      => FramesInv' /\ HandOver' /\ SlotsAccounted'
  BY FramesStep, SlotsStep
<1> QED BY <1>1, <1>2, <1>3, PTL DEF CycleSpec

-----------------------------------------------------------------------------
(* What the queue promises its callers it keeps for this one.               *)

QueueKept == FramesInv /\ HandOver /\ StopInv /\ PauseInv

LEMMA QueueStart == CycleInit => QueueKept
<1>1. CycleInit => SQInit
  BY DEF CycleInit
<1> QED
  BY <1>1, FramesStart, Initially DEF QueueKept

LEMMA QueueGoesOn == QueueKept /\ [CycleNext]_vars => QueueOps /\ QueueKept'
<1> SUFFICES ASSUME QueueKept, [CycleNext]_vars PROVE QueueOps /\ QueueKept'
  OBVIOUS
<1>1. QueueOps /\ FramesInv' /\ HandOver'
  BY CycleOps, FramesStep DEF QueueKept, FramesInv
<1>2. QueueTypes /\ upc \in [Users -> CycleSteps]
  BY DEF QueueKept, FramesInv, CycleTypes
<1>3. StopInv'
  BY <1>1, <1>2, StopStep DEF QueueKept
<1>4. PauseInv'
  BY <1>1, <1>2, PauseStep DEF QueueKept
<1> QED
  BY <1>1, <1>3, <1>4 DEF QueueKept

LEMMA KeptIsQueueInv == QueueKept => QueueInv
  BY DEF QueueKept, FramesInv, CycleTypes, HandOver, QueueInv

(* Under the pipeline, where jobs come from the parser, the lock of a        *)
(* configuration change is held around clear_pending and the ticket is given *)
(* back in between, the queue keeps what it promises: jobs are accepted,     *)
(* written one at a time in the order of the line, withdrawn before they     *)
(* start, and nothing starts after the line is closed.                       *)
THEOREM PipelineDelivers == CycleSpec => RefinesDelivery
<1>1. CycleInit => Delivery!Init
  BY StartMaps DEF CycleInit
<1>2. QueueKept /\ [CycleNext]_vars => [Delivery!Next]_(Delivery!vars)
  <2> SUFFICES ASSUME QueueKept, [CycleNext]_vars PROVE [Delivery!Next]_(Delivery!vars)
    OBVIOUS
  <2>1. QueueOps /\ QueueInv
    BY QueueGoesOn, KeptIsQueueInv
  <2>2. QueueInv'
    BY <2>1, QueueStep
  <2> QED
    BY <2>1, <2>2, StepMaps
<1> QED
  BY <1>1, <1>2, QueueStart, QueueGoesOn, PTL DEF CycleSpec, RefinesDelivery, Delivery!Spec

(* In the pipeline, too, no job is lost or doubled, a shutdown reaches the   *)
(* write under way, a pause lets at most one more write begin, and no thread *)
(* revives a job that is over.                                               *)
THEOREM QueueHoldsInPipeline ==
    CycleSpec => /\ [](JobsAccounted /\ StoppedWriteIsCancelled /\ PauseAdmitsOneWrite)
                 /\ OutcomeIsFinal
<1>1. QueueKept => JobsAccounted /\ StoppedWriteIsCancelled /\ PauseAdmitsOneWrite
  BY DEF QueueKept, HandOver, StopInv, PauseInv
<1>2. QueueKept /\ [CycleNext]_vars =>
        [\A j \in Jobs : jobState[j] \in Terminal => jobState'[j] = jobState[j]]_jobState
  BY QueueGoesOn, KeptIsQueueInv, OutcomeKept
<1> QED
  BY <1>1, <1>2, QueueStart, QueueGoesOn, PTL DEF CycleSpec, OutcomeIsFinal

-----------------------------------------------------------------------------
(* The configuration barrier.                                               *)

LEMMA LockStep ==
    FramesInv /\ LockInv /\ [CycleNext]_vars => LockInv'
<1> SUFFICES ASSUME FramesInv, LockInv, [CycleNext]_vars PROVE LockInv'
  OBVIOUS
<1> USE CycleAssumption
    DEF FramesInv, CycleTypes, LockInv, ParserSteps, CycleSteps, UserSteps, readerVars, poolVars,
        parserVars, configVars, frameVars, cycleVars, sqVars, userVars
<1>1. CASE UNCHANGED <<transition, ppc, upc>>
  BY <1>1
<1>2. ASSUME NEW r \in Readers, (\E f \in Jobs : FrameArrives(r, f)) \/ ReaderContinues(r)
      PROVE  LockInv'
  BY <1>1, <1>2 DEF FrameArrives, ReaderContinues, CheckPaused, ReserveCycle, FrameIgnored,
     AcquireSlot, CaptureSnapshot, CaptureRaises, SubmitToPool, ReleaseRefusedFrame
<1>3. CASE ParserThread
  <2>1. upc' = upc
    BY <1>3 DEF ParserThread, ParserTakes, ParserRejects, ParserRecognises, LockTransition,
       RecheckRejects, RecheckPasses, EnqueueRejects, SubmitJob, BeginSubmit, PutJob, PutNoWait,
       MarkHanded, UnlockTransition, ReleaseSlot, ParserEnds
  <2>2. CASE LockTransition \/ UnlockTransition
    BY <2>1, <2>2 DEF LockTransition, UnlockTransition, ParserGoes
  <2>3. CASE ~LockTransition /\ ~UnlockTransition
    BY <1>3, <2>1, <2>3 DEF ParserThread, ParserTakes, ParserRejects, ParserRecognises,
       RecheckRejects, RecheckPasses, EnqueueRejects, SubmitJob, PutJob, MarkHanded, ReleaseSlot,
       ParserEnds, ParserGoes
  <2> QED BY <2>2, <2>3
<1>4. CASE WorkerThread \/ TimePasses \/ UNCHANGED vars
  BY <1>1, <1>4 DEF WorkerThread, Worker, WorkerLoop, WorkerGate, WorkerGet, WorkerGetTimesOut,
     WorkerAdopt, WorkerCancelsOnStop, WorkerStartsWrite, WriteEnds, WriterReturns, WorkerSettles,
     WorkerDetaches, TimePasses, vars
<1>5. ASSUME NEW u \in Users, UserCalls(u) PROVE LockInv'
  BY <1>1, <1>5 DEF UserCalls, UserStarts, Pause, Resume, CancelCurrent, BeginClear, BeginStop,
     UserGoes
<1>6. ASSUME NEW u \in Users, BeginChange(u) PROVE LockInv'
  BY <1>6 DEF BeginChange, UserGoes
<1>7. ASSUME NEW u \in Users, UserThread(u) PROVE LockInv'
  <2>1. CASE ClearLoop(u)
    BY <1>1, <2>1 DEF ClearLoop, ClearNext, ClearEnds, UserGoes, AfterClear
  <2>2. CASE ClearReadsStatus(u) \/ ClearCancelsCycle(u)
    BY <2>2 DEF ClearReadsStatus, ClearCancelsCycle, UserGoes, AfterClear
  <2>3. CASE SetActive(u) \/ SetActiveRaises(u) \/ EndChange(u)
    BY <2>3 DEF SetActive, SetActiveRaises, EndChange, UserGoes
  <2>4. CASE Shutdown(u) \/ ShutdownSerial(u) \/ ShutdownPool(u)
    BY <2>4 DEF Shutdown, StopFlag, StopOpensGate, StopReadsEvent, StopSetsEvent, ShutdownSerial,
       ShutdownPool, UserGoes
  <2> QED BY <1>7, <2>1, <2>2, <2>3, <2>4 DEF UserThread
<1> QED BY <1>2, <1>3, <1>4, <1>5, <1>6, <1>7 DEF CycleNext

\* What happens to the queue in a step: one job leaves at its head, or the
\* parser's frame is put at its end.
LEMMA QueueGoes ==
    ASSUME FramesInv, HandOver, [CycleNext]_vars
    PROVE  \/ queue' = queue
           \/ /\ queue # <<>> /\ queue' = Tail(queue) /\ UNCHANGED <<frame, snap, ppc, pframe>>
              /\ (wpc = "get" /\ wpc' = "adopt" /\ wjob' = Head(queue)) \/ wjob' = wjob
           \/ /\ PutJob /\ HasRoom /\ ppc = "put" /\ pframe \in Jobs
              /\ queue' = Append(queue, pframe)
<1> DEFINE Goes == \/ queue' = queue
                   \/ /\ queue # <<>> /\ queue' = Tail(queue) /\ UNCHANGED <<frame, snap, ppc, pframe>>
                      /\ (wpc = "get" /\ wpc' = "adopt" /\ wjob' = Head(queue)) \/ wjob' = wjob
                   \/ /\ PutJob /\ HasRoom /\ ppc = "put" /\ pframe \in Jobs
                      /\ queue' = Append(queue, pframe)
<1> USE DEF cycleVars, frameVars, parserVars, sqVars, queueVars, workerVars
<1>1. ASSUME NEW r \in Readers, (\E f \in Jobs : FrameArrives(r, f)) \/ ReaderContinues(r)
      PROVE  queue' = queue
  BY <1>1 DEF FrameArrives, ReaderContinues, CheckPaused, ReserveCycle, FrameIgnored, AcquireSlot,
     CaptureSnapshot, CaptureRaises, SubmitToPool, ReleaseRefusedFrame
<1>2. CASE PutJob
  <2>1. ppc = "put" /\ pframe \in Jobs /\ submitting = pframe
    BY <1>2 DEF PutJob, ParserGoes, FramesInv, ParserHolds, JobsAreFrames, CycleTypes
  <2> QED BY <1>2, <2>1 DEF PutJob, PutNoWait
<1>3. CASE ParserThread /\ ~PutJob
  BY <1>3 DEF ParserThread, ParserTakes, ParserRejects, ParserRecognises, LockTransition,
     RecheckRejects, RecheckPasses, EnqueueRejects, SubmitJob, BeginSubmit, MarkHanded,
     UnlockTransition, ReleaseSlot, ParserEnds
<1>4. CASE WorkerThread
  BY <1>4 DEF WorkerThread, Worker, WorkerLoop, WorkerGate, WorkerGet, WorkerGetTimesOut,
     WorkerAdopt, WorkerCancelsOnStop, WorkerStartsWrite, WriteEnds, WriterReturns, WorkerSettles,
     WorkerDetaches, WorkerGoes
<1>5. CASE TimePasses \/ UNCHANGED vars
  BY <1>5 DEF TimePasses, vars
<1>6. ASSUME NEW u \in Users, UserCalls(u) \/ BeginChange(u) \/ UserThread(u) PROVE Goes
  <2>1. CASE ClearNext(u) /\ UNCHANGED <<frame, snap, ppc, pframe>>
    BY <2>1 DEF ClearNext
  <2>2. (ClearNext(u) /\ UNCHANGED <<frame, snap, ppc, pframe>>) \/ queue' = queue
    BY <1>6 DEF UserCalls, UserStarts, Pause, Resume, CancelCurrent, BeginClear, BeginStop,
       BeginChange, UserThread, ClearLoop, ClearEnds, ClearReadsStatus, ClearCancelsCycle,
       SetActive, SetActiveRaises, EndChange, Shutdown, StopFlag, StopOpensGate, StopReadsEvent,
       StopSetsEvent, ShutdownSerial, ShutdownPool
  <2> QED BY <2>1, <2>2
<1> QED BY <1>1, <1>2, <1>3, <1>4, <1>5, <1>6 DEF CycleNext

LEMMA PendingAreFrames ==
    ASSUME FramesInv, HandOver
    PROVE  \A i \in 1..Len(queue) :
              queue[i] \in Jobs /\ frame[queue[i]] = "job" /\ jobState[queue[i]] = "queued"
  BY ElementOfSeq DEF FramesInv, CycleTypes, QueueTypes, JobsAreFrames, HandOver, JobsAccounted

\* The snapshots: one is taken only of a frame its reader still has, the
\* generation only grows, and it grows under the lock only.
SnapshotsNow ==
    \A f \in Jobs : /\ snap[f].gen <= gen
                    /\ snap[f].gen = gen => snap[f].cfg \in {active, NoConfig}

ParserSnapshot ==
    /\ ppc \in {"lock", "recheck", "enqueue", "put"} => snap[pframe].cfg # NoConfig
    /\ ppc \in {"enqueue", "put"} => snap[pframe].gen = gen

QueueSnapshots == \A i \in 1..Len(queue) : snap[queue[i]].cfg = active

Emptying == \E u \in Users : transition = u /\ upc[u] = "clear"

LEMMA SnapshotParts ==
    SnapshotInv <=> SnapshotsNow /\ ParserSnapshot /\ (Emptying \/ QueueSnapshots)
  BY DEF SnapshotInv, SnapshotsNow, ParserSnapshot, QueueSnapshots, Emptying

LEMMA SnapshotStep ==
    FramesInv /\ HandOver /\ LockInv /\ SnapshotInv /\ LockInv' /\ [CycleNext]_vars => SnapshotInv'
<1> SUFFICES ASSUME FramesInv, HandOver, LockInv, SnapshotInv, LockInv', [CycleNext]_vars
             PROVE  SnapshotInv'
  OBVIOUS
<1> USE DEF readerVars, poolVars, parserVars, configVars, frameVars, cycleVars, sqVars, userVars,
        Jobs, NoJob
<1>0. /\ SnapshotsNow /\ ParserSnapshot /\ (Emptying \/ QueueSnapshots)
      /\ gen \in Nat /\ snap \in [Jobs -> Snapshots]
      /\ Len(queue) \in Nat /\ queue \in Seq(Jobs)
      /\ ppc # "idle" => pframe \in Jobs
  BY SnapshotParts, LenProperties DEF FramesInv, CycleTypes, QueueTypes, ParserHolds
\* Steps that change neither snapshots nor the configuration.
<1>1. ASSUME UNCHANGED <<snap, gen, active>>,
             Emptying => Emptying' \/ queue' = <<>>,
             ParserSnapshot'
      PROVE  SnapshotInv'
  <2>1. SnapshotsNow'
    BY <1>0, <1>1 DEF SnapshotsNow
  <2>2. CASE queue' = <<>>
    BY <1>1, <2>1, <2>2, EmptySeq, SnapshotParts DEF QueueSnapshots, ParserSnapshot, SnapshotsNow,
       SnapshotInv
  <2>3. ASSUME QueueSnapshots PROVE QueueSnapshots'
    <3>1. CASE queue' = queue
      BY <1>1, <2>3, <3>1 DEF QueueSnapshots
    <3>2. CASE queue # <<>> /\ queue' = Tail(queue)
      BY <1>0, <1>1, <2>3, <3>2, FirstTaken DEF QueueSnapshots
    <3>3. CASE ppc = "put" /\ pframe \in Jobs /\ queue' = Append(queue, pframe)
      <4>1. snap[pframe].cfg = active
        BY <1>0, <3>3 DEF SnapshotsNow, ParserSnapshot
      <4> QED BY <1>0, <1>1, <2>3, <3>3, <4>1, LastAdded DEF QueueSnapshots
    <3> QED BY <3>1, <3>2, <3>3, QueueGoes
  <2> QED BY <1>0, <1>1, <2>1, <2>2, <2>3 DEF SnapshotInv, SnapshotsNow, ParserSnapshot,
             QueueSnapshots, Emptying
<1>2. ASSUME NEW r \in Readers, (\E f \in Jobs : FrameArrives(r, f)) \/ ReaderContinues(r),
             ~CaptureSnapshot(r)
      PROVE  SnapshotInv'
  <2>1. UNCHANGED <<snap, gen, active, transition, upc, ppc, pframe>>
    BY <1>2 DEF FrameArrives, ReaderContinues, CheckPaused, ReserveCycle, FrameIgnored,
       AcquireSlot, CaptureRaises, SubmitToPool, ReleaseRefusedFrame
  <2> QED BY <1>0, <1>1, <2>1 DEF Emptying, ParserSnapshot
<1>3. ASSUME NEW r \in Readers, CaptureSnapshot(r) PROVE SnapshotInv'
  <2>1. PICK c \in {active, NoConfig} : snap' = [snap EXCEPT ![rframe[r]] = [gen |-> gen, cfg |-> c]]
    BY <1>3 DEF CaptureSnapshot
  <2>2. /\ UNCHANGED <<gen, active, transition, upc, ppc, pframe, queue>>
        /\ rframe[r] \in Jobs /\ frame[rframe[r]] = "admitted" /\ (ppc # "idle" => pframe # rframe[r])
    BY <1>0, <1>3 DEF CaptureSnapshot, ReaderGoes, FramesInv, ReadersHold, ParserHolds, CycleTypes,
       queueVars
  <2>3. \A f \in Jobs : snap'[f] = IF f = rframe[r] THEN [gen |-> gen, cfg |-> c] ELSE snap[f]
    BY <1>0, <2>1
  <2>4. SnapshotsNow'
    BY <1>0, <2>2, <2>3 DEF SnapshotsNow
  <2>5. ParserSnapshot'
    BY <1>0, <2>2, <2>3 DEF ParserSnapshot
  <2>6. \A i \in 1..Len(queue) : queue[i] # rframe[r]
    BY <2>2, PendingAreFrames
  <2>7. QueueSnapshots => QueueSnapshots'
    BY <2>2, <2>3, <2>6, PendingAreFrames DEF QueueSnapshots
  <2> QED BY <1>0, <2>2, <2>4, <2>5, <2>7 DEF SnapshotInv, SnapshotsNow, ParserSnapshot,
             QueueSnapshots, Emptying
<1>4. CASE ParserThread
  <2>1. UNCHANGED <<snap, gen, active, upc>>
    BY <1>4 DEF ParserThread, ParserTakes, ParserRejects, ParserRecognises, LockTransition,
       RecheckRejects, RecheckPasses, EnqueueRejects, SubmitJob, BeginSubmit, PutJob, PutNoWait,
       MarkHanded, UnlockTransition, ReleaseSlot, ParserEnds
  <2>2. Emptying => Emptying'
    BY <1>4, <2>1, CycleAssumption
       DEF Emptying, LockInv, ParserThread, ParserTakes, ParserRejects, ParserRecognises,
           LockTransition, RecheckRejects, RecheckPasses, EnqueueRejects, SubmitJob, PutJob,
           MarkHanded, UnlockTransition, ReleaseSlot, ParserEnds, ParserGoes
  <2>3. ParserSnapshot'
    BY <1>0, <1>4, <2>1 DEF ParserSnapshot, ParserThread, ParserTakes, ParserRejects,
       ParserRecognises, LockTransition, RecheckRejects, RecheckPasses, EnqueueRejects, SubmitJob,
       PutJob, MarkHanded, UnlockTransition, ReleaseSlot, ParserEnds, ParserGoes, SameGeneration
  <2> QED BY <1>1, <2>1, <2>2, <2>3
<1>5. CASE WorkerThread \/ TimePasses \/ UNCHANGED vars
  <2>1. UNCHANGED <<snap, gen, active, transition, upc, ppc, pframe>>
    BY <1>5 DEF WorkerThread, Worker, WorkerLoop, WorkerGate, WorkerGet, WorkerGetTimesOut,
       WorkerAdopt, WorkerCancelsOnStop, WorkerStartsWrite, WriteEnds, WriterReturns,
       WorkerSettles, WorkerDetaches, TimePasses, vars
  <2> QED BY <1>0, <1>1, <2>1 DEF Emptying, ParserSnapshot
<1>6. ASSUME NEW u \in Users, UserCalls(u) \/ BeginChange(u) PROVE SnapshotInv'
  <2>1. UNCHANGED <<snap, gen, active, ppc, pframe>>
    BY <1>6 DEF UserCalls, BeginChange
  <2>2. Emptying => Emptying'
    BY <1>6, CycleAssumption DEF UserCalls, BeginChange, UserStarts, Pause, Resume, CancelCurrent,
       BeginClear, BeginStop, Emptying, UserGoes, FramesInv, CycleTypes
  <2> QED BY <1>0, <1>1, <2>1, <2>2 DEF ParserSnapshot
<1>7. ASSUME NEW u \in Users, UserThread(u), ~SetActive(u), ~SetActiveRaises(u) PROVE SnapshotInv'
  <2>1. UNCHANGED <<snap, gen, active, ppc, pframe>>
    BY <1>7 DEF UserThread, ClearLoop, ClearReadsStatus, ClearCancelsCycle, EndChange, Shutdown,
       ShutdownSerial, ShutdownPool
  <2>2. CASE ClearLoop(u)
    BY <1>0, <1>1, <2>1, <2>2 DEF ClearLoop, ClearNext, ClearEnds, UserGoes, Emptying,
       ParserSnapshot, queueVars, FramesInv, CycleTypes
  <2>3. CASE ~ClearLoop(u)
    <3>1. Emptying => Emptying'
      BY <1>7, <2>3 DEF UserThread, ClearReadsStatus, ClearCancelsCycle, EndChange, Shutdown,
         StopFlag, StopOpensGate, StopReadsEvent, StopSetsEvent, ShutdownSerial, ShutdownPool,
         Emptying, UserGoes, FramesInv, CycleTypes, LockInv
    <3> QED BY <1>0, <1>1, <2>1, <3>1 DEF ParserSnapshot
  <2> QED BY <2>2, <2>3
<1>8. ASSUME NEW u \in Users, SetActive(u) \/ SetActiveRaises(u) PROVE SnapshotInv'
  <2>1. /\ transition = u /\ upc[u] = "set"
        /\ UNCHANGED <<snap, transition, queue, ppc, pframe>>
        /\ gen' \in {gen, gen + 1}
    BY <1>8 DEF SetActive, SetActiveRaises, UserGoes, LockInv, queueVars
  <2>2. ppc \notin {"recheck", "enqueue", "put", "mark", "unlock"}
    BY <2>1, CycleAssumption DEF LockInv
  <2>3. ParserSnapshot'
    BY <1>0, <2>1, <2>2 DEF ParserSnapshot
  <2>4. SnapshotsNow'
    BY <1>0, <1>8, <2>1 DEF SnapshotsNow, SetActive, SetActiveRaises, Snapshots
  <2>5. CASE SetActive(u)
    BY <2>1, <2>3, <2>4, <2>5 DEF SetActive, UserGoes, SnapshotInv, SnapshotsNow, ParserSnapshot,
       FramesInv, CycleTypes
  <2>6. CASE SetActiveRaises(u)
    <3>1. ~Emptying
      BY <2>1 DEF Emptying
    <3>2. QueueSnapshots'
      BY <1>0, <2>1, <2>6, <3>1 DEF QueueSnapshots, SetActiveRaises
    <3> QED BY <2>3, <2>4, <3>2 DEF SnapshotInv, SnapshotsNow, ParserSnapshot, QueueSnapshots
  <2> QED BY <1>8, <2>5, <2>6
<1> QED BY <1>2, <1>3, <1>4, <1>5, <1>6, <1>7, <1>8 DEF CycleNext

(* Whenever no user thread holds the transition lock, every job in the queue *)
(* was captured under the configuration that is active: set_active and       *)
(* cancel_for_configuration_change, the generation test of the parser and    *)
(* put_nowait cannot interleave so that a document of the configuration      *)
(* before waits to be written with the new one.                              *)
THEOREM BarrierHolds == CycleSpec => []ConfigurationBarrier
<1> DEFINE Inv == FramesInv /\ HandOver /\ LockInv /\ SnapshotInv
<1>1. CycleInit => Inv
  <2> SUFFICES ASSUME CycleInit PROVE Inv
    OBVIOUS
  <2>1. LockInv /\ SnapshotInv
    BY CycleAssumption, EmptySeq DEF CycleInit, SQInit, LockInv, SnapshotInv, Jobs, NoJob
  <2> QED BY <2>1, FramesStart
<1>2. Inv /\ [CycleNext]_vars => Inv'
  BY FramesStep, LockStep, SnapshotStep
<1>3. Inv => ConfigurationBarrier
  BY DEF SnapshotInv, ConfigurationBarrier
<1> QED BY <1>1, <1>2, <1>3, PTL DEF CycleSpec

-----------------------------------------------------------------------------
(* One document at a time.                                                  *)

\* Who is on the way depends on the stages, the jobs and the worker.
LEMMA InCycleKept ==
    ASSUME FramesInv, UNCHANGED <<jobState, wjob, wpc>>,
           \A f \in Jobs : frame'[f] = "admitted" <=> frame[f] = "admitted",
           \A f \in Jobs : frame'[f] = "job" <=> frame[f] = "job"
    PROVE  \A f \in Jobs : InCycle(f)' <=> InCycle(f)
  BY DEF InCycle, Writing

LEMMA WriterIsJob ==
    ASSUME FramesInv, HandOver
    PROVE  wpc \notin {"loop", "gate", "get", "done"} =>
              /\ wjob \in Jobs /\ frame[wjob] = "job"
              /\ wpc \in {"adopt", "check"} => jobState[wjob] = "taken"
              /\ wpc \in {"write", "written", "settle"} => jobState[wjob] = "writing"
              /\ wpc = "detach" => jobState[wjob] \in Terminal
              /\ wpc \in {"adopt", "check", "write", "written"} => InCycle(wjob)
  BY DEF FramesInv, CycleTypes, QueueTypes, HandOver, HandsInv, JobsAreFrames, Terminal, InCycle,
         Writing, NoJob

\* The worker passes the ticket's job on; the frame is on its way until the
\* write has ended or the worker drops the job of a stopped queue.
LEMMA WorkerCycle ==
    ASSUME FramesInv, HandOver, WorkerThread
    PROVE  \/ /\ ~WriterReturns /\ ~WorkerCancelsOnStop
              /\ \A f \in Jobs : InCycle(f)' <=> InCycle(f)
           \/ /\ WriterReturns \/ WorkerCancelsOnStop
              /\ wjob \in Jobs /\ InCycle(wjob)
              /\ \A f \in Jobs : InCycle(f)' <=> InCycle(f) /\ f # wjob
<1> DEFINE Same == \A f \in Jobs : InCycle(f)' <=> InCycle(f)
<1> USE DEF InCycle, Writing
<1>0. /\ frame' = frame /\ jobState \in [Jobs -> JobStates]
      /\ \A f \in Jobs : frame[f] = "admitted" => jobState[f] = "new"
  BY DEF WorkerThread, cycleVars, frameVars, FramesInv, CycleTypes, QueueTypes, JobsAreFrames
<1>1. CASE WorkerLoop \/ WorkerGate \/ WorkerGetTimesOut \/ WorkerAdopt \/ WorkerDetaches
  <2>1. jobState' = jobState /\ wpc \notin {"write", "written"} /\ wpc' \notin {"write", "written"}
    BY <1>1 DEF WorkerLoop, WorkerGate, WorkerGetTimesOut, WorkerAdopt, WorkerDetaches, WorkerGoes,
       queueVars
  <2>2. ~WriterReturns /\ ~WorkerCancelsOnStop
    BY <1>1 DEF WorkerLoop, WorkerGate, WorkerGetTimesOut, WorkerAdopt, WorkerDetaches, WorkerGoes,
       WriterReturns, WorkerCancelsOnStop
  <2> QED BY <1>0, <2>1, <2>2
<1>2. CASE WorkerGet
  <2>1. /\ Head(queue) \in Jobs /\ jobState[Head(queue)] = "queued" /\ wpc = "get" /\ wpc' = "adopt"
        /\ \A f \in Jobs : jobState'[f] = IF f = Head(queue) THEN "taken" ELSE jobState[f]
    <3>1. QueueTypes /\ JobsAccounted /\ "taken" \in JobStates \ {"queued"}
      BY DEF FramesInv, CycleTypes, HandOver, JobStates
    <3>2. /\ queue # <<>> /\ queue' = Tail(queue) /\ wpc = "get" /\ wpc' = "adopt"
          /\ jobState' = [jobState EXCEPT ![Head(queue)] = "taken"]
      BY <1>2 DEF WorkerGet, WorkerGoes
    <3> QED BY <3>1, <3>2, HeadLeaves
  <2>2. ~WriterReturns /\ ~WorkerCancelsOnStop
    BY <2>1 DEF WriterReturns, WorkerCancelsOnStop, WorkerGoes
  <2> QED BY <1>0, <2>1, <2>2
<1>3. CASE WorkerStartsWrite
  <2>1. /\ wjob \in Jobs /\ frame[wjob] = "job" /\ jobState[wjob] = "taken" /\ wpc = "check"
        /\ wpc' = "write" /\ wjob' = wjob
        /\ \A f \in Jobs : jobState'[f] = IF f = wjob THEN "writing" ELSE jobState[f]
    BY <1>0, <1>3, WriterIsJob DEF WorkerStartsWrite, WorkerGoes
  <2>2. ~WriterReturns /\ ~WorkerCancelsOnStop
    BY <2>1 DEF WriterReturns, WorkerCancelsOnStop, WorkerGoes
  <2> QED BY <1>0, <2>1, <2>2
<1>4. CASE WriteEnds
  <2>1. jobState' = jobState /\ wjob' = wjob /\ wpc = "write" /\ wpc' = "written"
    BY <1>4 DEF WriteEnds, WorkerGoes, queueVars
  <2>2. ~WriterReturns /\ ~WorkerCancelsOnStop
    BY <2>1 DEF WriterReturns, WorkerCancelsOnStop, WorkerGoes
  <2> QED BY <1>0, <2>1, <2>2
<1>5. CASE WorkerSettles
  <2>1. /\ wjob \in Jobs /\ frame[wjob] = "job" /\ jobState[wjob] = "writing" /\ wpc = "settle"
        /\ wpc' = "detach" /\ Verdict \notin {"submitting", "queued", "taken"}
        /\ \A f \in Jobs : jobState'[f] = IF f = wjob THEN Verdict ELSE jobState[f]
    BY <1>0, <1>5, WriterIsJob DEF WorkerSettles, WorkerGoes, Verdict
  <2>2. ~WriterReturns /\ ~WorkerCancelsOnStop
    BY <2>1 DEF WriterReturns, WorkerCancelsOnStop, WorkerGoes
  <2> QED BY <1>0, <2>1, <2>2
<1>6. CASE WriterReturns
  <2>1. /\ wjob \in Jobs /\ frame[wjob] = "job" /\ jobState[wjob] = "writing" /\ wpc = "written"
        /\ wpc' = "settle" /\ jobState' = jobState
    BY <1>6, WriterIsJob DEF WriterReturns, WorkerGoes, queueVars
  <2> QED BY <1>0, <1>6, <2>1
<1>7. CASE WorkerCancelsOnStop
  <2>1. /\ wjob \in Jobs /\ frame[wjob] = "job" /\ jobState[wjob] = "taken" /\ wpc = "check"
        /\ wpc' = "detach"
        /\ \A f \in Jobs : jobState'[f] = IF f = wjob THEN "cancelled" ELSE jobState[f]
    BY <1>0, <1>7, WriterIsJob DEF WorkerCancelsOnStop, WorkerGoes
  <2> QED BY <1>0, <1>7, <2>1
<1> QED BY <1>1, <1>2, <1>3, <1>4, <1>5, <1>6, <1>7 DEF WorkerThread, Worker

LEMMA CalmStep == UsersLeaveJobs /\ CycleTypes /\ UsersCalm /\ [CycleNext]_vars => UsersCalm'
<1> SUFFICES ASSUME UsersLeaveJobs, CycleTypes, UsersCalm, [CycleNext]_vars PROVE UsersCalm'
  OBVIOUS
<1> USE DEF UsersCalm, TicketTypes, CycleTypes, admission, sqVars, userVars, Reserve, ReleaseUnhanded,
        CancelPending, MarkHandedToQueue, FinishWrittenCycle, CooldownElapses
<1>1. CASE UNCHANGED <<upc, admission>>
  BY <1>1
<1>2. ASSUME NEW r \in Readers, (\E f \in Jobs : FrameArrives(r, f)) \/ ReaderContinues(r)
      PROVE  UsersCalm'
  BY <1>2 DEF FrameArrives, ReaderContinues, CheckPaused, ReserveCycle, FrameIgnored,
     AcquireSlot, CaptureSnapshot, CaptureRaises, SubmitToPool, ReleaseRefusedFrame
<1>3. CASE ParserThread
  BY <1>3 DEF ParserThread, ParserTakes, ParserRejects, ParserRecognises, LockTransition,
     RecheckRejects, RecheckPasses, EnqueueRejects, SubmitJob, BeginSubmit, PutJob, PutNoWait,
     MarkHanded, UnlockTransition, ReleaseSlot, ParserEnds
<1>4. CASE WorkerThread \/ TimePasses \/ UNCHANGED vars
  BY <1>4 DEF WorkerThread, Worker, WorkerLoop, WorkerGate, WorkerGet, WorkerGetTimesOut,
     WorkerAdopt, WorkerCancelsOnStop, WorkerStartsWrite, WriteEnds, WriterReturns, WorkerSettles,
     WorkerDetaches, TimePasses, vars
<1>5. ASSUME NEW u \in Users, UserCalls(u) \/ BeginChange(u) PROVE UsersCalm'
  BY <1>5 DEF UserCalls, BeginChange, UserStarts, Pause, Resume, CancelCurrent, BeginClear,
     BeginStop, UserGoes, UsersLeaveJobs, Calls
<1>6. ASSUME NEW u \in Users, UserThread(u) PROVE UsersCalm'
  <2>1. CASE Shutdown(u) \/ ShutdownSerial(u) \/ ShutdownPool(u)
    BY <2>1 DEF Shutdown, StopFlag, StopOpensGate, StopReadsEvent, StopSetsEvent, ShutdownSerial,
       ShutdownPool, UserGoes
  <2>2. CASE ~(Shutdown(u) \/ ShutdownSerial(u) \/ ShutdownPool(u))
    BY <1>6, <2>2 DEF UserThread, ClearLoop, ClearNext, ClearEnds, ClearReadsStatus,
       ClearCancelsCycle, SetActive, SetActiveRaises, EndChange, UserGoes
  <2> QED BY <2>1, <2>2
<1> QED BY <1>2, <1>3, <1>4, <1>5, <1>6 DEF CycleNext

\* The frame of a reader or of a work item is on its way, and the parser has
\* none that is.
LEMMA ParserAlone ==
    ASSUME FramesInv, OneTicket, NEW f \in Jobs, InCycle(f), ppc # "idle" PROVE pframe = f
  BY DEF FramesInv, CycleTypes, ParserHolds, OneTicket, AtMostOneCycle, NoJob

LEMMA SameTicket ==
    ASSUME OneTicket, UNCHANGED <<admission, ppc, pframe, wpc>>,
           ppc # "idle" => pframe \in Jobs,
           \A f \in Jobs : InCycle(f)' <=> InCycle(f),
           \A f \in Jobs : frame[f] = "job" => frame'[f] = "job",
           \A f \in Jobs : jobState[f] \in Terminal => jobState'[f] \in Terminal
    PROVE  OneTicket'
  BY DEF OneTicket, AtMostOneCycle, admission

LEMMA ReaderTicket ==
    ASSUME FramesInv, HandOver, OneTicket, NEW r \in Readers,
           (\E f \in Jobs : FrameArrives(r, f)) \/ ReaderContinues(r)
    PROVE  OneTicket'
<1>0. /\ UNCHANGED <<queueVars, workerVars, ppc, pframe>> /\ (ppc # "idle" => pframe \in Jobs)
      /\ rpc[r] # "idle" => rframe[r] \in Jobs
  BY DEF FrameArrives, ReaderContinues, CheckPaused, ReserveCycle, FrameIgnored, AcquireSlot,
     CaptureSnapshot, CaptureRaises, SubmitToPool, ReleaseRefusedFrame, sqVars, parserVars,
     FramesInv, CycleTypes, ParserHolds, ReadersHold
<1>1. ASSUME UNCHANGED admission,
             \A f \in Jobs : frame'[f] = "admitted" <=> frame[f] = "admitted",
             \A f \in Jobs : frame'[f] = "job" <=> frame[f] = "job"
      PROVE  OneTicket'
  BY <1>0, <1>1, InCycleKept, SameTicket DEF queueVars, workerVars
<1>2. CASE \E f \in Jobs : FrameArrives(r, f)
  BY <1>1, <1>2 DEF FrameArrives, Becomes, FramesInv, CycleTypes
<1>3. CASE CheckPaused(r) \/ FrameIgnored(r)
  BY <1>0, <1>1, <1>3 DEF CheckPaused, FrameIgnored, ReaderGoes, ReaderReturns, Becomes, FramesInv,
     CycleTypes, ReadersHold
<1>4. CASE AcquireSlot(r) \/ CaptureSnapshot(r) \/ SubmitToPool(r)
  BY <1>1, <1>4 DEF AcquireSlot, CaptureSnapshot, SubmitToPool, frameVars
<1>5. CASE ReserveCycle(r)
  <2>1. /\ ~reserved /\ ~cooldown /\ reserved' = TRUE /\ rframe[r] \in Jobs
        /\ frame' = [frame EXCEPT ![rframe[r]] = "admitted"]
    BY <1>0, <1>5 DEF ReserveCycle, Reserve, CanReserve, ReaderGoes, Becomes
  <2>2. \A f \in Jobs : ~InCycle(f)
    BY <2>1 DEF OneTicket
  <2>3. ppc = "idle"
    BY <1>0, <2>1, <2>2 DEF OneTicket
  <2>4. \A f \in Jobs : InCycle(f)' => f = rframe[r]
    BY <1>0, <2>1, <2>2 DEF InCycle, Writing, queueVars, workerVars, FramesInv, CycleTypes
  <2> QED BY <1>0, <2>1, <2>3, <2>4 DEF OneTicket, AtMostOneCycle
<1>6. CASE CaptureRaises(r) \/ ReleaseRefusedFrame(r)
  <2>1. PICK stage \in {"raised", "rejected"} : frame' = [frame EXCEPT ![rframe[r]] = stage]
    BY <1>6 DEF CaptureRaises, ReleaseRefusedFrame, Becomes
  <2>2. rframe[r] \in Jobs /\ frame[rframe[r]] = "admitted" /\ (ppc # "idle" => pframe # rframe[r])
    BY <1>0, <1>6 DEF CaptureRaises, ReleaseRefusedFrame, ReaderReturns, ReaderGoes, FramesInv,
       ReadersHold, ParserHolds, NoJob, Jobs
  <2>3. InCycle(rframe[r])
    BY <2>2 DEF InCycle
  <2>4. ppc = "idle"
    BY <2>2, <2>3, ParserAlone
  <2>5. \A f \in Jobs : InCycle(f)' => InCycle(f) /\ f # rframe[r]
    BY <1>0, <2>1, <2>2, WriterIsJob DEF InCycle, Writing, queueVars, workerVars, FramesInv, CycleTypes
  <2>6. \A f \in Jobs : ~InCycle(f)'
    BY <2>2, <2>3, <2>5 DEF OneTicket, AtMostOneCycle
  <2> QED BY <1>0, <2>4, <2>6 DEF OneTicket, AtMostOneCycle
<1> QED BY <1>2, <1>3, <1>4, <1>5, <1>6 DEF ReaderContinues

\* The parser's frame leaves the way when it is refused, and only then.
LEMMA ParserCycle ==
    ASSUME FramesInv, HandOver, ParserThread
    PROVE  \/ /\ ParserRejects \/ RecheckRejects \/ EnqueueRejects \/ (PutJob /\ ~HasRoom)
              /\ pframe \in Jobs /\ InCycle(pframe)
              /\ \A f \in Jobs : InCycle(f)' <=> InCycle(f) /\ f # pframe
           \/ /\ ~(ParserRejects \/ RecheckRejects \/ EnqueueRejects \/ (PutJob /\ ~HasRoom))
              /\ \A f \in Jobs : InCycle(f)' <=> InCycle(f)
<1> DEFINE Refused == ParserRejects \/ RecheckRejects \/ EnqueueRejects \/ (PutJob /\ ~HasRoom)
<1>0. /\ jobState \in [Jobs -> JobStates] /\ frame \in [Jobs -> FrameStages]
      /\ ppc # "idle" => pframe \in Jobs
      /\ wpc \in {"write", "written"} => wjob \in Jobs /\ jobState[wjob] = "writing"
      /\ \A f \in Jobs : jobState[f] = "new" <=> frame[f] # "job"
      /\ UNCHANGED workerVars
  BY WriterIsJob DEF FramesInv, CycleTypes, QueueTypes, ParserHolds, JobsAreFrames, ParserThread,
     ParserTakes, ParserRejects, ParserRecognises, LockTransition, RecheckRejects, RecheckPasses,
     EnqueueRejects, SubmitJob, BeginSubmit, PutJob, PutNoWait, MarkHanded, UnlockTransition,
     ReleaseSlot, ParserEnds, sqVars
<1>1. CASE ParserRejects \/ RecheckRejects \/ EnqueueRejects
  <2>1. /\ pframe \in Jobs /\ frame[pframe] = "admitted" /\ jobState' = jobState
        /\ frame' = [frame EXCEPT ![pframe] = "rejected"]
    BY <1>0, <1>1 DEF ParserRejects, RecheckRejects, EnqueueRejects, ParserGoes, Becomes, sqVars,
       queueVars, FramesInv, ParserHolds
  <2> QED BY <1>0, <1>1, <2>1 DEF InCycle, Writing, workerVars
<1>2. CASE SubmitJob
  <2>1. /\ pframe \in Jobs /\ frame[pframe] = "admitted" /\ jobState[pframe] = "new"
        /\ frame' = [frame EXCEPT ![pframe] = "job"]
        /\ jobState' = [jobState EXCEPT ![pframe] = "submitting"]
    BY <1>0, <1>2 DEF SubmitJob, BeginSubmit, ParserGoes, Becomes, FramesInv, ParserHolds
  <2>2. \A f \in Jobs : InCycle(f)' <=> InCycle(f)
    BY <1>0, <2>1 DEF InCycle, Writing, workerVars
  <2>3. ~Refused
    BY <1>2 DEF ParserRejects, RecheckRejects, EnqueueRejects, PutJob, SubmitJob, ParserGoes
  <2> QED BY <2>2, <2>3
<1>3. CASE PutJob
  <2>1. /\ pframe \in Jobs /\ frame[pframe] = "job" /\ jobState[pframe] = "submitting"
        /\ frame' = frame
        /\ jobState' = [jobState EXCEPT ![pframe] = IF HasRoom THEN "queued" ELSE "refused"]
    BY <1>0, <1>3 DEF PutJob, PutNoWait, ParserGoes, Becomes, FramesInv, ParserHolds, frameVars,
       JobsAreFrames, HandOver, HandsInv
  <2>2. CASE HasRoom
    <3>1. \A f \in Jobs : InCycle(f)' <=> InCycle(f)
      BY <1>0, <2>1, <2>2 DEF InCycle, Writing, workerVars
    <3>2. ~Refused
      BY <1>3, <2>2 DEF ParserRejects, RecheckRejects, EnqueueRejects, PutJob, ParserGoes
    <3> QED BY <3>1, <3>2
  <2>3. CASE ~HasRoom
    BY <1>0, <1>3, <2>1, <2>3 DEF InCycle, Writing, workerVars
  <2> QED BY <2>2, <2>3
<1>4. CASE ~Refused /\ ~SubmitJob /\ ~PutJob
  <2>1. UNCHANGED <<jobState, frame>>
    BY <1>4 DEF ParserThread, ParserTakes, ParserRecognises, LockTransition, RecheckPasses,
       MarkHanded, UnlockTransition, ReleaseSlot, ParserEnds, sqVars, queueVars, frameVars
  <2> QED BY <1>0, <1>4, <2>1 DEF InCycle, Writing, workerVars
<1> QED BY <1>1, <1>2, <1>3, <1>4

LEMMA ParserTicket ==
    ASSUME FramesInv, HandOver, UsersCalm, OneTicket, ParserThread PROVE OneTicket'
<1>0. /\ ppc # "idle" => pframe \in Jobs
      /\ UNCHANGED workerVars /\ ~(PutJob /\ SubmitJob)
  BY DEF FramesInv, CycleTypes, ParserHolds, ParserThread,
     ParserTakes, ParserRejects, ParserRecognises, LockTransition, RecheckRejects, RecheckPasses,
     EnqueueRejects, SubmitJob, BeginSubmit, PutJob, PutNoWait, MarkHanded, UnlockTransition,
     ReleaseSlot, ParserEnds, sqVars, ParserGoes
<1>1. CASE ParserRejects \/ RecheckRejects \/ EnqueueRejects \/ (PutJob /\ ~HasRoom)
  <2>1. /\ pframe \in Jobs /\ InCycle(pframe) /\ pframe' = pframe /\ reserved' = reserved
        /\ \A f \in Jobs : InCycle(f)' <=> InCycle(f) /\ f # pframe
    BY <1>1, ParserCycle DEF ParserRejects, RecheckRejects, EnqueueRejects, PutJob, admission
  <2>2. reserved /\ \A f \in Jobs : ~InCycle(f)'
    BY <2>1 DEF OneTicket, AtMostOneCycle
  <2> QED BY <2>1, <2>2 DEF OneTicket, AtMostOneCycle
<1>2. ASSUME ~(ParserRejects \/ RecheckRejects \/ EnqueueRejects \/ (PutJob /\ ~HasRoom))
      PROVE  OneTicket'
  <2>0. \A f \in Jobs : InCycle(f)' <=> InCycle(f)
    BY <1>2, ParserCycle
  <2>1. CASE ParserTakes
    <3>1. pframe' \in Jobs /\ frame[pframe'] = "admitted" /\ ppc' = "parse" /\ UNCHANGED admission
      BY <2>1, PoolTaken DEF ParserTakes, ParserGoes, FramesInv, PoolHolds
    <3>2. InCycle(pframe') /\ InCycle(pframe)'
      BY <2>0, <3>1 DEF InCycle, ParserTakes, Writing
    <3> QED BY <2>0, <3>1, <3>2 DEF OneTicket, AtMostOneCycle, admission
  <2>2. CASE SubmitJob \/ PutJob
    <3>1. /\ ppc \in {"enqueue", "put"} /\ ppc' \in {"put", "mark"} /\ pframe \in Jobs
          /\ pframe' = pframe /\ UNCHANGED admission
      BY <1>0, <1>2, <2>2 DEF SubmitJob, PutJob, ParserGoes
    <3>2. InCycle(pframe)
      BY <3>1 DEF InCycle, FramesInv, ParserHolds, JobsAreFrames, HandOver, HandsInv, NoJob, Jobs
    <3> QED BY <2>0, <3>1, <3>2 DEF OneTicket, AtMostOneCycle, admission
  <2>3. CASE ParserRecognises \/ LockTransition \/ RecheckPasses \/ UnlockTransition \/ ReleaseSlot
    <3>1. /\ pframe \in Jobs /\ ppc # "idle" /\ UNCHANGED <<admission, pframe, jobState, frame>>
          /\ ppc' \in {"unlock", "slot", "release"} => ppc \in {"unlock", "slot", "release"}
      BY <1>0, <2>3 DEF ParserRecognises, LockTransition, RecheckPasses, UnlockTransition,
         ReleaseSlot, ParserGoes, sqVars, queueVars, frameVars
    <3> QED BY <1>0, <2>0, <3>1 DEF OneTicket, AtMostOneCycle, admission, workerVars
  <2>4. CASE MarkHanded
    <3>1. /\ pframe \in Jobs /\ ppc = "mark" /\ UNCHANGED <<pframe, jobState, frame>>
          /\ UNCHANGED <<reserved, cooldown>> /\ handed' = (handed \/ reserved)
      BY <1>0, <2>4 DEF MarkHanded, MarkHandedToQueue, ParserGoes, sqVars, queueVars, frameVars
    <3> QED BY <1>0, <2>0, <3>1 DEF OneTicket, AtMostOneCycle, workerVars
  <2>5. CASE ParserEnds
    <3>1. /\ pframe \in Jobs /\ ppc = "release" /\ ppc' = "idle"
          /\ reserved' = (reserved /\ handed)
      BY <1>0, <2>5 DEF ParserEnds, ReleaseUnhanded, ParserGoes
    <3>2. ASSUME NEW f \in Jobs, InCycle(f) PROVE reserved /\ handed
      BY <3>1, <3>2, ParserAlone DEF OneTicket
    <3> QED BY <2>0, <3>1, <3>2 DEF OneTicket, AtMostOneCycle
  <2> QED BY <1>2, <2>1, <2>2, <2>3, <2>4, <2>5 DEF ParserThread
<1> QED BY <1>1, <1>2

LEMMA WorkerTicket ==
    ASSUME FramesInv, HandOver, OneTicket, WorkerThread PROVE OneTicket'
<1>0. /\ UNCHANGED <<ppc, pframe, frame>> /\ (ppc # "idle" => pframe \in Jobs)
      /\ WriterReturns => wpc = "written" /\ wpc' = "settle" /\ jobState' = jobState
      /\ ~WriterReturns => wpc # "written" /\ UNCHANGED admission
  BY DEF WorkerThread, cycleVars, parserVars, frameVars, FramesInv, CycleTypes, ParserHolds, Worker,
     WorkerLoop, WorkerGate, WorkerGet, WorkerGetTimesOut, WorkerAdopt, WorkerCancelsOnStop,
     WorkerStartsWrite, WriteEnds, WriterReturns, WorkerSettles, WorkerDetaches, WorkerGoes, queueVars
<1>1. \A f \in Jobs : jobState[f] \in Terminal => jobState'[f] \in Terminal
  BY FinalStep DEF WorkerThread, QueueMoves, Final, FramesInv, CycleTypes, HandOver
<1>2. CASE ~WriterReturns /\ ~WorkerCancelsOnStop
  <2>1. \A f \in Jobs : InCycle(f)' <=> InCycle(f)
    BY <1>2, WorkerCycle
  <2>2. CASE WorkerDetaches
    <3>1. ASSUME ppc # "idle", ~InCycle(pframe), frame[pframe] = "job"
          PROVE  jobState[pframe] \in Terminal
      <4>1. jobState[pframe] \in JobStates \ {"new", "submitting", "queued", "taken"}
        BY <1>0, <3>1 DEF InCycle, FramesInv, CycleTypes, QueueTypes, JobsAreFrames
      <4>2. jobState[pframe] # "writing"
        BY <1>0, <2>2, <3>1, WriterIsJob
           DEF WorkerDetaches, WorkerGoes, HandOver, JobsAccounted, Terminal
      <4> QED BY <4>1, <4>2 DEF JobStates, Terminal
    <3> QED BY <1>0, <1>1, <1>2, <2>1, <3>1 DEF OneTicket, AtMostOneCycle, admission
  <2>3. CASE ~WorkerDetaches
    <3>1. wpc \in {"settle", "detach"} => wpc' \in {"settle", "detach"}
      BY <1>2, <2>3 DEF WorkerThread, Worker, WorkerLoop, WorkerGate, WorkerGet, WorkerGetTimesOut,
         WorkerAdopt, WorkerStartsWrite, WriteEnds, WorkerSettles, WorkerGoes
    <3> QED BY <1>0, <1>1, <1>2, <2>1, <3>1 DEF OneTicket, AtMostOneCycle, admission
  <2> QED BY <2>2, <2>3
<1>3. CASE WriterReturns \/ WorkerCancelsOnStop
  <2>1. /\ wjob \in Jobs /\ InCycle(wjob) /\ reserved
        /\ \A f \in Jobs : InCycle(f)' <=> InCycle(f) /\ f # wjob
    BY <1>3, WorkerCycle DEF WorkerCancelsOnStop, WriterReturns, WorkerGoes, OneTicket
  <2>2. (\A f \in Jobs : ~InCycle(f)') /\ (ppc # "idle" => pframe = wjob)
    BY <2>1, ParserAlone DEF OneTicket, AtMostOneCycle
  <2>3. CASE WriterReturns
    <3>1. cooldown' = TRUE
      BY <1>0, <2>3 DEF WorkerThread, FinishWrittenCycle
    <3>2. frame[wjob] = "job"
      BY <1>0, <2>3, WriterIsJob
    <3> QED BY <1>0, <2>2, <2>3, <3>1, <3>2 DEF OneTicket, AtMostOneCycle
  <2>4. CASE ~WriterReturns
    BY <1>0, <2>1, <2>2, <2>4 DEF OneTicket, AtMostOneCycle, admission
  <2> QED BY <2>3, <2>4
<1> QED BY <1>2, <1>3

LEMMA UserTicket ==
    ASSUME FramesInv, HandOver, UsersLeaveJobs, UsersCalm, OneTicket, NEW u \in Users,
           UserCalls(u) \/ BeginChange(u) \/ UserThread(u)
    PROVE  OneTicket'
<1>0. ppc # "idle" => pframe \in Jobs
  BY DEF FramesInv, CycleTypes, ParserHolds
<1>1. UNCHANGED <<jobState, wjob, wpc, admission, ppc, pframe>>
  BY DEF UserCalls, BeginChange, UserStarts, Pause, Resume, CancelCurrent, BeginClear, BeginStop,
     UserThread, ClearLoop, ClearNext, ClearEnds, ClearReadsStatus, ClearCancelsCycle, SetActive,
     SetActiveRaises, EndChange, Shutdown, StopFlag, StopOpensGate, StopReadsEvent, StopSetsEvent,
     ShutdownSerial, ShutdownPool, UserGoes, UsersLeaveJobs, UsersCalm, Calls, cycleVars,
     parserVars, queueVars, workerVars
<1>2. CASE ShutdownPool(u)
  <2>1. \A f \in Jobs : frame'[f] = IF \E i \in 1..Len(pool) : pool[i] = f
                                    THEN "dropped" ELSE frame[f]
    BY <1>2 DEF ShutdownPool
  <2>2. \A i \in 1..Len(pool) : pool[i] \in Jobs /\ frame[pool[i]] = "admitted" /\ InCycle(pool[i])
    BY ElementOfSeq DEF FramesInv, CycleTypes, PoolHolds, InCycle
  <2>3. CASE ppc = "idle"
    <3>1. \A f \in Jobs : InCycle(f)' => InCycle(f)
      BY <1>1, <2>1 DEF InCycle, Writing
    <3> QED BY <1>1, <2>3, <3>1 DEF OneTicket, AtMostOneCycle, admission
  <2>4. CASE ppc # "idle"
    <3>1. \A i \in 1..Len(pool) : pframe = pool[i]
      BY <2>2, <2>4, ParserAlone
    <3>2. \A i \in 1..Len(pool) : FALSE
      BY <1>0, <2>4, <3>1 DEF FramesInv, ParserHolds, Jobs, NoJob
    <3>3. \A f \in Jobs : frame'[f] = frame[f]
      BY <2>1, <3>2
    <3>4. \A f \in Jobs : InCycle(f)' <=> InCycle(f)
      BY <1>1, <3>3, InCycleKept
    <3> QED BY <1>0, <1>1, <3>3, <3>4, SameTicket
  <2> QED BY <2>3, <2>4
<1>3. CASE ~ShutdownPool(u)
  <2>1. frame' = frame
    BY <1>3, OthersLeave DEF Elsewhere
  <2>2. \A f \in Jobs : InCycle(f)' <=> InCycle(f)
    BY <1>1, <2>1, InCycleKept
  <2> QED BY <1>0, <1>1, <2>1, <2>2, SameTicket
<1> QED BY <1>2, <1>3

LEMMA TicketStep ==
    ASSUME UsersLeaveJobs, FramesInv, HandOver, UsersCalm, OneTicket, [CycleNext]_vars
    PROVE  OneTicket'
<1>0. ppc # "idle" => pframe \in Jobs
  BY DEF FramesInv, CycleTypes, ParserHolds
<1>1. CASE TimePasses
  <2>1. /\ UNCHANGED <<jobState, frame, wjob, wpc, ppc, pframe, reserved, handed>>
        /\ wpc \notin {"settle", "detach"} /\ ~(ppc # "idle" /\ jobState[pframe] \in Terminal)
    BY <1>1 DEF TimePasses, CooldownElapses, Straggler, UsersLeaveJobs, sqVars, queueVars,
       workerVars, cycleVars, frameVars, parserVars
  <2>2. \A f \in Jobs : InCycle(f)' <=> InCycle(f)
    BY <2>1, InCycleKept
  <2> QED BY <1>0, <2>1, <2>2 DEF OneTicket, AtMostOneCycle
<1>2. CASE UNCHANGED vars
  <2>1. UNCHANGED <<jobState, frame, wjob, wpc, ppc, pframe, admission>>
    BY <1>2 DEF vars, sqVars, queueVars, workerVars, cycleVars, frameVars, parserVars
  <2>2. \A f \in Jobs : InCycle(f)' <=> InCycle(f)
    BY <2>1, InCycleKept
  <2> QED BY <1>0, <2>1, <2>2, SameTicket
<1> QED BY <1>1, <1>2, ReaderTicket, ParserTicket, WorkerTicket, UserTicket DEF CycleNext

(* At most one document is on its way, from the moment its reader gets the   *)
(* ticket to the end of its write, with any number of serial readers: what   *)
(* SingleScanAdmission is for.  TLC finds two documents on their way as soon *)
(* as either hypothesis is dropped: no user thread withdraws pending jobs,   *)
(* whose ticket clear_pending returns while the parser may still be about to *)
(* mark or release it; and the 2 s cooldown outlasts the statements that     *)
(* threads still execute for a document that is written.                     *)
THEOREM OneDocumentAtATime == UsersLeaveJobs => (CycleSpec => []AtMostOneCycle)
<1> SUFFICES ASSUME UsersLeaveJobs PROVE CycleSpec => []AtMostOneCycle
  OBVIOUS
<1> DEFINE Inv == FramesInv /\ HandOver /\ UsersCalm /\ OneTicket
<1>1. CycleInit => Inv
  <2> SUFFICES ASSUME CycleInit PROVE Inv
    OBVIOUS
  <2>1. \A f \in Jobs : ~InCycle(f)
    BY DEF InCycle, Writing, CycleInit, SQInit
  <2>2. UsersCalm /\ OneTicket
    BY <2>1 DEF CycleInit, SQInit, AdmissionInit, UsersCalm, TicketTypes, OneTicket, AtMostOneCycle
  <2> QED BY <2>2, FramesStart
<1>2. Inv /\ [CycleNext]_vars => Inv'
  BY FramesStep, CalmStep, TicketStep DEF FramesInv
<1>3. Inv => AtMostOneCycle
  BY DEF OneTicket
<1> QED BY <1>1, <1>2, <1>3, PTL DEF CycleSpec

-----------------------------------------------------------------------------
(* Nobody keeps the ticket.                                                 *)

LEMMA StoppedStays == QueueOps /\ stopped => stopped'
  BY DEF QueueOps, UserMoves, BeginSubmit, PutNoWait, Worker, WorkerLoop, WorkerGate, WorkerGet,
     WorkerGetTimesOut, WorkerAdopt, WorkerCancelsOnStop, WorkerStartsWrite, WriteEnds,
     WriterReturns, WorkerSettles, WorkerDetaches, UserStarts, Pause, Resume, CancelCurrent,
     BeginClear, BeginStop, ClearNext, ClearEnds, StopFlag, StopOpensGate, StopReadsEvent,
     StopSetsEvent, flagVars

\* A job is accepted when it is on its way and in nobody's hands but the queue's.
LEMMA AcceptedIs ==
    ASSUME FramesInv, HandOver
    PROVE  \A f \in Jobs : Accepted(f) <=> InCycle(f) /\ frame[f] = "job" /\ f # submitting
  BY WriterIsJob
     DEF FramesInv, CycleTypes, QueueTypes, HandOver, HandsInv, JobsAreFrames, Accepted, InCycle,
         Writing, NoJob, Jobs

Ticket == TicketTypes /\ (handed => reserved)

LEMMA TicketMoves ==
    ASSUME Ticket,
           \/ UNCHANGED admission \/ Reserve \/ ReleaseUnhanded \/ MarkHandedToQueue
           \/ CancelPending \/ FinishWrittenCycle \/ CooldownElapses
    PROVE  Ticket'
<1> USE DEF Ticket, TicketTypes
<1>1. CASE UNCHANGED admission
  BY <1>1 DEF admission
<1>6. CASE Reserve
  BY <1>6 DEF Reserve
<1>2. CASE ReleaseUnhanded
  BY <1>2 DEF ReleaseUnhanded
<1>3. CASE MarkHandedToQueue
  BY <1>3 DEF MarkHandedToQueue
<1>4. CASE CancelPending
  BY <1>4 DEF CancelPending
<1>5. CASE FinishWrittenCycle
  BY <1>5 DEF FinishWrittenCycle
<1>7. CASE CooldownElapses
  BY <1>7 DEF CooldownElapses
<1> QED BY <1>1, <1>2, <1>3, <1>4, <1>5, <1>6, <1>7

LEMMA TicketStays == Ticket /\ [CycleNext]_vars => Ticket'
<1> SUFFICES ASSUME Ticket, [CycleNext]_vars PROVE Ticket'
  OBVIOUS
<1>1. ASSUME NEW r \in Readers, (\E f \in Jobs : FrameArrives(r, f)) \/ ReaderContinues(r)
      PROVE  UNCHANGED admission \/ Reserve \/ ReleaseUnhanded
  BY <1>1 DEF FrameArrives, ReaderContinues, CheckPaused, ReserveCycle, FrameIgnored,
     AcquireSlot, CaptureSnapshot, CaptureRaises, SubmitToPool, ReleaseRefusedFrame
<1>2. ParserThread => UNCHANGED admission \/ MarkHandedToQueue \/ ReleaseUnhanded
  BY DEF ParserThread, ParserTakes, ParserRejects, ParserRecognises, LockTransition,
     RecheckRejects, RecheckPasses, EnqueueRejects, SubmitJob, PutJob,
     MarkHanded, UnlockTransition, ReleaseSlot, ParserEnds
<1>3. WorkerThread => UNCHANGED admission \/ FinishWrittenCycle
  BY DEF WorkerThread
<1>4. ASSUME NEW u \in Users, UserCalls(u) \/ BeginChange(u) \/ UserThread(u)
      PROVE  UNCHANGED admission \/ CancelPending
  BY <1>4 DEF UserCalls, BeginChange, UserThread, ClearLoop, ClearReadsStatus, ClearCancelsCycle,
     SetActive, SetActiveRaises, EndChange, Shutdown, ShutdownSerial, ShutdownPool
<1>5. TimePasses => CooldownElapses
  BY DEF TimePasses
<1>6. CASE UNCHANGED vars
  BY <1>6, TicketMoves DEF vars
<1> QED BY <1>1, <1>2, <1>3, <1>4, <1>5, <1>6, TicketMoves DEF CycleNext

LEMMA OwnerTypesStep ==
    ASSUME ClearsUnderLock, FramesInv, LockInv, OwnerTypes, [CycleNext]_vars PROVE OwnerTypes'
<1> DEFINE Rest ==
      /\ current # NoJob => wpc \in {"check", "write", "written", "settle", "detach"}
      /\ \A u \in Users : upc[u] \in {"clear", "status", "cancel"} => transition = u
      /\ \A u \in Users : upc[u] \in {"open", "ref", "event", "serial", "pool"} => stopped
<1>0. Ticket' /\ Rest
  BY TicketStays DEF OwnerTypes, Ticket
<1> SUFFICES Rest'
  BY <1>0 DEF OwnerTypes, Ticket
<1> USE CycleAssumption
    DEF FramesInv, CycleTypes, QueueTypes, LockInv, sqVars, userVars,
        cancelVars, workerVars, flagVars, queueVars, cycleVars, configVars
<1>1. CASE UNCHANGED <<current, wpc, upc, transition, stopped>>
  BY <1>0, <1>1
<1>2. ASSUME NEW r \in Readers, (\E f \in Jobs : FrameArrives(r, f)) \/ ReaderContinues(r)
      PROVE  Rest'
  <2>1. UNCHANGED <<current, wpc, upc, transition, stopped>>
    BY <1>2 DEF FrameArrives, ReaderContinues, CheckPaused, ReserveCycle, FrameIgnored,
       AcquireSlot, CaptureSnapshot, CaptureRaises, SubmitToPool, ReleaseRefusedFrame
  <2> QED BY <1>1, <2>1
<1>3. CASE ParserThread
  <2>1. UNCHANGED <<current, wpc, upc, stopped>>
    BY <1>3 DEF ParserThread, ParserTakes, ParserRejects, ParserRecognises, LockTransition,
       RecheckRejects, RecheckPasses, EnqueueRejects, SubmitJob, BeginSubmit, PutJob, PutNoWait,
       MarkHanded, UnlockTransition, ReleaseSlot, ParserEnds
  <2>3. transition' = transition \/ \A u \in Users : transition # u
    BY <1>3 DEF ParserThread, ParserTakes, ParserRejects, ParserRecognises, LockTransition,
       RecheckRejects, RecheckPasses, EnqueueRejects, SubmitJob, PutJob,
       MarkHanded, UnlockTransition, ReleaseSlot, ParserEnds, ParserGoes
  <2> QED BY <1>0, <2>1, <2>3
<1>4. CASE WorkerThread
  <2>1. UNCHANGED <<upc, transition, stopped>>
    <3>1. transition' = transition
      BY <1>4 DEF WorkerThread
    <3>2. UNCHANGED <<upc, stopped>>
      BY <1>4 DEF WorkerThread, Worker, WorkerLoop, WorkerGate, WorkerGet, WorkerGetTimesOut,
         WorkerAdopt, WorkerCancelsOnStop, WorkerStartsWrite, WriteEnds, WriterReturns,
         WorkerSettles, WorkerDetaches
    <3> QED BY <3>1, <3>2
  <2>2. current' # NoJob => wpc' \in {"check", "write", "written", "settle", "detach"}
    <3>1. CASE WorkerLoop \/ WorkerGate \/ WorkerGet \/ WorkerGetTimesOut
      BY <1>0, <3>1 DEF WorkerLoop, WorkerGate, WorkerGet, WorkerGetTimesOut, WorkerGoes
    <3>2. CASE WorkerAdopt \/ WorkerCancelsOnStop \/ WorkerStartsWrite
      BY <1>0, <3>2 DEF WorkerAdopt, WorkerCancelsOnStop, WorkerStartsWrite, WorkerGoes
    <3>3. CASE WriteEnds \/ WriterReturns \/ WorkerSettles \/ WorkerDetaches
      BY <1>0, <3>3 DEF WriteEnds, WriterReturns, WorkerSettles, WorkerDetaches, WorkerGoes
    <3> QED BY <1>4, <3>1, <3>2, <3>3 DEF WorkerThread, Worker
  <2> QED BY <1>0, <2>1, <2>2
<1>5. CASE TimePasses \/ UNCHANGED vars
  BY <1>1, <1>5 DEF TimePasses, vars
<1>6. ASSUME NEW u \in Users, UserCalls(u) \/ BeginChange(u) PROVE Rest'
  BY <1>0, <1>6 DEF UserCalls, BeginChange, UserStarts, Pause, Resume, CancelCurrent, BeginClear,
     BeginStop, UserGoes, ClearsUnderLock, Calls
<1>7. ASSUME NEW u \in Users, UserThread(u) PROVE Rest'
  <2>1. CASE ClearLoop(u) \/ ClearReadsStatus(u) \/ ClearCancelsCycle(u)
    BY <1>0, <2>1 DEF ClearLoop, ClearNext, ClearEnds, ClearReadsStatus, ClearCancelsCycle, AfterClear,
       UserGoes
  <2>2. CASE SetActive(u) \/ SetActiveRaises(u) \/ EndChange(u)
    BY <1>0, <2>2 DEF SetActive, SetActiveRaises, EndChange, UserGoes
  <2>3. CASE Shutdown(u) \/ ShutdownSerial(u) \/ ShutdownPool(u)
    BY <1>0, <2>3 DEF Shutdown, StopFlag, StopOpensGate, StopReadsEvent, StopSetsEvent, ShutdownSerial,
       ShutdownPool, UserGoes
  <2> QED BY <1>7, <2>1, <2>2, <2>3 DEF UserThread
<1> QED BY <1>2, <1>3, <1>4, <1>5, <1>6, <1>7 DEF CycleNext

LEMMA OwnerKept ==
    ASSUME OwnerNow, UNCHANGED <<admission, wpc, ppc, pframe>>,
           ppc # "idle" => pframe \in Jobs,
           \A u \in Users : Withdraws(u) => Withdraws(u)',
           \A f \in Jobs : InCycle(f) => InCycle(f)',
           \A f \in Jobs : Accepted(f) => Accepted(f)',
           \A f \in Jobs : jobState[f] \in Terminal => jobState'[f] \in Terminal
    PROVE  OwnerNow'
<1>1. UNCHANGED <<reserved, handed, cooldown>>
  BY DEF admission
<1>2. ppc # "idle" /\ WrittenAlready => WrittenAlready'
  BY <1>1 DEF WrittenAlready
<1> QED BY <1>1, <1>2 DEF OwnerNow

LEMMA AcceptedInCycle ==
    ASSUME FramesInv, HandOver PROVE \A f \in Jobs : Accepted(f) => InCycle(f)
  BY AcceptedIs

LEMMA ReaderOwner ==
    ASSUME ClearsUnderLock, FramesInv, HandOver, OwnerNow, NEW r \in Readers,
           (\E f \in Jobs : FrameArrives(r, f)) \/ ReaderContinues(r)
    PROVE  OwnerNow'
<1>0. /\ UNCHANGED <<queueVars, workerVars, ppc, pframe, upc, removed>>
      /\ ppc # "idle" => pframe \in Jobs
      /\ rpc[r] # "idle" => rframe[r] \in Jobs
  BY DEF FrameArrives, ReaderContinues, CheckPaused, ReserveCycle, FrameIgnored, AcquireSlot,
     CaptureSnapshot, CaptureRaises, SubmitToPool, ReleaseRefusedFrame, sqVars, parserVars,
     userVars, FramesInv, CycleTypes, ParserHolds, ReadersHold
<1>1. ASSUME NEW f \in Jobs, frame'[f] = frame[f] PROVE
      (InCycle(f) => InCycle(f)') /\ (Accepted(f) => Accepted(f)')
  BY <1>0, <1>1 DEF InCycle, Accepted, Writing, queueVars, workerVars
<1>2. ASSUME UNCHANGED admission,
             \A f \in Jobs : frame[f] \in {"admitted", "job"} => frame'[f] = frame[f]
      PROVE  OwnerNow'
  <2>1. ASSUME NEW f \in Jobs, frame[f] \notin {"admitted", "job"} PROVE ~InCycle(f) /\ ~Accepted(f)
    BY <2>1, WriterIsJob, AcceptedInCycle DEF InCycle, Writing
  <2>2. \A f \in Jobs : (InCycle(f) => InCycle(f)') /\ (Accepted(f) => Accepted(f)')
    BY <1>1, <1>2, <2>1
  <2>3. \A u \in Users : Withdraws(u) => Withdraws(u)'
    BY <1>0 DEF Withdraws
  <2> QED BY <1>0, <1>2, <2>2, <2>3, OwnerKept DEF queueVars, workerVars
<1>3. CASE \E f \in Jobs : FrameArrives(r, f)
  BY <1>2, <1>3 DEF FrameArrives, Becomes, FramesInv, CycleTypes
<1>4. CASE CheckPaused(r) \/ FrameIgnored(r)
  BY <1>0, <1>2, <1>4 DEF CheckPaused, FrameIgnored, ReaderGoes, ReaderReturns, Becomes, FramesInv,
     CycleTypes, ReadersHold
<1>5. CASE AcquireSlot(r) \/ CaptureSnapshot(r) \/ SubmitToPool(r)
  BY <1>2, <1>5 DEF AcquireSlot, CaptureSnapshot, SubmitToPool, frameVars
<1>6. CASE CaptureRaises(r)
  BY <1>6 DEF CaptureRaises, ClearsUnderLock
<1>7. CASE ReserveCycle(r)
  <2>1. /\ ~cooldown /\ reserved' = TRUE /\ handed' = FALSE /\ rframe[r] \in Jobs
        /\ frame[rframe[r]] = "read" /\ frame' = [frame EXCEPT ![rframe[r]] = "admitted"]
        /\ rframe' = rframe /\ frame \in [Jobs -> FrameStages]
    BY <1>0, <1>7 DEF ReserveCycle, Reserve, CanReserve, ReaderGoes, Becomes, FramesInv, ReadersHold,
       CycleTypes
  <2>2. InCycle(rframe[r])'
    BY <2>1 DEF InCycle
  <2>3. wpc \notin {"settle", "detach"} /\ wpc' = wpc
    BY <1>0, <2>1 DEF OwnerNow, workerVars
  <2>4. ASSUME ppc = "mark" PROVE Accepted(pframe)'
    <3>1. Accepted(pframe) /\ pframe \in Jobs /\ frame[pframe] = "job"
      BY <1>0, <2>1, <2>4 DEF OwnerNow, WrittenAlready, FramesInv, ParserHolds
    <3>2. frame'[pframe] = frame[pframe] /\ pframe' = pframe
      BY <1>0, <2>1, <3>1
    <3> QED BY <1>1, <3>1, <3>2
  <2>5. \E f \in Jobs : InCycle(f)'
    BY <2>1, <2>2
  <2> QED BY <1>0, <2>1, <2>3, <2>4, <2>5 DEF OwnerNow
<1>8. CASE ReleaseRefusedFrame(r)
  <2>1. /\ reserved' = (reserved /\ handed) /\ handed' = handed /\ cooldown' = cooldown
        /\ rframe[r] \in Jobs /\ frame[rframe[r]] = "admitted"
        /\ frame' = [frame EXCEPT ![rframe[r]] = "rejected"]
    BY <1>0, <1>8 DEF ReleaseRefusedFrame, ReleaseUnhanded, ReaderReturns, ReaderGoes, Becomes,
       FramesInv, ReadersHold
  <2>2. \A f \in Jobs : Accepted(f) => Accepted(f)' /\ InCycle(f)'
    <3>1. ASSUME NEW f \in Jobs, Accepted(f) PROVE frame'[f] = frame[f] /\ InCycle(f)
      BY <2>1, <3>1, AcceptedIs DEF FramesInv, CycleTypes
    <3> QED BY <1>1, <3>1
  <2>3. \A u \in Users : Withdraws(u)' <=> Withdraws(u)
    BY <1>0 DEF Withdraws
  <2>4. WrittenAlready => WrittenAlready'
    BY <1>0, <2>1 DEF WrittenAlready, queueVars, workerVars
  <2>5. UNCHANGED <<ppc, pframe, wpc>>
    BY <1>0 DEF workerVars
  <2>6. wpc' \in {"settle", "detach"} => ~reserved' /\ cooldown'
    BY <2>1, <2>5 DEF OwnerNow
  <2>7. ppc' = "mark" => Accepted(pframe)' \/ WrittenAlready'
    BY <1>0, <2>2, <2>4, <2>5 DEF OwnerNow
  <2>8. handed => (\E f \in Jobs : Accepted(f)' /\ InCycle(f)') \/ \E u \in Users : Withdraws(u)'
    BY <2>2, <2>3 DEF OwnerNow
  <2>9. (reserved' \/ handed') => handed
    BY <2>1
  <2> QED BY <2>6, <2>7, <2>8, <2>9 DEF OwnerNow
<1> QED BY <1>3, <1>4, <1>5, <1>6, <1>7, <1>8 DEF ReaderContinues

\* The parser takes no job back, and the one it puts into the queue is accepted.
LEMMA ParserAccepts ==
    ASSUME FramesInv, HandOver, ParserThread
    PROVE  /\ \A f \in Jobs : Accepted(f) => Accepted(f)' /\ InCycle(f)'
           /\ PutJob /\ HasRoom => pframe \in Jobs /\ pframe' = pframe /\ Accepted(pframe)'
<1>0. /\ jobState \in [Jobs -> JobStates] /\ frame \in [Jobs -> FrameStages]
      /\ ppc # "idle" => pframe \in Jobs
      /\ wpc \in {"write", "written"} => wjob \in Jobs /\ jobState[wjob] = "writing" /\ frame[wjob] = "job"
      /\ UNCHANGED workerVars
  BY WriterIsJob DEF FramesInv, CycleTypes, QueueTypes, ParserHolds, ParserThread,
     ParserTakes, ParserRejects, ParserRecognises, LockTransition, RecheckRejects, RecheckPasses,
     EnqueueRejects, SubmitJob, BeginSubmit, PutJob, PutNoWait, MarkHanded, UnlockTransition,
     ReleaseSlot, ParserEnds, sqVars
<1> DEFINE Stay == \A f \in Jobs : Accepted(f) => Accepted(f)' /\ InCycle(f)'
<1>1. CASE ParserRejects \/ RecheckRejects \/ EnqueueRejects \/ SubmitJob
  <2>1. /\ pframe \in Jobs /\ frame[pframe] = "admitted" /\ ~PutJob
        /\ \E stage \in {"rejected", "job"} : frame' = [frame EXCEPT ![pframe] = stage]
        /\ jobState' = jobState \/ jobState' = [jobState EXCEPT ![pframe] = "submitting"]
    BY <1>0, <1>1 DEF ParserRejects, RecheckRejects, EnqueueRejects, SubmitJob, BeginSubmit, PutJob,
       ParserGoes, Becomes, sqVars, queueVars, FramesInv, ParserHolds
  <2>2. ASSUME NEW f \in Jobs, Accepted(f) PROVE f # pframe
    BY <1>0, <2>1, <2>2 DEF Accepted, Writing
  <2>3. \A f \in Jobs : f # pframe => frame'[f] = frame[f] /\ jobState'[f] = jobState[f]
    BY <1>0, <2>1
  <2> QED BY <1>0, <2>1, <2>2, <2>3 DEF Accepted, InCycle, Writing, workerVars
<1>2. CASE PutJob
  <2>1. /\ pframe \in Jobs /\ frame[pframe] = "job" /\ jobState[pframe] = "submitting"
        /\ frame' = frame /\ pframe' = pframe
        /\ jobState' = [jobState EXCEPT ![pframe] = IF HasRoom THEN "queued" ELSE "refused"]
    BY <1>0, <1>2 DEF PutJob, PutNoWait, ParserGoes, FramesInv, ParserHolds, frameVars,
       JobsAreFrames, HandOver, HandsInv
  <2>2. ASSUME NEW f \in Jobs, Accepted(f) PROVE f # pframe
    BY <1>0, <2>1, <2>2 DEF Accepted, Writing
  <2>3. Stay
    BY <1>0, <2>1, <2>2 DEF Accepted, InCycle, Writing, workerVars
  <2>4. HasRoom => Accepted(pframe)'
    BY <1>0, <2>1 DEF Accepted
  <2> QED BY <2>1, <2>3, <2>4
<1>3. CASE ~(ParserRejects \/ RecheckRejects \/ EnqueueRejects \/ SubmitJob \/ PutJob)
  <2>1. UNCHANGED <<jobState, frame>>
    BY <1>3 DEF ParserThread, ParserTakes, ParserRecognises, LockTransition, RecheckPasses,
       MarkHanded, UnlockTransition, ReleaseSlot, ParserEnds, sqVars, queueVars, frameVars
  <2> QED BY <1>0, <1>3, <2>1 DEF Accepted, InCycle, Writing, workerVars
<1> QED BY <1>1, <1>2, <1>3

LEMMA ParserOwner ==
    ASSUME FramesInv, HandOver, Ticket, OwnerNow, ParserThread PROVE OwnerNow'
<1>0. /\ UNCHANGED <<wpc, upc, removed>> /\ (ppc # "idle" => pframe \in Jobs)
      /\ \A f \in Jobs : Accepted(f) => Accepted(f)' /\ InCycle(f)'
  BY ParserAccepts DEF FramesInv, CycleTypes, ParserHolds, ParserThread,
     ParserTakes, ParserRejects, ParserRecognises, LockTransition, RecheckRejects, RecheckPasses,
     EnqueueRejects, SubmitJob, BeginSubmit, PutJob, PutNoWait, MarkHanded, UnlockTransition,
     ReleaseSlot, ParserEnds, sqVars, workerVars, userVars
<1>1. \A u \in Users : Withdraws(u)' <=> Withdraws(u)
  BY <1>0 DEF Withdraws
<1>2. handed => (\E f \in Jobs : Accepted(f)' /\ InCycle(f)') \/ \E u \in Users : Withdraws(u)'
  BY <1>0, <1>1 DEF OwnerNow
<1>3. CASE ParserRejects \/ RecheckRejects \/ EnqueueRejects \/ (PutJob /\ ~HasRoom)
  <2>1. UNCHANGED admission /\ ppc' \in {"unlock", "slot"}
    BY <1>3 DEF ParserRejects, RecheckRejects, EnqueueRejects, PutJob, ParserGoes
  <2> QED BY <1>0, <1>2, <2>1 DEF OwnerNow, admission
<1>4. CASE PutJob /\ HasRoom
  <2>1. UNCHANGED admission /\ ppc' = "mark" /\ pframe \in Jobs /\ Accepted(pframe)' /\ pframe' = pframe
    BY <1>4, ParserAccepts DEF PutJob, ParserGoes
  <2>2. InCycle(pframe)'
    BY <2>1 DEF Accepted, InCycle
  <2> QED BY <1>0, <1>2, <2>1, <2>2 DEF OwnerNow, admission
<1>5. CASE ParserTakes \/ ParserRecognises \/ LockTransition \/ RecheckPasses \/ SubmitJob
  <2>1. /\ UNCHANGED admission
        /\ ppc \notin {"unlock", "slot", "release"} /\ ppc' # "mark"
    BY <1>5 DEF ParserTakes, ParserRecognises, LockTransition, RecheckPasses, SubmitJob, ParserGoes
  <2>2. ~(ParserRejects \/ RecheckRejects \/ EnqueueRejects \/ (PutJob /\ ~HasRoom))
    BY <1>5, <2>1 DEF ParserTakes, ParserRecognises, LockTransition, RecheckPasses, SubmitJob, PutJob,
       ParserRejects, RecheckRejects, EnqueueRejects, ParserGoes
  <2>3. \A f \in Jobs : InCycle(f)' <=> InCycle(f)
    BY <2>2, ParserCycle
  <2> QED BY <1>0, <1>1, <1>2, <2>1, <2>3 DEF OwnerNow, admission
<1>6. CASE MarkHanded
  <2>1. /\ ppc = "mark" /\ ppc' = "unlock" /\ pframe' = pframe /\ pframe \in Jobs
        /\ UNCHANGED <<reserved, cooldown>> /\ handed' = (handed \/ reserved)
    BY <1>0, <1>6 DEF MarkHanded, MarkHandedToQueue, ParserGoes
  <2>2. reserved => Accepted(pframe)
    BY <2>1 DEF OwnerNow, WrittenAlready
  <2>3. handed => reserved
    BY DEF Ticket
  <2>4. reserved' \/ handed' => \E f \in Jobs : Accepted(f)' /\ InCycle(f)'
    BY <1>0, <2>1, <2>2, <2>3
  <2> QED BY <1>0, <2>1, <2>4 DEF OwnerNow
<1>7. CASE UnlockTransition \/ ReleaseSlot
  <2>1. /\ UNCHANGED admission
        /\ ppc \in {"unlock", "slot"} /\ ppc' \in {"slot", "release"}
    BY <1>7 DEF UnlockTransition, ReleaseSlot, ParserGoes
  <2>2. ~(ParserRejects \/ RecheckRejects \/ EnqueueRejects \/ (PutJob /\ ~HasRoom))
    BY <2>1 DEF PutJob, ParserRejects, RecheckRejects, EnqueueRejects, ParserGoes
  <2>3. \A f \in Jobs : InCycle(f)' <=> InCycle(f)
    BY <2>2, ParserCycle
  <2> QED BY <1>0, <1>1, <1>2, <2>1, <2>3 DEF OwnerNow, admission
<1>8. CASE ParserEnds
  <2>1. /\ ppc' = "idle" /\ UNCHANGED <<handed, cooldown>> /\ reserved' = (reserved /\ handed)
    BY <1>8 DEF ParserEnds, ReleaseUnhanded, ParserGoes
  <2> QED BY <1>0, <1>2, <2>1 DEF OwnerNow
<1> QED BY <1>3, <1>4, <1>5, <1>6, <1>7, <1>8 DEF ParserThread

LEMMA WorkerOwner ==
    ASSUME FramesInv, HandOver, OwnerNow, WorkerThread, ~stopped PROVE OwnerNow'
<1>0. /\ UNCHANGED <<ppc, pframe, frame, upc, removed>> /\ (ppc # "idle" => pframe \in Jobs)
      /\ ~WorkerCancelsOnStop
      /\ WriterReturns => wpc = "written" /\ wpc' = "settle"
      /\ ~WriterReturns => wpc # "written" /\ UNCHANGED admission
  BY DEF WorkerThread, cycleVars, parserVars, frameVars, userVars, FramesInv, CycleTypes,
     ParserHolds, Worker, WorkerLoop, WorkerGate, WorkerGet, WorkerGetTimesOut, WorkerAdopt,
     WorkerCancelsOnStop, WorkerStartsWrite, WriteEnds, WriterReturns, WorkerSettles,
     WorkerDetaches, WorkerGoes
<1>1. CASE WriterReturns
  <2>1. reserved' = FALSE /\ handed' = FALSE /\ cooldown' = TRUE
    BY <1>0, <1>1 DEF WorkerThread, FinishWrittenCycle
  <2> QED BY <1>0, <1>1, <2>1 DEF OwnerNow, WrittenAlready
<1>2. CASE ~WriterReturns
  <2>1. \A f \in Jobs : InCycle(f)' <=> InCycle(f)
    BY <1>0, <1>2, WorkerCycle
  <2>2. \A f \in Jobs : jobState[f] # "submitting" => jobState'[f] # "submitting"
    BY DEF WorkerThread, Worker, WorkerLoop, WorkerGate, WorkerGet, WorkerGetTimesOut,
       WorkerAdopt, WorkerCancelsOnStop, WorkerStartsWrite, WriteEnds, WriterReturns,
       WorkerSettles, WorkerDetaches, Verdict, queueVars, FramesInv, CycleTypes, QueueTypes
  <2>3. \A f \in Jobs : Accepted(f) => Accepted(f)'
    <3>1. \A f \in Jobs : Accepted(f) => InCycle(f) /\ frame[f] = "job" /\ jobState[f] # "submitting"
      BY WriterIsJob DEF Accepted, InCycle, Writing
    <3> QED BY <1>0, <2>1, <2>2, <3>1 DEF Accepted, InCycle
  <2>4. \A f \in Jobs : jobState[f] \in Terminal => jobState'[f] \in Terminal
    BY FinalStep DEF WorkerThread, QueueMoves, Final, FramesInv, CycleTypes, HandOver
  <2>5. \A u \in Users : Withdraws(u)' <=> Withdraws(u)
    BY <1>0 DEF Withdraws
  <2>6. wpc' \in {"settle", "detach"} => wpc \in {"settle", "detach"}
    BY <1>0, <1>2 DEF WorkerThread, Worker, WorkerLoop, WorkerGate, WorkerGet, WorkerGetTimesOut,
       WorkerAdopt, WorkerStartsWrite, WriteEnds, WorkerSettles, WorkerDetaches, WorkerGoes
  <2>7. ASSUME ppc = "mark", ~Accepted(pframe) PROVE WrittenAlready'
    <3>1. WrittenAlready /\ pframe \in Jobs /\ frame[pframe] = "job"
      BY <1>0, <2>7 DEF OwnerNow, FramesInv, ParserHolds
    <3>2. CASE jobState[pframe] \in Terminal
      BY <1>0, <1>2, <2>4, <3>1, <3>2 DEF WrittenAlready, admission
    <3>3. CASE jobState[pframe] \notin Terminal
      <4>1. jobState[pframe] = "writing"
        BY <1>0, <2>7, <3>1, <3>3 DEF Accepted, FramesInv, CycleTypes, QueueTypes, JobsAreFrames,
           HandOver, HandsInv, JobStates, Terminal, NoJob, Jobs
      <4>2. wpc = "settle"
        BY <3>1, <3>3, <4>1, WriterIsJob DEF WrittenAlready, HandOver, JobsAccounted
      <4>3. wpc' = "detach"
        BY <4>2 DEF WorkerThread, Worker, WorkerLoop, WorkerGate, WorkerGet, WorkerGetTimesOut,
           WorkerAdopt, WorkerCancelsOnStop, WorkerStartsWrite, WriteEnds, WriterReturns,
           WorkerSettles, WorkerDetaches, WorkerGoes
      <4> QED BY <1>0, <1>2, <3>1, <4>3 DEF WrittenAlready, admission
    <3> QED BY <3>2, <3>3
  <2>8. ppc' = "mark" => Accepted(pframe)' \/ WrittenAlready'
    BY <1>0, <2>3, <2>7
  <2> QED BY <1>0, <1>2, <2>1, <2>3, <2>5, <2>6, <2>8 DEF OwnerNow, admission
<1> QED BY <1>1, <1>2

LEMMA UserOwner ==
    ASSUME ClearsUnderLock, FramesInv, HandOver, LockInv, OwnerTypes, OwnerNow, ~stopped,
           NEW u \in Users, UserCalls(u) \/ BeginChange(u) \/ UserThread(u)
    PROVE  OwnerNow'
<1>0. /\ UNCHANGED <<wpc, wjob, ppc, pframe>> /\ (ppc # "idle" => pframe \in Jobs)
      /\ ~ShutdownPool(u)
  BY DEF UserCalls, BeginChange, UserStarts, Pause, Resume, CancelCurrent, BeginClear, BeginStop,
     UserThread, ClearLoop, ClearNext, ClearEnds, ClearReadsStatus, ClearCancelsCycle, SetActive,
     SetActiveRaises, EndChange, Shutdown, StopFlag, StopOpensGate, StopReadsEvent, StopSetsEvent,
     ShutdownSerial, ShutdownPool, UserGoes, cycleVars, parserVars, workerVars, OwnerTypes,
     FramesInv, CycleTypes, ParserHolds
<1>1. frame' = frame
  BY <1>0, OthersLeave DEF Elsewhere
<1>2. upc[u] \in {"clear", "status", "cancel"} => transition = u /\ ppc # "mark"
  BY CycleAssumption DEF OwnerTypes, LockInv
<1>3. ASSUME UNCHANGED <<admission, jobState>>, Withdraws(u) => Withdraws(u)',
             \A v \in Users \ {u} : upc'[v] = upc[v] /\ removed'[v] = removed[v]
      PROVE  OwnerNow'
  <2>1. \A v \in Users : Withdraws(v) => Withdraws(v)'
    BY <1>3 DEF Withdraws
  <2>2. \A f \in Jobs : (InCycle(f) => InCycle(f)') /\ (Accepted(f) => Accepted(f)')
    BY <1>0, <1>1, <1>3 DEF InCycle, Accepted, Writing
  <2> QED BY <1>0, <1>3, <2>1, <2>2, OwnerKept
<1> USE DEF FramesInv, CycleTypes, QueueTypes, UserGoes, userVars, queueVars
<1>4. CASE UserCalls(u) \/ BeginChange(u)
  BY <1>3, <1>4 DEF UserCalls, BeginChange, UserStarts, Pause, Resume, CancelCurrent, BeginClear,
     BeginStop, Calls, ClearsUnderLock, Withdraws
<1>5. CASE SetActive(u) \/ SetActiveRaises(u) \/ EndChange(u) \/ Shutdown(u) \/ ShutdownSerial(u)
  BY <1>3, <1>5 DEF SetActive, SetActiveRaises, EndChange, Shutdown, StopFlag, StopOpensGate,
     StopReadsEvent, StopSetsEvent, ShutdownSerial, Withdraws
<1>6. CASE ClearLoop(u)
  <2>1. CASE ClearNext(u)
    <3>1. upc'[u] = "clear" /\ removed'[u] /\ UNCHANGED admission /\ ppc # "mark"
      BY <1>2, <1>6, <2>1 DEF ClearLoop, ClearNext
    <3> QED BY <1>0, <3>1 DEF OwnerNow, Withdraws, admission
  <2>2. CASE ~ClearNext(u)
    BY <1>3, <1>6, <2>2 DEF ClearLoop, ClearEnds, Withdraws
  <2> QED BY <2>1, <2>2
<1>7. CASE ClearReadsStatus(u)
  <2>1. CASE current = NoJob
    BY <1>3, <1>7, <2>1 DEF ClearReadsStatus, Withdraws
  <2>2. CASE current # NoJob
    <3>1. ppc # "mark" /\ UNCHANGED <<admission, jobState>>
      BY <1>2, <1>7 DEF ClearReadsStatus
    <3>2. CASE wpc \in {"settle", "detach"}
      <4>1. ~reserved /\ ~handed /\ cooldown
        BY <3>2 DEF OwnerNow, OwnerTypes
      <4> QED BY <1>0, <3>1, <4>1 DEF OwnerNow, admission
    <3>3. CASE wpc \notin {"settle", "detach"}
      <4>1. wpc \in {"check", "write", "written"}
        BY <2>2, <3>3 DEF OwnerTypes
      <4>2. wjob \in Jobs /\ frame[wjob] = "job" /\ (wpc = "check" => jobState[wjob] = "taken")
        BY <4>1, WriterIsJob
      <4>3. Accepted(wjob)' /\ InCycle(wjob)' /\ wjob' \in Jobs
        BY <1>0, <1>1, <3>1, <4>1, <4>2 DEF Accepted, InCycle, Writing
      <4> QED BY <1>0, <3>1, <3>3, <4>3 DEF OwnerNow, admission
    <3> QED BY <3>2, <3>3
  <2> QED BY <2>1, <2>2
<1>8. CASE ClearCancelsCycle(u)
  <2>1. /\ reserved' = FALSE /\ cooldown' = cooldown /\ ppc # "mark"
        /\ handed' = (handed /\ ~reserved)
    BY <1>2, <1>8 DEF ClearCancelsCycle, CancelPending
  <2>2. ~handed'
    BY <2>1 DEF OwnerTypes
  <2> QED BY <1>0, <2>1, <2>2 DEF OwnerNow
<1> QED BY <1>0, <1>4, <1>5, <1>6, <1>7, <1>8 DEF UserThread

LEMMA OwnerStep ==
    ASSUME ClearsUnderLock, FramesInv, HandOver, LockInv, OwnerInv, [CycleNext]_vars
    PROVE  OwnerInv'
<1>0. /\ OwnerTypes' /\ Ticket /\ (stopped => stopped')
      /\ ppc # "idle" => pframe \in Jobs
  BY OwnerTypesStep, StoppedStays, CycleOps
     DEF OwnerInv, OwnerTypes, Ticket, FramesInv, CycleTypes, ParserHolds
<1> SUFFICES ASSUME ~stopped, OwnerTypes, OwnerNow PROVE OwnerNow'
  BY <1>0 DEF OwnerInv
<1>1. CASE TimePasses
  <2>1. /\ UNCHANGED <<jobState, frame, wjob, wpc, ppc, pframe, upc, removed, reserved, handed>>
        /\ wpc \notin {"settle", "detach"} /\ ~(ppc # "idle" /\ jobState[pframe] \in Terminal)
    BY <1>1 DEF TimePasses, CooldownElapses, Straggler, ClearsUnderLock, sqVars, queueVars,
       workerVars, userVars, cycleVars, frameVars, parserVars
  <2>2. \A f \in Jobs : (InCycle(f)' <=> InCycle(f)) /\ (Accepted(f)' <=> Accepted(f))
    BY <2>1 DEF InCycle, Accepted, Writing
  <2>3. \A u \in Users : Withdraws(u)' <=> Withdraws(u)
    BY <2>1 DEF Withdraws
  <2>4. ppc = "mark" => ~WrittenAlready
    BY <2>1 DEF WrittenAlready
  <2> QED BY <1>0, <2>1, <2>2, <2>3, <2>4 DEF OwnerNow
<1>2. CASE UNCHANGED vars
  <2>1. UNCHANGED <<jobState, frame, wjob, wpc, ppc, pframe, upc, removed, admission>>
    BY <1>2 DEF vars, sqVars, queueVars, workerVars, userVars, cycleVars, frameVars, parserVars
  <2>2. \A f \in Jobs : (InCycle(f)' <=> InCycle(f)) /\ (Accepted(f)' <=> Accepted(f))
    BY <2>1 DEF InCycle, Accepted, Writing
  <2>3. \A u \in Users : Withdraws(u)' <=> Withdraws(u)
    BY <2>1 DEF Withdraws
  <2> QED BY <1>0, <2>1, <2>2, <2>3, OwnerKept
<1> QED BY <1>0, <1>1, <1>2, ReaderOwner, ParserOwner, WorkerOwner, UserOwner DEF CycleNext

(* While the application is not closing, a reserved ticket always has a      *)
(* frame on its way or a thread that is about to give it back: the reader is *)
(* never left answering "busy" for good.  The hypotheses name the ways in    *)
(* which the code does lose it: clear_pending called outside a configuration *)
(* change, a configuration whose reading raises, a thread that still has     *)
(* statements left for a written document when the cooldown is over.         *)
THEOREM TicketHasOwner == ClearsUnderLock => (CycleSpec => []ReservationHasOwner)
<1> SUFFICES ASSUME ClearsUnderLock PROVE CycleSpec => []ReservationHasOwner
  OBVIOUS
<1> DEFINE Inv == FramesInv /\ HandOver /\ LockInv /\ OwnerInv
<1>1. CycleInit => Inv
  <2> SUFFICES ASSUME CycleInit PROVE Inv
    OBVIOUS
  <2>1. LockInv
    BY CycleAssumption DEF CycleInit, SQInit, LockInv
  <2>2. OwnerInv
    BY DEF CycleInit, SQInit, AdmissionInit, OwnerInv, OwnerTypes, OwnerNow, TicketTypes
  <2> QED BY <2>1, <2>2, FramesStart
<1>2. Inv /\ [CycleNext]_vars => Inv'
  BY FramesStep, LockStep, OwnerStep
<1>3. Inv => ReservationHasOwner
  BY DEF OwnerInv, OwnerNow, Withdraws, ReservationHasOwner
<1> QED BY <1>1, <1>2, <1>3, PTL DEF CycleSpec

-----------------------------------------------------------------------------
(* The order of the documents.                                              *)

LEMMA QueueOrderStep ==
    ASSUME FramesInv, HandOver, PoolOrder, QueueOrder, [CycleNext]_vars PROVE QueueOrder'
<1>0. /\ Len(queue) \in Nat /\ queue \in Seq(Jobs) /\ wjob \in Nat
      /\ \A i \in 1..Len(queue) : queue[i] \in Nat
      /\ wpc = "get" => wjob = NoJob
  <2>1. queue \in Seq(Jobs) /\ wjob \in Jobs \union {NoJob}
    BY DEF FramesInv, CycleTypes, QueueTypes
  <2>2. \A j \in Jobs \union {NoJob} : j \in Nat
    BY QueueAssumption DEF Jobs, NoJob
  <2>3. Len(queue) \in Nat /\ \A i \in 1..Len(queue) : queue[i] \in Jobs
    BY <2>1, LenProperties, ElementOfSeq
  <2>4. wpc = "get" => wjob = NoJob
    BY DEF HandOver, HandsInv
  <2> QED BY <2>1, <2>2, <2>3, <2>4
<1>1. \/ queue' = queue /\ wjob' \in {wjob, NoJob}
      \/ /\ queue # <<>> /\ queue' = Tail(queue)
         /\ (wpc = "get" /\ wpc' = "adopt" /\ wjob' = Head(queue)) \/ wjob' = wjob
      \/ PutJob /\ ppc = "put" /\ pframe \in Jobs /\ queue' = Append(queue, pframe) /\ wjob' = wjob
  <2>1. wjob' = wjob \/ wjob' = NoJob \/ (wjob' = Head(queue) /\ queue # <<>> /\ queue' = Tail(queue))
    <3>1. QueueMoves
      BY CycleOps, OpsMove DEF FramesInv
    <3> QED BY <3>1 DEF QueueMoves, BeginSubmit, PutNoWait, Worker, WorkerLoop, WorkerGate,
         WorkerGet, WorkerGetTimesOut, WorkerAdopt, WorkerCancelsOnStop, WorkerStartsWrite,
         WriteEnds, WriterReturns, WorkerSettles, WorkerDetaches, ClearNext, workerVars
  <2>2. PutJob => wjob' = wjob
    BY DEF PutJob, PutNoWait, workerVars
  <2>3. queue # <<>> => Tail(queue) # queue
    BY <1>0, FirstTaken
  <2> QED BY <2>1, <2>2, <2>3, QueueGoes
<1>2. CASE queue' = queue /\ wjob' \in {wjob, NoJob}
  BY <1>0, <1>2, ElementOfSeq DEF QueueOrder, NoJob, Jobs
<1>3. CASE /\ queue # <<>> /\ queue' = Tail(queue)
           /\ (wpc = "get" /\ wpc' = "adopt" /\ wjob' = Head(queue)) \/ wjob' = wjob
  <2>1. /\ Len(queue) \in Nat \ {0} /\ Head(queue) = queue[1]
        /\ Len(queue') = Len(queue) - 1
        /\ \A i \in 1..Len(queue') : i + 1 \in 1..Len(queue) /\ queue'[i] = queue[i + 1]
    BY <1>0, <1>3, FirstTaken
  <2>2. \A i \in 1..Len(queue'), k \in 1..Len(queue') : i < k => queue'[i] < queue'[k]
    <3> SUFFICES ASSUME NEW i \in 1..Len(queue'), NEW k \in 1..Len(queue'), i < k
                 PROVE  queue'[i] < queue'[k]
      OBVIOUS
    <3>1. i + 1 < k + 1 /\ i + 1 \in 1..Len(queue) /\ k + 1 \in 1..Len(queue)
      BY <2>1
    <3> QED BY <2>1, <3>1 DEF QueueOrder
  <2>3. \A i \in 1..Len(queue') : queue[1] < queue'[i] /\ wjob < queue'[i]
    BY <2>1, SMTT(30) DEF QueueOrder
  <2> QED BY <1>3, <2>1, <2>2, <2>3 DEF QueueOrder
<1>4. CASE PutJob /\ ppc = "put" /\ pframe \in Jobs /\ queue' = Append(queue, pframe) /\ wjob' = wjob
  <2>1. /\ Len(queue') = Len(queue) + 1
        /\ \A i \in 1..Len(queue) : queue'[i] = queue[i]
        /\ queue'[Len(queue) + 1] = pframe
    BY <1>0, <1>4, LastAdded
  <2>2. jobState[pframe] = "submitting"
    BY <1>4 DEF FramesInv, JobsAreFrames, HandOver, HandsInv, NoJob, Jobs
  <2>3. \A i \in 1..Len(queue) : queue[i] < pframe
    <3>1. ASSUME NEW i \in 1..Len(queue) PROVE queue[i] < pframe
      <4>1. queue[i] \in Jobs /\ frame[queue[i]] = "job" /\ queue[i] # pframe
        BY <2>2, PendingAreFrames
      <4> QED BY <1>4, <4>1 DEF PoolOrder, Jobs, NoJob
    <3> QED BY <3>1
  <2>4. wjob < pframe
    <3>1. CASE wjob = NoJob
      BY <1>4, <3>1 DEF NoJob, Jobs
    <3>2. CASE wjob # NoJob
      <4>1. wjob \in Jobs /\ frame[wjob] = "job" /\ jobState[wjob] # "submitting"
        BY <3>2, WriterIsJob DEF FramesInv, CycleTypes, QueueTypes, HandOver, HandsInv, Terminal
      <4> QED BY <1>4, <2>2, <4>1 DEF PoolOrder, Jobs, NoJob
    <3> QED BY <3>1, <3>2
  <2>5. \A i \in 1..Len(queue') : i \in 1..Len(queue) \/ i = Len(queue) + 1
    BY <1>0, <2>1
  <2> QED BY <1>0, <1>4, <2>1, <2>3, <2>4, <2>5 DEF QueueOrder
<1> QED BY <1>1, <1>2, <1>3, <1>4

\* What the order of the frames rests on: their numbers and where they are.
LEMMA OrderFacts ==
    ASSUME FramesInv
    PROVE  /\ \A j \in Jobs : j \in Nat /\ j # NoJob
           /\ Len(pool) \in Nat /\ \A i \in 1..Len(pool) : pool[i] \in Jobs
           /\ \A r \in Readers : rframe[r] \in Jobs \union {NoJob}
           /\ pframe \in Jobs \union {NoJob} /\ frame \in [Jobs -> FrameStages]
           /\ pframe # NoJob => frame[pframe] # "unread"
<1>1. \A j \in Jobs : j \in Nat /\ j # NoJob
  BY QueueAssumption DEF Jobs, NoJob
<1>2. Len(pool) \in Nat /\ \A i \in 1..Len(pool) : pool[i] \in Jobs
  BY LenProperties, ElementOfSeq DEF FramesInv, CycleTypes
<1>3. pframe # NoJob => frame[pframe] # "unread"
  BY DEF FramesInv, CycleTypes, ParserHolds, ParserSteps
<1> QED BY <1>1, <1>2, <1>3 DEF FramesInv, CycleTypes

LEMMA ArrivalOrder ==
    ASSUME FramesInv, ReaderOrder, PoolOrder, OneReaderThread,
           NEW r \in Readers, NEW f \in Jobs, FrameArrives(r, f)
    PROVE  ReaderOrder' /\ PoolOrder'
<1>1. /\ frame[f] = "unread" /\ \A e \in Jobs : e < f => frame[e] # "unread"
      /\ frame' = [frame EXCEPT ![f] = "read"]
      /\ rframe[r] = NoJob /\ rframe' = [rframe EXCEPT ![r] = f]
      /\ UNCHANGED <<pool, pframe>>
  BY OrderFacts DEF FrameArrives, ReaderGoes, Becomes, poolVars, parserVars, FramesInv, ReadersHold, Jobs
<1>2. /\ \A q \in Readers : q = r
      /\ rframe'[r] = f /\ frame'[f] = "read"
      /\ \A e \in Jobs : e # f => frame'[e] = frame[e]
  BY <1>1 DEF OneReaderThread, FramesInv, CycleTypes
<1>3. \A e \in Jobs : f < e => frame[e] = "unread"
  BY <1>1 DEF ReaderOrder
<1>4. ReaderOrder'
  <2>1. \A e \in Jobs, g \in Jobs : e < g /\ frame'[e] = "unread" => frame'[g] = "unread"
    BY <1>1, <1>2 DEF ReaderOrder
  <2>2. \A g \in Jobs : frame'[g] = "read" => \E q \in Readers : rframe'[q] = g
    <3>1. ASSUME NEW g \in Jobs, frame'[g] = "read" PROVE g = f
      BY <1>1, <1>2, <3>1, OrderFacts DEF ReaderOrder
    <3> QED BY <1>2, <3>1
  <2>3. \A g \in Jobs : frame'[g] = "admitted" =>
            \/ \E q \in Readers : rframe'[q] = g
            \/ \E i \in 1..Len(pool) : pool[i] = g
            \/ pframe = g
    <3>1. ASSUME NEW g \in Jobs, frame'[g] = "admitted"
          PROVE  (\E i \in 1..Len(pool) : pool[i] = g) \/ pframe = g
      BY <1>1, <1>2, <3>1, OrderFacts DEF ReaderOrder
    <3> QED BY <3>1
  <2>4. \A q \in Readers : \A g \in Jobs : frame'[g] # "unread" => g <= rframe'[q]
    BY <1>2, <1>3, OrderFacts
  <2> QED BY <1>1, <2>1, <2>2, <2>3, <2>4 DEF ReaderOrder
<1>5. PoolOrder'
  <2>1. \A e \in Jobs : frame'[e] = "job" => frame[e] = "job"
    BY <1>2
  <2> QED BY <1>1, <2>1, OrderFacts DEF PoolOrder
<1> QED BY <1>4, <1>5

\* A frame that goes on, is decided or is given up keeps its place in the order.
LEMMA StageOrder ==
    ASSUME FramesInv, ReaderOrder, PoolOrder,
           NEW f \in Jobs, frame[f] # "unread",
           \A e \in Jobs : e # f => frame'[e] = frame[e],
           frame'[f] # "unread", frame'[f] = "read" => \E r \in Readers : rframe'[r] = f,
           frame'[f] = "admitted" => \/ \E r \in Readers : rframe'[r] = f
                                     \/ pframe = f,
           frame'[f] = "job" => frame[f] = "job" \/ f = pframe,
           \A r \in Readers : \/ rframe'[r] = rframe[r]
                              \/ rframe[r] = f /\ rframe'[r] = NoJob,
           UNCHANGED <<pool, pframe>>
    PROVE  ReaderOrder' /\ PoolOrder'
<1>1. \A e \in Jobs : frame'[e] = "unread" <=> frame[e] = "unread"
  OBVIOUS
<1>2. \A e \in Jobs, g \in Jobs : e < g /\ frame'[e] = "unread" => frame'[g] = "unread"
  BY <1>1 DEF ReaderOrder
<1>3. ASSUME NEW g \in Jobs, frame'[g] = "read" PROVE \E r \in Readers : rframe'[r] = g
  <2>1. CASE g = f
    BY <1>3, <2>1
  <2>2. CASE g # f
    BY <1>3, <2>2 DEF ReaderOrder
  <2> QED BY <2>1, <2>2
<1>4. ASSUME NEW g \in Jobs, frame'[g] = "admitted"
      PROVE  \/ \E r \in Readers : rframe'[r] = g
             \/ \E i \in 1..Len(pool) : pool[i] = g
             \/ pframe = g
  <2>1. CASE g = f
    BY <1>4, <2>1
  <2>2. CASE g # f
    BY <1>4, <2>2 DEF ReaderOrder
  <2> QED BY <2>1, <2>2
<1>5. \A r \in Readers : rframe'[r] # NoJob =>
          \A g \in Jobs : frame'[g] # "unread" => g <= rframe'[r]
  BY <1>1 DEF ReaderOrder
<1>6. ReaderOrder'
  BY <1>2, <1>3, <1>4, <1>5 DEF ReaderOrder
<1>7. \A e \in Jobs : frame'[e] = "job" => frame[e] = "job" \/ e = pframe
  OBVIOUS
<1>8. PoolOrder'
  BY <1>7, OrderFacts, SMTT(30) DEF PoolOrder
<1> QED BY <1>6, <1>8

LEMMA SamePlacesOrder ==
    ASSUME FramesInv, ReaderOrder, PoolOrder, UNCHANGED <<frame, rframe, pool, pframe>>
    PROVE  ReaderOrder' /\ PoolOrder'
  BY DEF ReaderOrder, PoolOrder

LEMMA ReaderOrderStep ==
    ASSUME FramesInv, ReaderOrder, PoolOrder, OneReaderThread,
           NEW r \in Readers, ReaderContinues(r)
    PROVE  ReaderOrder' /\ PoolOrder'
<1>1. CASE CheckPaused(r) \/ ReserveCycle(r) \/ FrameIgnored(r) \/ ReleaseRefusedFrame(r)
            \/ CaptureRaises(r)
  <2>1. /\ UNCHANGED <<pool, pframe>> /\ rpc[r] # "idle"
        /\ ReaderPasses(r) \/ ReaderDrops(r)
    BY <1>1, ReaderShapes
  <2>2. rframe[r] \in Jobs /\ frame[rframe[r]] \in {"read", "admitted"}
    BY <2>1, OrderFacts DEF FramesInv, ReadersHold, CycleTypes, ReaderSteps
  <2>3. /\ \A e \in Jobs : e # rframe[r] => frame'[e] = frame[e]
        /\ \/ rframe' = rframe /\ frame'[rframe[r]] \in {"read", "admitted"}
           \/ /\ rframe' = [rframe EXCEPT ![r] = NoJob]
              /\ frame'[rframe[r]] \in {"ignored", "rejected", "raised"}
    <3>1. frame \in [Jobs -> FrameStages]
      BY OrderFacts
    <3>2. CASE ReaderPasses(r)
      BY <2>2, <3>1, <3>2 DEF ReaderPasses
    <3>3. CASE ReaderDrops(r)
      <4>1. PICK stage \in {"ignored", "rejected", "raised"} :
               frame' = [frame EXCEPT ![rframe[r]] = stage] /\ rframe' = [rframe EXCEPT ![r] = NoJob]
        BY <3>3 DEF ReaderDrops
      <4> QED BY <2>2, <3>1, <4>1
    <3> QED BY <2>1, <3>2, <3>3
  <2>4. \A q \in Readers : rframe'[q] = rframe[q] \/ (rframe[q] = rframe[r] /\ rframe'[q] = NoJob)
    BY <2>3 DEF FramesInv, CycleTypes
  <2>5. rframe' = rframe => \E q \in Readers : rframe'[q] = rframe[r]
    OBVIOUS
  <2>6. PICK f \in Jobs : f = rframe[r]
    BY <2>2
  <2>7. /\ frame[f] # "unread" /\ frame'[f] # "unread"
        /\ \A e \in Jobs : e # f => frame'[e] = frame[e]
        /\ frame'[f] = "read" => \E q \in Readers : rframe'[q] = f
        /\ frame'[f] = "admitted" => (\E q \in Readers : rframe'[q] = f) \/ pframe = f
        /\ frame'[f] = "job" => frame[f] = "job" \/ f = pframe
    BY <2>2, <2>3, <2>5, <2>6
  <2>8. \A q \in Readers : rframe'[q] = rframe[q] \/ (rframe[q] = f /\ rframe'[q] = NoJob)
    BY <2>4, <2>6
  <2> QED BY <2>1, <2>7, <2>8, StageOrder
<1>2. CASE AcquireSlot(r) \/ CaptureSnapshot(r) \/ (SubmitToPool(r) /\ ~poolOpen)
  <2>1. UNCHANGED <<frame, rframe, pool, pframe>>
    BY <1>2 DEF AcquireSlot, CaptureSnapshot, SubmitToPool, parserVars, frameVars, poolVars
  <2> QED BY <2>1, SamePlacesOrder
<1>3. CASE SubmitToPool(r) /\ poolOpen
  <2>1. /\ rpc[r] = "submit" /\ pool' = Append(pool, rframe[r])
        /\ rframe' = [rframe EXCEPT ![r] = NoJob] /\ UNCHANGED <<frame, pframe>>
    BY <1>3 DEF SubmitToPool, ReaderGoes, ReaderReturns, parserVars, frameVars
  <2>2. rframe[r] \in Jobs /\ frame[rframe[r]] = "admitted"
    BY <2>1, OrderFacts DEF FramesInv, ReadersHold
  <2>3. /\ Len(pool') = Len(pool) + 1 /\ pool'[Len(pool) + 1] = rframe[r]
        /\ \A i \in 1..Len(pool) : pool'[i] = pool[i]
    BY <2>1, <2>2, LastAdded DEF FramesInv, CycleTypes
  <2>4. \A i \in 1..Len(pool') : i \in 1..Len(pool) \/ i = Len(pool) + 1
    BY <2>3, OrderFacts
  <2>5. \A q \in Readers : q = r /\ rframe'[q] = NoJob
    BY <2>1 DEF OneReaderThread, FramesInv, CycleTypes
  <2>6. \A f \in Jobs : frame[f] # "unread" => f <= rframe[r]
    BY <2>2, OrderFacts DEF ReaderOrder
  <2>7. ReaderOrder'
    <3>1. ASSUME NEW f \in Jobs, frame[f] = "admitted"
          PROVE  (\E i \in 1..Len(pool') : pool'[i] = f) \/ pframe = f
      <4>1. CASE f = rframe[r]
        BY <2>3, <4>1, OrderFacts
      <4>2. CASE \E i \in 1..Len(pool) : pool[i] = f
        BY <2>3, <4>2, OrderFacts
      <4> QED BY <2>5, <3>1, <4>1, <4>2 DEF ReaderOrder
    <3>2. \A f \in Jobs : frame[f] # "read"
      BY <2>2, <2>5 DEF ReaderOrder
    <3> QED BY <2>1, <2>5, <3>1, <3>2 DEF ReaderOrder
  <2>8. PoolOrder'
    <3>1. \A i \in 1..Len(pool) : pool[i] < rframe[r]
      <4>1. ASSUME NEW i \in 1..Len(pool) PROVE pool[i] < rframe[r]
        <5>1. pool[i] \in Jobs /\ frame[pool[i]] # "unread" /\ pool[i] # rframe[r]
          BY OrderFacts DEF FramesInv, PoolHolds
        <5> QED BY <2>2, <2>6, <5>1, OrderFacts
      <4> QED BY <4>1
    <3>2. \A f \in Jobs : frame[f] = "job" \/ f = pframe => f < rframe[r]
      <4>1. ASSUME NEW f \in Jobs, frame[f] = "job" \/ f = pframe PROVE f < rframe[r]
        <5>1. frame[f] # "unread" /\ f # rframe[r]
          BY <2>2, <4>1, OrderFacts DEF FramesInv, ParserHolds
        <5> QED BY <2>2, <2>6, <5>1, OrderFacts
      <4> QED BY <4>1
    <3>3. \A i \in 1..Len(pool'), k \in 1..Len(pool') : i < k => pool'[i] < pool'[k]
      BY <2>3, <2>4, <3>1, OrderFacts DEF PoolOrder
    <3>4. \A i \in 1..Len(pool') : \A f \in Jobs : frame[f] = "job" \/ f = pframe => f < pool'[i]
      BY <2>3, <2>4, <3>2, OrderFacts DEF PoolOrder
    <3> QED BY <2>1, <3>3, <3>4 DEF PoolOrder
  <2> QED BY <2>7, <2>8
<1> QED BY <1>1, <1>2, <1>3 DEF ReaderContinues

LEMMA ParserOrderStep ==
    ASSUME FramesInv, ReaderOrder, PoolOrder, ParserThread
    PROVE  ReaderOrder' /\ PoolOrder'
<1>1. CASE ParserTakes
  <2>1. /\ Len(pool) \in Nat \ {0} /\ pframe' = pool[1] /\ pool[1] \in Jobs
        /\ Len(pool') = Len(pool) - 1 /\ pframe = NoJob
        /\ \A i \in 1..Len(pool') : i + 1 \in 1..Len(pool) /\ pool'[i] = pool[i + 1]
        /\ UNCHANGED <<frame, rframe>>
    BY <1>1, PoolTaken DEF ParserTakes, ParserGoes, FramesInv, ParserHolds, readerVars, frameVars
  <2>2. ReaderOrder'
    <3>1. ASSUME NEW i \in 1..Len(pool), i # 1
          PROVE  i - 1 \in 1..Len(pool') /\ pool'[i - 1] = pool[i]
      BY <2>1, <3>1
    <3>2. ASSUME NEW f \in Jobs, frame[f] = "admitted"
          PROVE  \/ \E r \in Readers : rframe[r] = f
                 \/ \E i \in 1..Len(pool') : pool'[i] = f
                 \/ pool[1] = f
      BY <2>1, <3>1, <3>2, OrderFacts, SMTT(30) DEF ReaderOrder
    <3> QED BY <2>1, <3>2 DEF ReaderOrder
  <2>3. PoolOrder'
    <3>1. ASSUME NEW i \in 1..Len(pool'), NEW k \in 1..Len(pool'), i < k PROVE pool'[i] < pool'[k]
      <4>1. i + 1 < k + 1
        BY <3>1
      <4> QED BY <2>1, <4>1 DEF PoolOrder
    <3>2. \A i \in 1..Len(pool') : pool[1] < pool'[i]
      BY <2>1 DEF PoolOrder
    <3>3. \A f \in Jobs : frame[f] = "job" => f < pool[1]
      BY <2>1 DEF PoolOrder
    <3>4. \A i \in 1..Len(pool') : \A f \in Jobs : frame[f] = "job" \/ f = pool[1] => f < pool'[i]
      BY <2>1, <3>2 DEF PoolOrder
    <3> QED BY <2>1, <3>1, <3>3, <3>4, OrderFacts DEF PoolOrder
  <2> QED BY <2>2, <2>3
<1>2. CASE ParserRejects \/ RecheckRejects \/ EnqueueRejects \/ SubmitJob
  <2>1. /\ ppc \in {"parse", "recheck", "enqueue"} /\ UNCHANGED <<rframe, pool, pframe>>
        /\ \E stage \in {"rejected", "job"} : frame' = [frame EXCEPT ![pframe] = stage]
    BY <1>2 DEF ParserRejects, RecheckRejects, EnqueueRejects, SubmitJob, ParserGoes, Becomes,
       readerVars, poolVars
  <2>2. PICK f \in Jobs : f = pframe
    BY <2>1, OrderFacts DEF FramesInv, ParserHolds
  <2>3. /\ frame[f] # "unread" /\ frame'[f] \in {"rejected", "job"}
        /\ \A e \in Jobs : e # f => frame'[e] = frame[e]
    BY <2>1, <2>2, OrderFacts
  <2> QED BY <2>1, <2>2, <2>3, StageOrder
<1>3. CASE ParserRecognises \/ LockTransition \/ RecheckPasses \/ MarkHanded \/ UnlockTransition
           \/ PutJob \/ ReleaseSlot
  <2>1. UNCHANGED <<frame, rframe, pool, pframe>>
    BY <1>3 DEF ParserRecognises, LockTransition, RecheckPasses, MarkHanded, PutJob,
       UnlockTransition, ReleaseSlot, readerVars, poolVars, frameVars
  <2> QED BY <2>1, SamePlacesOrder
<1>4. CASE ParserEnds
  <2>1. /\ UNCHANGED <<frame, rframe, pool>> /\ pframe' = NoJob /\ pframe \in Jobs
        /\ frame[pframe] \in {"rejected", "job"}
    BY <1>4, OrderFacts DEF ParserEnds, ParserGoes, FramesInv, ParserHolds, readerVars, poolVars, frameVars
  <2>2. ReaderOrder'
    BY <2>1 DEF ReaderOrder
  <2>3. PoolOrder'
    BY <2>1, OrderFacts DEF PoolOrder
  <2> QED BY <2>2, <2>3
<1> QED BY <1>1, <1>2, <1>3, <1>4 DEF ParserThread

LEMMA PoolClosesOrder ==
    ASSUME FramesInv, ReaderOrder, PoolOrder, NEW u \in Users, ShutdownPool(u)
    PROVE  ReaderOrder' /\ PoolOrder'
<1>1. /\ UNCHANGED <<rframe, pframe>> /\ pool' = <<>> /\ Len(pool') = 0
      /\ frame' = [f \in Jobs |-> IF \E i \in 1..Len(pool) : pool[i] = f
                                  THEN "dropped" ELSE frame[f]]
  BY EmptySeq DEF ShutdownPool, readerVars, parserVars
<1>2. \A f \in Jobs : \/ frame'[f] = frame[f] /\ \A i \in 1..Len(pool) : pool[i] # f
                      \/ frame'[f] = "dropped" /\ frame[f] = "admitted"
  BY <1>1 DEF FramesInv, PoolHolds
<1>3. \A f \in Jobs : frame'[f] = "unread" <=> frame[f] = "unread"
  BY <1>2
<1>4. ReaderOrder'
  <2>1. \A e \in Jobs, f \in Jobs : e < f /\ frame'[e] = "unread" => frame'[f] = "unread"
    BY <1>3 DEF ReaderOrder
  <2>2. ASSUME NEW f \in Jobs, frame'[f] = "read" PROVE \E r \in Readers : rframe[r] = f
    BY <1>2, <2>2 DEF ReaderOrder
  <2>3. ASSUME NEW f \in Jobs, frame'[f] = "admitted"
        PROVE  (\E r \in Readers : rframe[r] = f) \/ pframe = f
    BY <1>2, <2>3 DEF ReaderOrder
  <2>4. \A r \in Readers : rframe[r] # NoJob => \A f \in Jobs : frame'[f] # "unread" => f <= rframe[r]
    BY <1>3 DEF ReaderOrder
  <2> QED BY <1>1, <2>1, <2>2, <2>3, <2>4 DEF ReaderOrder
<1>5. PoolOrder'
  <2>1. \A f \in Jobs : frame'[f] = "job" => frame[f] = "job"
    BY <1>2
  <2> QED BY <1>1, <2>1 DEF PoolOrder
<1> QED BY <1>4, <1>5

LEMMA OrderStep ==
    ASSUME FramesInv, HandOver, OrderInv, OneReaderThread, [CycleNext]_vars PROVE OrderInv'
<1>1. QueueOrder'
  BY QueueOrderStep DEF OrderInv
<1>2. CASE Elsewhere
  BY <1>1, <1>2, SamePlacesOrder DEF OrderInv, Elsewhere
<1>3. ASSUME NEW r \in Readers, (\E f \in Jobs : FrameArrives(r, f)) \/ ReaderContinues(r)
      PROVE  ReaderOrder' /\ PoolOrder'
  BY <1>3, ArrivalOrder, ReaderOrderStep DEF OrderInv
<1>4. CASE ParserThread
  BY <1>1, <1>4, ParserOrderStep DEF OrderInv
<1>5. ASSUME NEW u \in Users, ShutdownPool(u) PROVE ReaderOrder' /\ PoolOrder'
  BY <1>5, PoolClosesOrder DEF OrderInv
<1> QED BY <1>1, <1>2, <1>3, <1>4, <1>5, OthersLeave DEF CycleNext, OrderInv

\* Every earlier frame is over when a frame is being written.
LEMMA OrderMeans ==
    ASSUME FramesInv, HandOver, OrderInv, OneReaderThread PROVE ScanOrderKept
<1> SUFFICES ASSUME wpc = "write", NEW e \in 1..(wjob - 1)
             PROVE  frame[e] # "read" /\ ~InCycle(e)
  BY DEF ScanOrderKept
<1>1. /\ wjob \in Jobs /\ frame[wjob] = "job" /\ jobState[wjob] = "writing"
  <2>1. wjob # NoJob /\ wjob \in Jobs \union {NoJob} /\ jobState[wjob] = "writing"
    BY DEF FramesInv, CycleTypes, QueueTypes, HandOver, HandsInv
  <2> QED BY <2>1, WriterIsJob DEF FramesInv, HandOver
<1>2. e \in Jobs /\ e < wjob /\ e \in Nat /\ wjob \in Nat
  BY <1>1, QueueAssumption DEF Jobs
<1>3. frame[e] # "read"
  <2>1. ASSUME frame[e] = "read" PROVE FALSE
    <3>1. PICK r \in Readers : rframe[r] = e
      BY <1>2, <2>1 DEF OrderInv, ReaderOrder
    <3>2. wjob <= e
      BY <1>1, <1>2, <3>1, OrderFacts DEF OrderInv, ReaderOrder
    <3> QED BY <1>2, <3>2
  <2> QED BY <2>1
<1>4. frame[e] # "admitted"
  <2>1. ASSUME frame[e] = "admitted" PROVE FALSE
    <3>1. ASSUME NEW r \in Readers, rframe[r] = e PROVE FALSE
      BY <1>1, <1>2, <3>1, OrderFacts DEF OrderInv, ReaderOrder
    <3>2. ASSUME NEW i \in 1..Len(pool), pool[i] = e PROVE FALSE
      BY <1>1, <1>2, <3>2 DEF OrderInv, PoolOrder
    <3>3. CASE pframe = e
      BY <1>1, <1>2, <3>3, OrderFacts DEF OrderInv, PoolOrder
    <3> QED BY <1>2, <2>1, <3>1, <3>2, <3>3 DEF OrderInv, ReaderOrder
  <2> QED BY <2>1
<1>5. jobState[e] # "submitting"
  <2>1. ASSUME jobState[e] = "submitting" PROVE FALSE
    <3>1. e = pframe
      BY <1>2, <2>1, OrderFacts DEF HandOver, HandsInv, FramesInv, JobsAreFrames
    <3> QED BY <1>1, <1>2, <3>1, OrderFacts DEF OrderInv, PoolOrder
  <2> QED BY <2>1
<1>6. jobState[e] # "queued"
  <2>1. ASSUME jobState[e] = "queued" PROVE FALSE
    <3>1. PICK i \in 1..Len(queue) : queue[i] = e
      BY <1>2, <2>1 DEF HandOver, JobsAccounted
    <3> QED BY <1>2, <3>1 DEF OrderInv, QueueOrder
  <2> QED BY <2>1
<1>7. jobState[e] # "taken" /\ ~Writing(e)
  BY <1>1, <1>2 DEF HandOver, JobsAccounted, Writing
<1> QED BY <1>3, <1>4, <1>5, <1>6, <1>7 DEF InCycle

\* Scan order (ScanOrderKept), with one serial reader: when a document is being
\* written no earlier frame is waiting, being parsed, queued or taken; the pool,
\* the parser and the queue each preserve the order of arrival.
THEOREM WrittenInScanOrder == OneReaderThread => (CycleSpec => []ScanOrderKept)
<1> SUFFICES ASSUME OneReaderThread PROVE CycleSpec => []ScanOrderKept
  OBVIOUS
<1> DEFINE Inv == FramesInv /\ HandOver /\ OrderInv
<1>1. CycleInit => Inv
  <2> SUFFICES ASSUME CycleInit PROVE Inv
    OBVIOUS
  <2>1. FramesInv /\ HandOver
    BY FramesStart
  <2>2. /\ Len(pool) = 0 /\ Len(queue) = 0 /\ pframe = NoJob
        /\ \A f \in Jobs : frame[f] = "unread"
        /\ \A r \in Readers : rframe[r] = NoJob
    BY EmptySeq DEF CycleInit, SQInit
  <2>3. OrderInv
    BY <2>2 DEF OrderInv, ReaderOrder, PoolOrder, QueueOrder
  <2> QED BY <2>1, <2>3
<1>2. Inv /\ [CycleNext]_vars => Inv'
  BY FramesStep, OrderStep, CycleOps, OpsMove, HandsStep, AccountStep DEF HandOver, FramesInv
<1>3. Inv => ScanOrderKept
  BY OrderMeans
<1> QED BY <1>1, <1>2, <1>3, PTL DEF CycleSpec
=============================================================================
