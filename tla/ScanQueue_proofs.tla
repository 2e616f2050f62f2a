-------------------------- MODULE ScanQueue_proofs --------------------------
(***************************************************************************)
(* Proofs about the write queue, for any number of jobs, any capacity, any  *)
(* set of user threads and any of their operations.                         *)
(***************************************************************************)
EXTENDS ScanQueue, SequenceTheorems, TLAPS

-----------------------------------------------------------------------------
(* The inductive invariants, by theme.                                      *)

\* What stop() has to reach: its event is the one of the write under way.
StopInv ==
    /\ wpc \in {"check", "write", "written", "settle", "detach"} => cancelRef = wjob
    /\ \A u \in Users : upc[u] = "event" /\ wpc = "write" => uref[u] = wjob
    /\ \A u \in Users : Signalling(u) => stopped
    /\ StoppedWriteIsCancelled

\* Between the gate and the write there is at most one late job.
PauseInv ==
    /\ gate => lateStarts = 0
    /\ lateStarts = 1 => wpc \notin {"get", "adopt", "check"}
    /\ PauseAdmitsOneWrite

\* The worker's and the producer's job have the state their step says.
HandsInv ==
    /\ wjob = NoJob <=> wpc \in {"loop", "gate", "get", "done"}
    /\ wpc \in {"adopt", "check"} => jobState[wjob] = "taken"
    /\ wpc \in {"write", "written", "settle"} => jobState[wjob] = "writing"
    /\ wpc = "detach" => jobState[wjob] \in Terminal
    /\ submitting # NoJob => jobState[submitting] = "submitting"
    /\ \A j \in Jobs : jobState[j] = "submitting" => submitting = j

\* The jobs stand in the order of their numbers: decided ones first, then the
\* worker's, the queue, the one being submitted, and those to come.
LineInv ==
    /\ \A i \in 1..Len(queue), k \in 1..Len(queue) : i < k => queue[i] < queue[k]
    /\ \A i \in 1..Len(queue) : wjob < queue[i]
    /\ submitting # NoJob =>
          wjob < submitting /\ \A i \in 1..Len(queue) : queue[i] < submitting
    /\ \A i \in Jobs, j \in Jobs : i < j /\ jobState[i] = "new" => jobState[j] = "new"
    /\ wjob # NoJob => \A i \in 1..(wjob - 1) : jobState[i] \in Terminal

QueueInv == QueueTypes /\ HandsInv /\ JobsAccounted

-----------------------------------------------------------------------------
(* Type correctness.                                                        *)

\* The statements of stop() that follow the flag.
StopSteps == {"open", "ref", "event"}

\* The operations of the queue, whatever the calling thread does next.
UserMoves(u) ==
    \/ UserStarts(u) \/ BeginStop(u) \/ ClearNext(u)
    \/ StopFlag(u) \/ StopOpensGate(u) \/ StopReadsEvent(u)
    \/ \E next : next \notin StopSteps /\ (ClearEnds(u, next) \/ StopSetsEvent(u, next))

\* Nobody enters or leaves the statements of stop().
StopsRest == \A u \in Users, at \in StopSteps : upc'[u] = at <=> upc[u] = at

QueueOps ==
    \/ \E j \in Jobs : BeginSubmit(j)
    \/ PutNoWait \/ Worker
    \/ \E u \in Users : UserMoves(u)
    \/ StopsRest /\ UNCHANGED <<queueVars, flagVars, cancelVars, workerVars, removed, uref>>

LEMMA NextOps == [Next]_sqVars => QueueOps
  BY DEF Next, Producer, UserContinues, QueueOps, UserMoves, StopSteps, StopsRest, sqVars, userVars

\* No step leaves the types: in particular the queue never holds more than its
\* capacity (put_nowait refuses the job), and the worker's job is a job.
LEMMA TypesKept == QueueTypes /\ QueueOps => QueueTypes'
<1> SUFFICES ASSUME QueueTypes, QueueOps PROVE QueueTypes'
  OBVIOUS
<1> USE QueueAssumption
    DEF QueueTypes, Jobs, NoJob, JobStates, Results,
        queueVars, flagVars, cancelVars, workerVars, userVars
<1>1. ASSUME NEW j \in Jobs, BeginSubmit(j) PROVE QueueTypes'
  BY <1>1 DEF BeginSubmit
<1>2. CASE PutNoWait
  <2>1. submitting \in Jobs
    BY <1>2 DEF PutNoWait
  <2>2. queue' \in Seq(Jobs) /\ Len(queue') <= Capacity
    <3>1. CASE HasRoom
      <4>1. queue' = Append(queue, submitting)
        BY <1>2, <3>1 DEF PutNoWait
      <4>2. Len(queue) \in Nat /\ Len(queue) < Capacity
        BY <3>1, LenProperties DEF HasRoom
      <4> QED
        BY <2>1, <4>1, <4>2, AppendProperties
    <3>2. CASE ~HasRoom
      BY <1>2, <3>2 DEF PutNoWait
    <3> QED
      BY <3>1, <3>2
  <2>3. jobState' \in [Jobs -> JobStates]
    BY <1>2, <2>1 DEF PutNoWait
  <2> QED
    BY <1>2, <2>2, <2>3 DEF PutNoWait
<1>3. CASE WorkerLoop
  BY <1>3 DEF WorkerLoop
<1>4. CASE WorkerGate
  BY <1>4 DEF WorkerGate
<1>5. CASE WorkerGet
  BY <1>5, HeadTailProperties DEF WorkerGet, WorkerGoes
<1>6. CASE WorkerGetTimesOut
  BY <1>6 DEF WorkerGetTimesOut, WorkerGoes
<1>7. CASE WorkerAdopt
  BY <1>7 DEF WorkerAdopt, WorkerGoes
<1>8. CASE WorkerCancelsOnStop
  BY <1>8 DEF WorkerCancelsOnStop, WorkerGoes
<1>9. CASE WorkerStartsWrite
  <2>1. lateStarts' \in Nat
    BY <1>9 DEF WorkerStartsWrite
  <2>2. jobState' \in [Jobs -> JobStates] /\ wpc' = "write"
    BY <1>9 DEF WorkerStartsWrite, WorkerGoes
  <2> QED
    BY <1>9, <2>1, <2>2 DEF WorkerStartsWrite
<1>10. CASE WriteEnds
  BY <1>10 DEF WriteEnds, WorkerGoes
<1>11. CASE WriterReturns
  BY <1>11 DEF WriterReturns, WorkerGoes
<1>12. CASE WorkerSettles
  BY <1>12 DEF WorkerSettles, Verdict, WorkerGoes
<1>13. CASE WorkerDetaches
  BY <1>13 DEF WorkerDetaches, WorkerGoes
<1>14. ASSUME NEW u \in Users, Pause(u) PROVE QueueTypes'
  <2>1. gate' \in BOOLEAN /\ lateStarts' \in Nat
    BY <1>14 DEF Pause
  <2> QED
    BY <1>14, <2>1 DEF Pause
<1>15. ASSUME NEW u \in Users, Resume(u) PROVE QueueTypes'
  <2>1. gate' \in BOOLEAN /\ lateStarts' \in Nat
    BY <1>15 DEF Resume
  <2> QED
    BY <1>15, <2>1 DEF Resume
<1>16. ASSUME NEW u \in Users, CancelCurrent(u) PROVE QueueTypes'
  BY <1>16 DEF CancelCurrent, Calls
<1>17. ASSUME NEW u \in Users, BeginClear(u) PROVE QueueTypes'
  BY <1>17 DEF BeginClear, Calls, UserGoes
<1>18. ASSUME NEW u \in Users, BeginStop(u) PROVE QueueTypes'
  BY <1>18 DEF BeginStop, Calls, UserGoes
<1>19. ASSUME NEW u \in Users, ClearNext(u) PROVE QueueTypes'
  BY <1>19, HeadTailProperties DEF ClearNext
<1>20. ASSUME NEW u \in Users, NEW next, ClearEnds(u, next) PROVE QueueTypes'
  BY <1>20 DEF ClearEnds, UserGoes
<1>21. ASSUME NEW u \in Users, StopFlag(u) PROVE QueueTypes'
  BY <1>21 DEF StopFlag, UserGoes
<1>22. ASSUME NEW u \in Users, StopOpensGate(u) PROVE QueueTypes'
  BY <1>22 DEF StopOpensGate, UserGoes
<1>23. ASSUME NEW u \in Users, StopReadsEvent(u) PROVE QueueTypes'
  BY <1>23 DEF StopReadsEvent, UserGoes
<1>24. ASSUME NEW u \in Users, NEW next, StopSetsEvent(u, next) PROVE QueueTypes'
  <2>1. uref' \in [Users -> Jobs \union {NoJob}]
    BY <1>24 DEF StopSetsEvent
  <2>2. cancelled' \in SUBSET (Jobs \union {NoJob})
    BY <1>24 DEF StopSetsEvent
  <2> QED
    BY <1>24, <2>1, <2>2 DEF StopSetsEvent
<1>25. CASE UNCHANGED <<queueVars, flagVars, cancelVars, workerVars, removed, uref>>
  BY <1>25
<1> QED
  BY <1>1, <1>2, <1>3, <1>4, <1>5, <1>6, <1>7, <1>8, <1>9, <1>10, <1>11, <1>12,
     <1>13, <1>14, <1>15, <1>16, <1>17, <1>18, <1>19, <1>20, <1>21, <1>22, <1>23,
     <1>24, <1>25
  DEF QueueOps, UserMoves, Worker, UserStarts

LEMMA TypeStep == TypeOK /\ [Next]_sqVars => TypeOK'
<1> SUFFICES ASSUME TypeOK, [Next]_sqVars PROVE TypeOK'
  OBVIOUS
<1>1. QueueTypes'
  BY NextOps, TypesKept DEF TypeOK
<1>2. CASE upc' = upc
  BY <1>1, <1>2 DEF TypeOK
<1>3. ASSUME NEW u \in Users, NEW from, NEW to \in UserSteps, UserGoes(u, from, to) PROVE TypeOK'
  BY <1>1, <1>3 DEF TypeOK, UserGoes
<1> QED
  BY <1>2, <1>3 DEF Next, Producer, BeginSubmit, PutNoWait, Worker, WorkerLoop, WorkerGate,
     WorkerGet, WorkerGetTimesOut, WorkerAdopt, WorkerCancelsOnStop, WorkerStartsWrite,
     WriteEnds, WriterReturns, WorkerSettles, WorkerDetaches, UserStarts, Pause, Resume,
     CancelCurrent, BeginClear, BeginStop, UserContinues, ClearNext, ClearEnds, StopFlag,
     StopOpensGate, StopReadsEvent, StopSetsEvent, UserSteps, userVars, sqVars

-----------------------------------------------------------------------------
(* stop() and the write under way.                                          *)

LEMMA StopStep ==
    ASSUME NEW Steps, upc \in [Users -> Steps], QueueTypes, StopInv, QueueOps
    PROVE  StopInv'
<1> USE DEF QueueTypes, StopInv, StoppedWriteIsCancelled, Signalling, StopSteps,
        queueVars, flagVars, cancelVars, workerVars, userVars
<1>1. ASSUME NEW j \in Jobs, BeginSubmit(j) PROVE StopInv'
  BY <1>1 DEF BeginSubmit
<1>2. CASE PutNoWait
  BY <1>2 DEF PutNoWait, HasRoom
<1>3. CASE WorkerLoop
  BY <1>3 DEF WorkerLoop
<1>4. CASE WorkerGate
  BY <1>4 DEF WorkerGate
<1>5. CASE WorkerGet
  BY <1>5 DEF WorkerGet, WorkerGoes
<1>6. CASE WorkerGetTimesOut
  BY <1>6 DEF WorkerGetTimesOut, WorkerGoes
<1>7. CASE WorkerAdopt
  BY <1>7 DEF WorkerAdopt, WorkerGoes
<1>8. CASE WorkerCancelsOnStop
  BY <1>8 DEF WorkerCancelsOnStop, WorkerGoes
<1>9. CASE WorkerStartsWrite
  BY <1>9 DEF WorkerStartsWrite, WorkerGoes
<1>10. CASE WriteEnds
  BY <1>10 DEF WriteEnds, WorkerGoes
<1>11. CASE WriterReturns
  BY <1>11 DEF WriterReturns, WorkerGoes
<1>12. CASE WorkerSettles
  BY <1>12 DEF WorkerSettles, Verdict, WorkerGoes
<1>13. CASE WorkerDetaches
  BY <1>13 DEF WorkerDetaches, WorkerGoes
<1>14. ASSUME NEW u \in Users, Pause(u) PROVE StopInv'
  BY <1>14 DEF Pause, Calls
<1>15. ASSUME NEW u \in Users, Resume(u) PROVE StopInv'
  BY <1>15 DEF Resume, Calls
<1>16. ASSUME NEW u \in Users, CancelCurrent(u) PROVE StopInv'
  BY <1>16 DEF CancelCurrent, Calls
<1>17. ASSUME NEW u \in Users, BeginClear(u) PROVE StopInv'
  BY <1>17 DEF BeginClear, Calls, UserGoes
<1>18. ASSUME NEW u \in Users, BeginStop(u) PROVE StopInv'
  BY <1>18 DEF BeginStop, Calls, UserGoes
<1>19. ASSUME NEW u \in Users, ClearNext(u) PROVE StopInv'
  BY <1>19 DEF ClearNext
<1>20. ASSUME NEW u \in Users, NEW next, next \notin StopSteps, ClearEnds(u, next) PROVE StopInv'
  BY <1>20 DEF ClearEnds, UserGoes
<1>21. ASSUME NEW u \in Users, StopFlag(u) PROVE StopInv'
  BY <1>21 DEF StopFlag, UserGoes
<1>22. ASSUME NEW u \in Users, StopOpensGate(u) PROVE StopInv'
  BY <1>22 DEF StopOpensGate, UserGoes
<1>23. ASSUME NEW u \in Users, StopReadsEvent(u) PROVE StopInv'
  BY <1>23 DEF StopReadsEvent, UserGoes
<1>24. ASSUME NEW u \in Users, NEW next, next \notin StopSteps, StopSetsEvent(u, next) PROVE StopInv'
  BY <1>24 DEF StopSetsEvent, UserGoes
<1>25. CASE StopsRest /\ UNCHANGED <<queueVars, flagVars, cancelVars, workerVars, removed, uref>>
  BY <1>25 DEF StopsRest
<1> QED
  BY <1>1, <1>2, <1>3, <1>4, <1>5, <1>6, <1>7, <1>8, <1>9, <1>10, <1>11, <1>12,
     <1>13, <1>14, <1>15, <1>16, <1>17, <1>18, <1>19, <1>20, <1>21, <1>22, <1>23,
     <1>24, <1>25
  DEF QueueOps, UserMoves, Worker, UserStarts

-----------------------------------------------------------------------------
(* Pausing.                                                                 *)

LEMMA PauseStep == QueueTypes /\ PauseInv /\ QueueOps => PauseInv'
<1> SUFFICES ASSUME QueueTypes, PauseInv, QueueOps PROVE PauseInv'
  OBVIOUS
<1> USE DEF QueueTypes, PauseInv, PauseAdmitsOneWrite,
        queueVars, flagVars, cancelVars, workerVars, userVars
<1>1. ASSUME NEW j \in Jobs, BeginSubmit(j) PROVE PauseInv'
  BY <1>1 DEF BeginSubmit
<1>2. CASE PutNoWait
  BY <1>2 DEF PutNoWait, HasRoom
<1>3. CASE WorkerLoop
  BY <1>3 DEF WorkerLoop
<1>4. CASE WorkerGate
  BY <1>4 DEF WorkerGate
<1>5. CASE WorkerGet
  BY <1>5 DEF WorkerGet, WorkerGoes
<1>6. CASE WorkerGetTimesOut
  BY <1>6 DEF WorkerGetTimesOut, WorkerGoes
<1>7. CASE WorkerAdopt
  BY <1>7 DEF WorkerAdopt, WorkerGoes
<1>8. CASE WorkerCancelsOnStop
  BY <1>8 DEF WorkerCancelsOnStop, WorkerGoes
<1>9. CASE WorkerStartsWrite
  BY <1>9 DEF WorkerStartsWrite, WorkerGoes
<1>10. CASE WriteEnds
  BY <1>10 DEF WriteEnds, WorkerGoes
<1>11. CASE WriterReturns
  BY <1>11 DEF WriterReturns, WorkerGoes
<1>12. CASE WorkerSettles
  BY <1>12 DEF WorkerSettles, Verdict, WorkerGoes
<1>13. CASE WorkerDetaches
  BY <1>13 DEF WorkerDetaches, WorkerGoes
<1>14. ASSUME NEW u \in Users, Pause(u) PROVE PauseInv'
  BY <1>14 DEF Pause, Calls
<1>15. ASSUME NEW u \in Users, Resume(u) PROVE PauseInv'
  BY <1>15 DEF Resume, Calls
<1>16. ASSUME NEW u \in Users, CancelCurrent(u) PROVE PauseInv'
  BY <1>16 DEF CancelCurrent, Calls
<1>17. ASSUME NEW u \in Users, BeginClear(u) PROVE PauseInv'
  BY <1>17 DEF BeginClear, Calls, UserGoes
<1>18. ASSUME NEW u \in Users, BeginStop(u) PROVE PauseInv'
  BY <1>18 DEF BeginStop, Calls, UserGoes
<1>19. ASSUME NEW u \in Users, ClearNext(u) PROVE PauseInv'
  BY <1>19 DEF ClearNext
<1>20. ASSUME NEW u \in Users, NEW next, ClearEnds(u, next) PROVE PauseInv'
  BY <1>20 DEF ClearEnds, UserGoes
<1>21. ASSUME NEW u \in Users, StopFlag(u) PROVE PauseInv'
  BY <1>21 DEF StopFlag, UserGoes
<1>22. ASSUME NEW u \in Users, StopOpensGate(u) PROVE PauseInv'
  BY <1>22 DEF StopOpensGate, UserGoes
<1>23. ASSUME NEW u \in Users, StopReadsEvent(u) PROVE PauseInv'
  BY <1>23 DEF StopReadsEvent, UserGoes
<1>24. ASSUME NEW u \in Users, NEW next, StopSetsEvent(u, next) PROVE PauseInv'
  BY <1>24 DEF StopSetsEvent, UserGoes
<1>25. CASE UNCHANGED <<queueVars, flagVars, cancelVars, workerVars, removed, uref>>
  BY <1>25
<1> QED
  BY <1>1, <1>2, <1>3, <1>4, <1>5, <1>6, <1>7, <1>8, <1>9, <1>10, <1>11, <1>12,
     <1>13, <1>14, <1>15, <1>16, <1>17, <1>18, <1>19, <1>20, <1>21, <1>22, <1>23,
     <1>24, <1>25
  DEF QueueOps, UserMoves, Worker, UserStarts

-----------------------------------------------------------------------------
(* What taking the first entry of a line and adding one at its end do.      *)

LEMMA FirstTaken ==
    ASSUME NEW S, NEW s \in Seq(S), s # <<>>
    PROVE  /\ Len(s) \in Nat \ {0} /\ Head(s) = s[1] /\ s[1] \in S
           /\ Tail(s) \in Seq(S) /\ Len(Tail(s)) = Len(s) - 1
           /\ \A i \in 1..Len(Tail(s)) : i + 1 \in 1..Len(s) /\ Tail(s)[i] = s[i + 1]
  BY HeadTailProperties, LenProperties, EmptySeq

LEMMA LastAdded ==
    ASSUME NEW S, NEW s \in Seq(S), NEW e \in S
    PROVE  /\ Append(s, e) \in Seq(S)
           /\ Len(s) \in Nat /\ Len(Append(s, e)) = Len(s) + 1
           /\ \A i \in 1..Len(s) : Append(s, e)[i] = s[i]
           /\ Append(s, e)[Len(s) + 1] = e
  BY AppendProperties, LenProperties

-----------------------------------------------------------------------------
(* Where the jobs are.                                                      *)

LEMMA HeadGoes ==
    ASSUME QueueTypes, queue # <<>>, queue' = Tail(queue)
    PROVE  /\ Len(queue) \in Nat \ {0} /\ Head(queue) = queue[1] /\ queue[1] \in Jobs
           /\ Len(queue') = Len(queue) - 1
           /\ \A i \in 1..Len(queue') : i + 1 \in 1..Len(queue) /\ queue'[i] = queue[i + 1]
  BY FirstTaken DEF QueueTypes

\* The first entry of the queue is a queued job; when it goes, the others stay.
LEMMA HeadLeaves ==
    ASSUME QueueTypes, JobsAccounted, queue # <<>>,
           NEW st \in JobStates \ {"queued"},
           queue' = Tail(queue),
           jobState' = [jobState EXCEPT ![Head(queue)] = st]
    PROVE  /\ Head(queue) \in Jobs /\ jobState[Head(queue)] = "queued"
           /\ \A j \in Jobs :
                 jobState'[j] = IF j = Head(queue) THEN st ELSE jobState[j]
           /\ \A j \in Jobs : jobState'[j] = "queued" =>
                 \E i \in 1..Len(queue') : queue'[i] = j
           /\ \A i \in 1..Len(queue') :
                 /\ jobState'[queue'[i]] = "queued"
                 /\ \A k \in 1..Len(queue') : queue'[i] = queue'[k] => i = k
<1>1. /\ Len(queue) \in Nat \ {0} /\ Head(queue) = queue[1] /\ queue[1] \in Jobs
      /\ Len(queue') = Len(queue) - 1
      /\ \A i \in 1..Len(queue') : i + 1 \in 1..Len(queue) /\ queue'[i] = queue[i + 1]
  BY HeadGoes
<1>2. jobState[Head(queue)] = "queued"
  BY <1>1 DEF JobsAccounted
<1>3. \A j \in Jobs : jobState'[j] = IF j = Head(queue) THEN st ELSE jobState[j]
  BY DEF QueueTypes
<1>4. ASSUME NEW j \in Jobs, jobState'[j] = "queued"
      PROVE  \E i \in 1..Len(queue') : queue'[i] = j
  <2>1. j # Head(queue) /\ jobState[j] = "queued"
    BY <1>3, <1>4
  <2>2. PICK i \in 1..Len(queue) : queue[i] = j
    BY <2>1 DEF JobsAccounted
  <2>3. i # 1
    BY <1>1, <2>1, <2>2
  <2>4. i - 1 \in 1..Len(queue') /\ queue'[i - 1] = queue[i]
    BY <1>1, <2>3
  <2> QED
    BY <2>2, <2>4
<1>5. ASSUME NEW i \in 1..Len(queue') PROVE
      /\ jobState'[queue'[i]] = "queued"
      /\ \A k \in 1..Len(queue') : queue'[i] = queue'[k] => i = k
  <2>1. i + 1 \in 1..Len(queue) /\ queue'[i] = queue[i + 1] /\ 1 \in 1..Len(queue)
    BY <1>1
  <2>2. queue[i + 1] # queue[1] /\ queue[i + 1] \in Jobs
    BY <1>1, <2>1, ElementOfSeq DEF JobsAccounted, QueueTypes
  <2>3. jobState'[queue'[i]] = "queued"
    BY <1>1, <1>3, <2>1, <2>2 DEF JobsAccounted
  <2>4. ASSUME NEW k \in 1..Len(queue'), queue'[i] = queue'[k] PROVE i = k
    <3>1. queue[i + 1] = queue[k + 1] /\ k + 1 \in 1..Len(queue)
      BY <1>1, <2>1, <2>4
    <3>2. i + 1 = k + 1
      BY <2>1, <3>1 DEF JobsAccounted
    <3> QED
      BY <1>1, <3>2
  <2> QED
    BY <2>3, <2>4
<1> QED
  BY <1>1, <1>2, <1>3, <1>4, <1>5

\* What the invariants about the jobs need to know of a step.
QueueMoves ==
    \/ \E j \in Jobs : BeginSubmit(j)
    \/ PutNoWait \/ Worker
    \/ \E u \in Users : ClearNext(u)
    \/ UNCHANGED <<queueVars, workerVars>>

LEMMA OpsMove == QueueOps => QueueMoves
  BY DEF QueueOps, UserMoves, QueueMoves, UserStarts, Pause, Resume, CancelCurrent, BeginClear,
         BeginStop, ClearEnds, StopFlag, StopOpensGate, StopReadsEvent, StopSetsEvent

LEMMA HandsStep == QueueTypes /\ HandsInv /\ JobsAccounted /\ QueueMoves => HandsInv'
<1> SUFFICES ASSUME QueueTypes, HandsInv, JobsAccounted, QueueMoves PROVE HandsInv'
  OBVIOUS
<1> USE DEF QueueTypes, HandsInv, JobsAccounted, Jobs, NoJob, JobStates, Terminal,
        queueVars, flagVars, cancelVars, workerVars, userVars
<1>1. ASSUME NEW j \in Jobs, BeginSubmit(j) PROVE HandsInv'
  BY <1>1 DEF BeginSubmit
<1>2. CASE PutNoWait
  <2>1. submitting \in Jobs /\ jobState[submitting] = "submitting"
    BY <1>2 DEF PutNoWait
  <2>2. PICK st \in {"queued", "refused"} :
          jobState' = [jobState EXCEPT ![submitting] = st]
    BY <1>2 DEF PutNoWait
  <2>3. wjob # NoJob => wjob \in Jobs /\ wjob # submitting
    BY <2>1
  <2> QED
    BY <1>2, <2>1, <2>2, <2>3 DEF PutNoWait
<1>3. CASE WorkerLoop
  BY <1>3 DEF WorkerLoop
<1>4. CASE WorkerGate
  BY <1>4 DEF WorkerGate
<1>5. CASE WorkerGet
  <2>1. Head(queue) \in Jobs /\ jobState[Head(queue)] = "queued"
    BY <1>5, HeadLeaves DEF WorkerGet
  <2> QED
    BY <1>5, <2>1 DEF WorkerGet, WorkerGoes
<1>6. CASE WorkerGetTimesOut
  BY <1>6 DEF WorkerGetTimesOut, WorkerGoes
<1>7. CASE WorkerAdopt
  BY <1>7 DEF WorkerAdopt, WorkerGoes
<1>8. CASE WorkerCancelsOnStop
  BY <1>8 DEF WorkerCancelsOnStop, WorkerGoes
<1>9. CASE WorkerStartsWrite
  BY <1>9 DEF WorkerStartsWrite, WorkerGoes
<1>10. CASE WriteEnds
  BY <1>10 DEF WriteEnds, WorkerGoes
<1>11. CASE WriterReturns
  BY <1>11 DEF WriterReturns, WorkerGoes
<1>12. CASE WorkerSettles
  BY <1>12 DEF WorkerSettles, Verdict, WorkerGoes
<1>13. CASE WorkerDetaches
  BY <1>13 DEF WorkerDetaches, WorkerGoes
<1>14. ASSUME NEW u \in Users, ClearNext(u) PROVE HandsInv'
  BY <1>14 DEF ClearNext
<1>15. CASE UNCHANGED <<queueVars, workerVars>>
  BY <1>15
<1> QED
  BY <1>1, <1>2, <1>3, <1>4, <1>5, <1>6, <1>7, <1>8, <1>9, <1>10, <1>11, <1>12,
     <1>13, <1>14, <1>15
  DEF QueueMoves, Worker

LEMMA AccountStep == QueueTypes /\ HandsInv /\ JobsAccounted /\ QueueMoves => JobsAccounted'
<1> SUFFICES ASSUME QueueTypes, HandsInv, JobsAccounted, QueueMoves PROVE JobsAccounted'
  OBVIOUS
<1> USE DEF QueueTypes, HandsInv, JobsAccounted, Jobs, NoJob, JobStates, Terminal,
        queueVars, flagVars, cancelVars, workerVars, userVars
<1>1. ASSUME NEW j \in Jobs, BeginSubmit(j) PROVE JobsAccounted'
  BY <1>1 DEF BeginSubmit
<1>2. CASE PutNoWait
  <2>1. submitting \in Jobs /\ jobState[submitting] = "submitting"
    BY <1>2 DEF PutNoWait
  <2>2. \A i \in 1..Len(queue) : queue[i] \in Jobs /\ queue[i] # submitting
    BY <2>1, ElementOfSeq
  <2>3. CASE HasRoom
    <3>1. /\ queue' = Append(queue, submitting) /\ wjob' = wjob
          /\ jobState' = [jobState EXCEPT ![submitting] = "queued"]
      BY <1>2, <2>3 DEF PutNoWait
    <3>2. /\ Len(queue) \in Nat /\ Len(queue') = Len(queue) + 1
          /\ \A i \in 1..Len(queue) : queue'[i] = queue[i]
          /\ queue'[Len(queue) + 1] = submitting
      BY <2>1, <3>1, LastAdded
    <3>3. \A j \in Jobs : jobState'[j] = IF j = submitting THEN "queued" ELSE jobState[j]
      BY <3>1
    <3>4. ASSUME NEW i \in 1..Len(queue') PROVE
          /\ jobState'[queue'[i]] = "queued"
          /\ \A k \in 1..Len(queue') : queue'[i] = queue'[k] => i = k
      <4>1. \A k \in 1..Len(queue') : k \in 1..Len(queue) \/ k = Len(queue) + 1
        BY <3>2
      <4>2. CASE i \in 1..Len(queue)
        <5>1. queue'[i] = queue[i] /\ queue[i] \in Jobs /\ queue[i] # submitting
          BY <2>2, <3>2, <4>2
        <5>2. jobState'[queue'[i]] = "queued"
          BY <3>3, <4>2, <5>1
        <5>3. ASSUME NEW k \in 1..Len(queue'), queue'[i] = queue'[k] PROVE i = k
          BY <3>2, <4>1, <4>2, <5>1, <5>3
        <5> QED
          BY <5>2, <5>3
      <4>3. CASE i = Len(queue) + 1
        BY <2>1, <2>2, <3>2, <3>3, <4>1, <4>3
      <4> QED
        BY <4>1, <4>2, <4>3
    <3>5. \A j \in Jobs : jobState'[j] = "queued" =>
             \E i \in 1..Len(queue') : queue'[i] = j
      BY <2>1, <3>2, <3>3
    <3> QED
      BY <3>1, <3>3, <3>4, <3>5
  <2>4. CASE ~HasRoom
    <3>1. /\ queue' = queue /\ wjob' = wjob
          /\ \A j \in Jobs :
                jobState'[j] = IF j = submitting THEN "refused" ELSE jobState[j]
      BY <1>2, <2>4 DEF PutNoWait
    <3> QED
      BY <2>1, <2>2, <3>1
  <2> QED
    BY <2>3, <2>4
<1>3. CASE WorkerLoop
  BY <1>3 DEF WorkerLoop
<1>4. CASE WorkerGate
  BY <1>4 DEF WorkerGate
<1>5. CASE WorkerGet
  <2>1. \A j \in Jobs : jobState[j] \notin {"taken", "writing"}
    BY <1>5 DEF WorkerGet, WorkerGoes
  <2> QED
    BY <1>5, <2>1, HeadLeaves DEF WorkerGet
<1>6. CASE WorkerGetTimesOut
  BY <1>6 DEF WorkerGetTimesOut, WorkerGoes
<1>7. CASE WorkerAdopt
  BY <1>7 DEF WorkerAdopt, WorkerGoes
<1>8. CASE WorkerCancelsOnStop
  BY <1>8 DEF WorkerCancelsOnStop, WorkerGoes
<1>9. CASE WorkerStartsWrite
  BY <1>9 DEF WorkerStartsWrite, WorkerGoes
<1>10. CASE WriteEnds
  BY <1>10 DEF WriteEnds, WorkerGoes
<1>11. CASE WriterReturns
  BY <1>11 DEF WriterReturns, WorkerGoes
<1>12. CASE WorkerSettles
  BY <1>12 DEF WorkerSettles, Verdict, WorkerGoes
<1>13. CASE WorkerDetaches
  BY <1>13 DEF WorkerDetaches, WorkerGoes
<1>14. ASSUME NEW u \in Users, ClearNext(u) PROVE JobsAccounted'
  BY <1>14, HeadLeaves DEF ClearNext
<1>15. CASE UNCHANGED <<queueVars, workerVars>>
  BY <1>15
<1> QED
  BY <1>1, <1>2, <1>3, <1>4, <1>5, <1>6, <1>7, <1>8, <1>9, <1>10, <1>11, <1>12,
     <1>13, <1>14, <1>15
  DEF QueueMoves, Worker

-----------------------------------------------------------------------------
(* The order of the jobs.                                                   *)

\* A step leaves final states as they are.
Final == \A j \in Jobs : jobState[j] \in Terminal => jobState'[j] = jobState[j]

LEMMA FinalStep == QueueTypes /\ HandsInv /\ JobsAccounted /\ QueueMoves => Final
<1> SUFFICES ASSUME QueueTypes, HandsInv, JobsAccounted, QueueMoves PROVE Final
  OBVIOUS
<1> USE DEF Final, QueueTypes, HandsInv, JobsAccounted, Jobs, NoJob, Terminal,
        queueVars, flagVars, cancelVars, workerVars, userVars
<1>1. ASSUME NEW j \in Jobs, BeginSubmit(j) PROVE Final
  BY <1>1 DEF BeginSubmit
<1>2. CASE PutNoWait
  BY <1>2 DEF PutNoWait, HasRoom
<1>3. CASE WorkerLoop
  BY <1>3 DEF WorkerLoop
<1>4. CASE WorkerGate
  BY <1>4 DEF WorkerGate
<1>5. CASE WorkerGet
  BY <1>5, HeadLeaves DEF WorkerGet
<1>6. CASE WorkerGetTimesOut
  BY <1>6 DEF WorkerGetTimesOut, WorkerGoes
<1>7. CASE WorkerAdopt
  BY <1>7 DEF WorkerAdopt, WorkerGoes
<1>8. CASE WorkerCancelsOnStop
  BY <1>8 DEF WorkerCancelsOnStop, WorkerGoes
<1>9. CASE WorkerStartsWrite
  BY <1>9 DEF WorkerStartsWrite, WorkerGoes
<1>10. CASE WriteEnds
  BY <1>10 DEF WriteEnds, WorkerGoes
<1>11. CASE WriterReturns
  BY <1>11 DEF WriterReturns, WorkerGoes
<1>12. CASE WorkerSettles
  BY <1>12 DEF WorkerSettles, Verdict, WorkerGoes
<1>13. CASE WorkerDetaches
  BY <1>13 DEF WorkerDetaches, WorkerGoes
<1>14. ASSUME NEW u \in Users, ClearNext(u) PROVE Final
  <2>1. /\ jobState[Head(queue)] = "queued"
        /\ \A j \in Jobs :
              jobState'[j] = IF j = Head(queue) THEN "cancelled" ELSE jobState[j]
    BY <1>14, HeadLeaves DEF ClearNext, JobStates
  <2> QED
    BY <2>1
<1>15. CASE UNCHANGED <<queueVars, workerVars>>
  BY <1>15
<1> QED
  BY <1>1, <1>2, <1>3, <1>4, <1>5, <1>6, <1>7, <1>8, <1>9, <1>10, <1>11, <1>12,
     <1>13, <1>14, <1>15
  DEF QueueMoves, Worker

LEMMA LineStep == QueueInv /\ LineInv /\ [Next]_sqVars => LineInv'
<1> SUFFICES ASSUME QueueInv, LineInv, [Next]_sqVars PROVE LineInv'
  OBVIOUS
<1> USE DEF QueueInv, TypeOK, QueueTypes, HandsInv, JobsAccounted, LineInv, Jobs, NoJob, JobStates,
        Terminal, queueVars, flagVars, cancelVars, workerVars, userVars
<1>1. ASSUME NEW j \in Jobs, InSequence(j), BeginSubmit(j) PROVE LineInv'
  <2>1. \A i \in 1..Len(queue) : queue[i] \in Jobs /\ jobState[queue[i]] = "queued"
    BY ElementOfSeq
  <2>2. jobState[j] = "new" /\ wjob' = wjob /\ queue' = queue /\ submitting' = j
    BY <1>1 DEF BeginSubmit
  <2>3. \A k \in Jobs : jobState'[k] = IF k = j THEN "submitting" ELSE jobState[k]
    BY <1>1 DEF BeginSubmit
  <2>4. \A k \in Jobs : k < j => jobState[k] # "new"
    BY <1>1, QueueAssumption DEF InSequence
  <2>5. \A k \in Jobs : jobState[k] # "new" => k < j
    BY <2>2, QueueAssumption
  <2>6. wjob < j
    <3>1. CASE wjob = NoJob
      BY <3>1
    <3>2. CASE wjob # NoJob
      BY <2>5, <3>2
    <3> QED
      BY <3>1, <3>2
  <2>7. \A i \in 1..Len(queue) : queue[i] < j
    BY <2>1, <2>5
  <2>8. \A i \in Jobs, k \in Jobs : i < k /\ jobState'[i] = "new" => jobState'[k] = "new"
    BY <2>3, <2>4
  <2>9. wjob # NoJob => \A i \in 1..(wjob - 1) : jobState'[i] \in Terminal
    BY <2>2, <2>3, <2>6, QueueAssumption
  <2> QED
    BY <2>2, <2>6, <2>7, <2>8, <2>9
<1>2. CASE PutNoWait
  <2>1. submitting \in Jobs /\ wjob' = wjob /\ submitting' = NoJob
    BY <1>2 DEF PutNoWait
  <2>2. PICK st \in {"queued", "refused"} :
          jobState' = [jobState EXCEPT ![submitting] = st]
    BY <1>2 DEF PutNoWait
  <2>3. \A k \in Jobs : jobState'[k] = IF k = submitting THEN st ELSE jobState[k]
    BY <2>2
  <2>4. \A i \in Jobs, j \in Jobs : i < j /\ jobState'[i] = "new" => jobState'[j] = "new"
    BY <2>1, <2>3, QueueAssumption
  <2>5. wjob # NoJob => \A i \in 1..(wjob - 1) : jobState'[i] \in Terminal
    BY <2>1, <2>3, QueueAssumption
  <2>6. CASE HasRoom
    <3>1. queue' = Append(queue, submitting)
      BY <1>2, <2>6 DEF PutNoWait
    <3>2. /\ Len(queue) \in Nat /\ Len(queue') = Len(queue) + 1
          /\ \A i \in 1..Len(queue) : queue'[i] = queue[i]
          /\ queue'[Len(queue) + 1] = submitting
      BY <2>1, <3>1, LastAdded
    <3>3. \A i \in 1..Len(queue') : wjob < queue'[i]
      BY <2>1, <3>2
    <3>4. ASSUME NEW i \in 1..Len(queue'), NEW k \in 1..Len(queue'), i < k
          PROVE  queue'[i] < queue'[k]
      <4>1. i \in 1..Len(queue) /\ queue'[i] = queue[i]
        BY <3>2, <3>4
      <4>2. k \in 1..Len(queue) \/ k = Len(queue) + 1
        BY <3>2
      <4> QED
        BY <2>1, <3>2, <3>4, <4>1, <4>2
    <3> QED
      BY <2>1, <2>4, <2>5, <3>3, <3>4
  <2>7. CASE ~HasRoom
    <3>1. queue' = queue
      BY <1>2, <2>7 DEF PutNoWait
    <3> QED
      BY <2>1, <2>4, <2>5, <3>1
  <2> QED
    BY <2>6, <2>7
<1>3. CASE WorkerLoop
  BY <1>3 DEF WorkerLoop
<1>4. CASE WorkerGate
  BY <1>4 DEF WorkerGate
<1>5. CASE WorkerGet
  <2>1. /\ queue # <<>> /\ wjob = NoJob /\ wjob' = Head(queue)
        /\ queue' = Tail(queue) /\ submitting' = submitting
        /\ jobState' = [jobState EXCEPT ![Head(queue)] = "taken"]
    BY <1>5 DEF WorkerGet, WorkerGoes
  <2>2. /\ Len(queue) \in Nat \ {0} /\ Head(queue) = queue[1] /\ queue[1] \in Jobs
        /\ Len(queue') = Len(queue) - 1
        /\ \A i \in 1..Len(queue') : i + 1 \in 1..Len(queue) /\ queue'[i] = queue[i + 1]
    BY <2>1, HeadGoes
  <2>3. /\ \A k \in Jobs : jobState'[k] = IF k = Head(queue) THEN "taken" ELSE jobState[k]
        /\ jobState[Head(queue)] = "queued"
    BY <2>1, HeadLeaves
  <2>4. \A i \in 1..Len(queue') : wjob' < queue'[i]
    BY <2>1, <2>2
  <2>5. \A i \in 1..Len(queue'), k \in 1..Len(queue') : i < k => queue'[i] < queue'[k]
    BY <2>2
  <2>6. submitting' # NoJob =>
          wjob' < submitting' /\ \A i \in 1..Len(queue') : queue'[i] < submitting'
    BY <2>1, <2>2
  <2>7. \A i \in Jobs, j \in Jobs : i < j /\ jobState'[i] = "new" => jobState'[j] = "new"
    BY <2>2, <2>3
  <2>8. ASSUME NEW i \in 1..(wjob' - 1) PROVE jobState'[i] \in Terminal
    <3>1. i \in Jobs /\ i < queue[1]
      BY <2>1, <2>2, QueueAssumption
    <3>2. jobState[i] # "new"
      BY <2>2, <2>3, <3>1
    <3>3. jobState[i] # "queued"
      BY <2>2, <3>1
    <3>4. jobState[i] # "submitting"
      BY <2>2, <3>1
    <3>5. jobState[i] \notin {"taken", "writing"}
      BY <2>1, <3>1
    <3>6. jobState[i] \in Terminal
      BY <3>1, <3>2, <3>3, <3>4, <3>5
    <3> QED
      BY <2>1, <2>2, <2>3, <3>1, <3>6
  <2> QED
    BY <2>4, <2>5, <2>6, <2>7, <2>8
<1>6. CASE WorkerGetTimesOut
  BY <1>6 DEF WorkerGetTimesOut, WorkerGoes
<1>7. CASE WorkerAdopt
  BY <1>7 DEF WorkerAdopt, WorkerGoes
<1>8. CASE WorkerCancelsOnStop
  BY <1>8 DEF WorkerCancelsOnStop, WorkerGoes
<1>9. CASE WorkerStartsWrite
  BY <1>9 DEF WorkerStartsWrite, WorkerGoes
<1>10. CASE WriteEnds
  BY <1>10 DEF WriteEnds, WorkerGoes
<1>11. CASE WriterReturns
  BY <1>11 DEF WriterReturns, WorkerGoes
<1>12. CASE WorkerSettles
  BY <1>12 DEF WorkerSettles, Verdict, WorkerGoes
<1>13. CASE WorkerDetaches
  <2>1. \A i \in 1..Len(queue) : queue[i] \in Jobs
    BY ElementOfSeq
  <2> QED
    BY <1>13, <2>1 DEF WorkerDetaches, WorkerGoes
<1>14. ASSUME NEW u \in Users, Pause(u) PROVE LineInv'
  BY <1>14 DEF Pause, Calls
<1>15. ASSUME NEW u \in Users, Resume(u) PROVE LineInv'
  BY <1>15 DEF Resume, Calls
<1>16. ASSUME NEW u \in Users, CancelCurrent(u) PROVE LineInv'
  BY <1>16 DEF CancelCurrent, Calls
<1>17. ASSUME NEW u \in Users, BeginClear(u) PROVE LineInv'
  BY <1>17 DEF BeginClear, Calls, UserGoes
<1>18. ASSUME NEW u \in Users, BeginStop(u) PROVE LineInv'
  BY <1>18 DEF BeginStop, Calls, UserGoes
<1>19. ASSUME NEW u \in Users, ClearNext(u) PROVE LineInv'
  BY <1>19 DEF ClearNext
<1>20. ASSUME NEW u \in Users, ClearEnds(u, "idle") PROVE LineInv'
  BY <1>20 DEF ClearEnds, UserGoes
<1>21. ASSUME NEW u \in Users, StopFlag(u) PROVE LineInv'
  BY <1>21 DEF StopFlag, UserGoes
<1>22. ASSUME NEW u \in Users, StopOpensGate(u) PROVE LineInv'
  BY <1>22 DEF StopOpensGate, UserGoes
<1>23. ASSUME NEW u \in Users, StopReadsEvent(u) PROVE LineInv'
  BY <1>23 DEF StopReadsEvent, UserGoes
<1>24. ASSUME NEW u \in Users, StopSetsEvent(u, "idle") PROVE LineInv'
  BY <1>24 DEF StopSetsEvent, UserGoes
<1>25. CASE UNCHANGED sqVars
  BY <1>25 DEF sqVars
<1> QED
  BY <1>1, <1>2, <1>3, <1>4, <1>5, <1>6, <1>7, <1>8, <1>9, <1>10, <1>11, <1>12,
     <1>13, <1>14, <1>15, <1>16, <1>17, <1>18, <1>19, <1>20, <1>21, <1>22, <1>23,
     <1>24, <1>25
  DEF Next, Producer, Worker, UserStarts, UserContinues

-----------------------------------------------------------------------------
(* The initial states, and the theorems.                                    *)

LEMMA Initially == SQInit => TypeOK /\ StopInv /\ PauseInv /\ QueueInv /\ LineInv
<1> SUFFICES ASSUME SQInit PROVE TypeOK /\ StopInv /\ PauseInv /\ QueueInv /\ LineInv
  OBVIOUS
<1> USE QueueAssumption DEF SQInit, Jobs, NoJob
<1>1. TypeOK
  <2>1. queue \in Seq(Jobs) /\ Len(queue) = 0
    BY EmptySeq
  <2>2. Len(queue) <= Capacity
    BY <2>1
  <2> QED
    BY <2>1, <2>2 DEF TypeOK, QueueTypes, JobStates, Results, UserSteps
<1>2. StopInv
  BY DEF StopInv, Signalling, StoppedWriteIsCancelled
<1>3. PauseInv
  BY DEF PauseInv, PauseAdmitsOneWrite
<1>4. HandsInv /\ JobsAccounted /\ LineInv
  BY EmptySeq DEF HandsInv, JobsAccounted, LineInv, Terminal
<1> QED
  BY <1>1, <1>2, <1>3, <1>4 DEF QueueInv, TypeOK

LEMMA QueueStep == QueueInv /\ QueueOps => QueueInv'
  BY TypesKept, OpsMove, HandsStep, AccountStep DEF QueueInv

LEMMA OutcomeKept ==
    QueueInv /\ QueueOps =>
        [\A j \in Jobs : jobState[j] \in Terminal => jobState'[j] = jobState[j]]_jobState
  BY OpsMove, FinalStep DEF Final, QueueInv

\* The variables keep their types; the queue never exceeds its capacity.
THEOREM TypeCorrect == Spec => []TypeOK
<1>1. SQInit => TypeOK
  BY Initially
<1> QED
  BY <1>1, TypeStep, PTL DEF Spec

\* stop() always reaches the write under way, although it reads the attribute
\* _current_cancel without the lock.
THEOREM StopReachesTheWrite == Spec => []StoppedWriteIsCancelled
<1>1. SQInit => StopInv
  BY Initially
<1>2. StopInv => StoppedWriteIsCancelled
  BY DEF StopInv
<1>3. TypeOK /\ StopInv /\ [Next]_sqVars => StopInv'
  BY NextOps, StopStep DEF TypeOK
<1> QED
  BY <1>1, <1>2, <1>3, TypeCorrect, PTL DEF Spec

\* However pause() falls between the worker's steps, one write at most begins
\* after it.
THEOREM PauseHolds == Spec => []PauseAdmitsOneWrite
<1>1. SQInit => PauseInv
  BY Initially
<1>2. PauseInv => PauseAdmitsOneWrite
  BY DEF PauseInv
<1>3. TypeOK /\ PauseInv /\ [Next]_sqVars => PauseInv'
  BY NextOps, PauseStep DEF TypeOK
<1> QED
  BY <1>1, <1>2, <1>3, TypeCorrect, PTL DEF Spec

\* Any number of clearing threads and the worker: no job is lost or doubled.
THEOREM NoJobLost == Spec => []JobsAccounted
<1>1. SQInit => QueueInv
  BY Initially
<1>2. QueueInv => JobsAccounted
  BY DEF QueueInv
<1> QED
  BY <1>1, <1>2, NextOps, QueueStep, PTL DEF Spec

\* Documents are written in the order they were submitted.
THEOREM WritesInOrder == Spec => []WriteOrder
<1>1. SQInit => QueueInv /\ LineInv
  BY Initially
<1>2. QueueInv /\ LineInv => WriteOrder
  BY DEF QueueInv, HandsInv, LineInv, WriteOrder
<1> QED
  BY <1>1, <1>2, TypeCorrect, NextOps, QueueStep, LineStep, PTL DEF Spec

\* A job's final state is never changed again, by whichever thread.
THEOREM FinalStates == Spec => OutcomeIsFinal
<1>1. SQInit => QueueInv
  BY Initially
<1>2. QueueInv /\ [Next]_sqVars =>
        [\A j \in Jobs : jobState[j] \in Terminal => jobState'[j] = jobState[j]]_jobState
  BY NextOps, OutcomeKept
<1> QED
  BY <1>1, <1>2, NextOps, QueueStep, PTL DEF Spec, OutcomeIsFinal

-----------------------------------------------------------------------------
(* The queue with its threads implements WriteDelivery.                      *)

(* A line with one more entry in front, and lines with one entry removed.   *)

LEMMA InFront ==
    ASSUME NEW S, NEW w \in S, NEW q \in Seq(S)
    PROVE  /\ <<w>> \o q \in Seq(S) /\ <<w>> \o q # <<>>
           /\ Len(q) \in Nat /\ Len(<<w>> \o q) = Len(q) + 1
           /\ (<<w>> \o q)[1] = w
           /\ \A i \in 1..Len(q) : (<<w>> \o q)[i + 1] = q[i]
           /\ Head(<<w>> \o q) = w /\ Tail(<<w>> \o q) = q
<1> DEFINE p == <<w>> \o q
<1>1. <<w>> \in Seq(S) /\ Len(<<w>>) = 1 /\ <<w>>[1] = w
  OBVIOUS
<1>2. Len(q) \in Nat
  BY LenProperties
<1>3. p \in Seq(S) /\ Len(p) = Len(q) + 1
  BY <1>1, <1>2, ConcatProperties
<1>4. p[1] = w /\ \A i \in 1..Len(q) : p[i + 1] = q[i]
  BY <1>1, <1>2, ConcatProperties
<1>5. p # <<>>
  BY <1>2, <1>3, EmptySeq
<1>6. Head(p) = w
  BY <1>3, <1>4, <1>5, FirstTaken
<1>7. Tail(p) = q
  <2>1. /\ Tail(p) \in Seq(S) /\ Len(Tail(p)) = Len(q)
        /\ \A i \in 1..Len(q) : Tail(p)[i] = q[i]
    BY <1>2, <1>3, <1>4, <1>5, FirstTaken
  <2> HIDE DEF p
  <2> QED
    BY <2>1, SeqEqual
<1> QED
  BY <1>2, <1>3, <1>4, <1>5, <1>6, <1>7

LEMMA FrontTaken ==
    ASSUME NEW S, NEW q \in Seq(S), q # <<>>
    PROVE  <<Head(q)>> \o Tail(q) = q
<1> DEFINE p == <<Head(q)>> \o Tail(q)
<1>1. /\ Len(q) \in Nat \ {0} /\ Head(q) = q[1] /\ q[1] \in S
      /\ Tail(q) \in Seq(S) /\ Len(Tail(q)) = Len(q) - 1
      /\ \A i \in 1..Len(Tail(q)) : Tail(q)[i] = q[i + 1]
  BY FirstTaken
<1>2. /\ p \in Seq(S) /\ Len(p) = Len(q) /\ p[1] = q[1]
      /\ \A i \in 1..Len(Tail(q)) : p[i + 1] = Tail(q)[i]
  BY <1>1, InFront
<1> HIDE DEF p
<1>3. ASSUME NEW i \in 1..Len(p) PROVE p[i] = q[i]
  <2>1. i = 1 \/ (i - 1 \in 1..Len(Tail(q)) /\ (i - 1) + 1 = i)
    BY <1>1, <1>2
  <2> QED
    BY <1>1, <1>2, <2>1
<1>4. p = q
  BY <1>2, <1>3, SeqEqual
<1> QED
  BY <1>4 DEF p

LEMMA AddedBehindFront ==
    ASSUME NEW S, NEW w \in S, NEW q \in Seq(S), NEW e \in S
    PROVE  <<w>> \o Append(q, e) = Append(<<w>> \o q, e)
<1>1. <<w>> \in Seq(S) /\ <<e>> \in Seq(S) /\ <<w>> \o q \in Seq(S)
  BY InFront
<1>2. Append(q, e) = q \o <<e>> /\ Append(<<w>> \o q, e) = (<<w>> \o q) \o <<e>>
  BY <1>1, AppendIsConcat
<1> QED
  BY <1>1, <1>2, ConcatAssociative

LEMMA FirstRemoved ==
    ASSUME NEW S, NEW s \in Seq(S), s # <<>>
    PROVE  SubSeq(s, 1, 0) \o SubSeq(s, 2, Len(s)) = Tail(s)
<1>1. SubSeq(s, 1, 0) = <<>> /\ SubSeq(s, 2, Len(s)) = Tail(s)
  BY SubSeqEmpty, TailIsSubSeq
<1>2. Tail(s) \in Seq(S)
  BY FirstTaken
<1> QED
  BY <1>1, <1>2, ConcatEmptySeq

LEMMA SecondRemoved ==
    ASSUME NEW S, NEW w \in S, NEW q \in Seq(S), q # <<>>
    PROVE  LET p == <<w>> \o q
           IN  SubSeq(p, 1, 1) \o SubSeq(p, 3, Len(p)) = <<w>> \o Tail(q)
<1> DEFINE p == <<w>> \o q
<1>1. /\ p \in Seq(S) /\ p # <<>> /\ p[1] = w /\ Tail(p) = q
      /\ Len(q) \in Nat \ {0} /\ Len(p) = Len(q) + 1
  BY InFront, FirstTaken
<1> HIDE DEF p
<1>2. SubSeq(p, 1, 1) = <<w>>
  <2>1. SubSeq(p, 1, 1) = <<p[1]>> \o SubSeq(p, 2, 1)
    BY <1>1, SubSeqRecursiveFirst
  <2>2. SubSeq(p, 2, 1) = <<>>
    BY SubSeqEmpty
  <2>3. <<w>> \in Seq(S)
    OBVIOUS
  <2> QED
    BY <1>1, <2>1, <2>2, <2>3, ConcatEmptySeq
<1>3. SubSeq(p, 2, Len(p)) = q
  BY <1>1, TailIsSubSeq
<1>4. Tail(SubSeq(p, 2, Len(p))) = SubSeq(p, 3, Len(p))
  BY <1>1, HeadTailOfSubSeq
<1> QED
  BY <1>2, <1>3, <1>4 DEF p

-----------------------------------------------------------------------------
(* The mapped state, read off the worker's job.                             *)

LEMMA Mapped ==
    ASSUME QueueInv
    PROVE  /\ WaitingJobs \in Seq(Jobs) /\ queue \in Seq(Jobs)
           /\ HoldsTaken => wjob \in Jobs /\ WaitingJobs = <<wjob>> \o queue
                            /\ JobInWriting = NoJob
           /\ ~HoldsTaken => WaitingJobs = queue
           /\ JobInWriting # NoJob =>
                 wjob = JobInWriting /\ wjob \in Jobs /\ jobState[wjob] = "writing"
           /\ wjob = NoJob => ~HoldsTaken /\ JobInWriting = NoJob
           /\ \A i \in 1..Len(queue) : queue[i] \in Jobs /\ jobState[queue[i]] = "queued"
<1> USE DEF WaitingJobs, JobInWriting, HoldsTaken, QueueInv, QueueTypes
<1>1. queue \in Seq(Jobs)
  OBVIOUS
<1>2. HoldsTaken => <<wjob>> \o queue \in Seq(Jobs)
  BY <1>1, InFront
<1>3. \A i \in 1..Len(queue) : queue[i] \in Jobs /\ jobState[queue[i]] = "queued"
  BY <1>1, ElementOfSeq DEF JobsAccounted
<1>4. NoJob \notin Jobs
  BY QueueAssumption DEF Jobs, NoJob
<1> QED
  BY <1>1, <1>2, <1>3, <1>4

\* The jobs waiting in the mapped state are queued or taken.
LEMMA WaitingAreUndecided ==
    ASSUME QueueInv, NEW j \in Delivery!Waiting
    PROVE  j \in Jobs /\ jobState[j] \in {"queued", "taken"}
<1>1. PICK i \in 1..Len(WaitingJobs) : j = WaitingJobs[i]
  BY DEF Delivery!Waiting
<1>2. CASE HoldsTaken
  <2>1. /\ WaitingJobs = <<wjob>> \o queue /\ wjob \in Jobs /\ queue \in Seq(Jobs)
        /\ jobState[wjob] = "taken"
    BY <1>2, Mapped DEF HoldsTaken
  <2>2. /\ Len(queue) \in Nat /\ Len(WaitingJobs) = Len(queue) + 1
        /\ WaitingJobs[1] = wjob
        /\ \A k \in 1..Len(queue) : WaitingJobs[k + 1] = queue[k]
    BY <2>1, InFront
  <2>3. i = 1 \/ (i - 1 \in 1..Len(queue) /\ (i - 1) + 1 = i)
    BY <2>2
  <2> QED
    BY <1>1, <2>1, <2>2, <2>3, Mapped
<1>3. CASE ~HoldsTaken
  BY <1>1, <1>3, Mapped
<1> QED
  BY <1>2, <1>3

-----------------------------------------------------------------------------
(* Each step of the queue is a step of WriteDelivery or changes nothing.    *)

\* put_nowait accepts the job behind the waiting ones, or refuses it.
LEMMA PutAccepts ==
    ASSUME QueueInv, QueueInv', PutNoWait
    PROVE  \/ \E j \in Jobs : Delivery!Accept(j)
           \/ UNCHANGED Delivery!vars
<1>1. submitting \in Jobs /\ jobState[submitting] = "submitting"
  BY DEF QueueInv, HandsInv, QueueTypes, PutNoWait
<1>2. UNCHANGED <<wjob, stopped>>
  BY DEF PutNoWait, workerVars, flagVars
<1>3. PICK st \in {"queued", "refused"} :
        /\ jobState' = [jobState EXCEPT ![submitting] = st]
        /\ st = "queued" => HasRoom /\ queue' = Append(queue, submitting)
        /\ st = "refused" => queue' = queue
  BY DEF PutNoWait
<1>4. \A j \in Jobs : jobState'[j] = IF j = submitting THEN st ELSE jobState[j]
  BY <1>3 DEF QueueInv, QueueTypes
<1>5. (HoldsTaken <=> HoldsTaken') /\ JobInWriting' = JobInWriting
  BY <1>1, <1>2, <1>4 DEF HoldsTaken, JobInWriting
<1>6. DecidedJobs' = DecidedJobs
  BY <1>1, <1>4 DEF DecidedJobs
<1>7. CASE st = "refused"
  <2>1. WaitingJobs' = WaitingJobs
    BY <1>2, <1>3, <1>5, <1>7 DEF WaitingJobs
  <2> QED
    BY <1>2, <1>5, <1>6, <2>1 DEF Delivery!vars
<1>8. CASE st = "queued"
  <2>1. WaitingJobs' = Append(WaitingJobs, submitting)
    BY <1>1, <1>2, <1>3, <1>5, <1>8, Mapped, AddedBehindFront DEF WaitingJobs
  <2>2. Len(WaitingJobs) <= Capacity
    <3>1. Len(queue) \in Nat /\ Len(queue) < Capacity
      BY <1>3, <1>8, Mapped, LenProperties DEF HasRoom
    <3>2. Len(WaitingJobs) = Len(queue) \/ Len(WaitingJobs) = Len(queue) + 1
      BY Mapped, InFront
    <3> QED
      BY <3>1, <3>2, QueueAssumption
  <2>3. submitting \notin Delivery!Waiting
    BY <1>1, WaitingAreUndecided
  <2>4. submitting # JobInWriting /\ submitting \notin DecidedJobs
    BY <1>1, Mapped, QueueAssumption DEF DecidedJobs, JobInWriting, Jobs, NoJob
  <2> QED
    BY <1>1, <1>2, <1>5, <1>6, <2>1, <2>2, <2>3, <2>4 DEF Delivery!Accept
<1> QED
  BY <1>7, <1>8

\* The worker's get moves the first job from the queue to the worker's hand,
\* where it still waits.
LEMMA GetKeepsLine ==
    ASSUME QueueInv, QueueInv', WorkerGet
    PROVE  UNCHANGED Delivery!vars
<1>1. /\ queue # <<>> /\ wjob = NoJob /\ wjob' = Head(queue)
      /\ queue' = Tail(queue) /\ stopped' = stopped
      /\ jobState' = [jobState EXCEPT ![Head(queue)] = "taken"]
  BY DEF WorkerGet, WorkerGoes, QueueInv, HandsInv, flagVars
<1>2. /\ Head(queue) \in Jobs /\ jobState[Head(queue)] = "queued"
      /\ \A j \in Jobs : jobState'[j] = IF j = Head(queue) THEN "taken" ELSE jobState[j]
  <2>1. "taken" \in JobStates \ {"queued"} /\ QueueTypes /\ JobsAccounted
    BY DEF JobStates, QueueInv
  <2> QED
    BY <1>1, <2>1, HeadLeaves
<1>3. WaitingJobs = queue /\ JobInWriting = NoJob
  BY <1>1, Mapped
<1>4. WaitingJobs' = <<Head(queue)>> \o Tail(queue) /\ JobInWriting' = NoJob
  BY <1>1, <1>2 DEF WaitingJobs, JobInWriting, HoldsTaken
<1>5. WaitingJobs' = WaitingJobs
  BY <1>1, <1>3, <1>4, FrontTaken, Mapped
<1>6. DecidedJobs' = DecidedJobs
  BY <1>2 DEF DecidedJobs
<1> QED
  BY <1>1, <1>3, <1>4, <1>5, <1>6 DEF Delivery!vars

\* A job that the worker does not write because of _stop is withdrawn.
LEMMA StopWithdraws ==
    ASSUME QueueInv, QueueInv', WorkerCancelsOnStop
    PROVE  \E i \in 1..Len(WaitingJobs) : Delivery!Withdraw(i)
<1>1. /\ wjob \in Jobs /\ jobState[wjob] = "taken" /\ wjob' = wjob
      /\ queue' = queue /\ stopped' = stopped
      /\ jobState' = [jobState EXCEPT ![wjob] = "cancelled"]
  BY DEF WorkerCancelsOnStop, WorkerGoes, QueueInv, HandsInv, QueueTypes, flagVars
<1>2. \A j \in Jobs : jobState'[j] = IF j = wjob THEN "cancelled" ELSE jobState[j]
  BY <1>1 DEF QueueInv, QueueTypes
<1>3. /\ HoldsTaken /\ WaitingJobs = <<wjob>> \o queue /\ JobInWriting = NoJob
      /\ queue \in Seq(Jobs) /\ WaitingJobs \in Seq(Jobs)
  BY <1>1, Mapped DEF HoldsTaken
<1>4. WaitingJobs' = queue /\ JobInWriting' = NoJob
  BY <1>1, <1>2 DEF WaitingJobs, JobInWriting, HoldsTaken
<1>5. /\ WaitingJobs # <<>> /\ WaitingJobs[1] = wjob /\ Tail(WaitingJobs) = queue
      /\ 1 \in 1..Len(WaitingJobs)
  BY <1>1, <1>3, InFront
<1>6. Delivery!Without(1) = queue
  BY <1>3, <1>5, FirstRemoved DEF Delivery!Without
<1>7. DecidedJobs' = DecidedJobs \union {WaitingJobs[1]}
  BY <1>1, <1>2, <1>5 DEF DecidedJobs
<1>8. Delivery!Withdraw(1)
  BY <1>1, <1>3, <1>4, <1>6, <1>7 DEF Delivery!Withdraw
<1> QED
  BY <1>5, <1>8

\* Entering writer.write starts the first waiting job, with nothing being
\* written and the line not closed.
LEMMA WriteStarts ==
    ASSUME QueueInv, QueueInv', WorkerStartsWrite
    PROVE  Delivery!Start
<1>1. /\ wjob \in Jobs /\ jobState[wjob] = "taken" /\ wjob' = wjob
      /\ queue' = queue /\ stopped' = stopped /\ ~stopped
      /\ jobState' = [jobState EXCEPT ![wjob] = "writing"]
  BY DEF WorkerStartsWrite, WorkerGoes, QueueInv, HandsInv, QueueTypes
<1>2. \A j \in Jobs : jobState'[j] = IF j = wjob THEN "writing" ELSE jobState[j]
  BY <1>1 DEF QueueInv, QueueTypes
<1>3. /\ WaitingJobs = <<wjob>> \o queue /\ JobInWriting = NoJob /\ queue \in Seq(Jobs)
  BY <1>1, Mapped DEF HoldsTaken
<1>4. WaitingJobs' = queue /\ JobInWriting' = wjob
  BY <1>1, <1>2 DEF WaitingJobs, JobInWriting, HoldsTaken
<1>5. WaitingJobs # <<>> /\ Head(WaitingJobs) = wjob /\ Tail(WaitingJobs) = queue
  BY <1>1, <1>3, InFront
<1>6. DecidedJobs' = DecidedJobs
  BY <1>1, <1>2 DEF DecidedJobs
<1> QED
  BY <1>1, <1>3, <1>4, <1>5, <1>6 DEF Delivery!Start, Delivery!NoJob, NoJob

\* The verdict on the write ends it.
LEMMA SettleFinishes ==
    ASSUME QueueInv, QueueInv', WorkerSettles
    PROVE  Delivery!Finish
<1>1. /\ wjob \in Jobs /\ jobState[wjob] = "writing" /\ wjob' = wjob
      /\ queue' = queue /\ stopped' = stopped
      /\ jobState' = [jobState EXCEPT ![wjob] = Verdict]
  BY DEF WorkerSettles, WorkerGoes, QueueInv, HandsInv, QueueTypes, flagVars
<1>2. Verdict \in {"completed", "failed", "cancelled"}
  BY DEF Verdict
<1>3. \A j \in Jobs : jobState'[j] = IF j = wjob THEN Verdict ELSE jobState[j]
  BY <1>1 DEF QueueInv, QueueTypes
<1>4. JobInWriting = wjob /\ wjob # NoJob /\ WaitingJobs = queue
  BY <1>1, QueueAssumption DEF JobInWriting, WaitingJobs, HoldsTaken, Jobs, NoJob
<1>5. WaitingJobs' = queue /\ JobInWriting' = NoJob
  BY <1>1, <1>2, <1>3 DEF WaitingJobs, JobInWriting, HoldsTaken
<1>6. DecidedJobs' = DecidedJobs \union {wjob}
  BY <1>1, <1>2, <1>3 DEF DecidedJobs
<1> QED
  BY <1>1, <1>4, <1>5, <1>6 DEF Delivery!Finish, Delivery!NoJob, NoJob

\* clear_pending withdraws the first queued job, which is the second waiting
\* one when the worker has taken a job that it has not started.
LEMMA ClearWithdraws ==
    ASSUME QueueInv, QueueInv', NEW u \in Users, ClearNext(u)
    PROVE  \E i \in 1..Len(WaitingJobs) : Delivery!Withdraw(i)
<1>1. /\ queue # <<>> /\ queue' = Tail(queue) /\ wjob' = wjob /\ stopped' = stopped
      /\ jobState' = [jobState EXCEPT ![Head(queue)] = "cancelled"]
  BY DEF ClearNext, workerVars, flagVars
<1>2. /\ Head(queue) \in Jobs /\ jobState[Head(queue)] = "queued"
      /\ \A j \in Jobs : jobState'[j] = IF j = Head(queue) THEN "cancelled" ELSE jobState[j]
  <2>1. "cancelled" \in JobStates \ {"queued"} /\ QueueTypes /\ JobsAccounted
    BY DEF JobStates, QueueInv
  <2> QED
    BY <1>1, <2>1, HeadLeaves
<1>3. /\ queue \in Seq(Jobs) /\ WaitingJobs \in Seq(Jobs)
      /\ Len(queue) \in Nat \ {0} /\ Head(queue) = queue[1]
  BY <1>1, Mapped, FirstTaken
<1>4. (HoldsTaken <=> HoldsTaken') /\ JobInWriting' = JobInWriting
  BY <1>1, <1>2 DEF HoldsTaken, JobInWriting
<1>5. DecidedJobs' = DecidedJobs \union {Head(queue)}
  BY <1>2 DEF DecidedJobs
<1>6. CASE HoldsTaken
  <2>1. WaitingJobs = <<wjob>> \o queue /\ wjob \in Jobs
    BY <1>6, Mapped
  <2>2. WaitingJobs' = <<wjob>> \o Tail(queue)
    BY <1>1, <1>4, <1>6 DEF WaitingJobs
  <2>3. /\ Len(WaitingJobs) = Len(queue) + 1 /\ 1 \in 1..Len(queue)
        /\ WaitingJobs[2] = Head(queue)
    <3>1. 1 \in 1..Len(queue) /\ 1 + 1 = 2
      BY <1>3
    <3> QED
      BY <1>3, <2>1, <3>1, InFront
  <2>4. Delivery!Without(2) = <<wjob>> \o Tail(queue)
    <3>1. Delivery!Without(2) =
            SubSeq(WaitingJobs, 1, 1) \o SubSeq(WaitingJobs, 3, Len(WaitingJobs))
      BY DEF Delivery!Without
    <3> QED
      BY <1>1, <1>3, <2>1, <3>1, SecondRemoved
  <2>5. Delivery!Withdraw(2)
    BY <1>1, <1>4, <1>5, <2>2, <2>3, <2>4 DEF Delivery!Withdraw
  <2> QED
    BY <1>3, <2>3, <2>5
<1>7. CASE ~HoldsTaken
  <2>1. WaitingJobs = queue /\ WaitingJobs' = Tail(queue)
    BY <1>1, <1>4, <1>7 DEF WaitingJobs
  <2>2. Delivery!Without(1) = Tail(queue)
    BY <1>1, <1>3, <2>1, FirstRemoved DEF Delivery!Without
  <2>3. Delivery!Withdraw(1)
    BY <1>1, <1>3, <1>4, <1>5, <2>1, <2>2 DEF Delivery!Withdraw
  <2> QED
    BY <1>3, <2>1, <2>3
<1> QED
  BY <1>6, <1>7

\* Any step that leaves the queue, the jobs, the worker's job and _stop alone.
LEMMA Silent ==
    ASSUME UNCHANGED <<queue, jobState, wjob, stopped>>
    PROVE  UNCHANGED Delivery!vars
  BY DEF Delivery!vars, WaitingJobs, JobInWriting, DecidedJobs, HoldsTaken

LEMMA SubmitIsSilent ==
    ASSUME QueueInv, NEW j \in Jobs, BeginSubmit(j)
    PROVE  UNCHANGED Delivery!vars
<1>1. /\ jobState[j] = "new" /\ UNCHANGED <<queue, wjob, stopped>>
      /\ \A k \in Jobs : jobState'[k] = IF k = j THEN "submitting" ELSE jobState[k]
  BY DEF BeginSubmit, QueueInv, QueueTypes, workerVars, flagVars
<1>2. (HoldsTaken <=> HoldsTaken') /\ JobInWriting' = JobInWriting
  BY <1>1 DEF HoldsTaken, JobInWriting
<1>3. DecidedJobs' = DecidedJobs
  BY <1>1 DEF DecidedJobs
<1> QED
  BY <1>1, <1>2, <1>3 DEF Delivery!vars, WaitingJobs

LEMMA DetachIsSilent ==
    ASSUME QueueInv, WorkerDetaches
    PROVE  UNCHANGED Delivery!vars
<1>1. /\ wjob \in Jobs /\ jobState[wjob] \in Terminal /\ wjob' = NoJob
      /\ UNCHANGED <<queue, jobState, stopped>>
  BY DEF WorkerDetaches, WorkerGoes, QueueInv, HandsInv, QueueTypes, queueVars, flagVars
<1>2. ~HoldsTaken /\ JobInWriting = NoJob
  BY <1>1 DEF HoldsTaken, JobInWriting, Terminal
<1>3. ~HoldsTaken' /\ JobInWriting' = NoJob
  BY <1>1, QueueAssumption DEF HoldsTaken, JobInWriting, Jobs, NoJob
<1> QED
  BY <1>1, <1>2, <1>3 DEF Delivery!vars, WaitingJobs, DecidedJobs

LEMMA WorkerMaps ==
    ASSUME QueueInv, QueueInv', Worker
    PROVE  [Delivery!Next]_(Delivery!vars)
<1> USE DEF queueVars, flagVars
<1>1. CASE WorkerLoop
  BY <1>1, Silent DEF WorkerLoop
<1>2. CASE WorkerGate
  BY <1>2, Silent DEF WorkerGate
<1>3. CASE WorkerGet
  BY <1>3, GetKeepsLine
<1>4. CASE WorkerGetTimesOut
  BY <1>4, Silent DEF WorkerGetTimesOut
<1>5. CASE WorkerAdopt
  BY <1>5, Silent DEF WorkerAdopt
<1>6. CASE WorkerCancelsOnStop
  BY <1>6, StopWithdraws DEF Delivery!Next
<1>7. CASE WorkerStartsWrite
  BY <1>7, WriteStarts DEF Delivery!Next
<1>8. CASE WriteEnds
  BY <1>8, Silent DEF WriteEnds
<1>9. CASE WriterReturns
  BY <1>9, Silent DEF WriterReturns
<1>10. CASE WorkerSettles
  BY <1>10, SettleFinishes DEF Delivery!Next
<1>11. CASE WorkerDetaches
  BY <1>11, DetachIsSilent
<1> QED
  BY <1>1, <1>2, <1>3, <1>4, <1>5, <1>6, <1>7, <1>8, <1>9, <1>10, <1>11 DEF Worker

LEMMA UserMaps ==
    ASSUME QueueInv, QueueInv', NEW u \in Users, UserMoves(u)
    PROVE  [Delivery!Next]_(Delivery!vars)
<1> USE DEF queueVars, flagVars, workerVars
<1>1. CASE Pause(u)
  BY <1>1, Silent DEF Pause
<1>2. CASE Resume(u)
  BY <1>2, Silent DEF Resume
<1>3. CASE CancelCurrent(u)
  BY <1>3, Silent DEF CancelCurrent
<1>4. CASE BeginClear(u)
  BY <1>4, Silent DEF BeginClear
<1>5. CASE BeginStop(u)
  BY <1>5, Silent DEF BeginStop
<1>6. CASE ClearNext(u)
  BY <1>6, ClearWithdraws DEF Delivery!Next
<1>7. ASSUME NEW next, ClearEnds(u, next) PROVE [Delivery!Next]_(Delivery!vars)
  BY <1>7, Silent DEF ClearEnds
<1>8. CASE StopFlag(u)
  <2>1. stopped' = TRUE /\ UNCHANGED <<queue, jobState, wjob>>
    BY <1>8 DEF StopFlag
  <2>2. Delivery!Close
    BY <2>1 DEF Delivery!Close, WaitingJobs, JobInWriting, DecidedJobs, HoldsTaken
  <2> QED
    BY <2>2 DEF Delivery!Next
<1>9. CASE StopOpensGate(u)
  BY <1>9, Silent DEF StopOpensGate
<1>10. CASE StopReadsEvent(u)
  BY <1>10, Silent DEF StopReadsEvent
<1>11. ASSUME NEW next, StopSetsEvent(u, next) PROVE [Delivery!Next]_(Delivery!vars)
  BY <1>11, Silent DEF StopSetsEvent
<1> QED
  BY <1>1, <1>2, <1>3, <1>4, <1>5, <1>6, <1>7, <1>8, <1>9, <1>10, <1>11
  DEF UserStarts, UserMoves

LEMMA StepMaps ==
    QueueInv /\ QueueInv' /\ QueueOps => [Delivery!Next]_(Delivery!vars)
<1> SUFFICES ASSUME QueueInv, QueueInv', QueueOps
             PROVE  [Delivery!Next]_(Delivery!vars)
  OBVIOUS
<1>1. ASSUME NEW j \in Jobs, BeginSubmit(j) PROVE [Delivery!Next]_(Delivery!vars)
  BY <1>1, SubmitIsSilent
<1>2. CASE PutNoWait
  <2>1. CASE \E j \in Jobs : Delivery!Accept(j)
    BY <2>1 DEF Delivery!Next, Delivery!Jobs, Jobs
  <2>2. CASE UNCHANGED Delivery!vars
    BY <2>2
  <2> QED
    BY <1>2, <2>1, <2>2, PutAccepts
<1>3. CASE Worker
  BY <1>3, WorkerMaps
<1>4. ASSUME NEW u \in Users, UserMoves(u) PROVE [Delivery!Next]_(Delivery!vars)
  BY <1>4, UserMaps
<1>5. CASE UNCHANGED <<queueVars, flagVars, cancelVars, workerVars, removed, uref>>
  BY <1>5, Silent DEF queueVars, flagVars, workerVars
<1> QED
  BY <1>1, <1>2, <1>3, <1>4, <1>5 DEF QueueOps

LEMMA StartMaps == SQInit => Delivery!Init
  BY QueueAssumption DEF SQInit, Delivery!Init, Delivery!NoJob, Jobs, NoJob,
     WaitingJobs, JobInWriting, DecidedJobs, HoldsTaken

-----------------------------------------------------------------------------
\* The threads of the queue and of its users together do nothing but accept,
\* start, finish and withdraw jobs in the order of the line, and close it.
THEOREM QueueDelivers == Spec => RefinesDelivery
<1>1. SQInit => QueueInv
  BY Initially
<1>2. SQInit => Delivery!Init
  BY StartMaps
<1> QED
  BY <1>1, <1>2, NextOps, QueueStep, StepMaps, PTL DEF Spec, RefinesDelivery, Delivery!Spec

=============================================================================
