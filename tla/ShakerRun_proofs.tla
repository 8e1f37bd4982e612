-------------------------- MODULE ShakerRun_proofs --------------------------
(***************************************************************************)
(* What holds of the program runner for every set of requests, every port  *)
(* and dimmer, with and without restarts.                                  *)
(***************************************************************************)
EXTENDS ShakerRun, FiniteSetTheorems, TLAPS

----------------------------------------------------------------------------
(***************************************************************************)
(* A thread is inside cmd_shaker_stop exactly at the places that call it.  *)
(***************************************************************************)
StopInv == \A t \in Threads : stage[t] = "idle" <=> pc[t] \notin StopPcs

ThreadInv == ThreadTypes /\ StopInv
TypeInv == ThreadInv /\ ProgramTypes /\ DimmerTypes

\* The result exists from _run_result's assignment on, the complete event
\* from the end of the thread on, and both are of the program started last.
ResultInv ==
  /\ Alive => ~complete /\ runs > 0
  /\ Alive /\ pc[Worker] # "signal" => result = NoResult
  /\ pc[Worker] = "signal" \/ complete => result.run = runs
  /\ ~Alive /\ ~complete => result = NoResult

\* An abort that was called in time is still set when the result is written.
AbortInv ==
  /\ abortAsked \subseteq 1..runs
  /\ Alive /\ runs \in abortAsked /\ pc[Worker] # "signal" => abort
  /\ AbortIsReported

Segments == Len(prog.segs)
BeforeEnd == {"segment", "switch", "started", "waiting", "pause"}

\* Segments run one after the other, and there is one in every place where the
\* worker looks at the current segment.
SegInv ==
  /\ Segments > 0
  /\ ~Logical => Segments = 1
  /\ pc[Worker] = "begin" => done = 0
  /\ pc[Worker] = "segment" => Logical
  /\ pc[Worker] \in BeforeEnd => done + 1 = seg /\ done <= Segments
  /\ pc[Worker] \in BeforeEnd \ {"segment"} => seg <= Segments
  /\ pc[Worker] \in {"final", "publish", "result"} => done <= Segments

\* What the end of a run says agrees with how far it came.
DoneInv ==
  /\ pc[Worker] \in {"final", "publish"} /\ ~Logical /\ ~interrupted
       => done = Segments
  /\ pc[Worker] = "result" /\ ~abort /\ ~live.completedEarly
       => done = Segments
  /\ FullResultRanFully

RunInv == TypeInv /\ SegInv /\ ResultInv /\ AbortInv /\ DoneInv

----------------------------------------------------------------------------
(***************************************************************************)
(* Type correctness                                                        *)
(***************************************************************************)
USE DEF threadVars, workVars, eventVars, mcuVars, histVars

LEMMA TypeInit == Init => TypeInv
<1> SUFFICES ASSUME Init PROVE TypeInv
  OBVIOUS
<1>1. ThreadTypes
  BY ThreadAssumption, BoundAssumption
  DEF Init, ThreadTypes, Threads, WorkerPc, RequestPc
<1>2. StopInv
  BY ThreadAssumption DEF Init, StopInv, StopPcs, Threads
<1>3. prog \in Program
  <2>1. <<"run">> \in Seq({"run", "wait"})
    OBVIOUS
  <2> QED
    BY <2>1 DEF Init, Program
<1>4. result \in Result /\ live \in LiveState
  BY DEF Init, NoResult, Result, LiveOff, LiveState
<1>5. ProgramTypes
  BY <1>3, <1>4 DEF Init, ProgramTypes
<1>6. DimmerTypes
  BY BoundAssumption, SwitchAssumption DEF Init, DimmerTypes, InitialPorts
<1> QED
  BY <1>1, <1>2, <1>5, <1>6 DEF TypeInv, ThreadInv

\* The places of cmd_shaker_stop a thread may enter.
StopPlace(t, where) ==
  where \in StopPcs /\ where \in IF t = Worker THEN WorkerPc ELSE RequestPc

LEMMA EnterStopThreads ==
  ASSUME ThreadInv, NEW t \in Threads, NEW where, StopPlace(t, where),
         EnterStop(t, where)
  PROVE  ThreadInv'
<1>1. ThreadTypes'
  BY ThreadAssumption, BoundAssumption
  DEF ThreadInv, ThreadTypes, StopPlace, EnterStop, Threads
<1>2. StopInv'
  BY DEF ThreadInv, ThreadTypes, StopInv, StopPlace, EnterStop
<1> QED
  BY <1>1, <1>2 DEF ThreadInv

LEMMA StopReturnsThreads ==
  ASSUME ThreadInv, NEW t \in Threads, stage[t] # "idle", NEW ok \in BOOLEAN,
         StopReturns(t, ok)
  PROVE  ThreadInv'
<1>1. pc[t] \in StopPcs
  BY DEF ThreadInv, ThreadTypes, StopInv
<1>2. AfterStop(pc[t]) \in IF t = Worker THEN WorkerPc ELSE RequestPc
  <2>1. CASE t = Worker
    <3>1. pc[t] \in {"pause", "final"}
      BY <1>1, <2>1 DEF ThreadInv, ThreadTypes, StopPcs, WorkerPc
    <3> QED
      BY <2>1, <3>1 DEF AfterStop, WorkerPc
  <2>2. CASE t # Worker
    <3>1. pc[t] \in RequestPc
      BY <2>2 DEF ThreadInv, ThreadTypes, Threads
    <3>2. pc[t] \notin {"pause", "final"}
      BY <3>1 DEF RequestPc
    <3> QED
      BY <2>2, <3>2 DEF AfterStop, RequestPc
  <2> QED
    BY <2>1, <2>2
<1>3. AfterStop(pc[t]) \in StopPcs <=> pc[t] = "ensure.C"
  BY <1>1 DEF AfterStop, StopPcs
<1>4. ThreadTypes'
  <2>1. pc' \in [Threads -> WorkerPc \cup RequestPc]
    BY <1>2 DEF ThreadInv, ThreadTypes, StopReturns
  <2>2. pc'[Worker] \in WorkerPc /\ \A r \in Requests : pc'[r] \in RequestPc
    BY <1>2, ThreadAssumption DEF ThreadInv, ThreadTypes, StopReturns, Threads
  <2>3. /\ stage' \in [Threads -> {"idle", "write", "await"}]
        /\ left' \in [Threads -> 0..StopAttempts]
    BY BoundAssumption DEF ThreadInv, ThreadTypes, StopReturns
  <2>4. acked' \in [Threads -> BOOLEAN]
    BY DEF ThreadInv, ThreadTypes, StopReturns
  <2> QED
    BY <2>1, <2>2, <2>3, <2>4 DEF ThreadTypes
<1>5. StopInv'
  BY <1>3 DEF ThreadInv, ThreadTypes, StopInv, StopReturns
<1> QED
  BY <1>4, <1>5 DEF ThreadInv

\* A thread that goes from a place outside cmd_shaker_stop to another.
LEMMA GoesThreads ==
  ASSUME ThreadInv, NEW t \in Threads, NEW where,
         pc[t] \notin StopPcs, where \notin StopPcs,
         where \in IF t = Worker THEN WorkerPc ELSE RequestPc,
         pc' = [pc EXCEPT ![t] = where], UNCHANGED <<stage, left, acked>>
  PROVE  ThreadInv'
<1>1. ThreadTypes'
  BY ThreadAssumption DEF ThreadInv, ThreadTypes, Threads
<1>2. StopInv'
  BY DEF ThreadInv, ThreadTypes, StopInv
<1> QED
  BY <1>1, <1>2 DEF ThreadInv

LEMMA StopStepThreads ==
  ASSUME ThreadInv, NEW t \in Threads, StopStep(t)
  PROVE  ThreadInv'
<1>1. stage[t] # "idle" /\ pc[t] \in StopPcs
  <2>1. stage[t] # "idle"
    BY DEF StopStep, StopWrite, StopWriteRaises, StopPlaceholder, StopAck, StopTimeout
  <2> QED
    BY <2>1 DEF ThreadInv, StopInv
<1>2. ASSUME NEW s \in {"write", "await"}, stage' = [stage EXCEPT ![t] = s],
             left' \in [Threads -> 0..StopAttempts], UNCHANGED <<pc, acked>>
      PROVE  ThreadInv'
  <2>1. ThreadTypes'
    BY <1>2 DEF ThreadInv, ThreadTypes
  <2>2. StopInv'
    BY <1>1, <1>2 DEF ThreadInv, ThreadTypes, StopInv
  <2> QED
    BY <2>1, <2>2 DEF ThreadInv
<1>3. ASSUME AttemptFails(t) PROVE ThreadInv'
  <2>1. CASE left[t] > 1
    <3>1. left' \in [Threads -> 0..StopAttempts]
      BY <1>3, <2>1, BoundAssumption DEF AttemptFails, ThreadInv, ThreadTypes
    <3> QED
      BY <1>2, <1>3, <2>1, <3>1 DEF AttemptFails
  <2>2. CASE ~(left[t] > 1)
    BY <1>1, <1>3, <2>2, StopReturnsThreads DEF AttemptFails
  <2> QED
    BY <2>1, <2>2
<1>4. CASE StopWrite(t)
  BY <1>2, <1>4 DEF StopWrite, ThreadInv, ThreadTypes
<1>5. CASE StopWriteRaises(t)
  BY <1>3, <1>5 DEF StopWriteRaises
<1>6. CASE StopPlaceholder(t)
  BY <1>1, <1>6, StopReturnsThreads DEF StopPlaceholder
<1>7. CASE StopAck(t)
  BY <1>1, <1>7, StopReturnsThreads DEF StopAck
<1>8. CASE StopTimeout(t)
  BY <1>3, <1>8 DEF StopTimeout
<1> QED
  BY <1>4, <1>5, <1>6, <1>7, <1>8 DEF StopStep

LEMMA WorkerStepThreads ==
  ASSUME ThreadInv, WorkerStep
  PROVE  ThreadInv'
<1> Worker \in Threads
  BY DEF Threads
<1>1. ASSUME NEW where \in WorkerPc \ StopPcs, WorkerGoes(where), pc[Worker] \notin StopPcs
      PROVE  ThreadInv'
  BY <1>1, GoesThreads DEF WorkerGoes
<1>2. ASSUME NEW where \in {"pause", "final"}, EnterStop(Worker, where)
      PROVE  ThreadInv'
  BY <1>2, EnterStopThreads DEF StopPlace, StopPcs, WorkerPc
<1>3. CASE WorkerBegin
  <2>1. (IF Logical THEN "segment" ELSE "switch") \in WorkerPc \ StopPcs
    BY DEF WorkerPc, StopPcs
  <2> QED
    BY <1>1, <1>3, <2>1 DEF WorkerBegin, StopPcs
<1>4. CASE WorkerSegment
  BY <1>1, <1>2, <1>4 DEF WorkerSegment, FinalStop, WorkerPc, StopPcs
<1>5. CASE WorkerSwitchOn
  BY <1>1, <1>5 DEF WorkerSwitchOn, WorkerPc, StopPcs
<1>6. CASE WorkerStarted
  BY <1>1, <1>6 DEF WorkerStarted, WorkerPc, StopPcs
<1>7. CASE WorkerSwitchOff
  BY <1>2, <1>7 DEF WorkerSwitchOff
<1>8. CASE WorkerTick
  BY <1>8 DEF WorkerTick, ThreadInv, ThreadTypes, StopInv
<1>9. CASE WorkerInterrupted
  BY <1>2, <1>9 DEF WorkerInterrupted, FinalStop
<1>10. CASE WorkerElapsed
  BY <1>1, <1>2, <1>10 DEF WorkerElapsed, FinalStop, WorkerPc, StopPcs
<1>11. CASE WorkerPublish
  BY <1>1, <1>11 DEF WorkerPublish, WorkerPc, StopPcs
<1>12. CASE WorkerResult
  BY <1>1, <1>12 DEF WorkerResult, WorkerPc, StopPcs
<1>13. CASE WorkerSignal
  BY <1>1, <1>13 DEF WorkerSignal, WorkerPc, StopPcs
<1> QED
  BY <1>3, <1>4, <1>5, <1>6, <1>7, <1>8, <1>9, <1>10, <1>11, <1>12, <1>13
  DEF WorkerStep

LEMMA RequestThreads ==
  ASSUME ThreadInv, NEW r \in Requests, NewCall(r) \/ RequestStep(r)
  PROVE  ThreadInv'
<1> r \in Threads /\ r # Worker
  BY ThreadAssumption DEF Threads
<1>1. ASSUME NEW where \in RequestPc \ StopPcs, RequestGoes(r, where),
             pc[r] \in {"new", "abort.live", "sent"}
      PROVE  ThreadInv'
  BY <1>1, GoesThreads DEF RequestGoes, StopPcs
<1>2. ASSUME NEW where \in {"abort.send", "stopping", "ensure.C"}, EnterStop(r, where)
      PROVE  ThreadInv'
  BY <1>2, EnterStopThreads DEF StopPlace, StopPcs, RequestPc
<1>3. CASE RunProgram(r)
  <2>1. pc[Worker] \notin StopPcs /\ pc[r] \notin StopPcs
    BY <1>3 DEF RunProgram, MayStart, Alive, Calls, StopPcs
  <2>2. ThreadTypes'
    BY <1>3 DEF RunProgram, ThreadInv, ThreadTypes, Threads, WorkerPc, RequestPc
  <2>3. StopInv'
    BY <1>3, <2>1 DEF RunProgram, ThreadInv, ThreadTypes, StopInv, StopPcs
  <2> QED
    BY <2>2, <2>3 DEF ThreadInv
<1>4. CASE RunRejected(r)
  BY <1>1, <1>4 DEF RunRejected, Calls, RequestPc, StopPcs
<1>5. CASE CompleteProgram(r)
  BY <1>1, <1>5 DEF CompleteProgram, Calls, RequestPc, StopPcs
<1>6. CASE AbortProgram(r)
  BY <1>1, <1>6 DEF AbortProgram, Calls, RequestPc, StopPcs
<1>7. CASE ShakerStart(r)
  BY <1>1, <1>7 DEF ShakerStart, Calls, RequestPc, StopPcs
<1>8. CASE ShakerStop(r)
  BY <1>2, <1>8 DEF ShakerStop
<1>9. CASE EnsureStopped(r)
  BY <1>2, <1>9 DEF EnsureStopped
<1>10. CASE AbortStop(r)
  BY <1>2, <1>10 DEF AbortStop
<1>11. CASE AbortLive(r)
  BY <1>1, <1>11 DEF AbortLive, RequestPc, StopPcs
<1>12. CASE ShakerStarted(r)
  BY <1>1, <1>12 DEF ShakerStarted, RequestPc, StopPcs
<1> QED
  BY <1>3, <1>4, <1>5, <1>6, <1>7, <1>8, <1>9, <1>10, <1>11, <1>12
  DEF NewCall, RequestStep

LEMMA RestartThreads ==
  ASSUME ThreadInv, Restart
  PROVE  ThreadInv'
<1>1. ThreadTypes'
  BY ThreadAssumption, BoundAssumption
  DEF Restart, ThreadTypes, Threads, WorkerPc, RequestPc
<1>2. StopInv'
  BY DEF Restart, StopInv, StopPcs
<1> QED
  BY <1>1, <1>2 DEF ThreadInv

LEMMA ThreadStep == ThreadInv /\ [Next]_vars => ThreadInv'
<1> SUFFICES ASSUME ThreadInv, [Next]_vars PROVE ThreadInv'
  OBVIOUS
<1>1. ASSUME UNCHANGED threadVars PROVE ThreadInv'
  BY <1>1 DEF ThreadInv, ThreadTypes, StopInv
<1>2. CASE WorkerStep
  BY <1>2, WorkerStepThreads
<1>3. CASE \E r \in Requests : NewCall(r) \/ RequestStep(r)
  BY <1>3, RequestThreads
<1>4. CASE \E t \in Threads : StopStep(t)
  BY <1>4, StopStepThreads
<1>5. CASE DimmerLoop \/ PortOpens \/ PortFails \/ Terminated \/ UNCHANGED vars
  BY <1>1, <1>5 DEF DimmerLoop, PortOpens, PortFails, Terminated, vars
<1>6. CASE Restart
  BY <1>6, RestartThreads
<1> QED
  BY <1>2, <1>3, <1>4, <1>5, <1>6 DEF Next

----------------------------------------------------------------------------
(***************************************************************************)
(* What cmd_shaker_stop leaves alone                                       *)
(***************************************************************************)
LEMMA StopStepFrame ==
  ASSUME TypeInv, NEW t \in Threads, StopStep(t)
  PROVE  /\ UNCHANGED <<workVars, eventVars, result, histVars>>
         /\ live' \in {live, Stopped(live)}
         /\ gaveUp' \in BOOLEAN
         /\ port' = port
<1>1. stage[t] \in {"write", "await"}
  BY DEF StopStep, StopWrite, StopWriteRaises, StopPlaceholder, StopAck, StopTimeout
<1>2. gaveUp \in BOOLEAN
  BY DEF TypeInv, ProgramTypes
<1>3. ASSUME NEW ok \in BOOLEAN, StopReturns(t, ok)
      PROVE  live' = Stopped(live) /\ gaveUp' \in BOOLEAN
  BY <1>2, <1>3 DEF StopReturns
<1>4. ASSUME AttemptFails(t)
      PROVE  live' \in {live, Stopped(live)} /\ gaveUp' \in BOOLEAN
  BY <1>2, <1>3, <1>4 DEF AttemptFails
<1>5. CASE StopWrite(t)
  BY <1>2, <1>5 DEF StopWrite
<1>6. CASE StopWriteRaises(t)
  BY <1>4, <1>6 DEF StopWriteRaises
<1>7. CASE StopPlaceholder(t)
  BY <1>3, <1>7 DEF StopPlaceholder
<1>8. CASE StopAck(t)
  BY <1>3, <1>8 DEF StopAck
<1>9. CASE StopTimeout(t)
  BY <1>4, <1>9 DEF StopTimeout
<1> QED
  BY <1>5, <1>6, <1>7, <1>8, <1>9 DEF StopStep

\* Where the worker goes when a cmd_shaker_stop, of any thread, moves on.
LEMMA StopStepWorker ==
  ASSUME ThreadInv, NEW t \in Threads, StopStep(t)
  PROVE  \/ pc'[Worker] = pc[Worker]
         \/ pc[Worker] = "pause" /\ pc'[Worker] = "waiting"
         \/ pc[Worker] = "final" /\ pc'[Worker] = "publish"
<1>1. stage[t] # "idle" /\ pc[t] \in StopPcs
  <2>1. stage[t] # "idle"
    BY DEF StopStep, StopWrite, StopWriteRaises, StopPlaceholder, StopAck, StopTimeout
  <2> QED
    BY <2>1 DEF ThreadInv, StopInv
<1>2. t = Worker => pc[t] \in {"pause", "final"}
  BY <1>1 DEF ThreadInv, ThreadTypes, StopPcs, WorkerPc
<1>3. pc' = pc \/ pc' = [pc EXCEPT ![t] = AfterStop(@)]
  BY DEF StopStep, StopWrite, StopWriteRaises, StopPlaceholder, StopAck,
         StopTimeout, AttemptFails, StopReturns
<1> QED
  BY <1>2, <1>3 DEF ThreadInv, ThreadTypes, Threads, AfterStop

\* What the requests that neither start nor abort a program leave alone.
LEMMA OtherRequestFrame ==
  ASSUME TypeInv, NEW r \in Requests, NewCall(r) \/ RequestStep(r),
         ~RunProgram(r), ~AbortProgram(r)
  PROVE  /\ UNCHANGED <<workVars, abort, complete, result, histVars, gaveUp>>
         /\ stop' \in {stop, TRUE}
         /\ live' \in {live, Stopped(live), Running(live)}
         /\ pc'[Worker] = pc[Worker]
<1> r \in Threads /\ r # Worker
  BY ThreadAssumption DEF Threads
<1>1. CASE RunRejected(r)
  BY <1>1 DEF RunRejected, RequestGoes, TypeInv, ThreadInv, ThreadTypes
<1>2. CASE CompleteProgram(r)
  BY <1>2 DEF CompleteProgram, RequestGoes, TypeInv, ThreadInv, ThreadTypes
<1>3. CASE ShakerStart(r)
  <2>1. ASSUME NEW where, RequestGoes(r, where) PROVE pc'[Worker] = pc[Worker]
    BY <2>1 DEF RequestGoes, TypeInv, ThreadInv, ThreadTypes
  <2> QED
    BY <1>3, <2>1 DEF ShakerStart
<1>4. CASE ShakerStop(r)
  BY <1>4 DEF ShakerStop, EnterStop, TypeInv, ThreadInv, ThreadTypes
<1>5. CASE EnsureStopped(r)
  BY <1>5 DEF EnsureStopped, EnterStop, TypeInv, ThreadInv, ThreadTypes
<1>6. CASE AbortStop(r)
  BY <1>6 DEF AbortStop, EnterStop, TypeInv, ThreadInv, ThreadTypes
<1>7. CASE AbortLive(r)
  BY <1>7 DEF AbortLive, RequestGoes, TypeInv, ThreadInv, ThreadTypes
<1>8. CASE ShakerStarted(r)
  BY <1>8 DEF ShakerStarted, RequestGoes, TypeInv, ThreadInv, ThreadTypes
<1> QED
  BY <1>1, <1>2, <1>3, <1>4, <1>5, <1>6, <1>7, <1>8 DEF NewCall, RequestStep

\* What the dimmer and the port leave alone.
Elsewhere == DimmerLoop \/ PortOpens \/ PortFails \/ Terminated \/ UNCHANGED vars

LEMMA ElsewhereFrame ==
  ASSUME Elsewhere
  PROVE  UNCHANGED <<threadVars, workVars, eventVars, result, live, histVars, gaveUp>>
BY DEF Elsewhere, DimmerLoop, PortOpens, PortFails, Terminated, vars

\* The steps of the runner, by what they may change.
LEMMA Steps ==
  ASSUME [Next]_vars
  PROVE  \/ WorkerStep
         \/ \E r \in Requests : RunProgram(r)
         \/ \E r \in Requests : AbortProgram(r)
         \/ \E r \in Requests : /\ NewCall(r) \/ RequestStep(r)
                                /\ ~RunProgram(r) /\ ~AbortProgram(r)
         \/ \E t \in Threads : StopStep(t)
         \/ Restart
         \/ Elsewhere
BY DEF Next, Elsewhere

----------------------------------------------------------------------------
\* The tick publishes a phase of the current program.
LEMMA PublishedType ==
  ASSUME TypeInv, SegInv, pc[Worker] = "waiting"
  PROVE  Published \in LiveState
<1>1. live \in LiveState
  BY DEF TypeInv, ProgramTypes
<1>2. prog.segs \in Seq({"run", "wait"}) /\ seg \in 1..Len(prog.segs)
  BY DEF TypeInv, ProgramTypes, Program, SegInv, BeforeEnd, Segments
<1>3. prog.segs[seg] \in {"run", "wait"}
  BY <1>2
<1> QED
  BY <1>1, <1>3 DEF Published, LiveState

LEMMA ProgramTypesStep == TypeInv /\ SegInv /\ [Next]_vars => ProgramTypes'
<1> SUFFICES ASSUME TypeInv, SegInv, [Next]_vars PROVE ProgramTypes'
  OBVIOUS
<1> /\ Stopped(live) \in LiveState /\ Running(live) \in LiveState
    /\ LiveOff \in LiveState /\ NoResult \in Result
  BY DEF TypeInv, ProgramTypes, Stopped, Running, LiveOff, LiveState, NoResult, Result
<1>1. CASE WorkerStep
  <2>1. CASE WorkerBegin
    BY <2>1 DEF WorkerBegin, TypeInv, ProgramTypes
  <2>2. CASE WorkerSegment \/ WorkerSwitchOn \/ WorkerSwitchOff
    BY <2>2 DEF WorkerSegment, WorkerSwitchOn, WorkerSwitchOff, TypeInv, ProgramTypes
  <2>3. CASE WorkerStarted
    BY <2>3 DEF WorkerStarted, TypeInv, ProgramTypes
  <2>4. CASE WorkerTick
    BY <2>4, PublishedType DEF WorkerTick, TypeInv, ProgramTypes
  <2>5. CASE WorkerInterrupted
    BY <2>5 DEF WorkerInterrupted, TypeInv, ProgramTypes
  <2>6. CASE WorkerElapsed
    BY <2>6, PublishedType DEF WorkerElapsed, Interrupted, TypeInv, ProgramTypes
  <2>7. CASE WorkerPublish
    BY <2>7 DEF WorkerPublish, LiveEnded, CompletedEarly, LiveState, TypeInv, ProgramTypes
  <2>8. CASE WorkerResult
    BY <2>8 DEF WorkerResult, Outcome, Result, LiveState, TypeInv, ProgramTypes
  <2>9. CASE WorkerSignal
    BY <2>9 DEF WorkerSignal, TypeInv, ProgramTypes
  <2> QED
    BY <1>1, <2>1, <2>2, <2>3, <2>4, <2>5, <2>6, <2>7, <2>8, <2>9 DEF WorkerStep
<1>2. CASE \E r \in Requests : RunProgram(r)
  <2>1. prog' \in Program
    BY <1>2, ProgramAssumption DEF RunProgram
  <2>2. /\ live' = live /\ gaveUp' = gaveUp /\ abortAsked' = abortAsked
        /\ stop' = FALSE /\ abort' = FALSE /\ complete' = FALSE
        /\ interrupted' = FALSE /\ result' = NoResult
    BY <1>2 DEF RunProgram, ForgetResult
  <2>3. runs' \in Nat /\ done' \in Nat /\ seg' \in Nat
    BY <1>2 DEF RunProgram, TypeInv, ProgramTypes
  <2> QED
    BY <2>1, <2>2, <2>3 DEF TypeInv, ProgramTypes
<1>3. CASE \E r \in Requests : AbortProgram(r)
  BY <1>3 DEF AbortProgram, TypeInv, ProgramTypes
<1>4. CASE \E r \in Requests : /\ NewCall(r) \/ RequestStep(r)
                               /\ ~RunProgram(r) /\ ~AbortProgram(r)
  BY <1>4, OtherRequestFrame DEF TypeInv, ProgramTypes
<1>5. CASE \E t \in Threads : StopStep(t)
  BY <1>5, StopStepFrame DEF TypeInv, ProgramTypes
<1>6. CASE Restart
  BY <1>6 DEF Restart, TypeInv, ProgramTypes
<1>7. CASE Elsewhere
  BY <1>7, ElsewhereFrame DEF TypeInv, ProgramTypes
<1> QED
  BY <1>1, <1>2, <1>3, <1>4, <1>5, <1>6, <1>7, Steps

LEMMA DimmerTypesStep == TypeInv /\ [Next]_vars => DimmerTypes'
<1> SUFFICES ASSUME TypeInv, [Next]_vars PROVE DimmerTypes'
  OBVIOUS
<1> USE DEF TypeInv, DimmerTypes
<1>1. \A frame \in {"on", "off"} : Received(rx, frame) \subseteq {"none", "on", "off"}
  BY DEF Received
<1>2. CASE UNCHANGED <<port, mcuVars>>
  BY <1>2
<1>3. CASE WorkerStep
  BY <1>1, <1>2, <1>3
  DEF WorkerStep, WorkerBegin, WorkerSegment, WorkerSwitchOn, WorkerStarted,
      WorkerSwitchOff, WorkerTick, WorkerInterrupted, WorkerElapsed,
      WorkerPublish, WorkerResult, WorkerSignal
<1>4. CASE \E r \in Requests : NewCall(r) \/ RequestStep(r)
  BY <1>1, <1>2, <1>4
  DEF NewCall, RequestStep, RunProgram, RunRejected, CompleteProgram, AbortProgram,
      ShakerStart, ShakerStop, EnsureStopped, AbortStop, AbortLive, ShakerStarted
<1>5. CASE \E t \in Threads : StopStep(t)
  <2> PICK t \in Threads : StopStep(t)
    BY <1>5
  <2>1. CASE StopWrite(t)
    BY <1>1, <2>1 DEF StopWrite
  <2>2. CASE StopAck(t)
    BY <2>2, BoundAssumption DEF StopAck
  <2>3. CASE StopWriteRaises(t) \/ StopPlaceholder(t) \/ StopTimeout(t)
    BY <1>2, <2>3 DEF StopWriteRaises, StopPlaceholder, StopTimeout
  <2> QED
    BY <2>1, <2>2, <2>3 DEF StopStep
<1>6. CASE Restart
  BY <1>6, SwitchAssumption, BoundAssumption DEF Restart, InitialPorts
<1>7. CASE Elsewhere
  BY <1>2, <1>7, BoundAssumption
  DEF Elsewhere, DimmerLoop, QueueHasRoom, PortOpens, PortFails, Terminated, vars
<1> QED
  BY <1>3, <1>4, <1>5, <1>6, <1>7 DEF Next, Elsewhere

----------------------------------------------------------------------------
(***************************************************************************)
(* Segments, results and aborts                                            *)
(***************************************************************************)
\* Steps that leave the program and its history alone, and the worker where it
\* was or at the end of a cmd_shaker_stop.
Aside ==
  /\ UNCHANGED <<workVars, abort, complete, result, histVars>>
  /\ live'.completedEarly = live.completedEarly
  /\ \/ pc'[Worker] = pc[Worker]
     \/ pc[Worker] = "pause" /\ pc'[Worker] = "waiting"
     \/ pc[Worker] = "final" /\ pc'[Worker] = "publish"

LEMMA AsideSteps ==
  ASSUME TypeInv,
         \/ \E r \in Requests : /\ NewCall(r) \/ RequestStep(r)
                                /\ ~RunProgram(r) /\ ~AbortProgram(r)
         \/ \E t \in Threads : StopStep(t)
         \/ Elsewhere
  PROVE  Aside
<1>1. live \in LiveState
  BY DEF TypeInv, ProgramTypes
<1>2. \A l \in {live, Stopped(live), Running(live)} :
        l.completedEarly = live.completedEarly
  BY <1>1 DEF Stopped, Running, LiveState
<1>3. CASE \E r \in Requests : /\ NewCall(r) \/ RequestStep(r)
                               /\ ~RunProgram(r) /\ ~AbortProgram(r)
  BY <1>2, <1>3, OtherRequestFrame DEF Aside
<1>4. CASE \E t \in Threads : StopStep(t)
  <2> PICK t \in Threads : StopStep(t)
    BY <1>4
  <2>1. /\ UNCHANGED <<workVars, eventVars, result, histVars>>
        /\ live' \in {live, Stopped(live)}
    BY StopStepFrame
  <2>2. \/ pc'[Worker] = pc[Worker]
        \/ pc[Worker] = "pause" /\ pc'[Worker] = "waiting"
        \/ pc[Worker] = "final" /\ pc'[Worker] = "publish"
    BY StopStepWorker DEF TypeInv
  <2> QED
    BY <1>2, <2>1, <2>2 DEF Aside
<1>5. CASE Elsewhere
  BY <1>5, ElsewhereFrame DEF Aside
<1> QED
  BY <1>3, <1>4, <1>5

\* The place the worker goes to, in a step of its own.
LEMMA WorkerPlaces ==
  ASSUME TypeInv
  PROVE  /\ \A where \in WorkerPc : WorkerGoes(where) => pc'[Worker] = where
         /\ \A where \in WorkerPc : EnterStop(Worker, where) => pc'[Worker] = where
BY DEF WorkerGoes, EnterStop, TypeInv, ThreadInv, ThreadTypes, Threads

LEMMA StartPlaces ==
  ASSUME TypeInv, NEW r \in Requests
  PROVE  /\ RunProgram(r) => pc'[Worker] = "begin"
         /\ AbortProgram(r) => pc'[Worker] = pc[Worker]
BY ThreadAssumption
DEF RunProgram, AbortProgram, RequestGoes, TypeInv, ThreadInv, ThreadTypes, Threads

LEMMA RestartPlace ==
  ASSUME Restart
  PROVE  pc'[Worker] = "dead"
BY DEF Restart, Threads

LEMMA SegStep == TypeInv /\ SegInv /\ [Next]_vars => SegInv'
<1> SUFFICES ASSUME TypeInv, SegInv, [Next]_vars PROVE SegInv'
  OBVIOUS
<1>1. Segments \in Nat /\ seg \in Nat /\ done \in Nat
  BY DEF TypeInv, ProgramTypes, Program, Segments
<1>2. prog' = prog => Segments' = Segments /\ Logical' = Logical
  BY DEF Segments, Logical
<1>3. CASE WorkerStep
  <2> prog' = prog
    BY <1>3 DEF WorkerStep, WorkerBegin, WorkerSegment, WorkerSwitchOn, WorkerStarted,
      WorkerSwitchOff, WorkerTick, WorkerInterrupted, WorkerElapsed,
      WorkerPublish, WorkerResult, WorkerSignal
  <2> USE <1>1, <1>2, WorkerPlaces DEF SegInv, BeforeEnd, WorkerPc
  <2>1. CASE WorkerBegin
    BY <2>1 DEF WorkerBegin
  <2>2. CASE WorkerSegment
    BY <2>2 DEF WorkerSegment, FinalStop, Segments
  <2>3. CASE WorkerSwitchOn
    BY <2>3 DEF WorkerSwitchOn
  <2>4. CASE WorkerStarted
    BY <2>4 DEF WorkerStarted
  <2>5. CASE WorkerSwitchOff
    BY <2>5 DEF WorkerSwitchOff
  <2>6. CASE WorkerTick
    BY <2>6 DEF WorkerTick
  <2>7. CASE WorkerInterrupted
    BY <2>7 DEF WorkerInterrupted, FinalStop
  <2>8. CASE WorkerElapsed
    BY <2>8 DEF WorkerElapsed, FinalStop
  <2>9. CASE WorkerPublish
    BY <2>9 DEF WorkerPublish
  <2>10. CASE WorkerResult
    BY <2>10 DEF WorkerResult
  <2>11. CASE WorkerSignal
    BY <2>11 DEF WorkerSignal
  <2> QED
    BY <1>3, <2>1, <2>2, <2>3, <2>4, <2>5, <2>6, <2>7, <2>8, <2>9, <2>10, <2>11
    DEF WorkerStep
<1>4. CASE \E r \in Requests : RunProgram(r)
  <2>1. pc'[Worker] = "begin" /\ prog' \in Programs /\ done' = 0
    BY <1>4, StartPlaces DEF RunProgram
  <2>2. Segments' > 0 /\ (~Logical' => Segments' = 1)
    <3>1. Len(<<"run">>) = 1
      OBVIOUS
    <3>2. Len(prog'.segs) > 0
      BY <2>1, ProgramAssumption
    <3>3. prog'.mode # "LOGICAL" => prog'.segs = <<"run">>
      BY <2>1, ProgramAssumption
    <3> QED
      BY <3>1, <3>2, <3>3 DEF Segments, Logical
  <2> QED
    BY <2>1, <2>2 DEF SegInv, BeforeEnd
<1>5. CASE \E r \in Requests : AbortProgram(r)
  BY <1>2, <1>5, StartPlaces DEF AbortProgram, SegInv
<1>6. CASE Restart
  BY <1>2, <1>6, RestartPlace DEF Restart, SegInv, BeforeEnd
<1>7. CASE Aside
  BY <1>2, <1>7 DEF Aside, SegInv, BeforeEnd
<1> QED
  BY <1>3, <1>4, <1>5, <1>6, <1>7, Steps, AsideSteps

LEMMA ResultStep == TypeInv /\ ResultInv /\ [Next]_vars => ResultInv'
<1> SUFFICES ASSUME TypeInv, ResultInv, [Next]_vars PROVE ResultInv'
  OBVIOUS
<1>1. runs \in Nat
  BY DEF TypeInv, ProgramTypes
<1>2. CASE WorkerStep
  <2> USE WorkerPlaces DEF ResultInv, Alive, WorkerPc
  <2>1. CASE WorkerBegin
    BY <2>1 DEF WorkerBegin
  <2>2. CASE WorkerSegment
    BY <2>2 DEF WorkerSegment, FinalStop
  <2>3. CASE WorkerSwitchOn
    BY <2>3 DEF WorkerSwitchOn
  <2>4. CASE WorkerStarted
    BY <2>4 DEF WorkerStarted
  <2>5. CASE WorkerSwitchOff
    BY <2>5 DEF WorkerSwitchOff
  <2>6. CASE WorkerTick
    BY <2>6 DEF WorkerTick
  <2>7. CASE WorkerInterrupted
    BY <2>7 DEF WorkerInterrupted, FinalStop
  <2>8. CASE WorkerElapsed
    BY <2>8 DEF WorkerElapsed, FinalStop
  <2>9. CASE WorkerPublish
    BY <2>9 DEF WorkerPublish
  <2>10. CASE WorkerResult
    BY <2>10 DEF WorkerResult, Outcome
  <2>11. CASE WorkerSignal
    BY <2>11 DEF WorkerSignal
  <2> QED
    BY <1>2, <2>1, <2>2, <2>3, <2>4, <2>5, <2>6, <2>7, <2>8, <2>9, <2>10, <2>11
    DEF WorkerStep
<1>3. CASE \E r \in Requests : RunProgram(r)
  <2>1. pc'[Worker] = "begin"
    BY <1>3, StartPlaces
  <2>2. complete' = FALSE /\ result' = NoResult /\ runs' = runs + 1
    BY <1>3 DEF RunProgram, ForgetResult
  <2>3. runs' > 0
    BY <1>1, <2>2
  <2> QED
    BY <2>1, <2>2, <2>3 DEF ResultInv, Alive
<1>4. CASE \E r \in Requests : AbortProgram(r)
  BY <1>4, StartPlaces DEF AbortProgram, ResultInv, Alive
<1>5. CASE Restart
  BY <1>5, RestartPlace DEF Restart, ResultInv, Alive
<1>6. CASE Aside
  BY <1>6 DEF Aside, ResultInv, Alive
<1> QED
  BY <1>2, <1>3, <1>4, <1>5, <1>6, Steps, AsideSteps

LEMMA AbortStep == TypeInv /\ ResultInv /\ AbortInv /\ [Next]_vars => AbortInv'
<1> SUFFICES ASSUME TypeInv, ResultInv, AbortInv, [Next]_vars PROVE AbortInv'
  OBVIOUS
<1>1. runs \in Nat /\ NoResult.run = 0
  BY DEF TypeInv, ProgramTypes, NoResult
<1>2. CASE WorkerStep
  <2>1. UNCHANGED <<runs, abortAsked, abort>>
    BY <1>2 DEF WorkerStep, WorkerBegin, WorkerSegment, WorkerSwitchOn, WorkerStarted,
      WorkerSwitchOff, WorkerTick, WorkerInterrupted, WorkerElapsed,
      WorkerPublish, WorkerResult, WorkerSignal
  <2>2. Alive /\ (pc'[Worker] # "signal" => pc[Worker] # "signal" \/ ~Alive')
    BY <1>2, WorkerPlaces
    DEF WorkerStep, WorkerBegin, WorkerSegment, WorkerSwitchOn, WorkerStarted,
      WorkerSwitchOff, WorkerTick, WorkerInterrupted, WorkerElapsed,
      WorkerPublish, WorkerResult, WorkerSignal, Alive, WorkerPc
  <2>3. CASE WorkerResult
    <3>1. result' = [run |-> runs, aborted |-> abort,
                     completedEarly |-> live.completedEarly]
      BY <2>3 DEF WorkerResult, Outcome
    <3>2. runs \in abortAsked => abort
      BY <2>3 DEF WorkerResult, AbortInv, Alive
    <3> QED
      BY <2>1, <2>2, <3>1, <3>2 DEF AbortInv, AbortIsReported
  <2>4. CASE ~WorkerResult
    <3>1. result' = result
      BY <1>2, <2>4 DEF WorkerStep, WorkerBegin, WorkerSegment, WorkerSwitchOn,
        WorkerStarted, WorkerSwitchOff, WorkerTick, WorkerInterrupted,
        WorkerElapsed, WorkerPublish, WorkerSignal
    <3> QED
      BY <2>1, <2>2, <3>1 DEF AbortInv, AbortIsReported
  <2> QED
    BY <2>3, <2>4
<1>3. CASE \E r \in Requests : RunProgram(r)
  BY <1>1, <1>3, StartPlaces DEF RunProgram, ForgetResult, AbortInv, AbortIsReported
<1>4. CASE \E r \in Requests : AbortProgram(r)
  <2>1. UNCHANGED <<runs, result>> /\ abort' /\ pc'[Worker] = pc[Worker]
    BY <1>4, StartPlaces DEF AbortProgram
  <2>2. abortAsked' = abortAsked \/
        /\ abortAsked' = abortAsked \cup {runs}
        /\ Alive /\ pc[Worker] # "signal"
    BY <1>4 DEF AbortProgram
  <2>3. Alive /\ pc[Worker] # "signal" => runs > 0 /\ result.run = 0
    BY <1>1 DEF ResultInv
  <2>4. abortAsked' \subseteq 1..runs'
    <3>1. runs > 0 => runs \in 1..runs
      BY <1>1
    <3> QED
      BY <2>1, <2>2, <2>3, <3>1 DEF AbortInv
  <2>5. result'.run \in abortAsked' => result'.run \in abortAsked
    BY <1>1, <2>1, <2>2, <2>3
  <2> QED
    BY <2>1, <2>4, <2>5 DEF AbortInv, AbortIsReported
<1>5. CASE Restart
  <2>1. ~Alive' /\ result' = NoResult /\ UNCHANGED <<runs, abortAsked>>
    BY <1>5, RestartPlace DEF Restart, Alive
  <2>2. result'.run \notin abortAsked'
    BY <1>1, <2>1 DEF AbortInv
  <2> QED
    BY <2>1, <2>2 DEF AbortInv, AbortIsReported
<1>6. CASE Aside
  BY <1>6 DEF Aside, AbortInv, AbortIsReported, Alive
<1> QED
  BY <1>2, <1>3, <1>4, <1>5, <1>6, Steps, AsideSteps

LEMMA DoneStep == RunInv /\ [Next]_vars => DoneInv'
<1> SUFFICES ASSUME RunInv, [Next]_vars PROVE DoneInv'
  OBVIOUS
<1> USE DEF RunInv
<1>1. Segments \in Nat /\ seg \in Nat /\ done \in Nat
  BY DEF TypeInv, ProgramTypes, Program, Segments
<1>2. Segments = Len(prog.segs) /\ (prog' = prog => Segments' = Segments /\ Logical' = Logical)
  BY DEF Segments, Logical
<1>3. NoResult = NoResult' /\ (Alive /\ pc[Worker] # "signal" => result = NoResult)
  BY DEF ResultInv, NoResult
<1>4. CASE WorkerStep
  <2>1. prog' = prog /\ abort' = abort
    BY <1>4 DEF WorkerStep, WorkerBegin, WorkerSegment, WorkerSwitchOn, WorkerStarted,
      WorkerSwitchOff, WorkerTick, WorkerInterrupted, WorkerElapsed,
      WorkerPublish, WorkerResult, WorkerSignal
  <2>2. ASSUME result' = result, ~WorkerSignal PROVE FullResultRanFully'
    <3>1. result = NoResult
      BY <1>3, <1>4, <2>2
      DEF WorkerStep, WorkerBegin, WorkerSegment, WorkerSwitchOn, WorkerStarted,
        WorkerSwitchOff, WorkerTick, WorkerInterrupted, WorkerElapsed,
        WorkerPublish, WorkerResult, Alive
    <3> QED
      BY <1>3, <2>2, <3>1 DEF FullResultRanFully
  <2> USE <1>1, <1>2, <2>1, WorkerPlaces DEF DoneInv, WorkerPc
  <2>3. CASE WorkerBegin
    BY <2>2, <2>3 DEF WorkerBegin, WorkerSignal
  <2>4. CASE WorkerSegment
    BY <2>2, <2>4 DEF WorkerSegment, FinalStop, WorkerSignal, SegInv
  <2>5. CASE WorkerSwitchOn
    BY <2>2, <2>5 DEF WorkerSwitchOn, WorkerSignal
  <2>6. CASE WorkerStarted
    BY <2>2, <2>6 DEF WorkerStarted, WorkerSignal
  <2>7. CASE WorkerSwitchOff
    BY <2>2, <2>7 DEF WorkerSwitchOff, WorkerSignal
  <2>8. CASE WorkerTick
    BY <2>2, <2>8 DEF WorkerTick, WorkerSignal
  <2>9. CASE WorkerInterrupted
    BY <2>2, <2>9 DEF WorkerInterrupted, FinalStop, WorkerSignal
  <2>10. CASE WorkerElapsed
    <3>1. ~Logical => done' = Segments
      <4>1. pc[Worker] = "waiting" /\ done' = done + 1
        BY <2>10 DEF WorkerElapsed
      <4>2. done + 1 = seg /\ seg <= Segments /\ Segments > 0
        BY <4>1 DEF SegInv, BeforeEnd
      <4>3. Segments = 1 => done' = Segments
        BY <1>1, <4>1, <4>2
      <4> QED
        BY <4>3 DEF SegInv
    <3> QED
      BY <2>2, <2>10, <3>1 DEF WorkerElapsed, FinalStop, WorkerSignal
  <2>11. CASE WorkerPublish
    <3>1. live'.completedEarly = CompletedEarly /\ pc'[Worker] = "result"
      BY <2>11 DEF WorkerPublish, LiveEnded
    <3>2. ~abort /\ ~CompletedEarly => done = Segments
      BY <2>11 DEF WorkerPublish, CompletedEarly, SegInv
    <3> QED
      BY <2>2, <2>11, <3>1, <3>2 DEF WorkerPublish, WorkerSignal
  <2>12. CASE WorkerResult
    <3>1. result' = [run |-> runs, aborted |-> abort,
                     completedEarly |-> live.completedEarly]
      BY <2>12 DEF WorkerResult, Outcome
    <3>2. FullResultRanFully'
      BY <2>12, <3>1 DEF WorkerResult, FullResultRanFully
    <3> QED
      BY <2>12, <3>2 DEF WorkerResult
  <2>13. CASE WorkerSignal
    <3>1. FullResultRanFully'
      BY <1>3, <2>13 DEF WorkerSignal, FullResultRanFully
    <3> QED
      BY <2>13, <3>1 DEF WorkerSignal
  <2> QED
    BY <1>4, <2>3, <2>4, <2>5, <2>6, <2>7, <2>8, <2>9, <2>10, <2>11, <2>12, <2>13
    DEF WorkerStep
<1>5. CASE \E r \in Requests : RunProgram(r)
  <2>1. pc'[Worker] = "begin" /\ result' = NoResult
    BY <1>5, StartPlaces DEF RunProgram, ForgetResult
  <2> QED
    BY <1>3, <2>1 DEF DoneInv, FullResultRanFully
<1>6. CASE \E r \in Requests : AbortProgram(r)
  <2>1. UNCHANGED <<workVars, result, live>> /\ abort' = TRUE /\ pc'[Worker] = pc[Worker]
    BY <1>6, StartPlaces DEF AbortProgram
  <2> QED
    BY <1>2, <1>3, <2>1 DEF DoneInv, FullResultRanFully
<1>7. CASE Restart
  BY <1>3, <1>7, RestartPlace DEF Restart, DoneInv, FullResultRanFully
<1>8. CASE Aside
  BY <1>2, <1>3, <1>8 DEF Aside, DoneInv, FullResultRanFully
<1> QED
  BY <1>4, <1>5, <1>6, <1>7, <1>8, Steps, AsideSteps

----------------------------------------------------------------------------
LEMMA RunInit == Init => RunInv
<1> SUFFICES ASSUME Init PROVE RunInv
  OBVIOUS
<1>1. pc[Worker] = "dead" /\ Len(<<"run">>) = 1
  BY DEF Init, Threads
<1>2. SegInv
  BY <1>1 DEF Init, SegInv, Segments, BeforeEnd
<1>3. ResultInv
  BY <1>1 DEF Init, ResultInv, Alive
<1>4. AbortInv
  BY <1>1 DEF Init, AbortInv, AbortIsReported, Alive
<1>5. DoneInv
  BY <1>1 DEF Init, DoneInv, FullResultRanFully
<1> QED
  BY <1>2, <1>3, <1>4, <1>5, TypeInit DEF RunInv

LEMMA RunStep == RunInv /\ [Next]_vars => RunInv'
BY ThreadStep, ProgramTypesStep, DimmerTypesStep, SegStep, ResultStep, AbortStep,
   DoneStep
DEF RunInv, TypeInv

LEMMA RunInvariant == Spec => []RunInv
BY RunInit, RunStep, PTL DEF Spec

(***************************************************************************)
(* The program runner keeps its types: every thread stays on the places of *)
(* its code, no call writes more frames than it may, and line_q never      *)
(* exceeds its capacity.                                                   *)
(***************************************************************************)
THEOREM TypeCorrect == Spec => []TypeOK
<1>1. RunInv => TypeOK
  BY DEF RunInv, TypeInv, ThreadInv, TypeOK
<1> QED
  BY RunInvariant, <1>1, PTL

(***************************************************************************)
(* The result get_program_status hands out is never that of an earlier     *)
(* program: start_program forgets it before it starts the next worker.     *)
(***************************************************************************)
THEOREM StatusCurrent == Spec => []StatusResultIsCurrent
<1>1. RunInv => StatusResultIsCurrent
  BY DEF RunInv, ResultInv, StatusResultIsCurrent
<1> QED
  BY RunInvariant, <1>1, PTL

(***************************************************************************)
(* A program that abort_program was called for before its result was       *)
(* written is reported aborted, for any number of concurrent requests.     *)
(***************************************************************************)
THEOREM AbortReported == Spec => []AbortIsReported
<1>1. RunInv => AbortIsReported
  BY DEF RunInv, AbortInv
<1> QED
  BY RunInvariant, <1>1, PTL

(***************************************************************************)
(* A result without aborted and completedEarly is that of a program whose  *)
(* every segment ran to its deadline, for every program validate_recipe    *)
(* lets through.                                                           *)
(***************************************************************************)
THEOREM FullRanFully == Spec => []FullResultRanFully
<1>1. RunInv => FullResultRanFully
  BY DEF RunInv, DoneInv
<1> QED
  BY RunInvariant, <1>1, PTL

----------------------------------------------------------------------------
(***************************************************************************)
(* The runner implements ProgramContract                                   *)
(***************************************************************************)
LEMMA ContractInit == Init => Contract!Init
<1> SUFFICES ASSUME Init PROVE Contract!Init
  OBVIOUS
<1>1. ~Alive /\ Len(prog.segs) = 1 /\ done = 0
  BY DEF Init, Alive, Threads
<1> QED
  BY <1>1 DEF Init, Contract!Init, ContractStatus, ContractOutcome

\* A step that changes neither of these is a stutter of the contract.
LEMMA ContractStutter ==
  ASSUME Alive' = Alive, UNCHANGED <<complete, result, runs>>,
         (runs \in abortAsked)' = (runs \in abortAsked),
         (done >= Len(prog.segs))' = (done >= Len(prog.segs))
  PROVE  UNCHANGED Contract!vars
BY DEF Contract!vars, ContractStatus, ContractOutcome

LEMMA ContractStep == RunInv /\ [Next]_vars => [Contract!Next]_(Contract!vars)
<1> SUFFICES ASSUME RunInv, [Next]_vars PROVE Contract!Next \/ UNCHANGED Contract!vars
  OBVIOUS
<1> USE DEF RunInv
<1>1. /\ Segments \in Nat /\ done \in Nat /\ runs \in Nat
      /\ Segments = Len(prog.segs)
  BY DEF TypeInv, ProgramTypes, Program, Segments
<1>2. CASE WorkerStep
  <2>1. UNCHANGED <<prog, runs, abortAsked>> /\ Alive
    BY <1>2 DEF WorkerStep, WorkerBegin, WorkerSegment, WorkerSwitchOn, WorkerStarted,
      WorkerSwitchOff, WorkerTick, WorkerInterrupted, WorkerElapsed,
      WorkerPublish, WorkerResult, WorkerSignal, Alive
  <2>2. CASE WorkerElapsed
    <3>1. Alive' /\ ~complete /\ UNCHANGED <<complete, result>> /\ done' = done + 1
      BY <2>1, <2>2, WorkerPlaces
      DEF WorkerElapsed, FinalStop, Alive, WorkerPc, ResultInv
    <3>2. CASE done + 1 >= Len(prog.segs) /\ ~(done >= Len(prog.segs))
      BY <2>1, <3>1, <3>2
      DEF Contract!Next, Contract!RunOut, ContractStatus, ContractOutcome
    <3>3. CASE ~(done + 1 >= Len(prog.segs) /\ ~(done >= Len(prog.segs)))
      <4>1. (done >= Len(prog.segs))' = (done >= Len(prog.segs))
        BY <1>1, <2>1, <3>1, <3>3
      <4> QED
        BY <2>1, <3>1, <4>1, ContractStutter
    <3> QED
      BY <3>2, <3>3
  <2>3. CASE WorkerSignal
    <3>1. /\ ~Alive' /\ complete' /\ UNCHANGED <<result, done>>
          /\ pc[Worker] = "signal"
      BY <2>3, WorkerPlaces DEF WorkerSignal, Alive, WorkerPc
    <3>2. result.run = runs /\ runs > 0 /\ ~complete
      BY <2>1, <3>1 DEF ResultInv
    <3>3. result # NoResult
      BY <3>2 DEF NoResult
    <3>4. runs \in abortAsked => result.aborted
      BY <3>2 DEF AbortInv, AbortIsReported
    <3>5. ~result.aborted /\ ~result.completedEarly => done >= Len(prog.segs)
      BY <1>1, <3>3 DEF DoneInv, FullResultRanFully
    <3>6. ContractStatus = "running" /\ ContractStatus' = "ended"
      BY <2>1, <3>1 DEF ContractStatus
    <3>7. ContractOutcome' \in {"full", "early", "aborted"}
      BY <3>1 DEF ContractOutcome
    <3>8. runs \in abortAsked => ContractOutcome' = "aborted"
      BY <3>1, <3>4 DEF ContractOutcome
    <3>9. ContractOutcome' = "full" => done >= Len(prog.segs)
      BY <3>1, <3>5 DEF ContractOutcome
    <3> QED
      BY <2>1, <3>1, <3>6, <3>7, <3>8, <3>9 DEF Contract!Next, Contract!End
  <2>4. CASE WorkerResult
    <3>1. Alive' /\ UNCHANGED <<done, complete>>
      BY <2>4, WorkerPlaces DEF WorkerResult, Alive, WorkerPc
    <3> QED
      BY <2>1, <3>1 DEF Contract!vars, ContractStatus, ContractOutcome
  <2>5. CASE ~WorkerElapsed /\ ~WorkerSignal /\ ~WorkerResult
    <3>1. Alive' /\ UNCHANGED <<done, complete, result>>
      BY <1>2, <2>5, WorkerPlaces
      DEF WorkerStep, WorkerBegin, WorkerSegment, WorkerSwitchOn, WorkerStarted,
        WorkerSwitchOff, WorkerTick, WorkerInterrupted, WorkerPublish, FinalStop,
        Alive, WorkerPc
    <3> QED
      BY <2>1, <3>1, ContractStutter
  <2> QED
    BY <2>2, <2>3, <2>4, <2>5
<1>3. CASE \E r \in Requests : RunProgram(r)
  <2>1. /\ ~Alive /\ Alive' /\ runs' = runs + 1 /\ abortAsked' = abortAsked
        /\ done' = 0
    BY <1>3, StartPlaces DEF RunProgram, MayStart, Alive
  <2>2. Segments' > 0 /\ Segments' = Len(prog'.segs) /\ Segments' \in Nat
    BY <1>3, SegStep, ProgramTypesStep
    DEF SegInv, Segments, ProgramTypes, Program
  <2>3. runs' \notin abortAsked' /\ ~(done' >= Len(prog'.segs))
    BY <1>1, <2>1, <2>2 DEF AbortInv
  <2> QED
    BY <2>1, <2>3 DEF Contract!Next, Contract!Start, ContractStatus, ContractOutcome
<1>4. CASE \E r \in Requests : AbortProgram(r)
  <2>1. /\ UNCHANGED <<complete, result, runs, workVars>> /\ Alive' = Alive
        /\ abortAsked' = abortAsked \/ (Alive /\ abortAsked' = abortAsked \cup {runs})
    BY <1>4, StartPlaces DEF AbortProgram, Alive
  <2>2. CASE abortAsked' = abortAsked
    BY <2>1, <2>2, ContractStutter
  <2>3. CASE Alive /\ abortAsked' = abortAsked \cup {runs}
    BY <2>1, <2>3
    DEF Contract!Next, Contract!Abort, ContractStatus, ContractOutcome
  <2> QED
    BY <2>1, <2>2, <2>3
<1>5. CASE Restart
  <2>1. ~Alive' /\ complete' = FALSE /\ UNCHANGED <<runs, abortAsked, prog, done>>
    BY <1>5, RestartPlace DEF Restart, Alive
  <2> QED
    BY <2>1 DEF Contract!Next, Contract!Forget, ContractStatus, ContractOutcome
<1>6. CASE Aside
  <2>1. /\ UNCHANGED <<workVars, complete, result, runs, abortAsked>>
        /\ Alive' = Alive
    BY <1>6 DEF Aside, Alive
  <2> QED
    BY <2>1, ContractStutter
<1> QED
  BY <1>2, <1>3, <1>4, <1>5, <1>6, Steps, AsideSteps

(***************************************************************************)
(* The threads, events and frames of the runner implement the contract the *)
(* screens and the report rely on: programs run one at a time, each ends   *)
(* once, an aborted one says so, and only one that ran out says it ran     *)
(* fully.  A killed process forgets its program.                           *)
(***************************************************************************)
THEOREM Implements == Spec => KeepsContract
BY ContractInit, ContractStep, RunInvariant, PTL DEF Spec, KeepsContract, Contract!Spec

----------------------------------------------------------------------------
(***************************************************************************)
(* The load and its acknowledgements, with a dimmer that answers in time on *)
(* a port that works, in a process that is not killed, when the load is    *)
(* switched on by programs only                                            *)
(***************************************************************************)
Reliable ==
  /\ TimelyReply /\ ~Restarts /\ PortStates = {"open"} /\ "start" \notin Api
  /\ IsFiniteSet(Requests)

Awaiting == {t \in Threads : stage[t] = "await"}

\* Nobody is owed more than one OK.
OkBound == okQ + (IF rx = "off" THEN 1 ELSE 0) <= Cardinality(Awaiting)

\* The worker has not sent the stop frame that ends its program.
Driving == pc[Worker] \in BeforeEnd \cup {"begin"}

\* A load that is on, and stays on, is noticed by a thread that has yet to write
\* its stop frame or that waits for an OK it does not get.
Noticed ==
  gaveUp \/ (\E t \in Threads : stage[t] = "write") \/ okQ < Cardinality(Awaiting)

LoadInv == ~Driving /\ WillBeOn => Noticed

NoStart == port = "open" /\ \A r \in Requests : pc[r] # "sent"

ReliableInv == RunInv /\ NoStart /\ OkBound /\ LoadInv

LEMMA AwaitingFinite ==
  ASSUME Reliable
  PROVE  IsFiniteSet(Awaiting) /\ Cardinality(Awaiting) \in Nat
<1>1. IsFiniteSet(Threads)
  BY FS_AddElement DEF Reliable, Threads
<1>2. Awaiting \in SUBSET Threads
  BY DEF Awaiting
<1>3. IsFiniteSet(Awaiting)
  BY <1>1, <1>2, FS_Subset
<1> QED
  BY <1>3, FS_CardinalityType

\* The steps that change nothing the load or its acknowledgements depend on,
\* but may enter cmd_shaker_stop.
Calm ==
  /\ UNCHANGED <<port, mcuVars, gaveUp>>
  /\ \/ stage' = stage
     \/ \E t \in Threads : stage[t] = "idle" /\ stage' = [stage EXCEPT ![t] = "write"]
  /\ Driving' \/ ~Driving \/ \E t \in Threads : stage'[t] = "write"

LEMMA EnterStopStage ==
  ASSUME ThreadInv, NEW t \in Threads, NEW where, pc[t] \notin StopPcs,
         EnterStop(t, where)
  PROVE  /\ stage[t] = "idle" /\ stage' = [stage EXCEPT ![t] = "write"]
         /\ stage'[t] = "write"
BY DEF ThreadInv, ThreadTypes, StopInv, EnterStop

LEMMA CalmStep ==
  ASSUME ReliableInv, Reliable, Calm
  PROVE  OkBound' /\ LoadInv'
<1> USE DEF ReliableInv, RunInv, TypeInv, ThreadInv, ThreadTypes
<1>1. Awaiting' = Awaiting
  BY DEF Calm, Awaiting
<1>2. OkBound'
  BY <1>1 DEF Calm, OkBound
<1>3. CASE \E t \in Threads : stage'[t] = "write"
  BY <1>2, <1>3 DEF LoadInv, Noticed
<1>4. CASE ~(\E t \in Threads : stage'[t] = "write")
  <2>1. stage' = stage
    BY <1>4 DEF Calm
  <2>2. Noticed' = Noticed /\ WillBeOn' = WillBeOn
    BY <1>1, <2>1 DEF Calm, Noticed, WillBeOn
  <2>3. ~Driving' => ~Driving
    BY <1>4 DEF Calm
  <2> QED
    BY <1>2, <2>2, <2>3 DEF LoadInv
<1> QED
  BY <1>3, <1>4

LEMMA WorkerReliable ==
  ASSUME ReliableInv, Reliable, WorkerStep
  PROVE  OkBound' /\ LoadInv'
<1> USE DEF ReliableInv, RunInv
<1> Worker \in Threads /\ ThreadInv
  BY DEF Threads, TypeInv
<1>1. CASE WorkerSwitchOn
  <2>1. /\ Awaiting' = Awaiting /\ okQ' = okQ /\ rx # "on"
        /\ rx' \in Received(rx, "on")
    BY <1>1 DEF WorkerSwitchOn, WorkerGoes, Awaiting, Reliable, NoStart
  <2>2. rx' = "off" => rx = "off"
    BY <2>1 DEF Received, TypeInv, DimmerTypes
  <2>3. okQ \in Nat /\ Cardinality(Awaiting) \in Nat
    BY AwaitingFinite, BoundAssumption DEF TypeInv, DimmerTypes
  <2>4. OkBound'
    BY <2>1, <2>2, <2>3 DEF OkBound
  <2>5. pc'[Worker] \in {"started", "waiting"}
    BY <1>1, WorkerPlaces DEF WorkerSwitchOn, WorkerPc
  <2> QED
    BY <2>4, <2>5 DEF LoadInv, Driving, BeforeEnd
<1>2. CASE WorkerStep /\ ~WorkerSwitchOn
  <2> SUFFICES Calm
    BY CalmStep
  <2>1. UNCHANGED <<port, mcuVars, gaveUp>>
    BY <1>2 DEF WorkerStep, WorkerBegin, WorkerSegment, WorkerStarted,
      WorkerSwitchOff, WorkerTick, WorkerInterrupted, WorkerElapsed,
      WorkerPublish, WorkerResult, WorkerSignal
  <2>2. ASSUME NEW where, EnterStop(Worker, where), pc[Worker] \notin StopPcs
        PROVE  Calm
    BY <2>1, <2>2, EnterStopStage DEF Calm
  <2>3. ASSUME NEW where \in WorkerPc, WorkerGoes(where),
               ~Driving \/ where \in BeforeEnd
        PROVE  Calm
    BY <2>1, <2>3, WorkerPlaces DEF Calm, WorkerGoes, Driving, TypeInv
  <2> USE DEF WorkerPc, BeforeEnd
  <2>4. CASE WorkerBegin
    BY <2>3, <2>4 DEF WorkerBegin
  <2>5. CASE WorkerSegment
    BY <2>2, <2>3, <2>5 DEF WorkerSegment, FinalStop, StopPcs
  <2>6. CASE WorkerStarted
    BY <2>3, <2>6 DEF WorkerStarted
  <2>7. CASE WorkerSwitchOff
    BY <2>2, <2>7 DEF WorkerSwitchOff, StopPcs
  <2>8. CASE WorkerTick
    BY <2>1, <2>8 DEF WorkerTick, Calm, Driving
  <2>9. CASE WorkerInterrupted
    BY <2>2, <2>9 DEF WorkerInterrupted, FinalStop, StopPcs
  <2>10. CASE WorkerElapsed
    BY <2>2, <2>3, <2>10 DEF WorkerElapsed, FinalStop, StopPcs
  <2>11. CASE WorkerPublish
    BY <2>3, <2>11 DEF WorkerPublish, Driving
  <2>12. CASE WorkerResult
    BY <2>3, <2>12 DEF WorkerResult, Driving
  <2>13. CASE WorkerSignal
    BY <2>3, <2>13 DEF WorkerSignal, Driving
  <2> QED
    BY <1>2, <2>4, <2>5, <2>6, <2>7, <2>8, <2>9, <2>10, <2>11, <2>12, <2>13
    DEF WorkerStep
<1> QED
  BY <1>1, <1>2

LEMMA RequestReliable ==
  ASSUME ReliableInv, Reliable, NEW r \in Requests, NewCall(r) \/ RequestStep(r)
  PROVE  OkBound' /\ LoadInv'
<1> SUFFICES Calm
  BY CalmStep
<1> USE DEF ReliableInv, RunInv
<1> r \in Threads /\ ThreadInv
  BY DEF Threads, TypeInv
<1>1. pc'[Worker] = pc[Worker] \/ Driving'
  BY OtherRequestFrame, StartPlaces DEF Driving
<1>2. ~ShakerStart(r) /\ ~ShakerStarted(r)
  BY DEF ShakerStart, Calls, ShakerStarted, Reliable, NoStart
<1>3. UNCHANGED <<port, mcuVars, gaveUp>>
  BY <1>2 DEF NewCall, RequestStep, RunProgram, RunRejected, CompleteProgram,
    AbortProgram, ShakerStop, EnsureStopped, AbortStop, AbortLive
<1>4. ASSUME NEW where, EnterStop(r, where), pc[r] \notin StopPcs
      PROVE  Calm
  BY <1>3, <1>4, EnterStopStage DEF Calm
<1>5. ASSUME stage' = stage PROVE Calm
  BY <1>1, <1>3, <1>5 DEF Calm, Driving
<1>6. CASE ShakerStop(r)
  BY <1>4, <1>6 DEF ShakerStop, Calls, StopPcs
<1>7. CASE EnsureStopped(r)
  BY <1>4, <1>7 DEF EnsureStopped, Calls, StopPcs
<1>8. CASE AbortStop(r)
  BY <1>4, <1>8 DEF AbortStop, StopPcs
<1>9. CASE RunProgram(r) \/ RunRejected(r) \/ CompleteProgram(r) \/ AbortProgram(r) \/ AbortLive(r)
  BY <1>5, <1>9 DEF RunProgram, RunRejected, CompleteProgram, AbortProgram,
    AbortLive, RequestGoes
<1> QED
  BY <1>2, <1>6, <1>7, <1>8, <1>9 DEF NewCall, RequestStep

LEMMA StopReliable ==
  ASSUME ReliableInv, Reliable, NEW t \in Threads, StopStep(t)
  PROVE  OkBound' /\ LoadInv'
<1> USE DEF ReliableInv, RunInv, TypeInv, ThreadInv, ThreadTypes
<1> DEFINE W == Cardinality(Awaiting)
<1>1. /\ okQ \in Nat /\ W \in Nat /\ IsFiniteSet(Awaiting)
      /\ rx \in {"none", "on", "off"} /\ port = "open" /\ gaveUp \in BOOLEAN
  BY AwaitingFinite, BoundAssumption DEF DimmerTypes, ProgramTypes, NoStart
<1>2. Driving => Driving' \/ pc'[Worker] = pc[Worker]
  BY StopStepWorker DEF Driving, BeforeEnd
<1>3. CASE StopWrite(t)
  <2>1. Awaiting' = Awaiting \cup {t} /\ t \notin Awaiting
    BY <1>3 DEF StopWrite, Awaiting
  <2>2. Cardinality(Awaiting') = W + 1
    BY <1>1, <2>1, FS_AddElement
  <2>3. okQ' = okQ /\ (rx' = "on" => rx = "on") /\ rx' # "none"
    BY <1>1, <1>3 DEF StopWrite, Received
  <2>4. OkBound'
    BY <1>1, <2>2, <2>3 DEF OkBound
  <2>5. WillBeOn' => Noticed'
    BY <1>1, <2>2, <2>3 DEF WillBeOn, Noticed, OkBound
  <2> QED
    BY <2>4, <2>5 DEF LoadInv
<1>4. CASE StopAck(t)
  <2>1. /\ Awaiting' = Awaiting \ {t} /\ t \in Awaiting
        /\ \A u \in Threads : stage[u] = "write" => stage'[u] = "write"
    BY <1>4 DEF StopAck, StopReturns, Awaiting
  <2>2. Cardinality(Awaiting') = W - 1
    BY <1>1, <2>1, FS_RemoveElement
  <2>3. /\ okQ' = okQ - 1 /\ rx' = rx /\ motor' = motor /\ gaveUp' = gaveUp
    BY <1>1, <1>4 DEF StopAck, StopReturns
  <2>4. OkBound'
    BY <1>1, <2>2, <2>3 DEF OkBound
  <2>5. Noticed => Noticed'
    BY <1>1, <2>1, <2>2, <2>3 DEF Noticed
  <2>6. Driving /\ ~Driving' => FALSE
    BY <1>2 DEF Driving
  <2> QED
    BY <2>3, <2>4, <2>5, <2>6 DEF LoadInv, WillBeOn
<1>5. CASE StopTimeout(t)
  <2>1. rx = "none" /\ rx' = rx /\ okQ = 0 /\ okQ' = okQ /\ motor' = motor
    BY <1>1, <1>5 DEF StopTimeout, Reliable
  <2>2. Cardinality(Awaiting') \in Nat
    <3>1. IsFiniteSet(Threads)
      BY FS_AddElement DEF Reliable, Threads
    <3>2. Awaiting' \in SUBSET Threads
      BY DEF Awaiting
    <3> QED
      BY <3>1, <3>2, FS_Subset, FS_CardinalityType
  <2>3. OkBound'
    BY <2>1, <2>2 DEF OkBound
  <2>4. stage'[t] = "write" \/ gaveUp'
    BY <1>5 DEF StopTimeout, AttemptFails, StopReturns
  <2> QED
    BY <2>3, <2>4 DEF LoadInv, Noticed
<1>6. CASE StopWriteRaises(t) \/ StopPlaceholder(t)
  BY <1>1, <1>6 DEF StopWriteRaises, StopPlaceholder
<1> QED
  BY <1>3, <1>4, <1>5, <1>6 DEF StopStep

LEMMA ElsewhereReliable ==
  ASSUME ReliableInv, Reliable, Elsewhere
  PROVE  OkBound' /\ LoadInv'
<1> USE DEF ReliableInv, RunInv
<1>1. CASE DimmerLoop
  <2>1. Awaiting' = Awaiting /\ UNCHANGED <<threadVars, gaveUp>>
    BY <1>1 DEF DimmerLoop, Awaiting
  <2>2. rx' = "none" /\ motor' = rx /\ okQ' \in {okQ, okQ + 1}
        /\ (rx # "off" => okQ' = okQ)
    BY <1>1 DEF DimmerLoop, Answers
  <2>3. okQ \in Nat /\ Cardinality(Awaiting) \in Nat /\ rx \in {"none", "on", "off"}
    BY AwaitingFinite, BoundAssumption DEF TypeInv, DimmerTypes
  <2>4. OkBound'
    BY <2>1, <2>2, <2>3 DEF OkBound
  <2>5. WillBeOn' => WillBeOn /\ okQ' = okQ
    BY <2>2, <2>3 DEF WillBeOn
  <2>6. Driving' = Driving
    BY <2>1 DEF Driving
  <2>7. okQ' = okQ => Noticed' = Noticed
    BY <2>1 DEF Noticed
  <2> QED
    BY <2>4, <2>5, <2>6, <2>7 DEF LoadInv
<1>2. CASE Terminated \/ UNCHANGED vars
  BY <1>2, CalmStep DEF Terminated, vars, Calm, Driving
<1>3. CASE PortOpens \/ PortFails
  BY <1>3 DEF PortOpens, PortFails, Reliable, NoStart
<1> QED
  BY <1>1, <1>2, <1>3 DEF Elsewhere

LEMMA NoStartStep ==
  ASSUME TypeInv, NoStart, Reliable, [Next]_vars
  PROVE  NoStart'
<1> USE DEF NoStart
<1> TypeOK /\ ThreadInv
  BY DEF TypeInv, ThreadInv, TypeOK
<1>1. CASE WorkerStep
  <2>1. /\ port' = port
        /\ \/ pc' = pc
           \/ \E where \in WorkerPc : pc' = [pc EXCEPT ![Worker] = where]
    BY <1>1 DEF WorkerStep, WorkerBegin, WorkerSegment, WorkerSwitchOn, WorkerStarted,
      WorkerSwitchOff, WorkerTick, WorkerInterrupted, WorkerElapsed, WorkerPublish,
      WorkerResult, WorkerSignal, WorkerGoes, FinalStop, EnterStop, WorkerPc
  <2> QED
    BY <2>1, ThreadAssumption DEF ThreadInv, ThreadTypes, Threads
<1>2. CASE \E r \in Requests : NewCall(r) \/ RequestStep(r)
  <2> PICK r \in Requests : NewCall(r) \/ RequestStep(r)
    BY <1>2
  <2>1. ~ShakerStart(r)
    BY DEF ShakerStart, Calls, Reliable
  <2>2. /\ port' = port
        /\ \E where \in RequestPc \ {"sent"} :
             \/ pc' = [pc EXCEPT ![r] = where]
             \/ pc' = [pc EXCEPT ![Worker] = "begin", ![r] = where]
    BY <2>1 DEF NewCall, RequestStep, RunProgram, RunRejected, CompleteProgram,
      AbortProgram, ShakerStop, EnsureStopped, AbortStop, AbortLive, ShakerStarted,
      RequestGoes, EnterStop, RequestPc
  <2> QED
    BY <2>2, ThreadAssumption DEF ThreadInv, ThreadTypes, Threads
<1>3. CASE \E t \in Threads : StopStep(t)
  <2> PICK t \in Threads : StopStep(t)
    BY <1>3
  <2>1. pc' = pc \/ pc' = [pc EXCEPT ![t] = AfterStop(@)]
    BY DEF StopStep, StopWrite, StopWriteRaises, StopPlaceholder, StopAck,
           StopTimeout, AttemptFails, StopReturns
  <2>2. AfterStop(pc[t]) # "sent" /\ port' = port
    BY StopStepFrame DEF AfterStop
  <2> QED
    BY <2>1, <2>2 DEF ThreadInv, ThreadTypes, Threads
<1>4. CASE DimmerLoop \/ Terminated \/ UNCHANGED vars
  BY <1>4 DEF DimmerLoop, Terminated, vars
<1>5. CASE PortOpens \/ PortFails \/ Restart
  BY <1>5 DEF PortOpens, PortFails, Restart, Reliable
<1> QED
  BY <1>1, <1>2, <1>3, <1>4, <1>5 DEF Next

LEMMA ReliableInit ==
  ASSUME Reliable, Init
  PROVE  ReliableInv
<1>1. RunInv
  BY RunInit
<1>2. NoStart
  BY ThreadAssumption DEF Init, NoStart, InitialPorts, Reliable, Threads
<1>3. OkBound
  BY AwaitingFinite DEF Init, OkBound
<1>4. LoadInv
  BY DEF Init, LoadInv, WillBeOn
<1> QED
  BY <1>1, <1>2, <1>3, <1>4 DEF ReliableInv

LEMMA ReliableStep ==
  ASSUME Reliable, ReliableInv, [Next]_vars
  PROVE  ReliableInv'
<1>1. RunInv' /\ NoStart'
  BY RunStep, NoStartStep DEF ReliableInv, RunInv
<1>2. ~Restart
  BY DEF Restart, Reliable
<1>3. OkBound' /\ LoadInv'
  BY <1>2, WorkerReliable, RequestReliable, StopReliable, ElsewhereReliable
  DEF Next, Elsewhere
<1> QED
  BY <1>1, <1>3 DEF ReliableInv

LEMMA ReliableInvariant == ASSUME Reliable PROVE Spec => []ReliableInv
<1>1. Init => ReliableInv
  BY ReliableInit
<1>2. ReliableInv /\ [Next]_vars => ReliableInv'
  BY ReliableStep
<1> QED
  BY <1>1, <1>2, PTL DEF Spec

(***************************************************************************)
(* However many threads share line_q, none of them finds an OK there that  *)
(* an earlier stop frame left behind, if the dimmer answers in time.       *)
(***************************************************************************)
THEOREM OwnOk == ASSUME Reliable PROVE Spec => []NoStaleOk
<1>1. ReliableInv => NoStaleOk
  <2> SUFFICES ASSUME ReliableInv, \A t \in Threads : stage[t] = "idle"
               PROVE  okQ = 0 /\ rx # "off"
    BY DEF NoStaleOk
  <2>1. Cardinality(Awaiting) = 0
    BY FS_EmptySet DEF Awaiting
  <2>2. okQ \in Nat
    BY BoundAssumption DEF ReliableInv, RunInv, TypeInv, DimmerTypes
  <2> QED
    BY <2>1, <2>2 DEF ReliableInv, OkBound
<1> QED
  BY ReliableInvariant, <1>1, PTL

(***************************************************************************)
(* When no program and no stop is under way, the load is off or its stop   *)
(* frame is in the dimmer's buffer, unless a stop used up its attempts:    *)
(* frames that collide in the buffer are noticed by whoever misses an OK.  *)
(***************************************************************************)
THEOREM SettlesOff == ASSUME Reliable PROVE Spec => []SettledOff
<1>1. ReliableInv => SettledOff
  <2> SUFFICES ASSUME ReliableInv, ~gaveUp, ~Alive, \A t \in Threads : stage[t] = "idle"
               PROVE  ~WillBeOn
    BY DEF SettledOff
  <2>1. Cardinality(Awaiting) = 0
    BY FS_EmptySet DEF Awaiting
  <2>2. okQ \in Nat
    BY BoundAssumption DEF ReliableInv, RunInv, TypeInv, DimmerTypes
  <2>3. ~Noticed
    BY <2>1, <2>2 DEF Noticed
  <2>4. ~Driving
    BY DEF Alive, Driving, BeforeEnd
  <2> QED
    BY <2>3, <2>4 DEF ReliableInv, LoadInv
<1> QED
  BY ReliableInvariant, <1>1, PTL

----------------------------------------------------------------------------
(***************************************************************************)
(* The live state after the program                                        *)
(***************************************************************************)
LiveDown == ~live.running /\ live.phase = "off"
Ended == pc[Worker] \in {"dead", "result", "signal"}
LiveInv == Ended => LiveDown

LEMMA LiveStep ==
  ASSUME Reliable, ReliableInv, LiveInv, [Next]_vars
  PROVE  LiveInv'
<1> USE DEF LiveInv
<1>0. TypeInv /\ ThreadInv /\ NoStart /\ live \in LiveState /\ Worker \in Threads
  BY DEF ReliableInv, RunInv, TypeInv, ProgramTypes, Threads
<1>1. /\ Stopped(live).running = FALSE /\ Stopped(live).phase = "off"
      /\ LiveOff.running = FALSE /\ LiveOff.phase = "off"
      /\ LiveEnded.running = FALSE /\ LiveEnded.phase = "off"
  BY <1>0 DEF Stopped, LiveState, LiveOff, LiveEnded
<1>2. ASSUME Ended' => Ended, live' \in {live, Stopped(live)} PROVE LiveInv'
  BY <1>1, <1>2 DEF LiveDown, Ended
<1>3. CASE WorkerStep
  <2>1. ASSUME NEW where \in WorkerPc, WorkerGoes(where) PROVE pc'[Worker] = where
    BY <1>0, <2>1 DEF WorkerGoes, ThreadInv, ThreadTypes
  <2>2. ASSUME NEW where \in {"pause", "final"}, EnterStop(Worker, where)
        PROVE  pc'[Worker] = where
    BY <1>0, <2>2 DEF EnterStop, ThreadInv, ThreadTypes
  <2> USE DEF WorkerPc, Ended
  <2>3. CASE WorkerBegin
    BY <2>1, <2>3 DEF WorkerBegin
  <2>4. CASE WorkerSegment
    BY <2>1, <2>2, <2>4 DEF WorkerSegment, FinalStop
  <2>5. CASE WorkerSwitchOn
    BY <2>1, <2>5 DEF WorkerSwitchOn
  <2>6. CASE WorkerStarted
    BY <2>1, <2>6 DEF WorkerStarted
  <2>7. CASE WorkerSwitchOff
    BY <2>2, <2>7 DEF WorkerSwitchOff
  <2>8. CASE WorkerTick
    BY <2>8 DEF WorkerTick
  <2>9. CASE WorkerInterrupted
    BY <2>2, <2>9 DEF WorkerInterrupted, FinalStop
  <2>10. CASE WorkerElapsed
    BY <2>1, <2>2, <2>10 DEF WorkerElapsed, FinalStop
  <2>11. CASE WorkerPublish
    BY <1>1, <2>11 DEF WorkerPublish, LiveDown
  <2>12. CASE WorkerResult \/ WorkerSignal
    BY <1>2, <2>12 DEF WorkerResult, WorkerSignal
  <2> QED
    BY <1>3, <2>3, <2>4, <2>5, <2>6, <2>7, <2>8, <2>9, <2>10, <2>11, <2>12
    DEF WorkerStep
<1>4. CASE \E r \in Requests : RunProgram(r)
  <2>1. PICK r \in Requests : RunProgram(r)
    BY <1>4
  <2>2. pc'[Worker] = "begin"
    BY <1>0, <2>1, StartPlaces
  <2> QED
    BY <2>2 DEF Ended
<1>5. CASE \E r \in Requests : AbortProgram(r)
  <2>1. live' = live /\ pc'[Worker] = pc[Worker]
    BY <1>0, <1>5, ThreadAssumption
    DEF AbortProgram, RequestGoes, ThreadInv, ThreadTypes, Threads
  <2> QED
    BY <1>2, <2>1 DEF Ended
<1>6. ASSUME NEW r \in Requests, NewCall(r) \/ RequestStep(r),
             ~RunProgram(r), ~AbortProgram(r)
      PROVE  LiveInv'
  <2>1. pc'[Worker] = pc[Worker]
    BY <1>0, <1>6, OtherRequestFrame
  <2>2. ~ShakerStart(r) /\ ~ShakerStarted(r)
    BY <1>0 DEF ShakerStart, Calls, ShakerStarted, Reliable, NoStart
  <2>3. live' \in {live, Stopped(live)}
    BY <1>6, <2>2 DEF NewCall, RequestStep, RunRejected, CompleteProgram, ShakerStop,
      EnsureStopped, AbortStop, AbortLive
  <2> QED
    BY <1>2, <2>1, <2>3 DEF Ended
<1>7. ASSUME NEW t \in Threads, StopStep(t) PROVE LiveInv'
  <2>1. live' \in {live, Stopped(live)}
    BY <1>0, <1>7, StopStepFrame
  <2>2. Ended' => Ended
    BY <1>0, <1>7, StopStepWorker DEF Ended
  <2> QED
    BY <1>2, <2>1, <2>2
<1>8. ~Restart
  BY DEF Restart, Reliable
<1>9. CASE Elsewhere
  BY <1>2, <1>9, ElsewhereFrame DEF Ended
<1> QED
  BY <1>3, <1>4, <1>5, <1>6, <1>7, <1>8, <1>9, Steps

(***************************************************************************)
(* The live state never shows a program as running whose thread has ended, *)
(* although aborts and stops of any number of requests write it without a  *)
(* lock while the thread publishes its end.                                *)
(***************************************************************************)
THEOREM LiveEnds == ASSUME Reliable PROVE Spec => []LiveEndsWithWorker
<1>1. Init => ReliableInv /\ LiveInv
  <2>1. Init => ReliableInv
    BY ReliableInit
  <2>2. Init => LiveInv
    BY DEF Init, LiveInv, LiveDown, LiveOff
  <2> QED
    BY <2>1, <2>2
<1>2. (ReliableInv /\ LiveInv) /\ [Next]_vars => (ReliableInv /\ LiveInv)'
  BY ReliableStep, LiveStep
<1>3. ReliableInv /\ LiveInv => LiveEndsWithWorker
  BY DEF LiveInv, LiveDown, Ended, LiveEndsWithWorker, Alive
<1> QED
  BY <1>1, <1>2, <1>3, PTL DEF Spec
=============================================================================
