----------------------------- MODULE ShakerRun -----------------------------
(***************************************************************************)
(* The program runner of the kiosk: shaker_run_service.py, the shaker part *)
(* of hardware_service.py, the /api/hardware/shaker routes of app.py, and  *)
(* the receive buffer and main loop of the dimmer's firmware.              *)
(*                                                                         *)
(* Flask serves every request in a thread of its own, so the members of    *)
(* Requests are threads that serve one call each and end.  The program     *)
(* itself runs in a single daemon thread, Worker.  They share the stop,    *)
(* abort and complete events, the live state, the result, the serial port  *)
(* and the queue of lines received from the dimmer.                        *)
(*                                                                         *)
(* Abstractions.  A frame is "on" (#NNC, #NNI with NN > 0) or "off"        *)
(* (#00C, #00I): the firmware switches the load off for either mode letter,*)
(* so the letter is left out.  Time is left out: a segment may end at any  *)
(* moment, a wait for OK may expire at any moment (when TimelyReply is     *)
(* FALSE) or only when no answer is under way (when it is TRUE).           *)
(***************************************************************************)
EXTENDS Naturals, Sequences, FiniteSets

CONSTANTS
  Requests,      \* threads that serve one HTTP call each
  Worker,        \* the daemon thread that runs a program
  Api,           \* the calls the clients make, a subset of AllCalls
  Programs,      \* the validated programs clients may submit
  StopAttempts,  \* frames one cmd_shaker_stop writes at most (10 * MAX_RETRIES)
  QueueCap,      \* capacity of line_q
  PortStates,    \* states the serial port may be in
  TimelyReply,   \* whether the dimmer always answers within the wait for OK
  Restarts       \* whether the process may be killed and started again

AllCalls == {"run", "complete", "abort", "start", "stop", "ensure"}

(***************************************************************************)
(* What calculation_service.validate_recipe lets through: one run segment  *)
(* for the CONTINUOUS and INTERMITTENT modes, run and wait segments for    *)
(* LOGICAL.                                                                *)
(***************************************************************************)
Program == [mode : {"CONTINUOUS", "INTERMITTENT", "LOGICAL"},
            segs : Seq({"run", "wait"})]

ASSUME ThreadAssumption == Worker \notin Requests
ASSUME ApiAssumption == Api \subseteq AllCalls
ASSUME ProgramAssumption ==
  /\ Programs \subseteq Program
  /\ \A p \in Programs : Len(p.segs) > 0
  /\ \A p \in Programs : p.mode # "LOGICAL" => p.segs = <<"run">>
ASSUME BoundAssumption == StopAttempts \in Nat \ {0} /\ QueueCap \in Nat \ {0}
ASSUME SwitchAssumption ==
  /\ PortStates \subseteq {"open", "absent", "failed"}
  /\ TimelyReply \in BOOLEAN /\ Restarts \in BOOLEAN

Threads == Requests \cup {Worker}

VARIABLES
  pc,        \* where each thread is
  stage,     \* inside cmd_shaker_stop: about to "write" or to "await" OK
  left,      \* frames a thread inside cmd_shaker_stop may still write
  acked,     \* whether the thread's last cmd_shaker_stop returned ok
  prog,      \* the program of the current (or last) worker
  seg,       \* index of the segment the worker is in
  interrupted, \* what _sleep_until returned last
  stop, abort, complete, \* the three events
  result,    \* _run_result
  live,      \* _live_state
  port,      \* the serial port: "open", "absent" or "failed"
  rx,        \* frame in the dimmer's receive buffer: "none", "on" or "off"
  motor,     \* whether the dimmer drives the load
  okQ,       \* OK lines in line_q
  runs,      \* history: number of programs started by this process
  done,      \* history: segments of the current program that ran to their end
  abortAsked, \* history: programs abort was called for before their result
  gaveUp     \* history: some cmd_shaker_stop returned without an OK

threadVars == <<pc, stage, left, acked>>
workVars   == <<prog, seg, interrupted, done>>
eventVars  == <<stop, abort, complete>>
mcuVars    == <<rx, motor, okQ>>
histVars   == <<runs, abortAsked>>
vars == <<threadVars, workVars, eventVars, result, live, port, mcuVars, histVars,
          gaveUp>>

----------------------------------------------------------------------------
(***************************************************************************)
(* Types                                                                   *)
(***************************************************************************)
\* "dead" is a worker that has not been started or has returned; a worker
\* between "begin" and "signal" is alive.
WorkerPc == {"dead", "begin", "segment", "switch", "started", "waiting",
             "pause", "final", "publish", "result", "signal"}

\* "new" is a call not made yet.
RequestPc == {"new", "abort.stop", "abort.send", "abort.live", "sent",
              "stopping", "ensure.C", "ensure.I", "done"}

\* Where a thread is inside cmd_shaker_stop.
StopPcs == {"pause", "final", "abort.send", "stopping", "ensure.C", "ensure.I"}

Result == [run : Nat, aborted : BOOLEAN, completedEarly : BOOLEAN]
NoResult == [run |-> 0, aborted |-> FALSE, completedEarly |-> FALSE]

LiveState == [running : BOOLEAN, phase : {"off", "run", "wait"},
              programDone : BOOLEAN, completedEarly : BOOLEAN]
LiveOff == [running |-> FALSE, phase |-> "off",
            programDone |-> FALSE, completedEarly |-> FALSE]

Stopped(l) == [l EXCEPT !.running = FALSE, !.phase = "off"]
Running(l) == [l EXCEPT !.running = TRUE, !.phase = "run"]

Alive == pc[Worker] # "dead"

----------------------------------------------------------------------------
(***************************************************************************)
(* cmd_shaker_stop, by any thread                                          *)
(***************************************************************************)
EnterStop(t, where) ==
  /\ pc' = [pc EXCEPT ![t] = where]
  /\ stage' = [stage EXCEPT ![t] = "write"]
  /\ left' = [left EXCEPT ![t] = StopAttempts]
  /\ acked' = [acked EXCEPT ![t] = FALSE]

\* Where a thread goes on when cmd_shaker_stop returns.
AfterStop(where) ==
  IF where = "pause" THEN "waiting"
  ELSE IF where = "final" THEN "publish"
  ELSE IF where = "abort.send" THEN "abort.live"
  ELSE IF where = "ensure.C" THEN "ensure.I"
  ELSE "done"

(***************************************************************************)
(* cmd_shaker_stop returns, acknowledged or not, and marks the live state  *)
(* stopped in both cases.  ensure_shaker_stopped calls it a second time.   *)
(***************************************************************************)
StopReturns(t, ok) ==
  LET again == pc[t] = "ensure.C" IN
  /\ pc' = [pc EXCEPT ![t] = AfterStop(@)]
  /\ stage' = [stage EXCEPT ![t] = IF again THEN "write" ELSE "idle"]
  /\ left' = [left EXCEPT ![t] = IF again THEN StopAttempts ELSE 0]
  /\ acked' = [acked EXCEPT ![t] = @ \/ ok]
  /\ live' = Stopped(live)
  /\ gaveUp' = (gaveUp \/ ~ok)

\* An attempt failed: the next one writes the frame again, the last one
\* returns what it got.
AttemptFails(t) ==
  IF left[t] > 1
  THEN /\ stage' = [stage EXCEPT ![t] = "write"]
       /\ left' = [left EXCEPT ![t] = @ - 1]
       /\ UNCHANGED <<pc, acked, live, gaveUp>>
  ELSE StopReturns(t, FALSE)

(***************************************************************************)
(* The receive interrupt of the dimmer stores a frame over the one the main*)
(* loop has not taken yet.  The main loop waits 50 ms before it copies the *)
(* buffer, so the new frame may have replaced the old one wholly, not at   *)
(* all, or only its first characters: digits of both then form the count.  *)
(* Two stop frames mix into a stop frame.                                  *)
(***************************************************************************)
Received(old, new) ==
  IF old = "none" \/ (old = "off" /\ new = "off") THEN {new} ELSE {"on", "off"}

StopWrite(t) ==
  /\ stage[t] = "write"
  /\ port = "open"
  /\ \E frame \in Received(rx, "off") : rx' = frame
  /\ stage' = [stage EXCEPT ![t] = "await"]
  /\ UNCHANGED <<pc, left, acked, workVars, eventVars, result, live, port,
                 motor, okQ, histVars, gaveUp>>

\* The port is open but writing to it raises.
StopWriteRaises(t) ==
  /\ stage[t] = "write"
  /\ port = "failed"
  /\ AttemptFails(t)
  /\ UNCHANGED <<workVars, eventVars, result, port, mcuVars, histVars>>

\* No port can be opened: a stop is answered with the placeholder OK.
StopPlaceholder(t) ==
  /\ stage[t] = "write"
  /\ port = "absent"
  /\ StopReturns(t, TRUE)
  /\ UNCHANGED <<workVars, eventVars, result, port, mcuVars, histVars>>

\* Any OK in the shared queue ends the wait, whoever it was meant for.
StopAck(t) ==
  /\ stage[t] = "await"
  /\ okQ > 0
  /\ okQ' = okQ - 1
  /\ StopReturns(t, TRUE)
  /\ UNCHANGED <<workVars, eventVars, result, port, rx, motor, histVars>>

StopTimeout(t) ==
  /\ stage[t] = "await"
  /\ okQ = 0
  /\ TimelyReply => rx = "none" \/ port # "open"
  /\ AttemptFails(t)
  /\ UNCHANGED <<workVars, eventVars, result, port, mcuVars, histVars>>

StopStep(t) ==
  \/ StopWrite(t) \/ StopWriteRaises(t) \/ StopPlaceholder(t)
  \/ StopAck(t) \/ StopTimeout(t)

----------------------------------------------------------------------------
(***************************************************************************)
(* The worker: _run_worker, _run_continuous (INTERMITTENT runs it too) and *)
(* _run_logical                                                            *)
(***************************************************************************)
WorkerGoes(where) ==
  /\ pc' = [pc EXCEPT ![Worker] = where]
  /\ UNCHANGED <<stage, left, acked>>

Logical == prog.mode = "LOGICAL"

\* What the tick of _sleep_until publishes for the current segment.
Published ==
  [live EXCEPT !.running = prog.segs[seg] = "run",
               !.phase = prog.segs[seg],
               !.programDone = FALSE, !.completedEarly = FALSE]

\* What _sleep_until and the loop head look at.
OnlyAbort == abort              \* mutant: the stop event is not looked at
Interrupted == stop \/ abort

\* _ensure_off after the last segment.
LeaveStopToAbort ==             \* mutant: the abort call sends the stop frame
  IF abort THEN WorkerGoes("publish") ELSE EnterStop(Worker, "final")
FinalStop == EnterStop(Worker, "final")

WorkerBegin ==
  /\ pc[Worker] = "begin"
  /\ live' = LiveOff
  /\ seg' = 1
  /\ WorkerGoes(IF Logical THEN "segment" ELSE "switch")
  /\ UNCHANGED <<prog, interrupted, done, eventVars, result, port, mcuVars, histVars, gaveUp>>

\* The head of the loop of _run_logical.
WorkerSegment ==
  /\ pc[Worker] = "segment"
  /\ IF Interrupted \/ seg > Len(prog.segs)
     THEN FinalStop
     ELSE WorkerGoes("switch")
  /\ UNCHANGED <<workVars, eventVars, result, live, port, mcuVars, histVars, gaveUp>>

\* The frame is written, nobody answers it; without a port the error that
\* cmd_shaker_start returns is ignored and the segment goes on.  A timely dimmer
\* has taken the frame of the previous run segment.
WorkerSwitchOn ==
  /\ pc[Worker] = "switch"
  /\ TimelyReply => rx # "on"
  /\ prog.segs[seg] = "run"
  /\ IF port = "open"
     THEN /\ \E frame \in Received(rx, "on") : rx' = frame
          /\ WorkerGoes("started")
     ELSE WorkerGoes("waiting") /\ UNCHANGED rx
  /\ UNCHANGED <<workVars, eventVars, result, live, port, motor, okQ, histVars, gaveUp>>

WorkerStarted ==
  /\ pc[Worker] = "started"
  /\ live' = Running(live)
  /\ WorkerGoes("waiting")
  /\ UNCHANGED <<workVars, eventVars, result, port, mcuVars, histVars, gaveUp>>

WorkerSwitchOff ==
  /\ pc[Worker] = "switch"
  /\ prog.segs[seg] = "wait"
  /\ EnterStop(Worker, "pause")
  /\ UNCHANGED <<workVars, eventVars, result, live, port, mcuVars, histVars, gaveUp>>

WorkerTick ==
  /\ pc[Worker] = "waiting"
  /\ live' = Published
  /\ UNCHANGED <<threadVars, workVars, eventVars, result, port, mcuVars, histVars, gaveUp>>

WorkerInterrupted ==
  /\ pc[Worker] = "waiting"
  /\ Interrupted
  /\ interrupted' = TRUE
  /\ FinalStop
  /\ UNCHANGED <<prog, seg, done, eventVars, result, live, port, mcuVars, histVars, gaveUp>>

(***************************************************************************)
(* The deadline passes: a last tick, and the events are read once more.  A *)
(* segment lasts a second at least, so a timely dimmer has taken the frame *)
(* that began it.                                                          *)
(***************************************************************************)
WorkerElapsed ==
  /\ pc[Worker] = "waiting"
  /\ TimelyReply => rx = "none" \/ port # "open"
  /\ live' = Published
  /\ done' = done + 1
  /\ interrupted' = Interrupted
  /\ IF Logical /\ ~interrupted'
     THEN seg' = seg + 1 /\ WorkerGoes("segment")
     ELSE UNCHANGED seg /\ FinalStop
  /\ UNCHANGED <<prog, eventVars, result, port, mcuVars, histVars, gaveUp>>

\* The final _update_progress.
LogicalMayEndEarly ==           \* mutant: a single segment never ends early
  ~abort /\ Logical /\ (stop \/ done < Len(prog.segs))
CompletedEarly ==
  /\ ~abort
  /\ IF Logical THEN stop \/ done < Len(prog.segs) ELSE interrupted

LiveStillRunning ==             \* mutant: running keeps its default, True
  [running |-> TRUE, phase |-> "off", programDone |-> TRUE,
   completedEarly |-> CompletedEarly]
LiveEnded ==
  [running |-> FALSE, phase |-> "off", programDone |-> TRUE,
   completedEarly |-> CompletedEarly]

WorkerPublish ==
  /\ pc[Worker] = "publish"
  /\ live' = LiveEnded
  /\ WorkerGoes("result")
  /\ UNCHANGED <<workVars, eventVars, result, port, mcuVars, histVars, gaveUp>>

EarlyWins ==                    \* mutant: an early end hides the abort
  [run |-> runs, aborted |-> abort /\ ~live.completedEarly,
   completedEarly |-> live.completedEarly]
Outcome ==
  [run |-> runs, aborted |-> abort, completedEarly |-> live.completedEarly]

WorkerResult ==
  /\ pc[Worker] = "result"
  /\ result' = Outcome
  /\ WorkerGoes("signal")
  /\ UNCHANGED <<workVars, eventVars, live, port, mcuVars, histVars, gaveUp>>

WorkerSignal ==
  /\ pc[Worker] = "signal"
  /\ complete' = TRUE
  /\ WorkerGoes("dead")
  /\ UNCHANGED <<workVars, stop, abort, result, live, port, mcuVars, histVars, gaveUp>>

WorkerStep ==
  \/ WorkerBegin \/ WorkerSegment \/ WorkerSwitchOn \/ WorkerStarted
  \/ WorkerSwitchOff \/ WorkerTick \/ WorkerInterrupted \/ WorkerElapsed
  \/ WorkerPublish \/ WorkerResult \/ WorkerSignal

----------------------------------------------------------------------------
(***************************************************************************)
(* The requests                                                            *)
(***************************************************************************)
Calls(r, call) == pc[r] = "new" /\ call \in Api

RequestGoes(r, where) ==
  /\ pc' = [pc EXCEPT ![r] = where]
  /\ UNCHANGED <<stage, left, acked>>

MayAlwaysStart == TRUE          \* mutant: is_alive is not looked at
MayStart == ~Alive

KeepResult == UNCHANGED <<complete, result>>  \* mutant: nothing is reset
ForgetResult == complete' = FALSE /\ result' = NoResult

\* start_program, under its lock, with no live worker.
RunProgram(r) ==
  /\ Calls(r, "run")
  /\ MayStart
  /\ stop' = FALSE /\ abort' = FALSE
  /\ ForgetResult
  /\ \E p \in Programs : prog' = p
  /\ runs' = runs + 1
  /\ done' = 0 /\ interrupted' = FALSE /\ seg' = 1
  /\ pc' = [pc EXCEPT ![Worker] = "begin", ![r] = "done"]
  /\ UNCHANGED <<stage, left, acked, live, port, mcuVars, abortAsked, gaveUp>>

\* program_already_running
RunRejected(r) ==
  /\ Calls(r, "run")
  /\ ~MayStart
  /\ RequestGoes(r, "done")
  /\ UNCHANGED <<workVars, eventVars, result, live, port, mcuVars, histVars, gaveUp>>

CompleteProgram(r) ==
  /\ Calls(r, "complete")
  /\ stop' = TRUE
  /\ RequestGoes(r, "done")
  /\ UNCHANGED <<workVars, abort, complete, result, live, port, mcuVars, histVars, gaveUp>>

\* abort_program sets one event, then the other, then sends the stop frame.
AbortProgram(r) ==
  /\ Calls(r, "abort")
  /\ abort' = TRUE
  /\ abortAsked' = IF Alive /\ pc[Worker] # "signal" THEN abortAsked \cup {runs}
                   ELSE abortAsked
  /\ RequestGoes(r, "abort.stop")
  /\ UNCHANGED <<workVars, stop, complete, result, live, port, mcuVars, runs, gaveUp>>

AbortStop(r) ==
  /\ pc[r] = "abort.stop"
  /\ stop' = TRUE
  /\ EnterStop(r, "abort.send")
  /\ UNCHANGED <<workVars, abort, complete, result, live, port, mcuVars, histVars, gaveUp>>

AbortLive(r) ==
  /\ pc[r] = "abort.live"
  /\ live' = Stopped(live)
  /\ RequestGoes(r, "done")
  /\ UNCHANGED <<workVars, eventVars, result, port, mcuVars, histVars, gaveUp>>

\* /api/hardware/shaker/start, which the validation test uses: no lock, no
\* look at the worker.
ShakerStart(r) ==
  /\ Calls(r, "start")
  /\ IF port = "open"
     THEN /\ \E frame \in Received(rx, "on") : rx' = frame
          /\ RequestGoes(r, "sent")
     ELSE RequestGoes(r, "done") /\ UNCHANGED rx
  /\ UNCHANGED <<workVars, eventVars, result, live, port, motor, okQ, histVars, gaveUp>>

ShakerStarted(r) ==
  /\ pc[r] = "sent"
  /\ live' = Running(live)
  /\ RequestGoes(r, "done")
  /\ UNCHANGED <<workVars, eventVars, result, port, mcuVars, histVars, gaveUp>>

ShakerStop(r) ==
  /\ Calls(r, "stop")
  /\ EnterStop(r, "stopping")
  /\ UNCHANGED <<workVars, eventVars, result, live, port, mcuVars, histVars, gaveUp>>

\* /api/hardware/shaker/ensure-stopped, and login and logout.
EnsureStopped(r) ==
  /\ Calls(r, "ensure")
  /\ EnterStop(r, "ensure.C")
  /\ UNCHANGED <<workVars, eventVars, result, live, port, mcuVars, histVars, gaveUp>>

NewCall(r) ==
  \/ RunProgram(r) \/ RunRejected(r) \/ CompleteProgram(r) \/ AbortProgram(r)
  \/ ShakerStart(r) \/ ShakerStop(r) \/ EnsureStopped(r)

RequestStep(r) == AbortStop(r) \/ AbortLive(r) \/ ShakerStarted(r)

----------------------------------------------------------------------------
(***************************************************************************)
(* The dimmer, the port and the process                                    *)
(***************************************************************************)
AnswersEverything(frame) == TRUE \* mutant: start frames are answered too
Answers(frame) == frame = "off"

AlwaysRoom == TRUE              \* mutant: line_q has no capacity
QueueHasRoom == okQ < QueueCap

\* The main loop takes the frame.  Only a stop frame is answered; the reader
\* thread puts the OK in line_q, and drops it when the queue is full.
DimmerLoop ==
  /\ rx # "none"
  /\ motor' = rx
  /\ rx' = "none"
  /\ okQ' = IF Answers(rx) /\ port = "open" /\ QueueHasRoom THEN okQ + 1 ELSE okQ
  /\ UNCHANGED <<threadVars, workVars, eventVars, result, live, port, histVars, gaveUp>>

\* The device shows up and the next _open_esp_serial opens it.
PortOpens ==
  /\ port = "absent"
  /\ "open" \in PortStates
  /\ port' = "open"
  /\ UNCHANGED <<threadVars, workVars, eventVars, result, live, mcuVars, histVars, gaveUp>>

\* Writing and reading raise from now on; is_open stays true, so nothing opens
\* the port again.
PortFails ==
  /\ port = "open"
  /\ "failed" \in PortStates
  /\ port' = "failed"
  /\ UNCHANGED <<threadVars, workVars, eventVars, result, live, mcuVars, histVars, gaveUp>>

InitialPorts == PortStates \ {"failed"}

\* The process is killed and started again: every thread and every module
\* variable is lost, the dimmer keeps its frame and its load.
Restart ==
  /\ Restarts
  /\ pc' = [t \in Threads |-> IF t = Worker THEN "dead"
                              ELSE IF pc[t] = "new" THEN "new" ELSE "done"]
  /\ stage' = [t \in Threads |-> "idle"]
  /\ left' = [t \in Threads |-> 0]
  /\ acked' = [t \in Threads |-> FALSE]
  /\ stop' = FALSE /\ abort' = FALSE /\ complete' = FALSE
  /\ result' = NoResult
  /\ live' = LiveOff
  /\ \E p \in InitialPorts : port' = p
  /\ okQ' = 0
  /\ UNCHANGED <<workVars, rx, motor, histVars, gaveUp>>

----------------------------------------------------------------------------
Init ==
  /\ pc = [t \in Threads |-> IF t = Worker THEN "dead" ELSE "new"]
  /\ stage = [t \in Threads |-> "idle"]
  /\ left = [t \in Threads |-> 0]
  /\ acked = [t \in Threads |-> FALSE]
  /\ prog = [mode |-> "CONTINUOUS", segs |-> <<"run">>]
  /\ seg = 1 /\ done = 0 /\ interrupted = FALSE
  /\ stop = FALSE /\ abort = FALSE /\ complete = FALSE
  /\ result = NoResult
  /\ live = LiveOff
  /\ port \in InitialPorts
  /\ rx = "none" /\ motor = "off" /\ okQ = 0
  /\ runs = 0 /\ abortAsked = {} /\ gaveUp = FALSE

\* Every call has been served and nothing moves any more.
Quiet ==
  /\ \A r \in Requests : pc[r] = "done"
  /\ ~Alive /\ rx = "none"

Terminated == Quiet /\ UNCHANGED vars

Next ==
  \/ WorkerStep
  \/ \E r \in Requests : NewCall(r) \/ RequestStep(r)
  \/ \E t \in Threads : StopStep(t)
  \/ DimmerLoop \/ PortOpens \/ PortFails \/ Restart
  \/ Terminated

Spec == Init /\ [][Next]_vars

(***************************************************************************)
(* Fairness.  Threads are scheduled, the dimmer's loop runs, and a wait    *)
(* for OK has a deadline.  Clients need not call anything, and a segment   *)
(* may last as long as it likes: WorkerElapsed and WorkerTick are not fair.*)
(***************************************************************************)
WorkerProgress ==
  \/ WorkerBegin \/ WorkerSegment \/ WorkerSwitchOn \/ WorkerStarted
  \/ WorkerSwitchOff \/ WorkerInterrupted
  \/ WorkerPublish \/ WorkerResult \/ WorkerSignal

Fairness ==
  /\ WF_vars(WorkerProgress)
  /\ \A r \in Requests : WF_vars(RequestStep(r))
  /\ \A t \in Threads : WF_vars(StopStep(t))
  /\ WF_vars(DimmerLoop)

FairSpec == Spec /\ Fairness

----------------------------------------------------------------------------
ThreadTypes ==
  /\ pc \in [Threads -> WorkerPc \cup RequestPc]
  /\ pc[Worker] \in WorkerPc
  /\ \A r \in Requests : pc[r] \in RequestPc
  /\ stage \in [Threads -> {"idle", "write", "await"}]
  /\ left \in [Threads -> 0..StopAttempts]
  /\ acked \in [Threads -> BOOLEAN]

ProgramTypes ==
  /\ prog \in Program
  /\ seg \in Nat /\ done \in Nat /\ interrupted \in BOOLEAN
  /\ stop \in BOOLEAN /\ abort \in BOOLEAN /\ complete \in BOOLEAN
  /\ result \in Result
  /\ live \in LiveState
  /\ runs \in Nat /\ abortAsked \subseteq Nat /\ gaveUp \in BOOLEAN

DimmerTypes ==
  /\ port \in {"open", "absent", "failed"}
  /\ rx \in {"none", "on", "off"} /\ motor \in {"on", "off"}
  /\ okQ \in 0..QueueCap

TypeOK == ThreadTypes /\ ProgramTypes /\ DimmerTypes

(***************************************************************************)
(* get_program_status hands out a result only when the complete event is   *)
(* set; that result is the one of the program started last, never of an    *)
(* earlier one.                                                            *)
(***************************************************************************)
StatusResultIsCurrent == complete /\ result # NoResult => result.run = runs

(***************************************************************************)
(* Once abort_program has been called while a program runs, that program's *)
(* result says aborted, however the call, the worker and another           *)
(* start_program interleave.                                               *)
(***************************************************************************)
AbortIsReported == result.run \in abortAsked => result.aborted

(***************************************************************************)
(* A result that is neither aborted nor completed early is the result of a *)
(* program every segment of which ran to its deadline.                     *)
(***************************************************************************)
FullResultRanFully ==
  result # NoResult /\ ~result.aborted /\ ~result.completedEarly
    => done = Len(prog.segs)

(***************************************************************************)
(* When no thread is inside cmd_shaker_stop, line_q holds no OK and the    *)
(* dimmer is not about to send one: the OK a later stop reads is its own.  *)
(* True of a timely dimmer on a working port.                              *)
(***************************************************************************)
NoStaleOk ==
  (\A t \in Threads : stage[t] = "idle") => okQ = 0 /\ rx # "off"

(***************************************************************************)
(* The load is off, or about to be, whenever no program and no stop is     *)
(* under way, unless a cmd_shaker_stop used up its attempts: a frame lost  *)
(* to a collision is always missed by somebody who still waits for its OK. *)
(* True of a timely dimmer on a working port when nobody switches the load *)
(* on outside a program.                                                   *)
(***************************************************************************)
WillBeOn == rx = "on" \/ (rx = "none" /\ motor = "on")

SettledOff ==
  ~gaveUp /\ ~Alive /\ (\A t \in Threads : stage[t] = "idle") => ~WillBeOn

(***************************************************************************)
(* The live state the screens poll never shows a program as running when   *)
(* its thread has ended and no direct start was made.                      *)
(***************************************************************************)
LiveEndsWithWorker == ~Alive => ~live.running /\ live.phase = "off"

(***************************************************************************)
(* Stop and abort are obeyed: a worker whose stop event is set ends, and a *)
(* load that is on then goes off, though the segment's deadline may be     *)
(* hours away.                                                             *)
(***************************************************************************)
StopEndsProgram == stop /\ Alive ~> ~Alive
StopEndsLoad == stop /\ Alive /\ motor = "on" ~> motor = "off" \/ gaveUp

(***************************************************************************)
(* "Send #00C and #00I so any background shaker run is stopped": when      *)
(* ensure_shaker_stopped has returned, no program is still running that    *)
(* nobody told to stop.                                                    *)
(***************************************************************************)
EnsureStopsRun ==
  [][\A r \in Requests :
       pc[r] = "ensure.I" /\ pc'[r] = "done" => ~Alive' \/ stop']_vars

(***************************************************************************)
(* "Send #NNC, run until duration elapses or operator completes": the load *)
(* is on during a run segment that nobody has interrupted.                 *)
(***************************************************************************)
RunSegmentDrivesLoad ==
  pc[Worker] = "waiting" /\ prog.segs[seg] = "run" /\ ~stop /\ ~abort /\ rx = "none"
    => motor = "on"

(***************************************************************************)
(* The runner keeps its contract: what the status call shows of a program  *)
(* behaves as ProgramContract says.                                        *)
(***************************************************************************)
ContractStatus == IF Alive THEN "running" ELSE IF complete THEN "ended" ELSE "idle"

ContractOutcome ==
  IF Alive \/ ~complete THEN "none"
  ELSE IF result.aborted THEN "aborted"
  ELSE IF result.completedEarly THEN "early" ELSE "full"

Contract == INSTANCE ProgramContract WITH
  run <- runs, status <- ContractStatus, outcome <- ContractOutcome,
  aborting <- runs \in abortAsked, ranOut <- done >= Len(prog.segs)

KeepsContract == Contract!Spec
=============================================================================
