---------------------------- MODULE PageServer ----------------------------
(***************************************************************************)
(* What the kiosk's page meets when it sends a request: the program that   *)
(* shaker_run_service runs, the load, the checkpoint file, the saved       *)
(* reports, and the requests under way.  A request is sent, lands at the   *)
(* server or fails there, and its answer comes back; answers may overtake  *)
(* each other.  ShakerRun, PowerRecovery and ReportStore have the details  *)
(* of what a request does there.                                           *)
(*                                                                         *)
(* Abstractions.  A run is a number: the tests first, then the             *)
(* validations.  A report is its run, whether it says Aborted, and whether *)
(* it is still pending.  A failing request is one the server refuses       *)
(* before it has changed anything.                                         *)
(***************************************************************************)
EXTENDS Naturals, Sequences, FiniteSets, SequencesExt

CONSTANTS
  MaxTests,       \* recipes loaded on the test page
  MaxValidations, \* validations opened
  MaxReports,     \* reports saved
  MaxFails,       \* requests refused
  Prompt          \* requests land in the order of sending, and a program's
                  \* thread begins before the next one lands

ASSUME ServerAssumption ==
  /\ MaxTests \in Nat /\ MaxValidations \in Nat /\ MaxReports \in Nat
  /\ MaxFails \in Nat /\ Prompt \in BOOLEAN

Tests == 1 .. MaxTests
Validations == MaxTests + 1 .. MaxTests + MaxValidations
Runs == Tests \cup Validations
None == 0

VARIABLES
  prog,    \* the test whose program thread is alive
  begun,   \* the thread has reset the live state
  ended,   \* programDone of the live state
  load,    \* the run for which the load is switched on
  ckpt,    \* the run that the checkpoint file describes
  reports, \* reports.json, in the order of saving
  calls,   \* requests under way, in the order of sending
  user,    \* currentUser of the page: someone is logged in
  \* history
  fails,   \* requests refused
  started, \* runs that the server has started
  told,    \* tests whose program the page has been told to end
  unsaved  \* runs whose report the server has refused

server == <<prog, begun, ended, load, ckpt, reports, fails, started, told, unsaved>>

Report == [of : Runs \cup {None}, aborted : BOOLEAN, pending : BOOLEAN]

Ops == {"run", "live", "complete", "abort", "start", "stop", "ensure",
        "put", "delete", "report", "preview"}
\* Which code waits for the answer.
Callers == {"start", "tick", "complete", "stop", "leave", "submit", "val",
            "bye", "byeTest", "idle", "open", "again", "none"}

Call == [op : Ops, of : Nat, by : Callers, aborted : BOOLEAN,
         at : {"sent", "ok", "failed"}, signed : BOOLEAN, sees : BOOLEAN]

ServerTypes ==
  /\ prog \in Tests \cup {None} /\ begun \in BOOLEAN /\ ended \in BOOLEAN
  /\ load \in Runs \cup {None} /\ ckpt \in Runs \cup {None}
  /\ reports \in Seq(Report) /\ calls \in Seq(Call) /\ user \in BOOLEAN
  /\ fails \in 0 .. MaxFails
  /\ started \subseteq Runs /\ told \subseteq Tests /\ unsaved \subseteq Runs

ServerInit ==
  /\ prog = None /\ begun = FALSE /\ ended = FALSE /\ load = None /\ ckpt = None
  /\ reports = <<>> /\ calls = <<>> /\ user = FALSE
  /\ fails = 0 /\ started = {} /\ told = {} /\ unsaved = {}

----------------------------------------------------------------------------
(***************************************************************************)
(* Sending.  Every request but ensure-stopped needs a session.             *)
(***************************************************************************)
Request(op, of, by) ==
  [op |-> op, of |-> of, by |-> by, aborted |-> FALSE, at |-> "sent",
   signed |-> user \/ op = "ensure", sees |-> FALSE]

PostReport(of, by, aborted) ==
  [Request("report", of, by) EXCEPT !.aborted = aborted]

\* Answers that nobody waits for.
Silent(c) == c.by = "none"

\* Some call of this kind is under way.
Underway(op, by) == \E i \in DOMAIN calls : calls[i].op = op /\ calls[i].by = by

----------------------------------------------------------------------------
(***************************************************************************)
(* Landing.                                                                *)
(***************************************************************************)
LandsRun(c) ==
  /\ c.op = "run"
  /\ prog = None
  /\ prog' = c.of /\ begun' = FALSE
  /\ started' = started \cup {c.of}
  /\ UNCHANGED <<ended, load, ckpt, reports, told>>

LandsAbort(c) ==
  /\ c.op = "abort"
  /\ load' = None
  /\ told' = told \cup ({prog} \ {None})
  /\ UNCHANGED <<prog, begun, ended, ckpt, reports, started>>

LandsComplete(c) ==
  /\ c.op = "complete"
  /\ told' = told \cup ({prog} \ {None})
  /\ UNCHANGED <<prog, begun, ended, load, ckpt, reports, started>>

LandsStart(c) ==
  /\ c.op = "start"
  /\ load' = c.of
  /\ started' = started \cup {c.of}
  /\ UNCHANGED <<prog, begun, ended, ckpt, reports, told>>

LandsStopNot(c) == \* mutant: ensure-stopped only asks the dimmer for its status
  /\ c.op \in {"stop", "ensure"}
  /\ load' = IF c.op = "stop" THEN None ELSE load
  /\ UNCHANGED <<prog, begun, ended, ckpt, reports, started, told>>

LandsStop(c) ==
  /\ c.op \in {"stop", "ensure"}
  /\ load' = None
  /\ UNCHANGED <<prog, begun, ended, ckpt, reports, started, told>>

LandsCheckpoint(c) ==
  /\ c.op \in {"put", "delete"}
  /\ ckpt' = IF c.op = "put" THEN c.of ELSE None
  /\ UNCHANGED <<prog, begun, ended, load, reports, started, told>>

LandsReport(c) ==
  /\ c.op = "report"
  /\ Len(reports) < MaxReports
  /\ reports' = Append(reports, [of |-> c.of, aborted |-> c.aborted, pending |-> TRUE])
  /\ UNCHANGED <<prog, begun, ended, load, ckpt, started, told>>

LandsRead(c) ==
  /\ c.op \in {"live", "preview"}
  /\ UNCHANGED <<prog, begun, ended, load, ckpt, reports, started, told>>

\* The answer to a report request carries the number of the report, the
\* answer to a live request whether a program has ended, and the answer to a
\* preview whether the report is pending.
Answered(c) ==
  [c EXCEPT !.at = "ok",
            !.of = IF c.op = "report" THEN Len(reports) + 1 ELSE c.of,
            !.sees = \/ c.op = "live" /\ ended
                     \/ c.op = "preview" /\ reports[c.of].pending]

InTurn(i) ==
  /\ prog = None \/ begun
  /\ \A j \in 1 .. i - 1 : calls[j].at # "sent"

Lands(i) ==
  LET c == calls[i] IN
  /\ c.at = "sent" /\ c.signed
  /\ Prompt => InTurn(i)
  /\ \/ LandsRun(c) \/ LandsAbort(c) \/ LandsComplete(c) \/ LandsStart(c)
     \/ LandsStop(c) \/ LandsCheckpoint(c) \/ LandsReport(c) \/ LandsRead(c)
  /\ calls' = IF Silent(c) THEN RemoveAt(calls, i)
              ELSE [calls EXCEPT ![i] = Answered(c)]
  /\ UNCHANGED <<user, fails, unsaved>>

\* start_program refuses while a thread is alive, every handler a request
\* without a session; any other request may fail.
Refuses(i) ==
  LET c == calls[i] IN
  /\ c.at = "sent" /\ c.op # "put"
  /\ Prompt => InTurn(i)
  /\ IF ~c.signed \/ (c.op = "run" /\ prog # None) THEN fails' = fails
     ELSE fails < MaxFails /\ fails' = fails + 1
  /\ unsaved' = IF c.op = "report" THEN unsaved \cup ({c.of} \ {None}) ELSE unsaved
  /\ calls' = IF Silent(c) THEN RemoveAt(calls, i)
              ELSE [calls EXCEPT ![i].at = "failed"]
  /\ UNCHANGED <<prog, begun, ended, load, ckpt, reports, user, started, told>>

----------------------------------------------------------------------------
(***************************************************************************)
(* The program thread resets the live state and switches the load on, also *)
(* when it has been told to end; a segment of a logical program switches   *)
(* it on again; the thread ends on its own or because it was told to.      *)
(***************************************************************************)
ProgramBegins ==
  /\ prog # None /\ ~begun
  /\ begun' = TRUE /\ ended' = FALSE /\ load' = prog
  /\ UNCHANGED <<prog, ckpt, reports, calls, user, fails, started, told, unsaved>>

NextSegment ==
  /\ begun /\ prog \notin told \cup {None}
  /\ load' = prog
  /\ UNCHANGED <<prog, begun, ended, ckpt, reports, calls, user, fails, started, told, unsaved>>

ProgramEnds ==
  /\ prog # None /\ begun
  /\ prog' = None /\ begun' = FALSE /\ load' = None /\ ended' = TRUE
  /\ UNCHANGED <<ckpt, reports, calls, user, fails, started, told, unsaved>>

\* A report is approved from another screen.
ClosedElsewhere ==
  /\ \E i \in DOMAIN reports :
       /\ reports[i].pending
       /\ reports' = [reports EXCEPT ![i].pending = FALSE]
  /\ UNCHANGED <<prog, begun, ended, load, ckpt, calls, user, fails, started, told, unsaved>>
===========================================================================
