---------------------------- MODULE TestRunPage ----------------------------
(***************************************************************************)
(* The test page of shaker_ui.js: the record _sr, the weighing wizards and *)
(* the handlers of its buttons, its status poll and its answers; and the   *)
(* one modal dialog of the application, which every part of it shares.     *)
(*                                                                         *)
(* Abstractions.  Weights, times and the contents of a report are left     *)
(* out: a wizard is open or not, and a recipe is whether its sieves are    *)
(* weighed (analysis).                                                     *)
(***************************************************************************)
EXTENDS PageServer

VARIABLES
  sr,    \* _sr
  modal, \* what app-modal-overlay shows
  ask    \* appModalResolve: the question that waits for an answer

page_ == <<sr, modal, ask>>

Questions == {"none", "stop", "leaveTest", "leaveVal", "backVal", "stopVal", "logout"}
Modals == {"none", "question", "choice", "notice"}

Sr == [test : Tests \cup {None}, analysis : BOOLEAN, running : BOOLEAN,
       done : BOOLEAN, weighing : BOOLEAN, aborted : BOOLEAN, stamped : BOOLEAN,
       poll : BOOLEAN, wizard : {"none", "before", "after"}]

\* _sr before any recipe, and as initTestRunPage sets it.
Blank(t, analysis) ==
  [test |-> t, analysis |-> analysis, running |-> FALSE, done |-> FALSE,
   weighing |-> FALSE, aborted |-> FALSE, stamped |-> FALSE, poll |-> FALSE,
   wizard |-> "none"]

TestPageTypes == sr \in Sr /\ modal \in Modals /\ ask \in Questions
TestPageInit == sr = Blank(None, TRUE) /\ modal = "none" /\ ask = "none"

\* _srIsActiveTestOperation, but for its look at the validation.
Operating == sr.weighing \/ sr.wizard # "none" \/ (sr.running /\ ~sr.done)

----------------------------------------------------------------------------
(***************************************************************************)
(* The modal.  A notice or the choice takes the place of a question, which *)
(* goes on waiting: the OK of the notice then answers it with yes.         *)
(***************************************************************************)
Notice == modal' = "notice" /\ UNCHANGED ask

AsksByName(q) == modal' = q /\ ask' = q \* mutant: the modal takes the question's name

Asks(q) == modal' = "question" /\ ask' = q

NoModal == UNCHANGED <<modal, ask>>

----------------------------------------------------------------------------
(***************************************************************************)
(* Ends of a test.                                                         *)
(***************************************************************************)
SubmittedOpen(s) == [s EXCEPT !.weighing = FALSE] \* mutant: the wizard stays open

Submitted(s) == [s EXCEPT !.weighing = FALSE, !.wizard = "none"]

SubmitsLate(s, rest) == \* mutant: the checkpoint goes before the report is stored
  /\ sr' = Submitted(s)
  /\ calls' = rest \o <<Request("delete", None, "none"),
                        PostReport(s.test, "submit", s.aborted)>>

\* submitSieveWeights, after the page has become s.
Submits(s, rest) ==
  /\ sr' = Submitted(s)
  /\ calls' = Append(rest, PostReport(s.test, "submit", s.aborted))

AfterWizardShut(s) == s \* mutant: the wizard does not open

AfterWizard(s) == [s EXCEPT !.weighing = TRUE, !.wizard = "after"]

\* _startAfterWizard.
Weighs(s, rest) ==
  /\ sr' = AfterWizard(s)
  /\ calls' = Append(rest, Request("put", s.test, "none"))

Over(aborted) ==
  [sr EXCEPT !.running = FALSE, !.done = TRUE, !.aborted = aborted, !.poll = FALSE]

\* _srFinishRun, when the calls under way are rest.
FinishRun(aborted, rest) ==
  \/ /\ ~sr.analysis
     /\ Submits(Over(aborted), rest)
     /\ NoModal
  \/ /\ sr.analysis /\ ~aborted
     /\ Weighs(Over(aborted), rest)
     /\ NoModal
  \/ /\ sr.analysis /\ aborted
     /\ sr' = Over(aborted)
     /\ modal' = "choice" /\ UNCHANGED ask
     /\ calls' = rest

\* _srSavePartialReport.
SavesPartial(rest) ==
  /\ sr' = [sr EXCEPT !.aborted = TRUE, !.running = FALSE, !.done = TRUE,
                      !.poll = FALSE, !.weighing = FALSE, !.wizard = "none"]
  /\ calls' = Append(rest, PostReport(sr.test, "bye", TRUE))

AbortsNowDeaf(rest) == \* mutant: the program is not told to end
  SavesPartial(rest)

\* _trAbortRunningTestNow; the logout goes on with ensure-stopped.
AbortsNow(rest) ==
  \/ /\ sr.running
     /\ sr' = [sr EXCEPT !.aborted = TRUE]
     /\ calls' = Append(rest, Request("abort", sr.test, "bye"))
  \/ /\ ~sr.running /\ (sr.weighing \/ sr.done)
     /\ SavesPartial(rest)
  \/ /\ ~(sr.running \/ sr.weighing \/ sr.done)
     /\ calls' = Append(rest, Request("ensure", None, "bye"))
     /\ UNCHANGED sr

----------------------------------------------------------------------------
(***************************************************************************)
(* Buttons, wizards and the interval of the poll.                          *)
(***************************************************************************)
PressStart ==
  /\ ~sr.running /\ ~sr.done /\ sr.wizard = "none"
  /\ sr' = [sr EXCEPT !.weighing = TRUE, !.wizard = "before"]
  /\ calls' = Append(calls, Request("put", sr.test, "none"))
  /\ NoModal

WeighedBlind == \* mutant: the poll is not started
  /\ sr.wizard = "before"
  /\ sr' = [sr EXCEPT !.weighing = FALSE, !.wizard = "none", !.running = TRUE]
  /\ calls' = Append(calls, Request("run", sr.test, "start"))
  /\ NoModal

\* The last step of the before wizard: the poll starts before the program.
Weighed ==
  /\ sr.wizard = "before"
  /\ sr' = [sr EXCEPT !.weighing = FALSE, !.wizard = "none", !.running = TRUE,
                      !.poll = TRUE]
  /\ calls' = Append(calls, Request("run", sr.test, "start"))
  /\ NoModal

\* _srStartPoll.  A tick that finds its last requests still under way may
\* send others; one of each is enough here.
Tick ==
  /\ sr.poll /\ ~Underway("live", "tick") /\ ~Underway("put", "none")
  /\ calls' = calls \o <<Request("live", None, "tick")>>
       \o (IF sr.running /\ sr.stamped THEN <<Request("put", sr.test, "none")>> ELSE <<>>)
  /\ UNCHANGED sr /\ NoModal

PressComplete ==
  /\ sr.running
  /\ calls' = Append(calls, Request("complete", sr.test, "complete"))
  /\ UNCHANGED sr /\ NoModal

\* trStopTest on a running test; on an idle one it leaves the page.
PressStop ==
  /\ sr.running /\ ~sr.done
  /\ Asks("stop")
  /\ UNCHANGED <<sr, calls>>

\* The last step of the after wizard, or its Skip button.
SaveWeights ==
  /\ sr.wizard = "after"
  /\ Submits(sr, calls)
  /\ NoModal

Choose ==
  /\ modal = "choice"
  /\ modal' = "none" /\ UNCHANGED ask
  /\ Weighs(sr, calls) \/ Submits(sr, calls)

----------------------------------------------------------------------------
(***************************************************************************)
(* Answers.  c is the answered call and rest the calls without it.         *)
(***************************************************************************)
RunAnswered(c, rest) ==
  /\ c.by = "start"
  /\ \/ /\ c.at = "ok"
        /\ sr' = [sr EXCEPT !.stamped = TRUE]
        /\ calls' = Append(rest, Request("put", sr.test, "none"))
        /\ NoModal
     \/ /\ c.at = "failed"
        /\ sr' = [sr EXCEPT !.running = FALSE, !.poll = FALSE]
        /\ calls' = Append(rest, Request("delete", None, "none"))
        /\ Notice

\* _srPollLive: what the poll's answer does to the page.
SeesEnd(c) == c.at = "ok" /\ c.sees /\ sr.running

PollAnswered(c, rest) ==
  /\ c.by = "tick"
  /\ \/ SeesEnd(c) /\ FinishRun(FALSE, rest)
     \/ ~SeesEnd(c) /\ calls' = rest /\ UNCHANGED sr /\ NoModal

\* trCompleteTest polls once and then finishes the run, come what may: what
\* the poll and the finish do is one step, for nothing else waits between.
CompleteAnswered(c, rest) ==
  /\ c.by = "complete"
  /\ \/ /\ c.op = "complete" /\ c.at = "ok"
        /\ calls' = Append(rest, Request("live", None, "complete"))
        /\ UNCHANGED sr /\ NoModal
     \/ /\ c.op = "complete" /\ c.at = "failed"
        /\ calls' = rest
        /\ UNCHANGED sr /\ NoModal
     \/ /\ c.op = "live" /\ SeesEnd(c) /\ ~sr.analysis
        /\ FinishRun(FALSE, Append(rest, PostReport(sr.test, "submit", FALSE)))
     \/ /\ c.op = "live" /\ ~(SeesEnd(c) /\ ~sr.analysis)
        /\ FinishRun(FALSE, rest)

\* trStopTest does not catch a failing abort.
StopAnswered(c, rest) ==
  /\ c.by = "stop"
  /\ \/ c.at = "ok" /\ FinishRun(TRUE, rest)
     \/ c.at = "failed" /\ calls' = rest /\ UNCHANGED sr /\ NoModal
===========================================================================
