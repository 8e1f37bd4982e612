-------------------------- MODULE ValidationPage --------------------------
(***************************************************************************)
(* The validation screens of shaker_ui.js: the record _valState, the start *)
(* and abort button, the timer and the measured amplitude.  A validation   *)
(* runs without a program thread: the page switches the load on and off.   *)
(***************************************************************************)
EXTENDS TestRunPage

VARIABLE val \* _valState

Val == [run : Validations \cup {None}, running : BOOLEAN, awaiting : BOOLEAN,
        aborted : BOOLEAN, poll : BOOLEAN, enabled : BOOLEAN]

Ready(v) == [run |-> v, running |-> FALSE, awaiting |-> FALSE,
             aborted |-> FALSE, poll |-> FALSE, enabled |-> v # None]

ValidationTypes == val \in Val
ValidationInit == val = Ready(None)

\* _srIsValidationSessionActive.
ValidationActive == val.running \/ val.awaiting

\* toggleValidationRunState while nothing runs.
PressValidate ==
  /\ val.enabled /\ ~val.running
  /\ calls' = Append(calls, Request("start", val.run, "val"))
  /\ UNCHANGED val /\ NoModal

\* The same button while it runs asks before it aborts.
PressAbort ==
  /\ val.enabled /\ val.running
  /\ Asks("stopVal")
  /\ UNCHANGED <<val, calls>>

\* _saveValidationReportAndPreview.
SavesValidation(v, rest) ==
  /\ val' = [v EXCEPT !.awaiting = FALSE]
  /\ calls' = Append(rest, PostReport(v.run, "val", v.aborted))

\* _stopShakerValidation: nobody looks whether the stop succeeds.
StopsValidation(aborted, rest) ==
  LET over == [val EXCEPT !.running = FALSE, !.aborted = aborted, !.poll = FALSE,
                          !.enabled = FALSE]
      stop == Append(rest, Request("stop", val.run, "none"))
  IN \/ aborted /\ SavesValidation(over, stop)
     \/ ~aborted /\ val' = [over EXCEPT !.awaiting = TRUE] /\ calls' = stop

\* The interval of _startValPoll before the duration is over, and after.
ValidationTick ==
  /\ val.poll /\ val.running /\ ~Underway("put", "none")
  /\ calls' = Append(calls, Request("put", val.run, "none"))
  /\ UNCHANGED val /\ NoModal

ValidationOver ==
  /\ val.poll /\ val.running
  /\ StopsValidation(FALSE, Append(calls, Request("put", val.run, "none")))
  /\ NoModal

\* submitValidationResult with an amplitude in its bounds.
SubmitAmplitude ==
  /\ val.awaiting
  /\ SavesValidation(val, calls)
  /\ NoModal

\* _srAbortValidationForLogout up to its first request.  by is "byeTest" when
\* the logout goes on with the test page.
AbortsValidation(by) ==
  /\ val' = [val EXCEPT !.aborted = TRUE, !.running = FALSE, !.awaiting = FALSE,
                        !.poll = FALSE]
  /\ calls' = Append(calls, Request("stop", val.run, by))

----------------------------------------------------------------------------
StartAnsweredBlind(c, rest) == \* mutant: the timer is not started
  /\ c.op = "start"
  /\ val' = [val EXCEPT !.running = TRUE, !.aborted = FALSE]
  /\ calls' = Append(rest, Request("put", val.run, "none"))
  /\ NoModal

StartAnswered(c, rest) ==
  /\ c.op = "start"
  /\ \/ /\ c.at = "ok"
        /\ val' = [val EXCEPT !.running = TRUE, !.aborted = FALSE, !.poll = TRUE]
        /\ calls' = Append(rest, Request("put", val.run, "none"))
        /\ NoModal
     \/ /\ c.at = "failed"
        /\ calls' = rest /\ UNCHANGED val
        /\ Notice
===========================================================================
