------------------------------- MODULE Kiosk -------------------------------
(***************************************************************************)
(* The application around the test page and the validation page: login and *)
(* logout, navigation with its guards, and the preview in which a pending  *)
(* report holds the operator until it is approved.                         *)
(*                                                                         *)
(* A handler runs to its first request, and what follows an answer runs to *)
(* the next one: these are the steps.  A call of goToPage that ends a      *)
(* handler is a step of its own which nothing precedes (going).            *)
(*                                                                         *)
(* Abstractions.  "home" stands for every screen without a state of its    *)
(* own, "recipes" for the screens from which a test is loaded.  Rights,    *)
(* forced password changes and the approval dialog are left out, and so is *)
(* the ensure-stopped of the logout route itself, which comes after the one*)
(* that a logout waits for here.                                           *)
(***************************************************************************)
EXTENDS ValidationPage

CONSTANTS
  MaxHaste,  \* presses of the user while a request is under way
  Leaves,    \* the user leaves a running test for another page, too
  AutoLogout \* autoLogoutMinutes is not 0

ASSUME KioskAssumption ==
  MaxHaste \in Nat /\ Leaves \in BOOLEAN /\ AutoLogout \in BOOLEAN

VARIABLES
  page,  \* the active page, also under the login screen
  going, \* page that goToPage is being called for
  goal,  \* page that the last question of goToPage was about
  skip,  \* guards that goToPage skips once
  gate,  \* _reportApprovalGate: number of the report
  last,  \* _lastReportPreview: number of the report, and whether it is pending
  haste  \* history: presses while a request was under way

shell == <<page, going, goal, skip, gate, last>>
vars == <<server, calls, user, page_, val, shell, haste>>

Pages == {"home", "recipes", "test", "validation", "preview"}
Guards == {"test", "val"}

TypeOK ==
  /\ ServerTypes /\ TestPageTypes /\ ValidationTypes
  /\ page \in Pages /\ going \in Pages \cup {"nowhere"} /\ goal \in Pages
  /\ skip \subseteq Guards
  /\ gate \in 0 .. MaxReports
  /\ last \in [report : 0 .. MaxReports, pending : BOOLEAN]
  /\ haste \in 0 .. MaxHaste

Init ==
  /\ ServerInit /\ TestPageInit /\ ValidationInit
  /\ page = "home" /\ going = "nowhere" /\ goal = "home" /\ skip = {}
  /\ gate = None /\ last = [report |-> None, pending |-> FALSE]
  /\ haste = 0

----------------------------------------------------------------------------
(***************************************************************************)
(* Navigation.                                                             *)
(***************************************************************************)
Stays == UNCHANGED <<page, going, goal, skip, gate, last>>
GoesTo(p) == going' = p /\ UNCHANGED <<page, goal, gate, last>>

AsksTest(p) == "test" \notin skip /\ (Operating \/ ValidationActive) /\ p # "test"
AsksVal(p) == "val" \notin skip /\ ValidationActive /\ p # "validation"

\* openReportPreview up to its request.
OpensPreview(id, rest) ==
  \/ user /\ calls' = Append(rest, Request("preview", id, "open")) /\ NoModal
  \/ ~user /\ calls' = rest /\ Notice

\* goToPage: the guards in their order.
GuardAsks(p) ==
  /\ AsksTest(p) \/ AsksVal(p)
  /\ Asks(IF AsksTest(p) THEN "leaveTest" ELSE "leaveVal")
  /\ goal' = p
  /\ UNCHANGED <<page, skip, calls>>

PreviewHolds(p) ==
  /\ last.pending /\ p # "preview"
  /\ skip' = {}
  /\ Notice
  /\ calls' = IF page = "preview" \/ ~user THEN calls
              ELSE Append(calls, Request("preview", last.report, "open"))
  /\ UNCHANGED <<page, goal>>

ArrivesAnyway(p) == \* mutant: a pending preview holds nobody
  /\ skip' = {}
  /\ page' = p /\ NoModal
  /\ UNCHANGED <<goal, calls>>

Arrives(p) ==
  /\ ~(last.pending /\ p # "preview")
  /\ skip' = {}
  /\ IF user THEN page' = p /\ NoModal ELSE UNCHANGED page /\ Notice
  /\ UNCHANGED <<goal, calls>>

GoToPage ==
  /\ going # "nowhere"
  /\ going' = "nowhere"
  /\ \/ GuardAsks(going)
     \/ ~AsksTest(going) /\ ~AsksVal(going) /\ (PreviewHolds(going) \/ Arrives(going))
  /\ UNCHANGED <<server, user, sr, val, gate, last>>

----------------------------------------------------------------------------
(***************************************************************************)
(* The user.                                                               *)
(***************************************************************************)
Free(p) == user /\ modal = "none" /\ page = p

OnTestPage ==
  /\ Free("test")
  /\ PressStart \/ Weighed \/ PressComplete \/ PressStop \/ SaveWeights
  /\ UNCHANGED <<server, user, val>> /\ Stays

OnValidationPage ==
  /\ Free("validation")
  /\ PressValidate \/ PressAbort \/ SubmitAmplitude
  /\ UNCHANGED <<server, user, sr>> /\ Stays

\* goBackFromValidationRun, which asks by itself.
BackFromValidation ==
  /\ Free("validation") /\ ValidationActive
  /\ Asks("backVal")
  /\ UNCHANGED <<server, calls, user, sr, val>> /\ Stays

\* startTestRun, from the batch number dialog or the quick test form.
LoadRecipe ==
  /\ Free("recipes") /\ sr.test < MaxTests
  /\ \E analysis \in BOOLEAN : sr' = Blank(sr.test + 1, analysis)
  /\ GoesTo("test")
  /\ UNCHANGED <<server, calls, user, modal, ask, val, skip>>

\* startShakerValidation with valid fields.
OpenValidation ==
  /\ Free("home") /\ Cardinality(Validations) > 0
  /\ val.run # MaxTests + MaxValidations
  /\ val' = Ready(IF val.run = None THEN MaxTests + 1 ELSE val.run + 1)
  /\ GoesTo("validation")
  /\ UNCHANGED <<server, calls, user, sr, modal, ask, skip>>

\* The sidebar and the cards of the home page.
Navigate ==
  /\ \/ page # "home" /\ Free(page) /\ GoesTo("home")
     \/ Free("home") /\ GoesTo("recipes")
  /\ UNCHANGED <<server, calls, user, sr, modal, ask, val, skip>>

\* The Open button of a row of the reports page.
OpenReport ==
  /\ Free("home")
  /\ \E id \in DOMAIN reports : OpensPreview(id, calls)
  /\ UNCHANGED <<server, user, sr, val>> /\ Stays

\* The login route stops the shaker, and takes no notice when that fails
\* (_ensure_shaker_stopped_safe).
Login ==
  /\ ~user /\ modal = "none"
  /\ user' = TRUE
  /\ load' \in {None, load}
  /\ calls' = IF gate = None THEN calls
              ELSE Append(calls, [Request("preview", gate, "again") EXCEPT !.signed = TRUE])
  /\ GoesTo("home")
  /\ UNCHANGED <<prog, begun, ended, ckpt, reports, fails, started, told, unsaved,
                 sr, modal, ask, val, skip>>

----------------------------------------------------------------------------
(***************************************************************************)
(* Logout.                                                                 *)
(***************************************************************************)
\* doLogout with stopActiveRunForLogout up to the first request.
LogsOut ==
  \/ ValidationActive /\ AbortsValidation("byeTest") /\ UNCHANGED sr
  \/ ~ValidationActive /\ Operating /\ AbortsNow(calls) /\ UNCHANGED val
  \/ /\ ~ValidationActive /\ ~Operating
     /\ calls' = Append(calls, Request("ensure", None, "bye"))
     /\ UNCHANGED <<sr, val>>

PressLogout ==
  /\ Free(page)
  /\ \/ /\ Operating \/ ValidationActive
        /\ Asks("logout") /\ UNCHANGED <<calls, sr, val>>
     \/ /\ ~Operating /\ ~ValidationActive /\ gate # None
        /\ Notice /\ calls' = Append(calls, Request("preview", gate, "open"))
        /\ UNCHANGED <<sr, val>>
     \/ /\ ~Operating /\ ~ValidationActive /\ gate = None
        /\ LogsOut /\ NoModal
  /\ UNCHANGED <<server, user>> /\ Stays

\* autoLogoutTick after minutes without a touch, longer than any press waits
\* for its answer: whatever dialog is open.
AutoLogoutTick ==
  /\ AutoLogout /\ user
  /\ \A i \in DOMAIN calls : calls[i].by \in {"tick", "none"}
  /\ ~Operating /\ ~ValidationActive /\ gate = None
  /\ ~(page = "preview" /\ last.pending)
  /\ calls' = Append(calls, Request("ensure", None, "idle"))
  /\ UNCHANGED <<server, user, page_, val>> /\ Stays

\* The answers that the two logouts wait for.
GoodbyeValidation(c, rest) ==
  /\ c.by = "byeTest"
  /\ \/ /\ c.op = "stop"
        /\ calls' = Append(rest, PostReport(val.run, "byeTest", TRUE))
        /\ UNCHANGED sr
     \/ /\ c.op = "report"
        /\ calls' = Append(rest, Request("delete", None, "byeTest"))
        /\ UNCHANGED sr
     \/ c.op = "delete" /\ AbortsNow(rest)
  /\ UNCHANGED <<user, modal, ask, gate>>

Goodbye(c, rest) ==
  /\ c.by \in {"bye", "idle"}
  /\ \/ /\ c.op = "abort" /\ SavesPartial(rest)
        /\ UNCHANGED <<user, modal, gate>>
     \/ /\ c.op = "report" \/ c.op = "delete"
        /\ calls' = Append(rest, IF c.op = "report" /\ c.at = "ok"
                                 THEN Request("delete", None, "bye")
                                 ELSE Request("ensure", None, "bye"))
        /\ UNCHANGED <<user, sr, modal, gate>>
     \/ /\ c.op = "ensure"
        /\ user' = FALSE /\ gate' = None /\ calls' = rest
        /\ modal' = IF c.by = "idle" THEN "notice" ELSE modal
        /\ UNCHANGED sr
  /\ UNCHANGED ask

----------------------------------------------------------------------------
(***************************************************************************)
(* The dialogs.                                                            *)
(***************************************************************************)
\* What follows the yes to a question.
Yes(q) ==
  \/ /\ q \in {"stop", "leaveTest"}
     /\ calls' = Append(calls, Request("abort", sr.test,
                                       IF q = "stop" THEN "stop" ELSE "leave"))
     /\ UNCHANGED <<sr, val>> /\ Stays
  \/ q = "stopVal" /\ StopsValidation(TRUE, calls) /\ UNCHANGED sr /\ Stays
  \/ /\ q \in {"leaveVal", "backVal"}
     /\ StopsValidation(TRUE, calls) /\ UNCHANGED sr
     /\ skip' = skip \cup {"val"}
     /\ GoesTo(IF q = "leaveVal" THEN goal ELSE "home")
  \/ q = "logout" /\ LogsOut /\ Stays

\* A notice answers the question that it has covered.
PressOk ==
  /\ modal \in {"question", "notice"}
  /\ ask = "leaveTest" => Leaves
  /\ modal' = "none" /\ ask' = "none"
  /\ Yes(ask) \/ (ask = "none" /\ UNCHANGED <<calls, sr, val>> /\ Stays)
  /\ UNCHANGED <<server, user>>

PressCancel ==
  /\ modal = "question"
  /\ modal' = "none" /\ ask' = "none"
  /\ UNCHANGED <<server, calls, user, sr, val>> /\ Stays

PressChoice ==
  /\ Choose
  /\ UNCHANGED <<server, user, val>> /\ Stays

----------------------------------------------------------------------------
(***************************************************************************)
(* Reports on the preview page.                                            *)
(***************************************************************************)
\* unlockReportPreviewAfterServerStatus.
Unlocks ==
  /\ last' = [last EXCEPT !.pending = FALSE] /\ gate' = None
  /\ calls' = Append(calls, Request("delete", None, "none"))
  /\ Notice

\* submitReportApprove with a verifier's credentials, as one step; a report
\* that the server has closed meanwhile only unlocks the screen.
Approve ==
  /\ Free("preview") /\ gate # None /\ last.report = gate
  /\ \/ /\ reports[gate].pending
        /\ reports' = [reports EXCEPT ![gate].pending = FALSE]
        /\ gate' = None
        /\ calls' = calls \o <<Request("delete", None, "none"),
                               Request("preview", gate, "open")>>
        /\ Notice
        /\ UNCHANGED last
     \/ ~reports[gate].pending /\ Unlocks /\ UNCHANGED reports
  /\ UNCHANGED <<prog, begun, ended, load, ckpt, fails, started, told, unsaved,
                 user, sr, val, page, going, goal, skip>>

\* The poll of startReportApprovalPollIfLocked finds the report closed.
ApprovalPoll ==
  /\ user /\ gate # None /\ last.pending /\ last.report = gate
  /\ ~reports[gate].pending
  /\ Unlocks
  /\ UNCHANGED <<server, user, sr, val, page, going, goal, skip>>

\* The answer to openReportPreview and to reapplyReportPreviewLockIfNeeded.
PreviewAnswered(c, rest) ==
  /\ c.op = "preview"
  /\ IF c.at = "failed"
     THEN /\ IF c.by = "open" THEN Notice ELSE NoModal
          /\ calls' = rest /\ UNCHANGED <<last, gate, going>>
     ELSE /\ last' = [report |-> c.of, pending |-> c.sees]
          /\ gate' = IF c.sees THEN c.of ELSE None
          /\ IF c.by = "again" /\ page # "preview" THEN OpensPreview(c.of, rest)
             ELSE calls' = rest /\ NoModal
          /\ going' = IF c.by = "open" THEN "preview" ELSE going

\* submitSieveWeights and _saveValidationReportAndPreview after their POST:
\* the checkpoint goes, whether that works or not, and the preview opens.
SaveAnswered(c, rest) ==
  /\ c.by \in {"submit", "val"}
  /\ \/ /\ c.op = "report" /\ c.at = "ok"
        /\ calls' = Append(rest, Request("delete", c.of, c.by)) /\ NoModal
     \/ c.op = "report" /\ c.at = "failed" /\ calls' = rest /\ Notice
     \/ c.op = "delete" /\ OpensPreview(c.of, rest)

----------------------------------------------------------------------------
(***************************************************************************)
(* Answers.                                                                *)
(***************************************************************************)
\* The answer to the abort of _trConfirmAbortRunningTest.
LeaveAnswered(c, rest) ==
  /\ c.by = "leave"
  /\ FinishRun(TRUE, rest)
  /\ skip' = skip \cup {"test"}
  /\ GoesTo(goal)

Answer(i) ==
  LET c == calls[i]
      rest == RemoveAt(calls, i)
  IN /\ c.at # "sent"
     /\ UNCHANGED server
     /\ \/ /\ \/ RunAnswered(c, rest) \/ PollAnswered(c, rest)
              \/ CompleteAnswered(c, rest) \/ StopAnswered(c, rest)
           /\ UNCHANGED <<user, val>> /\ Stays
        \/ LeaveAnswered(c, rest) /\ UNCHANGED <<user, val>>
        \/ StartAnswered(c, rest) /\ UNCHANGED <<user, sr>> /\ Stays
        \/ SaveAnswered(c, rest) /\ UNCHANGED <<user, sr, val>> /\ Stays
        \/ /\ GoodbyeValidation(c, rest) \/ Goodbye(c, rest)
           /\ UNCHANGED <<val, page, going, goal, skip, last>>
        \/ /\ PreviewAnswered(c, rest)
           /\ UNCHANGED <<user, sr, val, page, goal, skip>>

----------------------------------------------------------------------------
Presses ==
  \/ OnTestPage \/ OnValidationPage \/ BackFromValidation \/ LoadRecipe
  \/ OpenValidation \/ Navigate \/ OpenReport \/ Login \/ PressLogout
  \/ PressOk \/ PressCancel \/ PressChoice \/ Approve

\* The user, who is hasty when a request is still under way.
Press ==
  \/ calls = <<>> /\ Presses /\ UNCHANGED haste
  \/ calls # <<>> /\ haste < MaxHaste /\ Presses /\ haste' = haste + 1

Timers ==
  \/ Tick /\ UNCHANGED <<server, user, val>> /\ Stays
  \/ (ValidationTick \/ ValidationOver) /\ UNCHANGED <<server, user, sr>> /\ Stays
  \/ AutoLogoutTick \/ ApprovalPoll

ServerStep ==
  /\ \/ \E i \in DOMAIN calls : Lands(i) \/ Refuses(i)
     \/ ProgramBegins \/ NextSegment \/ ProgramEnds \/ ClosedElsewhere
  /\ UNCHANGED <<page_, val, shell>>

Next ==
  \/ GoToPage /\ UNCHANGED haste
  \/ /\ going = "nowhere"
     /\ \/ Press
        \/ /\ Timers \/ ServerStep \/ \E i \in DOMAIN calls : Answer(i)
           /\ UNCHANGED haste

Spec == Init /\ [][Next]_vars

\* The page gets to what is under way and its intervals fire; the server
\* answers the oldest request; a program ends by its own time.  Nothing is
\* asked of the user.
Page(step) == going = "nowhere" /\ step /\ UNCHANGED haste
Elsewhere == UNCHANGED <<page_, val, shell, haste>>
Oldest == calls # <<>> /\ (Lands(1) \/ Refuses(1))

Fairness ==
  /\ WF_vars(GoToPage /\ UNCHANGED haste)
  /\ SF_vars(Page(calls # <<>> /\ Answer(1)))
  /\ SF_vars(Page(Tick /\ UNCHANGED <<server, user, val>> /\ Stays))
  /\ SF_vars(Page(ValidationOver /\ UNCHANGED <<server, user, sr>> /\ Stays))
  /\ SF_vars(going = "nowhere" /\ Oldest /\ Elsewhere)
  /\ SF_vars(going = "nowhere" /\ (ProgramBegins \/ ProgramEnds) /\ Elsewhere)

FairSpec == Spec /\ Fairness

----------------------------------------------------------------------------
(***************************************************************************)
(* Properties.                                                             *)
(***************************************************************************)
\* A program that nobody has told to end runs under the eyes of the user who
\* started it: someone is logged in and the test page shows this very test
\* as running, whatever polls and answers were under way.
RunIsAttended ==
  fails = 0 /\ prog \notin told \cup {None} => user /\ sr.test = prog /\ sr.running

\* How often the test has been reported.
Reported(t) == Cardinality({i \in DOMAIN reports : reports[i].of = t})

\* A test with weighed sieves is reported once, though a poll, the complete
\* button and a stop may all end it: as long as the user waits for answers.
WeighedReportedOnce == haste = 0 /\ sr.analysis /\ sr.test # None => Reported(sr.test) <= 1

\* The checkpoint of a test that has been started goes only when the report
\* of the test is stored, or another run takes its place.
CheckpointOutlastsTest ==
  [][ ckpt' = None /\ ckpt \in started => Reported(ckpt) > 0 \/ ckpt \in unsaved ]_vars

\* A pending report that the preview shows holds the user: as long as no
\* question from before is open, no other page opens and no logout begins
\* until the report is closed.
LoggingOut == \E i \in DOMAIN calls : calls[i].by \in {"bye", "byeTest", "idle"}

PendingHolds ==
  [][ /\ user /\ page = "preview" /\ gate # None /\ reports[gate].pending
      /\ ask = "none" /\ ~LoggingOut
      => (page' = "preview" /\ ~LoggingOut') \/ ~reports'[gate].pending ]_vars

\* A validation does not go on under the login screen: however its page was
\* left, and although nobody looks whether a stop succeeds, the load is off
\* when the user is logged out.
LoggedOutIsOff == ~user /\ load # None => load \in Tests

\* The test of a started program is not forgotten: its report is stored or
\* on its way, the checkpoint tells of it, or the page still has it.
EvidenceKept ==
  \A t \in started :
    \/ Reported(t) > 0 \/ ckpt = t \/ t \in unsaved
    \/ sr.test = t \/ val.run = t
    \/ \E i \in DOMAIN calls : calls[i].of = t /\ calls[i].op \in {"report", "put"}

\* A run that the page shows as running is over one day, without the user:
\* its program ends, and a poll tells the page.
RunEnds == sr.running ~> ~sr.running
ValidationEnds == val.running ~> ~val.running
=============================================================================
