-------------------------- MODULE KioskRun_proofs --------------------------
(***************************************************************************)
(* The tests of a user who has waited for answers, for any number of       *)
(* tests, validations and reports.                                         *)
(*                                                                         *)
(* First: the program that runs is the one the test page shows, with every *)
(* way to leave a page, when requests land in the order of sending and     *)
(* none has been refused that need not be.                                 *)
(*                                                                         *)
(* Then: a test with weighed sieves is reported once, in whatever order    *)
(* requests land and whichever are refused, until the first validation is  *)
(* opened.                                                                 *)
(*                                                                         *)
(* Last: no started test is forgotten and its checkpoint outlasts it, in   *)
(* whatever order requests land and whichever are refused, when the user   *)
(* never leaves a running test for another page and there is no automatic  *)
(* logout.                                                                 *)
(***************************************************************************)
EXTENDS KioskWaiting_proofs

----------------------------------------------------------------------------
(***************************************************************************)
(* The invariant                                                           *)
(***************************************************************************)
\* A program runs that nobody has told to end; one is being asked for.
Live == prog \notin told \cup {None}
IsAsk(c) == c.op = "run" /\ c.at = "sent"
Asked == \E c \in ToSet(calls) : IsAsk(c)
Resting == ~Live /\ ~Asked

\* The page of the user shows the test as running and polls for its end.
Watched(t) == user /\ sr.test = t /\ sr.poll

\* The answer to the call ends the test on the page, or the page is about to
\* log the user out.
Ends(c) ==
  \/ c.op = "live" /\ (c.by = "complete" \/ (c.at = "ok" /\ c.sees))
  \/ c.op \in {"abort", "complete"} /\ c.at # "sent"
  \/ c.op = "run" /\ c.at = "failed"
  \/ c.by \in LogoutCallers /\ c.op # "abort"

\* While a program runs or is asked for its test is watched, and no call ends
\* the test on the page.  A request for a program is the oldest under way,
\* and all others wait behind it.
WatchInv ==
  /\ Live => Watched(prog) /\ ~Asked
  /\ \A i \in DOMAIN calls : IsAsk(calls[i]) => i = 1 /\ Watched(calls[i].of)
  /\ Asked => \A c \in ToSet(calls) : c.at = "sent"
  /\ \A c \in ToSet(calls) : Ends(c) => Resting

\* A program that has begun has reset the live state.
ResetInv == begun => ~ended

\* So far the user has waited and no request was refused without reason.
Smooth == haste = 0 /\ fails = 0

----------------------------------------------------------------------------
(***************************************************************************)
(* The live state                                                          *)
(***************************************************************************)
LEMMA ResetStep == ResetInv /\ [Next]_vars => ResetInv'
<1> SUFFICES ASSUME ResetInv, [Next]_vars PROVE ResetInv'
  OBVIOUS
<1>1. UNCHANGED <<begun, ended>> \/ begun' = FALSE \/ ended' = FALSE
  <2>1. CASE UNCHANGED server \/ UNCHANGED vars
    BY <2>1 DEF server, vars
  <2>2. CASE Approve
    BY <2>2 DEF Approve
  <2>3. CASE ServerStep
    <3>1. CASE \E i \in DOMAIN calls : Lands(i) \/ Refuses(i)
      BY <3>1 DEF Lands, Refuses, LandsRun, LandsAbort, LandsComplete, LandsStart, LandsStop,
                  LandsCheckpoint, LandsReport, LandsRead
    <3>2. CASE ProgramBegins \/ NextSegment \/ ProgramEnds \/ ClosedElsewhere
      BY <3>2 DEF ProgramBegins, NextSegment, ProgramEnds, ClosedElsewhere
    <3> QED
      BY <2>3, <3>1, <3>2 DEF ServerStep
  <2>4. CASE Presses /\ ~Approve
    <3>1. UNCHANGED server \/ Login
      BY <2>4 DEF Presses, OnTestPage, OnValidationPage, BackFromValidation, LoadRecipe,
        OpenValidation, Navigate, OpenReport, PressLogout, PressOk, PressCancel, PressChoice
    <3>2. Login => UNCHANGED <<begun, ended>>
      BY DEF Login
    <3> QED
      BY <2>1, <3>1, <3>2
  <2>5. CASE Timers
    <3>1. UNCHANGED server
      BY <2>5 DEF Timers, AutoLogoutTick, ApprovalPoll
    <3> QED
      BY <2>1, <3>1
  <2>6. CASE GoToPage \/ \E i \in DOMAIN calls : Answer(i)
    <3>1. UNCHANGED server
      BY <2>6 DEF GoToPage, Answer
    <3> QED
      BY <2>1, <3>1
  <2> QED
    BY <2>1, <2>2, <2>3, <2>4, <2>5, <2>6 DEF Next, Press
<1> QED
  BY <1>1 DEF ResetInv

LEMMA ResetAlways == Spec => []ResetInv
<1>1. Init => ResetInv
  BY DEF Init, ServerInit, ResetInv
<1> QED
  BY <1>1, ResetStep, PTL DEF Spec

----------------------------------------------------------------------------
(***************************************************************************)
(* Calls                                                                   *)
(***************************************************************************)
\* Who waits for what, and what is new ends nothing but a poll by the
\* complete button and a logout.
LEMMA CallFacts ==
  ASSUME KioskInv
  PROVE  /\ \A c \in ToSet(calls) :
              /\ c \in Call
              /\ c.by = "start" => c.op = "run"
              /\ c.by = "tick" => c.op = "live"
              /\ c.by \in {"stop", "leave"} => c.op = "abort"
         /\ \A c \in New : /\ c.at = "sent"
                           /\ c.op # "run" => ~IsAsk(c)
                           /\ c.by \notin LogoutCallers \cup {"complete"} => ~Ends(c)
                           /\ c.op = "complete" => ~Ends(c)
<1>1. \A c \in ToSet(calls) : c \in Fit(Len(reports))
  BY DEF KioskInv, CallsPart
<1>2. ASSUME NEW c \in Fit(Len(reports))
      PROVE  /\ c \in Call
             /\ c.by = "start" => c.op = "run"
             /\ c.by = "tick" => c.op = "live"
             /\ c.by \in {"stop", "leave"} => c.op = "abort"
  BY DEF Fit, Call, Ops, LogoutCallers
<1>3. ASSUME NEW c \in New
      PROVE  /\ c.at = "sent"
             /\ c.op # "run" => ~IsAsk(c)
             /\ c.by \notin LogoutCallers \cup {"complete"} => ~Ends(c)
             /\ c.op = "complete" => ~Ends(c)
  BY DEF New, Fit, IsAsk, Ends, LogoutCallers
<1> QED
  BY <1>1, <1>2, <1>3

\* A state in which nothing runs and nothing is asked for needs no more.
LEMMA RestingWatch == Resting => WatchInv
BY DEF Resting, WatchInv, Asked, ToSet

\* A step of the page at rest that asks for no program.
LEMMA StaysResting ==
  ASSUME Resting, UNCHANGED <<prog, told>>,
         \A d \in ToSet(calls') : d \in ToSet(calls) \/ ~IsAsk(d)
  PROVE  WatchInv'
<1>1. Resting'
  BY DEF Resting, Live, Asked
<1> QED
  BY <1>1 DEF Resting, WatchInv, Asked, ToSet

\* A step of the page, while a program runs or is asked for, that lets the
\* test run and sends nothing that ends it.
LEMMA StaysWatched ==
  ASSUME KioskInv, WatchInv, ~Resting, UNCHANGED <<prog, told, user>>,
         sr'.test = sr.test, sr'.poll = sr.poll,
         NEW ops, NEW callers, Sends(calls, ops, callers), "run" \notin ops,
         callers \cap (LogoutCallers \cup {"complete"}) = {} \/ ops = {"complete"}
  PROVE  WatchInv'
<1>1. PICK new \in SUBSET New : /\ Grown(calls', calls, new)
                                /\ \A c \in new : c.op \in ops /\ c.by \in callers
  BY DEF Sends
<1>2. \A c \in new : c.at = "sent" /\ ~IsAsk(c) /\ ~Ends(c)
  BY <1>1, CallFacts
<1> DEFINE s == calls'
<1>3. /\ s \in Seq(Call) /\ Len(calls) \in Nat /\ Len(s) \in Nat
      /\ ToSet(s) = ToSet(calls) \cup new
      /\ \A i \in 1 .. Len(calls) : s[i] = calls[i]
      /\ \A i \in Len(calls) + 1 .. Len(s) : s[i] \in new
      /\ DOMAIN s = 1 .. Len(s) /\ DOMAIN calls = 1 .. Len(calls)
  BY <1>1, LenProperties DEF Grown, KioskInv, CallsPart
<1>4. Asked' <=> Asked
  BY <1>2, <1>3 DEF Asked
<1>5. Live' <=> Live
  BY DEF Live
<1>6. \A t : Watched(t) => user' /\ sr'.test = t /\ sr'.poll
  BY DEF Watched
<1> HIDE DEF s
<1>7. ASSUME NEW i \in DOMAIN s, IsAsk(s[i])
      PROVE  i = 1 /\ user' /\ sr'.test = s[i].of /\ sr'.poll
  <2>1. i \in DOMAIN calls /\ s[i] = calls[i]
    BY <1>2, <1>3, <1>7
  <2>2. i = 1 /\ Watched(calls[i].of)
    BY <1>7, <2>1 DEF WatchInv
  <2> QED
    BY <1>6, <2>1, <2>2
<1>8. \A c \in ToSet(s) : ~Ends(c)
  BY <1>2, <1>3 DEF WatchInv
<1>9. Asked => \A c \in ToSet(s) : c.at = "sent"
  BY <1>2, <1>3 DEF WatchInv
<1>10. Live' => Watched(prog)' /\ ~Asked'
  BY <1>4, <1>5, <1>6 DEF WatchInv, Watched
<1>11. \A i \in DOMAIN calls' : IsAsk(calls'[i]) => i = 1 /\ Watched(calls[i].of)'
  BY <1>7 DEF s, Watched
<1>12. Asked' => \A c \in ToSet(calls') : c.at = "sent"
  BY <1>4, <1>9 DEF s
<1>13. \A c \in ToSet(calls') : ~Ends(c)
  BY <1>8 DEF s
<1> QED
  BY <1>10, <1>11, <1>12, <1>13 DEF WatchInv

\* What the page looks like while a program runs or is asked for.
LEMMA WatchedPage ==
  ASSUME KioskInv, WaitInv, WatchInv, ~Resting
  PROVE  /\ user /\ sr.poll /\ page = "test" /\ sr.running /\ ~sr.done /\ Operating
         /\ ~ValidationActive
<1>1. user /\ sr.poll
  BY DEF Resting, WatchInv, Asked, Watched, ToSet
<1> QED
  BY <1>1 DEF WaitInv, PageInv, Operating, ValidationActive

----------------------------------------------------------------------------
(***************************************************************************)
(* The user                                                                *)
(***************************************************************************)
\* At rest a handler may do anything but ask for a program.
LEMMA RestSends ==
  ASSUME KioskInv, Resting, UNCHANGED <<prog, told>>,
         NEW rest \in Seq(Call), ToSet(rest) \subseteq ToSet(calls),
         NEW ops, NEW callers, Sends(rest, ops, callers), "run" \notin ops
  PROVE  WatchInv'
<1>1. /\ calls' \in Seq(Call) /\ ToSet(rest) \subseteq ToSet(calls')
      /\ \A d \in ToSet(calls') : \/ d \in ToSet(rest)
                                  \/ d \in New /\ d.op \in ops /\ d.by \in callers
  BY SentFacts
<1>2. \A d \in ToSet(calls') : d \in ToSet(calls) \/ ~IsAsk(d)
  BY <1>1 DEF IsAsk
<1> QED
  BY <1>2, StaysResting

\* The last step of the before wizard asks for the program of the test that
\* it has just begun to watch.
LEMMA WeighedWatches ==
  ASSUME KioskInv, Resting, Idle, user, Weighed, UNCHANGED <<prog, told, user>>
  PROVE  WatchInv'
<1> DEFINE x == Request("run", sr.test, "start")
<1>1. /\ sr \in Sr /\ sr.test \in Nat
      /\ sr' = [sr EXCEPT !.weighing = FALSE, !.wizard = "none", !.running = TRUE, !.poll = TRUE]
      /\ calls' = Append(<<>>, x)
  BY SrFields DEF KioskInv, PagePart, TestPageTypes, Weighed, Idle
<1>2. user' /\ sr'.test = sr.test /\ sr'.poll
  BY <1>1 DEF Sr
<1>3. /\ x.op = "run" /\ x.at = "sent" /\ x.of = sr.test /\ x.by = "start"
      /\ ~Ends(x)
  BY RequestFields DEF Ends, LogoutCallers
<1> HIDE DEF x
<1>4. /\ DOMAIN calls' = {1} /\ calls'[1] = x /\ ToSet(calls') = {x}
  BY <1>1 DEF ToSet
<1>5. ~Live'
  BY DEF Resting, Live
<1>6. \A i \in DOMAIN calls' : i = 1 /\ user' /\ sr'.test = calls'[i].of /\ sr'.poll
  BY <1>2, <1>3, <1>4
<1>7. \A i \in DOMAIN calls' : IsAsk(calls'[i]) => i = 1 /\ Watched(calls[i].of)'
  BY <1>6 DEF Watched
<1>8. \A c \in ToSet(calls') : c.at = "sent" /\ ~Ends(c)
  BY <1>3, <1>4
<1> QED
  BY <1>5, <1>7, <1>8 DEF WatchInv

LEMMA RestPress ==
  ASSUME KioskInv, Resting, Idle, Presses, haste' \in 0 .. MaxHaste
  PROVE  WatchInv'
<1>1. calls \in Seq(Call) /\ (UNCHANGED server => UNCHANGED <<prog, told>>)
  BY DEF KioskInv, CallsPart, server
<1>2. ASSUME UNCHANGED <<prog, told>>, NEW ops, NEW callers, Sends(calls, ops, callers),
             "run" \notin ops
      PROVE  WatchInv'
  BY <1>1, <1>2, RestSends
<1>3. CASE OnTestPage
  <2>1. UNCHANGED <<prog, told, user>> /\ user
    BY <1>1, <1>3 DEF OnTestPage, Free
  <2>2. CASE Weighed
    BY <2>1, <2>2, WeighedWatches
  <2>3. CASE PressStart \/ PressComplete \/ PressStop
    <3>1. PICK op \in {"put", "complete"}, by \in {"none", "complete"} :
            calls' = calls \/ calls' = Append(calls, Request(op, sr.test, by))
      BY <2>3 DEF PressStart, PressComplete, PressStop
    <3> DEFINE x == Request(op, sr.test, by)
    <3>2. x.op # "run" /\ x \in Call
      <4>1. op \in Ops /\ by \in Callers /\ sr.test \in Nat
        BY SrFields DEF Ops, Callers, KioskInv, PagePart, TestPageTypes
      <4>2. x \in Call
        BY <4>1, RequestType
      <4>3. x.op = op
        BY RequestFields
      <4> QED
        BY <4>2, <4>3
    <3>3. calls' = calls \/ calls' = Append(calls, x)
      BY <3>1
    <3> HIDE DEF x
    <3>4. \A d \in ToSet(calls') : d \in ToSet(calls) \/ d = x
      <4>1. ToSet(Append(calls, x)) = ToSet(calls) \cup {x}
        BY <1>1, <3>2, AppendFacts
      <4> QED
        BY <3>3, <4>1
    <3> QED
      BY <2>1, <3>2, <3>4, StaysResting DEF IsAsk
  <2>4. CASE SaveWeights
    <3>1. Sends(calls, {"report"}, {"submit"}) /\ "run" \notin {"report"}
      BY <1>1, <2>4, SubmitsFacts DEF SaveWeights, KioskInv, PagePart, TestPageTypes
    <3> QED
      BY <1>2, <2>1, <3>1
  <2> QED
    BY <1>3, <2>2, <2>3, <2>4 DEF OnTestPage
<1>4. CASE OnValidationPage
  <2>1. Sends(calls, {"start", "report"}, {"val"}) /\ "run" \notin {"start", "report"}
    BY <1>4, OnValidationPageStep
  <2> QED
    BY <1>1, <1>2, <1>4, <2>1 DEF OnValidationPage
<1>5. CASE BackFromValidation \/ LoadRecipe \/ OpenValidation \/ Navigate \/ PressCancel
  <2>1. UNCHANGED <<server, calls>>
    BY <1>5 DEF BackFromValidation, LoadRecipe, OpenValidation, Navigate, PressCancel
  <2>2. Sends(calls, {}, {})
    BY <1>1, <2>1, SendNone
  <2> QED
    BY <1>1, <1>2, <2>1, <2>2
<1>6. CASE OpenReport
  <2>1. Sends(calls, {"preview"}, {"open"}) /\ "run" \notin {"preview"}
    BY <1>6, OpenReportStep
  <2> QED
    BY <1>1, <1>2, <1>6, <2>1 DEF OpenReport
<1>7. CASE Login
  <2>1. UNCHANGED <<prog, told>>
    BY <1>1, <1>7 DEF Login
  <2>2. \/ calls' = calls
        \/ \E c \in Fit(Len(reports)) : c.op = "preview" /\ calls' = Append(calls, c)
    BY <1>7, LoginStep
  <2>3. \A c \in Fit(Len(reports)) : ToSet(Append(calls, c)) = ToSet(calls) \cup {c}
    BY <1>1, AppendFacts DEF Fit
  <2>4. \A d \in ToSet(calls') : d \in ToSet(calls) \/ ~IsAsk(d)
    BY <2>2, <2>3 DEF IsAsk
  <2> QED
    BY <2>1, <2>4, StaysResting
<1>8. CASE PressLogout
  <2> DEFINE ops == {"stop", "abort", "report", "ensure", "preview"}
  <2>1. Sends(calls, ops, {"bye", "byeTest", "open"}) /\ "run" \notin ops
    BY <1>8, PressLogoutStep
  <2> HIDE DEF ops
  <2> QED
    BY <1>1, <1>2, <1>8, <2>1 DEF PressLogout
<1>9. CASE PressOk
  <2>1. Sends(calls, OkOps, OkCallers) /\ "run" \notin OkOps
    BY <1>9, PressOkStep DEF OkOps
  <2> QED
    BY <1>1, <1>2, <1>9, <2>1 DEF PressOk
<1>10. CASE PressChoice
  <2>1. Sends(calls, {"put", "report"}, {"none", "submit"}) /\ "run" \notin {"put", "report"}
    BY <1>10, PressChoiceStep
  <2> QED
    BY <1>1, <1>2, <1>10, <2>1 DEF PressChoice
<1>11. CASE Approve
  <2>1. /\ Sends(calls, {"delete", "preview"}, {"none", "open"}) /\ UNCHANGED <<prog, told>>
        /\ "run" \notin {"delete", "preview"}
    BY <1>11, ApproveStep
  <2> QED
    BY <1>2, <2>1
<1> QED
  BY <1>3, <1>4, <1>5, <1>6, <1>7, <1>8, <1>9, <1>10, <1>11 DEF Presses

\* Who watches a program can complete or stop it, ask to leave or to log out,
\* and confirm that; the handlers wait for the server before the test ends.
LEMMA WatchedPress ==
  ASSUME KioskInv, WaitInv, WatchInv, ~Resting, Idle, Presses, haste' \in 0 .. MaxHaste
  PROVE  WatchInv'
<1>1. calls \in Seq(Call) /\ (UNCHANGED server => UNCHANGED <<prog, told>>)
  BY DEF KioskInv, CallsPart, server
<1>2. /\ user /\ sr.poll /\ page = "test" /\ sr.running /\ ~sr.done /\ Operating
      /\ ~ValidationActive /\ sr \in Sr /\ sr.test \in Nat
  BY WatchedPage, SrFields DEF KioskInv, PagePart, TestPageTypes
<1>3. ASSUME UNCHANGED <<prog, told, user>>, sr'.test = sr.test, sr'.poll = sr.poll, calls' = calls
      PROVE  WatchInv'
  <2>1. Sends(calls, {}, {}) /\ "run" \notin {} /\ {} \cap (LogoutCallers \cup {"complete"}) = {}
    BY <1>1, <1>3, SendNone
  <2> QED
    BY <1>3, <2>1, StaysWatched
<1>4. ASSUME UNCHANGED <<prog, told, user>>, sr'.test = sr.test, sr'.poll = sr.poll,
             NEW by \in {"stop", "leave", "bye"}, calls' = Append(calls, Request("abort", sr.test, by))
      PROVE  WatchInv'
  <2> DEFINE x == Request("abort", sr.test, by)
  <2>1. x \in Call /\ x.op = "abort" /\ x.at = "sent"
    <3>1. x \in New
      BY <1>2, NewRequests
    <3> QED
      BY <3>1, NewCall, RequestFields
  <2> HIDE DEF x
  <2>2. calls' = Append(<<>>, x)
    BY <1>4 DEF Idle, x
  <2>3. DOMAIN calls' = {1} /\ calls'[1] = x /\ ToSet(calls') = {x}
    BY <2>1, <2>2 DEF ToSet
  <2>4. ~IsAsk(x) /\ ~Ends(x)
    BY <2>1 DEF IsAsk, Ends
  <2>5. ~Asked' /\ (Live' <=> Live)
    BY <1>4, <2>3, <2>4 DEF Asked, Live
  <2>6. Live' => Watched(prog)'
    BY <1>4, <2>5 DEF WatchInv, Watched
  <2>7. \A i \in DOMAIN calls' : ~IsAsk(calls'[i])
    BY <2>3, <2>4
  <2>8. \A c \in ToSet(calls') : ~Ends(c)
    BY <2>3, <2>4
  <2> QED
    BY <2>5, <2>6, <2>7, <2>8 DEF WatchInv
<1>5. CASE OnTestPage
  <2>1. UNCHANGED <<prog, told, user>>
    BY <1>1, <1>5 DEF OnTestPage
  <2>2. CASE PressStop
    BY <1>3, <2>1, <2>2 DEF PressStop
  <2>3. CASE PressComplete
    <3>1. Request("complete", sr.test, "complete") \in New
      BY <1>2, NewRequests
    <3>2. Sends(calls, {"complete"}, {"complete"}) /\ "run" \notin {"complete"}
      BY <1>1, <2>3, <3>1, SendRequest DEF PressComplete
    <3> QED
      BY <2>1, <2>3, <3>2, StaysWatched DEF PressComplete
  <2>4. ~PressStart
    BY <1>2 DEF PressStart
  <2>5. ~Weighed
    BY <1>2 DEF Weighed, WaitInv, BeforeInv
  <2>6. ~SaveWeights
    BY <1>2 DEF SaveWeights, WaitInv, AskInv
  <2> QED
    BY <1>5, <2>2, <2>3, <2>4, <2>5, <2>6 DEF OnTestPage
<1>6. CASE Navigate \/ PressCancel
  <2>1. UNCHANGED <<prog, told, user, sr, calls>>
    BY <1>1, <1>6 DEF Navigate, PressCancel
  <2> QED
    BY <1>3, <2>1
<1>7. ~OnValidationPage /\ ~BackFromValidation /\ ~LoadRecipe /\ ~OpenValidation /\ ~OpenReport
      /\ ~Login /\ ~Approve
  BY <1>2 DEF OnValidationPage, BackFromValidation, LoadRecipe, OpenValidation, OpenReport,
              Login, Approve, Free
<1>8. ~PressChoice
  BY <1>2 DEF PressChoice, Choose, WaitInv, AskInv
<1>9. LogsOut => /\ sr'.test = sr.test /\ sr'.poll = sr.poll
                 /\ calls' = Append(calls, Request("abort", sr.test, "bye"))
  BY <1>2 DEF LogsOut, AbortsNow, Sr
<1>10. CASE PressLogout
  <2>1. UNCHANGED <<prog, told, user>> /\ UNCHANGED <<calls, sr>>
    BY <1>1, <1>2, <1>10 DEF PressLogout
  <2> QED
    BY <1>3, <2>1
<1>11. CASE PressOk
  <2>1. UNCHANGED <<prog, told, user>>
    BY <1>1, <1>11 DEF PressOk
  <2>2. CASE ask = "none" /\ UNCHANGED <<calls, sr>>
    BY <1>3, <2>1, <2>2
  <2>3. CASE LogsOut
    BY <1>4, <1>9, <2>1, <2>3
  <2>4. CASE /\ sr' = sr
             /\ calls' = Append(calls, Request("abort", sr.test,
                                               IF ask = "stop" THEN "stop" ELSE "leave"))
    <3> DEFINE by == IF ask = "stop" THEN "stop" ELSE "leave"
    <3>1. by \in {"stop", "leave", "bye"} /\ calls' = Append(calls, Request("abort", sr.test, by))
      BY <2>4
    <3> HIDE DEF by
    <3> QED
      BY <1>4, <2>1, <2>4, <3>1
  <2>5. CASE StopsValidation(TRUE, calls) /\ UNCHANGED sr
    <3>1. StopsValidation(TRUE, calls) /\ TRUE \in BOOLEAN
      BY <2>5
    <3>2. Sends(calls, {"stop", "report"}, {"none", "val"})
      BY <1>1, <3>1, StopsValidationFacts DEF KioskInv
    <3>3. /\ "run" \notin {"stop", "report"}
          /\ {"none", "val"} \cap (LogoutCallers \cup {"complete"}) = {}
      BY DEF LogoutCallers
    <3> QED
      BY <2>1, <2>5, <3>2, <3>3, StaysWatched
  <2> QED
    BY <1>11, <2>2, <2>3, <2>4, <2>5 DEF PressOk, Yes
<1> QED
  BY <1>5, <1>6, <1>7, <1>8, <1>10, <1>11 DEF Presses

----------------------------------------------------------------------------
(***************************************************************************)
(* The page on its own                                                     *)
(***************************************************************************)
\* Steps of the page that leave the test alone and log nobody out.
LEMMA PageWatches ==
  ASSUME KioskInv, WatchInv, UNCHANGED <<prog, told, user, sr>>,
         NEW ops, NEW callers, Sends(calls, ops, callers), "run" \notin ops,
         callers \cap (LogoutCallers \cup {"complete"}) = {}
  PROVE  WatchInv'
<1>1. calls \in Seq(Call) /\ ToSet(calls) \subseteq ToSet(calls)
  BY DEF KioskInv, CallsPart
<1> QED
  BY <1>1, RestSends, StaysWatched

LEMMA TimerWatches ==
  ASSUME KioskInv, WaitInv, WatchInv, Timers, haste' = haste
  PROVE  WatchInv'
<1>1. UNCHANGED server => UNCHANGED <<prog, told>>
  BY DEF server
<1>2. CASE Tick /\ UNCHANGED <<server, user, val>> /\ Stays
  <2>1. /\ Sends(calls, {"live", "put"}, {"tick", "none"}) /\ "run" \notin {"live", "put"}
        /\ {"tick", "none"} \cap (LogoutCallers \cup {"complete"}) = {}
    BY <1>2, TickFacts DEF KioskInv, LogoutCallers
  <2> QED
    BY <1>1, <1>2, <2>1, PageWatches DEF Tick
<1>3. CASE (ValidationTick \/ ValidationOver) /\ UNCHANGED <<server, user, sr>>
  <2>1. /\ Sends(calls, {"put", "stop", "report"}, {"none", "val"})
        /\ "run" \notin {"put", "stop", "report"}
        /\ {"none", "val"} \cap (LogoutCallers \cup {"complete"}) = {}
    BY <1>3, ValidationTimerFacts DEF KioskInv, LogoutCallers
  <2> QED
    BY <1>1, <1>3, <2>1, PageWatches
<1>4. CASE AutoLogoutTick
  <2>1. UNCHANGED <<prog, told>>
    BY <1>1, <1>4 DEF AutoLogoutTick
  <2>2. Resting
    BY <1>4, WatchedPage DEF AutoLogoutTick
  <2>3. Sends(calls, {"ensure"}, {"idle"}) /\ "run" \notin {"ensure"}
    BY <1>4, AutoLogoutTickStep
  <2>4. calls \in Seq(Call) /\ ToSet(calls) \subseteq ToSet(calls)
    BY DEF KioskInv, CallsPart
  <2> QED
    BY <2>1, <2>2, <2>3, <2>4, RestSends
<1>5. CASE ApprovalPoll
  <2>1. /\ Sends(calls, {"delete", "preview"}, {"none", "open"}) /\ UNCHANGED <<server, user, sr>>
        /\ "run" \notin {"delete", "preview"}
        /\ {"none", "open"} \cap (LogoutCallers \cup {"complete"}) = {}
    BY <1>5, ApprovalPollStep DEF ApprovalPoll, LogoutCallers
  <2> QED
    BY <1>1, <2>1, PageWatches
<1> QED
  BY <1>2, <1>3, <1>4, <1>5 DEF Timers

LEMMA GoToPageWatches ==
  ASSUME KioskInv, WatchInv, GoToPage, haste' = haste
  PROVE  WatchInv'
<1>1. /\ Sends(calls, {"preview"}, {"open"}) /\ UNCHANGED <<prog, told, user, sr>>
      /\ "run" \notin {"preview"} /\ {"open"} \cap (LogoutCallers \cup {"complete"}) = {}
  BY GoToPageStep DEF GoToPage, server, LogoutCallers
<1> QED
  BY <1>1, PageWatches

----------------------------------------------------------------------------
(***************************************************************************)
(* Answers                                                                 *)
(***************************************************************************)
\* An answer at rest starts nothing.
LEMMA RestAnswer ==
  ASSUME KioskInv, Resting, NEW i \in DOMAIN calls, Answer(i), haste' = haste
  PROVE  WatchInv'
<1> DEFINE c == calls[i]
           rest == RemoveAt(calls, i)
<1>1. Taken(c, rest) /\ UNCHANGED <<server, prog, told>>
  BY DEF Answer, Taken, server
<1>2. \/ /\ \/ RunAnswered(c, rest) \/ PollAnswered(c, rest)
            \/ CompleteAnswered(c, rest) \/ StopAnswered(c, rest)
         /\ UNCHANGED <<user, val>> /\ Stays
      \/ LeaveAnswered(c, rest) /\ UNCHANGED <<user, val>>
      \/ StartAnswered(c, rest) /\ UNCHANGED <<user, sr>> /\ Stays
      \/ SaveAnswered(c, rest) /\ UNCHANGED <<user, sr, val>> /\ Stays
      \/ /\ GoodbyeValidation(c, rest) \/ Goodbye(c, rest)
         /\ UNCHANGED <<val, page, going, goal, skip, last>>
      \/ /\ PreviewAnswered(c, rest)
         /\ UNCHANGED <<user, sr, val, page, goal, skip>>
  BY DEF Answer
<1>3. /\ rest \in Seq(Call) /\ ToSet(rest) \subseteq ToSet(calls) /\ c \in Fit(Len(reports))
      /\ c \in Call
  <2>1. calls \in Seq(Call) /\ ToSet(calls) \subseteq Fit(Len(reports))
    BY DEF KioskInv, CallsPart
  <2>2. /\ rest \in Seq(Call) /\ ToSet(rest) \subseteq ToSet(calls) /\ c \in ToSet(calls)
    BY <2>1, TakenFacts
  <2> HIDE DEF c, rest
  <2> QED
    BY <2>1, <2>2 DEF Fit
<1> HIDE DEF c, rest
<1> DEFINE testOps == {"put", "delete", "report", "live"}
           byeOps == {"report", "delete", "abort", "ensure"}
<1>4. \/ Sends(rest, testOps, {"none", "submit", "complete"})
      \/ Sends(rest, {"put"}, {"none"})
      \/ Sends(rest, {"delete", "preview"}, {"submit", "val", "open"})
      \/ Sends(rest, byeOps, {"bye", "byeTest"})
      \/ Sends(rest, {"preview"}, {"open"})
  BY <1>1, <1>2, <1>3, TestAnswerStep, StartAnswerStep, SaveAnswerStep, GoodbyeStep,
     PreviewAnswerStep
<1>5. /\ "run" \notin testOps /\ "run" \notin {"put"} /\ "run" \notin {"delete", "preview"}
      /\ "run" \notin byeOps /\ "run" \notin {"preview"}
  OBVIOUS
<1> HIDE DEF testOps, byeOps
<1> QED
  BY <1>1, <1>3, <1>4, <1>5, RestSends

\* An answer while a program runs does not end its test.
LEMMA WatchedAnswer ==
  ASSUME KioskInv, WatchInv, ~Resting, NEW i \in DOMAIN calls, Answer(i), haste' = haste
  PROVE  WatchInv'
<1> DEFINE c == calls[i]
           rest == RemoveAt(calls, i)
<1>1. Taken(c, rest) /\ UNCHANGED <<server, prog, told>> /\ c.at # "sent"
  BY DEF Answer, Taken, server
<1>2. \/ /\ \/ RunAnswered(c, rest) \/ PollAnswered(c, rest)
            \/ CompleteAnswered(c, rest) \/ StopAnswered(c, rest)
         /\ UNCHANGED <<user, val>> /\ Stays
      \/ LeaveAnswered(c, rest) /\ UNCHANGED <<user, val>>
      \/ StartAnswered(c, rest) /\ UNCHANGED <<user, sr>> /\ Stays
      \/ SaveAnswered(c, rest) /\ UNCHANGED <<user, sr, val>> /\ Stays
      \/ /\ GoodbyeValidation(c, rest) \/ Goodbye(c, rest)
         /\ UNCHANGED <<val, page, going, goal, skip, last>>
      \/ /\ PreviewAnswered(c, rest)
         /\ UNCHANGED <<user, sr, val, page, goal, skip>>
  BY DEF Answer
<1>3. /\ rest \in Seq(Call) /\ ToSet(rest) \subseteq ToSet(calls) /\ c \in Fit(Len(reports))
      /\ c \in Call /\ c \in ToSet(calls)
  <2>1. calls \in Seq(Call) /\ ToSet(calls) \subseteq Fit(Len(reports))
    BY DEF KioskInv, CallsPart
  <2>2. /\ rest \in Seq(Call) /\ ToSet(rest) \subseteq ToSet(calls) /\ c \in ToSet(calls)
    BY <2>1, TakenFacts
  <2> HIDE DEF c, rest
  <2> QED
    BY <2>1, <2>2 DEF Fit
<1> HIDE DEF c, rest
<1>4. /\ ~Ends(c) /\ Live /\ ~Asked /\ Watched(prog)
      /\ c.by = "start" => c.op = "run"
      /\ c.by = "tick" => c.op = "live"
      /\ c.by \in {"stop", "leave"} => c.op = "abort"
  BY <1>1, <1>3, CallFacts DEF WatchInv, Resting
<1>5. c.op \in Ops /\ c.at \in {"ok", "failed"}
  BY <1>1, <1>3 DEF Call
<1>6. ASSUME UNCHANGED user, sr'.test = sr.test, sr'.poll = sr.poll,
             NEW ops, NEW callers, Sends(rest, ops, callers), "run" \notin ops,
             callers \cap (LogoutCallers \cup {"complete"}) = {}
      PROVE  WatchInv'
  <2>1. /\ calls' \in Seq(Call) /\ ToSet(rest) \subseteq ToSet(calls')
        /\ \A d \in ToSet(calls') : \/ d \in ToSet(rest)
                                    \/ d \in New /\ d.op \in ops /\ d.by \in callers
    BY <1>3, <1>6, SentFacts
  <2>2. \A d \in New : d.op \in ops /\ d.by \in callers => ~IsAsk(d) /\ ~Ends(d)
    BY <1>6, CallFacts
  <2>3. \A d \in ToSet(rest) : ~IsAsk(d) /\ ~Ends(d)
    BY <1>3, <1>4 DEF WatchInv, Resting, Asked
  <2>4. \A d \in ToSet(calls') : ~IsAsk(d) /\ ~Ends(d)
    BY <2>1, <2>2, <2>3
  <2>5. ~Asked' /\ \A j \in DOMAIN calls' : ~IsAsk(calls'[j])
    BY <2>4 DEF Asked, ToSet
  <2>6. Live' => Watched(prog)'
    BY <1>1, <1>4, <1>6 DEF Live, Watched
  <2> QED
    BY <2>4, <2>5, <2>6 DEF WatchInv
<1>7. CASE RunAnswered(c, rest) /\ UNCHANGED user
  <2>1. c.at = "ok"
    BY <1>4, <1>5, <1>7 DEF RunAnswered, Ends
  <2>2. sr'.test = sr.test /\ sr'.poll = sr.poll
    BY <1>7, <2>1 DEF RunAnswered, KioskInv, PagePart, TestPageTypes, Sr
  <2>3. /\ Sends(rest, {"put", "delete"}, {"none"}) /\ "run" \notin {"put", "delete"}
        /\ {"none"} \cap (LogoutCallers \cup {"complete"}) = {}
    BY <1>3, <1>7, RunAnsweredFacts DEF KioskInv, LogoutCallers
  <2> QED
    BY <1>6, <1>7, <2>2, <2>3
<1>8. CASE PollAnswered(c, rest) /\ UNCHANGED user
  <2>1. ~SeesEnd(c)
    BY <1>4, <1>8 DEF PollAnswered, SeesEnd, Ends
  <2>2. calls' = rest /\ sr' = sr
    BY <1>8, <2>1 DEF PollAnswered
  <2>3. Sends(rest, {}, {}) /\ "run" \notin {} /\ {} \cap (LogoutCallers \cup {"complete"}) = {}
    BY <1>3, <2>2, SendNone
  <2> QED
    BY <1>6, <1>8, <2>2, <2>3
<1>9. ~CompleteAnswered(c, rest) /\ ~StopAnswered(c, rest) /\ ~LeaveAnswered(c, rest)
  BY <1>1, <1>4 DEF CompleteAnswered, StopAnswered, LeaveAnswered, Ends
<1>10. ~GoodbyeValidation(c, rest) /\ ~Goodbye(c, rest)
  BY <1>1, <1>4 DEF GoodbyeValidation, Goodbye, Ends, LogoutCallers
<1>11. CASE StartAnswered(c, rest) /\ UNCHANGED <<user, sr>>
  <2>1. /\ Sends(rest, {"put"}, {"none"}) /\ "run" \notin {"put"}
        /\ {"none"} \cap (LogoutCallers \cup {"complete"}) = {}
    BY <1>3, <1>11, StartAnsweredFacts DEF KioskInv, LogoutCallers
  <2> QED
    BY <1>6, <1>11, <2>1
<1>12. CASE SaveAnswered(c, rest) /\ UNCHANGED <<user, sr, val>> /\ Stays
  <2>1. /\ Sends(rest, {"delete", "preview"}, {"submit", "val", "open"})
        /\ "run" \notin {"delete", "preview"}
        /\ {"submit", "val", "open"} \cap (LogoutCallers \cup {"complete"}) = {}
    BY <1>1, <1>3, <1>12, SaveAnswerStep DEF LogoutCallers
  <2> QED
    BY <1>6, <1>12, <2>1
<1>13. CASE PreviewAnswered(c, rest) /\ UNCHANGED <<user, sr, val, page, goal, skip>>
  <2>1. /\ Sends(rest, {"preview"}, {"open"}) /\ "run" \notin {"preview"}
        /\ {"open"} \cap (LogoutCallers \cup {"complete"}) = {}
    BY <1>1, <1>3, <1>13, PreviewAnswerStep DEF LogoutCallers
  <2> QED
    BY <1>6, <1>13, <2>1
<1> QED
  BY <1>2, <1>7, <1>8, <1>9, <1>10, <1>11, <1>12, <1>13

----------------------------------------------------------------------------
(***************************************************************************)
(* The server                                                              *)
(***************************************************************************)
\* The program thread and other screens leave the calls alone.
Elsewise == ProgramBegins \/ NextSegment \/ ProgramEnds \/ ClosedElsewhere

LEMMA ElsewiseKeeps ==
  ASSUME Elsewise
  PROVE  UNCHANGED <<calls, user, told, fails>> /\ prog' \in {prog, None}
BY DEF Elsewise, ProgramBegins, NextSegment, ProgramEnds, ClosedElsewhere

\* Rest lasts: an answered request asks for no program.
LEMMA ServerRests ==
  ASSUME KioskInv, Resting, ServerStep
  PROVE  WatchInv'
<1>1. CASE Elsewise
  <2>1. UNCHANGED <<calls, told>> /\ prog' \in {prog, None}
    BY <1>1, ElsewiseKeeps
  <2>2. ~Live' /\ ~Asked'
    BY <2>1 DEF Resting, Live, Asked
  <2> QED
    BY <2>2 DEF WatchInv, Resting, Asked, ToSet
<1>2. ASSUME NEW i \in DOMAIN calls, Lands(i) \/ Refuses(i) PROVE WatchInv'
  <2>1. PICK at \in {"ok", "failed"} : Served(i, at)
    BY <1>2, ServedCall
  <2>2. \A d \in ToSet(calls') : d \in ToSet(calls) \/ d.at = at
    BY <2>1, ServedLeaves
  <2>3. ~Asked'
    BY <2>2 DEF Resting, Asked, IsAsk
  <2>4. ~IsAsk(calls[i])
    BY CallsFacts, RemoveAtSet DEF Resting, Asked
  <2>5. prog' = prog /\ told \subseteq told'
    BY <1>2, <2>4 DEF IsAsk, Lands, Refuses, LandsRun, LandsAbort, LandsComplete, LandsStart,
       LandsStop, LandsCheckpoint, LandsReport, LandsRead
  <2>6. ~Live'
    BY <2>5 DEF Resting, Live
  <2> QED
    BY <2>3, <2>6 DEF WatchInv, Resting, Asked, ToSet
<1> QED
  BY <1>1, <1>2 DEF ServerStep, Elsewise

\* What the server leaves under way when a call lands.
LEMMA LandedSet ==
  ASSUME KioskInv, NEW i \in DOMAIN calls, Lands(i)
  PROVE  \A d \in ToSet(calls') : \/ d \in ToSet(calls)
                                  \/ d = Answered(calls[i]) /\ ~Silent(calls[i])
<1> DEFINE c == calls[i]
           n == Len(reports) + (IF c.op = "report" THEN 1 ELSE 0)
<1>1. /\ c.at = "sent" /\ c \in Fit(Len(reports))
      /\ calls' = IF Silent(c) THEN RemoveAt(calls, i) ELSE [calls EXCEPT ![i] = Answered(c)]
  BY CallsFacts, RemoveAtSet DEF Lands
<1>2. n \in Nat /\ Len(reports) <= n
  BY ReportsLen DEF KioskInv
<1>3. ~Silent(c) => Answered(c) \in Fit(n)
  BY <1>1, AnsweredFacts
<1> HIDE DEF n
<1> QED
  BY <1>1, <1>2, <1>3, ServedFacts

\* The request for a program lands or is refused before any other, so that no
\* other has been answered.
LEMMA AskServed ==
  ASSUME Prompt, KioskInv, WatchInv, Asked, NEW i \in DOMAIN calls,
         Lands(i) \/ Refuses(i), UNCHANGED <<user, sr>>
  PROVE  WatchInv'
<1> DEFINE c == calls[i]
<1>1. PICK k \in DOMAIN calls : IsAsk(calls[k])
  BY DEF Asked, ToSet
<1>2. k = 1 /\ Watched(calls[1].of) /\ \A d \in ToSet(calls) : d.at = "sent" /\ ~Ends(d)
  BY <1>1 DEF WatchInv, Resting
<1>3. InTurn(i) /\ DOMAIN calls = 1 .. Len(calls) /\ Len(calls) \in Nat
  BY CallsFacts, LenProperties DEF Lands, Refuses
<1>4. i = 1
  <2>1. calls[1].at = "sent"
    BY <1>1, <1>2 DEF IsAsk
  <2> QED
    BY <1>3, <2>1 DEF InTurn
<1>5. /\ c.op = "run" /\ c.at = "sent" /\ c.by = "start" /\ c \in ToSet(calls)
      /\ c \in Fit(Len(reports)) /\ ~Live
  <2>1. c.op = "run" /\ c.at = "sent" /\ c \in ToSet(calls) /\ c \in Fit(Len(reports)) /\ ~Live
    BY <1>1, <1>2, <1>4, CallsFacts, RemoveAtSet DEF IsAsk, WatchInv
  <2> QED
    BY <2>1 DEF Fit
<1>6. ASSUME NEW x, x.op = "run", x.at # "sent", calls' = [calls EXCEPT ![i] = x]
      PROVE  /\ ~Asked' /\ \A j \in DOMAIN calls' : ~IsAsk(calls'[j])
             /\ \A d \in ToSet(calls') : d \in ToSet(calls) \/ d = x
  <2>1. DOMAIN calls' = DOMAIN calls /\ \A j \in DOMAIN calls : calls'[j] = IF j = i THEN x ELSE calls[j]
    BY <1>6
  <2>2. \A j \in DOMAIN calls : j # i => ~IsAsk(calls[j])
    BY <1>4 DEF WatchInv
  <2>3. \A j \in DOMAIN calls' : ~IsAsk(calls'[j])
    BY <1>6, <2>1, <2>2 DEF IsAsk
  <2> QED
    BY <2>1, <2>3 DEF Asked, ToSet
<1>7. CASE Lands(i)
  <2> DEFINE x == Answered(c)
  <2>1. calls' = [calls EXCEPT ![i] = x] /\ prog' = c.of /\ told' = told
    BY <1>5, <1>7 DEF Lands, Silent, LandsRun, LandsAbort, LandsComplete, LandsStart,
       LandsStop, LandsCheckpoint, LandsReport, LandsRead
  <2>2. x.op = "run" /\ x.by = "start" /\ x.at = "ok"
    BY <1>5, AnsweredFacts DEF Silent
  <2> HIDE DEF x, c
  <2>3. /\ ~Asked' /\ \A j \in DOMAIN calls' : ~IsAsk(calls'[j])
        /\ \A d \in ToSet(calls') : d \in ToSet(calls) \/ d = x
    BY <1>6, <2>1, <2>2
  <2>4. \A d \in ToSet(calls') : ~Ends(d)
    BY <1>2, <2>2, <2>3 DEF Ends, LogoutCallers
  <2>5. Watched(prog)'
    BY <1>2, <1>4, <2>1 DEF Watched, c
  <2> QED
    BY <2>3, <2>4, <2>5 DEF WatchInv
<1>8. CASE Refuses(i)
  <2> DEFINE x == [c EXCEPT !.at = "failed"]
  <2>1. /\ calls' = [calls EXCEPT ![i] = x] /\ UNCHANGED <<prog, told>>
        /\ x.op = "run" /\ x.at # "sent"
    BY <1>5, <1>8 DEF Refuses, Silent, Fit, Call
  <2> HIDE DEF x, c
  <2>2. ~Asked' /\ \A j \in DOMAIN calls' : ~IsAsk(calls'[j])
    BY <1>6, <2>1
  <2>3. Resting'
    BY <1>5, <2>1, <2>2 DEF Resting, Live
  <2> QED
    BY <2>2, <2>3 DEF WatchInv, Resting
<1> QED
  BY <1>7, <1>8

\* While the program runs no poll sees an end, as the thread has begun before
\* the poll lands.
LEMMA RunServed ==
  ASSUME Prompt, KioskInv, WaitInv, ResetInv, WatchInv, Live, NEW i \in DOMAIN calls,
         Lands(i) \/ Refuses(i), UNCHANGED <<user, sr>>, fails' = 0
  PROVE  WatchInv'
<1> DEFINE c == calls[i]
<1>1. /\ Watched(prog) /\ ~Asked /\ c \in ToSet(calls) /\ c \in Fit(Len(reports))
      /\ c.signed /\ c.op # "run" /\ c.at = "sent"
      /\ \A d \in ToSet(calls) : ~Ends(d) /\ ~IsAsk(d)
  <2>1. /\ Watched(prog) /\ ~Asked /\ c \in ToSet(calls) /\ c \in Fit(Len(reports))
        /\ \A d \in ToSet(calls) : ~Ends(d) /\ ~IsAsk(d)
    BY CallsFacts, RemoveAtSet DEF WatchInv, Resting, Asked
  <2>2. c.signed
    BY <2>1 DEF Watched, WaitInv, OutInv
  <2>3. c.at = "sent"
    BY DEF Lands, Refuses
  <2> QED
    BY <2>1, <2>2, <2>3 DEF IsAsk
<1>2. Lands(i)
  <2>1. fails \in Nat
    BY ServerAssumption DEF KioskInv, ServerPart
  <2>2. ~Refuses(i)
    <3> HIDE DEF c
    <3>1. Refuses(i) => fails' = fails + 1
      BY <1>1 DEF Refuses, c
    <3> QED
      BY <2>1, <3>1
  <2> QED
    BY <2>2
<1>3. ~ended
  BY <1>2 DEF Lands, InTurn, Live, ResetInv
<1> DEFINE x == Answered(c)
<1>4. \A d \in ToSet(calls') : d \in ToSet(calls) \/ (d = x /\ ~Silent(c))
  BY <1>2, LandedSet
<1>5. ~Silent(c) => x.op = c.op /\ x.by = c.by /\ x.at = "ok" /\ (x.op = "live" => ~x.sees)
  <2>1. ~Silent(c) => x.op = c.op /\ x.by = c.by /\ x.at = "ok"
    BY <1>1, AnsweredFacts
  <2>2. c.op = "live" => ~x.sees
    <3> HIDE DEF c
    <3> QED
      BY <1>1, <1>3 DEF Answered, Fit, Call
  <2> QED
    BY <2>1, <2>2
<1>6. \/ prog' = prog /\ told' = told /\ c.op \notin {"abort", "complete"}
      \/ prog' = prog /\ prog \in told'
  BY <1>1, <1>2 DEF Live, Lands, LandsRun, LandsAbort, LandsComplete, LandsStart,
     LandsStop, LandsCheckpoint, LandsReport, LandsRead
<1> HIDE DEF c, x
<1>7. \A d \in ToSet(calls') : ~IsAsk(d)
  BY <1>1, <1>4, <1>5 DEF IsAsk
<1>8. ~Asked' /\ \A j \in DOMAIN calls' : ~IsAsk(calls'[j])
  BY <1>7 DEF Asked, ToSet
<1>9. CASE prog' = prog /\ told' = told /\ c.op \notin {"abort", "complete"}
  <2>1. ~Silent(c) => ~Ends(x)
    BY <1>1, <1>5, <1>9 DEF Ends
  <2>2. \A d \in ToSet(calls') : ~Ends(d)
    BY <1>1, <1>4, <2>1
  <2>3. Watched(prog)'
    BY <1>1, <1>9 DEF Watched
  <2> QED
    BY <1>8, <2>2, <2>3 DEF WatchInv
<1>10. CASE prog' = prog /\ prog \in told'
  <2>1. ~Live'
    BY <1>10 DEF Live
  <2> QED
    BY <1>8, <2>1 DEF WatchInv, Resting
<1> QED
  BY <1>6, <1>9, <1>10

LEMMA ServerWatches ==
  ASSUME Prompt, KioskInv, WaitInv, ResetInv, WatchInv, ServerStep, fails' = 0
  PROVE  WatchInv'
<1>1. CASE Resting
  BY <1>1, ServerRests
<1>2. CASE ~Resting /\ Elsewise
  <2>1. UNCHANGED <<calls, user, told, sr>> /\ prog' \in {prog, None}
    BY <1>2, ElsewiseKeeps DEF ServerStep, page_
  <2>2. (Asked' <=> Asked) /\ (Live' => Live /\ prog' = prog)
    BY <2>1 DEF Asked, Live
  <2>3. Live' => Watched(prog)' /\ ~Asked'
    BY <2>1, <2>2 DEF WatchInv, Watched
  <2>4. \A i \in DOMAIN calls' : IsAsk(calls'[i]) => i = 1 /\ Watched(calls[i].of)'
    BY <2>1 DEF WatchInv, Watched
  <2>5. \A c \in ToSet(calls') : ~Ends(c) /\ (Asked' => c.at = "sent")
    BY <1>2, <2>1, <2>2 DEF WatchInv
  <2> QED
    BY <2>3, <2>4, <2>5 DEF WatchInv
<1>3. ASSUME ~Resting, NEW i \in DOMAIN calls, Lands(i) \/ Refuses(i) PROVE WatchInv'
  <2>1. UNCHANGED <<user, sr>>
    BY <1>3 DEF ServerStep, page_, Lands, Refuses
  <2> QED
    BY <1>3, <2>1, AskServed, RunServed DEF Resting
<1> QED
  BY <1>1, <1>2, <1>3 DEF ServerStep, Elsewise

----------------------------------------------------------------------------
(***************************************************************************)
(* The invariant and the theorem                                           *)
(***************************************************************************)
LEMMA WatchInit == Init => WatchInv
<1> SUFFICES ASSUME Init PROVE WatchInv
  OBVIOUS
<1>1. prog = None /\ calls = <<>>
  BY DEF Init, ServerInit
<1>2. ~Live /\ ~Asked
  BY <1>1 DEF Live, Asked, ToSet
<1> QED
  BY <1>2, RestingWatch DEF Resting

\* No step takes a refusal back.
LEMMA FailsGrow ==
  ASSUME KioskInv, Next, fails' = 0
  PROVE  fails = 0
<1>1. fails \in Nat
  BY ServerAssumption DEF KioskInv, ServerPart
<1>2. fails' = fails \/ fails' = fails + 1
  <2>1. CASE UNCHANGED server \/ Approve
    BY <2>1 DEF server, Approve
  <2>2. CASE ServerStep
    BY <2>2 DEF ServerStep, Lands, Refuses, ProgramBegins, NextSegment, ProgramEnds,
       ClosedElsewhere
  <2>3. CASE Presses /\ ~Approve
    <3>1. UNCHANGED server \/ Login
      BY <2>3 DEF Presses, OnTestPage, OnValidationPage, BackFromValidation, LoadRecipe,
        OpenValidation, Navigate, OpenReport, PressLogout, PressOk, PressCancel, PressChoice
    <3>2. Login => fails' = fails
      BY DEF Login
    <3> QED
      BY <2>1, <3>1, <3>2
  <2>4. CASE Timers \/ GoToPage \/ \E i \in DOMAIN calls : Answer(i)
    <3>1. UNCHANGED server
      BY <2>4 DEF Timers, AutoLogoutTick, ApprovalPoll, GoToPage, Answer
    <3> QED
      BY <2>1, <3>1
  <2> QED
    BY <2>1, <2>2, <2>3, <2>4 DEF Next, Press
<1> QED
  BY <1>1, <1>2

LEMMA WatchStep ==
  ASSUME Prompt, KioskInv, Waited => WaitInv, ResetInv, Smooth => WatchInv, Next
  PROVE  Smooth' => WatchInv'
<1> SUFFICES ASSUME haste' = 0, fails' = 0 PROVE WatchInv'
  BY DEF Smooth
<1> WaitInv /\ WatchInv
  BY HasteGrows, FailsGrow DEF Waited, Smooth
<1>1. CASE GoToPage /\ UNCHANGED haste
  BY <1>1, GoToPageWatches
<1>2. CASE Press
  <2>1. Idle /\ Presses /\ haste' \in 0 .. MaxHaste
    BY <1>2, WaitingPress
  <2> QED
    BY <2>1, RestPress, WatchedPress
<1>3. CASE Timers /\ UNCHANGED haste
  BY <1>3, TimerWatches
<1>4. CASE ServerStep
  BY <1>4, ServerWatches
<1>5. CASE (\E i \in DOMAIN calls : Answer(i)) /\ UNCHANGED haste
  BY <1>5, RestAnswer, WatchedAnswer
<1> QED
  BY <1>1, <1>2, <1>3, <1>4, <1>5 DEF Next

LEMMA WatchStutter == (Smooth => WatchInv) /\ UNCHANGED vars => (Smooth' => WatchInv')
<1> SUFFICES ASSUME WatchInv, UNCHANGED vars PROVE WatchInv'
  BY DEF vars, server, Smooth
<1>1. UNCHANGED <<prog, told, calls, user, sr>>
  BY DEF vars, server, page_
<1>2. (Live' <=> Live) /\ (Asked' <=> Asked) /\ (Resting' <=> Resting)
  BY <1>1 DEF Live, Asked, Resting
<1>3. \A t : Watched(t) => user' /\ sr'.test = t /\ sr'.poll
  BY <1>1 DEF Watched
<1> QED
  BY <1>1, <1>2, <1>3 DEF WatchInv, Watched

LEMMA WatchAlways ==
  ASSUME Prompt
  PROVE  Spec => [](Smooth => WatchInv)
<1>1. /\ KioskInv /\ (Waited => WaitInv) /\ ResetInv /\ (Smooth => WatchInv) /\ [Next]_vars
      => (Smooth' => WatchInv')
  BY WatchStep, WatchStutter
<1> QED
  BY <1>1, WatchInit, KioskAlways, WaitAlways, ResetAlways, PTL DEF Spec

\* A program that drives the load never runs behind the user's back: while it
\* has not been told to end, someone is logged in and the test page shows
\* this very test as running.  pollShakerLive and completeTestRun read the
\* live state of whichever program ran last, and every way out of the page
\* ends the run first.  This holds as long as the user has waited for the
\* answers and no request has been refused, when requests land in the order
\* of sending and a thread begins before the next one lands.
THEOREM RunAttended ==
  ASSUME Prompt
  PROVE  Spec => [](haste = 0 => RunIsAttended)
<1>1. ASSUME Waited => WaitInv, Smooth => WatchInv PROVE haste = 0 => RunIsAttended
  <2> SUFFICES ASSUME haste = 0, fails = 0, Live PROVE user /\ sr.test = prog /\ sr.running
    BY DEF RunIsAttended, Live
  <2>1. WaitInv /\ Watched(prog)
    BY <1>1 DEF Waited, Smooth, WatchInv
  <2> QED
    BY <2>1 DEF Watched, WaitInv, PageInv
<1> QED
  BY <1>1, WaitAlways, WatchAlways, PTL

----------------------------------------------------------------------------
(***************************************************************************)
(* Before the first validation                                             *)
(***************************************************************************)
\* Until a validation has been opened none is active, and nothing asks about
\* one or waits for an answer about one.
BareInv ==
  val.run = None =>
    /\ ~ValidationActive
    /\ By(calls) \cap {"val", "byeTest"} = {}
    /\ ask \notin {"stopVal", "leaveVal", "backVal"}

LEMMA ValidationStays ==
  ASSUME KioskInv, Next, val'.run = None
  PROVE  val.run = None
<1>1. val \in Val /\ MaxTests \in Nat /\ val.run \in Nat
  BY ValFields, ServerAssumption DEF KioskInv, PagePart, ValidationTypes
<1>2. val'.run = val.run \/ val'.run = MaxTests + 1 \/ val'.run = val.run + 1
  <2>1. CASE PressValidate \/ PressAbort \/ SubmitAmplitude \/ ValidationTick \/ ValidationOver
    BY <1>1, <2>1 DEF PressValidate, PressAbort, SubmitAmplitude, SavesValidation,
       ValidationTick, ValidationOver, StopsValidation, Val
  <2>2. CASE LogsOut
    BY <1>1, <2>2 DEF LogsOut, AbortsValidation, Val
  <2>3. CASE OpenValidation
    BY <1>1, <2>3 DEF OpenValidation, Ready
  <2>4. CASE PressOk
    <3>1. \/ UNCHANGED val \/ LogsOut \/ StopsValidation(TRUE, calls)
      BY <2>4 DEF PressOk, Yes
    <3>2. CASE StopsValidation(TRUE, calls)
      BY <1>1, <3>2 DEF StopsValidation, SavesValidation, Val
    <3> QED
      BY <2>2, <3>1, <3>2
  <2>5. CASE PressLogout
    BY <2>2, <2>5 DEF PressLogout
  <2>6. CASE UNCHANGED val
    BY <2>6
  <2>7. CASE \E i \in DOMAIN calls : Answer(i)
    <3>1. PICK i \in DOMAIN calls : UNCHANGED val \/ StartAnswered(calls[i], RemoveAt(calls, i))
      BY <2>7 DEF Answer
    <3> QED
      BY <1>1, <3>1 DEF StartAnswered, Val
  <2> QED
    BY <2>1, <2>2, <2>3, <2>4, <2>5, <2>6, <2>7
    DEF Next, Press, Presses, Timers, ServerStep, GoToPage, OnTestPage, OnValidationPage,
        BackFromValidation, LoadRecipe, Navigate, OpenReport, Login, PressCancel, PressChoice,
        Approve, AutoLogoutTick, ApprovalPoll
<1> HIDE DEF None
<1>3. val.run # None => val.run + 1 # None /\ MaxTests + 1 # None
  BY <1>1 DEF None
<1> QED
  BY <1>1, <1>2, <1>3 DEF None

LEMMA LogsOutBare ==
  ASSUME KioskInv, ~ValidationActive, LogsOut
  PROVE  Sends(calls, {"abort", "report", "ensure"}, {"bye"}) /\ UNCHANGED val
<1>1. calls \in Seq(Call) /\ PagePart
  BY DEF KioskInv, CallsPart
<1>2. CASE AbortsNow(calls) /\ UNCHANGED val
  BY <1>1, <1>2, AbortsNowFacts
<1>3. CASE calls' = Append(calls, Request("ensure", None, "bye")) /\ UNCHANGED val
  BY <1>1, <1>3, NewRequests, SendRequest
<1> QED
  BY <1>2, <1>3 DEF LogsOut

LEMMA SentBare ==
  ASSUME val.run = None, BareInv, UNCHANGED val,
         ask' \in {ask, "none", "stop", "leaveTest", "logout"},
         NEW rest \in Seq(Call), ToSet(rest) \subseteq ToSet(calls),
         NEW ops, NEW callers, Sends(rest, ops, callers),
         callers \cap {"val", "byeTest"} = {}
  PROVE  BareInv'
<1>1. By(calls') \subseteq By(rest) \cup callers /\ By(rest) \subseteq By(calls)
  BY SentFacts DEF By
<1> QED
  BY <1>1 DEF BareInv, ValidationActive

LEMMA PressBare ==
  ASSUME KioskInv, val.run = None, BareInv, Presses, val'.run = None, haste' \in 0 .. MaxHaste
  PROVE  BareInv'
<1>1. /\ calls \in Seq(Call) /\ ToSet(calls) \subseteq ToSet(calls)
      /\ ~ValidationActive /\ ~val.enabled
      /\ ask \notin {"stopVal", "leaveVal", "backVal"}
  BY DEF BareInv, KioskInv, CallsPart, PagePart
<1>2. CASE OnTestPage
  <2>1. Sends(calls, TestPageOps, TestPageCallers) /\ TestPageCallers \cap {"val", "byeTest"} = {}
    BY <1>2, OnTestPageStep DEF TestPageCallers
  <2>2. UNCHANGED val /\ ask' \in {ask, "stop"}
    BY <1>2 DEF OnTestPage, PressStart, Weighed, PressComplete, PressStop, SaveWeights, NoModal,
       Asks
  <2> QED
    BY <1>1, <2>1, <2>2, SentBare
<1>3. ~OnValidationPage /\ ~BackFromValidation
  BY <1>1 DEF OnValidationPage, PressValidate, PressAbort, SubmitAmplitude, BackFromValidation,
     ValidationActive
<1>4. ~OpenValidation
  <2>1. MaxTests \in Nat /\ MaxTests + 1 # None
    BY ServerAssumption DEF None
  <2> QED
    BY <2>1 DEF OpenValidation, Ready, None
<1>5. CASE LoadRecipe \/ Navigate \/ PressCancel
  <2>1. UNCHANGED <<calls, val>> /\ ask' \in {ask, "none"}
    BY <1>5 DEF LoadRecipe, Navigate, PressCancel
  <2>2. Sends(calls, {}, {})
    BY <1>1, <2>1, SendNone
  <2> QED
    BY <1>1, <2>1, <2>2, SentBare
<1>6. CASE OpenReport
  <2>1. Sends(calls, {"preview"}, {"open"})
    BY <1>6, OpenReportStep
  <2>2. UNCHANGED val /\ ask' = ask
    BY <1>6 DEF OpenReport, OpensPreview, NoModal, Notice
  <2> QED
    BY <1>1, <2>1, <2>2, SentBare
<1>7. CASE Login
  <2>1. \/ calls' = calls
        \/ \E c \in Fit(Len(reports)) : c.by = "again" /\ calls' = Append(calls, c)
    BY <1>7, LoginStep
  <2>2. \A c \in Fit(Len(reports)) : ToSet(Append(calls, c)) = ToSet(calls) \cup {c}
    BY <1>1, AppendFacts DEF Fit
  <2>3. By(calls') \subseteq By(calls) \cup {"again"}
    BY <2>1, <2>2 DEF By
  <2>4. UNCHANGED <<val, ask>>
    BY <1>7 DEF Login
  <2> QED
    BY <2>3, <2>4 DEF BareInv, ValidationActive
<1>8. CASE PressLogout
  <2>1. CASE UNCHANGED <<calls, sr, val>> /\ Asks("logout")
    <3>1. Sends(calls, {}, {}) /\ ask' = "logout"
      BY <1>1, <2>1, SendNone DEF Asks
    <3> QED
      BY <1>1, <2>1, <3>1, SentBare
  <2>2. CASE gate # None /\ Notice /\ UNCHANGED val
    <3>1. Sends(calls, {"preview"}, {"open"}) /\ ask' = ask
      BY <1>8, <2>2, PressLogoutStep DEF Notice
    <3> QED
      BY <1>1, <2>2, <3>1, SentBare
  <2>3. CASE LogsOut /\ NoModal
    <3>1. /\ Sends(calls, {"abort", "report", "ensure"}, {"bye"}) /\ UNCHANGED val /\ ask' = ask
      BY <1>1, <2>3, LogsOutBare DEF NoModal
    <3> QED
      BY <1>1, <3>1, SentBare
  <2> QED
    BY <1>8, <2>1, <2>2, <2>3 DEF PressLogout
<1>9. CASE PressOk
  <2>1. ask' = "none"
    BY <1>9 DEF PressOk
  <2>2. CASE /\ ask \in {"stop", "leaveTest"} /\ UNCHANGED val
             /\ calls' = Append(calls, Request("abort", sr.test,
                                               IF ask = "stop" THEN "stop" ELSE "leave"))
    <3> DEFINE by == IF ask = "stop" THEN "stop" ELSE "leave"
    <3>1. by \in {"stop", "leave"} /\ calls' = Append(calls, Request("abort", sr.test, by))
      BY <2>2
    <3> HIDE DEF by
    <3>2. sr.test \in Nat /\ by \in {"stop", "leave", "bye"}
      BY <3>1, SrFields DEF KioskInv, PagePart, TestPageTypes
    <3>3. Request("abort", sr.test, by) \in New
      BY <3>2, NewRequests
    <3>4. Sends(calls, {"abort"}, {"stop", "leave"})
      BY <1>1, <3>1, <3>3, SendRequest
    <3> QED
      BY <1>1, <2>1, <2>2, <3>4, SentBare
  <2>3. CASE LogsOut
    BY <1>1, <2>1, <2>3, LogsOutBare, SentBare
  <2>4. CASE UNCHANGED <<calls, val>>
    <3>1. Sends(calls, {}, {})
      BY <1>1, <2>4, SendNone
    <3> QED
      BY <1>1, <2>1, <2>4, <3>1, SentBare
  <2> QED
    BY <1>1, <1>9, <2>2, <2>3, <2>4 DEF PressOk, Yes
<1>10. CASE PressChoice
  <2>1. Sends(calls, {"put", "report"}, {"none", "submit"})
    BY <1>10, PressChoiceStep
  <2>2. UNCHANGED <<val, ask>>
    BY <1>10 DEF PressChoice, Choose
  <2> QED
    BY <1>1, <2>1, <2>2, SentBare
<1>11. CASE Approve
  <2>1. Sends(calls, {"delete", "preview"}, {"none", "open"})
    BY <1>11, ApproveStep
  <2>2. UNCHANGED <<val, ask>>
    BY <1>11 DEF Approve, Unlocks, Notice
  <2> QED
    BY <1>1, <2>1, <2>2, SentBare
<1> QED
  BY <1>2, <1>3, <1>4, <1>5, <1>6, <1>7, <1>8, <1>9, <1>10, <1>11 DEF Presses

LEMMA TimerBare ==
  ASSUME KioskInv, val.run = None, BareInv, Timers, haste' = haste
  PROVE  BareInv'
<1>1. /\ calls \in Seq(Call) /\ ToSet(calls) \subseteq ToSet(calls) /\ ~ValidationActive
      /\ PagePart /\ CallsPart
  BY DEF BareInv, KioskInv, CallsPart
<1>2. CASE Tick /\ UNCHANGED <<server, user, val>> /\ Stays
  <2>1. Sends(calls, {"live", "put"}, {"tick", "none"}) /\ ask' = ask
    BY <1>1, <1>2, TickFacts DEF Tick, NoModal
  <2> QED
    BY <1>1, <1>2, <2>1, SentBare
<1>3. ~ValidationTick /\ ~ValidationOver
  BY <1>1 DEF ValidationTick, ValidationOver, ValidationActive
<1>4. CASE AutoLogoutTick
  <2>1. Sends(calls, {"ensure"}, {"idle"}) /\ UNCHANGED <<val, ask>>
    BY <1>4, AutoLogoutTickStep DEF AutoLogoutTick, page_
  <2> QED
    BY <1>1, <2>1, SentBare
<1>5. CASE ApprovalPoll
  <2>1. Sends(calls, {"delete", "preview"}, {"none", "open"}) /\ UNCHANGED <<val, ask>>
    BY <1>5, ApprovalPollStep DEF ApprovalPoll, Unlocks, Notice
  <2> QED
    BY <1>1, <2>1, SentBare
<1> QED
  BY <1>2, <1>3, <1>4, <1>5 DEF Timers

LEMMA GoToPageBare ==
  ASSUME KioskInv, val.run = None, BareInv, GoToPage, haste' = haste
  PROVE  BareInv'
<1>1. calls \in Seq(Call) /\ ToSet(calls) \subseteq ToSet(calls) /\ ~ValidationActive
  BY DEF BareInv, KioskInv, CallsPart
<1>2. Sends(calls, {"preview"}, {"open"})
  BY GoToPageStep
<1>3. UNCHANGED val /\ ask' \in {ask, "leaveTest"}
  BY <1>1 DEF GoToPage, GuardAsks, AsksTest, AsksVal, Asks, PreviewHolds, Notice, Arrives, NoModal
<1> QED
  BY <1>1, <1>2, <1>3, SentBare

\* An answer that goes on with a test, a report or a logout: nobody waits for
\* one about a validation.
LEMMA AnswerCases ==
  ASSUME KioskInv, val.run = None, BareInv, NEW i \in DOMAIN calls, Answer(i)
  PROVE  LET c == calls[i]
             rest == RemoveAt(calls, i)
         IN  /\ c.by \notin {"val", "byeTest"}
             /\ c \in Fit(Len(reports)) /\ c \in Call /\ c \in ToSet(calls)
             /\ rest \in Seq(Call) /\ ToSet(rest) \subseteq ToSet(calls)
             /\ UNCHANGED <<server, val>>
             /\ \/ RunAnswered(c, rest) /\ UNCHANGED user /\ Stays
                \/ PollAnswered(c, rest) /\ UNCHANGED user /\ Stays
                \/ CompleteAnswered(c, rest) /\ UNCHANGED user /\ Stays
                \/ StopAnswered(c, rest) /\ UNCHANGED user /\ Stays
                \/ LeaveAnswered(c, rest) /\ UNCHANGED user
                \/ SaveAnswered(c, rest) /\ UNCHANGED <<user, sr>> /\ Stays
                \/ Goodbye(c, rest) /\ UNCHANGED <<page, going, goal, skip, last>>
                \/ PreviewAnswered(c, rest) /\ UNCHANGED <<user, sr, page, goal, skip>>
<1> DEFINE c == calls[i]
           rest == RemoveAt(calls, i)
<1>1. /\ rest \in Seq(Call) /\ ToSet(rest) \subseteq ToSet(calls) /\ c \in ToSet(calls)
      /\ c \in Fit(Len(reports)) /\ c \in Call
  BY CallsFacts, TakenFacts
<1>2. c.by \notin {"val", "byeTest"}
  BY <1>1 DEF BareInv, By
<1>3. c.op # "start"
  BY <1>1, <1>2, CallsFacts
<1>4. /\ UNCHANGED server
      /\ \/ /\ \/ RunAnswered(c, rest) \/ PollAnswered(c, rest)
               \/ CompleteAnswered(c, rest) \/ StopAnswered(c, rest)
            /\ UNCHANGED <<user, val>> /\ Stays
         \/ LeaveAnswered(c, rest) /\ UNCHANGED <<user, val>>
         \/ StartAnswered(c, rest) /\ UNCHANGED <<user, sr>> /\ Stays
         \/ SaveAnswered(c, rest) /\ UNCHANGED <<user, sr, val>> /\ Stays
         \/ /\ GoodbyeValidation(c, rest) \/ Goodbye(c, rest)
            /\ UNCHANGED <<val, page, going, goal, skip, last>>
         \/ /\ PreviewAnswered(c, rest)
            /\ UNCHANGED <<user, sr, val, page, goal, skip>>
  BY DEF Answer
<1> HIDE DEF c, rest
<1>5. ~StartAnswered(c, rest) /\ ~GoodbyeValidation(c, rest)
  BY <1>2, <1>3 DEF StartAnswered, GoodbyeValidation
<1>6. /\ c.by \notin {"val", "byeTest"}
      /\ c \in Fit(Len(reports)) /\ c \in Call /\ c \in ToSet(calls)
      /\ rest \in Seq(Call) /\ ToSet(rest) \subseteq ToSet(calls)
      /\ UNCHANGED <<server, val>>
      /\ \/ RunAnswered(c, rest) /\ UNCHANGED user /\ Stays
         \/ PollAnswered(c, rest) /\ UNCHANGED user /\ Stays
         \/ CompleteAnswered(c, rest) /\ UNCHANGED user /\ Stays
         \/ StopAnswered(c, rest) /\ UNCHANGED user /\ Stays
         \/ LeaveAnswered(c, rest) /\ UNCHANGED user
         \/ SaveAnswered(c, rest) /\ UNCHANGED <<user, sr>> /\ Stays
         \/ Goodbye(c, rest) /\ UNCHANGED <<page, going, goal, skip, last>>
         \/ PreviewAnswered(c, rest) /\ UNCHANGED <<user, sr, page, goal, skip>>
  BY <1>1, <1>2, <1>4, <1>5
<1> QED
  BY <1>6 DEF c, rest

LEMMA AnswerBare ==
  ASSUME KioskInv, val.run = None, BareInv, NEW i \in DOMAIN calls, Answer(i), haste' = haste
  PROVE  BareInv'
<1> DEFINE c == calls[i]
           rest == RemoveAt(calls, i)
<1>1. /\ c.by \notin {"val", "byeTest"}
      /\ c \in Fit(Len(reports)) /\ c \in Call
      /\ rest \in Seq(Call) /\ ToSet(rest) \subseteq ToSet(calls)
      /\ UNCHANGED <<server, val>>
      /\ \/ RunAnswered(c, rest) /\ UNCHANGED user /\ Stays
         \/ PollAnswered(c, rest) /\ UNCHANGED user /\ Stays
         \/ CompleteAnswered(c, rest) /\ UNCHANGED user /\ Stays
         \/ StopAnswered(c, rest) /\ UNCHANGED user /\ Stays
         \/ LeaveAnswered(c, rest) /\ UNCHANGED user
         \/ SaveAnswered(c, rest) /\ UNCHANGED <<user, sr>> /\ Stays
         \/ Goodbye(c, rest) /\ UNCHANGED <<page, going, goal, skip, last>>
         \/ PreviewAnswered(c, rest) /\ UNCHANGED <<user, sr, page, goal, skip>>
  BY AnswerCases
<1> HIDE DEF c, rest
<1>2. ASSUME \/ RunAnswered(c, rest) /\ UNCHANGED user /\ Stays
             \/ PollAnswered(c, rest) /\ UNCHANGED user /\ Stays
             \/ CompleteAnswered(c, rest) /\ UNCHANGED user /\ Stays
             \/ StopAnswered(c, rest) /\ UNCHANGED user /\ Stays
             \/ LeaveAnswered(c, rest) /\ UNCHANGED user
      PROVE  BareInv'
  <2>1. Sends(rest, {"put", "delete", "report", "live"}, {"none", "submit", "complete"})
    BY <1>1, <1>2, TestAnswerStep
  <2>2. ask' = ask
    BY <1>2 DEF RunAnswered, PollAnswered, CompleteAnswered, StopAnswered, LeaveAnswered,
       FinishRun, NoModal, Notice
  <2> QED
    BY <1>1, <2>1, <2>2, SentBare
<1>3. CASE SaveAnswered(c, rest) /\ UNCHANGED <<user, sr>> /\ Stays
  <2>1. ask' = ask
    BY <1>3 DEF SaveAnswered, OpensPreview, NoModal, Notice
  <2>2. By(calls') \cap {"val", "byeTest"} = {}
    <3>1. By(rest) \cap {"val", "byeTest"} = {} /\ c.by = "submit"
      BY <1>1, <1>3 DEF BareInv, By, SaveAnswered
    <3>2. \/ calls' = rest
          \/ \E x \in Call : x.by \in {"submit", "open"} /\ calls' = Append(rest, x)
      <4>1. c.of \in Nat /\ "submit" \in Callers /\ "open" \in Callers /\ {"delete", "preview"} \subseteq Ops
        BY <1>1 DEF Call, Callers, Ops
      <4>2. Request("delete", c.of, "submit") \in Call /\ Request("preview", c.of, "open") \in Call
        <5>1. TRUE \in BOOLEAN /\ "delete" \in Ops /\ "preview" \in Ops
          BY <4>1
        <5> QED
          BY <4>1, <5>1, RequestType
      <4>3. /\ Request("delete", c.of, "submit").by = "submit"
            /\ Request("preview", c.of, "open").by = "open"
        BY RequestFields
      <4> QED
        BY <1>3, <3>1, <4>2, <4>3 DEF SaveAnswered, OpensPreview
    <3>3. \A x \in Call : ToSet(Append(rest, x)) = ToSet(rest) \cup {x}
      BY <1>1, AppendFacts
    <3>4. \A d \in ToSet(calls') : d \in ToSet(rest) \/ d.by \in {"submit", "open"}
      BY <3>2, <3>3
    <3> QED
      BY <3>1, <3>4 DEF By
  <2> QED
    BY <1>1, <2>1, <2>2 DEF BareInv, ValidationActive
<1>4. CASE Goodbye(c, rest) /\ UNCHANGED <<page, going, goal, skip, last>>
  <2>1. ask' = ask
    BY <1>4 DEF Goodbye
  <2>2. Sends(rest, {"report", "delete", "ensure"}, {"bye"})
    <3>1. CASE c.op = "abort" /\ SavesPartial(rest)
      BY <1>1, <3>1, SavesPartialFacts, SendsMore DEF KioskInv
    <3>2. CASE calls' = Append(rest, IF c.op = "report" /\ c.at = "ok"
                                     THEN Request("delete", None, "bye")
                                     ELSE Request("ensure", None, "bye"))
      <4>1. Request("delete", None, "bye") \in New /\ Request("ensure", None, "bye") \in New
        BY NewRequests DEF None
      <4>2. /\ Request("delete", None, "bye").op = "delete" /\ Request("delete", None, "bye").by = "bye"
            /\ Request("ensure", None, "bye").op = "ensure" /\ Request("ensure", None, "bye").by = "bye"
        BY RequestFields
      <4>3. \E x \in New : x.op \in {"delete", "ensure"} /\ x.by = "bye" /\ calls' = Append(rest, x)
        BY <3>2, <4>1, <4>2
      <4> QED
        BY <1>1, <4>3, SendOne
    <3>3. CASE calls' = rest
      BY <1>1, <3>3, SendNone
    <3> QED
      BY <1>4, <3>1, <3>2, <3>3 DEF Goodbye
  <2> QED
    BY <1>1, <2>1, <2>2, SentBare
<1>5. CASE PreviewAnswered(c, rest) /\ UNCHANGED <<user, sr, page, goal, skip>>
  <2>1. Sends(rest, {"preview"}, {"open"})
    BY <1>1, <1>5, PreviewAnswerStep
  <2>2. ask' = ask
    BY <1>5 DEF PreviewAnswered, OpensPreview, NoModal, Notice
  <2> QED
    BY <1>1, <2>1, <2>2, SentBare
<1> QED
  BY <1>1, <1>2, <1>3, <1>4, <1>5

LEMMA BareStep == KioskInv /\ BareInv /\ Next => BareInv'
<1> SUFFICES ASSUME KioskInv, BareInv, Next, val'.run = None PROVE BareInv'
  BY DEF BareInv
<1>1. val.run = None
  BY ValidationStays
<1>2. CASE GoToPage /\ UNCHANGED haste
  BY <1>1, <1>2, GoToPageBare
<1>3. CASE Press
  <2>1. Presses /\ haste' \in 0 .. MaxHaste
    BY <1>3, KioskAssumption DEF Press, KioskInv, ShellPart
  <2> QED
    BY <1>1, <2>1, PressBare
<1>4. CASE Timers /\ UNCHANGED haste
  BY <1>1, <1>4, TimerBare
<1>5. CASE ServerStep
  <2>1. UNCHANGED <<val, ask>>
    BY <1>5 DEF ServerStep, page_
  <2>2. By(calls') \subseteq By(calls)
    <3>1. CASE \E i \in DOMAIN calls : Lands(i) \/ Refuses(i)
      <4>1. PICK i \in DOMAIN calls, at \in {"ok", "failed"} : Served(i, at)
        BY <3>1, ServedCall
      <4> QED
        BY <4>1, ServedLeaves
    <3>2. CASE Elsewise
      BY <3>2, ElsewiseKeeps DEF By
    <3> QED
      BY <1>5, <3>1, <3>2 DEF ServerStep, Elsewise
  <2> QED
    BY <2>1, <2>2 DEF BareInv, ValidationActive
<1>6. CASE (\E i \in DOMAIN calls : Answer(i)) /\ UNCHANGED haste
  BY <1>1, <1>6, AnswerBare
<1> QED
  BY <1>2, <1>3, <1>4, <1>5, <1>6 DEF Next

LEMMA BareAlways == Spec => []BareInv
<1>1. Init => BareInv
  <2> SUFFICES ASSUME Init PROVE BareInv
    OBVIOUS
  <2>1. calls = <<>> /\ ask = "none" /\ val = Ready(None)
    BY DEF Init, ServerInit, TestPageInit, ValidationInit
  <2>2. By(calls) = {}
    BY <2>1 DEF By, ToSet
  <2> QED
    BY <2>1, <2>2 DEF BareInv, ValidationActive, Ready
<1>2. BareInv /\ UNCHANGED vars => BareInv'
  BY DEF vars, page_, BareInv, ValidationActive, By, ToSet
<1> QED
  BY <1>1, <1>2, BareStep, KioskAlways, PTL DEF Spec

----------------------------------------------------------------------------
(***************************************************************************)
(* One report of a test: the invariant                                     *)
(***************************************************************************)
\* The call will save a report of t; at most one of them will.
IsPost(c, t) == c.op = "report" /\ c.at = "sent" /\ c.of = t
Sole(s, t) == \A i, j \in DOMAIN s : IsPost(s[i], t) /\ IsPost(s[j], t) => i = j

\* The test of the page has weighed sieves; its report is on its way or saved.
Analysed == sr.analysis /\ sr.test # None
Filing == \E c \in ToSet(calls) : IsPost(c, sr.test)
Filed == \E i \in DOMAIN reports : reports[i].of = sr.test

\* The page waits for the abort of a test before a logout.
Leaving == \E c \in ToSet(calls) : c.op = "abort" /\ c.by = "bye"

\* Nothing on the page and no answer under way can end the test again.
PageShut ==
  /\ sr.done /\ ~sr.running /\ ~sr.weighing /\ sr.wizard = "none"
  /\ modal # "choice" /\ ask = "none"
CallsShut == \A c \in ToSet(calls) : c.op # "abort" /\ c.by # "complete"

\* No report has the number of a later test.
NumberInv ==
  /\ \A i \in DOMAIN reports : reports[i].of <= sr.test
  /\ \A c \in ToSet(calls) : c.op = "report" /\ c.at = "sent" => c.of <= sr.test

DoneInv == sr.done => ~sr.running
ShutInv == Analysed /\ (Filed \/ Filing) => PageShut /\ CallsShut
SoleInv ==
  Analysed =>
    /\ Sole(calls, sr.test)
    /\ \A i, j \in DOMAIN reports : reports[i].of = sr.test /\ reports[j].of = sr.test => i = j
    /\ ~(Filed /\ Filing)

\* Nothing else is going on during the abort of a logout.
ByeInv ==
  Analysed /\ Leaving =>
    /\ ask = "none" /\ modal # "choice" /\ going = "nowhere"
    /\ By(calls) \subseteq {"bye", "tick", "none"} /\ Once(calls, {"bye"})

SingleInv == NumberInv /\ DoneInv /\ ShutInv /\ SoleInv /\ ByeInv

\* The reports are those of before, though one may have been closed.
SameNumbers ==
  DOMAIN reports' = DOMAIN reports /\ \A i \in DOMAIN reports : reports'[i].of = reports[i].of

SameTest == sr'.test = sr.test /\ sr'.analysis = sr.analysis

----------------------------------------------------------------------------
(***************************************************************************)
(* One report of a test: what a handler does                               *)
(***************************************************************************)
LEMMA SoleTaken ==
  ASSUME NEW s \in Seq(Call), NEW i \in DOMAIN s, NEW t, Sole(s, t)
  PROVE  Sole(RemoveAt(s, i), t)
<1> DEFINE r == RemoveAt(s, i)
           from[j \in DOMAIN r] == IF j < i THEN j ELSE j + 1
<1>1. /\ r \in Seq(Call) /\ Len(s) \in Nat /\ DOMAIN s = 1 .. Len(s) /\ i \in 1 .. Len(s)
      /\ DOMAIN r = 1 .. Len(s) - 1
      /\ \A j \in 1 .. Len(s) - 1 : r[j] = IF j < i THEN s[j] ELSE s[j + 1]
  BY RemoveAtFacts, LenProperties
<1> HIDE DEF r
<1>2. \A j \in DOMAIN r : from[j] \in DOMAIN s /\ r[j] = s[from[j]]
  BY <1>1
<1>3. \A j, k \in DOMAIN r : from[j] = from[k] => j = k
  BY <1>1
<1> HIDE DEF from
<1>4. Sole(r, t)
  BY <1>2, <1>3 DEF Sole
<1> QED
  BY <1>4 DEF r

\* Requests that are no reports make no report.
LEMMA SoleGrown ==
  ASSUME NEW rest \in Seq(Call), NEW t, Sole(rest, t), NEW ops, NEW callers,
         Sends(rest, ops, callers), "report" \notin ops
  PROVE  /\ Sole(calls', t)
         /\ \A c \in ToSet(calls') : c \in ToSet(rest) \/ c.op # "report"
<1>1. PICK new \in SUBSET New : /\ Grown(calls', rest, new)
                                /\ \A c \in new : c.op \in ops /\ c.by \in callers
  BY DEF Sends
<1> DEFINE s == calls'
<1>2. /\ s \in Seq(Call) /\ Len(rest) \in Nat /\ Len(s) \in Nat
      /\ ToSet(s) = ToSet(rest) \cup new
      /\ \A i \in 1 .. Len(rest) : s[i] = rest[i]
      /\ \A i \in Len(rest) + 1 .. Len(s) : s[i] \in new
      /\ DOMAIN s = 1 .. Len(s) /\ DOMAIN rest = 1 .. Len(rest)
  BY <1>1, LenProperties DEF Grown
<1> HIDE DEF s
<1>3. ASSUME NEW i \in DOMAIN s, s[i].op = "report" PROVE i \in DOMAIN rest /\ s[i] = rest[i]
  <2>1. CASE i \in 1 .. Len(rest)
    BY <1>2, <2>1
  <2>2. CASE i \in Len(rest) + 1 .. Len(s)
    BY <1>1, <1>2, <1>3, <2>2
  <2> QED
    BY <1>2, <2>1, <2>2
<1>4. Sole(s, t)
  BY <1>3 DEF Sole, IsPost
<1>5. \A c \in ToSet(s) : c \in ToSet(rest) \/ c.op # "report"
  BY <1>1, <1>2
<1> QED
  BY <1>4, <1>5 DEF s

\* A step of the page that files nothing, and keeps a shut page shut.
LEMMA KeepsSingle ==
  ASSUME SingleInv, SameNumbers, SameTest, DoneInv', ByeInv',
         NEW rest \in Seq(Call), ToSet(rest) \subseteq ToSet(calls),
         \A t : Sole(calls, t) => Sole(rest, t),
         NEW ops, NEW callers, Sends(rest, ops, callers), "report" \notin ops,
         Analysed /\ PageShut /\ CallsShut =>
           PageShut' /\ "abort" \notin ops /\ "complete" \notin callers
  PROVE  SingleInv'
<1>1. /\ calls' \in Seq(Call)
      /\ \A c \in ToSet(calls') : \/ c \in ToSet(rest)
                                  \/ c \in New /\ c.op \in ops /\ c.by \in callers
  BY SentFacts
<1>2. \A c \in ToSet(calls') : c \in ToSet(calls) \/ c.op # "report"
  BY <1>1
<1>3. NumberInv'
  BY <1>2 DEF SingleInv, NumberInv, SameNumbers, SameTest
<1>4. (Analysed' <=> Analysed) /\ (Filed' <=> Filed) /\ (Filing' => Filing)
  BY <1>2 DEF Analysed, Filed, Filing, SameNumbers, SameTest, IsPost
<1>5. ASSUME PageShut, CallsShut, Analysed PROVE PageShut' /\ CallsShut'
  BY <1>1, <1>5 DEF CallsShut
<1>6. ShutInv'
  BY <1>4, <1>5 DEF SingleInv, ShutInv
<1>7. Analysed => Sole(calls', sr.test)
  BY SoleGrown DEF SingleInv, SoleInv
<1>8. SoleInv'
  <2>1. ASSUME Analysed
        PROVE  /\ \A i, j \in DOMAIN reports' :
                    reports'[i].of = sr'.test /\ reports'[j].of = sr'.test => i = j
               /\ ~(Filed' /\ Filing')
    BY <1>4, <2>1 DEF SingleInv, SoleInv, SameNumbers, SameTest
  <2> QED
    BY <1>4, <1>7, <2>1 DEF SoleInv, SameTest, Sole
<1> QED
  BY <1>3, <1>6, <1>8 DEF SingleInv

\* A step that files the report of a test that has none: with sieves weighed,
\* the page is shut by it.
LEMMA FilesSingle ==
  ASSUME KioskInv, SingleInv, SameNumbers, SameTest, DoneInv',
         NEW rest \in Seq(Call), ToSet(rest) \subseteq ToSet(calls),
         NEW x \in Call, IsPost(x, sr.test), x.by # "complete", calls' = Append(rest, x),
         Analysed => /\ ~Filed /\ ~Filing /\ PageShut'
                     /\ \A c \in ToSet(rest) : c.op # "abort" /\ c.by # "complete"
  PROVE  SingleInv'
<1>1. /\ ToSet(calls') = ToSet(rest) \cup {x} /\ Len(rest) \in Nat
      /\ DOMAIN calls' = 1 .. Len(rest) + 1 /\ DOMAIN rest = 1 .. Len(rest)
      /\ \A j \in 1 .. Len(rest) : calls'[j] = rest[j]
      /\ calls'[Len(rest) + 1] = x
  BY AppendFacts, AppendProperties, LenProperties
<1>2. sr.test \in Nat /\ x.op = "report" /\ x.at = "sent" /\ x.of = sr.test
  BY SrFields DEF KioskInv, PagePart, TestPageTypes, IsPost
<1>3. NumberInv'
  BY <1>1, <1>2 DEF SingleInv, NumberInv, SameNumbers, SameTest
<1>4. (Analysed' <=> Analysed) /\ (Filed' <=> Filed)
  BY DEF Analysed, Filed, SameNumbers, SameTest
<1>5. ASSUME Analysed PROVE PageShut' /\ CallsShut' /\ ~Leaving' /\ ~Filed'
  BY <1>1, <1>2, <1>4, <1>5 DEF CallsShut, Leaving
<1>6. ASSUME Analysed PROVE Sole(calls', sr.test)
  <2>1. \A j \in 1 .. Len(rest) : ~IsPost(rest[j], sr.test)
    BY <1>1, <1>6 DEF Filing, ToSet
  <2> QED
    BY <1>1, <2>1 DEF Sole
<1>7. ASSUME Analysed
      PROVE  \A i, j \in DOMAIN reports' :
               reports'[i].of = sr'.test /\ reports'[j].of = sr'.test => i = j
  BY <1>7 DEF Filed, SameNumbers, SameTest
<1>8. ShutInv' /\ SoleInv' /\ ByeInv'
  BY <1>4, <1>5, <1>6, <1>7 DEF ShutInv, SoleInv, ByeInv, SameTest, Sole
<1> QED
  BY <1>3, <1>8 DEF SingleInv

\* Without weighed sieves a test may be filed more than once.
LEMMA LooseSingle ==
  ASSUME KioskInv, SingleInv, SameNumbers, SameTest, DoneInv', ~sr.analysis,
         \A d \in ToSet(calls') : d \in ToSet(calls) \/ (d.op = "report" => d.of = sr.test)
  PROVE  SingleInv'
<1>1. sr.test \in Nat
  BY SrFields DEF KioskInv, PagePart, TestPageTypes
<1>2. NumberInv'
  BY <1>1 DEF SingleInv, NumberInv, SameNumbers, SameTest
<1>3. ~Analysed'
  BY DEF Analysed, SameTest
<1> QED
  BY <1>2, <1>3 DEF SingleInv, ShutInv, SoleInv, ByeInv

\* The abort of a logout goes on alone.
LEMMA ByeKeeps ==
  ASSUME SingleInv, SameTest,
         NEW rest \in Seq(Call), ToSet(rest) \subseteq ToSet(calls),
         Once(calls, {"bye"}) => Once(rest, {"bye"}),
         NEW ops, NEW callers, Sends(rest, ops, callers), "abort" \notin ops,
         Analysed /\ Leaving =>
           /\ ask' = "none" /\ modal' # "choice" /\ going' = "nowhere"
           /\ callers \subseteq {"tick", "none"}
  PROVE  ByeInv'
<1>1. /\ By(calls') \subseteq By(rest) \cup callers
      /\ \A c \in ToSet(calls') : c \in ToSet(rest) \/ c.op \in ops
  BY SentFacts
<1>2. (Leaving' => Leaving) /\ (Analysed' <=> Analysed)
  BY <1>1 DEF Leaving, Analysed, SameTest
<1>3. ASSUME Analysed, Leaving
      PROVE  By(calls') \subseteq {"bye", "tick", "none"} /\ Once(calls', {"bye"})
  <2>1. By(rest) \subseteq By(calls)
    BY DEF By
  <2>2. Once(calls', {"bye"})
    <3>1. callers \cap {"bye"} = {} /\ Once(rest, {"bye"})
      BY <1>3 DEF SingleInv, ByeInv
    <3> QED
      BY <3>1, SentOnce
  <2> QED
    BY <1>1, <1>3, <2>1, <2>2 DEF SingleInv, ByeInv
<1> QED
  BY <1>2, <1>3 DEF ByeInv

----------------------------------------------------------------------------
(***************************************************************************)
(* One report of a test: the user                                          *)
(***************************************************************************)
\* A press, which finds no call under way, and files nothing.
LEMMA PressKeeps ==
  ASSUME KioskInv, SingleInv, Idle, SameNumbers, SameTest, DoneInv',
         NEW ops, NEW callers, Sends(calls, ops, callers), "report" \notin ops,
         "abort" \notin ops \/ "bye" \notin callers,
         Analysed /\ PageShut =>
           PageShut' /\ "abort" \notin ops /\ "complete" \notin callers
  PROVE  SingleInv'
<1>1. calls \in Seq(Call) /\ ToSet(calls) = {}
  BY DEF KioskInv, CallsPart, Idle, ToSet
<1>2. \A c \in ToSet(calls') : c.op \in ops /\ c.by \in callers
  BY <1>1, SentFacts
<1>3. ~Leaving'
  BY <1>2 DEF Leaving
<1> QED
  BY <1>1, <1>3, KeepsSingle DEF ByeInv

\* Nothing is filed of a test that the page can still end.
LEMMA OpenUnfiled ==
  ASSUME SingleInv, Analysed, ~PageShut \/ ~CallsShut
  PROVE  ~Filed /\ ~Filing
BY DEF SingleInv, ShutInv

LEMMA LogsOutSingle ==
  ASSUME KioskInv, SingleInv, ~ValidationActive, Idle, going = "nowhere", UNCHANGED reports,
         LogsOut, modal' = "none", ask' = "none", going' = going
  PROVE  SingleInv'
<1>1. /\ calls \in Seq(Call) /\ ToSet(calls) \subseteq ToSet(calls) /\ ToSet(calls) = {}
      /\ sr \in Sr /\ SameNumbers /\ sr.test \in Nat
  <2>1. calls \in Seq(Call) /\ sr \in Sr
    BY DEF KioskInv, CallsPart, PagePart, TestPageTypes
  <2>2. ToSet(calls) = {}
    BY DEF Idle, ToSet
  <2> QED
    BY <2>1, <2>2, SrFields DEF SameNumbers
<1>2. CASE calls' = Append(calls, Request("ensure", None, "bye")) /\ UNCHANGED sr
  <2>1. Sends(calls, {"ensure"}, {"bye"}) /\ "report" \notin {"ensure"} /\ "abort" \notin {"ensure"}
    BY <1>1, <1>2, NewRequests, SendRequest
  <2>2. SameTest /\ DoneInv' /\ (PageShut => PageShut')
    BY <1>2 DEF SameTest, DoneInv, PageShut, SingleInv
  <2> QED
    BY <1>1, <2>1, <2>2, PressKeeps
<1>3. CASE /\ Operating /\ sr.running
           /\ sr' = [sr EXCEPT !.aborted = TRUE]
           /\ calls' = Append(calls, Request("abort", sr.test, "bye"))
  <2> DEFINE x == Request("abort", sr.test, "bye")
  <2>1. x \in New /\ x \in Call /\ x.op = "abort" /\ x.by = "bye"
    <3>1. "bye" \in {"stop", "leave", "bye"}
      OBVIOUS
    <3>2. x \in New
      BY <1>1, <3>1, NewRequests
    <3>3. x.op = "abort" /\ x.by = "bye"
      BY RequestFields
    <3> QED
      BY <3>2, <3>3, NewCall
  <2>0. calls' = Append(calls, x) /\ calls \in Seq(Call)
    BY <1>1, <1>3
  <2> HIDE DEF x
  <2>2. Sends(calls, {"abort"}, {"bye"}) /\ "report" \notin {"abort"}
    <3>1. x.op \in {"abort"} /\ x.by \in {"bye"} /\ "report" \notin {"abort"}
      BY <2>1
    <3>2. x \in New
      BY <2>1
    <3>3. Sends(calls, {"abort"}, {"bye"})
      BY <2>0, <3>1, <3>2, SendOne
    <3> QED
      BY <3>1, <3>3
  <2>3. SameTest /\ DoneInv' /\ ~PageShut
    BY <1>1, <1>3 DEF SameTest, DoneInv, PageShut, SingleInv, Sr
  <2>4. calls' = <<x>>
    BY <2>0 DEF Idle
  <2>5. By(calls') = {"bye"} /\ Once(calls', {"bye"})
    BY <2>1, <2>4 DEF By, ToSet, Once
  <2>6. ByeInv'
    BY <2>5 DEF ByeInv
  <2> QED
    BY <1>1, <2>2, <2>3, <2>6, KeepsSingle
<1>4. CASE Operating /\ ~sr.running /\ SavesPartial(calls)
  <2> DEFINE x == PostReport(sr.test, "bye", TRUE)
  <2>1. /\ x \in Call /\ IsPost(x, sr.test) /\ x.by # "complete"
    <3>1. "bye" \in Callers /\ "report" \in Ops /\ TRUE \in BOOLEAN
      BY DEF Callers, Ops
    <3>2. x \in Call
      BY <1>1, <3>1, RequestType
    <3>3. x.op = "report" /\ x.at = "sent" /\ x.of = sr.test /\ x.by = "bye"
      BY DEF PostReport, Request
    <3> QED
      BY <3>2, <3>3 DEF IsPost
  <2>2. /\ SameTest /\ DoneInv' /\ PageShut' /\ ~PageShut
    BY <1>1, <1>4 DEF SavesPartial, SameTest, DoneInv, PageShut, Operating, Sr
  <2>3. calls' = Append(calls, x)
    BY <1>4 DEF SavesPartial
  <2> HIDE DEF x
  <2> QED
    BY <1>1, <2>1, <2>2, <2>3, OpenUnfiled, FilesSingle
<1> QED
  BY <1>2, <1>3, <1>4 DEF LogsOut, AbortsNow

LEMMA TestPressSingle ==
  ASSUME KioskInv, WaitInv, SingleInv, Idle, going = "nowhere", OnTestPage,
         haste' \in 0 .. MaxHaste
  PROVE  SingleInv'
<1>1. /\ calls \in Seq(Call) /\ sr \in Sr /\ sr.test \in Nat /\ page = "test" /\ user
      /\ UNCHANGED <<server, user>> /\ SameNumbers /\ Stays /\ modal = "none"
      /\ PressStart \/ Weighed \/ PressComplete \/ PressStop \/ SaveWeights
  BY SrFields DEF KioskInv, CallsPart, PagePart, TestPageTypes, OnTestPage, Free, server,
     SameNumbers
<1>2. sr.test \in Runs \cup {None} /\ sr.test \in Tests
  BY <1>1, SrFields DEF KioskInv, ShellPart
<1>3. CASE PressStart \/ Weighed \/ PressComplete \/ PressStop
  <2>1. ~PageShut /\ SameTest
    BY <1>1, <1>3 DEF PageShut, PressStart, Weighed, PressComplete, PressStop, SameTest, Sr
  <2>2. DoneInv'
    <3>1. CASE Weighed
      <4>1. ~sr.done
        BY <1>1, <3>1 DEF WaitInv, BeforeInv, Weighed
      <4> QED
        BY <1>1, <3>1, <4>1 DEF Weighed, DoneInv, Sr
    <3>2. CASE PressStart \/ PressComplete \/ PressStop
      BY <1>1, <3>2 DEF PressStart, PressComplete, PressStop, DoneInv, SingleInv, Sr
    <3> QED
      BY <1>3, <3>1, <3>2
  <2>3. Sends(calls, {"put", "run", "complete"}, {"none", "start", "complete"})
    <3>1. CASE PressStop
      BY <1>1, <3>1, SendNone DEF PressStop
    <3>2. CASE PressStart
      <4>1. Request("put", sr.test, "none") \in New
        BY <1>2, NewRunRequests
      <4>2. calls' = Append(calls, Request("put", sr.test, "none"))
        BY <3>2 DEF PressStart
      <4> QED
        BY <1>1, <4>1, <4>2, SendRequest
    <3>3. CASE PressComplete
      BY <1>1, <3>3, NewRequests, SendRequest DEF PressComplete
    <3>4. CASE Weighed
      BY <1>1, <1>2, <3>4, NewRunRequests, SendRequest DEF Weighed
    <3> QED
      BY <1>3, <3>1, <3>2, <3>3, <3>4
  <2>4. "report" \notin {"put", "run", "complete"} /\ "bye" \notin {"none", "start", "complete"}
    OBVIOUS
  <2> QED
    BY <1>1, <2>1, <2>2, <2>3, <2>4, PressKeeps
<1>4. CASE SaveWeights
  <2> DEFINE x == PostReport(sr.test, "submit", sr.aborted)
  <2>1. /\ sr' = Submitted(sr) /\ calls' = Append(calls, x) /\ sr.wizard = "after"
        /\ UNCHANGED <<modal, ask>>
    BY <1>4 DEF SaveWeights, Submits, NoModal
  <2>2. x \in Call /\ IsPost(x, sr.test) /\ x.by # "complete"
    <3>1. "submit" \in Callers /\ "report" \in Ops /\ sr.aborted \in BOOLEAN
      BY <1>1, SrFields DEF Callers, Ops
    <3>2. x \in Call
      BY <1>1, <3>1, RequestType
    <3>3. x.op = "report" /\ x.at = "sent" /\ x.of = sr.test /\ x.by = "submit"
      BY DEF PostReport, Request
    <3> QED
      BY <3>2, <3>3 DEF IsPost
  <2> HIDE DEF x
  <2>3. sr.done /\ ~sr.running /\ ask = "none"
    BY <1>1, <2>1 DEF WaitInv, AskInv, SingleInv, DoneInv
  <2>4. SameTest /\ DoneInv' /\ PageShut' /\ ~PageShut
    BY <1>1, <2>1, <2>3 DEF Submitted, SameTest, DoneInv, PageShut, Sr
  <2>5. ToSet(calls) \subseteq ToSet(calls) /\ ToSet(calls) = {}
    BY DEF Idle, ToSet
  <2> QED
    BY <1>1, <2>1, <2>2, <2>4, <2>5, OpenUnfiled, FilesSingle
<1> QED
  BY <1>1, <1>3, <1>4

\* The next recipe has a number that nothing has been filed under.
LEMMA RecipeSingle ==
  ASSUME KioskInv, SingleInv, Idle, LoadRecipe
  PROVE  SingleInv'
<1>1. /\ UNCHANGED <<reports, calls>> /\ sr.test \in Nat
      /\ \E analysis \in BOOLEAN : sr' = Blank(sr.test + 1, analysis)
  BY SrFields DEF LoadRecipe, KioskInv, PagePart, TestPageTypes, server
<1>2. sr'.test = sr.test + 1 /\ ~sr'.done
  BY <1>1 DEF Blank
<1>3. \A i \in DOMAIN reports : reports[i].of \in Nat
  <2>1. reports \in Seq(Report)
    BY DEF KioskInv, ServerPart
  <2>2. \A i \in DOMAIN reports : reports[i] \in Report
    BY <2>1, ElementOfSeq, LenProperties
  <2> QED
    BY <2>2, ServerAssumption DEF Report, Runs, Tests, Validations, None
<1>4. \A i \in DOMAIN reports : reports[i].of <= sr.test
  BY DEF SingleInv, NumberInv
<1>5. ToSet(calls') = {}
  BY <1>1 DEF Idle, ToSet
<1>6. \A i \in DOMAIN reports' : reports'[i].of <= sr'.test /\ reports'[i].of # sr'.test
  <2> SUFFICES ASSUME NEW i \in DOMAIN reports
               PROVE  reports[i].of <= sr.test + 1 /\ reports[i].of # sr.test + 1
    BY <1>1, <1>2
  <2>1. reports[i].of \in Nat /\ reports[i].of <= sr.test
    BY <1>3, <1>4
  <2> QED
    BY <1>1, <2>1
<1>7. ~Filed' /\ ~Filing' /\ ~Leaving'
  BY <1>5, <1>6 DEF Filed, Filing, Leaving
<1>8. Sole(calls', sr'.test)
  BY <1>1 DEF Sole, Idle
<1> QED
  BY <1>2, <1>5, <1>6, <1>7, <1>8
  DEF SingleInv, NumberInv, DoneInv, ShutInv, SoleInv, ByeInv, Sole

LEMMA ChoiceSingle ==
  ASSUME KioskInv, WaitInv, SingleInv, Idle, PressChoice
  PROVE  SingleInv'
<1>1. /\ calls \in Seq(Call) /\ sr \in Sr /\ sr.test \in Nat /\ sr.test \in Runs \cup {None}
      /\ SameNumbers /\ modal = "choice" /\ modal' = "none" /\ ask' = ask
      /\ Weighs(sr, calls) \/ Submits(sr, calls)
  BY SrFields DEF KioskInv, CallsPart, PagePart, TestPageTypes, PressChoice, Choose, server,
     SameNumbers
<1>2. sr.done /\ ~sr.running /\ ask = "none" /\ ~PageShut
  BY <1>1 DEF WaitInv, AskInv, SingleInv, DoneInv, PageShut
<1>3. CASE Weighs(sr, calls)
  <2>1. sr' = AfterWizard(sr) /\ calls' = Append(calls, Request("put", sr.test, "none"))
    BY <1>3 DEF Weighs
  <2>2. SameTest /\ DoneInv'
    BY <1>1, <1>2, <2>1 DEF AfterWizard, SameTest, DoneInv, Sr
  <2>3. Request("put", sr.test, "none") \in New
    BY <1>1, NewRunRequests
  <2>4. Sends(calls, {"put"}, {"none"}) /\ "report" \notin {"put"} /\ "bye" \notin {"none"}
    BY <1>1, <2>1, <2>3, SendRequest
  <2> QED
    BY <1>1, <1>2, <2>2, <2>4, PressKeeps
<1>4. CASE Submits(sr, calls)
  <2> DEFINE x == PostReport(sr.test, "submit", sr.aborted)
  <2>1. sr' = Submitted(sr) /\ calls' = Append(calls, x)
    BY <1>4 DEF Submits
  <2>2. x \in Call /\ IsPost(x, sr.test) /\ x.by # "complete"
    <3>1. "submit" \in Callers /\ "report" \in Ops /\ sr.aborted \in BOOLEAN
      BY <1>1, SrFields DEF Callers, Ops
    <3>2. x \in Call
      BY <1>1, <3>1, RequestType
    <3>3. x.op = "report" /\ x.at = "sent" /\ x.of = sr.test /\ x.by = "submit"
      BY DEF PostReport, Request
    <3> QED
      BY <3>2, <3>3 DEF IsPost
  <2> HIDE DEF x
  <2>3. SameTest /\ DoneInv' /\ PageShut'
    BY <1>1, <1>2, <2>1 DEF Submitted, SameTest, DoneInv, PageShut, Sr
  <2>4. ToSet(calls) \subseteq ToSet(calls) /\ ToSet(calls) = {}
    BY DEF Idle, ToSet
  <2> QED
    BY <1>1, <1>2, <2>1, <2>2, <2>3, <2>4, OpenUnfiled, FilesSingle
<1> QED
  BY <1>1, <1>3, <1>4

\* An OK to a question: only the yes to a logout can file a report.
LEMMA OkSingle ==
  ASSUME KioskInv, SingleInv, val.run = None, BareInv, Idle, going = "nowhere", PressOk
  PROVE  SingleInv'
<1>1. /\ calls \in Seq(Call) /\ sr \in Sr /\ sr.test \in Nat /\ UNCHANGED reports /\ SameNumbers
      /\ modal' = "none" /\ ask' = "none"
      /\ ~ValidationActive /\ ask \notin {"stopVal", "leaveVal", "backVal"}
  BY SrFields DEF KioskInv, CallsPart, PagePart, TestPageTypes, PressOk, server, SameNumbers,
     BareInv
<1>2. CASE /\ ask \in {"stop", "leaveTest"} /\ UNCHANGED sr
           /\ calls' = Append(calls, Request("abort", sr.test,
                                             IF ask = "stop" THEN "stop" ELSE "leave"))
  <2> DEFINE by == IF ask = "stop" THEN "stop" ELSE "leave"
  <2>1. by \in {"stop", "leave"} /\ calls' = Append(calls, Request("abort", sr.test, by))
    BY <1>2
  <2> HIDE DEF by
  <2>2. by \in {"stop", "leave", "bye"}
    BY <2>1
  <2>3. Request("abort", sr.test, by) \in New
    BY <1>1, <2>2, NewRequests
  <2>4. /\ Sends(calls, {"abort"}, {"stop", "leave"}) /\ "report" \notin {"abort"}
        /\ "bye" \notin {"stop", "leave"}
    BY <1>1, <2>1, <2>3, SendRequest
  <2>5. SameTest /\ DoneInv' /\ ~PageShut
    BY <1>2 DEF SameTest, DoneInv, SingleInv, PageShut
  <2> QED
    BY <1>1, <2>4, <2>5, PressKeeps
<1>3. CASE LogsOut /\ Stays
  BY <1>1, <1>3, LogsOutSingle DEF Stays
<1>4. CASE UNCHANGED <<calls, sr>>
  <2>1. Sends(calls, {}, {}) /\ "report" \notin {} /\ "bye" \notin {}
    BY <1>1, <1>4, SendNone
  <2>2. SameTest /\ DoneInv' /\ (PageShut => PageShut')
    BY <1>1, <1>4 DEF SameTest, DoneInv, SingleInv, PageShut
  <2> QED
    BY <1>1, <2>1, <2>2, PressKeeps
<1> QED
  BY <1>1, <1>2, <1>3, <1>4 DEF PressOk, Yes

LEMMA PressSingle ==
  ASSUME KioskInv, WaitInv, val.run = None, val'.run = None, BareInv, SingleInv,
         going = "nowhere", Idle, Presses, haste' \in 0 .. MaxHaste
  PROVE  SingleInv'
<1>1. /\ calls \in Seq(Call) /\ ~ValidationActive /\ ~val.enabled
      /\ (UNCHANGED server => SameNumbers) /\ (UNCHANGED sr => SameTest /\ DoneInv')
  BY DEF BareInv, KioskInv, CallsPart, PagePart, server, SameNumbers, SameTest, SingleInv, DoneInv
<1>2. ~OnValidationPage /\ ~BackFromValidation
  BY <1>1 DEF OnValidationPage, PressValidate, PressAbort, SubmitAmplitude, BackFromValidation,
     ValidationActive
<1>3. ~OpenValidation
  <2>1. MaxTests \in Nat /\ MaxTests + 1 # None
    BY ServerAssumption DEF None
  <2> QED
    BY <2>1 DEF OpenValidation, Ready, None
<1>4. ASSUME UNCHANGED sr, SameNumbers, NEW ops, NEW callers, Sends(calls, ops, callers),
             "report" \notin ops, "abort" \notin ops, "complete" \notin callers,
             modal' # "choice" \/ modal' = modal, ask' = ask \/ ask' = "none"
      PROVE  SingleInv'
  <2>1. PageShut => PageShut'
    BY <1>4 DEF PageShut
  <2> QED
    BY <1>1, <1>4, <2>1, PressKeeps
<1>5. CASE Navigate \/ PressCancel
  <2>1. /\ UNCHANGED <<calls, sr>> /\ SameNumbers
        /\ modal' # "choice" \/ modal' = modal
        /\ ask' = ask \/ ask' = "none"
    BY <1>1, <1>5 DEF Navigate, PressCancel
  <2>2. Sends(calls, {}, {})
    BY <1>1, <2>1, SendNone
  <2> QED
    BY <1>4, <2>1, <2>2
<1>6. CASE OpenReport
  <2>1. Sends(calls, {"preview"}, {"open"})
    BY <1>6, OpenReportStep
  <2>2. /\ UNCHANGED sr /\ SameNumbers /\ (modal' # "choice" \/ modal' = modal) /\ ask' = ask
        /\ "report" \notin {"preview"} /\ "abort" \notin {"preview"} /\ "complete" \notin {"open"}
    BY <1>1, <1>6 DEF OpenReport, OpensPreview, NoModal, Notice
  <2> QED
    BY <1>4, <2>1, <2>2
<1>7. CASE Login
  <2>1. \/ calls' = calls
        \/ \E c \in Fit(Len(reports)) : c.op = "preview" /\ c.by = "again" /\ calls' = Append(calls, c)
    BY <1>7, LoginStep
  <2>2. \A c \in Fit(Len(reports)) : ToSet(Append(calls, c)) = ToSet(calls) \cup {c}
    BY <1>1, AppendFacts DEF Fit
  <2>3. \A c \in ToSet(calls') : c.op = "preview" /\ c.by = "again"
    <3>1. ToSet(calls) = {}
      BY DEF Idle, ToSet
    <3> QED
      BY <2>1, <2>2, <3>1
  <2>4. UNCHANGED <<sr, modal, ask>> /\ SameNumbers
    BY <1>7 DEF Login, SameNumbers
  <2>5. \A i \in DOMAIN calls' : calls'[i].op = "preview"
    BY <2>3 DEF ToSet
  <2>6. ~Filing' /\ ~Leaving' /\ CallsShut' /\ Sole(calls', sr'.test)
    BY <2>3, <2>5 DEF Filing, Leaving, CallsShut, Sole, IsPost
  <2>7. NumberInv' /\ (Filed' <=> Filed) /\ (Analysed' <=> Analysed) /\ (PageShut' <=> PageShut)
    BY <2>3, <2>4 DEF SingleInv, NumberInv, SameNumbers, Filed, Analysed, PageShut
  <2>8. ShutInv' /\ SoleInv' /\ ByeInv'
    BY <2>4, <2>6, <2>7 DEF SingleInv, ShutInv, SoleInv, ByeInv, SameNumbers, Sole
  <2> QED
    BY <1>1, <2>4, <2>7, <2>8 DEF SingleInv
<1>8. CASE PressLogout
  <2>0. UNCHANGED server
    BY <1>8 DEF PressLogout
  <2>1. CASE Operating /\ UNCHANGED <<calls, sr, val>> /\ Asks("logout")
    <3>1. Sends(calls, {}, {}) /\ ~PageShut
      BY <1>1, <2>1, SendNone DEF PageShut, Operating
    <3>2. "report" \notin {} /\ "bye" \notin {}
      OBVIOUS
    <3> QED
      BY <1>1, <2>0, <2>1, <3>1, <3>2, PressKeeps
  <2>2. CASE gate # None /\ Notice /\ UNCHANGED sr
    <3>1. Sends(calls, {"preview"}, {"open"}) /\ ask' = ask /\ modal' = "notice"
      BY <1>8, <2>2, PressLogoutStep DEF Notice
    <3>2. "report" \notin {"preview"} /\ "abort" \notin {"preview"} /\ "complete" \notin {"open"}
      OBVIOUS
    <3> QED
      BY <1>1, <1>4, <2>0, <2>2, <3>1, <3>2
  <2>3. CASE ~Operating /\ LogsOut /\ NoModal
    <3>1. calls' = Append(calls, Request("ensure", None, "bye")) /\ UNCHANGED sr
      BY <1>1, <2>3 DEF LogsOut
    <3>2. Sends(calls, {"ensure"}, {"bye"})
      BY <1>1, <3>1, NewRequests, SendRequest
    <3>3. "report" \notin {"ensure"} /\ "abort" \notin {"ensure"} /\ "complete" \notin {"bye"}
      OBVIOUS
    <3> QED
      BY <1>1, <1>4, <2>0, <2>3, <3>1, <3>2, <3>3 DEF NoModal
  <2> QED
    BY <1>1, <1>8, <2>1, <2>2, <2>3 DEF PressLogout
<1>9. CASE Approve
  <2>1. Sends(calls, {"delete", "preview"}, {"none", "open"})
    BY <1>9, ApproveStep
  <2>2. SameNumbers
    <3>1. CASE UNCHANGED reports
      BY <3>1 DEF SameNumbers
    <3>2. CASE reports' = [reports EXCEPT ![gate].pending = FALSE]
      <4>1. \A i \in DOMAIN reports : reports[i] \in Report
        <5>1. reports \in Seq(Report)
          BY DEF KioskInv, ServerPart
        <5> QED
          BY <5>1, ElementOfSeq, LenProperties
      <4> QED
        BY <3>2, <4>1 DEF SameNumbers, Report
    <3> QED
      BY <1>9, <3>1, <3>2 DEF Approve
  <2>3. /\ UNCHANGED sr /\ modal' = "notice" /\ ask' = ask
        /\ "report" \notin {"delete", "preview"} /\ "abort" \notin {"delete", "preview"}
        /\ "complete" \notin {"none", "open"}
    BY <1>9 DEF Approve, Unlocks, Notice
  <2> QED
    BY <1>4, <2>1, <2>2, <2>3
<1> QED
  BY <1>2, <1>3, <1>5, <1>6, <1>7, <1>8, <1>9, TestPressSingle, RecipeSingle, ChoiceSingle, OkSingle
  DEF Presses

----------------------------------------------------------------------------
(***************************************************************************)
(* One report of a test: navigation and timers                             *)
(***************************************************************************)
\* A step of the page that takes no answer and files nothing.
LEMMA QuietSingle ==
  ASSUME KioskInv, SingleInv, UNCHANGED <<reports, sr>>,
         NEW ops, NEW callers, Sends(calls, ops, callers),
         "report" \notin ops, "abort" \notin ops, "complete" \notin callers,
         modal' # "choice" \/ modal' = modal, PageShut => ask' = "none",
         Analysed /\ Leaving =>
           ask' = ask /\ going' = going /\ callers \subseteq {"tick", "none"}
  PROVE  SingleInv'
<1>1. calls \in Seq(Call) /\ ToSet(calls) \subseteq ToSet(calls)
  BY DEF KioskInv, CallsPart
<1>2. SameNumbers /\ SameTest /\ DoneInv' /\ (PageShut => PageShut')
  BY DEF SameNumbers, SameTest, DoneInv, SingleInv, PageShut
<1>3. Analysed /\ Leaving =>
        /\ ask' = "none" /\ modal' # "choice" /\ going' = "nowhere"
        /\ callers \subseteq {"tick", "none"}
  BY DEF SingleInv, ByeInv
<1>4. ByeInv'
  BY <1>1, <1>2, <1>3, ByeKeeps
<1> QED
  BY <1>1, <1>2, <1>4, KeepsSingle

LEMMA GoToPageSingle ==
  ASSUME KioskInv, val.run = None, BareInv, SingleInv, GoToPage, haste' = haste
  PROVE  SingleInv'
<1>1. Sends(calls, {"preview"}, {"open"}) /\ UNCHANGED <<reports, sr>> /\ going # "nowhere"
  BY GoToPageStep DEF GoToPage, server
<1>2. ~(Analysed /\ Leaving)
  BY <1>1 DEF SingleInv, ByeInv
<1>3. PageShut => ask' = "none"
  BY DEF GoToPage, GuardAsks, AsksTest, AsksVal, Operating, PageShut, PreviewHolds, Arrives, Notice,
     NoModal, BareInv
<1>4. modal' # "choice" \/ modal' = modal
  BY DEF GoToPage, GuardAsks, Asks, PreviewHolds, Arrives, Notice, NoModal
<1>5. "report" \notin {"preview"} /\ "abort" \notin {"preview"} /\ "complete" \notin {"open"}
  OBVIOUS
<1> QED
  BY <1>1, <1>2, <1>3, <1>4, <1>5, QuietSingle

LEMMA TimerSingle ==
  ASSUME KioskInv, val.run = None, BareInv, SingleInv, Timers, haste' = haste
  PROVE  SingleInv'
<1>1. calls \in Seq(Call) /\ PagePart /\ CallsPart /\ ~ValidationActive
  BY DEF KioskInv, CallsPart, BareInv
<1>2. CASE Tick /\ UNCHANGED <<server, user, val>> /\ Stays
  <2>1. Sends(calls, {"live", "put"}, {"tick", "none"})
    BY <1>1, <1>2, TickFacts
  <2>2. /\ UNCHANGED <<reports, sr, modal, ask, going>>
        /\ "report" \notin {"live", "put"} /\ "abort" \notin {"live", "put"}
        /\ "complete" \notin {"tick", "none"} /\ {"tick", "none"} \subseteq {"tick", "none"}
    BY <1>2 DEF Tick, NoModal, Stays, server
  <2> QED
    BY <2>1, <2>2, QuietSingle DEF PageShut
<1>3. ~ValidationTick /\ ~ValidationOver
  BY <1>1 DEF ValidationTick, ValidationOver, ValidationActive
<1>4. CASE AutoLogoutTick
  <2>1. Sends(calls, {"ensure"}, {"idle"})
    BY <1>4, AutoLogoutTickStep
  <2>2. ~Leaving
    BY <1>4 DEF AutoLogoutTick, Leaving, ToSet
  <2>3. /\ UNCHANGED <<reports, sr, modal, ask>>
        /\ "report" \notin {"ensure"} /\ "abort" \notin {"ensure"} /\ "complete" \notin {"idle"}
    BY <1>4 DEF AutoLogoutTick, page_, server
  <2> QED
    BY <2>1, <2>2, <2>3, QuietSingle DEF PageShut
<1>5. CASE ApprovalPoll
  <2>1. /\ UNCHANGED <<reports, sr, ask, going>> /\ modal' = "notice"
        /\ calls' = Append(calls, Request("delete", None, "none"))
    BY <1>5 DEF ApprovalPoll, Unlocks, Notice, server
  <2>2. Request("delete", None, "none") \in New
    BY NewRequests DEF None
  <2>3. Sends(calls, {"delete"}, {"none"})
    BY <1>1, <2>1, <2>2, SendRequest
  <2>4. /\ "report" \notin {"delete"} /\ "abort" \notin {"delete"} /\ "complete" \notin {"none"}
        /\ {"none"} \subseteq {"tick", "none"}
    OBVIOUS
  <2> QED
    BY <2>1, <2>3, <2>4, QuietSingle DEF PageShut
<1> QED
  BY <1>2, <1>3, <1>4, <1>5 DEF Timers

----------------------------------------------------------------------------
(***************************************************************************)
(* One report of a test: answers                                           *)
(***************************************************************************)
LEMMA TakenSingle ==
  ASSUME KioskInv, NEW c, NEW rest, Taken(c, rest)
  PROVE  /\ c \in Fit(Len(reports)) /\ c \in Call /\ c \in ToSet(calls) /\ c.by \in By(calls)
         /\ c.at # "sent"
         /\ rest \in Seq(Call) /\ ToSet(rest) \subseteq ToSet(calls)
         /\ \A t : Sole(calls, t) => Sole(rest, t)
         /\ \A B : Once(calls, B) => Once(rest, B)
         /\ \A B : Once(calls, B) /\ c.by \in B => By(rest) \cap B = {}
<1>1. PICK i \in DOMAIN calls : c = calls[i] /\ rest = RemoveAt(calls, i)
  BY DEF Taken
<1>2. calls \in Seq(Call) /\ ToSet(calls) \subseteq Fit(Len(reports)) /\ c.at # "sent"
  BY CallsFacts DEF Taken
<1>3. /\ rest \in Seq(Call) /\ ToSet(rest) \subseteq ToSet(calls)
      /\ c \in ToSet(calls) /\ c.by \in By(calls)
      /\ \A B : Once(calls, B) => Once(rest, B)
      /\ \A B : Once(calls, B) /\ c.by \in B => By(rest) \cap B = {}
  BY <1>1, <1>2, TakenFacts
<1>4. \A t : Sole(calls, t) => Sole(rest, t)
  BY <1>1, <1>2, SoleTaken
<1> QED
  BY <1>2, <1>3, <1>4, CallsFacts

\* What follows an answer files nothing.
LEMMA AnswerKeeps ==
  ASSUME KioskInv, SingleInv, NEW c, NEW rest, Taken(c, rest), UNCHANGED reports, SameTest, DoneInv',
         NEW ops, NEW callers, Sends(rest, ops, callers), "report" \notin ops, "abort" \notin ops,
         Analysed /\ PageShut /\ CallsShut => PageShut' /\ "complete" \notin callers,
         Analysed /\ Leaving /\ c.by # "bye" =>
           /\ ask' = ask /\ modal' # "choice" /\ going' = going
           /\ callers \subseteq {"tick", "none"}
  PROVE  SingleInv'
<1>1. /\ rest \in Seq(Call) /\ ToSet(rest) \subseteq ToSet(calls)
      /\ \A t : Sole(calls, t) => Sole(rest, t)
      /\ Once(calls, {"bye"}) => Once(rest, {"bye"})
      /\ Once(calls, {"bye"}) /\ c.by = "bye" => By(rest) \cap {"bye"} = {}
  BY TakenSingle
<1>2. SameNumbers
  BY DEF SameNumbers
<1>3. CASE Analysed /\ Leaving /\ c.by = "bye"
  <2>1. \A d \in ToSet(rest) : d.by # "bye"
    BY <1>1, <1>3 DEF SingleInv, ByeInv, By
  <2>2. ~Leaving'
    BY <1>1, <2>1, SentFacts DEF Leaving
  <2>3. ByeInv'
    BY <2>2 DEF ByeInv
  <2> QED
    BY <1>1, <1>2, <2>3, KeepsSingle
<1>4. CASE ~(Analysed /\ Leaving /\ c.by = "bye")
  <2>1. Analysed /\ Leaving =>
          /\ ask' = "none" /\ modal' # "choice" /\ going' = "nowhere"
          /\ callers \subseteq {"tick", "none"}
    BY <1>4 DEF SingleInv, ByeInv
  <2>2. ByeInv'
    BY <1>1, <2>1, ByeKeeps
  <2> QED
    BY <1>1, <1>2, <2>2, KeepsSingle
<1> QED
  BY <1>3, <1>4

\* During the abort of a logout no other answer is waited for.
LEMMA LeavingAnswers ==
  ASSUME KioskInv, SingleInv, NEW c, NEW rest, Taken(c, rest), Analysed, Leaving
  PROVE  /\ c.by \in {"bye", "tick"}
         /\ c.by = "bye" => \A d \in ToSet(rest) : d.by \in {"tick", "none"}
<1>1. /\ c.by \in By(calls) /\ c.by # "none" /\ ToSet(rest) \subseteq ToSet(calls)
      /\ Once(calls, {"bye"}) /\ c.by = "bye" => By(rest) \cap {"bye"} = {}
  BY TakenSingle DEF Fit
<1>2. By(calls) \subseteq {"bye", "tick", "none"} /\ Once(calls, {"bye"})
  BY DEF SingleInv, ByeInv
<1>3. \A d \in ToSet(rest) : d.by \in By(calls) /\ d.by \in By(rest)
  BY <1>1 DEF By
<1> QED
  BY <1>1, <1>2, <1>3

\* The end of a test whose sieves are not weighed.
LEMMA LooseFinish ==
  ASSUME KioskInv, SingleInv, UNCHANGED reports, ~sr.analysis, NEW base \in Seq(Call),
         \A d \in ToSet(base) : d \in ToSet(calls) \/ (d.op = "report" => d.of = sr.test),
         NEW aborted \in BOOLEAN, FinishRun(aborted, base)
  PROVE  SingleInv'
<1> DEFINE x == PostReport(sr.test, "submit", aborted)
<1>1. sr \in Sr /\ sr.test \in Runs \cup {None} /\ PagePart
  BY SrFields DEF KioskInv, PagePart, TestPageTypes
<1>2. calls' = Append(base, x)
  BY <1>1 DEF FinishRun, Submits, Over, Sr
<1>3. x \in Call /\ x.op = "report" /\ x.of = sr.test
  <2>1. x.op = "report" /\ x.of = sr.test
    BY DEF PostReport, Request
  <2>2. "submit" \in Callers /\ "report" \in Ops /\ sr.test \in Nat
    BY <1>1, SrFields DEF Callers, Ops
  <2>3. x \in Call
    BY <2>2, RequestType
  <2> QED
    BY <2>1, <2>3
<1> HIDE DEF x
<1>4. \A d \in ToSet(calls') : d \in ToSet(calls) \/ (d.op = "report" => d.of = sr.test)
  <2>1. ToSet(calls') = ToSet(base) \cup {x}
    BY <1>2, <1>3, AppendFacts
  <2> QED
    BY <1>3, <2>1
<1>5. SameNumbers /\ SameTest /\ DoneInv'
  BY <1>1, FinishFields, FinishRunFacts DEF SameNumbers, SameTest, DoneInv, TestKept
<1> QED
  BY <1>4, <1>5, LooseSingle

\* The end of a test with weighed sieves, which something still could end.
LEMMA WeighedFinish ==
  ASSUME KioskInv, SingleInv, UNCHANGED reports, sr.analysis, NEW c, NEW rest, Taken(c, rest),
         Analysed => ~(PageShut /\ CallsShut),
         NEW aborted \in BOOLEAN, FinishRun(aborted, rest),
         Analysed /\ Leaving => ~aborted /\ going' = going /\ c.by # "bye"
  PROVE  SingleInv'
<1>1. /\ rest \in Seq(Call) /\ sr \in Sr /\ PagePart
  BY TakenSingle DEF KioskInv, PagePart, TestPageTypes
<1>2. SameTest /\ DoneInv' /\ ask' = ask /\ (modal' = modal \/ aborted)
  BY <1>1, FinishFields, FinishRunFacts DEF SameTest, DoneInv, TestKept
<1>3. Sends(rest, {"put"}, {"none"})
  <2>1. Over(aborted) \in Sr
    BY <1>1, SrFields DEF Over
  <2> QED
    BY <1>1, <2>1, WeighsFacts, SendNone DEF FinishRun
<1>4. Analysed /\ Leaving /\ c.by # "bye" =>
        /\ ask' = ask /\ modal' # "choice" /\ going' = going
        /\ {"none"} \subseteq {"tick", "none"}
  BY <1>2 DEF SingleInv, ByeInv
<1>5. "report" \notin {"put"} /\ "abort" \notin {"put"}
  OBVIOUS
<1> QED
  BY <1>2, <1>3, <1>4, <1>5, AnswerKeeps

LEMMA RunAnswerSingle ==
  ASSUME KioskInv, SingleInv, NEW c, NEW rest, Taken(c, rest), UNCHANGED reports,
         RunAnswered(c, rest), Stays
  PROVE  SingleInv'
<1>1. rest \in Seq(Call) /\ c \in Call /\ sr \in Sr /\ PagePart /\ c.by = "start"
  BY TakenSingle DEF KioskInv, PagePart, TestPageTypes, RunAnswered
<1>2. Sends(rest, {"put", "delete"}, {"none"})
  BY <1>1, RunAnsweredFacts
<1>3. SameTest /\ DoneInv'
  BY <1>1 DEF RunAnswered, SameTest, DoneInv, SingleInv, Sr
<1>4. PageShut => PageShut'
  BY <1>1 DEF RunAnswered, PageShut, NoModal, Notice, Sr
<1>5. /\ "report" \notin {"put", "delete"} /\ "abort" \notin {"put", "delete"}
      /\ "complete" \notin {"none"}
  OBVIOUS
<1>6. ~(Analysed /\ Leaving)
  BY <1>1, LeavingAnswers
<1> QED
  BY <1>2, <1>3, <1>4, <1>5, <1>6, AnswerKeeps

LEMMA PollAnswerSingle ==
  ASSUME KioskInv, SingleInv, NEW c, NEW rest, Taken(c, rest), UNCHANGED reports,
         PollAnswered(c, rest), Stays
  PROVE  SingleInv'
<1>1. rest \in Seq(Call) /\ ToSet(rest) \subseteq ToSet(calls) /\ c.by = "tick" /\ going' = going
  BY TakenSingle DEF PollAnswered, Stays
<1>2. CASE sr.running /\ FinishRun(FALSE, rest)
  <2>1. ~PageShut /\ FALSE \in BOOLEAN
    BY <1>2 DEF PageShut
  <2>2. CASE sr.analysis
    BY <1>1, <1>2, <2>1, <2>2, WeighedFinish
  <2>3. CASE ~sr.analysis
    BY <1>1, <1>2, <2>1, <2>3, LooseFinish
  <2> QED
    BY <2>2, <2>3
<1>3. CASE calls' = rest /\ UNCHANGED sr /\ NoModal
  <2>1. Sends(rest, {}, {}) /\ SameTest /\ DoneInv' /\ (PageShut => PageShut')
    BY <1>1, <1>3, SendNone DEF SameTest, DoneInv, SingleInv, PageShut, NoModal
  <2>2. /\ "report" \notin {} /\ "abort" \notin {} /\ "complete" \notin {}
        /\ {} \subseteq {"tick", "none"}
    OBVIOUS
  <2>3. Analysed /\ Leaving => ask' = ask /\ modal' # "choice" /\ going' = going
    BY <1>1, <1>3 DEF NoModal, SingleInv, ByeInv
  <2> QED
    BY <2>1, <2>2, <2>3, AnswerKeeps
<1> QED
  BY <1>2, <1>3 DEF PollAnswered, SeesEnd

LEMMA CompleteAnswerSingle ==
  ASSUME KioskInv, SingleInv, NEW c, NEW rest, Taken(c, rest), UNCHANGED reports,
         CompleteAnswered(c, rest), Stays
  PROVE  SingleInv'
<1>1. /\ rest \in Seq(Call) /\ ToSet(rest) \subseteq ToSet(calls) /\ c \in ToSet(calls)
      /\ c.by = "complete" /\ ~CallsShut /\ FALSE \in BOOLEAN
  BY TakenSingle DEF CompleteAnswered, CallsShut
<1>2. ~(Analysed /\ Leaving)
  BY <1>1, LeavingAnswers
<1>3. CASE calls' = rest /\ UNCHANGED sr /\ NoModal
  <2>1. Sends(rest, {}, {}) /\ SameTest /\ DoneInv' /\ "report" \notin {} /\ "abort" \notin {}
    BY <1>1, <1>3, SendNone DEF SameTest, DoneInv, SingleInv
  <2> QED
    BY <1>1, <1>2, <2>1, AnswerKeeps
<1>4. CASE /\ calls' = Append(rest, Request("live", None, "complete"))
           /\ UNCHANGED sr /\ NoModal
  <2>1. Request("live", None, "complete") \in New
    BY NewRequests DEF None
  <2>2. Sends(rest, {"live"}, {"complete"})
    BY <1>1, <1>4, <2>1, SendRequest
  <2>3. SameTest /\ DoneInv' /\ "report" \notin {"live"} /\ "abort" \notin {"live"}
    BY <1>4 DEF SameTest, DoneInv, SingleInv
  <2> QED
    BY <1>1, <1>2, <2>2, <2>3, AnswerKeeps
<1>5. CASE ~sr.analysis /\ FinishRun(FALSE, Append(rest, PostReport(sr.test, "submit", FALSE)))
  <2> DEFINE x == PostReport(sr.test, "submit", FALSE)
  <2>1. x \in Call /\ x.op = "report" /\ x.of = sr.test
    <3>1. x.op = "report" /\ x.of = sr.test
      BY DEF PostReport, Request
    <3>2. "submit" \in Callers /\ "report" \in Ops /\ sr.test \in Nat
      BY SrFields DEF Callers, Ops, KioskInv, PagePart, TestPageTypes
    <3>3. x \in Call
      BY <1>1, <3>2, RequestType
    <3> QED
      BY <3>1, <3>3
  <2>2. FinishRun(FALSE, Append(rest, x))
    BY <1>5
  <2> HIDE DEF x
  <2>3. Append(rest, x) \in Seq(Call) /\ ToSet(Append(rest, x)) = ToSet(rest) \cup {x}
    BY <1>1, <2>1, AppendFacts
  <2>4. \A d \in ToSet(Append(rest, x)) :
          d \in ToSet(calls) \/ (d.op = "report" => d.of = sr.test)
    BY <1>1, <2>1, <2>3
  <2> QED
    BY <1>1, <1>5, <2>2, <2>3, <2>4, LooseFinish
<1>6. CASE FinishRun(FALSE, rest)
  <2>1. CASE sr.analysis
    BY <1>1, <1>2, <1>6, <2>1, WeighedFinish
  <2>2. CASE ~sr.analysis
    BY <1>1, <1>6, <2>2, LooseFinish
  <2> QED
    BY <2>1, <2>2
<1> QED
  BY <1>3, <1>4, <1>5, <1>6 DEF CompleteAnswered

\* The answers to the abort of the stop button and of a leave.
LEMMA StopAnswerSingle ==
  ASSUME KioskInv, SingleInv, NEW c, NEW rest, Taken(c, rest), UNCHANGED reports,
         c.by \in {"stop", "leave"},
         \/ FinishRun(TRUE, rest)
         \/ calls' = rest /\ UNCHANGED sr /\ NoModal
  PROVE  SingleInv'
<1>1. /\ rest \in Seq(Call) /\ ToSet(rest) \subseteq ToSet(calls) /\ c \in ToSet(calls)
      /\ c \in Fit(Len(reports)) /\ c.op \in Ops /\ TRUE \in BOOLEAN
  BY TakenSingle DEF Call
<1>2. c.op = "abort"
  BY <1>1 DEF Fit, Ops
<1>3. ~CallsShut /\ ~(Analysed /\ Leaving)
  BY <1>1, <1>2, LeavingAnswers DEF CallsShut
<1>4. CASE FinishRun(TRUE, rest)
  <2>1. CASE sr.analysis
    BY <1>1, <1>3, <1>4, <2>1, WeighedFinish
  <2>2. CASE ~sr.analysis
    BY <1>1, <1>4, <2>2, LooseFinish
  <2> QED
    BY <2>1, <2>2
<1>5. CASE calls' = rest /\ UNCHANGED sr /\ NoModal
  <2>1. Sends(rest, {}, {}) /\ SameTest /\ DoneInv' /\ "report" \notin {} /\ "abort" \notin {}
    BY <1>1, <1>5, SendNone DEF SameTest, DoneInv, SingleInv
  <2> QED
    BY <1>3, <2>1, AnswerKeeps
<1> QED
  BY <1>4, <1>5

\* The answers after which a report is shown.
LEMMA ShownAnswerSingle ==
  ASSUME KioskInv, SingleInv, NEW c, NEW rest, Taken(c, rest), UNCHANGED server, haste' = haste,
         \/ SaveAnswered(c, rest) /\ UNCHANGED <<user, sr, val>> /\ Stays
         \/ PreviewAnswered(c, rest) /\ UNCHANGED <<user, sr, val, page, goal, skip>>
  PROVE  SingleInv'
<1>1. /\ rest \in Seq(Call) /\ ToSet(rest) \subseteq ToSet(calls) /\ c \in Fit(Len(reports))
      /\ UNCHANGED <<reports, sr>>
  BY TakenSingle DEF server
<1>2. Sends(rest, {"delete", "preview"}, {"submit", "val", "open"})
  <2>1. {"preview"} \subseteq {"delete", "preview"} /\ {"open"} \subseteq {"submit", "val", "open"}
    OBVIOUS
  <2> QED
    BY <1>1, <2>1, SaveAnswerStep, PreviewAnswerStep, SendsMore
<1>3. ask' = ask /\ modal' \in {modal, "notice"}
  BY DEF SaveAnswered, PreviewAnswered, OpensPreview, NoModal, Notice
<1>4. c.by \notin {"bye", "tick"}
  BY <1>1 DEF SaveAnswered, PreviewAnswered, Fit
<1>5. ~(Analysed /\ Leaving)
  BY <1>4, LeavingAnswers
<1>6. SameTest /\ DoneInv' /\ (PageShut => PageShut')
  BY <1>1, <1>3 DEF SameTest, DoneInv, SingleInv, PageShut
<1>7. /\ "report" \notin {"delete", "preview"} /\ "abort" \notin {"delete", "preview"}
      /\ "complete" \notin {"submit", "val", "open"}
  OBVIOUS
<1> QED
  BY <1>1, <1>2, <1>5, <1>6, <1>7, AnswerKeeps

\* The answers that a logout waits for: the abort files the report.
LEMMA GoodbyeSingle ==
  ASSUME KioskInv, SingleInv, NEW c, NEW rest, Taken(c, rest), UNCHANGED reports,
         Goodbye(c, rest), UNCHANGED <<page, going, goal, skip, last>>
  PROVE  SingleInv'
<1>1. /\ rest \in Seq(Call) /\ ToSet(rest) \subseteq ToSet(calls) /\ c \in ToSet(calls)
      /\ c \in Fit(Len(reports)) /\ sr \in Sr /\ ask' = ask
  BY TakenSingle DEF KioskInv, PagePart, TestPageTypes, Goodbye
<1>2. CASE c.op = "abort" /\ SavesPartial(rest) /\ UNCHANGED modal
  <2> DEFINE x == PostReport(sr.test, "bye", TRUE)
  <2>1. x \in Call /\ IsPost(x, sr.test) /\ x.by # "complete"
    <3>1. "bye" \in Callers /\ "report" \in Ops /\ TRUE \in BOOLEAN /\ sr.test \in Nat
      BY <1>1, SrFields DEF Callers, Ops
    <3>2. x \in Call
      BY <3>1, RequestType
    <3>3. x.op = "report" /\ x.at = "sent" /\ x.of = sr.test /\ x.by = "bye"
      BY DEF PostReport, Request
    <3> QED
      BY <3>2, <3>3 DEF IsPost
  <2>2. calls' = Append(rest, x) /\ SameTest /\ DoneInv' /\ SameNumbers
    BY <1>1, <1>2 DEF SavesPartial, SameTest, DoneInv, SameNumbers, Sr
  <2> HIDE DEF x
  <2>3. c.by = "bye"
    BY <1>1, <1>2 DEF Goodbye, Fit
  <2>4. ASSUME Analysed
        PROVE  /\ ~Filed /\ ~Filing /\ PageShut'
               /\ \A d \in ToSet(rest) : d.op # "abort" /\ d.by # "complete"
    <3>1. ~CallsShut /\ Leaving
      BY <1>1, <1>2, <2>3 DEF CallsShut, Leaving
    <3>2. ~Filed /\ ~Filing
      BY <2>4, <3>1, OpenUnfiled
    <3>3. PageShut'
      BY <1>1, <1>2, <2>4, <3>1 DEF SavesPartial, PageShut, SingleInv, ByeInv, Sr
    <3>4. \A d \in ToSet(rest) : d.by \in {"tick", "none"} /\ d \in Fit(Len(reports))
      BY <1>1, <2>3, <2>4, <3>1, LeavingAnswers, CallsFacts
    <3>5. \A d \in ToSet(rest) : d.op # "abort" /\ d.by # "complete"
      BY <3>4 DEF Fit
    <3> QED
      BY <3>2, <3>3, <3>5
  <2> QED
    BY <1>1, <2>1, <2>2, <2>4, FilesSingle
<1>3. CASE /\ c.op = "report" \/ c.op = "delete"
           /\ calls' = Append(rest, IF c.op = "report" /\ c.at = "ok"
                                    THEN Request("delete", None, "bye")
                                    ELSE Request("ensure", None, "bye"))
           /\ UNCHANGED <<sr, modal>>
  <2>1. Request("delete", None, "bye") \in New /\ Request("ensure", None, "bye") \in New
    BY NewRequests DEF None
  <2>2. Sends(rest, {"delete", "ensure"}, {"bye"})
    <3>1. \/ calls' = Append(rest, Request("delete", None, "bye"))
          \/ calls' = Append(rest, Request("ensure", None, "bye"))
      BY <1>3
    <3>2. "delete" \in {"delete", "ensure"} /\ "ensure" \in {"delete", "ensure"} /\ "bye" \in {"bye"}
      OBVIOUS
    <3> QED
      BY <1>1, <2>1, <3>1, <3>2, SendRequest
  <2>3. c.by = "bye"
    BY <1>1, <1>3 DEF Goodbye, Fit
  <2>4. /\ SameTest /\ DoneInv' /\ (PageShut => PageShut')
    BY <1>1, <1>3 DEF SameTest, DoneInv, SingleInv, PageShut
  <2>5. /\ "report" \notin {"delete", "ensure"} /\ "abort" \notin {"delete", "ensure"}
        /\ "complete" \notin {"bye"}
    OBVIOUS
  <2> QED
    BY <2>2, <2>3, <2>4, <2>5, AnswerKeeps
<1>4. CASE calls' = rest /\ UNCHANGED sr /\ modal' \in {modal, "notice"}
  <2>1. Sends(rest, {}, {}) /\ SameTest /\ DoneInv' /\ (PageShut => PageShut')
    BY <1>1, <1>4, SendNone DEF SameTest, DoneInv, SingleInv, PageShut
  <2>2. /\ "report" \notin {} /\ "abort" \notin {} /\ "complete" \notin {}
        /\ {} \subseteq {"tick", "none"}
    OBVIOUS
  <2>3. Analysed /\ Leaving => ask' = ask /\ modal' # "choice" /\ going' = going
    BY <1>1, <1>4 DEF SingleInv, ByeInv
  <2> QED
    BY <2>1, <2>2, <2>3, AnswerKeeps
<1> QED
  BY <1>2, <1>3, <1>4 DEF Goodbye

LEMMA AnswerSingle ==
  ASSUME KioskInv, val.run = None, BareInv, SingleInv, NEW i \in DOMAIN calls, Answer(i),
         haste' = haste
  PROVE  SingleInv'
<1> DEFINE c == calls[i]
           rest == RemoveAt(calls, i)
<1>1. /\ UNCHANGED <<server, val>>
      /\ \/ RunAnswered(c, rest) /\ UNCHANGED user /\ Stays
         \/ PollAnswered(c, rest) /\ UNCHANGED user /\ Stays
         \/ CompleteAnswered(c, rest) /\ UNCHANGED user /\ Stays
         \/ StopAnswered(c, rest) /\ UNCHANGED user /\ Stays
         \/ LeaveAnswered(c, rest) /\ UNCHANGED user
         \/ SaveAnswered(c, rest) /\ UNCHANGED <<user, sr>> /\ Stays
         \/ Goodbye(c, rest) /\ UNCHANGED <<page, going, goal, skip, last>>
         \/ PreviewAnswered(c, rest) /\ UNCHANGED <<user, sr, page, goal, skip>>
  BY AnswerCases
<1>2. Taken(c, rest)
  BY DEF Answer, Taken
<1> HIDE DEF c, rest
<1>3. UNCHANGED reports
  BY <1>1 DEF server
<1>4. CASE StopAnswered(c, rest) \/ LeaveAnswered(c, rest)
  <2>1. /\ c.by \in {"stop", "leave"}
        /\ \/ FinishRun(TRUE, rest)
           \/ calls' = rest /\ UNCHANGED sr /\ NoModal
    BY <1>4 DEF StopAnswered, LeaveAnswered
  <2> QED
    BY <1>2, <1>3, <2>1, StopAnswerSingle
<1> QED
  BY <1>1, <1>2, <1>3, <1>4, RunAnswerSingle, PollAnswerSingle, CompleteAnswerSingle,
     ShownAnswerSingle, GoodbyeSingle

----------------------------------------------------------------------------
(***************************************************************************)
(* One report of a test: the server                                        *)
(***************************************************************************)
\* A served call is no longer on its way.
LEMMA SoleServed ==
  ASSUME KioskInv, NEW i \in DOMAIN calls, NEW at \in {"ok", "failed"}, Served(i, at),
         NEW t, Sole(calls, t)
  PROVE  /\ Sole(calls', t)
         /\ IsPost(calls[i], t) => \A d \in ToSet(calls') : ~IsPost(d, t)
<1>1. calls \in Seq(Call) /\ calls[i] \in Call
  BY CallsFacts, RemoveAtSet
<1>2. CASE Silent(calls[i]) /\ calls' = RemoveAt(calls, i)
  <2>1. Sole(calls', t)
    BY <1>1, <1>2, SoleTaken
  <2>2. ~IsPost(calls[i], t)
    <3>1. calls[i] \in Fit(Len(reports))
      BY CallsFacts, RemoveAtSet
    <3> QED
      BY <1>2, <3>1 DEF IsPost, Silent, Fit
  <2> QED
    BY <2>1, <2>2
<1>3. CASE ~Silent(calls[i])
  <2>1. PICK x \in Call : x.at = at /\ calls' = [calls EXCEPT ![i] = x]
    BY <1>3 DEF Served
  <2>2. /\ DOMAIN calls' = DOMAIN calls /\ calls'[i] = x
        /\ \A j \in DOMAIN calls : j # i => calls'[j] = calls[j]
    BY <1>1, <2>1
  <2>3. ~IsPost(x, t)
    BY <2>1 DEF IsPost
  <2>4. Sole(calls', t)
    BY <2>2, <2>3 DEF Sole
  <2>5. IsPost(calls[i], t) => \A j \in DOMAIN calls' : ~IsPost(calls'[j], t)
    BY <2>2, <2>3 DEF Sole
  <2> QED
    BY <2>4, <2>5 DEF ToSet
<1> QED
  BY <1>2, <1>3 DEF Served

\* What serving a call leaves of the parts that speak of the calls.
LEMMA ServedSingle ==
  ASSUME KioskInv, SingleInv, UNCHANGED <<sr, modal, ask, going>>,
         NEW i \in DOMAIN calls, NEW at \in {"ok", "failed"}, Served(i, at)
  PROVE  /\ DoneInv' /\ ByeInv' /\ (PageShut => PageShut') /\ (CallsShut => CallsShut')
         /\ \A c \in ToSet(calls') : c.op = "report" /\ c.at = "sent" => c.of <= sr.test
         /\ (Analysed' <=> Analysed) /\ (Filing' => Filing)
         /\ Analysed => Sole(calls', sr.test)
<1>1. /\ By(calls') \subseteq By(calls) /\ \A B : Once(calls, B) => Once(calls', B)
      /\ calls[i] \in ToSet(calls)
      /\ \A d \in ToSet(calls') :
           \/ d \in ToSet(calls)
           \/ d.op = calls[i].op /\ d.by = calls[i].by /\ d.at # "sent"
  BY ServedLeaves
<1>2. (Leaving' => Leaving) /\ (CallsShut => CallsShut')
  BY <1>1 DEF Leaving, CallsShut
<1>3. DoneInv' /\ (PageShut => PageShut') /\ (Analysed' <=> Analysed)
  BY DEF SingleInv, DoneInv, PageShut, Analysed
<1>4. ByeInv'
  BY <1>1, <1>2, <1>3 DEF SingleInv, ByeInv
<1>5. /\ \A c \in ToSet(calls') : c.op = "report" /\ c.at = "sent" => c.of <= sr.test
      /\ Filing' => Filing
  BY <1>1 DEF SingleInv, NumberInv, Filing, IsPost
<1>6. Analysed => Sole(calls', sr.test)
  BY SoleServed DEF SingleInv, SoleInv
<1> QED
  BY <1>2, <1>3, <1>4, <1>5, <1>6

\* A request that saves no report lands, or any is refused.
LEMMA UnsavedSingle ==
  ASSUME KioskInv, SingleInv, UNCHANGED <<sr, modal, ask, going>>, SameNumbers,
         NEW i \in DOMAIN calls, NEW at \in {"ok", "failed"}, Served(i, at)
  PROVE  SingleInv'
<1>1. /\ DoneInv' /\ ByeInv' /\ (PageShut => PageShut') /\ (CallsShut => CallsShut')
      /\ \A c \in ToSet(calls') : c.op = "report" /\ c.at = "sent" => c.of <= sr.test
      /\ (Analysed' <=> Analysed) /\ (Filing' => Filing)
      /\ Analysed => Sole(calls', sr.test)
  BY ServedSingle
<1>2. (Filed' <=> Filed) /\ NumberInv'
  BY <1>1 DEF Filed, SameNumbers, SingleInv, NumberInv
<1>3. ShutInv'
  BY <1>1, <1>2 DEF SingleInv, ShutInv
<1>4. SoleInv'
  <2>1. ASSUME Analysed
        PROVE  /\ \A k, j \in DOMAIN reports' :
                    reports'[k].of = sr'.test /\ reports'[j].of = sr'.test => k = j
               /\ ~(Filed' /\ Filing')
    BY <1>1, <1>2, <2>1 DEF SingleInv, SoleInv, SameNumbers
  <2> QED
    BY <1>1, <2>1 DEF SoleInv, Sole
<1> QED
  BY <1>1, <1>2, <1>3, <1>4 DEF SingleInv

\* A report is saved: the one that was on its way, if it is of the page's test.
LEMMA SavedSingle ==
  ASSUME KioskInv, SingleInv, UNCHANGED <<sr, modal, ask, going>>,
         NEW i \in DOMAIN calls, Served(i, "ok"), LandsReport(calls[i])
  PROVE  SingleInv'
<1> DEFINE c == calls[i]
           n == Len(reports)
<1>1. /\ DoneInv' /\ ByeInv' /\ (PageShut => PageShut') /\ (CallsShut => CallsShut')
      /\ \A d \in ToSet(calls') : d.op = "report" /\ d.at = "sent" => d.of <= sr.test
      /\ (Analysed' <=> Analysed) /\ (Filing' => Filing)
      /\ Analysed => Sole(calls', sr.test)
  BY ServedSingle
<1>2. c \in ToSet(calls) /\ c.op = "report" /\ c.at = "sent" /\ c.of <= sr.test
  BY RemoveAtSet, CallsFacts DEF Served, LandsReport, SingleInv, NumberInv
<1>3. /\ n \in Nat /\ DOMAIN reports = 1 .. n /\ DOMAIN reports' = 1 .. n + 1
      /\ \A j \in 1 .. n : reports'[j] = reports[j]
      /\ reports'[n + 1].of = c.of
  <2>1. reports \in Seq(Report) /\ n \in Nat
    BY ReportsLen DEF KioskInv
  <2> DEFINE x == [of |-> c.of, aborted |-> c.aborted, pending |-> TRUE]
  <2>2. reports' = Append(reports, x) /\ x.of = c.of
    BY DEF LandsReport
  <2> HIDE DEF x, c
  <2>3. x \in {x} \cup Report /\ reports \in Seq({x} \cup Report)
    BY <2>1
  <2> QED
    BY <2>1, <2>2, <2>3, AppendProperties, LenProperties
<1> HIDE DEF c, n
<1>4. NumberInv'
  <2>1. \A j \in 1 .. n + 1 : j \in 1 .. n \/ j = n + 1
    BY <1>3
  <2>2. \A j \in 1 .. n + 1 : reports'[j].of <= sr.test
    BY <1>2, <1>3, <2>1 DEF SingleInv, NumberInv
  <2> QED
    BY <1>1, <1>3, <2>2 DEF NumberInv
<1>5. Filed' => Filed \/ c.of = sr.test
  <2>1. \A j \in 1 .. n + 1 : j \in 1 .. n \/ j = n + 1
    BY <1>3
  <2> QED
    BY <1>3, <2>1 DEF Filed
<1>6. c.of = sr.test => Filing
  BY <1>2 DEF Filing, IsPost
<1>7. ShutInv'
  BY <1>1, <1>5, <1>6 DEF SingleInv, ShutInv
<1>8. ASSUME Analysed, c.of = sr.test PROVE ~Filed /\ ~Filing'
  <2>1. ~Filed
    BY <1>6, <1>8 DEF SingleInv, SoleInv
  <2>2. Sole(calls, sr.test) /\ IsPost(calls[i], sr.test)
    BY <1>2, <1>8 DEF SingleInv, SoleInv, IsPost, c
  <2>3. \A d \in ToSet(calls') : ~IsPost(d, sr.test)
    BY <2>2, SoleServed
  <2> QED
    BY <2>1, <2>3 DEF Filing
<1>9. ASSUME Analysed
      PROVE  /\ \A k, j \in DOMAIN reports' :
                  reports'[k].of = sr.test /\ reports'[j].of = sr.test => k = j
             /\ ~(Filed' /\ Filing')
  <2>1. \A j \in 1 .. n + 1 : j \in 1 .. n \/ j = n + 1
    BY <1>3
  <2>2. CASE c.of = sr.test
    <3>1. \A j \in 1 .. n : reports'[j].of # sr.test
      BY <1>3, <1>8, <1>9, <2>2 DEF Filed
    <3> QED
      BY <1>3, <1>8, <1>9, <2>1, <2>2, <3>1
  <2>3. CASE c.of # sr.test
    <3>1. \A j \in 1 .. n + 1 : reports'[j].of = sr.test => j \in 1 .. n
      BY <1>3, <2>1, <2>3
    <3>2. \A k, j \in 1 .. n : reports[k].of = sr.test /\ reports[j].of = sr.test => k = j
      BY <1>3, <1>9 DEF SingleInv, SoleInv
    <3> QED
      BY <1>1, <1>3, <1>5, <1>9, <2>3, <3>1, <3>2 DEF SingleInv, SoleInv
  <2> QED
    BY <2>2, <2>3
<1>10. SoleInv'
  BY <1>1, <1>9 DEF SoleInv, Sole
<1> QED
  BY <1>1, <1>4, <1>7, <1>10 DEF SingleInv

LEMMA ServerSingle ==
  ASSUME KioskInv, SingleInv, ServerStep
  PROVE  SingleInv'
<1>1. UNCHANGED <<sr, modal, ask, going>>
  BY DEF ServerStep, page_, shell
<1>2. ASSUME NEW i \in DOMAIN calls, Lands(i) PROVE SingleInv'
  <2>1. Served(i, "ok") /\ "ok" \in {"ok", "failed"}
    BY <1>2, ServedCall
  <2>2. LandsReport(calls[i]) \/ UNCHANGED reports
    BY <1>2 DEF Lands, LandsRun, LandsAbort, LandsComplete, LandsStart, LandsStop,
       LandsCheckpoint, LandsRead
  <2>3. UNCHANGED reports => SameNumbers
    BY DEF SameNumbers
  <2> QED
    BY <1>1, <2>1, <2>2, <2>3, SavedSingle, UnsavedSingle
<1>3. ASSUME NEW i \in DOMAIN calls, Refuses(i) PROVE SingleInv'
  <2>1. Served(i, "failed") /\ "failed" \in {"ok", "failed"}
    BY <1>3, ServedCall
  <2>2. SameNumbers
    BY <1>3 DEF Refuses, SameNumbers
  <2> QED
    BY <1>1, <2>1, <2>2, UnsavedSingle
<1>4. CASE Elsewise
  <2>1. UNCHANGED calls
    BY <1>4, ElsewiseKeeps
  <2>2. SameNumbers
    <3>1. \A j \in DOMAIN reports : reports[j] \in Report
      <4>1. reports \in Seq(Report)
        BY DEF KioskInv, ServerPart
      <4> QED
        BY <4>1, ElementOfSeq, LenProperties
    <3>2. \/ UNCHANGED reports
          \/ \E j \in DOMAIN reports : reports' = [reports EXCEPT ![j].pending = FALSE]
      BY <1>4 DEF Elsewise, ProgramBegins, NextSegment, ProgramEnds, ClosedElsewhere
    <3>3. CASE UNCHANGED reports
      BY <3>3 DEF SameNumbers
    <3>4. ASSUME NEW j \in DOMAIN reports, reports' = [reports EXCEPT ![j].pending = FALSE]
          PROVE  SameNumbers
      BY <3>1, <3>4 DEF SameNumbers, Report
    <3> QED
      BY <3>2, <3>3, <3>4
  <2>3. Filed' <=> Filed
    BY <1>1, <2>2 DEF Filed, SameNumbers
  <2>4. /\ (Filing' <=> Filing) /\ (Analysed' <=> Analysed) /\ (PageShut' <=> PageShut)
        /\ (CallsShut' <=> CallsShut) /\ (Leaving' <=> Leaving)
    BY <1>1, <2>1 DEF Filing, Analysed, PageShut, CallsShut, Leaving
  <2>5. NumberInv' /\ DoneInv' /\ ShutInv'
    BY <1>1, <2>1, <2>2, <2>3, <2>4 DEF SingleInv, NumberInv, DoneInv, ShutInv, SameNumbers
  <2>6. SoleInv'
    BY <1>1, <2>1, <2>2, <2>3, <2>4 DEF SingleInv, SoleInv, SameNumbers
  <2>7. ByeInv'
    BY <1>1, <2>1, <2>4 DEF SingleInv, ByeInv, By, Once
  <2> QED
    BY <2>5, <2>6, <2>7 DEF SingleInv
<1> QED
  BY <1>2, <1>3, <1>4 DEF ServerStep, Elsewise

----------------------------------------------------------------------------
(***************************************************************************)
(* One report of a test: the theorem                                       *)
(***************************************************************************)
\* The user has waited so far, and has opened no validation.
Plain == haste = 0 /\ val.run = None

LEMMA SingleInit == Init => SingleInv
<1> SUFFICES ASSUME Init PROVE SingleInv
  OBVIOUS
<1>1. /\ calls = <<>> /\ reports = <<>> /\ sr = Blank(None, TRUE)
  BY DEF Init, ServerInit, TestPageInit
<1>2. sr.test = None /\ ~sr.done /\ ToSet(calls) = {} /\ DOMAIN calls = {} /\ DOMAIN reports = {}
  BY <1>1 DEF Blank, ToSet
<1> QED
  BY <1>2 DEF SingleInv, NumberInv, DoneInv, ShutInv, SoleInv, ByeInv, Analysed

LEMMA SingleStep ==
  ASSUME KioskInv, Waited => WaitInv, BareInv, Plain => SingleInv, Next
  PROVE  Plain' => SingleInv'
<1> SUFFICES ASSUME haste' = 0, val'.run = None PROVE SingleInv'
  BY DEF Plain
<1>1. val.run = None /\ WaitInv /\ SingleInv
  BY HasteGrows, ValidationStays DEF Plain, Waited
<1>2. CASE GoToPage /\ UNCHANGED haste
  BY <1>1, <1>2, GoToPageSingle
<1>3. CASE going = "nowhere" /\ Press
  BY <1>1, <1>3, WaitingPress, PressSingle
<1>4. CASE Timers /\ UNCHANGED haste
  BY <1>1, <1>4, TimerSingle
<1>5. CASE ServerStep
  BY <1>1, <1>5, ServerSingle
<1>6. CASE (\E i \in DOMAIN calls : Answer(i)) /\ UNCHANGED haste
  BY <1>1, <1>6, AnswerSingle
<1> QED
  BY <1>2, <1>3, <1>4, <1>5, <1>6 DEF Next

LEMMA SingleStutter == (Plain => SingleInv) /\ UNCHANGED vars => (Plain' => SingleInv')
BY DEF vars, server, page_, shell, Plain, SingleInv, NumberInv, DoneInv, ShutInv, SoleInv, ByeInv,
       Analysed, Filed, Filing, Leaving, PageShut, CallsShut, Sole, Once, By, ToSet, IsPost

LEMMA SingleAlways == Spec => [](Plain => SingleInv)
<1>1. /\ KioskInv /\ (Waited => WaitInv) /\ BareInv /\ (Plain => SingleInv) /\ [Next]_vars
      => (Plain' => SingleInv')
  BY SingleStep, SingleStutter
<1> QED
  BY <1>1, SingleInit, KioskAlways, WaitAlways, BareAlways, PTL DEF Spec

\* A test with weighed sieves gets one report at most, whatever requests are
\* refused and in whatever order they land: pollShakerLive, completeTestRun,
\* stopTestRun, the leave of the page and the logout may each end the test,
\* and submitSieveWeights and savePartialReport may each send its report.
\* This holds as long as the user has waited for the answers and has opened
\* no validation: the logout from a validation goes on with the test page and
\* files an earlier test once more.
THEOREM ReportedOnce == Spec => [](val.run = None => WeighedReportedOnce)
<1>1. ASSUME Plain => SingleInv PROVE val.run = None => WeighedReportedOnce
  <2> DEFINE S == {i \in DOMAIN reports : reports[i].of = sr.test}
  <2> SUFFICES ASSUME val.run = None, haste = 0, sr.analysis, sr.test # None
               PROVE  Cardinality(S) <= 1
    BY DEF WeighedReportedOnce, Reported
  <2>1. \A i, j \in S : i = j
    BY <1>1 DEF Plain, SingleInv, SoleInv, Analysed
  <2> HIDE DEF S
  <2>2. CASE S = {}
    BY <2>2, FS_EmptySet
  <2>3. CASE S # {}
    <3>1. PICK i \in S : S = {i}
      BY <2>1, <2>3
    <3>2. Cardinality({i}) = 1
      BY FS_Singleton
    <3> QED
      BY <3>1, <3>2
  <2> QED
    BY <2>2, <2>3
<1> QED
  BY <1>1, SingleAlways, PTL

\* Without validations a test with weighed sieves is reported once for good.
COROLLARY ReportedOnceAlways ==
  ASSUME MaxValidations = 0
  PROVE  Spec => []WeighedReportedOnce
<1>1. KioskInv => val.run = None
  <2> SUFFICES ASSUME KioskInv PROVE val.run = None
    OBVIOUS
  <2>1. val.run \in Validations \cup {None} /\ MaxTests \in Nat
    BY ValFields, ServerAssumption DEF KioskInv, PagePart, ValidationTypes, Val
  <2> QED
    BY <2>1 DEF Validations
<1> QED
  BY <1>1, ReportedOnce, KioskAlways, PTL

----------------------------------------------------------------------------
(***************************************************************************)
(* No test is forgotten: the invariant                                     *)
(***************************************************************************)
\* The user never leaves a running test for another page, and never lets the
\* automatic logout fall due.
Remains == ~Leaves /\ ~AutoLogout

\* The report of the run is saved, or the server has refused it.
Settled(t) == t \in unsaved \/ \E i \in DOMAIN reports : reports[i].of = t

\* A request of this kind has not landed yet.
Sent(op) == \E c \in ToSet(calls) : c.op = op /\ c.at = "sent"

\* The run on the page is started, or about to be, and has no report yet.
TestOpen == (sr.test \in started \/ Sent("run")) /\ ~Settled(sr.test)
ValOpen == (val.run \in started \/ Sent("start")) /\ ~Settled(val.run)

\* A started run is the latest of its page, or it is settled.
PastInv ==
  \A t \in started :
    \/ t \in Tests /\ t <= sr.test /\ (t = sr.test \/ Settled(t))
    \/ t \in Validations /\ t <= val.run /\ (t = val.run \/ Settled(t))

\* A program is asked for once, for the test of the page; a validation only
\* when the one before is settled.
RunsInv ==
  /\ \A c \in ToSet(calls) :
       c.op = "run" => c.of = sr.test /\ (c.at # "ok" => sr.test \notin started)
  /\ Once(calls, {"start"})
  /\ sr.test \in started \/ Sent("run") => sr.running \/ sr.done

ValRunsInv ==
  \A c \in ToSet(calls) :
    c.op = "start" =>
      c.of = val.run /\ (c.at # "ok" => val.run \notin started \/ Settled(val.run))

\* A report is filed of the run that its page shows.
Subject(c) == IF c.by \in {"val", "byeTest"} THEN val.run ELSE sr.test

SubjectInv ==
  \A c \in ToSet(calls) :
    c.op = "report" =>
      IF c.at = "sent" THEN c.of = Subject(c)
      ELSE Subject(c) = None \/ Settled(Subject(c))

\* No test is left by the question of goToPage or by the automatic logout.
StayInv ==
  /\ By(calls) \cap {"leave", "idle"} = {}
  /\ "test" \notin skip
  /\ ask # "leaveVal"

\* The stop of a test with weighed sieves, from the question to the choice.
HoldInv ==
  /\ modal = "choice" => sr.analysis
  /\ sr.analysis /\ (ask = "stop" \/ modal = "choice" \/ By(calls) \cap Endings # {}) =>
       page = "test" /\ going = "nowhere" /\ By(calls) \subseteq {"start", "tick", "none", "stop"}

\* Before a validation is over nothing of an earlier one is on its way.
EarlyInv ==
  /\ val.awaiting => ~val.enabled
  /\ going = "validation" => calls = <<>> /\ ask = "none"
  /\ page = "validation" => ask # "stop"
  /\ page = "validation" /\ (val.enabled \/ val.awaiting) =>
       /\ ~last.pending /\ By(calls) \subseteq {"none", "val", "byeTest", "bye"}
       /\ \A c \in ToSet(calls) : c.by = "val" => c.op = "start"

\* The call takes the checkpoint away, or leads to one that does.
Clears(c) == c.op \in {"delete", "preview"} \/ (c.op = "put" /\ c.of = None)

\* An open test is on its page, which will file its report.
TestBody ==
  /\ page = "test" /\ ~last.pending
  /\ Filing \/ Operating \/ modal = "choice"
  /\ going # "nowhere" => Operating
  /\ \A c \in ToSet(calls) : ~Clears(c) /\ c.by \notin {"val", "byeTest"}

\* So is an open validation; when the logout ends it, that files the report.
ValFiling == \E c \in ToSet(calls) : IsPost(c, val.run)
ValWaits == \E c \in ToSet(calls) : c.op = "start" \/ (c.op = "stop" /\ c.by = "byeTest")

ValBody ==
  /\ page # "test" /\ ~last.pending
  /\ ValFiling \/ ValidationActive \/ ValWaits
  /\ \A c \in ToSet(calls) : ~Clears(c) /\ c.by \in {"none", "val", "byeTest"}

CourseInv == PastInv /\ RunsInv /\ ValRunsInv /\ SubjectInv
KeptInv ==
  /\ CourseInv /\ StayInv /\ HoldInv /\ EarlyInv
  /\ (TestOpen => TestBody) /\ (ValOpen => ValBody)

----------------------------------------------------------------------------
(***************************************************************************)
(* No test is forgotten: what a handler does                               *)
(***************************************************************************)
LEMMA SameSettled ==
  ASSUME SameNumbers, UNCHANGED unsaved, NEW t
  PROVE  (t \in unsaved' \/ \E i \in DOMAIN reports' : reports'[i].of = t) <=> Settled(t)
BY DEF SameNumbers, Settled

\* A handler that starts nothing, and files reports of what its page shows.
LEMMA CourseKept ==
  ASSUME KioskInv, CourseInv, UNCHANGED <<started, unsaved>>, SameNumbers,
         sr'.test = sr.test, val'.run = val.run,
         NEW rest \in Seq(Call), ToSet(rest) \subseteq ToSet(calls), Once(rest, {"start"}),
         NEW ops, NEW callers, Sends(rest, ops, callers),
         "run" \notin ops, "start" \notin ops, "start" \notin callers,
         \A d \in ToSet(calls') : d \in ToSet(rest) \/ (d.op = "report" => d.of = Subject(d)),
         \/ sr.running \/ sr.done => sr'.running \/ sr'.done
         \/ sr.test \notin started /\ \A d \in ToSet(rest) : d.op # "run"
  PROVE  CourseInv' /\ (TestOpen' => TestOpen) /\ (ValOpen' => ValOpen)
<1>1. /\ \A d \in ToSet(calls') : \/ d \in ToSet(rest)
                                  \/ d \in New /\ d.op \in ops /\ d.by \in callers
      /\ \A d \in New : d.at = "sent"
  BY SentFacts DEF New
<1>2. \A t : Settled(t)' <=> Settled(t)
  BY SameSettled DEF Settled
<1>3. \A op : op \notin ops /\ Sent(op)' => Sent(op) /\ \E d \in ToSet(rest) : d.op = op
  BY <1>1 DEF Sent
<1>4. PastInv'
  BY <1>2 DEF CourseInv, PastInv
<1>5. Once(calls', {"start"})
  BY SentOnce
<1>6. RunsInv'
  BY <1>1, <1>3, <1>5 DEF CourseInv, RunsInv
<1>7. ValRunsInv'
  BY <1>1, <1>2 DEF CourseInv, ValRunsInv
<1>8. SubjectInv'
  <2>1. \A d : Subject(d)' = Subject(d)
    BY DEF Subject
  <2> QED
    BY <1>1, <1>2, <2>1 DEF CourseInv, SubjectInv
<1>9. (TestOpen' => TestOpen) /\ (ValOpen' => ValOpen)
  BY <1>2, <1>3 DEF TestOpen, ValOpen
<1> QED
  BY <1>4, <1>6, <1>7, <1>8, <1>9 DEF CourseInv

\* What is sent neither clears the checkpoint nor is for the other page.
LEMMA BodyCalls ==
  ASSUME NEW rest \in Seq(Call), ToSet(rest) \subseteq ToSet(calls),
         NEW ops, NEW callers, Sends(rest, ops, callers),
         "delete" \notin ops, "preview" \notin ops,
         \A d \in ToSet(calls') : d \in ToSet(rest) \/ (d.op = "put" => d.of # None)
  PROVE  /\ /\ \A c \in ToSet(calls) : ~Clears(c) /\ c.by \notin {"val", "byeTest"}
            /\ callers \cap {"val", "byeTest"} = {}
            => \A c \in ToSet(calls') : ~Clears(c) /\ c.by \notin {"val", "byeTest"}
         /\ /\ \A c \in ToSet(calls) : ~Clears(c) /\ c.by \in {"none", "val", "byeTest"}
            /\ callers \subseteq {"none", "val", "byeTest"}
            => \A c \in ToSet(calls') : ~Clears(c) /\ c.by \in {"none", "val", "byeTest"}
<1>1. \A d \in ToSet(calls') : \/ d \in ToSet(rest) /\ d \in ToSet(calls)
                               \/ d.op \in ops /\ d.by \in callers
  BY SentFacts
<1>2. \A d \in ToSet(calls') : d \in ToSet(rest) \/ ~Clears(d)
  BY <1>1 DEF Clears
<1>3. \A d \in ToSet(calls') : d \in ToSet(calls) \/ (~Clears(d) /\ d.by \in callers)
  BY <1>1, <1>2
<1> QED
  BY <1>3

\* The last request of a handler is on its way.
LEMMA LastSent ==
  ASSUME NEW rest \in Seq(Call), NEW x \in Call, calls' = Append(rest, x)
  PROVE  x \in ToSet(calls') /\ ToSet(calls') = ToSet(rest) \cup {x}
BY AppendFacts

\* A test or a validation that has been opened has a number.
LEMMA OpenNumber ==
  ASSUME KioskInv, CourseInv
  PROVE  /\ TestOpen => sr.test # None /\ sr.test \in Tests
         /\ ValOpen => val.run # None /\ val.run \in Validations
         /\ sr \in Sr /\ sr.test \in Nat /\ val \in Val /\ val.run \in Nat
<1>1. /\ sr \in Sr /\ sr.test \in Tests \cup {None} /\ sr.test \in Nat
      /\ val \in Val /\ val.run \in Validations \cup {None} /\ val.run \in Nat
  BY SrFields, ValFields DEF KioskInv, PagePart, TestPageTypes, ValidationTypes
<1>2. started \subseteq Nat \ {0}
  BY RunFacts DEF KioskInv, ServerPart
<1>3. \A c \in ToSet(calls) : /\ c.op = "run" => c.of \in Nat \ {0}
                              /\ c.op = "start" => c.of \in Nat \ {0}
  BY RunFacts DEF KioskInv, CallsPart, Fit
<1>4. TestOpen => sr.test # None
  BY <1>2, <1>3 DEF TestOpen, Sent, CourseInv, RunsInv, None
<1>5. ValOpen => val.run # None
  BY <1>2, <1>3 DEF ValOpen, Sent, CourseInv, ValRunsInv, None
<1> QED
  BY <1>1, <1>4, <1>5

----------------------------------------------------------------------------
(***************************************************************************)
(* No test is forgotten: the user                                          *)
(***************************************************************************)
\* What is open when no request is under way.
LEMMA IdleOpen ==
  ASSUME KioskInv, WaitInv, KeptInv, Idle
  PROVE  /\ ToSet(calls) = {} /\ By(calls) = {} /\ calls \in Seq(Call) /\ Once(calls, {"start"})
         /\ TestOpen => /\ page = "test" /\ ~last.pending /\ gate = None
                        /\ Operating \/ modal = "choice"
                        /\ ~ValidationActive /\ (sr.running \/ sr.done)
         /\ ValOpen => /\ page = "validation" /\ ~last.pending /\ gate = None
                       /\ ValidationActive
         /\ modal = "none" => ask = "none"
<1>1. ToSet(calls) = {} /\ By(calls) = {} /\ calls \in Seq(Call) /\ Once(calls, {"start"})
  BY CallsFacts DEF Idle, ToSet, By, Once
<1>2. ~Filing /\ ~ValFiling /\ ~ValWaits
  BY <1>1 DEF Filing, ValFiling, ValWaits
<1>3. gate # None => last.pending
  BY DEF KioskInv, ShellPart
<1>4. ValidationActive => page = "validation"
  BY DEF WaitInv, PageInv
<1>5. TestOpen => sr.running \/ sr.done
  BY DEF KeptInv, CourseInv, RunsInv, TestOpen
<1>6. modal = "none" => ask = "none"
  BY DEF WaitInv, AskInv
<1> QED
  BY <1>1, <1>2, <1>3, <1>4, <1>5, <1>6 DEF KeptInv, TestBody, ValBody

\* A press that starts nothing.
LEMMA PressCourse ==
  ASSUME KioskInv, KeptInv, Idle, UNCHANGED <<started, unsaved>>, SameNumbers,
         sr'.test = sr.test, val'.run = val.run,
         sr.running \/ sr.done => sr'.running \/ sr'.done,
         NEW ops, NEW callers, Sends(calls, ops, callers), "run" \notin ops, "start" \notin ops,
         callers \cap {"start", "leave", "idle"} = {},
         \A d \in ToSet(calls') : d.op = "report" => d.of = Subject(d),
         "test" \notin skip', ask' # "leaveVal"
  PROVE  CourseInv' /\ StayInv' /\ (TestOpen' => TestOpen) /\ (ValOpen' => ValOpen)
<1>1. calls \in Seq(Call) /\ Once(calls, {"start"}) /\ By(calls') \subseteq callers
  BY CallsFacts, PressCalls DEF Idle, Once
<1>2. CourseInv' /\ (TestOpen' => TestOpen) /\ (ValOpen' => ValOpen)
  BY <1>1, CourseKept DEF KeptInv
<1>3. StayInv'
  BY <1>1 DEF StayInv
<1> QED
  BY <1>2, <1>3

\* Nothing of the two pages is held or early after a press on another one.
LEMMA PressHolds ==
  ASSUME KioskInv, KeptInv, Idle, NEW ops, NEW callers, Sends(calls, ops, callers)
  PROVE  /\ callers \cap Endings = {} /\ ask' # "stop" /\ modal' # "choice" => HoldInv'
         /\ /\ page' # "validation" /\ going' # "validation"
            /\ UNCHANGED val \/ ~val'.awaiting \/ ~val'.enabled
            => EarlyInv'
<1>1. By(calls') \subseteq callers
  BY PressCalls
<1> QED
  BY <1>1 DEF HoldInv, EarlyInv, KeptInv

\* The report of the test is posted.
LEMMA PostsTest ==
  ASSUME KioskInv, NEW rest \in Seq(Call), NEW aborted \in BOOLEAN, NEW by \in {"submit", "bye"},
         calls' = Append(rest, PostReport(sr.test, by, aborted)), sr'.test = sr.test
  PROVE  /\ Filing'
         /\ Sends(rest, {"report"}, {by})
         /\ \A d \in ToSet(calls') : d \in ToSet(rest) \/ (d.of = Subject(d) /\ d.op = "report")
<1> DEFINE x == PostReport(sr.test, by, aborted)
<1>1. sr.test \in Runs \cup {None} /\ sr.test \in Nat
  BY SrFields DEF KioskInv, PagePart, TestPageTypes
<1>2. x \in New /\ x \in Call
  BY <1>1, NewRunRequests, NewCall
<1>3. x.op = "report" /\ x.of = sr.test /\ x.by = by /\ x.at = "sent"
  BY RequestFields
<1> HIDE DEF x
<1>4. x \in ToSet(calls') /\ ToSet(calls') = ToSet(rest) \cup {x}
  BY <1>2, LastSent DEF x
<1>5. Filing'
  BY <1>3, <1>4 DEF Filing, IsPost
<1>6. Sends(rest, {"report"}, {by})
  BY <1>2, <1>3, SendOne DEF x
<1> QED
  BY <1>3, <1>4, <1>5, <1>6 DEF Subject

\* The checkpoint of the test is written.
LEMMA PutsTest ==
  ASSUME KioskInv, NEW rest \in Seq(Call),
         calls' = Append(rest, Request("put", sr.test, "none"))
  PROVE  /\ Sends(rest, {"put"}, {"none"})
         /\ \A d \in ToSet(calls') : d \in ToSet(rest) \/ (d.of = sr.test /\ d.op = "put")
<1> DEFINE x == Request("put", sr.test, "none")
<1>1. sr.test \in Runs \cup {None} /\ sr.test \in Nat
  BY SrFields DEF KioskInv, PagePart, TestPageTypes
<1>2. x \in New /\ x \in Call
  BY <1>1, NewRunRequests, NewCall
<1>3. x.op = "put" /\ x.of = sr.test /\ x.by = "none"
  BY RequestFields
<1> HIDE DEF x
<1>4. ToSet(calls') = ToSet(rest) \cup {x}
  BY <1>2, LastSent DEF x
<1>5. Sends(rest, {"put"}, {"none"})
  BY <1>2, <1>3, SendOne DEF x
<1> QED
  BY <1>3, <1>4, <1>5

LEMMA TestPressKept ==
  ASSUME KioskInv, WaitInv, KeptInv, Idle, going = "nowhere", Free("test"),
         PressStart \/ PressComplete \/ PressStop \/ SaveWeights,
         UNCHANGED <<server, user, val>>, Stays
  PROVE  KeptInv'
<1>1. /\ ToSet(calls) = {} /\ calls \in Seq(Call) /\ ask = "none" /\ page = "test"
      /\ TestOpen => ~last.pending /\ Operating /\ (sr.running \/ sr.done) /\ ~ValidationActive
      /\ ~ValOpen
  BY IdleOpen DEF Free
<1>2. UNCHANGED <<started, unsaved, page, going, skip, last>> /\ SameNumbers /\ val'.run = val.run
  BY DEF server, SameNumbers, Stays
<1>3. sr \in Sr /\ sr.test \in Nat /\ "test" \notin skip
  BY OpenNumber DEF KeptInv, StayInv
<1>4. CASE PressStart
  <2>1. Sends(calls, {"put"}, {"none"}) /\ sr'.test = sr.test /\ NoModal /\ ~sr.running /\ ~sr.done
        /\ calls' = Append(calls, Request("put", sr.test, "none"))
    BY <1>1, <1>4, PutsTest DEF PressStart
  <2>2. \A d \in ToSet(calls') : d.op = "put"
    BY <1>1, <2>1, PutsTest
  <2>3. CourseInv' /\ StayInv' /\ (TestOpen' => TestOpen) /\ (ValOpen' => ValOpen)
    BY <1>1, <1>2, <1>3, <2>1, <2>2, PressCourse DEF NoModal
  <2>4. HoldInv' /\ EarlyInv'
    BY <1>1, <1>2, <2>1, PressHolds DEF NoModal, Endings, Free
  <2> QED
    BY <1>1, <2>1, <2>3, <2>4 DEF KeptInv
<1>5. CASE PressComplete
  <2> DEFINE x == Request("complete", sr.test, "complete")
  <2>1. x \in New /\ calls' = Append(calls, x) /\ UNCHANGED sr /\ NoModal
    BY <1>3, <1>5, NewRequests DEF PressComplete
  <2>2. x.op = "complete" /\ x.by = "complete"
    BY RequestFields
  <2> HIDE DEF x
  <2>3. Sends(calls, {"complete"}, {"complete"})
    BY <1>1, <2>1, <2>2, SendOne
  <2>4. \A d \in ToSet(calls') : d.op = "complete"
    BY <2>3, PressCalls
  <2>5. CourseInv' /\ StayInv' /\ (TestOpen' => TestOpen) /\ (ValOpen' => ValOpen)
    BY <1>1, <1>2, <1>3, <2>1, <2>3, <2>4, PressCourse DEF NoModal
  <2>6. HoldInv' /\ EarlyInv'
    BY <1>1, <1>2, <2>1, <2>3, PressHolds DEF NoModal, Endings, Free
  <2>7. TestOpen => TestBody'
    <3>1. \A c \in ToSet(calls') : ~Clears(c) /\ c.by \notin {"val", "byeTest"}
      BY <1>1, <2>3, <2>4, PressCalls DEF Clears
    <3> QED
      BY <1>1, <1>2, <2>1, <3>1 DEF TestBody, Operating
  <2> QED
    BY <1>1, <2>5, <2>6, <2>7 DEF KeptInv
<1>6. CASE PressStop
  <2>1. UNCHANGED <<calls, sr>> /\ ask' = "stop" /\ modal' = "question"
    BY <1>6 DEF PressStop, Asks
  <2>2. Sends(calls, {}, {}) /\ ToSet(calls') = {} /\ By(calls') = {}
    BY <1>1, <2>1, SendNone DEF By
  <2>3. CourseInv' /\ StayInv' /\ (TestOpen' => TestOpen) /\ (ValOpen' => ValOpen)
    BY <1>1, <1>2, <1>3, <2>1, <2>2, PressCourse
  <2>4. HoldInv' /\ EarlyInv'
    BY <1>1, <1>2, <2>1, <2>2 DEF HoldInv, EarlyInv, KeptInv
  <2>5. TestOpen => TestBody'
    BY <1>1, <1>2, <2>1, <2>2 DEF TestBody, Operating
  <2> QED
    BY <1>1, <2>3, <2>4, <2>5 DEF KeptInv
<1>7. CASE SaveWeights
  <2>1. /\ calls' = Append(calls, PostReport(sr.test, "submit", sr.aborted)) /\ NoModal
        /\ sr'.test = sr.test /\ sr'.running = sr.running /\ sr'.done = sr.done
        /\ sr.aborted \in BOOLEAN
    BY <1>3, <1>7, SrFields DEF SaveWeights, Submits, Submitted, Sr
  <2>2. /\ Filing' /\ Sends(calls, {"report"}, {"submit"})
        /\ \A d \in ToSet(calls') : d.of = Subject(d) /\ d.op = "report"
    BY <1>1, <2>1, PostsTest
  <2>3. CourseInv' /\ StayInv' /\ (TestOpen' => TestOpen) /\ (ValOpen' => ValOpen)
    BY <1>1, <1>2, <1>3, <2>1, <2>2, PressCourse DEF NoModal
  <2>4. HoldInv' /\ EarlyInv'
    BY <1>1, <1>2, <2>1, <2>2, PressHolds DEF NoModal, Endings, Free
  <2>5. TestOpen => TestBody'
    <3>1. \A c \in ToSet(calls') : ~Clears(c) /\ c.by \notin {"val", "byeTest"}
      BY <1>1, <2>2, PressCalls DEF Clears
    <3> QED
      BY <1>1, <1>2, <2>2, <3>1 DEF TestBody
  <2> QED
    BY <1>1, <2>3, <2>4, <2>5 DEF KeptInv
<1> QED
  BY <1>4, <1>5, <1>6, <1>7

\* A single request is under way.
LEMMA OnlyCall ==
  ASSUME NEW x \in New, calls' = Append(calls, x), Idle
  PROVE  /\ ToSet(calls') = {x} /\ By(calls') = {x.by} /\ x \in Call /\ x.at = "sent"
         /\ \A B : Once(calls', B)
<1>1. x \in Call /\ x.at = "sent"
  BY NewCall DEF New
<1>2. <<>> \in Seq(Call) /\ ToSet(<<>>) = {}
  BY DEF ToSet
<1>3. ToSet(calls') = {x} /\ Len(calls') = 1 /\ calls' \in Seq(Call)
  <2>1. /\ Append(calls, x) \in Seq(Call) /\ Len(Append(calls, x)) = Len(calls) + 1
        /\ ToSet(Append(calls, x)) = ToSet(calls) \cup {x}
    <3>1. calls \in Seq(Call)
      BY <1>2 DEF Idle
    <3> QED
      BY <1>1, <3>1, AppendFacts
  <2>2. Len(<<>>) = 0
    OBVIOUS
  <2> QED
    BY <1>2, <2>1, <2>2 DEF Idle
<1>4. DOMAIN calls' = 1 .. 1
  BY <1>3, LenProperties
<1>5. \A B : Once(calls', B)
  BY <1>4 DEF Once
<1> QED
  BY <1>1, <1>3, <1>5 DEF By

\* The before wizard ends: the test that is asked for has not been started.
LEMMA WeighedKept ==
  ASSUME KioskInv, WaitInv, KeptInv, Idle, going = "nowhere", Free("test"), Weighed,
         UNCHANGED <<server, user, val>>, Stays
  PROVE  KeptInv'
<1> DEFINE x == Request("run", sr.test, "start")
<1>1. /\ ToSet(calls) = {} /\ calls \in Seq(Call) /\ ask = "none" /\ page = "test" /\ ~ValOpen
  BY IdleOpen DEF Free
<1>2. /\ UNCHANGED <<started, unsaved, reports, page, going, skip, last, goal>> /\ val' = val
      /\ ask' = "none" /\ modal' = "none"
  BY <1>1 DEF server, Stays, Weighed, NoModal, Free
<1>3. sr \in Sr /\ sr.test \in Tests /\ "test" \notin skip
  <2>1. sr.test # None /\ sr.test \in Tests \cup {None}
    BY <1>1, SrFields DEF KioskInv, ShellPart, PagePart, TestPageTypes
  <2> QED
    BY <2>1 DEF KeptInv, StayInv, KioskInv, PagePart, TestPageTypes
<1>4. ~sr.running /\ ~sr.done /\ ~last.pending /\ sr.test \notin started
  <2>1. ~sr.running /\ ~sr.done /\ ~last.pending
    BY <1>1 DEF Weighed, WaitInv, BeforeInv
  <2> QED
    BY <2>1 DEF KeptInv, CourseInv, RunsInv
<1>5. /\ x \in New /\ calls' = Append(calls, x)
      /\ sr'.test = sr.test /\ sr'.running /\ ~sr'.done
  BY <1>3, <1>4, NewRunRequests DEF Weighed, Sr
<1>6. x.op = "run" /\ x.by = "start" /\ x.of = sr.test
  BY RequestFields
<1> HIDE DEF x
<1>7. ToSet(calls') = {x} /\ By(calls') = {"start"} /\ Once(calls', {"start"}) /\ x.at = "sent"
  BY <1>5, <1>6, OnlyCall
<1>8. \A t : Settled(t)' <=> Settled(t)
  BY <1>2 DEF Settled
<1>9. PastInv' /\ RunsInv' /\ ValRunsInv' /\ SubjectInv'
  <2>1. PastInv'
    BY <1>2, <1>5, <1>8 DEF KeptInv, CourseInv, PastInv
  <2>2. RunsInv'
    BY <1>2, <1>4, <1>5, <1>6, <1>7 DEF RunsInv
  <2> QED
    BY <1>6, <1>7, <2>1, <2>2 DEF ValRunsInv, SubjectInv
<1>10. StayInv' /\ HoldInv' /\ EarlyInv'
  BY <1>1, <1>2, <1>3, <1>7 DEF KeptInv, StayInv, HoldInv, EarlyInv, Endings
<1>11. TestBody'
  BY <1>1, <1>2, <1>4, <1>5, <1>6, <1>7 DEF TestBody, Operating, Clears
<1>12. ~ValOpen'
  BY <1>1, <1>2, <1>6, <1>7, <1>8 DEF ValOpen, Sent
<1> QED
  BY <1>9, <1>10, <1>11, <1>12 DEF KeptInv, CourseInv

\* Validations.
LEMMA PostsValidation ==
  ASSUME KioskInv, NEW rest \in Seq(Call), NEW aborted \in BOOLEAN, NEW by \in {"val", "byeTest"},
         calls' = Append(rest, PostReport(val.run, by, aborted)), val'.run = val.run
  PROVE  /\ ValFiling'
         /\ Sends(rest, {"report"}, {by})
         /\ \A d \in ToSet(calls') : d \in ToSet(rest) \/ (d.of = Subject(d) /\ d.op = "report")
<1> DEFINE x == PostReport(val.run, by, aborted)
<1>1. val.run \in Runs \cup {None} /\ val.run \in Nat
  BY ValFields DEF KioskInv, PagePart, ValidationTypes
<1>2. x \in New /\ x \in Call
  BY <1>1, NewRunRequests, NewCall
<1>3. x.op = "report" /\ x.of = val.run /\ x.by = by /\ x.at = "sent"
  BY RequestFields
<1> HIDE DEF x
<1>4. x \in ToSet(calls') /\ ToSet(calls') = ToSet(rest) \cup {x}
  BY <1>2, LastSent DEF x
<1>5. ValFiling'
  BY <1>3, <1>4 DEF ValFiling, IsPost
<1>6. Sends(rest, {"report"}, {by})
  BY <1>2, <1>3, SendOne DEF x
<1> QED
  BY <1>3, <1>4, <1>5, <1>6 DEF Subject

\* A validation is started when none is active: the one before is settled.
LEMMA ValidateKept ==
  ASSUME KioskInv, WaitInv, KeptInv, Idle, going = "nowhere", Free("validation"), PressValidate,
         UNCHANGED <<server, user, sr>>, Stays
  PROVE  KeptInv'
<1> DEFINE x == Request("start", val.run, "val")
<1>1. /\ ToSet(calls) = {} /\ calls \in Seq(Call) /\ ask = "none" /\ page = "validation"
      /\ ~TestOpen
      /\ ValOpen => ValidationActive
  BY IdleOpen DEF Free
<1>2. /\ UNCHANGED <<started, unsaved, reports, page, going, skip, last, goal, sr>> /\ val' = val
      /\ ask' = "none" /\ modal' = "none"
  BY <1>1 DEF server, Stays, PressValidate, NoModal, Free
<1>3. val.enabled /\ ~val.running /\ ~val.awaiting /\ ~last.pending
  BY <1>1 DEF PressValidate, KeptInv, EarlyInv
<1>4. ~ValOpen
  BY <1>1, <1>3 DEF ValidationActive
<1>5. val.run \in Validations /\ val.run # None
  BY <1>3, ValFields DEF KioskInv, PagePart, ValidationTypes
<1>6. x \in New /\ calls' = Append(calls, x)
  BY <1>5, NewRunRequests DEF PressValidate
<1>7. x.op = "start" /\ x.by = "val" /\ x.of = val.run
  BY RequestFields
<1> HIDE DEF x
<1>8. ToSet(calls') = {x} /\ By(calls') = {"val"} /\ Once(calls', {"start"}) /\ x.at = "sent"
  BY <1>6, <1>7, OnlyCall
<1>9. \A t : Settled(t)' <=> Settled(t)
  BY <1>2 DEF Settled
<1>10. CourseInv'
  <2>1. PastInv'
    BY <1>2, <1>9 DEF KeptInv, CourseInv, PastInv
  <2>2. RunsInv'
    BY <1>2, <1>7, <1>8 DEF KeptInv, CourseInv, RunsInv, Sent
  <2>3. ValRunsInv'
    BY <1>2, <1>4, <1>7, <1>8, <1>9 DEF ValRunsInv, ValOpen
  <2> QED
    BY <1>7, <1>8, <2>1, <2>2, <2>3 DEF CourseInv, SubjectInv
<1>11. StayInv' /\ HoldInv' /\ EarlyInv'
  BY <1>1, <1>2, <1>3, <1>7, <1>8 DEF KeptInv, StayInv, HoldInv, EarlyInv, Endings
<1>12. ~TestOpen'
  BY <1>1, <1>2, <1>7, <1>8, <1>9 DEF TestOpen, Sent
<1>13. ValBody'
  BY <1>1, <1>2, <1>3, <1>7, <1>8 DEF ValBody, ValWaits, Clears
<1> QED
  BY <1>10, <1>11, <1>12, <1>13 DEF KeptInv

\* The amplitude is submitted, or the button asks before it aborts.
LEMMA AmplitudeKept ==
  ASSUME KioskInv, WaitInv, KeptInv, Idle, going = "nowhere", Free("validation"),
         PressAbort \/ SubmitAmplitude,
         UNCHANGED <<server, user, sr>>, Stays
  PROVE  KeptInv'
<1>1. /\ ToSet(calls) = {} /\ calls \in Seq(Call) /\ ask = "none" /\ page = "validation"
      /\ ~TestOpen
      /\ ValOpen => ~last.pending /\ ValidationActive
  BY IdleOpen DEF Free
<1>2. UNCHANGED <<started, unsaved, page, going, skip, last, sr>> /\ SameNumbers
  BY DEF server, SameNumbers, Stays
<1>3. val \in Val /\ val.run \in Nat /\ "test" \notin skip
  BY OpenNumber DEF KeptInv, StayInv
<1>4. CASE PressAbort
  <2>1. UNCHANGED <<calls, val>> /\ ask' = "stopVal" /\ modal' = "question"
    BY <1>4 DEF PressAbort, Asks
  <2>2. Sends(calls, {}, {}) /\ ToSet(calls') = {} /\ By(calls') = {}
    BY <1>1, <2>1, SendNone DEF By
  <2>3. CourseInv' /\ StayInv' /\ (TestOpen' => TestOpen) /\ (ValOpen' => ValOpen)
    BY <1>1, <1>2, <1>3, <2>1, <2>2, PressCourse
  <2>4. HoldInv' /\ EarlyInv'
    BY <1>1, <1>2, <2>1, <2>2 DEF HoldInv, EarlyInv, KeptInv
  <2>5. ValOpen => ValBody'
    BY <1>1, <1>2, <2>1, <2>2 DEF ValBody, ValidationActive
  <2> QED
    BY <1>1, <2>3, <2>4, <2>5 DEF KeptInv
<1>5. CASE SubmitAmplitude
  <2>1. /\ calls' = Append(calls, PostReport(val.run, "val", val.aborted)) /\ NoModal
        /\ val'.run = val.run /\ ~val'.awaiting /\ val'.enabled = val.enabled
        /\ val.aborted \in BOOLEAN /\ val.awaiting
    BY <1>3, <1>5, ValFields DEF SubmitAmplitude, SavesValidation, Val
  <2>2. /\ ValFiling' /\ Sends(calls, {"report"}, {"val"})
        /\ \A d \in ToSet(calls') : d.of = Subject(d) /\ d.op = "report"
    BY <1>1, <2>1, PostsValidation
  <2>3. CourseInv' /\ StayInv' /\ (TestOpen' => TestOpen) /\ (ValOpen' => ValOpen)
    BY <1>1, <1>2, <1>3, <2>1, <2>2, PressCourse DEF NoModal
  <2>4. HoldInv'
    BY <1>1, <2>1, <2>2, PressHolds DEF NoModal, Endings, Free
  <2>5. EarlyInv'
    BY <1>1, <1>2, <2>1 DEF EarlyInv, KeptInv, NoModal
  <2>6. ValOpen => ValBody'
    <3>1. \A c \in ToSet(calls') : ~Clears(c) /\ c.by \in {"none", "val", "byeTest"}
      BY <1>1, <2>2, PressCalls DEF Clears
    <3> QED
      BY <1>1, <1>2, <2>2, <3>1 DEF ValBody
  <2> QED
    BY <1>1, <2>3, <2>4, <2>5, <2>6 DEF KeptInv
<1> QED
  BY <1>4, <1>5

\* Presses that send nothing and keep both records.
LEMMA QuietKept ==
  ASSUME KioskInv, WaitInv, KeptInv, Idle, going = "nowhere",
         BackFromValidation \/ Navigate \/ PressCancel
  PROVE  KeptInv'
<1>1. /\ ToSet(calls) = {} /\ calls \in Seq(Call)
      /\ TestOpen => page = "test" /\ ~last.pending /\ (Operating \/ modal = "choice")
      /\ ValOpen => page # "test" /\ ~last.pending /\ ValidationActive
      /\ modal = "none" => ask = "none"
  BY IdleOpen
<1>2. /\ UNCHANGED <<started, unsaved, calls, sr, val, page, skip, last>> /\ SameNumbers
      /\ going' \in {"nowhere", "home", "recipes"}
      /\ ask' \in {"none", "backVal"} /\ modal' \in {"none", "question"}
      /\ modal # "choice"
  BY <1>1 DEF BackFromValidation, Navigate, PressCancel, Asks, GoesTo, Free, Stays, server, SameNumbers
<1>3. Sends(calls, {}, {}) /\ ToSet(calls') = {} /\ By(calls') = {} /\ "test" \notin skip
  BY <1>1, <1>2, SendNone DEF By, KeptInv, StayInv
<1>4. CourseInv' /\ StayInv' /\ (TestOpen' => TestOpen) /\ (ValOpen' => ValOpen)
  BY <1>1, <1>2, <1>3, PressCourse
<1>5. HoldInv' /\ EarlyInv'
  BY <1>1, <1>2, <1>3 DEF HoldInv, EarlyInv, KeptInv
<1>6. TestOpen => TestBody'
  BY <1>1, <1>2, <1>3 DEF TestBody, Operating
<1>7. ValOpen => ValBody'
  BY <1>1, <1>2, <1>3 DEF ValBody, ValidationActive
<1> QED
  BY <1>4, <1>5, <1>6, <1>7 DEF KeptInv

\* What is not open on the page is settled.
LEMMA AllSettled ==
  ASSUME KioskInv, CourseInv
  PROVE  /\ ~TestOpen => \A t \in started : t \in Tests => t <= sr.test /\ Settled(t)
         /\ ~ValOpen => \A t \in started : t \in Validations => t <= val.run /\ Settled(t)
         /\ \A t \in started : t \in Tests \/ t \in Validations
         /\ \A t \in started : t \in Tests => t <= sr.test /\ (t = sr.test \/ Settled(t))
         /\ \A t \in started : t \in Validations => t <= val.run /\ (t = val.run \/ Settled(t))
<1>1. Tests \cap Validations = {}
  BY RunFacts
<1>2. \A t \in started :
        \/ t \in Tests /\ t <= sr.test /\ (t = sr.test \/ Settled(t))
        \/ t \in Validations /\ t <= val.run /\ (t = val.run \/ Settled(t))
  BY DEF CourseInv, PastInv
<1>3. /\ \A t \in started : t \in Tests => t <= sr.test /\ (t = sr.test \/ Settled(t))
      /\ \A t \in started : t \in Validations => t <= val.run /\ (t = val.run \/ Settled(t))
  BY <1>1, <1>2
<1>4. ~TestOpen => (sr.test \in started => Settled(sr.test))
  BY DEF TestOpen
<1>5. ~ValOpen => (val.run \in started => Settled(val.run))
  BY DEF ValOpen
<1> QED
  BY <1>2, <1>3, <1>4, <1>5

\* The next recipe and the next validation have numbers that nothing has been
\* started under, and the run before is settled.
LEMMA RecipeKept ==
  ASSUME KioskInv, WaitInv, KeptInv, Idle, going = "nowhere", LoadRecipe
  PROVE  KeptInv'
<1>1. /\ ToSet(calls) = {} /\ page = "recipes" /\ ~TestOpen /\ ~ValOpen /\ ask = "none"
      /\ CourseInv
  BY IdleOpen DEF LoadRecipe, Free, KeptInv
<1>2. /\ UNCHANGED <<started, unsaved, reports, calls, ask, val, page, skip>> /\ going' = "test"
      /\ modal' = "none"
  BY DEF LoadRecipe, GoesTo, Free, server
<1>3. sr.test \in Nat /\ val.run \in Nat /\ MaxTests \in Nat /\ sr'.test = sr.test + 1 /\ sr.test < MaxTests
  BY <1>1, OpenNumber, ServerAssumption DEF LoadRecipe, Blank
<1>4. ToSet(calls') = {} /\ By(calls') = {} /\ Once(calls', {"start"})
  BY <1>1, <1>2 DEF By, Idle, Once
<1>5. \A t : Settled(t)' <=> Settled(t)
  BY <1>2 DEF Settled
<1>6. /\ \A t \in started : t \in Tests => t <= sr.test /\ Settled(t)
      /\ \A t \in started : t \in Validations => t <= val.run /\ (t = val.run \/ Settled(t))
      /\ \A t \in started : t \in Tests \/ t \in Validations
  BY <1>1, AllSettled
<1>7. sr.test + 1 \in Tests /\ sr.test + 1 \notin started
  <2>1. sr.test + 1 \in Tests
    BY <1>3 DEF Tests
  <2> QED
    BY <1>3, <1>6, <2>1
<1>8. PastInv'
  <2> SUFFICES ASSUME NEW t \in started
               PROVE  \/ t \in Tests /\ t <= sr.test + 1 /\ (t = sr.test + 1 \/ Settled(t))
                      \/ t \in Validations /\ t <= val.run /\ (t = val.run \/ Settled(t))
    BY <1>2, <1>3, <1>5 DEF PastInv
  <2>1. t \in Tests => t \in Nat /\ t <= sr.test /\ Settled(t)
    BY <1>6, RunFacts
  <2> QED
    BY <1>3, <1>6, <2>1
<1>9. CourseInv'
  BY <1>2, <1>3, <1>4, <1>7, <1>8 DEF CourseInv, RunsInv, ValRunsInv, SubjectInv, Sent
<1>10. StayInv' /\ HoldInv' /\ EarlyInv'
  BY <1>1, <1>2, <1>4 DEF KeptInv, StayInv, HoldInv, EarlyInv
<1>11. ~TestOpen' /\ ~ValOpen'
  <2>1. ~TestOpen'
    BY <1>2, <1>3, <1>4, <1>7 DEF TestOpen, Sent
  <2> QED
    BY <1>1, <1>2, <1>4, <1>5, <2>1 DEF ValOpen, Sent
<1> QED
  BY <1>9, <1>10, <1>11 DEF KeptInv

LEMMA OpenValidationKept ==
  ASSUME KioskInv, WaitInv, KeptInv, Idle, going = "nowhere", OpenValidation
  PROVE  KeptInv'
<1> DEFINE v == IF val.run = None THEN MaxTests + 1 ELSE val.run + 1
<1>1. /\ ToSet(calls) = {} /\ page = "home" /\ ~TestOpen /\ ~ValOpen /\ ask = "none"
      /\ CourseInv
  BY IdleOpen DEF OpenValidation, Free, KeptInv
<1>2. /\ UNCHANGED <<started, unsaved, reports, calls, ask, sr, page, skip>> /\ going' = "validation"
      /\ modal' = "none" /\ val' = Ready(v)
  BY DEF OpenValidation, GoesTo, Free, server
<1>3. /\ sr.test \in Nat /\ val.run \in Nat /\ MaxTests \in Nat /\ MaxValidations \in Nat
      /\ val.run \in Validations \cup {None} /\ val.run # MaxTests + MaxValidations
      /\ Cardinality(Validations) > 0
  BY <1>1, OpenNumber, ValFields, ServerAssumption
  DEF OpenValidation, KioskInv, PagePart, ValidationTypes
<1>4. ToSet(calls') = {} /\ By(calls') = {} /\ Once(calls', {"start"})
  BY <1>1, <1>2 DEF By, Idle, Once
<1>5. \A t : Settled(t)' <=> Settled(t)
  BY <1>2 DEF Settled
<1>6. /\ \A t \in started : t \in Tests => t <= sr.test /\ (t = sr.test \/ Settled(t))
      /\ \A t \in started : t \in Validations => t <= val.run /\ Settled(t)
      /\ \A t \in started : t \in Tests \/ t \in Validations
  BY <1>1, AllSettled
<1>7. v \in Nat /\ v > MaxTests /\ v > val.run /\ v # None
  BY <1>3 DEF Validations, None
<1>8. val'.run = v /\ ~val'.awaiting
  BY <1>2 DEF Ready
<1> HIDE DEF v
<1>9. v \notin started
  <2>1. v \notin Tests
    BY <1>3, <1>7 DEF Tests
  <2> QED
    BY <1>3, <1>6, <1>7, <2>1
<1>10. PastInv'
  <2> SUFFICES ASSUME NEW t \in started
               PROVE  \/ t \in Tests /\ t <= sr.test /\ (t = sr.test \/ Settled(t))
                      \/ t \in Validations /\ t <= v /\ (t = v \/ Settled(t))
    BY <1>2, <1>5, <1>8 DEF PastInv
  <2>1. t \in Validations => t \in Nat /\ t <= val.run /\ Settled(t)
    BY <1>6, RunFacts
  <2> QED
    BY <1>3, <1>6, <1>7, <2>1
<1>11. CourseInv'
  BY <1>1, <1>2, <1>4, <1>10 DEF CourseInv, RunsInv, ValRunsInv, SubjectInv, Sent
<1>12. StayInv' /\ HoldInv' /\ EarlyInv'
  BY <1>1, <1>2, <1>4, <1>8 DEF KeptInv, StayInv, HoldInv, EarlyInv, Idle
<1>13. ~TestOpen' /\ ~ValOpen'
  <2>1. ~ValOpen'
    BY <1>2, <1>4, <1>8, <1>9 DEF ValOpen, Sent
  <2> QED
    BY <1>1, <1>2, <1>4, <1>5, <2>1 DEF TestOpen, Sent
<1> QED
  BY <1>11, <1>12, <1>13 DEF KeptInv

\* One request that is no report.
LEMMA AsksFor ==
  ASSUME NEW rest \in Seq(Call), NEW op, NEW of, NEW by, Request(op, of, by) \in New,
         calls' = Append(rest, Request(op, of, by))
  PROVE  /\ Sends(rest, {op}, {by})
         /\ \A d \in ToSet(calls') : d \in ToSet(rest) \/ (d.op = op /\ d.of = of /\ d.by = by)
         /\ \E d \in ToSet(calls') : d.op = op /\ d.of = of /\ d.by = by
<1> DEFINE x == Request(op, of, by)
<1>1. x \in Call /\ x.op = op /\ x.of = of /\ x.by = by
  BY RequestFields, NewCall
<1> HIDE DEF x
<1>2. Sends(rest, {op}, {by})
  BY <1>1, SendOne DEF x
<1>3. x \in ToSet(calls') /\ ToSet(calls') = ToSet(rest) \cup {x}
  BY <1>1, LastSent DEF x
<1> QED
  BY <1>1, <1>2, <1>3

\* A report that has been closed keeps its number.
LEMMA ClosedNumbers ==
  ASSUME KioskInv, NEW j \in DOMAIN reports, reports' = [reports EXCEPT ![j].pending = FALSE]
  PROVE  SameNumbers
<1>1. \A i \in DOMAIN reports : reports[i] \in Report
  <2>1. reports \in Seq(Report)
    BY DEF KioskInv, ServerPart
  <2> QED
    BY <2>1, ElementOfSeq, LenProperties
<1> QED
  BY <1>1 DEF SameNumbers, Report

\* Presses on the other screens, where nothing is open.
LEMMA OpenKept ==
  ASSUME KioskInv, WaitInv, KeptInv, Idle, going = "nowhere", OpenReport \/ Approve,
         haste' \in 0 .. MaxHaste
  PROVE  KeptInv'
<1>1. /\ calls \in Seq(Call) /\ page \in {"home", "preview"} /\ modal = "none" /\ ask = "none"
      /\ "test" \notin skip /\ ~TestOpen
      /\ ~ValOpen
  BY IdleOpen DEF OpenReport, Approve, Free, KeptInv, StayInv
<1>2. Sends(calls, {"delete", "preview"}, {"none", "open"})
  <2>1. CASE OpenReport
    <3>1. Sends(calls, {"preview"}, {"open"})
      BY <2>1, OpenReportStep
    <3> QED
      BY <3>1, SendsMore
  <2> QED
    BY <2>1, ApproveStep
<1>3. /\ UNCHANGED <<started, unsaved, sr, val, page, going, skip>>
      /\ modal' # "choice" /\ ask' = ask
  BY <1>1 DEF OpenReport, OpensPreview, Approve, Unlocks, Notice, NoModal, Stays, server
<1>4. SameNumbers
  <2>1. CASE UNCHANGED reports
    BY <2>1 DEF SameNumbers
  <2>2. CASE Approve /\ reports' = [reports EXCEPT ![gate].pending = FALSE]
    <3>1. gate \in DOMAIN reports
      <4>1. gate \in 0 .. Len(reports) /\ gate # 0 /\ reports \in Seq(Report)
        BY <2>2 DEF Approve, KioskInv, ShellPart, ServerPart, None
      <4> QED
        BY <4>1, LenProperties
    <3> QED
      BY <2>2, <3>1, ClosedNumbers
  <2> QED
    BY <2>1, <2>2 DEF Approve, OpenReport, server
<1>5. \A d \in ToSet(calls') : d.op # "report"
  BY <1>2, PressCalls
<1>6. CourseInv' /\ StayInv' /\ (TestOpen' => TestOpen) /\ (ValOpen' => ValOpen)
  BY <1>1, <1>2, <1>3, <1>4, <1>5, PressCourse
<1>7. HoldInv' /\ EarlyInv'
  BY <1>1, <1>2, <1>3, PressHolds DEF Endings
<1> QED
  BY <1>1, <1>6, <1>7 DEF KeptInv

\* A login finds no gate while a run is open.
LEMMA LoginKept ==
  ASSUME KioskInv, WaitInv, KeptInv, Idle, going = "nowhere", Login, haste' \in 0 .. MaxHaste
  PROVE  KeptInv'
<1>1. /\ ToSet(calls) = {} /\ calls \in Seq(Call) /\ modal = "none" /\ ask = "none"
      /\ "test" \notin skip
      /\ TestOpen => page = "test" /\ ~last.pending /\ gate = None /\ Operating
      /\ ValOpen => page # "test" /\ ~last.pending /\ gate = None /\ ValidationActive
  BY IdleOpen DEF Login, KeptInv, StayInv
<1>2. /\ UNCHANGED <<started, unsaved, sr, val, page, skip, last, gate, modal, ask>> /\ SameNumbers
      /\ going' = "home" /\ (gate = None => calls' = calls)
  BY <1>1 DEF Login, GoesTo, SameNumbers
<1>3. \A d \in ToSet(calls') : d.op = "preview" /\ d.by = "again"
  <2>1. \/ calls' = calls
        \/ \E c \in Fit(Len(reports)) : c.op = "preview" /\ c.by = "again" /\ calls' = Append(calls, c)
    BY LoginStep
  <2>2. \A c \in Fit(Len(reports)) : ToSet(Append(calls, c)) = ToSet(calls) \cup {c}
    BY <1>1, AppendFacts DEF Fit
  <2> QED
    BY <1>1, <2>1, <2>2
<1>4. By(calls') \subseteq {"again"} /\ (gate = None => ToSet(calls') = {})
  BY <1>1, <1>2, <1>3 DEF By
<1>5. Once(calls', {"start"})
  <2>1. \A i \in DOMAIN calls' : calls'[i].by # "start"
    BY <1>3 DEF ToSet
  <2> QED
    BY <2>1 DEF Once
<1>6. \A t : Settled(t)' <=> Settled(t)
  BY <1>2, SameSettled DEF Settled
<1>7. CourseInv'
  <2>1. ~Sent("run")' /\ ~Sent("start")'
    BY <1>3 DEF Sent
  <2>2. PastInv'
    BY <1>2, <1>6 DEF KeptInv, CourseInv, PastInv
  <2>3. RunsInv' /\ ValRunsInv' /\ SubjectInv'
    BY <1>2, <1>3, <1>5, <2>1 DEF KeptInv, CourseInv, RunsInv, ValRunsInv, SubjectInv
  <2> QED
    BY <2>2, <2>3 DEF CourseInv
<1>8. (TestOpen' => TestOpen) /\ (ValOpen' => ValOpen)
  BY <1>2, <1>3, <1>6 DEF TestOpen, ValOpen, Sent
<1>9. StayInv' /\ HoldInv'
  BY <1>1, <1>2, <1>4 DEF StayInv, HoldInv, Endings
<1>10. EarlyInv'
  <2>1. gate # None => last.pending
    BY DEF KioskInv, ShellPart
  <2> QED
    BY <1>1, <1>2, <1>3, <1>4, <2>1 DEF KeptInv, EarlyInv
<1>11. TestOpen => TestBody'
  BY <1>1, <1>2, <1>4 DEF TestBody, Operating
<1>12. ValOpen => ValBody'
  BY <1>1, <1>2, <1>4 DEF ValBody, ValidationActive
<1> QED
  BY <1>7, <1>8, <1>9, <1>10, <1>11, <1>12 DEF KeptInv

\* _trAbortRunningTestNow asks for the abort, files the report, or has
\* nothing to end.
LEMMA AbortsNowKeeps ==
  ASSUME KioskInv, NEW rest \in Seq(Call), AbortsNow(rest)
  PROVE  /\ sr'.test = sr.test
         /\ sr.running \/ sr.done => (sr'.running \/ sr'.done) /\ (Filing' \/ (Operating => Operating'))
         /\ Sends(rest, {"abort", "report", "ensure"}, {"bye"})
         /\ \A d \in ToSet(calls') : d \in ToSet(rest) \/ (d.op = "report" => d.of = Subject(d))
<1>1. sr \in Sr /\ sr.test \in Nat /\ TRUE \in BOOLEAN
  BY SrFields DEF KioskInv, PagePart, TestPageTypes
<1>2. Sends(rest, {"abort", "report", "ensure"}, {"bye"}) /\ sr'.test = sr.test
  BY AbortsNowFacts DEF KioskInv
<1>3. CASE /\ sr.running /\ sr' = [sr EXCEPT !.aborted = TRUE]
           /\ calls' = Append(rest, Request("abort", sr.test, "bye"))
  <2>1. Request("abort", sr.test, "bye") \in New
    BY <1>1, NewRequests
  <2>2. \A d \in ToSet(calls') : d \in ToSet(rest) \/ d.op = "abort"
    <3> DEFINE x == Request("abort", sr.test, "bye")
    <3>1. x \in Call /\ calls' = Append(rest, x) /\ x.op = "abort"
      BY <1>3, <2>1, NewCall, RequestFields
    <3> HIDE DEF x
    <3>2. ToSet(calls') = ToSet(rest) \cup {x}
      BY <3>1, LastSent
    <3> QED
      BY <3>1, <3>2
  <2>3. sr'.running = sr.running /\ (Operating => Operating')
    BY <1>1, <1>3 DEF Operating, Sr
  <2> QED
    BY <1>2, <1>3, <2>2, <2>3
<1>4. CASE SavesPartial(rest)
  <2>1. /\ calls' = Append(rest, PostReport(sr.test, "bye", TRUE)) /\ sr'.done
    BY <1>1, <1>4 DEF SavesPartial, Sr
  <2>2. /\ Filing'
        /\ \A d \in ToSet(calls') : d \in ToSet(rest) \/ (d.of = Subject(d) /\ d.op = "report")
    BY <1>1, <1>2, <2>1, PostsTest
  <2> QED
    BY <1>2, <2>1, <2>2
<1>5. CASE /\ ~(sr.running \/ sr.weighing \/ sr.done)
           /\ calls' = Append(rest, Request("ensure", None, "bye"))
           /\ UNCHANGED sr
  <2>1. Request("ensure", None, "bye") \in New
    BY NewRequests
  <2>2. \A d \in ToSet(calls') : d \in ToSet(rest) \/ d.op = "ensure"
    <3> DEFINE x == Request("ensure", None, "bye")
    <3>1. x \in Call /\ calls' = Append(rest, x) /\ x.op = "ensure"
      BY <1>5, <2>1, NewCall, RequestFields
    <3> HIDE DEF x
    <3>2. ToSet(calls') = ToSet(rest) \cup {x}
      BY <3>1, LastSent
    <3> QED
      BY <3>1, <3>2
  <2> QED
    BY <1>2, <1>5, <2>2
<1> QED
  BY <1>3, <1>4, <1>5 DEF AbortsNow

\* A logout begins: it ends what is open.
LEMMA LogsOutKept ==
  ASSUME KioskInv, WaitInv, KeptInv, Idle, going = "nowhere", LogsOut, Stays, UNCHANGED server,
         modal # "choice", modal' = "none", ask' = "none"
  PROVE  KeptInv'
<1>1. /\ ToSet(calls) = {} /\ calls \in Seq(Call) /\ "test" \notin skip
      /\ TestOpen => /\ page = "test" /\ ~last.pending /\ Operating /\ ~ValidationActive
                     /\ (sr.running \/ sr.done)
      /\ ValOpen => page # "test" /\ ~last.pending /\ ValidationActive
  BY IdleOpen DEF KeptInv, StayInv
<1>2. UNCHANGED <<started, unsaved, page, going, skip, last>> /\ SameNumbers
  BY DEF server, SameNumbers, Stays
<1>3. val \in Val /\ val.run \in Nat
  BY OpenNumber DEF KeptInv
<1>4. CASE ValidationActive /\ AbortsValidation("byeTest") /\ UNCHANGED sr
  <2>1. /\ calls' = Append(calls, Request("stop", val.run, "byeTest")) /\ val'.run = val.run
        /\ ~val'.awaiting /\ val'.enabled = val.enabled
    BY <1>3, <1>4 DEF AbortsValidation, Val
  <2>2. Request("stop", val.run, "byeTest") \in New
    BY <1>3, NewRequests
  <2>3. /\ Sends(calls, {"stop"}, {"byeTest"})
        /\ \A d \in ToSet(calls') : d.op = "stop" /\ d.by = "byeTest"
        /\ \E d \in ToSet(calls') : d.op = "stop" /\ d.by = "byeTest"
    BY <1>1, <2>1, <2>2, AsksFor
  <2>4. CourseInv' /\ StayInv' /\ (TestOpen' => TestOpen) /\ (ValOpen' => ValOpen)
    BY <1>1, <1>2, <1>4, <2>1, <2>3, PressCourse
  <2>5. HoldInv'
    BY <2>3, PressHolds DEF Endings
  <2>6. EarlyInv'
    BY <1>2, <1>4, <2>1, <2>3 DEF EarlyInv, KeptInv, By
  <2>7. ValOpen => ValBody'
    BY <1>1, <1>2, <2>3 DEF ValBody, ValWaits, Clears
  <2> QED
    BY <1>1, <1>4, <2>4, <2>5, <2>6, <2>7 DEF KeptInv
<1>5. CASE ~ValidationActive /\ AbortsNow(calls) /\ UNCHANGED val
  <2>1. /\ sr'.test = sr.test
        /\ sr.running \/ sr.done => (sr'.running \/ sr'.done) /\ (Filing' \/ (Operating => Operating'))
        /\ Sends(calls, {"abort", "report", "ensure"}, {"bye"})
        /\ \A d \in ToSet(calls') : d.op = "report" => d.of = Subject(d)
    BY <1>1, <1>5, AbortsNowKeeps
  <2>2. CourseInv' /\ StayInv' /\ (TestOpen' => TestOpen) /\ (ValOpen' => ValOpen)
    BY <1>1, <1>2, <1>5, <2>1, PressCourse
  <2>3. HoldInv'
    BY <2>1, PressHolds DEF Endings
  <2>4. \A d \in ToSet(calls') : d.op \in {"abort", "report", "ensure"} /\ d.by = "bye"
    BY <2>1, PressCalls
  <2>5. EarlyInv'
    BY <1>2, <1>5, <2>4 DEF EarlyInv, KeptInv, By
  <2>6. TestOpen => TestBody'
    BY <1>1, <1>2, <2>1, <2>4 DEF TestBody, Clears
  <2> QED
    BY <1>1, <1>5, <2>2, <2>3, <2>5, <2>6 DEF KeptInv
<1>6. CASE /\ ~ValidationActive /\ ~Operating /\ UNCHANGED <<sr, val>>
           /\ calls' = Append(calls, Request("ensure", None, "bye"))
  <2>1. Request("ensure", None, "bye") \in New
    BY NewRequests
  <2>2. /\ Sends(calls, {"ensure"}, {"bye"})
        /\ \A d \in ToSet(calls') : d.op = "ensure" /\ d.by = "bye"
    BY <1>1, <1>6, <2>1, AsksFor
  <2>3. CourseInv' /\ StayInv' /\ (TestOpen' => TestOpen) /\ (ValOpen' => ValOpen)
    BY <1>1, <1>2, <1>6, <2>2, PressCourse
  <2>4. HoldInv'
    BY <2>2, PressHolds DEF Endings
  <2>5. EarlyInv'
    BY <1>2, <1>6, <2>2 DEF EarlyInv, KeptInv, By
  <2> QED
    BY <1>1, <1>6, <2>3, <2>4, <2>5 DEF KeptInv
<1> QED
  BY <1>4, <1>5, <1>6 DEF LogsOut

LEMMA PressLogoutKept ==
  ASSUME KioskInv, WaitInv, KeptInv, Idle, going = "nowhere", PressLogout, haste' \in 0 .. MaxHaste
  PROVE  KeptInv'
<1>1. /\ ToSet(calls) = {} /\ calls \in Seq(Call) /\ modal = "none" /\ ask = "none"
      /\ "test" \notin skip
      /\ TestOpen => page = "test" /\ ~last.pending /\ gate = None /\ Operating
      /\ ValOpen => page # "test" /\ ~last.pending /\ gate = None /\ ValidationActive
  BY IdleOpen DEF PressLogout, Free, KeptInv, StayInv
<1>2. UNCHANGED <<server, page, going, skip, last, started, unsaved>> /\ SameNumbers /\ Stays
  BY DEF PressLogout, server, SameNumbers, Stays
<1>3. CASE Asks("logout") /\ UNCHANGED <<calls, sr, val>>
  <2>1. ask' = "logout" /\ modal' = "question"
    BY <1>3 DEF Asks
  <2>2. Sends(calls, {}, {}) /\ ToSet(calls') = {} /\ By(calls') = {}
    BY <1>1, <1>3, SendNone DEF By
  <2>3. CourseInv' /\ StayInv' /\ (TestOpen' => TestOpen) /\ (ValOpen' => ValOpen)
    BY <1>1, <1>2, <1>3, <2>1, <2>2, PressCourse
  <2>4. HoldInv' /\ EarlyInv'
    BY <1>1, <1>2, <1>3, <2>1, <2>2 DEF HoldInv, EarlyInv, KeptInv
  <2>5. TestOpen => TestBody'
    BY <1>1, <1>2, <1>3, <2>2 DEF TestBody, Operating
  <2>6. ValOpen => ValBody'
    BY <1>1, <1>2, <1>3, <2>2 DEF ValBody, ValidationActive
  <2> QED
    BY <2>3, <2>4, <2>5, <2>6 DEF KeptInv
<1>4. CASE gate # None /\ Notice /\ UNCHANGED <<sr, val>>
  <2>1. Sends(calls, {"preview"}, {"open"}) /\ ask' = "none" /\ modal' = "notice"
    BY <1>1, <1>4, PressLogoutStep DEF Notice
  <2>2. \A d \in ToSet(calls') : d.op = "preview"
    BY <2>1, PressCalls
  <2>3. CourseInv' /\ StayInv' /\ (TestOpen' => TestOpen) /\ (ValOpen' => ValOpen)
    BY <1>1, <1>2, <1>4, <2>1, <2>2, PressCourse
  <2>4. HoldInv'
    BY <2>1, PressHolds DEF Endings
  <2>5. last.pending
    BY <1>4 DEF KioskInv, ShellPart
  <2>6. EarlyInv'
    BY <1>2, <1>4, <2>1, <2>5 DEF EarlyInv, KeptInv
  <2> QED
    BY <1>1, <1>4, <2>3, <2>4, <2>6 DEF KeptInv
<1>5. CASE LogsOut /\ NoModal
  BY <1>1, <1>2, <1>5, LogsOutKept DEF NoModal
<1> QED
  BY <1>3, <1>4, <1>5 DEF PressLogout

\* _stopShakerValidation files the report at once, or waits for the amplitude.
LEMMA StopsKeeps ==
  ASSUME KioskInv, NEW rest \in Seq(Call), NEW aborted \in BOOLEAN, StopsValidation(aborted, rest)
  PROVE  /\ val'.run = val.run /\ ~val'.enabled /\ ~val'.running /\ val'.awaiting = ~aborted
         /\ Sends(rest, {"stop", "report"}, {"none", "val"})
         /\ \A d \in ToSet(calls') : d \in ToSet(rest) \/ (d.op = "report" => d.of = Subject(d))
         /\ aborted => ValFiling'
         /\ ~aborted => Sends(rest, {"stop"}, {"none"})
<1> DEFINE x == Request("stop", val.run, "none")
           over == [val EXCEPT !.running = FALSE, !.aborted = aborted, !.poll = FALSE,
                               !.enabled = FALSE]
<1>1. val \in Val /\ val.run \in Nat
  BY ValFields DEF KioskInv, PagePart, ValidationTypes
<1>2. x \in New /\ x \in Call /\ x.op = "stop" /\ x.by = "none"
  <2>1. x \in New
    BY <1>1, NewRequests
  <2>2. x.op = "stop" /\ x.by = "none"
    BY RequestFields
  <2> QED
    BY <2>1, <2>2, NewCall
<1>3. over.run = val.run /\ over.aborted = aborted
  BY <1>1 DEF Val
<1>4. /\ val'.run = val.run /\ ~val'.enabled /\ ~val'.running /\ val'.awaiting = ~aborted
      /\ \/ aborted /\ calls' = Append(Append(rest, x), PostReport(over.run, "val", over.aborted))
         \/ ~aborted /\ calls' = Append(rest, x)
  BY <1>1 DEF StopsValidation, SavesValidation, Val
<1>5. Sends(rest, {"stop", "report"}, {"none", "val"})
  BY StopsValidationFacts DEF KioskInv
<1> HIDE DEF x, over
<1>6. Append(rest, x) \in Seq(Call) /\ ToSet(Append(rest, x)) = ToSet(rest) \cup {x}
  BY <1>2, AppendFacts
<1>7. CASE aborted /\ calls' = Append(Append(rest, x), PostReport(over.run, "val", over.aborted))
  <2>1. calls' = Append(Append(rest, x), PostReport(val.run, "val", aborted))
    BY <1>3, <1>7
  <2>2. /\ ValFiling'
        /\ \A d \in ToSet(calls') : d \in ToSet(Append(rest, x)) \/ (d.of = Subject(d) /\ d.op = "report")
    BY <1>4, <1>6, <2>1, PostsValidation
  <2>3. \A d \in ToSet(calls') : d \in ToSet(rest) \/ (d.op = "report" => d.of = Subject(d))
    BY <1>2, <1>6, <2>2
  <2> QED
    BY <1>4, <1>5, <1>7, <2>2, <2>3
<1>8. CASE ~aborted /\ calls' = Append(rest, x)
  <2>1. Sends(rest, {"stop"}, {"none"})
    BY <1>2, <1>8, SendOne
  <2>2. \A d \in ToSet(calls') : d \in ToSet(rest) \/ (d.op = "report" => d.of = Subject(d))
    BY <1>2, <1>6, <1>8
  <2> QED
    BY <1>4, <1>5, <1>8, <2>1, <2>2
<1> QED
  BY <1>4, <1>7, <1>8

\* An OK to a question: no test is left, the rest ends what is open.
LEMMA OkKept ==
  ASSUME Remains, KioskInv, WaitInv, KeptInv, Idle, going = "nowhere", PressOk
  PROVE  KeptInv'
<1>1. /\ ToSet(calls) = {} /\ calls \in Seq(Call) /\ "test" \notin skip
      /\ TestOpen => page = "test" /\ ~last.pending /\ Operating
      /\ ValOpen => page = "validation" /\ ~last.pending /\ ValidationActive
  BY IdleOpen DEF PressOk, KeptInv, StayInv
<1>2. /\ UNCHANGED <<server, started, unsaved>> /\ SameNumbers
      /\ modal # "choice" /\ modal' = "none" /\ ask' = "none" /\ ask \notin {"leaveTest", "leaveVal"}
  BY DEF PressOk, server, SameNumbers, Remains, KeptInv, StayInv
<1>3. sr \in Sr /\ sr.test \in Nat
  BY OpenNumber DEF KeptInv
<1>4. CASE ask = "none" /\ UNCHANGED <<calls, sr, val>> /\ Stays
  <2>1. Sends(calls, {}, {}) /\ ToSet(calls') = {} /\ By(calls') = {}
    BY <1>1, <1>4, SendNone DEF By
  <2>2. CourseInv' /\ StayInv' /\ (TestOpen' => TestOpen) /\ (ValOpen' => ValOpen)
    BY <1>1, <1>2, <1>4, <2>1, PressCourse DEF Stays
  <2>3. HoldInv' /\ EarlyInv'
    BY <1>1, <1>2, <1>4, <2>1 DEF HoldInv, EarlyInv, KeptInv, Stays
  <2>4. TestOpen => TestBody'
    BY <1>1, <1>2, <1>4, <2>1 DEF TestBody, Operating, Stays
  <2>5. ValOpen => ValBody'
    BY <1>1, <1>2, <1>4, <2>1 DEF ValBody, ValidationActive, Stays
  <2> QED
    BY <2>2, <2>3, <2>4, <2>5 DEF KeptInv
<1>5. CASE /\ ask = "stop" /\ calls' = Append(calls, Request("abort", sr.test, "stop"))
           /\ UNCHANGED <<sr, val>> /\ Stays
  <2>1. Request("abort", sr.test, "stop") \in New
    BY <1>3, NewRequests
  <2>2. /\ Sends(calls, {"abort"}, {"stop"})
        /\ \A d \in ToSet(calls') : d.op = "abort" /\ d.by = "stop"
    BY <1>1, <1>5, <2>1, AsksFor
  <2>3. CourseInv' /\ StayInv' /\ (TestOpen' => TestOpen) /\ (ValOpen' => ValOpen)
    BY <1>1, <1>2, <1>5, <2>2, PressCourse DEF Stays
  <2>4. page # "validation"
    BY <1>5 DEF KeptInv, EarlyInv
  <2>5. HoldInv' /\ EarlyInv'
    BY <1>1, <1>2, <1>5, <2>2, <2>4 DEF HoldInv, EarlyInv, KeptInv, Stays, By
  <2>6. TestOpen => TestBody'
    BY <1>1, <1>2, <1>5, <2>2 DEF TestBody, Operating, Stays, Clears
  <2> QED
    BY <1>1, <2>3, <2>4, <2>5, <2>6 DEF KeptInv
<1>6. CASE /\ ask \in {"stopVal", "backVal"} /\ StopsValidation(TRUE, calls) /\ UNCHANGED sr
           /\ UNCHANGED <<page, last>> /\ going' \in {"nowhere", "home"} /\ "test" \notin skip'
  <2>1. ~TestOpen
    BY <1>1, <1>6 DEF WaitInv, AskInv
  <2>2. /\ val'.run = val.run /\ ~val'.enabled /\ ~val'.awaiting /\ ValFiling'
        /\ Sends(calls, {"stop", "report"}, {"none", "val"})
        /\ \A d \in ToSet(calls') : d.op = "report" => d.of = Subject(d)
    BY <1>1, <1>6, StopsKeeps
  <2>3. CourseInv' /\ StayInv' /\ (TestOpen' => TestOpen) /\ (ValOpen' => ValOpen)
    BY <1>1, <1>2, <1>6, <2>2, PressCourse
  <2>4. HoldInv'
    BY <1>2, <2>2, PressHolds DEF Endings
  <2>5. EarlyInv'
    BY <1>2, <1>6, <2>2 DEF EarlyInv
  <2>6. ValOpen => ValBody'
    <3>1. \A c \in ToSet(calls') : ~Clears(c) /\ c.by \in {"none", "val", "byeTest"}
      BY <1>1, <2>2, PressCalls DEF Clears
    <3> QED
      BY <1>1, <1>6, <2>2, <3>1 DEF ValBody
  <2> QED
    BY <2>1, <2>3, <2>4, <2>5, <2>6 DEF KeptInv
<1>7. CASE LogsOut /\ Stays
  BY <1>2, <1>7, LogsOutKept
<1> QED
  <2>1. Yes(ask) \/ (ask = "none" /\ UNCHANGED <<calls, sr, val>> /\ Stays)
    BY DEF PressOk
  <2>2. CASE ask = "stopVal" /\ StopsValidation(TRUE, calls) /\ UNCHANGED sr /\ Stays
    BY <1>1, <1>6, <2>2 DEF Stays
  <2>3. CASE /\ ask = "backVal" /\ StopsValidation(TRUE, calls) /\ UNCHANGED sr
             /\ skip' = skip \cup {"val"} /\ GoesTo("home")
    BY <1>1, <1>6, <2>3 DEF GoesTo
  <2> QED
    BY <1>2, <1>4, <1>5, <1>7, <2>1, <2>2, <2>3 DEF Yes

\* The choice after a stop: the wizard, or the report without weights.
LEMMA ChoiceKept ==
  ASSUME KioskInv, WaitInv, KeptInv, Idle, going = "nowhere", PressChoice
  PROVE  KeptInv'
<1>1. /\ ToSet(calls) = {} /\ calls \in Seq(Call) /\ "test" \notin skip
      /\ TestOpen => ~last.pending /\ sr.test # None
      /\ page = "test" /\ ~ValOpen /\ ask = "none"
  <2>1. modal = "choice"
    BY DEF PressChoice, Choose
  <2>2. page = "test" /\ ask = "none"
    BY <2>1 DEF KeptInv, HoldInv, WaitInv, AskInv
  <2> QED
    BY <2>2, IdleOpen, OpenNumber DEF KeptInv, StayInv
<1>2. /\ UNCHANGED <<server, started, unsaved, val, page, going, skip, last, ask>> /\ SameNumbers
      /\ modal' = "none"
  BY DEF PressChoice, Choose, server, SameNumbers, Stays
<1>3. sr \in Sr /\ sr.test \in Nat
  BY OpenNumber DEF KeptInv
<1>4. CASE Weighs(sr, calls)
  <2>1. /\ calls' = Append(calls, Request("put", sr.test, "none"))
        /\ sr'.test = sr.test /\ sr'.running = sr.running /\ sr'.done = sr.done /\ Operating'
    BY <1>3, <1>4 DEF Weighs, AfterWizard, Operating, Sr
  <2>2. /\ Sends(calls, {"put"}, {"none"})
        /\ \A d \in ToSet(calls') : d.op = "put" /\ d.of = sr.test
    BY <1>1, <2>1, PutsTest
  <2>3. CourseInv' /\ StayInv' /\ (TestOpen' => TestOpen) /\ (ValOpen' => ValOpen)
    BY <1>1, <1>2, <2>1, <2>2, PressCourse
  <2>4. HoldInv' /\ EarlyInv'
    BY <1>1, <1>2, <2>2, PressHolds DEF Endings
  <2>5. TestOpen => TestBody'
    <3>1. TestOpen => \A c \in ToSet(calls') : ~Clears(c) /\ c.by \notin {"val", "byeTest"}
      BY <1>1, <2>2, PressCalls DEF Clears
    <3> QED
      BY <1>1, <1>2, <2>1, <3>1 DEF TestBody
  <2> QED
    BY <1>1, <2>3, <2>4, <2>5 DEF KeptInv
<1>5. CASE Submits(sr, calls)
  <2>1. /\ calls' = Append(calls, PostReport(sr.test, "submit", sr.aborted))
        /\ sr'.test = sr.test /\ sr'.running = sr.running /\ sr'.done = sr.done
        /\ sr.aborted \in BOOLEAN
    BY <1>3, <1>5, SrFields DEF Submits, Submitted, Sr
  <2>2. /\ Filing' /\ Sends(calls, {"report"}, {"submit"})
        /\ \A d \in ToSet(calls') : d.of = Subject(d) /\ d.op = "report"
    BY <1>1, <2>1, PostsTest
  <2>3. CourseInv' /\ StayInv' /\ (TestOpen' => TestOpen) /\ (ValOpen' => ValOpen)
    BY <1>1, <1>2, <2>1, <2>2, PressCourse
  <2>4. HoldInv' /\ EarlyInv'
    BY <1>1, <1>2, <2>2, PressHolds DEF Endings
  <2>5. TestOpen => TestBody'
    <3>1. \A c \in ToSet(calls') : ~Clears(c) /\ c.by \notin {"val", "byeTest"}
      BY <1>1, <2>2, PressCalls DEF Clears
    <3> QED
      BY <1>1, <1>2, <2>2, <3>1 DEF TestBody
  <2> QED
    BY <1>1, <2>3, <2>4, <2>5 DEF KeptInv
<1> QED
  BY <1>4, <1>5 DEF PressChoice, Choose

LEMMA PressKept ==
  ASSUME Remains, KioskInv, WaitInv, KeptInv, Idle, going = "nowhere", Presses,
         haste' \in 0 .. MaxHaste
  PROVE  KeptInv'
<1>1. CASE OnTestPage
  BY <1>1, TestPressKept, WeighedKept DEF OnTestPage
<1>2. CASE OnValidationPage
  BY <1>2, ValidateKept, AmplitudeKept DEF OnValidationPage
<1> QED
  BY <1>1, <1>2, QuietKept, RecipeKept, OpenValidationKept, OpenKept, LoginKept, PressLogoutKept,
     OkKept, ChoiceKept DEF Presses

----------------------------------------------------------------------------
(***************************************************************************)
(* No test is forgotten: navigation and timers                             *)
(***************************************************************************)
\* A step of the page that starts nothing.
LEMMA PageCourse ==
  ASSUME KioskInv, KeptInv, UNCHANGED <<started, unsaved, reports>>,
         sr'.test = sr.test, val'.run = val.run,
         NEW rest \in Seq(Call), ToSet(rest) \subseteq ToSet(calls), By(rest) \subseteq By(calls),
         Once(rest, {"start"}),
         NEW ops, NEW callers, Sends(rest, ops, callers), "run" \notin ops, "start" \notin ops,
         callers \cap {"start", "leave", "idle"} = {},
         \A d \in ToSet(calls') : d \in ToSet(rest) \/ (d.op = "report" => d.of = Subject(d)),
         \/ sr.running \/ sr.done => sr'.running \/ sr'.done
         \/ sr.test \notin started /\ \A d \in ToSet(rest) : d.op # "run",
         "test" \notin skip', ask' # "leaveVal"
  PROVE  CourseInv' /\ StayInv' /\ (TestOpen' => TestOpen) /\ (ValOpen' => ValOpen)
<1>1. By(calls') \subseteq By(rest) \cup callers
  BY SentFacts
<1>2. SameNumbers
  BY DEF SameNumbers
<1>3. CourseInv' /\ (TestOpen' => TestOpen) /\ (ValOpen' => ValOpen)
  BY <1>2, CourseKept DEF KeptInv
<1>4. StayInv'
  BY <1>1 DEF KeptInv, StayInv
<1> QED
  BY <1>3, <1>4

\* The same with the calls as they are.
LEMMA CallsCourse ==
  ASSUME KioskInv, KeptInv, UNCHANGED <<started, unsaved, reports>>,
         sr'.test = sr.test, val'.run = val.run,
         NEW ops, NEW callers, Sends(calls, ops, callers), "run" \notin ops, "start" \notin ops,
         callers \cap {"start", "leave", "idle"} = {},
         \A d \in ToSet(calls') : d \in ToSet(calls) \/ (d.op = "report" => d.of = Subject(d)),
         sr.running \/ sr.done => sr'.running \/ sr'.done,
         "test" \notin skip', ask' # "leaveVal"
  PROVE  /\ CourseInv' /\ StayInv' /\ (TestOpen' => TestOpen) /\ (ValOpen' => ValOpen)
         /\ calls \in Seq(Call) /\ By(calls') \subseteq By(calls) \cup callers
         /\ ToSet(calls) \subseteq ToSet(calls')
         /\ \A d \in ToSet(calls') : d \in ToSet(calls) \/ (d.op \in ops /\ d.by \in callers)
<1>1. calls \in Seq(Call) /\ Once(calls, {"start"})
  BY CallsFacts DEF KeptInv, CourseInv, RunsInv
<1>2. CourseInv' /\ StayInv' /\ (TestOpen' => TestOpen) /\ (ValOpen' => ValOpen)
  BY <1>1, PageCourse
<1> QED
  BY <1>1, <1>2, SentFacts

\* goToPage asks before it leaves an open test, and cannot reach its page
\* while a validation is open.
LEMMA GoToPageKept ==
  ASSUME KioskInv, WaitInv, KeptInv, GoToPage, haste' = haste
  PROVE  KeptInv'
<1>1. /\ UNCHANGED <<started, unsaved, reports, user, sr, val, gate, last>> /\ going' = "nowhere"
      /\ going # "nowhere" /\ "test" \notin skip /\ modal # "choice"
      /\ sr.analysis => ask # "stop" /\ By(calls) \cap Endings = {}
  BY DEF GoToPage, server, KeptInv, StayInv, HoldInv
<1>2. Sends(calls, {"preview"}, {"open"})
  BY GoToPageStep
<1>3. /\ ValidationActive => page = "validation"
      /\ going = "test" => page = "recipes"
  BY DEF WaitInv, PageInv
<1>4. CASE GuardAsks(going)
  <2>1. /\ UNCHANGED <<page, skip, calls>> /\ modal' = "question" /\ ask' # "stop" /\ ask' # "leaveVal"
    <3>1. AsksTest(going)
      BY <1>1, <1>3, <1>4 DEF GuardAsks, AsksTest, AsksVal
    <3> QED
      BY <1>4, <3>1 DEF GuardAsks, Asks
  <2>2. CourseInv' /\ StayInv' /\ (TestOpen' => TestOpen) /\ (ValOpen' => ValOpen)
    <3>1. calls \in Seq(Call) /\ \A d \in ToSet(calls') : d \in ToSet(calls)
      BY <2>1, CallsFacts
    <3> QED
      BY <1>1, <1>2, <2>1, <3>1, CallsCourse
  <2>3. HoldInv' /\ EarlyInv'
    BY <1>1, <2>1 DEF KeptInv, HoldInv, EarlyInv
  <2>4. TestOpen => TestBody'
    BY <1>1, <2>1 DEF KeptInv, TestBody, Filing, Operating
  <2>5. ValOpen => ValBody'
    BY <1>1, <2>1 DEF KeptInv, ValBody, ValFiling, ValWaits, ValidationActive
  <2> QED
    BY <2>2, <2>3, <2>4, <2>5 DEF KeptInv
<1>5. CASE ~AsksTest(going) /\ (PreviewHolds(going) \/ Arrives(going))
  <2>1. ~TestOpen
    <3>1. ASSUME TestOpen PROVE page = "test" /\ Operating
      BY <1>1, <3>1 DEF KeptInv, TestBody
    <3> QED
      BY <1>1, <1>3, <1>5, <3>1 DEF AsksTest
  <2>2. /\ skip' = {} /\ ask' = ask /\ modal' \in {modal, "notice"}
        /\ page' = page \/ (page' = going /\ (~last.pending \/ going = "preview") /\ calls' = calls)
        /\ calls' = calls \/ last.pending
    <3>1. CASE PreviewHolds(going)
      BY <3>1 DEF PreviewHolds, Notice
    <3>2. CASE Arrives(going)
      BY <3>2 DEF Arrives, Notice, NoModal
    <3> QED
      BY <1>5, <3>1, <3>2
  <2>3. CourseInv' /\ StayInv' /\ (TestOpen' => TestOpen) /\ (ValOpen' => ValOpen)
        /\ By(calls') \subseteq By(calls) \cup {"open"}
    <3>1. /\ ask' # "leaveVal" /\ "test" \notin skip'
          /\ {"open"} \cap {"start", "leave", "idle"} = {}
      BY <2>2 DEF KeptInv, StayInv
    <3>2. \A d \in ToSet(calls') : d \in ToSet(calls) \/ (d.op = "report" => d.of = Subject(d))
      BY <1>2, SentFacts, CallsFacts
    <3> QED
      BY <1>1, <1>2, <3>1, <3>2, CallsCourse
  <2>4. HoldInv'
    BY <1>1, <2>2, <2>3 DEF HoldInv, Endings
  <2>5. EarlyInv'
    <3>1. going = "validation" => calls = <<>> /\ ask = "none"
      BY DEF KeptInv, EarlyInv
    <3>2. By(<<>>) = {} /\ ToSet(<<>>) = {}
      BY DEF By, ToSet
    <3> QED
      BY <1>1, <2>2, <3>1, <3>2 DEF KeptInv, EarlyInv
  <2>6. ValOpen => ValBody'
    <3>1. ASSUME ValOpen PROVE ~last.pending /\ page # "test" /\ going # "test"
      <4>1. page # "test" /\ ~last.pending
        BY <3>1 DEF KeptInv, ValBody
      <4>2. ASSUME going = "test" PROVE FALSE
        <5>1. calls = <<>> /\ page = "recipes"
          BY <4>2 DEF WaitInv, PageInv
        <5>2. page = "validation"
          BY <3>1, <5>1, IdleOpen DEF Idle
        <5> QED
          BY <5>1, <5>2
      <4> QED
        BY <4>1, <4>2
    <3> QED
      BY <1>1, <2>2, <3>1 DEF KeptInv, ValBody, ValFiling, ValWaits, ValidationActive
  <2> QED
    BY <2>1, <2>3, <2>4, <2>5, <2>6 DEF KeptInv
<1> QED
  BY <1>4, <1>5 DEF GoToPage

\* The poll of a test runs on its page.
LEMMA TickKept ==
  ASSUME KioskInv, WaitInv, KeptInv, going = "nowhere", Tick, UNCHANGED <<server, user, val>>, Stays
  PROVE  KeptInv'
<1> DEFINE live == Request("live", None, "tick")
           put  == Request("put", sr.test, "none")
<1>1. /\ UNCHANGED <<started, unsaved, reports, sr, val, page, going, skip, last, modal, ask>>
      /\ page = "test" /\ calls \in Seq(Call) /\ "test" \notin skip /\ ask # "leaveVal"
  BY CallsFacts DEF server, Tick, Stays, NoModal, WaitInv, PageInv, KeptInv, StayInv
<1>2. Sends(calls, {"live", "put"}, {"tick", "none"})
  BY TickFacts DEF KioskInv
<1>3. /\ live \in Call /\ put \in Call /\ live.op = "live" /\ put.op = "put" /\ put.of = sr.test
  <2>1. sr.test \in Runs \cup {None}
    BY SrFields DEF KioskInv, PagePart, TestPageTypes
  <2>2. live \in Call /\ put \in Call
    BY <2>1, NewRequests, NewRunRequests, NewCall
  <2> QED
    BY <2>2, RequestFields
<1>4. \/ calls' = calls \o <<live>> \o <<put>>
      \/ calls' = calls \o <<live>> \o <<>>
  BY DEF Tick
<1> HIDE DEF live, put
<1>5. \A d \in ToSet(calls') : d \in ToSet(calls) \/ (d.op = "put" => d.of = sr.test)
  <2> DEFINE base == Append(calls, live)
  <2>1. base \in Seq(Call) /\ ToSet(base) = ToSet(calls) \cup {live}
    BY <1>1, <1>3, AppendFacts
  <2>2. \/ calls' = Append(base, put)
        \/ calls' = base
    <3>1. /\ (calls \o <<live>>) \o <<put>> = Append(Append(calls, live), put)
          /\ (calls \o <<live>>) \o <<>> = Append(calls, live)
      BY <1>1, <1>3
    <3> QED
      BY <1>4, <3>1
  <2> HIDE DEF base
  <2>3. ToSet(Append(base, put)) = ToSet(base) \cup {put}
    BY <1>3, <2>1, AppendFacts
  <2> QED
    BY <1>3, <2>1, <2>2, <2>3
<1>6. \A d \in ToSet(calls') : d \in ToSet(calls) \/ d.op \in {"live", "put"}
  BY <1>1, <1>2, SentFacts
<1>7. /\ CourseInv' /\ StayInv' /\ (TestOpen' => TestOpen) /\ (ValOpen' => ValOpen)
      /\ By(calls') \subseteq By(calls) \cup {"tick", "none"} /\ ToSet(calls) \subseteq ToSet(calls')
  <2>1. /\ "run" \notin {"live", "put"} /\ "start" \notin {"live", "put"}
        /\ {"tick", "none"} \cap {"start", "leave", "idle"} = {}
    OBVIOUS
  <2>2. \A d \in ToSet(calls') : d \in ToSet(calls) \/ (d.op = "report" => d.of = Subject(d))
    BY <1>6
  <2> QED
    BY <1>1, <1>2, <2>1, <2>2, CallsCourse
<1>8. HoldInv' /\ EarlyInv'
  BY <1>1, <1>7 DEF KeptInv, HoldInv, EarlyInv, Endings
<1>9. TestOpen => TestBody'
  <2>1. ASSUME TestOpen PROVE \A c \in ToSet(calls') : ~Clears(c) /\ c.by \notin {"val", "byeTest"}
    <3>1. sr.test # None /\ \A c \in ToSet(calls) : ~Clears(c) /\ c.by \notin {"val", "byeTest"}
      BY <2>1, OpenNumber DEF KeptInv, TestBody
    <3>2. \A d \in ToSet(calls') : d \in ToSet(calls) \/ (d.op = "put" => d.of # None)
      BY <1>5, <3>1
    <3>3. "delete" \notin {"live", "put"} /\ "preview" \notin {"live", "put"}
          /\ {"tick", "none"} \cap {"val", "byeTest"} = {}
      OBVIOUS
    <3> QED
      BY <1>1, <1>2, <3>1, <3>2, <3>3, BodyCalls
  <2>2. Filing => Filing'
    BY <1>1, <1>7 DEF Filing
  <2> QED
    BY <1>1, <2>1, <2>2 DEF KeptInv, TestBody, Operating
<1>10. ~ValOpen
  BY <1>1 DEF KeptInv, ValBody
<1> QED
  BY <1>7, <1>8, <1>9, <1>10 DEF KeptInv

\* The timer of a validation runs on its page.
LEMMA ValidationTimerKept ==
  ASSUME KioskInv, WaitInv, KeptInv, going = "nowhere", ValidationTick \/ ValidationOver,
         UNCHANGED <<server, user, sr>>, Stays
  PROVE  KeptInv'
<1> DEFINE put == Request("put", val.run, "none")
<1>1. /\ UNCHANGED <<started, unsaved, reports, sr, page, going, skip, last, modal, ask>>
      /\ page = "validation" /\ calls \in Seq(Call) /\ "test" \notin skip /\ ask # "leaveVal"
      /\ val.enabled /\ val.run # None /\ ~TestOpen
  <2>1. val.running
    BY DEF ValidationTick, ValidationOver
  <2>2. page = "validation" /\ val.enabled
    BY <2>1 DEF WaitInv, PageInv, ValidationActive
  <2>3. val.run # None
    BY <2>2 DEF KioskInv, PagePart
  <2>4. ~TestOpen
    BY <2>2 DEF KeptInv, TestBody
  <2> QED
    BY <2>2, <2>3, <2>4, CallsFacts
    DEF server, ValidationTick, ValidationOver, Stays, NoModal, KeptInv, StayInv
<1>2. put \in Call /\ put.op = "put" /\ put.of = val.run /\ put.by = "none"
  <2>1. val.run \in Runs \cup {None}
    BY ValFields DEF KioskInv, PagePart, ValidationTypes
  <2>2. put \in Call
    BY <2>1, NewRunRequests, NewCall
  <2> QED
    BY <2>2, RequestFields
<1>3. \/ val' = val /\ calls' = Append(calls, put)
      \/ StopsValidation(FALSE, Append(calls, put))
  BY DEF ValidationTick, ValidationOver
<1> HIDE DEF put
<1>4. Append(calls, put) \in Seq(Call) /\ ToSet(Append(calls, put)) = ToSet(calls) \cup {put}
  BY <1>1, <1>2, AppendFacts
<1>5. /\ val'.run = val.run /\ ValidationActive' /\ ~(val'.awaiting /\ val'.enabled)
      /\ \A d \in ToSet(calls') : d \in ToSet(calls) \cup {put} \/ (d.op = "stop" /\ d.by = "none")
      /\ ToSet(calls) \subseteq ToSet(calls') /\ By(calls') \subseteq By(calls) \cup {"none"}
  <2>1. CASE val' = val /\ calls' = Append(calls, put)
    <3>1. ValidationActive' /\ ~(val'.awaiting /\ val'.enabled)
      BY <2>1 DEF ValidationTick, ValidationOver, ValidationActive, KeptInv, EarlyInv
    <3> QED
      BY <1>2, <1>4, <2>1, <3>1 DEF By
  <2>2. CASE StopsValidation(FALSE, Append(calls, put))
    <3>1. /\ val'.run = val.run /\ val'.awaiting /\ ~val'.enabled
          /\ Sends(Append(calls, put), {"stop"}, {"none"})
      BY <1>4, <2>2, StopsKeeps
    <3>2. /\ \A d \in ToSet(calls') : d \in ToSet(Append(calls, put)) \/ (d.op = "stop" /\ d.by = "none")
          /\ ToSet(Append(calls, put)) \subseteq ToSet(calls')
      <4> DEFINE base == Append(calls, put)
      <4>1. base \in Seq(Call) /\ Sends(base, {"stop"}, {"none"})
        BY <1>4, <3>1
      <4> HIDE DEF base
      <4>2. /\ \A d \in ToSet(calls') : d \in ToSet(base) \/ (d.op = "stop" /\ d.by = "none")
            /\ ToSet(base) \subseteq ToSet(calls')
        BY <4>1, SentFacts
      <4> QED
        BY <4>2 DEF base
    <3>3. \A d \in ToSet(calls') : d \in ToSet(calls) \/ d.by = "none"
      BY <1>2, <1>4, <3>2
    <3>4. By(calls') \subseteq By(calls) \cup {"none"}
      BY <3>3 DEF By
    <3> QED
      BY <1>4, <3>1, <3>2, <3>4 DEF ValidationActive
  <2> QED
    BY <1>3, <2>1, <2>2
<1>6. /\ CourseInv' /\ StayInv' /\ (TestOpen' => TestOpen) /\ (ValOpen' => ValOpen)
  <2>1. Sends(calls, {"put", "stop", "report"}, {"none", "val"})
    BY ValidationTimerFacts DEF KioskInv
  <2>2. \A d \in ToSet(calls') : d \in ToSet(calls) \/ (d.op = "report" => d.of = Subject(d))
    BY <1>2, <1>5
  <2>3. {"none", "val"} \cap {"start", "leave", "idle"} = {}
    OBVIOUS
  <2> QED
    BY <1>1, <1>5, <2>1, <2>2, <2>3, CallsCourse
<1>7. HoldInv'
  BY <1>1, <1>5 DEF KeptInv, HoldInv, Endings
<1>8. EarlyInv'
  BY <1>1, <1>2, <1>5 DEF KeptInv, EarlyInv
<1>9. ValOpen => ValBody'
  <2>1. \A d \in ToSet(calls') : d \in ToSet(calls) \/ (~Clears(d) /\ d.by = "none")
    BY <1>1, <1>2, <1>5 DEF Clears
  <2> QED
    BY <1>1, <1>5, <2>1 DEF KeptInv, ValBody
<1> QED
  BY <1>1, <1>6, <1>7, <1>8, <1>9 DEF KeptInv

\* A pending preview has no open run behind it.
LEMMA ApprovalPollKept ==
  ASSUME KioskInv, WaitInv, KeptInv, going = "nowhere", ApprovalPoll
  PROVE  KeptInv'
<1>1. /\ UNCHANGED <<started, unsaved, reports, sr, val, page, going, skip, ask>> /\ modal' = "notice"
      /\ last.pending /\ calls \in Seq(Call) /\ "test" \notin skip /\ ask # "leaveVal"
      /\ calls' = Append(calls, Request("delete", None, "none"))
  BY CallsFacts DEF server, ApprovalPoll, Unlocks, Notice, KeptInv, StayInv
<1>2. ~TestOpen /\ ~ValOpen
  BY <1>1 DEF KeptInv, TestBody, ValBody
<1>3. Sends(calls, {"delete"}, {"none"})
  <2>1. Request("delete", None, "none") \in New
    BY NewRequests DEF None
  <2> QED
    BY <1>1, <2>1, AsksFor
<1>4. /\ CourseInv' /\ StayInv' /\ (TestOpen' => TestOpen) /\ (ValOpen' => ValOpen)
      /\ By(calls') \subseteq By(calls) \cup {"none"}
  <2>1. \A d \in ToSet(calls') : d \in ToSet(calls) \/ (d.op = "report" => d.of = Subject(d))
    BY <1>1, <1>3, SentFacts
  <2>2. {"none"} \cap {"start", "leave", "idle"} = {}
    OBVIOUS
  <2> QED
    BY <1>1, <1>3, <2>1, <2>2, CallsCourse
<1>5. HoldInv' /\ EarlyInv'
  BY <1>1, <1>4 DEF KeptInv, HoldInv, EarlyInv, Endings
<1> QED
  BY <1>2, <1>4, <1>5 DEF KeptInv

LEMMA TimerKept ==
  ASSUME Remains, KioskInv, WaitInv, KeptInv, going = "nowhere", Timers
  PROVE  KeptInv'
BY TickKept, ValidationTimerKept, ApprovalPollKept DEF Timers, AutoLogoutTick, Remains

----------------------------------------------------------------------------
(***************************************************************************)
(* No test is forgotten: answers                                           *)
(***************************************************************************)
\* The call that is answered is neither a report on its way nor one that
\* leaves a test.
LEMMA TakenKept ==
  ASSUME KioskInv, WaitInv, KeptInv, NEW c, NEW rest, Taken(c, rest)
  PROVE  /\ rest \in Seq(Call) /\ ToSet(rest) \subseteq ToSet(calls) /\ By(rest) \subseteq By(calls)
         /\ c \in Fit(Len(reports)) /\ c \in Call /\ c \in ToSet(calls) /\ c.by \in By(calls)
         /\ c.at # "sent" /\ c.by \notin {"none", "leave", "idle"}
         /\ ToSet(calls) \subseteq ToSet(rest) \cup {c}
         /\ Once(rest, {"start"}) /\ (c.by = "start" => By(rest) \cap {"start"} = {})
         /\ "test" \notin skip /\ ask # "leaveVal"
<1>1. PICK i \in DOMAIN calls : c = calls[i] /\ rest = RemoveAt(calls, i)
  BY DEF Taken
<1>2. ToSet(calls) \subseteq ToSet(rest) \cup {c}
  BY <1>1, TakenFacts, CallsFacts
<1>3. /\ rest \in Seq(Call) /\ ToSet(rest) \subseteq ToSet(calls) /\ By(rest) \subseteq By(calls)
      /\ c \in Fit(Len(reports)) /\ c \in Call /\ c \in ToSet(calls) /\ c.by \in By(calls)
      /\ c.by # "none"
  BY TakenWaits
<1>4. \A B : Once(calls, B) => Once(rest, B)
  BY TakenSingle
<1>5. \A B : Once(calls, B) /\ c.by \in B => By(rest) \cap B = {}
  BY TakenSingle
<1>6. Once(calls, {"start"}) /\ By(calls) \cap {"leave", "idle"} = {}
      /\ "test" \notin skip /\ ask # "leaveVal"
  BY DEF KeptInv, CourseInv, RunsInv, StayInv
<1> QED
  BY <1>2, <1>3, <1>4, <1>5, <1>6 DEF Taken

\* What an answer of the test page leaves of the parts that speak of a stop
\* and of a validation.
LEMMA TestAnswerHolds ==
  ASSUME KioskInv, WaitInv, KeptInv, going = "nowhere", NEW c, NEW rest, Taken(c, rest),
         c.by \in {"start", "tick", "complete", "stop"},
         UNCHANGED <<server, user, val>>, Stays, ask' = ask, sr'.analysis = sr.analysis,
         NEW ops, NEW callers, Sends(rest, ops, callers),
         callers \subseteq {"none", "submit", "complete"},
         sr.analysis /\ c.by # "complete" => callers \subseteq {"none"},
         modal' \in {modal, "notice"} \/ (c.by = "stop" /\ sr.analysis)
  PROVE  HoldInv' /\ EarlyInv' /\ ~ValOpen /\ (Filing /\ sr'.test = sr.test => Filing')
<1>1. /\ UNCHANGED <<page, going, skip, last, val>>
      /\ rest \in Seq(Call) /\ By(rest) \subseteq By(calls) /\ c \in ToSet(calls) /\ c.by \in By(calls)
      /\ c.at # "sent" /\ ToSet(calls) \subseteq ToSet(rest) \cup {c}
  BY TakenKept DEF Stays
<1>2. By(calls') \subseteq By(rest) \cup callers /\ ToSet(rest) \subseteq ToSet(calls')
  BY <1>1, SentFacts
<1>3. ~ValOpen
  BY <1>1 DEF KeptInv, ValBody
<1>4. EarlyInv'
  <2>1. ~(page = "validation" /\ (val.enabled \/ val.awaiting))
    BY <1>1 DEF KeptInv, EarlyInv
  <2>2. (val.awaiting => ~val.enabled) /\ (page = "validation" => ask # "stop")
    BY DEF KeptInv, EarlyInv
  <2> QED
    BY <1>1, <2>1, <2>2 DEF EarlyInv
<1>5. HoldInv'
  <2>1. modal = "choice" => sr.analysis
    BY DEF KeptInv, HoldInv
  <2>2. ASSUME sr'.analysis, ask' = "stop" \/ modal' = "choice" \/ By(calls') \cap Endings # {}
        PROVE  page' = "test" /\ going' = "nowhere" /\ By(calls') \subseteq {"start", "tick", "none", "stop"}
    <3>1. ask = "stop" \/ modal = "choice" \/ By(calls) \cap Endings # {}
      BY <1>1, <1>2, <2>2 DEF Endings
    <3>2. page = "test" /\ By(calls) \subseteq {"start", "tick", "none", "stop"}
      BY <2>2, <3>1 DEF KeptInv, HoldInv
    <3> QED
      BY <1>1, <1>2, <2>2, <3>2
  <2> QED
    BY <2>1, <2>2 DEF HoldInv
<1>6. Filing /\ sr'.test = sr.test => Filing'
  BY <1>1, <1>2 DEF Filing, IsPost
<1> QED
  BY <1>3, <1>4, <1>5, <1>6

\* An open test stays open, is filed, or waits for the choice.
LEMMA TestAnswerBody ==
  ASSUME KioskInv, WaitInv, KeptInv, going = "nowhere", NEW c, NEW rest, Taken(c, rest), Stays,
         NEW ops, NEW callers, Sends(rest, ops, callers),
         "delete" \notin ops, "preview" \notin ops, callers \cap {"val", "byeTest"} = {},
         \A d \in ToSet(calls') : d \in ToSet(rest) \/ (d.op = "put" => d.of = sr.test),
         Filing => Filing', Filing' \/ Operating' \/ modal' = "choice"
  PROVE  TestOpen => TestBody'
<1>1. /\ UNCHANGED <<page, going, last>>
      /\ rest \in Seq(Call) /\ ToSet(rest) \subseteq ToSet(calls)
  BY TakenKept DEF Stays
<1>2. SUFFICES ASSUME TestOpen PROVE TestBody'
  OBVIOUS
<1>3. TestBody /\ sr.test # None
  BY <1>2, OpenNumber DEF KeptInv
<1>4. \A d \in ToSet(calls') : d \in ToSet(rest) \/ (d.op = "put" => d.of # None)
  BY <1>3
<1>5. \A d \in ToSet(calls') : ~Clears(d) /\ d.by \notin {"val", "byeTest"}
  BY <1>1, <1>3, <1>4, BodyCalls DEF TestBody
<1> QED
  BY <1>1, <1>3, <1>5 DEF TestBody

\* The answer to the start of a program: when that has failed, the test has
\* not been started.
LEMMA RunAnswerKept ==
  ASSUME KioskInv, WaitInv, KeptInv, going = "nowhere", NEW c, NEW rest, Taken(c, rest),
         UNCHANGED <<server, user, val>>, Stays, RunAnswered(c, rest)
  PROVE  KeptInv'
<1>1. /\ rest \in Seq(Call) /\ ToSet(rest) \subseteq ToSet(calls) /\ By(rest) \subseteq By(calls)
      /\ c \in ToSet(calls) /\ c.by = "start" /\ Once(rest, {"start"})
      /\ By(rest) \cap {"start"} = {} /\ "test" \notin skip /\ ask # "leaveVal"
  BY TakenKept DEF RunAnswered
<1>2. UNCHANGED <<started, unsaved, reports, skip>> /\ val'.run = val.run
  BY DEF server, Stays
<1>3. sr \in Sr
  BY OpenNumber DEF KeptInv
<1>4. CASE c.at = "ok"
  <2>1. /\ sr' = [sr EXCEPT !.stamped = TRUE] /\ NoModal
        /\ calls' = Append(rest, Request("put", sr.test, "none"))
    BY <1>4 DEF RunAnswered
  <2>2. /\ sr'.test = sr.test /\ sr'.analysis = sr.analysis /\ (Operating' <=> Operating)
        /\ sr'.running = sr.running /\ sr'.done = sr.done
    BY <1>3, <2>1 DEF Sr, Operating
  <2>3. /\ Sends(rest, {"put"}, {"none"}) /\ ask' = ask /\ modal' = modal
        /\ \A d \in ToSet(calls') : d \in ToSet(rest) \/ (d.of = sr.test /\ d.op = "put")
    BY <1>1, <2>1, PutsTest DEF NoModal
  <2>4. \A d \in ToSet(calls') : d \in ToSet(rest) \/ (d.op = "report" => d.of = Subject(d))
    BY <2>3
  <2>5. CourseInv' /\ StayInv' /\ (TestOpen' => TestOpen) /\ (ValOpen' => ValOpen)
    BY <1>1, <1>2, <2>2, <2>3, <2>4, PageCourse
  <2>6. HoldInv' /\ EarlyInv' /\ ~ValOpen /\ (Filing => Filing')
    BY <1>1, <2>2, <2>3, TestAnswerHolds
  <2>7. TestOpen => TestBody'
    <3>1. "delete" \notin {"put"} /\ "preview" \notin {"put"} /\ {"none"} \cap {"val", "byeTest"} = {}
      OBVIOUS
    <3>2. \A d \in ToSet(calls') : d \in ToSet(rest) \/ (d.op = "put" => d.of = sr.test)
      BY <2>3
    <3>3. TestOpen => Filing' \/ Operating' \/ modal' = "choice"
      BY <2>2, <2>3, <2>6 DEF KeptInv, TestBody
    <3> QED
      BY <2>3, <2>6, <3>1, <3>2, <3>3, TestAnswerBody
  <2> QED
    BY <2>5, <2>6, <2>7 DEF KeptInv
<1>5. CASE c.at = "failed"
  <2> DEFINE x == Request("delete", None, "none")
  <2>1. /\ sr' = [sr EXCEPT !.running = FALSE, !.poll = FALSE] /\ Notice
        /\ calls' = Append(rest, x)
    BY <1>5 DEF RunAnswered
  <2>2. sr'.test = sr.test /\ sr'.analysis = sr.analysis /\ ask' = ask /\ modal' = "notice"
    BY <1>3, <2>1 DEF Sr, Notice
  <2>3. x \in New /\ x.op = "delete" /\ x.by = "none"
    <3>1. None \in Nat
      BY DEF None
    <3>2. x \in New
      BY <3>1, NewRequests
    <3> QED
      BY <3>2, RequestFields
  <2> HIDE DEF x
  <2>4. Sends(rest, {"delete"}, {"none"}) /\ ToSet(calls') = ToSet(rest) \cup {x}
    BY <1>1, <2>1, <2>3, NewCall, SendOne, LastSent
  <2>5. \A d \in ToSet(calls') : d \in ToSet(rest) \/ (d.op = "report" => d.of = Subject(d))
    BY <2>3, <2>4
  <2>6. sr.test \notin started /\ \A d \in ToSet(rest) : d.op # "run"
    <3>1. c.op = "run" /\ \A d \in ToSet(rest) : d.op = "run" => d.by = "start"
      BY <1>1, CallsFacts, CallFacts DEF Fit
    <3>2. \A d \in ToSet(rest) : d.by \in By(rest)
      BY DEF By
    <3> QED
      BY <1>1, <1>5, <3>1, <3>2 DEF KeptInv, CourseInv, RunsInv
  <2>7. CourseInv' /\ StayInv' /\ (TestOpen' => TestOpen) /\ (ValOpen' => ValOpen)
    BY <1>1, <1>2, <2>2, <2>4, <2>5, <2>6, PageCourse
  <2>8. HoldInv' /\ EarlyInv' /\ ~ValOpen
    BY <1>1, <2>2, <2>4, TestAnswerHolds
  <2>9. ~TestOpen'
    BY <1>2, <2>2, <2>3, <2>4, <2>6 DEF TestOpen, Sent
  <2> QED
    BY <2>7, <2>8, <2>9 DEF KeptInv
<1> QED
  BY <1>4, <1>5 DEF RunAnswered

\* What _srFinishRun sends, and what becomes of the test.
LEMMA FinishSends ==
  ASSUME KioskInv, NEW base \in Seq(Call), NEW aborted \in BOOLEAN, FinishRun(aborted, base)
  PROVE  /\ sr'.test = sr.test
         /\ \A d \in ToSet(calls') : \/ d \in ToSet(base)
                                     \/ d.op = "report" /\ d.of = Subject(d)
                                     \/ d.op = "put" /\ d.of = sr.test
         /\ Filing' \/ Operating' \/ modal' = "choice"
<1>1. sr \in Sr /\ PagePart
  BY DEF KioskInv, PagePart, TestPageTypes
<1>2. sr'.test = sr.test
  BY <1>1, FinishRunFacts DEF TestKept
<1> DEFINE over == Over(aborted)
<1>3. over \in Sr /\ over.test = sr.test /\ over.aborted = aborted
  BY <1>1 DEF Over, Sr
<1>4. \/ Submits(over, base)
      \/ Weighs(over, base)
      \/ modal' = "choice" /\ calls' = base
  BY DEF FinishRun
<1> HIDE DEF over
<1>5. CASE Submits(over, base)
  <2>1. calls' = Append(base, PostReport(sr.test, "submit", aborted))
    BY <1>3, <1>5 DEF Submits
  <2>2. /\ Filing'
        /\ \A d \in ToSet(calls') : d \in ToSet(base) \/ (d.of = Subject(d) /\ d.op = "report")
    BY <1>2, <2>1, PostsTest
  <2> QED
    BY <1>2, <2>2
<1>6. CASE Weighs(over, base)
  <2>1. calls' = Append(base, Request("put", sr.test, "none")) /\ sr' = AfterWizard(over)
    BY <1>3, <1>6 DEF Weighs
  <2>2. Operating'
    BY <1>3, <2>1 DEF Operating, AfterWizard, Sr
  <2>3. \A d \in ToSet(calls') : d \in ToSet(base) \/ (d.of = sr.test /\ d.op = "put")
    BY <2>1, PutsTest
  <2> QED
    BY <1>2, <2>2, <2>3
<1>7. CASE modal' = "choice" /\ calls' = base
  BY <1>2, <1>7
<1> QED
  BY <1>4, <1>5, <1>6, <1>7

\* The end of a test, of which the complete button may file a report first.
LEMMA FinishKept ==
  ASSUME KioskInv, WaitInv, KeptInv, going = "nowhere", NEW c, NEW rest, Taken(c, rest),
         UNCHANGED <<server, user, val>>, Stays, c.by \in {"tick", "complete", "stop"},
         NEW aborted \in BOOLEAN, aborted => c.by = "stop",
         NEW base,
         base = rest \/ (~sr.analysis /\ base = Append(rest, PostReport(sr.test, "submit", FALSE))),
         FinishRun(aborted, base)
  PROVE  KeptInv'
<1>1. /\ rest \in Seq(Call) /\ ToSet(rest) \subseteq ToSet(calls) /\ By(rest) \subseteq By(calls)
      /\ Once(rest, {"start"}) /\ "test" \notin skip /\ ask # "leaveVal"
  BY TakenKept
<1>2. /\ UNCHANGED <<started, unsaved, reports, skip>> /\ val'.run = val.run
      /\ sr.test \in Runs \cup {None} /\ PagePart
  BY SrFields DEF server, Stays, KioskInv, PagePart, TestPageTypes
<1> DEFINE x == PostReport(sr.test, "submit", FALSE)
           whose == IF sr.analysis THEN {"none"} ELSE {"submit"}
<1>3. x \in New /\ x \in Call /\ x.op = "report" /\ x.by = "submit" /\ x.of = sr.test
  <2>1. x \in New /\ x \in Call
    BY <1>2, NewRunRequests, NewCall
  <2>2. x.op = "report" /\ x.by = "submit" /\ x.of = sr.test
    BY DEF PostReport, Request
  <2> QED
    BY <2>1, <2>2
<1>4. base = rest \/ (~sr.analysis /\ base = Append(rest, x))
  OBVIOUS
<1> HIDE DEF x
<1>5. /\ base \in Seq(Call)
      /\ \A d \in ToSet(base) : d \in ToSet(rest) \/ d = x
  <2>1. Append(rest, x) \in Seq(Call) /\ ToSet(Append(rest, x)) = ToSet(rest) \cup {x}
    BY <1>1, <1>3, AppendFacts
  <2> QED
    BY <1>1, <1>4, <2>1
<1>6. /\ sr'.done /\ sr'.analysis = sr.analysis /\ ask' = ask
      /\ modal' = modal \/ (modal' = "choice" /\ aborted /\ sr.analysis)
      /\ Sends(base, {"put", "report"}, whose)
  BY <1>2, <1>5, FinishFields
<1>7. Sends(rest, {"put", "report"}, whose)
  <2>1. CASE base = rest
    BY <1>6, <2>1
  <2>2. CASE ~sr.analysis /\ base = Append(rest, x)
    <3>1. x.op \in {"put", "report"} /\ x.by \in whose
      BY <1>3, <2>2
    <3>2. Sends(Append(rest, x), {"put", "report"}, whose)
      BY <1>6, <2>2
    <3> QED
      BY <1>1, <1>3, <3>1, <3>2, SendFirst
  <2> QED
    BY <1>4, <2>1, <2>2
<1>8. /\ sr'.test = sr.test
      /\ \A d \in ToSet(calls') : \/ d \in ToSet(base)
                                  \/ d.op = "report" /\ d.of = Subject(d)
                                  \/ d.op = "put" /\ d.of = sr.test
      /\ Filing' \/ Operating' \/ modal' = "choice"
  BY <1>5, FinishSends
<1>9. Subject(x) = sr.test
  BY <1>3 DEF Subject
<1>10. /\ \A d \in ToSet(calls') : d \in ToSet(rest) \/ (d.op = "report" => d.of = Subject(d))
       /\ \A d \in ToSet(calls') : d \in ToSet(rest) \/ (d.op = "put" => d.of = sr.test)
  BY <1>3, <1>5, <1>8, <1>9
<1>11. whose \subseteq {"none", "submit"} /\ (sr.analysis => whose \subseteq {"none"})
  OBVIOUS
<1>12. /\ "run" \notin {"put", "report"} /\ "start" \notin {"put", "report"}
       /\ "delete" \notin {"put", "report"} /\ "preview" \notin {"put", "report"}
  OBVIOUS
<1> HIDE DEF whose
<1>13. CourseInv' /\ StayInv' /\ (TestOpen' => TestOpen) /\ (ValOpen' => ValOpen)
  <2>1. whose \cap {"start", "leave", "idle"} = {} /\ "test" \notin skip' /\ ask' # "leaveVal"
        /\ (sr'.running \/ sr'.done)
    BY <1>1, <1>2, <1>6, <1>11
  <2> QED
    BY <1>1, <1>2, <1>7, <1>8, <1>10, <1>12, <2>1, PageCourse
<1>14. HoldInv' /\ EarlyInv' /\ ~ValOpen /\ (Filing => Filing')
  <2>1. c.by \in {"start", "tick", "complete", "stop"} /\ whose \subseteq {"none", "submit", "complete"}
        /\ (modal' \in {modal, "notice"} \/ (c.by = "stop" /\ sr.analysis))
    BY <1>6, <1>11
  <2> QED
    BY <1>1, <1>6, <1>7, <1>8, <1>11, <2>1, TestAnswerHolds
<1>15. TestOpen => TestBody'
  <2>1. whose \cap {"val", "byeTest"} = {}
    BY <1>11
  <2> QED
    BY <1>7, <1>8, <1>10, <1>12, <1>14, <2>1, TestAnswerBody
<1> QED
  BY <1>13, <1>14, <1>15 DEF KeptInv

\* An answer that the test page takes as it is, or that leads to a poll.
LEMMA SameTestKept ==
  ASSUME KioskInv, WaitInv, KeptInv, going = "nowhere", NEW c, NEW rest, Taken(c, rest),
         UNCHANGED <<server, user, val>>, Stays, c.by \in {"tick", "complete", "stop"},
         UNCHANGED sr, NoModal,
         \/ calls' = rest
         \/ c.by = "complete" /\ calls' = Append(rest, Request("live", None, "complete"))
  PROVE  KeptInv'
<1>1. /\ rest \in Seq(Call) /\ ToSet(rest) \subseteq ToSet(calls) /\ By(rest) \subseteq By(calls)
      /\ Once(rest, {"start"}) /\ "test" \notin skip /\ ask # "leaveVal"
  BY TakenKept
<1>2. /\ UNCHANGED <<started, unsaved, reports, skip, modal, ask>> /\ val'.run = val.run
      /\ sr'.test = sr.test /\ sr'.analysis = sr.analysis
      /\ (sr.running \/ sr.done => sr'.running \/ sr'.done)
  BY DEF server, Stays, NoModal
<1> DEFINE whose == IF c.by = "complete" THEN {"complete"} ELSE {}
<1>3. Sends(rest, {"live"}, whose)
  <2>1. CASE calls' = rest
    BY <1>1, <2>1, SendNone
  <2>2. CASE c.by = "complete" /\ calls' = Append(rest, Request("live", None, "complete"))
    <3>1. Request("live", None, "complete") \in New
      BY NewRequests
    <3> QED
      BY <1>1, <2>2, <3>1, SendRequest
  <2> QED
    BY <2>1, <2>2
<1>4. /\ whose \subseteq {"complete"} /\ (c.by # "complete" => whose \subseteq {"none"})
      /\ "run" \notin {"live"} /\ "start" \notin {"live"} /\ "delete" \notin {"live"}
      /\ "preview" \notin {"live"}
  OBVIOUS
<1> HIDE DEF whose
<1>5. \A d \in ToSet(calls') : d \in ToSet(rest) \/ d.op = "live"
  BY <1>1, <1>3, SentFacts
<1>6. /\ \A d \in ToSet(calls') : d \in ToSet(rest) \/ (d.op = "report" => d.of = Subject(d))
      /\ \A d \in ToSet(calls') : d \in ToSet(rest) \/ (d.op = "put" => d.of = sr.test)
  BY <1>5
<1>7. CourseInv' /\ StayInv' /\ (TestOpen' => TestOpen) /\ (ValOpen' => ValOpen)
  <2>1. whose \cap {"start", "leave", "idle"} = {} /\ "test" \notin skip' /\ ask' # "leaveVal"
    BY <1>1, <1>2, <1>4
  <2> QED
    BY <1>1, <1>2, <1>3, <1>4, <1>6, <2>1, PageCourse
<1>8. HoldInv' /\ EarlyInv' /\ ~ValOpen /\ (Filing => Filing')
  <2>1. c.by \in {"start", "tick", "complete", "stop"} /\ whose \subseteq {"none", "submit", "complete"}
        /\ modal' \in {modal, "notice"} /\ ask' = ask
    BY <1>2, <1>4
  <2> QED
    BY <1>2, <1>3, <1>4, <2>1, TestAnswerHolds
<1>9. TestOpen => TestBody'
  <2>1. whose \cap {"val", "byeTest"} = {} /\ (Operating' <=> Operating)
    BY <1>4 DEF Operating
  <2>2. TestOpen => Filing' \/ Operating' \/ modal' = "choice"
    BY <1>2, <1>8, <2>1 DEF KeptInv, TestBody
  <2> QED
    BY <1>3, <1>4, <1>6, <1>8, <2>1, <2>2, TestAnswerBody
<1> QED
  BY <1>7, <1>8, <1>9 DEF KeptInv

\* The answers that the test page waits for.
LEMMA TestAnswerKept ==
  ASSUME KioskInv, WaitInv, KeptInv, going = "nowhere", NEW c, NEW rest, Taken(c, rest),
         UNCHANGED <<server, user, val>>, Stays,
         \/ RunAnswered(c, rest) \/ PollAnswered(c, rest)
         \/ CompleteAnswered(c, rest) \/ StopAnswered(c, rest)
  PROVE  KeptInv'
<1>1. CASE RunAnswered(c, rest)
  BY <1>1, RunAnswerKept
<1>2. TRUE \in BOOLEAN /\ FALSE \in BOOLEAN
  OBVIOUS
<1>3. CASE PollAnswered(c, rest)
  <2>1. c.by = "tick" /\ (FinishRun(FALSE, rest) \/ (calls' = rest /\ UNCHANGED sr /\ NoModal))
    BY <1>3 DEF PollAnswered
  <2> QED
    BY <1>2, <2>1, FinishKept, SameTestKept
<1>4. CASE CompleteAnswered(c, rest)
  <2>1. /\ c.by = "complete"
        /\ \/ FinishRun(FALSE, rest)
           \/ /\ ~sr.analysis
              /\ FinishRun(FALSE, Append(rest, PostReport(sr.test, "submit", FALSE)))
           \/ /\ UNCHANGED sr /\ NoModal
              /\ calls' = rest \/ calls' = Append(rest, Request("live", None, "complete"))
    BY <1>4 DEF CompleteAnswered
  <2>2. CASE FinishRun(FALSE, rest)
    BY <1>2, <2>1, <2>2, FinishKept
  <2>3. CASE ~sr.analysis /\ FinishRun(FALSE, Append(rest, PostReport(sr.test, "submit", FALSE)))
    BY <1>2, <2>1, <2>3, FinishKept
  <2>4. CASE /\ UNCHANGED sr /\ NoModal
             /\ calls' = rest \/ calls' = Append(rest, Request("live", None, "complete"))
    BY <2>1, <2>4, SameTestKept
  <2> QED
    BY <2>1, <2>2, <2>3, <2>4
<1>5. CASE StopAnswered(c, rest)
  <2>1. c.by = "stop" /\ (FinishRun(TRUE, rest) \/ (calls' = rest /\ UNCHANGED sr /\ NoModal))
    BY <1>5 DEF StopAnswered
  <2> QED
    BY <1>2, <2>1, FinishKept, SameTestKept
<1> QED
  BY <1>1, <1>3, <1>4, <1>5

\* No answer for another screen comes while a stop is under way.
LEMMA AnswerHolds ==
  ASSUME KioskInv, WaitInv, KeptInv, going = "nowhere", NEW c, NEW rest, Taken(c, rest),
         c.by \notin {"start", "tick", "none", "stop"},
         modal' \in {modal, "notice"}, ask' = ask, sr'.analysis = sr.analysis,
         NEW ops, NEW callers, Sends(rest, ops, callers), callers \cap Endings = {}
  PROVE  HoldInv'
<1>1. /\ rest \in Seq(Call) /\ By(rest) \subseteq By(calls) /\ c.by \in By(calls)
  BY TakenKept
<1>2. By(calls') \subseteq By(rest) \cup callers
  BY <1>1, SentFacts
<1>3. modal = "choice" => sr.analysis
  BY DEF KeptInv, HoldInv
<1>4. ~(sr.analysis /\ (ask = "stop" \/ modal = "choice" \/ By(calls) \cap Endings # {}))
  BY <1>1 DEF KeptInv, HoldInv
<1>5. ~(sr'.analysis /\ (ask' = "stop" \/ modal' = "choice" \/ By(calls') \cap Endings # {}))
  BY <1>1, <1>2, <1>4
<1> QED
  BY <1>3, <1>5 DEF HoldInv

\* An answer before a validation is over is one about its start, or of a
\* logout.
LEMMA AnswerEarly ==
  ASSUME KioskInv, WaitInv, KeptInv, going = "nowhere", NEW c, NEW rest, Taken(c, rest),
         UNCHANGED page, going' # "validation", ask' = ask,
         val'.awaiting = val.awaiting, val'.enabled = val.enabled,
         NEW ops, NEW callers, Sends(rest, ops, callers),
         \/ UNCHANGED last /\ callers \subseteq {"none", "byeTest", "bye"}
         \/ c.by \notin {"none", "val", "byeTest", "bye"}
         \/ c.by = "val" /\ c.op # "start"
  PROVE  EarlyInv'
<1>1. /\ rest \in Seq(Call) /\ By(rest) \subseteq By(calls) /\ c.by \in By(calls)
      /\ c \in ToSet(calls) /\ ToSet(rest) \subseteq ToSet(calls)
  BY TakenKept
<1>2. /\ By(calls') \subseteq By(rest) \cup callers
      /\ \A d \in ToSet(calls') : d \in ToSet(rest) \/ d.by \in callers
  BY <1>1, SentFacts
<1>3. (val.awaiting => ~val.enabled) /\ (page = "validation" => ask # "stop")
  BY DEF KeptInv, EarlyInv
<1>4. ASSUME page = "validation", val.enabled \/ val.awaiting
      PROVE  /\ ~last'.pending /\ By(calls') \subseteq {"none", "val", "byeTest", "bye"}
             /\ \A d \in ToSet(calls') : d.by = "val" => d.op = "start"
  <2>1. /\ ~last.pending /\ By(calls) \subseteq {"none", "val", "byeTest", "bye"}
        /\ \A d \in ToSet(calls) : d.by = "val" => d.op = "start"
    BY <1>4 DEF KeptInv, EarlyInv
  <2>2. UNCHANGED last /\ callers \subseteq {"none", "byeTest", "bye"}
    BY <1>1, <2>1
  <2>3. \A d \in ToSet(calls') : d.by = "val" => d.op = "start"
    BY <1>1, <1>2, <2>1, <2>2
  <2> QED
    BY <1>1, <1>2, <2>1, <2>2, <2>3
<1> QED
  BY <1>3, <1>4 DEF EarlyInv

\* The answer to the start of a validation: when that has failed, nothing has
\* been started under its number.
LEMMA StartAnswerKept ==
  ASSUME KioskInv, WaitInv, KeptInv, going = "nowhere", NEW c, NEW rest, Taken(c, rest),
         UNCHANGED <<server, user, sr>>, Stays, StartAnswered(c, rest)
  PROVE  KeptInv'
<1>1. /\ rest \in Seq(Call) /\ ToSet(rest) \subseteq ToSet(calls) /\ By(rest) \subseteq By(calls)
      /\ c \in ToSet(calls) /\ c \in Call /\ c.op = "start" /\ c.by = "val" /\ Once(rest, {"start"})
      /\ "test" \notin skip /\ ask # "leaveVal" /\ ToSet(calls) \subseteq ToSet(rest) \cup {c}
  BY TakenKept, CallsFacts DEF StartAnswered
<1>2. /\ UNCHANGED <<started, unsaved, reports, page, going, skip, last>> /\ sr'.test = sr.test
      /\ sr'.analysis = sr.analysis /\ (sr.running \/ sr.done => sr'.running \/ sr'.done)
  BY DEF server, Stays
<1>3. val \in Val /\ PagePart
  BY OpenNumber DEF KeptInv, KioskInv
<1>4. Sends(rest, {"put"}, {"none"})
  BY <1>1, <1>3, StartAnsweredFacts
<1>5. /\ val'.run = val.run /\ val'.awaiting = val.awaiting /\ val'.enabled = val.enabled
      /\ ask' = ask /\ modal' \in {modal, "notice"}
  BY <1>3 DEF StartAnswered, Val, NoModal, Notice
<1>6. \A d \in ToSet(calls') : d \in ToSet(rest) \/ d.op = "put"
  BY <1>1, <1>4, SentFacts
<1>7. \A d \in ToSet(calls') : d \in ToSet(rest) \/ (d.op = "report" => d.of = Subject(d))
  BY <1>6
<1>8. /\ "run" \notin {"put"} /\ "start" \notin {"put"} /\ "delete" \notin {"put"}
      /\ "preview" \notin {"put"} /\ {"none"} \cap {"start", "leave", "idle"} = {}
  OBVIOUS
<1>9. CourseInv' /\ StayInv' /\ (TestOpen' => TestOpen) /\ (ValOpen' => ValOpen)
  BY <1>1, <1>2, <1>4, <1>5, <1>7, <1>8, PageCourse
<1>10. HoldInv' /\ EarlyInv'
  <2>1. {"none"} \cap Endings = {} /\ {"none"} \subseteq {"none", "byeTest", "bye"}
        /\ going' # "validation" /\ c.by \notin {"start", "tick", "none", "stop"}
    BY <1>1, <1>2 DEF Endings
  <2>2. HoldInv'
    BY <1>2, <1>4, <1>5, <2>1, AnswerHolds
  <2>3. EarlyInv'
    BY <1>2, <1>4, <1>5, <2>1, AnswerEarly
  <2> QED
    BY <2>2, <2>3
<1>11. ~TestOpen
  BY <1>1 DEF KeptInv, TestBody
<1>12. ValOpen' => ValBody'
  <2>1. CASE c.at = "ok"
    <3>1. val'.running /\ calls' = Append(rest, Request("put", val.run, "none"))
      BY <1>3, <2>1 DEF StartAnswered, Val
    <3> DEFINE x == Request("put", val.run, "none")
    <3>2. x \in Call /\ x.of = val.run
      <4>1. val.run \in Runs \cup {None}
        BY <1>3, ValFields
      <4>2. x \in Call
        BY <4>1, NewRunRequests, NewCall
      <4> QED
        BY <4>2, RequestFields
    <3>3. calls' = Append(rest, x)
      BY <3>1
    <3> HIDE DEF x
    <3>4. ToSet(calls') = ToSet(rest) \cup {x}
      BY <1>1, <3>2, <3>3, LastSent
    <3>5. SUFFICES ASSUME ValOpen PROVE ValBody'
      BY <1>9
    <3>6. val.run # None /\ ValBody
      BY <3>5, OpenNumber DEF KeptInv
    <3>7. \A d \in ToSet(calls') : d \in ToSet(rest) \/ (d.op = "put" => d.of # None)
      BY <3>2, <3>4, <3>6
    <3>8. {"none"} \subseteq {"none", "val", "byeTest"}
      OBVIOUS
    <3>9. \A d \in ToSet(calls') : ~Clears(d) /\ d.by \in {"none", "val", "byeTest"}
      BY <1>1, <1>4, <1>8, <3>6, <3>7, <3>8, BodyCalls DEF ValBody
    <3> QED
      BY <1>2, <3>1, <3>6, <3>9 DEF ValBody, ValidationActive
  <2>2. CASE c.at = "failed"
    <3>1. calls' = rest /\ val' = val
      BY <2>2 DEF StartAnswered
    <3>2. \A d \in ToSet(rest) : d.op # "start"
      <4>1. PICK i \in DOMAIN calls : c = calls[i] /\ rest = RemoveAt(calls, i)
        BY DEF Taken
      <4>2. Once(calls, {"val"})
        BY <1>1 DEF WaitInv, StartInv, Starting
      <4>3. By(rest) \cap {"val"} = {}
        BY <1>1, <4>2, TakenSingle
      <4> QED
        BY <1>1, <4>3, CallsFacts DEF By
    <3>3. val.run \notin started \/ Settled(val.run)
      BY <1>1, <2>2 DEF KeptInv, CourseInv, ValRunsInv
    <3>4. ~ValOpen'
      BY <1>2, <3>1, <3>2, <3>3 DEF ValOpen, Sent, Settled
    <3> QED
      BY <3>4
  <2> QED
    BY <2>1, <2>2 DEF StartAnswered
<1> QED
  BY <1>9, <1>10, <1>11, <1>12 DEF KeptInv

\* What the answer to a report or to a clearing request tells.
LEMMA ClosingAnswer ==
  ASSUME KioskInv, WaitInv, KeptInv, NEW c, NEW rest, Taken(c, rest)
  PROVE  /\ Clears(c) => ~TestOpen /\ ~ValOpen
         /\ c.op = "report" /\ c.by \in {"submit", "val"} => ~TestOpen /\ ~ValOpen
         /\ c.op = "report" /\ c.by = "bye" => ~TestOpen
         /\ c.op = "report" /\ c.by = "byeTest" => ~ValOpen
         /\ c.by \in {"val", "byeTest"} => ~TestOpen
         /\ c.by \notin {"none", "val", "byeTest"} => ~ValOpen
<1>1. c \in ToSet(calls) /\ c.at # "sent"
  BY TakenKept
<1>2. /\ Clears(c) => ~TestOpen /\ ~ValOpen
      /\ c.by \in {"val", "byeTest"} => ~TestOpen
      /\ c.by \notin {"none", "val", "byeTest"} => ~ValOpen
  BY <1>1 DEF KeptInv, TestBody, ValBody
<1>3. c.op = "report" => Subject(c) = None \/ Settled(Subject(c))
  BY <1>1 DEF KeptInv, CourseInv, SubjectInv
<1>4. /\ c.op = "report" /\ c.by \notin {"val", "byeTest"} => ~TestOpen
      /\ c.op = "report" /\ c.by \in {"val", "byeTest"} => ~ValOpen
  <2>1. /\ TestOpen => sr.test # None
        /\ ValOpen => val.run # None
    BY OpenNumber DEF KeptInv
  <2>2. /\ TestOpen => ~Settled(sr.test)
        /\ ValOpen => ~Settled(val.run)
    BY DEF TestOpen, ValOpen
  <2> QED
    BY <1>3, <2>1, <2>2 DEF Subject
<1> QED
  BY <1>2, <1>4

\* The answers after which a report is shown: the run that it is of is
\* settled, and nothing else is open.
LEMMA ShownAnswerKept ==
  ASSUME KioskInv, WaitInv, KeptInv, going = "nowhere", NEW c, NEW rest, Taken(c, rest),
         UNCHANGED server, haste' = haste,
         \/ SaveAnswered(c, rest) /\ UNCHANGED <<user, sr, val>> /\ Stays
         \/ PreviewAnswered(c, rest) /\ UNCHANGED <<user, sr, val, page, goal, skip>>
  PROVE  KeptInv'
<1> DEFINE ops == {"delete", "preview"}
           whose == {"submit", "val", "open"}
<1>1. /\ rest \in Seq(Call) /\ ToSet(rest) \subseteq ToSet(calls) /\ By(rest) \subseteq By(calls)
      /\ c \in Fit(Len(reports)) /\ Once(rest, {"start"}) /\ "test" \notin skip /\ ask # "leaveVal"
  BY TakenKept
<1>2. Sends(rest, ops, whose)
  <2>1. {"preview"} \subseteq ops /\ {"open"} \subseteq whose
    OBVIOUS
  <2>2. CASE SaveAnswered(c, rest) /\ UNCHANGED <<user, sr, val>> /\ Stays
    BY <1>1, <2>2, SaveAnswerStep
  <2>3. CASE PreviewAnswered(c, rest) /\ UNCHANGED <<user, sr, val, page, goal, skip>>
    <3>1. Sends(rest, {"preview"}, {"open"})
      BY <1>1, <2>3, PreviewAnswerStep
    <3> QED
      BY <2>1, <3>1, SendsMore
  <2> QED
    BY <2>2, <2>3
<1>3. /\ UNCHANGED <<started, unsaved, reports, sr, val, page, skip>>
      /\ ask' = ask /\ modal' \in {modal, "notice"} /\ going' # "validation"
  BY DEF server, Stays, SaveAnswered, PreviewAnswered, OpensPreview, NoModal, Notice
<1>4. \/ c.by \in {"submit", "val"} /\ c.op \in {"report", "delete"}
      \/ c.op = "preview" /\ c.by \in {"open", "again"}
  BY <1>1 DEF SaveAnswered, PreviewAnswered, Fit
<1>5. ~TestOpen /\ ~ValOpen
  BY <1>4, ClosingAnswer DEF Clears
<1>6. /\ "run" \notin ops /\ "start" \notin ops /\ "report" \notin ops
      /\ whose \cap {"start", "leave", "idle"} = {} /\ whose \cap Endings = {}
  BY DEF Endings
<1> HIDE DEF ops, whose
<1>7. \A d \in ToSet(calls') : d \in ToSet(rest) \/ (d.op = "report" => d.of = Subject(d))
  BY <1>1, <1>2, <1>6, SentFacts
<1>8. CourseInv' /\ StayInv' /\ (TestOpen' => TestOpen) /\ (ValOpen' => ValOpen)
  <2>1. /\ sr'.test = sr.test /\ val'.run = val.run /\ UNCHANGED <<started, unsaved, reports>>
        /\ (sr.running \/ sr.done => sr'.running \/ sr'.done)
        /\ "test" \notin skip' /\ ask' # "leaveVal"
    BY <1>1, <1>3
  <2> QED
    BY <1>1, <1>2, <1>6, <1>7, <2>1, PageCourse
<1>9. HoldInv'
  <2>1. c.by \notin {"start", "tick", "none", "stop"} /\ sr'.analysis = sr.analysis
    BY <1>3, <1>4
  <2> QED
    BY <1>2, <1>3, <1>6, <2>1, AnswerHolds
<1>10. EarlyInv'
  <2>1. /\ c.by \notin {"none", "val", "byeTest", "bye"} \/ (c.by = "val" /\ c.op # "start")
        /\ val'.awaiting = val.awaiting /\ val'.enabled = val.enabled
    BY <1>3, <1>4
  <2> QED
    BY <1>2, <1>3, <2>1, AnswerEarly
<1> QED
  BY <1>5, <1>8, <1>9, <1>10 DEF KeptInv

\* What the answers of a logout leave alone.
LEMMA GoodbyeCourse ==
  ASSUME KioskInv, WaitInv, KeptInv, going = "nowhere", NEW c, NEW rest, Taken(c, rest),
         UNCHANGED server, GoodbyeValidation(c, rest) \/ Goodbye(c, rest),
         UNCHANGED <<val, page, going, goal, skip, last>>,
         \A d \in ToSet(calls') : d \in ToSet(rest) \/ (d.op = "report" => d.of = Subject(d))
  PROVE  /\ CourseInv' /\ StayInv' /\ (TestOpen' => TestOpen) /\ (ValOpen' => ValOpen)
         /\ HoldInv' /\ EarlyInv'
<1> DEFINE ops == {"report", "delete", "abort", "ensure"}
           whose == {"bye", "byeTest"}
<1>1. /\ rest \in Seq(Call) /\ ToSet(rest) \subseteq ToSet(calls) /\ By(rest) \subseteq By(calls)
      /\ c \in Call /\ Once(rest, {"start"}) /\ "test" \notin skip /\ ask # "leaveVal"
  BY TakenKept
<1>2. Sends(rest, ops, whose) /\ sr'.test = sr.test
  BY <1>1, GoodbyeFacts
<1>3. /\ sr'.analysis = sr.analysis
      /\ ask' = ask /\ modal' \in {modal, "notice"} /\ c.by \in LogoutCallers
  BY <1>1, GoodbyeFields
<1>4. sr.running \/ sr.done => sr'.running \/ sr'.done
  <2>1. AbortsNow(rest) \/ SavesPartial(rest) \/ UNCHANGED sr
    BY DEF GoodbyeValidation, Goodbye
  <2>2. CASE AbortsNow(rest)
    BY <1>1, <2>2, AbortsNowKeeps
  <2>3. CASE SavesPartial(rest)
    <3>1. sr \in Sr
      BY OpenNumber DEF KeptInv
    <3> QED
      BY <2>3, <3>1 DEF SavesPartial, Sr
  <2> QED
    BY <2>1, <2>2, <2>3
<1>5. /\ "run" \notin ops /\ "start" \notin ops /\ whose \cap {"start", "leave", "idle"} = {}
      /\ whose \cap Endings = {} /\ whose \subseteq {"none", "byeTest", "bye"}
  BY DEF Endings
<1> HIDE DEF ops, whose
<1>6. /\ UNCHANGED <<started, unsaved, reports, page, skip, last>> /\ val'.run = val.run
      /\ "test" \notin skip' /\ ask' # "leaveVal" /\ (sr.running \/ sr.done => sr'.running \/ sr'.done)
      /\ val'.awaiting = val.awaiting /\ val'.enabled = val.enabled /\ going' # "validation"
      /\ c.by \notin {"start", "tick", "none", "stop"}
  BY <1>1, <1>3, <1>4 DEF server, LogoutCallers
<1>7. CourseInv' /\ StayInv' /\ (TestOpen' => TestOpen) /\ (ValOpen' => ValOpen)
  BY <1>1, <1>2, <1>5, <1>6, PageCourse
<1>8. HoldInv'
  BY <1>2, <1>3, <1>5, <1>6, AnswerHolds
<1>9. EarlyInv'
  BY <1>2, <1>3, <1>5, <1>6, AnswerEarly
<1> QED
  BY <1>7, <1>8, <1>9

\* A logout files the report of the validation that it ends, and then looks
\* at the test page.
LEMMA GoodbyeValidationKept ==
  ASSUME KioskInv, WaitInv, KeptInv, going = "nowhere", NEW c, NEW rest, Taken(c, rest),
         UNCHANGED server, GoodbyeValidation(c, rest),
         UNCHANGED <<val, page, going, goal, skip, last>>
  PROVE  KeptInv'
<1>1. /\ rest \in Seq(Call) /\ ToSet(rest) \subseteq ToSet(calls) /\ c.by = "byeTest"
  BY TakenKept DEF GoodbyeValidation
<1>2. ~TestOpen /\ TRUE \in BOOLEAN
  BY <1>1, ClosingAnswer
<1>3. CASE c.op = "stop" /\ calls' = Append(rest, PostReport(val.run, "byeTest", TRUE))
  <2>1. /\ ValFiling' /\ Sends(rest, {"report"}, {"byeTest"})
        /\ \A d \in ToSet(calls') : d \in ToSet(rest) \/ (d.of = Subject(d) /\ d.op = "report")
    BY <1>1, <1>2, <1>3, PostsValidation
  <2>2. /\ CourseInv' /\ StayInv' /\ (TestOpen' => TestOpen) /\ (ValOpen' => ValOpen)
        /\ HoldInv' /\ EarlyInv'
    BY <2>1, GoodbyeCourse
  <2>3. ValOpen => ValBody'
    <3>1. SUFFICES ASSUME ValOpen PROVE ValBody'
      OBVIOUS
    <3>2. ValBody
      BY <3>1 DEF KeptInv
    <3>3. /\ \A d \in ToSet(calls') : d \in ToSet(rest) \/ (d.op = "put" => d.of # None)
          /\ "delete" \notin {"report"} /\ "preview" \notin {"report"}
          /\ {"byeTest"} \subseteq {"none", "val", "byeTest"}
      BY <2>1
    <3>4. \A d \in ToSet(calls') : ~Clears(d) /\ d.by \in {"none", "val", "byeTest"}
      BY <1>1, <2>1, <3>2, <3>3, BodyCalls DEF ValBody
    <3> QED
      BY <2>1, <3>2, <3>4 DEF ValBody
  <2> QED
    BY <1>2, <2>2, <2>3 DEF KeptInv
<1>4. CASE c.op = "report" /\ calls' = Append(rest, Request("delete", None, "byeTest"))
  <2>1. Request("delete", None, "byeTest") \in New
    BY NewRequests DEF None
  <2>2. \A d \in ToSet(calls') : d \in ToSet(rest) \/ d.op = "delete"
    <3>1. Sends(rest, {"delete"}, {"byeTest"})
      BY <1>1, <1>4, <2>1, SendRequest
    <3> QED
      BY <1>1, <3>1, SentFacts
  <2>3. \A d \in ToSet(calls') : d \in ToSet(rest) \/ (d.op = "report" => d.of = Subject(d))
    BY <2>2
  <2>4. /\ CourseInv' /\ StayInv' /\ (TestOpen' => TestOpen) /\ (ValOpen' => ValOpen)
        /\ HoldInv' /\ EarlyInv'
    BY <2>3, GoodbyeCourse
  <2>5. ~ValOpen
    BY <1>1, <1>4, ClosingAnswer
  <2> QED
    BY <1>2, <2>4, <2>5 DEF KeptInv
<1>5. CASE c.op = "delete" /\ AbortsNow(rest)
  <2>1. \A d \in ToSet(calls') : d \in ToSet(rest) \/ (d.op = "report" => d.of = Subject(d))
    BY <1>1, <1>5, AbortsNowKeeps
  <2>2. /\ CourseInv' /\ StayInv' /\ (TestOpen' => TestOpen) /\ (ValOpen' => ValOpen)
        /\ HoldInv' /\ EarlyInv'
    BY <2>1, GoodbyeCourse
  <2>3. ~ValOpen
    BY <1>5, ClosingAnswer DEF Clears
  <2> QED
    BY <1>2, <2>2, <2>3 DEF KeptInv
<1> QED
  BY <1>3, <1>4, <1>5 DEF GoodbyeValidation

\* A logout files the report of the test that it ends.
LEMMA GoodbyeKept ==
  ASSUME KioskInv, WaitInv, KeptInv, going = "nowhere", NEW c, NEW rest, Taken(c, rest),
         UNCHANGED server, Goodbye(c, rest),
         UNCHANGED <<val, page, going, goal, skip, last>>
  PROVE  KeptInv'
<1>1. /\ rest \in Seq(Call) /\ ToSet(rest) \subseteq ToSet(calls) /\ c.by = "bye"
      /\ c \in Call /\ c \in ToSet(calls) /\ c.at # "sent" /\ ToSet(calls) \subseteq ToSet(rest) \cup {c}
  BY TakenKept DEF Goodbye
<1>2. ~ValOpen /\ TRUE \in BOOLEAN /\ sr \in Sr
  BY <1>1, ClosingAnswer, OpenNumber DEF KeptInv
<1>3. CASE c.op = "abort" /\ SavesPartial(rest)
  <2>1. calls' = Append(rest, PostReport(sr.test, "bye", TRUE)) /\ sr'.test = sr.test
    BY <1>2, <1>3 DEF SavesPartial, Sr
  <2>2. /\ Filing' /\ Sends(rest, {"report"}, {"bye"})
        /\ \A d \in ToSet(calls') : d \in ToSet(rest) \/ (d.of = Subject(d) /\ d.op = "report")
    BY <1>1, <1>2, <2>1, PostsTest
  <2>3. /\ CourseInv' /\ StayInv' /\ (TestOpen' => TestOpen) /\ (ValOpen' => ValOpen)
        /\ HoldInv' /\ EarlyInv'
    BY <2>2, GoodbyeCourse
  <2>4. TestOpen => TestBody'
    <3>1. SUFFICES ASSUME TestOpen PROVE TestBody'
      OBVIOUS
    <3>2. TestBody
      BY <3>1 DEF KeptInv
    <3>3. /\ \A d \in ToSet(calls') : d \in ToSet(rest) \/ (d.op = "put" => d.of # None)
          /\ "delete" \notin {"report"} /\ "preview" \notin {"report"}
          /\ {"bye"} \cap {"val", "byeTest"} = {}
      BY <2>2
    <3>4. \A d \in ToSet(calls') : ~Clears(d) /\ d.by \notin {"val", "byeTest"}
      BY <1>1, <2>2, <3>2, <3>3, BodyCalls DEF TestBody
    <3> QED
      BY <2>2, <3>2, <3>4 DEF TestBody
  <2> QED
    BY <1>2, <2>3, <2>4 DEF KeptInv
<1>4. CASE /\ c.op = "report" \/ c.op = "delete"
           /\ calls' = Append(rest, IF c.op = "report" /\ c.at = "ok"
                                    THEN Request("delete", None, "bye")
                                    ELSE Request("ensure", None, "bye"))
  <2>1. Request("delete", None, "bye") \in New /\ Request("ensure", None, "bye") \in New
    BY NewRequests DEF None
  <2>2. \A d \in ToSet(calls') : d \in ToSet(rest) \/ d.op \in {"delete", "ensure"}
    <3>1. \/ calls' = Append(rest, Request("delete", None, "bye"))
          \/ calls' = Append(rest, Request("ensure", None, "bye"))
      BY <1>4
    <3>2. "delete" \in {"delete", "ensure"} /\ "ensure" \in {"delete", "ensure"} /\ "bye" \in {"bye"}
      OBVIOUS
    <3>3. Sends(rest, {"delete", "ensure"}, {"bye"})
      BY <1>1, <2>1, <3>1, <3>2, SendRequest
    <3> QED
      BY <1>1, <3>3, SentFacts
  <2>3. \A d \in ToSet(calls') : d \in ToSet(rest) \/ (d.op = "report" => d.of = Subject(d))
    BY <2>2
  <2>4. /\ CourseInv' /\ StayInv' /\ (TestOpen' => TestOpen) /\ (ValOpen' => ValOpen)
        /\ HoldInv' /\ EarlyInv'
    BY <2>3, GoodbyeCourse
  <2>5. ~TestOpen
    BY <1>1, <1>4, ClosingAnswer DEF Clears
  <2> QED
    BY <1>2, <2>4, <2>5 DEF KeptInv
<1>5. CASE c.op = "ensure" /\ calls' = rest /\ UNCHANGED sr /\ modal' = modal
  <2>1. \A d \in ToSet(calls') : d \in ToSet(rest) \/ (d.op = "report" => d.of = Subject(d))
    BY <1>5
  <2>2. /\ CourseInv' /\ StayInv' /\ (TestOpen' => TestOpen) /\ (ValOpen' => ValOpen)
        /\ HoldInv' /\ EarlyInv'
    BY <2>1, GoodbyeCourse
  <2>3. (Filing => Filing') /\ (Operating => Operating')
    BY <1>1, <1>5 DEF Filing, IsPost, Operating
  <2>4. TestOpen => TestBody'
    BY <1>1, <1>5, <2>3 DEF KeptInv, TestBody
  <2> QED
    BY <1>2, <2>2, <2>4 DEF KeptInv
<1> QED
  BY <1>1, <1>3, <1>4, <1>5 DEF Goodbye

\* No answer to the abort of a leave is waited for.
LEMMA AnswerKept ==
  ASSUME KioskInv, WaitInv, KeptInv, going = "nowhere", NEW i \in DOMAIN calls, Answer(i),
         haste' = haste
  PROVE  KeptInv'
<1> DEFINE c == calls[i]
           rest == RemoveAt(calls, i)
<1>1. Taken(c, rest) /\ UNCHANGED server
  BY DEF Answer, Taken
<1>2. \/ /\ \/ RunAnswered(c, rest) \/ PollAnswered(c, rest)
            \/ CompleteAnswered(c, rest) \/ StopAnswered(c, rest)
         /\ UNCHANGED <<user, val>> /\ Stays
      \/ LeaveAnswered(c, rest)
      \/ StartAnswered(c, rest) /\ UNCHANGED <<user, sr>> /\ Stays
      \/ SaveAnswered(c, rest) /\ UNCHANGED <<user, sr, val>> /\ Stays
      \/ /\ GoodbyeValidation(c, rest) \/ Goodbye(c, rest)
         /\ UNCHANGED <<val, page, going, goal, skip, last>>
      \/ /\ PreviewAnswered(c, rest)
         /\ UNCHANGED <<user, sr, val, page, goal, skip>>
  BY DEF Answer
<1> HIDE DEF c, rest
<1>3. ~LeaveAnswered(c, rest)
  BY <1>1, TakenKept DEF LeaveAnswered
<1> QED
  BY <1>1, <1>2, <1>3, TestAnswerKept, StartAnswerKept, ShownAnswerKept, GoodbyeValidationKept,
     GoodbyeKept

----------------------------------------------------------------------------
(***************************************************************************)
(* No test is forgotten: the server                                        *)
(***************************************************************************)
LEMMA OnceSame ==
  ASSUME NEW s, NEW B, Once(s, B), NEW x \in ToSet(s), NEW y \in ToSet(s), x.by \in B, y.by \in B
  PROVE  x = y
BY DEF Once, ToSet

\* The run is settled after the step.
Settles(t) == t \in unsaved' \/ \E j \in DOMAIN reports' : reports'[j].of = t

\* A call has been served: it may have started its run, a report has been
\* settled by that, and the answer speaks of the same run.
ServedRun(i, at) ==
  /\ Served(i, at)
  /\ started' = started \cup (IF calls[i].op \in {"run", "start"} /\ at = "ok"
                              THEN {calls[i].of} ELSE {})
  /\ calls[i].op = "report" => calls[i].of = None \/ Settles(calls[i].of)
  /\ \A t : Settled(t) => Settles(t)
  /\ \A d \in ToSet(calls') :
       \/ d \in ToSet(calls)
       \/ /\ d.op = calls[i].op /\ d.by = calls[i].by /\ d.at = at
          /\ d.op # "report" => d.of = calls[i].of

\* Which calls are under way after that.
LEMMA ServedRunFacts ==
  ASSUME KioskInv, WaitInv, KeptInv, NEW i \in DOMAIN calls, NEW at \in {"ok", "failed"},
         ServedRun(i, at)
  PROVE  /\ calls' \in Seq(Call) /\ By(calls') \subseteq By(calls)
         /\ calls[i] \in ToSet(calls) /\ calls[i].at = "sent"
         /\ \A d \in ToSet(calls) : d \in ToSet(calls') \/ d = calls[i]
         /\ calls[i].op = "run" => calls[i].of = sr.test /\ calls[i].of \in Tests
         /\ calls[i].op = "start" => calls[i].of = val.run /\ calls[i].of \in Validations
         /\ Once(calls', {"start"})
         /\ \A op : Sent(op)' => Sent(op)
         /\ \A d \in ToSet(calls') : d.op = calls[i].op /\ d.op \in {"run", "start"} => d.at = at
<1> DEFINE c == calls[i]
<1>1. /\ calls' \in Seq(Call) /\ By(calls') \subseteq By(calls) /\ c.at = "sent"
      /\ \A B : Once(calls, B) => Once(calls', B)
      /\ \A d \in ToSet(calls) : d \in ToSet(calls') \/ d = c
      /\ c \in ToSet(calls)
      /\ ~Silent(c) => \E d \in ToSet(calls') : d.op = c.op /\ d.at = at
      /\ \A d \in ToSet(calls') : d \in ToSet(calls) \/ (d.op = c.op /\ d.by = c.by /\ d.at = at)
  BY ServedLeaves DEF ServedRun, Served
<1> HIDE DEF c
<1>2. \A d \in ToSet(calls) : /\ d.op = "run" => d.of \in Tests /\ d.by = "start"
                              /\ d.op = "start" => d.of \in Validations /\ d.by = "val"
  BY CallsFacts DEF Fit
<1>3. /\ c.op = "run" => c.of = sr.test
      /\ c.op = "start" => c.of = val.run
      /\ Once(calls, {"start"})
      /\ c.op = "start" => Once(calls, {"val"})
  BY <1>1 DEF KeptInv, CourseInv, RunsInv, ValRunsInv, WaitInv, StartInv, Starting
<1>4. \A op : Sent(op)' => Sent(op)
  BY <1>1 DEF Sent
<1>5. ASSUME NEW d \in ToSet(calls'), d.op = c.op, d.op \in {"run", "start"} PROVE d.at = at
  <2>1. \A x \in ToSet(calls') : x.op = c.op => x.by = c.by
    BY <1>1, <1>2, <1>5
  <2>2. Once(calls', {c.by}) /\ ~Silent(c)
    BY <1>1, <1>2, <1>3, <1>5 DEF Silent
  <2>3. PICK x \in ToSet(calls') : x.op = c.op /\ x.at = at
    BY <1>1, <2>2
  <2>4. x.by \in {c.by} /\ d.by \in {c.by}
    BY <1>5, <2>1, <2>3
  <2>5. x = d
    BY <1>5, <2>2, <2>3, <2>4, OnceSame
  <2> QED
    BY <2>3, <2>5
<1> QED
  BY <1>1, <1>2, <1>3, <1>4, <1>5 DEF c

LEMMA ServedCourse ==
  ASSUME KioskInv, WaitInv, KeptInv, NEW i \in DOMAIN calls, NEW at \in {"ok", "failed"},
         ServedRun(i, at), UNCHANGED <<sr, val>>
  PROVE  CourseInv' /\ (TestOpen' => TestOpen) /\ (ValOpen' => ValOpen)
<1> DEFINE c == calls[i]
<1>1. /\ c \in ToSet(calls) /\ c.at = "sent"
      /\ c.op = "run" => c.of = sr.test /\ c.of \in Tests
      /\ c.op = "start" => c.of = val.run /\ c.of \in Validations
      /\ Once(calls', {"start"})
      /\ \A op : Sent(op)' => Sent(op)
      /\ \A d \in ToSet(calls') : d.op = c.op /\ d.op \in {"run", "start"} => d.at = at
  BY ServedRunFacts
<1>2. /\ started' = started \cup (IF c.op \in {"run", "start"} /\ at = "ok" THEN {c.of} ELSE {})
      /\ c.op = "report" => c.of = None \/ Settles(c.of)
      /\ \A t : Settled(t) => Settles(t)
      /\ \A d \in ToSet(calls') :
           d \in ToSet(calls) \/ (d.op = c.op /\ d.by = c.by /\ d.at = at
                                  /\ (d.op # "report" => d.of = c.of))
  BY DEF ServedRun
<1> HIDE DEF c
<1>3. /\ Tests \cap Validations = {} /\ ~(None \in Tests) /\ ~(None \in Validations)
      /\ sr.test \in Tests \cup {None} /\ val.run \in Validations \cup {None}
  BY RunFacts, SrFields, ValFields DEF KioskInv, PagePart, TestPageTypes, ValidationTypes, None
<1>4. /\ started \subseteq started'
      /\ \A t \in started' : \/ t \in started
                             \/ t = sr.test /\ c.op = "run" /\ at = "ok" /\ t \in Tests
                             \/ t = val.run /\ c.op = "start" /\ at = "ok" /\ t \in Validations
  BY <1>1, <1>2
<1>5. PastInv'
  <2>1. sr.test \in Nat /\ val.run \in Nat
    BY OpenNumber DEF KeptInv
  <2>2. ASSUME NEW t \in started'
        PROVE  \/ t \in Tests /\ t <= sr.test /\ (t = sr.test \/ Settles(t))
               \/ t \in Validations /\ t <= val.run /\ (t = val.run \/ Settles(t))
    <3>1. CASE t \in started
      BY <1>2, <3>1 DEF KeptInv, CourseInv, PastInv
    <3>2. CASE t = sr.test /\ t \in Tests
      BY <2>1, <3>2
    <3>3. CASE t = val.run /\ t \in Validations
      BY <2>1, <3>3
    <3> QED
      BY <1>4, <3>1, <3>2, <3>3
  <2> QED
    BY <2>2 DEF PastInv, Settled, Settles
<1>6. RunsInv'
  <2>1. sr.test \in started' => sr.test \in started \/ (c.op = "run" /\ at = "ok")
    BY <1>3, <1>4
  <2>2. ASSUME NEW d \in ToSet(calls'), d.op = "run"
        PROVE  d.of = sr.test /\ (d.at # "ok" => sr.test \notin started')
    <3>1. c.op = "run" => d.at = at
      BY <1>1, <2>2
    <3>2. CASE d \in ToSet(calls)
      BY <2>1, <2>2, <3>1, <3>2 DEF KeptInv, CourseInv, RunsInv
    <3>3. CASE d.op = c.op /\ d.of = c.of /\ d.at = at
      <4>1. at # "ok" => sr.test \notin started
        BY <1>1, <2>2, <3>3 DEF KeptInv, CourseInv, RunsInv
      <4> QED
        BY <1>1, <2>1, <2>2, <3>3, <4>1
    <3> QED
      BY <1>2, <2>2, <3>2, <3>3
  <2>3. sr.test \in started' \/ Sent("run")' => sr.running \/ sr.done
    <3>1. c.op = "run" => Sent("run")
      BY <1>1 DEF Sent
    <3> QED
      BY <1>1, <2>1, <3>1 DEF KeptInv, CourseInv, RunsInv
  <2> QED
    BY <1>1, <2>2, <2>3 DEF RunsInv
<1>7. ValRunsInv'
  <2>1. val.run \in started' => val.run \in started \/ (c.op = "start" /\ at = "ok")
    BY <1>3, <1>4
  <2>2. ASSUME NEW d \in ToSet(calls'), d.op = "start"
        PROVE  d.of = val.run /\ (d.at # "ok" => val.run \notin started' \/ Settles(val.run))
    <3>1. c.op = "start" => d.at = at
      BY <1>1, <2>2
    <3>2. CASE d \in ToSet(calls)
      BY <1>2, <2>1, <2>2, <3>1, <3>2 DEF KeptInv, CourseInv, ValRunsInv
    <3>3. CASE d.op = c.op /\ d.of = c.of /\ d.at = at
      <4>1. val.run \notin started \/ Settled(val.run)
        BY <1>1, <2>2, <3>3 DEF KeptInv, CourseInv, ValRunsInv
      <4> QED
        BY <1>1, <1>2, <2>1, <2>2, <3>3, <4>1
    <3> QED
      BY <1>2, <2>2, <3>2, <3>3
  <2> QED
    BY <2>2 DEF ValRunsInv, Settled, Settles
<1>8. SubjectInv'
  <2>1. \A d : Subject(d)' = Subject(d)
    BY DEF Subject
  <2>2. ASSUME NEW d \in ToSet(calls'), d.op = "report"
        PROVE  IF d.at = "sent" THEN d.of = Subject(d)
               ELSE Subject(d) = None \/ Settles(Subject(d))
    <3>1. CASE d \in ToSet(calls)
      BY <1>2, <2>2, <3>1 DEF KeptInv, CourseInv, SubjectInv
    <3>2. CASE d.op = c.op /\ d.by = c.by /\ d.at = at
      <4>1. c.of = Subject(c) /\ Subject(d) = Subject(c)
        BY <1>1, <2>2, <3>2 DEF KeptInv, CourseInv, SubjectInv, Subject
      <4> QED
        BY <1>2, <2>2, <3>2, <4>1
    <3> QED
      BY <1>2, <3>1, <3>2
  <2> QED
    BY <2>1, <2>2 DEF SubjectInv, Settled, Settles
<1>9. TestOpen' => TestOpen
  <2>1. sr.test \in started' \/ Sent("run")' => sr.test \in started \/ Sent("run")
    BY <1>1, <1>3, <1>4 DEF Sent
  <2> QED
    BY <1>2, <2>1 DEF TestOpen, Settled, Settles
<1>10. ValOpen' => ValOpen
  <2>1. val.run \in started' \/ Sent("start")' => val.run \in started \/ Sent("start")
    BY <1>1, <1>3, <1>4 DEF Sent
  <2> QED
    BY <1>2, <2>1 DEF ValOpen, Settled, Settles
<1> QED
  BY <1>5, <1>6, <1>7, <1>8, <1>9, <1>10 DEF CourseInv

\* A served call clears no more than before, and a report that it was has
\* settled its run.
LEMMA ServedKept ==
  ASSUME KioskInv, WaitInv, KeptInv, going = "nowhere",
         NEW i \in DOMAIN calls, NEW at \in {"ok", "failed"},
         ServedRun(i, at), UNCHANGED <<page_, val, shell>>
  PROVE  KeptInv'
<1> DEFINE c == calls[i]
<1>1. /\ By(calls') \subseteq By(calls) /\ c \in ToSet(calls) /\ c.at = "sent"
      /\ \A d \in ToSet(calls) : d \in ToSet(calls') \/ d = c
  BY ServedRunFacts
<1>2. /\ c.op = "report" => c.of = None \/ Settles(c.of)
      /\ \A d \in ToSet(calls') :
           d \in ToSet(calls) \/ (d.op = c.op /\ d.by = c.by /\ d.at = at
                                  /\ (d.op # "report" => d.of = c.of))
      /\ ~Silent(c) => \E d \in ToSet(calls') : d.op = c.op /\ d.at = at
  BY ServedLeaves DEF ServedRun
<1>3. UNCHANGED <<sr, modal, ask, val, page, going, skip, last>>
  BY DEF page_, shell
<1>4. CourseInv' /\ (TestOpen' => TestOpen) /\ (ValOpen' => ValOpen)
  BY <1>3, ServedCourse
<1> HIDE DEF c
<1>5. StayInv' /\ HoldInv'
  BY <1>1, <1>3 DEF KeptInv, StayInv, HoldInv
<1>6. EarlyInv'
  <2>1. /\ \A d \in ToSet(calls) : d.by = "val" => d.op = "start"
        => \A d \in ToSet(calls') : d.by = "val" => d.op = "start"
    BY <1>1, <1>2
  <2> QED
    BY <1>1, <1>3, <2>1 DEF KeptInv, EarlyInv
<1>7. /\ \A d \in ToSet(calls') : \E e \in ToSet(calls) : d.by = e.by /\ (Clears(d) => Clears(e))
  BY <1>1, <1>2 DEF Clears
<1>8. \A t : t # None /\ ~Settles(t) /\ (\E d \in ToSet(calls) : IsPost(d, t))
        => \E d \in ToSet(calls') : IsPost(d, t)
  BY <1>1, <1>2 DEF IsPost
<1>9. TestOpen' => TestBody'
  <2>1. SUFFICES ASSUME TestOpen' PROVE TestBody'
    OBVIOUS
  <2>2. TestBody /\ sr.test # None /\ ~Settles(sr.test)
    BY <1>3, <1>4, <2>1, OpenNumber DEF KeptInv, TestOpen, Settled, Settles
  <2>3. (Filing => Filing') /\ (Operating => Operating')
    BY <1>3, <1>8, <2>2 DEF Filing, Operating
  <2>4. \A d \in ToSet(calls') : ~Clears(d) /\ d.by \notin {"val", "byeTest"}
    BY <1>7, <2>2 DEF TestBody
  <2> QED
    BY <1>3, <2>2, <2>3, <2>4 DEF TestBody
<1>10. ValOpen' => ValBody'
  <2>1. SUFFICES ASSUME ValOpen' PROVE ValBody'
    OBVIOUS
  <2>2. ValBody /\ val.run # None /\ ~Settles(val.run)
    BY <1>3, <1>4, <2>1, OpenNumber DEF KeptInv, ValOpen, Settled, Settles
  <2>3. (ValFiling => ValFiling') /\ (ValidationActive => ValidationActive')
    BY <1>3, <1>8, <2>2 DEF ValFiling, ValidationActive
  <2>4. ASSUME ValWaits PROVE ValWaits'
    <3>1. PICK d \in ToSet(calls) : d.op = "start" \/ (d.op = "stop" /\ d.by = "byeTest")
      BY <2>4 DEF ValWaits
    <3>2. CASE d \in ToSet(calls')
      BY <3>1, <3>2 DEF ValWaits
    <3>3. CASE d = c
      <4>1. ~Silent(c)
        BY <3>1, <3>3, CallsFacts DEF Silent
      <4>2. PICK e \in ToSet(calls') : e.op = c.op /\ e.at = at
        BY <1>2, <4>1
      <4>3. e.op = "stop" => e.by = "byeTest"
        <5>1. CASE e \in ToSet(calls)
          <6>1. e \in Fit(Len(reports)) /\ e.at # "sent"
            BY <4>2, <5>1, CallsFacts
          <6> QED
            BY <6>1 DEF Fit
        <5>2. CASE e.by = c.by
          BY <3>1, <3>3, <4>2, <5>2
        <5> QED
          BY <1>2, <5>1, <5>2
      <4> QED
        BY <3>1, <3>3, <4>2, <4>3 DEF ValWaits
    <3> QED
      BY <1>1, <3>2, <3>3
  <2>5. \A d \in ToSet(calls') : ~Clears(d) /\ d.by \in {"none", "val", "byeTest"}
    BY <1>7, <2>2 DEF ValBody
  <2> QED
    BY <1>3, <2>2, <2>3, <2>4, <2>5 DEF ValBody
<1> QED
  BY <1>4, <1>5, <1>6, <1>9, <1>10 DEF KeptInv

LEMMA LandsKept ==
  ASSUME KioskInv, WaitInv, KeptInv, going = "nowhere", NEW i \in DOMAIN calls, Lands(i),
         UNCHANGED <<page_, val, shell>>
  PROVE  KeptInv'
<1> DEFINE c == calls[i]
<1>1. Served(i, "ok") /\ "ok" \in {"ok", "failed"} /\ unsaved' = unsaved
  BY ServedCall DEF Lands
<1>2. /\ c \in Fit(Len(reports)) /\ c.at = "sent"
      /\ \A d \in ToSet(calls') : d \in ToSet(calls) \/ (d = Answered(c) /\ ~Silent(c))
  BY <1>1, LandedSet, ServedLeaves, CallsFacts DEF Served
<1>3. \A d \in ToSet(calls') :
        \/ d \in ToSet(calls)
        \/ d.op = c.op /\ d.by = c.by /\ d.at = "ok" /\ (d.op # "report" => d.of = c.of)
  BY <1>2, AnsweredFacts
<1>4. started' = started \cup (IF c.op \in {"run", "start"} /\ "ok" = "ok" THEN {c.of} ELSE {})
  <2> HIDE DEF c
  <2>1. \/ c.op = "run" /\ started' = started \cup {c.of}
        \/ c.op = "start" /\ started' = started \cup {c.of}
        \/ c.op \notin {"run", "start"} /\ started' = started
    BY DEF Lands, LandsRun, LandsAbort, LandsComplete, LandsStart, LandsStop, LandsCheckpoint,
           LandsReport, LandsRead, c
  <2> QED
    BY <2>1
<1>5. LandsReport(c) \/ (c.op # "report" /\ UNCHANGED reports)
  BY DEF Lands, LandsRun, LandsAbort, LandsComplete, LandsStart, LandsStop, LandsCheckpoint, LandsRead
<1>6. (c.op = "report" => c.of = None \/ Settles(c.of)) /\ \A t : Settled(t) => Settles(t)
  <2>1. CASE LandsReport(c)
    <3> DEFINE n == Len(reports)
               x == [of |-> c.of, aborted |-> c.aborted, pending |-> TRUE]
    <3>1. reports \in Seq(Report) /\ n \in Nat
      BY ReportsLen DEF KioskInv
    <3>2. reports' = Append(reports, x) /\ x.of = c.of
      BY <2>1 DEF LandsReport
    <3> HIDE DEF x, c
    <3>3. x \in {x} \cup Report /\ reports \in Seq({x} \cup Report)
      BY <3>1
    <3>4. /\ DOMAIN reports = 1 .. n /\ DOMAIN reports' = 1 .. n + 1
          /\ \A j \in 1 .. n : reports'[j] = reports[j]
          /\ reports'[n + 1] = x
      BY <3>1, <3>2, <3>3, AppendProperties, LenProperties
    <3>5. n + 1 \in DOMAIN reports' /\ \A j \in DOMAIN reports : j \in DOMAIN reports'
      BY <3>1, <3>4
    <3> QED
      BY <1>1, <3>2, <3>4, <3>5 DEF Settles, Settled
  <2>2. CASE c.op # "report" /\ UNCHANGED reports
    BY <1>1, <2>2 DEF Settles, Settled
  <2> QED
    BY <1>5, <2>1, <2>2
<1>7. ServedRun(i, "ok")
  BY <1>1, <1>3, <1>4, <1>6 DEF ServedRun
<1> QED
  BY <1>1, <1>7, ServedKept

LEMMA RefusesKept ==
  ASSUME KioskInv, WaitInv, KeptInv, going = "nowhere", NEW i \in DOMAIN calls, Refuses(i),
         UNCHANGED <<page_, val, shell>>
  PROVE  KeptInv'
<1> DEFINE c == calls[i]
           x == [c EXCEPT !.at = "failed"]
<1>1. Served(i, "failed") /\ "failed" \in {"ok", "failed"} /\ UNCHANGED <<started, reports>>
  BY ServedCall DEF Refuses
<1>2. c \in Call /\ c.at = "sent" /\ calls \in Seq(Call)
  BY <1>1, ServedLeaves, CallsFacts DEF Served
<1>3. x \in Call /\ x.op = c.op /\ x.by = c.by /\ x.at = "failed" /\ x.of = c.of
  BY <1>2 DEF Call
<1>4. calls' = RemoveAt(calls, i) \/ calls' = [calls EXCEPT ![i] = x]
  BY <1>2 DEF Refuses
<1> HIDE DEF x
<1>5. \A d \in ToSet(calls') : d \in ToSet(calls) \/ d = x
  BY <1>2, <1>3, <1>4, RemoveAtSet, ReplaceSet
<1>6. unsaved' = IF c.op = "report" THEN unsaved \cup ({c.of} \ {None}) ELSE unsaved
  BY DEF Refuses
<1>7. (c.op = "report" => c.of = None \/ Settles(c.of)) /\ \A t : Settled(t) => Settles(t)
  BY <1>1, <1>6 DEF Settles, Settled
<1>8. started' = started \cup (IF c.op \in {"run", "start"} /\ "failed" = "ok" THEN {c.of} ELSE {})
  BY <1>1
<1>9. ServedRun(i, "failed")
  BY <1>1, <1>3, <1>5, <1>7, <1>8 DEF ServedRun
<1> QED
  BY <1>1, <1>9, ServedKept

\* The program thread and other screens settle nothing and clear nothing.
LEMMA ElsewiseKept ==
  ASSUME KioskInv, KeptInv, going = "nowhere", Elsewise, UNCHANGED <<page_, val, shell>>
  PROVE  KeptInv'
<1>1. UNCHANGED <<calls, started, unsaved, sr, modal, ask, val, page, going, skip, last>>
  BY DEF Elsewise, ProgramBegins, NextSegment, ProgramEnds, ClosedElsewhere, page_, shell
<1>2. SameNumbers
  <2>1. \/ UNCHANGED reports
        \/ \E j \in DOMAIN reports : reports' = [reports EXCEPT ![j].pending = FALSE]
    BY DEF Elsewise, ProgramBegins, NextSegment, ProgramEnds, ClosedElsewhere
  <2>2. UNCHANGED reports => SameNumbers
    BY DEF SameNumbers
  <2> QED
    BY <2>1, <2>2, ClosedNumbers
<1>3. calls \in Seq(Call) /\ Sends(calls, {}, {})
  BY <1>1, CallsFacts, SendNone
<1>4. CourseInv' /\ (TestOpen' => TestOpen) /\ (ValOpen' => ValOpen)
  <2>1. /\ Once(calls, {"start"}) /\ "run" \notin {} /\ "start" \notin {}
        /\ sr'.test = sr.test /\ val'.run = val.run
        /\ (sr.running \/ sr.done => sr'.running \/ sr'.done)
        /\ \A d \in ToSet(calls') : d \in ToSet(calls)
    BY <1>1 DEF KeptInv, CourseInv, RunsInv
  <2> QED
    BY <1>1, <1>2, <1>3, <2>1, CourseKept DEF KeptInv
<1>5. StayInv' /\ HoldInv' /\ EarlyInv'
  BY <1>1 DEF KeptInv, StayInv, HoldInv, EarlyInv
<1>6. (TestBody => TestBody') /\ (ValBody => ValBody')
  BY <1>1 DEF TestBody, ValBody, Filing, Operating, ValFiling, ValWaits, ValidationActive
<1> QED
  BY <1>4, <1>5, <1>6 DEF KeptInv

LEMMA ServerKept ==
  ASSUME KioskInv, WaitInv, KeptInv, going = "nowhere", ServerStep
  PROVE  KeptInv'
<1>1. UNCHANGED <<page_, val, shell>>
  BY DEF ServerStep
<1>2. (\E i \in DOMAIN calls : Lands(i) \/ Refuses(i)) \/ Elsewise
  BY DEF ServerStep, Elsewise
<1> QED
  BY <1>1, <1>2, LandsKept, RefusesKept, ElsewiseKept

----------------------------------------------------------------------------
(***************************************************************************)
(* No test is forgotten: the theorems                                      *)
(***************************************************************************)
LEMMA KeptInit == Init => KeptInv
<1> SUFFICES ASSUME Init PROVE KeptInv
  OBVIOUS
<1>1. /\ calls = <<>> /\ started = {} /\ sr = Blank(None, TRUE) /\ val = Ready(None)
      /\ modal = "none" /\ ask = "none" /\ page = "home" /\ going = "nowhere" /\ skip = {}
  BY DEF Init, ServerInit, TestPageInit, ValidationInit
<1>2. ToSet(calls) = {} /\ DOMAIN calls = {} /\ By(calls) = {} /\ ~val.awaiting
  BY <1>1 DEF ToSet, By, Ready
<1>3. ~TestOpen /\ ~ValOpen
  BY <1>1, <1>2 DEF TestOpen, ValOpen, Sent
<1>4. CourseInv
  BY <1>1, <1>2 DEF CourseInv, PastInv, RunsInv, ValRunsInv, SubjectInv, Sent, Once
<1>5. StayInv /\ HoldInv /\ EarlyInv
  BY <1>1, <1>2 DEF StayInv, HoldInv, EarlyInv
<1> QED
  BY <1>3, <1>4, <1>5 DEF KeptInv

LEMMA KeptStep ==
  ASSUME Remains, KioskInv, Waited => WaitInv, Waited => KeptInv, Next
  PROVE  Waited' => KeptInv'
<1> SUFFICES ASSUME haste' = 0 PROVE KeptInv'
  BY DEF Waited
<1>1. WaitInv /\ KeptInv
  BY HasteGrows
<1>2. CASE GoToPage /\ UNCHANGED haste
  BY <1>1, <1>2, GoToPageKept
<1>3. CASE going = "nowhere" /\ Press
  BY <1>1, <1>3, WaitingPress, PressKept
<1>4. CASE going = "nowhere" /\ Timers /\ UNCHANGED haste
  BY <1>1, <1>4, TimerKept
<1>5. CASE going = "nowhere" /\ ServerStep
  BY <1>1, <1>5, ServerKept
<1>6. CASE going = "nowhere" /\ (\E i \in DOMAIN calls : Answer(i)) /\ UNCHANGED haste
  BY <1>1, <1>6, AnswerKept
<1> QED
  BY <1>2, <1>3, <1>4, <1>5, <1>6 DEF Next

LEMMA KeptStutter == (Waited => KeptInv) /\ UNCHANGED vars => (Waited' => KeptInv')
<1> SUFFICES ASSUME Waited => KeptInv, UNCHANGED vars, Waited' PROVE KeptInv'
  OBVIOUS
<1>1. /\ UNCHANGED <<calls, started, unsaved, reports, sr, modal, ask, val, haste>>
      /\ UNCHANGED <<page, going, skip, last>>
  BY DEF vars, server, page_, shell
<1>2. KeptInv
  BY <1>1 DEF Waited
<1>3. \A t : Settled(t)' <=> Settled(t)
  BY <1>1 DEF Settled
<1>4. \A op : Sent(op)' <=> Sent(op)
  BY <1>1 DEF Sent
<1>5. CourseInv'
  BY <1>1, <1>2, <1>3, <1>4
  DEF KeptInv, CourseInv, PastInv, RunsInv, ValRunsInv, SubjectInv, Subject, Once, Settled
<1>6. StayInv' /\ HoldInv' /\ EarlyInv'
  BY <1>1, <1>2 DEF KeptInv, StayInv, HoldInv, EarlyInv, By
<1>7. (TestOpen' => TestOpen) /\ (ValOpen' => ValOpen)
  BY <1>1, <1>4 DEF TestOpen, ValOpen, Settled
<1>8. (TestBody => TestBody') /\ (ValBody => ValBody')
  BY <1>1 DEF TestBody, ValBody, Filing, Operating, ValFiling, ValWaits, ValidationActive
<1> QED
  BY <1>2, <1>5, <1>6, <1>7, <1>8 DEF KeptInv

LEMMA KeptAlways ==
  ASSUME Remains
  PROVE  Spec => [](Waited => KeptInv)
<1>1. /\ KioskInv /\ (Waited => WaitInv) /\ (Waited => KeptInv) /\ [Next]_vars
      => (Waited' => KeptInv')
  BY KeptStep, KeptStutter
<1> QED
  BY <1>1, KeptInit, KioskAlways, WaitAlways, PTL DEF Spec

\* What is settled has a report or was refused one.
LEMMA SettledReported ==
  ASSUME KioskInv, NEW t, Settled(t)
  PROVE  Reported(t) > 0 \/ t \in unsaved
<1> DEFINE S == {i \in DOMAIN reports : reports[i].of = t}
<1>1. reports \in Seq(Report) /\ Len(reports) \in Nat /\ DOMAIN reports = 1 .. Len(reports)
  BY ReportsLen, LenProperties DEF KioskInv
<1>2. IsFiniteSet(S)
  <2>1. IsFiniteSet(1 .. Len(reports)) /\ S \subseteq 1 .. Len(reports)
    BY <1>1, FS_Interval
  <2> HIDE DEF S
  <2> QED
    BY <2>1, FS_Subset
<1>3. t \in unsaved \/ S # {}
  BY DEF Settled
<1>4. Reported(t) = Cardinality(S)
  BY DEF Reported
<1> HIDE DEF S
<1>5. Cardinality(S) \in Nat /\ (Cardinality(S) = 0 <=> S = {})
  BY <1>2, FS_CardinalityType, FS_EmptySet
<1>6. S # {} => Cardinality(S) > 0
  BY <1>5
<1> QED
  BY <1>3, <1>4, <1>6

\* The test of a started program is not forgotten: while the run is not on
\* its page any more, its report is saved or the server has refused it.  For
\* any number of tests, validations, reports and refusals, in whatever order
\* requests land: as long as the user waits for the answers, never leaves a
\* running test for another page, and there is no automatic logout.
THEOREM EvidenceIsKept ==
  ASSUME Remains
  PROVE  Spec => [](haste = 0 => EvidenceKept)
<1>1. KioskInv /\ (Waited => KeptInv) => (haste = 0 => EvidenceKept)
  <2> SUFFICES ASSUME KioskInv, KeptInv, NEW t \in started
               PROVE  Reported(t) > 0 \/ t \in unsaved \/ sr.test = t \/ val.run = t
    BY DEF Waited, EvidenceKept
  <2>1. t = sr.test \/ t = val.run \/ Settled(t)
    BY DEF KeptInv, CourseInv, PastInv
  <2> QED
    BY <2>1, SettledReported
<1> QED
  BY <1>1, KeptAlways, KioskAlways, PTL

COROLLARY EvidenceIsKeptAlways ==
  ASSUME Remains, MaxHaste = 0
  PROVE  Spec => []EvidenceKept
<1>1. KioskInv => haste = 0
  BY DEF KioskInv, ShellPart
<1> QED
  BY <1>1, KioskAlways, EvidenceIsKept, PTL

\* The checkpoint is written by requests that land, and by nothing else.
LEMMA CheckpointStep ==
  ASSUME KioskInv, Next, ckpt' # ckpt, ckpt' = None
  PROVE  \E c \in ToSet(calls) : Clears(c)
<1>1. PICK i \in DOMAIN calls : LandsCheckpoint(calls[i])
  <2>1. CASE GoToPage /\ UNCHANGED haste
    BY <2>1 DEF GoToPage, server
  <2>2. CASE Press
    <3>1. Presses
      BY <2>2 DEF Press
    <3> QED
      BY <3>1 DEF Presses, OnTestPage, OnValidationPage, BackFromValidation, LoadRecipe,
         OpenValidation, Navigate, OpenReport, Login, PressLogout, PressOk, PressCancel,
         PressChoice, Approve, server
  <2>3. CASE Timers
    BY <2>3 DEF Timers, AutoLogoutTick, ApprovalPoll, server
  <2>4. CASE ServerStep
    <3>1. CASE \E i \in DOMAIN calls : Lands(i)
      BY <3>1 DEF Lands, LandsRun, LandsAbort, LandsComplete, LandsStart, LandsStop,
         LandsReport, LandsRead
    <3>2. CASE (\E i \in DOMAIN calls : Refuses(i)) \/ Elsewise
      BY <3>2 DEF Refuses, Elsewise, ProgramBegins, NextSegment, ProgramEnds, ClosedElsewhere
    <3> QED
      BY <2>4, <3>1, <3>2 DEF ServerStep, Elsewise
  <2>5. CASE \E i \in DOMAIN calls : Answer(i)
    BY <2>5 DEF Answer, server
  <2> QED
    BY <2>1, <2>2, <2>3, <2>4, <2>5 DEF Next
<1>2. calls[i] \in ToSet(calls)
  BY DEF ToSet
<1>3. Clears(calls[i])
  BY <1>1 DEF LandsCheckpoint, Clears
<1> QED
  BY <1>2, <1>3

\* The checkpoint of a started test goes only when the report of the test is
\* saved or refused.  submitSieveWeights, savePartialAbortedTest and
\* _saveValidationReportAndPreview delete it after their POST, the preview
\* deletes it behind a report; none of them meets a test that still runs or
\* still waits for its weights.  Under the same conditions as above.
THEOREM CheckpointOutlasts ==
  ASSUME Remains
  PROVE  Spec => [][ haste = 0 /\ ckpt' = None /\ ckpt \in started
                     => Reported(ckpt) > 0 \/ ckpt \in unsaved ]_vars
<1>1. ASSUME KioskInv, Waited => KeptInv, Next,
             haste = 0, ckpt' = None, ckpt \in started
      PROVE  Reported(ckpt) > 0 \/ ckpt \in unsaved
  <2>1. KeptInv
    BY <1>1 DEF Waited
  <2>2. ckpt # None
    BY <1>1, RunFacts DEF KioskInv, ServerPart, None
  <2>3. PICK c \in ToSet(calls) : Clears(c)
    BY <1>1, <2>2, CheckpointStep
  <2>4. ~TestOpen /\ ~ValOpen
    BY <2>1, <2>3 DEF KeptInv, TestBody, ValBody
  <2>5. Settled(ckpt)
    BY <1>1, <2>1, <2>4 DEF KeptInv, CourseInv, PastInv, TestOpen, ValOpen
  <2> QED
    BY <1>1, <2>5, SettledReported
<1>2. ASSUME KioskInv, Waited => KeptInv, UNCHANGED vars,
             haste = 0, ckpt' = None, ckpt \in started
      PROVE  Reported(ckpt) > 0 \/ ckpt \in unsaved
  <2>1. None \notin started /\ ckpt' = ckpt
    BY <1>2, RunFacts DEF KioskInv, ServerPart, vars, server, None
  <2> QED
    BY <1>2, <2>1
<1>3. KioskInv /\ (Waited => KeptInv) /\ [Next]_vars
      => [haste = 0 /\ ckpt' = None /\ ckpt \in started
          => Reported(ckpt) > 0 \/ ckpt \in unsaved]_vars
  BY <1>1, <1>2
<1> QED
  BY <1>3, KeptAlways, KioskAlways, PTL DEF Spec

COROLLARY CheckpointOutlastsAlways ==
  ASSUME Remains, MaxHaste = 0
  PROVE  Spec => CheckpointOutlastsTest
<1>1. KioskInv => haste = 0
  BY DEF KioskInv, ShellPart
<1> QED
  BY <1>1, KioskAlways, CheckpointOutlasts, PTL DEF CheckpointOutlastsTest
=============================================================================
