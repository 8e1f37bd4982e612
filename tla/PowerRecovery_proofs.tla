----------------------- MODULE PowerRecovery_proofs -----------------------
(***************************************************************************)
(* What survives a power cut, for any number of tests, sessions and stops, *)
(* and whether or not the page stays loaded: the files and the page keep   *)
(* their types, the startup settles what the last process left, and the    *)
(* whole implements TestRecord.                                            *)
(***************************************************************************)
EXTENDS PowerRecovery, SequenceTheorems, TLAPS

----------------------------------------------------------------------------
(***************************************************************************)
(* The inductive invariant                                                 *)
(***************************************************************************)
OnTest == {"weighing", "running", "after", "posting", "clearing", "preview"}

\* The screens from which the report of a running test will yet be saved.
Recording == {"running", "after", "posting"}

\* The tests are numbered in the order they begin.
NumberInv ==
  /\ \A t \in started : t <= test
  /\ ui = "weighing" => test \notin started
  /\ ui \in OnTest => test # 0

\* No request is under way while the process is not in service, and the page
\* waits for those of its login.
ServiceInv ==
  /\ server # "up" => put = NoPut /\ del = 0 /\ term = "none" /\ ui # "posting"
  /\ request \in {"reset", "forget"} => ui = "loading"
  /\ request \in {"login", "mark"} => ui = "entering"

\* How far the startup has come with what it found.
BootInv ==
  /\ server = "close" => (boot.recover <=> checkpoint.test # 0)
  /\ server = "recover" => checkpoint.test # 0
  /\ server = "clear" => Reported(checkpoint.test)
  /\ server \in {"log", "rewrite", "session", "forget"} => checkpoint.test = 0
  /\ server \in BootPc \ {"close"} /\ ~boot.clean => \A i \in DOMAIN reports : ~Pending(i)

\* A clean stop is remembered until the startup has looked at the flag.
MarkInv ==
  /\ term = "marked" => flag
  /\ lastStop = "marked" => /\ server = "down" => flag
                            /\ server \in BootPc => boot.clean

\* The checkpoint is all that is known of a test the shaker has run.
Unsaved == checkpoint.test \in started /\ ~Reported(checkpoint.test)

\* A process in service never holds the only trace of a test in the
\* checkpoint but for the test of the page, which will still save its report;
\* requests that are late cannot take that trace away.
TraceInv ==
  /\ put # NoPut => put.test = test
  /\ del # 0 => ui \notin {"weighing"} \cup Recording
  /\ server = "up" /\ Unsaved => checkpoint.test = test /\ ui \in Recording
  /\ put # NoPut /\ test \in started /\ ~Reported(test) => ui \in Recording

RecoveryInv ==
  TypeOK /\ NumberInv /\ ServiceInv /\ BootInv /\ MarkInv /\ TraceInv

----------------------------------------------------------------------------
(***************************************************************************)
(* The list of reports                                                     *)
(***************************************************************************)
\* A saved report is there afterwards, and so is every earlier one.
LEMMA ReportAppended ==
  ASSUME TypeOK, NEW r \in Report, reports' = Append(reports, r)
  PROVE  /\ reports' \in Seq(Report)
         /\ \A t : Reported(t)' <=> Reported(t) \/ t = r.test
         /\ \A i \in DOMAIN reports : i \in DOMAIN reports' /\ reports'[i] = reports[i]
         /\ \A i \in DOMAIN reports' : i \in DOMAIN reports \/ reports'[i] = r
<1>1. /\ reports \in Seq(Report) /\ DOMAIN reports = 1 .. Len(reports)
      /\ Len(reports) \in Nat
  BY LenProperties DEF TypeOK
<1>2. /\ reports' \in Seq(Report) /\ Len(reports') = Len(reports) + 1
      /\ \A i \in 1 .. Len(reports) : reports'[i] = reports[i]
      /\ reports'[Len(reports) + 1] = r
  BY <1>1, AppendProperties
<1>3. DOMAIN reports' = 1 .. Len(reports) + 1
  BY <1>2, LenProperties
<1>4. /\ \A i \in DOMAIN reports : i \in DOMAIN reports' /\ reports'[i] = reports[i]
      /\ \A i \in DOMAIN reports' : i \in DOMAIN reports \/ i = Len(reports) + 1
      /\ Len(reports) + 1 \in DOMAIN reports'
  BY <1>1, <1>2, <1>3
<1>5. ASSUME NEW t PROVE Reported(t)' <=> Reported(t) \/ t = r.test
  BY <1>2, <1>4 DEF Reported
<1> QED
  BY <1>2, <1>4, <1>5

\* Closing a report removes none and touches no other.
LEMMA ReportClosed ==
  ASSUME TypeOK, NEW i \in DOMAIN reports, NEW s \in Status,
         reports' = [reports EXCEPT ![i].status = s]
  PROVE  /\ reports' \in Seq(Report)
         /\ DOMAIN reports' = DOMAIN reports
         /\ \A t : Reported(t)' <=> Reported(t)
         /\ \A j \in DOMAIN reports : j # i => reports'[j] = reports[j]
         /\ reports'[i] = [reports[i] EXCEPT !.status = s]
<1> DEFINE r == [reports[i] EXCEPT !.status = s]
<1>1. /\ reports \in Seq(Report) /\ DOMAIN reports = 1 .. Len(reports)
      /\ \A j \in DOMAIN reports : reports[j] \in Report
  BY LenProperties, ElementOfSeq DEF TypeOK
<1>2. r \in Report /\ r.test = reports[i].test
  BY <1>1 DEF Report
<1>3. reports' = [reports EXCEPT ![i] = r]
  OBVIOUS
<1> HIDE DEF r
<1>4. /\ reports' \in Seq(Report) /\ Len(reports') = Len(reports)
      /\ \A j \in 1 .. Len(reports) : reports'[j] = IF j = i THEN r ELSE reports[j]
  BY <1>1, <1>2, <1>3, ExceptSeq
<1>5. DOMAIN reports' = DOMAIN reports
  BY <1>1, <1>4, LenProperties
<1>6. ASSUME NEW t PROVE Reported(t)' <=> Reported(t)
  BY <1>1, <1>2, <1>4, <1>5 DEF Reported
<1> QED
  BY <1>1, <1>4, <1>5, <1>6 DEF r

\* The two saves and the two ways a report is closed.
LEMMA RecoverSaves ==
  ASSUME RecoveryInv, BootRecover
  PROVE  /\ NewReport(checkpoint.test, checkpoint.aborted,
                      ClosedStatus(checkpoint.aborted)) \in Report
         /\ reports' \in Seq(Report)
         /\ \A t : Reported(t)' <=> Reported(t) \/ t = checkpoint.test
         /\ \A i \in DOMAIN reports : i \in DOMAIN reports' /\ reports'[i] = reports[i]
         /\ (\A i \in DOMAIN reports : ~Pending(i)) => \A i \in DOMAIN reports' : ~Pending(i)'
<1> DEFINE r == NewReport(checkpoint.test, checkpoint.aborted, ClosedStatus(checkpoint.aborted))
<1>1. r \in Report /\ r.test = checkpoint.test /\ r.status # "pending"
  BY DEF RecoveryInv, TypeOK, BootInv, BootRecover, NewReport, ClosedStatus,
         Checkpoint, Report, Status, Tests
<1>2. TypeOK /\ reports' = Append(reports, r)
  BY DEF RecoveryInv, BootRecover
<1> HIDE DEF r
<1>3. /\ reports' \in Seq(Report)
      /\ \A t : Reported(t)' <=> Reported(t) \/ t = r.test
      /\ \A i \in DOMAIN reports : i \in DOMAIN reports' /\ reports'[i] = reports[i]
      /\ \A i \in DOMAIN reports' : i \in DOMAIN reports \/ reports'[i] = r
  BY <1>1, <1>2, ReportAppended
<1>4. (\A i \in DOMAIN reports : ~Pending(i)) => \A i \in DOMAIN reports' : ~Pending(i)'
  BY <1>1, <1>3 DEF Pending
<1> QED
  BY <1>1, <1>3, <1>4 DEF r

LEMMA PostSaves ==
  ASSUME RecoveryInv, PostLands
  PROVE  /\ NewReport(test, aborting, "pending") \in Report
         /\ reports' \in Seq(Report)
         /\ \A t : Reported(t)' <=> Reported(t) \/ t = test
<1> DEFINE r == NewReport(test, aborting, "pending")
<1>1. r \in Report /\ r.test = test
  BY DEF RecoveryInv, TypeOK, NumberInv, PostLands, OnTest, NewReport, Report, Status, Tests
<1>2. TypeOK /\ reports' = Append(reports, r)
  BY DEF RecoveryInv, PostLands
<1> HIDE DEF r
<1>3. /\ reports' \in Seq(Report)
      /\ \A t : Reported(t)' <=> Reported(t) \/ t = r.test
  BY <1>1, <1>2, ReportAppended
<1> QED
  BY <1>1, <1>3 DEF r

\* A step that closes the report i.
Closes(i, s) ==
  /\ i \in DOMAIN reports /\ Pending(i) /\ s \in Status \ {"pending"}
  /\ reports' = [reports EXCEPT ![i].status = s]

LEMMA BootCloses ==
  ASSUME RecoveryInv, BootClosePending
  PROVE  \E i \in DOMAIN reports : Closes(i, ClosedStatus(reports[i].aborted))
BY DEF BootClosePending, Closes, ClosedStatus, Status

LEMMA ApproveCloses ==
  ASSUME RecoveryInv, Approve
  PROVE  \E i \in DOMAIN reports : Closes(i, "approved")
BY DEF Approve, Closes, Status

LEMMA ClosingKeeps ==
  ASSUME RecoveryInv, BootClosePending \/ Approve
  PROVE  reports' \in Seq(Report) /\ \A t : Reported(t)' <=> Reported(t)
<1>1. PICK i \in DOMAIN reports, s \in Status : reports' = [reports EXCEPT ![i].status = s]
  BY BootCloses, ApproveCloses DEF Closes, Status
<1>2. TypeOK
  BY DEF RecoveryInv
<1> QED
  BY <1>1, <1>2, ReportClosed

----------------------------------------------------------------------------
(***************************************************************************)
(* Steps                                                                   *)
(***************************************************************************)
USE DEF files, process, page, calls, history, BootUnchanged

\* The steps that leave the reports alone.
Aside ==
  \/ BootConsume \/ BootPendingClosed \/ BootClear \/ BootLog \/ BootRewrite
  \/ BootSession \/ BootForget \/ Sigterm \/ Stop \/ Session
  \/ BeginTest \/ SendPut \/ PutLands \/ DeleteLands \/ StartTest \/ StartFails
  \/ FinishTest \/ SubmitReport \/ AbortForLogout \/ Cleared \/ LeavePreview

LEMMA StepCases ==
  ASSUME [Next]_vars
  PROVE  \/ Aside \/ UNCHANGED vars
         \/ BootClosePending \/ BootRecover \/ PostLands \/ Approve
BY DEF Next, Startup, TestRun, Aside

LEMMA AsideKeeps ==
  ASSUME Aside \/ UNCHANGED vars
  PROVE  reports' = reports
BY DEF Aside, vars, BootConsume, BootPendingClosed, BootClear, BootLog, BootRewrite,
       BootSession, BootForget, Sigterm, Stop, PowerCut, Crash, Shutdown, Restart, Ends,
       Session, PageLoads, ResetUnmark, ResetForget, Login, LoginSave, LoginMark,
       Logout, LogoutFlag, LogoutUnmark, LogoutForget,
       BeginTest, SendPut, PutLands, DeleteLands, StartTest, StartFails, FinishTest,
       SubmitReport, AbortForLogout, Cleared, LeavePreview

\* No step forgets a report.
LEMMA ReportedKept ==
  ASSUME RecoveryInv, [Next]_vars
  PROVE  reports' \in Seq(Report) /\ \A t : Reported(t) => Reported(t)'
<1>1. CASE Aside \/ UNCHANGED vars
  BY <1>1, AsideKeeps DEF RecoveryInv, TypeOK, Reported
<1> QED
  BY <1>1, StepCases, ClosingKeeps, RecoverSaves, PostSaves

LEMMA TypeStep ==
  ASSUME RecoveryInv, [Next]_vars
  PROVE  TypeOK'
<1> USE DEF RecoveryInv, TypeOK
<1>0. reports' \in Seq(Report)
  BY ReportedKept
<1>1. CASE BootConsume
  <2>1. /\ marker.session \in 0 .. MaxSessions /\ marker.logged \in BOOLEAN
        /\ (checkpoint.test # 0) \in BOOLEAN
    BY DEF Marker
  <2>2. boot' \in Boot
    BY <1>1, <2>1 DEF BootConsume, Boot
  <2> QED
    BY <1>0, <1>1, <2>2 DEF BootConsume, BootPc
<1>2. CASE BootClosePending \/ BootPendingClosed \/ BootRecover
  BY <1>0, <1>2 DEF BootClosePending, BootPendingClosed, BootRecover, BootPc
<1>3. CASE BootClear
  BY <1>0, <1>3, BoundAssumption DEF BootClear, NoCheckpoint, Checkpoint, BootPc
<1>4. CASE BootLog
  <2>1. rows' \in [Sessions -> Nat]
    BY <1>4, BoundAssumption DEF BootLog, LogsSession, Sessions, Boot
  <2> QED
    BY <1>0, <1>4, <2>1 DEF BootLog, BootPc
<1>5. CASE BootRewrite \/ BootSession
  <2>1. /\ NoMarker \in Marker
        /\ \A n \in 0 .. MaxSessions : /\ WrittenMarker(n, TRUE) \in Marker
                                       /\ WrittenMarker(n, FALSE) \in Marker
    BY BoundAssumption DEF NoMarker, WrittenMarker, Marker
  <2>2. boot.session \in 0 .. MaxSessions
    BY DEF Boot
  <2>3. CASE BootRewrite
    <3>1. marker' \in Marker
      BY <2>1, <2>2, <2>3 DEF BootRewrite
    <3> QED
      BY <1>0, <2>3, <3>1 DEF BootRewrite, BootPc, WrittenMarker, Marker
  <2>4. CASE BootSession
    <3>1. marker' \in Marker
      BY <2>1, <2>4 DEF BootSession
    <3> QED
      BY <1>0, <2>4, <3>1 DEF BootSession, BootPc, WrittenMarker, NoMarker, Marker
  <2> QED
    BY <1>5, <2>3, <2>4
<1>6. CASE BootForget
  BY <1>0, <1>6, BoundAssumption DEF BootForget
<1>7. CASE Sigterm
  BY <1>0, <1>7 DEF Sigterm
<1>8. CASE Stop
  <2>1. /\ NoBoot \in Boot /\ NoPut \in Put
        /\ OpenSession \in 0 .. MaxSessions
    BY BoundAssumption DEF NoBoot, Boot, NoPut, Put, OpenSession
  <2>2. ASSUME NEW how \in Ending, NEW screen, Ends(how, screen),
               screen \in LoggedIn \cup {"off", "login"}
        PROVE  TypeOK'
    BY <1>0, <2>1, <2>2, BoundAssumption DEF Ends, Open
  <2>3. Cut \in Ending
    BY DEF Cut, Ending
  <2>4. AfterLoss \in LoggedIn \cup {"off", "login"}
    BY DEF AfterLoss, LoggedIn
  <2>5. term # "none" => term \in Ending
    BY DEF Ending
  <2> QED
    BY <1>8, <2>2, <2>3, <2>4, <2>5 DEF Stop, PowerCut, Crash, Shutdown, Restart
<1>9. CASE Session
  <2>1. /\ NoMarker \in Marker
        /\ \A n \in 0 .. MaxSessions : /\ WrittenMarker(n, TRUE) \in Marker
                                       /\ WrittenMarker(n, FALSE) \in Marker
    BY BoundAssumption DEF NoMarker, WrittenMarker, Marker
  <2>2. CASE PageLoads \/ ResetUnmark \/ ResetForget
    BY <1>0, <2>1, <2>2, BoundAssumption DEF PageLoads, ResetUnmark, ResetForget
  <2>3. CASE Login \/ LoginSave \/ LoginMark
    <3>1. session' \in 0 .. MaxSessions /\ user' \in 0 .. MaxSessions
      <4>1. CASE Login
        BY <4>1, BoundAssumption DEF Login
      <4>2. CASE LoginSave \/ LoginMark
        BY <4>2 DEF LoginSave, LoginMark
      <4> QED
        BY <2>3, <4>1, <4>2
    <3>2. marker' \in Marker
      BY <2>1, <2>3 DEF Login, LoginSave, LoginMark
    <3> QED
      <4>1. CASE Login
        BY <1>0, <3>1, <3>2, <4>1 DEF Login, LoggedIn
      <4>2. CASE LoginSave
        BY <1>0, <3>1, <3>2, <4>2 DEF LoginSave, LoggedIn
      <4>3. CASE LoginMark
        BY <1>0, <3>1, <3>2, <4>3 DEF LoginMark, LoggedIn
      <4> QED
        BY <2>3, <4>1, <4>2, <4>3
  <2>4. CASE Logout \/ LogoutFlag \/ LogoutUnmark \/ LogoutForget
    <3>1. user' \in 0 .. MaxSessions /\ marker' \in Marker
      BY <2>1, <2>4, BoundAssumption DEF Logout, LogoutFlag, LogoutUnmark, LogoutForget
    <3> QED
      BY <1>0, <2>4, <3>1 DEF Logout, LogoutFlag, LogoutUnmark, LogoutForget
  <2> QED
    BY <1>9, <2>2, <2>3, <2>4 DEF Session
<1>10. CASE BeginTest \/ StartFails \/ FinishTest \/ SubmitReport \/ AbortForLogout
            \/ Cleared \/ LeavePreview
  <2>1. CASE BeginTest
    <3>1. test' \in 0 .. MaxTests
      BY <2>1, BoundAssumption DEF BeginTest
    <3> QED
      BY <1>0, <2>1, <3>1 DEF BeginTest, LoggedIn
  <2>2. CASE StartFails
    BY <1>0, <2>2, BoundAssumption DEF StartFails, LoggedIn
  <2>3. CASE FinishTest
    BY <1>0, <2>3 DEF FinishTest, LoggedIn
  <2>4. CASE SubmitReport \/ AbortForLogout
    BY <1>0, <2>4 DEF SubmitReport, AbortForLogout, LoggedIn
  <2>5. CASE Cleared \/ LeavePreview
    BY <1>0, <2>5 DEF Cleared, LeavePreview, LoggedIn
  <2> QED
    BY <1>10, <2>1, <2>2, <2>3, <2>4, <2>5
<1>11. CASE SendPut
  BY <1>0, <1>11 DEF SendPut, Put
<1>12. CASE PutLands
  BY <1>0, <1>12, BoundAssumption DEF PutLands, Put, NoPut, Checkpoint, Restored
<1>13. CASE DeleteLands
  BY <1>0, <1>13, BoundAssumption DEF DeleteLands, NoCheckpoint, Checkpoint, Restored
<1>14. CASE StartTest
  BY <1>0, <1>14 DEF StartTest, NumberInv, OnTest, Tests, Restored, LoggedIn
<1>15. CASE PostLands \/ Approve
  BY <1>0, <1>15 DEF PostLands, Approve, Restored, LoggedIn
<1>16. CASE UNCHANGED vars
  BY <1>16 DEF vars
<1> QED
  BY <1>1, <1>2, <1>3, <1>4, <1>5, <1>6, <1>7, <1>8, <1>9, <1>10, <1>11, <1>12,
     <1>13, <1>14, <1>15, <1>16 DEF Next, Startup, TestRun

\* The steps of the startup, of the end of the process and of the requests of
\* a session, which leave the tests of the page alone.
Still == UNCHANGED <<started, test>> /\ (ui' \in OnTest => ui \in OnTest)
           /\ (ui' = "weighing" => ui = "weighing")

LEMMA StillSteps ==
  ASSUME Startup \/ Sigterm \/ Stop \/ Session \/ UNCHANGED vars
  PROVE  Still
<1>1. CASE Startup \/ Sigterm \/ UNCHANGED vars
  BY <1>1
  DEF Still, Startup, Sigterm, vars, BootConsume, BootClosePending, BootPendingClosed,
      BootRecover, BootClear, BootLog, BootRewrite, BootSession, BootForget
<1>2. CASE Stop
  <2>1. ASSUME NEW how, NEW screen, Ends(how, screen), screen \in {"off", AfterLoss}
        PROVE  Still
    BY <2>1 DEF Still, Ends, AfterLoss, OnTest
  <2> QED
    BY <1>2, <2>1 DEF Stop, PowerCut, Crash, Shutdown, Restart
<1>3. CASE Session
  BY <1>3
  DEF Still, OnTest, Session, PageLoads, ResetUnmark, ResetForget, Login, LoginSave,
      LoginMark, Logout, LogoutFlag, LogoutUnmark, LogoutForget
<1> QED
  BY <1>1, <1>2, <1>3

LEMMA NumberStep ==
  ASSUME RecoveryInv, [Next]_vars
  PROVE  NumberInv'
<1>1. /\ NumberInv /\ test \in 0 .. MaxTests /\ MaxTests \in Nat
      /\ \A t \in started : t \in Nat
  BY BoundAssumption DEF RecoveryInv, TypeOK, Tests
<1>2. CASE Still
  BY <1>1, <1>2 DEF NumberInv, Still
<1>3. CASE BeginTest
  BY <1>1, <1>3 DEF NumberInv, BeginTest, OnTest
<1>4. CASE StartTest
  BY <1>1, <1>4 DEF NumberInv, StartTest, OnTest
<1>5. CASE SendPut \/ PutLands \/ DeleteLands \/ StartFails \/ FinishTest \/ SubmitReport
  BY <1>1, <1>5
  DEF NumberInv, OnTest, SendPut, PutLands, DeleteLands, StartFails, FinishTest,
      SubmitReport
<1>6. CASE AbortForLogout \/ PostLands \/ Cleared \/ Approve \/ LeavePreview
  BY <1>1, <1>6
  DEF NumberInv, OnTest, AbortForLogout, PostLands, Cleared, Approve, LeavePreview
<1> QED
  BY <1>2, <1>3, <1>4, <1>5, <1>6, StillSteps DEF Next, TestRun

LEMMA ServiceStep ==
  ASSUME RecoveryInv, [Next]_vars
  PROVE  ServiceInv'
<1> USE DEF RecoveryInv, ServiceInv
<1>1. CASE Startup \/ Sigterm \/ UNCHANGED vars
  BY <1>1
  DEF Startup, Sigterm, vars, BootConsume, BootClosePending, BootPendingClosed,
      BootRecover, BootClear, BootLog, BootRewrite, BootSession, BootForget
<1>2. CASE Stop
  <2>1. ASSUME NEW how, NEW screen, Ends(how, screen), screen \in {"off", AfterLoss}
        PROVE  ServiceInv'
    BY <2>1 DEF Ends, AfterLoss
  <2> QED
    BY <1>2, <2>1 DEF Stop, PowerCut, Crash, Shutdown, Restart
<1>3. CASE Session
  BY <1>3
  DEF Session, PageLoads, ResetUnmark, ResetForget, Login, LoginSave,
      LoginMark, Logout, LogoutFlag, LogoutUnmark, LogoutForget
<1>4. CASE TestRun
  BY <1>4
  DEF TestRun, BeginTest, SendPut, PutLands, DeleteLands, StartTest, StartFails,
      FinishTest, SubmitReport, AbortForLogout, PostLands, Cleared, Approve, LeavePreview
<1> QED
  BY <1>1, <1>2, <1>3, <1>4 DEF Next

LEMMA MarkStep ==
  ASSUME RecoveryInv, [Next]_vars
  PROVE  MarkInv'
<1> USE DEF RecoveryInv, MarkInv
<1>1. CASE Startup \/ Sigterm \/ UNCHANGED vars
  <2>1. CASE BootConsume
    <3>1. flag \in BOOLEAN
      BY DEF TypeOK
    <3>2. boot'.clean = flag
      BY <2>1 DEF BootConsume
    <3> QED
      BY <2>1, <3>1, <3>2 DEF BootConsume, ServiceInv, BootPc
  <2>2. CASE Sigterm
    BY <2>2 DEF Sigterm, BootPc
  <2>3. CASE UNCHANGED vars
    BY <2>3 DEF vars
  <2>4. CASE Startup /\ ~BootConsume
    BY <2>4
    DEF ServiceInv, BootPc, Startup, BootClosePending, BootPendingClosed, BootRecover,
        BootClear, BootLog, BootRewrite, BootSession, BootForget
  <2> QED
    BY <1>1, <2>1, <2>2, <2>3, <2>4
<1>2. CASE Stop
  <2>1. ASSUME NEW how, NEW screen, Ends(how, screen), how = "marked" => flag
        PROVE  MarkInv'
    BY <2>1 DEF Ends, BootPc
  <2>2. Cut # "marked"
    BY DEF Cut
  <2> QED
    BY <1>2, <2>1, <2>2 DEF Stop, PowerCut, Crash, Shutdown, Restart
<1>3. CASE Session
  BY <1>3
  DEF Session, PageLoads, ResetUnmark, ResetForget, Login, LoginSave,
      LoginMark, Logout, LogoutFlag, LogoutUnmark, LogoutForget
<1>4. CASE TestRun
  BY <1>4
  DEF TestRun, BeginTest, SendPut, PutLands, DeleteLands, StartTest, StartFails,
      FinishTest, SubmitReport, AbortForLogout, PostLands, Cleared, Approve, LeavePreview
<1> QED
  BY <1>1, <1>2, <1>3, <1>4 DEF Next

\* The steps that change neither the process nor the checkpoint nor a report.
LEMMA PageSteps ==
  ASSUME \/ Session \/ Sigterm \/ UNCHANGED vars
         \/ BeginTest \/ SendPut \/ StartTest \/ StartFails \/ FinishTest
         \/ SubmitReport \/ AbortForLogout \/ Cleared \/ LeavePreview
  PROVE  UNCHANGED <<server, boot, checkpoint, reports>>
BY DEF vars, Sigterm, Session, PageLoads, ResetUnmark, ResetForget, Login, LoginSave,
       LoginMark, Logout, LogoutFlag, LogoutUnmark, LogoutForget,
       BeginTest, SendPut, StartTest, StartFails, FinishTest, SubmitReport,
       AbortForLogout, Cleared, LeavePreview

LEMMA BootStep ==
  ASSUME RecoveryInv, [Next]_vars
  PROVE  BootInv'
<1> USE DEF RecoveryInv
<1>1. CASE UNCHANGED <<server, boot, checkpoint, reports>>
  BY <1>1 DEF BootInv, Reported, Pending
<1>2. CASE Stop
  BY <1>2 DEF BootInv, BootPc, Stop, PowerCut, Crash, Shutdown, Restart, Ends
<1>3. CASE PutLands \/ DeleteLands \/ PostLands \/ Approve
  BY <1>3 DEF ServiceInv, BootInv, BootPc, PutLands, DeleteLands, PostLands, Approve
<1>4. CASE BootConsume
  <2>1. boot'.recover <=> checkpoint.test # 0
    BY <1>4 DEF BootConsume
  <2> QED
    BY <1>4, <2>1 DEF BootConsume, BootInv, BootPc
<1>5. CASE BootClosePending
  BY <1>5 DEF BootClosePending, BootInv, BootPc
<1>6. CASE BootPendingClosed
  <2>1. \A i \in DOMAIN reports : Pending(i)' <=> Pending(i)
    BY <1>6 DEF BootPendingClosed, Pending
  <2>2. checkpoint.test # 0 \/ server' = "log"
    BY <1>6 DEF BootPendingClosed, BootInv
  <2>3. checkpoint.test = 0 \/ server' = "recover"
    BY <1>6 DEF BootPendingClosed, BootInv
  <2> QED
    BY <1>6, <2>1, <2>2, <2>3 DEF BootPendingClosed, ClosesPending, BootInv, BootPc
<1>7. CASE BootRecover
  <2>1. Reported(checkpoint.test)'
    BY <1>7, RecoverSaves DEF BootRecover
  <2>2. ~boot.clean => \A i \in DOMAIN reports' : ~Pending(i)'
    BY <1>7, RecoverSaves DEF BootRecover, BootInv, BootPc
  <2> QED
    BY <1>7, <2>1, <2>2 DEF BootRecover, BootInv, BootPc
<1>8. CASE BootClear \/ BootLog \/ BootRewrite \/ BootSession \/ BootForget
  <2>1. UNCHANGED <<reports, boot>> /\ \A i \in DOMAIN reports : Pending(i)' <=> Pending(i)
    BY <1>8 DEF BootClear, BootLog, BootRewrite, BootSession, BootForget, Pending
  <2>2. checkpoint'.test = 0 /\ server' \in {"log", "rewrite", "session", "forget", "up"}
    <3>1. CASE BootClear
      BY <3>1 DEF BootClear, NoCheckpoint
    <3>2. CASE BootLog \/ BootRewrite \/ BootSession \/ BootForget
      BY <3>2 DEF BootInv, BootLog, BootRewrite, BootSession, BootForget
    <3> QED
      BY <1>8, <3>1, <3>2
  <2>3. server \in BootPc \ {"close"}
    BY <1>8 DEF BootPc, BootClear, BootLog, BootRewrite, BootSession, BootForget
  <2> QED
    BY <2>1, <2>2, <2>3 DEF BootInv, BootPc
<1> QED
  BY <1>1, <1>2, <1>3, <1>4, <1>5, <1>6, <1>7, <1>8, PageSteps DEF Next, Startup, TestRun

\* What a late PUT or DELETE finds.
LEMMA TraceStep ==
  ASSUME RecoveryInv, [Next]_vars
  PROVE  TraceInv'
<1> USE DEF RecoveryInv, Recording
<1>1. CASE Startup
  <2>1. server # "up" /\ put = NoPut /\ del = 0
    BY <1>1
    DEF ServiceInv, Startup, BootConsume, BootClosePending, BootPendingClosed,
        BootRecover, BootClear, BootLog, BootRewrite, BootSession, BootForget
  <2>2. put' = NoPut /\ del' = 0
    BY <1>1, <2>1
    DEF Startup, BootConsume, BootClosePending, BootPendingClosed,
        BootRecover, BootClear, BootLog, BootRewrite, BootSession, BootForget
  <2>3. server' = "up" => checkpoint'.test = 0 /\ UNCHANGED started
    BY <1>1
    DEF BootInv, Startup, BootConsume, BootClosePending, BootPendingClosed,
        BootRecover, BootClear, BootLog, BootRewrite, BootSession, BootForget
  <2>4. 0 \notin started
    BY DEF TypeOK, Tests
  <2> QED
    BY <2>2, <2>3, <2>4 DEF TraceInv, Unsaved
<1>2. CASE Stop
  BY <1>2 DEF TraceInv, Stop, PowerCut, Crash, Shutdown, Restart, Ends
<1>3. CASE Sigterm \/ Session \/ UNCHANGED vars
  <2>1. UNCHANGED <<server, checkpoint, started, reports, put, del, test>>
    BY <1>3
    DEF vars, Sigterm, Session, PageLoads, ResetUnmark, ResetForget, Login, LoginSave,
        LoginMark, Logout, LogoutFlag, LogoutUnmark, LogoutForget
  <2>2. (ui \in Recording => ui' = ui) /\ (ui' \in {"weighing"} \cup Recording => ui' = ui)
    BY <1>3
    DEF ServiceInv, vars, Sigterm, Session, PageLoads, ResetUnmark, ResetForget, Login, LoginSave,
        LoginMark, Logout, LogoutFlag, LogoutUnmark, LogoutForget
  <2> QED
    BY <2>1, <2>2 DEF TraceInv, Unsaved, Reported
<1>4. CASE BeginTest \/ SendPut \/ StartFails \/ FinishTest \/ SubmitReport
           \/ AbortForLogout \/ Cleared \/ LeavePreview
  <2>1. UNCHANGED <<server, checkpoint, started, reports>>
    BY <1>4
    DEF BeginTest, SendPut, StartFails, FinishTest, SubmitReport, AbortForLogout,
        Cleared, LeavePreview
  <2>2. CASE BeginTest
    BY <2>1, <2>2 DEF TraceInv, Unsaved, Reported, BeginTest
  <2>3. CASE SendPut
    <3>1. put'.test = test
      BY <2>3 DEF SendPut
    <3> QED
      BY <2>1, <2>3, <3>1 DEF TraceInv, NumberInv, Unsaved, Reported, SendPut
  <2>4. CASE StartFails
    BY <2>1, <2>4 DEF TraceInv, NumberInv, Unsaved, Reported, StartFails
  <2>5. CASE FinishTest \/ SubmitReport
    BY <2>1, <2>5 DEF TraceInv, Unsaved, Reported, FinishTest, SubmitReport
  <2>6. CASE AbortForLogout
    BY <2>1, <2>6 DEF TraceInv, Unsaved, Reported, AbortForLogout
  <2>7. CASE Cleared \/ LeavePreview
    BY <2>1, <2>7 DEF TraceInv, Unsaved, Reported, Cleared, LeavePreview
  <2> QED
    BY <1>4, <2>2, <2>3, <2>4, <2>5, <2>6, <2>7
<1>5. CASE PutLands
  <2>1. checkpoint'.test = test /\ put' = NoPut
    BY <1>5 DEF PutLands, TraceInv
  <2> QED
    BY <1>5, <2>1 DEF TraceInv, Unsaved, Reported, PutLands
<1>6. CASE DeleteLands
  <2>1. checkpoint'.test = 0 /\ 0 \notin started /\ del' = 0
    BY <1>6 DEF DeleteLands, NoCheckpoint, TypeOK, Tests
  <2> QED
    BY <1>6, <2>1 DEF TraceInv, Unsaved, Reported, DeleteLands
<1>7. CASE StartTest
  BY <1>7 DEF TraceInv, Unsaved, Reported, StartTest
<1>8. CASE PostLands
  <2>1. \A t : Reported(t)' <=> Reported(t) \/ t = test
    BY <1>8, PostSaves
  <2> QED
    BY <1>8, <2>1 DEF TraceInv, Unsaved, PostLands
<1>9. CASE Approve
  <2>1. \A t : Reported(t)' <=> Reported(t)
    BY <1>9, ClosingKeeps
  <2> QED
    BY <1>9, <2>1 DEF TraceInv, Unsaved, Approve
<1> QED
  BY <1>1, <1>2, <1>3, <1>4, <1>5, <1>6, <1>7, <1>8, <1>9 DEF Next, TestRun

----------------------------------------------------------------------------
(***************************************************************************)
(* The invariant and the properties of the startup                         *)
(***************************************************************************)
LEMMA RecoveryInit == Init => RecoveryInv
<1> SUFFICES ASSUME Init PROVE RecoveryInv
  OBVIOUS
<1>1. /\ NoMarker \in Marker /\ NoCheckpoint \in Checkpoint /\ NoPut \in Put
      /\ NoBoot \in Boot /\ NoOpen \in Open /\ reports \in Seq(Report)
  BY BoundAssumption
  DEF Init, NoMarker, Marker, NoCheckpoint, Checkpoint, NoPut, Put, NoBoot, Boot, NoOpen, Open
<1>2. TypeOK
  <2>1. rows \in [Sessions -> Nat]
    BY DEF Init
  <2>2. /\ marker \in Marker /\ checkpoint \in Checkpoint /\ put \in Put
        /\ boot \in Boot /\ lastOpen \in Open
    BY <1>1 DEF Init
  <2>3. /\ 0 \in 0 .. MaxSessions /\ 0 \in 0 .. MaxTests /\ 0 \in 0 .. MaxStops
    BY BoundAssumption
  <2> QED
    BY <1>1, <2>1, <2>2, <2>3 DEF Init, TypeOK
<1>3. NumberInv /\ ServiceInv /\ MarkInv
  BY DEF Init, NumberInv, OnTest, ServiceInv, MarkInv, BootPc
<1>4. BootInv
  BY DEF Init, BootInv, BootPc
<1>5. TraceInv
  BY DEF Init, TraceInv, Unsaved
<1> QED
  BY <1>2, <1>3, <1>4, <1>5 DEF RecoveryInv

LEMMA RecoveryStep == RecoveryInv /\ [Next]_vars => RecoveryInv'
BY TypeStep, NumberStep, ServiceStep, BootStep, MarkStep, TraceStep DEF RecoveryInv

LEMMA RecoveryInvariant == Spec => []RecoveryInv
BY RecoveryInit, RecoveryStep, PTL DEF Spec

\* Files, process, page and requests keep their types, however often and
\* wherever the process ends.
THEOREM TypeCorrect == Spec => []TypeOK
BY RecoveryInvariant, PTL DEF RecoveryInv

\* The process serves requests only after it has settled what the last one
\* left (_startup_session_power_audit), also when the power failed again in the
\* middle of an earlier startup.
THEOREM StartupSettles == Spec => BootSettles
<1>1. RecoveryInv /\ [Next]_vars =>
        [server # "up" /\ server' = "up" =>
           /\ checkpoint'.test = 0 /\ user' = 0
           /\ ~boot.clean => \A i \in DOMAIN reports' : reports'[i].status # "pending"]_vars
  <2> SUFFICES ASSUME RecoveryInv, [Next]_vars, server # "up", server' = "up"
               PROVE  /\ checkpoint'.test = 0 /\ user' = 0
                      /\ ~boot.clean => \A i \in DOMAIN reports' : reports'[i].status # "pending"
    OBVIOUS
  <2>1. BootForget
    <3>1. ~(Sigterm \/ Session \/ BeginTest \/ SendPut \/ StartTest \/ StartFails
            \/ FinishTest \/ SubmitReport \/ AbortForLogout \/ Cleared \/ LeavePreview
            \/ UNCHANGED vars)
      BY PageSteps
    <3>2. ~(PutLands \/ DeleteLands \/ PostLands \/ Approve \/ Stop)
      BY DEF PutLands, DeleteLands, PostLands, Approve,
             Stop, PowerCut, Crash, Shutdown, Restart, Ends
    <3>3. ~(BootConsume \/ BootClosePending \/ BootPendingClosed \/ BootRecover
            \/ BootClear \/ BootLog \/ BootRewrite \/ BootSession)
      BY DEF BootConsume, BootClosePending, BootPendingClosed, BootRecover, BootClear,
             BootLog, BootRewrite, BootSession
    <3> QED
      BY <3>1, <3>2, <3>3 DEF Next, TestRun, Startup
  <2>2. /\ server = "forget" /\ user' = 0
        /\ UNCHANGED <<checkpoint, reports, boot>>
    BY <2>1 DEF BootForget
  <2> QED
    BY <2>2 DEF RecoveryInv, BootInv, BootPc, Pending
<1> QED
  BY <1>1, RecoveryInvariant, PTL DEF Spec, BootSettles

\* A SIGTERM that has left the clean-stop flag keeps its promise to the reports
\* that wait for their approval (app.py:878): no startup closes them.
THEOREM CleanStopKeepsPending == Spec => MarkedStopKeepsPending
<1>1. RecoveryInv /\ [Next]_vars =>
        [lastStop = "marked" /\ server # "up" =>
           \A i \in DOMAIN reports : reports'[i].status = reports[i].status]_vars
  <2> SUFFICES ASSUME RecoveryInv, [Next]_vars, lastStop = "marked", server # "up"
               PROVE  \A i \in DOMAIN reports : reports'[i].status = reports[i].status
    OBVIOUS
  <2>1. ~BootClosePending
    BY DEF RecoveryInv, MarkInv, BootClosePending, ClosesPending, BootPc
  <2>2. ~PostLands /\ ~Approve
    BY DEF RecoveryInv, ServiceInv, PostLands, Approve
  <2>3. CASE BootRecover
    BY <2>3, RecoverSaves
  <2>4. CASE Aside \/ UNCHANGED vars
    BY <2>4, AsideKeeps
  <2> QED
    BY <2>1, <2>2, <2>3, <2>4, StepCases
<1> QED
  BY <1>1, RecoveryInvariant, PTL DEF Spec, MarkedStopKeepsPending

----------------------------------------------------------------------------
(***************************************************************************)
(* The refinement                                                          *)
(***************************************************************************)
LEMMA RecordInit == Init => Record!Init
BY DEF Init, Record!Init, Begun, Entries, Reported

\* The steps on which nothing that is known of a test depends.
LEMMA QuietSteps ==
  ASSUME UNCHANGED <<started, checkpoint, reports>>
  PROVE  UNCHANGED Record!vars
BY DEF Record!vars, Begun, Entries, Reported

LEMMA QuietCases ==
  ASSUME Aside \/ UNCHANGED vars,
         ~(BootClear \/ PutLands \/ DeleteLands \/ StartTest)
  PROVE  UNCHANGED <<started, checkpoint, reports>>
<1>1. UNCHANGED reports
  BY AsideKeeps
<1>2. CASE Stop
  BY <1>1, <1>2 DEF Stop, PowerCut, Crash, Shutdown, Restart, Ends
<1>3. CASE Sigterm \/ Session
  BY <1>1, <1>3
  DEF Sigterm, Session, PageLoads, ResetUnmark, ResetForget, Login, LoginSave,
      LoginMark, Logout, LogoutFlag, LogoutUnmark, LogoutForget
<1>4. CASE ~(Stop \/ Sigterm \/ Session)
  BY <1>1, <1>4
  DEF Aside, vars, BootConsume, BootPendingClosed, BootLog, BootRewrite, BootSession,
      BootForget, BeginTest, SendPut, StartFails, FinishTest, SubmitReport,
      AbortForLogout, Cleared, LeavePreview
<1> QED
  BY <1>2, <1>3, <1>4

\* A checkpoint is cleared when it is not the only trace of a test.
LEMMA ClearIsQuiet ==
  ASSUME RecoveryInv, BootClear \/ DeleteLands
  PROVE  UNCHANGED Record!vars
<1>1. ~Unsaved
  BY DEF RecoveryInv, BootClear, BootInv, Unsaved, DeleteLands, TraceInv, ServiceInv, Recording
<1>2. UNCHANGED <<started, reports>> /\ checkpoint'.test = 0 /\ 0 \notin started
  BY DEF RecoveryInv, TypeOK, Tests, BootClear, DeleteLands, NoCheckpoint
<1>3. \A t \in Tests : Reported(t)' <=> Reported(t)
  BY <1>2 DEF Reported
<1> QED
  BY <1>1, <1>2, <1>3 DEF Record!vars, Begun, Entries, Unsaved

\* A checkpoint that is written is the one of the test of the page.
LEMMA PutRefines ==
  ASSUME RecoveryInv, PutLands
  PROVE  [Record!Next]_(Record!vars)
<1>1. /\ checkpoint'.test = test /\ UNCHANGED <<started, reports>>
      /\ started \subseteq Tests
  BY DEF RecoveryInv, TypeOK, TraceInv, PutLands
<1>2. Unsaved => checkpoint.test = test
  BY DEF RecoveryInv, TraceInv, ServiceInv, PutLands
<1>3. \A t \in Tests : Reported(t)' <=> Reported(t)
  BY <1>1 DEF Reported
<1>4. CASE test \in started
  <2>1. Begun' = Begun \cup {test} /\ Entries' = Entries
    BY <1>1, <1>2, <1>3, <1>4 DEF Begun, Entries, Unsaved
  <2>2. test \in Record!Tests
    BY <1>1, <1>4 DEF Tests, Record!Tests
  <2> QED
    BY <2>1, <2>2 DEF Record!Next, Record!Begin
<1>5. CASE test \notin started
  BY <1>1, <1>2, <1>3, <1>5 DEF Record!vars, Begun, Entries, Unsaved
<1> QED
  BY <1>4, <1>5

LEMMA StartRefines ==
  ASSUME RecoveryInv, StartTest
  PROVE  [Record!Next]_(Record!vars)
<1>1. /\ UNCHANGED <<checkpoint, reports>> /\ started' = started \cup {test}
      /\ test \in Tests
  BY DEF RecoveryInv, TypeOK, NumberInv, OnTest, Tests, StartTest
<1>2. \A t \in Tests : Reported(t)' <=> Reported(t)
  BY <1>1 DEF Reported
<1>3. CASE checkpoint.test = test
  <2>1. Begun' = Begun \cup {test} /\ Entries' = Entries
    BY <1>1, <1>2, <1>3 DEF Begun, Entries
  <2> QED
    BY <1>1, <2>1 DEF Record!Next, Record!Begin, Tests, Record!Tests
<1>4. CASE checkpoint.test # test
  BY <1>1, <1>2, <1>4 DEF Record!vars, Begun, Entries
<1> QED
  BY <1>3, <1>4

\* A report that is saved, by the page or by the startup.
LEMMA SaveRefines ==
  ASSUME RecoveryInv, NEW r \in Report,
         r.status \in {"pending", "operator", "power"}, Record!Fits(r),
         reports' = Append(reports, r),
         \A t : Reported(t)' <=> Reported(t) \/ t = r.test,
         UNCHANGED <<started, checkpoint>>
  PROVE  Record!Next
<1>1. r.test \in Tests /\ r \in Record!Entry
  BY DEF Report, Status, Tests, Record!Entry, Record!Status, Record!Tests
<1>2. Begun' = Begun \cup {r.test} /\ Entries' = Append(Entries, r)
  BY <1>1 DEF Begun, Entries
<1> QED
  BY <1>1, <1>2 DEF Record!Next, Record!Write

LEMMA PostRefines ==
  ASSUME RecoveryInv, PostLands
  PROVE  Record!Next
<1> DEFINE r == NewReport(test, aborting, "pending")
<1>1. r \in Report /\ r.status = "pending" /\ r.test = test
  BY PostSaves DEF NewReport
<1>2. Record!Fits(r)
  BY <1>1 DEF Record!Fits
<1>3. reports' = Append(reports, r) /\ UNCHANGED <<started, checkpoint>>
  BY DEF PostLands
<1>4. \A t : Reported(t)' <=> Reported(t) \/ t = r.test
  BY <1>1, PostSaves
<1> HIDE DEF r
<1> QED
  BY <1>1, <1>2, <1>3, <1>4, SaveRefines

LEMMA RecoverRefines ==
  ASSUME RecoveryInv, BootRecover
  PROVE  Record!Next
<1> DEFINE r == NewReport(checkpoint.test, checkpoint.aborted, ClosedStatus(checkpoint.aborted))
<1>1. r \in Report /\ r.test = checkpoint.test
  BY RecoverSaves DEF NewReport
<1>2. r.status \in {"operator", "power"} /\ Record!Fits(r)
  BY DEF NewReport, ClosedStatus, Record!Fits
<1>3. reports' = Append(reports, r) /\ UNCHANGED <<started, checkpoint>>
  BY DEF BootRecover
<1>4. \A t : Reported(t)' <=> Reported(t) \/ t = r.test
  BY <1>1, RecoverSaves
<1> HIDE DEF r
<1> QED
  BY <1>1, <1>2, <1>3, <1>4, SaveRefines

\* A report that is closed: by an approval, or for the cause of its abort.
LEMMA CloseRefines ==
  ASSUME RecoveryInv, BootClosePending \/ Approve
  PROVE  Record!Next
<1>1. /\ UNCHANGED <<started, checkpoint>>
      /\ \A t : Reported(t)' <=> Reported(t)
  BY ClosingKeeps DEF BootClosePending, Approve
<1>2. Begun' = Begun
  BY <1>1 DEF Begun
<1>3. PICK i \in DOMAIN reports, s \in Status :
        Closes(i, s) /\ s \in {"approved", ClosedStatus(reports[i].aborted)}
  BY BootCloses, ApproveCloses DEF Closes
<1>4. reports[i] \in Report
  BY ElementOfSeq, LenProperties DEF RecoveryInv, TypeOK
<1>5. Record!Fits([reports[i] EXCEPT !.status = s])
  BY <1>3, <1>4 DEF Record!Fits, Report, ClosedStatus
<1>6. Record!Close(i, s)
  BY <1>2, <1>3, <1>5 DEF Record!Close, Closes, Pending, Entries
<1> QED
  BY <1>3, <1>6 DEF Record!Next, Entries, Status, Record!Status

LEMMA RecordStep == RecoveryInv /\ [Next]_vars => [Record!Next]_(Record!vars)
<1> SUFFICES ASSUME RecoveryInv, [Next]_vars
             PROVE  [Record!Next]_(Record!vars)
  OBVIOUS
<1>1. CASE (Aside \/ UNCHANGED vars) /\ ~(BootClear \/ PutLands \/ DeleteLands \/ StartTest)
  BY <1>1, QuietCases, QuietSteps
<1>2. CASE BootClear \/ DeleteLands
  BY <1>2, ClearIsQuiet
<1>3. CASE PutLands \/ StartTest
  BY <1>3, PutRefines, StartRefines
<1>4. CASE PostLands \/ BootRecover
  BY <1>4, PostRefines, RecoverRefines
<1>5. CASE BootClosePending \/ Approve
  BY <1>5, CloseRefines
<1> QED
  BY <1>1, <1>2, <1>3, <1>4, <1>5, StepCases

\* Whenever the power fails and whichever of its requests are late, the
\* system keeps what TestRecord promises: no begun test is forgotten, no
\* report lost or closed twice, no operator's abort put down to the power.
THEOREM Implements == Spec => KeepsRecords
BY RecordInit, RecordStep, RecoveryInvariant, PTL DEF Spec, KeepsRecords, Record!Spec
=============================================================================
