--------------------------- MODULE PowerRecovery ---------------------------
(***************************************************************************)
(* What survives when the kiosk loses power or is restarted: the files the *)
(* server keeps for that (clean-stop flag, open-session marker, session,   *)
(* checkpoint, reports), the startup recovery of app.py, the handlers that *)
(* change those files, and the page that calls them in the order of        *)
(* script.js and shaker_ui.js.                                             *)
(*                                                                         *)
(* Every write of a file is a step of its own, so the power can fail       *)
(* between any two of them.  A single write is taken to be whole, as       *)
(* _save_json_file_durable makes it for the checkpoint.                    *)
(*                                                                         *)
(* Abstractions.  A test stands for a test or a validation run, known by   *)
(* its number; sessions are numbered too.  The page has at most one        *)
(* checkpoint PUT and one checkpoint DELETE in flight, and both have ended *)
(* before it begins the next test.  At most one logout is in flight.       *)
(***************************************************************************)
EXTENDS Naturals, Sequences

CONSTANTS
  MaxTests,     \* tests the operators begin
  MaxSessions,  \* logins
  MaxStops,     \* times the server process ends
  PageSurvives  \* whether the process may end under a page that stays loaded

ASSUME BoundAssumption ==
  /\ MaxTests \in Nat /\ MaxSessions \in Nat /\ MaxStops \in Nat
ASSUME PageAssumption == PageSurvives \in BOOLEAN

Tests == 1 .. MaxTests
Sessions == 1 .. MaxSessions

VARIABLES
  \* the files
  flag,       \* app_clean_stop.flag exists
  marker,     \* session_power_audit_pending.json
  user,       \* session in current_user.json, 0 when there is none
  checkpoint, \* test_run.json
  reports,    \* reports.json
  rows,       \* "Power interruption logout" rows of each session in the audit log
  \* the server process
  server,     \* where it is in its startup, or "up", or "down"
  boot,       \* locals of _startup_session_power_audit
  term,       \* SIGTERM has come: "none", "marked" or "unmarked"
  \* the page and its requests
  ui,         \* screen the page shows
  session,    \* session of the page's user (or of its login request)
  test,       \* the test the page runs or has run last
  aborting,   \* the operator has aborted it
  leaving,    \* because of a logout
  request,    \* handler the page waits for
  logout,     \* handler of a logout, which no page waits for
  put, del,   \* checkpoint PUT and DELETE in flight
  \* history
  started,    \* tests the shaker has accepted a program for
  lastStop,   \* how the process ended last
  lastOpen,   \* session open when a process in service ended last, and how
  stops       \* number of stops

files   == <<flag, marker, user, checkpoint, reports, rows>>
process == <<server, boot, term>>
page    == <<ui, session, test, aborting, leaving>>
calls   == <<request, logout, put, del>>
history == <<started, lastStop, lastOpen, stops>>
vars == <<files, process, page, calls, history>>

----------------------------------------------------------------------------
(***************************************************************************)
(* Types                                                                   *)
(***************************************************************************)
\* Session number 0, test number 0: the file does not exist.
Marker == [session : 0 .. MaxSessions, logged : BOOLEAN]
NoMarker == [session |-> 0, logged |-> FALSE]
Checkpoint == [test : 0 .. MaxTests, aborted : BOOLEAN]
NoCheckpoint == [test |-> 0, aborted |-> FALSE]
Put == [test : 0 .. MaxTests, aborted : BOOLEAN, session : 0 .. MaxSessions]
NoPut == [test |-> 0, aborted |-> FALSE, session |-> 0]

\* "operator" and "power" are the status aborted with that abortCause.
Status == {"pending", "approved", "operator", "power"}
Report == [test : Tests, aborted : BOOLEAN, status : Status]

Boot == [clean : BOOLEAN, session : 0 .. MaxSessions, logged : BOOLEAN,
         recover : BOOLEAN]
NoBoot == [clean |-> FALSE, session |-> 0, logged |-> FALSE, recover |-> FALSE]

\* "cut" is an unclean end, "late" one after SIGTERM or during a login or
\* logout, "marked" and "unmarked" a kill after a SIGTERM that did or did not touch
\* the flag.
Ending == {"cut", "late", "marked", "unmarked"}
Open == [session : 0 .. MaxSessions, how : {"none"} \cup Ending]
NoOpen == [session |-> 0, how |-> "none"]

BootPc == {"close", "recover", "clear", "log", "rewrite", "session", "forget"}

\* The screens on which the page has a user.
LoggedIn == {"home", "weighing", "running", "after", "posting", "clearing",
             "preview"}

TypeOK ==
  /\ flag \in BOOLEAN /\ marker \in Marker /\ user \in 0 .. MaxSessions
  /\ checkpoint \in Checkpoint /\ reports \in Seq(Report)
  /\ rows \in [Sessions -> Nat]
  /\ server \in BootPc \cup {"down", "up"} /\ boot \in Boot
  /\ term \in {"none", "marked", "unmarked"}
  /\ ui \in LoggedIn \cup {"off", "loading", "login", "entering"}
  /\ session \in 0 .. MaxSessions /\ test \in 0 .. MaxTests
  /\ aborting \in BOOLEAN /\ leaving \in BOOLEAN
  /\ request \in {"none", "login", "mark", "reset", "forget"}
  /\ logout \in {"none", "sent", "flagged", "unmarked"}
  /\ put \in Put /\ del \in 0 .. MaxSessions
  /\ started \subseteq Tests
  /\ lastStop \in {"none"} \cup Ending
  /\ lastOpen \in Open /\ stops \in 0 .. MaxStops

----------------------------------------------------------------------------
(***************************************************************************)
(* Helpers                                                                 *)
(***************************************************************************)
\* write_session_power_audit_pending stores username, role and time only:
\* a powerAuditLogged the caller has set is dropped.
WrittenMarker(s, logged) == [session |-> s, logged |-> FALSE]

\* _try_restore_session_from_request_headers: current_user.json is written
\* again for the user the page names, the marker is not.
Restored(s) == IF user = 0 THEN s ELSE user

Reported(t) == \E i \in DOMAIN reports : reports[i].test = t
Pending(i) == i \in DOMAIN reports /\ reports[i].status = "pending"

NoCause(aborted) == IF aborted THEN "operator" ELSE ""  \* mutant: power is not forced

\* _persist_unclean_shutdown_aborted_report: the status a report is closed with.
ClosedStatus(aborted) == IF aborted THEN "operator" ELSE "power"

NewReport(t, aborted, status) ==
  [test |-> t, aborted |-> aborted, status |-> status]

\* _should_mark_clean_shutdown
MarksCleanStop == checkpoint.test = 0

----------------------------------------------------------------------------
(***************************************************************************)
(* Startup of the server: _startup_session_power_audit                     *)
(***************************************************************************)
BootUnchanged == UNCHANGED <<term, page, calls, history>>

\* The flag is consumed and the other files are read.
BootConsume ==
  /\ server = "down"
  /\ flag' = FALSE
  /\ boot' = [clean |-> flag, session |-> marker.session,
              logged |-> marker.logged, recover |-> checkpoint.test # 0]
  /\ server' = "close"
  /\ UNCHANGED <<marker, user, checkpoint, reports, rows>>
  /\ BootUnchanged

ClosesAlways ==                 \* mutant: the clean-stop flag is not asked for
  \E i \in DOMAIN reports : Pending(i)

ClosesFinished ==               \* mutant: operator aborts are skipped
  ~boot.clean /\ \E i \in DOMAIN reports : Pending(i) /\ ~reports[i].aborted

\* _abort_pending_reports_after_power_loss writes the reports back one by one.
ClosesPending == ~boot.clean /\ \E i \in DOMAIN reports : Pending(i)

BootClosePending ==
  /\ server = "close" /\ ClosesPending
  /\ \E i \in DOMAIN reports :
       /\ Pending(i)
       /\ reports' = [reports EXCEPT ![i].status = ClosedStatus(reports[i].aborted)]
  /\ UNCHANGED <<flag, marker, user, checkpoint, rows, server, boot>>
  /\ BootUnchanged

CleanStopSkipsCheckpoint ==     \* mutant: the clean-stop flag drops a live test
  /\ server = "close" /\ ~ClosesPending
  /\ server' = IF boot.recover /\ ~boot.clean THEN "recover" ELSE "log"
  /\ UNCHANGED <<files, boot>>
  /\ BootUnchanged

BootPendingClosed ==
  /\ server = "close" /\ ~ClosesPending
  /\ server' = IF boot.recover THEN "recover" ELSE "log"
  /\ UNCHANGED <<files, boot>>
  /\ BootUnchanged

\* _create_aborted_report_from_power_loss_checkpoint saves the report, then
\* removes the checkpoint.
BootRecover ==
  /\ server = "recover"
  /\ reports' = Append(reports, NewReport(checkpoint.test, checkpoint.aborted,
                                          ClosedStatus(checkpoint.aborted)))
  /\ server' = "clear"
  /\ UNCHANGED <<flag, marker, user, checkpoint, rows, boot>>
  /\ BootUnchanged

BootClear ==
  /\ server = "clear"
  /\ checkpoint' = NoCheckpoint
  /\ server' = "log"
  /\ UNCHANGED <<flag, marker, user, reports, rows, boot>>
  /\ BootUnchanged

\* should_log_power_logout
LogsSession ==
  /\ boot.session # 0 /\ ~boot.logged
  /\ boot.recover \/ ~boot.clean

BootLog ==
  /\ server = "log"
  /\ IF LogsSession
       THEN /\ rows' = [rows EXCEPT ![boot.session] = @ + 1]
            /\ server' = "rewrite"
       ELSE /\ server' = "session"
            /\ UNCHANGED rows
  /\ UNCHANGED <<flag, marker, user, checkpoint, reports, boot>>
  /\ BootUnchanged

BootRewrite ==
  /\ server = "rewrite"
  /\ marker' = WrittenMarker(boot.session, TRUE)
  /\ server' = "session"
  /\ UNCHANGED <<flag, user, checkpoint, reports, rows, boot>>
  /\ BootUnchanged

BootSession ==
  /\ server = "session"
  /\ marker' = IF user = 0 THEN NoMarker
               ELSE IF boot.session = 0 THEN WrittenMarker(user, FALSE)
               ELSE marker
  /\ server' = "forget"
  /\ UNCHANGED <<flag, user, checkpoint, reports, rows, boot>>
  /\ BootUnchanged

UserKept ==                     \* mutant: the session survives the restart
  /\ server = "forget"
  /\ server' = "up"
  /\ UNCHANGED <<files, boot>>
  /\ BootUnchanged

\* clear_current_user; the process then serves requests.
BootForget ==
  /\ server = "forget"
  /\ user' = 0
  /\ server' = "up"
  /\ UNCHANGED <<flag, marker, checkpoint, reports, rows, boot>>
  /\ BootUnchanged

Startup ==
  \/ BootConsume \/ BootClosePending \/ BootPendingClosed \/ BootRecover
  \/ BootClear \/ BootLog \/ BootRewrite \/ BootSession \/ BootForget

----------------------------------------------------------------------------
(***************************************************************************)
(* The end of the process                                                  *)
(***************************************************************************)
\* The handler of SIGTERM touches the flag and returns: the process goes on
\* serving until it is killed.  It is registered after the startup.
Sigterm ==
  /\ server = "up" /\ term = "none"
  /\ IF MarksCleanStop
       THEN flag' = TRUE /\ term' = "marked"
       ELSE flag' = flag /\ term' = "unmarked"
  /\ UNCHANGED <<marker, user, checkpoint, reports, rows, server, boot, page,
                 calls, history>>

\* Every request in flight fails.  A page that stays loaded shows the login
\* screen again, or the wizard the report was to be saved from, or (logging
\* out) goes on.
AfterLoss ==
  IF ui = "loading" \/ ui = "entering" THEN "login"
  ELSE IF ui = "posting" THEN IF leaving THEN "home" ELSE "after"
  ELSE ui

OpenSession ==
  IF ui \in LoggedIn \cup {"entering"} \/ logout # "none" THEN session ELSE 0

Ends(how, screen) ==
  /\ stops < MaxStops /\ stops' = stops + 1
  /\ server' = "down" /\ term' = "none" /\ boot' = NoBoot
  /\ request' = "none" /\ logout' = "none" /\ put' = NoPut /\ del' = 0
  /\ ui' = screen
  /\ lastStop' = how
  /\ lastOpen' = IF server = "up" THEN [session |-> OpenSession, how |-> how]
                 ELSE lastOpen
  /\ UNCHANGED <<files, session, test, aborting, leaving, started>>

Cut ==
  IF term = "none" /\ logout = "none" /\ request = "none" THEN "cut" ELSE "late"

PowerCut == Ends(Cut, "off")

\* The process crashes, or is killed, without SIGTERM; systemd starts it again.
Crash ==
  /\ PageSurvives
  /\ server # "down" /\ ui # "off"
  /\ Ends(Cut, AfterLoss)

Shutdown == term # "none" /\ Ends(term, "off")

Restart ==
  /\ PageSurvives /\ ui # "off"
  /\ term # "none"
  /\ Ends(term, AfterLoss)

----------------------------------------------------------------------------
(***************************************************************************)
(* Sessions                                                                *)
(***************************************************************************)
\* The kiosk's browser loads the page, which asks for session-ui-reset.
PageLoads ==
  /\ ui = "off" /\ server = "up"
  /\ ui' = "loading" /\ request' = "reset"
  /\ UNCHANGED <<files, process, session, test, aborting, leaving, logout, put,
                 del, history>>

ResetUnmark ==
  /\ request = "reset"
  /\ marker' = NoMarker
  /\ request' = "forget"
  /\ UNCHANGED <<flag, user, checkpoint, reports, rows, process, page, logout,
                 put, del, history>>

ResetForget ==
  /\ request = "forget"
  /\ user' = 0
  /\ request' = "none" /\ ui' = "login"
  /\ UNCHANGED <<flag, marker, checkpoint, reports, rows, process, session, test,
                 aborting, leaving, logout, put, del, history>>

Login ==
  /\ ui = "login" /\ session < MaxSessions
  /\ server = "up"
  /\ session' = session + 1
  /\ ui' = "entering" /\ request' = "login"
  /\ UNCHANGED <<files, process, test, aborting, leaving, logout, put, del,
                 history>>

LoginSave ==
  /\ request = "login"
  /\ user' = session
  /\ request' = "mark"
  /\ UNCHANGED <<flag, marker, checkpoint, reports, rows, process, page, logout,
                 put, del, history>>

LoginMark ==
  /\ request = "mark"
  /\ marker' = WrittenMarker(session, FALSE)
  /\ request' = "none" /\ ui' = "home"
  /\ UNCHANGED <<flag, user, checkpoint, reports, rows, process, session, test,
                 aborting, leaving, logout, put, del, history>>

\* logout() of the page sends the request and shows the login screen at once.
\* The handler stops the shaker first, which may take seconds.
Logout ==
  /\ ui = "home" /\ logout = "none"
  /\ ui' = "login"
  /\ logout' = IF server = "up" THEN "sent" ELSE "none"
  /\ UNCHANGED <<files, process, session, test, aborting, leaving, request, put,
                 del, history>>

LogoutFlag ==
  /\ logout = "sent"
  /\ flag' = TRUE
  /\ logout' = "flagged"
  /\ UNCHANGED <<marker, user, checkpoint, reports, rows, process, page, request,
                 put, del, history>>

LogoutUnmark ==
  /\ logout = "flagged"
  /\ marker' = NoMarker
  /\ logout' = "unmarked"
  /\ UNCHANGED <<flag, user, checkpoint, reports, rows, process, page, request,
                 put, del, history>>

LogoutForget ==
  /\ logout = "unmarked"
  /\ user' = 0
  /\ logout' = "none"
  /\ UNCHANGED <<flag, marker, checkpoint, reports, rows, process, page, request,
                 put, del, history>>

----------------------------------------------------------------------------
(***************************************************************************)
(* A test, from the first wizard to the approval of its report             *)
(***************************************************************************)
BeginTest ==
  /\ ui = "home" /\ test < MaxTests
  /\ put = NoPut /\ del = 0
  /\ test' = test + 1
  /\ aborting' = FALSE /\ leaving' = FALSE
  /\ ui' = "weighing"
  /\ UNCHANGED <<files, process, session, calls, history>>

\* _srWriteCheckpoint, when a wizard opens and every second of the run.
SendPut ==
  /\ ui \in {"weighing", "running", "after"}
  /\ put = NoPut /\ server = "up"
  /\ put' = [test |-> test, session |-> session,
             aborted |-> ui = "after" /\ aborting]
  /\ UNCHANGED <<files, process, page, request, logout, del, history>>

PutLands ==
  /\ put # NoPut
  /\ user' = Restored(put.session)
  /\ checkpoint' = [test |-> put.test, aborted |-> put.aborted]
  /\ put' = NoPut
  /\ UNCHANGED <<flag, marker, reports, rows, process, page, request, logout,
                 del, history>>

DeleteLands ==
  /\ del # 0
  /\ user' = Restored(del)
  /\ checkpoint' = NoCheckpoint
  /\ del' = 0
  /\ UNCHANGED <<flag, marker, reports, rows, process, page, request, logout,
                 put, history>>

\* run-program is accepted.
StartTest ==
  /\ ui = "weighing" /\ server = "up"
  /\ user' = Restored(session)
  /\ started' = started \cup {test}
  /\ ui' = "running"
  /\ UNCHANGED <<flag, marker, checkpoint, reports, rows, process, session, test,
                 aborting, leaving, calls, lastStop, lastOpen, stops>>

\* run-program is refused or fails: the page clears the checkpoint.
StartFails ==
  /\ ui = "weighing"
  /\ ui' = "home"
  /\ del' = IF server = "up" THEN session ELSE 0
  /\ UNCHANGED <<files, process, session, test, aborting, leaving, request,
                 logout, put, history>>

\* _srFinishRun
FinishTest ==
  /\ ui = "running"
  /\ aborting' \in BOOLEAN
  /\ ui' = "after"
  /\ UNCHANGED <<files, process, session, test, leaving, calls, history>>

\* submitSieveWeights
SubmitReport ==
  /\ ui = "after" /\ server = "up"
  /\ ui' = "posting"
  /\ UNCHANGED <<files, process, session, test, aborting, leaving, calls,
                 history>>

\* _trAbortRunningTestNow, called by logout(): the partial report is saved.
AbortForLogout ==
  /\ ui \in {"weighing", "running", "after"}
  /\ server = "up"
  /\ ui' = "posting"
  /\ aborting' = TRUE /\ leaving' = TRUE
  /\ UNCHANGED <<files, process, session, test, calls, history>>

\* create_report, then the page's DELETE of the checkpoint.
PostLands ==
  /\ ui = "posting"
  /\ user' = Restored(session)
  /\ reports' = Append(reports, NewReport(test, aborting, "pending"))
  /\ ui' = "clearing" /\ del' = session
  /\ UNCHANGED <<flag, marker, checkpoint, rows, process, session, test,
                 aborting, leaving, request, logout, put, history>>

\* The DELETE has been answered, or has failed.
Cleared ==
  /\ ui = "clearing" /\ del = 0
  /\ ui' = IF leaving THEN "home" ELSE "preview"
  /\ UNCHANGED <<files, process, session, test, aborting, leaving, calls,
                 history>>

\* approve_report; the page then clears the checkpoint and waits for nothing.
Approve ==
  /\ ui = "preview" /\ server = "up" /\ del = 0
  /\ \E i \in DOMAIN reports :
       /\ reports[i].test = test /\ Pending(i)
       /\ reports' = [reports EXCEPT ![i].status = "approved"]
  /\ user' = Restored(session)
  /\ del' = session
  /\ ui' = "home"
  /\ UNCHANGED <<flag, marker, checkpoint, rows, process, session, test,
                 aborting, leaving, request, logout, put, history>>

\* The preview's poll sees that its report is not pending any more.
LeavePreview ==
  /\ ui = "preview" /\ server = "up"
  /\ \A i \in DOMAIN reports : reports[i].test = test => ~Pending(i)
  /\ ui' = "home"
  /\ UNCHANGED <<files, process, session, test, aborting, leaving, calls,
                 history>>

----------------------------------------------------------------------------
(***************************************************************************)
(* The system                                                              *)
(***************************************************************************)
Init ==
  /\ flag = FALSE /\ marker = NoMarker /\ user = 0
  /\ checkpoint = NoCheckpoint /\ reports = <<>>
  /\ rows = [s \in Sessions |-> 0]
  /\ server = "down" /\ boot = NoBoot /\ term = "none"
  /\ ui = "off" /\ session = 0 /\ test = 0
  /\ aborting = FALSE /\ leaving = FALSE
  /\ request = "none" /\ logout = "none" /\ put = NoPut /\ del = 0
  /\ started = {} /\ lastStop = "none" /\ lastOpen = NoOpen /\ stops = 0

Stop == PowerCut \/ Crash \/ Shutdown \/ Restart

Session ==
  \/ PageLoads \/ ResetUnmark \/ ResetForget
  \/ Login \/ LoginSave \/ LoginMark
  \/ Logout \/ LogoutFlag \/ LogoutUnmark \/ LogoutForget

TestRun ==
  \/ BeginTest \/ SendPut \/ PutLands \/ DeleteLands
  \/ StartTest \/ StartFails \/ FinishTest \/ SubmitReport \/ AbortForLogout
  \/ PostLands \/ Cleared \/ Approve \/ LeavePreview

Next == Startup \/ Sigterm \/ Stop \/ Session \/ TestRun

Spec == Init /\ [][Next]_vars

\* systemd starts the process whenever it is down, and the startup waits for
\* nobody.
FairSpec == Spec /\ WF_vars(Startup)

----------------------------------------------------------------------------
(***************************************************************************)
(* Properties                                                              *)
(***************************************************************************)
\* A test counts as begun once it has a report, or once the shaker runs it
\* and its checkpoint is on disk.
Begun == {t \in Tests : Reported(t) \/ (t \in started /\ checkpoint.test = t)}

Entries == reports

\* No stop, in the middle of whatever write, makes the system forget a test
\* it has begun to record, or changes a report that is closed (save_report,
\* the startup recovery and clear_test_run_data together): the abstract
\* TestRecord is implemented.
Record == INSTANCE TestRecord WITH begun <- Begun, entries <- Entries
KeepsRecords == Record!Spec

\* When the process goes into service it has settled what the last one left
\* (_startup_session_power_audit): no checkpoint and no session are left
\* over, and after an unclean stop no report is pending.
BootSettles ==
  [][server # "up" /\ server' = "up" =>
       /\ checkpoint'.test = 0 /\ user' = 0
       /\ ~boot.clean => \A i \in DOMAIN reports' : reports'[i].status # "pending"]_vars

\* After a stop whose SIGTERM left the clean-stop flag, the startup leaves
\* every report that awaits approval alone (app.py:878).
MarkedStopKeepsPending ==
  [][lastStop = "marked" /\ server # "up" =>
       \A i \in DOMAIN reports : reports'[i].status = reports[i].status]_vars

\* Under a fair startup every checkpoint left by a stop becomes a report, and
\* every report an unclean stop has left pending is closed, however many times
\* the power fails again during the startup.
CheckpointRecovered ==
  \A t \in Tests : (server = "down" /\ checkpoint.test = t) ~> Reported(t)

CutClosesPending ==
  \A i \in 1 .. 2 * MaxTests :
    (server = "down" /\ ~flag /\ Pending(i)) ~> ~Pending(i)

(***************************************************************************)
(* What comments and docstrings of the code say, and the code does not do  *)
(***************************************************************************)
\* "If the last run ended without a clean stop while a session was active,
\* log one power-interruption row" (app.py:870).
OpenSessionAudited ==
  server = "up" /\ lastOpen.how = "cut" /\ lastOpen.session # 0
    => rows[lastOpen.session] >= 1

\* The checkpoint becomes a report only if the test has none (app.py:812).
OneReportPerTest ==
  \A i, j \in DOMAIN reports : reports[i].test = reports[j].test => i = j
=============================================================================
