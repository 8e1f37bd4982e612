---------------------------- MODULE ReportStore ----------------------------
(***************************************************************************)
(* reports.json and report_export_schedule.json: the handlers that create, *)
(* approve, discard, delete and export reports, and the purge of reports   *)
(* whose export was verified a day ago, which a thread of its own runs     *)
(* every minute and the confirm handler runs first.                        *)
(*                                                                         *)
(* Neither file has a lock: every change loads the file, alters the copy   *)
(* and writes it back, and each of these is a step here.  A single write   *)
(* is taken to be whole.                                                   *)
(*                                                                         *)
(* Abstractions.  A report is its number, its content (doc) and whether it *)
(* is pending; the statuses that may be printed and exported are           *)
(* "approved".  A day is a tick of `now': the batch confirmed as number s  *)
(* is due when s <= now, for batches fall due in the order of their        *)
(* confirmation.  A purge may take the reports of its batch in any order.  *)
(* Permissions, audit rows and the PDF files are left out.                 *)
(***************************************************************************)
EXTENDS Naturals, Sequences, FiniteSets, FiniteSetsExt

CONSTANTS
  Clients,    \* threads that serve requests, one after another
  Purger,     \* the thread "export-purge"
  Calls,      \* the requests the clients make
  Serial,     \* whether handlers and purge come one at a time
  MaxReports, \* reports created
  MaxExports, \* exports staged
  MaxCrashes  \* times the process is killed and started again

AllCalls == {"create", "approve", "discard", "delete", "export", "stage", "confirm"}

ASSUME ThreadAssumption == IsFiniteSet(Clients) /\ Purger \notin Clients
ASSUME CallAssumption == Calls \subseteq AllCalls /\ Serial \in BOOLEAN
ASSUME BoundAssumption ==
  MaxReports \in Nat /\ MaxExports \in Nat /\ MaxCrashes \in Nat

Threads == Clients \cup {Purger}

VARIABLES
  \* the files
  reports,  \* reports.json
  schedule, \* report_export_schedule.json
  \* where each thread is, and its locals
  pc,
  snap,     \* reports as loaded, or as copied to the USB drive
  rec,      \* report to save
  todo,     \* report numbers still to delete, or exported
  target,   \* the number being deleted
  plan,     \* schedule as loaded
  export,   \* export_id of a confirm request
  \* time
  now,      \* confirmed batches that are due
  \* history
  born,     \* reports created
  exports,  \* exports staged, with the contents copied; their index is export_id
  verified, \* exports confirmed, in order
  asked,    \* numbers a client asked to delete
  crashes

files   == <<reports, schedule>>
locals  == <<snap, rec, todo, target, plan, export>>
history == <<born, exports, verified, asked, crashes>>
vars == <<files, pc, locals, now, history>>

----------------------------------------------------------------------------
(***************************************************************************)
(* Types                                                                   *)
(***************************************************************************)
Ids == 1 .. MaxReports
Report == [id : Ids, doc : Ids, status : {"pending", "approved"}]
\* A report that has no number yet.
Draft == [id : {0}, doc : Ids \cup {0}, status : {"pending"}]
NoReport == [id |-> 0, doc |-> 0, status |-> "pending"]

\* A batch is staged with stamp 0 and scheduled with the number of its
\* confirmation, which stands for purge_at_ms.
Batch == [export : 1 .. MaxExports, ids : SUBSET Ids, stamp : Nat]
NoBatch == [export |-> 0, ids |-> {}, stamp |-> 0]
Schedule == [staged : Batch \cup {NoBatch}, scheduled : Batch \cup {NoBatch}]
NoSchedule == [staged |-> NoBatch, scheduled |-> NoBatch]

Pc == {"idle", "new", "new.write", "put", "put.write", "remove", "remove.write",
       "unschedule", "copy", "stage", "stage.write", "confirm", "confirm.write"}

FileTypes == reports \subseteq Report /\ schedule \in Schedule

LocalTypes ==
  /\ pc \in [Threads -> Pc]
  /\ snap \in [Threads -> SUBSET Report]
  /\ rec \in [Threads -> Report \cup Draft]
  /\ todo \in [Threads -> SUBSET Ids] /\ target \in [Threads -> Ids \cup {0}]
  /\ plan \in [Threads -> Schedule] /\ export \in [Threads -> 0 .. MaxExports]

HistoryTypes ==
  /\ now \in 0 .. Len(verified)
  /\ born \in 0 .. MaxReports
  /\ exports \in Seq([ids : SUBSET Ids, docs : SUBSET Ids])
  /\ Len(exports) <= MaxExports
  /\ verified \in Seq(1 .. MaxExports)
  /\ asked \subseteq Ids /\ crashes \in 0 .. MaxCrashes

TypeOK == FileTypes /\ LocalTypes /\ HistoryTypes

IdsOf(list) == {r.id : r \in list}
Pending(r) == r.status = "pending"

----------------------------------------------------------------------------
(***************************************************************************)
(* Threads                                                                 *)
(***************************************************************************)
Goes(t, where) == pc' = [pc EXCEPT ![t] = where]

\* A thread takes up a request, or the purge its next round.
Begins(t) ==
  /\ pc[t] = "idle"
  /\ Serial => \A u \in Threads : pc[u] = "idle"

Takes(c, call) == c \in Clients /\ call \in Calls /\ Begins(c)

\* The handler returns and its locals are gone.
Returns(t) ==
  /\ Goes(t, "idle")
  /\ snap' = [snap EXCEPT ![t] = {}]
  /\ rec' = [rec EXCEPT ![t] = NoReport]
  /\ todo' = [todo EXCEPT ![t] = {}]
  /\ target' = [target EXCEPT ![t] = 0]
  /\ plan' = [plan EXCEPT ![t] = NoSchedule]
  /\ export' = [export EXCEPT ![t] = 0]

----------------------------------------------------------------------------
(***************************************************************************)
(* save_report: create_report calls it twice, the second time with the     *)
(* number the first has given; approve_report calls it once.               *)
(***************************************************************************)
Create(c) ==
  /\ Takes(c, "create")
  /\ born < MaxReports
  /\ born' = born + 1
  /\ rec' = [rec EXCEPT ![c] = [NoReport EXCEPT !.doc = born + 1]]
  /\ Goes(c, "new")
  /\ UNCHANGED <<files, snap, todo, target, plan, export, now, exports, verified,
                 asked, crashes>>

Load(c, from, to) ==
  /\ pc[c] = from
  /\ snap' = [snap EXCEPT ![c] = reports]
  /\ Goes(c, to)
  /\ UNCHANGED <<files, rec, todo, target, plan, export, now, history>>

NewLoad(c) == Load(c, "new", "new.write")
PutLoad(c) == Load(c, "put", "put.write")

SkipId(list) == Max(IdsOf(list) \cup {0}) + 2  \* mutant: a number is skipped
NextId(list) == Max(IdsOf(list) \cup {0}) + 1

NewWrite(c) ==
  /\ pc[c] = "new.write"
  /\ rec' = [rec EXCEPT ![c].id = NextId(snap[c])]
  /\ reports' = snap[c] \cup {rec'[c]}
  /\ Goes(c, "put")
  /\ UNCHANGED <<schedule, snap, todo, target, plan, export, now, history>>

Appended(list, r) == list \cup {r}  \* mutant: nothing is replaced
\* The report with that number is replaced; without one, the report is added.
Saved(list, r) == {other \in list : other.id # r.id} \cup {r}

PutWrite(c) ==
  /\ pc[c] = "put.write"
  /\ reports' = Saved(snap[c], rec[c])
  /\ Returns(c)
  /\ UNCHANGED <<schedule, now, history>>

\* approve_report has read the report, and saves what it has read.
Approve(c) ==
  /\ Takes(c, "approve")
  /\ \E r \in reports :
       /\ Pending(r)
       /\ rec' = [rec EXCEPT ![c] = [r EXCEPT !.status = "approved"]]
  /\ Goes(c, "put")
  /\ UNCHANGED <<files, snap, todo, target, plan, export, now, history>>

----------------------------------------------------------------------------
(***************************************************************************)
(* delete_report                                                           *)
(***************************************************************************)
DiscardAny(r) == TRUE           \* mutant: the approval status is not looked at
MayDiscard(r) == Pending(r)

\* abort_report and discard_pending_report.
Discard(c) ==
  /\ Takes(c, "discard")
  /\ \E r \in reports : MayDiscard(r) /\ todo' = [todo EXCEPT ![c] = {r.id}]
  /\ Goes(c, "remove")
  /\ UNCHANGED <<files, snap, rec, target, plan, export, now, history>>

Delete(c) ==
  /\ Takes(c, "delete")
  /\ \E r \in reports :
       /\ todo' = [todo EXCEPT ![c] = {r.id}]
       /\ asked' = asked \cup {r.id}
  /\ Goes(c, "remove")
  /\ UNCHANGED <<files, snap, rec, target, plan, export, now, born, exports,
                 verified, crashes>>

Purging(t) == plan[t].scheduled # NoBatch

\* What follows the last number: the purge saves the schedule.
RemovedAll(t) ==
  IF Purging(t)
  THEN /\ Goes(t, "unschedule")
       /\ todo' = [todo EXCEPT ![t] = {}]
       /\ UNCHANGED <<snap, rec, target, plan, export>>
  ELSE Returns(t)

\* A number that no report has any more is passed over without a write.
RemoveLoad(t) ==
  /\ pc[t] = "remove"
  /\ \E i \in todo[t] :
       IF i \in IdsOf(reports)
       THEN /\ snap' = [snap EXCEPT ![t] = reports]
            /\ target' = [target EXCEPT ![t] = i]
            /\ todo' = [todo EXCEPT ![t] = @ \ {i}]
            /\ Goes(t, "remove.write")
            /\ UNCHANGED <<rec, plan, export>>
       ELSE IF todo[t] = {i} THEN RemovedAll(t)
       ELSE /\ todo' = [todo EXCEPT ![t] = @ \ {i}]
            /\ UNCHANGED <<pc, snap, rec, target, plan, export>>
  /\ UNCHANGED <<files, now, history>>

RemoveWrite(t) ==
  /\ pc[t] = "remove.write"
  /\ reports' = {r \in snap[t] : r.id # target[t]}
  /\ IF todo[t] = {} THEN RemovedAll(t)
     ELSE Goes(t, "remove") /\ UNCHANGED locals
  /\ UNCHANGED <<schedule, now, history>>

----------------------------------------------------------------------------
(***************************************************************************)
(* Exports: the USB export stages what it has copied, and the client       *)
(* confirms a staged export                                                *)
(***************************************************************************)
\* export_reports and export_reports_stream refuse the request when one of its
\* reports is pending.
Export(c) ==
  /\ Takes(c, "export")
  /\ Len(exports) < MaxExports
  /\ \E list \in SUBSET {r \in reports : ~Pending(r)} :
       /\ list # {}
       /\ snap' = [snap EXCEPT ![c] = list]
       /\ todo' = [todo EXCEPT ![c] = IdsOf(list)]
  /\ Goes(c, "copy")
  /\ UNCHANGED <<files, rec, target, plan, export, now, history>>

\* The approvals are checked again, and file after file is copied: of the report
\* as export_reports has rendered it first, or as export_reports_stream renders it
\* now.  A copy may fail, and when none succeeds nothing is staged.
Copy(c) ==
  /\ pc[c] = "copy"
  /\ LET refused == IdsOf({r \in reports : Pending(r)})
         ready == {r \in snap[c] \cup reports : r.id \in todo[c] \ refused}
     IN \/ Returns(c)
        \/ \E copied \in SUBSET ready :
             /\ copied # {}
             /\ snap' = [snap EXCEPT ![c] = copied]
             /\ todo' = [todo EXCEPT ![c] = IdsOf(copied)]
             /\ Goes(c, "stage")
             /\ UNCHANGED <<rec, target, plan, export>>
  /\ UNCHANGED <<files, now, history>>

\* reports_export_stage stages the numbers it is given; nothing is copied.
Stage(c) ==
  /\ Takes(c, "stage")
  /\ Len(exports) < MaxExports
  /\ \E ids \in SUBSET Ids \ {{}} : todo' = [todo EXCEPT ![c] = ids]
  /\ Goes(c, "stage")
  /\ UNCHANGED <<files, snap, rec, target, plan, export, now, history>>

\* stage_report_export_pending
StageLoad(c) ==
  /\ pc[c] = "stage"
  /\ plan' = [plan EXCEPT ![c] = schedule]
  /\ Goes(c, "stage.write")
  /\ UNCHANGED <<files, snap, rec, todo, target, export, now, history>>

StageWrite(c) ==
  /\ pc[c] = "stage.write"
  /\ Len(exports) < MaxExports
  /\ exports' = Append(exports,
                       [ids |-> todo[c], docs |-> {r.doc : r \in snap[c]}])
  /\ schedule' = [plan[c] EXCEPT !.staged =
                    [export |-> Len(exports'), ids |-> todo[c], stamp |-> 0]]
  /\ Returns(c)
  /\ UNCHANGED <<reports, now, born, verified, asked, crashes>>

IsStaged(e) == schedule.staged.export = e

\* confirm_report_export_verified
ConfirmLoad(c) ==
  /\ pc[c] = "confirm"
  /\ IF IsStaged(export[c])
     THEN /\ plan' = [plan EXCEPT ![c] = schedule]
          /\ Goes(c, "confirm.write")
          /\ UNCHANGED <<snap, rec, todo, target, export>>
     ELSE Returns(c)
  /\ UNCHANGED <<files, now, history>>

TwoDays(batch) ==               \* mutant: the retention is too long
  [batch EXCEPT !.stamp = Len(verified) + 2]
Confirmed(batch) == [batch EXCEPT !.stamp = Len(verified) + 1]

\* Whatever was scheduled before is replaced.
ConfirmWrite(c) ==
  /\ pc[c] = "confirm.write"
  /\ schedule' = [staged |-> NoBatch, scheduled |-> Confirmed(plan[c].staged)]
  /\ verified' = Append(verified, export[c])
  /\ Returns(c)
  /\ UNCHANGED <<reports, now, born, exports, asked, crashes>>

----------------------------------------------------------------------------
(***************************************************************************)
(* run_due_report_export_purge                                             *)
(***************************************************************************)
DueAtOnce(s) == s.scheduled # NoBatch  \* mutant: purge_at_ms is not compared
Due(s) == s.scheduled # NoBatch /\ s.scheduled.stamp <= now

StartsPurge(t) ==
  /\ plan' = [plan EXCEPT ![t] = schedule]
  /\ todo' = [todo EXCEPT ![t] = schedule.scheduled.ids]
  /\ Goes(t, "remove")

Purge ==
  /\ Begins(Purger)
  /\ Due(schedule)
  /\ StartsPurge(Purger)
  /\ UNCHANGED <<files, snap, rec, target, export, now, history>>

\* confirm_report_export purges before it looks at the request.
Confirm(c) ==
  /\ Takes(c, "confirm")
  /\ \E e \in 1 .. Len(exports) : export' = [export EXCEPT ![c] = e]
  /\ IF Due(schedule) THEN StartsPurge(c)
     ELSE Goes(c, "confirm") /\ UNCHANGED <<plan, todo>>
  /\ UNCHANGED <<files, snap, rec, target, now, history>>

Unscheduled(s) == [s EXCEPT !.scheduled = NoBatch]

\* The schedule as loaded before the deletions is written back without the
\* batch.
Unschedule(t) ==
  /\ pc[t] = "unschedule"
  /\ schedule' = Unscheduled(plan[t])
  /\ IF export[t] # 0
     THEN /\ Goes(t, "confirm")
          /\ plan' = [plan EXCEPT ![t] = NoSchedule]
          /\ UNCHANGED <<snap, rec, todo, target, export>>
     ELSE Returns(t)
  /\ UNCHANGED <<reports, now, history>>

----------------------------------------------------------------------------
DayPasses ==
  /\ now < Len(verified)
  /\ now' = now + 1
  /\ UNCHANGED <<files, pc, locals, history>>

\* The process is killed and started again.
Crash ==
  /\ crashes < MaxCrashes
  /\ crashes' = crashes + 1
  /\ pc' = [t \in Threads |-> "idle"]
  /\ snap' = [t \in Threads |-> {}]
  /\ rec' = [t \in Threads |-> NoReport]
  /\ todo' = [t \in Threads |-> {}]
  /\ target' = [t \in Threads |-> 0]
  /\ plan' = [t \in Threads |-> NoSchedule]
  /\ export' = [t \in Threads |-> 0]
  /\ UNCHANGED <<files, now, born, exports, verified, asked>>

Init ==
  /\ reports = {} /\ schedule = NoSchedule
  /\ pc = [t \in Threads |-> "idle"]
  /\ snap = [t \in Threads |-> {}]
  /\ rec = [t \in Threads |-> NoReport]
  /\ todo = [t \in Threads |-> {}]
  /\ target = [t \in Threads |-> 0]
  /\ plan = [t \in Threads |-> NoSchedule]
  /\ export = [t \in Threads |-> 0]
  /\ now = 0
  /\ born = 0 /\ exports = <<>> /\ verified = <<>> /\ asked = {} /\ crashes = 0

Request(c) ==
  \/ Create(c) \/ Approve(c) \/ Discard(c) \/ Delete(c)
  \/ Export(c) \/ Stage(c) \/ Confirm(c)

Step(t) ==
  \/ NewLoad(t) \/ NewWrite(t) \/ PutLoad(t) \/ PutWrite(t)
  \/ RemoveLoad(t) \/ RemoveWrite(t) \/ Unschedule(t)
  \/ Copy(t) \/ StageLoad(t) \/ StageWrite(t) \/ ConfirmLoad(t) \/ ConfirmWrite(t)

Next ==
  \/ \E c \in Clients : Request(c)
  \/ Purge
  \/ \E t \in Threads : Step(t)
  \/ DayPasses \/ Crash

Spec == Init /\ [][Next]_vars

(***************************************************************************)
(* Fairness.  Handlers run to their end, the purge thread comes round every*)
(* minute (strongly fair, because Serial makes it wait for a gap between   *)
(* requests, which the code does not), and days pass.  Nobody has to make  *)
(* a request.                                                              *)
(***************************************************************************)
FairSpec ==
  /\ Spec
  /\ \A t \in Threads : WF_vars(Step(t))
  /\ SF_vars(Purge)
  /\ WF_vars(DayPasses)

----------------------------------------------------------------------------
\* The numbers of the exports a client has verified a day ago or earlier.
RetentionOver ==
  UNION {exports[verified[s]].ids : s \in 1 .. now}

(***************************************************************************)
(* "No data will be erased until you confirm a successful export": however *)
(* stages, confirmations and purges interleave and whatever a stale copy   *)
(* of the schedule brings back, a purge only takes up numbers of an export *)
(* that was itself confirmed, a day ago or earlier.                        *)
(***************************************************************************)
PurgesOnlyConfirmed ==
  \A t \in Threads :
    Purging(t) /\ pc[t] \in {"remove", "remove.write"}
      => todo[t] \cup ({target[t]} \ {0}) \subseteq RetentionOver

(***************************************************************************)
(* Two stored reports never have the same number, though numbers are       *)
(* handed out from a copy that may be stale: get_report, approve_report    *)
(* and the purge know a report by its number only.                         *)
(***************************************************************************)
IdsAreKeys == \A r, other \in reports : r.id = other.id => r = other

(***************************************************************************)
(* One request at a time, with process kills between any two steps, the    *)
(* store keeps what ReportArchive promises: approvals stay, and a report   *)
(* goes only when it is discarded unapproved or its number was named.      *)
(***************************************************************************)
Archive == INSTANCE ReportArchive WITH
  archive <- reports, named <- asked \cup RetentionOver

KeepsArchive == Archive!Spec

(***************************************************************************)
(* The reports of a verified export "will be permanently removed from this *)
(* device after 24 hours", even if the process is killed during the purge. *)
(***************************************************************************)
Copied(s) == IF s <= Len(verified) THEN exports[verified[s]].docs ELSE {}
Erased(s) == \A r \in reports : r.doc \notin Copied(s)

ConfirmedIsPurged == \A s \in 1 .. MaxExports : now >= s ~> Erased(s)

(***************************************************************************)
(* What the code keeps of that: it is true of the export verified last, for*)
(* a later confirmation replaces a batch that has not been purged yet.     *)
(***************************************************************************)
LastConfirmedIsPurged ==
  \A s \in 1 .. MaxExports : now >= s ~> Erased(s) \/ s < Len(verified)

(***************************************************************************)
(* The next three are what the code is said to do.  None of them holds, the*)
(* first two unless Serial: the README tells how.                          *)
(*                                                                         *)
(* An export is staged "awaiting operator verification": it stays staged   *)
(* until it is confirmed or another takes its place, also when an earlier  *)
(* one is purged meanwhile.                                                *)
(***************************************************************************)
StagedSurvivesPurge ==
  [][schedule.staged # NoBatch /\ schedule'.staged = NoBatch
       => Len(verified') > Len(verified)]_vars

\* The write that ends the deletion of one number by a purge.
PurgeWrites(t) == Purging(t) /\ RemoveWrite(t)

(***************************************************************************)
(* "Delete only its report_ids": a write of the purge removes no report but*)
(* the one it deletes.                                                     *)
(***************************************************************************)
DeletesOnlyItsIds ==
  [][\A t \in Threads :
       PurgeWrites(t) => \A r \in reports \ reports' : r.id = target[t]]_vars

(***************************************************************************)
(* "No data will be erased until you confirm a successful export": what a  *)
(* purge deletes has been copied to a USB drive by an export that a client *)
(* confirmed; a report's number alone does not tell.                       *)
(***************************************************************************)
OnDrive == UNION {Copied(s) : s \in 1 .. Len(verified)}

OnlyExportedErased ==
  [][\A t \in Threads :
       PurgeWrites(t) =>
         \A r \in reports \ reports' : r.id = target[t] => r.doc \in OnDrive]_vars
=============================================================================
