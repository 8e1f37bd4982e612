------------------------- MODULE ReportStore_proofs -------------------------
(***************************************************************************)
(* What holds of the report store for any clients that make any calls,     *)
(* with any number of reports, exports and process kills: first, whether   *)
(* requests come one at a time or not; then, one request at a time, that   *)
(* the store implements ReportArchive.                                     *)
(***************************************************************************)
EXTENDS ReportStore, FiniteSetTheorems, NaturalsInduction, WellFoundedInduction, TLAPS

----------------------------------------------------------------------------
(***************************************************************************)
(* Numbers.  A number is at most the count of reports created, less those  *)
(* that are created but not numbered yet: so save_report never runs out of *)
(* Ids.                                                                    *)
(***************************************************************************)
Unnumbered == {t \in Threads : pc[t] \in {"new", "new.write"}}

Numbers ==
  {0} \cup IdsOf(reports) \cup {rec[t].id : t \in Threads}
      \cup (UNION {IdsOf(snap[t]) : t \in Threads})

CountInv == \A i \in Numbers : i + Cardinality(Unnumbered) <= born

(***************************************************************************)
(* Places.  Only the handlers of deletions, stages and confirmations hold  *)
(* a schedule, and an idle thread holds nothing.                           *)
(***************************************************************************)
PlanPcs == {"remove", "remove.write", "unschedule", "stage.write", "confirm.write"}

PlaceOf(t) ==
  /\ pc[t] \notin PlanPcs => plan[t] = NoSchedule
  /\ pc[t] = "idle" => target[t] = 0 /\ export[t] = 0
  /\ pc[t] \in {"put", "put.write"} => rec[t] \in Report
  /\ pc[t] \in {"new", "new.write"} => rec[t].doc \in Ids
  /\ pc[t] \in {"confirm", "confirm.write"} => export[t] \in 1 .. MaxExports
  /\ pc[t] = "confirm.write" => plan[t].staged.export = export[t]

PlaceInv == \A t \in Threads : PlaceOf(t)

(***************************************************************************)
(* Keys.  The list of reports, and every copy that will be written back,   *)
(* has a number once only.                                                 *)
(***************************************************************************)
Keyed(list) == \A r, other \in list : r.id = other.id => r = other

KeyInv ==
  /\ Keyed(reports)
  /\ \A t \in Threads :
       pc[t] \in {"new.write", "put.write", "remove.write"} => Keyed(snap[t])

(***************************************************************************)
(* Batches.  A staged batch is that of its export; a scheduled one that of *)
(* the confirmation it is stamped with; and this of the file as of every   *)
(* copy of it, however old.                                                *)
(***************************************************************************)
StagedRight(s, es) ==
  s.staged # NoBatch =>
    /\ s.staged.export \in 1 .. Len(es)
    /\ s.staged.ids = es[s.staged.export].ids

ScheduledRight(s, es, vs) ==
  s.scheduled # NoBatch =>
    /\ s.scheduled.stamp \in 1 .. Len(vs)
    /\ s.scheduled.ids = es[vs[s.scheduled.stamp]].ids

Right(s, es, vs) == StagedRight(s, es) /\ ScheduledRight(s, es, vs)

VerifiedRight(es, vs) == \A k \in 1 .. Len(vs) : vs[k] \in 1 .. Len(es)

BatchInv ==
  /\ VerifiedRight(exports, verified)
  /\ Right(schedule, exports, verified)
  /\ \A t \in Threads : Right(plan[t], exports, verified)

\* A purge under way is of a batch that is due, and deletes its numbers.
Removing(t) == Purging(t) /\ pc[t] \in {"remove", "remove.write"}

PurgeOf(t) ==
  Removing(t) =>
    /\ plan[t].scheduled.stamp <= now
    /\ todo[t] \cup ({target[t]} \ {0}) \subseteq plan[t].scheduled.ids

PurgeInv == \A t \in Threads : PurgeOf(t)

TypeInv == TypeOK /\ CountInv /\ PlaceInv

----------------------------------------------------------------------------
USE DEF files, locals, history, Threads

\* The request that takes a step is made by a thread that is idle.
LEMMA Steps ==
  ASSUME Next
  PROVE  \/ \E t \in Threads :
              \/ Create(t) \/ Approve(t) \/ Discard(t) \/ Delete(t)
              \/ Export(t) \/ Stage(t) \/ Confirm(t)
              \/ NewLoad(t) \/ NewWrite(t) \/ PutLoad(t) \/ PutWrite(t)
              \/ RemoveLoad(t) \/ RemoveWrite(t) \/ Unschedule(t)
              \/ Copy(t) \/ StageLoad(t) \/ StageWrite(t) \/ ConfirmLoad(t)
              \/ ConfirmWrite(t)
         \/ Purge \/ DayPasses \/ Crash
  BY DEF Next, Request, Step

\* Only six of them write a file.
LEMMA Writers ==
  ASSUME Next
  PROVE  \/ \E t \in Threads :
              \/ NewWrite(t) \/ PutWrite(t) \/ RemoveWrite(t) \/ Unschedule(t)
              \/ StageWrite(t) \/ ConfirmWrite(t)
         \/ UNCHANGED <<reports, schedule>>
  BY Steps DEF Create, Approve, Discard, Delete, Export, Stage, Confirm, NewLoad,
     PutLoad, Load, RemoveLoad, Copy, StageLoad, ConfirmLoad, Purge, DayPasses, Crash

(***************************************************************************)
(* Numbers                                                                 *)
(***************************************************************************)
\* A bounded set of numbers has a largest one.
LEMMA Largest ==
  ASSUME NEW S \in SUBSET Nat, NEW b \in Nat, S # {}, \A x \in S : x <= b
  PROVE  Max(S) \in S /\ \A x \in S : x <= Max(S)
<1> DEFINE T == {b - x : x \in S}
<1>1. T \subseteq Nat /\ T # {}
  <2>1. \A x \in S : b - x \in Nat
    OBVIOUS
  <2>2. PICK x \in S : TRUE
    OBVIOUS
  <2>3. b - x \in T
    OBVIOUS
  <2> QED
    BY <2>1, <2>3, Zenon
<1>2. PICK m \in T : \A y \in T : ~(<<y, m>> \in OpToRel(<, Nat))
  BY <1>1, NatLessThanWellFounded, WFMin
<1>3. \A y \in T : y >= m
  <2> TAKE y \in T
  <2>1. y \in Nat /\ m \in Nat
    BY <1>1
  <2>2. ASSUME y < m PROVE <<y, m>> \in OpToRel(<, Nat)
    BY <2>1, <2>2 DEF OpToRel
  <2>3. ~(y < m)
    BY <1>2, <2>2, Zenon
  <2> QED
    BY <2>1, <2>3
<1>4. PICK n \in S : m = b - n
  OBVIOUS
<1>5. \A x \in S : n >= x
  <2> TAKE x \in S
  <2>1. b - x >= b - n
    BY <1>3, <1>4
  <2> QED
    BY <2>1
<1> QED
  BY <1>5 DEF Max

LEMMA NextNumber ==
  ASSUME NEW list, list \subseteq Report
  PROVE  /\ \E i \in IdsOf(list) \cup {0} : i \in Nat /\ NextId(list) = i + 1
         /\ \A r \in list : r.id < NextId(list)
<1> DEFINE S == IdsOf(list) \cup {0}
<1>1. S \in SUBSET Nat /\ S # {} /\ \A x \in S : x <= MaxReports
  BY BoundAssumption DEF IdsOf, Report, Ids
<1>2. Max(S) \in S /\ \A x \in S : x <= Max(S)
  BY <1>1, BoundAssumption, Largest
<1>3. NextId(list) = Max(S) + 1
  BY DEF NextId
<1>4. \A r \in list : r.id \in S
  BY DEF IdsOf
<1>5. Max(S) \in Nat
  BY <1>1, <1>2
<1>6. \A r \in list : r.id \in Nat /\ r.id <= Max(S)
  BY <1>1, <1>2, <1>4
<1>7. \A r \in list : r.id < NextId(list)
  BY <1>3, <1>5, <1>6
<1> QED
  BY <1>2, <1>3, <1>5, <1>7, Zenon

LEMMA UnnumberedCount ==
  ASSUME pc \in [Threads -> Pc]
  PROVE  /\ IsFiniteSet(Unnumbered)
         /\ Cardinality(Unnumbered) \in Nat
<1>1. IsFiniteSet(Threads)
  BY ThreadAssumption, FS_AddElement
<1>2. Unnumbered \in SUBSET Threads
  BY DEF Unnumbered
<1> QED
  BY <1>1, <1>2, FS_Subset, FS_CardinalityType

\* The number save_report gives is one of Ids, and leaves room for those to
\* come.
LEMMA NumberFits ==
  ASSUME TypeOK, CountInv, NEW t \in Threads, pc[t] = "new.write"
  PROVE  /\ NextId(snap[t]) \in Ids
         /\ NextId(snap[t]) + Cardinality(Unnumbered) <= born + 1
<1>1. snap[t] \subseteq Report /\ pc \in [Threads -> Pc] /\ born \in 0 .. MaxReports
  BY DEF TypeOK, LocalTypes, HistoryTypes
<1>2. PICK i \in IdsOf(snap[t]) \cup {0} : i \in Nat /\ NextId(snap[t]) = i + 1
  BY <1>1, NextNumber
<1>3. i \in Numbers
  BY <1>2 DEF Numbers
<1>4. i + Cardinality(Unnumbered) <= born
  BY <1>3 DEF CountInv
<1>5. t \in Unnumbered
  BY DEF Unnumbered
<1>6. Cardinality(Unnumbered) \in Nat \ {0}
  BY <1>1, <1>5, UnnumberedCount, FS_EmptySet
<1> QED
  BY <1>1, <1>2, <1>4, <1>6, BoundAssumption DEF Ids

(***************************************************************************)
(* Type correctness                                                        *)
(***************************************************************************)
LEMMA Neutral ==
  /\ NoReport \in Draft /\ {} \subseteq Report /\ NoSchedule \in Schedule
  /\ NoBatch.ids = {} /\ Report \cap Draft = {}
  BY BoundAssumption DEF NoReport, Draft, Report, Ids, NoSchedule, Schedule, NoBatch

LEMMA ReturnsLocals ==
  ASSUME LocalTypes, NEW t \in Threads, Returns(t)
  PROVE  LocalTypes'
  BY Neutral, BoundAssumption DEF LocalTypes, Returns, Goes, Pc

\* Reports and schedule.
LEMMA FilesKept ==
  ASSUME TypeOK, CountInv, PlaceInv, Next
  PROVE  FileTypes'
<1> USE DEF TypeOK, FileTypes
<1>1. ASSUME NEW t \in Threads, NewWrite(t) PROVE FileTypes'
  <2>1. NextId(snap[t]) \in Ids
    BY <1>1, NumberFits DEF NewWrite
  <2>2. rec'[t] = [rec[t] EXCEPT !.id = NextId(snap[t])]
    BY <1>1 DEF NewWrite, LocalTypes
  <2>3. rec[t] \in Report \cup Draft /\ rec[t].doc \in Ids
    BY <1>1 DEF NewWrite, LocalTypes, PlaceInv, PlaceOf
  <2>4. rec'[t] \in Report
    BY <2>1, <2>2, <2>3 DEF Report, Draft
  <2> QED
    BY <1>1, <2>4 DEF NewWrite, LocalTypes
<1>2. ASSUME NEW t \in Threads, PutWrite(t) PROVE FileTypes'
  BY <1>2 DEF PutWrite, Saved, LocalTypes, PlaceInv, PlaceOf
<1>3. ASSUME NEW t \in Threads, RemoveWrite(t) PROVE FileTypes'
  BY <1>3 DEF RemoveWrite, LocalTypes
<1>4. ASSUME NEW t \in Threads, Unschedule(t) PROVE FileTypes'
  BY <1>4 DEF Unschedule, Unscheduled, LocalTypes, Schedule
<1>5. ASSUME NEW t \in Threads, StageWrite(t) PROVE FileTypes'
  <2>1. Len(exports') \in 1 .. MaxExports
    BY <1>5, BoundAssumption DEF StageWrite, HistoryTypes
  <2>2. todo[t] \subseteq Ids /\ plan[t] \in Schedule
    BY DEF LocalTypes
  <2>3. [export |-> Len(exports'), ids |-> todo[t], stamp |-> 0] \in Batch
    BY <2>1, <2>2 DEF Batch
  <2> QED
    BY <1>5, <2>2, <2>3 DEF StageWrite, Schedule
<1>6. ASSUME NEW t \in Threads, ConfirmWrite(t) PROVE FileTypes'
  <2>1. plan[t].staged \in Batch \cup {NoBatch}
    BY DEF LocalTypes, Schedule
  <2>2. plan[t].staged # NoBatch
    BY <1>6 DEF ConfirmWrite, PlaceInv, PlaceOf, NoBatch
  <2>3. Len(verified) \in Nat
    BY DEF HistoryTypes
  <2>4. Confirmed(plan[t].staged) \in Batch
    BY <2>1, <2>2, <2>3 DEF Confirmed, Batch
  <2> QED
    BY <1>6, <2>4 DEF ConfirmWrite, Schedule
<1> QED
  BY <1>1, <1>2, <1>3, <1>4, <1>5, <1>6, Writers

\* The locals.
LEMMA LocalsKept ==
  ASSUME TypeOK, CountInv, PlaceInv, Next
  PROVE  LocalTypes'
<1> USE DEF TypeOK, FileTypes, LocalTypes, Goes, Pc
<1>1. ASSUME NEW t \in Threads, Create(t) PROVE LocalTypes'
  <2>1. [NoReport EXCEPT !.doc = born + 1] \in Draft
    BY <1>1, BoundAssumption DEF Create, HistoryTypes, NoReport, Draft, Ids
  <2> QED
    BY <1>1, <2>1 DEF Create
<1>2. ASSUME NEW t \in Threads, Approve(t) PROVE LocalTypes'
  <2>1. PICK r \in reports : rec' = [rec EXCEPT ![t] = [r EXCEPT !.status = "approved"]]
    BY <1>2 DEF Approve
  <2>2. [r EXCEPT !.status = "approved"] \in Report
    BY DEF Report
  <2> QED
    BY <1>2, <2>1, <2>2 DEF Approve
<1>3. ASSUME NEW t \in Threads, Discard(t) \/ Delete(t) PROVE LocalTypes'
  <2>1. \A r \in reports : {r.id} \subseteq Ids
    BY DEF Report
  <2> QED
    BY <1>3, <2>1 DEF Discard, Delete
<1>4. ASSUME NEW t \in Threads, Export(t) PROVE LocalTypes'
  <2>1. \A list \in SUBSET reports : IdsOf(list) \subseteq Ids
    BY DEF Report, IdsOf
  <2> QED
    BY <1>4, <2>1 DEF Export
<1>5. ASSUME NEW t \in Threads, Stage(t) PROVE LocalTypes'
  BY <1>5 DEF Stage
<1>6. ASSUME NEW t \in Threads, StartsPurge(t), UNCHANGED <<snap, rec, target>>,
             export' = export \/ export' \in [Threads -> 0 .. MaxExports]
      PROVE  LocalTypes'
  <2>1. schedule.scheduled \in Batch \cup {NoBatch}
    BY DEF Schedule
  <2>2. schedule.scheduled.ids \subseteq Ids
    BY <2>1 DEF Batch, NoBatch
  <2> QED
    BY <1>6, <2>2 DEF StartsPurge
<1>7. ASSUME NEW t \in Threads, Confirm(t) PROVE LocalTypes'
  <2>1. PICK e \in 1 .. Len(exports) : export' = [export EXCEPT ![t] = e]
    BY <1>7 DEF Confirm
  <2>2. e \in 0 .. MaxExports
    BY BoundAssumption DEF HistoryTypes
  <2>3. export' \in [Threads -> 0 .. MaxExports]
    BY <2>1, <2>2
  <2> QED
    BY <1>6, <1>7, <2>3 DEF Confirm
<1>8. ASSUME NEW t \in Threads, NewLoad(t) \/ PutLoad(t) PROVE LocalTypes'
  BY <1>8 DEF NewLoad, PutLoad, Load
<1>9. ASSUME NEW t \in Threads, NewWrite(t) PROVE LocalTypes'
  <2>1. NextId(snap[t]) \in Ids
    BY <1>9, NumberFits DEF NewWrite
  <2>2. rec[t] \in Report \cup Draft /\ rec[t].doc \in Ids
    BY <1>9 DEF NewWrite, PlaceInv, PlaceOf
  <2>3. [rec[t] EXCEPT !.id = NextId(snap[t])] \in Report
    BY <2>1, <2>2 DEF Report, Draft
  <2> QED
    BY <1>9, <2>3 DEF NewWrite
<1>10. ASSUME NEW t \in Threads, PutWrite(t) \/ StageWrite(t) \/ ConfirmWrite(t)
       PROVE  LocalTypes'
  BY <1>10, ReturnsLocals DEF PutWrite, StageWrite, ConfirmWrite
<1>11. ASSUME NEW t \in Threads, RemovedAll(t) PROVE LocalTypes'
  BY <1>11, ReturnsLocals DEF RemovedAll
<1>12. ASSUME NEW t \in Threads, RemoveLoad(t) PROVE LocalTypes'
  BY <1>11, <1>12 DEF RemoveLoad
<1>13. ASSUME NEW t \in Threads, RemoveWrite(t) PROVE LocalTypes'
  BY <1>11, <1>13 DEF RemoveWrite
<1>14. ASSUME NEW t \in Threads, Unschedule(t) PROVE LocalTypes'
  BY <1>14, ReturnsLocals, Neutral DEF Unschedule
<1>15. ASSUME NEW t \in Threads, Copy(t) PROVE LocalTypes'
  <2>1. \A list \in SUBSET (snap[t] \cup reports) :
          list \subseteq Report /\ IdsOf(list) \subseteq Ids
    BY DEF Report, IdsOf
  <2>2. ASSUME NEW list \in SUBSET (snap[t] \cup reports),
               snap' = [snap EXCEPT ![t] = list],
               todo' = [todo EXCEPT ![t] = IdsOf(list)],
               Goes(t, "stage"), UNCHANGED <<rec, target, plan, export>>
        PROVE  LocalTypes'
    BY <2>1, <2>2
  <2>3. Returns(t) \/ \E list \in SUBSET (snap[t] \cup reports) :
          /\ snap' = [snap EXCEPT ![t] = list]
          /\ todo' = [todo EXCEPT ![t] = IdsOf(list)]
          /\ Goes(t, "stage")
          /\ UNCHANGED <<rec, target, plan, export>>
    BY <1>15 DEF Copy
  <2> QED
    BY <2>2, <2>3, ReturnsLocals
<1>16. ASSUME NEW t \in Threads, StageLoad(t) PROVE LocalTypes'
  BY <1>16 DEF StageLoad
<1>17. ASSUME NEW t \in Threads, ConfirmLoad(t) PROVE LocalTypes'
  BY <1>17, ReturnsLocals DEF ConfirmLoad
<1>18. ASSUME Purge PROVE LocalTypes'
  BY <1>6, <1>18 DEF Purge
<1>19. ASSUME DayPasses PROVE LocalTypes'
  BY <1>19 DEF DayPasses
<1>20. ASSUME Crash PROVE LocalTypes'
  BY <1>20, Neutral, BoundAssumption DEF Crash
<1> QED
  BY <1>1, <1>2, <1>3, <1>4, <1>5, <1>7, <1>8, <1>9, <1>10, <1>12, <1>13, <1>14,
     <1>15, <1>16, <1>17, <1>18, <1>19, <1>20, Steps

\* Time and history.
LEMMA HistoryKept ==
  ASSUME TypeOK, CountInv, PlaceInv, Next
  PROVE  HistoryTypes'
<1> USE DEF TypeOK, HistoryTypes
<1>1. ASSUME NEW t \in Threads, Create(t) PROVE HistoryTypes'
  BY <1>1, BoundAssumption DEF Create
<1>2. ASSUME NEW t \in Threads, Delete(t) PROVE HistoryTypes'
  BY <1>2 DEF Delete, FileTypes, Report
<1>3. ASSUME NEW t \in Threads, StageWrite(t) PROVE HistoryTypes'
  <2>1. {r.doc : r \in snap[t]} \subseteq Ids /\ todo[t] \subseteq Ids
    BY DEF LocalTypes, Report
  <2>2. Len(exports') = Len(exports) + 1 /\ Len(exports') <= MaxExports
    BY <1>3, BoundAssumption DEF StageWrite
  <2>3. exports' \in Seq([ids : SUBSET Ids, docs : SUBSET Ids])
    BY <1>3, <2>1 DEF StageWrite
  <2> QED
    BY <1>3, <2>2, <2>3 DEF StageWrite
<1>4. ASSUME NEW t \in Threads, ConfirmWrite(t) PROVE HistoryTypes'
  <2>1. export[t] \in 1 .. MaxExports
    BY <1>4 DEF ConfirmWrite, PlaceInv, PlaceOf
  <2> QED
    BY <1>4, <2>1 DEF ConfirmWrite
<1>5. ASSUME DayPasses PROVE HistoryTypes'
  BY <1>5 DEF DayPasses
<1>6. ASSUME Crash PROVE HistoryTypes'
  BY <1>6, BoundAssumption DEF Crash
<1>7. ASSUME UNCHANGED <<now, born, exports, verified, asked, crashes>>
      PROVE  HistoryTypes'
  BY <1>7
<1> QED
  BY <1>1, <1>2, <1>3, <1>4, <1>5, <1>6, <1>7, Steps
     DEF Approve, Discard, Export, Stage, Confirm, NewLoad, PutLoad, Load, NewWrite,
         PutWrite, RemoveLoad, RemoveWrite, Unschedule, Copy, StageLoad, ConfirmLoad,
         Purge

LEMMA TypesKept ==
  ASSUME TypeOK, CountInv, PlaceInv, Next
  PROVE  TypeOK'
  BY FilesKept, LocalsKept, HistoryKept DEF TypeOK

(***************************************************************************)
(* Places                                                                  *)
(***************************************************************************)
SameLocals(t) ==
  /\ pc'[t] = pc[t] /\ snap'[t] = snap[t] /\ rec'[t] = rec[t] /\ todo'[t] = todo[t]
  /\ target'[t] = target[t] /\ plan'[t] = plan[t] /\ export'[t] = export[t]

\* A thread changes its own locals only.
LEMMA Frame ==
  ASSUME LocalTypes, NEW t \in Threads, Request(t) \/ Step(t) \/ (Purge /\ t = Purger)
  PROVE  \A u \in Threads \ {t} : SameLocals(u)
<1> USE DEF LocalTypes, SameLocals, Goes, Returns
<1>1. CASE Request(t)
  BY <1>1 DEF Request, Create, Approve, Discard, Delete, Export, Stage, Confirm,
     StartsPurge
<1>2. CASE NewLoad(t) \/ PutLoad(t) \/ NewWrite(t) \/ PutWrite(t)
  BY <1>2 DEF NewLoad, PutLoad, Load, NewWrite, PutWrite
<1>3. CASE RemoveLoad(t) \/ RemoveWrite(t)
  BY <1>3 DEF RemoveLoad, RemoveWrite, RemovedAll
<1>4. CASE Unschedule(t) \/ Copy(t)
  BY <1>4 DEF Unschedule, Copy
<1>5. CASE StageLoad(t) \/ StageWrite(t) \/ ConfirmLoad(t) \/ ConfirmWrite(t)
  BY <1>5 DEF StageLoad, StageWrite, ConfirmLoad, ConfirmWrite
<1>6. CASE Purge /\ t = Purger
  BY <1>6 DEF Purge, StartsPurge
<1> QED
  BY <1>1, <1>2, <1>3, <1>4, <1>5, <1>6 DEF Step

LEMMA PlacesKept ==
  ASSUME TypeOK, CountInv, PlaceInv, Next
  PROVE  PlaceInv'
<1> USE DEF TypeOK, LocalTypes, Goes, PlanPcs
<1>1. ASSUME NEW u \in Threads, SameLocals(u) PROVE PlaceOf(u)'
  BY <1>1 DEF SameLocals, PlaceInv, PlaceOf
<1>2. ASSUME NEW t \in Threads, Returns(t) PROVE PlaceOf(t)'
  BY <1>2 DEF Returns, PlaceOf
<1>3. ASSUME NEW t \in Threads, Request(t) PROVE PlaceOf(t)'
  <2> USE DEF Takes, Begins, PlaceInv, PlaceOf
  <2>1. CASE Create(t)
    <3>1. rec'[t].doc = born + 1
      BY <2>1 DEF Create, NoReport
    <3>2. born + 1 \in Ids
      BY <2>1, BoundAssumption DEF Create, HistoryTypes, Ids
    <3> QED
      BY <2>1, <3>1, <3>2 DEF Create
  <2>2. CASE Approve(t)
    <3>1. PICK r \in reports : rec' = [rec EXCEPT ![t] = [r EXCEPT !.status = "approved"]]
      BY <2>2 DEF Approve
    <3>2. [r EXCEPT !.status = "approved"] \in Report
      BY DEF FileTypes, Report
    <3> QED
      BY <2>2, <3>1, <3>2 DEF Approve
  <2>3. CASE Discard(t) \/ Delete(t) \/ Export(t) \/ Stage(t)
    BY <2>3 DEF Discard, Delete, Export, Stage
  <2>4. CASE Confirm(t)
    <3>1. PICK e \in 1 .. Len(exports) : export' = [export EXCEPT ![t] = e]
      BY <2>4 DEF Confirm
    <3>2. e \in 1 .. MaxExports
      BY BoundAssumption DEF HistoryTypes
    <3> QED
      BY <2>4, <3>1, <3>2 DEF Confirm, StartsPurge
  <2> QED
    BY <1>3, <2>1, <2>2, <2>3, <2>4 DEF Request
<1>4. ASSUME NEW t \in Threads, RemovedAll(t) PROVE PlaceOf(t)'
  BY <1>2, <1>4 DEF RemovedAll, PlaceInv, PlaceOf
<1>5. ASSUME NEW t \in Threads, Step(t) PROVE PlaceOf(t)'
  <2> USE DEF PlaceInv, PlaceOf
  <2>1. CASE NewLoad(t) \/ PutLoad(t)
    BY <2>1 DEF NewLoad, PutLoad, Load
  <2>2. CASE NewWrite(t)
    <3>1. rec'[t] \in reports'
      BY <2>2 DEF NewWrite
    <3>2. reports' \subseteq Report
      BY TypesKept DEF FileTypes
    <3> QED
      BY <2>2, <3>1, <3>2 DEF NewWrite
  <2>3. CASE PutWrite(t) \/ StageWrite(t) \/ ConfirmWrite(t)
    BY <1>2, <2>3 DEF PutWrite, StageWrite, ConfirmWrite
  <2>4. CASE RemoveLoad(t) \/ RemoveWrite(t)
    BY <1>4, <2>4 DEF RemoveLoad, RemoveWrite
  <2>5. CASE Unschedule(t)
    BY <1>2, <2>5 DEF Unschedule
  <2>6. CASE Copy(t)
    BY <1>2, <2>6 DEF Copy
  <2>7. CASE StageLoad(t)
    BY <2>7 DEF StageLoad
  <2>8. CASE ConfirmLoad(t)
    BY <1>2, <2>8 DEF ConfirmLoad, IsStaged
  <2> QED
    BY <1>5, <2>1, <2>2, <2>3, <2>4, <2>5, <2>6, <2>7, <2>8 DEF Step
<1>6. ASSUME Purge PROVE PlaceOf(Purger)'
  BY <1>6 DEF Purge, Begins, StartsPurge, PlaceInv, PlaceOf
<1>7. CASE DayPasses
  BY <1>1, <1>7 DEF DayPasses, SameLocals, PlaceInv
<1>8. CASE Crash
  BY <1>8 DEF Crash, PlaceInv, PlaceOf
<1>9. ASSUME NEW t \in Threads, Request(t) \/ Step(t) \/ (Purge /\ t = Purger)
      PROVE  PlaceInv'
  BY <1>1, <1>3, <1>5, <1>6, <1>9, Frame DEF PlaceInv
<1> QED
  BY <1>7, <1>8, <1>9 DEF Next

(***************************************************************************)
(* Numbers                                                                 *)
(***************************************************************************)
\* No step but NewWrite makes a number.
LEMMA NoNewNumbers ==
  ASSUME LocalTypes, NEW t \in Threads,
         Request(t) \/ (Step(t) /\ ~NewWrite(t)) \/ (Purge /\ t = Purger)
  PROVE  Numbers' \subseteq Numbers
<1> USE DEF LocalTypes, Goes, Returns
<1> DEFINE Held == reports \cup snap[t]
<1>1. \A list \in SUBSET Held : IdsOf(list) \subseteq Numbers
  BY DEF Numbers, IdsOf
<1>2. 0 \in Numbers /\ rec[t].id \in Numbers /\ \A r \in Held : r.id \in Numbers
  BY DEF Numbers, IdsOf
<1>3. ASSUME reports' \subseteq Held \cup {rec[t]}, snap'[t] \subseteq Held,
             rec'[t].id \in Numbers
      PROVE  Numbers' \subseteq Numbers
  <2>1. IdsOf(reports') \subseteq Numbers
    BY <1>2, <1>3 DEF IdsOf
  <2>2. IdsOf(snap'[t]) \subseteq Numbers
    BY <1>1, <1>3
  <2>3. \A u \in Threads \ {t} : snap'[u] = snap[u] /\ rec'[u] = rec[u]
    BY Frame DEF SameLocals
  <2>4. \A u \in Threads : IdsOf(snap'[u]) \subseteq Numbers /\ rec'[u].id \in Numbers
    BY <1>3, <2>2, <2>3 DEF Numbers
  <2> QED
    BY <1>2, <2>1, <2>4 DEF Numbers
<1> HIDE DEF Held
<1>4. {} \subseteq Held /\ reports \subseteq Held /\ snap[t] \subseteq Held
  BY DEF Held
<1>5. ASSUME reports' \subseteq Held \cup {rec[t]}, Returns(t) PROVE Numbers' \subseteq Numbers
  BY <1>2, <1>3, <1>4, <1>5 DEF NoReport
<1>6. ASSUME reports' \subseteq Held, snap'[t] \subseteq Held, rec' = rec
      PROVE  Numbers' \subseteq Numbers
  BY <1>2, <1>3, <1>6
<1> USE <1>4
<1>7. CASE Request(t)
  <2>1. CASE Create(t)
    BY <1>2, <1>3, <2>1 DEF Create, NoReport
  <2>2. CASE Approve(t)
    <3>1. PICK r \in reports : rec' = [rec EXCEPT ![t] = [r EXCEPT !.status = "approved"]]
      BY <2>2 DEF Approve
    <3>2. rec'[t].id = r.id
      BY <3>1
    <3> QED
      BY <1>2, <1>3, <2>2, <3>2 DEF Approve, Held
  <2>3. CASE Discard(t) \/ Delete(t) \/ Export(t) \/ Stage(t) \/ Confirm(t)
    BY <1>6, <2>3 DEF Discard, Delete, Export, Stage, Confirm, StartsPurge
  <2> QED
    BY <1>7, <2>1, <2>2, <2>3 DEF Request
<1>8. CASE NewLoad(t) \/ PutLoad(t)
  BY <1>6, <1>8 DEF NewLoad, PutLoad, Load
<1>9. CASE PutWrite(t)
  BY <1>5, <1>9 DEF PutWrite, Saved
<1>10. CASE RemoveLoad(t) \/ RemoveWrite(t)
  BY <1>5, <1>6, <1>10 DEF RemoveLoad, RemoveWrite, RemovedAll
<1>11. CASE Unschedule(t) \/ ConfirmLoad(t)
  BY <1>5, <1>6, <1>11 DEF Unschedule, ConfirmLoad
<1>12. CASE Copy(t)
  BY <1>5, <1>6, <1>12 DEF Copy, Held
<1>13. CASE StageLoad(t) \/ StageWrite(t) \/ ConfirmWrite(t)
  BY <1>5, <1>6, <1>13 DEF StageLoad, StageWrite, ConfirmWrite
<1>14. CASE Purge /\ t = Purger
  BY <1>6, <1>14 DEF Purge, StartsPurge
<1> QED
  BY <1>7, <1>8, <1>9, <1>10, <1>11, <1>12, <1>13, <1>14 DEF Step

LEMMA NumbersNat ==
  ASSUME TypeOK
  PROVE  Numbers \subseteq Nat /\ born \in Nat
<1>1. \A r \in Report \cup Draft : r.id \in Nat
  BY BoundAssumption DEF Report, Draft, Ids
<1> QED
  BY <1>1, BoundAssumption
     DEF TypeOK, FileTypes, LocalTypes, HistoryTypes, Numbers, IdsOf

LEMMA CountShrinks ==
  ASSUME TypeOK, TypeOK', CountInv,
         Numbers' \subseteq Numbers, Unnumbered' \subseteq Unnumbered, born' = born
  PROVE  CountInv'
<1>1. IsFiniteSet(Unnumbered) /\ Cardinality(Unnumbered) \in Nat
  BY UnnumberedCount DEF TypeOK, LocalTypes
<1>2. Cardinality(Unnumbered') <= Cardinality(Unnumbered) /\ Cardinality(Unnumbered') \in Nat
  BY <1>1, FS_Subset, FS_CardinalityType
<1> QED
  BY <1>1, <1>2, NumbersNat DEF CountInv

\* Who waits for a number.
LEMMA UnnumberedSteps ==
  ASSUME LocalTypes, NEW t \in Threads, Request(t) \/ Step(t) \/ (Purge /\ t = Purger)
  PROVE  /\ Create(t) => Unnumbered' = Unnumbered \cup {t} /\ t \notin Unnumbered
         /\ NewWrite(t) => Unnumbered' = Unnumbered \ {t} /\ t \in Unnumbered
         /\ ~Create(t) /\ ~NewWrite(t) =>
              Unnumbered' \subseteq Unnumbered /\ born' = born
<1> USE DEF LocalTypes, Goes, Returns, Unnumbered
<1>1. \A u \in Threads \ {t} : pc'[u] = pc[u]
  BY Frame DEF SameLocals
<1>2. CASE Request(t)
  BY <1>1, <1>2 DEF Request, Create, Approve, Discard, Delete, Export, Stage,
     Confirm, StartsPurge, Takes, Begins, NewWrite
<1>3. CASE NewLoad(t) \/ PutLoad(t) \/ NewWrite(t) \/ PutWrite(t)
  BY <1>1, <1>3 DEF NewLoad, PutLoad, Load, NewWrite, PutWrite, Create, Takes, Begins
<1>4. CASE RemoveLoad(t) \/ RemoveWrite(t) \/ Unschedule(t) \/ Copy(t)
  BY <1>1, <1>4 DEF RemoveLoad, RemoveWrite, RemovedAll, Unschedule, Copy, Create,
     Takes, Begins, NewWrite
<1>5. CASE StageLoad(t) \/ StageWrite(t) \/ ConfirmLoad(t) \/ ConfirmWrite(t)
  BY <1>1, <1>5 DEF StageLoad, StageWrite, ConfirmLoad, ConfirmWrite, Create,
     Takes, Begins, NewWrite
<1>6. CASE Purge /\ t = Purger
  BY <1>1, <1>6 DEF Purge, StartsPurge, Begins, NewWrite, Create, Takes
<1> QED
  BY <1>2, <1>3, <1>4, <1>5, <1>6 DEF Step

LEMMA CountKept ==
  ASSUME TypeOK, CountInv, PlaceInv, Next
  PROVE  CountInv'
<1> DEFINE Waiting == Cardinality(Unnumbered)
<1>0. TypeOK' /\ LocalTypes
  BY TypesKept DEF TypeOK
<1>1. IsFiniteSet(Unnumbered) /\ Waiting \in Nat
  BY <1>0, UnnumberedCount DEF LocalTypes
<1>2. ASSUME NEW t \in Threads, Create(t), Request(t) PROVE CountInv'
  <2>1. Unnumbered' = Unnumbered \cup {t} /\ t \notin Unnumbered
    BY <1>0, <1>2, UnnumberedSteps
  <2>2. Waiting' = Waiting + 1
    BY <1>1, <2>1, FS_AddElement
  <2>3. Numbers' \subseteq Numbers
    BY <1>0, <1>2, NoNewNumbers
  <2>4. born' = born + 1
    BY <1>2 DEF Create
  <2> QED
    BY <1>1, <2>2, <2>3, <2>4, NumbersNat DEF CountInv
<1>3. ASSUME NEW t \in Threads, NewWrite(t), Step(t) PROVE CountInv'
  <2>1. Unnumbered' = Unnumbered \ {t} /\ t \in Unnumbered
    BY <1>0, <1>3, UnnumberedSteps
  <2>2. Waiting' = Waiting - 1
    BY <1>1, <2>1, FS_RemoveElement
  <2>3. NextId(snap[t]) \in Nat /\ NextId(snap[t]) + Waiting <= born + 1
    BY <1>3, NumberFits, BoundAssumption DEF NewWrite, Ids
  <2>4. Numbers' \subseteq Numbers \cup {NextId(snap[t])}
    <3>1. rec'[t].id = NextId(snap[t])
      <4>1. rec[t] \in Report \cup Draft
        BY <1>0 DEF LocalTypes
      <4>2. [rec[t] EXCEPT !.id = NextId(snap[t])].id = NextId(snap[t])
        BY <4>1 DEF Report, Draft
      <4> QED
        BY <1>0, <1>3, <4>2 DEF NewWrite, LocalTypes
    <3>2. reports' = snap[t] \cup {rec'[t]} /\ snap' = snap
      BY <1>3 DEF NewWrite
    <3>3. \A u \in Threads \ {t} : rec'[u] = rec[u]
      BY <1>0, <1>3, Frame DEF SameLocals
    <3> QED
      BY <3>1, <3>2, <3>3 DEF Numbers, IdsOf
  <2>5. born' = born
    BY <1>3 DEF NewWrite
  <2> QED
    BY <1>1, <2>2, <2>3, <2>4, <2>5, NumbersNat DEF CountInv
<1>4. ASSUME NEW t \in Threads, ~Create(t), ~NewWrite(t),
             Request(t) \/ Step(t) \/ (Purge /\ t = Purger)
      PROVE  CountInv'
  BY <1>0, <1>4, UnnumberedSteps, NoNewNumbers, CountShrinks
<1>5. CASE DayPasses
  <2>1. Numbers' = Numbers /\ Unnumbered' = Unnumbered /\ born' = born
    BY <1>5 DEF DayPasses, Numbers, Unnumbered
  <2> QED
    BY <1>0, <2>1, CountShrinks
<1>6. CASE Crash
  <2>1. Unnumbered' = {}
    BY <1>6 DEF Crash, Unnumbered
  <2>2. Numbers' \subseteq Numbers
    BY <1>6 DEF Crash, Numbers, IdsOf, NoReport
  <2> QED
    BY <1>0, <1>6, <2>1, <2>2, CountShrinks DEF Crash
<1>7. \A t \in Threads : NewWrite(t) => Step(t)
  BY DEF Step
<1>8. \A t \in Threads : Create(t) => t \in Clients
  BY DEF Create, Takes
<1>9. \A t \in Clients : Create(t) => Request(t)
  BY DEF Request
<1> QED
  BY <1>2, <1>3, <1>4, <1>5, <1>6, <1>7, <1>8, <1>9 DEF Next

LEMMA TypeInit == Init => TypeInv
<1> SUFFICES ASSUME Init PROVE TypeInv
  OBVIOUS
<1>1. TypeOK
  BY Neutral, BoundAssumption
     DEF Init, TypeOK, FileTypes, LocalTypes, HistoryTypes, Pc
<1>2. Numbers = {0} /\ Unnumbered = {}
  BY DEF Init, Numbers, IdsOf, NoReport, Unnumbered
<1>3. CountInv
  BY <1>2, FS_EmptySet DEF Init, CountInv
<1>4. PlaceInv
  BY DEF Init, PlaceInv, PlaceOf
<1> QED
  BY <1>1, <1>3, <1>4 DEF TypeInv

LEMMA TypeStep == TypeInv /\ [Next]_vars => TypeInv'
<1>1. CASE Next
  BY <1>1, TypesKept, CountKept, PlacesKept DEF TypeInv
<1>2. CASE UNCHANGED vars
  BY <1>2 DEF vars, TypeInv, TypeOK, FileTypes, LocalTypes, HistoryTypes, CountInv,
     Numbers, Unnumbered, PlaceInv, PlaceOf
<1> QED
  BY <1>1, <1>2

LEMMA TypeInvariant == Spec => []TypeInv
  BY TypeInit, TypeStep, PTL DEF Spec

(***************************************************************************)
(* The types are kept: in particular, the numbers save_report hands out    *)
(* never exceed the number of reports created, however stale its copies.   *)
(***************************************************************************)
THEOREM TypeCorrect == Spec => []TypeOK
<1>1. TypeInv => TypeOK
  BY DEF TypeInv
<1> QED
  BY <1>1, TypeInvariant, PTL

----------------------------------------------------------------------------
(***************************************************************************)
(* Keys                                                                    *)
(***************************************************************************)
CopyKeyed(t) ==
  pc[t] \in {"new.write", "put.write", "remove.write"} => Keyed(snap[t])

LEMMA KeyParts == KeyInv <=> Keyed(reports) /\ \A t \in Threads : CopyKeyed(t)
  BY DEF KeyInv, CopyKeyed

LEMMA KeyedSaved ==
  ASSUME NEW list, Keyed(list), NEW r
  PROVE  Keyed(Saved(list, r))
  BY DEF Keyed, Saved

LEMMA KeyedSubset ==
  ASSUME NEW list, Keyed(list), NEW part, part \subseteq list
  PROVE  Keyed(part)
  BY DEF Keyed

\* A new number is larger than those of the copy it was taken from.
LEMMA KeyedNew ==
  ASSUME NEW list, list \subseteq Report, Keyed(list), NEW r, r.id = NextId(list)
  PROVE  Keyed(list \cup {r})
<1>1. \A other \in list : other.id < NextId(list) /\ other.id \in Nat
  BY NextNumber, BoundAssumption DEF Report, Ids
<1>2. \A other \in list : other.id # r.id
  BY <1>1
<1> QED
  BY <1>2 DEF Keyed

LEMMA KeyStep == TypeInv /\ KeyInv /\ [Next]_vars => KeyInv'
<1> SUFFICES ASSUME TypeInv, KeyInv, [Next]_vars PROVE KeyInv'
  OBVIOUS
<1>0. LocalTypes /\ FileTypes
  BY DEF TypeInv, TypeOK
<1>1. Keyed(reports) /\ \A t \in Threads : CopyKeyed(t)
  BY KeyParts
<1>2. CASE UNCHANGED vars
  BY <1>2 DEF vars, KeyInv, Keyed
<1>3. ASSUME Next PROVE Keyed(reports')
  <2>1. ASSUME NEW t \in Threads, NewWrite(t) PROVE Keyed(reports')
    <3>1. rec'[t].id = NextId(snap[t])
      <4>1. rec[t] \in Report \cup Draft
        BY <1>0 DEF LocalTypes
      <4>2. [rec[t] EXCEPT !.id = NextId(snap[t])].id = NextId(snap[t])
        BY <4>1 DEF Report, Draft
      <4> QED
        BY <1>0, <2>1, <4>2 DEF NewWrite, LocalTypes
    <3>2. snap[t] \subseteq Report /\ Keyed(snap[t])
      BY <1>0, <1>1, <2>1 DEF LocalTypes, CopyKeyed, NewWrite
    <3>3. Keyed(snap[t] \cup {rec'[t]})
      BY <3>1, <3>2, KeyedNew
    <3> QED
      BY <2>1, <3>3 DEF NewWrite
  <2>2. ASSUME NEW t \in Threads, PutWrite(t) PROVE Keyed(reports')
    BY <1>1, <2>2, KeyedSaved DEF PutWrite, CopyKeyed
  <2>3. ASSUME NEW t \in Threads, RemoveWrite(t) PROVE Keyed(reports')
    BY <1>1, <2>3, KeyedSubset DEF RemoveWrite, CopyKeyed
  <2>4. CASE reports' = reports
    BY <1>1, <2>4
  <2> QED
    BY <1>3, <2>1, <2>2, <2>3, <2>4, Writers DEF Unschedule, StageWrite, ConfirmWrite
<1>4. ASSUME NEW u \in Threads, SameLocals(u) PROVE CopyKeyed(u)'
  BY <1>1, <1>4 DEF SameLocals, CopyKeyed
<1>5. ASSUME NEW t \in Threads, Request(t) \/ Step(t) \/ (Purge /\ t = Purger)
      PROVE  CopyKeyed(t)'
  <2> USE <1>0 DEF LocalTypes, CopyKeyed, Goes, Returns
  <2>1. CASE Request(t)
    BY <2>1 DEF Request, Create, Approve, Discard, Delete, Export, Stage, Confirm,
       StartsPurge
  <2>2. CASE NewLoad(t) \/ PutLoad(t)
    BY <1>1, <2>2 DEF NewLoad, PutLoad, Load
  <2>3. CASE NewWrite(t) \/ PutWrite(t) \/ RemoveWrite(t)
    BY <2>3 DEF NewWrite, PutWrite, RemoveWrite, RemovedAll
  <2>4. CASE RemoveLoad(t)
    BY <1>1, <2>4 DEF RemoveLoad, RemovedAll
  <2>5. CASE Unschedule(t) \/ Copy(t) \/ StageLoad(t) \/ StageWrite(t)
             \/ ConfirmLoad(t) \/ ConfirmWrite(t)
    BY <2>5 DEF Unschedule, Copy, StageLoad, StageWrite, ConfirmLoad, ConfirmWrite
  <2>6. CASE Purge /\ t = Purger
    BY <2>6 DEF Purge, StartsPurge
  <2> QED
    BY <1>5, <2>1, <2>2, <2>3, <2>4, <2>5, <2>6 DEF Step
<1>6. CASE DayPasses \/ Crash
  BY <1>1, <1>6 DEF DayPasses, Crash, KeyInv, Keyed, CopyKeyed
<1>7. ASSUME NEW t \in Threads, Request(t) \/ Step(t) \/ (Purge /\ t = Purger), Next
      PROVE  KeyInv'
  <2>1. \A u \in Threads : CopyKeyed(u)'
    BY <1>0, <1>4, <1>5, <1>7, Frame
  <2> QED
    BY <1>3, <1>7, <2>1 DEF KeyInv, CopyKeyed, Keyed
<1> QED
  BY <1>2, <1>6, <1>7 DEF Next

LEMMA KeyInvariant == Spec => []KeyInv
<1>1. Init => KeyInv
  BY DEF Init, KeyInv, Keyed
<1> QED
  BY <1>1, KeyStep, TypeInvariant, PTL DEF Spec

(***************************************************************************)
(* Numbers are keys, whatever two threads that number reports from stale   *)
(* copies overwrite of each other.                                         *)
(***************************************************************************)
THEOREM UniqueNumbers == Spec => []IdsAreKeys
<1>1. KeyInv => IdsAreKeys
  BY DEF KeyInv, Keyed, IdsAreKeys
<1> QED
  BY <1>1, KeyInvariant, PTL

----------------------------------------------------------------------------
(***************************************************************************)
(* Batches                                                                 *)
(***************************************************************************)
Extends(longer, list) ==
  /\ Len(list) <= Len(longer)
  /\ \A k \in 1 .. Len(list) : longer[k] = list[k]

\* Exports and confirmations are only added, and time goes on.
LEMMA Grows ==
  ASSUME TypeOK, Next
  PROVE  /\ Extends(exports', exports) /\ Extends(verified', verified)
         /\ now \in Nat /\ now' \in Nat /\ now <= now'
<1> USE DEF TypeOK, HistoryTypes, Extends
<1>1. ASSUME NEW t \in Threads, StageWrite(t)
      PROVE  Extends(exports', exports)
  BY <1>1 DEF StageWrite
<1>2. ASSUME NEW t \in Threads, ConfirmWrite(t)
      PROVE  Extends(verified', verified)
  BY <1>2 DEF ConfirmWrite
<1>3. exports' = exports \/ \E t \in Threads : StageWrite(t)
  BY Steps DEF Create, Approve, Discard, Delete, Export, Stage, Confirm, NewLoad,
     PutLoad, Load, NewWrite, PutWrite, RemoveLoad, RemoveWrite, Unschedule, Copy,
     StageLoad, ConfirmLoad, ConfirmWrite, Purge, DayPasses, Crash
<1>4. verified' = verified \/ \E t \in Threads : ConfirmWrite(t)
  BY Steps DEF Create, Approve, Discard, Delete, Export, Stage, Confirm, NewLoad,
     PutLoad, Load, NewWrite, PutWrite, RemoveLoad, RemoveWrite, Unschedule, Copy,
     StageLoad, StageWrite, ConfirmLoad, Purge, DayPasses, Crash
<1>5. now' = now \/ now' = now + 1
  BY Steps DEF Create, Approve, Discard, Delete, Export, Stage, Confirm, NewLoad,
     PutLoad, Load, NewWrite, PutWrite, RemoveLoad, RemoveWrite, Unschedule, Copy,
     StageLoad, StageWrite, ConfirmLoad, ConfirmWrite, Purge, DayPasses, Crash
<1> QED
  BY <1>1, <1>2, <1>3, <1>4, <1>5

LEMMA StaysRight ==
  ASSUME NEW s, NEW es, NEW vs, NEW longerEs, NEW longerVs,
         Len(es) \in Nat, Len(vs) \in Nat, Len(longerEs) \in Nat, Len(longerVs) \in Nat,
         Extends(longerEs, es), Extends(longerVs, vs), VerifiedRight(es, vs),
         Right(s, es, vs)
  PROVE  Right(s, longerEs, longerVs) /\ VerifiedRight(longerEs, vs)
  BY DEF Extends, VerifiedRight, Right, StagedRight, ScheduledRight

\* A thread's copy of the schedule is the file's, or the one it had.
LEMMA PlansFrom ==
  ASSUME LocalTypes, Next
  PROVE  \A t \in Threads : plan'[t] \in {plan[t], schedule, NoSchedule}
<1> DEFINE From(u) == plan'[u] \in {plan[u], schedule, NoSchedule}
<1>1. ASSUME NEW t \in Threads, Request(t) \/ Step(t) \/ (Purge /\ t = Purger)
      PROVE  From(t)
  <2> USE DEF LocalTypes, Returns
  <2>1. CASE Request(t)
    BY <2>1 DEF Request, Create, Approve, Discard, Delete, Export, Stage, Confirm,
       StartsPurge
  <2>2. CASE NewLoad(t) \/ PutLoad(t) \/ NewWrite(t) \/ PutWrite(t)
    BY <2>2 DEF NewLoad, PutLoad, Load, NewWrite, PutWrite
  <2>3. CASE RemoveLoad(t) \/ RemoveWrite(t)
    BY <2>3 DEF RemoveLoad, RemoveWrite, RemovedAll
  <2>4. CASE Unschedule(t) \/ Copy(t)
    BY <2>4 DEF Unschedule, Copy
  <2>5. CASE StageLoad(t) \/ StageWrite(t) \/ ConfirmLoad(t) \/ ConfirmWrite(t)
    BY <2>5 DEF StageLoad, StageWrite, ConfirmLoad, ConfirmWrite
  <2>6. CASE Purge /\ t = Purger
    BY <2>6 DEF Purge, StartsPurge
  <2> QED
    BY <1>1, <2>1, <2>2, <2>3, <2>4, <2>5, <2>6 DEF Step
<1>2. ASSUME NEW t \in Threads, Request(t) \/ Step(t) \/ (Purge /\ t = Purger)
      PROVE  \A u \in Threads : From(u)
  <2>1. \A u \in Threads \ {t} : plan'[u] = plan[u]
    BY <1>2, Frame DEF SameLocals
  <2> QED
    BY <1>1, <1>2, <2>1
<1>3. CASE DayPasses \/ Crash
  BY <1>3 DEF DayPasses, Crash
<1> QED
  BY <1>2, <1>3 DEF Next

LEMMA BatchStep == TypeInv /\ BatchInv /\ [Next]_vars => BatchInv'
<1> SUFFICES ASSUME TypeInv, BatchInv, [Next]_vars PROVE BatchInv'
  OBVIOUS
<1>1. CASE UNCHANGED vars
  BY <1>1 DEF vars, BatchInv
<1>2. CASE Next
  <2>1. TypeOK /\ TypeOK' /\ LocalTypes /\ PlaceInv
    BY <1>2, TypeStep DEF TypeInv, TypeOK
  <2>2. Extends(exports', exports) /\ Extends(verified', verified)
    BY <1>2, <2>1, Grows
  <2>3. /\ Len(exports) \in Nat /\ Len(exports') \in Nat
        /\ Len(verified) \in Nat /\ Len(verified') \in Nat
    BY <2>1 DEF TypeOK, HistoryTypes
  <2>4. \A s : Right(s, exports, verified) => Right(s, exports', verified')
    BY <2>2, <2>3, StaysRight DEF BatchInv
  <2>5. Right(NoSchedule, exports', verified')
    BY DEF Right, StagedRight, ScheduledRight, NoSchedule
  <2> DEFINE Good(s) == Right(s, exports', verified')
  <2>6. VerifiedRight(exports', verified')
    <3>1. CASE verified' = verified
      BY <2>2, <2>3, <3>1 DEF VerifiedRight, Extends, BatchInv
    <3>2. ASSUME NEW t \in Threads, ConfirmWrite(t) PROVE VerifiedRight(exports', verified')
      <4>1. export[t] \in 1 .. Len(exports)
        <5>1. export[t] \in 1 .. MaxExports /\ plan[t].staged.export = export[t]
          BY <2>1, <3>2 DEF ConfirmWrite, PlaceInv, PlaceOf
        <5>2. plan[t].staged # NoBatch
          BY <5>1 DEF NoBatch
        <5> QED
          BY <5>1, <5>2 DEF BatchInv, Right, StagedRight
      <4> QED
        BY <2>1, <3>2, <4>1 DEF ConfirmWrite, VerifiedRight, BatchInv, TypeOK, HistoryTypes
    <3>3. verified' = verified \/ \E t \in Threads : ConfirmWrite(t)
      BY <1>2, Steps DEF Create, Approve, Discard, Delete, Export, Stage, Confirm,
         NewLoad, PutLoad, Load, NewWrite, PutWrite, RemoveLoad, RemoveWrite,
         Unschedule, Copy, StageLoad, StageWrite, ConfirmLoad, Purge, DayPasses, Crash
    <3> QED
      BY <3>1, <3>2, <3>3
  <2>7. Right(schedule', exports', verified')
    <3>1. ASSUME NEW t \in Threads, Unschedule(t) PROVE Good(schedule')
      <4>1. Good(plan[t]) /\ plan[t] \in Schedule
        BY <2>1, <2>4 DEF BatchInv, LocalTypes
      <4>2. schedule' = [plan[t] EXCEPT !.scheduled = NoBatch]
        BY <3>1 DEF Unschedule, Unscheduled
      <4> QED
        BY <4>1, <4>2 DEF Right, StagedRight, ScheduledRight, Schedule
    <3>2. ASSUME NEW t \in Threads, StageWrite(t) PROVE Good(schedule')
      <4>1. Good(plan[t]) /\ plan[t] \in Schedule
        BY <2>1, <2>4 DEF BatchInv, LocalTypes
      <4>2. Len(exports') \in 1 .. Len(exports') /\ exports'[Len(exports')].ids = todo[t]
        BY <2>1, <2>3, <3>2 DEF StageWrite, TypeOK, HistoryTypes
      <4>3. schedule'.scheduled = plan[t].scheduled
        BY <3>2, <4>1 DEF StageWrite, Schedule
      <4>4. schedule'.staged = [export |-> Len(exports'), ids |-> todo[t], stamp |-> 0]
        BY <3>2, <4>1 DEF StageWrite, Schedule
      <4> QED
        BY <4>1, <4>2, <4>3, <4>4 DEF Right, StagedRight, ScheduledRight
    <3>3. ASSUME NEW t \in Threads, ConfirmWrite(t) PROVE Good(schedule')
      <4> DEFINE batch == plan[t].staged
      <4>1. export[t] \in 1 .. MaxExports /\ batch.export = export[t]
        BY <2>1, <3>3 DEF ConfirmWrite, PlaceInv, PlaceOf
      <4>2. batch # NoBatch
        BY <4>1 DEF NoBatch
      <4>3. batch \in Batch
        BY <2>1, <4>2 DEF LocalTypes, Schedule
      <4>4. export[t] \in 1 .. Len(exports) /\ batch.ids = exports[export[t]].ids
        BY <4>1, <4>2 DEF BatchInv, Right, StagedRight
      <4>5. /\ Len(verified') = Len(verified) + 1
            /\ verified'[Len(verified) + 1] = export[t]
            /\ exports' = exports
        BY <2>1, <3>3, <4>1 DEF ConfirmWrite, TypeOK, HistoryTypes
      <4>6. /\ Confirmed(batch).stamp = Len(verified) + 1
            /\ Confirmed(batch).ids = batch.ids
        BY <4>3 DEF Confirmed, Batch
      <4>7. schedule'.staged = NoBatch /\ schedule'.scheduled = Confirmed(batch)
        BY <3>3 DEF ConfirmWrite
      <4>8. Len(verified) + 1 \in 1 .. Len(verified')
        BY <2>3, <4>5
      <4> QED
        BY <4>4, <4>5, <4>6, <4>7, <4>8 DEF Right, StagedRight, ScheduledRight
    <3>4. CASE schedule' = schedule
      BY <2>4, <3>4 DEF BatchInv
    <3> QED
      BY <1>2, <3>1, <3>2, <3>3, <3>4, Writers DEF NewWrite, PutWrite, RemoveWrite
  <2>8. \A t \in Threads : plan'[t] \in {plan[t], schedule, NoSchedule}
    BY <1>2, <2>1, PlansFrom
  <2> QED
    BY <2>4, <2>5, <2>6, <2>7, <2>8 DEF BatchInv
<1> QED
  BY <1>1, <1>2

LEMMA BatchInvariant == Spec => []BatchInv
<1>1. Init => BatchInv
  BY DEF Init, BatchInv, VerifiedRight, Right, StagedRight, ScheduledRight, NoSchedule
<1> QED
  BY <1>1, BatchStep, TypeInvariant, PTL DEF Spec

----------------------------------------------------------------------------
(***************************************************************************)
(* Purges                                                                  *)
(***************************************************************************)
\* A purge starts with the batch that is due.
LEMMA PurgeStarts ==
  ASSUME LocalTypes, FileTypes, now \in Nat, NEW t \in Threads, PlaceOf(t),
         pc[t] = "idle", Due(schedule), StartsPurge(t), target' = target, now' = now
  PROVE  PurgeOf(t)'
<1>1. plan'[t] = schedule /\ todo'[t] = schedule.scheduled.ids /\ target'[t] = 0
  BY DEF LocalTypes, StartsPurge, PlaceOf
<1> QED
  BY <1>1 DEF PurgeOf, Due

LEMMA PurgeStep == TypeInv /\ PurgeInv /\ [Next]_vars => PurgeInv'
<1> SUFFICES ASSUME TypeInv, PurgeInv, [Next]_vars PROVE PurgeInv'
  OBVIOUS
<1>0. TypeOK /\ LocalTypes /\ FileTypes /\ PlaceInv /\ now \in Nat
  BY DEF TypeInv, TypeOK, HistoryTypes
<1>1. CASE UNCHANGED vars
  BY <1>1 DEF vars, PurgeInv, PurgeOf, Removing, Purging
<1>2. ASSUME NEW u \in Threads, SameLocals(u), now <= now', now' \in Nat
      PROVE  PurgeOf(u)'
  <2>1. CASE ~Removing(u)
    BY <1>2, <2>1 DEF SameLocals, PurgeOf, Removing, Purging
  <2>2. CASE Removing(u)
    <3>1. plan[u].scheduled.stamp \in Nat
      BY <1>0, <2>2 DEF LocalTypes, Schedule, Batch, NoBatch
    <3>2. /\ plan[u].scheduled.stamp <= now
          /\ todo[u] \cup ({target[u]} \ {0}) \subseteq plan[u].scheduled.ids
      BY <2>2 DEF PurgeInv, PurgeOf
    <3>3. plan[u].scheduled.stamp <= now'
      BY <1>0, <1>2, <3>1, <3>2
    <3> QED
      BY <1>2, <3>2, <3>3 DEF SameLocals, PurgeOf
  <2> QED
    BY <2>1, <2>2
<1>3. ASSUME NEW t \in Threads, Request(t) PROVE PurgeOf(t)'
  <2>1. pc[t] = "idle" /\ plan[t] = NoSchedule
    BY <1>0, <1>3 DEF Request, Create, Approve, Discard, Delete, Export, Stage, Confirm,
       Takes, Begins, PlaceInv, PlaceOf, PlanPcs
  <2>2. CASE Create(t) \/ Approve(t) \/ Discard(t) \/ Delete(t) \/ Export(t) \/ Stage(t)
    <3>1. plan' = plan
      BY <2>2 DEF Create, Approve, Discard, Delete, Export, Stage
    <3> QED
      BY <2>1, <3>1 DEF PurgeOf, Removing, Purging, NoSchedule
  <2>3. CASE Confirm(t) /\ Due(schedule)
    BY <1>0, <2>1, <2>3, PurgeStarts DEF Confirm, PlaceInv
  <2>4. CASE Confirm(t) /\ ~Due(schedule)
    BY <2>1, <2>4 DEF Confirm, PurgeOf, Removing, Purging, NoSchedule
  <2> QED
    BY <1>3, <2>2, <2>3, <2>4 DEF Request
<1>4. ASSUME NEW t \in Threads, RemoveLoad(t) PROVE PurgeOf(t)'
  <2> USE <1>0 DEF LocalTypes, Goes, Returns, PurgeOf, Removing, Purging
  <2>1. now' = now /\ PurgeOf(t) /\ pc[t] = "remove"
    BY <1>4 DEF RemoveLoad, PurgeInv
  <2>2. PICK i \in todo[t] :
          IF i \in IdsOf(reports)
          THEN /\ snap' = [snap EXCEPT ![t] = reports]
               /\ target' = [target EXCEPT ![t] = i]
               /\ todo' = [todo EXCEPT ![t] = @ \ {i}]
               /\ Goes(t, "remove.write")
               /\ UNCHANGED <<rec, plan, export>>
          ELSE IF todo[t] = {i} THEN RemovedAll(t)
          ELSE /\ todo' = [todo EXCEPT ![t] = @ \ {i}]
               /\ UNCHANGED <<pc, snap, rec, target, plan, export>>
    BY <1>4 DEF RemoveLoad
  <2>3. CASE i \in IdsOf(reports)
    <3>1. plan' = plan /\ target'[t] = i /\ todo'[t] = todo[t] \ {i}
      BY <2>2, <2>3
    <3> QED
      BY <2>1, <2>2, <3>1
  <2>4. CASE i \notin IdsOf(reports) /\ todo[t] = {i}
    BY <2>2, <2>4 DEF RemovedAll
  <2>5. CASE i \notin IdsOf(reports) /\ todo[t] # {i}
    <3>1. plan' = plan /\ target' = target /\ pc' = pc /\ todo'[t] = todo[t] \ {i}
      BY <2>2, <2>5
    <3> QED
      BY <2>1, <3>1
  <2> QED
    BY <2>3, <2>4, <2>5
<1>5. ASSUME NEW t \in Threads, RemoveWrite(t) PROVE PurgeOf(t)'
  <2> USE <1>0 DEF LocalTypes, Goes, Returns, PurgeOf, Removing, Purging
  <2>1. CASE todo[t] = {}
    BY <1>5, <2>1 DEF RemoveWrite, RemovedAll
  <2>2. CASE todo[t] # {}
    BY <1>5, <2>2 DEF RemoveWrite, PurgeInv
  <2> QED
    BY <2>1, <2>2
\* Every other step leads somewhere else.
<1>6. ASSUME NEW t \in Threads,
             \/ NewLoad(t) \/ NewWrite(t) \/ PutLoad(t) \/ PutWrite(t)
             \/ Unschedule(t) \/ Copy(t) \/ StageLoad(t) \/ StageWrite(t)
             \/ ConfirmLoad(t) \/ ConfirmWrite(t)
      PROVE  PurgeOf(t)'
  <2> USE <1>0 DEF LocalTypes, Goes, Returns, PurgeOf, Removing
  <2>1. CASE NewLoad(t) \/ NewWrite(t) \/ PutLoad(t) \/ PutWrite(t)
    BY <2>1 DEF NewLoad, PutLoad, Load, NewWrite, PutWrite
  <2>2. CASE Unschedule(t) \/ Copy(t)
    BY <2>2 DEF Unschedule, Copy
  <2>3. CASE StageLoad(t) \/ StageWrite(t) \/ ConfirmLoad(t) \/ ConfirmWrite(t)
    BY <2>3 DEF StageLoad, StageWrite, ConfirmLoad, ConfirmWrite
  <2> QED
    BY <1>6, <2>1, <2>2, <2>3
<1>7. ASSUME NEW t \in Threads, Request(t) \/ Step(t) \/ (Purge /\ t = Purger), Next
      PROVE  PurgeInv'
  <2>1. PurgeOf(t)'
    <3>1. CASE Purge /\ t = Purger
      BY <1>0, <3>1, PurgeStarts DEF Purge, Begins, PlaceInv
    <3> QED
      BY <1>3, <1>4, <1>5, <1>6, <1>7, <3>1 DEF Step
  <2>2. now <= now' /\ now' \in Nat
    BY <1>0, <1>7, Grows
  <2>3. \A u \in Threads \ {t} : SameLocals(u)
    BY <1>0, <1>7, Frame
  <2>4. \A u \in Threads \ {t} : PurgeOf(u)'
    BY <1>2, <2>2, <2>3
  <2> QED
    BY <2>1, <2>4 DEF PurgeInv
<1>8. CASE DayPasses
  <2>1. now <= now' /\ now' \in Nat
    BY <1>0, <1>8 DEF DayPasses
  <2>2. \A u \in Threads : SameLocals(u)
    BY <1>8 DEF DayPasses, SameLocals
  <2> QED
    BY <1>2, <2>1, <2>2 DEF PurgeInv
<1>9. CASE Crash
  BY <1>9 DEF Crash, PurgeInv, PurgeOf, Removing
<1> QED
  BY <1>1, <1>7, <1>8, <1>9 DEF Next

LEMMA PurgeInvariant == Spec => []PurgeInv
<1>1. Init => PurgeInv
  BY DEF Init, PurgeInv, PurgeOf, Removing
<1> QED
  BY <1>1, PurgeStep, TypeInvariant, PTL DEF Spec

(***************************************************************************)
(* A purge only takes up numbers of an export that was confirmed a day ago *)
(* or earlier: every copy of the schedule, stale or not, holds batches as  *)
(* they were confirmed, and time does not go back.                         *)
(***************************************************************************)
THEOREM PurgesConfirmed == Spec => []PurgesOnlyConfirmed
<1>1. TypeInv /\ BatchInv /\ PurgeInv => PurgesOnlyConfirmed
  <2> SUFFICES ASSUME TypeInv, BatchInv, PurgeInv, NEW t \in Threads, Removing(t)
               PROVE  todo[t] \cup ({target[t]} \ {0}) \subseteq RetentionOver
    BY DEF PurgesOnlyConfirmed, Removing
  <2> DEFINE s == plan[t].scheduled.stamp
  <2>1. /\ s <= now
        /\ todo[t] \cup ({target[t]} \ {0}) \subseteq plan[t].scheduled.ids
    BY DEF PurgeInv, PurgeOf
  <2>2. s \in 1 .. Len(verified) /\ plan[t].scheduled.ids = exports[verified[s]].ids
    BY DEF BatchInv, Right, ScheduledRight, Removing, Purging
  <2>3. s \in 1 .. now
    BY <2>1, <2>2 DEF TypeInv, TypeOK, HistoryTypes
  <2> QED
    BY <2>1, <2>2, <2>3 DEF RetentionOver
<1> QED
  BY <1>1, TypeInvariant, BatchInvariant, PurgeInvariant, PTL

----------------------------------------------------------------------------
(***************************************************************************)
(* One request at a time.  Then no copy is stale: a thread that is about to*)
(* write a file holds it as it is; the report it saves is stored already,  *)
(* or is a stored one approved; and what it removes was named, or is a     *)
(* single report that is still pending.                                    *)
(***************************************************************************)
OneInv == \A t, u \in Threads : pc[t] # "idle" /\ pc[u] # "idle" => t = u

CurrentOf(t) ==
  /\ pc[t] \in {"new.write", "put.write", "remove.write"} => snap[t] = reports
  /\ pc[t] \in {"stage.write", "confirm.write", "unschedule"} \/ Removing(t)
       => plan[t] = schedule

\* No stored report has the contents of the one that is being created.
FreshOf(t) ==
  pc[t] \in {"new", "new.write"} =>
    /\ Pending(rec[t]) /\ rec[t].doc <= born
    /\ \A r \in reports : r.doc < rec[t].doc

SavingOf(t) ==
  pc[t] \in {"put", "put.write"} =>
    \/ rec[t] \in reports
    \/ \E r \in reports : Pending(r) /\ rec[t] = [r EXCEPT !.status = "approved"]

Named == asked \cup RetentionOver
Goals(t) == todo[t] \cup ({target[t]} \ {0})

RemovalOf(t) ==
  pc[t] \in {"remove", "remove.write"} =>
    \/ Goals(t) \subseteq Named
    \/ /\ \E r \in reports : Pending(r) /\ Goals(t) = {r.id}
       /\ pc[t] = "remove.write" => todo[t] = {}

OrderOf(t) == CurrentOf(t) /\ FreshOf(t) /\ SavingOf(t) /\ RemovalOf(t)

SerialInv ==
  /\ OneInv
  /\ \A r \in reports : r.doc <= born
  /\ \A t \in Threads : OrderOf(t)

LEMMA IdleInOrder == \A t : pc[t] = "idle" => OrderOf(t)
  BY DEF OrderOf, CurrentOf, FreshOf, SavingOf, RemovalOf, Removing

\* Whoever takes a step, all others are idle, before it and after it.
LEMMA OnlyOne ==
  ASSUME Serial, LocalTypes, OneInv, NEW t \in Threads,
         Request(t) \/ Step(t) \/ (Purge /\ t = Purger)
  PROVE  /\ \A u \in Threads \ {t} : pc[u] = "idle" /\ pc'[u] = "idle"
         /\ OneInv'
<1>1. \A u \in Threads \ {t} : pc[u] = "idle"
  <2>1. CASE Request(t) \/ (Purge /\ t = Purger)
    BY <2>1 DEF Request, Create, Approve, Discard, Delete, Export, Stage, Confirm,
       Purge, Takes, Begins
  <2>2. CASE Step(t)
    <3>1. pc[t] # "idle"
      BY <2>2 DEF Step, NewLoad, PutLoad, Load, NewWrite, PutWrite, RemoveLoad,
         RemoveWrite, Unschedule, Copy, StageLoad, StageWrite, ConfirmLoad, ConfirmWrite
    <3> QED
      BY <3>1 DEF OneInv
  <2> QED
    BY <2>1, <2>2
<1>2. \A u \in Threads \ {t} : pc'[u] = "idle"
  BY <1>1, Frame DEF SameLocals
<1> QED
  BY <1>1, <1>2 DEF OneInv

\* What was named for removal stays so.
LEMMA NamedGrows ==
  ASSUME TypeOK, BatchInv, Next
  PROVE  Named \subseteq Named'
<1> USE DEF TypeOK, HistoryTypes
<1>1. asked \subseteq asked'
  BY Steps DEF Create, Approve, Discard, Delete, Export, Stage, Confirm, NewLoad,
     PutLoad, Load, NewWrite, PutWrite, RemoveLoad, RemoveWrite, Unschedule, Copy,
     StageLoad, StageWrite, ConfirmLoad, ConfirmWrite, Purge, DayPasses, Crash
<1>2. /\ Extends(exports', exports) /\ Extends(verified', verified)
      /\ now \in Nat /\ now' \in Nat /\ now <= now'
  BY Grows
<1>3. ASSUME NEW s \in 1 .. now
      PROVE  s \in 1 .. now' /\ exports'[verified'[s]].ids = exports[verified[s]].ids
  <2>1. s \in 1 .. Len(verified) /\ s \in 1 .. now'
    BY <1>2, <1>3
  <2>2. verified'[s] = verified[s] /\ verified[s] \in 1 .. Len(exports)
    BY <1>2, <2>1 DEF Extends, BatchInv, VerifiedRight
  <2>3. exports'[verified[s]] = exports[verified[s]]
    BY <1>2, <2>2 DEF Extends
  <2> QED
    BY <2>1, <2>2, <2>3
<1>4. RetentionOver \subseteq RetentionOver'
  BY <1>3 DEF RetentionOver
<1> QED
  BY <1>1, <1>4 DEF Named

\* A request finds every thread idle, and leaves the stored reports alone.
LEMMA RequestInOrder ==
  ASSUME Serial, TypeInv, BatchInv, SerialInv, Next, NEW t \in Threads,
         Request(t) \/ (Purge /\ t = Purger)
  PROVE  OrderOf(t)'
<1> USE DEF TypeInv, TypeOK, LocalTypes, Goes, OrderOf, CurrentOf, FreshOf, SavingOf,
            RemovalOf
<1>1. /\ pc[t] = "idle" /\ plan[t] = NoSchedule /\ target[t] = 0
      /\ reports' = reports /\ schedule' = schedule
  <2>1. pc[t] = "idle" /\ reports' = reports /\ schedule' = schedule
    BY DEF Request, Create, Approve, Discard, Delete, Export, Stage, Confirm, Purge,
       Takes, Begins
  <2> QED
    BY <2>1 DEF PlaceInv, PlaceOf, PlanPcs
<1>2. CASE Create(t)
  <2>1. pc'[t] = "new" /\ rec'[t] = [NoReport EXCEPT !.doc = born + 1] /\ born' = born + 1
    BY <1>2 DEF Create
  <2>2. rec'[t].doc = born + 1 /\ rec'[t].status = "pending"
    BY <2>1 DEF NoReport
  <2>3. \A r \in reports : r.doc \in Nat /\ r.doc <= born /\ born \in Nat
    BY BoundAssumption DEF SerialInv, FileTypes, Report, Ids, HistoryTypes
  <2>4. \A r \in reports : r.doc < born + 1
    BY <2>3
  <2>5. born' <= born' /\ rec'[t].doc <= born'
    BY <2>1, <2>2, BoundAssumption DEF HistoryTypes
  <2> QED
    BY <1>1, <2>1, <2>2, <2>4, <2>5 DEF Pending, Removing
<1>3. CASE Approve(t)
  <2>1. PICK r \in reports :
          Pending(r) /\ rec' = [rec EXCEPT ![t] = [r EXCEPT !.status = "approved"]]
    BY <1>3 DEF Approve
  <2>2. pc'[t] = "put" /\ rec'[t] = [r EXCEPT !.status = "approved"]
    BY <1>3, <2>1 DEF Approve
  <2> QED
    BY <1>1, <2>1, <2>2 DEF Removing
<1>4. CASE Discard(t)
  <2>1. PICK r \in reports : MayDiscard(r) /\ todo' = [todo EXCEPT ![t] = {r.id}]
    BY <1>4 DEF Discard
  <2>2. pc'[t] = "remove" /\ plan'[t] = NoSchedule /\ target'[t] = 0 /\ todo'[t] = {r.id}
    BY <1>1, <1>4, <2>1 DEF Discard
  <2>3. Goals(t)' = {r.id}
    BY <2>2 DEF Goals
  <2> QED
    BY <1>1, <2>1, <2>2, <2>3 DEF MayDiscard, Removing, Purging, NoSchedule
<1>5. CASE Delete(t)
  <2>1. PICK r \in reports :
          todo' = [todo EXCEPT ![t] = {r.id}] /\ asked' = asked \cup {r.id}
    BY <1>5 DEF Delete
  <2>2. pc'[t] = "remove" /\ plan'[t] = NoSchedule /\ target'[t] = 0 /\ todo'[t] = {r.id}
    BY <1>1, <1>5, <2>1 DEF Delete
  <2>3. Goals(t)' \subseteq Named'
    BY <2>1, <2>2 DEF Goals, Named
  <2> QED
    BY <2>2, <2>3 DEF Removing, Purging, NoSchedule
<1>6. CASE Export(t) \/ Stage(t)
  BY <1>6 DEF Export, Stage, Removing
<1>7. ASSUME StartsPurge(t), Due(schedule), target' = target,
             UNCHANGED <<asked, now, exports, verified>>
      PROVE  OrderOf(t)'
  <2>1. /\ pc'[t] = "remove" /\ plan'[t] = schedule /\ target'[t] = 0
        /\ todo'[t] = schedule.scheduled.ids
    BY <1>1, <1>7 DEF StartsPurge
  <2> DEFINE s == schedule.scheduled.stamp
  <2>2. s <= now /\ s \in 1 .. Len(verified) /\ schedule.scheduled.ids = exports[verified[s]].ids
    BY <1>7 DEF Due, BatchInv, Right, ScheduledRight
  <2>3. s \in 1 .. now
    BY <2>2 DEF HistoryTypes
  <2>4. schedule.scheduled.ids \subseteq RetentionOver
    BY <2>2, <2>3 DEF RetentionOver
  <2>5. RetentionOver' = RetentionOver
    BY <1>7 DEF RetentionOver
  <2>6. Goals(t)' \subseteq Named'
    BY <2>1, <2>4, <2>5 DEF Goals, Named
  <2> QED
    BY <1>1, <2>1, <2>6
<1>8. CASE Confirm(t)
  <2>1. CASE Due(schedule)
    BY <1>7, <1>8, <2>1 DEF Confirm
  <2>2. CASE ~Due(schedule)
    BY <1>8, <2>2 DEF Confirm, Removing
  <2> QED
    BY <2>1, <2>2
<1>9. CASE Purge /\ t = Purger
  BY <1>7, <1>9 DEF Purge
<1> QED
  BY <1>2, <1>3, <1>4, <1>5, <1>6, <1>8, <1>9 DEF Request

\* A thread that is back at its start, or at the next request.
LEMMA ReturnsInOrder ==
  ASSUME LocalTypes, NEW t \in Threads, Returns(t)
  PROVE  OrderOf(t)'
<1>1. pc'[t] = "idle"
  BY DEF LocalTypes, Returns, Goes
<1> QED
  BY <1>1 DEF OrderOf, CurrentOf, FreshOf, SavingOf, RemovalOf, Removing

\* After its last number a purge has the schedule as it is.
LEMMA RemovedInOrder ==
  ASSUME TypeInv, SerialInv, NEW t \in Threads, pc[t] \in {"remove", "remove.write"},
         RemovedAll(t), schedule' = schedule
  PROVE  OrderOf(t)'
<1> USE DEF TypeInv, TypeOK, LocalTypes
<1>1. CASE Purging(t)
  <2>1. pc'[t] = "unschedule" /\ plan'[t] = plan[t]
    BY <1>1 DEF RemovedAll, Goes
  <2>2. plan[t] = schedule
    BY <1>1 DEF SerialInv, OrderOf, CurrentOf, Removing
  <2> QED
    BY <2>1, <2>2 DEF OrderOf, CurrentOf, FreshOf, SavingOf, RemovalOf, Removing
<1>2. CASE ~Purging(t)
  BY <1>2, ReturnsInOrder DEF RemovedAll
<1> QED
  BY <1>1, <1>2

\* What NewWrite, PutWrite and RemoveWrite make of the list, when the copy they
\* write back is the list itself.
LEMMA NewWritten ==
  ASSUME TypeInv, SerialInv, NEW t \in Threads, NewWrite(t)
  PROVE  /\ reports' = reports \cup {rec'[t]}
         /\ rec'[t].doc = rec[t].doc /\ rec'[t].id = NextId(reports)
         /\ Pending(rec'[t])
         /\ \A r \in reports : r.doc # rec'[t].doc /\ r.id # rec'[t].id
<1> USE DEF TypeInv, TypeOK, LocalTypes
<1>1. snap[t] = reports /\ reports \subseteq Report
  BY DEF SerialInv, OrderOf, CurrentOf, NewWrite, FileTypes
<1>2. rec'[t] = [rec[t] EXCEPT !.id = NextId(reports)]
  BY <1>1 DEF NewWrite
<1>3. rec[t] \in Report \cup Draft /\ rec[t].doc \in Ids
  BY DEF NewWrite, PlaceInv, PlaceOf
<1>4. /\ rec'[t].doc = rec[t].doc /\ rec'[t].id = NextId(reports)
      /\ rec'[t].status = rec[t].status
  BY <1>2, <1>3 DEF Report, Draft
<1>5. Pending(rec[t]) /\ \A r \in reports : r.doc < rec[t].doc
  BY DEF SerialInv, OrderOf, FreshOf, NewWrite
<1>6. \A r \in reports : r.id \in Nat /\ r.id < NextId(reports) /\ r.doc \in Nat
  BY <1>1, NextNumber, BoundAssumption DEF Report, Ids
<1>7. \A r \in reports : r.doc # rec'[t].doc /\ r.id # rec'[t].id
  BY <1>3, <1>4, <1>5, <1>6, BoundAssumption DEF Ids
<1> QED
  BY <1>1, <1>4, <1>5, <1>7 DEF NewWrite, Pending

LEMMA PutWritten ==
  ASSUME TypeInv, KeyInv, SerialInv, NEW t \in Threads, PutWrite(t)
  PROVE  \/ reports' = reports
         \/ \E r \in reports :
              /\ Pending(r)
              /\ reports' = (reports \ {r}) \cup {[r EXCEPT !.status = "approved"]}
<1>1. snap[t] = reports /\ reports \subseteq Report /\ Keyed(reports)
  BY DEF TypeInv, TypeOK, SerialInv, OrderOf, CurrentOf, PutWrite, FileTypes, KeyInv
<1>2. reports' = {other \in reports : other.id # rec[t].id} \cup {rec[t]}
  BY <1>1 DEF PutWrite, Saved
<1>3. CASE rec[t] \in reports
  <2>1. \A other \in reports : other.id = rec[t].id => other = rec[t]
    BY <1>1, <1>3 DEF Keyed
  <2> QED
    BY <1>2, <1>3, <2>1
<1>4. ASSUME NEW r \in reports, Pending(r), rec[t] = [r EXCEPT !.status = "approved"]
      PROVE  reports' = (reports \ {r}) \cup {[r EXCEPT !.status = "approved"]}
  <2>1. rec[t].id = r.id
    BY <1>4
  <2>2. \A other \in reports : other.id = r.id => other = r
    BY <1>1 DEF Keyed
  <2>3. {other \in reports : other.id # r.id} = reports \ {r}
    BY <2>2
  <2> QED
    BY <1>2, <1>4, <2>1, <2>3
<1> QED
  BY <1>3, <1>4 DEF SerialInv, OrderOf, SavingOf, PutWrite

LEMMA Removed ==
  ASSUME TypeInv, KeyInv, SerialInv, NEW t \in Threads, RemoveWrite(t)
  PROVE  \/ reports' = reports
         \/ \E r \in reports : /\ r.id \in Named \/ Pending(r)
                               /\ reports' = reports \ {r}
<1>1. snap[t] = reports /\ reports \subseteq Report /\ Keyed(reports)
  BY DEF TypeInv, TypeOK, SerialInv, OrderOf, CurrentOf, RemoveWrite, FileTypes, KeyInv
<1>2. reports' = {r \in reports : r.id # target[t]}
  BY <1>1 DEF RemoveWrite
<1>3. CASE \A r \in reports : r.id # target[t]
  BY <1>2, <1>3
<1>4. ASSUME NEW r \in reports, r.id = target[t]
      PROVE  (r.id \in Named \/ Pending(r)) /\ reports' = reports \ {r}
  <2>1. \A other \in reports : other.id = r.id => other = r
    BY <1>1 DEF Keyed
  <2>2. reports' = reports \ {r}
    BY <1>2, <1>4, <2>1
  <2>3. r.id \in Goals(t)
    <3>1. r.id # 0
      BY <1>1, BoundAssumption DEF Report, Ids
    <3> QED
      BY <1>4, <3>1 DEF Goals
  <2>4. Goals(t) \subseteq Named \/ \E other \in reports : Pending(other) /\ Goals(t) = {other.id}
    BY DEF SerialInv, OrderOf, RemovalOf, RemoveWrite
  <2> QED
    BY <2>1, <2>2, <2>3, <2>4
<1> QED
  BY <1>3, <1>4

\* Contents are no newer than the last report created.
LEMMA ContentsKept ==
  ASSUME TypeInv, KeyInv, SerialInv, Next
  PROVE  \A r \in reports' : r.doc <= born'
<1> USE DEF TypeInv, TypeOK
<1>1. born' \in Nat /\ born \in Nat /\ born <= born'
  <2>1. born' = born \/ born' = born + 1
    BY Steps DEF Create, Approve, Discard, Delete, Export, Stage, Confirm, NewLoad,
       PutLoad, Load, NewWrite, PutWrite, RemoveLoad, RemoveWrite, Unschedule, Copy,
       StageLoad, StageWrite, ConfirmLoad, ConfirmWrite, Purge, DayPasses, Crash
  <2> QED
    BY <2>1, BoundAssumption DEF HistoryTypes
<1>2. \A r \in reports : r.doc \in Nat /\ r.doc <= born'
  BY <1>1, BoundAssumption DEF SerialInv, FileTypes, Report, Ids
<1>3. ASSUME NEW t \in Threads, NewWrite(t) PROVE \A r \in reports' : r.doc <= born'
  <2>1. rec[t].doc <= born /\ rec[t].doc \in Nat
    BY <1>3, BoundAssumption
       DEF SerialInv, OrderOf, FreshOf, NewWrite, PlaceInv, PlaceOf, Ids
  <2>2. rec'[t].doc <= born'
    BY <1>1, <1>3, <2>1, NewWritten
  <2> QED
    BY <1>2, <1>3, <2>2, NewWritten
<1>4. ASSUME NEW t \in Threads, PutWrite(t) PROVE \A r \in reports' : r.doc <= born'
  <2>1. \A r \in reports : [r EXCEPT !.status = "approved"].doc = r.doc
    BY DEF FileTypes, Report
  <2>2. KeyInv /\ SerialInv /\ TypeInv
    OBVIOUS
  <2>3. ASSUME NEW r \in reports,
               reports' = (reports \ {r}) \cup {[r EXCEPT !.status = "approved"]}
        PROVE  \A other \in reports' : other.doc <= born'
    BY <1>2, <2>1, <2>3
  <2> QED
    BY <1>2, <1>4, <2>2, <2>3, PutWritten
<1>5. ASSUME NEW t \in Threads, RemoveWrite(t) PROVE \A r \in reports' : r.doc <= born'
  BY <1>2, <1>5, Removed
<1>6. CASE reports' = reports
  BY <1>2, <1>6
<1> QED
  BY <1>3, <1>4, <1>5, <1>6, Writers DEF Unschedule, StageWrite, ConfirmWrite

LEMMA StepInOrder ==
  ASSUME Serial, TypeInv, BatchInv, SerialInv, Next, NEW t \in Threads, Step(t)
  PROVE  OrderOf(t)'
<1> USE DEF TypeInv, TypeOK, LocalTypes
<1>0. OrderOf(t)
  BY DEF SerialInv
<1>1. CASE NewLoad(t)
  BY <1>0, <1>1 DEF NewLoad, Load, Goes, OrderOf, CurrentOf, FreshOf, SavingOf,
     RemovalOf, Removing
<1>2. CASE PutLoad(t)
  BY <1>0, <1>2 DEF PutLoad, Load, Goes, OrderOf, CurrentOf, FreshOf, SavingOf,
     RemovalOf, Removing
<1>3. CASE NewWrite(t)
  <2>1. pc'[t] = "put" /\ rec'[t] \in reports'
    BY <1>3 DEF NewWrite, Goes
  <2> QED
    BY <2>1 DEF OrderOf, CurrentOf, FreshOf, SavingOf, RemovalOf, Removing
<1>4. CASE PutWrite(t) \/ StageWrite(t) \/ ConfirmWrite(t)
  BY <1>4, ReturnsInOrder DEF PutWrite, StageWrite, ConfirmWrite
<1>5. CASE Copy(t)
  <2>1. Returns(t) \/ pc'[t] = "stage"
    BY <1>5 DEF Copy, Goes
  <2> QED
    BY <2>1, ReturnsInOrder DEF OrderOf, CurrentOf, FreshOf, SavingOf, RemovalOf, Removing
<1>6. CASE StageLoad(t)
  BY <1>6 DEF StageLoad, Goes, OrderOf, CurrentOf, FreshOf, SavingOf, RemovalOf, Removing
<1>7. CASE ConfirmLoad(t)
  <2>1. Returns(t) \/ (pc'[t] = "confirm.write" /\ plan'[t] = schedule /\ schedule' = schedule)
    BY <1>7 DEF ConfirmLoad, Goes
  <2> QED
    BY <2>1, ReturnsInOrder DEF OrderOf, CurrentOf, FreshOf, SavingOf, RemovalOf, Removing
<1>8. CASE Unschedule(t)
  <2>1. Returns(t) \/ pc'[t] = "confirm"
    BY <1>8 DEF Unschedule, Goes
  <2> QED
    BY <2>1, ReturnsInOrder DEF OrderOf, CurrentOf, FreshOf, SavingOf, RemovalOf, Removing
<1>9. CASE RemoveLoad(t)
  <2>0. /\ pc[t] = "remove" /\ reports' = reports /\ schedule' = schedule /\ Named' = Named
        /\ now' = now
    BY <1>9 DEF RemoveLoad, Named, RetentionOver
  <2>1. PICK i \in todo[t] :
          IF i \in IdsOf(reports)
          THEN /\ snap' = [snap EXCEPT ![t] = reports]
               /\ target' = [target EXCEPT ![t] = i]
               /\ todo' = [todo EXCEPT ![t] = @ \ {i}]
               /\ Goes(t, "remove.write")
               /\ UNCHANGED <<rec, plan, export>>
          ELSE IF todo[t] = {i} THEN RemovedAll(t)
          ELSE /\ todo' = [todo EXCEPT ![t] = @ \ {i}]
               /\ UNCHANGED <<pc, snap, rec, target, plan, export>>
    BY <1>9 DEF RemoveLoad
  <2>2. \/ Goals(t) \subseteq Named
        \/ \E r \in reports : Pending(r) /\ Goals(t) = {r.id}
    BY <1>0, <2>0 DEF OrderOf, RemovalOf
  <2>3. CASE i \in IdsOf(reports)
    <3>1. /\ pc'[t] = "remove.write" /\ snap'[t] = reports /\ target'[t] = i
          /\ todo'[t] = todo[t] \ {i} /\ plan'[t] = plan[t]
      BY <2>1, <2>3 DEF Goes
    <3>2. Goals(t)' \subseteq Goals(t) /\ Goals(t)' # {}
      <4>1. i # 0 /\ i \in todo[t]
        BY <2>3, BoundAssumption DEF IdsOf, FileTypes, Report, Ids
      <4> QED
        BY <3>1, <4>1 DEF Goals
    <3>3. CurrentOf(t)'
      BY <1>0, <2>0, <3>1 DEF OrderOf, CurrentOf, Removing, Purging
    <3>4. RemovalOf(t)'
      <4>1. CASE Goals(t) \subseteq Named
        BY <2>0, <3>2, <4>1 DEF RemovalOf
      <4>2. ASSUME NEW r \in reports, Pending(r), Goals(t) = {r.id} PROVE RemovalOf(t)'
        <5>1. todo[t] = {i}
          BY <4>2 DEF Goals
        <5>2. Goals(t)' = {r.id} /\ todo'[t] = {}
          BY <3>1, <3>2, <4>2, <5>1
        <5> QED
          BY <2>0, <4>2, <5>2 DEF RemovalOf
      <4> QED
        BY <2>2, <4>1, <4>2
    <3> QED
      BY <3>1, <3>3, <3>4 DEF OrderOf, FreshOf, SavingOf
  <2>4. CASE i \notin IdsOf(reports) /\ todo[t] = {i}
    BY <2>0, <2>1, <2>4, RemovedInOrder
  <2>5. CASE i \notin IdsOf(reports) /\ todo[t] # {i}
    <3>1. /\ pc' = pc /\ plan' = plan /\ target' = target
          /\ todo'[t] = todo[t] \ {i}
      BY <2>1, <2>5
    <3>2. Goals(t)' \subseteq Goals(t) /\ Goals(t) # {i} /\ i \in Goals(t)
      <4>1. i \in Ids /\ i # 0 /\ i \in todo[t]
        BY BoundAssumption DEF Ids
      <4> QED
        BY <2>5, <3>1, <4>1 DEF Goals
    <3>3. Goals(t) \subseteq Named
      <4>1. \A r \in reports : Goals(t) # {r.id}
        BY <3>2
      <4> QED
        BY <2>2, <4>1
    <3>4. CurrentOf(t)' /\ RemovalOf(t)'
      BY <1>0, <2>0, <3>1, <3>2, <3>3 DEF OrderOf, CurrentOf, RemovalOf, Removing, Purging
    <3> QED
      BY <2>0, <3>1, <3>4 DEF OrderOf, FreshOf, SavingOf
  <2> QED
    BY <2>3, <2>4, <2>5
<1>10. CASE RemoveWrite(t)
  <2>0. /\ pc[t] = "remove.write" /\ schedule' = schedule /\ Named' = Named
    BY <1>10 DEF RemoveWrite, Named, RetentionOver
  <2>1. CASE todo[t] = {}
    BY <1>10, <2>0, <2>1, RemovedInOrder DEF RemoveWrite
  <2>2. CASE todo[t] # {}
    <3>1. pc'[t] = "remove" /\ UNCHANGED locals
      BY <1>10, <2>2 DEF RemoveWrite, Goes
    <3>2. Goals(t)' = Goals(t) /\ Goals(t) \subseteq Named
      BY <1>0, <2>0, <2>2, <3>1 DEF Goals, OrderOf, RemovalOf
    <3> QED
      BY <1>0, <2>0, <3>1, <3>2
         DEF OrderOf, CurrentOf, FreshOf, SavingOf, RemovalOf, Removing, Purging
  <2> QED
    BY <2>1, <2>2
<1> QED
  BY <1>1, <1>2, <1>3, <1>4, <1>5, <1>6, <1>7, <1>8, <1>9, <1>10 DEF Step

LEMMA SerialStep ==
  Serial /\ TypeInv /\ KeyInv /\ BatchInv /\ SerialInv /\ [Next]_vars => SerialInv'
<1> SUFFICES ASSUME Serial, TypeInv, KeyInv, BatchInv, SerialInv, [Next]_vars
             PROVE  SerialInv'
  OBVIOUS
<1>0. LocalTypes /\ OneInv
  BY DEF TypeInv, TypeOK, SerialInv
<1>1. CASE UNCHANGED vars
  BY <1>1 DEF vars, SerialInv, OneInv, OrderOf, CurrentOf, FreshOf, SavingOf,
     RemovalOf, Removing, Purging, Goals, Named, RetentionOver
<1>2. ASSUME NEW t \in Threads, Request(t) \/ Step(t) \/ (Purge /\ t = Purger), Next
      PROVE  SerialInv'
  <2>1. OneInv' /\ \A u \in Threads \ {t} : pc'[u] = "idle"
    BY <1>0, <1>2, OnlyOne
  <2>2. OrderOf(t)'
    BY <1>2, RequestInOrder, StepInOrder
  <2>3. \A u \in Threads \ {t} : OrderOf(u)'
    BY <2>1 DEF OrderOf, CurrentOf, FreshOf, SavingOf, RemovalOf, Removing
  <2>4. \A r \in reports' : r.doc <= born'
    BY <1>2, ContentsKept
  <2> QED
    BY <2>1, <2>2, <2>3, <2>4 DEF SerialInv
<1>3. CASE DayPasses
  <2>1. Next
    BY <1>3 DEF Next
  <2>2. /\ UNCHANGED <<files, pc, locals>> /\ UNCHANGED born
        /\ Named \subseteq Named'
    BY <1>3, <2>1, NamedGrows DEF DayPasses, TypeInv
  <2>3. \A t \in Threads : OrderOf(t)'
    <3> TAKE t \in Threads
    <3>1. OrderOf(t)
      BY DEF SerialInv
    <3>2. CurrentOf(t)' /\ FreshOf(t)' /\ SavingOf(t)'
      BY <2>2, <3>1 DEF OrderOf, CurrentOf, FreshOf, SavingOf, Removing, Purging
    <3>3. Goals(t)' = Goals(t)
      BY <2>2 DEF Goals
    <3>4. RemovalOf(t)'
      BY <2>2, <3>1, <3>3 DEF OrderOf, RemovalOf
    <3> QED
      BY <3>2, <3>4 DEF OrderOf
  <2> QED
    BY <2>2, <2>3 DEF SerialInv, OneInv
<1>4. CASE Crash
  <2>1. \A t \in Threads : pc'[t] = "idle"
    BY <1>4 DEF Crash
  <2>2. reports' = reports /\ born' = born
    BY <1>4 DEF Crash
  <2> QED
    BY <2>1, <2>2 DEF SerialInv, OneInv, OrderOf, CurrentOf, FreshOf, SavingOf, RemovalOf,
       Removing
<1> QED
  BY <1>1, <1>2, <1>3, <1>4 DEF Next

StoreInv == TypeInv /\ KeyInv /\ BatchInv /\ SerialInv

LEMMA SerialInvariant == ASSUME Serial PROVE Spec => []StoreInv
<1>1. Init => SerialInv
  BY DEF Init, SerialInv, OneInv, OrderOf, CurrentOf, FreshOf, SavingOf, RemovalOf, Removing
<1>2. TypeInv /\ KeyInv /\ BatchInv /\ SerialInv /\ [Next]_vars => SerialInv'
  BY SerialStep
<1> QED
  BY <1>1, <1>2, TypeInvariant, KeyInvariant, BatchInvariant, PTL DEF Spec, StoreInv

----------------------------------------------------------------------------
\* Every step of the store is one of the archive, or leaves it alone.
LEMMA ArchiveStep ==
  StoreInv /\ [Next]_vars => [Archive!Next]_(Archive!vars)
<1> SUFFICES ASSUME StoreInv, [Next]_vars
             PROVE  Archive!Next \/ UNCHANGED <<reports, Named>>
  BY DEF Archive!vars, Named
<1> USE DEF StoreInv
<1>1. CASE UNCHANGED vars
  BY <1>1 DEF vars, Named, RetentionOver
<1>2. ASSUME NEW t \in Threads, NewWrite(t) PROVE Archive!Next
  <2>1. UNCHANGED Named
    BY <1>2 DEF NewWrite, Named, RetentionOver
  <2>2. Archive!Add(rec'[t]) /\ rec'[t] \in reports'
    BY <1>2, <2>1, NewWritten DEF Archive!Add, Pending, Named
  <2> QED
    BY <2>2 DEF Archive!Next
<1>3. ASSUME NEW t \in Threads, PutWrite(t)
      PROVE  Archive!Next \/ UNCHANGED <<reports, Named>>
  <2>1. UNCHANGED Named
    BY <1>3 DEF PutWrite, Named, RetentionOver
  <2>2. ASSUME NEW r \in reports, Pending(r),
               reports' = (reports \ {r}) \cup {[r EXCEPT !.status = "approved"]}
        PROVE  Archive!Next
    BY <2>1, <2>2 DEF Archive!Next, Archive!Approve, Pending, Named
  <2> QED
    BY <1>3, <2>1, <2>2, PutWritten
<1>4. ASSUME NEW t \in Threads, RemoveWrite(t)
      PROVE  Archive!Next \/ UNCHANGED <<reports, Named>>
  <2>1. UNCHANGED Named
    BY <1>4 DEF RemoveWrite, Named, RetentionOver
  <2>2. ASSUME NEW r \in reports, r.id \in Named \/ Pending(r), reports' = reports \ {r}
        PROVE  Archive!Next
    BY <2>1, <2>2 DEF Archive!Next, Archive!Discard, Archive!Remove, Pending, Named
  <2> QED
    BY <1>4, <2>1, <2>2, Removed
<1>5. CASE Next /\ reports' = reports
  <2>1. Named \subseteq Named'
    BY <1>5, NamedGrows DEF TypeInv
  <2> QED
    BY <1>5, <2>1 DEF Archive!Next, Archive!Name, Named
<1> QED
  BY <1>1, <1>2, <1>3, <1>4, <1>5, Writers DEF Unschedule, StageWrite, ConfirmWrite

(***************************************************************************)
(* One request at a time, with any number of kills between the loads and   *)
(* the writes of any handler, the two files implement the archive: numbers *)
(* and contents are new when a report enters, an approval stays, and a     *)
(* report goes only pending or when its number was named.                  *)
(***************************************************************************)
THEOREM ArchiveKept ==
  ASSUME Serial
  PROVE  Spec => KeepsArchive
<1>1. Init => Archive!Init
  BY DEF Init, Archive!Init, RetentionOver
<1> QED
  BY <1>1, ArchiveStep, SerialInvariant, PTL DEF Spec, KeepsArchive, Archive!Spec
=============================================================================
