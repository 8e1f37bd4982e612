-------------------------- MODULE ProgramContract --------------------------
(***************************************************************************)
(* What the program runner promises the screens and the report, without    *)
(* threads, events, frames or a live state: programs run one at a time,    *)
(* each ends once with one outcome, a program abort was called for ends    *)
(* "aborted", and only one whose every segment elapsed ends "full".        *)
(***************************************************************************)
EXTENDS Naturals

VARIABLES
  run,      \* number of programs started
  status,   \* of the program started last
  outcome,  \* what the status call answers for it
  aborting, \* abort has been called for it
  ranOut    \* all its segments have run to their deadline

vars == <<run, status, outcome, aborting, ranOut>>

TypeOK ==
  /\ run \in Nat
  /\ status \in {"idle", "running", "ended"}
  /\ outcome \in {"none", "full", "early", "aborted"}
  /\ aborting \in BOOLEAN /\ ranOut \in BOOLEAN

Init ==
  /\ run = 0 /\ status = "idle" /\ outcome = "none"
  /\ aborting = FALSE /\ ranOut = FALSE

Start ==
  /\ status # "running"
  /\ run' = run + 1
  /\ status' = "running" /\ outcome' = "none"
  /\ aborting' = FALSE /\ ranOut' = FALSE

Abort ==
  /\ status = "running"
  /\ aborting' = TRUE
  /\ UNCHANGED <<run, status, outcome, ranOut>>

RunOut ==
  /\ status = "running"
  /\ ranOut' = TRUE
  /\ UNCHANGED <<run, status, outcome, aborting>>

End ==
  /\ status = "running"
  /\ status' = "ended"
  /\ \E o \in {"full", "early", "aborted"} :
       /\ aborting => o = "aborted"
       /\ o = "full" => ranOut
       /\ outcome' = o
  /\ UNCHANGED <<run, aborting, ranOut>>

\* The process dies and forgets the program.
Forget ==
  /\ status' = "idle" /\ outcome' = "none"
  /\ UNCHANGED <<run, aborting, ranOut>>

Next == Start \/ Abort \/ RunOut \/ End \/ Forget

Spec == Init /\ [][Next]_vars
=============================================================================
