---------------------------- MODULE TestRecord ----------------------------
(***************************************************************************)
(* What the record of tests promises, without power cuts, files, sessions  *)
(* or pages: a test that has begun stays known, a report once written      *)
(* stays, and it is closed once: approved, or closed with the cause of the *)
(* abort.                                                                  *)
(***************************************************************************)
EXTENDS Naturals, Sequences

CONSTANT MaxTests

VARIABLES
  begun,   \* tests known to have begun
  entries  \* their reports

vars == <<begun, entries>>

Tests == 1 .. MaxTests
Status == {"pending", "approved", "operator", "power"}
Entry == [test : Tests, aborted : BOOLEAN, status : Status]

TypeOK == begun \subseteq Tests /\ entries \in Seq(Entry)

Init == begun = {} /\ entries = <<>>

Begin(t) ==
  /\ begun' = begun \cup {t}
  /\ UNCHANGED entries

\* An operator's abort is never put down to the power.
Fits(e) == e.status = "operator" <=> e.aborted /\ e.status \notin {"pending", "approved"}

Write(e) ==
  /\ e.status \in {"pending", "operator", "power"} /\ Fits(e)
  /\ entries' = Append(entries, e)
  /\ begun' = begun \cup {e.test}

Close(i, status) ==
  /\ entries[i].status = "pending" /\ status # "pending"
  /\ Fits([entries[i] EXCEPT !.status = status])
  /\ entries' = [entries EXCEPT ![i].status = status]
  /\ UNCHANGED begun

Next ==
  \/ \E t \in Tests : Begin(t)
  \/ \E e \in Entry : Write(e)
  \/ \E i \in DOMAIN entries, s \in Status : Close(i, s)

Spec == Init /\ [][Next]_vars
=============================================================================
