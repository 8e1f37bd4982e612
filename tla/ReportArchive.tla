--------------------------- MODULE ReportArchive ---------------------------
(***************************************************************************)
(* What the store of reports promises, without files, threads, exports or  *)
(* restarts: a report enters pending under a number of its own, is         *)
(* approved or discarded once, and otherwise stays what it is until its    *)
(* number is named for removal, by somebody who deletes it or by an export *)
(* verified a day ago.                                                     *)
(***************************************************************************)
EXTENDS Naturals

VARIABLES
  archive, \* the reports, [id, doc, status]
  named    \* numbers named for removal

vars == <<archive, named>>

TypeOK ==
  /\ archive \subseteq [id : Nat, doc : Nat, status : {"pending", "approved"}]
  /\ named \subseteq Nat

Init == archive = {} /\ named = {}

Add(r) ==
  /\ r.status = "pending"
  /\ \A other \in archive : other.id # r.id /\ other.doc # r.doc
  /\ archive' = archive \cup {r}
  /\ UNCHANGED named

Approve(r) ==
  /\ r.status = "pending"
  /\ archive' = (archive \ {r}) \cup {[r EXCEPT !.status = "approved"]}
  /\ UNCHANGED named

Discard(r) ==
  /\ r.status = "pending"
  /\ archive' = archive \ {r}
  /\ UNCHANGED named

Name ==
  /\ named \subseteq named'
  /\ UNCHANGED archive

Remove(r) ==
  /\ r.id \in named
  /\ archive' = archive \ {r}
  /\ UNCHANGED named

Next ==
  \/ \E r \in archive' : Add(r)
  \/ \E r \in archive : Approve(r) \/ Discard(r) \/ Remove(r)
  \/ Name

Spec == Init /\ [][Next]_vars
=============================================================================
