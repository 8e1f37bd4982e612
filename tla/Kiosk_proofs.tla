---------------------------- MODULE Kiosk_proofs ----------------------------
(***************************************************************************)
(* The page and the server it talks to, for any number of tests,           *)
(* validations, reports, failures and presses, whether or not requests     *)
(* land in the order of sending: the types, and that a pending report      *)
(* holds the user.                                                         *)
(***************************************************************************)
EXTENDS Kiosk, SequenceTheorems, FiniteSetTheorems, TLAPS

----------------------------------------------------------------------------
(***************************************************************************)
(* Sequences                                                               *)
(***************************************************************************)
LEMMA RemoveAtFacts ==
  ASSUME NEW S, NEW s \in Seq(S), NEW i \in DOMAIN s
  PROVE  /\ RemoveAt(s, i) \in Seq(S)
         /\ Len(RemoveAt(s, i)) = Len(s) - 1
         /\ \A j \in 1 .. Len(s) - 1 : RemoveAt(s, i)[j] = IF j < i THEN s[j] ELSE s[j + 1]
<1> DEFINE front == SubSeq(s, 1, i - 1)
           back  == SubSeq(s, i + 1, Len(s))
<1>1. /\ Len(s) \in Nat /\ i \in 1 .. Len(s)
      /\ \A j \in 1 .. Len(s) : s[j] \in S
  BY LenProperties, ElementOfSeq
<1>2. /\ front \in Seq(S) /\ Len(front) = i - 1
      /\ \A j \in 1 .. i - 1 : front[j] = s[j]
  BY <1>1
<1>3. /\ back \in Seq(S) /\ Len(back) = Len(s) - i
      /\ \A j \in 1 .. Len(s) - i : back[j] = s[i + j]
  BY <1>1
<1> HIDE DEF front, back
<1>4. /\ front \o back \in Seq(S) /\ Len(front \o back) = Len(front) + Len(back)
      /\ \A j \in 1 .. Len(front) + Len(back) : (front \o back)[j] =
           IF j <= Len(front) THEN front[j] ELSE back[j - Len(front)]
  BY <1>2, <1>3, ConcatProperties
<1> DEFINE r == front \o back
<1>5. /\ r \in Seq(S) /\ Len(r) = Len(s) - 1
      /\ \A j \in 1 .. Len(s) - 1 : r[j] = IF j <= i - 1 THEN front[j] ELSE back[j - (i - 1)]
  <2>1. Len(front) + Len(back) = Len(s) - 1 /\ Len(front) = i - 1
    BY <1>1, <1>2, <1>3
  <2> HIDE DEF r
  <2>2. /\ r \in Seq(S) /\ Len(r) = Len(front) + Len(back)
        /\ \A j \in 1 .. Len(front) + Len(back) : r[j] =
             IF j <= Len(front) THEN front[j] ELSE back[j - Len(front)]
    BY <1>4 DEF r
  <2> QED
    BY <2>1, <2>2
<1>6. RemoveAt(s, i) = r
  BY DEF RemoveAt, front, back
<1> HIDE DEF r
<1>7. ASSUME NEW j \in 1 .. Len(s) - 1
      PROVE  r[j] = IF j < i THEN s[j] ELSE s[j + 1]
  <2>1. CASE j < i
    <3>1. j <= i - 1 /\ j \in 1 .. i - 1
      BY <1>1, <2>1
    <3> QED
      BY <1>2, <1>5, <2>1, <3>1
  <2>2. CASE ~(j < i)
    <3>1. /\ ~(j <= i - 1) /\ j - (i - 1) \in 1 .. Len(s) - i
          /\ i + (j - (i - 1)) = j + 1
      BY <1>1, <2>2
    <3> QED
      BY <1>3, <1>5, <2>2, <3>1
  <2> QED
    BY <2>1, <2>2
<1> QED
  BY <1>5, <1>6, <1>7

LEMMA AppendFacts ==
  ASSUME NEW S, NEW s \in Seq(S), NEW x \in S
  PROVE  /\ Append(s, x) \in Seq(S)
         /\ Len(Append(s, x)) = Len(s) + 1
         /\ ToSet(Append(s, x)) = ToSet(s) \cup {x}
<1>1. /\ Append(s, x) \in Seq(S) /\ Len(Append(s, x)) = Len(s) + 1 /\ Len(s) \in Nat
      /\ \A j \in 1 .. Len(s) : Append(s, x)[j] = s[j]
      /\ Append(s, x)[Len(s) + 1] = x
      /\ DOMAIN s = 1 .. Len(s) /\ DOMAIN Append(s, x) = 1 .. Len(s) + 1
  BY AppendProperties, LenProperties
<1> QED
  BY <1>1 DEF ToSet

\* What is left when an element is taken out.
LEMMA RemoveAtSet ==
  ASSUME NEW S, NEW s \in Seq(S), NEW i \in DOMAIN s
  PROVE  /\ RemoveAt(s, i) \in Seq(S)
         /\ ToSet(RemoveAt(s, i)) \subseteq ToSet(s)
         /\ ToSet(s) \subseteq ToSet(RemoveAt(s, i)) \cup {s[i]}
         /\ s[i] \in ToSet(s) /\ s[i] \in S
<1> DEFINE r == RemoveAt(s, i)
<1>1. /\ Len(s) \in Nat /\ DOMAIN s = 1 .. Len(s) /\ i \in 1 .. Len(s)
      /\ \A j \in 1 .. Len(s) : s[j] \in S
  BY LenProperties, ElementOfSeq
<1>2. /\ r \in Seq(S) /\ Len(r) = Len(s) - 1
      /\ \A j \in 1 .. Len(s) - 1 : r[j] = IF j < i THEN s[j] ELSE s[j + 1]
  BY RemoveAtFacts
<1> HIDE DEF r
<1>3. DOMAIN r = 1 .. Len(s) - 1
  BY <1>2, LenProperties
<1>4. ToSet(r) \subseteq ToSet(s)
  BY <1>1, <1>2, <1>3 DEF ToSet
<1>5. ASSUME NEW j \in DOMAIN s, j # i PROVE s[j] \in ToSet(r)
  <2>1. CASE j < i
    BY <1>1, <1>2, <1>3, <1>5, <2>1 DEF ToSet
  <2>2. CASE j > i
    <3>1. j - 1 \in DOMAIN r /\ r[j - 1] = s[j]
      BY <1>1, <1>2, <1>3, <2>2
    <3> QED
      BY <3>1 DEF ToSet
  <2> QED
    BY <1>1, <1>5, <2>1, <2>2
<1>6. ToSet(s) \subseteq ToSet(r) \cup {s[i]}
  BY <1>5 DEF ToSet
<1> QED
  BY <1>1, <1>2, <1>4, <1>6 DEF ToSet, r

\* What is there when an element is replaced.
LEMMA ReplaceSet ==
  ASSUME NEW S, NEW s \in Seq(S), NEW i \in DOMAIN s, NEW x \in S
  PROVE  /\ [s EXCEPT ![i] = x] \in Seq(S)
         /\ ToSet([s EXCEPT ![i] = x]) \subseteq ToSet(s) \cup {x}
         /\ ToSet(s) \subseteq ToSet([s EXCEPT ![i] = x]) \cup {s[i]}
         /\ x \in ToSet([s EXCEPT ![i] = x])
<1> DEFINE r == [s EXCEPT ![i] = x]
<1>1. i \in 1 .. Len(s) /\ DOMAIN s = 1 .. Len(s)
  BY LenProperties
<1>2. r \in Seq(S) /\ DOMAIN r = DOMAIN s
  BY <1>1, ExceptSeq
<1>3. \A j \in DOMAIN s : r[j] = IF j = i THEN x ELSE s[j]
  OBVIOUS
<1> HIDE DEF r
<1>4. /\ ToSet(r) \subseteq ToSet(s) \cup {x} /\ x \in ToSet(r)
      /\ ToSet(s) \subseteq ToSet(r) \cup {s[i]}
  BY <1>2, <1>3 DEF ToSet
<1> QED
  BY <1>2, <1>4 DEF r

\* A sequence is one of the elements it has.
LEMMA SeqOfElements ==
  ASSUME NEW S, NEW s \in Seq(S)
  PROVE  /\ \A T : ToSet(s) \subseteq T => s \in Seq(T)
         /\ ToSet(s) \subseteq S
         /\ s = <<>> <=> ToSet(s) = {}
<1>1. Len(s) \in Nat /\ s \in [1 .. Len(s) -> S] /\ DOMAIN s = 1 .. Len(s)
  BY LenProperties
<1>2. ASSUME NEW T, ToSet(s) \subseteq T PROVE s \in Seq(T)
  BY <1>1, <1>2 DEF ToSet
<1>3. ToSet(s) \subseteq S
  BY <1>1 DEF ToSet
<1>4. s = <<>> <=> ToSet(s) = {}
  <2>1. CASE s = <<>>
    BY <2>1 DEF ToSet
  <2>2. CASE s # <<>>
    <3>1. 1 \in DOMAIN s
      BY <1>1, <2>2, EmptySeq
    <3> QED
      BY <2>2, <3>1 DEF ToSet
  <2> QED
    BY <2>1, <2>2
<1> QED
  BY <1>2, <1>3, <1>4

----------------------------------------------------------------------------
(***************************************************************************)
(* The inductive invariant                                                 *)
(***************************************************************************)
\* What a request of each kind is about and who waits for it, when n reports
\* have been saved.  Nobody waits for the answer of a silent one.
Fit(n) ==
  {c \in Call :
     /\ c.op = "run" => c.of \in Tests /\ c.by = "start"
     /\ c.op = "start" => c.of \in Validations /\ c.by = "val"
     /\ c.op = "put" => c.of \in Runs \cup {None} /\ c.by = "none"
     /\ c.op = "stop" => c.by \in {"none", "byeTest"}
     /\ c.op = "ensure" => c.by \in {"bye", "idle"}
     /\ c.op = "abort" => c.by \in {"stop", "leave", "bye"}
     /\ c.op = "complete" => c.by = "complete"
     /\ c.op = "delete" => c.by \in {"submit", "val", "bye", "byeTest", "none"}
     /\ c.op = "live" => c.by \in {"tick", "complete"}
     /\ c.op = "report" => /\ c.of \in IF c.at = "ok" THEN 1 .. n ELSE Runs \cup {None}
                           /\ c.by \in {"submit", "val", "bye", "byeTest"}
     /\ c.op = "preview" => c.of \in 1 .. n /\ c.by \in {"open", "again"}
     /\ c.op = "delete" /\ c.by \in {"submit", "val"} => c.of \in 1 .. n
     /\ c.by = "none" => c.at = "sent"}

ServerPart ==
  /\ prog \in Tests \cup {None} /\ begun \in BOOLEAN /\ ended \in BOOLEAN
  /\ load \in Runs \cup {None} /\ ckpt \in Runs \cup {None}
  /\ reports \in Seq(Report) /\ Len(reports) <= MaxReports
  /\ fails \in 0 .. MaxFails
  /\ started \subseteq Runs /\ told \subseteq Tests /\ unsaved \subseteq Runs

CallsPart == calls \in Seq(Call) /\ ToSet(calls) \subseteq Fit(Len(reports))

\* What the buttons of the validation act on has been opened.
PagePart ==
  /\ TestPageTypes /\ ValidationTypes
  /\ val.enabled => val.run # None

\* The gate is the report that the preview shows as pending; the test page is
\* not reached without a test.
ShellPart ==
  /\ user \in BOOLEAN
  /\ page \in Pages /\ going \in Pages \cup {"nowhere"} /\ goal \in Pages
  /\ skip \subseteq Guards /\ haste \in 0 .. MaxHaste
  /\ gate \in 0 .. Len(reports)
  /\ gate # None => last = [report |-> gate, pending |-> TRUE]
  /\ last \in [report : 0 .. MaxReports, pending : BOOLEAN]
  /\ last.pending => last.report \in 1 .. Len(reports)
  /\ "test" \in {page, going, goal} => sr.test # None

KioskInv == ServerPart /\ CallsPart /\ PagePart /\ ShellPart

USE DEF None

LEMMA KioskTypes == KioskInv => TypeOK
<1> SUFFICES ASSUME KioskInv PROVE TypeOK
  OBVIOUS
<1>1. Len(reports) \in Nat /\ Len(reports) <= MaxReports /\ MaxReports \in Nat
  BY ServerAssumption, LenProperties DEF KioskInv, ServerPart
<1>2. gate \in 0 .. MaxReports
  BY <1>1 DEF KioskInv, ShellPart
<1> QED
  BY <1>2 DEF KioskInv, ServerPart, CallsPart, PagePart, ShellPart, TypeOK, ServerTypes

LEMMA RunFacts ==
  /\ Tests \subseteq Nat \ {0} /\ Validations \subseteq Nat \ {0} /\ Runs \subseteq Nat \ {0}
  /\ Tests \cap Validations = {} /\ Tests \subseteq Runs /\ Validations \subseteq Runs
BY ServerAssumption DEF Tests, Validations, Runs

\* Fewer requests fit fewer reports.
LEMMA FitGrows ==
  ASSUME NEW m \in Nat, NEW n \in Nat, m <= n
  PROVE  Fit(m) \subseteq Fit(n)
BY DEF Fit

----------------------------------------------------------------------------
(***************************************************************************)
(* What a handler of the page sends                                        *)
(***************************************************************************)
\* The requests that the page can send now.
New == {c \in Fit(Len(reports)) : c.at = "sent" /\ (c.signed <=> user \/ c.op = "ensure")}

\* s is rest with the new calls appended.
Grown(s, rest, new) ==
  /\ s \in Seq(Call) /\ ToSet(s) = ToSet(rest) \cup new
  /\ Len(rest) <= Len(s) /\ \A i \in 1 .. Len(rest) : s[i] = rest[i]
  /\ \A i \in Len(rest) + 1 .. Len(s) : s[i] \in new

\* A step that finds the calls rest sends requests of these kinds.
Sends(rest, ops, callers) ==
  \E new \in SUBSET New :
    /\ Grown(calls', rest, new)
    /\ \A c \in new : c.op \in ops /\ c.by \in callers

LEMMA GrownSame ==
  ASSUME NEW rest \in Seq(Call)
  PROVE  Grown(rest, rest, {})
BY LenProperties DEF Grown

LEMMA GrownAppend ==
  ASSUME NEW rest \in Seq(Call), NEW s, NEW new, Grown(s, rest, new), NEW x \in Call
  PROVE  Grown(Append(s, x), rest, new \cup {x})
<1>1. s \in Seq(Call) /\ Len(s) \in Nat /\ Len(rest) \in Nat
  BY LenProperties DEF Grown
<1>2. /\ Append(s, x) \in Seq(Call) /\ Len(Append(s, x)) = Len(s) + 1
      /\ ToSet(Append(s, x)) = ToSet(s) \cup {x}
      /\ \A j \in 1 .. Len(s) : Append(s, x)[j] = s[j]
      /\ Append(s, x)[Len(s) + 1] = x
  BY <1>1, AppendFacts, AppendProperties
<1> DEFINE a == Append(s, x)
<1> HIDE DEF a
<1>3. /\ a \in Seq(Call) /\ Len(a) = Len(s) + 1 /\ ToSet(a) = ToSet(s) \cup {x}
      /\ \A j \in 1 .. Len(s) : a[j] = s[j]
      /\ a[Len(s) + 1] = x
  BY <1>2 DEF a
<1>4. Grown(a, rest, new \cup {x})
  BY <1>1, <1>3 DEF Grown
<1> QED
  BY <1>4 DEF a

LEMMA GrownFirst ==
  ASSUME NEW rest \in Seq(Call), NEW x \in Call, NEW s, NEW new,
         Grown(s, Append(rest, x), new)
  PROVE  Grown(s, rest, new \cup {x})
<1> DEFINE a == Append(rest, x)
<1>1. /\ a \in Seq(Call) /\ Len(a) = Len(rest) + 1 /\ Len(rest) \in Nat
      /\ ToSet(a) = ToSet(rest) \cup {x}
      /\ \A j \in 1 .. Len(rest) : a[j] = rest[j]
      /\ a[Len(rest) + 1] = x
  BY AppendFacts, AppendProperties, LenProperties
<1>2. Grown(s, a, new)
  OBVIOUS
<1> HIDE DEF a
<1>3. s \in Seq(Call) /\ Len(s) \in Nat
  BY <1>2, LenProperties DEF Grown
<1> QED
  BY <1>1, <1>2, <1>3 DEF Grown

LEMMA RequestFields ==
  ASSUME NEW op, NEW of, NEW by, NEW aborted
  PROVE  /\ Request(op, of, by).op = op /\ Request(op, of, by).by = by
         /\ Request(op, of, by).of = of /\ Request(op, of, by).at = "sent"
         /\ (Request(op, of, by).signed <=> (user \/ op = "ensure"))
         /\ PostReport(of, by, aborted).op = "report" /\ PostReport(of, by, aborted).by = by
         /\ PostReport(of, by, aborted).of = of /\ PostReport(of, by, aborted).at = "sent"
         /\ (PostReport(of, by, aborted).signed <=> user)
BY DEF Request, PostReport

LEMMA RequestType ==
  ASSUME NEW op \in Ops, NEW of \in Nat, NEW by \in Callers, NEW aborted \in BOOLEAN
  PROVE  /\ Request(op, of, by) \in Call
         /\ PostReport(of, by, aborted) \in Call
         /\ PostReport(of, by, TRUE) \in Call /\ PostReport(of, by, FALSE) \in Call
<1>1. (user \/ op = "ensure") \in BOOLEAN /\ (user \/ "report" = "ensure") \in BOOLEAN
  OBVIOUS
<1>2. Request(op, of, by) \in Call
  BY <1>1 DEF Request, Call
<1>3. PostReport(of, by, aborted) \in Call
  BY <1>1 DEF PostReport, Request, Call, Ops
<1>4. PostReport(of, by, TRUE) \in Call /\ PostReport(of, by, FALSE) \in Call
  BY <1>1 DEF PostReport, Request, Call, Ops
<1> QED
  BY <1>2, <1>3, <1>4

\* The requests that need nothing to be known of what they are about.
LEMMA NewRequests ==
  /\ \A of \in Nat :
       /\ \A by \in {"stop", "leave", "bye"} : Request("abort", of, by) \in New
       /\ Request("complete", of, "complete") \in New
       /\ \A by \in {"bye", "byeTest", "none"} : Request("delete", of, by) \in New
  /\ \A of \in Nat : \A by \in {"none", "byeTest"} : Request("stop", of, by) \in New
  /\ \A by \in {"bye", "idle"} : Request("ensure", None, by) \in New
  /\ \A by \in {"tick", "complete"} : Request("live", None, by) \in New
<1>1. ASSUME NEW of \in Nat
      PROVE  /\ \A by \in {"stop", "leave", "bye"} : Request("abort", of, by) \in New
             /\ Request("complete", of, "complete") \in New
             /\ \A by \in {"bye", "byeTest", "none"} : Request("delete", of, by) \in New
  <2>1. \A by \in Callers :
          /\ Request("abort", of, by) \in Call /\ Request("complete", of, by) \in Call
          /\ Request("delete", of, by) \in Call
    BY RequestType DEF Ops
  <2>2. ASSUME NEW by \in {"stop", "leave", "bye"} PROVE Request("abort", of, by) \in New
    <3>1. by \in Callers
      BY DEF Callers
    <3> QED
      BY <2>1, <3>1, RequestFields DEF New, Fit
  <2>3. Request("complete", of, "complete") \in New
    <3>1. "complete" \in Callers
      BY DEF Callers
    <3>2. Request("complete", of, "complete") \in Call
      BY <2>1, <3>1
    <3> QED
      BY <3>2, RequestFields DEF New, Fit
  <2>4. ASSUME NEW by \in {"bye", "byeTest", "none"} PROVE Request("delete", of, by) \in New
    <3>1. by \in Callers
      BY DEF Callers
    <3> QED
      BY <2>1, <3>1, RequestFields DEF New, Fit
  <2> QED
    BY <2>2, <2>3, <2>4
<1>2. ASSUME NEW of \in Nat, NEW by \in {"none", "byeTest"}
      PROVE  Request("stop", of, by) \in New
  <2>1. Request("stop", of, by) \in Call
    BY RequestType DEF Ops, Callers
  <2> QED
    BY <2>1, RequestFields DEF New, Fit
<1>3. ASSUME NEW by \in {"bye", "idle"} PROVE Request("ensure", None, by) \in New
  <2>1. Request("ensure", None, by) \in Call
    BY RequestType DEF Ops, Callers
  <2> QED
    BY <2>1, RequestFields DEF New, Fit
<1>4. ASSUME NEW by \in {"tick", "complete"} PROVE Request("live", None, by) \in New
  <2>1. Request("live", None, by) \in Call
    BY RequestType DEF Ops, Callers
  <2> QED
    BY <2>1, RequestFields DEF New, Fit
<1> QED
  BY <1>1, <1>2, <1>3, <1>4

\* Those about a run,
LEMMA NewRunRequests ==
  /\ \A t \in Runs \cup {None} :
       /\ Request("put", t, "none") \in New
       /\ \A by \in {"submit", "val", "bye", "byeTest"} :
            /\ \A aborted \in BOOLEAN : PostReport(t, by, aborted) \in New
            /\ PostReport(t, by, TRUE) \in New /\ PostReport(t, by, FALSE) \in New
  /\ \A t \in Tests : Request("run", t, "start") \in New
  /\ \A v \in Validations : Request("start", v, "val") \in New
<1>1. ASSUME NEW t \in Runs \cup {None} PROVE Request("put", t, "none") \in New
  <2>1. Request("put", t, "none") \in Call
    BY RequestType, RunFacts DEF Ops, Callers
  <2> QED
    BY <2>1, RequestFields DEF New, Fit
<1>2. ASSUME NEW t \in Runs \cup {None}, NEW by \in {"submit", "val", "bye", "byeTest"}, NEW aborted \in BOOLEAN
      PROVE  /\ PostReport(t, by, aborted) \in New
             /\ PostReport(t, by, TRUE) \in New /\ PostReport(t, by, FALSE) \in New
  <2>1. /\ PostReport(t, by, aborted) \in Call
        /\ PostReport(t, by, TRUE) \in Call /\ PostReport(t, by, FALSE) \in Call
    BY RequestType, RunFacts DEF Ops, Callers
  <2> QED
    BY <2>1 DEF PostReport, Request, New, Fit
<1>3. ASSUME NEW t \in Tests PROVE Request("run", t, "start") \in New
  <2>1. Request("run", t, "start") \in Call
    BY RequestType, RunFacts DEF Ops, Callers
  <2> QED
    BY <2>1, RequestFields DEF New, Fit
<1>4. ASSUME NEW v \in Validations PROVE Request("start", v, "val") \in New
  <2>1. Request("start", v, "val") \in Call
    BY RequestType, RunFacts DEF Ops, Callers
  <2> QED
    BY <2>1, RequestFields DEF New, Fit
<1> QED
  BY <1>1, <1>2, <1>3, <1>4

\* and those about a report.
LEMMA NewReportRequests ==
  ASSUME NEW id \in 1 .. Len(reports), Len(reports) \in Nat
  PROVE  /\ Request("preview", id, "open") \in New
         /\ \A by \in {"submit", "val"} : Request("delete", id, by) \in New
<1>1. id \in Nat
  OBVIOUS
<1>2. Request("preview", id, "open") \in New
  <2>1. Request("preview", id, "open") \in Call
    BY <1>1, RequestType DEF Ops, Callers
  <2> QED
    BY <2>1, RequestFields DEF New, Fit
<1>3. ASSUME NEW by \in {"submit", "val"} PROVE Request("delete", id, by) \in New
  <2>1. Request("delete", id, by) \in Call
    BY <1>1, RequestType DEF Ops, Callers
  <2> QED
    BY <2>1, RequestFields DEF New, Fit
<1> QED
  BY <1>2, <1>3

LEMMA SendNone ==
  ASSUME NEW rest \in Seq(Call), calls' = rest, NEW ops, NEW callers
  PROVE  Sends(rest, ops, callers)
BY GrownSame DEF Sends

LEMMA NewCall == New \subseteq Call
BY DEF New, Fit

LEMMA SendOne ==
  ASSUME NEW rest \in Seq(Call), NEW x \in New, calls' = Append(rest, x),
         NEW ops, NEW callers, x.op \in ops, x.by \in callers
  PROVE  Sends(rest, ops, callers)
<1>1. Grown(calls', rest, {} \cup {x})
  BY NewCall, GrownSame, GrownAppend
<1>2. Grown(calls', rest, {x})
  BY <1>1
<1> QED
  BY <1>2 DEF Sends

LEMMA SendTwo ==
  ASSUME NEW rest \in Seq(Call), NEW x \in New, NEW y \in New,
         calls' = Append(Append(rest, x), y) \/ calls' = rest \o <<x, y>>,
         NEW ops, NEW callers, x.op \in ops, x.by \in callers, y.op \in ops, y.by \in callers
  PROVE  Sends(rest, ops, callers)
<1>1. rest \o <<x, y>> = Append(Append(rest, x), y)
  BY NewCall
<1>2. Grown(Append(rest, x), rest, {} \cup {x})
  BY NewCall, GrownSame, GrownAppend
<1>3. Grown(Append(Append(rest, x), y), rest, ({} \cup {x}) \cup {y})
  BY <1>2, NewCall, GrownAppend
<1>4. ({} \cup {x}) \cup {y} = {x, y} /\ calls' = Append(Append(rest, x), y)
  BY <1>1
<1>5. Grown(calls', rest, {x, y})
  BY <1>3, <1>4
<1> QED
  BY <1>5 DEF Sends

LEMMA SendFirst ==
  ASSUME NEW rest \in Seq(Call), NEW x \in New, NEW ops, NEW callers,
         x.op \in ops, x.by \in callers, Sends(Append(rest, x), ops, callers)
  PROVE  Sends(rest, ops, callers)
<1>1. PICK new \in SUBSET New : /\ Grown(calls', Append(rest, x), new)
                                /\ \A c \in new : c.op \in ops /\ c.by \in callers
  BY DEF Sends
<1>2. Grown(calls', rest, new \cup {x})
  BY <1>1, NewCall, GrownFirst
<1> QED
  BY <1>1, <1>2 DEF Sends

LEMMA SendRequest ==
  ASSUME NEW rest \in Seq(Call), NEW op, NEW of, NEW by,
         Request(op, of, by) \in New, calls' = Append(rest, Request(op, of, by)),
         NEW ops, NEW callers, op \in ops, by \in callers
  PROVE  Sends(rest, ops, callers)
<1> DEFINE x == Request(op, of, by)
<1>1. x \in New /\ x.op = op /\ x.by = by /\ calls' = Append(rest, x)
  BY RequestFields
<1> HIDE DEF x
<1> QED
  BY <1>1, SendOne

LEMMA SendReport ==
  ASSUME NEW rest \in Seq(Call), NEW of, NEW by, NEW aborted,
         PostReport(of, by, aborted) \in New, calls' = Append(rest, PostReport(of, by, aborted)),
         NEW ops, NEW callers, "report" \in ops, by \in callers
  PROVE  Sends(rest, ops, callers)
<1> DEFINE x == PostReport(of, by, aborted)
<1>1. x \in New /\ x.op = "report" /\ x.by = by /\ calls' = Append(rest, x)
  BY DEF PostReport, Request
<1> HIDE DEF x
<1> QED
  BY <1>1, SendOne

LEMMA SendsMore ==
  ASSUME NEW rest, NEW ops, NEW callers, Sends(rest, ops, callers),
         NEW os, NEW cs, ops \subseteq os, callers \subseteq cs
  PROVE  Sends(rest, os, cs)
BY DEF Sends

----------------------------------------------------------------------------
(***************************************************************************)
(* What the handlers of the test page do                                   *)
(***************************************************************************)
\* The test page keeps its types and its test.
TestKept == TestPageTypes' /\ sr'.test = sr.test

LEMMA SrFields ==
  ASSUME NEW s \in Sr
  PROVE  /\ s.test \in Tests \cup {None} /\ s.test \in Runs \cup {None} /\ s.test \in Nat
         /\ s.aborted \in BOOLEAN
         /\ Submitted(s) \in Sr /\ Submitted(s).test = s.test
         /\ AfterWizard(s) \in Sr /\ AfterWizard(s).test = s.test
         /\ \A aborted \in BOOLEAN :
              LET over == [s EXCEPT !.running = FALSE, !.done = TRUE, !.aborted = aborted,
                                    !.poll = FALSE]
              IN  over \in Sr /\ over.test = s.test
<1>1. /\ s.test \in Tests \cup {None} /\ s.test \in Runs \cup {None} /\ s.test \in Nat
  <2>1. s.test \in Tests \cup {None}
    BY DEF Sr
  <2>2. CASE s.test \in Tests
    BY <2>2, RunFacts
  <2>3. CASE s.test = None
    BY <2>3
  <2> QED
    BY <2>1, <2>2, <2>3
<1>5. s.aborted \in BOOLEAN
  BY DEF Sr
<1>2. Submitted(s) \in Sr /\ Submitted(s).test = s.test
  BY DEF Sr, Submitted
<1>3. AfterWizard(s) \in Sr /\ AfterWizard(s).test = s.test
  BY DEF Sr, AfterWizard
<1>4. ASSUME NEW aborted \in BOOLEAN
      PROVE  LET over == [s EXCEPT !.running = FALSE, !.done = TRUE, !.aborted = aborted,
                                    !.poll = FALSE]
             IN  over \in Sr /\ over.test = s.test
  BY DEF Sr
<1> QED
  BY <1>1, <1>2, <1>3, <1>4, <1>5

LEMMA SubmitsFacts ==
  ASSUME NEW s \in Sr, NEW rest \in Seq(Call), Submits(s, rest)
  PROVE  Sends(rest, {"report"}, {"submit"}) /\ sr' \in Sr /\ sr'.test = s.test
<1>1. PostReport(s.test, "submit", s.aborted) \in New
  BY SrFields, NewRunRequests DEF Callers
<1>2. Sends(rest, {"report"}, {"submit"})
  BY <1>1, SendReport DEF Submits
<1> QED
  BY <1>2, SrFields DEF Submits

LEMMA WeighsFacts ==
  ASSUME NEW s \in Sr, NEW rest \in Seq(Call), Weighs(s, rest)
  PROVE  Sends(rest, {"put"}, {"none"}) /\ sr' \in Sr /\ sr'.test = s.test
<1>1. Request("put", s.test, "none") \in New
  BY SrFields, NewRunRequests
<1>2. Sends(rest, {"put"}, {"none"})
  BY <1>1, SendRequest DEF Weighs
<1> QED
  BY <1>2, SrFields DEF Weighs

LEMMA FinishRunFacts ==
  ASSUME PagePart, NEW aborted \in BOOLEAN, NEW rest \in Seq(Call), FinishRun(aborted, rest)
  PROVE  Sends(rest, {"put", "report"}, {"none", "submit"}) /\ TestKept
<1>1. Over(aborted) \in Sr /\ Over(aborted).test = sr.test
  BY SrFields DEF Over, PagePart, TestPageTypes
<1>2. CASE Submits(Over(aborted), rest) /\ NoModal
  BY <1>1, <1>2, SubmitsFacts, SendsMore DEF NoModal, PagePart, TestKept, TestPageTypes
<1>3. CASE Weighs(Over(aborted), rest) /\ NoModal
  BY <1>1, <1>3, WeighsFacts, SendsMore DEF NoModal, PagePart, TestKept, TestPageTypes
<1>4. CASE sr' = Over(aborted) /\ modal' = "choice" /\ UNCHANGED ask /\ calls' = rest
  BY <1>1, <1>4, SendNone DEF Modals, PagePart, TestKept, TestPageTypes
<1> QED
  BY <1>2, <1>3, <1>4 DEF FinishRun

LEMMA SavesPartialFacts ==
  ASSUME PagePart, NEW rest \in Seq(Call), SavesPartial(rest)
  PROVE  Sends(rest, {"report"}, {"bye"}) /\ sr' \in Sr /\ sr'.test = sr.test
<1>1. sr \in Sr
  BY DEF PagePart, TestPageTypes
<1>2. PostReport(sr.test, "bye", TRUE) \in New
  BY <1>1, SrFields, NewRunRequests DEF Callers
<1>3. Sends(rest, {"report"}, {"bye"})
  <2> DEFINE x == PostReport(sr.test, "bye", TRUE)
  <2>1. x \in New /\ x.op = "report" /\ x.by = "bye" /\ calls' = Append(rest, x)
    BY <1>2 DEF SavesPartial, PostReport, Request
  <2> HIDE DEF x
  <2> QED
    BY <2>1, SendOne
<1>4. sr' \in Sr /\ sr'.test = sr.test
  BY <1>1 DEF SavesPartial, Sr
<1> QED
  BY <1>3, <1>4

LEMMA AbortsNowFacts ==
  ASSUME PagePart, NEW rest \in Seq(Call), AbortsNow(rest)
  PROVE  Sends(rest, {"abort", "report", "ensure"}, {"bye"}) /\ sr' \in Sr /\ sr'.test = sr.test
<1>1. sr \in Sr /\ sr.test \in Nat
  BY SrFields DEF PagePart, TestPageTypes
<1>2. CASE SavesPartial(rest)
  BY <1>2, SavesPartialFacts, SendsMore
<1>3. CASE /\ sr' = [sr EXCEPT !.aborted = TRUE]
           /\ calls' = Append(rest, Request("abort", sr.test, "bye"))
  <2>1. Request("abort", sr.test, "bye") \in New
    BY <1>1, NewRequests DEF Callers
  <2>2. sr' \in Sr /\ sr'.test = sr.test
    BY <1>1, <1>3 DEF Sr
  <2> QED
    BY <1>3, <2>1, <2>2, SendRequest
<1>4. CASE calls' = Append(rest, Request("ensure", None, "bye")) /\ UNCHANGED sr
  <2>1. Request("ensure", None, "bye") \in New
    BY NewRequests
  <2> QED
    BY <1>1, <1>4, <2>1, SendRequest
<1> QED
  BY <1>2, <1>3, <1>4 DEF AbortsNow

\* The buttons of the test page are pressed with a test on it.
LEMMA TestPressFacts ==
  ASSUME PagePart, CallsPart, sr.test # None,
         PressStart \/ Weighed \/ PressComplete \/ PressStop \/ SaveWeights
  PROVE  /\ Sends(calls, {"put", "run", "complete", "report"},
                         {"none", "start", "complete", "submit"})
         /\ TestKept
<1>1. sr \in Sr /\ sr.test \in Tests /\ sr.test \in Nat /\ sr.test \in Runs \cup {None}
  BY SrFields DEF PagePart, TestPageTypes
<1>2. /\ calls \in Seq(Call) /\ modal \in Modals /\ ask \in Questions
  BY DEF PagePart, TestPageTypes, CallsPart
<1>3. CASE PressStart
  <2>1. Request("put", sr.test, "none") \in New
    BY <1>1, NewRunRequests
  <2>2. sr' \in Sr /\ sr'.test = sr.test
    BY <1>1, <1>3 DEF PressStart, Sr
  <2>3. Sends(calls, {"put"}, {"none"})
    BY <1>2, <1>3, <2>1, SendRequest DEF PressStart
  <2> QED
    BY <1>2, <1>3, <2>2, <2>3, SendsMore DEF PressStart, NoModal, TestKept, TestPageTypes
<1>4. CASE Weighed
  <2>1. Request("run", sr.test, "start") \in New
    BY <1>1, NewRunRequests
  <2>2. sr' \in Sr /\ sr'.test = sr.test
    BY <1>1, <1>4 DEF Weighed, Sr
  <2>3. Sends(calls, {"run"}, {"start"})
    BY <1>2, <1>4, <2>1, SendRequest DEF Weighed
  <2> QED
    BY <1>2, <1>4, <2>2, <2>3, SendsMore DEF Weighed, NoModal, TestKept, TestPageTypes
<1>5. CASE PressComplete
  <2>1. Request("complete", sr.test, "complete") \in New
    BY <1>1, NewRequests DEF Callers
  <2>2. Sends(calls, {"complete"}, {"complete"})
    BY <1>2, <1>5, <2>1, SendRequest DEF PressComplete
  <2> QED
    BY <1>1, <1>2, <1>5, <2>2, SendsMore DEF PressComplete, NoModal, TestKept, TestPageTypes
<1>6. CASE PressStop
  BY <1>1, <1>2, <1>6, SendNone
  DEF PressStop, Asks, TestKept, TestPageTypes, Questions, Modals
<1>7. CASE SaveWeights
  <2>1. Sends(calls, {"report"}, {"submit"}) /\ sr' \in Sr /\ sr'.test = sr.test
    BY <1>1, <1>2, <1>7, SubmitsFacts DEF SaveWeights
  <2> QED
    BY <1>2, <1>7, <2>1, SendsMore DEF SaveWeights, NoModal, TestKept, TestPageTypes
<1> QED
  BY <1>3, <1>4, <1>5, <1>6, <1>7

LEMMA ChooseFacts ==
  ASSUME PagePart, CallsPart, Choose
  PROVE  Sends(calls, {"put", "report"}, {"none", "submit"}) /\ TestKept
<1>1. sr \in Sr /\ calls \in Seq(Call) /\ modal' \in Modals /\ ask' \in Questions
  BY DEF PagePart, TestPageTypes, CallsPart, Choose, Modals
<1>2. CASE Weighs(sr, calls)
  BY <1>1, <1>2, WeighsFacts, SendsMore DEF TestKept, TestPageTypes
<1>3. CASE Submits(sr, calls)
  BY <1>1, <1>3, SubmitsFacts, SendsMore DEF TestKept, TestPageTypes
<1> QED
  BY <1>2, <1>3 DEF Choose

LEMMA TickFacts ==
  ASSUME PagePart, CallsPart, Tick
  PROVE  Sends(calls, {"live", "put"}, {"tick", "none"}) /\ TestKept
<1>1. calls \in Seq(Call) /\ sr \in Sr /\ sr.test \in Runs \cup {None}
  BY SrFields DEF PagePart, TestPageTypes, CallsPart
<1> DEFINE live == Request("live", None, "tick")
           put  == Request("put", sr.test, "none")
<1>2. live \in New /\ put \in New
  BY <1>1, NewRequests, NewRunRequests
<1>3. /\ live.op = "live" /\ live.by = "tick" /\ put.op = "put" /\ put.by = "none"
  BY RequestFields
<1>4. \/ calls' = calls \o <<live>> \o <<put>>
      \/ calls' = calls \o <<live>> \o <<>>
  BY DEF Tick
<1> HIDE DEF live, put
<1>5. /\ (calls \o <<live>>) \o <<put>> = Append(Append(calls, live), put)
      /\ (calls \o <<live>>) \o <<>> = Append(calls, live)
  BY <1>1, <1>2, NewCall
<1>6. ASSUME NEW x \in New, NEW y \in New, x.op = "live", x.by = "tick", y.op = "put", y.by = "none",
             calls' = Append(Append(calls, x), y) \/ calls' = Append(calls, x)
      PROVE  Sends(calls, {"live", "put"}, {"tick", "none"})
  <2> DEFINE ops == {"live", "put"}
             callers == {"tick", "none"}
  <2>1. x.op \in ops /\ y.op \in ops /\ x.by \in callers /\ y.by \in callers
    BY <1>6
  <2> HIDE DEF ops, callers
  <2>2. Sends(calls, ops, callers)
    BY <1>1, <1>6, <2>1, SendOne, SendTwo
  <2> QED
    BY <2>2 DEF ops, callers
<1>8. Sends(calls, {"live", "put"}, {"tick", "none"})
  BY <1>2, <1>3, <1>4, <1>5, <1>6
<1> QED
  BY <1>1, <1>8 DEF Tick, NoModal, TestKept, TestPageTypes, PagePart

LEMMA RunAnsweredFacts ==
  ASSUME PagePart, NEW rest \in Seq(Call), NEW c \in Call, RunAnswered(c, rest)
  PROVE  Sends(rest, {"put", "delete"}, {"none"}) /\ TestKept
<1>1. sr \in Sr /\ sr.test \in Runs \cup {None} /\ ask \in Questions /\ modal \in Modals
  BY SrFields DEF PagePart, TestPageTypes
<1>2. Request("put", sr.test, "none") \in New /\ Request("delete", None, "none") \in New
  BY <1>1, NewRequests, NewRunRequests DEF Callers
<1>3. Sends(rest, {"put", "delete"}, {"none"})
  BY <1>2, SendRequest DEF RunAnswered
<1>4. sr' \in Sr /\ sr'.test = sr.test
  BY <1>1 DEF RunAnswered, Sr
<1>5. modal' \in Modals /\ ask' \in Questions
  BY <1>1 DEF RunAnswered, NoModal, Notice, Modals
<1> QED
  BY <1>3, <1>4, <1>5 DEF TestKept, TestPageTypes

\* An answer that the test page takes as it comes.
LEMMA IgnoredFacts ==
  ASSUME PagePart, NEW rest \in Seq(Call), calls' = rest, UNCHANGED sr, NoModal
  PROVE  Sends(rest, {}, {}) /\ TestKept
BY SendNone DEF NoModal, TestKept, TestPageTypes, PagePart

LEMMA EndAnsweredFacts ==
  ASSUME PagePart, NEW rest \in Seq(Call), NEW c \in Call,
         PollAnswered(c, rest) \/ CompleteAnswered(c, rest) \/ StopAnswered(c, rest)
  PROVE  Sends(rest, {"put", "report", "live"}, {"none", "submit", "complete"}) /\ TestKept
<1>1. sr \in Sr /\ sr.test \in Runs \cup {None}
  BY SrFields DEF PagePart, TestPageTypes
<1>2. ASSUME NEW aborted \in BOOLEAN, FinishRun(aborted, rest)
      PROVE  Sends(rest, {"put", "report", "live"}, {"none", "submit", "complete"}) /\ TestKept
  BY <1>2, FinishRunFacts, SendsMore
<1>3. CASE calls' = rest /\ UNCHANGED sr /\ NoModal
  BY <1>3, IgnoredFacts, SendsMore
<1>4. CASE /\ calls' = Append(rest, Request("live", None, "complete"))
           /\ UNCHANGED sr /\ NoModal
  <2>1. Request("live", None, "complete") \in New
    BY NewRequests
  <2> QED
    BY <1>1, <1>4, <2>1, SendRequest
    DEF NoModal, TestKept, TestPageTypes, PagePart
<1>5. CASE FinishRun(FALSE, Append(rest, PostReport(sr.test, "submit", FALSE)))
  <2> DEFINE x == PostReport(sr.test, "submit", FALSE)
  <2>1. x \in New /\ x.op = "report" /\ x.by = "submit"
    <3>1. x \in New
      BY <1>1, NewRunRequests DEF Callers
    <3>2. x.op = "report" /\ x.by = "submit"
      BY DEF PostReport, Request
    <3> QED
      BY <3>1, <3>2
  <2>2. FinishRun(FALSE, Append(rest, x))
    BY <1>5
  <2> HIDE DEF x
  <2>3. Append(rest, x) \in Seq(Call)
    BY <2>1, NewCall
  <2>4. Sends(Append(rest, x), {"put", "report"}, {"none", "submit"}) /\ TestKept
    BY <2>2, <2>3, FinishRunFacts
  <2>5. Sends(rest, {"put", "report"}, {"none", "submit"})
    BY <2>1, <2>4, SendFirst
  <2> QED
    BY <2>4, <2>5, SendsMore
<1>6. FALSE \in BOOLEAN /\ TRUE \in BOOLEAN
  OBVIOUS
<1> QED
  BY <1>2, <1>3, <1>4, <1>5, <1>6 DEF PollAnswered, CompleteAnswered, StopAnswered

----------------------------------------------------------------------------
(***************************************************************************)
(* What the handlers of the validation do                                  *)
(***************************************************************************)
\* The validation keeps its type and what its buttons need.
ValidationKept == ValidationTypes' /\ (val'.enabled => val'.run # None)

LEMMA ValFields ==
  ASSUME NEW v \in Val
  PROVE  /\ v.run \in Validations \cup {None} /\ v.run \in Runs \cup {None} /\ v.run \in Nat
         /\ v.aborted \in BOOLEAN
<1>1. v.run \in Validations \cup {None}
  BY DEF Val
<1>2. v.run \in Runs \cup {None} /\ v.run \in Nat
  <2>1. CASE v.run \in Validations
    BY <2>1, RunFacts
  <2>2. CASE v.run = None
    BY <2>2
  <2> QED
    BY <1>1, <2>1, <2>2
<1>3. v.aborted \in BOOLEAN
  BY DEF Val
<1> QED
  BY <1>1, <1>2, <1>3

LEMMA SavesValidationFacts ==
  ASSUME NEW v \in Val, NEW rest \in Seq(Call), SavesValidation(v, rest)
  PROVE  /\ Sends(rest, {"report"}, {"val"})
         /\ val' \in Val /\ val'.run = v.run /\ (val'.enabled <=> v.enabled)
<1>1. PostReport(v.run, "val", v.aborted) \in New
  BY ValFields, NewRunRequests DEF Callers
<1>2. Sends(rest, {"report"}, {"val"})
  BY <1>1, SendReport DEF SavesValidation
<1> QED
  BY <1>2 DEF SavesValidation, Val

LEMMA StopsValidationFacts ==
  ASSUME PagePart, NEW aborted \in BOOLEAN, NEW rest \in Seq(Call),
         StopsValidation(aborted, rest)
  PROVE  /\ Sends(rest, {"stop", "report"}, {"none", "val"})
         /\ ValidationKept /\ ~val'.running /\ val'.run = val.run
<1> DEFINE over == [val EXCEPT !.running = FALSE, !.aborted = aborted, !.poll = FALSE,
                               !.enabled = FALSE]
           stop == Request("stop", val.run, "none")
<1>1. val \in Val /\ val.run \in Nat
  BY ValFields DEF PagePart, ValidationTypes
<1>2. /\ over \in Val /\ ~over.enabled /\ ~over.running /\ over.run = val.run
  BY <1>1 DEF Val
<1>3. stop \in New /\ stop.op = "stop" /\ stop.by = "none"
  BY <1>1, NewRequests DEF Request
<1>4. \/ SavesValidation(over, Append(rest, stop))
      \/ val' = [over EXCEPT !.awaiting = TRUE] /\ calls' = Append(rest, stop)
  BY DEF StopsValidation
<1> HIDE DEF over, stop
<1>5. CASE SavesValidation(over, Append(rest, stop))
  <2>1. Append(rest, stop) \in Seq(Call)
    BY <1>3, NewCall
  <2>2. Sends(Append(rest, stop), {"report"}, {"val"})
    BY <1>2, <1>5, <2>1, SavesValidationFacts
  <2>3. Sends(Append(rest, stop), {"stop", "report"}, {"none", "val"})
    BY <2>2, SendsMore
  <2>4. Sends(rest, {"stop", "report"}, {"none", "val"})
    BY <1>3, <2>3, SendFirst
  <2>5. val' = [over EXCEPT !.awaiting = FALSE]
    BY <1>5 DEF SavesValidation
  <2>6. val' \in Val /\ ~val'.enabled /\ ~val'.running /\ val'.run = val.run
    BY <1>2, <2>5 DEF Val
  <2> QED
    BY <2>4, <2>6 DEF ValidationKept, ValidationTypes
<1>6. CASE val' = [over EXCEPT !.awaiting = TRUE] /\ calls' = Append(rest, stop)
  <2>1. Sends(rest, {"stop", "report"}, {"none", "val"})
    BY <1>3, <1>6, SendOne
  <2>2. val' \in Val /\ ~val'.enabled /\ ~val'.running /\ val'.run = val.run
    BY <1>2, <1>6 DEF Val
  <2> QED
    BY <2>1, <2>2 DEF ValidationKept, ValidationTypes
<1> QED
  BY <1>4, <1>5, <1>6

LEMMA AbortsValidationFacts ==
  ASSUME PagePart, CallsPart, AbortsValidation("byeTest")
  PROVE  Sends(calls, {"stop"}, {"byeTest"}) /\ ValidationKept
<1>1. val \in Val /\ val.run \in Nat /\ calls \in Seq(Call)
  BY ValFields DEF PagePart, ValidationTypes, CallsPart
<1>2. Request("stop", val.run, "byeTest") \in New
  BY <1>1, NewRequests
<1>3. Sends(calls, {"stop"}, {"byeTest"})
  BY <1>1, <1>2, SendRequest DEF AbortsValidation
<1>4. val' \in Val /\ val'.run = val.run /\ (val'.enabled <=> val.enabled)
  BY <1>1 DEF AbortsValidation, Val
<1> QED
  BY <1>3, <1>4 DEF ValidationKept, ValidationTypes, PagePart

LEMMA ValidationPressFacts ==
  ASSUME PagePart, CallsPart, PressValidate \/ PressAbort \/ SubmitAmplitude
  PROVE  /\ Sends(calls, {"start", "report"}, {"val"}) /\ ValidationKept
         /\ modal' \in Modals /\ ask' \in Questions
<1>1. val \in Val /\ val.run \in Validations \cup {None} /\ calls \in Seq(Call)
  BY ValFields DEF PagePart, ValidationTypes, CallsPart
<1>2. modal \in Modals /\ ask \in Questions
  BY DEF PagePart, TestPageTypes
<1>3. CASE PressValidate
  <2>1. Request("start", val.run, "val") \in New
    BY <1>1, <1>3, NewRunRequests DEF PressValidate, PagePart
  <2>2. Sends(calls, {"start", "report"}, {"val"})
    BY <1>1, <1>3, <2>1, SendRequest DEF PressValidate
  <2> QED
    BY <1>2, <1>3, <2>2 DEF PressValidate, NoModal, ValidationKept, ValidationTypes, PagePart
<1>4. CASE PressAbort
  BY <1>1, <1>4, SendNone
  DEF PressAbort, Asks, Modals, Questions, ValidationKept, ValidationTypes, PagePart
<1>5. CASE SubmitAmplitude
  <2>1. /\ Sends(calls, {"report"}, {"val"}) /\ val' \in Val /\ val'.run = val.run
        /\ (val'.enabled <=> val.enabled)
    BY <1>1, <1>5, SavesValidationFacts DEF SubmitAmplitude
  <2> QED
    BY <1>2, <1>5, <2>1, SendsMore
    DEF SubmitAmplitude, NoModal, ValidationKept, ValidationTypes, PagePart
<1> QED
  BY <1>3, <1>4, <1>5

LEMMA ValidationTimerFacts ==
  ASSUME PagePart, CallsPart, ValidationTick \/ ValidationOver
  PROVE  /\ Sends(calls, {"put", "stop", "report"}, {"none", "val"}) /\ ValidationKept
         /\ modal' \in Modals /\ ask' \in Questions
<1>1. val \in Val /\ val.run \in Runs \cup {None} /\ calls \in Seq(Call)
  BY ValFields DEF PagePart, ValidationTypes, CallsPart
<1>2. modal' \in Modals /\ ask' \in Questions
  BY DEF PagePart, TestPageTypes, ValidationTick, ValidationOver, NoModal
<1>3. Request("put", val.run, "none") \in New
  BY <1>1, NewRunRequests
<1>4. CASE ValidationTick
  <2>1. Sends(calls, {"put"}, {"none"})
    BY <1>1, <1>3, <1>4, SendRequest DEF ValidationTick
  <2> QED
    BY <1>2, <1>4, <2>1, SendsMore DEF ValidationTick, ValidationKept, ValidationTypes, PagePart
<1>5. CASE ValidationOver
  <2> DEFINE put == Request("put", val.run, "none")
  <2>1. put \in New /\ put.op = "put" /\ put.by = "none" /\ StopsValidation(FALSE, Append(calls, put))
    BY <1>3, <1>5 DEF ValidationOver, Request
  <2> HIDE DEF put
  <2>2. Append(calls, put) \in Seq(Call) /\ FALSE \in BOOLEAN
    BY <1>1, <2>1, NewCall
  <2>3. Sends(Append(calls, put), {"stop", "report"}, {"none", "val"}) /\ ValidationKept
    BY <2>1, <2>2, StopsValidationFacts
  <2>4. Sends(Append(calls, put), {"put", "stop", "report"}, {"none", "val"})
    BY <2>3, SendsMore
  <2>5. Sends(calls, {"put", "stop", "report"}, {"none", "val"})
    BY <1>1, <2>1, <2>4, SendFirst
  <2> QED
    BY <1>2, <2>3, <2>5
<1> QED
  BY <1>4, <1>5

LEMMA StartAnsweredFacts ==
  ASSUME PagePart, NEW rest \in Seq(Call), NEW c \in Call, StartAnswered(c, rest)
  PROVE  /\ Sends(rest, {"put"}, {"none"}) /\ ValidationKept
         /\ modal' \in Modals /\ ask' \in Questions
<1>1. val \in Val /\ val.run \in Runs \cup {None}
  BY ValFields DEF PagePart, ValidationTypes
<1>2. modal' \in Modals /\ ask' \in Questions
  BY DEF PagePart, TestPageTypes, StartAnswered, NoModal, Notice, Modals
<1>3. Request("put", val.run, "none") \in New
  BY <1>1, NewRunRequests
<1>4. Sends(rest, {"put"}, {"none"})
  BY <1>3, SendRequest, SendNone DEF StartAnswered
<1>5. val' \in Val /\ val'.run = val.run /\ (val'.enabled <=> val.enabled)
  BY <1>1 DEF StartAnswered, Val
<1> QED
  BY <1>2, <1>4, <1>5 DEF ValidationKept, ValidationTypes, PagePart

----------------------------------------------------------------------------
(***************************************************************************)
(* The steps of the page                                                   *)
(***************************************************************************)
LEMMA ReportsLen == ServerPart => Len(reports) \in Nat /\ reports \in Seq(Report)
BY LenProperties DEF ServerPart

\* A step of the page that sends what fits and keeps the rest in order.
LEMMA PageStep ==
  ASSUME KioskInv, UNCHANGED server,
         NEW rest \in Seq(Call), ToSet(rest) \subseteq ToSet(calls),
         NEW ops, NEW callers, Sends(rest, ops, callers),
         TestPageTypes', ValidationKept, ShellPart'
  PROVE  KioskInv'
<1>1. PICK new \in SUBSET New : Grown(calls', rest, new)
  BY DEF Sends
<1>2. calls' \in Seq(Call) /\ ToSet(calls') \subseteq Fit(Len(reports))
  BY <1>1 DEF Grown, New, KioskInv, CallsPart
<1>3. reports' = reports /\ ServerPart'
  BY DEF server, KioskInv, ServerPart
<1> QED
  BY <1>2, <1>3 DEF KioskInv, CallsPart, PagePart, ValidationKept

LEMMA ShellStays ==
  ASSUME KioskInv, UNCHANGED server, haste' \in 0 .. MaxHaste, user' \in BOOLEAN,
         UNCHANGED <<page, goal, gate, last>>,
         going' \in {going, goal, "nowhere", "home", "recipes", "validation", "preview"},
         skip' \subseteq Guards,
         sr'.test = sr.test
  PROVE  ShellPart'
<1>1. reports' = reports
  BY DEF server
<1>2. going' \in Pages \cup {"nowhere"}
  BY DEF KioskInv, ShellPart, Pages
<1>3. "test" \in {page', going', goal'} => "test" \in {page, going, goal}
  OBVIOUS
<1> QED
  BY <1>1, <1>2, <1>3 DEF KioskInv, ShellPart

LEMMA OpensPreviewFacts ==
  ASSUME KioskInv, NEW rest \in Seq(Call), NEW id \in 1 .. Len(reports), OpensPreview(id, rest)
  PROVE  Sends(rest, {"preview"}, {"open"}) /\ modal' \in Modals /\ ask' = ask
<1>1. Request("preview", id, "open") \in New
  BY ReportsLen, NewReportRequests DEF KioskInv
<1>2. Sends(rest, {"preview"}, {"open"})
  BY <1>1, SendRequest, SendNone DEF OpensPreview
<1> QED
  BY <1>2 DEF OpensPreview, NoModal, Notice, Modals, KioskInv, PagePart, TestPageTypes

LEMMA GoToPageStep ==
  ASSUME KioskInv, GoToPage, haste' = haste
  PROVE  /\ Sends(calls, {"preview"}, {"open"})
         /\ KioskInv'
<1>1. /\ calls \in Seq(Call) /\ UNCHANGED server /\ sr' = sr /\ val' = val /\ user' = user
      /\ going' = "nowhere" /\ gate' = gate /\ last' = last /\ going \in Pages
      /\ modal \in Modals /\ ask \in Questions
  BY DEF GoToPage, KioskInv, CallsPart, ShellPart, PagePart, TestPageTypes
<1>2. /\ Sends(calls, {"preview"}, {"open"})
      /\ modal' \in Modals /\ ask' \in Questions
      /\ page' \in {page, going} /\ goal' \in {goal, going} /\ skip' \subseteq skip
  <2>1. CASE GuardAsks(going)
    <3>1. Sends(calls, {"preview"}, {"open"})
      BY <1>1, <2>1, SendNone DEF GuardAsks
    <3> QED
      BY <2>1, <3>1 DEF GuardAsks, Asks, Modals, Questions
  <2>2. CASE PreviewHolds(going)
    <3>1. last.report \in 1 .. Len(reports)
      BY <2>2 DEF PreviewHolds, KioskInv, ShellPart
    <3>2. Request("preview", last.report, "open") \in New
      BY <3>1, ReportsLen, NewReportRequests DEF KioskInv
    <3>3. Sends(calls, {"preview"}, {"open"})
      BY <1>1, <2>2, <3>2, SendRequest, SendNone DEF PreviewHolds
    <3> QED
      BY <1>1, <2>2, <3>3 DEF PreviewHolds, Notice, Modals
  <2>3. CASE Arrives(going)
    <3>1. Sends(calls, {"preview"}, {"open"})
      BY <1>1, <2>3, SendNone DEF Arrives
    <3> QED
      BY <1>1, <2>3, <3>1 DEF Arrives, Notice, NoModal, Modals
  <2> QED
    BY <2>1, <2>2, <2>3 DEF GoToPage
<1>3. reports' = reports
  BY <1>1 DEF server
<1>4. ShellPart'
  BY <1>1, <1>2, <1>3 DEF KioskInv, ShellPart
<1>5. TestPageTypes' /\ ValidationKept
  BY <1>1, <1>2 DEF TestPageTypes, ValidationKept, ValidationTypes, KioskInv, PagePart
<1> QED
  BY <1>1, <1>2, <1>4, <1>5, PageStep

\* What the buttons of the two pages send.
TestPageOps == {"put", "run", "complete", "report"}
TestPageCallers == {"none", "start", "complete", "submit"}

LEMMA OnTestPageStep ==
  ASSUME KioskInv, OnTestPage, haste' \in 0 .. MaxHaste
  PROVE  Sends(calls, TestPageOps, TestPageCallers) /\ KioskInv'
<1>1. /\ calls \in Seq(Call) /\ UNCHANGED <<server, user, val, page, going, goal, skip, gate, last>>
      /\ user \in BOOLEAN /\ skip \subseteq Guards /\ sr.test # None
  BY DEF OnTestPage, Free, Stays, KioskInv, CallsPart, ShellPart
<1>2. Sends(calls, TestPageOps, TestPageCallers) /\ TestKept
  BY <1>1, TestPressFacts DEF OnTestPage, KioskInv, TestPageOps, TestPageCallers
<1>3. ShellPart'
  BY <1>1, <1>2, ShellStays DEF TestKept
<1>4. ValidationKept
  BY <1>1 DEF ValidationKept, ValidationTypes, KioskInv, PagePart
<1> QED
  BY <1>1, <1>2, <1>3, <1>4, PageStep DEF TestKept

LEMMA OnValidationPageStep ==
  ASSUME KioskInv, OnValidationPage, haste' \in 0 .. MaxHaste
  PROVE  Sends(calls, {"start", "report"}, {"val"}) /\ KioskInv'
<1>1. /\ calls \in Seq(Call) /\ UNCHANGED <<server, user, sr, page, going, goal, skip, gate, last>>
      /\ user \in BOOLEAN /\ skip \subseteq Guards /\ sr' \in Sr
  BY DEF OnValidationPage, Stays, KioskInv, CallsPart, ShellPart, PagePart, TestPageTypes
<1>2. /\ Sends(calls, {"start", "report"}, {"val"}) /\ ValidationKept
      /\ modal' \in Modals /\ ask' \in Questions
  BY ValidationPressFacts DEF OnValidationPage, KioskInv
<1>3. ShellPart'
  BY <1>1, ShellStays
<1> QED
  BY <1>1, <1>2, <1>3, PageStep DEF TestPageTypes

\* Presses that send nothing.
LEMMA QuietStep ==
  ASSUME KioskInv, haste' \in 0 .. MaxHaste,
         BackFromValidation \/ LoadRecipe \/ OpenValidation \/ Navigate \/ PressCancel
  PROVE  calls' = calls /\ KioskInv'
<1>1. /\ calls \in Seq(Call) /\ calls' = calls /\ UNCHANGED <<server, user>>
      /\ user \in BOOLEAN /\ skip \subseteq Guards
      /\ sr \in Sr /\ modal \in Modals /\ ask \in Questions /\ val \in Val
  BY DEF BackFromValidation, LoadRecipe, OpenValidation, Navigate, PressCancel, KioskInv,
         CallsPart, ShellPart, PagePart, TestPageTypes, ValidationTypes
<1>2. modal' \in Modals /\ ask' \in Questions
  BY <1>1 DEF BackFromValidation, LoadRecipe, OpenValidation, Navigate, PressCancel, Asks,
              Modals, Questions
<1>3. CASE LoadRecipe
  <2>1. PICK analysis \in BOOLEAN : sr' = Blank(sr.test + 1, analysis)
    BY <1>3 DEF LoadRecipe
  <2>2. sr.test + 1 \in Tests
    <3>1. sr.test \in Nat /\ sr.test < MaxTests
      BY <1>1, <1>3, SrFields DEF LoadRecipe
    <3> QED
      BY <3>1, ServerAssumption DEF Tests
  <2>3. sr' \in Sr /\ sr'.test = sr.test + 1 /\ sr'.test # None
    BY <2>1, <2>2, RunFacts DEF Blank, Sr
  <2>4. reports' = reports
    BY <1>1 DEF server
  <2>5. ShellPart'
    BY <1>1, <1>3, <2>3, <2>4 DEF LoadRecipe, GoesTo, KioskInv, ShellPart, Pages
  <2> QED
    BY <1>1, <1>2, <1>3, <2>3, <2>5, PageStep, SendNone
    DEF LoadRecipe, TestPageTypes, ValidationKept, ValidationTypes, KioskInv, PagePart
<1>4. CASE OpenValidation
  <2>1. sr' = sr /\ ShellPart'
    BY <1>1, <1>4, ShellStays DEF OpenValidation, GoesTo
  <2>2. val' \in Val /\ val'.run # None
    <3>1. val.run \in Validations \cup {None} /\ val.run # MaxTests + MaxValidations
      BY <1>1, <1>4, ValFields DEF OpenValidation
    <3>2. Validations # {}
      BY <1>4, FS_EmptySet DEF OpenValidation
    <3>3. (IF val.run = None THEN MaxTests + 1 ELSE val.run + 1) \in Validations
      BY <3>1, <3>2, ServerAssumption DEF Validations
    <3> QED
      BY <1>4, <3>3, RunFacts DEF OpenValidation, Ready, Val
  <2> QED
    BY <1>1, <1>2, <2>1, <2>2, PageStep, SendNone
    DEF TestPageTypes, ValidationKept, ValidationTypes
<1>5. CASE BackFromValidation \/ Navigate \/ PressCancel
  <2>1. UNCHANGED <<sr, val, page, goal, gate, last>> /\ skip' = skip
    BY <1>5 DEF BackFromValidation, Navigate, PressCancel, GoesTo, Stays
  <2>2. going' \in {going, "home", "recipes"}
    BY <1>5 DEF BackFromValidation, Navigate, PressCancel, GoesTo, Stays
  <2>3. ShellPart'
    BY <1>1, <2>1, <2>2, ShellStays DEF Pages, KioskInv, ShellPart
  <2> QED
    BY <1>1, <1>2, <2>1, <2>3, PageStep, SendNone
    DEF TestPageTypes, ValidationKept, ValidationTypes, KioskInv, PagePart
<1> QED
  BY <1>1, <1>3, <1>4, <1>5

LEMMA OpenReportStep ==
  ASSUME KioskInv, OpenReport, haste' \in 0 .. MaxHaste
  PROVE  Sends(calls, {"preview"}, {"open"}) /\ KioskInv'
<1>1. /\ calls \in Seq(Call) /\ UNCHANGED <<server, user, sr, val, page, going, goal, skip, gate, last>>
      /\ user \in BOOLEAN /\ skip \subseteq Guards /\ sr \in Sr /\ ask \in Questions
  BY DEF OpenReport, Stays, KioskInv, CallsPart, ShellPart, PagePart, TestPageTypes
<1>2. PICK id \in DOMAIN reports : OpensPreview(id, calls)
  BY DEF OpenReport
<1>3. id \in 1 .. Len(reports)
  BY <1>2, LenProperties DEF KioskInv, ServerPart
<1>4. Sends(calls, {"preview"}, {"open"}) /\ modal' \in Modals /\ ask' = ask
  BY <1>1, <1>2, <1>3, OpensPreviewFacts
<1>5. ShellPart'
  BY <1>1, ShellStays
<1> QED
  BY <1>1, <1>4, <1>5, PageStep
  DEF TestPageTypes, ValidationKept, ValidationTypes, KioskInv, PagePart

LEMMA LogsOutFacts ==
  ASSUME PagePart, CallsPart, LogsOut
  PROVE  /\ Sends(calls, {"stop", "abort", "report", "ensure"}, {"bye", "byeTest"})
         /\ ValidationKept /\ sr' \in Sr /\ sr'.test = sr.test
<1>1. calls \in Seq(Call) /\ sr \in Sr /\ val \in Val /\ (val.enabled => val.run # None)
  BY DEF PagePart, CallsPart, TestPageTypes, ValidationTypes
<1>2. CASE AbortsValidation("byeTest") /\ UNCHANGED sr
  BY <1>1, <1>2, AbortsValidationFacts, SendsMore
<1>3. CASE AbortsNow(calls) /\ UNCHANGED val
  <2>1. Sends(calls, {"abort", "report", "ensure"}, {"bye"}) /\ sr' \in Sr /\ sr'.test = sr.test
    BY <1>1, <1>3, AbortsNowFacts
  <2> QED
    BY <1>1, <1>3, <2>1, SendsMore DEF ValidationKept, ValidationTypes
<1>4. CASE calls' = Append(calls, Request("ensure", None, "bye")) /\ UNCHANGED <<sr, val>>
  <2>1. Request("ensure", None, "bye") \in New
    BY NewRequests
  <2>2. Sends(calls, {"stop", "abort", "report", "ensure"}, {"bye", "byeTest"})
    BY <1>1, <1>4, <2>1, SendRequest
  <2> QED
    BY <1>1, <1>4, <2>2 DEF ValidationKept, ValidationTypes
<1> QED
  BY <1>2, <1>3, <1>4 DEF LogsOut

LEMMA PressLogoutStep ==
  ASSUME KioskInv, PressLogout, haste' \in 0 .. MaxHaste
  PROVE  /\ Sends(calls, {"stop", "abort", "report", "ensure", "preview"},
                         {"bye", "byeTest", "open"})
         /\ gate # None => Sends(calls, {"preview"}, {"open"})
         /\ KioskInv'
<1>1. /\ calls \in Seq(Call) /\ UNCHANGED <<server, user, page, going, goal, skip, gate, last>>
      /\ user \in BOOLEAN /\ skip \subseteq Guards /\ sr \in Sr /\ val \in Val
      /\ modal \in Modals /\ ask \in Questions /\ gate \in 0 .. Len(reports)
      /\ val.enabled => val.run # None
  BY DEF PressLogout, Stays, KioskInv, CallsPart, ShellPart, PagePart, TestPageTypes,
         ValidationTypes
<1>2. /\ Sends(calls, {"stop", "abort", "report", "ensure", "preview"},
                      {"bye", "byeTest", "open"})
      /\ gate # None => Sends(calls, {"preview"}, {"open"})
      /\ ValidationKept /\ sr' \in Sr /\ sr'.test = sr.test
      /\ modal' \in Modals /\ ask' \in Questions
  <2>1. CASE Asks("logout") /\ UNCHANGED <<calls, sr, val>>
    <3>1. Sends(calls, {"preview"}, {"open"})
      BY <1>1, <2>1, SendNone
    <3>2. modal' \in Modals /\ ask' \in Questions
      BY <2>1 DEF Asks, Modals, Questions
    <3> QED
      BY <1>1, <2>1, <3>1, <3>2, SendsMore DEF ValidationKept, ValidationTypes
  <2>2. CASE /\ gate # None /\ Notice /\ UNCHANGED <<sr, val>>
             /\ calls' = Append(calls, Request("preview", gate, "open"))
    <3>1. gate \in 1 .. Len(reports) /\ Len(reports) \in Nat
      BY <1>1, <2>2, ReportsLen DEF KioskInv
    <3>2. Request("preview", gate, "open") \in New
      BY <3>1, NewReportRequests
    <3>3. Sends(calls, {"preview"}, {"open"})
      BY <1>1, <2>2, <3>2, SendRequest
    <3>4. modal' \in Modals /\ ask' \in Questions
      BY <1>1, <2>2 DEF Notice, Modals
    <3> QED
      BY <1>1, <2>2, <3>3, <3>4, SendsMore DEF ValidationKept, ValidationTypes
  <2>3. CASE gate = None /\ LogsOut /\ NoModal
    BY <1>1, <2>3, LogsOutFacts, SendsMore DEF NoModal, KioskInv
  <2> QED
    BY <2>1, <2>2, <2>3 DEF PressLogout
<1>3. ShellPart'
  BY <1>1, <1>2, ShellStays
<1> QED
  BY <1>1, <1>2, <1>3, PageStep DEF TestPageTypes

LEMMA AutoLogoutTickStep ==
  ASSUME KioskInv, AutoLogoutTick, haste' = haste
  PROVE  Sends(calls, {"ensure"}, {"idle"}) /\ KioskInv'
<1>1. /\ calls \in Seq(Call)
      /\ UNCHANGED <<server, user, sr, modal, ask, val, page, going, goal, skip, gate, last>>
      /\ user \in BOOLEAN /\ skip \subseteq Guards /\ haste' \in 0 .. MaxHaste
  BY DEF AutoLogoutTick, Stays, page_, KioskInv, CallsPart, ShellPart
<1>2. Request("ensure", None, "idle") \in New
  BY NewRequests
<1>3. Sends(calls, {"ensure"}, {"idle"})
  BY <1>1, <1>2, SendRequest DEF AutoLogoutTick
<1>4. ShellPart'
  BY <1>1, ShellStays
<1> QED
  BY <1>1, <1>3, <1>4, PageStep
  DEF TestPageTypes, ValidationKept, ValidationTypes, KioskInv, PagePart

LEMMA PressChoiceStep ==
  ASSUME KioskInv, PressChoice, haste' \in 0 .. MaxHaste
  PROVE  Sends(calls, {"put", "report"}, {"none", "submit"}) /\ KioskInv'
<1>1. /\ calls \in Seq(Call) /\ UNCHANGED <<server, user, val, page, going, goal, skip, gate, last>>
      /\ user \in BOOLEAN /\ skip \subseteq Guards
  BY DEF PressChoice, Stays, KioskInv, CallsPart, ShellPart
<1>2. Sends(calls, {"put", "report"}, {"none", "submit"}) /\ TestKept
  BY ChooseFacts DEF PressChoice, KioskInv
<1>3. ShellPart'
  BY <1>1, <1>2, ShellStays DEF TestKept
<1> QED
  BY <1>1, <1>2, <1>3, PageStep
  DEF TestKept, ValidationKept, ValidationTypes, KioskInv, PagePart

\* What follows the answer to a question.
OkOps == {"abort", "stop", "report", "ensure"}
OkCallers == {"stop", "leave", "none", "val", "bye", "byeTest"}

LEMMA PressOkStep ==
  ASSUME KioskInv, PressOk, haste' \in 0 .. MaxHaste
  PROVE  /\ Sends(calls, OkOps, OkCallers)
         /\ ask = "none" => calls' = calls /\ page' = page
         /\ KioskInv'
<1>1. /\ calls \in Seq(Call) /\ UNCHANGED <<server, user>> /\ modal' = "none" /\ ask' = "none"
      /\ user \in BOOLEAN /\ skip \subseteq Guards /\ sr \in Sr /\ val \in Val
      /\ goal \in Pages
      /\ val.enabled => val.run # None
  BY DEF PressOk, KioskInv, CallsPart, ShellPart, PagePart, TestPageTypes, ValidationTypes
<1>2. modal' \in Modals /\ ask' \in Questions
  BY <1>1 DEF Modals, Questions
<1>3. /\ Sends(calls, OkOps, OkCallers)
      /\ ask = "none" => calls' = calls
      /\ UNCHANGED <<page, goal, gate, last>>
      /\ going' \in {going, goal, "home"} /\ skip' \subseteq Guards
      /\ sr' \in Sr /\ sr'.test = sr.test /\ ValidationKept
  <2>1. CASE /\ ask \in {"stop", "leaveTest"}
             /\ calls' = Append(calls, Request("abort", sr.test,
                                               IF ask = "stop" THEN "stop" ELSE "leave"))
             /\ UNCHANGED <<sr, val>> /\ Stays
    <3> DEFINE by == IF ask = "stop" THEN "stop" ELSE "leave"
    <3>1. by \in {"stop", "leave"} /\ calls' = Append(calls, Request("abort", sr.test, by))
      BY <2>1
    <3> HIDE DEF by
    <3>2. Request("abort", sr.test, by) \in New
      BY <1>1, <3>1, SrFields, NewRequests DEF Callers
    <3>3. Sends(calls, OkOps, OkCallers)
      BY <1>1, <3>1, <3>2, SendRequest DEF OkOps, OkCallers
    <3> QED
      BY <1>1, <2>1, <3>3 DEF Stays, ValidationKept, ValidationTypes
  <2>2. CASE /\ ask \in {"stopVal", "leaveVal", "backVal"}
             /\ StopsValidation(TRUE, calls) /\ UNCHANGED sr
             /\ \/ Stays
                \/ /\ skip' = skip \cup {"val"}
                   /\ GoesTo(IF ask = "leaveVal" THEN goal ELSE "home")
    <3>1. /\ UNCHANGED <<page, goal, gate, last>>
          /\ going' \in {going, goal, "home"} /\ skip' \subseteq Guards
      BY <1>1, <2>2 DEF Stays, GoesTo, Guards
    <3>2. Sends(calls, {"stop", "report"}, {"none", "val"}) /\ ValidationKept
      <4>1. StopsValidation(TRUE, calls) /\ TRUE \in BOOLEAN
        BY <2>2
      <4> QED
        BY <1>1, <4>1, StopsValidationFacts DEF KioskInv
    <3>3. Sends(calls, OkOps, OkCallers)
      BY <3>2, SendsMore DEF OkOps, OkCallers
    <3> QED
      BY <1>1, <2>2, <3>1, <3>2, <3>3
  <2>3. CASE ask = "logout" /\ LogsOut /\ Stays
    <3>1. /\ Sends(calls, {"stop", "abort", "report", "ensure"}, {"bye", "byeTest"})
          /\ ValidationKept /\ sr' \in Sr /\ sr'.test = sr.test
      BY <2>3, LogsOutFacts DEF KioskInv
    <3>2. Sends(calls, OkOps, OkCallers)
      BY <3>1, SendsMore DEF OkOps, OkCallers
    <3> QED
      BY <1>1, <2>3, <3>1, <3>2 DEF Stays
  <2>4. CASE ask = "none" /\ UNCHANGED <<calls, sr, val>> /\ Stays
    BY <1>1, <2>4, SendNone DEF Stays, ValidationKept, ValidationTypes
  <2> QED
    BY <2>1, <2>2, <2>3, <2>4 DEF PressOk, Yes
<1>4. ShellPart'
  BY <1>1, <1>3, ShellStays
<1> QED
  BY <1>1, <1>2, <1>3, <1>4, PageStep DEF TestPageTypes

\* The request with which a login looks after the gate.
LEMMA LoginStep ==
  ASSUME KioskInv, Login, haste' \in 0 .. MaxHaste
  PROVE  /\ \/ calls' = calls
            \/ \E c \in Fit(Len(reports)) :
                 /\ c.op = "preview" /\ c.by = "again" /\ c.at = "sent" /\ c.signed
                 /\ calls' = Append(calls, c)
         /\ KioskInv'
<1>1. /\ calls \in Seq(Call) /\ ToSet(calls) \subseteq Fit(Len(reports))
      /\ UNCHANGED <<prog, begun, ended, ckpt, reports, fails, started, told, unsaved>>
      /\ load' \in {None, load}
      /\ UNCHANGED <<sr, modal, ask, val, page, goal, skip, gate, last>>
      /\ user' = TRUE /\ going' = "home" /\ gate \in 0 .. Len(reports)
      /\ skip \subseteq Guards /\ Len(reports) \in Nat
  BY ReportsLen DEF Login, GoesTo, KioskInv, CallsPart, ShellPart
<1>2. ShellPart'
  BY <1>1 DEF KioskInv, ShellPart, Pages
<1>3. ServerPart' /\ PagePart' /\ reports' = reports
  BY <1>1 DEF KioskInv, ServerPart, PagePart, TestPageTypes, ValidationTypes
<1>4. CASE calls' = calls
  BY <1>1, <1>2, <1>3, <1>4 DEF KioskInv, CallsPart
<1>5. CASE gate # None /\ calls' # calls
  <2> DEFINE c == [Request("preview", gate, "again") EXCEPT !.signed = TRUE]
  <2>1. calls' = Append(calls, c)
    BY <1>5 DEF Login
  <2>2. /\ c \in Fit(Len(reports)) /\ c.op = "preview" /\ c.by = "again"
        /\ c.at = "sent" /\ c.signed
    <3>1. gate \in 1 .. Len(reports) /\ gate \in Nat
      BY <1>1, <1>5
    <3>2. Request("preview", gate, "again") \in Call
      BY <3>1, RequestType DEF Ops, Callers
    <3>3. c \in Call /\ c.op = "preview" /\ c.by = "again" /\ c.at = "sent" /\ c.signed
          /\ c.of = gate
      BY <3>2 DEF Request, Call
    <3> QED
      BY <3>1, <3>3 DEF Fit
  <2> HIDE DEF c
  <2>3. c \in Call
    BY <2>2 DEF Fit
  <2>4. calls' \in Seq(Call) /\ ToSet(calls') = ToSet(calls) \cup {c}
    BY <1>1, <2>1, <2>3, AppendFacts
  <2> QED
    BY <1>1, <1>2, <1>3, <2>1, <2>2, <2>4 DEF KioskInv, CallsPart
<1> QED
  BY <1>4, <1>5 DEF Login

\* A report that the screen takes for closed.
LEMMA UnlocksFacts ==
  ASSUME KioskInv, Unlocks
  PROVE  /\ Sends(calls, {"delete", "preview"}, {"none", "open"})
         /\ modal' = "notice" /\ ask' = ask /\ gate' = None
         /\ last' \in [report : 0 .. MaxReports, pending : BOOLEAN] /\ ~last'.pending
<1>1. calls \in Seq(Call) /\ last \in [report : 0 .. MaxReports, pending : BOOLEAN]
  BY DEF KioskInv, CallsPart, ShellPart
<1>2. Request("delete", None, "none") \in New
  BY NewRequests DEF Callers
<1>3. Sends(calls, {"delete", "preview"}, {"none", "open"})
  BY <1>1, <1>2, SendRequest DEF Unlocks
<1> QED
  BY <1>1, <1>3 DEF Unlocks, Notice

LEMMA ApprovalPollStep ==
  ASSUME KioskInv, ApprovalPoll, haste' = haste
  PROVE  Sends(calls, {"delete", "preview"}, {"none", "open"}) /\ KioskInv'
<1>1. /\ calls \in Seq(Call) /\ UNCHANGED <<server, user, sr, val, page, going, goal, skip, haste>>
      /\ Unlocks /\ reports' = reports /\ ask \in Questions
  BY DEF ApprovalPoll, server, KioskInv, CallsPart, PagePart, TestPageTypes
<1>2. /\ Sends(calls, {"delete", "preview"}, {"none", "open"})
      /\ modal' = "notice" /\ ask' = ask /\ gate' = None
      /\ last' \in [report : 0 .. MaxReports, pending : BOOLEAN] /\ ~last'.pending
  BY <1>1, UnlocksFacts
<1>3. ShellPart'
  <2>1. Len(reports) \in Nat
    BY ReportsLen DEF KioskInv
  <2> QED
    BY <1>1, <1>2, <2>1 DEF KioskInv, ShellPart
<1> QED
  BY <1>1, <1>2, <1>3, PageStep
  DEF TestPageTypes, Modals, ValidationKept, ValidationTypes, KioskInv, PagePart

\* The approval leaves one report less to wait for.
LEMMA ApproveStep ==
  ASSUME KioskInv, Approve, haste' \in 0 .. MaxHaste
  PROVE  /\ Sends(calls, {"delete", "preview"}, {"none", "open"}) /\ KioskInv'
         /\ UNCHANGED <<prog, begun, ended, load, ckpt, fails, started, told, unsaved>>
<1>1. /\ calls \in Seq(Call) /\ ToSet(calls) \subseteq Fit(Len(reports))
      /\ UNCHANGED <<prog, begun, ended, load, ckpt, fails, started, told, unsaved,
                     user, sr, val, page, going, goal, skip>>
      /\ gate \in 1 .. Len(reports) /\ Len(reports) \in Nat /\ reports \in Seq(Report)
      /\ last.report = gate /\ last.pending
      /\ last \in [report : 0 .. MaxReports, pending : BOOLEAN]
  BY ReportsLen DEF Approve, KioskInv, CallsPart, ShellPart
<1>2. /\ Sends(calls, {"delete", "preview"}, {"none", "open"})
      /\ modal' = "notice" /\ ask' = ask /\ gate' = None
      /\ last' \in [report : 0 .. MaxReports, pending : BOOLEAN]
      /\ last'.pending => last' = last
      /\ reports' \in Seq(Report) /\ Len(reports') = Len(reports)
  <2>1. CASE Unlocks /\ UNCHANGED reports
    BY <1>1, <2>1, UnlocksFacts
  <2>2. CASE /\ reports' = [reports EXCEPT ![gate].pending = FALSE]
             /\ gate' = None
             /\ calls' = calls \o <<Request("delete", None, "none"),
                                    Request("preview", gate, "open")>>
             /\ Notice /\ UNCHANGED last
    <3> DEFINE x == Request("delete", None, "none")
               y == Request("preview", gate, "open")
    <3>1. x \in New /\ y \in New
      BY <1>1, NewRequests, NewReportRequests DEF Callers
    <3>2. x.op = "delete" /\ x.by = "none" /\ y.op = "preview" /\ y.by = "open"
      BY DEF Request
    <3>3. calls' = calls \o <<x, y>>
      BY <2>2
    <3> HIDE DEF x, y
    <3> DEFINE ops == {"delete", "preview"}
               callers == {"none", "open"}
    <3>4. x.op \in ops /\ x.by \in callers /\ y.op \in ops /\ y.by \in callers
      BY <3>2
    <3> HIDE DEF ops, callers
    <3>5. Sends(calls, ops, callers)
      BY <1>1, <3>1, <3>3, <3>4, SendTwo
    <3>6. Sends(calls, {"delete", "preview"}, {"none", "open"})
      BY <3>5 DEF ops, callers
    <3> DEFINE closed == [reports[gate] EXCEPT !.pending = FALSE]
    <3>7. closed \in Report /\ reports' = [reports EXCEPT ![gate] = closed]
      <4>1. reports[gate] \in Report
        BY <1>1, ElementOfSeq
      <4>2. closed \in Report
        BY <4>1 DEF Report
      <4>3. reports' = [reports EXCEPT ![gate] = closed]
        BY <2>2
      <4> QED
        BY <4>2, <4>3
    <3> HIDE DEF closed
    <3>8. reports' \in Seq(Report) /\ Len(reports') = Len(reports)
      BY <1>1, <3>7, ExceptSeq
    <3> QED
      BY <1>1, <2>2, <3>6, <3>8 DEF Notice
  <2> QED
    BY <2>1, <2>2 DEF Approve
<1>3. ServerPart'
  BY <1>1, <1>2 DEF KioskInv, ServerPart
<1>4. CallsPart'
  BY <1>1, <1>2 DEF CallsPart, Sends, Grown, New
<1>5. PagePart'
  BY <1>1, <1>2 DEF KioskInv, PagePart, TestPageTypes, ValidationTypes, Modals
<1>6. ShellPart'
  BY <1>1, <1>2 DEF KioskInv, ShellPart
<1> QED
  BY <1>1, <1>2, <1>3, <1>4, <1>5, <1>6 DEF KioskInv

\* Whom the requests of an answered handler are for: not for a logout, when
\* the answer was not for one.
PageCallers == Callers \ {"bye", "byeTest", "idle"}

LEMMA TestAnswerStep ==
  ASSUME KioskInv, NEW rest \in Seq(Call), ToSet(rest) \subseteq ToSet(calls), NEW c \in Call,
         UNCHANGED server, haste' = haste,
         \/ /\ \/ RunAnswered(c, rest) \/ PollAnswered(c, rest)
               \/ CompleteAnswered(c, rest) \/ StopAnswered(c, rest)
            /\ UNCHANGED <<user, val>> /\ Stays
         \/ LeaveAnswered(c, rest) /\ UNCHANGED <<user, val>>
  PROVE  /\ Sends(rest, {"put", "delete", "report", "live"}, {"none", "submit", "complete"})
         /\ KioskInv'
<1>1. /\ UNCHANGED <<user, val, page, goal, gate, last>>
      /\ going' \in {going, goal} /\ skip' \subseteq Guards
      /\ user \in BOOLEAN /\ haste' \in 0 .. MaxHaste
  BY DEF Stays, LeaveAnswered, GoesTo, Guards, KioskInv, ShellPart
<1>2. Sends(rest, {"put", "delete", "report", "live"}, {"none", "submit", "complete"}) /\ TestKept
  <2>1. CASE RunAnswered(c, rest)
    BY <2>1, RunAnsweredFacts, SendsMore DEF KioskInv
  <2>2. CASE PollAnswered(c, rest) \/ CompleteAnswered(c, rest) \/ StopAnswered(c, rest)
    BY <2>2, EndAnsweredFacts, SendsMore DEF KioskInv
  <2>3. CASE LeaveAnswered(c, rest)
    <3>1. FinishRun(TRUE, rest) /\ TRUE \in BOOLEAN
      BY <2>3 DEF LeaveAnswered
    <3>2. Sends(rest, {"put", "report"}, {"none", "submit"}) /\ TestKept
      BY <3>1, FinishRunFacts DEF KioskInv
    <3> QED
      BY <3>2, SendsMore
  <2> QED
    BY <2>1, <2>2, <2>3
<1>3. ShellPart'
  BY <1>1, <1>2, ShellStays DEF TestKept
<1> QED
  BY <1>1, <1>2, <1>3, PageStep
  DEF TestKept, ValidationKept, ValidationTypes, KioskInv, PagePart

LEMMA StartAnswerStep ==
  ASSUME KioskInv, NEW rest \in Seq(Call), ToSet(rest) \subseteq ToSet(calls), NEW c \in Call,
         UNCHANGED server, haste' = haste,
         StartAnswered(c, rest), UNCHANGED <<user, sr>>, Stays
  PROVE  Sends(rest, {"put"}, {"none"}) /\ KioskInv'
<1>1. /\ UNCHANGED <<user, sr, page, going, goal, skip, gate, last>> /\ sr \in Sr
      /\ user \in BOOLEAN /\ haste' \in 0 .. MaxHaste /\ skip \subseteq Guards
  BY DEF Stays, KioskInv, ShellPart, PagePart, TestPageTypes
<1>2. /\ Sends(rest, {"put"}, {"none"}) /\ ValidationKept
      /\ modal' \in Modals /\ ask' \in Questions
  BY StartAnsweredFacts DEF KioskInv
<1>3. ShellPart'
  BY <1>1, ShellStays
<1> QED
  BY <1>1, <1>2, <1>3, PageStep DEF TestPageTypes

LEMMA SaveAnswerStep ==
  ASSUME KioskInv, NEW rest \in Seq(Call), ToSet(rest) \subseteq ToSet(calls),
         NEW c \in Fit(Len(reports)), UNCHANGED server, haste' = haste,
         SaveAnswered(c, rest), UNCHANGED <<user, sr, val>>, Stays
  PROVE  Sends(rest, {"delete", "preview"}, {"submit", "val", "open"}) /\ KioskInv'
<1>1. /\ UNCHANGED <<user, sr, val, page, going, goal, skip, gate, last>> /\ sr \in Sr
      /\ user \in BOOLEAN /\ haste' \in 0 .. MaxHaste /\ skip \subseteq Guards
      /\ modal \in Modals /\ ask \in Questions /\ Len(reports) \in Nat
  BY ReportsLen DEF Stays, KioskInv, ShellPart, PagePart, TestPageTypes
<1>2. /\ Sends(rest, {"delete", "preview"}, {"submit", "val", "open"})
      /\ modal' \in Modals /\ ask' \in Questions
  <2>1. CASE /\ c.op = "report" /\ c.at = "ok" /\ c.by \in {"submit", "val"}
             /\ calls' = Append(rest, Request("delete", c.of, c.by)) /\ NoModal
    <3>1. c.of \in 1 .. Len(reports) /\ c.by \in {"submit", "val"}
      BY <2>1 DEF Fit
    <3>2. Request("delete", c.of, c.by) \in New
      BY <1>1, <3>1, NewReportRequests
    <3>3. Sends(rest, {"delete", "preview"}, {"submit", "val", "open"})
      BY <2>1, <3>2, SendRequest
    <3> QED
      BY <1>1, <2>1, <3>3 DEF NoModal
  <2>2. CASE calls' = rest /\ Notice
    <3>1. Sends(rest, {"delete", "preview"}, {"submit", "val", "open"})
      BY <2>2, SendNone
    <3> QED
      BY <1>1, <2>2, <3>1 DEF Notice, Modals
  <2>3. CASE c.op = "delete" /\ c.by \in {"submit", "val"} /\ OpensPreview(c.of, rest)
    <3>1. c.of \in 1 .. Len(reports)
      BY <2>3 DEF Fit
    <3> QED
      BY <1>1, <2>3, <3>1, OpensPreviewFacts, SendsMore
  <2> QED
    BY <2>1, <2>2, <2>3 DEF SaveAnswered
<1>3. ShellPart'
  BY <1>1, ShellStays
<1> QED
  BY <1>1, <1>2, <1>3, PageStep
  DEF TestPageTypes, ValidationKept, ValidationTypes, KioskInv, PagePart

LEMMA GoodbyeFacts ==
  ASSUME KioskInv, NEW rest \in Seq(Call), NEW c \in Call,
         GoodbyeValidation(c, rest) \/ Goodbye(c, rest)
  PROVE  /\ Sends(rest, {"report", "delete", "abort", "ensure"}, {"bye", "byeTest"})
         /\ sr' \in Sr /\ sr'.test = sr.test
<1>1. sr \in Sr /\ val \in Val
  BY DEF KioskInv, PagePart, TestPageTypes, ValidationTypes
<1>2. /\ Request("delete", None, "byeTest") \in New /\ Request("delete", None, "bye") \in New
      /\ Request("ensure", None, "bye") \in New /\ PostReport(val.run, "byeTest", TRUE) \in New
  BY <1>1, NewRequests, NewRunRequests, ValFields DEF Callers
<1>3. CASE AbortsNow(rest)
  <2>1. Sends(rest, {"abort", "report", "ensure"}, {"bye"}) /\ sr' \in Sr /\ sr'.test = sr.test
    BY <1>3, AbortsNowFacts DEF KioskInv
  <2> QED
    BY <2>1, SendsMore
<1>4. CASE SavesPartial(rest)
  <2>1. Sends(rest, {"report"}, {"bye"}) /\ sr' \in Sr /\ sr'.test = sr.test
    BY <1>4, SavesPartialFacts DEF KioskInv
  <2> QED
    BY <2>1, SendsMore
<1>5. CASE calls' = Append(rest, PostReport(val.run, "byeTest", TRUE)) /\ UNCHANGED sr
  <2> DEFINE x == PostReport(val.run, "byeTest", TRUE)
  <2>1. x \in New /\ x.op = "report" /\ x.by = "byeTest" /\ calls' = Append(rest, x)
    BY <1>2, <1>5 DEF PostReport, Request
  <2> HIDE DEF x
  <2>2. Sends(rest, {"report"}, {"byeTest"})
    BY <2>1, SendOne
  <2> QED
    BY <1>1, <1>5, <2>2, SendsMore
<1>6. CASE calls' = Append(rest, Request("delete", None, "byeTest")) /\ UNCHANGED sr
  <2>1. Sends(rest, {"delete"}, {"byeTest"})
    BY <1>2, <1>6, SendRequest
  <2> QED
    BY <1>1, <1>6, <2>1, SendsMore
<1>7. CASE calls' = Append(rest, Request("delete", None, "bye")) /\ UNCHANGED sr
  <2>1. Sends(rest, {"delete"}, {"bye"})
    BY <1>2, <1>7, SendRequest
  <2> QED
    BY <1>1, <1>7, <2>1, SendsMore
<1>8. CASE calls' = Append(rest, Request("ensure", None, "bye")) /\ UNCHANGED sr
  <2>1. Sends(rest, {"ensure"}, {"bye"})
    BY <1>2, <1>8, SendRequest
  <2> QED
    BY <1>1, <1>8, <2>1, SendsMore
<1>9. CASE calls' = rest /\ UNCHANGED sr
  BY <1>1, <1>9, SendNone
<1>10. CASE GoodbyeValidation(c, rest)
  BY <1>3, <1>5, <1>6, <1>10 DEF GoodbyeValidation
<1>11. CASE Goodbye(c, rest)
  <2>1. CASE /\ UNCHANGED sr
             /\ calls' = Append(rest, IF c.op = "report" /\ c.at = "ok"
                                      THEN Request("delete", None, "bye")
                                      ELSE Request("ensure", None, "bye"))
    BY <1>7, <1>8, <2>1
  <2> QED
    BY <1>4, <1>9, <1>11, <2>1 DEF Goodbye
<1> QED
  BY <1>10, <1>11

LEMMA GoodbyeStep ==
  ASSUME KioskInv, NEW rest \in Seq(Call), ToSet(rest) \subseteq ToSet(calls), NEW c \in Call,
         UNCHANGED server, haste' = haste,
         GoodbyeValidation(c, rest) \/ Goodbye(c, rest),
         UNCHANGED <<val, page, going, goal, skip, last>>
  PROVE  /\ Sends(rest, {"report", "delete", "abort", "ensure"}, {"bye", "byeTest"})
         /\ KioskInv'
<1>1. UNCHANGED <<val, page, going, goal, skip, last>> /\ reports' = reports
  BY DEF server
<1>2. user' \in BOOLEAN /\ gate' \in {gate, None} /\ modal' \in Modals /\ ask' = ask
  BY DEF GoodbyeValidation, Goodbye, KioskInv, ShellPart, PagePart, TestPageTypes, Modals
<1>3. /\ Sends(rest, {"report", "delete", "abort", "ensure"}, {"bye", "byeTest"})
      /\ sr' \in Sr /\ sr'.test = sr.test
  BY GoodbyeFacts
<1>4. ShellPart'
  <2>1. Len(reports) \in Nat
    BY ReportsLen DEF KioskInv
  <2> QED
    BY <1>1, <1>2, <1>3, <2>1 DEF KioskInv, ShellPart
<1> QED
  BY <1>1, <1>2, <1>3, <1>4, PageStep
  DEF TestPageTypes, ValidationKept, ValidationTypes, KioskInv, PagePart

LEMMA PreviewAnswerStep ==
  ASSUME KioskInv, NEW rest \in Seq(Call), ToSet(rest) \subseteq ToSet(calls),
         NEW c \in Fit(Len(reports)), UNCHANGED server, haste' = haste,
         PreviewAnswered(c, rest), UNCHANGED <<user, sr, val, page, goal, skip>>
  PROVE  /\ Sends(rest, {"preview"}, {"open"})
         /\ KioskInv'
<1>1. /\ UNCHANGED <<user, sr, val, page, goal, skip>> /\ reports' = reports
      /\ Len(reports) \in Nat /\ c \in Call /\ c.op = "preview" /\ c.of \in 1 .. Len(reports)
      /\ c.sees \in BOOLEAN /\ modal \in Modals /\ ask \in Questions
      /\ Len(reports) <= MaxReports /\ MaxReports \in Nat
  BY ReportsLen, ServerAssumption
  DEF PreviewAnswered, server, Fit, Call, KioskInv, ServerPart, PagePart, TestPageTypes
<1>2. Sends(rest, {"preview"}, {"open"}) /\ modal' \in Modals /\ ask' = ask
  <2>1. CASE calls' = rest /\ (Notice \/ NoModal)
    <3>1. Sends(rest, {"preview"}, {"open"})
      BY <2>1, SendNone
    <3> QED
      BY <1>1, <2>1, <3>1 DEF Notice, NoModal, Modals
  <2>2. CASE OpensPreview(c.of, rest)
    BY <1>1, <2>2, OpensPreviewFacts
  <2> QED
    BY <2>1, <2>2 DEF PreviewAnswered
<1>3. /\ last' \in [report : 0 .. MaxReports, pending : BOOLEAN]
      /\ last'.pending => last'.report \in 1 .. Len(reports)
      /\ gate' \in 0 .. Len(reports)
      /\ gate' # None => last' = [report |-> gate', pending |-> TRUE]
      /\ going' \in {going, "preview"}
  <2>1. CASE UNCHANGED <<last, gate, going>>
    BY <2>1 DEF KioskInv, ShellPart
  <2>2. CASE /\ last' = [report |-> c.of, pending |-> c.sees]
             /\ gate' = IF c.sees THEN c.of ELSE None
             /\ going' = IF c.by = "open" THEN "preview" ELSE going
    <3> DEFINE of == c.of
               sees == c.sees
    <3>1. /\ of \in 1 .. Len(reports) /\ of \in 0 .. MaxReports /\ sees \in BOOLEAN
          /\ last' = [report |-> of, pending |-> sees]
          /\ gate' = IF sees THEN of ELSE None
          /\ going' = IF c.by = "open" THEN "preview" ELSE going
      BY <1>1, <2>2
    <3> HIDE DEF of, sees
    <3>2. CASE sees = TRUE
      BY <1>1, <3>1, <3>2
    <3>3. CASE sees = FALSE
      BY <1>1, <3>1, <3>3
    <3> QED
      BY <3>1, <3>2, <3>3
  <2> QED
    BY <2>1, <2>2 DEF PreviewAnswered
<1>4. ShellPart'
  BY <1>1, <1>3 DEF KioskInv, ShellPart, Pages
<1> QED
  BY <1>1, <1>2, <1>4, PageStep
  DEF TestPageTypes, ValidationKept, ValidationTypes, KioskInv, PagePart

\* An answer is taken from the calls under way.
LEMMA AnswerStep ==
  ASSUME KioskInv, NEW i \in DOMAIN calls, Answer(i), haste' = haste
  PROVE  /\ calls[i] \in Fit(Len(reports))
         /\ calls[i].by \notin {"bye", "byeTest", "idle"} =>
              Sends(RemoveAt(calls, i), Ops, PageCallers)
         /\ Sends(RemoveAt(calls, i), Ops, Callers)
         /\ page' = page /\ reports' = reports
         /\ KioskInv'
<1> DEFINE c == calls[i]
           rest == RemoveAt(calls, i)
<1>1. /\ calls \in Seq(Call) /\ ToSet(calls) \subseteq Fit(Len(reports))
  BY DEF KioskInv, CallsPart
<1>2. /\ rest \in Seq(Call) /\ ToSet(rest) \subseteq ToSet(calls)
      /\ c \in Call /\ c \in Fit(Len(reports))
  BY <1>1, RemoveAtSet
<1>3. UNCHANGED server
  BY DEF Answer
<1> HIDE DEF c, rest
<1>4. CASE \/ /\ \/ RunAnswered(c, rest) \/ PollAnswered(c, rest)
                 \/ CompleteAnswered(c, rest) \/ StopAnswered(c, rest)
              /\ UNCHANGED <<user, val>> /\ Stays
           \/ LeaveAnswered(c, rest) /\ UNCHANGED <<user, val>>
  <2>1. /\ Sends(rest, {"put", "delete", "report", "live"}, {"none", "submit", "complete"})
        /\ KioskInv'
    BY <1>2, <1>3, <1>4, TestAnswerStep
  <2>2. Sends(rest, Ops, PageCallers) /\ Sends(rest, Ops, Callers)
    BY <2>1, SendsMore DEF Ops, PageCallers, Callers
  <2>3. page' = page
    BY <1>4 DEF Stays, LeaveAnswered, GoesTo
  <2> QED
    BY <1>2, <1>3, <2>1, <2>2, <2>3 DEF server, c, rest
<1>5. CASE StartAnswered(c, rest) /\ UNCHANGED <<user, sr>> /\ Stays
  <2>1. Sends(rest, {"put"}, {"none"}) /\ KioskInv'
    BY <1>2, <1>3, <1>5, StartAnswerStep
  <2>2. Sends(rest, Ops, PageCallers) /\ Sends(rest, Ops, Callers)
    BY <2>1, SendsMore DEF Ops, PageCallers, Callers
  <2> QED
    BY <1>2, <1>3, <1>5, <2>1, <2>2 DEF Stays, server, c, rest
<1>6. CASE SaveAnswered(c, rest) /\ UNCHANGED <<user, sr, val>> /\ Stays
  <2>1. Sends(rest, {"delete", "preview"}, {"submit", "val", "open"}) /\ KioskInv'
    BY <1>2, <1>3, <1>6, SaveAnswerStep
  <2>2. Sends(rest, Ops, PageCallers) /\ Sends(rest, Ops, Callers)
    BY <2>1, SendsMore DEF Ops, PageCallers, Callers
  <2> QED
    BY <1>2, <1>3, <1>6, <2>1, <2>2 DEF Stays, server, c, rest
<1>7. CASE /\ GoodbyeValidation(c, rest) \/ Goodbye(c, rest)
           /\ UNCHANGED <<val, page, going, goal, skip, last>>
  <2>1. /\ Sends(rest, {"report", "delete", "abort", "ensure"}, {"bye", "byeTest"})
        /\ KioskInv'
    BY <1>2, <1>3, <1>7, GoodbyeStep
  <2>2. Sends(rest, Ops, Callers)
    BY <2>1, SendsMore DEF Ops, Callers
  <2>3. c.by \in {"bye", "byeTest", "idle"}
    BY <1>7 DEF GoodbyeValidation, Goodbye
  <2> QED
    BY <1>2, <1>3, <1>7, <2>1, <2>2, <2>3 DEF server, c, rest
<1>8. CASE /\ PreviewAnswered(c, rest)
           /\ UNCHANGED <<user, sr, val, page, goal, skip>>
  <2>1. Sends(rest, {"preview"}, {"open"}) /\ KioskInv'
    BY <1>2, <1>3, <1>8, PreviewAnswerStep
  <2>2. Sends(rest, Ops, PageCallers) /\ Sends(rest, Ops, Callers)
    BY <2>1, SendsMore DEF Ops, PageCallers, Callers
  <2> QED
    BY <1>2, <1>3, <1>8, <2>1, <2>2 DEF server, c, rest
<1> QED
  BY <1>4, <1>5, <1>6, <1>7, <1>8 DEF Answer, c, rest

----------------------------------------------------------------------------
(***************************************************************************)
(* The steps of the server                                                 *)
(***************************************************************************)
\* What a landing does to the server; the report it saves is the next one.
LEMMA LandingFacts ==
  ASSUME KioskInv, NEW c \in Fit(Len(reports)), c.at = "sent",
         \/ LandsRun(c) \/ LandsAbort(c) \/ LandsComplete(c) \/ LandsStart(c)
         \/ LandsStop(c) \/ LandsCheckpoint(c) \/ LandsReport(c) \/ LandsRead(c),
         UNCHANGED <<user, fails, unsaved>>
  PROVE  /\ ServerPart'
         /\ Len(reports') = Len(reports) + (IF c.op = "report" THEN 1 ELSE 0)
         /\ c.op # "report" => reports' = reports
         /\ c.op = "report" => reports' = Append(reports, [of |-> c.of, aborted |-> c.aborted,
                                                           pending |-> TRUE])
<1>1. /\ ServerPart /\ Len(reports) \in Nat /\ c \in Call /\ MaxReports \in Nat
      /\ Tests \subseteq Runs /\ Validations \subseteq Runs
  BY ReportsLen, RunFacts, ServerAssumption DEF KioskInv, Fit
<1>2. CASE LandsRun(c)
  <2>1. c.of \in Tests /\ c.of \in Runs /\ c.op # "report"
    BY <1>1, <1>2 DEF LandsRun, Fit
  <2>2. /\ prog' = c.of /\ begun' = FALSE /\ started' = started \cup {c.of}
        /\ UNCHANGED <<ended, load, ckpt, reports, told, fails, unsaved>>
    BY <1>2 DEF LandsRun
  <2>3. prog' \in Tests /\ begun' \in BOOLEAN /\ started' \subseteq Runs
    BY <1>1, <2>1, <2>2 DEF ServerPart
  <2> QED
    BY <1>1, <2>1, <2>2, <2>3 DEF ServerPart
<1>3. CASE LandsAbort(c) \/ LandsComplete(c) \/ LandsStop(c) \/ LandsRead(c)
  <2>1. c.op # "report" /\ reports' = reports
    BY <1>3 DEF LandsAbort, LandsComplete, LandsStop, LandsRead
  <2>2. told' \subseteq Tests
    BY <1>1, <1>3 DEF LandsAbort, LandsComplete, LandsStop, LandsRead, ServerPart
  <2>3. load' \in {load, None} /\ UNCHANGED <<prog, begun, ended, ckpt, started>>
    BY <1>3 DEF LandsAbort, LandsComplete, LandsStop, LandsRead
  <2> QED
    BY <1>1, <2>1, <2>2, <2>3 DEF ServerPart
<1>4. CASE LandsStart(c)
  <2>1. c.of \in Runs /\ c.op # "report"
    BY <1>1, <1>4 DEF LandsStart, Fit
  <2> QED
    BY <1>1, <1>4, <2>1 DEF LandsStart, ServerPart
<1>5. CASE LandsCheckpoint(c)
  <2>1. c.op = "put" => c.of \in Runs \cup {None}
    BY DEF Fit
  <2> QED
    BY <1>1, <1>5, <2>1 DEF LandsCheckpoint, ServerPart
<1>6. CASE LandsReport(c)
  <2> DEFINE r == [of |-> c.of, aborted |-> c.aborted, pending |-> TRUE]
  <2>1. c.op = "report" /\ c.of \in Runs \cup {None} /\ c.aborted \in BOOLEAN
    BY <1>1, <1>6 DEF LandsReport, Fit, Call
  <2>2. r \in Report /\ reports' = Append(reports, r)
    BY <1>6, <2>1 DEF LandsReport, Report
  <2>3. reports' \in Seq(Report) /\ Len(reports') = Len(reports) + 1
    <3> HIDE DEF r
    <3> QED
      BY <1>1, <2>2 DEF ServerPart
  <2> QED
    BY <1>1, <1>6, <2>1, <2>2, <2>3 DEF LandsReport, ServerPart
<1> QED
  BY <1>2, <1>3, <1>4, <1>5, <1>6

LEMMA AnsweredFacts ==
  ASSUME KioskInv, NEW c \in Fit(Len(reports)), c.at = "sent", ~Silent(c)
  PROVE  /\ Answered(c) \in Fit(Len(reports) + (IF c.op = "report" THEN 1 ELSE 0))
         /\ Answered(c).op = c.op /\ Answered(c).by = c.by /\ Answered(c).at = "ok"
         /\ Answered(c).signed = c.signed
         /\ c.op # "report" => Answered(c).of = c.of
<1> DEFINE of == IF c.op = "report" THEN Len(reports) + 1 ELSE c.of
           sees == \/ c.op = "live" /\ ended
                   \/ c.op = "preview" /\ reports[c.of].pending
           n == Len(reports) + (IF c.op = "report" THEN 1 ELSE 0)
<1>1. /\ c \in Call /\ Len(reports) \in Nat /\ n \in Nat /\ Len(reports) <= n
      /\ of \in Nat
  BY ReportsLen DEF KioskInv, Fit, Call
<1>2. sees \in BOOLEAN
  OBVIOUS
<1>3. Answered(c) = [c EXCEPT !.at = "ok", !.of = of, !.sees = sees]
  BY DEF Answered
<1> HIDE DEF sees
<1>4. /\ Answered(c) \in Call /\ Answered(c).op = c.op /\ Answered(c).by = c.by
      /\ Answered(c).at = "ok" /\ Answered(c).signed = c.signed /\ Answered(c).of = of
  <2> HIDE DEF of, n
  <2> QED
    BY <1>1, <1>2, <1>3 DEF Call
<1>5. c.op = "report" => of \in 1 .. n
  BY <1>1
<1>6. c.op # "report" => of = c.of /\ n = Len(reports)
  BY <1>1
<1> HIDE DEF of, n
<1>7. Answered(c) \in Fit(n)
  BY <1>1, <1>4, <1>5, <1>6 DEF Fit, Silent
<1> QED
  BY <1>4, <1>6, <1>7 DEF n

\* A call at the server is taken out or replaced by its answer.
LEMMA ServedFacts ==
  ASSUME KioskInv, NEW i \in DOMAIN calls, NEW n \in Nat, Len(reports) <= n,
         NEW x, ~Silent(calls[i]) => x \in Fit(n),
         calls' = IF Silent(calls[i]) THEN RemoveAt(calls, i) ELSE [calls EXCEPT ![i] = x]
  PROVE  /\ calls' \in Seq(Call) /\ ToSet(calls') \subseteq Fit(n)
         /\ ToSet(calls') \subseteq ToSet(calls) \cup (IF Silent(calls[i]) THEN {} ELSE {x})
<1>1. calls \in Seq(Call) /\ ToSet(calls) \subseteq Fit(n)
  BY ReportsLen, FitGrows DEF KioskInv, CallsPart
<1>2. CASE Silent(calls[i])
  <2>1. RemoveAt(calls, i) \in Seq(Call) /\ ToSet(RemoveAt(calls, i)) \subseteq ToSet(calls)
    BY <1>1, RemoveAtSet
  <2> QED
    BY <1>1, <1>2, <2>1
<1>3. CASE ~Silent(calls[i])
  <2>1. x \in Call /\ x \in Fit(n) /\ calls' = [calls EXCEPT ![i] = x]
    BY <1>3 DEF Fit
  <2> DEFINE r == [calls EXCEPT ![i] = x]
  <2>3. r \in Seq(Call) /\ ToSet(r) \subseteq ToSet(calls) \cup {x}
    BY <1>1, <2>1, ReplaceSet
  <2>2. calls' \in Seq(Call) /\ ToSet(calls') \subseteq ToSet(calls) \cup {x}
    BY <2>1, <2>3
  <2> QED
    BY <1>1, <1>3, <2>1, <2>2
<1> QED
  BY <1>2, <1>3

LEMMA ShellGrows ==
  ASSUME KioskInv, UNCHANGED <<user, sr, shell, haste>>,
         Len(reports') \in Nat, Len(reports) <= Len(reports')
  PROVE  ShellPart'
<1>1. Len(reports) \in Nat
  BY ReportsLen DEF KioskInv
<1> QED
  BY <1>1 DEF shell, KioskInv, ShellPart

\* The callers of the calls under way.
By(s) == {c.by : c \in ToSet(s)}

LEMMA LandsStep ==
  ASSUME KioskInv, NEW i \in DOMAIN calls, Lands(i), UNCHANGED <<page_, val, shell, haste>>
  PROVE  KioskInv' /\ By(calls') \subseteq By(calls)
<1> DEFINE c == calls[i]
           n == Len(reports) + (IF c.op = "report" THEN 1 ELSE 0)
           x == Answered(c)
<1>1. /\ calls \in Seq(Call) /\ ToSet(calls) \subseteq Fit(Len(reports))
      /\ Len(reports) \in Nat
  BY ReportsLen DEF KioskInv, CallsPart
<1>2. c \in ToSet(calls) /\ c \in Fit(Len(reports))
  BY <1>1, RemoveAtSet
<1>3. /\ c.at = "sent"
      /\ \/ LandsRun(c) \/ LandsAbort(c) \/ LandsComplete(c) \/ LandsStart(c)
         \/ LandsStop(c) \/ LandsCheckpoint(c) \/ LandsReport(c) \/ LandsRead(c)
      /\ calls' = IF Silent(c) THEN RemoveAt(calls, i) ELSE [calls EXCEPT ![i] = x]
      /\ UNCHANGED <<user, fails, unsaved>>
  BY DEF Lands
<1>4. n \in Nat /\ Len(reports) <= n
  BY <1>1
<1> HIDE DEF n, x
<1>5. ServerPart' /\ Len(reports') = n
  <2> HIDE DEF c
  <2> QED
    BY <1>2, <1>3, LandingFacts DEF n
<1>6. ~Silent(c) => x \in Fit(n) /\ x.by = c.by
  <2> HIDE DEF c
  <2> QED
    BY <1>2, <1>3, AnsweredFacts DEF n, x
<1>7. /\ calls' \in Seq(Call) /\ ToSet(calls') \subseteq Fit(n)
      /\ ToSet(calls') \subseteq ToSet(calls) \cup (IF Silent(c) THEN {} ELSE {x})
  BY <1>3, <1>4, <1>6, ServedFacts
<1>8. By(calls') \subseteq By(calls)
  BY <1>2, <1>6, <1>7 DEF By
<1>9. PagePart' /\ user' = user
  BY <1>3 DEF page_, KioskInv, PagePart, TestPageTypes, ValidationTypes
<1>10. ShellPart'
  BY <1>4, <1>5, <1>9, ShellGrows DEF page_
<1> QED
  BY <1>5, <1>7, <1>8, <1>9, <1>10 DEF KioskInv, CallsPart

LEMMA RefusesStep ==
  ASSUME KioskInv, NEW i \in DOMAIN calls, Refuses(i), UNCHANGED <<page_, val, shell, haste>>
  PROVE  KioskInv' /\ By(calls') \subseteq By(calls) /\ reports' = reports
<1> DEFINE c == calls[i]
           x == [c EXCEPT !.at = "failed"]
<1>1. /\ calls \in Seq(Call) /\ ToSet(calls) \subseteq Fit(Len(reports))
      /\ Len(reports) \in Nat /\ Len(reports) <= Len(reports)
  BY ReportsLen DEF KioskInv, CallsPart
<1>2. c \in ToSet(calls) /\ c \in Fit(Len(reports)) /\ c \in Call
  BY <1>1, RemoveAtSet
<1>3. /\ c.at = "sent" /\ c.op # "put"
      /\ calls' = IF Silent(c) THEN RemoveAt(calls, i) ELSE [calls EXCEPT ![i] = x]
      /\ UNCHANGED <<prog, begun, ended, load, ckpt, reports, user, started, told>>
      /\ unsaved' = IF c.op = "report" THEN unsaved \cup ({c.of} \ {None}) ELSE unsaved
      /\ fails' = fails \/ (fails < MaxFails /\ fails' = fails + 1)
  BY DEF Refuses
<1>4. ~Silent(c) => x \in Fit(Len(reports)) /\ x.by = c.by
  <2>1. /\ x \in Call /\ x.by = c.by /\ x.op = c.op /\ x.of = c.of /\ x.at = "failed"
    <3> HIDE DEF c
    <3> QED
      BY <1>2 DEF Call
  <2> HIDE DEF x, c
  <2> QED
    BY <1>2, <1>3, <2>1 DEF Fit, Silent
<1>5. c.op = "report" => c.of \in Runs \cup {None}
  <2> HIDE DEF c
  <2> QED
    BY <1>2, <1>3 DEF Fit
<1> HIDE DEF x
<1>6. /\ calls' \in Seq(Call) /\ ToSet(calls') \subseteq Fit(Len(reports))
      /\ ToSet(calls') \subseteq ToSet(calls) \cup (IF Silent(c) THEN {} ELSE {x})
  BY <1>1, <1>3, <1>4, ServedFacts
<1> HIDE DEF c
<1>7. By(calls') \subseteq By(calls)
  BY <1>2, <1>4, <1>6 DEF By
<1>8. ServerPart'
  <2>1. fails' \in 0 .. MaxFails
    BY <1>3, ServerAssumption DEF KioskInv, ServerPart
  <2>2. unsaved' \subseteq Runs
    BY <1>3, <1>5 DEF KioskInv, ServerPart
  <2> QED
    BY <1>3, <2>1, <2>2 DEF KioskInv, ServerPart
<1>9. PagePart'
  BY DEF page_, KioskInv, PagePart, TestPageTypes, ValidationTypes
<1>10. ShellPart'
  BY <1>1, <1>3, ShellGrows DEF page_
<1> QED
  BY <1>3, <1>6, <1>7, <1>8, <1>9, <1>10 DEF KioskInv, CallsPart

LEMMA ProgramStep ==
  ASSUME KioskInv, ProgramBegins \/ NextSegment \/ ProgramEnds \/ ClosedElsewhere,
         UNCHANGED <<page_, val, shell, haste>>
  PROVE  KioskInv' /\ calls' = calls
<1>1. /\ ServerPart /\ CallsPart /\ Len(reports) \in Nat /\ reports \in Seq(Report)
      /\ Tests \subseteq Runs
  BY ReportsLen, RunFacts DEF KioskInv
<1>2. UNCHANGED <<ckpt, calls, user, fails, started, told, unsaved>>
  BY DEF ProgramBegins, NextSegment, ProgramEnds, ClosedElsewhere
<1>3. reports' \in Seq(Report) /\ Len(reports') = Len(reports)
  <2>1. CASE ClosedElsewhere
    <3>1. PICK i \in DOMAIN reports : reports' = [reports EXCEPT ![i].pending = FALSE]
      BY <2>1 DEF ClosedElsewhere
    <3> DEFINE closed == [reports[i] EXCEPT !.pending = FALSE]
    <3>2. reports[i] \in Report /\ i \in 1 .. Len(reports)
      BY <1>1, ElementOfSeq, LenProperties
    <3>3. closed \in Report
      BY <3>2 DEF Report
    <3>4. reports' = [reports EXCEPT ![i] = closed]
      BY <3>1
    <3> HIDE DEF closed
    <3> QED
      BY <1>1, <3>2, <3>3, <3>4, ExceptSeq
  <2>2. CASE UNCHANGED reports
    BY <1>1, <2>2
  <2> QED
    BY <2>1, <2>2 DEF ProgramBegins, NextSegment, ProgramEnds
<1>4. /\ prog' \in Tests \cup {None} /\ begun' \in BOOLEAN /\ ended' \in BOOLEAN
      /\ load' \in Runs \cup {None}
  BY <1>1 DEF ProgramBegins, NextSegment, ProgramEnds, ClosedElsewhere, ServerPart
<1>5. ServerPart' /\ CallsPart'
  BY <1>1, <1>2, <1>3, <1>4 DEF ServerPart, CallsPart
<1>6. PagePart'
  BY DEF page_, KioskInv, PagePart, TestPageTypes, ValidationTypes
<1>7. ShellPart'
  BY <1>1, <1>2, <1>3, ShellGrows DEF page_
<1> QED
  BY <1>2, <1>5, <1>6, <1>7 DEF KioskInv

LEMMA KioskInit == Init => KioskInv
<1> SUFFICES ASSUME Init PROVE KioskInv
  OBVIOUS
<1>1. /\ prog = None /\ begun = FALSE /\ ended = FALSE /\ load = None /\ ckpt = None
      /\ reports = <<>> /\ calls = <<>> /\ user = FALSE
      /\ fails = 0 /\ started = {} /\ told = {} /\ unsaved = {}
      /\ sr = Blank(None, TRUE) /\ modal = "none" /\ ask = "none" /\ val = Ready(None)
      /\ page = "home" /\ going = "nowhere" /\ goal = "home" /\ skip = {}
      /\ gate = None /\ last = [report |-> None, pending |-> FALSE] /\ haste = 0
  BY DEF Init, ServerInit, TestPageInit, ValidationInit
<1>2. reports \in Seq(Report) /\ Len(reports) = 0 /\ calls \in Seq(Call) /\ ToSet(calls) = {}
  BY <1>1, SeqOfElements, EmptySeq
<1>3. 0 \in 0 .. MaxFails /\ 0 \in 0 .. MaxHaste /\ 0 \in 0 .. MaxReports /\ 0 <= MaxReports
  BY ServerAssumption, KioskAssumption
<1>4. ServerPart /\ CallsPart
  BY <1>1, <1>2, <1>3 DEF ServerPart, CallsPart
<1>5. PagePart
  BY <1>1 DEF PagePart, TestPageTypes, ValidationTypes, Blank, Ready, Sr, Val, Modals, Questions
<1>6. ShellPart
  <2>1. last \in [report : 0 .. MaxReports, pending : BOOLEAN] /\ ~last.pending
    BY <1>1, <1>3
  <2>2. gate \in 0 .. Len(reports) /\ gate = None
    BY <1>1, <1>2
  <2> QED
    BY <1>1, <1>3, <2>1, <2>2 DEF ShellPart, Pages
<1> QED
  BY <1>4, <1>5, <1>6 DEF KioskInv

----------------------------------------------------------------------------
(***************************************************************************)
(* The pending report                                                      *)
(***************************************************************************)
\* Those who wait for the requests of a logout.
LogoutCallers == {"bye", "byeTest", "idle"}

\* A pending report is on the screen, and no question or logout is older.
Held ==
  /\ user /\ page = "preview" /\ gate # None /\ ask = "none"
  /\ By(calls) \cap LogoutCallers = {}

\* A step leaves the report on the screen and begins no logout.
Holds == page' = "preview" /\ By(calls') \cap LogoutCallers = {}

LEMMA LogoutBy ==
  ASSUME NEW s
  PROVE  (\E i \in DOMAIN s : s[i].by \in LogoutCallers) <=> By(s) \cap LogoutCallers # {}
BY DEF By, ToSet

LEMMA SendsBy ==
  ASSUME NEW rest, By(rest) \subseteq By(calls), NEW ops, NEW callers, Sends(rest, ops, callers),
         callers \cap LogoutCallers = {}, page' = page, Held
  PROVE  Holds
<1>1. By(calls') \subseteq By(rest) \cup callers
  BY DEF Sends, Grown, By
<1> QED
  BY <1>1 DEF Holds, Held

LEMMA PressSteps ==
  ASSUME KioskInv, Presses, haste' \in 0 .. MaxHaste
  PROVE  KioskInv' /\ (Held => Holds)
<1>1. CASE OnTestPage
  <2>1. /\ Sends(calls, TestPageOps, TestPageCallers) /\ KioskInv' /\ page' = page
        /\ TestPageCallers \cap LogoutCallers = {}
    BY <1>1, OnTestPageStep DEF OnTestPage, Stays, TestPageCallers, LogoutCallers
  <2> QED
    BY <2>1, SendsBy
<1>2. CASE OnValidationPage
  <2>1. /\ Sends(calls, {"start", "report"}, {"val"}) /\ KioskInv' /\ page' = page
        /\ {"val"} \cap LogoutCallers = {}
    BY <1>2, OnValidationPageStep DEF OnValidationPage, Stays, LogoutCallers
  <2> QED
    BY <2>1, SendsBy
<1>3. CASE BackFromValidation \/ LoadRecipe \/ OpenValidation \/ Navigate \/ PressCancel
  <2>1. calls' = calls /\ KioskInv'
    BY <1>3, QuietStep
  <2>2. page' = page
    BY <1>3 DEF BackFromValidation, LoadRecipe, OpenValidation, Navigate, PressCancel, Stays, GoesTo
  <2> QED
    BY <2>1, <2>2 DEF Held, Holds
<1>4. CASE OpenReport
  <2>1. /\ Sends(calls, {"preview"}, {"open"}) /\ KioskInv' /\ page' = page
        /\ {"open"} \cap LogoutCallers = {}
    BY <1>4, OpenReportStep DEF OpenReport, Stays, LogoutCallers
  <2> QED
    BY <2>1, SendsBy
<1>5. CASE Login
  <2>1. KioskInv' /\ ~Held
    BY <1>5, LoginStep DEF Login, Held
  <2> QED
    BY <2>1
<1>6. CASE PressLogout
  <2>1. /\ gate # None => Sends(calls, {"preview"}, {"open"})
        /\ KioskInv' /\ page' = page /\ {"open"} \cap LogoutCallers = {}
    BY <1>6, PressLogoutStep DEF PressLogout, Stays, LogoutCallers
  <2>2. Held => gate # None
    BY DEF Held
  <2> QED
    BY <2>1, <2>2, SendsBy
<1>7. CASE PressOk
  <2>1. (ask = "none" => calls' = calls /\ page' = page) /\ KioskInv'
    BY <1>7, PressOkStep
  <2> QED
    BY <2>1 DEF Held, Holds
<1>8. CASE PressChoice
  <2>1. /\ Sends(calls, {"put", "report"}, {"none", "submit"}) /\ KioskInv' /\ page' = page
        /\ {"none", "submit"} \cap LogoutCallers = {}
    BY <1>8, PressChoiceStep DEF PressChoice, Stays, LogoutCallers
  <2> QED
    BY <2>1, SendsBy
<1>9. CASE Approve
  <2>1. /\ Sends(calls, {"delete", "preview"}, {"none", "open"}) /\ KioskInv' /\ page' = page
        /\ {"none", "open"} \cap LogoutCallers = {}
    BY <1>9, ApproveStep DEF Approve, LogoutCallers
  <2> QED
    BY <2>1, SendsBy
<1> QED
  BY <1>1, <1>2, <1>3, <1>4, <1>5, <1>6, <1>7, <1>8, <1>9 DEF Presses

LEMMA TimerSteps ==
  ASSUME KioskInv, Timers, haste' = haste
  PROVE  KioskInv' /\ (Held => Holds)
<1>1. haste' \in 0 .. MaxHaste /\ calls \in Seq(Call)
  BY DEF KioskInv, ShellPart, CallsPart
<1>2. CASE Tick /\ UNCHANGED <<server, user, val>> /\ Stays
  <2>1. Sends(calls, {"live", "put"}, {"tick", "none"}) /\ TestKept
    BY <1>2, TickFacts DEF KioskInv
  <2>2. ShellPart' /\ page' = page
    BY <1>1, <1>2, <2>1, ShellStays DEF Stays, TestKept, KioskInv, ShellPart
  <2>3. KioskInv'
    BY <1>1, <1>2, <2>1, <2>2, PageStep
    DEF TestKept, ValidationKept, ValidationTypes, KioskInv, PagePart
  <2>4. {"tick", "none"} \cap LogoutCallers = {}
    BY DEF LogoutCallers
  <2> QED
    BY <2>1, <2>2, <2>3, <2>4, SendsBy
<1>3. CASE (ValidationTick \/ ValidationOver) /\ UNCHANGED <<server, user, sr>> /\ Stays
  <2>1. /\ Sends(calls, {"put", "stop", "report"}, {"none", "val"}) /\ ValidationKept
        /\ modal' \in Modals /\ ask' \in Questions
    BY <1>3, ValidationTimerFacts DEF KioskInv
  <2>2. ShellPart' /\ page' = page
    BY <1>1, <1>3, <2>1, ShellStays DEF Stays, KioskInv, ShellPart
  <2>3. KioskInv'
    BY <1>1, <1>3, <2>1, <2>2, PageStep DEF TestPageTypes, KioskInv, PagePart
  <2>4. {"none", "val"} \cap LogoutCallers = {}
    BY DEF LogoutCallers
  <2> QED
    BY <2>1, <2>2, <2>3, <2>4, SendsBy
<1>4. CASE AutoLogoutTick
  <2>1. KioskInv' /\ ~Held
    BY <1>4, AutoLogoutTickStep DEF AutoLogoutTick, Held
  <2> QED
    BY <2>1
<1>5. CASE ApprovalPoll
  <2>1. /\ Sends(calls, {"delete", "preview"}, {"none", "open"}) /\ KioskInv' /\ page' = page
        /\ {"none", "open"} \cap LogoutCallers = {}
    BY <1>5, ApprovalPollStep DEF ApprovalPoll, LogoutCallers
  <2> QED
    BY <2>1, SendsBy
<1> QED
  BY <1>2, <1>3, <1>4, <1>5 DEF Timers

LEMMA ServerSteps ==
  ASSUME KioskInv, ServerStep, haste' = haste
  PROVE  KioskInv' /\ (Held => Holds)
<1>1. UNCHANGED <<page_, val, shell, haste>> /\ page' = page
  BY DEF ServerStep, shell
<1>2. CASE \E i \in DOMAIN calls : Lands(i) \/ Refuses(i)
  <2>1. PICK i \in DOMAIN calls : Lands(i) \/ Refuses(i)
    BY <1>2
  <2>2. KioskInv' /\ By(calls') \subseteq By(calls)
    BY <1>1, <2>1, LandsStep, RefusesStep
  <2> QED
    BY <1>1, <2>2 DEF Held, Holds
<1>3. CASE ProgramBegins \/ NextSegment \/ ProgramEnds \/ ClosedElsewhere
  <2>1. KioskInv' /\ calls' = calls
    BY <1>1, <1>3, ProgramStep
  <2> QED
    BY <1>1, <2>1 DEF Held, Holds
<1> QED
  BY <1>2, <1>3 DEF ServerStep

LEMMA AnswerSteps ==
  ASSUME KioskInv, NEW i \in DOMAIN calls, Answer(i), haste' = haste
  PROVE  KioskInv' /\ (Held => Holds)
<1> DEFINE rest == RemoveAt(calls, i)
<1>1. /\ calls[i].by \notin {"bye", "byeTest", "idle"} => Sends(rest, Ops, PageCallers)
      /\ page' = page /\ KioskInv'
  BY AnswerStep
<1>2. ToSet(rest) \subseteq ToSet(calls) /\ calls[i] \in ToSet(calls)
  BY RemoveAtSet DEF KioskInv, CallsPart
<1>3. By(rest) \subseteq By(calls) /\ calls[i].by \in By(calls)
  BY <1>2 DEF By
<1>4. PageCallers \cap LogoutCallers = {}
  BY DEF PageCallers, LogoutCallers
<1>5. ASSUME Held PROVE Holds
  <2>1. calls[i].by \notin {"bye", "byeTest", "idle"}
    BY <1>3, <1>5 DEF Held, LogoutCallers
  <2> HIDE DEF rest
  <2> QED
    BY <1>1, <1>3, <1>4, <1>5, <2>1, SendsBy
<1> QED
  BY <1>1, <1>5

LEMMA GoToPageHolds ==
  ASSUME KioskInv, GoToPage, haste' = haste
  PROVE  KioskInv' /\ (Held => Holds)
<1>1. Sends(calls, {"preview"}, {"open"}) /\ KioskInv'
  BY GoToPageStep
<1>2. {"open"} \cap LogoutCallers = {}
  BY DEF LogoutCallers
<1>3. ASSUME Held PROVE page' = page
  <2>1. last.pending /\ page = "preview"
    BY <1>3 DEF Held, KioskInv, ShellPart
  <2> QED
    BY <2>1 DEF GoToPage, GuardAsks, PreviewHolds, Arrives
<1> QED
  BY <1>1, <1>2, <1>3, SendsBy

LEMMA KioskStep == KioskInv /\ Next => KioskInv' /\ (Held => Holds)
<1> SUFFICES ASSUME KioskInv, Next PROVE KioskInv' /\ (Held => Holds)
  OBVIOUS
<1>1. CASE GoToPage /\ UNCHANGED haste
  BY <1>1, GoToPageHolds
<1>2. CASE Press
  <2>1. haste' \in 0 .. MaxHaste /\ Presses
    BY <1>2, KioskAssumption DEF Press, KioskInv, ShellPart
  <2> QED
    BY <2>1, PressSteps
<1>3. CASE (Timers \/ ServerStep \/ \E i \in DOMAIN calls : Answer(i)) /\ UNCHANGED haste
  BY <1>3, TimerSteps, ServerSteps, AnswerSteps
<1> QED
  BY <1>1, <1>2, <1>3 DEF Next

LEMMA KioskStutter == KioskInv /\ UNCHANGED vars => KioskInv'
BY DEF vars, server, page_, shell, KioskInv, ServerPart, CallsPart, PagePart, ShellPart,
       TestPageTypes, ValidationTypes

LEMMA KioskAlways == Spec => []KioskInv
<1>1. KioskInv /\ [Next]_vars => KioskInv'
  BY KioskStep, KioskStutter
<1> QED
  BY <1>1, KioskInit, PTL DEF Spec

\* The state of the page, of the server and of every request between them has
\* its type, whatever the user, the order of landing and the failures.
THEOREM TypeCorrect == Spec => []TypeOK
BY KioskAlways, KioskTypes, PTL

\* The guard of goToPage on _lastReportPreview, the look of doLogout at
\* _reportApprovalGate and that of the automatic logout together let nobody
\* away from a pending report: for any number of reports and hasty presses,
\* and however late an answer comes.
THEOREM PendingHoldsUser == Spec => PendingHolds
<1>1. ASSUME KioskInv, Next \/ UNCHANGED vars
      PROVE  user /\ page = "preview" /\ gate # None /\ reports[gate].pending
             /\ ask = "none" /\ ~LoggingOut
             => (page' = "preview" /\ ~LoggingOut') \/ ~reports'[gate].pending
  <2>1. LoggingOut <=> By(calls) \cap LogoutCallers # {}
    BY LogoutBy DEF LoggingOut, LogoutCallers
  <2>2. LoggingOut' <=> By(calls') \cap LogoutCallers # {}
    BY LogoutBy DEF LoggingOut, LogoutCallers
  <2>3. CASE Next
    BY <1>1, <2>1, <2>2, <2>3, KioskStep DEF Held, Holds
  <2>4. CASE UNCHANGED vars
    BY <2>1, <2>2, <2>4 DEF vars, shell
  <2> QED
    BY <1>1, <2>3, <2>4
<1> QED
  BY <1>1, KioskAlways, PTL DEF Spec, PendingHolds
=============================================================================
