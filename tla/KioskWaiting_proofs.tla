------------------------- MODULE KioskWaiting_proofs -------------------------
(***************************************************************************)
(* What holds as long as the user has waited for the answers to a press    *)
(* before the next one (haste is 0, whatever MaxHaste allows): a request   *)
(* that starts a validation has the validation page under it, the poll of  *)
(* a test its test page, and a logout leaves neither behind.  From that,   *)
(* and when requests land in the order of sending and one of them at most  *)
(* is refused: the load is off under the login screen.                     *)
(***************************************************************************)
EXTENDS Kiosk_proofs

\* The user has never pressed while a request was under way.
Waited == haste = 0

\* Requests land in the order of sending, and at most one is refused.
OneFails == Prompt /\ MaxFails <= 1

----------------------------------------------------------------------------
(***************************************************************************)
(* The invariant                                                           *)
(***************************************************************************)
\* At most one call is waited for by these.
Once(s, callers) == \A i, j \in DOMAIN s : s[i].by \in callers /\ s[j].by \in callers => i = j

\* No stop has been sent after an ensure-stopped.
Ordered(s) == \A i, j \in DOMAIN s : i < j => ~(s[i].op = "ensure" /\ s[j].op = "stop")

Endings == {"stop", "leave"}
Starting == \E c \in ToSet(calls) : c.op = "start"
Stopping == \E c \in ToSet(calls) : c.op = "stop" /\ c.at = "sent"
Begun == \E c \in ToSet(calls) : c.op = "start" /\ c.at = "ok"
On == load \in Validations

\* An active validation is on its page, a polled test on its own, unless the
\* guards of goToPage are to be skipped.
PageInv ==
  /\ going = "test" => page = "recipes" /\ sr.wizard = "none" /\ calls = <<>>
  /\ goal # "test"
  /\ page = "test" /\ going = "nowhere" => "test" \notin skip
  /\ page = "validation" /\ (val.enabled \/ val.awaiting) => "val" \notin skip
  /\ ValidationActive => page = "validation"
  /\ val.running => val.enabled
  /\ sr.poll => page = "test" /\ sr.running /\ ~sr.done /\ "test" \notin skip

\* A question is not lost without an answer.  The answer to the abort of a
\* weighed test, which puts a choice in the modal, finds none.
AskInv ==
  /\ ask # "none" => modal \in {"question", "notice"}
  /\ "test" \in {page, going} => ask \notin {"stopVal", "leaveVal", "backVal"}
  /\ sr.wizard = "after" \/ modal = "choice" => sr.done
  /\ Once(calls, Endings)
  /\ By(calls) \cap Endings # {} /\ sr.analysis =>
       /\ ask = "none" /\ going = "nowhere"
       /\ By(calls) \subseteq {"stop", "leave", "tick", "none"}

\* Before a test is over nothing is saved and no preview is on its way.
FreshInv ==
  page = "test" /\ ~sr.done =>
    ~last.pending /\ By(calls) \cap {"submit", "val", "open", "again"} = {}

\* The first wizard is open before the test runs, or the page is being left.
BeforeInv ==
  page = "test" /\ sr.wizard = "before" =>
    /\ ~sr.running /\ ~last.pending /\ user
    /\ ask \in {"none", "leaveTest", "logout"}
    /\ By(calls) \subseteq {"none", "leave"}
    /\ (~sr.done /\ sr.weighing) \/ (going # "nowhere" /\ "test" \in skip)

\* A validation that is being started keeps the user where he is.
StartInv ==
  Starting =>
    /\ page = "validation" /\ val.enabled /\ going = "nowhere" /\ ~val.running
    /\ \A c \in ToSet(calls) : c.op = "start" \/ c.by = "none"
    /\ Once(calls, {"val"})

\* A logout has no validation behind it.
OutInv ==
  /\ By(calls) \cap LogoutCallers # {} => ~val.running /\ ~Starting
  /\ ~user => ~val.running /\ ~Starting
  /\ \A c \in ToSet(calls) : c.signed \/ ~user

WaitInv == PageInv /\ AskInv /\ FreshInv /\ BeforeInv /\ StartInv /\ OutInv

\* The load of a validation is known to the page, about to be switched off,
\* or a stop has failed; then no ensure-stopped fails.
LoadInv ==
  /\ On => val.running \/ Stopping \/ Begun \/ fails >= 1
  /\ Ordered(calls)
  /\ \A c \in ToSet(calls) : c.op = "ensure" /\ c.at # "sent" => ~On
  /\ ~user => ~On

----------------------------------------------------------------------------
(***************************************************************************)
(* The calls after a step                                                  *)
(***************************************************************************)
LEMMA CallsFacts ==
  ASSUME KioskInv
  PROVE  /\ calls \in Seq(Call) /\ ToSet(calls) \subseteq Fit(Len(reports))
         /\ \A c \in ToSet(calls) : c \in Call /\ c.by \in By(calls)
         /\ \A c \in ToSet(calls) : c.op = "start" => c.by = "val"
         /\ \A c \in ToSet(calls) : c.op = "ensure" => c.by \in LogoutCallers
         /\ \A c \in ToSet(calls) : c.by = "none" => c.at = "sent"
<1>1. calls \in Seq(Call) /\ ToSet(calls) \subseteq Fit(Len(reports))
  BY DEF KioskInv, CallsPart
<1>2. \A c \in ToSet(calls) : c \in Call /\ c.by \in By(calls)
  BY <1>1 DEF Fit, By
<1> QED
  BY <1>1, <1>2 DEF Fit, LogoutCallers

\* The calls that a handler leaves.
LEMMA SentFacts ==
  ASSUME NEW rest \in Seq(Call), NEW ops, NEW callers, Sends(rest, ops, callers)
  PROVE  /\ calls' \in Seq(Call) /\ ToSet(rest) \subseteq ToSet(calls')
         /\ \A c \in ToSet(calls') : \/ c \in ToSet(rest)
                                     \/ c \in New /\ c.op \in ops /\ c.by \in callers
         /\ By(calls') \subseteq By(rest) \cup callers
<1>1. PICK new \in SUBSET New : /\ Grown(calls', rest, new)
                                /\ \A c \in new : c.op \in ops /\ c.by \in callers
  BY DEF Sends
<1>2. calls' \in Seq(Call) /\ ToSet(calls') = ToSet(rest) \cup new
  BY <1>1 DEF Grown
<1>3. \A c \in ToSet(calls') : \/ c \in ToSet(rest)
                               \/ c \in New /\ c.op \in ops /\ c.by \in callers
  BY <1>1, <1>2
<1>4. By(calls') \subseteq By(rest) \cup callers
  BY <1>3 DEF By
<1> QED
  BY <1>2, <1>3, <1>4

LEMMA SentOnce ==
  ASSUME NEW rest \in Seq(Call), NEW ops, NEW callers, Sends(rest, ops, callers),
         NEW B, callers \cap B = {}, Once(rest, B)
  PROVE  Once(calls', B)
<1>1. PICK new \in SUBSET New : /\ Grown(calls', rest, new)
                                /\ \A c \in new : c.op \in ops /\ c.by \in callers
  BY DEF Sends
<1> DEFINE s == calls'
<1>2. /\ s \in Seq(Call) /\ Len(rest) \in Nat /\ Len(s) \in Nat
      /\ \A i \in 1 .. Len(rest) : s[i] = rest[i]
      /\ \A i \in Len(rest) + 1 .. Len(s) : s[i] \in new
      /\ DOMAIN s = 1 .. Len(s) /\ DOMAIN rest = 1 .. Len(rest)
  BY <1>1, LenProperties DEF Grown
<1> HIDE DEF s
<1>3. ASSUME NEW i \in DOMAIN s, s[i].by \in B PROVE i \in DOMAIN rest /\ s[i] = rest[i]
  <2>1. CASE i \in 1 .. Len(rest)
    BY <1>2, <2>1
  <2>2. CASE i \in Len(rest) + 1 .. Len(s)
    BY <1>1, <1>2, <1>3, <2>2
  <2> QED
    BY <1>2, <2>1, <2>2
<1>4. Once(s, B)
  BY <1>3 DEF Once
<1> QED
  BY <1>4 DEF s

LEMMA SentOrdered ==
  ASSUME NEW rest \in Seq(Call), NEW ops, NEW callers, Sends(rest, ops, callers),
         Ordered(rest),
         "stop" \notin ops \/ ("ensure" \notin ops /\ \A c \in ToSet(rest) : c.op # "ensure")
  PROVE  Ordered(calls')
<1>1. PICK new \in SUBSET New : /\ Grown(calls', rest, new)
                                /\ \A c \in new : c.op \in ops /\ c.by \in callers
  BY DEF Sends
<1> DEFINE s == calls'
<1>2. /\ s \in Seq(Call) /\ Len(rest) \in Nat /\ Len(s) \in Nat
      /\ \A i \in 1 .. Len(rest) : s[i] = rest[i]
      /\ \A i \in Len(rest) + 1 .. Len(s) : s[i] \in new
      /\ DOMAIN s = 1 .. Len(s) /\ DOMAIN rest = 1 .. Len(rest)
  BY <1>1, LenProperties DEF Grown
<1> HIDE DEF s
<1>3. ASSUME NEW i \in DOMAIN s
      PROVE  \/ i \in DOMAIN rest /\ s[i] = rest[i] /\ s[i] \in ToSet(rest)
             \/ i \in Len(rest) + 1 .. Len(s) /\ s[i].op \in ops
  <2>1. CASE i \in 1 .. Len(rest)
    BY <1>2, <2>1 DEF ToSet
  <2>2. CASE i \in Len(rest) + 1 .. Len(s)
    BY <1>1, <1>2, <1>3, <2>2
  <2> QED
    BY <1>2, <2>1, <2>2
<1>4. ASSUME NEW i \in DOMAIN s, NEW j \in DOMAIN s, i < j, s[i].op = "ensure", s[j].op = "stop"
      PROVE  FALSE
  <2>1. CASE "stop" \notin ops
    <3>1. j \in DOMAIN rest /\ s[j] = rest[j]
      BY <1>3, <1>4, <2>1
    <3>2. i \in DOMAIN rest /\ s[i] = rest[i]
      BY <1>2, <1>4, <3>1
    <3> QED
      BY <1>4, <3>1, <3>2 DEF Ordered
  <2>2. CASE "ensure" \notin ops /\ \A c \in ToSet(rest) : c.op # "ensure"
    BY <1>3, <1>4, <2>2
  <2> QED
    BY <2>1, <2>2
<1>5. Ordered(s)
  BY <1>4 DEF Ordered
<1> QED
  BY <1>5 DEF s

\* When a call is taken out.
LEMMA TakenFacts ==
  ASSUME NEW s \in Seq(Call), NEW i \in DOMAIN s
  PROVE  /\ \A B : Once(s, B) => Once(RemoveAt(s, i), B)
         /\ \A B : Once(s, B) /\ s[i].by \in B => By(RemoveAt(s, i)) \cap B = {}
         /\ Ordered(s) => Ordered(RemoveAt(s, i))
         /\ By(RemoveAt(s, i)) \subseteq By(s) /\ s[i].by \in By(s)
         /\ RemoveAt(s, i) \in Seq(Call) /\ ToSet(RemoveAt(s, i)) \subseteq ToSet(s)
         /\ ToSet(s) \subseteq ToSet(RemoveAt(s, i)) \cup {s[i]} /\ s[i] \in ToSet(s)
<1> DEFINE r == RemoveAt(s, i)
           from[j \in DOMAIN r] == IF j < i THEN j ELSE j + 1
<1>1. /\ r \in Seq(Call) /\ Len(s) \in Nat /\ DOMAIN s = 1 .. Len(s) /\ i \in 1 .. Len(s)
      /\ DOMAIN r = 1 .. Len(s) - 1
      /\ \A j \in 1 .. Len(s) - 1 : r[j] = IF j < i THEN s[j] ELSE s[j + 1]
  BY RemoveAtFacts, LenProperties
<1> HIDE DEF r
<1>2. \A j \in DOMAIN r : from[j] \in DOMAIN s /\ from[j] # i /\ r[j] = s[from[j]]
  BY <1>1
<1>3. \A j, k \in DOMAIN r : j < k <=> from[j] < from[k]
  BY <1>1
<1>4. \A j, k \in DOMAIN r : from[j] = from[k] => j = k
  BY <1>1
<1> HIDE DEF from
<1>5. \A B : Once(s, B) => Once(r, B)
  BY <1>2, <1>4 DEF Once
<1>6. \A B : Once(s, B) /\ s[i].by \in B => By(r) \cap B = {}
  BY <1>2 DEF Once, By, ToSet
<1>7. Ordered(s) => Ordered(r)
  BY <1>2, <1>3 DEF Ordered
<1>8. /\ ToSet(r) \subseteq ToSet(s) /\ ToSet(s) \subseteq ToSet(r) \cup {s[i]}
      /\ s[i] \in ToSet(s)
  BY RemoveAtSet DEF r
<1>9. By(r) \subseteq By(s) /\ s[i].by \in By(s)
  BY <1>8 DEF By
<1> QED
  BY <1>1, <1>5, <1>6, <1>7, <1>8, <1>9 DEF r

\* When a call is replaced by its answer.
LEMMA ReplacedFacts ==
  ASSUME NEW s \in Seq(Call), NEW i \in DOMAIN s, NEW x \in Call,
         x.by = s[i].by, x.op = s[i].op
  PROVE  /\ \A B : Once(s, B) => Once([s EXCEPT ![i] = x], B)
         /\ Ordered(s) => Ordered([s EXCEPT ![i] = x])
         /\ By([s EXCEPT ![i] = x]) \subseteq By(s)
         /\ ToSet([s EXCEPT ![i] = x]) \subseteq ToSet(s) \cup {x}
         /\ ToSet(s) \subseteq ToSet([s EXCEPT ![i] = x]) \cup {s[i]}
         /\ x \in ToSet([s EXCEPT ![i] = x]) /\ s[i] \in ToSet(s)
<1> DEFINE r == [s EXCEPT ![i] = x]
<1>1. DOMAIN r = DOMAIN s /\ \A j \in DOMAIN s : r[j].by = s[j].by /\ r[j].op = s[j].op
  OBVIOUS
<1>2. /\ ToSet(r) \subseteq ToSet(s) \cup {x} /\ ToSet(s) \subseteq ToSet(r) \cup {s[i]}
      /\ x \in ToSet(r) /\ s[i] \in ToSet(s)
  BY ReplaceSet, RemoveAtSet
<1> HIDE DEF r
<1>3. \A B : Once(s, B) => Once(r, B)
  BY <1>1 DEF Once
<1>4. Ordered(s) => Ordered(r)
  BY <1>1 DEF Ordered
<1>5. By(r) \subseteq By(s)
  BY <1>2 DEF By
<1> QED
  BY <1>2, <1>3, <1>4, <1>5 DEF r

----------------------------------------------------------------------------
(***************************************************************************)
(* Presses, which find no request under way                                *)
(***************************************************************************)
\* No request is under way.
Idle == calls = <<>>

LEMMA PressCalls ==
  ASSUME Idle, NEW ops, NEW callers, Sends(calls, ops, callers)
  PROVE  /\ By(calls') \subseteq callers
         /\ \A c \in ToSet(calls') : c \in New /\ c.op \in ops /\ c.by \in callers
         /\ "start" \notin ops => ~Starting'
         /\ \A B : callers \cap B = {} => Once(calls', B)
         /\ "stop" \notin ops \/ "ensure" \notin ops => Ordered(calls')
         /\ user => \A c \in ToSet(calls') : c.signed
<1>1. /\ calls \in Seq(Call) /\ ToSet(calls) = {} /\ By(calls) = {}
      /\ \A B : Once(calls, B)
      /\ Ordered(calls)
  BY DEF Idle, ToSet, By, Once, Ordered
<1>2. /\ By(calls') \subseteq callers
      /\ \A c \in ToSet(calls') : c \in New /\ c.op \in ops /\ c.by \in callers
  BY <1>1, SentFacts
<1>3. \A B : callers \cap B = {} => Once(calls', B)
  BY <1>1, SentOnce
<1>4. "stop" \notin ops \/ "ensure" \notin ops => Ordered(calls')
  BY <1>1, SentOrdered
<1>5. user => \A c \in ToSet(calls') : c.signed
  BY <1>2 DEF New
<1> QED
  BY <1>2, <1>3, <1>4, <1>5 DEF Starting

\* A press that starts no validation leaves none behind.
LEMMA PressOut ==
  ASSUME Idle, user' = user, user \/ ~val'.running,
         NEW ops, NEW callers, Sends(calls, ops, callers),
         "start" \notin ops, callers \cap LogoutCallers = {} \/ ~val'.running
  PROVE  StartInv' /\ OutInv'
<1>1. /\ By(calls') \subseteq callers /\ ~Starting'
      /\ user => \A c \in ToSet(calls') : c.signed
  BY PressCalls
<1> QED
  BY <1>1 DEF StartInv, OutInv

\* The page does not change, and the poll only as it may.
LEMMA PageKept ==
  ASSUME PageInv, going = "nowhere", UNCHANGED <<page, going, goal, skip, val>>,
         sr'.poll => page = "test" /\ sr'.running /\ ~sr'.done /\ "test" \notin skip
  PROVE  PageInv'
BY DEF PageInv, ValidationActive

LEMMA PressStartWaits ==
  ASSUME KioskInv, WaitInv, Idle, going = "nowhere", Free("test"), PressStart,
         UNCHANGED <<server, user, val>>, Stays
  PROVE  WaitInv'
<1>1. sr \in Sr /\ calls \in Seq(Call) /\ user /\ user' = user /\ page = "test" /\ modal = "none"
  BY DEF Free, KioskInv, PagePart, TestPageTypes, CallsPart
<1>2. /\ sr'.wizard = "before" /\ sr'.weighing /\ sr'.running = sr.running /\ sr'.done = sr.done
      /\ sr'.poll = sr.poll /\ ~sr.running /\ ~sr.done /\ sr'.analysis = sr.analysis
  BY <1>1 DEF PressStart, Sr
<1>3. /\ UNCHANGED <<page, going, goal, skip, gate, last, modal, ask, val>>
  BY DEF Stays, PressStart, NoModal
<1>4. Sends(calls, {"put"}, {"none"})
  <2>1. Request("put", sr.test, "none") \in New
    BY <1>1, SrFields, NewRunRequests
  <2> QED
    BY <1>1, <2>1, SendRequest DEF PressStart
<1>5. By(calls') \subseteq {"none"} /\ Once(calls', Endings)
  BY <1>4, PressCalls DEF Endings
<1>6. ask = "none"
  BY <1>1 DEF WaitInv, AskInv
<1>7. ~last.pending
  BY <1>1, <1>2 DEF WaitInv, FreshInv
<1>8. PageInv'
  BY <1>2, <1>3, PageKept DEF WaitInv, PageInv
<1>9. AskInv'
  BY <1>1, <1>2, <1>3, <1>5, <1>6 DEF AskInv, Endings
<1>10. FreshInv' /\ BeforeInv'
  BY <1>1, <1>2, <1>3, <1>5, <1>6, <1>7 DEF FreshInv, BeforeInv
<1>11. StartInv' /\ OutInv'
  <2>1. "start" \notin {"put"} /\ {"none"} \cap LogoutCallers = {}
    BY DEF LogoutCallers
  <2> QED
    BY <1>1, <1>4, <2>1, PressOut
<1> QED
  BY <1>8, <1>9, <1>10, <1>11 DEF WaitInv

LEMMA WeighedWaits ==
  ASSUME KioskInv, WaitInv, Idle, going = "nowhere", Free("test"), Weighed,
         UNCHANGED <<server, user, val>>, Stays
  PROVE  WaitInv'
<1>1. /\ sr \in Sr /\ calls \in Seq(Call) /\ user /\ user' = user /\ page = "test"
      /\ modal = "none" /\ sr.test \in Tests
  BY SrFields DEF Free, KioskInv, PagePart, TestPageTypes, CallsPart, ShellPart
<1>2. /\ sr'.wizard = "none" /\ sr'.running /\ sr'.done = sr.done /\ sr'.analysis = sr.analysis
      /\ sr.wizard = "before"
  BY <1>1 DEF Weighed, Sr
<1>3. UNCHANGED <<page, going, goal, skip, gate, last, modal, ask, val>>
  BY DEF Stays, Weighed, NoModal
<1>4. Sends(calls, {"run"}, {"start"})
  <2>1. Request("run", sr.test, "start") \in New
    BY <1>1, NewRunRequests
  <2> QED
    BY <1>1, <2>1, SendRequest DEF Weighed
<1>5. By(calls') \subseteq {"start"} /\ Once(calls', Endings)
  BY <1>4, PressCalls DEF Endings
<1>6. ask = "none"
  BY <1>1 DEF WaitInv, AskInv
<1>7. ~sr.done /\ ~last.pending
  BY <1>1, <1>2 DEF WaitInv, BeforeInv
<1>8. PageInv'
  BY <1>1, <1>2, <1>3, <1>7, PageKept DEF WaitInv, PageInv
<1>9. AskInv'
  BY <1>1, <1>2, <1>3, <1>5, <1>6 DEF AskInv, Endings
<1>10. FreshInv' /\ BeforeInv'
  BY <1>2, <1>3, <1>5, <1>7 DEF FreshInv, BeforeInv
<1>11. StartInv' /\ OutInv'
  <2>1. "start" \notin {"run"} /\ {"start"} \cap LogoutCallers = {}
    BY DEF LogoutCallers
  <2> QED
    BY <1>1, <1>4, <2>1, PressOut
<1> QED
  BY <1>8, <1>9, <1>10, <1>11 DEF WaitInv

LEMMA CompleteWaits ==
  ASSUME KioskInv, WaitInv, Idle, going = "nowhere", Free("test"),
         PressComplete \/ PressStop,
         UNCHANGED <<server, user, val>>, Stays
  PROVE  WaitInv'
<1>1. /\ sr \in Sr /\ calls \in Seq(Call) /\ user /\ user' = user /\ page = "test"
      /\ modal = "none" /\ sr.running
  BY DEF Free, KioskInv, PagePart, TestPageTypes, CallsPart, PressComplete, PressStop
<1>2. UNCHANGED <<page, going, goal, skip, gate, last, sr, val>>
  BY DEF Stays, PressComplete, PressStop
<1>3. Sends(calls, {"complete"}, {"complete"})
  <2>1. Request("complete", sr.test, "complete") \in New
    BY <1>1, SrFields, NewRequests DEF Callers
  <2>2. CASE PressComplete
    BY <1>1, <2>1, <2>2, SendRequest DEF PressComplete
  <2>3. CASE PressStop
    BY <1>1, <2>3, SendNone DEF PressStop
  <2> QED
    BY <2>2, <2>3
<1>4. By(calls') \subseteq {"complete"} /\ Once(calls', Endings)
  BY <1>3, PressCalls DEF Endings
<1>5. /\ ask' = "none" \/ ask' = "stop"
      /\ ask' # "none" => modal' = "question"
      /\ modal' # "choice"
  BY <1>1 DEF WaitInv, AskInv, PressComplete, PressStop, NoModal, Asks
<1>6. PageInv'
  BY <1>2, PageKept DEF WaitInv, PageInv
<1>7. AskInv'
  BY <1>1, <1>2, <1>4, <1>5 DEF WaitInv, AskInv, Endings
<1>8. FreshInv'
  BY <1>1, <1>2, <1>4 DEF WaitInv, FreshInv
<1>9. BeforeInv'
  BY <1>1, <1>2 DEF WaitInv, BeforeInv
<1>10. StartInv' /\ OutInv'
  <2>1. "start" \notin {"complete"} /\ {"complete"} \cap LogoutCallers = {}
    BY DEF LogoutCallers
  <2> QED
    BY <1>1, <1>3, <2>1, PressOut
<1> QED
  BY <1>6, <1>7, <1>8, <1>9, <1>10 DEF WaitInv

\* The weights are saved, or a choice leads to the wizard or saves without.
LEMMA SaveWaits ==
  ASSUME KioskInv, WaitInv, Idle, going = "nowhere",
         \/ Free("test") /\ SaveWeights
         \/ Choose,
         UNCHANGED <<server, user, val>>, Stays
  PROVE  WaitInv'
<1>1. /\ sr \in Sr /\ calls \in Seq(Call) /\ user' = user
      /\ UNCHANGED <<page, going, goal, skip, gate, last, ask, val>>
      /\ user \/ ~val.running
  BY DEF KioskInv, PagePart, TestPageTypes, CallsPart, Stays, SaveWeights, Choose, NoModal,
         WaitInv, OutInv
<1>2. sr.done /\ ask = "none" /\ modal' = "none"
  BY DEF WaitInv, AskInv, SaveWeights, Choose, Free, NoModal
<1>3. /\ sr'.wizard \in {"none", "after"} /\ sr'.done
      /\ sr'.running = sr.running /\ sr'.poll = sr.poll /\ sr'.analysis = sr.analysis
  BY <1>1, <1>2 DEF SaveWeights, Choose, Submits, Weighs, Submitted, AfterWizard, Sr
<1>4. Sends(calls, {"put", "report"}, {"none", "submit"})
  <2>1. CASE Submits(sr, calls)
    BY <1>1, <2>1, SubmitsFacts, SendsMore
  <2>2. CASE Weighs(sr, calls)
    BY <1>1, <2>2, WeighsFacts, SendsMore
  <2> QED
    BY <2>1, <2>2 DEF SaveWeights, Choose
<1>5. By(calls') \subseteq {"none", "submit"} /\ Once(calls', Endings)
  BY <1>4, PressCalls DEF Endings
<1>6. PageInv'
  BY <1>1, <1>2, <1>3, PageKept DEF WaitInv, PageInv
<1>7. AskInv'
  BY <1>1, <1>2, <1>3, <1>5 DEF AskInv, Endings
<1>8. FreshInv' /\ BeforeInv'
  BY <1>1, <1>3 DEF FreshInv, BeforeInv
<1>9. StartInv' /\ OutInv'
  <2>1. "start" \notin {"put", "report"} /\ {"none", "submit"} \cap LogoutCallers = {}
    BY DEF LogoutCallers
  <2> QED
    BY <1>1, <1>4, <2>1, PressOut
<1> QED
  BY <1>6, <1>7, <1>8, <1>9 DEF WaitInv

LEMMA ValidateWaits ==
  ASSUME KioskInv, WaitInv, Idle, going = "nowhere", OnValidationPage
  PROVE  WaitInv'
<1>1. /\ val \in Val /\ calls \in Seq(Call) /\ user /\ user' = user /\ page = "validation"
      /\ UNCHANGED <<sr, page, going, goal, skip, gate, last>>
      /\ modal = "none" /\ ask = "none" /\ (val.enabled => val.run \in Validations)
  BY ValFields DEF OnValidationPage, Free, Stays, KioskInv, PagePart, ValidationTypes, CallsPart,
                   WaitInv, AskInv
<1>2. FreshInv' /\ BeforeInv'
  BY <1>1 DEF FreshInv, BeforeInv
<1>3. CASE PressValidate
  <2>1. val' = val /\ modal' = modal /\ ask' = ask /\ val.enabled /\ ~val.running
    BY <1>3 DEF PressValidate, NoModal
  <2>2. Sends(calls, {"start"}, {"val"})
    <3>1. Request("start", val.run, "val") \in New
      BY <1>1, <2>1, NewRunRequests
    <3> QED
      BY <1>1, <1>3, <3>1, SendRequest DEF PressValidate
  <2>3. /\ By(calls') \subseteq {"val"} /\ Once(calls', Endings)
        /\ \A c \in ToSet(calls') : c.op = "start" /\ c.signed
    BY <1>1, <2>2, PressCalls DEF Endings
  <2>4. Once(calls', {"val"})
    <3> DEFINE x == Request("start", val.run, "val")
    <3>1. calls' = <<x>>
      BY <1>3 DEF PressValidate, Idle
    <3> HIDE DEF x
    <3> QED
      BY <3>1 DEF Once
  <2>5. PageInv' /\ AskInv'
    BY <1>1, <2>1, <2>3 DEF WaitInv, PageInv, AskInv, Endings, ValidationActive
  <2>6. StartInv'
    BY <1>1, <2>1, <2>3, <2>4 DEF StartInv
  <2>7. OutInv'
    BY <1>1, <2>3 DEF OutInv, LogoutCallers
  <2> QED
    BY <1>2, <2>5, <2>6, <2>7 DEF WaitInv
<1>4. CASE PressAbort \/ SubmitAmplitude
  <2>1. /\ val' \in Val /\ (val'.enabled <=> val.enabled) /\ (val'.running <=> val.running)
        /\ val'.awaiting => val.awaiting
    BY <1>1, <1>4 DEF PressAbort, SubmitAmplitude, SavesValidation, Val
  <2>2. Sends(calls, {"report"}, {"val"})
    <3>1. CASE PressAbort
      BY <1>1, <3>1, SendNone DEF PressAbort
    <3>2. CASE SubmitAmplitude
      BY <1>1, <3>2, SavesValidationFacts DEF SubmitAmplitude
    <3> QED
      BY <1>4, <3>1, <3>2
  <2>3. By(calls') \subseteq {"val"} /\ Once(calls', Endings)
    BY <1>1, <2>2, PressCalls DEF Endings
  <2>4. ask' # "none" => modal' \in {"question", "notice"}
    BY <1>1, <1>4 DEF PressAbort, SubmitAmplitude, Asks, NoModal
  <2>5. modal' # "choice"
    BY <1>1, <1>4 DEF PressAbort, SubmitAmplitude, Asks, NoModal
  <2>6. PageInv'
    BY <1>1, <2>1 DEF WaitInv, PageInv, ValidationActive
  <2>7. AskInv'
    BY <1>1, <2>3, <2>4, <2>5 DEF WaitInv, AskInv, Endings
  <2>8. StartInv' /\ OutInv'
    <3>1. "start" \notin {"report"} /\ {"val"} \cap LogoutCallers = {}
      BY DEF LogoutCallers
    <3> QED
      BY <1>1, <2>2, <3>1, PressOut
  <2> QED
    BY <1>2, <2>6, <2>7, <2>8 DEF WaitInv
<1> QED
  BY <1>3, <1>4 DEF OnValidationPage

LEMMA NothingSent ==
  ASSUME Idle, calls' = calls, user' = user, user \/ ~val'.running
  PROVE  /\ By(calls') = {} /\ Once(calls', Endings) /\ ~Starting' /\ calls' = <<>>
         /\ StartInv' /\ OutInv'
<1>1. calls' = <<>>
  BY DEF Idle
<1>2. ToSet(calls') = {} /\ Once(calls', Endings)
  BY <1>1 DEF ToSet, Once
<1>3. By(calls') = {} /\ ~Starting'
  BY <1>2 DEF By, Starting
<1> QED
  BY <1>1, <1>2, <1>3 DEF StartInv, OutInv

LEMMA QuietWaits ==
  ASSUME KioskInv, WaitInv, Idle, going = "nowhere",
         BackFromValidation \/ LoadRecipe \/ OpenValidation \/ Navigate \/ PressCancel
  PROVE  WaitInv'
<1>1. /\ calls' = calls /\ UNCHANGED <<user, page, goal, gate, last>> /\ sr \in Sr /\ val \in Val
      /\ user \/ ~val.running
  BY DEF BackFromValidation, LoadRecipe, OpenValidation, Navigate, PressCancel, Stays, GoesTo,
         KioskInv, PagePart, TestPageTypes, ValidationTypes, WaitInv, OutInv
<1>2. CASE BackFromValidation
  <2>1. /\ UNCHANGED <<sr, val, going, skip>> /\ page = "validation"
        /\ modal' = "question" /\ ask' = "backVal"
    BY <1>2 DEF BackFromValidation, Stays, Free, Asks
  <2>2. By(calls') = {} /\ Once(calls', Endings) /\ StartInv' /\ OutInv'
    BY <1>1, <2>1, NothingSent
  <2>3. PageInv'
    BY <1>1, <2>1, PageKept DEF WaitInv, PageInv
  <2>4. AskInv' /\ FreshInv' /\ BeforeInv'
    BY <1>1, <2>1, <2>2 DEF WaitInv, AskInv, FreshInv, BeforeInv
  <2> QED
    BY <2>2, <2>3, <2>4 DEF WaitInv
<1>3. CASE LoadRecipe
  <2>1. /\ UNCHANGED <<val, skip, modal, ask>> /\ page = "recipes" /\ modal = "none"
        /\ going' = "test"
        /\ sr'.wizard = "none" /\ ~sr'.poll /\ ~sr'.running
    BY <1>3 DEF LoadRecipe, GoesTo, Free, Blank
  <2>2. /\ By(calls') = {} /\ Once(calls', Endings) /\ StartInv' /\ OutInv'
        /\ calls' = <<>>
    BY <1>1, <2>1, NothingSent
  <2>3. ask = "none"
    BY <2>1 DEF WaitInv, AskInv
  <2>4. PageInv'
    BY <1>1, <2>1, <2>2 DEF WaitInv, PageInv, ValidationActive
  <2>5. AskInv' /\ FreshInv' /\ BeforeInv'
    BY <1>1, <2>1, <2>2, <2>3 DEF WaitInv, AskInv, FreshInv, BeforeInv
  <2> QED
    BY <2>2, <2>4, <2>5 DEF WaitInv
<1>4. CASE OpenValidation
  <2>1. /\ UNCHANGED <<sr, skip, modal, ask>> /\ page = "home"
        /\ going' = "validation"
        /\ ~val'.running /\ ~val'.awaiting
    BY <1>4 DEF OpenValidation, GoesTo, Free, Ready
  <2>2. By(calls') = {} /\ Once(calls', Endings) /\ StartInv' /\ OutInv'
    BY <1>1, <2>1, NothingSent
  <2>3. PageInv'
    BY <1>1, <2>1 DEF WaitInv, PageInv, ValidationActive
  <2>4. AskInv' /\ FreshInv' /\ BeforeInv'
    BY <1>1, <2>1, <2>2 DEF WaitInv, AskInv, FreshInv, BeforeInv
  <2> QED
    BY <2>2, <2>3, <2>4 DEF WaitInv
<1>5. CASE Navigate
  <2>1. UNCHANGED <<sr, val, skip, modal, ask>> /\ going' \in {"home", "recipes"}
    BY <1>5 DEF Navigate, GoesTo
  <2>2. By(calls') = {} /\ Once(calls', Endings) /\ StartInv' /\ OutInv'
    BY <1>1, <2>1, NothingSent
  <2>3. PageInv'
    BY <1>1, <2>1 DEF WaitInv, PageInv, ValidationActive
  <2>4. AskInv'
    BY <1>1, <2>1, <2>2 DEF WaitInv, AskInv
  <2>5. FreshInv' /\ BeforeInv'
    BY <1>1, <2>1, <2>2 DEF WaitInv, FreshInv, BeforeInv
  <2> QED
    BY <2>2, <2>3, <2>4, <2>5 DEF WaitInv
<1>6. CASE PressCancel
  <2>1. UNCHANGED <<sr, val, going, skip>> /\ modal' = "none" /\ ask' = "none"
    BY <1>6 DEF PressCancel, Stays
  <2>2. By(calls') = {} /\ Once(calls', Endings) /\ StartInv' /\ OutInv'
    BY <1>1, <2>1, NothingSent
  <2>3. PageInv'
    BY <1>1, <2>1, PageKept DEF WaitInv, PageInv
  <2>4. AskInv' /\ FreshInv' /\ BeforeInv'
    BY <1>1, <2>1, <2>2 DEF WaitInv, AskInv, FreshInv, BeforeInv
  <2> QED
    BY <2>2, <2>3, <2>4 DEF WaitInv
<1> QED
  BY <1>2, <1>3, <1>4, <1>5, <1>6

LEMMA LoginWaits ==
  ASSUME KioskInv, WaitInv, Idle, going = "nowhere", Login,
         haste' \in 0 .. MaxHaste
  PROVE  WaitInv'
<1>1. /\ user' /\ ~user /\ going' = "home"
      /\ UNCHANGED <<sr, modal, ask, val, page, goal, skip, gate, last>>
  BY DEF Login, GoesTo
<1>2. ~val.running
  BY <1>1 DEF WaitInv, OutInv
<1>3. /\ calls' \in {<<>>} \cup {<<c>> : c \in {d \in Call : d.op = "preview" /\ d.by = "again" /\ d.signed}}
      /\ gate = None => calls' = <<>>
  <2>1. gate = None => calls' = <<>>
    BY DEF Login, Idle
  <2>2. \/ calls' = calls
        \/ \E c \in Fit(Len(reports)) :
             /\ c.op = "preview" /\ c.by = "again" /\ c.at = "sent" /\ c.signed
             /\ calls' = Append(calls, c)
    BY LoginStep
  <2>3. CASE calls' = calls
    BY <2>1, <2>3 DEF Idle
  <2>4. ASSUME NEW c \in Fit(Len(reports)), c.op = "preview", c.by = "again", c.signed,
               calls' = Append(calls, c)
        PROVE  calls' = <<c>> /\ c \in Call
    BY <2>4 DEF Idle, Fit
  <2> QED
    BY <2>1, <2>2, <2>3, <2>4
<1>4. /\ By(calls') \subseteq {"again"} /\ Once(calls', Endings) /\ ~Starting'
      /\ \A c \in ToSet(calls') : c.signed
      /\ gate = None => By(calls') = {}
  BY <1>3 DEF By, ToSet, Once, Starting
<1>5. PageInv'
  BY <1>1 DEF WaitInv, PageInv, ValidationActive
<1>6. AskInv'
  BY <1>1, <1>4 DEF WaitInv, AskInv, Endings
<1>7. FreshInv'
  <2>1. last.pending \/ gate = None
    BY DEF KioskInv, ShellPart
  <2> QED
    BY <1>1, <1>4, <2>1 DEF WaitInv, FreshInv
<1>8. BeforeInv'
  BY <1>1 DEF WaitInv, BeforeInv
<1>9. StartInv' /\ OutInv'
  BY <1>1, <1>2, <1>4 DEF StartInv, OutInv, LogoutCallers
<1> QED
  BY <1>5, <1>6, <1>7, <1>8, <1>9 DEF WaitInv

LEMMA OpenWaits ==
  ASSUME KioskInv, WaitInv, Idle, going = "nowhere", OpenReport \/ Approve,
         haste' \in 0 .. MaxHaste
  PROVE  WaitInv'
<1>1. /\ UNCHANGED <<user, sr, val, page, going, goal, skip>> /\ user /\ page \in {"home", "preview"}
      /\ modal = "none" /\ calls \in Seq(Call)
  BY DEF OpenReport, Approve, Free, Stays, KioskInv, CallsPart
<1>2. ask' = ask /\ modal' \in {"none", "notice"}
  BY <1>1 DEF OpenReport, OpensPreview, Approve, Unlocks, Notice, NoModal
<1>3. ask = "none"
  BY <1>1 DEF WaitInv, AskInv
<1>4. Sends(calls, {"delete", "preview"}, {"none", "open"})
  <2>1. CASE OpenReport
    BY <2>1, OpenReportStep, SendsMore
  <2>2. CASE Approve
    BY <2>2, ApproveStep
  <2> QED
    BY <2>1, <2>2
<1>5. By(calls') \subseteq {"none", "open"} /\ Once(calls', Endings)
  BY <1>4, PressCalls DEF Endings
<1>6. PageInv'
  BY <1>1, PageKept DEF WaitInv, PageInv
<1>7. AskInv'
  BY <1>1, <1>2, <1>3, <1>5 DEF WaitInv, AskInv, Endings
<1>8. FreshInv' /\ BeforeInv'
  BY <1>1 DEF FreshInv, BeforeInv
<1>9. StartInv' /\ OutInv'
  <2>1. "start" \notin {"delete", "preview"} /\ {"none", "open"} \cap LogoutCallers = {}
    BY DEF LogoutCallers
  <2> QED
    BY <1>1, <1>4, <2>1, PressOut
<1> QED
  BY <1>6, <1>7, <1>8, <1>9 DEF WaitInv

\* A logout begins; no question is open any more.
LEMMA LogsOutWaits ==
  ASSUME KioskInv, WaitInv, Idle, going = "nowhere", LogsOut, Stays, user' = user,
         modal' = "none", ask' = "none"
  PROVE  WaitInv'
<1>1. /\ sr \in Sr /\ val \in Val /\ calls \in Seq(Call) /\ (user \/ ~val.running)
      /\ UNCHANGED <<page, going, goal, skip, gate, last>>
  BY DEF KioskInv, PagePart, TestPageTypes, ValidationTypes, CallsPart, WaitInv, OutInv, Stays
<1>2. Sends(calls, {"stop", "abort", "report", "ensure"}, {"bye", "byeTest"})
  BY LogsOutFacts DEF KioskInv
<1>3. By(calls') \subseteq {"bye", "byeTest"} /\ Once(calls', Endings)
  BY <1>2, PressCalls DEF Endings
<1>4. ~val'.running /\ (val'.enabled <=> val.enabled) /\ (val'.awaiting => val.awaiting)
  BY <1>1 DEF LogsOut, AbortsValidation, ValidationActive, Val
<1>5. StartInv' /\ OutInv'
  <2>1. "start" \notin {"stop", "abort", "report", "ensure"}
    OBVIOUS
  <2> QED
    BY <1>1, <1>2, <1>4, <2>1, PressOut
<1>6. /\ sr'.wizard \in {sr.wizard, "none"} /\ sr'.analysis = sr.analysis
      /\ sr.done => sr'.done
      /\ page = "test" => sr'.wizard # "before"
      /\ sr'.poll => sr.poll /\ (sr'.running <=> sr.running) /\ (sr'.done <=> sr.done)
  <2>1. CASE UNCHANGED sr /\ ValidationActive
    BY <2>1 DEF WaitInv, PageInv
  <2>2. CASE SavesPartial(calls)
    BY <1>1, <2>2 DEF SavesPartial, Sr
  <2>3. CASE sr' = [sr EXCEPT !.aborted = TRUE] /\ sr.running
    <3>1. page = "test" => sr.wizard # "before"
      BY <2>3 DEF WaitInv, BeforeInv
    <3> QED
      BY <1>1, <2>3, <3>1 DEF Sr
  <2>4. CASE UNCHANGED sr /\ (~(sr.running \/ sr.weighing \/ sr.done) \/ ~Operating)
    <3>1. page = "test" => sr.wizard # "before"
      BY <2>4 DEF WaitInv, BeforeInv, Operating
    <3> QED
      BY <2>4, <3>1
  <2> QED
    BY <2>1, <2>2, <2>3, <2>4 DEF LogsOut, AbortsNow
<1>7. PageInv'
  BY <1>1, <1>4, <1>6 DEF WaitInv, PageInv, ValidationActive
<1>8. AskInv'
  BY <1>1, <1>3, <1>6 DEF WaitInv, AskInv, Endings
<1>9. FreshInv' /\ BeforeInv'
  BY <1>1, <1>3, <1>6 DEF WaitInv, FreshInv, BeforeInv
<1> QED
  BY <1>5, <1>7, <1>8, <1>9 DEF WaitInv

LEMMA PressLogoutWaits ==
  ASSUME KioskInv, WaitInv, Idle, going = "nowhere", PressLogout, haste' \in 0 .. MaxHaste
  PROVE  WaitInv'
<1>1. /\ UNCHANGED <<user, page, going, goal, skip, gate, last>> /\ user /\ modal = "none"
      /\ calls \in Seq(Call) /\ Stays
  BY DEF PressLogout, Stays, Free, KioskInv, CallsPart
<1>2. ask = "none"
  BY <1>1 DEF WaitInv, AskInv
<1>3. CASE LogsOut /\ NoModal
  BY <1>1, <1>2, <1>3, LogsOutWaits DEF NoModal
<1>4. CASE Asks("logout") /\ UNCHANGED <<calls, sr, val>>
  <2>1. By(calls') = {} /\ Once(calls', Endings) /\ StartInv' /\ OutInv'
    BY <1>1, <1>4, NothingSent
  <2>2. modal' = "question" /\ ask' = "logout"
    BY <1>4 DEF Asks
  <2>3. PageInv'
    BY <1>1, <1>4, PageKept DEF WaitInv, PageInv
  <2>4. AskInv' /\ FreshInv' /\ BeforeInv'
    BY <1>1, <1>4, <2>1, <2>2 DEF WaitInv, AskInv, FreshInv, BeforeInv
  <2> QED
    BY <2>1, <2>3, <2>4 DEF WaitInv
<1>5. CASE gate # None /\ Notice /\ UNCHANGED <<sr, val>>
  <2>1. Sends(calls, {"preview"}, {"open"})
    BY <1>5, PressLogoutStep
  <2>2. By(calls') \subseteq {"open"} /\ Once(calls', Endings)
    BY <2>1, PressCalls DEF Endings
  <2>3. StartInv' /\ OutInv'
    <3>1. "start" \notin {"preview"} /\ {"open"} \cap LogoutCallers = {}
      BY DEF LogoutCallers
    <3> QED
      BY <1>1, <2>1, <3>1, PressOut
  <2>4. modal' = "notice" /\ ask' = "none" /\ last.pending
    BY <1>2, <1>5 DEF Notice, KioskInv, ShellPart
  <2>5. PageInv'
    BY <1>1, <1>5, PageKept DEF WaitInv, PageInv
  <2>6. AskInv'
    BY <1>1, <1>5, <2>2, <2>4 DEF WaitInv, AskInv, Endings
  <2>7. FreshInv' /\ BeforeInv'
    BY <1>1, <1>5, <2>4 DEF WaitInv, FreshInv, BeforeInv
  <2> QED
    BY <2>3, <2>5, <2>6, <2>7 DEF WaitInv
<1> QED
  BY <1>3, <1>4, <1>5 DEF PressLogout

\* What a stop leaves of the validation.
LEMMA StopsFields ==
  ASSUME val \in Val, NEW rest, NEW aborted \in BOOLEAN, StopsValidation(aborted, rest)
  PROVE  ~val'.running /\ ~val'.enabled /\ (aborted => ~val'.awaiting)
<1> DEFINE over == [val EXCEPT !.running = FALSE, !.aborted = aborted, !.poll = FALSE,
                               !.enabled = FALSE]
<1>1. over \in Val /\ ~over.running /\ ~over.enabled
  BY DEF Val
<1>2. \/ aborted /\ val' = [over EXCEPT !.awaiting = FALSE]
      \/ ~aborted /\ val' = [over EXCEPT !.awaiting = TRUE]
  BY DEF StopsValidation, SavesValidation
<1> HIDE DEF over
<1> QED
  BY <1>1, <1>2 DEF Val

LEMMA PressOkWaits ==
  ASSUME KioskInv, WaitInv, Idle, going = "nowhere", PressOk
  PROVE  WaitInv'
<1>1. /\ user' = user /\ modal' = "none" /\ ask' = "none" /\ calls \in Seq(Call)
      /\ sr \in Sr /\ val \in Val /\ (user \/ ~val.running)
  BY DEF PressOk, KioskInv, CallsPart, PagePart, TestPageTypes, ValidationTypes, WaitInv, OutInv
<1>2. CASE /\ ask \in {"stop", "leaveTest"}
           /\ calls' = Append(calls, Request("abort", sr.test,
                                             IF ask = "stop" THEN "stop" ELSE "leave"))
           /\ UNCHANGED <<sr, val>> /\ Stays
  <2> DEFINE by == IF ask = "stop" THEN "stop" ELSE "leave"
  <2>1. /\ by \in Endings /\ (ask # "stop" => by = "leave")
        /\ calls' = Append(calls, Request("abort", sr.test, by))
    BY <1>2 DEF Endings
  <2> HIDE DEF by
  <2>2. Request("abort", sr.test, by) \in New
    <3>1. sr.test \in Nat /\ by \in {"stop", "leave", "bye"}
      BY <1>1, <2>1, SrFields DEF Endings
    <3> QED
      BY <3>1, NewRequests
  <2>3. Sends(calls, {"abort"}, {by})
    BY <1>1, <2>1, <2>2, SendRequest
  <2>4. By(calls') \subseteq {by}
    BY <2>3, PressCalls
  <2>5. Once(calls', Endings)
    <3> DEFINE x == Request("abort", sr.test, by)
    <3>1. calls' = <<x>>
      BY <2>1 DEF Idle
    <3> HIDE DEF x
    <3> QED
      BY <3>1 DEF Once
  <2>6. StartInv' /\ OutInv'
    <3>1. "start" \notin {"abort"} /\ {by} \cap LogoutCallers = {}
      BY <2>1 DEF LogoutCallers, Endings
    <3>2. user \/ ~val'.running
      BY <1>1, <1>2
    <3> QED
      BY <1>1, <2>3, <3>1, <3>2, PressOut
  <2>7. PageInv'
    BY <1>2, PageKept DEF WaitInv, PageInv, Stays
  <2>8. AskInv' /\ FreshInv'
    BY <1>1, <1>2, <2>1, <2>4, <2>5 DEF WaitInv, AskInv, FreshInv, Stays, Endings
  <2>9. BeforeInv'
    BY <1>1, <1>2, <2>1, <2>4 DEF WaitInv, BeforeInv, Stays
  <2> QED
    BY <2>6, <2>7, <2>8, <2>9 DEF WaitInv
<1>3. CASE /\ ask \in {"stopVal", "leaveVal", "backVal"}
           /\ StopsValidation(TRUE, calls) /\ UNCHANGED sr
           /\ \/ Stays
              \/ /\ skip' = skip \cup {"val"}
                 /\ GoesTo(IF ask = "leaveVal" THEN goal ELSE "home")
  <2>1. Sends(calls, {"stop", "report"}, {"none", "val"})
    <3>1. StopsValidation(TRUE, calls) /\ TRUE \in BOOLEAN
      BY <1>3
    <3> QED
      BY <1>1, <3>1, StopsValidationFacts DEF KioskInv
  <2>2. By(calls') \subseteq {"none", "val"} /\ Once(calls', Endings)
    BY <2>1, PressCalls DEF Endings
  <2>3. ~val'.running /\ ~val'.awaiting /\ ~val'.enabled
    <3>1. StopsValidation(TRUE, calls) /\ TRUE \in BOOLEAN
      BY <1>3
    <3> QED
      BY <1>1, <3>1, StopsFields
  <2>4. StartInv' /\ OutInv'
    <3>1. "start" \notin {"stop", "report"} /\ {"none", "val"} \cap LogoutCallers = {}
      BY DEF LogoutCallers
    <3> QED
      BY <1>1, <2>1, <2>3, <3>1, PressOut
  <2>5. /\ page # "test" /\ page' = page /\ goal' = goal /\ going' # "test"
    BY <1>3 DEF WaitInv, AskInv, PageInv, Stays, GoesTo
  <2>6. PageInv'
    BY <1>3, <2>3, <2>5 DEF WaitInv, PageInv, ValidationActive
  <2>7. AskInv' /\ FreshInv' /\ BeforeInv'
    BY <1>1, <1>3, <2>2, <2>5 DEF WaitInv, AskInv, FreshInv, BeforeInv, Endings
  <2> QED
    BY <2>4, <2>6, <2>7 DEF WaitInv
<1>4. CASE LogsOut /\ Stays
  BY <1>1, <1>4, LogsOutWaits
<1>5. CASE ask = "none" /\ UNCHANGED <<calls, sr, val>> /\ Stays
  <2>1. user \/ ~val'.running
    BY <1>1, <1>5
  <2>2. By(calls') = {} /\ Once(calls', Endings) /\ StartInv' /\ OutInv'
    BY <1>1, <1>5, <2>1, NothingSent
  <2>3. PageInv'
    BY <1>5, PageKept DEF WaitInv, PageInv, Stays
  <2>4. AskInv' /\ FreshInv' /\ BeforeInv'
    BY <1>1, <1>5, <2>2 DEF WaitInv, AskInv, FreshInv, BeforeInv, Stays
  <2> QED
    BY <2>2, <2>3, <2>4 DEF WaitInv
<1> QED
  BY <1>2, <1>3, <1>4, <1>5 DEF PressOk, Yes

LEMMA PressWaits ==
  ASSUME KioskInv, WaitInv, Idle, going = "nowhere", Presses, haste' \in 0 .. MaxHaste
  PROVE  WaitInv'
<1>1. CASE OnTestPage
  <2>1. Free("test") /\ UNCHANGED <<server, user, val>> /\ Stays
    BY <1>1 DEF OnTestPage
  <2> QED
    BY <1>1, <2>1, PressStartWaits, WeighedWaits, CompleteWaits, SaveWaits DEF OnTestPage
<1>2. CASE PressChoice
  BY <1>2, SaveWaits DEF PressChoice
<1> QED
  BY <1>1, <1>2, ValidateWaits, QuietWaits, LoginWaits, OpenWaits, PressLogoutWaits, PressOkWaits
  DEF Presses

----------------------------------------------------------------------------
(***************************************************************************)
(* Navigation and the intervals                                            *)
(***************************************************************************)
\* Requests that start nothing, sent while nothing is being started.
LEMMA SentOut ==
  ASSUME KioskInv, WaitInv, user' = user,
         NEW rest \in Seq(Call), ToSet(rest) \subseteq ToSet(calls), By(rest) \subseteq By(calls),
         NEW ops, NEW callers, Sends(rest, ops, callers),
         ~Starting, "start" \notin ops,
         val'.running => val.running /\ callers \cap LogoutCallers = {}
  PROVE  StartInv' /\ OutInv'
<1>1. /\ \A c \in ToSet(calls') : c \in ToSet(rest) \/ (c \in New /\ c.op \in ops /\ c.by \in callers)
      /\ By(calls') \subseteq By(rest) \cup callers
  BY SentFacts
<1>2. ~Starting'
  BY <1>1 DEF Starting
<1>3. \A c \in ToSet(calls') : c.signed \/ ~user
  BY <1>1 DEF New, WaitInv, OutInv
<1> QED
  BY <1>1, <1>2, <1>3 DEF StartInv, WaitInv, OutInv

LEMMA GoToPageWaits ==
  ASSUME KioskInv, WaitInv, GoToPage, haste' = haste
  PROVE  WaitInv'
<1>1. /\ calls \in Seq(Call) /\ UNCHANGED <<user, sr, val, gate, last>> /\ going' = "nowhere"
      /\ going \in Pages /\ going # "nowhere"
  BY DEF GoToPage, KioskInv, ShellPart, CallsPart
<1>2. Sends(calls, {"preview"}, {"open"})
  BY GoToPageStep
<1>3. By(calls') \subseteq By(calls) \cup {"open"} /\ Once(calls', Endings)
  <2>1. {"open"} \cap Endings = {} /\ Once(calls, Endings)
    BY DEF Endings, WaitInv, AskInv
  <2> QED
    BY <1>1, <1>2, <2>1, SentFacts, SentOnce
<1>4. ~Starting
  BY <1>1 DEF WaitInv, StartInv
<1>5. StartInv' /\ OutInv'
  <2>1. /\ "start" \notin {"preview"} /\ {"open"} \cap LogoutCallers = {}
        /\ val'.running => val.running
    BY <1>1 DEF LogoutCallers
  <2> QED
    BY <1>1, <1>2, <1>4, <2>1, SentOut
<1>6. \/ GuardAsks(going)
      \/ /\ ~AsksTest(going) /\ ~AsksVal(going) /\ PreviewHolds(going)
      \/ /\ ~AsksTest(going) /\ ~AsksVal(going) /\ Arrives(going)
  BY DEF GoToPage
<1>7. /\ By(calls') \cap Endings # {} => ~sr.analysis
  <2>1. By(calls') \cap Endings # {} => By(calls) \cap Endings # {}
    BY <1>3 DEF Endings
  <2> QED
    BY <1>1, <2>1 DEF WaitInv, AskInv
<1>8. CASE GuardAsks(going)
  <2>1. /\ AsksTest(going) \/ AsksVal(going)
        /\ ask' = IF AsksTest(going) THEN "leaveTest" ELSE "leaveVal"
        /\ modal' = "question" /\ goal' = going /\ UNCHANGED <<page, skip, calls>>
    BY <1>8 DEF GuardAsks, Asks
  <2>2. ~AsksTest(going) => page = "validation"
    BY <2>1 DEF AsksVal, WaitInv, PageInv
  <2>3. going # "test"
    BY <2>1, <2>2 DEF AsksTest, WaitInv, PageInv
  <2>4. page = "test" => "test" \notin skip
    BY <2>1, <2>2 DEF AsksTest
  <2>5. PageInv'
    BY <1>1, <2>1, <2>3, <2>4 DEF WaitInv, PageInv, ValidationActive
  <2>6. AskInv'
    BY <1>1, <1>3, <1>7, <2>1, <2>2 DEF WaitInv, AskInv
  <2>7. FreshInv'
    BY <1>1, <2>1 DEF WaitInv, FreshInv
  <2>8. BeforeInv'
    BY <1>1, <2>1, <2>2, <2>4 DEF WaitInv, BeforeInv
  <2> QED
    BY <1>5, <2>5, <2>6, <2>7, <2>8 DEF WaitInv
<1>9. CASE /\ ~AsksTest(going) /\ ~AsksVal(going)
           /\ PreviewHolds(going) \/ Arrives(going)
  <2>1. /\ skip' = {} /\ goal' = goal /\ ask' = ask /\ modal' \in {modal, "notice"}
        /\ page' = page \/ (page' = going /\ (~last.pending \/ going = "preview"))
        /\ calls' = calls \/ last.pending
        /\ page' = page => ~user \/ last.pending \/ going = page
    <3>1. CASE PreviewHolds(going)
      BY <3>1 DEF PreviewHolds, Notice
    <3>2. CASE Arrives(going)
      <4>1. /\ skip' = {} /\ goal' = goal /\ calls' = calls
            /\ (user /\ page' = going /\ NoModal) \/ (~user /\ page' = page /\ Notice)
            /\ ~last.pending \/ going = "preview"
        BY <3>2 DEF Arrives
      <4>2. ask' = ask /\ modal' \in {modal, "notice"}
        BY <4>1 DEF Notice, NoModal
      <4> QED
        BY <4>1, <4>2
    <3> QED
      BY <1>9, <3>1, <3>2
  <2>2. sr.poll => page' = page
    <3>1. ASSUME sr.poll PROVE page = "test" /\ "test" \notin skip /\ Operating /\ going = "test"
      BY <1>9, <3>1 DEF AsksTest, Operating, WaitInv, PageInv
    <3> QED
      BY <3>1 DEF WaitInv, PageInv
  <2>3. ValidationActive => page' = page
    <3>1. ASSUME ValidationActive PROVE page = "validation" /\ "val" \notin skip
      BY <3>1 DEF WaitInv, PageInv, ValidationActive
    <3> QED
      BY <1>9, <2>1, <3>1 DEF AsksVal
  <2>4. PageInv'
    BY <1>1, <2>1, <2>2, <2>3 DEF WaitInv, PageInv, ValidationActive
  <2>5. AskInv'
    BY <1>1, <1>3, <1>7, <2>1 DEF WaitInv, AskInv
  <2>6. FreshInv'
    <3>1. page' = "test" /\ page # "test" => calls' = <<>> /\ ~last.pending
      BY <2>1 DEF WaitInv, PageInv
    <3>2. By(<<>>) = {}
      BY DEF By, ToSet
    <3> QED
      BY <1>1, <2>1, <3>1, <3>2 DEF WaitInv, FreshInv
  <2>7. BeforeInv'
    <3>1. ~(page' = "test" /\ sr.wizard = "before")
      <4>1. ASSUME page = "test", page' = "test", sr.wizard = "before" PROVE FALSE
        <5>1. user /\ ~last.pending
          BY <4>1 DEF WaitInv, BeforeInv
        <5>2. going = "test"
          BY <2>1, <4>1, <5>1
        <5> QED
          BY <4>1, <5>2 DEF WaitInv, PageInv
      <4>2. ASSUME page # "test", page' = "test", sr.wizard = "before" PROVE FALSE
        BY <2>1, <4>2 DEF WaitInv, PageInv
      <4> QED
        BY <4>1, <4>2
    <3> QED
      BY <1>1, <3>1 DEF BeforeInv
  <2> QED
    BY <1>5, <2>4, <2>5, <2>6, <2>7 DEF WaitInv
<1> QED
  BY <1>6, <1>8, <1>9

LEMMA TickWaits ==
  ASSUME KioskInv, WaitInv, going = "nowhere", Tick, UNCHANGED <<server, user, val>>, Stays
  PROVE  WaitInv'
<1>1. /\ calls \in Seq(Call) /\ UNCHANGED <<page, going, goal, skip, gate, last, sr, modal, ask>>
      /\ page = "test" /\ sr.running
  BY DEF Tick, Stays, NoModal, KioskInv, CallsPart, WaitInv, PageInv
<1>2. Sends(calls, {"live", "put"}, {"tick", "none"})
  BY TickFacts DEF KioskInv
<1>3. By(calls') \subseteq By(calls) \cup {"tick", "none"} /\ Once(calls', Endings)
  <2>1. {"tick", "none"} \cap Endings = {} /\ Once(calls, Endings)
    BY DEF Endings, WaitInv, AskInv
  <2> QED
    BY <1>1, <1>2, <2>1, SentFacts, SentOnce
<1>4. ~Starting
  BY <1>1 DEF WaitInv, StartInv
<1>5. StartInv' /\ OutInv'
  <2>1. /\ "start" \notin {"live", "put"} /\ {"tick", "none"} \cap LogoutCallers = {}
    BY DEF LogoutCallers
  <2> QED
    BY <1>1, <1>2, <1>4, <2>1, SentOut
<1>6. PageInv'
  BY <1>1, PageKept DEF WaitInv, PageInv
<1>7. AskInv'
  BY <1>1, <1>3 DEF WaitInv, AskInv, Endings
<1>8. FreshInv' /\ BeforeInv'
  BY <1>1, <1>3 DEF WaitInv, FreshInv, BeforeInv
<1> QED
  BY <1>5, <1>6, <1>7, <1>8 DEF WaitInv

LEMMA ValidationTimerWaits ==
  ASSUME KioskInv, WaitInv, going = "nowhere", ValidationTick \/ ValidationOver,
         UNCHANGED <<server, user, sr>>, Stays
  PROVE  WaitInv'
<1>1. /\ calls \in Seq(Call) /\ UNCHANGED <<page, going, goal, skip, gate, last, modal, ask>>
      /\ val \in Val /\ val.run \in Runs \cup {None} /\ val.run \in Nat
      /\ val.running /\ page = "validation" /\ "val" \notin skip
  BY ValFields DEF ValidationTick, ValidationOver, Stays, NoModal, KioskInv, CallsPart, PagePart,
                   ValidationTypes, WaitInv, PageInv, ValidationActive
<1>2. Sends(calls, {"put", "stop"}, {"none"})
  <2> DEFINE put == Request("put", val.run, "none")
             stop == Request("stop", val.run, "none")
  <2>1. put \in New /\ stop \in New
    BY <1>1, NewRequests, NewRunRequests
  <2>2. put.op = "put" /\ put.by = "none" /\ stop.op = "stop" /\ stop.by = "none"
    BY DEF Request
  <2>3. \/ calls' = Append(calls, put)
        \/ calls' = Append(Append(calls, put), stop)
    BY DEF ValidationTick, ValidationOver, StopsValidation
  <2> HIDE DEF put, stop
  <2> DEFINE ops == {"put", "stop"}
             callers == {"none"}
  <2>4. put.op \in ops /\ put.by \in callers /\ stop.op \in ops /\ stop.by \in callers
    BY <2>2
  <2> HIDE DEF ops, callers
  <2>5. Sends(calls, ops, callers)
    BY <1>1, <2>1, <2>3, <2>4, SendOne, SendTwo
  <2> QED
    BY <2>5 DEF ops, callers
<1>3. By(calls') \subseteq By(calls) \cup {"none"} /\ Once(calls', Endings)
  <2>1. {"none"} \cap Endings = {} /\ Once(calls, Endings)
    BY DEF Endings, WaitInv, AskInv
  <2> QED
    BY <1>1, <1>2, <2>1, SentFacts, SentOnce
<1>4. ~Starting
  BY <1>1 DEF WaitInv, StartInv
<1>5. StartInv' /\ OutInv'
  <2>1. /\ "start" \notin {"put", "stop"} /\ {"none"} \cap LogoutCallers = {}
    BY DEF LogoutCallers
  <2> QED
    BY <1>1, <1>2, <1>4, <2>1, SentOut
<1>6. val'.running => val'.enabled
  <2>1. CASE ValidationTick
    BY <2>1 DEF ValidationTick, WaitInv, PageInv
  <2>2. CASE ValidationOver
    <3>1. StopsValidation(FALSE, Append(calls, Request("put", val.run, "none"))) /\ FALSE \in BOOLEAN
      BY <2>2 DEF ValidationOver
    <3> QED
      BY <1>1, <3>1, StopsFields
  <2> QED
    BY <2>1, <2>2
<1>7. PageInv'
  BY <1>1, <1>6 DEF WaitInv, PageInv
<1>8. AskInv'
  BY <1>1, <1>3 DEF WaitInv, AskInv, Endings
<1>9. FreshInv' /\ BeforeInv'
  BY <1>1 DEF FreshInv, BeforeInv
<1> QED
  BY <1>5, <1>7, <1>8, <1>9 DEF WaitInv

LEMMA AutoLogoutWaits ==
  ASSUME KioskInv, WaitInv, going = "nowhere", AutoLogoutTick, haste' = haste
  PROVE  WaitInv'
<1>1. /\ calls \in Seq(Call)
      /\ UNCHANGED <<user, sr, modal, ask, val, page, going, goal, skip, gate, last>>
      /\ user /\ ~Operating /\ ~val.running
  BY DEF AutoLogoutTick, Stays, page_, KioskInv, CallsPart, ValidationActive
<1>2. Sends(calls, {"ensure"}, {"idle"})
  BY AutoLogoutTickStep
<1>3. By(calls) \subseteq {"tick", "none"}
  BY DEF AutoLogoutTick, By, ToSet
<1>4. By(calls') \subseteq By(calls) \cup {"idle"} /\ Once(calls', Endings)
  <2>1. {"idle"} \cap Endings = {} /\ Once(calls, Endings)
    BY DEF Endings, WaitInv, AskInv
  <2> QED
    BY <1>1, <1>2, <2>1, SentFacts, SentOnce
<1>5. ~Starting
  BY <1>3, CallsFacts DEF Starting
<1>6. StartInv' /\ OutInv'
  <2>1. "start" \notin {"ensure"} /\ (val'.running => val.running /\ {"idle"} \cap LogoutCallers = {})
    BY <1>1
  <2> QED
    BY <1>1, <1>2, <1>5, <2>1, SentOut
<1>7. PageInv'
  BY <1>1, PageKept DEF WaitInv, PageInv
<1>8. AskInv'
  BY <1>1, <1>3, <1>4 DEF WaitInv, AskInv, Endings
<1>9. FreshInv' /\ BeforeInv'
  BY <1>1, <1>3, <1>4 DEF WaitInv, FreshInv, BeforeInv, Operating
<1> QED
  BY <1>6, <1>7, <1>8, <1>9 DEF WaitInv

\* A step that sends only what nobody waits for.
LEMMA StartKept ==
  ASSUME KioskInv, WaitInv, NEW ops, Sends(calls, ops, {"none"}), "start" \notin ops,
         UNCHANGED <<user, page, going, val>>
  PROVE  StartInv' /\ OutInv'
<1>1. /\ calls \in Seq(Call)
      /\ \A c \in ToSet(calls') : c \in ToSet(calls) \/ (c \in New /\ c.op \in ops /\ c.by = "none")
      /\ By(calls') \subseteq By(calls) \cup {"none"}
  BY SentFacts DEF KioskInv, CallsPart
<1>2. Starting' => Starting
  BY <1>1 DEF Starting
<1>3. Once(calls, {"val"}) => Once(calls', {"val"})
  <2>1. {"none"} \cap {"val"} = {}
    OBVIOUS
  <2> QED
    BY <1>1, <2>1, SentOnce
<1>4. StartInv'
  BY <1>1, <1>2, <1>3 DEF WaitInv, StartInv
<1>5. OutInv'
  <2>1. \A c \in ToSet(calls') : c.signed \/ ~user
    BY <1>1 DEF New, WaitInv, OutInv
  <2> QED
    BY <1>1, <1>2, <2>1 DEF WaitInv, OutInv, LogoutCallers
<1> QED
  BY <1>4, <1>5

LEMMA ApprovalPollWaits ==
  ASSUME KioskInv, WaitInv, going = "nowhere", ApprovalPoll
  PROVE  WaitInv'
<1>1. /\ calls \in Seq(Call) /\ UNCHANGED <<user, sr, val, page, going, goal, skip>>
      /\ last.pending /\ modal' = "notice" /\ ask' = ask
  BY DEF ApprovalPoll, Unlocks, Notice, KioskInv, CallsPart
<1>2. Sends(calls, {"delete"}, {"none"})
  <2>1. None \in Nat /\ "none" \in Callers
    BY DEF Callers, None
  <2>2. Request("delete", None, "none") \in New
    BY <2>1, NewRequests
  <2> QED
    BY <1>1, <2>2, SendRequest DEF ApprovalPoll, Unlocks
<1>3. By(calls') \subseteq By(calls) \cup {"none"} /\ Once(calls', Endings)
  <2>1. {"none"} \cap Endings = {} /\ Once(calls, Endings)
    BY DEF Endings, WaitInv, AskInv
  <2> QED
    BY <1>1, <1>2, <2>1, SentFacts, SentOnce
<1>4. StartInv' /\ OutInv'
  <2>1. "start" \notin {"delete"}
    OBVIOUS
  <2> QED
    BY <1>1, <1>2, <2>1, StartKept
<1>5. PageInv'
  BY <1>1, PageKept DEF WaitInv, PageInv
<1>6. AskInv'
  BY <1>1, <1>3 DEF WaitInv, AskInv, Endings
<1>7. FreshInv' /\ BeforeInv'
  BY <1>1 DEF WaitInv, FreshInv, BeforeInv
<1> QED
  BY <1>4, <1>5, <1>6, <1>7 DEF WaitInv
----------------------------------------------------------------------------
(***************************************************************************)
(* Answers                                                                 *)
(***************************************************************************)
\* c is answered and taken out of the calls under way.
Taken(c, rest) == c.at # "sent" /\ \E i \in DOMAIN calls : c = calls[i] /\ rest = RemoveAt(calls, i)

LEMMA TakenWaits ==
  ASSUME KioskInv, WaitInv, NEW c, NEW rest, Taken(c, rest)
  PROVE  /\ rest \in Seq(Call) /\ ToSet(rest) \subseteq ToSet(calls) /\ By(rest) \subseteq By(calls)
         /\ c \in Fit(Len(reports)) /\ c \in Call /\ c \in ToSet(calls)
         /\ c.by \in By(calls) /\ c.by # "none"
         /\ Once(rest, Endings) /\ (c.by \in Endings => By(rest) \cap Endings = {})
         /\ Starting => c.op = "start" /\ c.by = "val" /\ By(rest) \subseteq {"none"}
<1>1. PICK i \in DOMAIN calls : c = calls[i] /\ rest = RemoveAt(calls, i)
  BY DEF Taken
<1>2. calls \in Seq(Call) /\ ToSet(calls) \subseteq Fit(Len(reports))
  BY CallsFacts
<1>3. /\ rest \in Seq(Call) /\ ToSet(rest) \subseteq ToSet(calls) /\ By(rest) \subseteq By(calls)
      /\ c \in ToSet(calls) /\ c.by \in By(calls)
      /\ \A B : Once(calls, B) => Once(rest, B)
      /\ \A B : Once(calls, B) /\ c.by \in B => By(rest) \cap B = {}
  BY <1>1, <1>2, TakenFacts
<1>4. c \in Fit(Len(reports)) /\ c \in Call /\ c.by # "none"
  BY <1>2, <1>3, CallsFacts DEF Taken
<1>5. ASSUME Starting PROVE c.op = "start" /\ c.by = "val" /\ By(rest) \subseteq {"none"}
  <2>1. /\ c.op = "start" /\ c.by = "val" /\ Once(calls, {"val"})
        /\ \A d \in ToSet(rest) : d.op = "start" \/ d.by = "none"
    BY <1>3, <1>4, <1>5, CallsFacts DEF WaitInv, StartInv
  <2>2. \A d \in ToSet(rest) : d.by \in {"val", "none"}
    BY <1>3, <2>1, CallsFacts
  <2>3. By(rest) \cap {"val"} = {}
    BY <1>3, <2>1
  <2> QED
    BY <2>1, <2>2, <2>3 DEF By
<1>6. Once(rest, Endings) /\ (c.by \in Endings => By(rest) \cap Endings = {})
  BY <1>3 DEF WaitInv, AskInv
<1> QED
  BY <1>3, <1>4, <1>5, <1>6

\* What _srFinishRun does to the page.
LEMMA FinishFields ==
  ASSUME PagePart, NEW aborted \in BOOLEAN, NEW rest \in Seq(Call), FinishRun(aborted, rest)
  PROVE  /\ sr'.done /\ ~sr'.running /\ ~sr'.poll /\ sr'.analysis = sr.analysis /\ ask' = ask
         /\ modal' = modal \/ (modal' = "choice" /\ aborted /\ sr.analysis)
         /\ sr'.wizard = "before" => sr.wizard = "before" /\ aborted /\ sr.analysis
         /\ Sends(rest, {"put", "report"}, IF sr.analysis THEN {"none"} ELSE {"submit"})
<1>1. Over(aborted) \in Sr /\ sr \in Sr
  BY SrFields DEF Over, PagePart, TestPageTypes
<1>2. /\ Over(aborted).done /\ ~Over(aborted).running /\ ~Over(aborted).poll
      /\ Over(aborted).analysis = sr.analysis /\ Over(aborted).wizard = sr.wizard
  BY <1>1 DEF Over, Sr
<1> DEFINE o == Over(aborted)
<1>3. o \in Sr /\ o.done /\ ~o.running /\ ~o.poll /\ o.analysis = sr.analysis /\ o.wizard = sr.wizard
  BY <1>1, <1>2
<1>4. \/ ~sr.analysis /\ Submits(o, rest) /\ NoModal
      \/ sr.analysis /\ ~aborted /\ Weighs(o, rest) /\ NoModal
      \/ sr.analysis /\ aborted /\ sr' = o /\ modal' = "choice" /\ ask' = ask /\ calls' = rest
  BY DEF FinishRun
<1> HIDE DEF o
<1>5. CASE ~sr.analysis /\ Submits(o, rest) /\ NoModal
  <2>1. Sends(rest, {"report"}, {"submit"})
    BY <1>3, <1>5, SubmitsFacts
  <2>2. Sends(rest, {"put", "report"}, {"submit"})
    BY <2>1, SendsMore
  <2>3. sr'.done /\ ~sr'.running /\ ~sr'.poll /\ sr'.analysis = sr.analysis /\ sr'.wizard = "none"
    BY <1>3, <1>5 DEF Submits, Submitted, Sr
  <2> QED
    BY <1>5, <2>2, <2>3 DEF NoModal
<1>6. CASE sr.analysis /\ ~aborted /\ Weighs(o, rest) /\ NoModal
  <2>1. Sends(rest, {"put"}, {"none"})
    BY <1>3, <1>6, WeighsFacts
  <2>2. Sends(rest, {"put", "report"}, {"none"})
    BY <2>1, SendsMore
  <2>3. sr'.done /\ ~sr'.running /\ ~sr'.poll /\ sr'.analysis = sr.analysis /\ sr'.wizard = "after"
    BY <1>3, <1>6 DEF Weighs, AfterWizard, Sr
  <2> QED
    BY <1>6, <2>2, <2>3 DEF NoModal
<1>7. CASE sr.analysis /\ aborted /\ sr' = o /\ modal' = "choice" /\ ask' = ask /\ calls' = rest
  <2>1. Sends(rest, {"put", "report"}, {"none"})
    BY <1>7, SendNone
  <2> QED
    BY <1>3, <1>7, <2>1
<1> QED
  BY <1>4, <1>5, <1>6, <1>7

\* A test that is still shown as it was, or whose start has failed.
LEMMA StillShownWaits ==
  ASSUME KioskInv, WaitInv, going = "nowhere", NEW c, NEW rest, Taken(c, rest),
         UNCHANGED <<user, val>>, Stays, StartInv' /\ OutInv',
         By(calls') \subseteq By(rest) \cup {"none", "complete"}, Once(calls', Endings),
         c.by \in {"start", "tick", "complete", "stop"},
         ask' = ask, modal' \in {modal, "notice"},
         By(calls') \subseteq By(rest) \cup {"none"} \/ c.by # "tick",
         sr'.done = sr.done, sr'.wizard = sr.wizard, sr'.analysis = sr.analysis,
         sr'.weighing = sr.weighing,
         (sr'.running = sr.running /\ sr'.poll = sr.poll) \/ (~sr'.running /\ ~sr'.poll)
  PROVE  WaitInv'
<1>1. UNCHANGED <<page, going, goal, skip, gate, last, user, val>>
  BY DEF Stays
<1>2. /\ By(rest) \subseteq By(calls) /\ c.by \in By(calls)
      /\ c.by \in Endings => By(rest) \cap Endings = {}
  BY TakenWaits
<1>3. PageInv'
  BY <1>1, PageKept DEF WaitInv, PageInv
<1>4. AskInv'
  BY <1>1, <1>2 DEF WaitInv, AskInv, Endings
<1>5. FreshInv'
  BY <1>1, <1>2 DEF WaitInv, FreshInv
<1>6. BeforeInv'
  BY <1>1, <1>2 DEF WaitInv, BeforeInv
<1> QED
  BY <1>3, <1>4, <1>5, <1>6 DEF WaitInv

LEMMA FinishedWaits ==
  ASSUME KioskInv, WaitInv, going = "nowhere", NEW c, NEW rest, Taken(c, rest),
         UNCHANGED <<user, val>>, StartInv' /\ OutInv',
         By(calls') \subseteq By(rest) \cup {"none", "submit"}, Once(calls', Endings),
         sr.analysis => By(calls') \subseteq By(rest) \cup {"none"},
         sr'.done, ~sr'.running, ~sr'.poll, sr'.analysis = sr.analysis, ask' = ask,
         modal' = modal \/ (modal' = "choice" /\ c.by \in Endings /\ sr.analysis),
         sr'.wizard = "before" => sr.wizard = "before" /\ c.by \in Endings /\ sr.analysis,
         c.by \in {"tick", "complete", "stop", "leave"},
         IF c.by = "leave" THEN skip' = skip \cup {"test"} /\ GoesTo(goal) ELSE Stays
  PROVE  WaitInv'
<1>1. /\ UNCHANGED <<page, goal, gate, last, user, val>>
      /\ IF c.by = "leave" THEN skip' = skip \cup {"test"} /\ going' = goal
                           ELSE skip' = skip /\ going' = "nowhere"
  BY DEF Stays, GoesTo
<1>2. /\ By(rest) \subseteq By(calls) /\ c.by \in By(calls)
      /\ c.by \in Endings => By(rest) \cap Endings = {}
  BY TakenWaits
<1>3. goal \in Pages /\ goal # "nowhere" /\ goal # "test"
  BY DEF KioskInv, ShellPart, Pages, WaitInv, PageInv
<1>4. PageInv'
  BY <1>1, <1>3 DEF WaitInv, PageInv, ValidationActive
<1>5. AskInv'
  <2>1. ask # "none" => modal' \in {"question", "notice"}
    BY <1>2 DEF WaitInv, AskInv
  <2>2. "test" \in {page', going'} => "test" \in {page, going}
    BY <1>1, <1>3
  <2>3. ASSUME By(calls') \cap Endings # {}, sr.analysis
        PROVE  ask = "none" /\ going' = "nowhere" /\ By(calls') \subseteq {"stop", "leave", "tick", "none"}
    <3>1. By(rest) \cap Endings # {} /\ c.by \notin Endings
      BY <1>2, <2>3 DEF Endings
    <3>2. ask = "none" /\ By(calls) \subseteq {"stop", "leave", "tick", "none"}
      BY <1>2, <2>3, <3>1 DEF WaitInv, AskInv
    <3> QED
      BY <1>1, <1>2, <2>3, <3>1, <3>2 DEF Endings
  <2> QED
    BY <1>1, <2>1, <2>2, <2>3 DEF WaitInv, AskInv
<1>6. FreshInv'
  BY DEF FreshInv
<1>7. BeforeInv'
  <2>1. ASSUME page = "test", sr'.wizard = "before"
        PROVE  /\ c.by = "leave" /\ ~last.pending /\ user
               /\ ask \in {"none", "leaveTest", "logout"}
               /\ By(calls') \subseteq {"none", "leave"}
    BY <1>2, <2>1 DEF WaitInv, BeforeInv, Endings
  <2> QED
    BY <1>1, <1>3, <2>1 DEF BeforeInv
<1> QED
  BY <1>4, <1>5, <1>6, <1>7 DEF WaitInv
LEMMA TestAnswerWaits ==
  ASSUME KioskInv, WaitInv, going = "nowhere", NEW c, NEW rest, Taken(c, rest),
         UNCHANGED server, haste' = haste,
         \/ /\ \/ RunAnswered(c, rest) \/ PollAnswered(c, rest)
               \/ CompleteAnswered(c, rest) \/ StopAnswered(c, rest)
            /\ UNCHANGED <<user, val>> /\ Stays
         \/ LeaveAnswered(c, rest) /\ UNCHANGED <<user, val>>
  PROVE  WaitInv'
<1>1. /\ rest \in Seq(Call) /\ ToSet(rest) \subseteq ToSet(calls) /\ By(rest) \subseteq By(calls)
      /\ c \in Call /\ Once(rest, Endings) /\ (Starting => c.by = "val")
      /\ PagePart /\ sr \in Sr /\ UNCHANGED <<user, val>>
  BY TakenWaits DEF KioskInv, PagePart, TestPageTypes
<1>2. c.by \in {"start", "tick", "complete", "stop", "leave"} /\ ~Starting
  BY <1>1 DEF RunAnswered, PollAnswered, CompleteAnswered, StopAnswered, LeaveAnswered
<1>3. Sends(rest, {"put", "delete", "report", "live"}, {"none", "submit", "complete"})
  BY <1>1, TestAnswerStep
<1>4. Once(calls', Endings)
  <2>1. {"none", "submit", "complete"} \cap Endings = {}
    BY DEF Endings
  <2> QED
    BY <1>1, <1>3, <2>1, SentOnce
<1>5. StartInv' /\ OutInv'
  <2>1. /\ "start" \notin {"put", "delete", "report", "live"}
        /\ val'.running => val.running /\ {"none", "submit", "complete"} \cap LogoutCallers = {}
    BY <1>1 DEF LogoutCallers
  <2> QED
    BY <1>1, <1>2, <1>3, <2>1, SentOut
<1>6. ASSUME NEW ops, NEW callers, Sends(rest, ops, callers)
      PROVE  By(calls') \subseteq By(rest) \cup callers
  BY <1>1, <1>6, SentFacts
<1>7. CASE RunAnswered(c, rest) /\ Stays
  <2>1. Sends(rest, {"put", "delete"}, {"none"})
    BY <1>1, <1>7, RunAnsweredFacts
  <2>2. By(calls') \subseteq By(rest) \cup {"none"}
    BY <1>6, <2>1
  <2>3. /\ ask' = ask /\ modal' \in {modal, "notice"} /\ c.by = "start"
        /\ sr'.done = sr.done /\ sr'.wizard = sr.wizard /\ sr'.analysis = sr.analysis
        /\ sr'.weighing = sr.weighing
        /\ (sr'.running = sr.running /\ sr'.poll = sr.poll) \/ (~sr'.running /\ ~sr'.poll)
    BY <1>1, <1>7 DEF RunAnswered, NoModal, Notice, Sr
  <2> QED
    BY <1>1, <1>4, <1>5, <1>7, <2>2, <2>3, StillShownWaits
<1>8. CASE /\ calls' = rest \/ (c.by = "complete" /\ calls' = Append(rest, Request("live", None, "complete")))
           /\ UNCHANGED sr /\ NoModal /\ Stays /\ c.by \in {"tick", "complete", "stop"}
  <2>1. CASE calls' = rest
    BY <1>1, <1>4, <1>5, <1>8, <2>1, StillShownWaits DEF NoModal
  <2>2. CASE c.by = "complete" /\ calls' = Append(rest, Request("live", None, "complete"))
    <3>1. Request("live", None, "complete") \in New
      BY NewRequests
    <3>2. Sends(rest, {"live"}, {"complete"})
      BY <1>1, <2>2, <3>1, SendRequest
    <3>3. By(calls') \subseteq By(rest) \cup {"complete"}
      BY <1>6, <3>2
    <3> QED
      BY <1>1, <1>4, <1>5, <1>8, <2>2, <3>3, StillShownWaits DEF NoModal
  <2> QED
    BY <1>8, <2>1, <2>2
<1>9. CASE /\ FinishRun(FALSE, rest) \/ (~sr.analysis /\ \E y \in New : /\ y.by = "submit"
                                           /\ FinishRun(FALSE, Append(rest, y)))
           /\ c.by \in {"tick", "complete"} /\ Stays
  <2>1. PICK s \in {rest} \cup {Append(rest, y) : y \in {z \in New : ~sr.analysis /\ z.by = "submit"}} :
          FinishRun(FALSE, s) /\ FALSE \in BOOLEAN
    BY <1>9
  <2>2. s \in Seq(Call) /\ By(s) \subseteq By(rest) \cup {"submit"} /\ (sr.analysis => s = rest)
    <3>1. ASSUME NEW y \in New, y.by = "submit", s = Append(rest, y), ~sr.analysis
          PROVE  s \in Seq(Call) /\ By(s) \subseteq By(rest) \cup {"submit"}
      <4>1. s \in Seq(Call) /\ ToSet(s) = ToSet(rest) \cup {y}
        BY <1>1, <3>1, NewCall, AppendFacts
      <4> QED
        BY <3>1, <4>1 DEF By
    <3> QED
      BY <1>1, <2>1, <3>1
  <2>3. /\ sr'.done /\ ~sr'.running /\ ~sr'.poll /\ sr'.analysis = sr.analysis /\ ask' = ask
        /\ modal' = modal /\ sr'.wizard # "before"
        /\ Sends(s, {"put", "report"}, IF sr.analysis THEN {"none"} ELSE {"submit"})
    BY <1>1, <2>1, <2>2, FinishFields
  <2>4. By(calls') \subseteq By(s) \cup (IF sr.analysis THEN {"none"} ELSE {"submit"})
    BY <2>2, <2>3, SentFacts
  <2> QED
    BY <1>1, <1>4, <1>5, <1>9, <2>2, <2>3, <2>4, FinishedWaits
<1>10. CASE /\ FinishRun(TRUE, rest) /\ c.by \in Endings
            /\ IF c.by = "leave" THEN skip' = skip \cup {"test"} /\ GoesTo(goal) ELSE Stays
  <2>1. FinishRun(TRUE, rest) /\ TRUE \in BOOLEAN
    BY <1>10
  <2>2. /\ sr'.done /\ ~sr'.running /\ ~sr'.poll /\ sr'.analysis = sr.analysis /\ ask' = ask
        /\ modal' = modal \/ (modal' = "choice" /\ sr.analysis)
        /\ sr'.wizard = "before" => sr.wizard = "before" /\ sr.analysis
        /\ Sends(rest, {"put", "report"}, IF sr.analysis THEN {"none"} ELSE {"submit"})
    BY <1>1, <2>1, FinishFields
  <2>3. By(calls') \subseteq By(rest) \cup (IF sr.analysis THEN {"none"} ELSE {"submit"})
    BY <1>6, <2>2
  <2>4. c.by \in {"tick", "complete", "stop", "leave"}
    BY <1>10 DEF Endings
  <2> QED
    BY <1>1, <1>4, <1>5, <1>10, <2>2, <2>3, <2>4, FinishedWaits
<1>11. CASE PollAnswered(c, rest) /\ Stays
  BY <1>8, <1>9, <1>11 DEF PollAnswered
<1>12. CASE CompleteAnswered(c, rest) /\ Stays
  <2> DEFINE y == PostReport(sr.test, "submit", FALSE)
  <2>1. y \in New /\ y.by = "submit"
    <3>1. y \in New
      BY <1>1, SrFields, NewRunRequests DEF Callers
    <3>2. y.by = "submit"
      BY DEF PostReport, Request
    <3> QED
      BY <3>1, <3>2
  <2>2. \/ /\ calls' = rest \/ (c.by = "complete" /\ calls' = Append(rest, Request("live", None, "complete")))
           /\ UNCHANGED sr /\ NoModal
        \/ ~sr.analysis /\ FinishRun(FALSE, Append(rest, y))
        \/ FinishRun(FALSE, rest)
    BY <1>12 DEF CompleteAnswered
  <2>3. c.by = "complete"
    BY <1>12 DEF CompleteAnswered
  <2> HIDE DEF y
  <2> QED
    BY <1>8, <1>9, <1>12, <2>1, <2>2, <2>3
<1>13. CASE StopAnswered(c, rest) /\ Stays
  BY <1>8, <1>10, <1>13 DEF StopAnswered, Endings
<1>14. CASE LeaveAnswered(c, rest)
  BY <1>10, <1>14 DEF LeaveAnswered, Endings
<1> QED
  BY <1>7, <1>11, <1>12, <1>13, <1>14

LEMMA StartAnswerWaits ==
  ASSUME KioskInv, WaitInv, going = "nowhere", NEW c, NEW rest, Taken(c, rest),
         StartAnswered(c, rest), UNCHANGED <<user, sr>>, Stays
  PROVE  WaitInv'
<1>1. /\ rest \in Seq(Call) /\ ToSet(rest) \subseteq ToSet(calls) /\ c \in Call /\ c \in ToSet(calls)
      /\ UNCHANGED <<page, going, goal, skip, gate, last, sr, user>> /\ val \in Val
  BY TakenWaits DEF Stays, KioskInv, PagePart, ValidationTypes
<1>2. Starting /\ By(rest) \subseteq {"none"}
  BY <1>1, TakenWaits DEF Starting, StartAnswered
<1>3. page = "validation" /\ val.enabled /\ user /\ ~val.running
  BY <1>2 DEF WaitInv, StartInv, OutInv
<1>4. Sends(rest, {"put"}, {"none"})
  BY <1>1, StartAnsweredFacts DEF KioskInv
<1>5. /\ By(calls') \subseteq {"none"}
      /\ \A d \in ToSet(calls') : d \in ToSet(rest) \/ (d \in New /\ d.op = "put")
  BY <1>1, <1>2, <1>4, SentFacts
<1>6. ~Starting'
  <2>1. \A d \in ToSet(rest) : d.op # "start"
    BY <1>1, <1>2, CallsFacts DEF By
  <2> QED
    BY <1>5, <2>1 DEF Starting
<1>7. StartInv' /\ OutInv'
  <2>1. \A d \in ToSet(calls') : d.signed \/ ~user
    BY <1>1, <1>5 DEF WaitInv, OutInv, New
  <2> QED
    BY <1>1, <1>3, <1>5, <1>6, <2>1 DEF StartInv, OutInv, LogoutCallers
<1>8. /\ val'.enabled = val.enabled /\ val'.awaiting = val.awaiting
      /\ ask' = ask /\ modal' \in {modal, "notice"}
  BY <1>1 DEF StartAnswered, Val, NoModal, Notice
<1>9. PageInv'
  BY <1>1, <1>3, <1>8 DEF WaitInv, PageInv, ValidationActive
<1>10. AskInv'
  <2>1. Once(calls', Endings)
    BY <1>5 DEF Once, Endings, By, ToSet
  <2> QED
    BY <1>1, <1>3, <1>5, <1>8, <2>1 DEF WaitInv, AskInv, Endings
<1>11. FreshInv' /\ BeforeInv'
  BY <1>1, <1>3 DEF FreshInv, BeforeInv
<1> QED
  BY <1>7, <1>9, <1>10, <1>11 DEF WaitInv

LEMMA SaveAnswerWaits ==
  ASSUME KioskInv, WaitInv, going = "nowhere", NEW c, NEW rest, Taken(c, rest),
         UNCHANGED server, haste' = haste,
         SaveAnswered(c, rest), UNCHANGED <<user, sr, val>>, Stays
  PROVE  WaitInv'
<1>1. /\ rest \in Seq(Call) /\ ToSet(rest) \subseteq ToSet(calls) /\ By(rest) \subseteq By(calls)
      /\ c \in Fit(Len(reports)) /\ Once(rest, Endings) /\ c.by \in By(calls)
      /\ Starting => c.op = "start"
      /\ UNCHANGED <<page, going, goal, skip, gate, last, sr, user, val>>
  BY TakenWaits DEF Stays
<1>2. /\ c.by \in {"submit", "val"} /\ ~Starting
      /\ ask' = ask /\ modal' \in {modal, "notice"}
  BY <1>1 DEF SaveAnswered, OpensPreview, NoModal, Notice
<1>3. Sends(rest, {"delete", "preview"}, {"submit", "val", "open"})
  BY <1>1, SaveAnswerStep
<1>4. By(calls') \subseteq By(rest) \cup {"submit", "val", "open"} /\ Once(calls', Endings)
  <2>1. {"submit", "val", "open"} \cap Endings = {}
    BY DEF Endings
  <2> QED
    BY <1>1, <1>3, <2>1, SentFacts, SentOnce
<1>5. StartInv' /\ OutInv'
  <2>1. /\ "start" \notin {"delete", "preview"}
        /\ val'.running => val.running /\ {"submit", "val", "open"} \cap LogoutCallers = {}
    BY <1>1 DEF LogoutCallers
  <2> QED
    BY <1>1, <1>2, <1>3, <2>1, SentOut
<1>6. PageInv'
  BY <1>1, PageKept DEF WaitInv, PageInv
<1>7. AskInv'
  BY <1>1, <1>2, <1>4 DEF WaitInv, AskInv, Endings
<1>8. FreshInv' /\ BeforeInv'
  BY <1>1, <1>2 DEF WaitInv, FreshInv, BeforeInv
<1> QED
  BY <1>5, <1>6, <1>7, <1>8 DEF WaitInv

LEMMA PreviewAnswerWaits ==
  ASSUME KioskInv, WaitInv, going = "nowhere", NEW c, NEW rest, Taken(c, rest),
         UNCHANGED server, haste' = haste,
         PreviewAnswered(c, rest), UNCHANGED <<user, sr, val, page, goal, skip>>
  PROVE  WaitInv'
<1>1. /\ rest \in Seq(Call) /\ ToSet(rest) \subseteq ToSet(calls) /\ By(rest) \subseteq By(calls)
      /\ c \in Fit(Len(reports)) /\ Once(rest, Endings) /\ c.by \in By(calls)
      /\ Starting => c.op = "start"
      /\ UNCHANGED <<page, goal, skip, sr, user, val>>
  BY TakenWaits
<1>2. /\ c.by \in {"open", "again"} /\ ~Starting /\ going' \in {"nowhere", "preview"}
      /\ ask' = ask /\ modal' \in {modal, "notice"}
  BY <1>1 DEF PreviewAnswered, OpensPreview, NoModal, Notice, Fit
<1>3. Sends(rest, {"preview"}, {"open"})
  BY <1>1, PreviewAnswerStep
<1>4. By(calls') \subseteq By(rest) \cup {"open"} /\ Once(calls', Endings)
  <2>1. {"open"} \cap Endings = {}
    BY DEF Endings
  <2> QED
    BY <1>1, <1>3, <2>1, SentFacts, SentOnce
<1>5. StartInv' /\ OutInv'
  <2>1. /\ "start" \notin {"preview"}
        /\ val'.running => val.running /\ {"open"} \cap LogoutCallers = {}
    BY <1>1 DEF LogoutCallers
  <2> QED
    BY <1>1, <1>2, <1>3, <2>1, SentOut
<1>6. PageInv'
  BY <1>1, <1>2 DEF WaitInv, PageInv, ValidationActive
<1>7. AskInv'
  BY <1>1, <1>2, <1>4 DEF WaitInv, AskInv, Endings
<1>8. FreshInv' /\ BeforeInv'
  BY <1>1, <1>2 DEF WaitInv, FreshInv, BeforeInv
<1> QED
  BY <1>5, <1>6, <1>7, <1>8 DEF WaitInv

\* What the answers on the way of a logout do to the test page.
LEMMA GoodbyeFields ==
  ASSUME KioskInv, NEW rest \in Seq(Call), NEW c \in Call,
         GoodbyeValidation(c, rest) \/ Goodbye(c, rest)
  PROVE  /\ sr'.poll => sr.poll /\ sr'.running = sr.running /\ sr'.done = sr.done
         /\ sr.done => sr'.done
         /\ sr'.wizard \in {sr.wizard, "none"} /\ sr'.analysis = sr.analysis
         /\ ask' = ask /\ modal' \in {modal, "notice"} /\ c.by \in LogoutCallers
         /\ user' = user \/ user' = FALSE
<1>1. sr \in Sr
  BY DEF KioskInv, PagePart, TestPageTypes
<1>2. SavesPartial(rest) \/ sr' = [sr EXCEPT !.aborted = TRUE] \/ sr' = sr
  BY DEF GoodbyeValidation, Goodbye, AbortsNow
<1>3. /\ sr'.poll => sr.poll /\ sr'.running = sr.running /\ sr'.done = sr.done
      /\ sr.done => sr'.done
      /\ sr'.wizard \in {sr.wizard, "none"} /\ sr'.analysis = sr.analysis
  BY <1>1, <1>2 DEF SavesPartial, Sr
<1>4. ask' = ask /\ modal' \in {modal, "notice"} /\ c.by \in LogoutCallers
  BY DEF GoodbyeValidation, Goodbye, LogoutCallers
<1>5. user' = user \/ user' = FALSE
  BY DEF GoodbyeValidation, Goodbye
<1> QED
  BY <1>3, <1>4, <1>5

LEMMA GoodbyeWaits ==
  ASSUME KioskInv, WaitInv, going = "nowhere", NEW c, NEW rest, Taken(c, rest),
         GoodbyeValidation(c, rest) \/ Goodbye(c, rest),
         UNCHANGED <<val, page, going, goal, skip, last>>
  PROVE  WaitInv'
<1>1. /\ rest \in Seq(Call) /\ ToSet(rest) \subseteq ToSet(calls) /\ By(rest) \subseteq By(calls)
      /\ c \in Call /\ Once(rest, Endings) /\ c.by \in By(calls)
  BY TakenWaits
<1>2. /\ sr'.poll => sr.poll /\ sr'.running = sr.running /\ sr'.done = sr.done
      /\ sr.done => sr'.done
      /\ sr'.wizard \in {sr.wizard, "none"} /\ sr'.analysis = sr.analysis
      /\ ask' = ask /\ modal' \in {modal, "notice"} /\ c.by \in LogoutCallers
      /\ user' = user \/ user' = FALSE
  BY <1>1, GoodbyeFields
<1>3. Sends(rest, {"report", "delete", "abort", "ensure"}, {"bye", "byeTest"})
  BY <1>1, GoodbyeFacts
<1>4. /\ By(calls') \subseteq By(rest) \cup {"bye", "byeTest"}
      /\ \A d \in ToSet(calls') : \/ d \in ToSet(rest)
                                  \/ d \in New /\ d.op \in {"report", "delete", "abort", "ensure"}
      /\ Once(calls', Endings)
  <2>1. {"bye", "byeTest"} \cap Endings = {}
    BY DEF Endings
  <2> QED
    BY <1>1, <1>3, <2>1, SentFacts, SentOnce
<1>5. ~val.running /\ ~Starting
  BY <1>1, <1>2 DEF WaitInv, OutInv
<1>6. StartInv' /\ OutInv'
  <2>1. ~Starting'
    BY <1>1, <1>4, <1>5 DEF Starting
  <2>2. \A d \in ToSet(calls') : d.signed \/ ~user'
    BY <1>1, <1>2, <1>4 DEF WaitInv, OutInv, New
  <2> QED
    BY <1>5, <2>1, <2>2 DEF StartInv, OutInv
<1>7. PageInv'
  BY <1>2, PageKept DEF WaitInv, PageInv
<1>8. AskInv'
  <2>1. ~(By(calls) \cap Endings # {} /\ sr.analysis)
    BY <1>1, <1>2 DEF WaitInv, AskInv, LogoutCallers
  <2> QED
    BY <1>1, <1>2, <1>4, <2>1 DEF WaitInv, AskInv, Endings
<1>9. FreshInv' /\ BeforeInv'
  BY <1>1, <1>2, <1>4 DEF WaitInv, FreshInv, BeforeInv, LogoutCallers
<1> QED
  BY <1>6, <1>7, <1>8, <1>9 DEF WaitInv

LEMMA AnswerWaits ==
  ASSUME KioskInv, WaitInv, going = "nowhere", NEW i \in DOMAIN calls, Answer(i), haste' = haste
  PROVE  WaitInv'
<1> DEFINE c == calls[i]
           rest == RemoveAt(calls, i)
<1>1. Taken(c, rest) /\ UNCHANGED server
  BY DEF Answer, Taken
<1>2. \/ /\ \/ RunAnswered(c, rest) \/ PollAnswered(c, rest)
            \/ CompleteAnswered(c, rest) \/ StopAnswered(c, rest)
         /\ UNCHANGED <<user, val>> /\ Stays
      \/ LeaveAnswered(c, rest) /\ UNCHANGED <<user, val>>
      \/ StartAnswered(c, rest) /\ UNCHANGED <<user, sr>> /\ Stays
      \/ SaveAnswered(c, rest) /\ UNCHANGED <<user, sr, val>> /\ Stays
      \/ /\ GoodbyeValidation(c, rest) \/ Goodbye(c, rest)
         /\ UNCHANGED <<val, page, going, goal, skip, last>>
      \/ /\ PreviewAnswered(c, rest)
         /\ UNCHANGED <<user, sr, val, page, goal, skip>>
  BY DEF Answer
<1> HIDE DEF c, rest
<1> QED
  BY <1>1, <1>2, TestAnswerWaits, StartAnswerWaits, SaveAnswerWaits, GoodbyeWaits, PreviewAnswerWaits
----------------------------------------------------------------------------
(***************************************************************************)
(* The server's part                                                       *)
(***************************************************************************)
\* The call i has landed or has been refused.
Served(i, at) ==
  /\ calls[i].at = "sent"
  /\ \/ Silent(calls[i]) /\ calls' = RemoveAt(calls, i)
     \/ /\ ~Silent(calls[i])
        /\ \E x \in Call : /\ x.op = calls[i].op /\ x.by = calls[i].by
                           /\ x.signed = calls[i].signed /\ x.at = at
                           /\ calls' = [calls EXCEPT ![i] = x]

LEMMA ServedCall ==
  ASSUME KioskInv, NEW i \in DOMAIN calls
  PROVE  /\ Lands(i) => Served(i, "ok") /\ calls[i].signed
         /\ Refuses(i) => Served(i, "failed")
<1> DEFINE c == calls[i]
<1>1. c \in Call /\ c \in Fit(Len(reports))
  BY RemoveAtSet DEF KioskInv, CallsPart
<1>2. ASSUME Lands(i) PROVE Served(i, "ok") /\ c.signed
  <2> DEFINE x == Answered(c)
  <2>1. /\ c.at = "sent" /\ c.signed
        /\ calls' = IF Silent(c) THEN RemoveAt(calls, i) ELSE [calls EXCEPT ![i] = x]
        /\ \/ LandsRun(c) \/ LandsAbort(c) \/ LandsComplete(c) \/ LandsStart(c)
           \/ LandsStop(c) \/ LandsCheckpoint(c) \/ LandsReport(c) \/ LandsRead(c)
        /\ UNCHANGED <<user, fails, unsaved>>
    BY <1>2 DEF Lands
  <2>2. x.op = c.op /\ x.by = c.by /\ x.signed = c.signed /\ x.at = "ok" /\ x \in Call
    <3> HIDE DEF c
    <3>1. x.op = c.op /\ x.by = c.by /\ x.signed = c.signed /\ x.at = "ok"
      BY <1>1 DEF Answered, Call
    <3>2. x \in Call
      <4>1. c.of \in Nat /\ Len(reports) + 1 \in Nat /\ c.op \in Ops /\ c.by \in Callers
        BY <1>1, ReportsLen DEF Call, KioskInv
      <4>2. x.of \in Nat /\ x.sees \in BOOLEAN
        BY <1>1, <4>1 DEF Answered, Call
      <4> QED
        BY <1>1, <4>1, <4>2 DEF Answered, Call
    <3> QED
      BY <3>1, <3>2
  <2> HIDE DEF x
  <2> QED
    BY <2>1, <2>2 DEF Served
<1>3. ASSUME Refuses(i) PROVE Served(i, "failed")
  <2> DEFINE x == [c EXCEPT !.at = "failed"]
  <2>1. /\ c.at = "sent"
        /\ calls' = IF Silent(c) THEN RemoveAt(calls, i) ELSE [calls EXCEPT ![i] = x]
    BY <1>3 DEF Refuses
  <2>2. x.op = c.op /\ x.by = c.by /\ x.signed = c.signed /\ x.at = "failed" /\ x \in Call
    <3> HIDE DEF c
    <3> QED
      BY <1>1 DEF Call
  <2> HIDE DEF x
  <2> QED
    BY <2>1, <2>2 DEF Served
<1> QED
  BY <1>2, <1>3

\* What a served call leaves under way.
LEMMA ServedLeaves ==
  ASSUME KioskInv, NEW i \in DOMAIN calls, NEW at \in {"ok", "failed"}, Served(i, at)
  PROVE  /\ calls' \in Seq(Call) /\ By(calls') \subseteq By(calls)
         /\ \A B : Once(calls, B) => Once(calls', B)
         /\ Ordered(calls) => Ordered(calls')
         /\ \A d \in ToSet(calls') :
              \/ d \in ToSet(calls)
              \/ /\ d.op = calls[i].op /\ d.by = calls[i].by /\ d.signed = calls[i].signed
                 /\ d.at = at /\ ~Silent(calls[i])
         /\ \A d \in ToSet(calls) : d \in ToSet(calls') \/ d = calls[i]
         /\ calls[i] \in ToSet(calls)
         /\ ~Silent(calls[i]) => \E d \in ToSet(calls') : d.op = calls[i].op /\ d.at = at
<1>1. calls \in Seq(Call)
  BY CallsFacts
<1>2. CASE Silent(calls[i]) /\ calls' = RemoveAt(calls, i)
  BY <1>1, <1>2, TakenFacts
<1>3. CASE ~Silent(calls[i])
  <2>1. PICK x \in Call : /\ x.op = calls[i].op /\ x.by = calls[i].by
                          /\ x.signed = calls[i].signed /\ x.at = at
                          /\ calls' = [calls EXCEPT ![i] = x]
    BY <1>3 DEF Served
  <2> DEFINE r == [calls EXCEPT ![i] = x]
  <2>2. r \in Seq(Call)
    BY <1>1, ReplaceSet
  <2>3. /\ \A B : Once(calls, B) => Once(r, B)
        /\ Ordered(calls) => Ordered(r)
        /\ By(r) \subseteq By(calls) /\ ToSet(r) \subseteq ToSet(calls) \cup {x}
        /\ ToSet(calls) \subseteq ToSet(r) \cup {calls[i]}
        /\ x \in ToSet(r) /\ calls[i] \in ToSet(calls)
    BY <1>1, <2>1, ReplacedFacts
  <2>4. calls' = r
    BY <2>1
  <2> HIDE DEF r
  <2> QED
    BY <1>3, <2>1, <2>2, <2>3, <2>4
<1> QED
  BY <1>2, <1>3 DEF Served

LEMMA ServerWaits ==
  ASSUME KioskInv, WaitInv, going = "nowhere", ServerStep
  PROVE  WaitInv'
<1>1. /\ UNCHANGED <<sr, modal, ask, val, page, going, goal, skip, gate, last>>
      /\ user' = user
  BY DEF ServerStep, page_, shell, Lands, Refuses, ProgramBegins, NextSegment, ProgramEnds,
         ClosedElsewhere
<1>2. /\ By(calls') \subseteq By(calls)
      /\ \A B : Once(calls, B) => Once(calls', B)
      /\ \A d \in ToSet(calls') : \E c \in ToSet(calls) :
           d.op = c.op /\ d.by = c.by /\ d.signed = c.signed
  <2>1. CASE \E i \in DOMAIN calls : Lands(i) \/ Refuses(i)
    <3>1. PICK i \in DOMAIN calls, at \in {"ok", "failed"} : Served(i, at)
      BY <2>1, ServedCall
    <3> QED
      BY <3>1, ServedLeaves
  <2>2. CASE ProgramBegins \/ NextSegment \/ ProgramEnds \/ ClosedElsewhere
    BY <2>2 DEF ProgramBegins, NextSegment, ProgramEnds, ClosedElsewhere
  <2> QED
    BY <2>1, <2>2 DEF ServerStep
<1>3. PageInv'
  BY <1>1 DEF WaitInv, PageInv, ValidationActive
<1>4. AskInv' /\ FreshInv' /\ BeforeInv'
  BY <1>1, <1>2 DEF WaitInv, AskInv, FreshInv, BeforeInv
<1>5. Starting' => Starting
  BY <1>2 DEF Starting
<1>6. StartInv' /\ OutInv'
  BY <1>1, <1>2, <1>5 DEF WaitInv, StartInv, OutInv
<1> QED
  BY <1>3, <1>4, <1>6 DEF WaitInv

----------------------------------------------------------------------------
(***************************************************************************)
(* The invariant of the waiting user                                       *)
(***************************************************************************)
LEMMA WaitInit == Init => WaitInv
<1> SUFFICES ASSUME Init PROVE WaitInv
  OBVIOUS
<1>1. /\ calls = <<>> /\ user = FALSE /\ sr = Blank(None, TRUE) /\ modal = "none" /\ ask = "none"
      /\ val = Ready(None) /\ page = "home" /\ going = "nowhere" /\ goal = "home" /\ skip = {}
  BY DEF Init, ServerInit, TestPageInit, ValidationInit
<1>2. /\ ToSet(calls) = {} /\ By(calls) = {} /\ \A B : Once(calls, B)
  BY <1>1 DEF ToSet, By, Once
<1>3. /\ ~sr.poll /\ ~sr.done /\ sr.wizard = "none"
      /\ ~val.running /\ ~val.awaiting
  BY <1>1 DEF Blank, Ready
<1> QED
  BY <1>1, <1>2, <1>3
  DEF WaitInv, PageInv, AskInv, FreshInv, BeforeInv, StartInv, OutInv, ValidationActive, Starting

\* A user who goes on waiting presses when nothing is under way, and who has
\* once been hasty is so for good.
LEMMA WaitingPress ==
  ASSUME KioskInv, Press, haste' = 0
  PROVE  Idle /\ Presses /\ haste' \in 0 .. MaxHaste
<1>1. haste \in Nat /\ MaxHaste \in Nat
  BY KioskAssumption DEF KioskInv, ShellPart
<1> QED
  BY <1>1 DEF Press, Idle

LEMMA HasteGrows ==
  ASSUME KioskInv, Next, haste' = 0
  PROVE  Waited
<1>1. haste \in Nat
  BY KioskAssumption DEF KioskInv, ShellPart
<1>2. haste' = haste \/ haste' = haste + 1
  BY DEF Next, Press
<1> QED
  BY <1>1, <1>2 DEF Waited

LEMMA WaitStep ==
  ASSUME KioskInv, Waited => WaitInv, Next
  PROVE  Waited' => WaitInv'
<1> SUFFICES ASSUME haste' = 0 PROVE WaitInv'
  BY DEF Waited
<1> WaitInv
  BY HasteGrows
<1>1. CASE GoToPage /\ UNCHANGED haste
  BY <1>1, GoToPageWaits
<1>2. CASE going = "nowhere" /\ Press
  BY <1>2, WaitingPress, PressWaits
<1>3. CASE going = "nowhere" /\ Timers /\ UNCHANGED haste
  BY <1>3, TickWaits, ValidationTimerWaits, AutoLogoutWaits, ApprovalPollWaits DEF Timers
<1>4. CASE going = "nowhere" /\ ServerStep
  BY <1>4, ServerWaits
<1>5. CASE going = "nowhere" /\ (\E i \in DOMAIN calls : Answer(i)) /\ UNCHANGED haste
  BY <1>5, AnswerWaits
<1> QED
  BY <1>1, <1>2, <1>3, <1>4, <1>5 DEF Next

LEMMA WaitStutter == WaitInv /\ UNCHANGED vars => WaitInv'
BY DEF vars, server, page_, shell, WaitInv, PageInv, AskInv, FreshInv, BeforeInv, StartInv,
       OutInv, ValidationActive, Starting

LEMMA WaitAlways == Spec => [](Waited => WaitInv)
<1>1. KioskInv /\ (Waited => WaitInv) /\ [Next]_vars => (Waited' => WaitInv')
  BY WaitStep, WaitStutter DEF vars, Waited
<1> QED
  BY <1>1, WaitInit, KioskAlways, PTL DEF Spec
----------------------------------------------------------------------------
(***************************************************************************)
(* The load of a validation                                                *)
(***************************************************************************)
\* A step of the page takes answers only, and ends no validation without
\* switching it off.
LEMMA PageLoad ==
  ASSUME LoadInv, UNCHANGED <<load, fails>>, Ordered(calls'),
         \A d \in ToSet(calls') : d \in ToSet(calls) \/ d.at = "sent",
         \A c \in ToSet(calls) : \/ c \in ToSet(calls')
                                 \/ c.at # "sent" /\ (c.op = "start" /\ c.at = "ok" => val'.running),
         val.running => val'.running \/ Stopping',
         user' \/ ~On
  PROVE  LoadInv'
<1>1. On' <=> On
  BY DEF On
<1>2. (Stopping => Stopping') /\ (Begun => Begun' \/ val'.running)
  BY DEF Stopping, Begun
<1> QED
  BY <1>1, <1>2 DEF LoadInv

\* A step that takes no answer.
LEMMA SentLoad ==
  ASSUME KioskInv, LoadInv, UNCHANGED <<load, fails>>,
         NEW ops, NEW callers, Sends(calls, ops, callers),
         "stop" \notin ops \/ ("ensure" \notin ops /\ \A c \in ToSet(calls) : c.op # "ensure"),
         val.running => val'.running \/ Stopping',
         user' = user \/ user'
  PROVE  LoadInv'
<1>1. /\ calls \in Seq(Call) /\ ToSet(calls) \subseteq ToSet(calls')
      /\ \A d \in ToSet(calls') : d \in ToSet(calls) \/ d \in New
  BY SentFacts, CallsFacts
<1>2. Ordered(calls')
  BY <1>1, SentOrdered DEF LoadInv
<1>3. \A d \in ToSet(calls') : d \in ToSet(calls) \/ d.at = "sent"
  BY <1>1 DEF New
<1>4. user' \/ ~On
  BY DEF LoadInv
<1> QED
  BY <1>1, <1>2, <1>3, <1>4, PageLoad

LEMMA StopSent ==
  ASSUME NEW rest \in Seq(Call), NEW of \in Nat, NEW by \in {"none", "byeTest"}
  PROVE  /\ calls' = Append(rest, Request("stop", of, by)) => Stopping'
         /\ \A y \in Call : calls' = Append(Append(rest, Request("stop", of, by)), y) => Stopping'
<1> DEFINE x == Request("stop", of, by)
<1>1. x \in Call /\ x.op = "stop" /\ x.at = "sent"
  <2>1. x \in New
    BY NewRequests
  <2> QED
    BY <2>1, NewCall, RequestFields
<1> HIDE DEF x
<1>2. Append(rest, x) \in Seq(Call) /\ x \in ToSet(Append(rest, x))
  BY <1>1, AppendFacts
<1>3. ASSUME NEW y \in Call PROVE x \in ToSet(Append(Append(rest, x), y))
  <2> DEFINE a == Append(rest, x)
  <2>1. a \in Seq(Call) /\ x \in ToSet(a)
    BY <1>2
  <2> HIDE DEF a
  <2>2. ToSet(Append(a, y)) = ToSet(a) \cup {y}
    BY <2>1, AppendFacts
  <2> QED
    BY <2>1, <2>2 DEF a
<1>4. calls' = Append(rest, x) => Stopping'
  BY <1>1, <1>2 DEF Stopping
<1>5. \A y \in Call : calls' = Append(Append(rest, x), y) => Stopping'
  BY <1>1, <1>3 DEF Stopping
<1> QED
  BY <1>4, <1>5 DEF x

\* A validation that is ended is switched off.
LEMMA StopsStops ==
  ASSUME KioskInv, NEW rest \in Seq(Call)
  PROVE  /\ \A aborted \in BOOLEAN : StopsValidation(aborted, rest) => Stopping'
         /\ AbortsValidation("byeTest") => Stopping'
<1>1. val \in Val /\ val.run \in Nat /\ val.run \in Runs \cup {None} /\ calls \in Seq(Call)
  BY ValFields DEF KioskInv, PagePart, ValidationTypes, CallsPart
<1>2. ASSUME NEW aborted \in BOOLEAN, StopsValidation(aborted, rest) PROVE Stopping'
  <2> DEFINE over == [val EXCEPT !.running = FALSE, !.aborted = aborted, !.poll = FALSE,
                                 !.enabled = FALSE]
             y == PostReport(over.run, "val", over.aborted)
  <2>1. \/ calls' = Append(rest, Request("stop", val.run, "none"))
        \/ calls' = Append(Append(rest, Request("stop", val.run, "none")), y)
    BY <1>2 DEF StopsValidation, SavesValidation
  <2>2. y \in Call
    <3>1. over.run \in Runs \cup {None} /\ over.aborted \in BOOLEAN
      BY <1>1 DEF Val
    <3> HIDE DEF over
    <3> QED
      BY <3>1, NewRunRequests, NewCall DEF Callers
  <2> HIDE DEF y
  <2> QED
    BY <1>1, <2>1, <2>2, StopSent
<1>3. ASSUME AbortsValidation("byeTest") PROVE Stopping'
  BY <1>1, <1>3, StopSent DEF AbortsValidation
<1> QED
  BY <1>2, <1>3

LEMMA LogsOutLoad ==
  ASSUME KioskInv, LoadInv, Idle, LogsOut, UNCHANGED <<server, user>>
  PROVE  LoadInv'
<1>1. calls \in Seq(Call) /\ UNCHANGED <<load, fails>> /\ \A c \in ToSet(calls) : c.op # "ensure"
  BY DEF KioskInv, CallsPart, server, Idle, ToSet
<1>2. CASE AbortsValidation("byeTest")
  <2>1. Sends(calls, {"stop"}, {"byeTest"})
    BY <1>2, AbortsValidationFacts DEF KioskInv
  <2>2. Stopping' /\ "ensure" \notin {"stop"}
    BY <1>1, <1>2, StopsStops
  <2> QED
    BY <1>1, <2>1, <2>2, SentLoad
<1>3. CASE ~ValidationActive /\ (AbortsNow(calls) \/ calls' = Append(calls, Request("ensure", None, "bye")))
  <2>1. Sends(calls, {"abort", "report", "ensure"}, {"bye"})
    <3>1. CASE AbortsNow(calls)
      BY <1>1, <3>1, AbortsNowFacts DEF KioskInv
    <3>2. CASE calls' = Append(calls, Request("ensure", None, "bye"))
      <4>1. Request("ensure", None, "bye") \in New
        BY NewRequests
      <4> QED
        BY <1>1, <3>2, <4>1, SendRequest
    <3> QED
      BY <1>3, <3>1, <3>2
  <2>2. ~val.running /\ "stop" \notin {"abort", "report", "ensure"}
    BY <1>3 DEF ValidationActive
  <2> QED
    BY <1>1, <2>1, <2>2, SentLoad
<1> QED
  BY <1>2, <1>3 DEF LogsOut

LEMMA PressLoads ==
  ASSUME KioskInv, WaitInv, LoadInv, Idle, going = "nowhere", Presses, haste' \in 0 .. MaxHaste
  PROVE  LoadInv'
<1>1. /\ calls \in Seq(Call) /\ \A c \in ToSet(calls) : c.op # "ensure"
      /\ UNCHANGED server => UNCHANGED <<load, fails>>
  BY DEF KioskInv, CallsPart, server, Idle, ToSet
<1>2. ASSUME NEW ops, NEW callers, Sends(calls, ops, callers), "stop" \notin ops,
             UNCHANGED <<load, fails, user>>, val.running => val'.running
      PROVE  LoadInv'
  BY <1>2, SentLoad
<1>3. CASE OnTestPage
  <2>1. Sends(calls, TestPageOps, TestPageCallers) /\ "stop" \notin TestPageOps
    BY <1>3, OnTestPageStep DEF TestPageOps
  <2> QED
    BY <1>1, <1>2, <1>3, <2>1 DEF OnTestPage
<1>4. CASE OnValidationPage
  <2>1. Sends(calls, {"start", "report"}, {"val"}) /\ "stop" \notin {"start", "report"}
    BY <1>4, OnValidationPageStep
  <2>2. val \in Val /\ UNCHANGED <<server, user>>
    BY <1>4 DEF KioskInv, PagePart, ValidationTypes, OnValidationPage
  <2>3. val.running => val'.running
    BY <1>4, <2>2 DEF OnValidationPage, PressValidate, PressAbort, SubmitAmplitude, SavesValidation, Val
  <2> QED
    BY <1>1, <1>2, <2>1, <2>2, <2>3
<1>5. CASE BackFromValidation \/ LoadRecipe \/ OpenValidation \/ Navigate \/ PressCancel
  <2>1. UNCHANGED <<server, calls, user>>
    BY <1>5 DEF BackFromValidation, LoadRecipe, OpenValidation, Navigate, PressCancel
  <2>2. val.running => val' = val
    <3>1. CASE OpenValidation
      BY <3>1 DEF OpenValidation, Free, WaitInv, PageInv, ValidationActive
    <3>2. CASE BackFromValidation \/ LoadRecipe \/ Navigate \/ PressCancel
      BY <3>2 DEF BackFromValidation, LoadRecipe, Navigate, PressCancel
    <3> QED
      BY <1>5, <3>1, <3>2
  <2>3. Sends(calls, {}, {})
    BY <1>1, <2>1, SendNone
  <2> QED
    BY <1>1, <1>2, <2>1, <2>2, <2>3
<1>6. CASE OpenReport
  <2>1. Sends(calls, {"preview"}, {"open"}) /\ "stop" \notin {"preview"}
    BY <1>6, OpenReportStep
  <2> QED
    BY <1>1, <1>2, <1>6, <2>1 DEF OpenReport
<1>7. CASE Login
  <2>1. load' \in {None, load} /\ user' = TRUE /\ ~On
    BY <1>7 DEF Login, LoadInv
  <2>2. PICK new \in SUBSET {c \in Call : c.op = "preview" /\ c.at = "sent"} :
          \/ calls' = calls /\ new = {}
          \/ \E c \in new : calls' = Append(calls, c)
    <3>1. CASE calls' = calls
      BY <3>1
    <3>2. CASE \E c \in Fit(Len(reports)) : c.op = "preview" /\ c.at = "sent" /\ calls' = Append(calls, c)
      <4>1. PICK c \in Fit(Len(reports)) : c.op = "preview" /\ c.at = "sent" /\ calls' = Append(calls, c)
        BY <3>2
      <4>2. c \in Call /\ {c} \in SUBSET {d \in Call : d.op = "preview" /\ d.at = "sent"}
        BY <4>1 DEF Fit
      <4> QED
        BY <4>1, <4>2
    <3> QED
      BY <1>7, <3>1, <3>2, LoginStep
  <2>3. /\ \A d \in ToSet(calls') : d.at = "sent" /\ d.op = "preview"
        /\ calls = <<>>
    <3>1. ToSet(calls) = {} /\ calls = <<>>
      BY DEF Idle, ToSet
    <3>2. \A c \in new : ToSet(Append(calls, c)) = ToSet(calls) \cup {c}
      BY <1>1, AppendFacts
    <3> QED
      BY <2>2, <3>1, <3>2
  <2>4. Ordered(calls') /\ ToSet(calls) = {}
    BY <2>3 DEF Ordered, ToSet
  <2>5. ~On'
    BY <2>1, ServerAssumption DEF On, None, Validations
  <2> QED
    BY <2>4, <2>5 DEF LoadInv
<1>8. CASE PressLogout
  <2>1. UNCHANGED <<server, user>>
    BY <1>8 DEF PressLogout
  <2>2. CASE LogsOut
    BY <2>1, <2>2, LogsOutLoad
  <2>3. CASE gate # None /\ ~ValidationActive
    <3>1. Sends(calls, {"preview"}, {"open"}) /\ "stop" \notin {"preview"}
      BY <1>8, <2>3, PressLogoutStep
    <3>2. ~val.running
      BY <2>3 DEF ValidationActive
    <3> QED
      BY <1>1, <1>2, <2>1, <3>1, <3>2
  <2>4. CASE UNCHANGED <<calls, val>>
    <3>1. Sends(calls, {}, {})
      BY <1>1, <2>4, SendNone
    <3> QED
      BY <1>1, <1>2, <2>1, <2>4, <3>1
  <2> QED
    BY <1>8, <2>2, <2>3, <2>4 DEF PressLogout
<1>9. CASE PressOk
  <2>1. UNCHANGED <<server, user>>
    BY <1>9 DEF PressOk
  <2>2. CASE LogsOut
    BY <2>1, <2>2, LogsOutLoad
  <2>3. CASE StopsValidation(TRUE, calls)
    <3>1. StopsValidation(TRUE, calls) /\ TRUE \in BOOLEAN
      BY <2>3
    <3>2. Sends(calls, {"stop", "report"}, {"none", "val"}) /\ Stopping'
      BY <1>1, <3>1, StopsValidationFacts, StopsStops DEF KioskInv
    <3>3. "ensure" \notin {"stop", "report"}
      OBVIOUS
    <3> QED
      BY <1>1, <2>1, <3>2, <3>3, SentLoad
  <2>4. CASE /\ val' = val
             /\ calls' = Append(calls, Request("abort", sr.test,
                                               IF ask = "stop" THEN "stop" ELSE "leave"))
    <3> DEFINE by == IF ask = "stop" THEN "stop" ELSE "leave"
    <3>1. by \in {"stop", "leave", "bye"} /\ calls' = Append(calls, Request("abort", sr.test, by))
      BY <2>4
    <3> HIDE DEF by
    <3>2. sr.test \in Nat
      BY SrFields DEF KioskInv, PagePart, TestPageTypes
    <3>3. Request("abort", sr.test, by) \in New
      BY <3>1, <3>2, NewRequests
    <3>4. Sends(calls, {"abort"}, {by}) /\ "stop" \notin {"abort"}
      BY <1>1, <3>1, <3>3, SendRequest
    <3> QED
      BY <1>1, <1>2, <2>1, <2>4, <3>4
  <2>5. CASE UNCHANGED <<calls, val>>
    <3>1. Sends(calls, {}, {})
      BY <1>1, <2>5, SendNone
    <3> QED
      BY <1>1, <1>2, <2>1, <2>5, <3>1
  <2> QED
    BY <1>9, <2>2, <2>3, <2>4, <2>5 DEF PressOk, Yes
<1>10. CASE PressChoice
  <2>1. Sends(calls, {"put", "report"}, {"none", "submit"}) /\ "stop" \notin {"put", "report"}
    BY <1>10, PressChoiceStep
  <2> QED
    BY <1>1, <1>2, <1>10, <2>1 DEF PressChoice
<1>11. CASE Approve
  <2>1. /\ Sends(calls, {"delete", "preview"}, {"none", "open"}) /\ UNCHANGED <<load, fails, user, val>>
        /\ "stop" \notin {"delete", "preview"}
    BY <1>11, ApproveStep DEF Approve
  <2> QED
    BY <1>2, <2>1
<1> QED
  BY <1>3, <1>4, <1>5, <1>6, <1>7, <1>8, <1>9, <1>10, <1>11 DEF Presses
LEMMA TimerLoads ==
  ASSUME KioskInv, WaitInv, LoadInv, going = "nowhere", Timers, haste' = haste
  PROVE  LoadInv'
<1>1. UNCHANGED server => UNCHANGED <<load, fails>>
  BY DEF server
<1>2. CASE Tick /\ UNCHANGED <<server, user, val>> /\ Stays
  <2>1. Sends(calls, {"live", "put"}, {"tick", "none"}) /\ "stop" \notin {"live", "put"}
    BY <1>2, TickFacts DEF KioskInv
  <2> QED
    BY <1>1, <1>2, <2>1, SentLoad
<1>3. CASE ValidationTick /\ UNCHANGED <<server, user, sr>>
  <2> DEFINE put == Request("put", val.run, "none")
  <2>1. put \in New
    BY ValFields, NewRunRequests DEF KioskInv, PagePart, ValidationTypes
  <2>2. Sends(calls, {"put"}, {"none"}) /\ "stop" \notin {"put"}
    BY <1>3, <2>1, CallsFacts, SendRequest DEF ValidationTick
  <2>3. val' = val
    BY <1>3 DEF ValidationTick
  <2> QED
    BY <1>1, <1>3, <2>2, <2>3, SentLoad
<1>4. CASE ValidationOver /\ UNCHANGED <<server, user, sr>>
  <2>1. Sends(calls, {"put", "stop", "report"}, {"none", "val"})
    BY <1>4, ValidationTimerFacts DEF KioskInv
  <2>2. \A c \in ToSet(calls) : c.op # "ensure"
    BY <1>4, CallsFacts DEF ValidationOver, WaitInv, OutInv
  <2>3. Stopping'
    <3> DEFINE put == Request("put", val.run, "none")
    <3>1. StopsValidation(FALSE, Append(calls, put)) /\ FALSE \in BOOLEAN
      BY <1>4 DEF ValidationOver
    <3>2. put \in Call
      BY ValFields, NewRunRequests, NewCall DEF KioskInv, PagePart, ValidationTypes
    <3> HIDE DEF put
    <3>3. Append(calls, put) \in Seq(Call)
      BY <3>2, CallsFacts
    <3> QED
      BY <3>1, <3>3, StopsStops
  <2>4. "ensure" \notin {"put", "stop", "report"}
    OBVIOUS
  <2> QED
    BY <1>1, <1>4, <2>1, <2>2, <2>3, <2>4, SentLoad
<1>5. CASE AutoLogoutTick
  <2>1. /\ Sends(calls, {"ensure"}, {"idle"}) /\ "stop" \notin {"ensure"}
        /\ UNCHANGED <<server, user, val>>
    BY <1>5, AutoLogoutTickStep DEF AutoLogoutTick
  <2> QED
    BY <1>1, <2>1, SentLoad
<1>6. CASE ApprovalPoll
  <2>1. /\ Sends(calls, {"delete", "preview"}, {"none", "open"}) /\ "stop" \notin {"delete", "preview"}
        /\ UNCHANGED <<server, user, val>>
    BY <1>6, ApprovalPollStep DEF ApprovalPoll
  <2> QED
    BY <1>1, <2>1, SentLoad
<1> QED
  BY <1>2, <1>3, <1>4, <1>5, <1>6 DEF Timers

\* A handler that takes the answer c.
LEMMA AnswerLoad ==
  ASSUME KioskInv, WaitInv, LoadInv, NEW c, NEW rest, Taken(c, rest), UNCHANGED server,
         NEW ops, NEW callers, Sends(rest, ops, callers), "stop" \notin ops,
         c.op = "start" /\ c.at = "ok" => val'.running, val.running => val'.running,
         user' = user \/ ~On
  PROVE  LoadInv'
<1>1. UNCHANGED <<load, fails>>
  BY DEF server
<1>2. PICK i \in DOMAIN calls : c = calls[i] /\ rest = RemoveAt(calls, i)
  BY DEF Taken
<1>3. /\ rest \in Seq(Call) /\ ToSet(rest) \subseteq ToSet(calls) /\ Ordered(rest)
      /\ ToSet(calls) \subseteq ToSet(rest) \cup {c}
  BY <1>2, CallsFacts, TakenFacts DEF LoadInv
<1>4. /\ ToSet(rest) \subseteq ToSet(calls')
      /\ \A d \in ToSet(calls') : d \in ToSet(rest) \/ d \in New
      /\ Ordered(calls')
  BY <1>3, SentFacts, SentOrdered
<1>5. \A d \in ToSet(calls') : d \in ToSet(calls) \/ d.at = "sent"
  BY <1>3, <1>4 DEF New
<1>6. \A d \in ToSet(calls) : d \in ToSet(calls') \/ d = c
  BY <1>3, <1>4
<1>7. user' \/ ~On
  BY DEF LoadInv
<1> QED
  BY <1>1, <1>4, <1>5, <1>6, <1>7, PageLoad DEF Taken

LEMMA AnswerLoads ==
  ASSUME KioskInv, WaitInv, LoadInv, going = "nowhere", NEW i \in DOMAIN calls, Answer(i),
         haste' = haste
  PROVE  LoadInv'
<1> DEFINE c == calls[i]
           rest == RemoveAt(calls, i)
<1>1. Taken(c, rest) /\ UNCHANGED server
  BY DEF Answer, Taken
<1>2. \/ /\ \/ RunAnswered(c, rest) \/ PollAnswered(c, rest)
            \/ CompleteAnswered(c, rest) \/ StopAnswered(c, rest)
         /\ UNCHANGED <<user, val>> /\ Stays
      \/ LeaveAnswered(c, rest) /\ UNCHANGED <<user, val>>
      \/ StartAnswered(c, rest) /\ UNCHANGED <<user, sr>> /\ Stays
      \/ SaveAnswered(c, rest) /\ UNCHANGED <<user, sr, val>> /\ Stays
      \/ /\ GoodbyeValidation(c, rest) \/ Goodbye(c, rest)
         /\ UNCHANGED <<val, page, going, goal, skip, last>>
      \/ /\ PreviewAnswered(c, rest)
         /\ UNCHANGED <<user, sr, val, page, goal, skip>>
  BY DEF Answer
<1> HIDE DEF c, rest
<1>3. /\ rest \in Seq(Call) /\ ToSet(rest) \subseteq ToSet(calls) /\ c \in Fit(Len(reports))
      /\ c \in Call /\ c \in ToSet(calls)
      /\ c.op = "start" => c.by = "val"
  BY <1>1, TakenWaits, CallsFacts
<1>4. CASE \/ /\ \/ RunAnswered(c, rest) \/ PollAnswered(c, rest)
                 \/ CompleteAnswered(c, rest) \/ StopAnswered(c, rest)
              /\ UNCHANGED <<user, val>> /\ Stays
           \/ LeaveAnswered(c, rest) /\ UNCHANGED <<user, val>>
  <2> DEFINE ops == {"put", "delete", "report", "live"}
             callers == {"none", "submit", "complete"}
  <2>1. Sends(rest, ops, callers) /\ "stop" \notin ops
    BY <1>1, <1>3, <1>4, TestAnswerStep
  <2>2. UNCHANGED <<user, val>> /\ c.op # "start"
    BY <1>3, <1>4
    DEF RunAnswered, PollAnswered, CompleteAnswered, StopAnswered, LeaveAnswered
  <2> HIDE DEF ops, callers
  <2> QED
    BY <1>1, <2>1, <2>2, AnswerLoad
<1>5. CASE StartAnswered(c, rest) /\ UNCHANGED <<user, sr>> /\ Stays
  <2>1. Sends(rest, {"put"}, {"none"}) /\ "stop" \notin {"put"}
    BY <1>3, <1>5, StartAnsweredFacts DEF KioskInv
  <2>2. (c.at = "ok" => val'.running) /\ (val.running => val'.running)
    BY <1>3, <1>5 DEF StartAnswered, KioskInv, PagePart, ValidationTypes, Val
  <2> QED
    BY <1>1, <1>5, <2>1, <2>2, AnswerLoad
<1>6. CASE SaveAnswered(c, rest) /\ UNCHANGED <<user, sr, val>> /\ Stays
  <2>1. /\ Sends(rest, {"delete", "preview"}, {"submit", "val", "open"})
        /\ "stop" \notin {"delete", "preview"}
    BY <1>1, <1>3, <1>6, SaveAnswerStep
  <2>2. c.op # "start"
    BY <1>6 DEF SaveAnswered
  <2> QED
    BY <1>1, <1>6, <2>1, <2>2, AnswerLoad
<1>7. CASE /\ GoodbyeValidation(c, rest) \/ Goodbye(c, rest)
           /\ UNCHANGED <<val, page, going, goal, skip, last>>
  <2> DEFINE ops == {"report", "delete", "abort", "ensure"}
  <2>1. Sends(rest, ops, {"bye", "byeTest"}) /\ "stop" \notin ops
    BY <1>3, <1>7, GoodbyeFacts
  <2>2. c.op # "start"
    BY <1>3, <1>7 DEF GoodbyeValidation, Goodbye
  <2>3. user' = user \/ ~On
    <3>1. user' = user \/ c.op = "ensure"
      BY <1>7 DEF GoodbyeValidation, Goodbye
    <3>2. c.op = "ensure" => ~On
      BY <1>1, <1>3 DEF LoadInv, Taken
    <3> QED
      BY <3>1, <3>2
  <2> HIDE DEF ops
  <2> QED
    BY <1>1, <1>7, <2>1, <2>2, <2>3, AnswerLoad
<1>8. CASE /\ PreviewAnswered(c, rest)
           /\ UNCHANGED <<user, sr, val, page, goal, skip>>
  <2>1. Sends(rest, {"preview"}, {"open"}) /\ "stop" \notin {"preview"}
    BY <1>1, <1>3, <1>8, PreviewAnswerStep
  <2>2. c.op # "start"
    BY <1>8 DEF PreviewAnswered
  <2> QED
    BY <1>1, <1>8, <2>1, <2>2, AnswerLoad
<1> QED
  BY <1>2, <1>4, <1>5, <1>6, <1>7, <1>8
LEMMA NoOn ==
  /\ ~(None \in Validations)
  /\ load' \in Tests \cup {None} => ~On'
BY RunFacts DEF On, None

\* A call lands.
LEMMA LandsLoads ==
  ASSUME KioskInv, WaitInv, LoadInv, NEW i \in DOMAIN calls, Lands(i), UNCHANGED <<user, val>>
  PROVE  LoadInv'
<1> DEFINE c == calls[i]
<1>1. /\ Served(i, "ok") /\ c.signed /\ c.at = "sent" /\ fails' = fails
      /\ \/ LandsRun(c) \/ LandsAbort(c) \/ LandsComplete(c) \/ LandsStart(c)
         \/ LandsStop(c) \/ LandsCheckpoint(c) \/ LandsReport(c) \/ LandsRead(c)
  BY ServedCall DEF Lands
<1>2. /\ By(calls') \subseteq By(calls) /\ Ordered(calls') /\ c \in ToSet(calls)
      /\ \A d \in ToSet(calls') :
           \/ d \in ToSet(calls)
           \/ d.op = c.op /\ d.by = c.by /\ d.at = "ok" /\ ~Silent(c)
      /\ \A d \in ToSet(calls) : d \in ToSet(calls') \/ d = c
      /\ ~Silent(c) => \E d \in ToSet(calls') : d.op = c.op /\ d.at = "ok"
  <2>1. "ok" \in {"ok", "failed"} /\ Served(i, "ok") /\ Ordered(calls)
    BY <1>1 DEF LoadInv
  <2> QED
    BY <2>1, ServedLeaves
<1> HIDE DEF c
<1>3. /\ calls' \in Seq(Call) /\ c \in Fit(Len(reports))
  <2>1. "ok" \in {"ok", "failed"} /\ Served(i, "ok")
    BY <1>1
  <2> QED
    BY <1>2, <2>1, ServedLeaves, CallsFacts
<1>4. CASE load' = None
  BY <1>2, <1>4, NoOn DEF LoadInv
<1>5. CASE LandsStart(c)
  <2>1. c.op = "start" /\ c.by = "val"
    BY <1>3, <1>5 DEF LandsStart, Fit
  <2>2. Begun'
    BY <1>2, <2>1 DEF Begun, Silent
  <2>3. user /\ By(calls) \cap LogoutCallers = {}
    BY <1>2, <2>1 DEF WaitInv, OutInv, Starting
  <2>4. \A d \in ToSet(calls') : d.op # "ensure"
    BY <1>2, <2>1, <2>3, CallsFacts
  <2> QED
    BY <1>2, <2>2, <2>3, <2>4 DEF LoadInv
<1>6. CASE load' = load /\ c.op \notin {"start", "stop", "ensure"}
  <2>1. On' <=> On
    BY <1>6 DEF On
  <2>2. Stopping => Stopping'
    BY <1>2, <1>6 DEF Stopping
  <2>3. Begun => Begun'
    BY <1>1, <1>2 DEF Begun
  <2>4. \A d \in ToSet(calls') : d.op = "ensure" /\ d.at # "sent" => ~On
    BY <1>2, <1>6 DEF LoadInv
  <2> QED
    BY <1>1, <1>2, <2>1, <2>2, <2>3, <2>4 DEF LoadInv
<1> QED
  BY <1>1, <1>4, <1>5, <1>6
  DEF LandsRun, LandsAbort, LandsComplete, LandsStop, LandsCheckpoint, LandsReport, LandsRead

\* A call is refused.  When it is an ensure-stopped, the only refusal, then
\* no stop is on its way behind it.
LEMMA RefusesLoads ==
  ASSUME OneFails, KioskInv, WaitInv, LoadInv, NEW i \in DOMAIN calls, Refuses(i),
         UNCHANGED <<user, val>>
  PROVE  LoadInv'
<1> DEFINE c == calls[i]
<1>1. /\ Served(i, "failed") /\ c.at = "sent" /\ load' = load
      /\ InTurn(i)
      /\ IF ~c.signed \/ (c.op = "run" /\ prog # None) THEN fails' = fails
         ELSE fails < MaxFails /\ fails' = fails + 1
  BY ServedCall DEF Refuses, OneFails
<1>2. /\ By(calls') \subseteq By(calls) /\ Ordered(calls') /\ c \in ToSet(calls)
      /\ \A d \in ToSet(calls') :
           \/ d \in ToSet(calls)
           \/ d.op = c.op /\ d.by = c.by /\ d.at = "failed" /\ ~Silent(c)
      /\ \A d \in ToSet(calls) : d \in ToSet(calls') \/ d = c
  <2>1. "failed" \in {"ok", "failed"} /\ Served(i, "failed") /\ Ordered(calls)
    BY <1>1 DEF LoadInv
  <2> QED
    BY <2>1, ServedLeaves
<1>3. On' <=> On
  BY <1>1 DEF On
<1>4. fails \in Nat /\ MaxFails <= 1 /\ MaxFails \in Nat
  BY ServerAssumption DEF KioskInv, ServerPart, OneFails
<1>5. On => user /\ c.signed
  BY <1>2 DEF LoadInv, WaitInv, OutInv
<1>6. Begun => Begun'
  BY <1>1, <1>2 DEF Begun
<1>7. ASSUME On, Stopping, ~Stopping' PROVE fails' >= 1
  <2>1. c.op = "stop"
    BY <1>2, <1>7 DEF Stopping
  <2> HIDE DEF c
  <2> QED
    BY <1>1, <1>4, <1>5, <1>7, <2>1
<1>8. fails >= 1 => fails' >= 1
  <2> HIDE DEF c
  <2> QED
    BY <1>1, <1>4
<1>9. ASSUME On, c.op = "ensure" PROVE FALSE
  <2>1. fails = 0
    <3> HIDE DEF c
    <3> QED
      BY <1>1, <1>4, <1>5, <1>9
  <2>2. c.by \in LogoutCallers /\ c.by \in By(calls)
    BY <1>2, <1>9, CallsFacts
  <2>3. ~val.running /\ ~Starting
    BY <2>2 DEF WaitInv, OutInv
  <2>4. ~Begun
    BY <2>3 DEF Begun, Starting
  <2>5. Stopping
    BY <1>4, <1>9, <2>1, <2>3, <2>4 DEF LoadInv
  <2>6. PICK j \in DOMAIN calls : calls[j].op = "stop" /\ calls[j].at = "sent"
    BY <2>5 DEF Stopping, ToSet
  <2>7. i \in Nat \ {0} /\ j \in Nat \ {0}
    BY CallsFacts, LenProperties
  <2>8. ~(j < i)
    <3>1. j < i => j \in 1 .. i - 1
      BY <2>7
    <3> QED
      BY <1>1, <2>6, <3>1 DEF InTurn
  <2>9. i # j
    BY <1>9, <2>6
  <2>10. i < j
    BY <2>7, <2>8, <2>9
  <2> QED
    BY <1>9, <2>6, <2>10 DEF LoadInv, Ordered
<1>10. \A d \in ToSet(calls') : d.op = "ensure" /\ d.at # "sent" => ~On
  BY <1>2, <1>9 DEF LoadInv
<1>11. On' => val'.running \/ Stopping' \/ Begun' \/ fails' >= 1
  BY <1>3, <1>6, <1>7, <1>8 DEF LoadInv
<1>12. ~user' => ~On'
  BY <1>3 DEF LoadInv
<1> QED
  BY <1>2, <1>3, <1>10, <1>11, <1>12 DEF LoadInv

LEMMA ServerLoads ==
  ASSUME OneFails, KioskInv, WaitInv, LoadInv, ServerStep
  PROVE  LoadInv'
<1>1. UNCHANGED val
  BY DEF ServerStep
<1>2. CASE \E i \in DOMAIN calls : Lands(i) \/ Refuses(i)
  <2>1. PICK i \in DOMAIN calls : Lands(i) \/ Refuses(i)
    BY <1>2
  <2>2. user' = user
    BY <2>1 DEF Lands, Refuses
  <2> QED
    BY <1>1, <2>1, <2>2, LandsLoads, RefusesLoads
<1>3. CASE ProgramBegins \/ NextSegment \/ ProgramEnds \/ ClosedElsewhere
  <2>1. UNCHANGED <<calls, user, fails>> /\ (load' \in Tests \cup {None} \/ load' = load)
    BY <1>3 DEF ProgramBegins, NextSegment, ProgramEnds, ClosedElsewhere, KioskInv, ServerPart
  <2>2. CASE load' \in Tests \cup {None}
    BY <2>1, <2>2, NoOn DEF LoadInv
  <2>3. CASE load' = load
    BY <1>1, <2>1, <2>3 DEF LoadInv, On, Stopping, Begun
  <2> QED
    BY <2>1, <2>2, <2>3
<1> QED
  BY <1>2, <1>3 DEF ServerStep

LEMMA LoadInit == Init => LoadInv
<1> SUFFICES ASSUME Init PROVE LoadInv
  OBVIOUS
<1>1. load = None /\ calls = <<>>
  BY DEF Init, ServerInit
<1>2. ~On /\ ToSet(calls) = {} /\ Ordered(calls)
  BY <1>1, NoOn DEF On, ToSet, Ordered
<1> QED
  BY <1>2 DEF LoadInv

LEMMA LoadStep ==
  ASSUME OneFails, KioskInv, Waited => WaitInv /\ LoadInv, Next
  PROVE  Waited' => LoadInv'
<1> SUFFICES ASSUME haste' = 0 PROVE LoadInv'
  BY DEF Waited
<1> WaitInv /\ LoadInv
  BY HasteGrows
<1>1. CASE GoToPage /\ UNCHANGED haste
  <2>1. Sends(calls, {"preview"}, {"open"}) /\ "stop" \notin {"preview"}
    BY <1>1, GoToPageStep
  <2>2. UNCHANGED <<load, fails, user, val>>
    BY <1>1 DEF GoToPage, server
  <2> QED
    BY <2>1, <2>2, SentLoad
<1>2. CASE going = "nowhere" /\ Press
  BY <1>2, WaitingPress, PressLoads
<1>3. CASE going = "nowhere" /\ Timers /\ UNCHANGED haste
  BY <1>3, TimerLoads
<1>4. CASE ServerStep
  BY <1>4, ServerLoads
<1>5. CASE going = "nowhere" /\ (\E i \in DOMAIN calls : Answer(i)) /\ UNCHANGED haste
  BY <1>5, AnswerLoads
<1> QED
  BY <1>1, <1>2, <1>3, <1>4, <1>5 DEF Next

LEMMA LoadStutter == LoadInv /\ UNCHANGED vars => LoadInv'
BY DEF vars, server, LoadInv, On, Stopping, Begun

LEMMA LoadAlways ==
  ASSUME OneFails
  PROVE  Spec => [](Waited => LoadInv)
<1>1. /\ KioskInv /\ (Waited => WaitInv) /\ (Waited => LoadInv) /\ [Next]_vars
      => (Waited' => LoadInv')
  BY LoadStep, LoadStutter DEF vars, Waited
<1> QED
  BY <1>1, LoadInit, KioskAlways, WaitAlways, PTL DEF Spec

\* A validation has no program thread that ends it: doLogout, the automatic
\* logout, _stopShakerValidation and goBackFromValidationRun switch it off,
\* none of them looking at the answer.  When one request at most is refused,
\* requests land in the order of sending and the user has waited for the
\* answers, no way out of the validation leaves the load on under the login
\* screen.
THEOREM LoggedOutSafe ==
  ASSUME OneFails
  PROVE  Spec => [](haste = 0 => LoggedOutIsOff)
<1>1. ASSUME KioskInv, Waited => LoadInv PROVE haste = 0 => LoggedOutIsOff
  <2> SUFFICES ASSUME LoadInv PROVE LoggedOutIsOff
    BY <1>1 DEF Waited
  <2>1. load \in Tests \cup Validations \cup {None}
    BY <1>1 DEF KioskInv, ServerPart, Runs
  <2> QED
    BY <2>1 DEF LoadInv, On, LoggedOutIsOff
<1> QED
  BY <1>1, KioskAlways, LoadAlways, PTL

\* The same of a user who cannot be hasty, the situation of kiosk_faults.
COROLLARY LoggedOutAlways ==
  ASSUME OneFails, MaxHaste = 0
  PROVE  Spec => []LoggedOutIsOff
<1>1. KioskInv => haste = 0
  BY DEF KioskInv, ShellPart
<1> QED
  BY <1>1, KioskAlways, LoggedOutSafe, PTL
=============================================================================
