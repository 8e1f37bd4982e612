-------------------------- MODULE Accounts_proofs --------------------------
(***************************************************************************)
(* What the accounts keep, for any passwords, accounts and requests.  The  *)
(* types hold with any number of requests at once; the rest needs one      *)
(* request at a time (Serial), because an update saves the copy it read.   *)
(***************************************************************************)
EXTENDS Accounts, SequenceTheorems, TLAPS

Serial == \A t, u \in Threads : t = u

Bounded(r) == r \in Record /\ Len(r.history) <= HistoryLimit

-----------------------------------------------------------------------------
(* The record operators.                                                   *)

\* The history that is kept: one entry more, in front, and never too long.
LEMMA PushedHistory ==
    ASSUME NEW r \in Record
    PROVE  /\ Pushed(r) \in Seq(Passwords)
           /\ Len(Pushed(r)) <= HistoryLimit
           /\ Len(Pushed(r)) = IF Len(r.history) + 1 < HistoryLimit
                                 THEN Len(r.history) + 1 ELSE HistoryLimit
           /\ Pushed(r)[1] = r.password
           /\ \A i \in 2 .. Len(Pushed(r)) : Pushed(r)[i] = r.history[i - 1]
<1> DEFINE h == r.history
           s == <<r.password>> \o h
           n == IF Len(s) < HistoryLimit THEN Len(s) ELSE HistoryLimit
<1>1. /\ r.password \in Passwords /\ h \in Seq(Passwords) /\ Len(h) \in Nat
      /\ <<r.password>> \in Seq(Passwords) /\ Len(<<r.password>>) = 1
      /\ HistoryLimit \in Nat \ {0}
  BY HistoryLimitAssumption DEF Record
<1>2. /\ s \in Seq(Passwords) /\ Len(s) = 1 + Len(h)
      /\ \A i \in 1 .. Len(s) : s[i] = IF i <= 1 THEN <<r.password>>[i] ELSE h[i - 1]
  BY <1>1, ConcatProperties
<1>3. n \in 1 .. Len(s) /\ n <= HistoryLimit
  BY <1>1, <1>2
<1>4. Pushed(r) = SubSeq(s, 1, n)
  BY DEF Pushed, Newest
<1> HIDE DEF s, n
<1>5. /\ SubSeq(s, 1, n) \in Seq(Passwords)
      /\ Len(SubSeq(s, 1, n)) = n
      /\ \A i \in 1 .. n : SubSeq(s, 1, n)[i] = s[i]
  BY <1>2, <1>3, SubSeqProperties
<1>6. \A i \in 2 .. n : s[i] = h[i - 1]
  BY <1>2, <1>3
<1>7. s[1] = r.password
  BY <1>1, <1>2, <1>3
<1> QED
  BY <1>1, <1>2, <1>3, <1>4, <1>5, <1>6, <1>7 DEF n

\* A change of the password leaves a record whose history is not too long.
LEMMA ChangedBounded ==
    ASSUME NEW r \in Record, NEW p \in Passwords
    PROVE  Bounded(PasswordChanged(r, p))
<1>1. Pushed(r) \in Seq(Passwords) /\ Len(Pushed(r)) <= HistoryLimit
  BY PushedHistory
<1> QED
  BY <1>1 DEF PasswordChanged, Bounded, Record

\* Normalising changes nothing but the commitment.
LEMMA NormalisedFields ==
    ASSUME NEW r \in Record
    PROVE  /\ Normalised(r) \in Record
           /\ Normalised(r).status = r.status /\ Normalised(r).failed = r.failed
           /\ Normalised(r).must = r.must /\ Normalised(r).password = r.password
           /\ Normalised(r).history = r.history
  BY DEF Normalised, Record

\* Whatever an update makes of the copy it has read is a record again.
LEMMA UpdatedBounded ==
    ASSUME NEW update \in Updates, NEW copy, NEW stored,
           Bounded(copy), Bounded(stored),
           NEW new \in Passwords \cup {NoPassword},
           update \in {"reset", "set"} => new \in Passwords,
           NEW g \in SUBSET Grants
    PROVE  Bounded(Normalised(Updated(update, copy, stored, new, g)))
<1> DEFINE saved == Updated(update, copy, stored, new, g)
<1>1. copy \in Record /\ stored \in Record /\ copy.history \in Seq(Passwords)
      /\ copy.failed \in Nat
  BY DEF Bounded, Record
<1>2. CASE update \in {"reset", "set"}
  <2>1. Bounded(PasswordChanged(copy, new))
    BY <1>1, <1>2, ChangedBounded
  <2>2. saved \in {PasswordChanged(copy, new),
                   CommitmentCleared(PasswordChanged(copy, new))}
    BY <1>2 DEF Updated
  <2>3. Bounded(CommitmentCleared(PasswordChanged(copy, new)))
    BY <2>1 DEF Bounded, Record, CommitmentCleared
  <2> QED
    BY <2>1, <2>2, <2>3, NormalisedFields DEF Bounded
<1>3. CASE update = "edit"
  <2> DEFINE kept == [copy EXCEPT !.grants = g, !.password = stored.password,
                                  !.commitment = stored.commitment,
                                  !.history = stored.history]
  <2>1. Bounded(kept)
    BY <1>1 DEF Bounded, Record
  <2>2. saved = Edited(copy, stored, new, g)
    BY <1>3 DEF Updated
  <2> HIDE DEF kept
  <2>3. CASE new \in {NoPassword, stored.password}
    <3>1. saved = Normalised(kept)
      BY <2>2, <2>3 DEF Edited, kept
    <3> QED
      BY <2>1, <3>1, NormalisedFields DEF Bounded
  <2>4. CASE new \notin {NoPassword, stored.password}
    <3>1. saved = [PasswordChanged(kept, new) EXCEPT !.must = TRUE, !.commitment = new]
      BY <2>2, <2>4 DEF Edited, kept
    <3>2. Bounded(PasswordChanged(kept, new))
      BY <2>1, <2>4, ChangedBounded DEF Bounded
    <3>3. Bounded(saved)
      BY <3>1, <3>2, <2>4 DEF Bounded, Record
    <3> QED
      BY <3>3, NormalisedFields DEF Bounded
  <2> QED
    BY <2>3, <2>4
<1>4. CASE update \notin {"reset", "set", "edit"}
  <2>1. Bounded(saved)
    <3>1. CASE update = "failed"
      <4>1. saved = FailedLogin(copy)
        BY <3>1 DEF Updated
      <4>2. FailedLogin(copy) \in Record
        <5> DEFINE st == IF copy.failed + 1 >= MaxAttempts /\ copy.status = "active"
                           THEN "locked" ELSE copy.status
        <5>2. st \in Statuses /\ copy.failed + 1 \in Nat
          BY <1>1 DEF Record, Statuses
        <5>3. FailedLogin(copy) = [copy EXCEPT !.failed = copy.failed + 1, !.status = st]
          BY DEF FailedLogin
        <5> HIDE DEF st
        <5> QED
          BY <1>1, <5>2, <5>3 DEF Record
      <4>3. FailedLogin(copy).history = copy.history
        BY <1>1 DEF FailedLogin, Record
      <4> QED
        BY <4>1, <4>2, <4>3 DEF Bounded
    <3>2. CASE update = "succeeded"
      BY <3>2, <1>1 DEF Updated, SuccessfulLogin, Bounded, Record
    <3>3. CASE update = "clear"
      BY <3>3, <1>1 DEF Updated, CommitmentCleared, Bounded, Record
    <3>4. CASE update = "unlock"
      BY <3>4, <1>1 DEF Updated, Unlocked, Bounded, Record, Statuses
    <3>5. CASE update = "disable"
      BY <3>5, <1>1 DEF Updated, Disabled, Bounded, Record, Statuses
    <3>6. CASE update = "enable"
      BY <3>6, <1>1 DEF Updated, Enabled, Bounded, Record, Statuses
    <3>7. CASE update = "unlink"
      BY <3>7, <1>1 DEF Updated, FingerCleared, Bounded, Record
    <3> QED
      BY <1>4, <3>1, <3>2, <3>3, <3>4, <3>5, <3>6, <3>7 DEF Updates
  <2> QED
    BY <2>1, NormalisedFields DEF Bounded
<1> QED
  BY <1>2, <1>3, <1>4

-----------------------------------------------------------------------------
(* Requests.                                                               *)

\* a route that sets a password names it, and one that clears the commitment
\* has set the password just before
Shaped(todo, new) ==
    /\ todo \in Seq(Updates)
    /\ \A i \in 1 .. Len(todo) :
         /\ todo[i] \in {"reset", "set"} => new \in Passwords
         /\ todo[i] = "clear" => i > 1 /\ todo[i - 1] = "set"

\* What somebody presses changes the session or starts one of the routes.
LEMMA PressShape ==
    ASSUME AccountPress, session \in Members \cup {Factory, Nobody}
    PROVE  \/ /\ session' \in Members \cup {Factory, Nobody}
              /\ UNCHANGED <<member, request, strikes, used, chosen>>
           \/ \E t \in Threads, m \in Members, todo \in Seq(Updates),
                 new \in Passwords \cup {NoPassword}, logsIn \in BOOLEAN, call \in Calls :
                /\ Shaped(todo, new)
                /\ Starts(t, call, m, todo, new, logsIn)
<1> DEFINE P == \E t \in Threads, m \in Members, todo \in Seq(Updates),
                   new \in Passwords \cup {NoPassword}, logsIn \in BOOLEAN, call \in Calls :
                  /\ Shaped(todo, new)
                  /\ Starts(t, call, m, todo, new, logsIn)
<1>0. ASSUME NEW t \in Threads, NEW m \in Members, NEW todo \in Seq(Updates),
             NEW new \in Passwords \cup {NoPassword}, NEW logsIn \in BOOLEAN, NEW call,
             Shaped(todo, new), Starts(t, call, m, todo, new, logsIn)
      PROVE  P
  <2>1. call \in Calls
    BY <1>0 DEF Starts
  <2> QED
    BY <1>0, <2>1
<1>1. ASSUME NEW u \in Updates \ {"reset", "set", "clear"}, NEW new \in Passwords \cup {NoPassword}
      PROVE  <<u>> \in Seq(Updates) /\ Shaped(<<u>>, new)
  BY <1>1 DEF Shaped
<1>2. ASSUME NEW p \in Passwords
      PROVE  /\ <<"reset", "succeeded">> \in Seq(Updates) /\ Shaped(<<"reset", "succeeded">>, p)
             /\ <<"set", "clear", "succeeded">> \in Seq(Updates)
             /\ Shaped(<<"set", "clear", "succeeded">>, p)
             /\ <<"set", "clear">> \in Seq(Updates) /\ Shaped(<<"set", "clear">>, p)
  BY <1>2 DEF Shaped, Updates
<1>3. <<"unlink", "disable">> \in Seq(Updates) /\ Shaped(<<"unlink", "disable">>, NoPassword)
  BY DEF Shaped, Updates
<1>4. {"failed", "succeeded", "unlock", "disable", "enable", "edit"}
        \subseteq Updates \ {"reset", "set", "clear"}
  BY DEF Updates
<1> HIDE DEF P
<1>5. ASSUME NEW t \in Threads, NEW m \in Members PROVE LoginWrong(t, m) => P
  BY <1>0, <1>1, <1>4 DEF LoginWrong
<1>6. ASSUME NEW t \in Threads, NEW m \in Members PROVE Login(t, m) => P
  BY <1>0, <1>1, <1>4 DEF Login
<1>7. ASSUME NEW t \in Threads, NEW m \in Members PROVE LoginBiometric(t, m) => P
  BY <1>0, <1>1, <1>4 DEF LoginBiometric
<1>8. ASSUME NEW t \in Threads, NEW m \in Members PROVE Unlock(t, m) => P
  BY <1>0, <1>1, <1>4 DEF Unlock
<1>9. ASSUME NEW t \in Threads, NEW m \in Members PROVE Disable(t, m) => P
  <2>1. CASE member[m].finger
    BY <1>0, <1>3, <2>1 DEF Disable
  <2>2. CASE ~member[m].finger
    BY <1>0, <1>1, <1>4, <2>2 DEF Disable
  <2> QED
    BY <2>1, <2>2
<1>10. ASSUME NEW t \in Threads, NEW m \in Members PROVE Enable(t, m) => P
  BY <1>0, <1>1, <1>4 DEF Enable
<1>11. ASSUME NEW t \in Threads, NEW m \in Members, NEW p \in Passwords
       PROVE  MandatoryReset(t, m, p) => P
  BY <1>0, <1>2 DEF MandatoryReset
<1>12. ASSUME NEW t \in Threads, NEW m \in Members, NEW p \in Passwords
       PROVE  ExpiredReset(t, m, p) => P
  BY <1>0, <1>2 DEF ExpiredReset
<1>13. ASSUME NEW t \in Threads, NEW m \in Members, NEW p \in Passwords \cup {NoPassword}
       PROVE  EditProfile(t, m, p) => P
  BY <1>0, <1>1, <1>4 DEF EditProfile
<1>14. ASSUME NEW t \in Threads, NEW p \in Passwords PROVE ChangePassword(t, p) => P
  BY <1>0, <1>2 DEF ChangePassword
<1>15. Logout \/ LoginFactory =>
         /\ session' \in Members \cup {Factory, Nobody}
         /\ UNCHANGED <<member, request, strikes, used, chosen>>
  BY DEF Logout, LoginFactory
<1>16. P \/ /\ session' \in Members \cup {Factory, Nobody}
            /\ UNCHANGED <<member, request, strikes, used, chosen>>
  BY <1>5, <1>6, <1>7, <1>8, <1>9, <1>10, <1>11, <1>12, <1>13, <1>14, <1>15
  DEF AccountPress
<1> QED
  BY <1>16 DEF P

-----------------------------------------------------------------------------
(* Types.                                                                  *)

RequestOK(q) ==
    /\ q \in RequestType
    /\ \A i \in 1 .. Len(q.todo) : q.todo[i] \in {"reset", "set"} => q.new \in Passwords
    /\ q.copy # NotRead => Bounded(q.copy) /\ q.todo # <<>>

TypeInv ==
    /\ AccountsTypeOK
    /\ \A t \in Threads : request[t] # Idle => RequestOK(request[t])

\* A new request is what it is said to be.
LEMMA NewRequest ==
    ASSUME NEW m \in Members, NEW todo, NEW new \in Passwords \cup {NoPassword},
           NEW logsIn \in BOOLEAN, Shaped(todo, new)
    PROVE  /\ RequestOK(Request(m, todo, new, logsIn))
           /\ Request(m, todo, new, logsIn).who = m
           /\ Request(m, todo, new, logsIn).todo = todo
           /\ Request(m, todo, new, logsIn).copy = NotRead
  BY DEF Request, RequestOK, RequestType, Shaped

\* What is left of a list of updates.
LEMMA RestOfUpdates ==
    ASSUME NEW todo \in Seq(Updates), todo # <<>>
    PROVE  /\ Head(todo) = todo[1] /\ Head(todo) \in Updates /\ 1 \in 1 .. Len(todo)
           /\ Tail(todo) \in Seq(Updates)
           /\ \A i \in 1 .. Len(Tail(todo)) :
                i + 1 \in 1 .. Len(todo) /\ Tail(todo)[i] = todo[i + 1]
  BY HeadTailProperties

LEMMA TypeInit == AccountsInit => TypeInv
<1> SUFFICES ASSUME AccountsInit PROVE TypeInv
  OBVIOUS
<1>1. PICK p \in Passwords, g \in [Members -> Roles] :
        /\ member = [m \in Members |-> Created(p, TRUE, g[m])]
        /\ used = [m \in Members |-> <<p>>]
  BY DEF AccountsInit
<1>2. \A m \in Members : Created(p, TRUE, g[m]) \in Record
                         /\ Created(p, TRUE, g[m]).history = <<>>
  BY <1>1, RolesAssumption DEF Created, Record, Statuses
<1>3. <<p>> \in Seq(Passwords) /\ Len(<<>>) <= HistoryLimit
  BY HistoryLimitAssumption
<1> QED
  BY <1>1, <1>2, <1>3 DEF AccountsInit, TypeInv, AccountsTypeOK

LEMMA TypeStep == TypeInv /\ [AccountsNext]_accountVars => TypeInv'
<1> SUFFICES ASSUME TypeInv, [AccountsNext]_accountVars PROVE TypeInv'
  OBVIOUS
<1> USE DEF TypeInv, AccountsTypeOK
<1>1. ASSUME NEW t \in Threads, NEW m \in Members, NEW todo, NEW call,
             NEW new \in Passwords \cup {NoPassword}, NEW logsIn \in BOOLEAN,
             Shaped(todo, new), Starts(t, call, m, todo, new, logsIn)
      PROVE  TypeInv'
  <2>1. RequestOK(Request(m, todo, new, logsIn))
    BY <1>1, NewRequest
  <2>2. request' = [request EXCEPT ![t] = Request(m, todo, new, logsIn)]
        /\ UNCHANGED <<member, session, strikes, used, chosen>>
    BY <1>1 DEF Starts
  <2>3. Request(m, todo, new, logsIn) \in RequestType
    BY <2>1 DEF RequestOK
  <2> QED
    BY <2>1, <2>2, <2>3
<1>2. CASE AccountPress
  <2>1. CASE /\ session' \in Members \cup {Factory, Nobody}
             /\ UNCHANGED <<member, request, strikes, used, chosen>>
    BY <2>1
  <2> QED
    BY <1>1, <1>2, <2>1, PressShape
<1>3. ASSUME NEW t \in Threads, ReadsMember(t) PROVE TypeInv'
  <2> DEFINE q == request[t]
             r == IF Refused(member[q.who], Head(q.todo), q.new) THEN Idle
                  ELSE [q EXCEPT !.copy = member[q.who]]
  <2>1. q # Idle /\ q.todo # <<>> /\ RequestOK(q)
        /\ request' = [request EXCEPT ![t] = r]
        /\ UNCHANGED <<member, session, strikes, used, chosen>>
    BY <1>3 DEF ReadsMember, Busy
  <2>2. q \in RequestType /\ Bounded(member[q.who]) /\ q.who \in Members
    BY <2>1 DEF RequestOK, RequestType, Bounded
  <2>3. [q EXCEPT !.copy = member[q.who]] \in RequestType
        /\ [q EXCEPT !.copy = member[q.who]].todo = q.todo
        /\ [q EXCEPT !.copy = member[q.who]].new = q.new
        /\ [q EXCEPT !.copy = member[q.who]].copy = member[q.who]
    BY <2>2 DEF RequestType, Bounded
  <2>4. RequestOK([q EXCEPT !.copy = member[q.who]])
    BY <2>1, <2>2, <2>3 DEF RequestOK
  <2>5. r \in RequestType \cup {Idle} /\ (r # Idle => RequestOK(r))
    BY <2>3, <2>4
  <2> HIDE DEF q, r
  <2> QED
    BY <2>1, <2>5
<1>4. ASSUME NEW t \in Threads, NEW g \in Roles, SavesMember(t, g) PROVE TypeInv'
  <2> DEFINE q == request[t]
             update == Head(q.todo)
             stored == member[q.who]
             saved == Normalised(Updated(update, q.copy, stored, q.new, g))
             rest == Tail(q.todo)
             r == IF rest = <<>> /\ ~q.logsIn THEN Idle
                  ELSE [q EXCEPT !.todo = rest, !.copy = NotRead]
  <2>1. q # Idle /\ q.todo # <<>> /\ RequestOK(q) /\ q.copy # NotRead
    BY <1>4 DEF SavesMember, Busy
  <2>2. q \in RequestType /\ q.who \in Members /\ q.todo \in Seq(Updates)
        /\ Bounded(stored) /\ Bounded(q.copy)
        /\ q.new \in Passwords \cup {NoPassword}
    BY <2>1 DEF RequestOK, RequestType, Bounded
  <2>3. /\ update \in Updates /\ rest \in Seq(Updates)
        /\ update \in {"reset", "set"} => q.new \in Passwords
        /\ \A i \in 1 .. Len(rest) : rest[i] \in {"reset", "set"} => q.new \in Passwords
    BY <2>1, <2>2, RestOfUpdates DEF RequestOK
  <2>4. Bounded(saved)
    BY <2>2, <2>3, UpdatedBounded, RolesAssumption
  <2>5. saved.password \in Passwords
    BY <2>4 DEF Bounded, Record
  <2>6. r \in RequestType \cup {Idle} /\ (r # Idle => RequestOK(r))
    <3>1. /\ [q EXCEPT !.todo = rest, !.copy = NotRead] \in RequestType
          /\ [q EXCEPT !.todo = rest, !.copy = NotRead].todo = rest
          /\ [q EXCEPT !.todo = rest, !.copy = NotRead].new = q.new
          /\ [q EXCEPT !.todo = rest, !.copy = NotRead].copy = NotRead
      BY <2>2, <2>3 DEF RequestType
    <3>2. RequestOK([q EXCEPT !.todo = rest, !.copy = NotRead])
      BY <2>3, <3>1 DEF RequestOK
    <3> QED
      BY <3>1, <3>2
  <2>7. /\ member' = [member EXCEPT ![q.who] = saved]
        /\ request' = [request EXCEPT ![t] = r]
        /\ session' = session
        /\ used' = [used EXCEPT ![q.who] =
                      IF saved.password = used[q.who][1] THEN used[q.who]
                      ELSE <<saved.password>> \o used[q.who]]
        /\ strikes' = [strikes EXCEPT ![q.who] =
                         IF update = "failed" THEN strikes[q.who] + 1
                         ELSE IF update \in {"succeeded", "unlock"} THEN 0
                         ELSE strikes[q.who]]
        /\ chosen' = [chosen EXCEPT ![q.who] =
                        \/ update \in {"reset", "set"}
                        \/ /\ chosen[q.who] /\ update # "unlock"
                           /\ saved.password = stored.password]
    BY <1>4 DEF SavesMember
  <2> HIDE DEF q, update, stored, saved, rest, r
  <2>8. member' \in [Members -> Record]
        /\ \A m \in Members : Len(member'[m].history) <= HistoryLimit
    BY <2>4, <2>7, <2>2 DEF Bounded
  <2>9. request' \in [Threads -> RequestType \cup {Idle}]
        /\ \A u \in Threads : request'[u] # Idle => RequestOK(request'[u])
    BY <2>6, <2>7
  <2>10. used' \in [Members -> Seq(Passwords)]
    <3>1. <<saved.password>> \o used[q.who] \in Seq(Passwords)
      BY <2>2, <2>5, ConcatProperties
    <3> QED
      BY <2>7, <3>1
  <2>11. strikes' \in [Members -> Nat] /\ chosen' \in [Members -> BOOLEAN]
    BY <2>7, <2>2
  <2>12. session' \in Members \cup {Factory, Nobody}
    BY <2>7
  <2> QED
    BY <2>8, <2>9, <2>10, <2>11, <2>12
<1>5. ASSUME NEW t \in Threads, RefusesEdit(t) PROVE TypeInv'
  BY <1>5 DEF RefusesEdit
<1>6. ASSUME NEW t \in Threads, BeginsSession(t) PROVE TypeInv'
  <2>1. request[t] \in RequestType
    BY <1>6 DEF BeginsSession, RequestOK
  <2>2. request[t].who \in Members
    BY <2>1 DEF RequestType
  <2> QED
    BY <1>6, <2>2 DEF BeginsSession
<1>7. ASSUME NEW m \in Members, PasswordExpires(m) PROVE TypeInv'
  <2>1. member' = [member EXCEPT ![m] = [member[m] EXCEPT !.expired = TRUE]]
        /\ UNCHANGED <<session, request, strikes, used, chosen>>
    BY <1>7 DEF PasswordExpires
  <2>2. [member[m] EXCEPT !.expired = TRUE] \in Record
        /\ [member[m] EXCEPT !.expired = TRUE].history = member[m].history
    BY DEF Record
  <2> QED
    BY <2>1, <2>2
<1>8. CASE UNCHANGED accountVars
  BY <1>8 DEF accountVars
<1> QED
  BY <1>2, <1>3, <1>4, <1>5, <1>6, <1>7, <1>8 DEF AccountsNext, AccountProgress

(***************************************************************************)
(* Accounts, requests and histories keep their types, and no account keeps *)
(* more than HistoryLimit former passwords, with any number of requests at *)
(* once (_push_password_into_history, _normalize_password_history).        *)
(***************************************************************************)
THEOREM TypeCorrect == AccountsSpec => []AccountsTypeOK
<1>1. TypeInv => AccountsTypeOK
  BY DEF TypeInv
<1> QED
  BY <1>1, TypeInit, TypeStep, PTL DEF AccountsSpec

-----------------------------------------------------------------------------
(* One request at a time.                                                  *)

Agree(a, b) ==
    /\ a.status = b.status /\ a.failed = b.failed /\ a.must = b.must
    /\ a.password = b.password /\ a.history = b.history

\* What a request has still to do fits what it has done, and the copy it has
\* read is the account as it is.
Exact(t) ==
    LET q == request[t]
    IN  q # Idle =>
          /\ \A i \in 1 .. Len(q.todo) :
               q.todo[i] = "clear" =>
                 \/ i = 1 /\ chosen[q.who]
                 \/ i > 1 /\ q.todo[i - 1] = "set"
          /\ q.copy # NotRead =>
               /\ Agree(q.copy, member[q.who])
               /\ q.todo[1] \in {"reset", "set"} =>
                    q.new # q.copy.password /\ q.new \notin Range(q.copy.history)

\* An account fits its history: the duty to choose a password, the count of
\* the wrong ones, and the former ones.
Kept(m) ==
    /\ ~chosen[m] => member[m].must
    /\ strikes[m] <= member[m].failed
    /\ used[m] # <<>> /\ used[m][1] = member[m].password
    /\ \A i \in 2 .. Len(used[m]) :
         i <= HistoryLimit + 1 =>
           /\ i - 1 \in 1 .. Len(member[m].history)
           /\ member[m].history[i - 1] = used[m][i]

SerialInv ==
    /\ TypeInv
    /\ \A m \in Members : Kept(m)
    /\ \A t \in Threads : Exact(t)

\* What a saved update makes of the account that was stored.
Fits(saved, update, stored, new) ==
    /\ \/ saved.password = stored.password /\ saved.history = stored.history
       \/ /\ saved.password = new /\ new # stored.password
          /\ new \notin Range(stored.history)
          /\ saved.history = Pushed(stored)
    /\ stored.must /\ update \notin {"reset", "set", "clear"} => saved.must
    /\ update = "unlock" => saved.must
    /\ update \notin {"reset", "set"} /\ saved.password # stored.password => saved.must
    /\ saved.failed = IF update = "failed" THEN stored.failed + 1
                      ELSE IF update \in {"succeeded", "unlock"} THEN 0
                      ELSE stored.failed
    /\ update = "failed" /\ saved.failed >= MaxAttempts => saved.status # "active"
    /\ stored.status # "active" /\ saved.status = "active"
         => update \in {"unlock", "enable"}

\* An update of an account that nobody else has touched since it was read.
LEMMA UpdatedFields ==
    ASSUME NEW update \in Updates, NEW copy, NEW stored,
           Bounded(copy), Bounded(stored), Agree(copy, stored),
           NEW new \in Passwords \cup {NoPassword}, NEW g \in SUBSET Grants,
           update \in {"reset", "set"} =>
             new \in Passwords /\ new # copy.password /\ new \notin Range(copy.history),
           update = "edit" => ~EditReuses(stored, new)
    PROVE  Fits(Normalised(Updated(update, copy, stored, new, g)), update, stored, new)
<1> DEFINE saved == Normalised(Updated(update, copy, stored, new, g))
<1> SUFFICES Fits(saved, update, stored, new)
  OBVIOUS
<1> DEFINE raw == Updated(update, copy, stored, new, g)
<1>1. copy \in Record /\ stored \in Record /\ copy.failed \in Nat
  BY DEF Bounded, Record
<1>2. /\ copy.status = stored.status /\ copy.failed = stored.failed
      /\ copy.must = stored.must /\ copy.password = stored.password
      /\ copy.history = stored.history
  BY DEF Agree
<1>3. raw \in Record => /\ saved.status = raw.status /\ saved.failed = raw.failed
                        /\ saved.must = raw.must /\ saved.password = raw.password
                        /\ saved.history = raw.history
  BY NormalisedFields
<1> HIDE DEF saved
<1>4. Pushed(copy) = Pushed(stored)
  BY <1>2 DEF Pushed
<1>5. CASE update \in {"reset", "set"}
  <2>1. PasswordChanged(copy, new) \in Record
    BY <1>1, <1>5, ChangedBounded DEF Bounded
  <2>2. /\ PasswordChanged(copy, new).password = new
        /\ PasswordChanged(copy, new).history = Pushed(copy)
        /\ PasswordChanged(copy, new).failed = copy.failed
        /\ PasswordChanged(copy, new).status = copy.status
    BY <1>1 DEF PasswordChanged, Record
  <2>3. LET r == CommitmentCleared(PasswordChanged(copy, new))
        IN  /\ r \in Record /\ r.password = new /\ r.history = Pushed(copy)
            /\ r.failed = copy.failed /\ r.status = copy.status
    BY <2>1, <2>2 DEF CommitmentCleared, Record
  <2>4. raw \in {PasswordChanged(copy, new), CommitmentCleared(PasswordChanged(copy, new))}
    BY <1>5 DEF Updated
  <2>5. /\ raw \in Record /\ raw.password = new /\ raw.history = Pushed(copy)
        /\ raw.failed = copy.failed /\ raw.status = copy.status
    BY <2>1, <2>2, <2>3, <2>4
  <2> HIDE DEF raw
  <2> QED
    BY <1>2, <1>3, <1>4, <1>5, <2>5 DEF Fits
<1>6. CASE update = "edit"
  <2> DEFINE kept == [copy EXCEPT !.grants = g, !.password = stored.password,
                                  !.commitment = stored.commitment,
                                  !.history = stored.history]
  <2>1. /\ Bounded(kept) /\ kept.password = stored.password
        /\ kept.history = stored.history /\ kept.must = copy.must
        /\ kept.failed = copy.failed /\ kept.status = copy.status
    BY <1>1 DEF Bounded, Record
  <2>2. raw = Edited(copy, stored, new, g)
    BY <1>6 DEF Updated
  <2> HIDE DEF kept
  <2>3. CASE new \in {NoPassword, stored.password}
    <3>1. raw = Normalised(kept)
      BY <2>2, <2>3 DEF Edited, kept
    <3>2. /\ raw \in Record /\ raw.password = stored.password
          /\ raw.history = stored.history /\ raw.must = copy.must
          /\ raw.failed = copy.failed /\ raw.status = copy.status
      BY <2>1, <3>1, NormalisedFields DEF Bounded
    <3> HIDE DEF raw
    <3> QED
      BY <1>2, <1>3, <1>6, <3>2 DEF Fits
  <2>4. CASE new \notin {NoPassword, stored.password}
    <3>1. raw = [PasswordChanged(kept, new) EXCEPT !.must = TRUE, !.commitment = new]
      BY <2>2, <2>4 DEF Edited, kept
    <3>2. new \in Passwords /\ new \notin Range(stored.history)
      BY <1>6, <2>4 DEF EditReuses
    <3>3. PasswordChanged(kept, new) \in Record
      BY <2>1, <3>2, ChangedBounded DEF Bounded
    <3>4. /\ PasswordChanged(kept, new).password = new
          /\ PasswordChanged(kept, new).history = Pushed(kept)
          /\ PasswordChanged(kept, new).failed = kept.failed
          /\ PasswordChanged(kept, new).status = kept.status
      BY <2>1 DEF PasswordChanged, Record, Bounded
    <3>5. /\ raw \in Record /\ raw.password = new /\ raw.history = Pushed(kept)
          /\ raw.failed = kept.failed /\ raw.status = kept.status /\ raw.must = TRUE
      BY <3>1, <3>2, <3>3, <3>4 DEF Record
    <3>6. Pushed(kept) = Pushed(stored)
      BY <2>1 DEF Pushed
    <3> HIDE DEF raw
    <3> QED
      BY <1>2, <1>3, <1>6, <2>1, <2>4, <3>2, <3>5, <3>6 DEF Fits
  <2> QED
    BY <2>3, <2>4
<1>7. CASE update \notin {"reset", "set", "edit"}
  <2>1. /\ raw \in Record /\ raw.password = copy.password /\ raw.history = copy.history
        /\ copy.must /\ update # "clear" => raw.must
        /\ update = "unlock" => raw.must
        /\ raw.failed = IF update = "failed" THEN copy.failed + 1
                        ELSE IF update \in {"succeeded", "unlock"} THEN 0 ELSE copy.failed
        /\ update = "failed" /\ raw.failed >= MaxAttempts => raw.status # "active"
        /\ copy.status # "active" /\ raw.status = "active" => update \in {"unlock", "enable"}
    <3>1. CASE update = "failed"
      <4> DEFINE st == IF copy.failed + 1 >= MaxAttempts /\ copy.status = "active"
                         THEN "locked" ELSE copy.status
      <4>1. st \in Statuses /\ copy.failed + 1 \in Nat
        BY <1>1 DEF Record, Statuses
      <4>2. raw = [copy EXCEPT !.failed = copy.failed + 1, !.status = st]
        BY <3>1 DEF Updated, FailedLogin
      <4> HIDE DEF st, raw
      <4>3. /\ raw \in Record /\ raw.password = copy.password /\ raw.history = copy.history
            /\ raw.must = copy.must /\ raw.failed = copy.failed + 1 /\ raw.status = st
        BY <1>1, <4>1, <4>2 DEF Record
      <4>4. update = "failed" /\ raw.failed >= MaxAttempts => raw.status # "active"
        BY <4>3 DEF st
      <4>5. copy.status # "active" => raw.status # "active"
        BY <4>3 DEF st
      <4> QED
        BY <3>1, <4>3, <4>4, <4>5
    <3>2. CASE update = "succeeded"
      BY <3>2, <1>1 DEF Updated, SuccessfulLogin, Record
    <3>3. CASE update = "clear"
      BY <3>3, <1>1 DEF Updated, CommitmentCleared, Record
    <3>4. CASE update = "unlock"
      BY <3>4, <1>1 DEF Updated, Unlocked, Record, Statuses
    <3>5. CASE update = "disable"
      BY <3>5, <1>1 DEF Updated, Disabled, Record, Statuses
    <3>6. CASE update = "enable"
      BY <3>6, <1>1 DEF Updated, Enabled, Record, Statuses
    <3>7. CASE update = "unlink"
      BY <3>7, <1>1 DEF Updated, FingerCleared, Record
    <3> QED
      BY <1>7, <3>1, <3>2, <3>3, <3>4, <3>5, <3>6, <3>7 DEF Updates
  <2> HIDE DEF raw
  <2> QED
    BY <1>2, <1>3, <1>7, <2>1 DEF Fits
<1> QED
  BY <1>5, <1>6, <1>7

LEMMA SerialInit == AccountsInit => SerialInv
<1> SUFFICES ASSUME AccountsInit PROVE SerialInv
  OBVIOUS
<1>1. PICK p \in Passwords, g \in [Members -> Roles] :
        /\ member = [m \in Members |-> Created(p, TRUE, g[m])]
        /\ used = [m \in Members |-> <<p>>]
  BY DEF AccountsInit
<1>2. \A m \in Members : /\ member[m].must /\ member[m].failed = 0
                         /\ member[m].password = p
  BY <1>1 DEF Created
<1>3. \A m \in Members : used[m] = <<p>> /\ strikes[m] = 0
  BY <1>1 DEF AccountsInit
<1>4. \A m \in Members : Kept(m)
  BY <1>2, <1>3 DEF Kept
<1>5. \A t \in Threads : Exact(t)
  BY DEF AccountsInit, Exact
<1> QED
  BY <1>4, <1>5, TypeInit DEF SerialInv

\* What is left of a request when its first update has been saved.
Remains(q) ==
    IF Tail(q.todo) = <<>> /\ ~q.logsIn THEN Idle
    ELSE [q EXCEPT !.todo = Tail(q.todo), !.copy = NotRead]

\* What a save does, in terms of the account as it was.
SavedAs(t, m, update) ==
    /\ request[t] # Idle /\ request[t].todo # <<>>
    /\ request[t].todo \in Seq(Updates)
    /\ \A o \in Members \ {m} :
         /\ member'[o] = member[o] /\ strikes'[o] = strikes[o]
         /\ used'[o] = used[o] /\ chosen'[o] = chosen[o]
    /\ strikes'[m] = IF update = "failed" THEN strikes[m] + 1
                     ELSE IF update \in {"succeeded", "unlock"} THEN 0 ELSE strikes[m]
    /\ chosen'[m] = (\/ update \in {"reset", "set"}
                     \/ /\ chosen[m] /\ update # "unlock"
                        /\ member'[m].password = member[m].password)
    /\ \/ /\ member'[m].password = member[m].password
          /\ member'[m].history = member[m].history
          /\ used'[m] = used[m]
       \/ /\ member'[m].password = request[t].new
          /\ request[t].new # member[m].password
          /\ request[t].new \notin Range(member[m].history)
          /\ member'[m].history = Pushed(member[m])
          /\ used'[m] = <<request[t].new>> \o used[m]
          /\ request[t].new \in Passwords
    /\ member[m].must /\ update \notin {"reset", "set", "clear"} => member'[m].must
    /\ update = "unlock" => member'[m].must
    /\ update \notin {"reset", "set"} /\ member'[m].password # member[m].password
         => member'[m].must
    /\ update = "clear" => chosen[m]
    /\ member'[m].failed = IF update = "failed" THEN member[m].failed + 1
                           ELSE IF update \in {"succeeded", "unlock"} THEN 0
                           ELSE member[m].failed
    /\ update = "failed" /\ member'[m].failed >= MaxAttempts
         => member'[m].status # "active"
    /\ member[m].status # "active" /\ member'[m].status = "active"
         => update \in {"unlock", "enable"}
    /\ request' = [request EXCEPT ![t] = Remains(request[t])]

\* Every save of an update does that.
LEMMA SaveFields ==
    ASSUME SerialInv, NEW t \in Threads, NEW g \in Roles, SavesMember(t, g),
           NEW m \in Members, m = request[t].who,
           NEW update \in Updates, update = Head(request[t].todo)
    PROVE  SavedAs(t, m, update)
<1> USE DEF SavedAs
<1> DEFINE q == request[t]
           stored == member[m]
           saved == Normalised(Updated(update, q.copy, stored, q.new, g))
<1> USE DEF SerialInv, TypeInv, AccountsTypeOK
<1>1. q # Idle /\ q.todo # <<>> /\ RequestOK(q) /\ q.copy # NotRead
  BY DEF SavesMember, Busy
<1>2. q \in RequestType /\ q.todo \in Seq(Updates) /\ Bounded(stored) /\ Bounded(q.copy)
      /\ q.new \in Passwords \cup {NoPassword}
  BY <1>1 DEF RequestOK, RequestType, Bounded
<1>3. update = q.todo[1] /\ 1 \in 1 .. Len(q.todo)
  BY <1>1, <1>2, RestOfUpdates
<1>4. Exact(t)
  OBVIOUS
<1>5. /\ Agree(q.copy, stored)
      /\ update \in {"reset", "set"} =>
           q.new # q.copy.password /\ q.new \notin Range(q.copy.history)
      /\ update = "clear" => chosen[m]
  BY <1>1, <1>3, <1>4 DEF Exact
<1>6. update \in {"reset", "set"} => q.new \in Passwords
  BY <1>1, <1>3 DEF RequestOK
<1>7. /\ member' = [member EXCEPT ![m] = saved]
      /\ update = "edit" => ~EditReuses(stored, q.new)
      /\ used' = [used EXCEPT ![m] = IF saved.password = used[m][1] THEN used[m]
                                     ELSE <<saved.password>> \o used[m]]
      /\ strikes' = [strikes EXCEPT ![m] =
                       IF update = "failed" THEN strikes[m] + 1
                       ELSE IF update \in {"succeeded", "unlock"} THEN 0 ELSE strikes[m]]
      /\ chosen' = [chosen EXCEPT ![m] =
                      \/ update \in {"reset", "set"}
                      \/ chosen[m] /\ update # "unlock" /\ saved.password = stored.password]
      /\ request' = [request EXCEPT ![t] = Remains(q)]
  BY DEF SavesMember, Remains
<1>8. Bounded(saved)
  BY <1>2, <1>6, UpdatedBounded, RolesAssumption
<1>9. saved.password \in Passwords /\ member'[m] = saved /\ used[m][1] = stored.password
  BY <1>7, <1>8 DEF Bounded, Record, Kept
<1>10. saved = Normalised(Updated(update, q.copy, stored, q.new, g)) /\ g \in SUBSET Grants
  BY RolesAssumption
<1> HIDE DEF q, stored, saved
<1>11. update = "edit" => ~EditReuses(stored, q.new)
  BY <1>7
<1>12. Fits(saved, update, stored, q.new)
  BY <1>2, <1>5, <1>6, <1>10, <1>11, UpdatedFields
<1>13. \A o \in Members \ {m} :
         /\ member'[o] = member[o] /\ strikes'[o] = strikes[o]
         /\ used'[o] = used[o] /\ chosen'[o] = chosen[o]
  BY <1>7
<1>14. /\ strikes'[m] = IF update = "failed" THEN strikes[m] + 1
                        ELSE IF update \in {"succeeded", "unlock"} THEN 0 ELSE strikes[m]
       /\ chosen'[m] = (\/ update \in {"reset", "set"}
                        \/ chosen[m] /\ update # "unlock" /\ saved.password = stored.password)
       /\ used'[m] = IF saved.password = stored.password THEN used[m]
                     ELSE <<saved.password>> \o used[m]
  BY <1>7, <1>9
<1>15. \/ /\ saved.password = stored.password /\ saved.history = stored.history
          /\ used'[m] = used[m]
       \/ /\ saved.password = q.new /\ q.new # stored.password
          /\ q.new \notin Range(stored.history) /\ saved.history = Pushed(stored)
          /\ used'[m] = <<q.new>> \o used[m] /\ q.new \in Passwords
  BY <1>9, <1>12, <1>14 DEF Fits
<1> QED
  BY <1>1, <1>2, <1>5, <1>7, <1>9, <1>12, <1>13, <1>14, <1>15 DEF q, stored, Fits

\* A new password in front of the history.
LEMMA OneMoreUsed ==
    ASSUME NEW p \in Passwords, NEW s \in Seq(Passwords)
    PROVE  /\ <<p>> \o s \in Seq(Passwords) /\ <<p>> \o s # <<>>
           /\ Len(<<p>> \o s) = 1 + Len(s) /\ (<<p>> \o s)[1] = p
           /\ \A i \in 2 .. Len(<<p>> \o s) :
                i - 1 \in 1 .. Len(s) /\ (<<p>> \o s)[i] = s[i - 1]
<1>1. <<p>> \in Seq(Passwords) /\ Len(<<p>>) = 1 /\ <<p>>[1] = p /\ Len(s) \in Nat
  OBVIOUS
<1>2. /\ <<p>> \o s \in Seq(Passwords) /\ Len(<<p>> \o s) = 1 + Len(s)
      /\ \A i \in 1 .. Len(<<p>> \o s) :
           (<<p>> \o s)[i] = IF i <= 1 THEN <<p>>[i] ELSE s[i - 1]
  BY <1>1, ConcatProperties
<1> DEFINE w == <<p>> \o s
<1> HIDE DEF w
<1>3. /\ w \in Seq(Passwords) /\ Len(w) = 1 + Len(s)
      /\ \A i \in 1 .. Len(w) : w[i] = IF i <= 1 THEN <<p>>[i] ELSE s[i - 1]
  BY <1>2 DEF w
<1>4. w # <<>> /\ w[1] = p
  BY <1>1, <1>3
<1>5. \A i \in 2 .. Len(w) : i - 1 \in 1 .. Len(s) /\ w[i] = s[i - 1]
  BY <1>1, <1>3
<1> QED
  BY <1>3, <1>4, <1>5 DEF w

\* An account still fits its history after an update of it has been saved.
LEMMA SaveKeeps ==
    ASSUME SerialInv, NEW t \in Threads, NEW g \in Roles, SavesMember(t, g),
           NEW m \in Members, m = request[t].who
    PROVE  Kept(m)'
<1> DEFINE new == request[t].new
<1>1. request[t] # Idle /\ request[t].todo # <<>> /\ request[t].todo \in Seq(Updates)
  BY DEF SerialInv, TypeInv, SavesMember, Busy, RequestOK, RequestType
<1>2. PICK u \in Updates : u = Head(request[t].todo)
  BY <1>1, RestOfUpdates
<1>3. SavedAs(t, m, u)
  BY <1>2, SaveFields
<1>4. Kept(m) /\ used[m] \in Seq(Passwords) /\ strikes[m] \in Nat /\ member[m] \in Record
  BY DEF SerialInv, TypeInv, AccountsTypeOK
<1>5. ~chosen'[m] => member'[m].must
  <2>1. chosen'[m] = (\/ u \in {"reset", "set"}
                      \/ /\ chosen[m] /\ u # "unlock"
                         /\ member'[m].password = member[m].password)
    BY <1>3 DEF SavedAs
  <2>2. /\ member[m].must /\ u \notin {"reset", "set", "clear"} => member'[m].must
        /\ u = "unlock" => member'[m].must
        /\ u \notin {"reset", "set"} /\ member'[m].password # member[m].password
             => member'[m].must
        /\ u = "clear" => chosen[m]
    BY <1>3 DEF SavedAs
  <2>3. ~chosen[m] => member[m].must
    BY <1>4 DEF Kept
  <2> QED
    BY <2>1, <2>2, <2>3
<1>6. strikes'[m] <= member'[m].failed
  <2>1. /\ strikes'[m] = IF u = "failed" THEN strikes[m] + 1
                         ELSE IF u \in {"succeeded", "unlock"} THEN 0 ELSE strikes[m]
        /\ member'[m].failed = IF u = "failed" THEN member[m].failed + 1
                               ELSE IF u \in {"succeeded", "unlock"} THEN 0
                               ELSE member[m].failed
    BY <1>3 DEF SavedAs
  <2>2. strikes[m] <= member[m].failed /\ member[m].failed \in Nat
    BY <1>4 DEF Kept, Record
  <2> QED
    BY <1>4, <2>1, <2>2
<1>7. \/ /\ member'[m].password = member[m].password
         /\ member'[m].history = member[m].history
         /\ used'[m] = used[m]
      \/ /\ member'[m].password = new
         /\ member'[m].history = Pushed(member[m])
         /\ used'[m] = <<new>> \o used[m] /\ new \in Passwords
  BY <1>3 DEF SavedAs
<1>8. /\ used'[m] # <<>> /\ used'[m][1] = member'[m].password
      /\ \A i \in 2 .. Len(used'[m]) :
           i <= HistoryLimit + 1 =>
             /\ i - 1 \in 1 .. Len(member'[m].history)
             /\ member'[m].history[i - 1] = used'[m][i]
  <2>1. CASE /\ member'[m].password = member[m].password
             /\ member'[m].history = member[m].history
             /\ used'[m] = used[m]
    BY <1>4, <2>1 DEF Kept
  <2>2. CASE /\ member'[m].password = new
             /\ member'[m].history = Pushed(member[m])
             /\ used'[m] = <<new>> \o used[m] /\ new \in Passwords
    <3> DEFINE w == <<new>> \o used[m]
               h == Pushed(member[m])
               old == member[m].history
    <3>1. /\ w # <<>> /\ Len(w) = 1 + Len(used[m]) /\ w[1] = new
          /\ \A i \in 2 .. Len(w) : i - 1 \in 1 .. Len(used[m]) /\ w[i] = used[m][i - 1]
      BY <1>4, <2>2, OneMoreUsed
    <3>2. /\ h \in Seq(Passwords)
          /\ Len(h) = IF Len(old) + 1 < HistoryLimit THEN Len(old) + 1 ELSE HistoryLimit
          /\ h[1] = member[m].password
          /\ \A i \in 2 .. Len(h) : h[i] = old[i - 1]
      BY <1>4, PushedHistory
    <3>3. /\ used[m][1] = member[m].password
          /\ \A i \in 2 .. Len(used[m]) :
               i <= HistoryLimit + 1 => i - 1 \in 1 .. Len(old) /\ old[i - 1] = used[m][i]
      BY <1>4 DEF Kept
    <3>4. old \in Seq(Passwords) /\ Len(old) \in Nat /\ Len(used[m]) \in Nat
          /\ HistoryLimit \in Nat \ {0}
      BY <1>4, HistoryLimitAssumption DEF Record
    <3> HIDE DEF w, h, old
    <3>5. ASSUME NEW i \in 2 .. Len(w), i <= HistoryLimit + 1
          PROVE  i - 1 \in 1 .. Len(h) /\ h[i - 1] = w[i]
      <4>1. i - 1 \in 1 .. Len(used[m]) /\ w[i] = used[m][i - 1] /\ i \in Nat
        BY <3>1, <3>4
      <4>2. CASE i = 2
        BY <3>2, <3>3, <3>4, <4>1, <4>2
      <4>3. CASE i > 2
        <5>1. i - 1 \in 2 .. Len(used[m]) /\ i - 1 <= HistoryLimit + 1
          BY <3>4, <4>1, <4>3, <3>5
        <5>2. i - 2 \in 1 .. Len(old) /\ old[i - 2] = used[m][i - 1]
          <6>1. (i - 1) - 1 \in 1 .. Len(old) /\ old[(i - 1) - 1] = used[m][i - 1]
            BY <3>3, <5>1
          <6>2. (i - 1) - 1 = i - 2
            BY <4>1
          <6> QED
            BY <6>1, <6>2
        <5>3. i - 1 \in 2 .. Len(h)
          BY <3>2, <3>4, <3>5, <5>1, <5>2
        <5>4. h[i - 1] = old[(i - 1) - 1] /\ (i - 1) - 1 = i - 2
          BY <3>2, <4>1, <5>3
        <5> QED
          BY <4>1, <5>2, <5>3, <5>4
      <4> QED
        BY <4>1, <4>2, <4>3
    <3>6. used'[m] = w /\ member'[m].history = h
      BY <2>2 DEF w, h
    <3> QED
      BY <2>2, <3>1, <3>5, <3>6
  <2> QED
    BY <1>7, <2>1, <2>2
<1> QED
  BY <1>5, <1>6, <1>8 DEF Kept

LEMMA SerialStep ==
    Serial /\ SerialInv /\ [AccountsNext]_accountVars => SerialInv'
<1> SUFFICES ASSUME Serial, SerialInv, [AccountsNext]_accountVars PROVE SerialInv'
  OBVIOUS
<1>0. TypeInv' /\ TypeInv
  BY TypeStep DEF SerialInv
<1>1. ASSUME NEW t \in Threads, Exact(t)', \A m \in Members : Kept(m)'
      PROVE  SerialInv'
  <2>1. \A u \in Threads : Exact(u)'
    BY <1>1 DEF Serial
  <2> QED
    BY <1>0, <1>1, <2>1 DEF SerialInv
<1>2. UNCHANGED <<member, strikes, used>> /\ chosen' = chosen => \A m \in Members : Kept(m)'
  BY DEF SerialInv, Kept
<1>3. ASSUME NEW t \in Threads, NEW m \in Members, NEW todo, NEW call,
             NEW new \in Passwords \cup {NoPassword}, NEW logsIn \in BOOLEAN,
             Shaped(todo, new), Starts(t, call, m, todo, new, logsIn)
      PROVE  SerialInv'
  <2> DEFINE q == Request(m, todo, new, logsIn)
  <2>1. request' = [request EXCEPT ![t] = q]
        /\ UNCHANGED <<member, session, strikes, used, chosen>>
    BY <1>3 DEF Starts
  <2>2. q.todo = todo /\ q.copy = NotRead
    BY <1>3, NewRequest
  <2> HIDE DEF q
  <2>3. request'[t] = q
    BY <1>0, <2>1 DEF TypeInv, AccountsTypeOK
  <2>4. Exact(t)'
    BY <1>3, <2>2, <2>3 DEF Exact, Shaped
  <2> QED
    BY <1>1, <1>2, <2>1, <2>4
<1>4. CASE AccountPress
  <2>1. CASE /\ session' \in Members \cup {Factory, Nobody}
             /\ UNCHANGED <<member, request, strikes, used, chosen>>
    <3>1. \A t \in Threads : Exact(t)'
      BY <2>1 DEF SerialInv, Exact
    <3> QED
      BY <1>0, <1>2, <2>1, <3>1 DEF SerialInv
  <2>2. session \in Members \cup {Factory, Nobody}
    BY <1>0 DEF TypeInv, AccountsTypeOK
  <2> QED
    BY <1>3, <1>4, <2>1, <2>2, PressShape
<1>5. ASSUME NEW t \in Threads, ReadsMember(t) PROVE SerialInv'
  <2> DEFINE q == request[t]
             r == [q EXCEPT !.copy = member[q.who]]
  <2>1. /\ q # Idle /\ q.todo # <<>> /\ RequestOK(q) /\ Exact(t)
        /\ request'[t] = Idle \/ (request'[t] = r /\ ~Refused(member[q.who], Head(q.todo), q.new))
        /\ UNCHANGED <<member, session, strikes, used, chosen>>
    BY <1>0, <1>5 DEF ReadsMember, Busy, TypeInv, AccountsTypeOK, SerialInv
  <2>2. q \in RequestType /\ q.todo \in Seq(Updates) /\ q.who \in Members
    BY <2>1 DEF RequestOK, RequestType
  <2>3. /\ r.todo = q.todo /\ r.who = q.who /\ r.new = q.new
        /\ r.copy = member[q.who]
    BY <2>2 DEF RequestType
  <2>4. Head(q.todo) = q.todo[1]
    BY <2>1, <2>2, RestOfUpdates
  <2>5. ~Refused(member[q.who], Head(q.todo), q.new) =>
          (q.todo[1] \in {"reset", "set"} =>
             /\ q.new # member[q.who].password
             /\ q.new \notin Range(member[q.who].history))
    BY <2>4 DEF Refused, ReusesRecent
  <2>6. Exact(t)'
    <3>1. CASE request'[t] = Idle
      BY <3>1 DEF Exact
    <3>2. CASE request'[t] = r /\ ~Refused(member[q.who], Head(q.todo), q.new)
      <4> HIDE DEF r
      <4>1. \A i \in 1 .. Len(r.todo) :
              r.todo[i] = "clear" =>
                \/ i = 1 /\ chosen'[r.who]
                \/ i > 1 /\ r.todo[i - 1] = "set"
        BY <2>1, <2>3 DEF Exact
      <4>2. /\ Agree(r.copy, member'[r.who])
            /\ r.todo[1] \in {"reset", "set"} =>
                 r.new # r.copy.password /\ r.new \notin Range(r.copy.history)
        BY <2>1, <2>3, <2>5, <3>2 DEF Agree
      <4> HIDE DEF q
      <4> QED
        BY <3>2, <4>1, <4>2 DEF Exact
    <3> QED
      BY <2>1, <3>1, <3>2
  <2> QED
    BY <1>1, <1>2, <2>1, <2>6
<1>6. ASSUME NEW t \in Threads, NEW g \in Roles, SavesMember(t, g) PROVE SerialInv'
  <2> DEFINE q == request[t]
  <2>1. q # Idle /\ q.todo # <<>> /\ RequestOK(q) /\ Exact(t)
    BY <1>0, <1>6 DEF SavesMember, Busy, TypeInv, SerialInv
  <2>2. q \in RequestType /\ q.todo \in Seq(Updates)
    BY <2>1 DEF RequestOK, RequestType
  <2>3. PICK m \in Members : m = q.who
    BY <2>2 DEF RequestType
  <2>4. PICK u \in Updates : u = Head(q.todo)
    BY <2>1, <2>2, RestOfUpdates
  <2>5. SavedAs(t, m, u)
    BY <1>6, <2>3, <2>4, SaveFields
  <2>6. Kept(m)'
    BY <1>6, <2>3, SaveKeeps
  <2>7. ASSUME NEW o \in Members PROVE Kept(o)'
    <3>1. CASE o = m
      BY <2>6, <3>1
    <3>2. CASE o # m
      <4>1. /\ member'[o] = member[o] /\ strikes'[o] = strikes[o]
            /\ used'[o] = used[o] /\ chosen'[o] = chosen[o]
        BY <2>5, <3>2 DEF SavedAs
      <4>2. Kept(o)
        BY DEF SerialInv
      <4> QED
        BY <4>1, <4>2 DEF Kept
    <3> QED
      BY <3>1, <3>2
  <2>8. Exact(t)'
    <3> DEFINE r == Remains(q)
               rest == Tail(q.todo)
    <3>1. request'[t] = r
      BY <1>0, <2>5 DEF SavedAs, TypeInv, AccountsTypeOK
    <3>2. r # Idle => r.todo = rest /\ r.who = m /\ r.copy = NotRead
      BY <2>2, <2>3 DEF Remains, RequestType
    <3>3. /\ rest \in Seq(Updates) /\ Head(q.todo) = q.todo[1]
          /\ \A i \in 1 .. Len(rest) : i + 1 \in 1 .. Len(q.todo) /\ rest[i] = q.todo[i + 1]
      BY <2>1, <2>2, RestOfUpdates
    <3>4. \A i \in 1 .. Len(q.todo) :
            q.todo[i] = "clear" => i = 1 \/ (i > 1 /\ q.todo[i - 1] = "set")
      BY <2>1 DEF Exact
    <3>5. u = "set" => chosen'[m]
      BY <2>5 DEF SavedAs
    <3> HIDE DEF r, rest
    <3>6. ASSUME NEW i \in 1 .. Len(rest), rest[i] = "clear"
          PROVE  \/ i = 1 /\ chosen'[m]
                 \/ i > 1 /\ rest[i - 1] = "set"
      <4>1. i + 1 \in 1 .. Len(q.todo) /\ q.todo[i + 1] = "clear" /\ i >= 1 /\ i \in Nat
        BY <3>3, <3>6
      <4>2. q.todo[i] = "set"
        <5>1. (i + 1) - 1 = i /\ i + 1 # 1
          BY <4>1
        <5> QED
          BY <3>4, <4>1, <5>1
      <4>3. CASE i = 1
        BY <2>4, <3>3, <3>5, <4>2, <4>3
      <4>4. CASE i > 1
        <5>1. i - 1 \in 1 .. Len(rest) /\ (i - 1) + 1 = i
          BY <4>1, <4>4, <3>3
        <5>2. rest[i - 1] = q.todo[(i - 1) + 1]
          BY <3>3, <5>1
        <5> QED
          BY <4>2, <4>4, <5>1, <5>2
      <4> QED
        BY <4>1, <4>3, <4>4
    <3> HIDE DEF q
    <3> QED
      BY <3>1, <3>2, <3>6 DEF Exact
  <2> QED
    BY <1>1, <2>7, <2>8
<1>7. ASSUME NEW t \in Threads, RefusesEdit(t) \/ BeginsSession(t) PROVE SerialInv'
  <2>1. request'[t] = Idle /\ UNCHANGED <<member, strikes, used, chosen>>
    BY <1>0, <1>7 DEF RefusesEdit, BeginsSession, TypeInv, AccountsTypeOK
  <2>2. Exact(t)'
    BY <2>1 DEF Exact
  <2> QED
    BY <1>1, <1>2, <2>1, <2>2
<1>8. ASSUME NEW m \in Members, PasswordExpires(m) PROVE SerialInv'
  <2>1. member' = [member EXCEPT ![m] = [member[m] EXCEPT !.expired = TRUE]]
        /\ UNCHANGED <<session, request, strikes, used, chosen>>
    BY <1>8 DEF PasswordExpires
  <2>2. \A o \in Members : Agree(member'[o], member[o])
    BY <1>0, <2>1 DEF TypeInv, AccountsTypeOK, Record, Agree
  <2>3. \A o \in Members : Kept(o)'
    BY <2>1, <2>2 DEF SerialInv, Kept, Agree
  <2>4. ASSUME NEW t \in Threads PROVE Exact(t)'
    <3>1. Exact(t) /\ (request[t] # Idle => request[t].who \in Members)
      BY <1>0 DEF SerialInv, TypeInv, RequestOK, RequestType
    <3> QED
      BY <2>1, <2>2, <3>1 DEF Exact, Agree
  <2> QED
    BY <1>0, <2>3, <2>4 DEF SerialInv
<1>9. CASE UNCHANGED accountVars
  <2>1. UNCHANGED <<member, request, strikes, used, chosen>>
    BY <1>9 DEF accountVars
  <2>2. \A t \in Threads : Exact(t)'
    BY <2>1 DEF SerialInv, Exact
  <2> QED
    BY <1>0, <1>2, <2>1, <2>2 DEF SerialInv
<1> QED
  BY <1>4, <1>5, <1>6, <1>7, <1>8, <1>9 DEF AccountsNext, AccountProgress

\* Only a save changes the status of an account, its passwords or its count.
LEMMA OnlySaves ==
    ASSUME SerialInv, [AccountsNext]_accountVars
    PROVE  \/ /\ UNCHANGED <<strikes, used>>
              /\ \A m \in Members : member'[m].status = member[m].status
           \/ \E t \in Threads, m \in Members, u \in Updates, g \in Roles :
                /\ SavesMember(t, g) /\ SavedAs(t, m, u)
                /\ m = request[t].who /\ u = Head(request[t].todo)
<1> DEFINE Same == /\ UNCHANGED <<strikes, used>>
                   /\ \A m \in Members : member'[m].status = member[m].status
<1>1. member \in [Members -> Record] /\ session \in Members \cup {Factory, Nobody}
  BY DEF SerialInv, TypeInv, AccountsTypeOK
<1>2. CASE AccountPress
  <2>1. UNCHANGED <<member, strikes, used>>
    BY <1>1, <1>2, PressShape DEF Starts
  <2> QED
    BY <2>1
<1>3. ASSUME NEW t \in Threads, ReadsMember(t) \/ RefusesEdit(t) \/ BeginsSession(t)
      PROVE  Same
  BY <1>3 DEF ReadsMember, RefusesEdit, BeginsSession
<1>4. ASSUME NEW m \in Members, PasswordExpires(m) PROVE Same
  BY <1>1, <1>4 DEF PasswordExpires, Record
<1>5. ASSUME NEW t \in Threads, NEW g \in Roles, SavesMember(t, g)
      PROVE  \E m \in Members, u \in Updates :
               /\ SavedAs(t, m, u) /\ m = request[t].who /\ u = Head(request[t].todo)
  <2>1. /\ request[t] # Idle /\ request[t].todo # <<>>
        /\ request[t].todo \in Seq(Updates) /\ request[t].who \in Members
    BY <1>5 DEF SerialInv, TypeInv, SavesMember, Busy, RequestOK, RequestType
  <2>2. PICK m \in Members, u \in Updates :
          m = request[t].who /\ u = Head(request[t].todo)
    BY <2>1, RestOfUpdates
  <2>3. SavedAs(t, m, u)
    BY <1>5, <2>2, SaveFields
  <2> QED
    BY <2>2, <2>3
<1>6. CASE UNCHANGED accountVars
  BY <1>6 DEF accountVars
<1> HIDE DEF Same
<1>7. Same \/ \E t \in Threads, g \in Roles : SavesMember(t, g)
  <2>1. CASE AccountPress
    BY <1>2, <2>1 DEF Same
  <2>2. CASE UNCHANGED accountVars
    BY <1>6, <2>2 DEF Same
  <2>3. CASE AccountProgress
    BY <1>3, <1>4, <2>3 DEF AccountProgress
  <2> QED
    BY <2>1, <2>2, <2>3 DEF AccountsNext
<1>8. CASE \E t \in Threads, g \in Roles : SavesMember(t, g)
  <2>1. PICK t \in Threads, g \in Roles : SavesMember(t, g)
    BY <1>8
  <2>2. PICK m \in Members, u \in Updates :
          /\ SavedAs(t, m, u) /\ m = request[t].who /\ u = Head(request[t].todo)
    BY <1>5, <2>1
  <2> QED
    BY <2>1, <2>2
<1> QED
  BY <1>7, <1>8 DEF Same

(***************************************************************************)
(* With one request at a time, an account whose password its owner has not *)
(* set must change it before anything else, whichever sequence of edits,   *)
(* unlocks, resets and changes came before.                                *)
(***************************************************************************)
THEOREM CommitmentHolds ==
    ASSUME Serial
    PROVE  AccountsSpec => []MustUntilChosen
<1>1. SerialInv => MustUntilChosen
  BY DEF SerialInv, Kept, MustUntilChosen
<1>2. SerialInv /\ [AccountsNext]_accountVars => SerialInv'
  BY SerialStep
<1> QED
  BY <1>1, <1>2, SerialInit, PTL DEF AccountsSpec

(***************************************************************************)
(* With one request at a time, no route sets a password that is one of the *)
(* last HistoryLimit + 1 of the account.                                   *)
(***************************************************************************)
THEOREM PasswordsDiffer ==
    ASSUME Serial
    PROVE  AccountsSpec => NoRecentPassword
<1> DEFINE New == \A m \in Members :
                    used'[m] # used[m] =>
                      \A i \in DOMAIN used[m] :
                        i <= HistoryLimit + 1 => used'[m][1] # used[m][i]
<1>1. ASSUME SerialInv, [AccountsNext]_accountVars PROVE New
  <2>1. CASE UNCHANGED <<strikes, used>>
    BY <2>1
  <2>2. ASSUME NEW t \in Threads, NEW m \in Members, NEW u \in Updates, SavedAs(t, m, u)
        PROVE  New
    <3> DEFINE p == request[t].new
    <3>1. /\ \A o \in Members \ {m} : used'[o] = used[o]
          /\ \/ used'[m] = used[m]
             \/ /\ p # member[m].password /\ p \notin Range(member[m].history)
                /\ used'[m] = <<p>> \o used[m] /\ p \in Passwords
      BY <2>2 DEF SavedAs
    <3>2. Kept(m) /\ used[m] \in Seq(Passwords) /\ member[m] \in Record
      BY <1>1 DEF SerialInv, TypeInv, AccountsTypeOK
    <3> HIDE DEF p
    <3>3. ASSUME used'[m] = <<p>> \o used[m], p \in Passwords,
                 p # member[m].password, p \notin Range(member[m].history),
                 NEW i \in DOMAIN used[m], i <= HistoryLimit + 1
          PROVE  used'[m][1] # used[m][i]
      <4>1. used'[m][1] = p
        BY <3>2, <3>3, OneMoreUsed
      <4>2. i \in 1 .. Len(used[m]) /\ Len(used[m]) \in Nat /\ DOMAIN used[m] = 1 .. Len(used[m])
        BY <3>2, <3>3
      <4>3. CASE i = 1
        BY <3>2, <3>3, <4>1, <4>3 DEF Kept
      <4>4. CASE i # 1
        <5>1. i \in 2 .. Len(used[m])
          BY <4>2, <4>4
        <5>2. /\ i - 1 \in 1 .. Len(member[m].history)
              /\ member[m].history[i - 1] = used[m][i]
          BY <3>2, <3>3, <5>1 DEF Kept
        <5>3. member[m].history \in Seq(Passwords)
          BY <3>2 DEF Record
        <5>4. i - 1 \in DOMAIN member[m].history
          BY <5>2, <5>3
        <5>5. used[m][i] \in Range(member[m].history)
          BY <5>2, <5>4 DEF Range
        <5> QED
          BY <3>3, <4>1, <5>5
      <4> QED
        BY <4>3, <4>4
    <3> QED
      BY <3>1, <3>3
  <2> QED
    BY <1>1, <2>1, <2>2, OnlySaves
<1>2. SerialInv /\ [AccountsNext]_accountVars => SerialInv'
  BY SerialStep
<1>3. SerialInv /\ [AccountsNext]_accountVars => [New]_accountVars
  BY <1>1
<1>4. NoRecentPassword <=> [][New]_accountVars
  BY DEF NoRecentPassword
<1> HIDE DEF New
<1> QED
  BY <1>2, <1>3, <1>4, SerialInit, PTL DEF AccountsSpec

(***************************************************************************)
(* With one request at a time, the third wrong password since a login, a   *)
(* reset or an unlock leaves the account locked or disabled.               *)
(***************************************************************************)
THEOREM StrikesAreKept ==
    ASSUME Serial
    PROVE  AccountsSpec => StrikesLock
<1> DEFINE Locks == \A m \in Members :
                      strikes'[m] > strikes[m] /\ strikes'[m] >= MaxAttempts =>
                        member'[m].status # "active"
<1>1. ASSUME SerialInv, [AccountsNext]_accountVars PROVE Locks
  <2>0. strikes \in [Members -> Nat] /\ member \in [Members -> Record]
    BY <1>1 DEF SerialInv, TypeInv, AccountsTypeOK
  <2>1. CASE UNCHANGED <<strikes, used>>
    BY <2>0, <2>1
  <2>2. ASSUME NEW t \in Threads, NEW m \in Members, NEW u \in Updates, SavedAs(t, m, u)
        PROVE  Locks
    <3>1. /\ \A o \in Members \ {m} : strikes'[o] = strikes[o]
          /\ strikes'[m] = IF u = "failed" THEN strikes[m] + 1
                           ELSE IF u \in {"succeeded", "unlock"} THEN 0 ELSE strikes[m]
          /\ u = "failed" => member'[m].failed = member[m].failed + 1
          /\ u = "failed" /\ member'[m].failed >= MaxAttempts
               => member'[m].status # "active"
      BY <2>2 DEF SavedAs
    <3>2. strikes[m] <= member[m].failed /\ member[m].failed \in Nat
      BY <1>1, <2>0 DEF SerialInv, Kept, Record
    <3> QED
      BY <2>0, <3>1, <3>2 DEF MaxAttempts
  <2> QED
    BY <1>1, <2>1, <2>2, OnlySaves
<1>2. SerialInv /\ [AccountsNext]_accountVars => SerialInv'
  BY SerialStep
<1>3. SerialInv /\ [AccountsNext]_accountVars => [Locks]_accountVars
  BY <1>1
<1>4. StrikesLock <=> [][Locks]_accountVars
  BY DEF StrikesLock
<1> HIDE DEF Locks
<1> QED
  BY <1>2, <1>3, <1>4, SerialInit, PTL DEF AccountsSpec

(***************************************************************************)
(* With one request at a time, a locked or disabled account becomes active *)
(* only by an unlock or an enable of it.                                   *)
(***************************************************************************)
THEOREM LocksHold ==
    ASSUME Serial
    PROVE  AccountsSpec => NoSilentUnlock
<1> DEFINE Opens == \A m \in Members :
                      member[m].status # "active" /\ member'[m].status = "active" =>
                        \E t \in Threads : /\ request[t] # Idle /\ request[t].who = m
                                           /\ request[t].todo # <<>>
                                           /\ Head(request[t].todo) \in {"unlock", "enable"}
                                           /\ request'[t] # request[t]
<1>1. ASSUME SerialInv, [AccountsNext]_accountVars PROVE Opens
  <2>1. CASE \A m \in Members : member'[m].status = member[m].status
    BY <2>1
  <2>2. ASSUME NEW t \in Threads, NEW m \in Members, NEW u \in Updates, NEW g \in Roles,
               SavesMember(t, g), SavedAs(t, m, u),
               m = request[t].who, u = Head(request[t].todo)
        PROVE  Opens
    <3> DEFINE q == request[t]
    <3>1. /\ \A o \in Members \ {m} : member'[o] = member[o]
          /\ q # Idle /\ q.todo # <<>>
          /\ member[m].status # "active" /\ member'[m].status = "active"
               => u \in {"unlock", "enable"}
          /\ request' = [request EXCEPT ![t] = Remains(q)]
      BY <2>2 DEF SavedAs
    <3>2. q.copy # NotRead
      BY <2>2 DEF SavesMember
    <3>3. q \in RequestType /\ request \in [Threads -> RequestType \cup {Idle}]
      BY <1>1, <3>1 DEF SerialInv, TypeInv, RequestOK, AccountsTypeOK
    <3>4. Remains(q) = Idle \/ Remains(q).copy = NotRead
      BY <3>3 DEF Remains, RequestType
    <3>5. request'[t] # request[t]
      BY <3>1, <3>2, <3>3, <3>4
    <3> QED
      BY <2>2, <3>1, <3>5
  <2> QED
    BY <1>1, <2>1, <2>2, OnlySaves
<1>2. SerialInv /\ [AccountsNext]_accountVars => SerialInv'
  BY SerialStep
<1>3. SerialInv /\ [AccountsNext]_accountVars => [Opens]_accountVars
  BY <1>1
<1>4. NoSilentUnlock <=> [][Opens]_accountVars
  BY DEF NoSilentUnlock
<1> HIDE DEF Opens
<1> QED
  BY <1>2, <1>3, <1>4, SerialInit, PTL DEF AccountsSpec

=============================================================================
