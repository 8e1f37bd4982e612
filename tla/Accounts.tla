------------------------------ MODULE Accounts ------------------------------
(***************************************************************************)
(* The requests that change an account or the session: login, the two      *)
(* password resets, the change of one's own password, and what an          *)
(* administrator does (unlock, disable, enable, edit).                     *)
(*                                                                         *)
(* Every route is a CHECK of the account followed by a list of updates of  *)
(* data_service.py; an update READS the account and later SAVES the copy   *)
(* it has changed, and nothing holds a lock in between.  The edit of a     *)
(* profile is such an update stretched over two requests: the page reads   *)
(* the account, and sends it back.                                         *)
(*                                                                         *)
(* A refused request changes nothing and is not modelled.                  *)
(***************************************************************************)
EXTENDS MemberRecord

CONSTANTS Members,      \* the accounts
          Factory,      \* the built-in user, who has no account
          Nobody,       \* no session
          Threads,      \* requests the server may be handling at once
          Calls,        \* the routes that are used
          MaxChanges,   \* bound: changes of an account's password
          MaxFailures   \* bound: wrong passwords an account has counted

ASSUME MembersAssumption == Factory \notin Members /\ Nobody \notin Members
ASSUME ThreadsAssumption == Threads # {}

VARIABLES member,   \* members.json
          session,  \* _current_user
          request,  \* what each thread still has to do
          strikes,  \* history: wrong passwords since a login, a reset or an unlock
          used,     \* history: the passwords an account has had, newest first
          chosen    \* history: its password was set by its owner

accountVars == <<member, session, request, strikes, used, chosen>>

Updates == {"failed", "succeeded", "reset", "set", "clear", "unlock",
            "disable", "enable", "unlink", "edit"}

Idle == [who |-> Nobody]
NotRead == [read |-> FALSE]

Request(m, todo, new, logsIn) ==
    [who |-> m, todo |-> todo, new |-> new, logsIn |-> logsIn, copy |-> NotRead]

AccountsInit ==
    /\ \E p \in Passwords, g \in [Members -> Roles] :
         /\ member = [m \in Members |-> Created(p, TRUE, g[m])]
         /\ used = [m \in Members |-> <<p>>]
    /\ session = Nobody
    /\ request = [t \in Threads |-> Idle]
    /\ strikes = [m \in Members |-> 0]
    /\ chosen = [m \in Members |-> FALSE]

Starts(t, call, m, todo, new, logsIn) ==
    /\ call \in Calls
    /\ new # NoPassword => Len(used[m]) <= MaxChanges
    /\ request[t] = Idle
    /\ request' = [request EXCEPT ![t] = Request(m, todo, new, logsIn)]
    /\ UNCHANGED <<member, session, strikes, used, chosen>>

-----------------------------------------------------------------------------
(* The routes.                                                             *)

\* the kiosk shows its login screen
AtLogin == session = Nobody

LoginWrong(t, m) ==
    /\ AtLogin
    /\ member[m].status = "active" /\ member[m].failed < MaxFailures
    /\ Starts(t, "wrong", m, <<"failed">>, NoPassword, FALSE)

Login(t, m) ==
    /\ AtLogin
    /\ member[m].status = "active" /\ ~member[m].must /\ ~member[m].expired
    /\ Starts(t, "login", m, <<"succeeded">>, NoPassword, TRUE)

\* a fingerprint does not ask whether the password has expired
LoginBiometric(t, m) ==
    /\ AtLogin
    /\ member[m].status = "active" /\ ~member[m].must /\ member[m].finger
    /\ Starts(t, "biometric", m, <<"succeeded">>, NoPassword, TRUE)

\* neither reset asks for the status of the account
MandatoryReset(t, m, p) ==
    /\ AtLogin
    /\ member[m].must /\ p \notin {member[m].password, member[m].commitment}
    /\ Starts(t, "mandatory", m, <<"reset", "succeeded">>, p, TRUE)

ExpiredReset(t, m, p) ==
    /\ AtLogin
    /\ member[m].expired /\ p # member[m].password
    /\ Starts(t, "expired", m, <<"set", "clear", "succeeded">>, p, FALSE)

ChangePassword(t, p) ==
    /\ session \in Members /\ p # member[session].password
    /\ Starts(t, "change", session, <<"set", "clear">>, p, FALSE)

Manages == session = Factory \/ (session \in Members /\ "manage" \in member[session].grants)

Unlock(t, m) == Manages /\ Starts(t, "unlock", m, <<"unlock">>, NoPassword, FALSE)

\* the sensor deletes the template before the account is touched
Disable(t, m) ==
    /\ Manages
    /\ Starts(t, "disable", m,
              IF member[m].finger THEN <<"unlink", "disable">> ELSE <<"disable">>,
              NoPassword, FALSE)

Enable(t, m) == Manages /\ Starts(t, "enable", m, <<"enable">>, NoPassword, FALSE)

\* the page reads the account; one's own profile has only a name to change
EditProfile(t, m, p) ==
    /\ Manages /\ m # session
    /\ Starts(t, "edit", m, <<"edit">>, p, FALSE)

Logout ==
    /\ session # Nobody
    /\ session' = Nobody
    /\ UNCHANGED <<member, request, strikes, used, chosen>>

LoginFactory ==
    /\ session = Nobody
    /\ session' = Factory
    /\ UNCHANGED <<member, request, strikes, used, chosen>>

\* the policy's next cycle begins
PasswordExpires(m) ==
    /\ "expired" \in Calls /\ ~member[m].expired
    /\ member' = [member EXCEPT ![m].expired = TRUE]
    /\ UNCHANGED <<session, request, strikes, used, chosen>>

-----------------------------------------------------------------------------
(* The updates.                                                            *)

Busy(t) == request[t] # Idle /\ request[t].todo # <<>>

\* what apply_password_change_to_member and its callers refuse
Refused(r, update, new) ==
    \/ update = "reset" /\ (~r.must \/ ReusesRecent(r, new))
    \/ update = "set" /\ ReusesRecent(r, new)

ReadsMember(t) ==
    LET q == request[t]
    IN  /\ Busy(t) /\ q.copy = NotRead
        /\ request' = [request EXCEPT ![t] =
                         IF Refused(member[q.who], Head(q.todo), q.new) THEN Idle
                         ELSE [q EXCEPT !.copy = member[q.who]]]
        /\ UNCHANGED <<member, session, strikes, used, chosen>>

Updated(update, copy, stored, new, g) ==
    CASE update = "failed"    -> FailedLogin(copy)
      [] update = "succeeded" -> SuccessfulLogin(copy)
      [] update = "reset"     -> CommitmentCleared(PasswordChanged(copy, new))
      [] update = "set"       -> PasswordChanged(copy, new)
      [] update = "clear"     -> CommitmentCleared(copy)
      [] update = "unlock"    -> Unlocked(copy)
      [] update = "disable"   -> Disabled(copy)
      [] update = "enable"    -> Enabled(copy)
      [] update = "unlink"    -> FingerCleared(copy)
      [] update = "edit"      -> Edited(copy, stored, new, g)

\* _save_member_record; g is what an edit makes of the permissions
SavesMember(t, g) ==
    LET q == request[t]
        update == Head(q.todo)
        stored == member[q.who]
        saved == Normalised(Updated(update, q.copy, stored, q.new, g))
        rest == Tail(q.todo)
    IN  /\ Busy(t) /\ q.copy # NotRead
        /\ update # "edit" => g = stored.grants
        /\ update = "edit" => ~EditReuses(stored, q.new)
        /\ member' = [member EXCEPT ![q.who] = saved]
        /\ used' = [used EXCEPT ![q.who] =
                      IF saved.password = @[1] THEN @ ELSE <<saved.password>> \o @]
        /\ strikes' = [strikes EXCEPT ![q.who] =
                         IF update = "failed" THEN @ + 1
                         ELSE IF update \in {"succeeded", "unlock"} THEN 0 ELSE @]
        /\ chosen' = [chosen EXCEPT ![q.who] =
                        \/ update \in {"reset", "set"}
                        \/ @ /\ update # "unlock" /\ saved.password = stored.password]
        /\ request' = [request EXCEPT ![t] =
                         IF rest = <<>> /\ ~q.logsIn THEN Idle
                         ELSE [q EXCEPT !.todo = rest, !.copy = NotRead]]
        /\ UNCHANGED session

\* the edited profile repeats a recent password and is refused
RefusesEdit(t) ==
    LET q == request[t]
    IN  /\ Busy(t) /\ q.copy # NotRead /\ Head(q.todo) = "edit"
        /\ EditReuses(member[q.who], q.new)
        /\ request' = [request EXCEPT ![t] = Idle]
        /\ UNCHANGED <<member, session, strikes, used, chosen>>

BeginsSession(t) ==
    /\ request[t] # Idle /\ request[t].todo = <<>>
    /\ session' = request[t].who
    /\ request' = [request EXCEPT ![t] = Idle]
    /\ UNCHANGED <<member, strikes, used, chosen>>

\* what somebody does at the kiosk
AccountPress ==
    \/ \E t \in Threads, m \in Members :
          \/ LoginWrong(t, m) \/ Login(t, m) \/ LoginBiometric(t, m)
          \/ Unlock(t, m) \/ Disable(t, m) \/ Enable(t, m)
          \/ \E p \in Passwords : MandatoryReset(t, m, p) \/ ExpiredReset(t, m, p)
          \/ \E p \in Passwords \cup {NoPassword} : EditProfile(t, m, p)
    \/ \E t \in Threads, p \in Passwords : ChangePassword(t, p)
    \/ Logout \/ LoginFactory

\* what goes on by itself
AccountProgress ==
    \/ \E t \in Threads :
          \/ \E g \in Roles : SavesMember(t, g)
          \/ ReadsMember(t) \/ RefusesEdit(t) \/ BeginsSession(t)
    \/ \E m \in Members : PasswordExpires(m)

AccountsNext == AccountPress \/ AccountProgress

AccountsSpec == AccountsInit /\ [][AccountsNext]_accountVars

-----------------------------------------------------------------------------

RequestType ==
    [who : Members, todo : Seq(Updates), new : Passwords \cup {NoPassword},
     logsIn : BOOLEAN, copy : Record \cup {NotRead}]

\* Accounts, requests and histories are what they are said to be, and an
\* account never keeps more than HistoryLimit former passwords.
AccountsTypeOK ==
    /\ member \in [Members -> Record]
    /\ \A m \in Members : Len(member[m].history) <= HistoryLimit
    /\ session \in Members \cup {Factory, Nobody}
    /\ request \in [Threads -> RequestType \cup {Idle}]
    /\ strikes \in [Members -> Nat]
    /\ used \in [Members -> Seq(Passwords)]
    /\ chosen \in [Members -> BOOLEAN]

(***************************************************************************)
(* A password that somebody else has set, or that an administrator has     *)
(* called in by unlocking the account, must be changed before anything     *)
(* else, whichever way it was set (mustChangePassword of save_member,      *)
(* unlock_member and the three routes that clear it).                      *)
(***************************************************************************)
MustUntilChosen == \A m \in Members : ~chosen[m] => member[m].must

(***************************************************************************)
(* A new password, whoever sets it and on whichever route, is none of the  *)
(* account's last HistoryLimit + 1 (the current one and the history):      *)
(* "New password must not match any of your last 5 passwords."             *)
(***************************************************************************)
NoRecentPassword ==
    [][\A m \in Members :
         used'[m] # used[m] =>
           \A i \in DOMAIN used[m] :
             i <= HistoryLimit + 1 => used'[m][1] # used[m][i]]_accountVars

(***************************************************************************)
(* The third wrong password since the last login, reset or unlock leaves   *)
(* the account locked or disabled, whatever an administrator did to it in  *)
(* between: enabling and editing keep the count (record_failed_login).     *)
(***************************************************************************)
StrikesLock ==
    [][\A m \in Members :
         strikes'[m] > strikes[m] /\ strikes'[m] >= MaxAttempts =>
           member'[m].status # "active"]_accountVars

(***************************************************************************)
(* A locked or disabled account becomes active only by the administrator's *)
(* unlock or enable: "Do not silently unlock locked accounts; admin must   *)
(* unlock." (record_successful_login)                                      *)
(***************************************************************************)
NoSilentUnlock ==
    [][\A m \in Members :
         member[m].status # "active" /\ member'[m].status = "active" =>
           \E t \in Threads : /\ request[t] # Idle /\ request[t].who = m
                              /\ request[t].todo # <<>>
                              /\ Head(request[t].todo) \in {"unlock", "enable"}
                              /\ request'[t] # request[t]]_accountVars

=============================================================================
