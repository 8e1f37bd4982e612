---------------------------- MODULE MemberRecord ----------------------------
(***************************************************************************)
(* One account of members.json and what data_service.py makes of it: the   *)
(* lock after three wrong passwords, the password history, the commitment  *)
(* to a password somebody else has set.  Every operator takes the record   *)
(* as it was READ and gives the record that is SAVED; that the two moments *)
(* are not one is the business of Accounts.                                *)
(***************************************************************************)
EXTENDS Naturals, Sequences, Functions

CONSTANTS Passwords,     \* what a password can be; all of them strong enough
          NoPassword,    \* no commitment
          HistoryLimit,  \* PASSWORD_HISTORY_LIMIT
          Grants,        \* the permissions there are
          Roles          \* the sets of them an account is given

ASSUME HistoryLimitAssumption == HistoryLimit \in Nat \ {0}
ASSUME RolesAssumption == Roles \subseteq SUBSET Grants
ASSUME NoPasswordAssumption == NoPassword \notin Passwords

Statuses == {"active", "locked", "disabled"}

MaxAttempts == 3

Record == [status   : Statuses,
           failed   : Nat,
           must     : BOOLEAN,                       \* mustChangePassword
           password : Passwords,
           commitment : Passwords \cup {NoPassword}, \* creationPasswordHash
           history  : Seq(Passwords),                \* newest first
           expired  : BOOLEAN,       \* last changed before the policy's cycle
           finger   : BOOLEAN,       \* a fingerprint template is linked
           grants   : SUBSET Grants]

Created(p, finger, g) ==
    [status |-> "active", failed |-> 0, must |-> TRUE, password |-> p,
     commitment |-> p, history |-> <<>>, expired |-> FALSE,
     finger |-> finger, grants |-> g]

\* a password that must be changed is always committed to
Normalised(r) ==
    [r EXCEPT !.commitment = IF r.must /\ @ = NoPassword THEN r.password ELSE @]

\* mutant: a change looks at the current password only
ReusesCurrent(r, p) == p \in {r.password, r.commitment}

ReusesRecent(r, p) ==
    p \in {r.password, r.commitment} \cup Range(r.history)

Newest(s) == SubSeq(s, 1, IF Len(s) < HistoryLimit THEN Len(s) ELSE HistoryLimit)

\* mutant: the history is never trimmed
PushedWhole(r) == <<r.password>> \o r.history

Pushed(r) == Newest(<<r.password>> \o r.history)

\* apply_password_change_to_member; the caller has asked ReusesRecent
PasswordChanged(r, p) ==
    [r EXCEPT !.history = Pushed(r), !.password = p, !.expired = FALSE]

CommitmentCleared(r) == [r EXCEPT !.commitment = NoPassword, !.must = FALSE]

FailedLogin(r) ==
    [r EXCEPT !.failed = @ + 1,
              !.status = IF r.failed + 1 >= MaxAttempts /\ @ = "active"
                           THEN "locked" ELSE @]

\* mutant: a login puts the account in order
SuccessfulUnlock(r) == [r EXCEPT !.failed = 0, !.status = "active"]

SuccessfulLogin(r) == [r EXCEPT !.failed = 0]

Unlocked(r) ==
    [r EXCEPT !.status = "active", !.failed = 0, !.must = TRUE,
              !.commitment = r.password]

Disabled(r) == [r EXCEPT !.status = "disabled"]

\* mutant: enabling forgives the wrong passwords
EnabledAfresh(r) == [r EXCEPT !.status = "active", !.failed = 0]

Enabled(r) == [r EXCEPT !.status = "active"]

FingerCleared(r) == [r EXCEPT !.finger = FALSE]

(***************************************************************************)
(* The edit page sends back the record it was given, without the password, *)
(* the commitment and the history, which the client never sees: those are  *)
(* of the record that is stored when the request lands, everything else is *)
(* as old as the page.  p is NoPassword when the page's field was empty.   *)
(***************************************************************************)
EditReuses(stored, p) == p # stored.password /\ p \in Range(stored.history)

\* mutant: the password somebody else has set need not be changed
EditedFinally(page, stored, p, g) ==
    LET kept == [page EXCEPT !.grants = g, !.password = stored.password,
                             !.commitment = stored.commitment,
                             !.history = stored.history]
    IN  IF p \in {NoPassword, stored.password}
          THEN Normalised(kept)
          ELSE [PasswordChanged(kept, p) EXCEPT !.commitment = p]

Edited(page, stored, p, g) ==
    LET kept == [page EXCEPT !.grants = g, !.password = stored.password,
                             !.commitment = stored.commitment,
                             !.history = stored.history]
    IN  IF p \in {NoPassword, stored.password}
          THEN Normalised(kept)
          ELSE [PasswordChanged(kept, p) EXCEPT !.must = TRUE, !.commitment = p]

=============================================================================
