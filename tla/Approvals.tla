----------------------------- MODULE Approvals -----------------------------
(***************************************************************************)
(* The second signature: somebody with the permission enters their         *)
(* credentials on the kiosk of the user who is logged in, the server       *)
(* answers with a token, and the page sends the token along with what is   *)
(* to be approved.                                                         *)
(*                                                                         *)
(* The page has ONE verification screen with ONE continuation              *)
(* (approvalVerifyResolve), shared by recipes and exports; the approval of *)
(* a report keeps its own.  A DEED is what the token is wanted for.  The   *)
(* accounts go on changing underneath; one request at a time changes them, *)
(* so that an update is one step here (Accounts has the two).              *)
(***************************************************************************)
EXTENDS MemberRecord, TLC

CONSTANTS Members,      \* the accounts
          Factory,      \* the built-in user, who has no account
          Nobody,       \* no session, no approver
          Reports,      \* reports waiting for their approval
          Recipes,      \* recipes waiting for theirs
          NoDeed,
          TTL,          \* APPROVAL_VERIFY_TTL_SECONDS, in ticks
          MaxTokens,    \* bound: tokens issued
          MaxHaste      \* bound: presses while a request is under way

ASSUME TTLAssumption == TTL \in Nat \ {0}

ASSUME BoundAssumption == MaxTokens \in Nat /\ MaxHaste \in Nat

ASSUME MembersAssumption == Factory \notin Members /\ Nobody \notin Members \cup {Factory}

VARIABLES member,    \* members.json
          session,   \* _current_user
          reports,   \* reports.json: type, operator, approver
          recipes,   \* recipes.json: who approved the recipe that waits
          tokens,    \* _approval_verify_tokens
          issued,    \* tokens issued so far
          shown,     \* the verification screen is shown
          awaiting,  \* the deed approvalVerifyResolve goes on with
          flights,   \* requests under way
          haste,     \* presses while a request was under way
          inactive   \* history: ticks since an account was last active

accountVars == <<member, session, inactive>>
vars == <<member, session, reports, recipes, tokens, issued, shown, awaiting,
          flights, haste, inactive>>

Users == Members \cup {Factory}

Deeds == [purpose : {"report"}, thing : Reports]
           \cup [purpose : {"recipe"}, thing : Recipes]
           \cup [purpose : {"export"}, thing : {NoDeed}]

ASSUME DeedAssumption == NoDeed \notin Deeds

Types == {"test", "validation"}

TypeOf(d) == IF d.purpose = "report" THEN reports[d.thing].type ELSE "none"

Permission(purpose, type) ==
    CASE purpose = "report"         -> IF type = "validation"
                                         THEN "validation-report-approve"
                                         ELSE "test-report-approve"
      [] purpose = "recipe"         -> "recipe-approve"
      [] purpose = "export"         -> "export-approve"

Has(u, permission) == u = Factory \/ (u \in Members /\ permission \in member[u].grants)

\* the owners of the accounts have changed the passwords they were given
Init ==
    /\ \E p \in Passwords, g \in [Members -> Roles] :
         member = [m \in Members |-> CommitmentCleared(Created(p, TRUE, g[m]))]
    /\ session = Nobody
    /\ reports \in [Reports -> [type : Types, operator : Users, approver : {Nobody}]]
    /\ recipes = [c \in Recipes |-> Nobody]
    /\ tokens = {} /\ issued = 0
    /\ shown = FALSE /\ awaiting = NoDeed /\ flights = {} /\ haste = 0
    /\ inactive = [m \in Members |-> 0]

-----------------------------------------------------------------------------
(* The page.                                                               *)

\* a press, which a request that is under way makes hasty
Presses ==
    /\ flights # {} => haste < MaxHaste
    /\ haste' = IF flights = {} THEN haste ELSE haste + 1

CountRequest(d) == [kind |-> "count", deed |-> d]

VerifyRequest(u, d) ==
    [kind |-> "verify", who |-> u, deed |-> d, type |-> TypeOf(d), press |-> haste']

\* the page says in a header who is logged in
DeedRequest(d, id) == [kind |-> "deed", deed |-> d, token |-> id, by |-> session]

\* mutant: the recipe list is still there under the screen
AskRecipeAnytime(c) ==
    /\ Presses /\ session # Nobody
    /\ flights' = flights \cup {CountRequest([purpose |-> "recipe", thing |-> c])}
    /\ UNCHANGED <<reports, recipes, tokens, issued, shown, awaiting, accountVars>>

\* the page counts the active QA users first (refreshActiveQaCount); the recipe
\* list and the approve dialog in it are hidden while the screen is shown
AskRecipe(c) ==
    /\ Presses /\ session # Nobody /\ ~shown
    /\ flights' = flights \cup {CountRequest([purpose |-> "recipe", thing |-> c])}
    /\ UNCHANGED <<reports, recipes, tokens, issued, shown, awaiting, accountVars>>

\* an earlier continuation is forgotten, not settled
Opens(d) == shown' = TRUE /\ awaiting' = d

CountAnswered(f) ==
    /\ f \in flights /\ f.kind = "count"
    /\ Opens(f.deed)
    /\ flights' = flights \ {f}
    /\ UNCHANGED <<reports, recipes, tokens, issued, haste, accountVars>>

\* the factory user needs no signature for an export
AskExport(d) ==
    /\ Presses /\ session # Factory /\ Has(session, "export-usb") /\ ~shown
    /\ d.purpose = "export"
    /\ Opens(d)
    /\ UNCHANGED <<reports, recipes, tokens, issued, flights, accountVars>>

\* mutant: cancelling forgets the continuation and leaves the screen
CancelBehind ==
    /\ Presses /\ session # Nobody /\ shown
    /\ awaiting' = NoDeed
    /\ UNCHANGED <<reports, recipes, tokens, issued, shown, flights, accountVars>>

CancelVerify ==
    /\ Presses /\ session # Nobody /\ shown
    /\ shown' = FALSE /\ awaiting' = NoDeed
    /\ UNCHANGED <<reports, recipes, tokens, issued, flights, accountVars>>

\* by the sidebar: the continuation stays
LeaveVerify ==
    /\ Presses /\ session # Nobody /\ shown
    /\ shown' = FALSE
    /\ UNCHANGED <<reports, recipes, tokens, issued, awaiting, flights, accountVars>>

\* the screen stays as it is while the request is under way; a fingerprint
\* skips what the page asks of a user name
SubmitVerify(u) ==
    /\ Presses /\ session # Nobody /\ shown
    /\ flights' = flights \cup {VerifyRequest(u, awaiting)}
    /\ UNCHANGED <<reports, recipes, tokens, issued, shown, awaiting, accountVars>>

SubmitReport(u, r) ==
    /\ Presses /\ session \in Members
    /\ reports[r].approver = Nobody
    /\ flights' = flights \cup {VerifyRequest(u, [purpose |-> "report", thing |-> r])}
    /\ UNCHANGED <<reports, recipes, tokens, issued, shown, awaiting, accountVars>>

-----------------------------------------------------------------------------
(* The server, and what the page makes of the answer.                      *)

\* mutant: tokens never expire
Lasting == tokens

Fresh == {k \in tokens : k.left > 0}

Verifies(f) ==
    /\ Has(f.who, Permission(f.deed.purpose, f.type))
    /\ f.deed.purpose = "export" => f.who # session
    /\ f.who \in Members => member[f.who].status = "active"

\* the continuation that gets the token
Continues(f) == IF f.deed.purpose = "report" THEN f.deed ELSE awaiting

VerifyLands(f) ==
    LET id == issued + 1
        d  == Continues(f)
    IN  /\ f \in flights /\ f.kind = "verify"
        /\ Verifies(f)
        /\ issued < MaxTokens /\ issued' = id
        /\ tokens' = Fresh \cup {[id |-> id, who |-> f.who, purpose |-> f.deed.purpose,
                                  type |-> f.type, left |-> TTL, meant |-> f.deed]}
        /\ flights' = (flights \ {f}) \cup (IF d = NoDeed THEN {} ELSE {DeedRequest(d, id)})
        /\ IF f.deed.purpose = "report" THEN UNCHANGED <<shown, awaiting>>
             ELSE shown' = FALSE /\ awaiting' = NoDeed
        /\ UNCHANGED <<reports, recipes, haste, accountVars>>

VerifyRefused(f) ==
    /\ f \in flights /\ f.kind = "verify" /\ ~Verifies(f)
    /\ flights' = flights \ {f}
    /\ UNCHANGED <<reports, recipes, tokens, issued, shown, awaiting, haste, accountVars>>

\* _consume_approval_verify_token, once the token has been taken out
Accepted(k, d) ==
    /\ k.purpose = d.purpose
    /\ Has(k.who, Permission(k.purpose, k.type))

\* what the route asks of the session and the thing before it takes the token
Reaches(d) ==
    d.purpose = "export" => session # Factory /\ Has(session, "export-usb")

\* mutant: the operator may sign
PossibleForAll(k, d, by) ==
    CASE d.purpose = "report" ->
           /\ k.type = reports[d.thing].type
           /\ reports[d.thing].approver = Nobody
      [] d.purpose = "recipe" -> recipes[d.thing] = Nobody
      [] d.purpose = "export" -> k.who # session

\* and what it asks afterwards
Possible(k, d, by) ==
    CASE d.purpose = "report" ->
           /\ k.type = reports[d.thing].type
           /\ reports[d.thing].approver = Nobody
           /\ k.who = reports[d.thing].operator => by = Factory
      [] d.purpose = "recipe" -> recipes[d.thing] = Nobody
      [] d.purpose = "export" -> k.who # session

Approves(u, d) ==
    /\ reports' = IF d.purpose = "report"
                    THEN [reports EXCEPT ![d.thing].approver = u] ELSE reports
    /\ recipes' = IF d.purpose = "recipe"
                    THEN [recipes EXCEPT ![d.thing] = u] ELSE recipes

Taken(id) == {k \in Fresh : k.id # id}

DeedLands(f) ==
    /\ f \in flights /\ f.kind = "deed"
    /\ Reaches(f.deed)
    /\ \E k \in Fresh :
         /\ k.id = f.token
         /\ Accepted(k, f.deed) /\ Possible(k, f.deed, f.by)
         /\ Approves(k.who, f.deed)
    /\ tokens' = Taken(f.token)
    /\ flights' = flights \ {f}
    /\ UNCHANGED <<issued, shown, awaiting, haste, accountVars>>

\* the token is gone all the same; the export of the factory user, which
\* needs none, leaves it
DeedRefused(f) ==
    /\ f \in flights /\ f.kind = "deed"
    /\ ~Reaches(f.deed) \/ ~\E k \in Fresh :
                             /\ k.id = f.token
                             /\ Accepted(k, f.deed) /\ Possible(k, f.deed, f.by)
    /\ tokens' = IF Reaches(f.deed) THEN Taken(f.token) ELSE tokens
    /\ flights' = flights \ {f}
    /\ UNCHANGED <<reports, recipes, issued, shown, awaiting, haste, accountVars>>

\* the factory user signs alone
FactoryApproves(r) ==
    /\ Presses /\ session = Factory
    /\ reports[r].approver = Nobody
    /\ Approves(Factory, [purpose |-> "report", thing |-> r])
    /\ UNCHANGED <<tokens, issued, shown, awaiting, flights, accountVars>>

Tick ==
    /\ Fresh # {} \/ \E m \in Members : member[m].status # "active" /\ inactive[m] < TTL
    /\ tokens' = {[k EXCEPT !.left = @ - 1] : k \in Fresh}
    /\ inactive' = [m \in Members |->
                      IF member[m].status = "active" \/ inactive[m] = TTL THEN inactive[m]
                      ELSE inactive[m] + 1]
    /\ UNCHANGED <<reports, recipes, issued, shown, awaiting, flights, haste, member, session>>

-----------------------------------------------------------------------------

\* the accounts change under what is waiting for its approval
ChangesMember(m, r) ==
    /\ Presses
    /\ member' = [member EXCEPT ![m] = r]
    /\ inactive' = [inactive EXCEPT ![m] = 0]
    /\ UNCHANGED <<session, reports, recipes, tokens, issued, shown, awaiting, flights>>

Disable(m) == /\ Has(session, "manage") /\ member[m].status # "disabled"
              /\ ChangesMember(m, Disabled(FingerCleared(member[m])))

Enable(m) == /\ Has(session, "manage") /\ member[m].status = "disabled"
             /\ ChangesMember(m, Enabled(member[m]))

\* a new session begins on the home page; the continuation stays
ChangesSession(u) ==
    /\ Presses
    /\ session' = u /\ shown' = FALSE
    /\ UNCHANGED <<member, inactive, reports, recipes, tokens, issued, awaiting, flights>>

Login(u) == /\ session = Nobody
            /\ u \in Members => member[u].status = "active"
            /\ ChangesSession(u)

Logout == session # Nobody /\ ChangesSession(Nobody)

Next ==
    \/ \E c \in Recipes : AskRecipe(c)
    \/ \E d \in Deeds : AskExport(d)
    \/ \E u \in Users : SubmitVerify(u) \/ Login(u)
    \/ \E r \in Reports : FactoryApproves(r) \/ \E u \in Users : SubmitReport(u, r)
    \/ \E f \in flights : 
         \/ CountAnswered(f) \/ VerifyLands(f) \/ VerifyRefused(f)
         \/ DeedLands(f) \/ DeedRefused(f)
    \/ \E m \in Members : Disable(m) \/ Enable(m)
    \/ CancelVerify \/ LeaveVerify \/ Logout \/ Tick

Spec == Init /\ [][Next]_vars

Symmetry == Permutations(Members) \cup Permutations(Recipes)

-----------------------------------------------------------------------------

TokenType == [id : 1..MaxTokens, who : Users, left : 0..TTL, meant : Deeds,
              purpose : {"report", "recipe", "export"},
              type : Types \cup {"none"}]

\* The pending approvals, the tokens and the requests are what they are said to be.
TypeOK ==
    /\ member \in [Members -> Record] /\ session \in Users \cup {Nobody}
    /\ reports \in [Reports -> [type : Types, operator : Users, approver : Users \cup {Nobody}]]
    /\ recipes \in [Recipes -> Users \cup {Nobody}]
    /\ tokens \subseteq TokenType /\ issued \in 0..MaxTokens
    /\ shown \in BOOLEAN /\ awaiting \in Deeds \cup {NoDeed}
    /\ shown => awaiting # NoDeed
    /\ flights \subseteq [kind : {"verify"}, who : Users, deed : Deeds, type : Types \cup {"none"},
                           press : 0..MaxHaste]
                           \cup [kind : {"deed"}, deed : Deeds, token : 1..MaxTokens,
                                  by : Users \cup {Nobody}]
                           \cup [kind : {"count"}, deed : Deeds]
    /\ haste \in 0..MaxHaste
    /\ inactive \in [Members -> 0..TTL]

(***************************************************************************)
(* Nobody signs for themselves: the approver of a report did not operate   *)
(* it ("Operator cannot approve their own report", approve_report).  The   *)
(* server lets the factory user past that question, and the session may    *)
(* be another one by the time the token is used.                           *)
(***************************************************************************)
SignedByAnother ==
    \A r \in Reports : reports[r].approver \in Members =>
                         reports[r].approver # reports[r].operator

(***************************************************************************)
(* What a signature is used for is what its owner gave it for: a token is  *)
(* on its way to the deed the credentials were entered for, although the   *)
(* screen has one continuation for all, and the answer goes to whatever is *)
(* there when it comes (submitApprovalVerifyModal).                        *)
(***************************************************************************)
SignedAsMeant ==
    \A f \in flights, k \in Fresh :
      f.kind = "deed" /\ f.token = k.id /\ Accepted(k, f.deed) => f.deed = k.meant

(***************************************************************************)
(* An account that is no longer active goes on signing for less than the   *)
(* lifetime of a token: _consume_approval_verify_token asks for the        *)
(* permission again, but not whether the account is still active.          *)
(***************************************************************************)
PowerlessSoon ==
    [][/\ \A r \in Reports : LET u == reports'[r].approver IN
            u \in Members /\ u # reports[r].approver => inactive[u] < TTL
       /\ \A c \in Recipes : LET u == recipes'[c] IN
            u \in Members /\ u # recipes[c] => inactive[u] < TTL]_vars

=============================================================================
