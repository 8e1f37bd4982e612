------------------------- MODULE Approvals_proofs -------------------------
(***************************************************************************)
(* What the second signature is worth, for any accounts, reports, recipes, *)
(* lifetimes and numbers of tokens.  The types and the lifetime of a       *)
(* signature hold however the user hurries; that a signature is put to the *)
(* use it was given for, and by another than the operator, needs a user    *)
(* who presses at most once while a request is under way (Patient).        *)
(***************************************************************************)
EXTENDS Approvals, TLAPS

Patient == MaxHaste <= 1

-----------------------------------------------------------------------------
(* The inductive invariants.                                               *)

\* The screen is for recipes and exports.
ScreenInv ==
    /\ awaiting # NoDeed => awaiting.purpose # "report"
    /\ \A f \in flights : f.kind = "count" => f.deed.purpose # "report"

\* An account that is active has not been inactive for any time, and a token
\* does not outlive the activity of its owner by more than its lifetime.
LifeInv ==
    /\ \A m \in Members : member[m].status = "active" => inactive[m] = 0
    /\ \A k \in Fresh : k.who \in Members => inactive[k.who] + k.left <= TTL

\* Requests that ask for a token for what the screen is shown for.
OnScreen(f) == f.kind = "verify" /\ f.deed.purpose # "report"

\* While nobody has hurried there is one request, and the screen is as it was
\* left; a count and a verification never overlap, so that the continuation a
\* token meets is the one it was asked for, or gone.
HasteInv ==
    /\ haste = 0 => \A f, g \in flights : f = g
    /\ haste = 0 => \A f \in flights : OnScreen(f) => shown /\ awaiting = f.deed
    /\ haste = 0 => \A f \in flights : f.kind = "count" => ~shown
    /\ \A f, g \in flights : ~(OnScreen(f) /\ g.kind = "count")
    /\ \A f \in flights : OnScreen(f) => awaiting \in {f.deed, NoDeed}

\* Tokens are numbered, and a number is sent along with the deed it is for.
MeantInv ==
    /\ \A k \in tokens : k.id <= issued
    /\ \A f \in flights : f.kind = "deed" => f.token <= issued
    /\ \A f \in flights, k \in tokens :
         f.kind = "deed" /\ f.token = k.id => f.deed = k.meant

\* The factory user is not the one on whose page a report was signed.
SignerInv ==
    /\ \A f \in flights : f.kind = "verify" /\ f.deed.purpose = "report" =>
         session # Factory /\ (haste = 0 => session # Nobody)
    /\ \A f \in flights : f.kind = "deed" /\ f.deed.purpose = "report" => f.by # Factory
    /\ SignedByAnother

LastingInv == TypeOK /\ ScreenInv /\ LifeInv
PatientInv == TypeOK /\ ScreenInv /\ HasteInv /\ MeantInv /\ SignerInv

-----------------------------------------------------------------------------
(* Types.                                                                  *)

AccountTypes ==
    /\ member \in [Members -> Record] /\ session \in Users \cup {Nobody}
    /\ inactive \in [Members -> 0..TTL]

ThingTypes ==
    /\ reports \in [Reports -> [type : Types, operator : Users, approver : Users \cup {Nobody}]]
    /\ recipes \in [Recipes -> Users \cup {Nobody}]

Verify == [kind : {"verify"}, who : Users, deed : Deeds, type : Types \cup {"none"},
           press : 0..MaxHaste]
Deed   == [kind : {"deed"}, deed : Deeds, token : 1..MaxTokens, by : Users \cup {Nobody}]
Count  == [kind : {"count"}, deed : Deeds]

TokenTypes == tokens \subseteq TokenType /\ issued \in 0..MaxTokens

PageTypes ==
    /\ shown \in BOOLEAN /\ awaiting \in Deeds \cup {NoDeed}
    /\ shown => awaiting # NoDeed
    /\ flights \subseteq Verify \cup Deed \cup Count
    /\ haste \in 0..MaxHaste

LEMMA TypeParts == TypeOK <=> AccountTypes /\ ThingTypes /\ TokenTypes /\ PageTypes
BY DEF TypeOK, AccountTypes, ThingTypes, TokenTypes, PageTypes, Verify, Deed, Count

USE DEF accountVars

LEMMA PressType ==
    ASSUME PageTypes, Presses
    PROVE  haste' \in 0..MaxHaste
BY BoundAssumption DEF PageTypes, Presses

\* A request is of one kind, and has the fields of its kind.
LEMMA FlightFields ==
    ASSUME PageTypes, NEW f \in flights
    PROVE  /\ f.deed \in Deeds
           /\ f.kind = "verify" => f \in Verify
           /\ f.kind = "deed" => f \in Deed
           /\ f.kind = "count" => f \in Count
           /\ f.kind \in {"verify", "deed", "count"}
BY DEF PageTypes, Verify, Deed, Count

LEMMA DeedFields ==
    ASSUME NEW d \in Deeds
    PROVE  /\ d # NoDeed /\ d.purpose \in {"report", "recipe", "export"}
           /\ d.purpose = "report" => d.thing \in Reports
           /\ d.purpose = "recipe" => d.thing \in Recipes
BY DeedAssumption DEF Deeds

LEMMA FreshTokens ==
    ASSUME TokenTypes, NEW k \in Fresh
    PROVE  k \in tokens /\ k \in TokenType /\ k.left \in 1..TTL
BY TTLAssumption DEF TokenTypes, TokenType, Fresh

\* The owners of the accounts of the first state have records.
LEMMA FirstRecords ==
    ASSUME NEW p \in Passwords, NEW g \in [Members -> Roles]
    PROVE  [m \in Members |-> CommitmentCleared(Created(p, TRUE, g[m]))] \in [Members -> Record]
<1> SUFFICES ASSUME NEW m \in Members
             PROVE  CommitmentCleared(Created(p, TRUE, g[m])) \in Record
  OBVIOUS
<1>1. g[m] \in SUBSET Grants
  BY RolesAssumption
<1>2. <<>> \in Seq(Passwords) /\ 0 \in Nat
  OBVIOUS
<1>3. Created(p, TRUE, g[m]) \in Record
  BY <1>1, <1>2 DEF Created, Record, Statuses
<1> QED
  BY <1>3 DEF CommitmentCleared, Record

LEMMA TypeInit == Init => TypeOK
<1> SUFFICES ASSUME Init PROVE TypeOK
  OBVIOUS
<1>1. AccountTypes
  <2>1. member \in [Members -> Record]
    <3>1. PICK p \in Passwords, g \in [Members -> Roles] :
            member = [m \in Members |-> CommitmentCleared(Created(p, TRUE, g[m]))]
      BY DEF Init
    <3>2. [m \in Members |-> CommitmentCleared(Created(p, TRUE, g[m]))] \in [Members -> Record]
      BY FirstRecords
    <3> QED
      BY <3>1, <3>2
  <2>2. inactive \in [Members -> 0..TTL]
    BY TTLAssumption DEF Init
  <2> QED
    BY <2>1, <2>2 DEF Init, AccountTypes
<1>2. ThingTypes
  <2>1. reports \in [Reports -> [type : Types, operator : Users, approver : {Nobody}]]
    BY DEF Init
  <2>2. reports \in [Reports -> [type : Types, operator : Users, approver : Users \cup {Nobody}]]
    BY <2>1
  <2> QED
    BY <2>2 DEF Init, ThingTypes
<1>3. /\ issued \in 0..MaxTokens /\ haste \in 0..MaxHaste
      /\ tokens \subseteq TokenType /\ flights \subseteq Verify \cup Deed \cup Count
  BY BoundAssumption DEF Init
<1>4. TokenTypes /\ PageTypes
  BY <1>3 DEF Init, TokenTypes, PageTypes
<1> QED
  BY <1>1, <1>2, <1>4, TypeParts

\* The steps that change an account or a session.
AccountSteps ==
    \/ \E u \in Users : Login(u)
    \/ \E m \in Members : Disable(m) \/ Enable(m)
    \/ Logout \/ Tick

\* What the page does on its own.
PageSteps ==
    \/ \E c \in Recipes : AskRecipe(c)
    \/ \E d \in Deeds : AskExport(d)
    \/ \E u \in Users : SubmitVerify(u)
    \/ \E r \in Reports, u \in Users : SubmitReport(u, r)
    \/ \E f \in flights : CountAnswered(f) \/ VerifyRefused(f)
    \/ CancelVerify \/ LeaveVerify

\* What gives a token or takes one.
ServerSteps ==
    \/ \E f \in flights : VerifyLands(f) \/ DeedLands(f) \/ DeedRefused(f)
    \/ \E r \in Reports : FactoryApproves(r)

LEMMA StepCases ==
    ASSUME [Next]_vars
    PROVE  AccountSteps \/ PageSteps \/ ServerSteps \/ UNCHANGED vars
BY DEF Next, AccountSteps, PageSteps, ServerSteps

\* Only a login, a logout, a change of an account and time touch the accounts.
LEMMA AccountsKept ==
    ASSUME PageSteps \/ ServerSteps \/ UNCHANGED vars
    PROVE  UNCHANGED <<member, session, inactive>>
BY DEF PageSteps, ServerSteps, vars, AskRecipe, AskExport, SubmitVerify, SubmitReport,
       CountAnswered, VerifyRefused, CancelVerify, LeaveVerify, VerifyLands, DeedLands,
       DeedRefused, FactoryApproves

\* A change of an account begins a new count of its inactivity.
LEMMA MemberChanged ==
    ASSUME AccountTypes, NEW m \in Members, Disable(m) \/ Enable(m)
    PROVE  /\ \E r \in Record : ChangesMember(m, r)
           /\ member' \in [Members -> Record]
           /\ inactive' = [inactive EXCEPT ![m] = 0]
<1>1. member[m] \in Record
  BY DEF AccountTypes
<1>2. /\ Disabled(FingerCleared(member[m])) \in Record
      /\ Enabled(member[m]) \in Record
  BY <1>1 DEF Disabled, FingerCleared, Enabled, Record, Statuses
<1>3. PICK r \in Record : ChangesMember(m, r)
  BY <1>2 DEF Disable, Enable
<1> QED
  BY <1>3 DEF ChangesMember, AccountTypes

LEMMA AccountStep ==
    ASSUME TypeOK, [Next]_vars
    PROVE  AccountTypes'
<1>1. AccountTypes
  BY TypeParts
<1>2. CASE PageSteps \/ ServerSteps \/ UNCHANGED vars
  BY <1>1, <1>2, AccountsKept DEF AccountTypes
<1>3. ASSUME NEW m \in Members, Disable(m) \/ Enable(m) PROVE AccountTypes'
  <2>1. session' = session
    BY <1>3 DEF Disable, Enable, ChangesMember
  <2>2. inactive' \in [Members -> 0..TTL]
    BY <1>1, <1>3, MemberChanged, TTLAssumption DEF AccountTypes
  <2> QED
    BY <1>1, <1>3, <2>1, <2>2, MemberChanged DEF AccountTypes
<1>4. ASSUME NEW u \in Users \cup {Nobody}, ChangesSession(u) PROVE AccountTypes'
  BY <1>1, <1>4 DEF ChangesSession, AccountTypes
<1>5. CASE Tick
  <2>1. \A m \in Members : inactive[m] \in 0..TTL
    BY <1>1 DEF AccountTypes
  <2>2. inactive' \in [Members -> 0..TTL]
    BY <1>5, <2>1, TTLAssumption DEF Tick
  <2> QED
    BY <1>1, <1>5, <2>2 DEF Tick, AccountTypes
<1> QED
  BY <1>2, <1>3, <1>4, <1>5, StepCases DEF AccountSteps, Login, Logout

LEMMA ThingStep ==
    ASSUME TypeOK, [Next]_vars
    PROVE  ThingTypes'
<1>1. ThingTypes /\ TokenTypes /\ PageTypes
  BY TypeParts
<1>2. CASE UNCHANGED <<reports, recipes>>
  BY <1>1, <1>2 DEF ThingTypes
<1>3. ASSUME NEW u \in Users, NEW d \in Deeds, Approves(u, d) PROVE ThingTypes'
  <2>1. d.purpose = "report" => d.thing \in Reports
    BY DeedFields
  <2>2. d.purpose = "recipe" => d.thing \in Recipes
    BY DeedFields
  <2> QED
    BY <1>1, <1>3, <2>1, <2>2 DEF Approves, ThingTypes
<1>4. ASSUME NEW f \in flights, DeedLands(f) PROVE ThingTypes'
  <2>1. PICK k \in Fresh : Approves(k.who, f.deed)
    BY <1>4 DEF DeedLands
  <2>2. k.who \in Users /\ f.deed \in Deeds
    BY <1>1, <2>1, FreshTokens, FlightFields DEF TokenType
  <2> QED
    BY <1>3, <2>1, <2>2
<1>5. ASSUME NEW r \in Reports, FactoryApproves(r) PROVE ThingTypes'
  <2>1. [purpose |-> "report", thing |-> r] \in Deeds /\ Factory \in Users
    BY DEF Deeds, Users
  <2> QED
    BY <1>3, <1>5, <2>1 DEF FactoryApproves
<1>6. CASE AccountSteps \/ PageSteps \/ UNCHANGED vars
  BY <1>2, <1>6
  DEF AccountSteps, PageSteps, vars, AskRecipe, AskExport, SubmitVerify, SubmitReport,
      CountAnswered, VerifyRefused, CancelVerify, LeaveVerify, Login, Logout,
      ChangesSession, Disable, Enable, ChangesMember, Tick
<1>7. ASSUME NEW f \in flights, VerifyLands(f) \/ DeedRefused(f) PROVE ThingTypes'
  BY <1>2, <1>7 DEF VerifyLands, DeedRefused
<1> QED
  BY <1>4, <1>5, <1>6, <1>7, StepCases DEF ServerSteps

LEMMA TokenStep ==
    ASSUME TypeOK, [Next]_vars
    PROVE  TokenTypes'
<1>1. ThingTypes /\ TokenTypes /\ PageTypes
  BY TypeParts
<1>2. Fresh \subseteq tokens
  BY DEF Fresh
<1>3. CASE UNCHANGED <<tokens, issued>>
  BY <1>1, <1>3 DEF TokenTypes
<1>4. ASSUME NEW f \in flights, VerifyLands(f) PROVE TokenTypes'
  <2>1. issued' = issued + 1 /\ issued' \in 1..MaxTokens
    BY <1>1, <1>4, BoundAssumption DEF VerifyLands, TokenTypes
  <2>2. f \in Verify
    BY <1>1, <1>4, FlightFields DEF VerifyLands
  <2>3. f.deed.purpose \in {"report", "recipe", "export"}
    BY <2>2, DeedFields DEF Verify
  <2>4. [id |-> issued + 1, who |-> f.who, purpose |-> f.deed.purpose,
         type |-> f.type, left |-> TTL, meant |-> f.deed] \in TokenType
    BY <2>1, <2>2, <2>3, TTLAssumption DEF TokenType, Verify
  <2> QED
    BY <1>1, <1>2, <1>4, <2>1, <2>4 DEF VerifyLands, TokenTypes
<1>5. ASSUME NEW f \in flights, DeedLands(f) \/ DeedRefused(f) PROVE TokenTypes'
  <2>1. tokens' \subseteq tokens /\ issued' = issued
    BY <1>2, <1>5 DEF DeedLands, DeedRefused, Taken
  <2> QED
    BY <1>1, <2>1 DEF TokenTypes
<1>6. CASE Tick
  <2>1. \A k \in Fresh : [k EXCEPT !.left = @ - 1] \in TokenType
    BY <1>1, FreshTokens, TTLAssumption DEF TokenType
  <2>2. issued' = issued /\ tokens' = {[k EXCEPT !.left = @ - 1] : k \in Fresh}
    BY <1>6 DEF Tick
  <2> QED
    BY <1>1, <2>1, <2>2 DEF TokenTypes
<1>7. CASE (AccountSteps /\ ~Tick) \/ PageSteps \/ UNCHANGED vars
  BY <1>3, <1>7
  DEF AccountSteps, PageSteps, vars, AskRecipe, AskExport, SubmitVerify, SubmitReport,
      CountAnswered, VerifyRefused, CancelVerify, LeaveVerify, Login, Logout,
      ChangesSession, Disable, Enable, ChangesMember
<1>8. ASSUME NEW r \in Reports, FactoryApproves(r) PROVE TokenTypes'
  BY <1>3, <1>8 DEF FactoryApproves
<1> QED
  BY <1>4, <1>5, <1>6, <1>7, <1>8, StepCases DEF ServerSteps

\* What a step does to the screen and to the requests under way.
LEMMA SubmitType ==
    ASSUME TypeOK, Presses, NEW u \in Users, NEW d \in Deeds
    PROVE  VerifyRequest(u, d) \in Verify
<1>1. ThingTypes /\ PageTypes
  BY TypeParts
<1>2. haste' \in 0..MaxHaste
  BY <1>1, PressType
<1>3. TypeOf(d) \in Types \cup {"none"}
  BY <1>1, DeedFields DEF TypeOf, ThingTypes
<1> QED
  BY <1>2, <1>3 DEF VerifyRequest, Verify

LEMMA PageStep ==
    ASSUME TypeOK, [Next]_vars
    PROVE  PageTypes'
<1>1. PageTypes /\ TokenTypes /\ AccountTypes
  BY TypeParts
<1>2. ASSUME NEW c \in Recipes, AskRecipe(c) PROVE PageTypes'
  <2>1. CountRequest([purpose |-> "recipe", thing |-> c]) \in Count
    BY DEF CountRequest, Count, Deeds
  <2> QED
    BY <1>1, <1>2, <2>1, PressType DEF AskRecipe, PageTypes
<1>3. ASSUME NEW d \in Deeds, AskExport(d) PROVE PageTypes'
  BY <1>1, <1>3, PressType, DeedAssumption DEF AskExport, Opens, PageTypes
<1>4. ASSUME NEW u \in Users, SubmitVerify(u) PROVE PageTypes'
  <2>1. awaiting \in Deeds
    BY <1>1, <1>4 DEF SubmitVerify, PageTypes
  <2>2. VerifyRequest(u, awaiting) \in Verify
    BY <1>4, <2>1, SubmitType DEF SubmitVerify
  <2> QED
    BY <1>1, <1>4, <2>2, PressType DEF SubmitVerify, PageTypes
<1>5. ASSUME NEW u \in Users, NEW r \in Reports, SubmitReport(u, r) PROVE PageTypes'
  <2>1. [purpose |-> "report", thing |-> r] \in Deeds
    BY DEF Deeds
  <2>2. VerifyRequest(u, [purpose |-> "report", thing |-> r]) \in Verify
    BY <1>5, <2>1, SubmitType DEF SubmitReport
  <2> QED
    BY <1>1, <1>5, <2>2, PressType DEF SubmitReport, PageTypes
<1>6. ASSUME NEW f \in flights, CountAnswered(f) PROVE PageTypes'
  <2>1. f.deed \in Deeds
    BY <1>1, FlightFields
  <2> QED
    BY <1>1, <1>6, <2>1, DeedAssumption DEF CountAnswered, Opens, PageTypes
<1>7. ASSUME NEW f \in flights, VerifyLands(f) PROVE PageTypes'
  <2>1. issued + 1 \in 1..MaxTokens
    BY <1>1, <1>7, BoundAssumption DEF VerifyLands, TokenTypes
  <2>2. Continues(f) \in Deeds \cup {NoDeed}
    BY <1>1, FlightFields DEF Continues, PageTypes
  <2>3. Continues(f) # NoDeed => DeedRequest(Continues(f), issued + 1) \in Deed
    BY <1>1, <2>1, <2>2 DEF DeedRequest, Deed, AccountTypes
  <2>4. flights' \subseteq Verify \cup Deed \cup Count
    BY <1>1, <1>7, <2>3 DEF VerifyLands, PageTypes
  <2>5. /\ shown' \in BOOLEAN /\ awaiting' \in Deeds \cup {NoDeed}
        /\ shown' => awaiting' # NoDeed
    <3>1. CASE UNCHANGED <<shown, awaiting>>
      BY <1>1, <3>1 DEF PageTypes
    <3>2. CASE shown' = FALSE /\ awaiting' = NoDeed
      BY <3>2
    <3> QED
      BY <1>7, <3>1, <3>2 DEF VerifyLands
  <2>6. haste' = haste
    BY <1>7 DEF VerifyLands
  <2> QED
    BY <1>1, <2>4, <2>5, <2>6 DEF PageTypes
<1>8. ASSUME NEW f \in flights, VerifyRefused(f) \/ DeedLands(f) \/ DeedRefused(f)
      PROVE  PageTypes'
  BY <1>1, <1>8 DEF VerifyRefused, DeedLands, DeedRefused, PageTypes
<1>9. CASE CancelVerify \/ LeaveVerify
  BY <1>1, <1>9, PressType DEF CancelVerify, LeaveVerify, PageTypes
<1>10. ASSUME NEW u, ChangesSession(u) PROVE PageTypes'
  BY <1>1, <1>10, PressType DEF ChangesSession, PageTypes
<1>11. ASSUME NEW m, NEW r, ChangesMember(m, r) PROVE PageTypes'
  BY <1>1, <1>11, PressType DEF ChangesMember, PageTypes
<1>12. CASE Tick \/ UNCHANGED vars
  BY <1>1, <1>12 DEF Tick, vars, PageTypes
<1>13. ASSUME NEW r \in Reports, FactoryApproves(r) PROVE PageTypes'
  BY <1>1, <1>13, PressType DEF FactoryApproves, PageTypes
<1>14. CASE AccountSteps
  BY <1>10, <1>11, <1>12, <1>14 DEF AccountSteps, Login, Logout, Disable, Enable
<1>15. CASE PageSteps
  BY <1>2, <1>3, <1>4, <1>5, <1>6, <1>8, <1>9, <1>15 DEF PageSteps
<1>16. CASE ServerSteps
  BY <1>7, <1>8, <1>13, <1>16 DEF ServerSteps
<1> QED
  BY <1>12, <1>14, <1>15, <1>16, StepCases

LEMMA TypeStep == TypeOK /\ [Next]_vars => TypeOK'
<1> SUFFICES ASSUME TypeOK, [Next]_vars PROVE TypeOK'
  OBVIOUS
<1>1. AccountTypes' /\ ThingTypes' /\ TokenTypes' /\ PageTypes'
  BY AccountStep, ThingStep, TokenStep, PageStep
<1> QED
  BY <1>1 DEF TypeOK, AccountTypes, ThingTypes, TokenTypes, PageTypes, Verify, Deed, Count

\* Accounts, approvals, tokens and requests keep their types.
THEOREM TypeCorrect == Spec => []TypeOK
BY TypeInit, TypeStep, PTL DEF Spec

-----------------------------------------------------------------------------
(* The screen and the lifetime of a signature, for any user.               *)

LEMMA ScreenStep ==
    ASSUME TypeOK, ScreenInv, [Next]_vars
    PROVE  ScreenInv'
<1>1. PageTypes
  BY TypeParts
<1>2. ASSUME NEW c \in Recipes, AskRecipe(c) PROVE ScreenInv'
  BY <1>2 DEF AskRecipe, CountRequest, ScreenInv
<1>3. ASSUME NEW d \in Deeds, AskExport(d) PROVE ScreenInv'
  BY <1>3 DEF AskExport, Opens, ScreenInv
<1>4. ASSUME NEW u, NEW d, flights' = flights \cup {VerifyRequest(u, d)}, awaiting' = awaiting
      PROVE  ScreenInv'
  BY <1>4 DEF VerifyRequest, ScreenInv
<1>5. ASSUME NEW f \in flights, CountAnswered(f) PROVE ScreenInv'
  BY <1>5 DEF CountAnswered, Opens, ScreenInv
<1>6. ASSUME NEW f \in flights, VerifyLands(f) PROVE ScreenInv'
  <2>1. DeedRequest(Continues(f), issued + 1).kind = "deed"
    BY DEF DeedRequest
  <2>2. \A g \in flights' : g \in flights \/ g.kind = "deed"
    BY <1>6, <2>1 DEF VerifyLands
  <2>3. awaiting' \in {awaiting, NoDeed}
    BY <1>6 DEF VerifyLands
  <2> QED
    BY <2>2, <2>3 DEF ScreenInv
<1>7. ASSUME flights' \subseteq flights, awaiting' \in {awaiting, NoDeed}
      PROVE  ScreenInv'
  BY <1>7 DEF ScreenInv
<1>8. ASSUME NEW f \in flights, VerifyRefused(f) \/ DeedLands(f) \/ DeedRefused(f)
      PROVE  ScreenInv'
  BY <1>7, <1>8 DEF VerifyRefused, DeedLands, DeedRefused
<1>9. CASE CancelVerify \/ LeaveVerify \/ Logout \/ Tick \/ UNCHANGED vars
  BY <1>7, <1>9 DEF CancelVerify, LeaveVerify, Logout, ChangesSession, Tick, vars
<1>10. CASE AccountSteps
  BY <1>7, <1>9, <1>10 DEF AccountSteps, Login, ChangesSession, Disable, Enable, ChangesMember
<1>11. CASE PageSteps
  BY <1>2, <1>3, <1>4, <1>5, <1>8, <1>9, <1>11 DEF PageSteps, SubmitVerify, SubmitReport
<1>12. CASE ServerSteps
  BY <1>6, <1>7, <1>8, <1>12 DEF ServerSteps, FactoryApproves
<1> QED
  BY <1>9, <1>10, <1>11, <1>12, StepCases

\* The token that a verification gives belongs to an account that is active.
LEMMA LifeStep ==
    ASSUME TypeOK, LifeInv, [Next]_vars
    PROVE  LifeInv'
<1>1. /\ AccountTypes /\ TokenTypes
      /\ \A m \in Members : inactive[m] \in 0..TTL
      /\ \A k \in Fresh : k.left \in 1..TTL /\ k.who \in Users
      /\ TTL \in Nat \ {0}
  BY TypeParts, FreshTokens, TTLAssumption DEF AccountTypes, TokenType
<1>2. CASE UNCHANGED <<member, inactive>> /\ Fresh' \subseteq Fresh
  BY <1>2 DEF LifeInv
<1>3. ASSUME NEW m \in Members, Disable(m) \/ Enable(m) PROVE LifeInv'
  <2>1. /\ inactive' = [inactive EXCEPT ![m] = 0] /\ Fresh' = Fresh
        /\ \A n \in Members \ {m} : member'[n] = member[n]
    BY <1>1, <1>3, MemberChanged DEF Disable, Enable, ChangesMember, AccountTypes, Fresh
  <2>2. \A n \in Members : inactive'[n] = IF n = m THEN 0 ELSE inactive[n]
    BY <1>1, <2>1 DEF AccountTypes
  <2> QED
    BY <1>1, <2>1, <2>2 DEF LifeInv
<1>4. ASSUME NEW u, ChangesSession(u) PROVE LifeInv'
  BY <1>2, <1>4 DEF ChangesSession, Fresh
<1>5. CASE Tick
  <2>1. \A m \in Members : inactive'[m] = IF member[m].status = "active" \/ inactive[m] = TTL
                                           THEN inactive[m] ELSE inactive[m] + 1
    BY <1>5 DEF Tick
  <2>2. member' = member
    BY <1>5 DEF Tick
  <2>3. \A j \in Fresh' : \E k \in Fresh : j = [k EXCEPT !.left = @ - 1]
    BY <1>5 DEF Tick, Fresh
  <2>4. ASSUME NEW j \in Fresh', j.who \in Members PROVE inactive'[j.who] + j.left <= TTL
    <3>1. PICK k \in Fresh : j = [k EXCEPT !.left = @ - 1]
      BY <2>3
    <3>2. k \in TokenType
      BY <1>1, FreshTokens
    <3>3. j.who = k.who /\ j.left = k.left - 1
      BY <3>1, <3>2 DEF TokenType
    <3>4. inactive[k.who] + k.left <= TTL
      BY <2>4, <3>3 DEF LifeInv
    <3> QED
      BY <1>1, <2>1, <2>4, <3>3, <3>4
  <2> QED
    BY <2>1, <2>2, <2>4 DEF LifeInv
<1>6. ASSUME NEW f \in flights, VerifyLands(f) PROVE LifeInv'
  <2>1. UNCHANGED <<member, inactive>>
    BY <1>6 DEF VerifyLands
  <2>2. f.who \in Members => inactive[f.who] = 0
    BY <1>6 DEF VerifyLands, Verifies, LifeInv
  <2>3. ASSUME NEW k \in Fresh', k \notin Fresh PROVE k.who = f.who /\ k.left = TTL
    BY <1>6, <2>3 DEF VerifyLands, Fresh
  <2>4. \A k \in Fresh' : k.who \in Members => inactive[k.who] + k.left <= TTL
    BY <1>1, <2>2, <2>3 DEF LifeInv
  <2> QED
    BY <2>1, <2>4 DEF LifeInv
<1>7. ASSUME NEW f \in flights, DeedLands(f) \/ DeedRefused(f) PROVE LifeInv'
  BY <1>2, <1>7 DEF DeedLands, DeedRefused, Taken, Fresh
<1>8. CASE PageSteps \/ UNCHANGED vars
  BY <1>2, <1>8, AccountsKept
  DEF PageSteps, vars, AskRecipe, AskExport, SubmitVerify, SubmitReport, CountAnswered,
      VerifyRefused, CancelVerify, LeaveVerify, Fresh
<1>9. ASSUME NEW r \in Reports, FactoryApproves(r) PROVE LifeInv'
  BY <1>2, <1>9 DEF FactoryApproves, Fresh
<1> QED
  BY <1>3, <1>4, <1>5, <1>6, <1>7, <1>8, <1>9, StepCases
  DEF AccountSteps, Login, Logout, ServerSteps

LEMMA LastingInit == Init => LastingInv
<1> SUFFICES ASSUME Init PROVE LastingInv
  OBVIOUS
<1>1. ScreenInv
  BY DEF Init, ScreenInv
<1>2. LifeInv
  BY DEF Init, LifeInv, Fresh
<1> QED
  BY <1>1, <1>2, TypeInit DEF LastingInv

LEMMA LastingInvariant == Spec => []LastingInv
<1>1. LastingInv /\ [Next]_vars => LastingInv'
  BY TypeStep, ScreenStep, LifeStep DEF LastingInv
<1> QED
  BY <1>1, LastingInit, PTL DEF Spec

\* An account that is no longer active approves nothing once the lifetime of a
\* token has passed, although _consume_approval_verify_token does not ask
\* whether it is active.
THEOREM SignsNoLonger == Spec => PowerlessSoon
<1> DEFINE Timely ==
      /\ \A r \in Reports : LET u == reports'[r].approver IN
            u \in Members /\ u # reports[r].approver => inactive[u] < TTL
      /\ \A c \in Recipes : LET u == recipes'[c] IN
            u \in Members /\ u # recipes[c] => inactive[u] < TTL
<1>1. LastingInv /\ [Next]_vars => [Timely]_vars
  <2> SUFFICES ASSUME LastingInv, [Next]_vars PROVE Timely
    OBVIOUS
  <2>1. TypeOK /\ ThingTypes /\ TokenTypes /\ AccountTypes /\ PageTypes /\ TTL \in Nat
    BY TypeParts, TTLAssumption DEF LastingInv
  <2>2. CASE UNCHANGED <<reports, recipes>>
    BY <2>2
  <2>3. ASSUME NEW u \in Users, NEW d \in Deeds, Approves(u, d),
               u \in Members => inactive[u] < TTL
        PROVE  Timely
    <3>1. /\ d.purpose = "report" => d.thing \in Reports
          /\ d.purpose = "recipe" => d.thing \in Recipes
      BY DeedFields
    <3>2. \A r \in Reports : reports'[r].approver \in {u, reports[r].approver}
      BY <2>1, <2>3, <3>1 DEF Approves, ThingTypes
    <3>3. \A c \in Recipes : recipes'[c] \in {u, recipes[c]}
      BY <2>1, <2>3, <3>1 DEF Approves, ThingTypes
    <3> QED
      BY <2>3, <3>2, <3>3
  <2>4. ASSUME NEW f \in flights, DeedLands(f) PROVE Timely
    <3>1. PICK k \in Fresh : Approves(k.who, f.deed)
      BY <2>4 DEF DeedLands
    <3>2. k.who \in Users /\ k.left \in 1..TTL /\ f.deed \in Deeds
      BY <2>1, FreshTokens, FlightFields DEF TokenType
    <3>3. k.who \in Members => inactive[k.who] \in 0..TTL /\ inactive[k.who] + k.left <= TTL
      BY <2>1 DEF LastingInv, LifeInv, AccountTypes
    <3>4. k.who \in Members => inactive[k.who] < TTL
      BY <2>1, <3>2, <3>3
    <3> QED
      BY <2>3, <3>1, <3>2, <3>4
  <2>5. ASSUME NEW r \in Reports, FactoryApproves(r) PROVE Timely
    <3>1. Approves(Factory, [purpose |-> "report", thing |-> r])
      BY <2>5 DEF FactoryApproves
    <3>2. /\ [purpose |-> "report", thing |-> r] \in Deeds
          /\ Factory \in Users /\ Factory \notin Members
      BY MembersAssumption DEF Deeds, Users
    <3> QED
      BY <2>3, <3>1, <3>2
  <2>6. CASE AccountSteps \/ PageSteps \/ UNCHANGED vars
    BY <2>2, <2>6
    DEF AccountSteps, PageSteps, vars, AskRecipe, AskExport, SubmitVerify, SubmitReport,
        CountAnswered, VerifyRefused, CancelVerify, LeaveVerify, Login, Logout,
        ChangesSession, Disable, Enable, ChangesMember, Tick
  <2>7. ASSUME NEW f \in flights, VerifyLands(f) \/ DeedRefused(f) PROVE Timely
    BY <2>2, <2>7 DEF VerifyLands, DeedRefused
  <2> QED
    BY <2>4, <2>5, <2>6, <2>7, StepCases DEF ServerSteps
<1> QED
  BY <1>1, LastingInvariant, PTL DEF Spec, PowerlessSoon

-----------------------------------------------------------------------------
(* One continuation for all, and a user who hurries at most once.          *)

\* A press while a request is under way is the only one there is.
LEMMA OnePress ==
    ASSUME TypeOK, Patient, Presses, flights # {}
    PROVE  haste = 0 /\ haste' # 0
BY BoundAssumption, TypeParts DEF Patient, Presses, PageTypes

LEMMA FirstPress ==
    ASSUME Presses, flights = {}
    PROVE  haste' = haste
BY DEF Presses

\* A press for another request.
LEMMA AnotherHaste ==
    ASSUME TypeOK, HasteInv, Patient, Presses, NEW new, flights' = flights \cup {new}
    PROVE  haste' = 0 => \A f, g \in flights' : f = g
BY OnePress, FirstPress

LEMMA HasteStep ==
    ASSUME TypeOK, ScreenInv, HasteInv, Patient, [Next]_vars
    PROVE  HasteInv'
<1>1. PageTypes
  BY TypeParts
<1>2. ASSUME NEW c \in Recipes, AskRecipe(c) PROVE HasteInv'
  <2> DEFINE new == CountRequest([purpose |-> "recipe", thing |-> c])
  <2>1. /\ new.kind = "count" /\ Presses /\ ~shown /\ flights' = flights \cup {new}
        /\ UNCHANGED <<shown, awaiting>>
    BY <1>2 DEF AskRecipe, CountRequest
  <2> HIDE DEF new
  <2>2. \A f \in flights : ~OnScreen(f)
    BY <2>1, OnePress DEF HasteInv
  <2>3. \A f \in flights' : ~OnScreen(f)
    BY <2>1, <2>2 DEF OnScreen
  <2> QED
    BY <2>1, <2>3, AnotherHaste DEF HasteInv
<1>3. ASSUME NEW d \in Deeds, AskExport(d) PROVE HasteInv'
  <2>1. /\ Presses /\ ~shown /\ shown' /\ awaiting' = d /\ flights' = flights
    BY <1>3 DEF AskExport, Opens
  <2>2. \A f \in flights : ~OnScreen(f)
    BY <2>1, OnePress DEF HasteInv
  <2>3. flights # {} => haste' # 0
    BY <2>1, OnePress
  <2> QED
    BY <2>1, <2>2, <2>3 DEF HasteInv, OnScreen
<1>4. ASSUME NEW u \in Users, SubmitVerify(u) PROVE HasteInv'
  <2> DEFINE new == VerifyRequest(u, awaiting)
  <2>1. /\ new.kind = "verify" /\ new.deed = awaiting
        /\ Presses /\ shown /\ flights' = flights \cup {new}
        /\ UNCHANGED <<shown, awaiting>>
    BY <1>4 DEF SubmitVerify, VerifyRequest
  <2> HIDE DEF new
  <2>2. \A g \in flights : g.kind # "count"
    BY <2>1, OnePress DEF HasteInv
  <2>3. \A g \in flights' : g.kind # "count"
    BY <2>1, <2>2
  <2>4. flights # {} => haste' # 0
    BY <2>1, OnePress
  <2>5. \A f \in flights' : f # new => f \in flights
    BY <2>1
  <2>6. \A f \in flights' : OnScreen(f) => awaiting' \in {f.deed, NoDeed}
    BY <2>1, <2>5 DEF HasteInv, OnScreen
  <2>7. haste' = 0 => \A f \in flights' : OnScreen(f) => shown' /\ awaiting' = f.deed
    BY <2>1, <2>4, <2>5
  <2> QED
    BY <2>1, <2>3, <2>6, <2>7, AnotherHaste DEF HasteInv, OnScreen
<1>5. ASSUME NEW u \in Users, NEW r \in Reports, SubmitReport(u, r) PROVE HasteInv'
  <2> DEFINE new == VerifyRequest(u, [purpose |-> "report", thing |-> r])
  <2>1. /\ new.kind = "verify" /\ new.deed.purpose = "report"
        /\ Presses /\ flights' = flights \cup {new}
        /\ UNCHANGED <<shown, awaiting>>
    BY <1>5 DEF SubmitReport, VerifyRequest
  <2> HIDE DEF new
  <2>2. \A f \in flights' : f # new => f \in flights
    BY <2>1
  <2>3. ~OnScreen(new) /\ new.kind # "count"
    BY <2>1 DEF OnScreen
  <2>4. flights # {} => haste' # 0
    BY <2>1, OnePress
  <2> QED
    BY <2>1, <2>2, <2>3, <2>4, AnotherHaste DEF HasteInv, OnScreen
<1>6. ASSUME NEW f \in flights, CountAnswered(f) PROVE HasteInv'
  <2>1. /\ f.kind = "count" /\ flights' = flights \ {f} /\ haste' = haste
    BY <1>6 DEF CountAnswered
  <2>2. \A g \in flights' : ~OnScreen(g)
    BY <2>1 DEF HasteInv, OnScreen
  <2>3. haste = 0 => flights' = {}
    BY <2>1 DEF HasteInv
  <2> QED
    BY <2>1, <2>2, <2>3 DEF HasteInv, OnScreen
<1>7. ASSUME NEW f \in flights, VerifyLands(f) PROVE HasteInv'
  <2> DEFINE new == DeedRequest(Continues(f), issued + 1)
  <2>1. /\ new.kind = "deed" /\ haste' = haste
        /\ flights' = (flights \ {f}) \cup (IF Continues(f) = NoDeed THEN {} ELSE {new})
        /\ awaiting' \in {awaiting, NoDeed}
    BY <1>7 DEF VerifyLands, DeedRequest
  <2> HIDE DEF new
  <2>2. \A g \in flights' : g \in flights \/ g = new
    BY <2>1
  <2>3. haste = 0 => flights \ {f} = {}
    BY DEF HasteInv
  <2>4. ~OnScreen(new) /\ new.kind # "count"
    BY <2>1 DEF OnScreen
  <2>5. haste = 0 => \A g \in flights' : g = new
    BY <2>1, <2>3
  <2>6. /\ \A g, h \in flights' : ~(OnScreen(g) /\ h.kind = "count")
        /\ \A g \in flights' : OnScreen(g) => awaiting' \in {g.deed, NoDeed}
    BY <2>1, <2>2, <2>4 DEF HasteInv
  <2>7. /\ haste' = 0 => \A g, h \in flights' : g = h
        /\ haste' = 0 => \A g \in flights' : OnScreen(g) => shown' /\ awaiting' = g.deed
        /\ haste' = 0 => \A g \in flights' : g.kind = "count" => ~shown'
    BY <2>1, <2>4, <2>5
  <2> QED
    BY <2>6, <2>7 DEF HasteInv, OnScreen
<1>8. ASSUME NEW f \in flights, VerifyRefused(f) \/ DeedLands(f) \/ DeedRefused(f)
      PROVE  HasteInv'
  <2>1. flights' \subseteq flights /\ UNCHANGED <<haste, shown, awaiting>>
    BY <1>8 DEF VerifyRefused, DeedLands, DeedRefused
  <2> QED
    BY <2>1 DEF HasteInv, OnScreen
\* the presses that change nothing but the screen
<1>9. ASSUME Presses, flights' = flights, awaiting' \in {awaiting, NoDeed},
             shown' = shown \/ shown' = FALSE, flights = {} => haste' = haste
      PROVE  HasteInv'
  <2>1. flights # {} => haste' # 0
    BY <1>9, OnePress
  <2> QED
    BY <1>9, <2>1 DEF HasteInv, OnScreen
<1>10. CASE CancelVerify \/ LeaveVerify
  BY <1>9, <1>10, FirstPress DEF CancelVerify, LeaveVerify
<1>11. CASE AccountSteps /\ ~Tick
  BY <1>9, <1>11, FirstPress
  DEF AccountSteps, Login, Logout, ChangesSession, Disable, Enable, ChangesMember
<1>12. ASSUME NEW r \in Reports, FactoryApproves(r) PROVE HasteInv'
  BY <1>9, <1>12, FirstPress DEF FactoryApproves
<1>13. CASE Tick \/ UNCHANGED vars
  BY <1>13 DEF Tick, vars, HasteInv, OnScreen
<1> QED
  BY <1>2, <1>3, <1>4, <1>5, <1>6, <1>7, <1>8, <1>10, <1>11, <1>12, <1>13, StepCases
  DEF PageSteps, ServerSteps

\* A press does not take the haste away.
LEMMA HasteGrows ==
    ASSUME TypeOK, [Next]_vars, haste' = 0
    PROVE  haste = 0
<1>1. haste \in Nat
  BY TypeParts, BoundAssumption DEF PageTypes
<1>2. Presses \/ haste' = haste
  BY StepCases
  DEF AccountSteps, PageSteps, ServerSteps, vars, AskRecipe, AskExport, SubmitVerify,
      SubmitReport, CountAnswered, VerifyRefused, CancelVerify, LeaveVerify, Login, Logout,
      ChangesSession, Disable, Enable, ChangesMember, Tick, VerifyLands, DeedLands,
      DeedRefused, FactoryApproves
<1> QED
  BY <1>1, <1>2 DEF Presses

\* What a step adds to the requests: only a verification that lands sends a deed.
LEMMA DeedsSent ==
    ASSUME [Next]_vars, ~\E f \in flights : VerifyLands(f), NEW g \in flights', g.kind = "deed"
    PROVE  g \in flights
<1>1. CASE AccountSteps \/ UNCHANGED vars
  BY <1>1 DEF AccountSteps, vars, Login, Logout, ChangesSession, Disable, Enable, ChangesMember, Tick
<1>2. ASSUME NEW new, new.kind # "deed", flights' = flights \cup {new} PROVE g \in flights
  BY <1>2
<1>3. ASSUME NEW c \in Recipes, AskRecipe(c) PROVE g \in flights
  BY <1>3 DEF AskRecipe, CountRequest
<1>4. ASSUME NEW u \in Users, SubmitVerify(u) PROVE g \in flights
  BY <1>4 DEF SubmitVerify, VerifyRequest
<1>5. ASSUME NEW u \in Users, NEW r \in Reports, SubmitReport(u, r) PROVE g \in flights
  BY <1>5 DEF SubmitReport, VerifyRequest
<1>6. CASE PageSteps
  BY <1>3, <1>4, <1>5, <1>6
  DEF PageSteps, AskExport, CountAnswered, VerifyRefused, CancelVerify, LeaveVerify
<1>7. CASE ServerSteps
  BY <1>7 DEF ServerSteps, DeedLands, DeedRefused, FactoryApproves
<1> QED
  BY <1>1, <1>6, <1>7, StepCases

\* And only it gives a token; the others keep their number and their purpose.
LEMMA TokensGiven ==
    ASSUME TypeOK, [Next]_vars, ~\E f \in flights : VerifyLands(f)
    PROVE  /\ issued' = issued
           /\ \A j \in tokens' : \E k \in tokens : j.id = k.id /\ j.meant = k.meant
<1>1. TokenTypes /\ Fresh \subseteq tokens
  BY TypeParts DEF Fresh
<1>2. CASE Tick
  <2>1. ASSUME NEW j \in tokens' PROVE \E k \in tokens : j.id = k.id /\ j.meant = k.meant
    <3>1. PICK k \in Fresh : j = [k EXCEPT !.left = @ - 1]
      BY <1>2, <2>1 DEF Tick
    <3>2. k \in tokens /\ k \in TokenType
      BY <1>1, <3>1, FreshTokens
    <3>3. j.id = k.id /\ j.meant = k.meant
      BY <3>1, <3>2 DEF TokenType
    <3> QED
      BY <3>2, <3>3
  <2> QED
    BY <1>2, <2>1 DEF Tick
<1>3. CASE issued' = issued /\ tokens' \subseteq tokens
  BY <1>3
<1>4. CASE (AccountSteps /\ ~Tick) \/ PageSteps \/ UNCHANGED vars
  BY <1>3, <1>4
  DEF AccountSteps, PageSteps, vars, AskRecipe, AskExport, SubmitVerify, SubmitReport,
      CountAnswered, VerifyRefused, CancelVerify, LeaveVerify, Login, Logout,
      ChangesSession, Disable, Enable, ChangesMember
<1>5. CASE ServerSteps
  BY <1>1, <1>3, <1>5 DEF ServerSteps, DeedLands, DeedRefused, Taken, FactoryApproves
<1> QED
  BY <1>2, <1>4, <1>5, StepCases

\* The continuation that a token meets is the one it was asked for, or gone.
LEMMA ContinuesAsAsked ==
    ASSUME HasteInv, NEW f \in flights, f.kind = "verify"
    PROVE  Continues(f) \in {f.deed, NoDeed}
BY DEF HasteInv, OnScreen, Continues

\* What a verification that lands adds to the tokens and to the requests.
LEMMA Verified ==
    ASSUME NEW f \in flights, VerifyLands(f)
    PROVE  /\ issued' = issued + 1
           /\ \A k \in tokens' : k \in tokens \/ (k.id = issued + 1 /\ k.meant = f.deed)
           /\ \A g \in flights' :
                \/ g \in flights
                \/ /\ g.kind = "deed" /\ g.token = issued + 1 /\ g.by = session
                   /\ g.deed = Continues(f) /\ g.deed # NoDeed
           /\ UNCHANGED <<session, reports, haste>>
BY DEF VerifyLands, DeedRequest, Fresh

LEMMA MeantStep ==
    ASSUME TypeOK, HasteInv, MeantInv, [Next]_vars
    PROVE  MeantInv'
<1>1. issued \in Nat /\ TokenTypes /\ PageTypes
  BY TypeParts, BoundAssumption DEF TokenTypes
<1>2. CASE \E f \in flights : VerifyLands(f)
  <2>1. PICK f \in flights : VerifyLands(f)
    BY <1>2
  <2>2. Continues(f) \in {f.deed, NoDeed}
    BY <2>1, ContinuesAsAsked DEF VerifyLands
  <2>3. \A k \in tokens : k.id \in Nat /\ k.id <= issued
    BY <1>1, BoundAssumption DEF MeantInv, TokenTypes, TokenType
  <2>4. \A g \in flights : g.kind = "deed" => g.token \in Nat /\ g.token <= issued
    BY <1>1, FlightFields, BoundAssumption DEF MeantInv, Deed
  <2>5. /\ \A k \in tokens' : k.id <= issued'
        /\ \A g \in flights' : g.kind = "deed" => g.token <= issued'
    BY <1>1, <2>1, <2>3, <2>4, Verified
  <2>6. ASSUME NEW g \in flights', NEW k \in tokens', g.kind = "deed", g.token = k.id
        PROVE  g.deed = k.meant
    <3>1. CASE g \in flights
      <4>1. k \in tokens
        BY <1>1, <2>1, <2>4, <2>6, <3>1, Verified
      <4> QED
        BY <2>6, <3>1, <4>1 DEF MeantInv
    <3>2. CASE g \notin flights
      <4>1. g.token = issued + 1 /\ g.deed = f.deed
        BY <2>1, <2>2, <3>2, Verified
      <4>2. k \notin tokens
        <5>1. k.id = issued + 1
          BY <2>6, <4>1
        <5>2. ~(k.id <= issued)
          BY <1>1, <5>1
        <5> QED
          BY <2>3, <5>2
      <4> QED
        BY <2>1, <4>1, <4>2, Verified
    <3> QED
      BY <3>1, <3>2
  <2> QED
    BY <2>5, <2>6 DEF MeantInv
<1>3. CASE ~\E f \in flights : VerifyLands(f)
  <2>1. \A g \in flights' : g.kind = "deed" => g \in flights
    BY <1>3, DeedsSent
  <2>2. /\ issued' = issued
        /\ \A j \in tokens' : \E k \in tokens : j.id = k.id /\ j.meant = k.meant
    BY <1>3, TokensGiven
  <2> QED
    BY <2>1, <2>2 DEF MeantInv
<1> QED
  BY <1>2, <1>3

\* Nothing else puts an approver on a report.
LEMMA ReportsKept ==
    ASSUME [Next]_vars, ~\E f \in flights : DeedLands(f), ~\E r \in Reports : FactoryApproves(r)
    PROVE  reports' = reports
BY StepCases
DEF AccountSteps, PageSteps, ServerSteps, vars, AskRecipe, AskExport, SubmitVerify,
    SubmitReport, CountAnswered, VerifyRefused, CancelVerify, LeaveVerify, Login, Logout,
    ChangesSession, Disable, Enable, ChangesMember, Tick, VerifyLands, DeedRefused

\* An approval by another than the operator leaves no report signed by its own.
LEMMA Signed ==
    ASSUME ThingTypes, SignedByAnother, NEW u, NEW d \in Deeds, Approves(u, d),
           d.purpose = "report" /\ u \in Members => u # reports[d.thing].operator
    PROVE  SignedByAnother'
<1>1. d.purpose = "report" => d.thing \in Reports
  BY DeedFields
<1>2. CASE d.purpose = "report"
  <2>1. reports' = [reports EXCEPT ![d.thing].approver = u]
    BY <1>2 DEF Approves
  <2>2. ASSUME NEW r \in Reports
        PROVE  /\ reports'[r].operator = reports[r].operator
               /\ reports'[r].approver = IF r = d.thing THEN u ELSE reports[r].approver
    BY <1>1, <1>2, <2>1 DEF ThingTypes
  <2> QED
    BY <1>1, <1>2, <2>2 DEF SignedByAnother
<1>3. CASE d.purpose # "report"
  BY <1>3 DEF Approves, SignedByAnother
<1> QED
  BY <1>2, <1>3

LEMMA SignedStep ==
    ASSUME TypeOK, SignerInv, [Next]_vars
    PROVE  SignedByAnother'
<1>1. ThingTypes /\ PageTypes /\ SignedByAnother
  BY TypeParts DEF SignerInv
<1>2. ASSUME NEW f \in flights, DeedLands(f) PROVE SignedByAnother'
  <2>1. PICK k \in Fresh : Possible(k, f.deed, f.by) /\ Approves(k.who, f.deed)
    BY <1>2 DEF DeedLands
  <2>2. f.deed \in Deeds /\ f.kind = "deed"
    BY <1>1, <1>2, FlightFields DEF DeedLands
  <2>3. f.deed.purpose = "report" => k.who # reports[f.deed.thing].operator
    BY <2>1, <2>2 DEF SignerInv, Possible
  <2> QED
    BY <1>1, <2>1, <2>2, <2>3, Signed
<1>3. ASSUME NEW r \in Reports, FactoryApproves(r) PROVE SignedByAnother'
  <2>1. [purpose |-> "report", thing |-> r] \in Deeds /\ Factory \notin Members
    BY MembersAssumption DEF Deeds
  <2> QED
    BY <1>1, <1>3, <2>1, Signed DEF FactoryApproves
<1> QED
  BY <1>1, <1>2, <1>3, ReportsKept DEF SignedByAnother

\* Where the requests for the approval of a report come from.
LEMMA ReportAsked ==
    ASSUME [Next]_vars, NEW f \in flights', f.kind = "verify", f.deed.purpose = "report",
           awaiting # NoDeed => awaiting.purpose # "report", PageTypes
    PROVE  f \in flights \/ (session \in Members /\ session' = session)
<1>1. ASSUME NEW u \in Users, SubmitVerify(u) PROVE f \in flights
  <2>1. awaiting.purpose # "report"
    BY <1>1 DEF SubmitVerify, PageTypes
  <2> QED
    BY <1>1, <2>1 DEF SubmitVerify, VerifyRequest
<1>2. ASSUME NEW u \in Users, NEW r \in Reports, SubmitReport(u, r)
      PROVE  session \in Members /\ session' = session
  BY <1>2 DEF SubmitReport
<1>3. ASSUME NEW c \in Recipes, AskRecipe(c) PROVE f \in flights
  BY <1>3 DEF AskRecipe, CountRequest
<1>4. CASE PageSteps
  BY <1>1, <1>2, <1>3, <1>4
  DEF PageSteps, AskExport, CountAnswered, VerifyRefused, CancelVerify, LeaveVerify
<1>5. ASSUME NEW g \in flights, VerifyLands(g) PROVE f \in flights
  BY <1>5, Verified
<1>6. CASE ServerSteps
  BY <1>5, <1>6 DEF ServerSteps, DeedLands, DeedRefused, FactoryApproves
<1>7. CASE AccountSteps \/ UNCHANGED vars
  BY <1>7 DEF AccountSteps, vars, Login, Logout, ChangesSession, Disable, Enable, ChangesMember, Tick
<1> QED
  BY <1>4, <1>6, <1>7, StepCases

\* A login meets no request that asks for the approval of a report.
LEMMA SignerStep ==
    ASSUME TypeOK, ScreenInv, HasteInv, SignerInv, Patient, [Next]_vars
    PROVE  SignerInv'
<1>1. PageTypes
  BY TypeParts
<1>2. ASSUME NEW f \in flights', f.kind = "verify", f.deed.purpose = "report"
      PROVE  session' # Factory /\ (haste' = 0 => session' # Nobody)
  <2>1. CASE f \notin flights
    BY <1>1, <1>2, <2>1, ReportAsked, MembersAssumption DEF ScreenInv
  <2>2. CASE f \in flights
    <3>1. session # Factory /\ (haste = 0 => session # Nobody)
      BY <1>2, <2>2 DEF SignerInv
    <3>2. CASE session' = session
      BY <3>1, <3>2, HasteGrows
    <3>3. ASSUME NEW u \in Users, Login(u) PROVE FALSE
      BY <2>2, <3>1, <3>3, OnePress DEF Login, ChangesSession
    <3>4. CASE Logout
      BY <2>2, <3>4, OnePress, MembersAssumption DEF Logout, ChangesSession
    <3>5. CASE AccountSteps
      BY <3>2, <3>3, <3>4, <3>5 DEF AccountSteps, Disable, Enable, ChangesMember, Tick
    <3> QED
      BY <3>2, <3>5, AccountsKept, StepCases
  <2> QED
    BY <2>1, <2>2
<1>3. ASSUME NEW g \in flights', g.kind = "deed", g.deed.purpose = "report"
      PROVE  g.by # Factory
  <2>1. CASE g \in flights
    BY <1>3, <2>1 DEF SignerInv
  <2>2. CASE g \notin flights
    <3>1. PICK f \in flights : VerifyLands(f)
      BY <1>3, <2>2, DeedsSent
    <3>2. g.by = session /\ g.deed = Continues(f) /\ g.deed # NoDeed
      BY <2>2, <3>1, Verified
    <3>3. f.kind = "verify" /\ f.deed = g.deed
      BY <3>1, <3>2, ContinuesAsAsked DEF VerifyLands
    <3> QED
      BY <1>3, <3>2, <3>3 DEF SignerInv
  <2> QED
    BY <2>1, <2>2
<1> QED
  BY <1>2, <1>3, SignedStep DEF SignerInv

-----------------------------------------------------------------------------
(* The patient user.                                                       *)

LEMMA PatientInit == Init => PatientInv
<1> SUFFICES ASSUME Init PROVE PatientInv
  OBVIOUS
<1>1. ScreenInv /\ HasteInv /\ MeantInv
  BY DEF Init, ScreenInv, HasteInv, MeantInv
<1>2. \A r \in Reports : reports[r].approver = Nobody
  BY DEF Init
<1>3. SignerInv
  BY <1>2, MembersAssumption DEF Init, SignerInv, SignedByAnother
<1> QED
  BY <1>1, <1>3, TypeInit DEF PatientInv

LEMMA PatientInvariant == ASSUME Patient PROVE Spec => []PatientInv
<1>1. PatientInv /\ [Next]_vars => PatientInv'
  BY TypeStep, ScreenStep, HasteStep, MeantStep, SignerStep DEF PatientInv
<1> QED
  BY <1>1, PatientInit, PTL DEF Spec

\* A user who presses at most once while a request is under way has each
\* signature put to the use its owner gave it for (submitApprovalVerifyModal);
\* with two such presses the screen can be another one when the answer comes.
THEOREM SignaturesMeant == ASSUME Patient PROVE Spec => []SignedAsMeant
<1>1. PatientInv => SignedAsMeant
  BY DEF PatientInv, MeantInv, SignedAsMeant, Fresh
<1> QED
  BY <1>1, PatientInvariant, PTL

\* And no report is approved by the one who operated it (approve_report),
\* although the server lets whoever is on the page of the factory user past
\* that question.
THEOREM OthersSign == ASSUME Patient PROVE Spec => []SignedByAnother
<1>1. PatientInv => SignedByAnother
  BY DEF PatientInv, SignerInv
<1> QED
  BY <1>1, PatientInvariant, PTL
=============================================================================
