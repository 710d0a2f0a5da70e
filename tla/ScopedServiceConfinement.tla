---------------------- MODULE ScopedServiceConfinement ----------------------
(***************************************************************************)
(* The server changes the account as Confinement does: the checks of a call *)
(* hold when its change is made, trust never widens the policy, and the     *)
(* level bounds what is deleted; and values reach the item they were meant  *)
(* for.  On top of the invariant IInv of ScopedServiceSafety, which is      *)
(* about boards and items, the proofs need what a call knows of its own     *)
(* request, of the board it has created and of the board it writes to.      *)
(***************************************************************************)
EXTENDS ScopedServiceSafety

-----------------------------------------------------------------------------
\* What one step of a call may touch.

LEMMA CallFrame ==
  ASSUME NEW r \in Req, Start(r) \/ Serve(r)
  PROVE  /\ UNCHANGED <<policy, movedItems, movedBoards>>
         /\ created' = created \/ TrustBoard(r)
         /\ \/ workspaceOf' = workspaceOf
            \/ SendNewBoard(r) \/ SendDeleteBoard(r) \/ SendDeleteFolder(r)
         /\ \/ boardOf' = boardOf
            \/ SendMoveToBoard(r) \/ SendDeleteItem(r) \/ SendNewItem(r) \/ SendNewSubitem(r)
<1>1. ASSUME NEW ok, Verdict(r, ok) PROVE UNCHANGED <<policy, world, created>>
  BY <1>1 DEF Verdict, shared
<1>2. CASE \/ Guard(r) \/ GuardWorkspace(r) \/ GuardBoard(r) \/ SkipLookUp(r)
           \/ ReadAndValidate(r) \/ FindUpdate(r)
  <2>1. UNCHANGED <<policy, world, created>>
    BY <1>1, <1>2
       DEF Guard, GuardWorkspace, GuardBoard, SkipLookUp, ReadAndValidate, FindUpdate
  <2>2. QED
    BY <2>1 DEF world
<1>3. CASE Start(r) \/ LookUpItem(r) \/ LookUpFails(r) \/ CallPort(r) \/ Respond(r)
  BY <1>3 DEF Start, LookUpItem, LookUpFails, CallPort, Respond, world, shared
<1>4. CASE ScopeCheck(r) \/ Remember(r) \/ TrustBoard(r)
  BY <1>4 DEF ScopeCheck, SkipScope, LookUpCache, AskBoard, AskBoardFails,
              RememberBoard, Remember, TrustBoard, world, shared
<1>5. CASE Send(r)
  BY <1>5
     DEF Send, SendInPlace, SendFails, SendList, SendNewBoard, SendDeleteBoard,
         SendDeleteFolder, SendMoveToBoard, SendDeleteItem, SendNewItem,
         SendNewSubitem, world, shared
<1>6. QED
  BY <1>2, <1>3, <1>4, <1>5 DEF Serve

-----------------------------------------------------------------------------
\* What every step does to the boards, whatever the calls have checked.

BoardsSteady ==
  /\ policy' = policy
  /\ movedBoards \subseteq movedBoards'
  /\ \A b \in Board : workspaceOf[b] # Unborn =>
       workspaceOf'[b] \in {workspaceOf[b], Gone} \/ b \in movedBoards'

LEMMA NewBoardLandsInWorkspace ==
  ASSUME TypeOK, NEW r \in Req, request[r].board # NoBoard => Exists(request[r].board)
  PROVE  LandsIn(r) \in Workspace
<1>1. request[r].workspace \in Workspace \cup {NoWorkspace}
  BY DEF TypeOK, Request
<1>2. QED
  BY <1>1, MainIsAWorkspace DEF LandsIn, Exists

\* The boards a call to monday, or another user, moves are whole families.
LEMMA BoardsMoveTogether ==
  ASSUME TypeOK, FamiliesTogether, [Next]_vars
  PROVE  BoardsSteady /\ FamiliesTogether'
<1>1. ASSUME UNCHANGED <<policy, workspaceOf, movedBoards>>
      PROVE  BoardsSteady /\ FamiliesTogether'
  BY <1>1 DEF BoardsSteady, FamiliesTogether
<1>2. ASSUME NEW boards \in SUBSET Board, NEW w, Settle(boards, w),
             policy' = policy,
             \A b \in boards : Family(b) \subseteq boards,
             movedBoards' = movedBoards \/ movedBoards' = movedBoards \cup boards,
             \/ w = Gone \/ \A b \in boards : workspaceOf[b] = Unborn
             \/ boards \subseteq movedBoards'
      PROVE  BoardsSteady /\ FamiliesTogether'
  <2>1. FamiliesTogether'
    BY <1>2, SettlingKeepsFamilies
  <2>2. BoardsSteady
    BY <1>2 DEF BoardsSteady, Settle
  <2>3. QED
    BY <2>1, <2>2
<1>3. ASSUME NEW b \in Board
      PROVE  /\ Family(b) \in SUBSET Board
             /\ \A c \in Family(b) : Family(c) \subseteq Family(b)
             /\ \A c \in Family(b) : workspaceOf[c] = workspaceOf[b]
  BY FamilyIsClosed DEF Family, FamiliesTogether
<1>4. ASSUME NEW r \in Req, SendNewBoard(r) PROVE BoardsSteady /\ FamiliesTogether'
  <2>1. PICK b \in Board : workspaceOf[b] = Unborn /\ Settle(Family(b), LandsIn(r))
    BY <1>4 DEF SendNewBoard
  <2>2. policy' = policy /\ movedBoards' = movedBoards
    BY <1>4 DEF SendNewBoard
  <2>3. QED
    BY <1>2, <1>3, <2>1, <2>2
<1>5. ASSUME NEW r \in Req, SendDeleteBoard(r) PROVE BoardsSteady /\ FamiliesTogether'
  <2>1. /\ request[r].board \in Board /\ Settle(Family(request[r].board), Gone)
        /\ policy' = policy /\ movedBoards' = movedBoards
    BY <1>5 DEF SendDeleteBoard, Exists
  <2>2. QED
    BY <1>2, <1>3, <2>1
<1>6. ASSUME NEW r \in Req, SendDeleteFolder(r) PROVE BoardsSteady /\ FamiliesTogether'
  <2>1. PICK boards \in SUBSET Board :
          (\A b \in boards : Family(b) \subseteq boards) /\ Settle(boards, Gone)
    BY <1>6 DEF SendDeleteFolder
  <2>2. policy' = policy /\ movedBoards' = movedBoards
    BY <1>6 DEF SendDeleteFolder
  <2>3. QED
    BY <1>2, <2>1, <2>2
<1>7. CASE OthersMoveBoard
  <2>1. PICK b \in Board, w \in Workspace :
          Settle(Family(b), w) /\ movedBoards' = movedBoards \cup Family(b)
    BY <1>7 DEF OthersMoveBoard
  <2>2. policy' = policy
    BY <1>7 DEF OthersMoveBoard
  <2>3. QED
    BY <1>2, <1>3, <2>1, <2>2
<1>8. CASE OthersMoveItem \/ UNCHANGED vars
  BY <1>1, <1>8 DEF OthersMoveItem, vars
<1>9. ASSUME NEW r \in Req, Start(r) \/ Serve(r) PROVE BoardsSteady /\ FamiliesTogether'
  BY <1>1, <1>4, <1>5, <1>6, <1>9, CallFrame
<1>10. QED
  BY <1>7, <1>8, <1>9 DEF Next

-----------------------------------------------------------------------------
\* What a call knows of its own request: no other call can change it.

Warrants == {"write", "delete", "workspace", "scopeWorkspace", "unfenced",
             "guardArg", "guardFound", "guardTarget"}

Warrant(r, c) ==
  /\ c \in {"write", "delete", "workspace", "guardArg", "guardFound", "guardTarget"} =>
       CheckWrite(policy)
  /\ c = "delete"         => policy.level = "full"
  /\ c = "workspace"      => CheckWorkspace(policy, request[r].workspace)
  /\ c = "scopeWorkspace" => (Scoped(policy) => request[r].workspace = policy.scope)
  /\ c = "unfenced"       => ~Restricted(policy) /\ ~Scoped(policy)

Warranted(r) == \A c \in Warrants : Passed(r, c) => Warrant(r, c)

AdmittedWorkspace(w) ==
  CheckWorkspace(policy, w) /\ (Scoped(policy) => w = policy.scope)

\* The answer to a call that creates a board reveals that board alone, in a
\* workspace the policy admits.
Entrusted(r) ==
  layer[r] = "reply" /\ Effect(r) = "newBoard" =>
    /\ CheckWrite(policy)
    /\ \A b \in Board : answer[r][b] # NoWorkspace =>
         /\ AdmittedWorkspace(answer[r][b]) /\ WasIn(b, answer[r][b])
         /\ \A c \in Board : answer[r][c] # NoWorkspace => c = b

TrustInv ==
  /\ TypeOK
  /\ FamiliesTogether
  /\ TrustStaysInside
  /\ \A r \in Req : Warranted(r) /\ Entrusted(r)

LEMMA WarrantStays ==
  ASSUME NEW r \in Req, NEW c, Warrant(r, c), policy' = policy,
         request'[r] = request[r]
  PROVE  Warrant(r, c)'
BY DEF Warrant, CheckWrite, CheckWorkspace, Restricted, Scoped

LEMMA StandingKeepsWarrants ==
  ASSUME NEW r \in Req, Warranted(r), policy' = policy, request'[r] = request[r],
         layer'[r] = layer[r], pc'[r] = pc[r]
  PROVE  Warranted(r)'
<1>1. \A c \in Warrants : Passed(r, c)' => Passed(r, c)
  BY DEF Passed, Port
<1>2. QED
  BY <1>1, WarrantStays DEF Warranted

LEMMA ReturningKeepsWarrants ==
  ASSUME TypeOK, NEW r \in Req, Return(r) \/ layer'[r] \in {"idle", "reply"}
  PROVE  Warranted(r)'
<1>1. layer'[r] \notin {"service", "port"}
  BY DEF TypeOK, Return, Enter
<1>2. QED
  BY <1>1 DEF Warranted, Passed

\* Going on with a check that has no warrant to give, or gives it.
LEMMA AdvancingKeepsWarrants ==
  ASSUME TypeOK, NEW r \in Req, Warranted(r), Advance(r), policy' = policy,
         request'[r] = request[r],
         \A c \in Warrants : At(r, {c}) => Warrant(r, c)
  PROVE  Warranted(r)'
<1>1. ASSUME NEW c \in Warrants, Passed(r, c)' PROVE Warrant(r, c)
  BY <1>1, PassedAfterAdvance DEF Warranted
<1>2. QED
  BY <1>1, WarrantStays DEF Warranted

LEMMA VerdictKeepsWarrants ==
  ASSUME TypeOK, NEW r \in Req, Warranted(r), NEW ok, Verdict(r, ok),
         ok => \A c \in Warrants : At(r, {c}) => Warrant(r, c)
  PROVE  Warranted(r)'
<1>1. CASE Return(r)
  BY <1>1, ReturningKeepsWarrants
<1>2. CASE ok /\ Advance(r) /\ UNCHANGED call
  BY <1>2, AdvancingKeepsWarrants DEF Verdict, call
<1>3. QED
  BY <1>1, <1>2 DEF Verdict

LEMMA LocalChecksKeepWarrants ==
  ASSUME TypeOK, NEW r \in Req, Warranted(r),
         \/ Guard(r) \/ GuardWorkspace(r) \/ GuardBoard(r) \/ SkipLookUp(r)
         \/ ReadAndValidate(r) \/ FindUpdate(r)
  PROVE  Warranted(r)'
<1> DEFINE Gives(ok) == ok => \A c \in Warrants : At(r, {c}) => Warrant(r, c)
<1>1. ASSUME NEW ok, Verdict(r, ok), Gives(ok) PROVE Warranted(r)'
  BY <1>1, VerdictKeepsWarrants
<1>2. CASE Guard(r)
  <2>1. CASE At(r, {"write"}) /\ Verdict(r, CheckWrite(policy))
    <3>1. Gives(CheckWrite(policy))
      BY <2>1 DEF At, Warrant
    <3>2. QED
      BY <1>1, <2>1, <3>1
  <2>2. CASE At(r, {"confirm", "unscoped", "named"}) /\ \E ok : Verdict(r, ok)
    <3>1. \A c \in Warrants : ~At(r, {c})
      BY <2>2 DEF At, Warrants
    <3>2. QED
      BY <1>1, <2>2, <3>1
  <2>3. CASE At(r, {"delete"})
             /\ \E confirm \in BOOLEAN : Verdict(r, RequireDelete(policy, confirm))
    <3>1. PICK confirm \in BOOLEAN : Verdict(r, RequireDelete(policy, confirm))
      BY <2>3
    <3>2. Gives(RequireDelete(policy, confirm))
      BY <2>3 DEF At, Warrant, RequireDelete
    <3>3. QED
      BY <1>1, <3>1, <3>2
  <2>4. CASE At(r, {"unfenced"}) /\ Verdict(r, ~Restricted(policy) /\ ~Scoped(policy))
    <3>1. Gives(~Restricted(policy) /\ ~Scoped(policy))
      BY <2>4 DEF At, Warrant
    <3>2. QED
      BY <1>1, <2>4, <3>1
  <2>5. QED
    BY <1>2, <2>1, <2>2, <2>3, <2>4 DEF Guard, At
<1>3. CASE GuardWorkspace(r)
  <2>1. CASE /\ At(r, {"workspace"})
             /\ Verdict(r, CheckWorkspace(policy, request[r].workspace))
    <3>1. Gives(CheckWorkspace(policy, request[r].workspace))
      BY <2>1 DEF At, Warrant, CheckWorkspace
    <3>2. QED
      BY <1>1, <2>1, <3>1
  <2>2. CASE /\ At(r, {"scopeWorkspace"})
             /\ Verdict(r, Scoped(policy) => request[r].workspace = policy.scope)
    <3>1. Gives(Scoped(policy) => request[r].workspace = policy.scope)
      BY <2>2 DEF At, Warrant
    <3>2. QED
      BY <1>1, <2>2, <3>1
  <2>3. QED
    BY <1>3, <2>1, <2>2 DEF GuardWorkspace
<1>4. CASE GuardBoard(r)
  <2>1. PICK c \in {"guardArg", "guardFound", "guardTarget"} :
          At(r, {c}) /\ \E b : Verdict(r, CheckBoard(policy, created, b))
    BY <1>4 DEF GuardBoard
  <2>2. PICK b : Verdict(r, CheckBoard(policy, created, b))
    BY <2>1
  <2>3. Gives(CheckBoard(policy, created, b))
    BY <2>1 DEF At, Warrant, CheckBoard
  <2>4. QED
    BY <1>1, <2>2, <2>3
<1>5. CASE SkipLookUp(r) \/ ReadAndValidate(r) \/ FindUpdate(r)
  <2>1. \A c \in Warrants : ~At(r, {c})
    BY <1>5 DEF SkipLookUp, ReadAndValidate, FindUpdate, At, Warrants
  <2>2. \E ok : Verdict(r, ok)
    BY <1>5 DEF SkipLookUp, ReadAndValidate, FindUpdate
  <2>3. QED
    BY <1>1, <2>1, <2>2
<1>6. QED
  BY <1>2, <1>3, <1>4, <1>5

LEMMA ScopeChecksKeepWarrants ==
  ASSUME TypeOK, NEW r \in Req, Warranted(r), ScopeCheck(r)
  PROVE  Warranted(r)'
<1>1. At(r, ScopeChecks) /\ policy' = policy
  BY CallFrame
     DEF Serve, ScopeCheck, SkipScope, LookUpCache, AskBoard, AskBoardFails, RememberBoard
<1>2. \A c \in Warrants : ~At(r, {c})
  BY <1>1 DEF At, ScopeChecks, Warrants
<1>3. ASSUME NEW w, ScopeVerdict(r, w) PROVE Warranted(r)'
  BY <1>1, <1>2, <1>3, AdvancingKeepsWarrants, ReturningKeepsWarrants DEF ScopeVerdict
<1>4. CASE SkipScope(r)
  BY <1>1, <1>2, <1>4, AdvancingKeepsWarrants DEF SkipScope
<1>5. CASE LookUpCache(r)
  BY <1>1, <1>3, <1>5, StandingKeepsWarrants DEF LookUpCache
<1>6. CASE AskBoard(r)
  BY <1>1, <1>6, StandingKeepsWarrants DEF AskBoard
<1>7. CASE AskBoardFails(r)
  BY <1>1, <1>2, <1>7, AdvancingKeepsWarrants, ReturningKeepsWarrants DEF AskBoardFails
<1>8. CASE RememberBoard(r)
  BY <1>3, <1>8 DEF RememberBoard
<1>9. QED
  BY <1>4, <1>5, <1>6, <1>7, <1>8 DEF ScopeCheck

LEMMA LookUpsKeepWarrants ==
  ASSUME TypeOK, NEW r \in Req, Warranted(r), LookUpItem(r) \/ LookUpFails(r)
  PROVE  Warranted(r)'
<1>1. policy' = policy /\ LookUpIsMade(r)
  BY DEF LookUpItem, LookUpFails
<1>2. \A c \in Warrants : ~At(r, {c})
  BY <1>1 DEF LookUpIsMade, At, Warrants
<1>3. CASE Advance(r) /\ request' = request
  BY <1>1, <1>2, <1>3, AdvancingKeepsWarrants
<1>4. CASE Return(r)
  BY <1>4, ReturningKeepsWarrants
<1>5. CASE /\ At(r, {"tryLookUp"}) /\ pc' = [pc EXCEPT ![r] = pc[r] + 2]
           /\ UNCHANGED <<layer, request>>
  <2>1. WellOrdered(request[r].op) /\ Len(PassThrough) = 0 /\ pc[r] \in Nat
    BY OpOfCall DEF PassThrough, TypeOK
  <2>2. /\ layer[r] = "service" /\ layer'[r] = "service" /\ pc'[r] = pc[r] + 2
        /\ request' = request
    <3>1. layer[r] = "service"
      BY <1>5, <2>1 DEF At, Checks, WellOrdered, Port
    <3>2. QED
      BY <1>5, <3>1 DEF TypeOK
  <2>3. /\ request[r].op.service[pc[r]] = "tryLookUp"
        /\ request[r].op.service[pc[r] + 1] = "tryScope"
    BY <1>5, <2>1, <2>2 DEF At, Checks, WellOrdered, TriesFirst
  <2>4. ASSUME NEW c \in Warrants, Passed(r, c)' PROVE Passed(r, c)
    <3>1. PICK k \in 1..Len(request[r].op.service) :
            k < pc[r] + 2 /\ request[r].op.service[k] = c
      BY <2>2, <2>4 DEF Passed, PassedIn
    <3>2. k < pc[r] \/ k = pc[r] \/ k = pc[r] + 1
      BY <2>1, <3>1 DEF WellOrdered
    <3>3. QED
      BY <2>2, <2>3, <2>4, <3>1, <3>2 DEF Passed, PassedIn, Warrants
  <2>5. QED
    BY <1>1, <2>2, <2>4, WarrantStays DEF Warranted
<1>6. QED
  BY <1>3, <1>4, <1>5 DEF LookUpItem, LookUpFails

LEMMA CallKeepsWarrants ==
  ASSUME TypeOK, NEW r \in Req, Warranted(r), Start(r) \/ Serve(r)
  PROVE  Warranted(r)'
<1>1. policy' = policy
  BY CallFrame
<1>2. CASE Start(r)
  <2>1. layer'[r] = "service" /\ pc'[r] = 1
    BY <1>2 DEF Start, Enter, TypeOK
  <2>2. QED
    BY <2>1 DEF Warranted, Passed, PassedIn
<1>3. CASE CallPort(r)
  <2>1. /\ layer[r] = "service" /\ pc[r] = Len(request[r].op.service) + 1
        /\ layer'[r] = "port" /\ pc'[r] = 1 /\ request'[r] = request[r]
    BY <1>3 DEF CallPort, Finished, Checks, Enter, call, TypeOK
  <2>2. ASSUME NEW c \in Warrants, Passed(r, c)' PROVE Passed(r, c)
    <3>1. Has(request[r].op.service, c)
      BY <2>1, <2>2 DEF Passed, PassedIn
    <3>2. QED
      BY <2>1, <3>1, OpOfCall DEF Passed, PassedIn, Has, WellOrdered
  <2>3. QED
    BY <1>1, <2>1, <2>2, WarrantStays DEF Warranted
<1>4. CASE Send(r)
  <2>1. ASSUME NEW result, Answered(r, result) PROVE Warranted(r)'
    <3>1. CASE Enter(r, "reply") \/ Return(r)
      BY <3>1, ReturningKeepsWarrants DEF Enter, TypeOK
    <3>2. CASE UNCHANGED <<layer, pc, call>>
      BY <1>1, <3>2, StandingKeepsWarrants DEF call
    <3>3. QED
      BY <2>1, <3>1, <3>2 DEF Answered
  <2>2. Return(r) \/ \E result : Answered(r, result)
    BY <1>4 DEF Send, SendInPlace, SendFails, SendList, SendNewBoard,
                SendDeleteBoard, SendDeleteFolder, SendMoveToBoard,
                SendDeleteItem, SendNewItem, SendNewSubitem
  <2>3. QED
    BY <2>1, <2>2, ReturningKeepsWarrants
<1>5. CASE Remember(r) \/ TrustBoard(r)
  <2>1. \A c \in Warrants : ~At(r, {c})
    BY <1>5 DEF Remember, TrustBoard, At, Warrants
  <2>2. QED
    BY <1>1, <1>5, <2>1, AdvancingKeepsWarrants DEF Remember, TrustBoard, call
<1>6. CASE Respond(r)
  BY <1>6, ReturningKeepsWarrants DEF Respond
<1>7. QED
  BY <1>2, <1>3, <1>4, <1>5, <1>6, LocalChecksKeepWarrants, LookUpsKeepWarrants,
     ScopeChecksKeepWarrants DEF Serve

-----------------------------------------------------------------------------
\* A call that is ready to send has made every check of its operation.

LEMMA LicenseOf ==
  ASSUME TypeOK, NEW r \in Req
  PROVE  Licensed(request[r].op)
BY OpOfCall, OperationsLicensed

LEMMA ReadyCallsAreWarranted ==
  ASSUME TypeOK, NEW r \in Req, Warranted(r), ReadyToSend(r), NEW c \in Warrants,
         \/ Has(request[r].op.service, c)
         \/ Has(request[r].op.port, c) /\ Scoped(policy)
  PROVE  Warrant(r, c)
<1>1. layer[r] = "port" /\ pc[r] = Len(Port(request[r].op)) + 1
  BY DEF ReadyToSend, Finished, Checks
<1>2. Passed(r, c)
  BY <1>1, OpOfCall DEF Passed, PassedIn, Has, Port, WellOrdered
<1>3. QED
  BY <1>2 DEF Warranted

\* Where a new board lands is settled by the request once any fence is up.
LEMMA NewBoardIsAdmitted ==
  ASSUME TypeOK, NEW r \in Req, Warranted(r), ReadyToSend(r), Effect(r) = "newBoard"
  PROVE  CheckWrite(policy) /\ AdmittedWorkspace(LandsIn(r))
<1>1. /\ Has(request[r].op.service, "workspace")
      /\ Has(request[r].op.port, "scopeWorkspace")
  BY LicenseOf DEF Licensed, Effect
<1>2. CheckWorkspace(policy, request[r].workspace)
  BY <1>1, ReadyCallsAreWarranted DEF Warrants, Warrant
<1>3. Scoped(policy) => request[r].workspace = policy.scope
  BY <1>1, ReadyCallsAreWarranted DEF Warrants, Warrant
<1>4. Restricted(policy) => request[r].workspace # NoWorkspace
  <2>1. policy.workspaces \subseteq Workspace
    BY PoliciesAreValid DEF TypeOK, Policy
  <2>2. QED
    BY <1>2, <2>1, NoWorkspaceIsNone DEF CheckWorkspace
<1>5. Restricted(policy) \/ Scoped(policy) => LandsIn(r) = request[r].workspace
  <2>1. Restricted(policy) \/ Scoped(policy) => request[r].workspace # NoWorkspace
    BY <1>3, <1>4 DEF Scoped
  <2>2. request[r].workspace # NoWorkspace => LandsIn(r) = request[r].workspace
    BY DEF LandsIn
  <2>3. QED
    BY <2>1, <2>2
<1>6. QED
  BY <1>2, <1>3, <1>5 DEF AdmittedWorkspace, CheckWorkspace

LEMMA AdmittedStays ==
  ASSUME policy' = policy, NEW w, AdmittedWorkspace(w)
  PROVE  AdmittedWorkspace(w)'
BY DEF AdmittedWorkspace, CheckWorkspace, CheckWrite, Restricted, Scoped

LEMMA RevealedStays ==
  ASSUME BoardsSteady, NEW b \in Board, NEW w \in Workspace, WasIn(b, w)
  PROVE  WasIn(b, w)'
<1>1. w # Unborn /\ Gone # Unborn
  BY NamesAreDistinct
<1>2. QED
  BY <1>1 DEF BoardsSteady, WasIn

-----------------------------------------------------------------------------
\* What is revealed of a new board.

LEMMA TrustStays ==
  ASSUME TypeOK, BoardsSteady, NEW r \in Req, Entrusted(r),
         layer'[r] # "reply" \/ layer'[r] = layer[r],
         request'[r] = request[r] \/ layer'[r] # "reply",
         answer'[r] = answer[r] \/ layer[r] # "reply" \/ Effect(r) # "newBoard"
  PROVE  Entrusted(r)'
<1> SUFFICES ASSUME layer'[r] = "reply", Effect(r)' = "newBoard" PROVE Entrusted(r)'
  BY DEF Entrusted
<1>1. layer[r] = "reply" /\ Effect(r) = "newBoard" /\ answer'[r] = answer[r]
  BY DEF Effect
<1>2. policy' = policy /\ CheckWrite(policy)'
  BY <1>1 DEF BoardsSteady, Entrusted, CheckWrite
<1>3. ASSUME NEW b \in Board, answer[r][b] # NoWorkspace
      PROVE  /\ AdmittedWorkspace(answer[r][b])' /\ WasIn(b, answer[r][b])'
             /\ \A c \in Board : answer[r][c] # NoWorkspace => c = b
  <2>1. answer[r][b] \in Workspace
    BY <1>3 DEF TypeOK
  <2>2. /\ AdmittedWorkspace(answer[r][b]) /\ WasIn(b, answer[r][b])
        /\ \A c \in Board : answer[r][c] # NoWorkspace => c = b
    BY <1>1, <1>3 DEF Entrusted
  <2>3. WasIn(b, answer[r][b])'
    <3> DEFINE w == answer[r][b]
    <3>1. w \in Workspace /\ WasIn(b, w) /\ w' = w
      BY <1>1, <2>1, <2>2
    <3> HIDE DEF w
    <3>2. WasIn(b, w)'
      BY <3>1, RevealedStays
    <3>3. QED
      BY <3>1, <3>2 DEF w
  <2>4. AdmittedWorkspace(answer[r][b])'
    <3> DEFINE w == answer[r][b]
    <3>1. AdmittedWorkspace(w) /\ w' = w
      BY <1>1, <2>2
    <3> HIDE DEF w
    <3>2. AdmittedWorkspace(w)'
      BY <1>2, <3>1, AdmittedStays
    <3>3. QED
      BY <3>1, <3>2 DEF w
  <2>5. QED
    BY <2>2, <2>3, <2>4
<1>4. QED
  BY <1>1, <1>2, <1>3 DEF Entrusted

\* monday creates the board where the policy wants it, and says so.
LEMMA NewBoardIsEntrusted ==
  ASSUME TypeOK, NEW r \in Req, Warranted(r), SendNewBoard(r), layer'[r] = "reply"
  PROVE  Entrusted(r)'
<1>1. /\ ReadyToSend(r) /\ Effect(r) = "newBoard"
      /\ UNCHANGED <<policy, movedBoards>>
  BY DEF SendNewBoard
<1>2. PICK b \in Board : Settle(Family(b), LandsIn(r)) /\ Answered(r, Reveals(b, LandsIn(r)))
  BY DEF SendNewBoard
<1>3. PICK w : w = LandsIn(r)
  OBVIOUS
<1>4. answer'[r] = Reveals(b, w) /\ request'[r] = request[r]
  <2>1. layer[r] = "port"
    BY <1>1 DEF ReadyToSend, Finished
  <2>2. QED
    BY <1>2, <1>3, <2>1 DEF Answered, Return, Enter, TypeOK
<1>5. workspaceOf'[b] = w
  BY <1>2, <1>3, FamilyIsClosed DEF Settle, Family
<1>6. CheckWrite(policy)' /\ AdmittedWorkspace(w)'
  BY <1>1, <1>3, NewBoardIsAdmitted, AdmittedStays DEF CheckWrite
<1>7. ASSUME NEW c \in Board, answer'[r][c] # NoWorkspace
      PROVE  c = b /\ answer'[r][c] = w
  BY <1>4, <1>7 DEF Reveals
<1>8. QED
  BY <1>5, <1>6, <1>7 DEF Entrusted, WasIn

LEMMA CallKeepsTrust ==
  ASSUME TypeOK, BoardsSteady, NEW r \in Req, Warranted(r), Entrusted(r),
         Start(r) \/ Serve(r)
  PROVE  Entrusted(r)'
<1>1. ASSUME layer'[r] # "reply" PROVE Entrusted(r)'
  BY <1>1 DEF Entrusted
<1>2. ASSUME Return(r) PROVE Entrusted(r)'
  BY <1>1, <1>2 DEF Return, Enter, TypeOK
<1>3. ASSUME NEW ok, Verdict(r, ok) PROVE Entrusted(r)'
  BY <1>2, <1>3, TrustStays DEF Verdict, Advance, call
<1>4. CASE Start(r) \/ CallPort(r)
  BY <1>1, <1>4 DEF Start, CallPort, Enter, TypeOK
<1>5. CASE \/ Guard(r) \/ GuardWorkspace(r) \/ GuardBoard(r) \/ SkipLookUp(r)
           \/ ReadAndValidate(r) \/ FindUpdate(r)
  BY <1>3, <1>5 DEF Guard, GuardWorkspace, GuardBoard, SkipLookUp, ReadAndValidate,
                    FindUpdate
<1>6. CASE LookUpItem(r) \/ LookUpFails(r)
  BY <1>2, <1>6, TrustStays DEF LookUpItem, LookUpFails, Advance, call
<1>7. CASE ScopeCheck(r)
  <2>1. At(r, ScopeChecks)
    BY <1>7 DEF ScopeCheck, SkipScope, LookUpCache, AskBoard, AskBoardFails, RememberBoard
  <2>2. layer[r] # "reply" \/ Effect(r) # "newBoard"
    BY <2>1, LicenseOf DEF At, Checks, ScopeChecks, Licensed, Effect, KeepNewBoard
  <2>3. Return(r) \/ (layer' = layer /\ request' = request)
    BY <1>7 DEF ScopeCheck, SkipScope, LookUpCache, AskBoard, AskBoardFails,
                RememberBoard, ScopeVerdict, Advance
  <2>4. QED
    BY <1>2, <2>2, <2>3, TrustStays
<1>8. CASE Send(r)
  <2>1. layer[r] = "port"
    BY <1>8 DEF Send, SendInPlace, SendFails, SendList, SendNewBoard, SendDeleteBoard,
                SendDeleteFolder, SendMoveToBoard, SendDeleteItem, SendNewItem,
                SendNewSubitem, ReadyToSend, Finished
  <2>2. CASE SendNewBoard(r)
    BY <1>1, <2>2, NewBoardIsEntrusted
  <2>3. CASE ~SendNewBoard(r)
    <3>1. Effect(r) # "newBoard" \/ Return(r)
      BY <1>8, <2>3 DEF Send, SendInPlace, SendFails, SendList, SendDeleteBoard,
                        SendDeleteFolder, SendMoveToBoard, SendDeleteItem,
                        SendNewItem, SendNewSubitem
    <3>2. Return(r) \/ \E result : Answered(r, result)
      BY <1>8 DEF Send, SendInPlace, SendFails, SendList, SendNewBoard,
                  SendDeleteBoard, SendDeleteFolder, SendMoveToBoard,
                  SendDeleteItem, SendNewItem, SendNewSubitem
    <3>3. Return(r) \/ request' = request
      BY <3>2 DEF Answered, call
    <3>4. QED
      BY <1>2, <3>1, <3>3 DEF Entrusted, Effect
  <2>4. QED
    BY <2>2, <2>3
<1>9. CASE Remember(r) \/ TrustBoard(r)
  BY <1>9, TrustStays DEF Remember, TrustBoard, Advance, call
<1>10. CASE Respond(r)
  BY <1>2, <1>10 DEF Respond
<1>11. QED
  BY <1>4, <1>5, <1>6, <1>7, <1>8, <1>9, <1>10 DEF Serve

-----------------------------------------------------------------------------
\* Trust.

LEMMA TrustedCallsCreated ==
  ASSUME TypeOK, NEW r \in Req, Entrusted(r), TrustBoard(r)
  PROVE  /\ CheckWrite(policy)
         /\ \A b \in created' : b \in created \/
              /\ b \in Board /\ answer[r][b] \in Workspace
              /\ AdmittedWorkspace(answer[r][b]) /\ WasIn(b, answer[r][b])
              /\ \A c \in Board : answer[r][c] # NoWorkspace => c = b
<1>1. layer[r] = "reply" /\ Effect(r) = "newBoard"
  <2>1. At(r, {"trust"})
    BY DEF TrustBoard
  <2>2. layer[r] = "reply"
    BY <2>1, LicenseOf DEF At, Checks, Licensed, Has, Port, PassThrough
  <2>3. Has(request[r].op.reply, "trust")
    BY <2>1, <2>2 DEF At, Checks, Has
  <2>4. QED
    BY <2>2, <2>3, LicenseOf DEF Licensed, Effect
<1>2. QED
  BY <1>1 DEF TrustBoard, Entrusted, TypeOK

LEMMA TrustStaysInsideStays ==
  ASSUME TypeOK, BoardsSteady, TrustStaysInside,
         \A b \in created' : b \in created \/
           /\ b \in Board /\ \E w \in Workspace : AdmittedWorkspace(w) /\ WasIn(b, w)
  PROVE  TrustStaysInside'
<1> SUFFICES ASSUME NEW b \in created', b \notin movedBoards'
             PROVE  /\ Restricted(policy)' => workspaceOf'[b] \in policy'.workspaces \cup {Gone}
                    /\ InScope(b)'
  BY DEF TrustStaysInside
<1>1. policy' = policy /\ b \notin movedBoards /\ b \in Board
  BY DEF BoardsSteady, TypeOK
<1>2. /\ Restricted(policy) => workspaceOf[b] \in policy.workspaces \cup {Gone}
      /\ Scoped(policy) => workspaceOf[b] \in {policy.scope, Gone}
  <2>1. CASE b \in created
    BY <1>1, <2>1 DEF TrustStaysInside, InScope
  <2>2. CASE b \notin created
    BY <1>1, <2>2 DEF AdmittedWorkspace, CheckWorkspace, WasIn
  <2>3. QED
    BY <2>1, <2>2
<1>3. Restricted(policy) \/ Scoped(policy) => workspaceOf[b] # Unborn
  <2>1. policy.workspaces \subseteq Workspace /\ (Scoped(policy) => policy.scope \in Workspace)
    BY PoliciesAreValid DEF TypeOK, Policy, Scoped
  <2>2. QED
    BY <1>2, <2>1, NamesAreDistinct
<1>4. Restricted(policy) \/ Scoped(policy) => workspaceOf'[b] \in {workspaceOf[b], Gone}
  BY <1>1, <1>3 DEF BoardsSteady
<1>5. QED
  BY <1>1, <1>2, <1>4 DEF InScope, Restricted, Scoped

LEMMA InitEstablishesTrust == Init => TrustInv
<1> SUFFICES ASSUME Init PROVE TrustInv
  OBVIOUS
<1>1. TypeOK /\ FamiliesTogether
  BY InitEstablishes DEF IInv
<1>2. TrustStaysInside
  BY DEF Init, TrustStaysInside
<1>3. ASSUME NEW r \in Req PROVE Warranted(r) /\ Entrusted(r)
  BY DEF Init, Warranted, Passed, Entrusted
<1>4. QED
  BY <1>1, <1>2, <1>3 DEF TrustInv

LEMMA StepKeepsTrust ==
  ASSUME TrustInv, [Next]_vars
  PROVE  TrustInv'
<1>1. TypeOK /\ TypeOK' /\ BoardsSteady /\ FamiliesTogether'
  BY StepTypes, BoardsMoveTogether DEF TrustInv
<1>2. ASSUME NEW q \in Req, Undisturbing(q) PROVE Warranted(q)' /\ Entrusted(q)'
  BY <1>1, <1>2, StandingKeepsWarrants, TrustStays
     DEF TrustInv, Undisturbing, Stands, BoardsSteady
<1>3. ASSUME created' = created PROVE TrustStaysInside'
  BY <1>1, <1>3, TrustStaysInsideStays DEF TrustInv
<1>4. ASSUME NEW r \in Req, Start(r) \/ Serve(r) PROVE TrustInv'
  <2>1. ASSUME NEW q \in Req PROVE Warranted(q)' /\ Entrusted(q)'
    BY <1>1, <1>2, <1>4, OneCallMoves, CallKeepsWarrants, CallKeepsTrust DEF TrustInv
  <2>2. TrustStaysInside'
    <3>1. CASE TrustBoard(r)
      <4>1. \A b \in created' : b \in created \/
              /\ b \in Board /\ \E w \in Workspace : AdmittedWorkspace(w) /\ WasIn(b, w)
        BY <1>1, <3>1, TrustedCallsCreated DEF TrustInv
      <4>2. QED
        BY <1>1, <4>1, TrustStaysInsideStays DEF TrustInv
    <3>2. QED
      BY <1>3, <1>4, <3>1, CallFrame
  <2>3. QED
    BY <1>1, <2>1, <2>2 DEF TrustInv
<1>5. CASE OthersMoveItem \/ OthersMoveBoard \/ UNCHANGED vars
  <2>1. created' = created /\ \A q \in Req : Undisturbing(q)
    BY <1>5 DEF OthersMoveItem, OthersMoveBoard, vars, shared, call, Undisturbing, Stands
  <2>2. QED
    BY <1>1, <1>2, <1>3, <2>1 DEF TrustInv
<1>6. QED
  BY <1>4, <1>5 DEF Next

\* Whatever tools are served, however calls interleave and whatever other
\* users do: a board the process trusts because it created it lies in a
\* workspace the allowlist names, and in the scope, unless others moved it.
THEOREM TrustIsNeverWidened == Spec => []TrustStaysInside
<1>1. Init => TrustInv
  BY InitEstablishesTrust
<1>2. TrustInv /\ [Next]_vars => TrustInv'
  BY StepKeepsTrust
<1>3. TrustInv => TrustStaysInside
  BY DEF TrustInv
<1>4. QED
  BY <1>1, <1>2, <1>3, PTL DEF Spec

-----------------------------------------------------------------------------
\* What the level allows.

LEMMA ChangesAreWarranted ==
  ASSUME TypeOK, NEW r \in Req, Facts(r), Warranted(r), ReadyToSend(r),
         Effect(r) \in {"newBoard", "deleteBoard", "deleteFolder", "deleteWorkspace",
                        "moveToBoard", "deleteItem", "newItem", "newSubitem"}
  PROVE  /\ CheckWrite(policy)
         /\ Effect(r) \in {"deleteBoard", "deleteItem", "deleteFolder", "deleteWorkspace"} =>
              policy.level = "full"
<1> DEFINE op == request[r].op
<1>1. ASSUME NEW c \in Warrants, Has(op.service, c) PROVE Warrant(r, c)
  BY <1>1, ReadyCallsAreWarranted
<1>2. CASE Effect(r) \in {"deleteBoard", "deleteItem", "deleteFolder", "deleteWorkspace"}
  <2>1. Has(op.service, "delete")
    BY <1>2, LicenseOf DEF Licensed, Effect
  <2>2. QED
    BY <1>1, <2>1 DEF Warrants, Warrant
<1>3. CASE Effect(r) = "newBoard"
  BY <1>3, NewBoardIsAdmitted
<1>4. CASE Effect(r) \in {"moveToBoard", "newItem", "newSubitem"}
  <2>1. op \in Operations /\ op \notin Unresolved
    BY <1>4, OpOfCall, MoversResolve DEF Effect
  <2>2. Judged(op)
    BY <2>1, OperationsJudged DEF Unresolved
  <2>3. \E c \in {"guardArg", "guardFound"} : Has(op.service, c)
    BY <1>4, <2>2 DEF Judged, ChangesBoard, ChangesItem, Effect
  <2>4. QED
    BY <1>1, <1>4, <2>3 DEF Warrants, Warrant
<1>5. QED
  BY <1>2, <1>3, <1>4

\* The boards that go: those of a board the call may change, or of a
\* workspace it may change.
LEMMA DeletedBoardsAreAdmitted ==
  ASSUME IInv, NEW r \in Req, Warranted(r), SendDeleteBoard(r) \/ SendDeleteFolder(r),
         NEW b \in Board, workspaceOf[b] # Gone, workspaceOf'[b] = Gone
  PROVE  /\ policy.level = "full" /\ InScope(b)
         /\ \/ AdmittedWorkspace(workspaceOf[b])
            \/ \E c \in Family(b) :
                 /\ c \in Board /\ Exists(c) /\ CheckBoard(policy, created, c) /\ InScope(c)
<1>1. TypeOK /\ FamiliesTogether /\ Facts(r) /\ ReadyToSend(r)
  BY DEF IInv, SendDeleteBoard, SendDeleteFolder
<1>2. CASE SendDeleteBoard(r)
  <2> DEFINE c == request[r].board
  <2>1. policy.level = "full"
    BY <1>1, <1>2, ChangesAreWarranted DEF SendDeleteBoard
  <2>2. c \in Board /\ Exists(c) /\ b \in Family(c)
    BY <1>2 DEF SendDeleteBoard, Exists, Settle
  <2>3. ChangesBoard(request[r].op) /\ request[r].op \notin Unresolved
    BY <1>2, MoversResolve DEF SendDeleteBoard, Effect, ChangesBoard
  <2>4. BoardAllowed(c) /\ BoardInScope(c)
    BY <1>1, <2>3, ReadyCallsAreJudged
  <2>5. InScope(c) /\ CheckBoard(policy, created, c)
    BY <2>2, <2>4, NamesAreDistinct DEF BoardAllowed, BoardInScope, InScope
  <2>6. c \in Family(b) /\ workspaceOf[b] = workspaceOf[c]
        /\ (c \in movedBoards => b \in movedBoards)
    BY <1>1, <2>2, FamilyIsClosed DEF FamiliesTogether
  <2>7. QED
    BY <2>1, <2>2, <2>5, <2>6 DEF InScope
<1>3. CASE SendDeleteFolder(r)
  <2>1. policy.level = "full" /\ CheckWrite(policy)
    BY <1>1, <1>3, ChangesAreWarranted DEF SendDeleteFolder
  <2>2. workspaceOf[b] = request[r].workspace
    BY <1>3 DEF SendDeleteFolder, Settle
  <2>3. CASE Effect(r) = "deleteFolder"
    <3>1. Warrant(r, "workspace") /\ Warrant(r, "scopeWorkspace")
      BY <1>1, <2>3, LicenseOf, ReadyCallsAreWarranted DEF Licensed, Warrants, Effect
    <3>2. QED
      BY <2>1, <2>2, <3>1 DEF Warrant, AdmittedWorkspace, InScope
  <2>4. CASE Effect(r) = "deleteWorkspace"
    <3>1. Warrant(r, "unfenced")
      BY <1>1, <2>4, LicenseOf, ReadyCallsAreWarranted DEF Licensed, Warrants, Effect
    <3>2. QED
      BY <2>1, <3>1 DEF Warrant, AdmittedWorkspace, CheckWorkspace, InScope
  <2>5. QED
    BY <1>3, <2>3, <2>4 DEF SendDeleteFolder
<1>4. QED
  BY <1>2, <1>3

\* What is sent, whatever it changes.
LEMMA SentCallsAreLicensed ==
  ASSUME TypeOK, NEW r \in Req, Warranted(r), ReadyToSend(r)
  PROVE  /\ policy.level = "read" => Effect(r) \in {"read", "list"}
         /\ request[r].op \in Deletions => policy.level = "full"
<1>1. ASSUME NEW c \in Warrants, Has(request[r].op.service, c) PROVE Warrant(r, c)
  BY <1>1, ReadyCallsAreWarranted
<1>2. ASSUME Effect(r) \notin {"read", "list"} PROVE policy.level # "read"
  <2>1. PICK c \in WriteChecks : Has(request[r].op.service, c)
    BY <1>2, LicenseOf DEF Licensed, Effect
  <2>2. QED
    BY <1>1, <2>1 DEF WriteChecks, Warrants, Warrant, CheckWrite
<1>3. ASSUME request[r].op \in Deletions PROVE policy.level = "full"
  BY <1>1, <1>3, DeletionsAskForLevel DEF Warrants, Warrant
<1>4. QED
  BY <1>2, <1>3

LEMMA CallIsBounded ==
  ASSUME IInv, TrustInv, NEW r \in Req, Start(r) \/ Serve(r)
  PROVE  BoundedByLevel
<1>1. /\ TypeOK /\ Facts(r) /\ Warranted(r) /\ Entrusted(r)
      /\ UNCHANGED <<policy, movedItems, movedBoards>>
  BY CallFrame DEF IInv, TrustInv
<1> DEFINE Effects == {"newBoard", "deleteBoard", "deleteFolder", "deleteWorkspace",
                       "moveToBoard", "deleteItem", "newItem", "newSubitem"}
<1>2. ASSUME ReadyToSend(r), Effect(r) \in Effects PROVE policy.level # "read"
  BY <1>1, <1>2, ChangesAreWarranted DEF CheckWrite
<1>3. ASSUME policy.level = "read"
      PROVE  created' = created /\ boardOf' = boardOf /\ workspaceOf' = workspaceOf
  <2>1. ~TrustBoard(r)
    BY <1>1, <1>3, TrustedCallsCreated DEF CheckWrite
  <2>2. ~SendNewBoard(r) /\ ~SendDeleteBoard(r) /\ ~SendDeleteFolder(r)
    BY <1>2, <1>3 DEF SendNewBoard, SendDeleteBoard, SendDeleteFolder
  <2>3. /\ ~SendMoveToBoard(r) /\ ~SendDeleteItem(r)
        /\ ~SendNewItem(r) /\ ~SendNewSubitem(r)
    BY <1>2, <1>3 DEF SendMoveToBoard, SendDeleteItem, SendNewItem, SendNewSubitem
  <2>4. QED
    BY <2>1, <2>2, <2>3, CallFrame
<1>4. ASSUME NEW i \in Item, boardOf[i] # Gone, boardOf'[i] = Gone
      PROVE  policy.level = "full"
  <2>1. CASE SendDeleteItem(r)
    BY <1>1, <2>1, ChangesAreWarranted DEF SendDeleteItem
  <2>2. CASE SendMoveToBoard(r)
    BY <1>1, <1>4, <2>2, NamesAreDistinct DEF SendMoveToBoard, Exists, TypeOK
  <2>3. CASE SendNewItem(r)
    BY <1>1, <1>4, <2>3, NamesAreDistinct DEF SendNewItem, Exists, TypeOK
  <2>4. CASE SendNewSubitem(r)
    <3>1. PICK j \in Item :
            boardOf' = [boardOf EXCEPT ![j] = SubBoard[boardOf[request[r].item]]]
      BY <2>4 DEF SendNewSubitem
    <3>2. SubBoard[boardOf[request[r].item]] \in Board
      BY <2>4, SubBoardIsPartial DEF SendNewSubitem, Visible
    <3>3. QED
      BY <1>1, <1>4, <3>1, <3>2, NamesAreDistinct DEF TypeOK
  <2>5. QED
    BY <1>4, <2>1, <2>2, <2>3, <2>4, CallFrame
<1>5. ASSUME NEW b \in Board, workspaceOf[b] # Gone, workspaceOf'[b] = Gone
      PROVE  /\ policy.level = "full" /\ InScope(b)
             /\ \/ CheckWorkspace(policy, workspaceOf[b])
                \/ \E c \in Family(b) : CheckBoard(policy, created, c)
  <2>1. CASE SendNewBoard(r)
    <3>1. PICK a \in Board : Settle(Family(a), LandsIn(r))
      BY <2>1 DEF SendNewBoard
    <3>2. LandsIn(r) \in Workspace
      BY <1>1, <2>1, NewBoardLandsInWorkspace DEF SendNewBoard
    <3>3. workspaceOf'[b] \in {workspaceOf[b], LandsIn(r)}
      BY <3>1 DEF Settle
    <3>4. QED
      BY <1>5, <3>2, <3>3, NamesAreDistinct
  <2>2. CASE SendDeleteBoard(r) \/ SendDeleteFolder(r)
    BY <1>1, <1>5, <2>2, DeletedBoardsAreAdmitted DEF AdmittedWorkspace
  <2>3. QED
    BY <1>5, <2>1, <2>2, CallFrame
<1>6. \A q \in Req : ReadyToSend(q) =>
        /\ policy.level = "read" => Effect(q) \in {"read", "list"}
        /\ request[q].op \in Deletions => policy.level = "full"
  BY SentCallsAreLicensed DEF TrustInv
<1>7. QED
  BY <1>3, <1>4, <1>5, <1>6 DEF BoundedByLevel

LEMMA StepIsBounded ==
  ASSUME IInv, TrustInv, [Next]_vars
  PROVE  [BoundedByLevel]_vars
<1>0. \A q \in Req : ReadyToSend(q) =>
        /\ policy.level = "read" => Effect(q) \in {"read", "list"}
        /\ request[q].op \in Deletions => policy.level = "full"
  BY SentCallsAreLicensed DEF TrustInv
<1>1. CASE OthersMoveItem
  <2>1. PICK i \in Item, b \in Board :
          boardOf' = [boardOf EXCEPT ![i] = b] /\ movedItems' = movedItems \cup {i}
    BY <1>1 DEF OthersMoveItem
  <2>2. created' = created /\ workspaceOf' = workspaceOf
    BY <1>1 DEF OthersMoveItem, shared
  <2>3. \A j \in Item : boardOf'[j] = boardOf[j] \/ (j \in movedItems' /\ boardOf'[j] # Gone)
    BY <2>1, NamesAreDistinct DEF IInv, TypeOK
  <2>4. QED
    BY <1>0, <2>2, <2>3 DEF BoundedByLevel
<1>2. CASE OthersMoveBoard
  <2>1. PICK b \in Board, w \in Workspace :
          Settle(Family(b), w) /\ movedBoards' = movedBoards \cup Family(b)
    BY <1>2 DEF OthersMoveBoard
  <2>2. created' = created /\ boardOf' = boardOf
    BY <1>2 DEF OthersMoveBoard, shared
  <2>3. \A c \in Board : workspaceOf'[c] = workspaceOf[c]
                         \/ (c \in movedBoards' /\ workspaceOf'[c] # Gone)
    BY <2>1, NamesAreDistinct DEF Settle
  <2>4. QED
    BY <1>0, <2>2, <2>3 DEF BoundedByLevel
<1>3. QED
  BY <1>1, <1>2, CallIsBounded DEF Next

\* At level read no mutation reaches monday and no step changes a board or an
\* item, only at level full a delete of any kind is sent, and the boards that
\* go with a folder, a workspace or a board are inside the allowlists and the
\* scope, however calls and other users interleave.
THEOREM LevelsAreKept ==
  ASSUME SubitemsUndisturbed
  PROVE  Spec => LevelsBoundChanges
<1>1. Init => IInv /\ TrustInv
  BY InitEstablishes, InitEstablishesTrust
<1>2. IInv /\ TrustInv /\ [Next]_vars => IInv' /\ TrustInv'
  BY StepKeepsIInv, StepKeepsTrust
<1>3. IInv /\ TrustInv /\ [Next]_vars => [BoundedByLevel]_vars
  BY StepIsBounded
<1>4. QED
  BY <1>1, <1>2, <1>3, PTL DEF Spec, LevelsBoundChanges

-----------------------------------------------------------------------------
\* The service implements Confinement.

\* Only other users move what was not checked.
OthersMoveNothing == movedItems = {} /\ movedBoards = {}

LEMMA NothingIsMoved ==
  ASSUME OutsideMoves = {}, OthersMoveNothing, [Next]_vars
  PROVE  OthersMoveNothing'
<1>1. ~OthersMoveItem /\ ~OthersMoveBoard
  BY DEF OthersMoveItem, OthersMoveBoard
<1>2. UNCHANGED <<movedItems, movedBoards>>
  BY <1>1, CallFrame DEF Next, vars
<1>3. QED
  BY <1>2 DEF OthersMoveNothing

LEMMA AdmittedWorkspaceIsAtomic ==
  ASSUME NEW w, AdmittedWorkspace(w)
  PROVE  Atomic!AdmitsWorkspace(w)
BY DEF AdmittedWorkspace, CheckWorkspace, CheckWrite, Restricted, Scoped,
       Atomic!AdmitsWorkspace, Atomic!CheckWorkspace, Atomic!CheckWrite,
       Atomic!Restricted, Atomic!Scoped

LEMMA AllowedBoardIsAtomic ==
  ASSUME OthersMoveNothing, NEW b \in Board, Exists(b),
         BoardAllowed(b), Scoped(policy) => InScope(b)
  PROVE  Atomic!AdmitsBoard(b)
<1>1. workspaceOf[b] # Gone
  BY NamesAreDistinct DEF Exists
<1>2. QED
  BY <1>1
     DEF OthersMoveNothing, Exists, BoardAllowed, InScope, CheckBoard, CheckWrite,
         Restricted, Scoped, Atomic!AdmitsBoard, Atomic!Exists, Atomic!CheckBoard,
         Atomic!CheckWrite, Atomic!Restricted, Atomic!Scoped

\* The board an item is on now is one the call may change.
LEMMA JudgedItemIsAtomic ==
  ASSUME OthersMoveNothing, NEW i, Visible(i), ItemAllowed(i), ItemInScope(i)
  PROVE  Atomic!AdmitsBoard(boardOf[i])
<1>1. boardOf[i] \in Board /\ Exists(boardOf[i]) /\ Undisturbed(i)
  BY DEF Visible, OthersMoveNothing, Undisturbed
<1>2. BoardAllowed(boardOf[i])
  BY <1>1 DEF ItemAllowed, BoardAllowed, CheckBoard
<1>3. Scoped(policy) => InScope(boardOf[i])
  BY <1>1 DEF ItemInScope
<1>4. QED
  BY <1>1, <1>2, <1>3, AllowedBoardIsAtomic

LEMMA JudgedBoardIsAtomic ==
  ASSUME TypeOK, OthersMoveNothing, NEW r \in Req, Facts(r), ReadyToSend(r),
         ChangesBoard(request[r].op), Exists(request[r].board),
         Effect(r) \notin {"item", "update"}
  PROVE  Atomic!AdmitsBoard(request[r].board)
<1>1. request[r].op \notin Unresolved
  BY MoversResolve DEF Effect
<1>2. /\ request[r].board \in Board
      /\ BoardAllowed(request[r].board) /\ BoardInScope(request[r].board)
  BY <1>1, ReadyCallsAreJudged
<1>3. Scoped(policy) => InScope(request[r].board)
  BY <1>2, NamesAreDistinct DEF BoardInScope
<1>4. QED
  BY <1>2, <1>3, AllowedBoardIsAtomic

LEMMA NewBoardIsAtomic ==
  ASSUME IInv, TrustInv, NEW r \in Req, SendNewBoard(r)
  PROVE  Atomic!NewBoard
<1>1. TypeOK /\ Warranted(r) /\ ReadyToSend(r) /\ Effect(r) = "newBoard"
  BY DEF IInv, TrustInv, SendNewBoard
<1>2. PICK b \in Board : workspaceOf[b] = Unborn /\ Settle(Family(b), LandsIn(r))
  BY DEF SendNewBoard
<1>3. LandsIn(r) \in Workspace
  BY <1>1, NewBoardLandsInWorkspace DEF SendNewBoard
<1>4. Atomic!AdmitsWorkspace(LandsIn(r))
  BY <1>1, NewBoardIsAdmitted, AdmittedWorkspaceIsAtomic
<1>5. workspaceOf' = [c \in Board |-> IF c \in Atomic!Family(b) THEN LandsIn(r)
                                                               ELSE workspaceOf[c]]
  BY <1>2 DEF Settle, Family, Atomic!Family
<1>6. UNCHANGED <<policy, boardOf, created>>
  BY DEF SendNewBoard, shared
<1>7. QED
  BY <1>2, <1>3, <1>4, <1>5, <1>6 DEF Atomic!NewBoard

LEMMA TrustIsAtomic ==
  ASSUME TypeOK, OthersMoveNothing, NEW r \in Req, Entrusted(r), TrustBoard(r)
  PROVE  Atomic!Trust \/ UNCHANGED Atomic!vars
<1>1. UNCHANGED <<policy, workspaceOf, boardOf>>
  BY DEF TrustBoard, world
<1>2. created' = created \cup {b \in Board : answer[r][b] # NoWorkspace}
  BY DEF TrustBoard
<1>3. CASE created' = created
  BY <1>1, <1>3 DEF Atomic!vars
<1>4. CASE created' # created
  <2>1. PICK b \in created' : b \notin created
    BY <1>2, <1>4
  <2>2. /\ b \in Board /\ AdmittedWorkspace(answer[r][b]) /\ WasIn(b, answer[r][b])
        /\ answer[r][b] \in Workspace
        /\ \A c \in Board : answer[r][c] # NoWorkspace => c = b
    BY <2>1, TrustedCallsCreated
  <2>3. created' = created \cup {b}
    BY <1>2, <2>1, <2>2
  <2>4. workspaceOf[b] \in {answer[r][b], Gone}
    BY <2>2 DEF WasIn, OthersMoveNothing
  <2>5. workspaceOf[b] # Unborn
    BY <2>2, <2>4, NamesAreDistinct
  <2>6. Atomic!AdmitsWorkspace(answer[r][b])
    BY <2>2, AdmittedWorkspaceIsAtomic
  <2>7. QED
    BY <1>1, <2>2, <2>3, <2>4, <2>5, <2>6 DEF Atomic!Trust
<1>5. QED
  BY <1>3, <1>4

LEMMA DeletionIsAtomic ==
  ASSUME IInv, TrustInv, OthersMoveNothing, NEW r \in Req,
         SendDeleteBoard(r) \/ SendDeleteFolder(r)
  PROVE  Atomic!DeleteBoards
<1>1. /\ TypeOK /\ Facts(r) /\ Warranted(r) /\ ReadyToSend(r)
      /\ Effect(r) \in {"deleteBoard", "deleteFolder", "deleteWorkspace"}
      /\ UNCHANGED <<policy, boardOf, created>>
  BY DEF IInv, TrustInv, SendDeleteBoard, SendDeleteFolder, shared
<1>2. policy.level = "full"
  BY <1>1, ChangesAreWarranted
<1>3. PICK settled \in SUBSET Board : Settle(settled, Gone)
  BY DEF SendDeleteBoard, SendDeleteFolder, Family
<1> DEFINE boards == {b \in settled : workspaceOf[b] # Gone}
<1>4. workspaceOf' = [b \in Board |-> IF b \in boards THEN Gone ELSE workspaceOf[b]]
  BY <1>3 DEF Settle
<1>5. ASSUME NEW b \in boards
      PROVE  Atomic!AdmitsWorkspace(workspaceOf[b])
             \/ \E c \in Atomic!Family(b) : Atomic!AdmitsBoard(c)
  <2>1. b \in Board /\ workspaceOf[b] # Gone /\ workspaceOf'[b] = Gone
    BY <1>3, <1>4, <1>5
  <2>2. \/ AdmittedWorkspace(workspaceOf[b])
        \/ \E c \in Family(b) :
             c \in Board /\ Exists(c) /\ CheckBoard(policy, created, c) /\ InScope(c)
    BY <1>1, <2>1, DeletedBoardsAreAdmitted
  <2>3. CASE AdmittedWorkspace(workspaceOf[b])
    BY <2>3, AdmittedWorkspaceIsAtomic
  <2>4. ASSUME NEW c \in Family(b), c \in Board, Exists(c),
               CheckBoard(policy, created, c), InScope(c)
        PROVE  c \in Atomic!Family(b) /\ Atomic!AdmitsBoard(c)
    BY <2>4, AllowedBoardIsAtomic
       DEF BoardAllowed, Family, Atomic!Family
  <2>5. QED
    BY <2>2, <2>3, <2>4
<1>6. QED
  BY <1>1, <1>2, <1>4, <1>5 DEF Atomic!DeleteBoards

LEMMA ItemChangeIsAtomic ==
  ASSUME IInv, TrustInv, OthersMoveNothing, NEW r \in Req,
         \/ SendMoveToBoard(r) \/ SendDeleteItem(r) \/ SendNewItem(r) \/ SendNewSubitem(r)
  PROVE  Atomic!MoveItem \/ Atomic!DeleteItem \/ Atomic!NewItem
<1>1. /\ TypeOK /\ Facts(r) /\ Warranted(r) /\ ReadyToSend(r)
      /\ Effect(r) \in {"moveToBoard", "deleteItem", "newItem", "newSubitem"}
      /\ UNCHANGED <<policy, workspaceOf, created>>
  BY DEF IInv, TrustInv, SendMoveToBoard, SendDeleteItem, SendNewItem, SendNewSubitem,
         shared
<1>2. request[r].op \notin Unresolved
  BY <1>1, MoversResolve DEF Effect
<1>3. ASSUME Effect(r) \in {"moveToBoard", "deleteItem", "newSubitem"},
             Visible(request[r].item)
      PROVE  request[r].item \in Item /\ Atomic!AdmitsBoard(boardOf[request[r].item])
  <2>1. ItemAllowed(request[r].item) /\ ItemInScope(request[r].item)
    BY <1>1, <1>2, <1>3, ReadyCallsAreJudged DEF ChangesItem, Effect
  <2>2. QED
    BY <1>3, <2>1, JudgedItemIsAtomic DEF Visible
<1>4. ASSUME Effect(r) \in {"moveToBoard", "newItem"}, Exists(request[r].board)
      PROVE  request[r].board \in Board /\ Atomic!AdmitsBoard(request[r].board)
  BY <1>1, <1>4, JudgedBoardIsAtomic DEF ChangesBoard, Effect, Exists
<1>5. CASE SendMoveToBoard(r)
  BY <1>1, <1>3, <1>4, <1>5 DEF SendMoveToBoard, Atomic!MoveItem
<1>6. CASE SendDeleteItem(r)
  <2>1. policy.level = "full"
    BY <1>1, <1>6, ChangesAreWarranted DEF SendDeleteItem
  <2>2. QED
    BY <1>1, <1>3, <1>6, <2>1 DEF SendDeleteItem, Atomic!DeleteItem
<1>7. CASE SendNewItem(r)
  BY <1>1, <1>4, <1>7 DEF SendNewItem, Atomic!NewItem
<1>8. CASE SendNewSubitem(r)
  <2> DEFINE b == boardOf[request[r].item]
  <2>1. Atomic!AdmitsBoard(b) /\ b \in Board /\ SubBoard[b] \in Board
    BY <1>3, <1>8, SubBoardIsPartial DEF SendNewSubitem, Visible
  <2>2. PICK i \in Item : /\ boardOf[i] = Unborn
                          /\ boardOf' = [boardOf EXCEPT ![i] = SubBoard[b]]
    BY <1>8 DEF SendNewSubitem
  <2>3. QED
    BY <1>1, <2>1, <2>2 DEF Atomic!NewItem
<1>9. QED
  BY <1>5, <1>6, <1>7, <1>8

LEMMA StepIsAtomic ==
  ASSUME IInv, TrustInv, OthersMoveNothing, OutsideMoves = {}, [Next]_vars
  PROVE  [Atomic!Next]_(Atomic!vars)
<1>1. CASE UNCHANGED vars
  BY <1>1 DEF vars, Atomic!vars
<1>2. ASSUME NEW r \in Req, Start(r) \/ Serve(r)
      PROVE  Atomic!Next \/ UNCHANGED Atomic!vars
  <2>1. CASE SendNewBoard(r)
    BY <2>1, NewBoardIsAtomic DEF Atomic!Next
  <2>2. CASE TrustBoard(r)
    BY <1>2, <2>2, TrustIsAtomic DEF Atomic!Next, TrustInv
  <2>3. CASE SendDeleteBoard(r) \/ SendDeleteFolder(r)
    BY <2>3, DeletionIsAtomic DEF Atomic!Next
  <2>4. CASE \/ SendMoveToBoard(r) \/ SendDeleteItem(r)
             \/ SendNewItem(r) \/ SendNewSubitem(r)
    BY <2>4, ItemChangeIsAtomic DEF Atomic!Next
  <2>5. QED
    BY <1>2, <2>1, <2>2, <2>3, <2>4, CallFrame DEF Atomic!vars
<1>3. ~OthersMoveItem /\ ~OthersMoveBoard
  BY DEF OthersMoveItem, OthersMoveBoard
<1>4. QED
  BY <1>1, <1>2, <1>3 DEF Next

\* While nobody else moves boards or items, the interleaved service does what
\* Confinement does in single steps: every change of the account, and every
\* board it starts to trust, is one the policy and the scope admit at the
\* moment the change is made.
THEOREM TheServiceIsConfined ==
  ASSUME OutsideMoves = {}
  PROVE  Spec => Confined
<1>1. SubitemsUndisturbed
  BY DEF SubitemsUndisturbed
<1>2. Init => IInv /\ TrustInv /\ OthersMoveNothing /\ Atomic!Init
  BY InitEstablishes, InitEstablishesTrust DEF Init, OthersMoveNothing, Atomic!Init
<1>3. IInv /\ TrustInv /\ OthersMoveNothing /\ [Next]_vars
        => IInv' /\ TrustInv' /\ OthersMoveNothing'
  BY <1>1, StepKeepsIInv, StepKeepsTrust, NothingIsMoved
<1>4. IInv /\ TrustInv /\ OthersMoveNothing /\ [Next]_vars => [Atomic!Next]_(Atomic!vars)
  BY StepIsAtomic
<1>5. QED
  BY <1>2, <1>3, <1>4, PTL DEF Spec, Confined, Atomic!Spec

-----------------------------------------------------------------------------
\* Column values go where they were validated.

\* Board b is in workspace w, or others have moved it: unlike WasIn, it has
\* not been deleted.
StillIn(b, w) == b \in movedBoards \/ workspaceOf[b] = w
StaysIn(b, w) == b \in movedBoards' \/ workspaceOf'[b] = w

\* What is known of boards outside the scope, in the cache or in an answer, is
\* exact, since the server deletes none of them.
ForeignKnown(known) ==
  Scoped(policy) => \A b \in Board :
    known[b] \notin {NoWorkspace, policy.scope} => StillIn(b, known[b])

\* The item is on the board its call has read, which is outside the scope:
\* no call of this server can move or delete it.
Abroad(r) ==
  LET i == request[r].item
      b == resolved[r] IN
  /\ i \in Item /\ b \in Board
  /\ \/ i \in movedItems \/ b \in movedBoards
     \/ boardOf[i] = b /\ workspaceOf[b] \in Workspace \ {policy.scope}

\* The same before the verdict on that board.
Read(r) ==
  /\ found[r] = resolved[r] /\ request[r].item \in Item /\ resolved[r] \in Board
  /\ workspaceOf[resolved[r]] \in {policy.scope, Gone} \/ Abroad(r)

Settled(r) ==
  resolved[r] \in {target[r], Unanswered} \/ (Scoped(policy) /\ Abroad(r))

Settling(r) ==
  Effect(r) = "values" =>
    LET tried == TriesAt(request[r].op) IN
    /\ layer[r] = "service" /\ pc[r] = tried + 1 =>
         found[r] = resolved[r] /\ (Scoped(policy) => Read(r))
    /\ (layer[r] = "service" /\ pc[r] > tried + 1) \/ layer[r] = "port" => Settled(r)

ValuesInv ==
  /\ ForeignKnown(cache)
  /\ \A r \in Req : ForeignKnown(answer[r]) /\ Settling(r)

\* What a step leaves as it was.
ForeignersKept ==
  /\ policy' = policy
  /\ movedItems \subseteq movedItems' /\ movedBoards \subseteq movedBoards'
  /\ \A b \in Board : workspaceOf[b] # Unborn =>
       workspaceOf'[b] \in {workspaceOf[b], Gone} \/ b \in movedBoards'
  /\ Scoped(policy) => \A b \in Board :
       workspaceOf[b] \in Workspace \ {policy.scope} =>
         /\ StaysIn(b, workspaceOf[b])
         /\ \A i \in Item : boardOf[i] = b =>
              boardOf'[i] = b \/ i \in movedItems' \/ b \in movedBoards'

\* A board outside the scope is neither deleted nor moved by a call.
LEMMA ForeignBoardStays ==
  ASSUME IInv, TrustInv, [Next]_vars, Scoped(policy), NEW b \in Board,
         workspaceOf[b] \in Workspace \ {policy.scope}
  PROVE  StaysIn(b, workspaceOf[b])
<1>1. BoardsSteady
  BY BoardsMoveTogether DEF IInv
<1>2. workspaceOf[b] # Unborn /\ workspaceOf[b] # Gone
  BY NamesAreDistinct
<1>3. CASE workspaceOf'[b] = Gone
  <2>1. BoundedByLevel
    BY <1>2, <1>3, StepIsBounded DEF vars
  <2>2. InScope(b)
    BY <1>2, <1>3, <2>1 DEF BoundedByLevel
  <2>3. b \in movedBoards
    BY <1>2, <2>2 DEF InScope
  <2>4. QED
    BY <1>1, <2>3 DEF BoardsSteady, StaysIn
<1>4. CASE workspaceOf'[b] # Gone
  BY <1>1, <1>2, <1>4 DEF BoardsSteady, StaysIn
<1>5. QED
  BY <1>3, <1>4

\* Nor is an item on it.
LEMMA ForeignItemStays ==
  ASSUME IInv, TrustInv, [Next]_vars, Scoped(policy), NEW b \in Board, NEW i \in Item,
         workspaceOf[b] \in Workspace \ {policy.scope}, boardOf[i] = b
  PROVE  boardOf'[i] = b \/ i \in movedItems' \/ b \in movedBoards'
<1>1. TypeOK /\ b # Unborn /\ workspaceOf[b] # Gone
  BY NamesAreDistinct DEF IInv
<1>2. ASSUME NEW r \in Req, Start(r) \/ Serve(r) PROVE boardOf'[i] = b \/ i \in movedItems' \/ b \in movedBoards'
  <2>1. UNCHANGED <<movedItems, movedBoards>> /\ Facts(r)
    BY <1>2, CallFrame DEF IInv
  <2>2. CASE (SendMoveToBoard(r) \/ SendDeleteItem(r)) /\ request[r].item = i
    <3>1. ReadyToSend(r) /\ Effect(r) \in {"moveToBoard", "deleteItem"}
      BY <2>2 DEF SendMoveToBoard, SendDeleteItem
    <3>2. request[r].op \notin Unresolved /\ ChangesItem(request[r].op)
      BY <3>1, MoversResolve DEF Effect, ChangesItem
    <3>3. ItemInScope(i)
      BY <1>1, <2>1, <2>2, <3>1, <3>2, ReadyCallsAreJudged
    <3>4. i \in movedItems \/ InScope(b)
      BY <3>3 DEF ItemInScope, Undisturbed
    <3>5. QED
      BY <1>1, <2>1, <3>4 DEF InScope
  <2>3. CASE (SendMoveToBoard(r) \/ SendDeleteItem(r)) /\ request[r].item # i
    BY <1>1, <2>3 DEF SendMoveToBoard, SendDeleteItem, TypeOK
  <2>4. CASE SendNewItem(r) \/ SendNewSubitem(r)
    <3>1. PICK j \in Item : boardOf[j] = Unborn /\ \E c : boardOf' = [boardOf EXCEPT ![j] = c]
      BY <2>4 DEF SendNewItem, SendNewSubitem
    <3>2. QED
      BY <1>1, <3>1 DEF TypeOK
  <2>5. QED
    BY <1>2, <2>2, <2>3, <2>4, CallFrame
<1>3. CASE OthersMoveItem
  BY <1>1, <1>3 DEF OthersMoveItem, TypeOK
<1>4. CASE OthersMoveBoard \/ UNCHANGED vars
  BY <1>4 DEF OthersMoveBoard, vars
<1>5. QED
  BY <1>2, <1>3, <1>4 DEF Next

LEMMA ForeignersAreKept ==
  ASSUME IInv, TrustInv, [Next]_vars
  PROVE  ForeignersKept
<1>1. BoardsSteady
  BY BoardsMoveTogether DEF IInv
<1>2. movedItems \subseteq movedItems'
  BY CallFrame DEF Next, OthersMoveItem, OthersMoveBoard, vars
<1>3. QED
  BY <1>1, <1>2, ForeignBoardStays, ForeignItemStays DEF ForeignersKept, BoardsSteady

LEMMA StillInStays ==
  ASSUME ForeignersKept, Scoped(policy), NEW b \in Board,
         NEW w \in Workspace \ {policy.scope}, StillIn(b, w)
  PROVE  StaysIn(b, w)
BY DEF ForeignersKept, StillIn, StaysIn

LEMMA AbroadStays ==
  ASSUME ForeignersKept, Scoped(policy), NEW r \in Req, Abroad(r),
         request'[r] = request[r], resolved'[r] = resolved[r]
  PROVE  Abroad(r)'
BY DEF ForeignersKept, Abroad, StaysIn

LEMMA ReadStays ==
  ASSUME TypeOK, ForeignersKept, Scoped(policy), NEW r \in Req, Read(r),
         request'[r] = request[r], resolved'[r] = resolved[r], found'[r] = found[r]
  PROVE  Read(r)'
<1>1. policy.scope # Unborn /\ Gone # Unborn
  BY ScopeType, TypeOKParts, NamesAreDistinct DEF Scoped
<1>2. CASE workspaceOf[resolved[r]] \in {policy.scope, Gone}
  <2>1. resolved[r] \in Board /\ request[r].item \in Item /\ policy' = policy
    BY DEF Read, ForeignersKept
  <2>2. \/ workspaceOf'[resolved[r]] \in {policy.scope, Gone}
        \/ resolved[r] \in movedBoards'
    BY <1>1, <1>2, <2>1 DEF ForeignersKept
  <2>3. QED
    BY <2>1, <2>2 DEF Read, Abroad
<1>3. CASE Abroad(r)
  BY <1>3, AbroadStays DEF Read
<1>4. QED
  BY <1>2, <1>3 DEF Read

-----------------------------------------------------------------------------
\* What is known of foreign boards.

LEMMA AnswersRevealTheScope ==
  ASSUME TypeOK, TrustInv, Scoped(policy), NEW r \in Req, Send(r), NEW b \in Board
  PROVE  answer'[r][b] \in {answer[r][b], NoWorkspace, policy.scope}
<1>1. Return(r) => answer'[r][b] = NoWorkspace
  BY DEF Return, Nothing, TypeOK
<1>2. ASSUME NEW result, Answered(r, result), result[b] \in {NoWorkspace, policy.scope}
      PROVE  answer'[r][b] \in {answer[r][b], NoWorkspace, policy.scope}
  BY <1>1, <1>2 DEF Answered, call, TypeOK
<1>3. Nothing[b] = NoWorkspace
  BY DEF Nothing
<1>4. CASE SendNewBoard(r)
  <2>1. LandsIn(r) = policy.scope
    BY <1>4, NewBoardIsAdmitted DEF SendNewBoard, TrustInv, AdmittedWorkspace
  <2>2. PICK c \in Board : Answered(r, Reveals(c, LandsIn(r)))
    BY <1>4 DEF SendNewBoard
  <2>3. Reveals(c, LandsIn(r))[b] \in {NoWorkspace, policy.scope}
    BY <2>1 DEF Reveals
  <2>4. QED
    BY <1>2, <2>2, <2>3
<1>5. CASE SendNewSubitem(r)
  <2>1. Answered(r, Reveals(SubBoard[boardOf[request[r].item]], policy.scope))
    BY <1>5 DEF SendNewSubitem
  <2>2. Reveals(SubBoard[boardOf[request[r].item]], policy.scope)[b]
          \in {NoWorkspace, policy.scope}
    BY DEF Reveals
  <2>3. QED
    BY <1>2, <2>1, <2>2
<1>6. CASE SendList(r)
  <2>1. PICK page \in SUBSET Board :
          Answered(r, [c \in Board |-> IF c \in page THEN policy.scope ELSE NoWorkspace])
    BY <1>6 DEF SendList
  <2>2. QED
    BY <1>2, <2>1
<1>7. CASE \/ SendInPlace(r) \/ SendDeleteBoard(r) \/ SendDeleteFolder(r)
           \/ SendMoveToBoard(r) \/ SendDeleteItem(r) \/ SendNewItem(r)
  <2>1. Answered(r, Nothing)
    BY <1>7 DEF SendInPlace, SendDeleteBoard, SendDeleteFolder, SendMoveToBoard,
                SendDeleteItem, SendNewItem
  <2>2. QED
    BY <1>2, <1>3, <2>1
<1>8. CASE SendFails(r)
  BY <1>1, <1>8 DEF SendFails
<1>9. QED
  BY <1>4, <1>5, <1>6, <1>7, <1>8 DEF Send

\* A call learns of a foreign board only by asking for it.
LEMMA WhatACallLearns ==
  ASSUME TypeOK, TrustInv, Scoped(policy), NEW r \in Req, Start(r) \/ Serve(r),
         NEW b \in Board
  PROVE  /\ cache'[b] \in {cache[b], answer[r][b]}
         /\ \/ answer'[r][b] \in {answer[r][b], NoWorkspace, policy.scope}
            \/ workspaceOf' = workspaceOf /\ answer'[r][b] = workspaceOf[b]
<1> DEFINE Learns == /\ cache'[b] \in {cache[b], answer[r][b]}
                     /\ answer'[r][b] \in {answer[r][b], NoWorkspace, policy.scope}
<1>1. Return(r) => answer'[r][b] = NoWorkspace
  BY DEF Return, Nothing, TypeOK
<1>2. ASSUME NEW ok, Verdict(r, ok) PROVE Learns
  BY <1>1, <1>2 DEF Verdict, call, shared
<1>3. ASSUME NEW w, ScopeVerdict(r, w)
      PROVE  answer'[r][b] \in {answer[r][b], NoWorkspace, policy.scope}
  BY <1>1, <1>3 DEF ScopeVerdict, Nothing, TypeOK
<1>4. CASE Start(r) \/ CallPort(r) \/ LookUpItem(r) \/ LookUpFails(r) \/ Respond(r)
  BY <1>1, <1>4 DEF Start, CallPort, LookUpItem, LookUpFails, Respond, call, shared
<1>5. CASE \/ Guard(r) \/ GuardWorkspace(r) \/ GuardBoard(r) \/ SkipLookUp(r)
           \/ ReadAndValidate(r) \/ FindUpdate(r)
  BY <1>2, <1>5 DEF Guard, GuardWorkspace, GuardBoard, SkipLookUp, ReadAndValidate,
                    FindUpdate
<1>6. CASE AskBoard(r)
  <2>1. /\ cache' = cache /\ workspaceOf' = workspaceOf
        /\ answer'[r] = Reveals(Checked(r), workspaceOf[Checked(r)])
    BY <1>6 DEF AskBoard, world, shared, TypeOK
  <2>2. answer'[r][b] \in {NoWorkspace, workspaceOf[b]}
    BY <2>1 DEF Reveals
  <2>3. QED
    BY <2>1, <2>2
<1>7. CASE SkipScope(r) \/ LookUpCache(r) \/ AskBoardFails(r)
  BY <1>1, <1>3, <1>7 DEF SkipScope, LookUpCache, AskBoardFails, shared
<1>8. CASE RememberBoard(r)
  BY <1>3, <1>8 DEF RememberBoard, Remembering
<1>9. CASE Send(r)
  <2>1. cache' = cache
    BY <1>9 DEF Send, SendInPlace, SendFails, SendList, SendNewBoard, SendDeleteBoard,
                SendDeleteFolder, SendMoveToBoard, SendDeleteItem, SendNewItem,
                SendNewSubitem, shared
  <2>2. QED
    BY <1>9, <2>1, AnswersRevealTheScope
<1>10. CASE Remember(r) \/ TrustBoard(r)
  BY <1>10 DEF Remember, TrustBoard, Remembering, call
<1>11. QED
  BY <1>4, <1>5, <1>6, <1>7, <1>8, <1>9, <1>10 DEF Serve, ScopeCheck

LEMMA KnowledgeStays ==
  ASSUME TypeOK, TypeOK', TrustInv, ForeignersKept, ForeignKnown(cache),
         NEW r \in Req, ForeignKnown(answer[r]), Start(r) \/ Serve(r)
  PROVE  ForeignKnown(cache)' /\ ForeignKnown(answer[r])'
<1> SUFFICES ASSUME Scoped(policy), NEW b \in Board
             PROVE  /\ cache'[b] \notin {NoWorkspace, policy.scope} =>
                         StaysIn(b, cache'[b])
                    /\ answer'[r][b] \notin {NoWorkspace, policy.scope} =>
                         StaysIn(b, answer'[r][b])
  BY DEF ForeignKnown, ForeignersKept, Scoped, StillIn, StaysIn
<1>1. ASSUME NEW w \in {cache[b], answer[r][b]}, w \notin {NoWorkspace, policy.scope}
      PROVE  StaysIn(b, w)
  <2>1. w \in Workspace \ {policy.scope} /\ StillIn(b, w)
    BY <1>1 DEF TypeOK, ForeignKnown
  <2>2. QED
    BY <2>1, StillInStays
<1>2. cache'[b] \in {cache[b], answer[r][b]}
  BY WhatACallLearns
<1>3. \/ answer'[r][b] \in {answer[r][b], NoWorkspace, policy.scope}
      \/ workspaceOf' = workspaceOf /\ answer'[r][b] = workspaceOf[b]
  BY WhatACallLearns
<1>4. cache'[b] \notin {NoWorkspace, policy.scope} => StaysIn(b, cache'[b])
  BY <1>1, <1>2
<1>5. answer'[r][b] \notin {NoWorkspace, policy.scope} => StaysIn(b, answer'[r][b])
  BY <1>1, <1>3 DEF StaysIn
<1>6. QED
  BY <1>4, <1>5

-----------------------------------------------------------------------------
\* One call settles on a board.

LEMMA ResolvesOf ==
  ASSUME TypeOK, NEW r \in Req
  PROVE  /\ Resolves(request[r].op) /\ WellOrdered(request[r].op)
         /\ Len(PassThrough) = 0 /\ pc[r] \in Nat /\ layer[r] \in Call
BY OpOfCall, OperationsLicensed DEF PassThrough, TypeOK

LEMMA SettledStays ==
  ASSUME ForeignersKept, NEW r \in Req, Settled(r), request'[r] = request[r],
         target'[r] = target[r], resolved'[r] = resolved[r]
  PROVE  Settled(r)'
BY AbroadStays DEF Settled, ForeignersKept, Scoped

\* A call that stands where it was.
LEMMA StandingKeepsSettling ==
  ASSUME TypeOK, ForeignersKept, NEW r \in Req, Settling(r), request'[r] = request[r],
         layer'[r] = layer[r], pc'[r] = pc[r], found'[r] = found[r],
         target'[r] = target[r], resolved'[r] = resolved[r]
  PROVE  Settling(r)'
<1>1. Read(r) /\ Scoped(policy) => Read(r)'
  BY ReadStays
<1>2. Settled(r) => Settled(r)'
  BY SettledStays
<1>3. policy' = policy
  BY DEF ForeignersKept
<1>4. QED
  BY <1>1, <1>2, <1>3 DEF Settling, Effect, Scoped

LEMMA LeavingKeepsSettling ==
  ASSUME TypeOK, NEW r \in Req, Return(r) \/ layer'[r] \in {"idle", "reply"}
  PROVE  Settling(r)'
BY DEF Return, Enter, Settling, TypeOK

\* A check other than the two that settle the board.
LEMMA AdvancingKeepsSettling ==
  ASSUME TypeOK, ForeignersKept, NEW r \in Req, Settling(r), Advance(r),
         request'[r] = request[r], target'[r] = target[r],
         resolved'[r] = resolved[r], pc[r] \in 1..Len(Checks(r)),
         ~At(r, {"tryLookUp", "tryScope"})
  PROVE  Settling(r)'
<1> SUFFICES ASSUME Effect(r) = "values" PROVE Settling(r)'
  BY DEF Settling, Effect
<1> DEFINE tried == TriesAt(request[r].op)
<1>1. layer'[r] = layer[r] /\ pc'[r] = pc[r] + 1 /\ pc[r] \in Nat
  BY DEF Advance, TypeOK
<1>2. layer[r] = "service" => /\ tried \in 1..Len(request[r].op.service)
                              /\ Len(request[r].op.service) \in Nat
                              /\ pc[r] # tried /\ pc[r] # tried + 1
  <2> SUFFICES ASSUME layer[r] = "service"
               PROVE  /\ tried \in 1..Len(request[r].op.service)
                      /\ Len(request[r].op.service) \in Nat
                      /\ pc[r] # tried /\ pc[r] # tried + 1
    OBVIOUS
  <2>1. Checks(r) = request[r].op.service
    BY DEF Checks
  <2>2. request[r].op.service[pc[r]] \notin {"tryLookUp", "tryScope"}
    BY <2>1 DEF At
  <2>3. QED
    BY <2>1, <2>2, ResolvesOf DEF Resolves, Effect, WellOrdered
<1>3. (layer[r] = "service" /\ pc[r] + 1 > tried + 1) \/ layer[r] = "port"
        => Settled(r)
  <2>1. layer[r] = "service" /\ pc[r] + 1 > tried + 1 => pc[r] > tried + 1
    BY <1>1, <1>2
  <2>2. QED
    BY <2>1 DEF Settling
<1>4. layer[r] = "service" => pc[r] + 1 # tried + 1
  BY <1>1, <1>2
<1>5. QED
  BY <1>1, <1>3, <1>4, SettledStays DEF Settling

LEMMA VerdictKeepsSettling ==
  ASSUME TypeOK, ForeignersKept, NEW r \in Req, Settling(r), NEW ok, Verdict(r, ok),
         pc[r] \in 1..Len(Checks(r)), ~At(r, {"tryLookUp", "tryScope"})
  PROVE  Settling(r)'
BY LeavingKeepsSettling, AdvancingKeepsSettling DEF Verdict, call

LEMMA SettlingChecks ==
  ASSUME TypeOK, NEW r \in Req, Effect(r) = "values", At(r, {"tryLookUp", "tryScope"})
  PROVE  /\ layer[r] = "service" /\ pc[r] \in Nat /\ TriesAt(request[r].op) \in Nat
         /\ At(r, {"tryLookUp"}) => pc[r] = TriesAt(request[r].op)
         /\ At(r, {"tryScope"}) => pc[r] = TriesAt(request[r].op) + 1
<1>1. layer[r] = "service"
  BY ResolvesOf DEF At, Checks, Port, WellOrdered
<1>2. Checks(r) = request[r].op.service
  BY <1>1 DEF Checks
<1>3. /\ TriesAt(request[r].op) \in 1..Len(request[r].op.service)
      /\ \A k \in 1..Len(request[r].op.service) :
           /\ request[r].op.service[k] = "tryLookUp" <=> k = TriesAt(request[r].op)
           /\ request[r].op.service[k] = "tryScope" <=> k = TriesAt(request[r].op) + 1
  BY ResolvesOf DEF Resolves, Effect
<1>4. TriesAt(request[r].op) \in Nat
  BY <1>3, ResolvesOf DEF WellOrdered
<1>5. QED
  BY <1>1, <1>2, <1>3, <1>4, ResolvesOf DEF At

\* The read of the item's board: the item is on it now; or there is no answer.
LEMMA TryingSettles ==
  ASSUME TypeOK, NEW r \in Req, At(r, {"tryLookUp"}), LookUpItem(r) \/ LookUpFails(r)
  PROVE  Settling(r)'
<1> SUFFICES ASSUME Effect(r)' = "values" PROVE Settling(r)'
  BY DEF Settling
<1>1. UNCHANGED <<policy, workspaceOf, boardOf, movedItems, movedBoards>>
  BY DEF LookUpItem, LookUpFails, world
<1>2. CASE LookUpItem(r)
  <2> DEFINE i == request[r].item
             b == boardOf[i]
  <2>1. /\ Visible(i) /\ request'[r] = request[r]
        /\ found'[r] = b /\ resolved'[r] = b
        /\ layer'[r] = layer[r] /\ pc'[r] = pc[r] + 1
    BY <1>2 DEF LookUpItem, Advance, TypeOK
  <2>2. /\ layer[r] = "service" /\ pc[r] = TriesAt(request[r].op)
        /\ TriesAt(request[r].op) \in Nat
    BY <2>1, SettlingChecks DEF At, Effect
  <2>3. i \in Item /\ b \in Board /\ workspaceOf[b] \in Workspace
    BY <2>1 DEF Visible, Exists
  <2>4. Read(r)'
    BY <1>1, <2>1, <2>3 DEF Read, Abroad
  <2>5. layer'[r] = "service" /\ pc'[r] = TriesAt(request'[r].op) + 1
        /\ ~(pc'[r] > TriesAt(request'[r].op) + 1)
    BY <2>1, <2>2
  <2>6. QED
    BY <2>1, <2>4, <2>5 DEF Settling
<1>3. CASE LookUpFails(r) /\ ~Return(r)
  <2>1. /\ resolved'[r] = Unanswered /\ request' = request /\ layer' = layer
        /\ pc'[r] = pc[r] + 2
    BY <1>3 DEF LookUpFails, TypeOK
  <2>2. layer[r] = "service" /\ pc[r] = TriesAt(request[r].op) /\ pc[r] \in Nat
    BY <2>1, SettlingChecks DEF At, Effect
  <2>3. QED
    BY <2>1, <2>2 DEF Settling, Settled
<1>4. QED
  BY <1>2, <1>3, LeavingKeepsSettling

\* The scope's verdict on that board.
LEMMA JudgingSettles ==
  ASSUME TypeOK, ForeignersKept, NEW r \in Req, Settling(r), At(r, {"tryScope"}),
         Advance(r), request'[r] = request[r],
         \/ resolved'[r] = Unanswered
         \/ resolved'[r] = resolved[r] /\ target'[r] = found[r]
         \/ resolved'[r] = resolved[r] /\ Scoped(policy) /\ (Read(r) => Abroad(r))
  PROVE  Settling(r)'
<1> SUFFICES ASSUME Effect(r) = "values" PROVE Settling(r)'
  BY DEF Settling, Effect
<1>1. /\ layer[r] = "service" /\ pc[r] \in Nat /\ TriesAt(request[r].op) \in Nat
      /\ pc[r] = TriesAt(request[r].op) + 1
  BY SettlingChecks DEF At
<1>2. found[r] = resolved[r] /\ (Scoped(policy) => Read(r))
  BY <1>1 DEF Settling
<1>3. Settled(r)'
  <2>1. CASE resolved'[r] \in {target'[r], Unanswered}
    BY <2>1 DEF Settled
  <2>2. CASE resolved'[r] = resolved[r] /\ Scoped(policy) /\ Abroad(r)
    BY <2>2, AbroadStays DEF Settled, ForeignersKept, Scoped
  <2>3. QED
    BY <1>2, <2>1, <2>2
<1>4. layer'[r] = "service" /\ pc'[r] = pc[r] + 1
  BY <1>1 DEF Advance, TypeOK
<1>5. pc'[r] # TriesAt(request'[r].op) + 1
  BY <1>1, <1>4
<1>6. QED
  BY <1>3, <1>4, <1>5 DEF Settling

\* ScopedPort refuses the board of an item only where it is a foreign one.
LEMMA VerdictSettles ==
  ASSUME TypeOK, ForeignersKept, NEW r \in Req, Settling(r), At(r, ScopeChecks),
         NEW w \in Workspace, ScopeVerdict(r, w), Scoped(policy),
         At(r, {"tryScope"}) /\ w # policy.scope => StillIn(found[r], w)
  PROVE  Settling(r)'
<1>1. CASE Return(r)
  BY <1>1, LeavingKeepsSettling
<1>2. CASE At(r, {"tryScope"}) /\ Advance(r) /\ ~Return(r)
  <2>1. /\ request'[r] = request[r] /\ resolved'[r] = resolved[r]
        /\ target'[r] = found[r] \/ w # policy.scope
    BY <1>2 DEF ScopeVerdict, TypeOK
  <2>2. w # policy.scope /\ Read(r) => Abroad(r)
    BY <1>2, NamesAreDistinct DEF StillIn, Read, Abroad
  <2>3. QED
    BY <1>2, <2>1, <2>2, JudgingSettles
<1>3. CASE ~At(r, {"tryScope"}) /\ Advance(r) /\ ~Return(r)
  <2>1. /\ request'[r] = request[r] /\ resolved'[r] = resolved[r]
        /\ target'[r] = target[r]
    BY <1>3 DEF ScopeVerdict, TypeOK
  <2>2. pc[r] \in 1..Len(Checks(r)) /\ ~At(r, {"tryLookUp", "tryScope"})
    BY <1>3 DEF At, ScopeChecks
  <2>3. QED
    BY <1>3, <2>1, <2>2, AdvancingKeepsSettling
<1>4. QED
  BY <1>1, <1>2, <1>3 DEF ScopeVerdict

LEMMA ScopeChecksSettle ==
  ASSUME TypeOK, ForeignersKept, ForeignKnown(cache),
         NEW r \in Req, ForeignKnown(answer[r]), Settling(r), ScopeCheck(r)
  PROVE  Settling(r)'
<1>1. At(r, ScopeChecks)
  BY DEF ScopeCheck, SkipScope, LookUpCache, AskBoard, AskBoardFails, RememberBoard
<1>2. At(r, {"tryScope"}) => Checked(r) = found[r]
  BY DEF At, Checked
<1>3. ~At(r, {"tryScope"}) => pc[r] \in 1..Len(Checks(r)) /\ ~At(r, {"tryLookUp", "tryScope"})
  BY <1>1 DEF At, ScopeChecks
<1>4. CASE SkipScope(r)
  <2>1. /\ request'[r] = request[r] /\ resolved'[r] = resolved[r]
        /\ target'[r] = IF At(r, {"tryScope"}) THEN found[r] ELSE target[r]
        /\ Advance(r)
    BY <1>4 DEF SkipScope, TypeOK
  <2>2. CASE At(r, {"tryScope"})
    BY <2>1, <2>2, JudgingSettles
  <2>3. CASE ~At(r, {"tryScope"})
    BY <1>3, <2>1, <2>3, AdvancingKeepsSettling
  <2>4. QED
    BY <2>2, <2>3
<1>5. CASE LookUpCache(r)
  <2>1. Scoped(policy) /\ Checked(r) \in Board
    BY <1>5, TypeOKParts, CheckedType DEF LookUpCache
  <2>2. CASE cache[Checked(r)] # NoWorkspace /\ ScopeVerdict(r, cache[Checked(r)])
    <3>1. /\ cache[Checked(r)] \in Workspace
          /\ cache[Checked(r)] # policy.scope => StillIn(Checked(r), cache[Checked(r)])
      BY <2>1, <2>2 DEF TypeOK, ForeignKnown
    <3>2. QED
      BY <1>1, <1>2, <2>1, <2>2, <3>1, VerdictSettles
  <2>3. CASE UNCHANGED <<layer, pc, request, found, target, resolved, answer>>
    BY <2>3, StandingKeepsSettling
  <2>4. QED
    BY <1>5, <2>2, <2>3 DEF LookUpCache
<1>6. CASE AskBoard(r)
  BY <1>6, StandingKeepsSettling DEF AskBoard
<1>7. CASE AskBoardFails(r)
  <2>1. CASE At(r, {"tryScope"}) /\ Advance(r) /\ ~Return(r)
    <3>1. request'[r] = request[r] /\ resolved'[r] = Unanswered
      BY <1>7, <2>1 DEF AskBoardFails, TypeOK
    <3>2. QED
      BY <2>1, <3>1, JudgingSettles
  <2>2. QED
    BY <1>7, <2>1, LeavingKeepsSettling DEF AskBoardFails
<1>8. CASE RememberBoard(r)
  <2>1. /\ Checked(r) \in Board /\ answer[r][Checked(r)] \in Workspace
        /\ ScopeVerdict(r, answer[r][Checked(r)]) /\ Scoped(policy)
    BY <1>8 DEF RememberBoard, TypeOK
  <2>2. answer[r][Checked(r)] # policy.scope => StillIn(Checked(r), answer[r][Checked(r)])
    BY <1>8, <2>1 DEF ForeignKnown, RememberBoard
  <2>3. QED
    BY <1>1, <1>2, <2>1, <2>2, VerdictSettles
<1>9. QED
  BY <1>4, <1>5, <1>6, <1>7, <1>8 DEF ScopeCheck

\* Only the call itself resolves its item.
LEMMA ResolvedIsOwn ==
  ASSUME TypeOK, NEW r \in Req, NEW q \in Req, q # r, Start(r) \/ Serve(r)
  PROVE  resolved'[q] = resolved[q]
<1>1. Return(r) => resolved'[q] = resolved[q]
  BY DEF Return, TypeOK
<1>2. ASSUME NEW ok, Verdict(r, ok) PROVE resolved'[q] = resolved[q]
  BY <1>1, <1>2 DEF Verdict, call
<1>3. ASSUME NEW w, ScopeVerdict(r, w) PROVE resolved'[q] = resolved[q]
  BY <1>1, <1>3 DEF ScopeVerdict
<1>4. ASSUME NEW result, Answered(r, result) PROVE resolved'[q] = resolved[q]
  BY <1>1, <1>4 DEF Answered, call
<1>5. CASE Start(r) \/ CallPort(r) \/ LookUpItem(r) \/ LookUpFails(r) \/ Respond(r)
  BY <1>1, <1>5 DEF Start, CallPort, LookUpItem, LookUpFails, Respond, call, TypeOK
<1>6. CASE \/ Guard(r) \/ GuardWorkspace(r) \/ GuardBoard(r) \/ SkipLookUp(r)
           \/ ReadAndValidate(r) \/ FindUpdate(r)
  BY <1>2, <1>6 DEF Guard, GuardWorkspace, GuardBoard, SkipLookUp, ReadAndValidate,
                    FindUpdate
<1>7. CASE ScopeCheck(r)
  <2>1. CASE SkipScope(r) \/ AskBoard(r) \/ RememberBoard(r)
    BY <1>3, <2>1 DEF SkipScope, AskBoard, RememberBoard
  <2>2. CASE LookUpCache(r)
    BY <1>3, <2>2 DEF LookUpCache
  <2>3. CASE AskBoardFails(r)
    BY <1>1, <2>3 DEF AskBoardFails, TypeOK
  <2>4. QED
    BY <1>7, <2>1, <2>2, <2>3 DEF ScopeCheck
<1>8. CASE Send(r)
  BY <1>1, <1>4, <1>8
     DEF Send, SendInPlace, SendFails, SendList, SendNewBoard, SendDeleteBoard,
         SendDeleteFolder, SendMoveToBoard, SendDeleteItem, SendNewItem, SendNewSubitem
<1>9. CASE Remember(r) \/ TrustBoard(r)
  BY <1>9 DEF Remember, TrustBoard, call
<1>10. QED
  BY <1>5, <1>6, <1>7, <1>8, <1>9 DEF Serve

LEMMA CallSettles ==
  ASSUME TypeOK, ForeignersKept, ForeignKnown(cache),
         NEW r \in Req, ForeignKnown(answer[r]), Settling(r), Start(r) \/ Serve(r)
  PROVE  Settling(r)'
<1>1. ASSUME NEW ok, NEW checks, Verdict(r, ok), At(r, checks),
             ~At(r, {"tryLookUp", "tryScope"})
      PROVE  Settling(r)'
  BY <1>1, VerdictKeepsSettling DEF At
<1>2. CASE Start(r)
  <2>1. layer'[r] = "service" /\ pc'[r] = 1
    BY <1>2 DEF Start, Enter, TypeOK
  <2>2. Effect(r)' = "values" => TriesAt(request'[r].op) \in Nat \ {0}
    <3>1. TypeOK'
      BY <1>2, StepTypes DEF Next
    <3>2. Resolves(request'[r].op) /\ WellOrdered(request'[r].op)
      BY <3>1, OperationsLicensed, OperationsWellOrdered DEF TypeOK, Request
    <3>3. QED
      BY <3>2 DEF Resolves, WellOrdered, Effect
  <2>3. QED
    BY <2>1, <2>2 DEF Settling
<1>3. CASE \/ Guard(r) \/ GuardWorkspace(r) \/ GuardBoard(r) \/ SkipLookUp(r)
           \/ ReadAndValidate(r) \/ FindUpdate(r)
  <2>1. PICK c \in {"write", "confirm", "delete", "unfenced", "unscoped", "named",
                    "workspace", "scopeWorkspace", "guardArg", "guardFound",
                    "guardTarget", "resolve", "scopedLookUp", "read", "owned"} :
          At(r, {c}) /\ \E ok : Verdict(r, ok)
    BY <1>3 DEF Guard, GuardWorkspace, GuardBoard, SkipLookUp, ReadAndValidate, FindUpdate
  <2>2. ~At(r, {"tryLookUp", "tryScope"})
    BY <2>1 DEF At
  <2>3. QED
    BY <1>1, <2>1, <2>2
<1>4. CASE LookUpItem(r) \/ LookUpFails(r)
  <2>1. CASE At(r, {"tryLookUp"})
    BY <1>4, <2>1, TryingSettles
  <2>2. CASE ~At(r, {"tryLookUp"})
    <3>1. pc[r] \in 1..Len(Checks(r)) /\ ~At(r, {"tryLookUp", "tryScope"})
      BY <1>4, <2>2 DEF LookUpItem, LookUpFails, LookUpIsMade, At
    <3>2. CASE LookUpFails(r)
      BY <2>2, <3>2, LeavingKeepsSettling DEF LookUpFails
    <3>3. CASE LookUpItem(r)
      <4>1. /\ request'[r] = request[r] /\ target'[r] = target[r]
            /\ resolved'[r] = resolved[r] /\ Advance(r)
        BY <2>2, <3>3 DEF LookUpItem, TypeOK
      <4>2. QED
        BY <3>1, <4>1, AdvancingKeepsSettling
    <3>4. QED
      BY <1>4, <3>2, <3>3
  <2>3. QED
    BY <2>1, <2>2
<1>5. CASE ScopeCheck(r)
  BY <1>5, ScopeChecksSettle
<1>6. CASE CallPort(r)
  <2>1. /\ layer[r] = "service" /\ pc[r] = Len(request[r].op.service) + 1
        /\ layer'[r] = "port" /\ request'[r] = request[r]
        /\ target'[r] = target[r] /\ resolved'[r] = resolved[r]
    BY <1>6 DEF CallPort, Finished, Checks, Enter, call, TypeOK
  <2>2. Effect(r) = "values" => pc[r] > TriesAt(request[r].op) + 1
    <3>1. Effect(r) = "values" => TriesAt(request[r].op) = Len(request[r].op.service) - 4
      BY DEF TriesAt
    <3>2. QED
      BY <2>1, <3>1, ResolvesOf DEF WellOrdered
  <2>3. QED
    BY <2>1, <2>2, SettledStays DEF Settling, Effect
<1>7. CASE Send(r)
  <2>1. Return(r) \/ \E result : Answered(r, result)
    BY <1>7 DEF Send, SendInPlace, SendFails, SendList, SendNewBoard,
                SendDeleteBoard, SendDeleteFolder, SendMoveToBoard,
                SendDeleteItem, SendNewItem, SendNewSubitem
  <2>2. CASE Return(r) \/ Enter(r, "reply")
    BY <2>2, LeavingKeepsSettling DEF Enter, TypeOK
  <2>3. CASE UNCHANGED <<layer, pc, call>>
    BY <2>3, StandingKeepsSettling DEF call
  <2>4. QED
    BY <2>1, <2>2, <2>3 DEF Answered
<1>8. CASE Remember(r) \/ TrustBoard(r)
  <2>1. /\ pc[r] \in 1..Len(Checks(r)) /\ ~At(r, {"tryLookUp", "tryScope"})
        /\ Advance(r) /\ UNCHANGED call
    BY <1>8 DEF Remember, TrustBoard, At
  <2>2. QED
    BY <2>1, AdvancingKeepsSettling DEF call
<1>9. CASE Respond(r)
  BY <1>9, LeavingKeepsSettling DEF Respond
<1>10. QED
  BY <1>2, <1>3, <1>4, <1>5, <1>6, <1>7, <1>8, <1>9 DEF Serve

\* The calls that do not move know what they knew.
LEMMA OthersKeepValues ==
  ASSUME TypeOK, ForeignersKept, NEW q \in Req, ForeignKnown(answer[q]), Settling(q),
         Undisturbing(q), resolved'[q] = resolved[q]
  PROVE  ForeignKnown(answer[q])' /\ Settling(q)'
<1>1. Settling(q)'
  BY StandingKeepsSettling DEF Undisturbing, Stands
<1>2. SUFFICES ASSUME Scoped(policy), NEW b \in Board,
                      answer[q][b] \notin {NoWorkspace, policy.scope}
               PROVE  StaysIn(b, answer[q][b])
  BY <1>1 DEF ForeignKnown, Undisturbing, ForeignersKept, Scoped, StillIn, StaysIn
<1>3. answer[q][b] \in Workspace \ {policy.scope} /\ StillIn(b, answer[q][b])
  BY <1>2 DEF TypeOK, ForeignKnown
<1>4. QED
  BY <1>2, <1>3, StillInStays

LEMMA CacheStaysKnown ==
  ASSUME TypeOK, ForeignersKept, ForeignKnown(cache), cache' = cache
  PROVE  ForeignKnown(cache)'
<1> SUFFICES ASSUME Scoped(policy), NEW b \in Board,
                    cache[b] \notin {NoWorkspace, policy.scope}
             PROVE  StaysIn(b, cache[b])
  BY DEF ForeignKnown, ForeignersKept, Scoped, StillIn, StaysIn
<1>1. cache[b] \in Workspace \ {policy.scope} /\ StillIn(b, cache[b])
  BY DEF TypeOK, ForeignKnown
<1>2. QED
  BY <1>1, StillInStays

LEMMA StepKeepsValues ==
  ASSUME IInv, TypeOK', TrustInv, ValuesInv, [Next]_vars
  PROVE  ValuesInv'
<1>1. TypeOK /\ ForeignKnown(cache) /\ \A r \in Req : ForeignKnown(answer[r]) /\ Settling(r)
  BY DEF IInv, ValuesInv
<1>2. ForeignersKept
  BY ForeignersAreKept
<1>3. ASSUME NEW r \in Req, Start(r) \/ Serve(r) PROVE ValuesInv'
  <2>1. ForeignKnown(cache)' /\ ForeignKnown(answer[r])'
    BY <1>1, <1>2, <1>3, KnowledgeStays
  <2>2. Settling(r)'
    BY <1>1, <1>2, <1>3, CallSettles
  <2>3. ASSUME NEW q \in Req, q # r PROVE ForeignKnown(answer[q])' /\ Settling(q)'
    BY <1>1, <1>2, <1>3, <2>3, OneCallMoves, ResolvedIsOwn, OthersKeepValues
  <2>4. QED
    BY <2>1, <2>2, <2>3 DEF ValuesInv
<1>4. CASE OthersMoveItem \/ OthersMoveBoard \/ UNCHANGED vars
  <2>1. UNCHANGED <<shared, layer, pc, call>>
    BY <1>4 DEF OthersMoveItem, OthersMoveBoard, vars, shared, call
  <2>2. \A q \in Req : Undisturbing(q) /\ resolved'[q] = resolved[q]
    BY <2>1 DEF Undisturbing, Stands, call
  <2>3. cache' = cache
    BY <2>1 DEF shared
  <2>4. \A q \in Req : ForeignKnown(answer[q])' /\ Settling(q)'
    BY <1>1, <1>2, <2>2, OthersKeepValues
  <2>5. QED
    BY <1>1, <1>2, <2>3, <2>4, CacheStaysKnown DEF ValuesInv
<1>5. QED
  BY <1>3, <1>4 DEF Next

LEMMA ReadyValuesReachTheirItem ==
  ASSUME IInv, ValuesInv
  PROVE  ValuesReachTheirItem
<1> SUFFICES ASSUME NEW r \in Req, ReadyToSend(r), Effect(r) = "values",
                    resolved[r] \notin {target[r], Unanswered}
             PROVE  request[r].item \in movedItems \/ resolved[r] \in movedBoards
  BY DEF ValuesReachTheirItem
<1>1. layer[r] = "port" /\ Facts(r) /\ Settling(r) /\ TypeOK
  BY DEF ReadyToSend, Finished, IInv, ValuesInv
<1>2. Scoped(policy) /\ Abroad(r)
  BY <1>1 DEF Settling, Settled
<1>3. Passed(r, "scopeFound")
  <2>1. Has(request[r].op.port, "scopeFound") /\ Len(request[r].op.port) \in Nat
    BY <1>1, ResolvesOf DEF Resolves, Effect, WellOrdered
  <2>2. pc[r] = Len(request[r].op.port) + 1
    BY <1>1, <1>2 DEF ReadyToSend, Finished, Checks, Port
  <2>3. QED
    BY <1>1, <1>2, <2>1, <2>2 DEF Passed, PassedIn, Has, Port
<1>4. ItemInScope(request[r].item)
  BY <1>1, <1>3 DEF Facts, Verdicts, Meaning
<1>5. QED
  BY <1>2, <1>4, NamesAreDistinct DEF Abroad, ItemInScope, Undisturbed, InScope

\* UpdateItemValues sends values with the board its read of the item gave, even
\* where reads fail, other users move items and boards, and the calls of the
\* server move and delete them: where the scope refuses the board that was
\* read, ScopedPort refuses the item again and the caller's board is not used.
THEOREM ValuesAreSentHome ==
  ASSUME SubitemsUndisturbed
  PROVE  Spec => []ValuesReachTheirItem
<1>1. Init => IInv /\ TrustInv /\ ValuesInv
  <2> SUFFICES ASSUME Init PROVE ValuesInv
    BY InitEstablishes, InitEstablishesTrust
  <2>1. ForeignKnown(cache) /\ \A r \in Req : ForeignKnown(answer[r]) /\ Settling(r)
    BY DEF Init, ForeignKnown, Nothing, Settling
  <2>2. QED
    BY <2>1 DEF ValuesInv
<1>2. IInv /\ TrustInv /\ ValuesInv /\ [Next]_vars => IInv' /\ TrustInv' /\ ValuesInv'
  <2> SUFFICES ASSUME IInv, TrustInv, ValuesInv, [Next]_vars
               PROVE  IInv' /\ TrustInv' /\ ValuesInv'
    OBVIOUS
  <2>1. IInv' /\ TrustInv'
    BY StepKeepsIInv, StepKeepsTrust
  <2>2. QED
    BY <2>1, StepKeepsValues DEF IInv
<1>3. IInv /\ ValuesInv => ValuesReachTheirItem
  BY ReadyValuesReachTheirItem
<1>4. QED
  BY <1>1, <1>2, <1>3, PTL DEF Spec

=============================================================================
