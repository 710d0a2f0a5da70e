------------------------ MODULE ScopedServiceSafety ------------------------
(***************************************************************************)
(* The writes of ScopedService stay on allowed boards and in the scope, for  *)
(* every number of concurrent calls.  The idea: a check that has passed says *)
(* something that no other call can make false.  A verdict on an item is     *)
(* kept as a fact about the board the item is on now, not about the board    *)
(* that was read: another call may move the item, but only to a board it has *)
(* checked itself.                                                          *)
(***************************************************************************)
EXTENDS ScopedServiceProofs

-----------------------------------------------------------------------------
\* Facts no step can take back.

ItemAllowed(i) ==
  /\ CheckWrite(policy)
  /\ Restricted(policy) =>
       /\ i \in Item /\ boardOf[i] # Unborn
       /\ Undisturbed(i) => CheckBoard(policy, created, boardOf[i])

ItemInScope(i) ==
  Scoped(policy) =>
    /\ i \in Item /\ boardOf[i] # Unborn
    /\ Undisturbed(i) => InScope(boardOf[i])

BoardAllowed(b) == CheckBoard(policy, created, b)
BoardInScope(b) == Scoped(policy) => b = NoBoard \/ (b \in Board /\ InScope(b))

\* Item i was on board b when a call read it, and is still, or has left it
\* for a board that was checked too.
WasOn(i, b) ==
  /\ i \in Item /\ boardOf[i] # Unborn
  /\ \/ boardOf[i] = b \/ ~Undisturbed(i)
     \/ ItemAllowed(i) /\ ItemInScope(i)

\* Board b was in workspace w when a call read it.
WasIn(b, w) == b \in movedBoards \/ workspaceOf[b] \in {w, Gone}

\* What every step does to the state these facts are about.
Steady ==
  /\ policy' = policy
  /\ created \subseteq created'
  /\ movedItems \subseteq movedItems' /\ movedBoards \subseteq movedBoards'
  /\ \A b \in Board : workspaceOf[b] # Unborn =>
       workspaceOf'[b] \in {workspaceOf[b], Gone} \/ b \in movedBoards'
  /\ \A i \in Item : boardOf[i] # Unborn =>
       /\ boardOf'[i] # Unborn
       /\ \/ boardOf'[i] = boardOf[i] \/ ~Undisturbed(i)'
          \/ ItemAllowed(i)' /\ ItemInScope(i)'

LEMMA AllowedBoardStaysAllowed ==
  ASSUME Steady, NEW b, BoardAllowed(b)
  PROVE  BoardAllowed(b)'
BY DEF Steady, BoardAllowed, CheckBoard, CheckWrite, Restricted

LEMMA ScopedBoardStaysInScope ==
  ASSUME TypeOK, Steady, NEW b, BoardInScope(b)
  PROVE  BoardInScope(b)'
<1>1. policy.scope \in Workspace \cup {NoWorkspace}
  BY ScopeType, TypeOKParts
<1>2. Scoped(policy) => policy.scope # Unborn /\ Gone # Unborn
  BY <1>1, NamesAreDistinct DEF Scoped
<1>3. QED
  BY <1>2 DEF Steady, BoardInScope, InScope, Scoped

LEMMA InStaysIn ==
  ASSUME Steady, NEW b \in Board, NEW w \in Workspace, WasIn(b, w)
  PROVE  WasIn(b, w)'
<1>1. w # Unborn /\ Gone # Unborn
  BY NamesAreDistinct
<1>2. QED
  BY <1>1 DEF Steady, WasIn

LEMMA AllowedItemStaysAllowed ==
  ASSUME TypeOK, Steady, NEW i, ItemAllowed(i)
  PROVE  ItemAllowed(i)'
<1>1. CASE ~Restricted(policy)
  BY <1>1 DEF ItemAllowed, Steady
<1>2. CASE Restricted(policy)
  <2>1. i \in Item /\ boardOf[i] # Unborn
    BY <1>2 DEF ItemAllowed
  <2>2. CASE boardOf'[i] = boardOf[i]
    <3>1. Undisturbed(i)' => Undisturbed(i)
      BY <2>2 DEF Undisturbed, Steady
    <3>2. Undisturbed(i)' => BoardAllowed(boardOf[i])
      BY <1>2, <3>1 DEF ItemAllowed, BoardAllowed
    <3>3. Undisturbed(i)' => CheckBoard(policy, created, boardOf[i])'
      BY <2>2, <3>2, AllowedBoardStaysAllowed DEF BoardAllowed
    <3>4. QED
      BY <1>2, <2>1, <2>2, <3>3 DEF ItemAllowed, Steady
  <2>3. CASE ~Undisturbed(i)'
    BY <1>2, <2>1, <2>3 DEF ItemAllowed, Steady
  <2>4. QED
    BY <2>1, <2>2, <2>3 DEF Steady
<1>3. QED
  BY <1>1, <1>2

LEMMA ScopedItemStaysInScope ==
  ASSUME TypeOK, Steady, NEW i, ItemInScope(i)
  PROVE  ItemInScope(i)'
<1>1. CASE ~Scoped(policy)
  BY <1>1 DEF ItemInScope, Steady
<1>2. CASE Scoped(policy)
  <2>1. i \in Item /\ boardOf[i] # Unborn
    BY <1>2 DEF ItemInScope
  <2>2. CASE boardOf'[i] = boardOf[i]
    <3>1. Undisturbed(i)' => Undisturbed(i) /\ boardOf[i] \in Board
      BY <2>2 DEF Undisturbed, Steady
    <3>2. Undisturbed(i)' => BoardInScope(boardOf[i]) /\ boardOf[i] # NoBoard
      BY <1>2, <3>1, NamesAreDistinct DEF ItemInScope, BoardInScope
    <3>3. Undisturbed(i)' => BoardInScope(boardOf[i])'
      BY <2>2, <3>2, ScopedBoardStaysInScope
    <3>4. Undisturbed(i)' => InScope(boardOf[i])'
      BY <1>2, <3>2, <3>3, <2>2 DEF BoardInScope, Steady
    <3>5. QED
      BY <2>1, <2>2, <3>4 DEF ItemInScope, Steady
  <2>3. CASE ~Undisturbed(i)'
    BY <1>2, <2>1, <2>3 DEF ItemInScope, Steady
  <2>4. QED
    BY <2>1, <2>2, <2>3 DEF Steady
<1>3. QED
  BY <1>1, <1>2

LEMMA OnStaysOn ==
  ASSUME TypeOK, Steady, NEW i, NEW b, WasOn(i, b)
  PROVE  WasOn(i, b)'
<1>1. i \in Item /\ boardOf[i] # Unborn /\ boardOf'[i] # Unborn
  BY DEF WasOn, Steady
<1>2. CASE boardOf'[i] = boardOf[i] /\ boardOf[i] = b
  BY <1>1, <1>2 DEF WasOn
<1>3. CASE boardOf'[i] = boardOf[i] /\ ~Undisturbed(i)
  BY <1>1, <1>3 DEF WasOn, Undisturbed, Steady
<1>4. CASE ItemAllowed(i) /\ ItemInScope(i)
  BY <1>1, <1>4, AllowedItemStaysAllowed, ScopedItemStaysInScope DEF WasOn
<1>5. CASE ~Undisturbed(i)' \/ (ItemAllowed(i)' /\ ItemInScope(i)')
  BY <1>1, <1>5 DEF WasOn
<1>6. QED
  BY <1>1, <1>2, <1>3, <1>4, <1>5 DEF WasOn, Steady

-----------------------------------------------------------------------------
\* What a call knows from the checks it has passed.

PassedIn(checks, n, c) == \E k \in 1..Len(checks) : k < n /\ checks[k] = c

Passed(r, c) ==
  \/ layer[r] = "service" /\ PassedIn(request[r].op.service, pc[r], c)
  \/ layer[r] = "port" /\ (\/ Has(request[r].op.service, c)
                          \/ PassedIn(Port(request[r].op), pc[r], c))

\* The checks that leave something behind, and what it is.
Verdicts == {"guardArg", "scopeArg", "guardFound", "scopeFound", "guardTarget",
             "scopeTarget", "owned", "lookUp", "resolve"}

Meaning(r, c) ==
  /\ c = "guardArg"    => BoardAllowed(request[r].board)
  /\ c = "scopeArg"    => BoardInScope(request[r].board)
  /\ c = "guardFound"  => ItemAllowed(request[r].item)
  /\ c = "scopeFound"  => ItemInScope(request[r].item)
  /\ c = "guardTarget" => BoardAllowed(target[r])
  /\ c = "scopeTarget" => BoardInScope(target[r])
  /\ c = "owned"       => ItemOf[request[r].update] = request[r].item
  /\ c = "lookUp"      => found[r] \in Board
  /\ c = "resolve" => (Restricted(policy) \/ Scoped(policy) => found[r] \in Board)

\* What a call has read of the workspaces of boards is right.
AnswerHolds(r) == \A b \in Board : answer[r][b] # NoWorkspace => WasIn(b, answer[r][b])

Facts(r) ==
  /\ layer[r] = "idle" => found[r] = NoBoard
  /\ layer[r] # "idle" =>
       /\ request[r].op \in Served
       /\ "board" \in request[r].op.uses => request[r].board \in Board
  /\ AnswerHolds(r)
  /\ found[r] \in Board => WasOn(request[r].item, found[r])
  /\ \A c \in Verdicts : Passed(r, c) => Meaning(r, c)

FamiliesTogether ==
  \A b \in Board : \A c \in Family(b) :
    /\ workspaceOf[c] = workspaceOf[b]
    /\ b \in movedBoards => c \in movedBoards

OnlyOthersMove == movedItems # {} => "item" \in OutsideMoves

IInv ==
  /\ TypeOK
  /\ CacheTruthful
  /\ FamiliesTogether
  /\ OnlyOthersMove
  /\ \A r \in Req : Facts(r)

\* The call stands where it was.
Stands(r) ==
  /\ request'[r] = request[r] /\ layer'[r] = layer[r] /\ pc'[r] = pc[r]
  /\ found'[r] = found[r] /\ target'[r] = target[r]

LEMMA OpOfCall ==
  ASSUME TypeOK, NEW r \in Req
  PROVE  request[r].op \in Operations /\ WellOrdered(request[r].op)
<1>1. request[r].op \in Operations
  BY DEF TypeOK, Request
<1>2. QED
  BY <1>1, OperationsWellOrdered

LEMMA MeaningStays ==
  ASSUME TypeOK, Steady, NEW r \in Req, NEW c, Meaning(r, c),
         request'[r] = request[r],
         target'[r] = target[r] \/ c \notin {"guardTarget", "scopeTarget"},
         found'[r] = found[r] \/ found'[r] \in Board
  PROVE  Meaning(r, c)'
<1>1. c = "guardArg" => BoardAllowed(request[r].board)'
  BY AllowedBoardStaysAllowed DEF Meaning
<1>2. c = "scopeArg" => BoardInScope(request[r].board)'
  BY ScopedBoardStaysInScope DEF Meaning
<1>3. c = "guardFound" => ItemAllowed(request[r].item)'
  BY AllowedItemStaysAllowed DEF Meaning
<1>4. c = "scopeFound" => ItemInScope(request[r].item)'
  BY ScopedItemStaysInScope DEF Meaning
<1>5. c = "guardTarget" => BoardAllowed(target[r])'
  BY AllowedBoardStaysAllowed DEF Meaning
<1>6. c = "scopeTarget" => BoardInScope(target[r])'
  BY ScopedBoardStaysInScope DEF Meaning
<1>7. policy' = policy
  BY DEF Steady
<1>8. QED
  BY <1>1, <1>2, <1>3, <1>4, <1>5, <1>6, <1>7 DEF Meaning

LEMMA AnswersStay ==
  ASSUME TypeOK, Steady, NEW r \in Req, Facts(r), answer'[r] = answer[r]
  PROVE  AnswerHolds(r)'
<1>1. ASSUME NEW b \in Board, answer[r][b] # NoWorkspace
      PROVE  WasIn(b, answer[r][b])'
  <2>1. answer[r][b] \in Workspace /\ WasIn(b, answer[r][b])
    BY <1>1 DEF TypeOK, Facts, AnswerHolds
  <2>2. QED
    BY <2>1, InStaysIn
<1>2. QED
  BY <1>1 DEF AnswerHolds

\* A call that does not move keeps what it knows, whatever the others do.
LEMMA StandingKeepsFacts ==
  ASSUME TypeOK, Steady, NEW r \in Req, Facts(r), Stands(r), AnswerHolds(r)'
  PROVE  Facts(r)'
<1>1. \A c \in Verdicts : Passed(r, c)' => Passed(r, c)
  BY DEF Stands, Passed, Port, Steady
<1>2. \A c \in Verdicts : Passed(r, c)' => Meaning(r, c)'
  BY <1>1, MeaningStays DEF Facts, Stands
<1>3. found'[r] \in Board => WasOn(request[r].item, found[r])'
  BY OnStaysOn DEF Stands, Facts
<1>4. QED
  BY <1>2, <1>3 DEF Facts, Stands

LEMMA WaitingKeepsFacts ==
  ASSUME TypeOK, Steady, NEW r \in Req, Facts(r), Stands(r), answer'[r] = answer[r]
  PROVE  Facts(r)'
BY AnswersStay, StandingKeepsFacts

\* A call that returned knows nothing.
LEMMA NothingHolds ==
  ASSUME TypeOK, NEW r \in Req, answer'[r] = Nothing
  PROVE  AnswerHolds(r)'
BY DEF AnswerHolds, Nothing

LEMMA ReturningKeepsFacts ==
  ASSUME TypeOK, NEW r \in Req, Return(r)
  PROVE  Facts(r)'
<1>1. layer'[r] = "idle" /\ found'[r] = NoBoard /\ answer'[r] = Nothing
  BY DEF TypeOK, Return, Enter
<1>2. AnswerHolds(r)'
  BY <1>1, NothingHolds
<1>3. \A c \in Verdicts : ~Passed(r, c)'
  BY <1>1 DEF Passed
<1>4. QED
  BY <1>1, <1>2, <1>3, NamesAreDistinct DEF Facts

\* Going on means having passed the check the call was at.
LEMMA PassedAfterAdvance ==
  ASSUME TypeOK, NEW r \in Req, Advance(r), request'[r] = request[r],
         policy' = policy, NEW c, Passed(r, c)'
  PROVE  Passed(r, c) \/ At(r, {c})
<1>1. pc'[r] = pc[r] + 1 /\ layer'[r] = layer[r] /\ pc[r] \in Nat
  BY DEF TypeOK, Advance
<1>2. WellOrdered(request[r].op) /\ Len(PassThrough) = 0
  BY OpOfCall DEF PassThrough
<1>3. CASE layer[r] = "service"
  <2>1. PICK k \in 1..Len(request[r].op.service) :
          k < pc[r] + 1 /\ request[r].op.service[k] = c
    BY <1>1, <1>3 DEF Passed, PassedIn
  <2>2. k < pc[r] \/ k = pc[r]
    BY <1>1, <1>2, <2>1 DEF WellOrdered
  <2>3. QED
    BY <1>3, <2>1, <2>2 DEF Passed, PassedIn, At, Checks
<1>4. CASE layer[r] = "port"
  <2>1. CASE Has(request[r].op.service, c)
    BY <1>4, <2>1 DEF Passed
  <2>2. CASE ~Has(request[r].op.service, c)
    <3>1. PICK k \in 1..Len(Port(request[r].op)) :
            k < pc[r] + 1 /\ Port(request[r].op)[k] = c
      BY <1>1, <1>4, <2>2 DEF Passed, PassedIn, Port, Has
    <3>2. k < pc[r] \/ k = pc[r]
      BY <1>1, <1>2, <3>1 DEF WellOrdered, Port
    <3>3. QED
      BY <1>4, <3>1, <3>2 DEF Passed, PassedIn, At, Checks
  <2>3. QED
    BY <2>1, <2>2
<1>5. QED
  BY <1>1, <1>3, <1>4 DEF Passed

\* UpdateItemValues settles on a board before it has any verdict on it.
LEMMA TargetSettlesFirst ==
  ASSUME TypeOK, NEW r \in Req, At(r, {"tryScope"}),
         NEW c \in {"guardTarget", "scopeTarget"}
  PROVE  ~Passed(r, c) /\ ~At(r, {c})
<1>1. WellOrdered(request[r].op) /\ Len(PassThrough) = 0
  BY OpOfCall DEF PassThrough
<1>2. layer[r] = "service"
  BY <1>1 DEF At, Checks, WellOrdered, Port
<1>3. QED
  BY <1>1, <1>2 DEF At, Checks, WellOrdered, TriesFirst, Passed, PassedIn, TypeOK

LEMMA AdvancingKeepsFacts ==
  ASSUME TypeOK, Steady, NEW r \in Req, Facts(r), Advance(r),
         layer[r] # "idle", request'[r] = request[r],
         \/ found'[r] = found[r]
         \/ found'[r] \in Board /\ WasOn(request[r].item, found[r])',
         target'[r] = target[r] \/ At(r, {"tryScope"}),
         AnswerHolds(r)',
         \A c \in Verdicts : At(r, {c}) => Meaning(r, c)'
  PROVE  Facts(r)'
<1>1. layer'[r] = layer[r] /\ policy' = policy
  BY DEF TypeOK, Advance, Steady
<1>2. ASSUME NEW c \in Verdicts, Passed(r, c)' PROVE Meaning(r, c)'
  <2>1. CASE At(r, {c})
    BY <2>1
  <2>2. CASE ~At(r, {c})
    <3>1. Passed(r, c)
      BY <1>1, <1>2, <2>2, PassedAfterAdvance
    <3>2. Meaning(r, c)
      BY <3>1 DEF Facts
    <3>3. target'[r] = target[r] \/ c \notin {"guardTarget", "scopeTarget"}
      BY <3>1, TargetSettlesFirst
    <3>4. QED
      BY <3>2, <3>3, MeaningStays
  <2>3. QED
    BY <2>1, <2>2
<1>3. found'[r] \in Board => WasOn(request[r].item, found[r])'
  <2>1. CASE found'[r] = found[r]
    BY <2>1, OnStaysOn DEF Facts
  <2>2. QED
    BY <2>1
<1>4. QED
  BY <1>1, <1>2, <1>3 DEF Facts

\* The same when UpdateItemValues skips the scope check of a failed read.
LEMMA SkippingKeepsFacts ==
  ASSUME TypeOK, Steady, NEW r \in Req, Facts(r), At(r, {"tryLookUp"}),
         pc' = [pc EXCEPT ![r] = pc[r] + 2],
         UNCHANGED <<layer, request, found, target, answer>>
  PROVE  Facts(r)'
<1>1. WellOrdered(request[r].op) /\ Len(PassThrough) = 0 /\ pc[r] \in Nat
  BY OpOfCall DEF PassThrough, TypeOK
<1>2. /\ layer[r] = "service" /\ layer'[r] = layer[r] /\ pc'[r] = pc[r] + 2
      /\ request' = request /\ found' = found /\ target' = target /\ answer' = answer
  <2>1. layer[r] = "service"
    BY <1>1 DEF At, Checks, WellOrdered, Port
  <2>2. QED
    BY <2>1 DEF TypeOK
<1>3. /\ request[r].op.service[pc[r]] = "tryLookUp"
      /\ request[r].op.service[pc[r] + 1] = "tryScope"
  BY <1>1, <1>2 DEF At, Checks, WellOrdered, TriesFirst
<1>4. ASSUME NEW c \in Verdicts, Passed(r, c)' PROVE Passed(r, c)
  <2>1. PICK k \in 1..Len(request[r].op.service) :
          k < pc[r] + 2 /\ request[r].op.service[k] = c
    BY <1>2, <1>4 DEF Passed, PassedIn
  <2>2. k < pc[r] \/ k = pc[r] \/ k = pc[r] + 1
    BY <1>1, <2>1 DEF WellOrdered
  <2>3. QED
    BY <1>2, <1>3, <2>1, <2>2 DEF Passed, PassedIn, Verdicts
<1>5. \A c \in Verdicts : Passed(r, c)' => Meaning(r, c)'
  BY <1>2, <1>4, MeaningStays DEF Facts
<1>6. AnswerHolds(r)'
  BY <1>2, AnswersStay
<1>7. found'[r] \in Board => WasOn(request[r].item, found[r])'
  BY <1>2, OnStaysOn DEF Facts
<1>8. QED
  BY <1>2, <1>5, <1>6, <1>7 DEF Facts

\* A verdict on the item's board needs that the board was read, under a scope
\* or an allowlist.
LEMMA FoundIsKnown ==
  ASSUME TypeOK, NEW r \in Req, Facts(r), At(r, {"guardFound", "scopeFound"}),
         Restricted(policy) \/ Scoped(policy)
  PROVE  found[r] \in Board
<1>1. WellOrdered(request[r].op) /\ Len(PassThrough) = 0
  BY OpOfCall DEF PassThrough
<1>2. Passed(r, "lookUp") \/ Passed(r, "resolve")
  <2>1. CASE layer[r] = "service"
    <3>1. PICK k \in 1..(pc[r] - 1) :
            request[r].op.service[k] \in {"lookUp", "resolve"}
      BY <1>1, <2>1 DEF At, Checks, WellOrdered, LooksUpFirst
    <3>2. k \in 1..Len(request[r].op.service) /\ k < pc[r]
      BY <1>1, <2>1, <3>1 DEF At, Checks, WellOrdered, TypeOK
    <3>3. QED
      BY <2>1, <3>1, <3>2 DEF Passed, PassedIn
  <2>2. CASE layer[r] = "port"
    <3>1. Port(request[r].op) = request[r].op.port
      BY <1>1, <2>2 DEF At, Checks, Port
    <3>2. PICK k \in 1..(pc[r] - 1) : request[r].op.port[k] = "lookUp"
      BY <1>1, <2>2, <3>1 DEF At, Checks, WellOrdered, LooksUpFirst
    <3>3. k \in 1..Len(request[r].op.port) /\ k < pc[r]
      BY <1>1, <2>2, <3>1, <3>2 DEF At, Checks, WellOrdered, TypeOK
    <3>4. QED
      BY <2>2, <3>1, <3>2, <3>3 DEF Passed, PassedIn
  <2>3. QED
    BY <1>1, <2>1, <2>2 DEF At, Checks, WellOrdered
<1>3. QED
  BY <1>2 DEF Facts, Meaning, Verdicts

-----------------------------------------------------------------------------
\* What a call knows when it reaches monday.

ServesResolved == Served \cap Unresolved = {}

LEMMA MoversResolve ==
  ASSUME NEW op, op.effect \notin {"item", "update"}
  PROVE  op \notin Unresolved
BY UnresolvedStaysInPlace DEF Unresolved

LEMMA ReadyCallsAreJudged ==
  ASSUME TypeOK, NEW r \in Req, Facts(r), ReadyToSend(r),
         request[r].op \notin Unresolved
  PROVE  /\ ChangesBoard(request[r].op) =>
              /\ request[r].board \in Board
              /\ BoardAllowed(request[r].board) /\ BoardInScope(request[r].board)
         /\ ChangesItem(request[r].op) =>
              ItemAllowed(request[r].item) /\ ItemInScope(request[r].item)
         /\ request[r].op.effect = "values" =>
              BoardAllowed(target[r]) /\ BoardInScope(target[r])
         /\ request[r].op.effect = "update" =>
              ItemOf[request[r].update] = request[r].item
<1> DEFINE op == request[r].op
<1>1. layer[r] = "port" /\ pc[r] = Len(Port(op)) + 1 /\ WellOrdered(op)
  BY OpOfCall DEF ReadyToSend, Finished, Checks
<1>2. op \in Operations /\ op \notin Unresolved
  BY OpOfCall
<1>3. Judged(op)
  BY <1>2, OperationsJudged DEF Unresolved
<1>4. ASSUME NEW c \in Verdicts, Has(op.service, c) PROVE Meaning(r, c)
  BY <1>1, <1>4 DEF Facts, Passed
<1>5. ASSUME NEW c \in Verdicts, Has(op.port, c), Scoped(policy) PROVE Meaning(r, c)
  <2>1. Passed(r, c)
    BY <1>1, <1>5 DEF Passed, PassedIn, Has, Port, WellOrdered
  <2>2. QED
    BY <2>1 DEF Facts
<1>6. ASSUME ChangesBoard(op)
      PROVE  /\ request[r].board \in Board
             /\ BoardAllowed(request[r].board) /\ BoardInScope(request[r].board)
  <2>1. request[r].board \in Board
    BY <1>1, <1>3, <1>6 DEF Judged, Facts
  <2>2. Meaning(r, "guardArg") /\ (Scoped(policy) => Meaning(r, "scopeArg"))
    BY <1>3, <1>4, <1>5, <1>6 DEF Judged, Verdicts
  <2>3. QED
    BY <2>1, <2>2 DEF Meaning, BoardInScope
<1>7. ASSUME ChangesItem(op)
      PROVE  ItemAllowed(request[r].item) /\ ItemInScope(request[r].item)
  <2>1. Meaning(r, "guardFound") /\ Meaning(r, "scopeFound")
    BY <1>3, <1>4, <1>7 DEF Judged, Verdicts
  <2>2. QED
    BY <2>1 DEF Meaning
<1>8. ASSUME op.effect = "values"
      PROVE  BoardAllowed(target[r]) /\ BoardInScope(target[r])
  <2>1. Meaning(r, "guardTarget") /\ (Scoped(policy) => Meaning(r, "scopeTarget"))
    BY <1>3, <1>4, <1>5, <1>8 DEF Judged, Verdicts
  <2>2. QED
    BY <2>1 DEF Meaning, BoardInScope
<1>9. ASSUME op.effect = "update" PROVE ItemOf[request[r].update] = request[r].item
  <2>1. Meaning(r, "owned")
    BY <1>3, <1>4, <1>9 DEF Judged, Verdicts
  <2>2. QED
    BY <2>1 DEF Meaning
<1>10. QED
  BY <1>6, <1>7, <1>8, <1>9

-----------------------------------------------------------------------------
\* The steps of one call, one lemma for each kind of check.

LEMMA QuietStepsAreSteady ==
  ASSUME policy' = policy, UNCHANGED world, created \subseteq created'
  PROVE  Steady
BY DEF Steady, world

LEMMA AtIsServing ==
  ASSUME NEW r \in Req, NEW checks, At(r, checks)
  PROVE  layer[r] # "idle"
BY DEF At, Checks

LEMMA VerdictKeepsFacts ==
  ASSUME TypeOK, NEW r \in Req, Facts(r), NEW ok, Verdict(r, ok),
         layer[r] # "idle",
         ok => \A c \in Verdicts : At(r, {c}) => Meaning(r, c)
  PROVE  Steady /\ Facts(r)'
<1>1. Steady
  BY QuietStepsAreSteady DEF Verdict, shared
<1>2. CASE Return(r)
  BY <1>1, <1>2, ReturningKeepsFacts
<1>3. CASE ok /\ Advance(r) /\ UNCHANGED call
  <2>1. /\ request'[r] = request[r] /\ found'[r] = found[r]
        /\ target'[r] = target[r] /\ answer'[r] = answer[r]
    BY <1>3 DEF call
  <2>2. \A c \in Verdicts : At(r, {c}) => Meaning(r, c)'
    BY <1>1, <1>3, <2>1, MeaningStays
  <2>3. AnswerHolds(r)'
    BY <1>1, <2>1, AnswersStay
  <2>4. QED
    BY <1>1, <1>3, <2>1, <2>2, <2>3, AdvancingKeepsFacts
<1>4. QED
  BY <1>2, <1>3 DEF Verdict

\* The verdict of WriteGuard on the item's board is one on the item.
LEMMA FoundAllowed ==
  ASSUME TypeOK, NEW r \in Req, Facts(r), At(r, {"guardFound"}),
         CheckBoard(policy, created, found[r])
  PROVE  ItemAllowed(request[r].item)
<1>1. CASE ~Restricted(policy)
  BY <1>1 DEF ItemAllowed, CheckBoard
<1>2. CASE Restricted(policy)
  <2>1. found[r] \in Board
    BY <1>2, FoundIsKnown DEF At
  <2>2. WasOn(request[r].item, found[r])
    BY <2>1 DEF Facts
  <2>3. QED
    BY <2>2 DEF WasOn, ItemAllowed, CheckBoard
<1>3. QED
  BY <1>1, <1>2

LEMMA LocalChecksKeepFacts ==
  ASSUME TypeOK, NEW r \in Req, Facts(r),
         \/ Guard(r) \/ GuardWorkspace(r) \/ GuardBoard(r) \/ SkipLookUp(r)
         \/ ReadAndValidate(r) \/ FindUpdate(r)
  PROVE  Steady /\ Facts(r)'
<1>1. CASE Guard(r) \/ GuardWorkspace(r) \/ ReadAndValidate(r)
  <2>1. PICK c \in {"write", "confirm", "delete", "unfenced", "unscoped",
                    "named", "workspace", "scopeWorkspace", "read"} :
          At(r, {c}) /\ \E ok : Verdict(r, ok)
    BY <1>1 DEF Guard, GuardWorkspace, ReadAndValidate
  <2>2. layer[r] # "idle"
    BY <2>1, AtIsServing
  <2>3. \A d \in Verdicts : ~At(r, {d})
    BY <2>1 DEF At, Verdicts
  <2>4. QED
    BY <2>1, <2>2, <2>3, VerdictKeepsFacts
<1>2. CASE GuardBoard(r)
  <2>1. CASE At(r, {"guardArg"}) /\ Verdict(r, CheckBoard(policy, created, request[r].board))
    <3>1. CheckBoard(policy, created, request[r].board) =>
            \A c \in Verdicts : At(r, {c}) => Meaning(r, c)
      BY <2>1 DEF At, Meaning, BoardAllowed
    <3>2. QED
      BY <2>1, <3>1, VerdictKeepsFacts, AtIsServing
  <2>2. CASE At(r, {"guardFound"}) /\ Verdict(r, CheckBoard(policy, created, found[r]))
    <3>1. CheckBoard(policy, created, found[r]) =>
            \A c \in Verdicts : At(r, {c}) => Meaning(r, c)
      BY <2>2, FoundAllowed DEF At, Meaning
    <3>2. QED
      BY <2>2, <3>1, VerdictKeepsFacts, AtIsServing
  <2>3. CASE At(r, {"guardTarget"}) /\ Verdict(r, CheckBoard(policy, created, target[r]))
    <3>1. CheckBoard(policy, created, target[r]) =>
            \A c \in Verdicts : At(r, {c}) => Meaning(r, c)
      BY <2>3 DEF At, Meaning, BoardAllowed
    <3>2. QED
      BY <2>3, <3>1, VerdictKeepsFacts, AtIsServing
  <2>4. QED
    BY <1>2, <2>1, <2>2, <2>3 DEF GuardBoard
<1>3. CASE SkipLookUp(r)
  <2>1. \A c \in Verdicts : At(r, {c}) => Meaning(r, c)
    BY <1>3 DEF SkipLookUp, At, Meaning, Verdicts
  <2>2. QED
    BY <1>3, <2>1, VerdictKeepsFacts, AtIsServing DEF SkipLookUp
<1>4. CASE FindUpdate(r)
  <2>1. PICK ok \in BOOLEAN :
          /\ ok => ItemOf[request[r].update] = request[r].item
          /\ Verdict(r, ok)
    BY <1>4 DEF FindUpdate
  <2>2. ok => \A c \in Verdicts : At(r, {c}) => Meaning(r, c)
    BY <1>4, <2>1 DEF FindUpdate, At, Meaning
  <2>3. QED
    BY <1>4, <2>1, <2>2, VerdictKeepsFacts, AtIsServing DEF FindUpdate
<1>5. QED
  BY <1>1, <1>2, <1>3, <1>4

LEMMA LookUpsKeepFacts ==
  ASSUME TypeOK, NEW r \in Req, Facts(r), LookUpItem(r) \/ LookUpFails(r)
  PROVE  Steady /\ Facts(r)'
<1>1. Steady
  BY QuietStepsAreSteady DEF LookUpItem, LookUpFails, shared
<1>2. CASE LookUpItem(r)
  <2>1. /\ boardOf[request[r].item] \in Board /\ request[r].item \in Item
        /\ found'[r] = boardOf[request[r].item] /\ boardOf' = boardOf
        /\ request'[r] = request[r] /\ target'[r] = target[r]
        /\ answer'[r] = answer[r] /\ layer[r] # "idle" /\ Advance(r)
    BY <1>2, AtIsServing DEF LookUpItem, LookUpIsMade, Visible, TypeOK, world
  <2>2. WasOn(request[r].item, found[r])'
    BY <2>1, NamesAreDistinct DEF WasOn
  <2>3. \A c \in Verdicts : At(r, {c}) => c \in {"lookUp", "resolve"}
    BY <1>2 DEF LookUpItem, LookUpIsMade, At, Verdicts
  <2>4. \A c \in Verdicts : At(r, {c}) => Meaning(r, c)'
    BY <2>1, <2>3 DEF Meaning
  <2>5. AnswerHolds(r)'
    BY <1>1, <2>1, AnswersStay
  <2>6. QED
    BY <1>1, <2>1, <2>2, <2>4, <2>5, AdvancingKeepsFacts
<1>3. CASE LookUpFails(r)
  BY <1>1, <1>3, ReturningKeepsFacts, SkippingKeepsFacts DEF LookUpFails
<1>4. QED
  BY <1>2, <1>3

\* A board of the scope that a scope check looks at is the one it is for.
LEMMA CheckedInScope ==
  ASSUME TypeOK, NEW r \in Req, Facts(r), NEW c \in Verdicts, At(r, {c}),
         At(r, ScopeChecks), BoardInScope(Checked(r))
  PROVE  Meaning(r, c)
<1>1. c \in {"scopeArg", "scopeFound", "scopeTarget"}
  BY DEF At, ScopeChecks, Verdicts
<1>2. CASE c = "scopeArg"
  BY <1>2 DEF Checked, At, Meaning
<1>3. CASE c = "scopeTarget"
  BY <1>3 DEF Checked, At, Meaning
<1>4. CASE c = "scopeFound"
  <2>1. Checked(r) = found[r]
    BY <1>4 DEF Checked, At
  <2>2. CASE ~Scoped(policy)
    BY <1>4, <2>2 DEF Meaning, ItemInScope
  <2>3. CASE Scoped(policy)
    <3>1. found[r] \in Board
      BY <1>4, <2>3, FoundIsKnown DEF At
    <3>2. WasOn(request[r].item, found[r]) /\ InScope(found[r])
      BY <2>1, <2>3, <3>1, NamesAreDistinct DEF Facts, BoardInScope
    <3>3. ItemInScope(request[r].item)
      BY <3>2 DEF WasOn, ItemInScope
    <3>4. QED
      BY <1>4, <3>3 DEF Meaning
  <2>4. QED
    BY <2>2, <2>3
<1>5. QED
  BY <1>1, <1>2, <1>3, <1>4

\* A verdict on a board whose workspace was read or remembered rightly.
LEMMA ScopeVerdictKeepsFacts ==
  ASSUME TypeOK, Steady, NEW r \in Req, Facts(r), At(r, ScopeChecks),
         Checked(r) \in Board, NEW w \in Workspace, WasIn(Checked(r), w),
         ScopeVerdict(r, w)
  PROVE  Facts(r)'
<1>1. CallsOK /\ layer[r] # "idle"
  BY AtIsServing, TypeOKParts
<1>3. CASE Return(r)
  BY <1>3, ReturningKeepsFacts
<1>4. CASE w = policy.scope /\ ~Return(r)
  <2>1. /\ Advance(r) /\ request'[r] = request[r] /\ found'[r] = found[r]
        /\ target'[r] = target[r] \/ At(r, {"tryScope"})
        /\ answer'[r] = Nothing
    BY <1>4 DEF ScopeVerdict, TypeOK
  <2>2. BoardInScope(Checked(r))
    BY <1>4 DEF WasIn, BoardInScope, InScope
  <2>3. ASSUME NEW c \in Verdicts, At(r, {c}) PROVE Meaning(r, c)'
    <3>1. Meaning(r, c)
      BY <2>2, <2>3, CheckedInScope
    <3>2. (c # "scopeTarget" /\ c # "guardTarget") \/ target'[r] = target[r]
      BY <2>1, <2>3, TargetSettlesFirst
    <3>3. QED
      BY <2>1, <3>1, <3>2, MeaningStays
  <2>4. QED
    BY <1>1, <2>1, <2>3, NothingHolds, AdvancingKeepsFacts
<1>5. CASE w # policy.scope /\ ~Return(r)
  <2>1. /\ Advance(r) /\ request'[r] = request[r] /\ found'[r] = found[r]
        /\ target'[r] = target[r] /\ answer'[r] = Nothing
        /\ At(r, {"tryScope"})
    BY <1>5 DEF ScopeVerdict, TypeOK
  <2>2. \A c \in Verdicts : ~At(r, {c})
    BY <2>1 DEF At, Verdicts
  <2>3. QED
    BY <1>1, <2>1, <2>2, NothingHolds, AdvancingKeepsFacts
<1>6. QED
  BY <1>3, <1>4, <1>5

LEMMA ScopeChecksKeepFacts ==
  ASSUME TypeOK, CacheTruthful, NEW r \in Req, Facts(r), ScopeCheck(r)
  PROVE  Steady /\ CacheTruthful' /\ Facts(r)'
<1>1. Steady
  BY QuietStepsAreSteady
     DEF ScopeCheck, SkipScope, LookUpCache, AskBoard, AskBoardFails,
         RememberBoard, shared
<1>2. layer[r] # "idle" /\ At(r, ScopeChecks)
  BY AtIsServing
     DEF ScopeCheck, SkipScope, LookUpCache, AskBoard, AskBoardFails, RememberBoard
<1>3. Checked(r) \in Board \cup {NoBoard}
  BY CheckedType, TypeOKParts
<1>4. \A b \in Board : cache[b] # NoWorkspace => cache[b] \in Workspace /\ WasIn(b, cache[b])
  BY DEF CacheTruthful, WasIn, TypeOK
<1>5. \A b \in Board : answer[r][b] # NoWorkspace =>
        answer[r][b] \in Workspace /\ WasIn(b, answer[r][b])
  BY DEF Facts, AnswerHolds, TypeOK
<1>6. CacheTruthful'
  <2>1. \A b \in Board : cache'[b] \in {cache[b], answer[r][b]}
    BY DEF ScopeCheck, SkipScope, LookUpCache, AskBoard, AskBoardFails,
           RememberBoard, Remembering, shared, TypeOK
  <2>2. ASSUME NEW b \in Board, cache'[b] # NoWorkspace
        PROVE  b \in movedBoards' \/ workspaceOf'[b] \in {cache'[b], Gone}
    <3>1. CASE cache'[b] = cache[b]
      BY <1>1, <1>4, <2>2, <3>1, InStaysIn DEF WasIn
    <3>2. CASE cache'[b] = answer[r][b]
      BY <1>1, <1>5, <2>2, <3>2, InStaysIn DEF WasIn
    <3>3. QED
      BY <2>1, <3>1, <3>2
  <2>3. QED
    BY <2>2 DEF CacheTruthful
<1>7. CASE SkipScope(r)
  <2>1. BoardInScope(Checked(r))
    BY <1>7 DEF SkipScope, BoardInScope
  <2>2. /\ Advance(r) /\ request'[r] = request[r] /\ found'[r] = found[r]
        /\ target'[r] = target[r] \/ At(r, {"tryScope"})
        /\ answer'[r] = answer[r]
    BY <1>7 DEF SkipScope, TypeOK
  <2>3. ASSUME NEW c \in Verdicts, At(r, {c}) PROVE Meaning(r, c)'
    <3>1. Meaning(r, c)
      BY <1>2, <2>1, <2>3, CheckedInScope
    <3>2. (c # "scopeTarget" /\ c # "guardTarget") \/ target'[r] = target[r]
      BY <2>2, <2>3, TargetSettlesFirst
    <3>3. QED
      BY <1>1, <2>2, <3>1, <3>2, MeaningStays
  <2>4. QED
    BY <1>1, <1>2, <1>6, <2>2, <2>3, AnswersStay, AdvancingKeepsFacts
<1>8. CASE LookUpCache(r)
  <2>1. CASE cache[Checked(r)] # NoWorkspace /\ ScopeVerdict(r, cache[Checked(r)])
    <3>1. cache[Checked(r)] \in Workspace /\ WasIn(Checked(r), cache[Checked(r)])
      BY <1>3, <1>4, <1>8, <2>1 DEF LookUpCache
    <3>2. Checked(r) \in Board
      BY <1>3, <1>8 DEF LookUpCache
    <3>3. QED
      BY <1>1, <1>2, <1>6, <2>1, <3>1, <3>2, ScopeVerdictKeepsFacts
  <2>2. CASE Stands(r) /\ answer' = answer
    BY <1>1, <1>6, <2>2, WaitingKeepsFacts
  <2>3. QED
    BY <1>8, <2>1, <2>2 DEF LookUpCache, Stands
<1>9. CASE AskBoard(r)
  <2>1. Stands(r) /\ workspaceOf' = workspaceOf /\ movedBoards' = movedBoards
    BY <1>9 DEF AskBoard, Stands, world
  <2>2. answer'[r] = Reveals(Checked(r), workspaceOf[Checked(r)])
    BY <1>9 DEF AskBoard, TypeOK
  <2>3. AnswerHolds(r)'
    BY <2>1, <2>2 DEF AnswerHolds, Reveals, WasIn
  <2>4. QED
    BY <1>1, <1>6, <2>1, <2>3, StandingKeepsFacts
<1>10. CASE AskBoardFails(r)
  <2>1. CASE Return(r)
    BY <1>1, <1>6, <2>1, ReturningKeepsFacts
  <2>2. CASE /\ At(r, {"tryScope"}) /\ Advance(r)
             /\ UNCHANGED <<request, found, target, answer>>
    <3>1. \A c \in Verdicts : ~At(r, {c})
      BY <2>2 DEF At, Verdicts
    <3>2. QED
      BY <1>1, <1>2, <1>6, <2>2, <3>1, AnswersStay, AdvancingKeepsFacts
  <2>3. QED
    BY <1>10, <2>1, <2>2 DEF AskBoardFails
<1>11. CASE RememberBoard(r)
  <2>1. /\ Checked(r) \in Board /\ answer[r][Checked(r)] \in Workspace
        /\ WasIn(Checked(r), answer[r][Checked(r)])
    BY <1>5, <1>11 DEF RememberBoard
  <2>2. QED
    BY <1>1, <1>2, <1>6, <1>11, <2>1, ScopeVerdictKeepsFacts DEF RememberBoard
<1>12. QED
  BY <1>1, <1>6, <1>7, <1>8, <1>9, <1>10, <1>11 DEF ScopeCheck

-----------------------------------------------------------------------------
\* Boards and their subitems boards stay together.

LEMMA FamilyIsClosed ==
  ASSUME NEW b \in Board, NEW c \in Family(b)
  PROVE  b \in Family(b) /\ c \in Board /\ b \in Family(c) /\ Family(c) \subseteq Family(b)
<1>1. b \in Family(b) /\ c \in Board /\ b \in Family(c)
  BY DEF Family
<1>2. ASSUME NEW d \in Family(c) PROVE d \in Family(b)
  BY <1>2, SubitemsDoNotNest, NamesAreDistinct DEF Family
<1>3. QED
  BY <1>1, <1>2

LEMMA SettlingKeepsFamilies ==
  ASSUME TypeOK, FamiliesTogether, NEW boards \in SUBSET Board, NEW w,
         Settle(boards, w), \A b \in boards : Family(b) \subseteq boards,
         movedBoards' = movedBoards \/ movedBoards' = movedBoards \cup boards
  PROVE  FamiliesTogether'
<1>1. SUFFICES ASSUME NEW b \in Board, NEW c \in Family(b)
               PROVE  /\ workspaceOf'[c] = workspaceOf'[b]
                      /\ b \in movedBoards' => c \in movedBoards'
  BY DEF FamiliesTogether
<1>2. b \in boards <=> c \in boards
  BY FamilyIsClosed
<1>3. c \in Board /\ workspaceOf[c] = workspaceOf[b]
      /\ (b \in movedBoards => c \in movedBoards)
  BY FamilyIsClosed DEF FamiliesTogether
<1>4. QED
  BY <1>2, <1>3 DEF Settle

-----------------------------------------------------------------------------
\* The steps that leave no new verdict.

LEMMA CacheStaysTruthful ==
  ASSUME TypeOK, Steady, CacheTruthful, cache' = cache
  PROVE  CacheTruthful'
<1>1. ASSUME NEW b \in Board, cache[b] # NoWorkspace PROVE WasIn(b, cache[b])'
  BY <1>1, InStaysIn DEF CacheTruthful, WasIn, TypeOK
<1>2. QED
  BY <1>1 DEF CacheTruthful, WasIn

LEMMA StartKeepsFacts ==
  ASSUME TypeOK, NEW r \in Req, Facts(r), Start(r)
  PROVE  Steady /\ Facts(r)'
<1>1. Steady
  BY QuietStepsAreSteady DEF Start, shared
<1>2. PICK op \in Served :
        /\ request'[r].op = op
        /\ "board" \in op.uses => request'[r].board \in Board
  BY DEF Start, TypeOK
<1>3. layer'[r] = "service" /\ pc'[r] = 1 /\ found'[r] = NoBoard
      /\ answer'[r] = answer[r]
  BY DEF Start, Enter, Facts, TypeOK
<1>4. \A c \in Verdicts : ~Passed(r, c)'
  BY <1>3 DEF Passed, PassedIn
<1>5. AnswerHolds(r)'
  BY <1>1, <1>3, AnswersStay
<1>6. QED
  BY <1>1, <1>2, <1>3, <1>4, <1>5, NamesAreDistinct DEF Facts

LEMMA CallPortKeepsFacts ==
  ASSUME TypeOK, NEW r \in Req, Facts(r), CallPort(r)
  PROVE  Steady /\ Facts(r)'
<1>1. Steady
  BY QuietStepsAreSteady DEF CallPort, shared
<1>2. /\ layer[r] = "service" /\ pc[r] = Len(request[r].op.service) + 1
      /\ layer'[r] = "port" /\ pc'[r] = 1
      /\ request'[r] = request[r] /\ found'[r] = found[r]
      /\ target'[r] = target[r] /\ answer'[r] = answer[r]
  BY DEF CallPort, Finished, Checks, Enter, call, TypeOK
<1>3. ASSUME NEW c \in Verdicts, Passed(r, c)' PROVE Meaning(r, c)'
  <2>1. Has(request[r].op.service, c)
    BY <1>2, <1>3 DEF Passed, PassedIn
  <2>2. Passed(r, c)
    BY <1>2, <2>1, OpOfCall DEF Passed, PassedIn, Has, WellOrdered
  <2>3. QED
    BY <1>1, <1>2, <2>2, MeaningStays DEF Facts
<1>4. AnswerHolds(r)'
  BY <1>1, <1>2, AnswersStay
<1>5. found'[r] \in Board => WasOn(request[r].item, found[r])'
  BY <1>1, <1>2, OnStaysOn DEF Facts
<1>6. QED
  BY <1>1, <1>2, <1>3, <1>4, <1>5 DEF Facts

\* Both steps that follow a created board: it is remembered, and trusted.
LEMMA KeepingKeepsFacts ==
  ASSUME TypeOK, CacheTruthful, NEW r \in Req, Facts(r), Remember(r) \/ TrustBoard(r)
  PROVE  Steady /\ CacheTruthful' /\ Facts(r)'
<1>1. Steady
  BY QuietStepsAreSteady DEF Remember, TrustBoard
<1>2. layer[r] # "idle" /\ \A c \in Verdicts : ~At(r, {c})
  BY AtIsServing DEF Remember, TrustBoard, At, Verdicts
<1>3. /\ Advance(r) /\ request'[r] = request[r] /\ found'[r] = found[r]
      /\ target'[r] = target[r] /\ answer'[r] = answer[r]
  BY DEF Remember, TrustBoard, call
<1>4. Facts(r)'
  BY <1>1, <1>2, <1>3, AnswersStay, AdvancingKeepsFacts
<1>5. \A b \in Board : cache'[b] = cache[b]
        \/ cache'[b] = answer[r][b]
  BY DEF Remember, TrustBoard, Remembering
<1>6. ASSUME NEW b \in Board, cache'[b] # NoWorkspace
      PROVE  b \in movedBoards' \/ workspaceOf'[b] \in {cache'[b], Gone}
  <2>1. CASE cache'[b] = cache[b]
    BY <1>1, <1>6, <2>1, InStaysIn DEF CacheTruthful, WasIn, TypeOK
  <2>2. CASE cache'[b] = answer[r][b]
    BY <1>1, <1>6, <2>2, InStaysIn DEF Facts, AnswerHolds, WasIn, TypeOK
  <2>3. QED
    BY <1>5, <2>1, <2>2
<1>7. QED
  BY <1>1, <1>4, <1>6 DEF CacheTruthful

-----------------------------------------------------------------------------
\* The calls to monday.

\* The board a subitem lands on is only known to be in the scope while
\* nobody else moves the parent.
SubitemsUndisturbed ==
  (\E op \in Served : op.effect = "newSubitem") => "item" \notin OutsideMoves

LEMMA AnsweredKeepsFacts ==
  ASSUME TypeOK, Steady, NEW r \in Req, Facts(r), layer[r] # "idle",
         NEW result, Answered(r, result),
         \A b \in Board : result[b] # NoWorkspace =>
           b \in movedBoards' \/ workspaceOf'[b] \in {result[b], Gone}
  PROVE  Facts(r)'
<1>1. CASE Return(r)
  BY <1>1, ReturningKeepsFacts
<1>2. CASE UNCHANGED <<layer, pc, call>>
  BY <1>2, WaitingKeepsFacts DEF Stands, call
<1>3. CASE ~Return(r) /\ ~UNCHANGED <<layer, pc, call>>
  <2>1. /\ layer'[r] = "reply" /\ answer'[r] = result
        /\ request'[r] = request[r] /\ found'[r] = found[r]
    BY <1>3 DEF Answered, Enter, TypeOK
  <2>2. \A c \in Verdicts : ~Passed(r, c)'
    BY <2>1 DEF Passed
  <2>3. AnswerHolds(r)'
    BY <2>1 DEF AnswerHolds, WasIn
  <2>4. found'[r] \in Board => WasOn(request[r].item, found[r])'
    BY <2>1, OnStaysOn DEF Facts
  <2>5. QED
    BY <2>1, <2>2, <2>3, <2>4 DEF Facts
<1>4. QED
  BY <1>1, <1>2, <1>3

LEMMA SilentAnswerKeepsFacts ==
  ASSUME TypeOK, Steady, NEW r \in Req, Facts(r), ReadyToSend(r),
         Answered(r, Nothing) \/ Return(r)
  PROVE  Facts(r)'
<1>1. \A b \in Board : Nothing[b] = NoWorkspace
  BY DEF Nothing
<1>2. layer[r] # "idle"
  BY DEF ReadyToSend, Finished
<1>3. QED
  BY <1>1, <1>2, AnsweredKeepsFacts, ReturningKeepsFacts

\* A change to the board of one item is steady when the item was not there
\* before, is gone, or lands on a board that was checked.
LEMMA PlacingIsSteady ==
  ASSUME TypeOK, UNCHANGED <<policy, workspaceOf, movedItems, movedBoards, shared>>,
         NEW i \in Item, NEW b \in Board \cup {Gone},
         boardOf' = [boardOf EXCEPT ![i] = b],
         boardOf[i] = Unborn \/ b = Gone \/ (BoardAllowed(b) /\ BoardInScope(b))
  PROVE  Steady
<1>1. boardOf'[i] = b /\ b # Unborn /\ \A j \in Item : j # i => boardOf'[j] = boardOf[j]
  BY NamesAreDistinct DEF TypeOK
<1>2. b = Gone => ~Undisturbed(i)'
  BY <1>1, NamesAreDistinct DEF Undisturbed
<1>3. ASSUME b # Gone, BoardAllowed(b), BoardInScope(b)
      PROVE  ItemAllowed(i)' /\ ItemInScope(i)'
  <2>1. b \in Board /\ b # NoBoard /\ created' = created
    BY <1>3, NamesAreDistinct DEF shared
  <2>2. ItemAllowed(i)'
    BY <1>1, <1>3, <2>1 DEF ItemAllowed, BoardAllowed, CheckBoard
  <2>3. ItemInScope(i)'
    BY <1>1, <1>3, <2>1 DEF ItemInScope, BoardInScope, InScope
  <2>4. QED
    BY <2>2, <2>3
<1>4. \A j \in Item : boardOf[j] # Unborn =>
        /\ boardOf'[j] # Unborn
        /\ \/ boardOf'[j] = boardOf[j] \/ ~Undisturbed(j)'
           \/ ItemAllowed(j)' /\ ItemInScope(j)'
  BY <1>1, <1>2, <1>3
<1>5. QED
  BY <1>4 DEF Steady, shared

LEMMA SettlingIsSteady ==
  ASSUME TypeOK, UNCHANGED <<policy, boardOf, movedItems, shared>>,
         NEW boards \in SUBSET Board, NEW w, Settle(boards, w),
         movedBoards' = movedBoards \/ movedBoards' = movedBoards \cup boards,
         \/ w = Gone \/ \A b \in boards : workspaceOf[b] = Unborn
         \/ boards \subseteq movedBoards'
  PROVE  Steady
<1>1. \A b \in Board : workspaceOf[b] # Unborn =>
        workspaceOf'[b] \in {workspaceOf[b], Gone} \/ b \in movedBoards'
  BY DEF Settle
<1>2. QED
  BY <1>1 DEF Steady, shared

LEMMA QuietSendsKeepFacts ==
  ASSUME TypeOK, FamiliesTogether, NEW r \in Req, Facts(r),
         SendInPlace(r) \/ SendFails(r) \/ SendList(r)
  PROVE  Steady /\ FamiliesTogether' /\ Facts(r)'
<1>1. Steady /\ FamiliesTogether' /\ layer[r] # "idle"
  BY QuietStepsAreSteady
     DEF SendInPlace, SendFails, SendList, shared, world, FamiliesTogether,
         ReadyToSend, Finished
<1>2. CASE SendInPlace(r) \/ SendFails(r)
  BY <1>1, <1>2, SilentAnswerKeepsFacts DEF SendInPlace, SendFails
<1>3. CASE SendList(r)
  <2>1. PICK page \in SUBSET {b \in Board : workspaceOf[b] = policy.scope} :
          Answered(r, [b \in Board |-> IF b \in page THEN policy.scope ELSE NoWorkspace])
    BY <1>3 DEF SendList
  <2>2. workspaceOf' = workspaceOf
    BY <1>3 DEF SendList, world
  <2> DEFINE result == [b \in Board |-> IF b \in page THEN policy.scope ELSE NoWorkspace]
  <2>3. \A b \in Board : result[b] # NoWorkspace => workspaceOf'[b] = result[b]
    BY <2>1, <2>2
  <2>4. Answered(r, result)
    BY <2>1
  <2>5. QED
    BY <1>1, <2>3, <2>4, AnsweredKeepsFacts
<1>4. QED
  BY <1>2, <1>3

LEMMA BoardSendsKeepFacts ==
  ASSUME TypeOK, FamiliesTogether, NEW r \in Req, Facts(r),
         SendNewBoard(r) \/ SendDeleteBoard(r) \/ SendDeleteFolder(r)
  PROVE  Steady /\ FamiliesTogether' /\ Facts(r)'
<1>1. ASSUME SendNewBoard(r) PROVE Steady /\ FamiliesTogether' /\ Facts(r)'
  <2>1. PICK b \in Board : /\ workspaceOf[b] = Unborn
                           /\ Settle(Family(b), LandsIn(r))
                           /\ Answered(r, Reveals(b, LandsIn(r)))
    BY <1>1 DEF SendNewBoard
  <2>2. PICK w : w = LandsIn(r)
    OBVIOUS
  <2>3. Family(b) \in SUBSET Board /\ \A c \in Family(b) : workspaceOf[c] = Unborn
    BY <2>1 DEF Family, FamiliesTogether
  <2>4. Steady
    BY <1>1, <2>1, <2>3, SettlingIsSteady DEF SendNewBoard
  <2>5. FamiliesTogether'
    BY <1>1, <2>1, <2>3, FamilyIsClosed, SettlingKeepsFamilies DEF SendNewBoard
  <2>6. Settle(Family(b), w) /\ Answered(r, Reveals(b, w)) /\ b \in Family(b)
    BY <2>1, <2>2, FamilyIsClosed DEF Family
  <2>7. \A c \in Board : Reveals(b, w)[c] # NoWorkspace => workspaceOf'[c] = Reveals(b, w)[c]
    BY <2>6 DEF Settle, Reveals
  <2>8. layer[r] # "idle"
    BY <1>1 DEF SendNewBoard, ReadyToSend, Finished
  <2>9. Facts(r)'
    BY <2>4, <2>6, <2>7, <2>8, AnsweredKeepsFacts
  <2>10. QED
    BY <2>4, <2>5, <2>9
<1>2. ASSUME SendDeleteBoard(r) \/ SendDeleteFolder(r)
      PROVE  Steady /\ FamiliesTogether' /\ Facts(r)'
  <2>1. PICK boards \in SUBSET Board :
          Settle(boards, Gone) /\ \A b \in boards : Family(b) \subseteq boards
    <3>1. CASE SendDeleteBoard(r)
      <4>1. request[r].board \in Board /\ Settle(Family(request[r].board), Gone)
        BY <3>1 DEF SendDeleteBoard, Exists
      <4>2. Family(request[r].board) \in SUBSET Board
        BY DEF Family
      <4>3. \A b \in Family(request[r].board) : Family(b) \subseteq Family(request[r].board)
        BY <4>1, FamilyIsClosed
      <4>4. QED
        BY <4>1, <4>2, <4>3
    <3>2. CASE SendDeleteFolder(r)
      BY <3>2 DEF SendDeleteFolder
    <3>3. QED
      BY <1>2, <3>1, <3>2
  <2>2. UNCHANGED <<policy, boardOf, movedItems, movedBoards, shared>>
        /\ ReadyToSend(r) /\ Answered(r, Nothing)
    BY <1>2 DEF SendDeleteBoard, SendDeleteFolder
  <2>3. Steady
    BY <2>1, <2>2, SettlingIsSteady
  <2>4. FamiliesTogether'
    BY <2>1, <2>2, SettlingKeepsFamilies
  <2>5. QED
    BY <2>2, <2>3, <2>4, SilentAnswerKeepsFacts
<1>3. QED
  BY <1>1, <1>2

LEMMA ItemSendsKeepFacts ==
  ASSUME TypeOK, FamiliesTogether, NEW r \in Req, Facts(r),
         SendMoveToBoard(r) \/ SendDeleteItem(r) \/ SendNewItem(r)
  PROVE  Steady /\ FamiliesTogether' /\ Facts(r)'
<1>1. /\ ReadyToSend(r) /\ Answered(r, Nothing)
      /\ UNCHANGED <<policy, workspaceOf, movedItems, movedBoards, shared>>
  BY DEF SendMoveToBoard, SendDeleteItem, SendNewItem
<1>2. ASSUME SendMoveToBoard(r) PROVE Steady
  <2>1. /\ request[r].item \in Item /\ request[r].board \in Board
        /\ boardOf' = [boardOf EXCEPT ![request[r].item] = request[r].board]
        /\ ChangesBoard(request[r].op) /\ request[r].op \notin Unresolved
    BY <1>2, MoversResolve DEF SendMoveToBoard, Visible, Exists, Effect, ChangesBoard
  <2>2. BoardAllowed(request[r].board) /\ BoardInScope(request[r].board)
    BY <1>1, <2>1, ReadyCallsAreJudged
  <2>3. QED
    BY <1>1, <2>1, <2>2, PlacingIsSteady
<1>3. ASSUME SendDeleteItem(r) PROVE Steady
  <2>1. /\ request[r].item \in Item
        /\ boardOf' = [boardOf EXCEPT ![request[r].item] = Gone]
    BY <1>3 DEF SendDeleteItem, Visible
  <2>2. QED
    BY <1>1, <2>1, PlacingIsSteady
<1>4. ASSUME SendNewItem(r) PROVE Steady
  <2>1. PICK i \in Item, b \in Board :
          boardOf[i] = Unborn /\ boardOf' = [boardOf EXCEPT ![i] = b]
    BY <1>4 DEF SendNewItem, Exists
  <2>2. QED
    BY <1>1, <2>1, PlacingIsSteady
<1>5. Steady
  BY <1>2, <1>3, <1>4
<1>6. FamiliesTogether'
  BY <1>1 DEF FamiliesTogether
<1>7. QED
  BY <1>1, <1>5, <1>6, SilentAnswerKeepsFacts

LEMMA SubitemSendKeepsFacts ==
  ASSUME TypeOK, FamiliesTogether, OnlyOthersMove, SubitemsUndisturbed,
         NEW r \in Req, Facts(r), SendNewSubitem(r)
  PROVE  Steady /\ FamiliesTogether' /\ Facts(r)'
<1> DEFINE parent == request[r].item
           sub == SubBoard[boardOf[parent]]
<1>1. /\ ReadyToSend(r) /\ parent \in Item /\ boardOf[parent] \in Board
      /\ sub \in Board /\ Answered(r, Reveals(sub, policy.scope))
      /\ UNCHANGED <<policy, workspaceOf, movedItems, movedBoards, shared>>
      /\ layer[r] # "idle"
  BY SubBoardIsPartial
     DEF SendNewSubitem, Visible, ReadyToSend, Finished
<1>2. Steady
  <2>1. PICK i \in Item : boardOf[i] = Unborn /\ boardOf' = [boardOf EXCEPT ![i] = sub]
    BY DEF SendNewSubitem
  <2>2. QED
    BY <1>1, <2>1, PlacingIsSteady
<1>3. FamiliesTogether'
  BY <1>1 DEF FamiliesTogether
<1>4. Scoped(policy) => sub \in movedBoards \/ workspaceOf[sub] \in {policy.scope, Gone}
  <2>1. /\ ChangesItem(request[r].op) /\ request[r].op \in Served
        /\ request[r].op \notin Unresolved
    BY <1>1, MoversResolve DEF SendNewSubitem, Effect, ChangesItem, Facts
  <2>2. ItemInScope(parent)
    BY <1>1, <2>1, ReadyCallsAreJudged
  <2>3. movedItems = {}
    BY <2>1 DEF SendNewSubitem, Effect, SubitemsUndisturbed, OnlyOthersMove
  <2>4. Scoped(policy) => InScope(boardOf[parent])
    BY <1>1, <2>2, <2>3 DEF ItemInScope, Undisturbed
  <2>5. sub \in Family(boardOf[parent])
    BY <1>1 DEF Family
  <2>6. workspaceOf[sub] = workspaceOf[boardOf[parent]]
        /\ (boardOf[parent] \in movedBoards => sub \in movedBoards)
    BY <1>1, <2>5 DEF FamiliesTogether
  <2>7. QED
    BY <2>4, <2>6 DEF InScope
<1>5. \A b \in Board : Reveals(sub, policy.scope)[b] # NoWorkspace =>
        b \in movedBoards'
        \/ workspaceOf'[b] \in {Reveals(sub, policy.scope)[b], Gone}
  <2>1. movedBoards' = movedBoards /\ workspaceOf' = workspaceOf
    BY <1>1
  <2> HIDE DEF sub
  <2>2. QED
    BY <1>4, <2>1 DEF Reveals, Scoped
<1>6. QED
  <2> HIDE DEF sub
  <2>1. QED
    BY <1>1, <1>2, <1>3, <1>5, AnsweredKeepsFacts

\* Other users move items and boards at any time, but say so.
LEMMA OthersKeepFacts ==
  ASSUME TypeOK, FamiliesTogether, OnlyOthersMove, OthersMoveItem \/ OthersMoveBoard
  PROVE  Steady /\ FamiliesTogether' /\ OnlyOthersMove'
<1>1. ASSUME OthersMoveItem PROVE Steady /\ FamiliesTogether' /\ OnlyOthersMove'
  <2>1. PICK i \in Item, b \in Board : /\ Visible(i)
                                      /\ boardOf' = [boardOf EXCEPT ![i] = b]
                                      /\ movedItems' = movedItems \cup {i}
    BY <1>1 DEF OthersMoveItem
  <2>2. UNCHANGED <<policy, workspaceOf, movedBoards, shared>>
    BY <1>1 DEF OthersMoveItem
  <2>3. \A j \in Item : boardOf[j] # Unborn =>
          boardOf'[j] # Unborn /\ (boardOf'[j] = boardOf[j] \/ ~Undisturbed(j)')
    BY <2>1, NamesAreDistinct DEF Undisturbed, TypeOK
  <2>4. Steady
    BY <2>1, <2>2, <2>3 DEF Steady, shared
  <2>5. QED
    BY <1>1, <2>2, <2>4 DEF OthersMoveItem, OnlyOthersMove, FamiliesTogether
<1>2. ASSUME OthersMoveBoard PROVE Steady /\ FamiliesTogether' /\ OnlyOthersMove'
  <2>1. PICK b \in Board, w \in Workspace :
          Settle(Family(b), w) /\ movedBoards' = movedBoards \cup Family(b)
    BY <1>2 DEF OthersMoveBoard
  <2>2. UNCHANGED <<policy, boardOf, movedItems, shared>>
    BY <1>2 DEF OthersMoveBoard
  <2>3. Family(b) \in SUBSET Board /\ Family(b) \subseteq movedBoards'
        /\ \A c \in Family(b) : Family(c) \subseteq Family(b)
    BY <2>1, FamilyIsClosed DEF Family
  <2>4. Steady
    BY <2>1, <2>2, <2>3, SettlingIsSteady
  <2>5. FamiliesTogether'
    BY <2>1, <2>2, <2>3, SettlingKeepsFamilies
  <2>6. QED
    BY <2>2, <2>4, <2>5 DEF OnlyOthersMove
<1>3. QED
  BY <1>1, <1>2

-----------------------------------------------------------------------------
\* The calls that do not move.

Undisturbing(q) == Stands(q) /\ answer'[q] = answer[q]

LEMMA OneCallMoves ==
  ASSUME TypeOK, NEW r \in Req, NEW q \in Req, q # r, Start(r) \/ Serve(r)
  PROVE  Undisturbing(q)
<1>1. Advance(r) => layer'[q] = layer[q] /\ pc'[q] = pc[q]
  BY DEF Advance, TypeOK
<1>2. Return(r) => Undisturbing(q)
  BY DEF Return, Enter, Undisturbing, Stands, TypeOK
<1>3. ASSUME NEW ok, Verdict(r, ok) PROVE Undisturbing(q)
  BY <1>1, <1>2, <1>3 DEF Verdict, Undisturbing, Stands, call
<1>4. ASSUME NEW w, ScopeVerdict(r, w) PROVE Undisturbing(q)
  BY <1>1, <1>2, <1>4 DEF ScopeVerdict, Undisturbing, Stands, TypeOK
<1>5. ASSUME NEW result, Answered(r, result) PROVE Undisturbing(q)
  BY <1>2, <1>5 DEF Answered, Enter, Undisturbing, Stands, call, TypeOK
<1>6. CASE Start(r) \/ CallPort(r)
  BY <1>6 DEF Start, CallPort, Enter, Undisturbing, Stands, call, TypeOK
<1>7. CASE Guard(r) \/ GuardWorkspace(r) \/ GuardBoard(r) \/ SkipLookUp(r)
           \/ ReadAndValidate(r) \/ FindUpdate(r)
  BY <1>3, <1>7 DEF Guard, GuardWorkspace, GuardBoard, SkipLookUp,
                    ReadAndValidate, FindUpdate
<1>8. CASE LookUpItem(r)
  BY <1>1, <1>8 DEF LookUpItem, Undisturbing, Stands, TypeOK
<1>9. CASE LookUpFails(r)
  BY <1>2, <1>9 DEF LookUpFails, Undisturbing, Stands, call, TypeOK
<1>10. CASE ScopeCheck(r)
  <2>1. CASE SkipScope(r)
    BY <1>1, <2>1 DEF SkipScope, Undisturbing, Stands, TypeOK
  <2>2. CASE LookUpCache(r)
    BY <1>4, <2>2 DEF LookUpCache, Undisturbing, Stands
  <2>3. CASE AskBoard(r)
    BY <2>3 DEF AskBoard, Undisturbing, Stands, TypeOK
  <2>4. CASE AskBoardFails(r)
    BY <1>1, <1>2, <2>4 DEF AskBoardFails, Undisturbing, Stands
  <2>5. CASE RememberBoard(r)
    BY <1>4, <2>5 DEF RememberBoard
  <2>6. QED
    BY <1>10, <2>1, <2>2, <2>3, <2>4, <2>5 DEF ScopeCheck
<1>11. CASE Send(r)
  <2>1. Return(r) \/ \E result : Answered(r, result)
    BY <1>11 DEF Send, SendInPlace, SendFails, SendList, SendNewBoard,
                 SendDeleteBoard, SendDeleteFolder, SendMoveToBoard,
                 SendDeleteItem, SendNewItem, SendNewSubitem
  <2>2. QED
    BY <1>2, <1>5, <2>1
<1>12. CASE Remember(r) \/ TrustBoard(r)
  BY <1>1, <1>12 DEF Remember, TrustBoard, Undisturbing, Stands, call
<1>13. CASE Respond(r)
  BY <1>2, <1>13 DEF Respond
<1>14. QED
  BY <1>6, <1>7, <1>8, <1>9, <1>10, <1>11, <1>12, <1>13 DEF Serve

-----------------------------------------------------------------------------
\* The invariant.

LEMMA InitEstablishes == Init => IInv
<1> SUFFICES ASSUME Init PROVE IInv
  OBVIOUS
<1>1. TypeOK
  BY InitType
<1>2. CacheTruthful /\ OnlyOthersMove
  BY DEF Init, CacheTruthful, OnlyOthersMove
<1>3. FamiliesTogether
  BY FamilyIsClosed, HomesAreValid DEF Init, FamiliesTogether
<1>4. ASSUME NEW r \in Req PROVE Facts(r)
  BY NamesAreDistinct DEF Init, Facts, AnswerHolds, Nothing, Passed
<1>5. QED
  BY <1>1, <1>2, <1>3, <1>4 DEF IInv

\* What a step of call r does to the facts that are not the other calls'.
LEMMA CallKeepsFacts ==
  ASSUME IInv, SubitemsUndisturbed, NEW r \in Req,
         Start(r) \/ Serve(r)
  PROVE  /\ Steady /\ Facts(r)' /\ CacheTruthful'
         /\ FamiliesTogether' /\ OnlyOthersMove'
<1>1. TypeOK /\ CacheTruthful /\ FamiliesTogether /\ OnlyOthersMove /\ Facts(r)
  BY DEF IInv
<1> DEFINE Local == \/ Start(r) \/ Guard(r) \/ GuardWorkspace(r) \/ GuardBoard(r)
                    \/ SkipLookUp(r) \/ LookUpItem(r) \/ LookUpFails(r)
                    \/ ReadAndValidate(r) \/ FindUpdate(r) \/ CallPort(r)
                    \/ Respond(r)
<1>2. ASSUME Local \/ ScopeCheck(r) \/ Remember(r) \/ TrustBoard(r)
      PROVE  FamiliesTogether'
  <2>1. UNCHANGED world
    <3>1. ASSUME NEW ok, Verdict(r, ok) PROVE UNCHANGED world
      BY <3>1 DEF Verdict
    <3>2. QED
      BY <1>2, <3>1
         DEF Start, Guard, GuardWorkspace, GuardBoard, SkipLookUp, LookUpItem,
             LookUpFails, ReadAndValidate, FindUpdate, CallPort, Respond,
             ScopeCheck, SkipScope, LookUpCache, AskBoard, AskBoardFails,
             RememberBoard, Remember, TrustBoard
  <2>2. QED
    BY <1>1, <2>1 DEF world, FamiliesTogether
<1>3. movedItems' = movedItems
  BY DEF Start, Serve, Guard, GuardWorkspace, GuardBoard, SkipLookUp, LookUpItem,
         LookUpFails, ReadAndValidate, FindUpdate, CallPort, Respond, Verdict,
         ScopeCheck, SkipScope, LookUpCache, AskBoard, AskBoardFails,
         RememberBoard, Remember, TrustBoard, Send, SendInPlace, SendFails,
         SendList, SendNewBoard, SendDeleteBoard, SendDeleteFolder,
         SendMoveToBoard, SendDeleteItem, SendNewItem, SendNewSubitem, world
<1>4. OnlyOthersMove'
  BY <1>1, <1>3 DEF OnlyOthersMove
<1>5. ASSUME Local \/ Send(r) PROVE cache' = cache
  <2>1. ASSUME NEW ok, Verdict(r, ok) PROVE UNCHANGED shared
    BY <2>1 DEF Verdict
  <2>2. UNCHANGED shared
    BY <1>5, <2>1
       DEF Start, Guard, GuardWorkspace, GuardBoard, SkipLookUp, LookUpItem,
           LookUpFails, ReadAndValidate, FindUpdate, CallPort, Respond,
           Send, SendInPlace, SendFails, SendList, SendNewBoard,
           SendDeleteBoard, SendDeleteFolder, SendMoveToBoard,
           SendDeleteItem, SendNewItem, SendNewSubitem
  <2>3. QED
    BY <2>2 DEF shared
<1>6. ASSUME Local PROVE Steady /\ Facts(r)'
  <2>1. CASE Respond(r)
    BY <1>1, <2>1, ReturningKeepsFacts, QuietStepsAreSteady DEF Respond, shared
  <2>2. QED
    BY <1>1, <1>6, <2>1, StartKeepsFacts, LocalChecksKeepFacts, LookUpsKeepFacts,
       CallPortKeepsFacts
<1>7. ASSUME Send(r) PROVE Steady /\ FamiliesTogether' /\ Facts(r)'
  BY <1>1, <1>7, QuietSendsKeepFacts, BoardSendsKeepFacts, ItemSendsKeepFacts,
     SubitemSendKeepsFacts DEF Send
<1>8. CASE Local
  BY <1>1, <1>2, <1>4, <1>5, <1>6, <1>8, CacheStaysTruthful
<1>9. CASE Send(r)
  BY <1>1, <1>4, <1>5, <1>7, <1>9, CacheStaysTruthful
<1>10. CASE ScopeCheck(r)
  BY <1>1, <1>2, <1>4, <1>10, ScopeChecksKeepFacts
<1>11. CASE Remember(r) \/ TrustBoard(r)
  BY <1>1, <1>2, <1>4, <1>11, KeepingKeepsFacts
<1>12. QED
  BY <1>8, <1>9, <1>10, <1>11 DEF Serve

LEMMA StepKeepsIInv ==
  ASSUME SubitemsUndisturbed, IInv, [Next]_vars
  PROVE  IInv'
<1>1. TypeOK /\ TypeOK'
  BY StepTypes DEF IInv
<1>2. ASSUME NEW r \in Req, Start(r) \/ Serve(r) PROVE IInv'
  <2>1. /\ Steady /\ Facts(r)' /\ CacheTruthful'
        /\ FamiliesTogether' /\ OnlyOthersMove'
    BY <1>2, CallKeepsFacts
  <2>2. ASSUME NEW q \in Req, q # r PROVE Facts(q)'
    <3>1. Undisturbing(q) /\ Facts(q)
      BY <1>1, <1>2, <2>2, OneCallMoves DEF IInv
    <3>2. QED
      BY <1>1, <2>1, <3>1, WaitingKeepsFacts DEF Undisturbing
  <2>3. QED
    BY <1>1, <2>1, <2>2 DEF IInv
<1>3. CASE OthersMoveItem \/ OthersMoveBoard
  <2>1. Steady /\ FamiliesTogether' /\ OnlyOthersMove'
    BY <1>1, <1>3, OthersKeepFacts DEF IInv
  <2>2. cache' = cache /\ layer' = layer /\ pc' = pc /\ UNCHANGED call
    BY <1>3 DEF OthersMoveItem, OthersMoveBoard, shared
  <2>3. CacheTruthful'
    BY <1>1, <2>1, <2>2, CacheStaysTruthful DEF IInv
  <2>4. ASSUME NEW q \in Req PROVE Facts(q)'
    BY <1>1, <2>1, <2>2, WaitingKeepsFacts DEF IInv, Stands, call
  <2>5. QED
    BY <1>1, <2>1, <2>3, <2>4 DEF IInv
<1>4. CASE UNCHANGED vars
  <2>1. Steady
    BY <1>4, QuietStepsAreSteady DEF vars, world
  <2>2. cache' = cache /\ layer' = layer /\ pc' = pc /\ UNCHANGED call
    BY <1>4 DEF vars, call
  <2>3. CacheTruthful' /\ FamiliesTogether' /\ OnlyOthersMove'
    BY <1>1, <1>4, <2>1, <2>2, CacheStaysTruthful
       DEF IInv, vars, FamiliesTogether, OnlyOthersMove
  <2>4. ASSUME NEW q \in Req PROVE Facts(q)'
    BY <1>1, <2>1, <2>2, WaitingKeepsFacts DEF IInv, Stands, call
  <2>5. QED
    BY <1>1, <2>3, <2>4 DEF IInv
<1>5. QED
  BY <1>2, <1>3, <1>4 DEF Next

LEMMA CallsAreSafe ==
  ASSUME ServesResolved, IInv
  PROVE  WritesStayOnAllowedBoards /\ WritesStayInScope
<1> SUFFICES ASSUME NEW r \in Req, ReadyToSend(r)
             PROVE  /\ \A b \in WrittenBoards(r) : CheckBoard(policy, created, b) /\ InScope(b)
                    /\ \A i \in WrittenItems(r) : Undisturbed(i) =>
                         CheckBoard(policy, created, boardOf[i]) /\ InScope(boardOf[i])
  BY DEF WritesStayOnAllowedBoards, WritesStayInScope
<1>1. TypeOK /\ Facts(r) /\ request[r].op \notin Unresolved
  BY DEF IInv, Facts, ServesResolved, ReadyToSend, Finished
<1>2. ASSUME NEW b \in WrittenBoards(r)
      PROVE  CheckBoard(policy, created, b) /\ InScope(b)
  <2>1. b = request[r].board /\ ChangesBoard(request[r].op)
    BY <1>2 DEF WrittenBoards, ChangesBoard, Effect
  <2>2. b \in Board /\ BoardAllowed(b) /\ BoardInScope(b)
    BY <1>1, <2>1, ReadyCallsAreJudged
  <2>3. QED
    BY <2>2, NamesAreDistinct DEF BoardAllowed, BoardInScope, InScope
<1>3. ASSUME NEW i \in WrittenItems(r), Undisturbed(i)
      PROVE  CheckBoard(policy, created, boardOf[i]) /\ InScope(boardOf[i])
  <2>1. CASE Effect(r) = "values"
    <3>1. boardOf[i] = target[r] /\ boardOf[i] \in Board
      BY <1>3, <2>1 DEF WrittenItems, Undisturbed
    <3>2. BoardAllowed(target[r]) /\ BoardInScope(target[r])
      BY <1>1, <2>1, ReadyCallsAreJudged DEF Effect
    <3>3. QED
      BY <3>1, <3>2, NamesAreDistinct DEF BoardAllowed, BoardInScope, InScope
  <2>2. CASE Effect(r) # "values"
    <3>1. ChangesItem(request[r].op)
      BY <1>3, <2>2 DEF WrittenItems, ChangesItem, Effect
    <3>2. i = request[r].item
      BY <1>1, <1>3, <2>2, ReadyCallsAreJudged DEF WrittenItems, Effect
    <3>3. ItemAllowed(i) /\ ItemInScope(i)
      BY <1>1, <3>1, <3>2, ReadyCallsAreJudged
    <3>4. QED
      BY <1>3, <3>3 DEF ItemAllowed, ItemInScope, CheckBoard, InScope
  <2>3. QED
    BY <2>1, <2>2
<1>4. QED
  BY <1>2, <1>3

\* What ScopedPort remembers of the workspaces of boards stays true, whichever
\* tools are served and however calls and other users interleave: only the
\* move of a subitem's parent by another user could make it store an error.
THEOREM TheCacheIsTruthful ==
  ASSUME SubitemsUndisturbed
  PROVE  Spec => []CacheTruthful
<1>1. Init => IInv
  BY InitEstablishes
<1>2. IInv /\ [Next]_vars => IInv'
  BY StepKeepsIInv
<1>3. IInv => CacheTruthful
  BY DEF IInv
<1>4. QED
  BY <1>1, <1>2, <1>3, PTL DEF Spec

\* However calls and other users interleave, a call that reaches monday
\* changes only boards and items the allowlists admit, and only inside the
\* scope, as long as the tools served resolve what they change and nobody
\* moves the parent of a subitem; and the scope's cache stays truthful.
THEOREM WritesAreConfined ==
  ASSUME ServesResolved, SubitemsUndisturbed
  PROVE  Spec => [](WritesStayOnAllowedBoards /\ WritesStayInScope /\ CacheTruthful)
<1>1. Init => IInv
  BY InitEstablishes
<1>2. IInv /\ [Next]_vars => IInv'
  BY StepKeepsIInv
<1>3. IInv => WritesStayOnAllowedBoards /\ WritesStayInScope /\ CacheTruthful
  BY CallsAreSafe DEF IInv
<1>4. QED
  BY <1>1, <1>2, <1>3, PTL DEF Spec

=============================================================================
