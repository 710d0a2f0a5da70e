------------------------ MODULE ScopedServiceProofs ------------------------
(***************************************************************************)
(* What ScopedService guarantees for every account, policy and set of       *)
(* concurrent calls, checked by TLAPS.                                      *)
(***************************************************************************)
EXTENDS ScopedService, TLAPS

-----------------------------------------------------------------------------
\* Operations: the order the checks of each come in, and the checks that an
\* operation with a given effect has made by the time it calls monday.

Has(checks, c) == \E k \in 1..Len(checks) : checks[k] = c

\* A board is judged only after it was looked up; the look-up whose failure
\* is ignored is followed by its own scope check, before any verdict on the
\* board UpdateItemValues settles on.
LooksUpFirst(checks, first) ==
  \A k \in 1..Len(checks) : checks[k] \in {"guardFound", "scopeFound"} =>
    \E j \in 1..(k - 1) : checks[j] \in first

TriesFirst(checks) ==
  \A k \in 1..Len(checks) :
    /\ checks[k] = "tryLookUp" =>
         k + 1 \in 1..Len(checks) /\ checks[k + 1] = "tryScope"
    /\ checks[k] = "tryScope" =>
         \A j \in 1..(k - 1) : checks[j] \notin {"guardTarget", "scopeTarget"}

WellOrdered(op) ==
  /\ Len(op.service) \in Nat /\ Len(op.port) \in Nat /\ Len(op.reply) \in Nat
  /\ LooksUpFirst(op.service, {"lookUp", "resolve"})
  /\ LooksUpFirst(op.port, {"lookUp"})
  /\ TriesFirst(op.service)
  /\ \A k \in 1..Len(op.port) : op.port[k] \notin {"tryLookUp", "tryScope"}
  /\ \A k \in 1..Len(op.reply) : op.reply[k] \in {"remember", "trust", "scopeArg"}

\* The checks made before a change, by the effect of the operation.
ChangesBoard(op) == op.effect \in {"board", "deleteBoard", "newItem", "moveToBoard"}
ChangesItem(op) ==
  op.effect \in {"item", "deleteItem", "newSubitem", "moveToBoard", "update"}

Judged(op) ==
  /\ ChangesBoard(op) => "board" \in op.uses /\ Has(op.service, "guardArg")
                         /\ Has(op.port, "scopeArg")
  /\ ChangesItem(op) => "item" \in op.uses /\ Has(op.service, "guardFound")
                        /\ Has(op.service, "scopeFound")
  /\ op.effect = "values" => Has(op.service, "guardTarget") /\ Has(op.port, "scopeTarget")
  /\ op.effect = "update" => Has(op.service, "owned")

LEMMA OperationsWellOrdered ==
  ASSUME NEW op \in Operations
  PROVE  WellOrdered(op)
<1> USE DEF Operation, WellOrdered, LooksUpFirst, TriesFirst, CheckItem,
           DeletableItem, ScopedBoardCall, ScopedItemCall,
           ScopedPlacedItemCall, PassThrough, KeepNewBoard
<1>1. CASE op = CreateWorkspace BY <1>1 DEF CreateWorkspace
<1>2. CASE op = CreateFolder BY <1>2 DEF CreateFolder
<1>3. CASE op = DeleteFolder BY <1>3 DEF DeleteFolder
<1>4. CASE op = DeleteWorkspace BY <1>4 DEF DeleteWorkspace
<1>5. CASE op = ListBoards BY <1>5 DEF ListBoards
<1>6. CASE op = GetBoard BY <1>6 DEF GetBoard
<1>7. CASE op = CreateBoard BY <1>7 DEF CreateBoard
<1>8. CASE op = DuplicateBoard BY <1>8 DEF DuplicateBoard
<1>9. CASE op = UpdateBoard BY <1>9 DEF UpdateBoard
<1>10. CASE op = ArchiveBoard BY <1>10 DEF ArchiveBoard
<1>11. CASE op = AddBoardSubscribers BY <1>11 DEF AddBoardSubscribers
<1>12. CASE op = DeleteBoard BY <1>12 DEF DeleteBoard
<1>13. CASE op = CreateGroup BY <1>13 DEF CreateGroup
<1>14. CASE op = UpdateGroup BY <1>14 DEF UpdateGroup
<1>15. CASE op = DuplicateGroup BY <1>15 DEF DuplicateGroup
<1>16. CASE op = ArchiveGroup BY <1>16 DEF ArchiveGroup
<1>17. CASE op = DeleteGroup BY <1>17 DEF DeleteGroup
<1>18. CASE op = CreateColumn BY <1>18 DEF CreateColumn
<1>19. CASE op = ChangeColumn BY <1>19 DEF ChangeColumn
<1>20. CASE op = DeleteColumn BY <1>20 DEF DeleteColumn
<1>21. CASE op = CreatePublicTag BY <1>21 DEF CreatePublicTag
<1>22. CASE op = CreateOrGetTag BY <1>22 DEF CreateOrGetTag
<1>23. CASE op = CreateItem BY <1>23 DEF CreateItem
<1>24. CASE op = CreateValidatedItem BY <1>24 DEF CreateValidatedItem
<1>25. CASE op = CreateSubitem BY <1>25 DEF CreateSubitem
<1>26. CASE op = CreateValidatedSubitem BY <1>26 DEF CreateValidatedSubitem
<1>27. CASE op = UpdateItemValues BY <1>27 DEF UpdateItemValues
<1>28. CASE op = MoveItem BY <1>28 DEF MoveItem
<1>29. CASE op = MoveItemToBoard BY <1>29 DEF MoveItemToBoard
<1>30. CASE op = DuplicateItem BY <1>30 DEF DuplicateItem
<1>31. CASE op = ArchiveItem BY <1>31 DEF ArchiveItem
<1>32. CASE op = DeleteItem BY <1>32 DEF DeleteItem
<1>33. CASE op = CreateUpdate BY <1>33 DEF CreateUpdate
<1>34. CASE op = AddFileToColumn BY <1>34 DEF AddFileToColumn
<1>35. CASE op = Notify BY <1>35 DEF Notify
<1>36. CASE op = NotifyPost BY <1>36 DEF NotifyPost
<1>37. CASE op = AddFileToUpdate BY <1>37 DEF AddFileToUpdate
<1>38. CASE op = ReplyToUpdate BY <1>38 DEF ReplyToUpdate
<1>39. CASE op = LikeUpdate BY <1>39 DEF LikeUpdate
<1>40. CASE op = EditUpdate BY <1>40 DEF EditUpdate
<1>41. CASE op = DeleteUpdate BY <1>41 DEF DeleteUpdate
<1>42. CASE op = SetDetectedColumn BY <1>42 DEF SetDetectedColumn
<1>43. QED
  BY <1>1, <1>2, <1>3, <1>4, <1>5, <1>6, <1>7, <1>8, <1>9, <1>10, <1>11,
     <1>12, <1>13, <1>14, <1>15, <1>16, <1>17, <1>18, <1>19, <1>20, <1>21,
     <1>22, <1>23, <1>24, <1>25, <1>26, <1>27, <1>28, <1>29, <1>30, <1>31,
     <1>32, <1>33, <1>34, <1>35, <1>36, <1>37, <1>38, <1>39, <1>40, <1>41,
     <1>42
     DEF Operations

LEMMA OperationsJudged ==
  ASSUME NEW op \in Operations,
         op \notin {DuplicateItem, AddFileToUpdate, ReplyToUpdate, LikeUpdate}
  PROVE  Judged(op)
<1> USE DEF Operation, Judged, ChangesBoard, ChangesItem, Has, CheckItem,
           DeletableItem, ScopedBoardCall, ScopedItemCall,
           ScopedPlacedItemCall, PassThrough, KeepNewBoard
<1>1. CASE op = CreateWorkspace BY <1>1 DEF CreateWorkspace
<1>2. CASE op = CreateFolder BY <1>2 DEF CreateFolder
<1>3. CASE op = DeleteFolder BY <1>3 DEF DeleteFolder
<1>4. CASE op = DeleteWorkspace BY <1>4 DEF DeleteWorkspace
<1>5. CASE op = ListBoards BY <1>5 DEF ListBoards
<1>6. CASE op = GetBoard BY <1>6 DEF GetBoard
<1>7. CASE op = CreateBoard BY <1>7 DEF CreateBoard
<1>8. CASE op = DuplicateBoard BY <1>8 DEF DuplicateBoard
<1>9. CASE op = UpdateBoard BY <1>9 DEF UpdateBoard
<1>10. CASE op = ArchiveBoard BY <1>10 DEF ArchiveBoard
<1>11. CASE op = AddBoardSubscribers BY <1>11 DEF AddBoardSubscribers
<1>12. CASE op = DeleteBoard BY <1>12 DEF DeleteBoard
<1>13. CASE op = CreateGroup BY <1>13 DEF CreateGroup
<1>14. CASE op = UpdateGroup BY <1>14 DEF UpdateGroup
<1>15. CASE op = DuplicateGroup BY <1>15 DEF DuplicateGroup
<1>16. CASE op = ArchiveGroup BY <1>16 DEF ArchiveGroup
<1>17. CASE op = DeleteGroup BY <1>17 DEF DeleteGroup
<1>18. CASE op = CreateColumn BY <1>18 DEF CreateColumn
<1>19. CASE op = ChangeColumn BY <1>19 DEF ChangeColumn
<1>20. CASE op = DeleteColumn BY <1>20 DEF DeleteColumn
<1>21. CASE op = CreatePublicTag BY <1>21 DEF CreatePublicTag
<1>22. CASE op = CreateOrGetTag BY <1>22 DEF CreateOrGetTag
<1>23. CASE op = CreateItem BY <1>23 DEF CreateItem
<1>24. CASE op = CreateValidatedItem BY <1>24 DEF CreateValidatedItem
<1>25. CASE op = CreateSubitem BY <1>25 DEF CreateSubitem
<1>26. CASE op = CreateValidatedSubitem BY <1>26 DEF CreateValidatedSubitem
<1>27. CASE op = UpdateItemValues BY <1>27 DEF UpdateItemValues
<1>28. CASE op = MoveItem BY <1>28 DEF MoveItem
<1>29. CASE op = MoveItemToBoard BY <1>29 DEF MoveItemToBoard
<1>30. CASE op = ArchiveItem BY <1>30 DEF ArchiveItem
<1>31. CASE op = DeleteItem BY <1>31 DEF DeleteItem
<1>32. CASE op = CreateUpdate BY <1>32 DEF CreateUpdate
<1>33. CASE op = AddFileToColumn BY <1>33 DEF AddFileToColumn
<1>34. CASE op = Notify BY <1>34 DEF Notify
<1>35. CASE op = NotifyPost BY <1>35 DEF NotifyPost
<1>36. CASE op = EditUpdate BY <1>36 DEF EditUpdate
<1>37. CASE op = DeleteUpdate BY <1>37 DEF DeleteUpdate
<1>38. CASE op = SetDetectedColumn BY <1>38 DEF SetDetectedColumn
<1>39. QED
  BY <1>1, <1>2, <1>3, <1>4, <1>5, <1>6, <1>7, <1>8, <1>9, <1>10, <1>11,
     <1>12, <1>13, <1>14, <1>15, <1>16, <1>17, <1>18, <1>19, <1>20, <1>21,
     <1>22, <1>23, <1>24, <1>25, <1>26, <1>27, <1>28, <1>29, <1>30, <1>31,
     <1>32, <1>33, <1>34, <1>35, <1>36, <1>37, <1>38
     DEF Operations

\* The operations that resolve no board change an item or an update where it is.
LEMMA UnresolvedStaysInPlace ==
  ASSUME NEW op \in {DuplicateItem, AddFileToUpdate, ReplyToUpdate, LikeUpdate}
  PROVE  op.effect \in {"item", "update"}
BY DEF DuplicateItem, AddFileToUpdate, ReplyToUpdate, LikeUpdate, Operation

\* The checks that ask for a level above read.
WriteChecks == {"write", "delete", "workspace", "guardArg", "guardFound", "guardTarget"}

\* What the level and the workspace policy have to say before boards come and
\* go, and that a created board is trusted by the call that created it only.
Licensed(op) ==
  /\ op.effect = "newBoard" =>
       /\ Has(op.service, "workspace") /\ Has(op.port, "scopeWorkspace")
       /\ op.reply = KeepNewBoard
  /\ Has(op.reply, "trust") => op.effect = "newBoard"
  /\ ~Has(op.service, "trust") /\ ~Has(op.port, "trust")
  /\ op.effect \in {"deleteBoard", "deleteItem", "deleteFolder", "deleteWorkspace"} =>
       Has(op.service, "delete")
  /\ op.effect \notin {"read", "list"} => \E c \in WriteChecks : Has(op.service, c)
  /\ op.effect = "deleteFolder" =>
       Has(op.service, "workspace") /\ Has(op.service, "scopeWorkspace")
  /\ op.effect = "deleteWorkspace" => Has(op.service, "unfenced")

\* UpdateItemValues reads the item's board once, and settles on a board in
\* the next check; ScopedPort judges the item itself again.
TriesAt(op) == Len(op.service) - 4

Resolves(op) ==
  op.effect = "values" =>
    /\ TriesAt(op) \in 1..Len(op.service)
    /\ \A k \in 1..Len(op.service) :
         /\ op.service[k] = "tryLookUp" <=> k = TriesAt(op)
         /\ op.service[k] = "tryScope" <=> k = TriesAt(op) + 1
         /\ op.service[k] \notin {"lookUp", "resolve", "scopedLookUp"}
    /\ Has(op.port, "scopeFound")

LEMMA OperationsLicensed ==
  ASSUME NEW op \in Operations
  PROVE  Licensed(op) /\ Resolves(op)
<1> USE DEF Operation, Licensed, WriteChecks, Resolves, TriesAt, Has, CheckItem, DeletableItem,
           ScopedBoardCall, ScopedItemCall, ScopedPlacedItemCall, PassThrough,
           KeepNewBoard
<1>1. CASE op = CreateWorkspace BY <1>1 DEF CreateWorkspace
<1>2. CASE op = CreateFolder BY <1>2 DEF CreateFolder
<1>3. CASE op = DeleteFolder BY <1>3 DEF DeleteFolder
<1>4. CASE op = DeleteWorkspace BY <1>4 DEF DeleteWorkspace
<1>5. CASE op = ListBoards BY <1>5 DEF ListBoards
<1>6. CASE op = GetBoard BY <1>6 DEF GetBoard
<1>7. CASE op = CreateBoard BY <1>7 DEF CreateBoard
<1>8. CASE op = DuplicateBoard BY <1>8 DEF DuplicateBoard
<1>9. CASE op = UpdateBoard BY <1>9 DEF UpdateBoard
<1>10. CASE op = ArchiveBoard BY <1>10 DEF ArchiveBoard
<1>11. CASE op = AddBoardSubscribers BY <1>11 DEF AddBoardSubscribers
<1>12. CASE op = DeleteBoard BY <1>12 DEF DeleteBoard
<1>13. CASE op = CreateGroup BY <1>13 DEF CreateGroup
<1>14. CASE op = UpdateGroup BY <1>14 DEF UpdateGroup
<1>15. CASE op = DuplicateGroup BY <1>15 DEF DuplicateGroup
<1>16. CASE op = ArchiveGroup BY <1>16 DEF ArchiveGroup
<1>17. CASE op = DeleteGroup BY <1>17 DEF DeleteGroup
<1>18. CASE op = CreateColumn BY <1>18 DEF CreateColumn
<1>19. CASE op = ChangeColumn BY <1>19 DEF ChangeColumn
<1>20. CASE op = DeleteColumn BY <1>20 DEF DeleteColumn
<1>21. CASE op = CreatePublicTag BY <1>21 DEF CreatePublicTag
<1>22. CASE op = CreateOrGetTag BY <1>22 DEF CreateOrGetTag
<1>23. CASE op = CreateItem BY <1>23 DEF CreateItem
<1>24. CASE op = CreateValidatedItem BY <1>24 DEF CreateValidatedItem
<1>25. CASE op = CreateSubitem BY <1>25 DEF CreateSubitem
<1>26. CASE op = CreateValidatedSubitem BY <1>26 DEF CreateValidatedSubitem
<1>27. CASE op = UpdateItemValues BY <1>27 DEF UpdateItemValues
<1>28. CASE op = MoveItem BY <1>28 DEF MoveItem
<1>29. CASE op = MoveItemToBoard BY <1>29 DEF MoveItemToBoard
<1>30. CASE op = DuplicateItem BY <1>30 DEF DuplicateItem
<1>31. CASE op = ArchiveItem BY <1>31 DEF ArchiveItem
<1>32. CASE op = DeleteItem BY <1>32 DEF DeleteItem
<1>33. CASE op = CreateUpdate BY <1>33 DEF CreateUpdate
<1>34. CASE op = AddFileToColumn BY <1>34 DEF AddFileToColumn
<1>35. CASE op = Notify BY <1>35 DEF Notify
<1>36. CASE op = NotifyPost BY <1>36 DEF NotifyPost
<1>37. CASE op = AddFileToUpdate BY <1>37 DEF AddFileToUpdate
<1>38. CASE op = ReplyToUpdate BY <1>38 DEF ReplyToUpdate
<1>39. CASE op = LikeUpdate BY <1>39 DEF LikeUpdate
<1>40. CASE op = EditUpdate BY <1>40 DEF EditUpdate
<1>41. CASE op = DeleteUpdate BY <1>41 DEF DeleteUpdate
<1>42. CASE op = SetDetectedColumn BY <1>42 DEF SetDetectedColumn
<1>43. QED
  BY <1>1, <1>2, <1>3, <1>4, <1>5, <1>6, <1>7, <1>8, <1>9, <1>10, <1>11,
     <1>12, <1>13, <1>14, <1>15, <1>16, <1>17, <1>18, <1>19, <1>20, <1>21,
     <1>22, <1>23, <1>24, <1>25, <1>26, <1>27, <1>28, <1>29, <1>30, <1>31,
     <1>32, <1>33, <1>34, <1>35, <1>36, <1>37, <1>38, <1>39, <1>40, <1>41,
     <1>42
     DEF Operations

LEMMA DeletionsAskForLevel ==
  ASSUME NEW op \in Deletions
  PROVE  Has(op.service, "delete")
BY DEF Deletions, Has, Operation, DeletableItem, DeleteFolder, DeleteWorkspace,
       DeleteBoard, DeleteGroup, DeleteColumn, DeleteItem, DeleteUpdate

-----------------------------------------------------------------------------
\* Types.

\* The part of TypeOK about the calls in progress.
CallsOK ==
  /\ request \in [Req -> Request]
  /\ layer \in [Req -> Call]
  /\ pc \in [Req -> Nat]
  /\ found \in [Req -> Board \cup {NoBoard}]
  /\ target \in [Req -> Board \cup {NoBoard}]
  /\ resolved \in [Req -> Board \cup {NoBoard, Unanswered}]
  /\ asking \in [Req -> BOOLEAN]
  /\ answer \in [Req -> [Board -> Workspace \cup {NoWorkspace}]]

\* The part about monday and what all calls share.
SharedOK ==
  /\ policy \in Policies
  /\ workspaceOf \in [Board -> Workspace \cup {Unborn, Gone}]
  /\ boardOf \in [Item -> Board \cup {Unborn, Gone}]
  /\ movedItems \subseteq Item /\ movedBoards \subseteq Board
  /\ cache \in [Board -> Workspace \cup {NoWorkspace}]
  /\ created \subseteq Board

LEMMA TypeOKParts == TypeOK <=> SharedOK /\ CallsOK
BY DEF TypeOK, SharedOK, CallsOK

LEMMA NoRequestType == NoRequest \in Request
BY DEF NoRequest, Request, Operations

LEMMA NothingType == Nothing \in [Board -> Workspace \cup {NoWorkspace}]
BY DEF Nothing

LEMMA ScopeType ==
  ASSUME SharedOK
  PROVE  policy \in Policy /\ policy.scope \in Workspace \cup {NoWorkspace}
BY PoliciesAreValid DEF SharedOK, Policy

\* A call that returns leaves its slot empty.
LEMMA ReturnType ==
  ASSUME CallsOK, NEW r \in Req, Return(r)
  PROVE  CallsOK'
<1>1. NoRequest \in Request /\ Nothing \in [Board -> Workspace \cup {NoWorkspace}]
  BY NoRequestType, NothingType
<1>2. QED
  BY <1>1 DEF CallsOK, Return, Enter, Call

LEMMA AdvanceType ==
  ASSUME CallsOK, NEW r \in Req, Advance(r)
  PROVE  pc' \in [Req -> Nat] /\ layer' \in [Req -> Call]
BY DEF CallsOK, Advance

LEMMA VerdictType ==
  ASSUME CallsOK, NEW r \in Req, NEW ok, Verdict(r, ok)
  PROVE  CallsOK'
<1>1. CASE Advance(r) /\ UNCHANGED call
  BY <1>1, AdvanceType DEF CallsOK, call
<1>2. CASE Return(r)
  BY <1>2, ReturnType
<1>3. QED
  BY <1>1, <1>2 DEF Verdict

\* The board a scope check looks at.
LEMMA CheckedType ==
  ASSUME CallsOK, NEW r \in Req
  PROVE  Checked(r) \in Board \cup {NoBoard}
<1>1. request[r].board \in Board \cup {NoBoard}
  BY DEF CallsOK, Request
<1>2. found[r] \in Board \cup {NoBoard} /\ target[r] \in Board \cup {NoBoard}
  BY DEF CallsOK
<1>3. \A b \in Board : SubBoard[b] \in Board \cup {NoBoard}
  BY SubBoardIsPartial
<1>4. QED
  BY <1>1, <1>2, <1>3 DEF Checked

LEMMA ScopeVerdictType ==
  ASSUME CallsOK, NEW r \in Req, NEW w, ScopeVerdict(r, w)
  PROVE  CallsOK'
<1>1. Nothing \in [Board -> Workspace \cup {NoWorkspace}]
  BY NothingType
<1>2. CASE Advance(r) /\ UNCHANGED <<request, found, resolved, asking>>
           /\ target' = [target EXCEPT ![r] = IF At(r, {"tryScope"}) THEN found[r] ELSE @]
           /\ answer' = [answer EXCEPT ![r] = Nothing]
  BY <1>1, <1>2, AdvanceType DEF CallsOK
<1>3. CASE Advance(r) /\ UNCHANGED <<request, found, target, resolved, asking>>
           /\ answer' = [answer EXCEPT ![r] = Nothing]
  BY <1>1, <1>3, AdvanceType DEF CallsOK
<1>4. CASE Return(r)
  BY <1>4, ReturnType
<1>5. QED
  BY <1>2, <1>3, <1>4 DEF ScopeVerdict

LEMMA AnsweredType ==
  ASSUME CallsOK, NEW r \in Req,
         NEW result \in [Board -> Workspace \cup {NoWorkspace}],
         Answered(r, result)
  PROVE  CallsOK'
<1>1. CASE Return(r)
  BY <1>1, ReturnType
<1>2. CASE /\ Enter(r, "reply")
           /\ answer' = [answer EXCEPT ![r] = result]
           /\ UNCHANGED <<request, found, target, resolved, asking>>
  <2>1. layer' \in [Req -> Call] /\ pc' \in [Req -> Nat]
    BY <1>2 DEF CallsOK, Enter, Call
  <2>2. answer' \in [Req -> [Board -> Workspace \cup {NoWorkspace}]]
    BY <1>2 DEF CallsOK
  <2>3. QED
    BY <1>2, <2>1, <2>2 DEF CallsOK
<1>3. CASE UNCHANGED <<layer, pc, call>>
  BY <1>3 DEF CallsOK, call
<1>4. QED
  BY <1>1, <1>2, <1>3 DEF Answered

LEMMA RevealsType ==
  ASSUME NEW b, NEW w \in Workspace \cup {NoWorkspace}
  PROVE  Reveals(b, w) \in [Board -> Workspace \cup {NoWorkspace}]
BY DEF Reveals

LEMMA RememberingType ==
  ASSUME SharedOK, CallsOK, NEW r \in Req
  PROVE  Remembering(r) \in [Board -> Workspace \cup {NoWorkspace}]
BY DEF SharedOK, CallsOK, Remembering

LEMMA SettleType ==
  ASSUME SharedOK, NEW boards, NEW w \in Workspace \cup {Gone}, Settle(boards, w)
  PROVE  workspaceOf' \in [Board -> Workspace \cup {Unborn, Gone}]
BY DEF SharedOK, Settle

LEMMA InitType == Init => TypeOK
<1>1. NoRequest \in Request /\ Nothing \in [Board -> Workspace \cup {NoWorkspace}]
  BY NoRequestType, NothingType
<1>2. ASSUME Init PROVE SharedOK
  BY <1>2, HomesAreValid, PlacesAreValid DEF Init, SharedOK
<1>3. ASSUME Init PROVE CallsOK
  BY <1>1, <1>3 DEF Init, CallsOK, Call
<1>4. QED
  BY <1>2, <1>3, TypeOKParts

LEMMA StartType ==
  ASSUME SharedOK, CallsOK, NEW r \in Req, Start(r)
  PROVE  SharedOK' /\ CallsOK'
<1>1. SharedOK'
  BY DEF Start, SharedOK, world, shared
<1> DEFINE Called(op, b, i, u, w) ==
      /\ request' = [request EXCEPT ![r] =
                       [op |-> op, board |-> b, item |-> i, update |-> u,
                        workspace |-> ScopedWorkspace(policy, w)]]
      /\ target' = [target EXCEPT ![r] = b]
<1>2. PICK op \in Served, b \in Board \cup {NoBoard}, i \in Item \cup {NoItem},
           u \in Update \cup {NoUpdate}, w \in Workspace \cup {NoWorkspace} :
        Called(op, b, i, u, w)
  <2>1. PICK op \in Served :
          \E b \in (IF "board" \in op.uses THEN Board ELSE {NoBoard}) :
          \E i \in (IF "item" \in op.uses THEN Item ELSE {NoItem}) :
          \E u \in (IF "update" \in op.uses THEN Update ELSE {NoUpdate}) :
          \E w \in (IF "workspace" \in op.uses
                      THEN Workspace \cup {NoWorkspace} ELSE {NoWorkspace}) :
            Called(op, b, i, u, w)
    BY DEF Start
  <2> HIDE DEF Called
  <2>2. QED
    BY <2>1
<1>3. ScopedWorkspace(policy, w) \in Workspace \cup {NoWorkspace}
  BY ScopeType DEF ScopedWorkspace
<1>4. [op |-> op, board |-> b, item |-> i, update |-> u,
       workspace |-> ScopedWorkspace(policy, w)] \in Request
  BY <1>3, ServedAreOperations DEF Request
<1>5. request' \in [Req -> Request] /\ target' \in [Req -> Board \cup {NoBoard}]
  BY <1>2, <1>4 DEF CallsOK
<1>6. layer' \in [Req -> Call] /\ pc' \in [Req -> Nat]
  BY DEF Start, Enter, CallsOK, Call
<1>7. QED
  BY <1>1, <1>5, <1>6 DEF CallsOK, Start

LEMMA CheckTypes ==
  ASSUME SharedOK, CallsOK, NEW r \in Req,
         \/ Guard(r) \/ GuardWorkspace(r) \/ GuardBoard(r) \/ SkipLookUp(r)
         \/ ReadAndValidate(r) \/ FindUpdate(r)
  PROVE  SharedOK' /\ CallsOK'
<1>1. PICK ok : Verdict(r, ok)
  BY DEF Guard, GuardWorkspace, GuardBoard, SkipLookUp, ReadAndValidate, FindUpdate
<1>2. SharedOK'
  BY <1>1 DEF Verdict, SharedOK, world, shared
<1>3. QED
  BY <1>1, <1>2, VerdictType

LEMMA LookUpTypes ==
  ASSUME SharedOK, CallsOK, NEW r \in Req, LookUpItem(r) \/ LookUpFails(r)
  PROVE  SharedOK' /\ CallsOK'
<1>1. SharedOK'
  BY DEF LookUpItem, LookUpFails, SharedOK, world, shared
<1>2. CASE LookUpItem(r)
  <2>1. boardOf[request[r].item] \in Board
    BY <1>2 DEF LookUpItem, Visible
  <2>2. found' \in [Req -> Board \cup {NoBoard}]
    BY <1>2, <2>1 DEF LookUpItem, CallsOK
  <2>3. QED
    BY <1>1, <1>2, <2>2, AdvanceType DEF LookUpItem, CallsOK
<1>3. CASE LookUpFails(r)
  <2>1. CASE Return(r)
    BY <1>1, <2>1, ReturnType
  <2>2. CASE /\ pc' = [pc EXCEPT ![r] = pc[r] + 2]
             /\ resolved' = [resolved EXCEPT ![r] = Unanswered]
             /\ UNCHANGED <<layer, request, found, target, asking, answer>>
    BY <1>1, <2>2 DEF CallsOK
  <2>3. QED
    BY <1>3, <2>1, <2>2 DEF LookUpFails
<1>4. QED
  BY <1>2, <1>3

LEMMA ScopeCheckTypes ==
  ASSUME SharedOK, CallsOK, NEW r \in Req, ScopeCheck(r)
  PROVE  SharedOK' /\ CallsOK'
<1>1. SharedOK'
  <2>1. CASE RememberBoard(r)
    BY <2>1, RememberingType DEF RememberBoard, SharedOK, world
  <2>2. CASE ~RememberBoard(r)
    BY <2>2 DEF ScopeCheck, SkipScope, LookUpCache, AskBoard, AskBoardFails,
                SharedOK, world, shared
  <2>3. QED
    BY <2>1, <2>2
<1>2. CASE SkipScope(r)
  BY <1>1, <1>2, AdvanceType DEF SkipScope, CallsOK
<1>3. CASE LookUpCache(r)
  <2>1. CASE ScopeVerdict(r, cache[Checked(r)])
    BY <1>1, <2>1, ScopeVerdictType
  <2>2. CASE /\ asking' = [asking EXCEPT ![r] = TRUE]
             /\ UNCHANGED <<layer, pc, request, found, target, resolved, answer>>
    BY <1>1, <2>2 DEF CallsOK
  <2>3. QED
    BY <1>3, <2>1, <2>2 DEF LookUpCache
<1>4. CASE AskBoard(r)
  <2>1. workspaceOf[Checked(r)] \in Workspace
    BY <1>4 DEF AskBoard, Exists
  <2>2. Reveals(Checked(r), workspaceOf[Checked(r)])
          \in [Board -> Workspace \cup {NoWorkspace}]
    BY <2>1, RevealsType
  <2>3. answer' \in [Req -> [Board -> Workspace \cup {NoWorkspace}]]
    BY <1>4, <2>2 DEF AskBoard, CallsOK
  <2>4. QED
    BY <1>1, <1>4, <2>3 DEF AskBoard, CallsOK
<1>5. CASE AskBoardFails(r)
  <2>1. CASE Return(r)
    BY <1>1, <2>1, ReturnType
  <2>2. CASE /\ Advance(r) /\ asking' = [asking EXCEPT ![r] = FALSE]
             /\ resolved' = [resolved EXCEPT ![r] = Unanswered]
             /\ UNCHANGED <<request, found, target, answer>>
    BY <1>1, <2>2, AdvanceType DEF CallsOK
  <2>3. QED
    BY <1>5, <2>1, <2>2 DEF AskBoardFails
<1>6. CASE RememberBoard(r)
  BY <1>1, <1>6, ScopeVerdictType DEF RememberBoard
<1>7. QED
  BY <1>2, <1>3, <1>4, <1>5, <1>6 DEF ScopeCheck

LEMMA SendTypes ==
  ASSUME SharedOK, CallsOK, NEW r \in Req, Send(r)
  PROVE  SharedOK' /\ CallsOK'
<1> DEFINE Answer == [Board -> Workspace \cup {NoWorkspace}]
<1>1. request[r] \in Request /\ Nothing \in Answer
  BY NothingType DEF CallsOK
<1>2. policy.scope \in Workspace \cup {NoWorkspace}
  BY ScopeType
<1>3. CASE SendInPlace(r)
  BY <1>1, <1>3, AnsweredType DEF SendInPlace, SharedOK, world, shared
<1>4. CASE SendFails(r)
  BY <1>4, ReturnType DEF SendFails, SharedOK, world, shared
<1>5. CASE SendList(r)
  <2>1. PICK page \in SUBSET Board :
          Answered(r, [b \in Board |-> IF b \in page THEN policy.scope ELSE NoWorkspace])
    BY <1>5 DEF SendList
  <2>2. [b \in Board |-> IF b \in page THEN policy.scope ELSE NoWorkspace] \in Answer
    BY <1>2
  <2>3. QED
    BY <1>5, <2>1, <2>2, AnsweredType DEF SendList, SharedOK, world, shared
<1>6. CASE SendNewBoard(r)
  <2>1. LandsIn(r) \in Workspace
    BY <1>1, <1>6, MainIsAWorkspace DEF SendNewBoard, LandsIn, Exists, Request
  <2>2. PICK b \in Board : Settle(Family(b), LandsIn(r))
                         /\ Answered(r, Reveals(b, LandsIn(r)))
    BY <1>6 DEF SendNewBoard
  <2>3. Reveals(b, LandsIn(r)) \in Answer
    BY <2>1, RevealsType
  <2>4. CallsOK'
    BY <2>2, <2>3, AnsweredType
  <2>5. workspaceOf' \in [Board -> Workspace \cup {Unborn, Gone}]
    BY <2>1, <2>2, SettleType
  <2>6. QED
    BY <1>6, <2>4, <2>5 DEF SendNewBoard, SharedOK, shared
<1>7. CASE SendDeleteBoard(r)
  <2>1. workspaceOf' \in [Board -> Workspace \cup {Unborn, Gone}]
    BY <1>7, SettleType DEF SendDeleteBoard
  <2>2. QED
    BY <1>1, <1>7, <2>1, AnsweredType DEF SendDeleteBoard, SharedOK, shared
<1>8. CASE SendDeleteFolder(r)
  <2>1. workspaceOf' \in [Board -> Workspace \cup {Unborn, Gone}]
    BY <1>8, SettleType DEF SendDeleteFolder
  <2>2. QED
    BY <1>1, <1>8, <2>1, AnsweredType DEF SendDeleteFolder, SharedOK, shared
<1>9. CASE SendMoveToBoard(r)
  <2>1. boardOf' \in [Item -> Board \cup {Unborn, Gone}]
    BY <1>9 DEF SendMoveToBoard, Exists, SharedOK
  <2>2. QED
    BY <1>1, <1>9, <2>1, AnsweredType DEF SendMoveToBoard, SharedOK, shared
<1>10. CASE SendDeleteItem(r)
  <2>1. boardOf' \in [Item -> Board \cup {Unborn, Gone}]
    BY <1>10 DEF SendDeleteItem, SharedOK
  <2>2. QED
    BY <1>1, <1>10, <2>1, AnsweredType DEF SendDeleteItem, SharedOK, shared
<1>11. CASE SendNewItem(r)
  <2>1. boardOf' \in [Item -> Board \cup {Unborn, Gone}]
    BY <1>11 DEF SendNewItem, Exists, SharedOK
  <2>2. QED
    BY <1>1, <1>11, <2>1, AnsweredType DEF SendNewItem, SharedOK, shared
<1>12. CASE SendNewSubitem(r)
  <2> DEFINE sub == SubBoard[boardOf[request[r].item]]
  <2>1. sub \in Board
    BY <1>12, SubBoardIsPartial DEF SendNewSubitem, Visible
  <2>2. boardOf' \in [Item -> Board \cup {Unborn, Gone}]
    <3>1. PICK i \in Item : boardOf' = [boardOf EXCEPT ![i] = sub]
      BY <1>12 DEF SendNewSubitem
    <3>2. QED
      BY <2>1, <3>1 DEF SharedOK
  <2>3. Reveals(sub, policy.scope) \in Answer
    BY <1>2, RevealsType
  <2>4. Answered(r, Reveals(sub, policy.scope))
    BY <1>12 DEF SendNewSubitem
  <2>5. CallsOK'
    BY <2>3, <2>4, AnsweredType
  <2>6. QED
    BY <1>12, <2>2, <2>5 DEF SendNewSubitem, SharedOK, shared
<1>13. QED
  BY <1>3, <1>4, <1>5, <1>6, <1>7, <1>8, <1>9, <1>10, <1>11, <1>12 DEF Send

LEMMA ReplyTypes ==
  ASSUME SharedOK, CallsOK, NEW r \in Req,
         CallPort(r) \/ Remember(r) \/ TrustBoard(r) \/ Respond(r)
  PROVE  SharedOK' /\ CallsOK'
<1>1. CASE CallPort(r)
  BY <1>1 DEF CallPort, Enter, SharedOK, CallsOK, world, shared, call, Call
<1>2. CASE Remember(r)
  <2>1. cache' \in [Board -> Workspace \cup {NoWorkspace}]
    BY <1>2, RememberingType DEF Remember, SharedOK
  <2>2. QED
    BY <1>2, <2>1, AdvanceType DEF Remember, SharedOK, CallsOK, world, call
<1>3. CASE TrustBoard(r)
  BY <1>3, AdvanceType DEF TrustBoard, SharedOK, CallsOK, world, call
<1>4. CASE Respond(r)
  BY <1>4, ReturnType DEF Respond, SharedOK, world, shared
<1>5. QED
  BY <1>1, <1>2, <1>3, <1>4

LEMMA OthersTypes ==
  ASSUME SharedOK, CallsOK, OthersMoveItem \/ OthersMoveBoard
  PROVE  SharedOK' /\ CallsOK'
<1>1. CallsOK'
  BY DEF OthersMoveItem, OthersMoveBoard, CallsOK, call
<1>2. CASE OthersMoveItem
  <2>1. PICK i \in Item, b \in Board :
          boardOf' = [boardOf EXCEPT ![i] = b] /\ movedItems' = movedItems \cup {i}
    BY <1>2 DEF OthersMoveItem
  <2>2. QED
    BY <1>1, <1>2, <2>1 DEF OthersMoveItem, SharedOK, shared
<1>3. CASE OthersMoveBoard
  <2>1. PICK b \in Board, w \in Workspace :
          Settle(Family(b), w) /\ movedBoards' = movedBoards \cup Family(b)
    BY <1>3 DEF OthersMoveBoard
  <2>2. workspaceOf' \in [Board -> Workspace \cup {Unborn, Gone}]
    BY <2>1, SettleType
  <2>3. QED
    BY <1>1, <1>3, <2>1, <2>2 DEF OthersMoveBoard, SharedOK, shared, Family
<1>4. QED
  BY <1>2, <1>3

LEMMA StepTypes ==
  ASSUME TypeOK, [Next]_vars
  PROVE  TypeOK'
<1>1. SharedOK /\ CallsOK
  BY TypeOKParts
<1>2. SUFFICES SharedOK' /\ CallsOK'
  BY DEF TypeOK, SharedOK, CallsOK
<1>3. CASE UNCHANGED vars
  BY <1>1, <1>3 DEF vars, SharedOK, CallsOK
<1>4. ASSUME NEW r \in Req, Start(r) PROVE SharedOK' /\ CallsOK'
  BY <1>1, <1>4, StartType
<1>5. ASSUME NEW r \in Req, Serve(r) PROVE SharedOK' /\ CallsOK'
  BY <1>1, <1>5, CheckTypes, LookUpTypes, ScopeCheckTypes, SendTypes, ReplyTypes
     DEF Serve
<1>6. CASE OthersMoveItem \/ OthersMoveBoard
  BY <1>1, <1>6, OthersTypes
<1>7. QED
  BY <1>3, <1>4, <1>5, <1>6 DEF Next

\* Every reachable state is well typed, for every account, set of policies
\* and set of served operations.
THEOREM TypeInvariant == Spec => []TypeOK
<1>1. Init => TypeOK
  BY InitType
<1>2. TypeOK /\ [Next]_vars => TypeOK'
  BY StepTypes
<1>3. QED
  BY <1>1, <1>2, PTL DEF Spec

=============================================================================
