--------------------------- MODULE ScopedService ---------------------------
(***************************************************************************)
(* Concurrent tool calls of one server process: each request Req runs one   *)
(* operation of the application service through the write guard and, when   *)
(* a workspace scope is configured, through ScopedPort.  Every call to      *)
(* monday is a step of its own, so other requests and other users of monday *)
(* act between a check and the mutation it was made for.                    *)
(*                                                                         *)
(* The only state requests share is the guard's set of created boards and   *)
(* ScopedPort's cache of board workspaces; each is read and written under   *)
(* its own lock, one access per step.                                       *)
(***************************************************************************)
EXTENDS WritePolicy, Operations, Naturals, Sequences, FiniteSets

CONSTANTS
  Req,            \* request slots served concurrently
  Item,           \* item IDs
  Update,         \* update IDs
  NoBoard, NoItem, NoUpdate,   \* an argument that is not given
  Unanswered,     \* what a read gave that failed
  Unborn, Gone,   \* a board or an item not created yet, and one deleted
  Served,         \* the operations the registered tools offer
  Policies,       \* the policies a server may be started with
  HomeOf,         \* HomeOf[b]: the workspace b starts in, or Unborn
  PlaceOf,        \* PlaceOf[i]: the board i starts on, or Unborn
  SubBoard,       \* SubBoard[b]: the subitems board of b, or NoBoard
  ItemOf,         \* ItemOf[u]: the item an update was posted on
  MainWorkspace,  \* where monday creates a board when no workspace is given
  OutsideMoves,   \* what other users move meanwhile: subset of {"item","board"}
  ReadsFail       \* whether a read may fail although its target exists

\* A board and its subitems board are always in the same workspace.
Family(b) == {c \in Board : c = b \/ SubBoard[b] = c \/ SubBoard[c] = b}

ASSUME ServedAreOperations == Served \subseteq Operations
ASSUME PoliciesAreValid    == Policies \subseteq Policy
ASSUME SubBoardIsPartial   == SubBoard \in [Board -> Board \cup {NoBoard}]
ASSUME SubitemsDoNotNest   ==
  \A b \in Board : SubBoard[b] \in Board =>
    /\ SubBoard[b] # b
    /\ SubBoard[SubBoard[b]] = NoBoard
    /\ \A c \in Board : SubBoard[c] = SubBoard[b] => c = b
ASSUME ItemOfIsTotal       == ItemOf \in [Update -> Item]
ASSUME MainIsAWorkspace    == MainWorkspace \in Workspace
ASSUME NamesAreDistinct    ==
  /\ NoBoard \notin Board /\ NoItem \notin Item /\ NoUpdate \notin Update
  /\ Unanswered \notin Board \cup {NoBoard}
  /\ {Unborn, Gone} \cap (Board \cup Workspace \cup {NoBoard, NoWorkspace}) = {}
  /\ Unborn # Gone
ASSUME HomesAreValid ==
  /\ HomeOf \in [Board -> Workspace \cup {Unborn}]
  /\ \A b \in Board : \A c \in Family(b) : HomeOf[b] = HomeOf[c]
ASSUME PlacesAreValid ==
  /\ PlaceOf \in [Item -> Board \cup {Unborn}]
  /\ \A i \in Item : PlaceOf[i] # Unborn => HomeOf[PlaceOf[i]] # Unborn
ASSUME FlagsAreValid ==
  OutsideMoves \subseteq {"item", "board"} /\ ReadsFail \in BOOLEAN

VARIABLES
  policy,       \* the configured policy; never changes
  workspaceOf,  \* monday: the workspace a board is in
  boardOf,      \* monday: the board an item is on
  movedItems,   \* the items other users have moved
  movedBoards,  \* the boards other users have moved
  cache,        \* ScopedPort.boards; NoWorkspace where it has no entry
  created,      \* WriteGuard.created
  request,      \* the call a slot runs: operation and arguments
  layer,        \* where a call is: idle, service, port, reply
  pc,           \* the next check in that layer
  found,        \* the item's board as last read from monday
  target,       \* UpdateItemValues: effectiveBoardID
  resolved,     \* UpdateItemValues: item.BoardID, as its own read gave it,
                \* or Unanswered
  asking,       \* the cache has no entry: GetBoard has been called
  answer        \* the workspaces of boards, read and not yet remembered

world  == <<workspaceOf, boardOf, movedItems, movedBoards>>
shared == <<cache, created>>
call   == <<request, found, target, resolved, asking, answer>>
vars   == <<policy, workspaceOf, boardOf, movedItems, movedBoards, cache,
            created, request, layer, pc, found, target, resolved, asking, answer>>

\* The workspaces a reply reveals; NoWorkspace for a board it says nothing of.
Reveals(b, w) == [c \in Board |-> IF c = b THEN w ELSE NoWorkspace]
Nothing == [c \in Board |-> NoWorkspace]

NoRequest == [op |-> GetBoard, board |-> NoBoard, item |-> NoItem,
              update |-> NoUpdate, workspace |-> NoWorkspace]

Request == [op : Operations, board : Board \cup {NoBoard},
            item : Item \cup {NoItem}, update : Update \cup {NoUpdate},
            workspace : Workspace \cup {NoWorkspace}]

Exists(b) == b \in Board /\ workspaceOf[b] \in Workspace
Visible(i) == i \in Item /\ boardOf[i] \in Board /\ Exists(boardOf[i])

Init ==
  /\ policy \in Policies
  /\ workspaceOf = HomeOf
  /\ boardOf = PlaceOf
  /\ movedItems = {} /\ movedBoards = {}
  /\ cache = [b \in Board |-> NoWorkspace]
  /\ created = {}
  /\ request = [r \in Req |-> NoRequest]
  /\ layer = [r \in Req |-> "idle"]
  /\ pc = [r \in Req |-> 1]
  /\ found = [r \in Req |-> NoBoard]
  /\ target = [r \in Req |-> NoBoard]
  /\ resolved = [r \in Req |-> NoBoard]
  /\ asking = [r \in Req |-> FALSE]
  /\ answer = [r \in Req |-> Nothing]

-----------------------------------------------------------------------------
\* The frame of a call.

\* Without a scope the service talks to monday's client directly.
Port(op) == IF Scoped(policy) THEN op.port ELSE PassThrough

Checks(r) == CASE layer[r] = "service" -> request[r].op.service
               [] layer[r] = "port"    -> Port(request[r].op)
               [] layer[r] = "reply"   -> request[r].op.reply
               [] OTHER                -> <<>>

At(r, checks) == pc[r] \in 1..Len(Checks(r)) /\ Checks(r)[pc[r]] \in checks
Finished(r, l) == layer[r] = l /\ pc[r] = Len(Checks(r)) + 1

Advance(r) == pc' = [pc EXCEPT ![r] = pc[r] + 1] /\ UNCHANGED layer

Enter(r, l) == layer' = [layer EXCEPT ![r] = l] /\ pc' = [pc EXCEPT ![r] = 1]

\* The call returns, with a result or with an error.
Return(r) ==
  /\ Enter(r, "idle")
  /\ request' = [request EXCEPT ![r] = NoRequest]
  /\ found' = [found EXCEPT ![r] = NoBoard]
  /\ target' = [target EXCEPT ![r] = NoBoard]
  /\ resolved' = [resolved EXCEPT ![r] = NoBoard]
  /\ asking' = [asking EXCEPT ![r] = FALSE]
  /\ answer' = [answer EXCEPT ![r] = Nothing]

\* A local check: the call goes on or fails.
Verdict(r, ok) ==
  /\ \/ ok /\ Advance(r) /\ UNCHANGED call
     \/ ~ok /\ Return(r)
  /\ UNCHANGED <<policy, world, shared>>

\* A tool call arrives.
Start(r) ==
  /\ layer[r] = "idle"
  /\ \E op \in Served :
     \E b \in (IF "board" \in op.uses THEN Board ELSE {NoBoard}) :
     \E i \in (IF "item" \in op.uses THEN Item ELSE {NoItem}) :
     \E u \in (IF "update" \in op.uses THEN Update ELSE {NoUpdate}) :
     \E w \in (IF "workspace" \in op.uses
                 THEN Workspace \cup {NoWorkspace} ELSE {NoWorkspace}) :
       /\ request' = [request EXCEPT ![r] =
                        [op |-> op, board |-> b, item |-> i, update |-> u,
                         workspace |-> ScopedWorkspace(policy, w)]]
       /\ target' = [target EXCEPT ![r] = b]
  /\ Enter(r, "service")
  /\ UNCHANGED <<policy, world, shared, found, resolved, asking, answer>>

\* The service method has made its checks and calls the port.
CallPort(r) ==
  /\ Finished(r, "service")
  /\ Enter(r, "port")
  /\ UNCHANGED <<policy, world, shared, call>>

Respond(r) ==
  /\ Finished(r, "reply")
  /\ Return(r)
  /\ UNCHANGED <<policy, world, shared>>

-----------------------------------------------------------------------------
\* The checks that need no answer from monday.

Guard(r) ==
  \/ At(r, {"write"})   /\ Verdict(r, CheckWrite(policy))
  \/ At(r, {"confirm"}) /\ \E confirm \in BOOLEAN : Verdict(r, confirm)
  \/ At(r, {"delete"})  /\ \E confirm \in BOOLEAN :
                             Verdict(r, RequireDelete(policy, confirm))
  \/ At(r, {"unfenced"}) /\ Verdict(r, ~Restricted(policy) /\ ~Scoped(policy))
  \/ At(r, {"unscoped"}) /\ Verdict(r, ~Scoped(policy))
  \/ At(r, {"named"})    /\ Verdict(r, request[r].workspace # NoWorkspace)

GuardWorkspace(r) ==
  \/ /\ At(r, {"workspace"})
     /\ Verdict(r, CheckWorkspace(policy, request[r].workspace))
  \/ /\ At(r, {"scopeWorkspace"})
     /\ Verdict(r, Scoped(policy) => request[r].workspace = policy.scope)

GuardBoard(r) ==
  \/ /\ At(r, {"guardArg"})
     /\ Verdict(r, CheckBoard(policy, created, request[r].board))
  \/ /\ At(r, {"guardFound"})
     /\ Verdict(r, CheckBoard(policy, created, found[r]))
  \/ /\ At(r, {"guardTarget"})
     /\ Verdict(r, CheckBoard(policy, created, target[r]))

-----------------------------------------------------------------------------
\* Reading the board of an item (GetItems).

\* checkItem returns early when nothing is restricted, and the reads made
\* through ScopedPort alone do not happen without a scope.
SkipLookUp(r) ==
  /\ \/ At(r, {"resolve"}) /\ ~Restricted(policy) /\ ~Scoped(policy)
     \/ At(r, {"scopedLookUp"}) /\ ~Scoped(policy)
  /\ Verdict(r, TRUE)

LookUpIsMade(r) ==
  \/ At(r, {"resolve"}) /\ (Restricted(policy) \/ Scoped(policy))
  \/ At(r, {"scopedLookUp"}) /\ Scoped(policy)
  \/ At(r, {"lookUp", "tryLookUp"})

LookUpItem(r) ==
  /\ LookUpIsMade(r)
  /\ Visible(request[r].item)
  /\ found' = [found EXCEPT ![r] = boardOf[request[r].item]]
  /\ resolved' = [resolved EXCEPT ![r] =
                    IF At(r, {"tryLookUp"}) THEN boardOf[request[r].item] ELSE @]
  /\ Advance(r)
  /\ UNCHANGED <<policy, world, shared, request, target, asking, answer>>

\* A flaw: the read is made again for as long as it fails.
LookUpFailsForever(r) ==
  /\ LookUpIsMade(r)
  /\ ReadsFail \/ ~Visible(request[r].item)
  /\ UNCHANGED vars

\* The read fails or finds nothing.  UpdateItemValues goes on with the
\* caller's board; every other operation returns the error.
LookUpFails(r) ==
  /\ LookUpIsMade(r)
  /\ ReadsFail \/ ~Visible(request[r].item)
  /\ \/ ~At(r, {"tryLookUp"}) /\ Return(r)
     \/ /\ At(r, {"tryLookUp"})
        /\ pc' = [pc EXCEPT ![r] = pc[r] + 2]
        /\ resolved' = [resolved EXCEPT ![r] = Unanswered]
        /\ UNCHANGED <<layer, request, found, target, asking, answer>>
  /\ UNCHANGED <<policy, world, shared>>

\* Another read: columns, groups, folders, updates.  It may fail, and what
\* it returns may fail validation.
ReadAndValidate(r) ==
  /\ At(r, {"read"})
  /\ \E ok \in BOOLEAN : Verdict(r, ok)

\* The update is among the latest 100 of the item, or is refused.
FindUpdate(r) ==
  /\ At(r, {"owned"})
  /\ \E ok \in BOOLEAN :
       /\ ok => Visible(request[r].item) /\ ItemOf[request[r].update] = request[r].item
       /\ Verdict(r, ok)

-----------------------------------------------------------------------------
\* ScopedPort.checkBoard.

ScopeChecks == {"scopeArg", "scopeFound", "scopeTarget", "scopeSubitems", "tryScope"}

Checked(r) == CASE At(r, {"scopeArg"})              -> request[r].board
                [] At(r, {"scopeFound", "tryScope"}) -> found[r]
                [] At(r, {"scopeTarget"})            -> target[r]
                [] At(r, {"scopeSubitems"})          ->
                     IF found[r] \in Board THEN SubBoard[found[r]] ELSE NoBoard
                [] OTHER                             -> NoBoard

\* The verdict on a board whose workspace is w.  A foreign board fails the
\* call, except where UpdateItemValues ignores the failed read of its item.
ScopeVerdict(r, w) ==
  \/ /\ w = policy.scope /\ Advance(r)
     /\ target' = [target EXCEPT ![r] =
                     IF At(r, {"tryScope"}) THEN found[r] ELSE @]
     /\ answer' = [answer EXCEPT ![r] = Nothing]
     /\ UNCHANGED <<request, found, resolved, asking>>
  \/ /\ w # policy.scope /\ At(r, {"tryScope"}) /\ Advance(r)
     /\ answer' = [answer EXCEPT ![r] = Nothing]
     /\ UNCHANGED <<request, found, target, resolved, asking>>
  \/ w # policy.scope /\ ~At(r, {"tryScope"}) /\ Return(r)

\* No scope, or no board to check: nothing is looked up.
SkipScope(r) ==
  /\ At(r, ScopeChecks)
  /\ ~Scoped(policy) \/ Checked(r) = NoBoard
  /\ Advance(r)
  /\ target' = [target EXCEPT ![r] = IF At(r, {"tryScope"}) THEN found[r] ELSE @]
  /\ UNCHANGED <<policy, world, shared, request, found, resolved, asking, answer>>

\* A flaw: a board the cache does not know is taken to be inside.
LookUpCacheOptimistic(r) ==
  /\ At(r, ScopeChecks) /\ Scoped(policy) /\ Checked(r) # NoBoard
  /\ ScopeVerdict(r, IF cache[Checked(r)] = NoWorkspace
                       THEN policy.scope ELSE cache[Checked(r)])
  /\ UNCHANGED <<policy, world, shared>>

LookUpCache(r) ==
  /\ At(r, ScopeChecks) /\ Scoped(policy) /\ Checked(r) # NoBoard
  /\ ~asking[r] /\ answer[r] = Nothing
  /\ \/ cache[Checked(r)] # NoWorkspace /\ ScopeVerdict(r, cache[Checked(r)])
     \/ /\ cache[Checked(r)] = NoWorkspace
        /\ asking' = [asking EXCEPT ![r] = TRUE]
        /\ UNCHANGED <<layer, pc, request, found, target, resolved, answer>>
  /\ UNCHANGED <<policy, world, shared>>

AskBoard(r) ==
  /\ At(r, ScopeChecks) /\ Scoped(policy) /\ asking[r]
  /\ Exists(Checked(r))
  /\ asking' = [asking EXCEPT ![r] = FALSE]
  /\ answer' = [answer EXCEPT ![r] = Reveals(Checked(r), workspaceOf[Checked(r)])]
  /\ UNCHANGED <<policy, world, shared, layer, pc, request, found, target, resolved>>

AskBoardFails(r) ==
  /\ At(r, ScopeChecks) /\ Scoped(policy) /\ asking[r]
  /\ ReadsFail \/ ~Exists(Checked(r))
  /\ \/ ~At(r, {"tryScope"}) /\ Return(r)
     \/ /\ At(r, {"tryScope"}) /\ Advance(r)
        /\ asking' = [asking EXCEPT ![r] = FALSE]
        /\ resolved' = [resolved EXCEPT ![r] = Unanswered]
        /\ UNCHANGED <<request, found, target, answer>>
  /\ UNCHANGED <<policy, world, shared>>

Remembering(r) ==
  [b \in Board |-> IF answer[r][b] # NoWorkspace THEN answer[r][b] ELSE cache[b]]

\* checkBoard stores the answer and judges the value it was given.
RememberBoard(r) ==
  /\ At(r, ScopeChecks) /\ Scoped(policy) /\ Checked(r) \in Board
  /\ answer[r][Checked(r)] # NoWorkspace
  /\ cache' = Remembering(r)
  /\ ScopeVerdict(r, answer[r][Checked(r)])
  /\ UNCHANGED <<policy, world, created>>

-----------------------------------------------------------------------------
\* The call to monday, and what the server does with its answer.

ReadyToSend(r) == Finished(r, "port")

\* monday answers; or the change is made and its answer lost, and the client
\* reports a failure or sends the same request again, unchecked.
Answered(r, result) ==
  \/ /\ Enter(r, "reply")
     /\ answer' = [answer EXCEPT ![r] = result]
     /\ UNCHANGED <<request, found, target, resolved, asking>>
  \/ Return(r)
  \/ UNCHANGED <<layer, pc, call>>

Effect(r) == request[r].op.effect

\* Changes inside a board or an item leave boards and items where they are.
SendInPlace(r) ==
  /\ ReadyToSend(r)
  /\ Effect(r) \in {"read", "account", "folder", "board", "item", "values", "update"}
  /\ Answered(r, Nothing)
  /\ UNCHANGED <<policy, world, shared>>

SendFails(r) ==
  /\ ReadyToSend(r)
  /\ Return(r)
  /\ UNCHANGED <<policy, world, shared>>

\* A flaw: the page holds boards of any workspace.
SendListUnfiltered(r) ==
  /\ ReadyToSend(r) /\ Effect(r) = "list"
  /\ \E page \in SUBSET {b \in Board : Scoped(policy) /\ Exists(b)} :
       Answered(r, [b \in Board |-> IF b \in page THEN policy.scope ELSE NoWorkspace])
  /\ UNCHANGED <<policy, world, shared>>

\* A page of boards of the scope: ScopedPort forces the workspace filter.
SendList(r) ==
  /\ ReadyToSend(r) /\ Effect(r) = "list"
  /\ \E page \in SUBSET {b \in Board : Scoped(policy) /\ workspaceOf[b] = policy.scope} :
       Answered(r, [b \in Board |-> IF b \in page THEN policy.scope ELSE NoWorkspace])
  /\ UNCHANGED <<policy, world, shared>>

\* Without a workspace a new board lands in the main one, and a duplicate
\* beside its source.
LandsIn(r) ==
  IF request[r].workspace # NoWorkspace THEN request[r].workspace
  ELSE IF request[r].board # NoBoard THEN workspaceOf[request[r].board]
  ELSE MainWorkspace

Settle(boards, w) ==
  workspaceOf' = [b \in Board |-> IF b \in boards THEN w ELSE workspaceOf[b]]

SendNewBoard(r) ==
  /\ ReadyToSend(r) /\ Effect(r) = "newBoard"
  /\ request[r].board # NoBoard => Exists(request[r].board)
  /\ \E b \in Board :
       /\ workspaceOf[b] = Unborn
       /\ \A c \in Board : SubBoard[c] # b
       /\ Settle(Family(b), LandsIn(r))
       /\ Answered(r, Reveals(b, LandsIn(r)))
  /\ UNCHANGED <<policy, boardOf, movedItems, movedBoards, shared>>

SendDeleteBoard(r) ==
  /\ ReadyToSend(r) /\ Effect(r) = "deleteBoard"
  /\ Exists(request[r].board)
  /\ Settle(Family(request[r].board), Gone)
  /\ Answered(r, Nothing)
  /\ UNCHANGED <<policy, boardOf, movedItems, movedBoards, shared>>

\* The boards of a folder go with it, and those of a workspace.
SendDeleteFolder(r) ==
  /\ ReadyToSend(r) /\ Effect(r) \in {"deleteFolder", "deleteWorkspace"}
  /\ LET inside == {b \in Board : workspaceOf[b] = request[r].workspace} IN
     \E boards \in SUBSET inside :
       /\ \A b \in boards : Family(b) \subseteq boards
       /\ Effect(r) = "deleteWorkspace" => boards = inside
       /\ Settle(boards, Gone)
  /\ Answered(r, Nothing)
  /\ UNCHANGED <<policy, boardOf, movedItems, movedBoards, shared>>

SendMoveToBoard(r) ==
  /\ ReadyToSend(r) /\ Effect(r) = "moveToBoard"
  /\ Visible(request[r].item) /\ Exists(request[r].board)
  /\ boardOf' = [boardOf EXCEPT ![request[r].item] = request[r].board]
  /\ Answered(r, Nothing)
  /\ UNCHANGED <<policy, workspaceOf, movedItems, movedBoards, shared>>

SendDeleteItem(r) ==
  /\ ReadyToSend(r) /\ Effect(r) = "deleteItem"
  /\ Visible(request[r].item)
  /\ boardOf' = [boardOf EXCEPT ![request[r].item] = Gone]
  /\ Answered(r, Nothing)
  /\ UNCHANGED <<policy, workspaceOf, movedItems, movedBoards, shared>>

SendNewItem(r) ==
  /\ ReadyToSend(r) /\ Effect(r) = "newItem"
  /\ Exists(request[r].board)
  /\ \E i \in Item : /\ boardOf[i] = Unborn
                     /\ boardOf' = [boardOf EXCEPT ![i] = request[r].board]
  /\ Answered(r, Nothing)
  /\ UNCHANGED <<policy, workspaceOf, movedItems, movedBoards, shared>>

\* The subitem lands on the subitems board of the board its parent is on now;
\* ScopedPort remembers that board as part of the scope.
SendNewSubitem(r) ==
  /\ ReadyToSend(r) /\ Effect(r) = "newSubitem"
  /\ Visible(request[r].item)
  /\ LET below == SubBoard[boardOf[request[r].item]] IN
       /\ below # NoBoard
       /\ \E i \in Item : /\ boardOf[i] = Unborn
                          /\ boardOf' = [boardOf EXCEPT ![i] = below]
       /\ Answered(r, Reveals(below, policy.scope))
  /\ UNCHANGED <<policy, workspaceOf, movedItems, movedBoards, shared>>

Remember(r) ==
  /\ At(r, {"remember"})
  /\ cache' = IF Scoped(policy) THEN Remembering(r) ELSE cache
  /\ Advance(r)
  /\ UNCHANGED <<policy, world, created, call>>

\* A flaw: the board of the call is trusted, not the one it created.
TrustArgument(r) ==
  /\ At(r, {"trust"})
  /\ created' = created \cup {request[r].board}
  /\ Advance(r)
  /\ UNCHANGED <<policy, world, cache, call>>

TrustBoard(r) ==
  /\ At(r, {"trust"})
  /\ created' = created \cup {b \in Board : answer[r][b] # NoWorkspace}
  /\ Advance(r)
  /\ UNCHANGED <<policy, world, cache, call>>

-----------------------------------------------------------------------------
\* Other users of monday.

OthersMoveItem ==
  /\ "item" \in OutsideMoves
  /\ \E i \in Item, b \in Board :
       /\ Visible(i) /\ Exists(b) /\ b # boardOf[i]
       /\ boardOf' = [boardOf EXCEPT ![i] = b]
       /\ movedItems' = movedItems \cup {i}
  /\ UNCHANGED <<policy, workspaceOf, movedBoards, shared, layer, pc, call>>

OthersMoveBoard ==
  /\ "board" \in OutsideMoves
  /\ \E b \in Board, w \in Workspace :
       /\ Exists(b) /\ w # workspaceOf[b]
       /\ Settle(Family(b), w)
       /\ movedBoards' = movedBoards \cup Family(b)
  /\ UNCHANGED <<policy, boardOf, movedItems, shared, layer, pc, call>>

-----------------------------------------------------------------------------
Send(r) ==
  \/ SendInPlace(r) \/ SendFails(r) \/ SendList(r) \/ SendNewBoard(r)
  \/ SendDeleteBoard(r) \/ SendDeleteFolder(r) \/ SendMoveToBoard(r) \/ SendDeleteItem(r)
  \/ SendNewItem(r) \/ SendNewSubitem(r)

ScopeCheck(r) ==
  \/ SkipScope(r) \/ LookUpCache(r) \/ AskBoard(r) \/ AskBoardFails(r)
  \/ RememberBoard(r)

Serve(r) ==
  \/ Guard(r) \/ GuardWorkspace(r) \/ GuardBoard(r)
  \/ SkipLookUp(r) \/ LookUpItem(r) \/ LookUpFails(r)
  \/ ReadAndValidate(r) \/ FindUpdate(r) \/ ScopeCheck(r)
  \/ CallPort(r) \/ Send(r) \/ Remember(r) \/ TrustBoard(r) \/ Respond(r)

Next ==
  \/ \E r \in Req : Start(r) \/ Serve(r)
  \/ OthersMoveItem
  \/ OthersMoveBoard

Spec == Init /\ [][Next]_vars

\* A step that leads the call on, and not into one more attempt.
Onward(r) == Serve(r) /\ <<layer, pc, call>>' # <<layer, pc, call>>

\* Every call to monday is bounded by the client's timeout and its number of
\* attempts, so a request that has started is always carried on; nothing
\* forces new calls to arrive.
FairSpec == Spec /\ \A r \in Req : WF_vars(Onward(r))
-----------------------------------------------------------------------------
(***************************************************************************)
(* What the policy and the scope promise about every call sent to monday.   *)
(***************************************************************************)
Call == {"idle", "service", "port", "reply"}

TypeOK ==
  /\ policy \in Policies
  /\ workspaceOf \in [Board -> Workspace \cup {Unborn, Gone}]
  /\ boardOf \in [Item -> Board \cup {Unborn, Gone}]
  /\ movedItems \subseteq Item /\ movedBoards \subseteq Board
  /\ cache \in [Board -> Workspace \cup {NoWorkspace}]
  /\ created \subseteq Board
  /\ request \in [Req -> Request]
  /\ layer \in [Req -> Call]
  /\ pc \in [Req -> Nat]
  /\ found \in [Req -> Board \cup {NoBoard}]
  /\ target \in [Req -> Board \cup {NoBoard}]
  /\ resolved \in [Req -> Board \cup {NoBoard, Unanswered}]
  /\ asking \in [Req -> BOOLEAN]
  /\ answer \in [Req -> [Board -> Workspace \cup {NoWorkspace}]]

\* The items and the boards the call is about to change.  monday discards
\* column values sent with another board than the item's.
WrittenItems(r) ==
  CASE Effect(r) \in {"item", "deleteItem", "moveToBoard", "newSubitem"} ->
         {request[r].item}
    [] Effect(r) = "values" ->
         {i \in {request[r].item} : boardOf[i] = target[r]}
    [] Effect(r) = "update" -> {ItemOf[request[r].update]}
    [] OTHER -> {}

WrittenBoards(r) ==
  IF Effect(r) \in {"board", "deleteBoard", "newItem", "moveToBoard"}
    THEN {request[r].board} ELSE {}

\* The operations that reach an item or an update without resolving the
\* board it is on: nothing is promised of them.
Unresolved == {DuplicateItem, AddFileToUpdate, ReplyToUpdate, LikeUpdate}

\* The item is on a board, and nobody else has moved it there.
Undisturbed(i) == i \notin movedItems /\ boardOf[i] \in Board

\* MONDAY_WRITE_BOARD_ALLOWLIST: "Mutations are allowed only on these boards.
\* Item-level writes resolve the item's board first."  Whatever other calls
\* did between the checks and the mutation, the boards it names, and the
\* board each item it changes is on now, are allowlisted or were created by
\* this process.
WritesStayOnAllowedBoards ==
  \A r \in Req : ReadyToSend(r) =>
    /\ \A b \in WrittenBoards(r) : CheckBoard(policy, created, b)
    /\ \A i \in WrittenItems(r) :
         Undisturbed(i) => CheckBoard(policy, created, boardOf[i])

InScope(b) ==
  Scoped(policy) => b \in movedBoards \/ workspaceOf[b] \in {policy.scope, Gone}

\* "Out-of-scope targets fail before any mutation reaches monday": a call that
\* reaches monday under a scope changes boards and items of that workspace
\* only, although the workspaces of boards are cached and never read again.
WritesStayInScope ==
  \A r \in Req : ReadyToSend(r) =>
    /\ \A b \in WrittenBoards(r) : InScope(b)
    /\ \A i \in WrittenItems(r) : Undisturbed(i) => InScope(boardOf[i])

\* The cache never names a workspace its board is not in, whichever call
\* learned it and however late it is stored: only another user's move of
\* the board, or its deletion, leaves an entry behind.
CacheTruthful ==
  \A b \in Board : cache[b] # NoWorkspace =>
    b \in movedBoards \/ workspaceOf[b] \in {cache[b], Gone}

\* Trusting the boards this process creates never widens the policy beyond
\* the workspaces it names: under an allowlist each of them was created in an
\* allowlisted workspace, under a scope in the scope.
TrustStaysInside ==
  \A b \in created \ movedBoards :
    /\ Restricted(policy) => workspaceOf[b] \in policy.workspaces \cup {Gone}
    /\ InScope(b)

\* The permanent deletes of deletes.go.
Deletions == {DeleteFolder, DeleteWorkspace, DeleteBoard, DeleteGroup, DeleteColumn,
              DeleteItem, DeleteUpdate}

\* Below level full no delete reaches monday, of a group, a column or an update
\* no more than of a board, and at level read no mutation does, whichever
\* checks its handler makes.  On the account, boards and items then stay what
\* and where they are, unless others move them, and a folder, workspace or
\* board that takes boards with it is one the allowlists and the scope admit.
BoundedByLevel ==
  /\ \A r \in Req : ReadyToSend(r) =>
       /\ policy.level = "read" => Effect(r) \in {"read", "list"}
       /\ request[r].op \in Deletions => policy.level = "full"
  /\ policy.level = "read" =>
       /\ UNCHANGED created
       /\ \A i \in Item : boardOf'[i] = boardOf[i] \/ i \in movedItems'
       /\ \A b \in Board : workspaceOf'[b] = workspaceOf[b] \/ b \in movedBoards'
  /\ \A i \in Item : boardOf[i] # Gone /\ boardOf'[i] = Gone =>
       policy.level = "full"
  /\ \A b \in Board : workspaceOf[b] # Gone /\ workspaceOf'[b] = Gone =>
       /\ policy.level = "full" /\ InScope(b)
       /\ \/ CheckWorkspace(policy, workspaceOf[b])
          \/ \E c \in Family(b) : CheckBoard(policy, created, c)

LevelsBoundChanges == [][BoundedByLevel]_vars

\* The checks of a call hold when its change is made: the whole service does
\* what Confinement does in single steps.
Atomic == INSTANCE Confinement
Confined == Atomic!Spec

\* UpdateItemValues sends values with the board its read of the item gave, and
\* validates them against the columns of that board.  It falls back on the
\* caller's board when a read gets no answer, and also when the scope refuses
\* the board it read: then ScopedPort must refuse the item again, whatever
\* other calls have moved or deleted since.  Only another user's move of the
\* item, or of its board, can let such values through.
ValuesReachTheirItem ==
  \A r \in Req : ReadyToSend(r) /\ Effect(r) = "values" =>
    \/ resolved[r] \in {target[r], Unanswered}
    \/ request[r].item \in movedItems \/ resolved[r] \in movedBoards

\* Every call returns, whatever the others and monday do.
CallsReturn == \A r \in Req : layer[r] # "idle" ~> layer[r] = "idle"
=============================================================================
