----------------------------- MODULE Operations -----------------------------
(***************************************************************************)
(* The operations of the application service that reach monday, each as     *)
(* the list of checks its handler makes.  An operation has                  *)
(*   uses    the arguments of the tool call it reads,                       *)
(*   service the checks of the Service method, in order,                    *)
(*   port    the checks ScopedPort makes in front of the wrapped port when  *)
(*           a workspace scope is configured,                               *)
(*   effect  what the call to monday changes,                               *)
(*   reply   what is done with monday's answer.                             *)
(*                                                                         *)
(* The checks are interpreted by ScopedService, one action each:            *)
(*   write, confirm, delete     CheckWrite, confirm=true, requireDelete     *)
(*   guardArg, guardFound, guardTarget                                      *)
(*                              WriteGuard.CheckBoard of the board argument,*)
(*                              of the item's board as last read, and of the*)
(*                              board UpdateItemValues settled on           *)
(*   named, workspace, scopeWorkspace                                       *)
(*                              a workspace is given or configured,         *)
(*                              CheckWorkspace, ScopedPort.workspaceOr      *)
(*   unfenced, unscoped         refused under a scope or an allowlist;      *)
(*                              refused under a scope                       *)
(*   resolve, lookUp, scopedLookUp                                          *)
(*                              GetItems for the board of the item: only    *)
(*                              when a scope or an allowlist needs it,      *)
(*                              always, only under a scope                  *)
(*   tryLookUp, tryScope        the same read where a failure is ignored    *)
(*   scopeArg, scopeFound, scopeTarget, scopeSubitems                       *)
(*                              ScopedPort.checkBoard of those boards, and  *)
(*                              of the subitems board of the last one read  *)
(*   read, owned                a further read that may fail or reject; the *)
(*                              search for an update among those of an item *)
(* Malformed arguments (requireID, requireText, oneOf) are rejected before  *)
(* any of this and are left out: the arguments here are well-formed.        *)
(***************************************************************************)

\* ---- the checks several handlers share ------------------------------------

\* A flaw: the board of the item is read but not judged.
CheckItemUnguarded == <<"write", "resolve", "scopeFound">>

\* Service.checkItem: the item's board is read and must be writable.
CheckItem == <<"write", "resolve", "scopeFound", "guardFound">>

\* requireDelete in front of checkItem.
DeletableItem == <<"delete", "write", "resolve", "scopeFound", "guardFound">>

\* A flaw: a method ScopedPort forgets to override.
ScopedBoardUnchecked == <<>>

\* ScopedPort methods that take a board: checkBoard, then the wrapped port.
ScopedBoardCall == <<"scopeArg">>

\* ScopedPort methods that take an item: checkItem, then the wrapped port.
ScopedItemCall == <<"lookUp", "scopeFound">>

\* ScopedPort methods that take both, board first.
ScopedPlacedItemCall == <<"scopeArg", "lookUp", "scopeFound">>

\* Methods ScopedPort does not override.
PassThrough == <<>>

\* What the service does with a created board: ScopedPort remembers its
\* workspace, then the guard trusts it.
KeepNewBoard == <<"remember", "trust">>

Operation(name, uses, service, port, effect, reply) ==
  [name |-> name, uses |-> uses, service |-> service, port |-> port,
   effect |-> effect, reply |-> reply]

\* ---- workspaces -------------------------------------------------------------

CreateWorkspace ==
  Operation("CreateWorkspace", {}, <<"write", "unfenced">>,
            <<"unscoped">>, "account", <<>>)

CreateFolder ==
  Operation("CreateFolder", {"workspace"}, <<"named", "workspace">>,
            <<"scopeWorkspace">>, "folder", <<>>)

\* The folder must be among the workspace's first 100.
DeleteFolder ==
  Operation("DeleteFolder", {"workspace"},
            <<"named", "delete", "workspace", "scopeWorkspace", "read">>,
            <<"read">>, "deleteFolder", <<>>)

DeleteWorkspace ==
  Operation("DeleteWorkspace", {"workspace"},
            <<"named", "delete", "unfenced">>,
            <<"unscoped">>, "deleteWorkspace", <<>>)

\* ---- boards -----------------------------------------------------------------

ListBoards ==
  Operation("ListBoards", {"workspace"}, <<>>,
            <<"scopeWorkspace">>, "list", <<"remember">>)

GetBoard ==
  Operation("GetBoard", {"board"}, <<>>, ScopedBoardCall, "read", <<>>)

CreateBoard ==
  Operation("CreateBoard", {"workspace"}, <<"workspace">>,
            <<"scopeWorkspace">>, "newBoard", KeepNewBoard)

\* The source board is only read: no allowlist applies to it.
DuplicateBoard ==
  Operation("DuplicateBoard", {"workspace", "board"}, <<"workspace">>,
            <<"scopeArg", "scopeWorkspace">>, "newBoard", KeepNewBoard)

\* A flaw: the allowlist is not asked for.
UpdateBoardUnguarded ==
  Operation("UpdateBoard", {"board"}, <<"write">>,
            ScopedBoardCall, "board", <<>>)

UpdateBoard ==
  Operation("UpdateBoard", {"board"}, <<"guardArg">>,
            ScopedBoardCall, "board", <<>>)

ArchiveBoard ==
  Operation("ArchiveBoard", {"board"}, <<"confirm", "guardArg">>,
            ScopedBoardCall, "board", <<>>)

AddBoardSubscribers ==
  Operation("AddBoardSubscribers", {"board"}, <<"guardArg">>,
            ScopedBoardCall, "board", <<>>)

DeleteBoard ==
  Operation("DeleteBoard", {"board"}, <<"delete", "guardArg">>,
            ScopedBoardCall, "deleteBoard", <<>>)

\* ---- groups and columns -----------------------------------------------------

CreateGroup ==
  Operation("CreateGroup", {"board"}, <<"guardArg">>,
            ScopedBoardCall, "board", <<>>)

UpdateGroup ==
  Operation("UpdateGroup", {"board"}, <<"guardArg">>,
            ScopedBoardCall, "board", <<>>)

DuplicateGroup ==
  Operation("DuplicateGroup", {"board"}, <<"guardArg">>,
            ScopedBoardCall, "board", <<>>)

ArchiveGroup ==
  Operation("ArchiveGroup", {"board"}, <<"confirm", "guardArg">>,
            ScopedBoardCall, "board", <<>>)

DeleteGroup ==
  Operation("DeleteGroup", {"board"}, <<"delete", "guardArg">>,
            ScopedBoardCall, "board", <<>>)

CreateColumn ==
  Operation("CreateColumn", {"board"}, <<"guardArg">>,
            ScopedBoardCall, "board", <<>>)

\* A flaw: checked as any other change of the board.
DeleteColumnUnlicensed ==
  Operation("DeleteColumn", {"board"}, <<"confirm", "guardArg">>,
            ScopedBoardCall, "board", <<>>)

DeleteColumn ==
  Operation("DeleteColumn", {"board"}, <<"delete", "guardArg">>,
            ScopedBoardCall, "board", <<>>)

\* The title, then the description through the same check.
ChangeColumn ==
  Operation("ChangeColumn", {"board"}, <<"guardArg">>,
            ScopedBoardCall, "board", <<"scopeArg">>)

\* A public tag belongs to the account; a board's tag to the board.
CreatePublicTag ==
  Operation("CreatePublicTag", {}, <<"write">>, PassThrough, "account", <<>>)

CreateOrGetTag ==
  Operation("CreateOrGetTag", {"board"}, <<"guardArg">>,
            ScopedBoardCall, "board", <<>>)

\* ---- items ------------------------------------------------------------------

CreateItem ==
  Operation("CreateItem", {"board"}, <<"guardArg">>,
            ScopedBoardCall, "newItem", <<>>)

\* With a group or column values: they are validated through the same port.
CreateValidatedItem ==
  Operation("CreateValidatedItem", {"board"},
            <<"guardArg", "scopeArg", "read">>,
            ScopedBoardCall, "newItem", <<>>)

CreateSubitem ==
  Operation("CreateSubitem", {"item"},
            <<"lookUp", "scopeFound", "guardFound">>,
            ScopedItemCall, "newSubitem", <<"remember">>)

\* With column values: validated against the subitems board, which the
\* columns of the parent's board name.
CreateValidatedSubitem ==
  Operation("CreateValidatedSubitem", {"item"},
            <<"lookUp", "scopeFound", "guardFound",
              "scopeFound", "read", "scopeSubitems", "read">>,
            ScopedItemCall, "newSubitem", <<"remember">>)

\* A flaw: ScopedPort judges the board alone, and not the item again.
UpdateItemValuesOnceJudged ==
  Operation("UpdateItemValues", {"board", "item"},
            <<"tryLookUp", "tryScope", "guardTarget", "scopeTarget", "read">>,
            <<"scopeTarget">>, "values", <<>>)

\* The board the item lives on replaces the caller's board, unless reading
\* it fails; the column values are validated against that board.
UpdateItemValues ==
  Operation("UpdateItemValues", {"board", "item"},
            <<"tryLookUp", "tryScope", "guardTarget", "scopeTarget", "read">>,
            <<"scopeTarget", "lookUp", "scopeFound">>, "values", <<>>)

\* With the column detected among those of the caller's board.
SetDetectedColumn ==
  Operation("SetDetectedColumn", {"board", "item"},
            <<"scopeArg", "read", "tryLookUp", "tryScope", "guardTarget",
              "scopeTarget", "read">>,
            <<"scopeTarget", "lookUp", "scopeFound">>, "values", <<>>)

MoveItem ==
  Operation("MoveItem", {"item"}, CheckItem, ScopedItemCall, "item", <<>>)

\* Flaws: the destination is not judged by the guard, or by the scope.
MoveItemToBoardUnguarded ==
  Operation("MoveItemToBoard", {"board", "item"}, CheckItem,
            <<"lookUp", "scopeFound", "scopeArg">>, "moveToBoard", <<>>)

MoveItemToBoardUnscoped ==
  Operation("MoveItemToBoard", {"board", "item"},
            <<"write", "resolve", "scopeFound", "guardFound", "guardArg">>,
            ScopedItemCall, "moveToBoard", <<>>)

\* The destination board is the board argument.
MoveItemToBoard ==
  Operation("MoveItemToBoard", {"board", "item"},
            <<"write", "resolve", "scopeFound", "guardFound", "guardArg">>,
            <<"lookUp", "scopeFound", "scopeArg">>, "moveToBoard", <<>>)

\* The board argument is checked in place of the item's own board.
DuplicateItem ==
  Operation("DuplicateItem", {"board", "item"}, <<"guardArg">>,
            ScopedPlacedItemCall, "item", <<>>)

ArchiveItem ==
  Operation("ArchiveItem", {"item"}, CheckItem, ScopedItemCall, "item", <<>>)

DeleteItem ==
  Operation("DeleteItem", {"item"}, DeletableItem,
            ScopedItemCall, "deleteItem", <<>>)

\* ---- updates, files, notifications ------------------------------------------

CreateUpdate ==
  Operation("CreateUpdate", {"item"}, CheckItem, ScopedItemCall, "item", <<>>)

AddFileToColumn ==
  Operation("AddFileToColumn", {"item"}, CheckItem,
            ScopedItemCall, "item", <<>>)

\* Notify about an item (target_type=Project).
Notify ==
  Operation("Notify", {"item"}, CheckItem, PassThrough, "item", <<>>)

\* Notify about an update (target_type=Post): no item is resolved, and none
\* is changed.
NotifyPost ==
  Operation("NotifyPost", {"update"}, <<"write", "unscoped">>,
            PassThrough, "account", <<>>)

\* The call names the update alone, and no item is resolved.
AddFileToUpdate ==
  Operation("AddFileToUpdate", {"update"}, <<"write">>,
            PassThrough, "update", <<>>)

\* The item argument is checked; monday gets the update ID alone.
ReplyToUpdate ==
  Operation("ReplyToUpdate", {"item", "update"}, CheckItem,
            PassThrough, "update", <<>>)

LikeUpdate ==
  Operation("LikeUpdate", {"item", "update"}, CheckItem,
            PassThrough, "update", <<>>)

\* A flaw: the update is taken for one of the item's.
EditUpdateUnowned ==
  Operation("EditUpdate", {"item", "update"}, CheckItem,
            PassThrough, "update", <<>>)

\* The update is first found among the latest 100 of the checked item.
EditUpdate ==
  Operation("EditUpdate", {"item", "update"},
            <<"write", "resolve", "scopeFound", "guardFound",
              "scopedLookUp", "scopeFound", "owned">>,
            PassThrough, "update", <<>>)

DeleteUpdate ==
  Operation("DeleteUpdate", {"item", "update"},
            <<"delete", "write", "resolve", "scopeFound", "guardFound",
              "scopedLookUp", "scopeFound", "owned">>,
            PassThrough, "update", <<>>)

Operations ==
  {CreateWorkspace, CreateFolder, DeleteFolder, DeleteWorkspace,
   ListBoards, GetBoard, CreateBoard, DuplicateBoard, UpdateBoard,
   ArchiveBoard, AddBoardSubscribers, DeleteBoard,
   CreateGroup, UpdateGroup, DuplicateGroup, ArchiveGroup, DeleteGroup,
   CreateColumn, ChangeColumn, DeleteColumn, CreatePublicTag,
   CreateOrGetTag,
   CreateItem, CreateValidatedItem, CreateSubitem, CreateValidatedSubitem,
   UpdateItemValues, SetDetectedColumn, MoveItem, MoveItemToBoard,
   DuplicateItem, ArchiveItem, DeleteItem, CreateUpdate, AddFileToColumn, Notify,
   NotifyPost, AddFileToUpdate, ReplyToUpdate, LikeUpdate, EditUpdate, DeleteUpdate}
=============================================================================
