---------------------------- MODULE ToolCatalog ----------------------------
(***************************************************************************)
(* The tools of the server: for each its category, what its ToolSpec says of *)
(* it, the method of the service its handler calls, and whether the handler   *)
(* passes on a confirmation or a dry run that the caller has to lift.         *)
(***************************************************************************)
NoMethod == "none"   \* the handler answers by itself

Tool(category, pair, readOnly, destructive, permanent) ==
  [name |-> pair[1], method |-> pair[2], category |-> category,
   readOnly |-> readOnly, destructive |-> destructive, permanent |-> permanent]

Reads(category, pairs) == {Tool(category, p, TRUE, FALSE, FALSE) : p \in pairs}
Writes(category, pairs) == {Tool(category, p, FALSE, FALSE, FALSE) : p \in pairs}
Destroys(category, pairs) == {Tool(category, p, FALSE, TRUE, FALSE) : p \in pairs}
Deletes(pairs) == {Tool("deletes", p, FALSE, TRUE, TRUE) : p \in pairs}

DiagnosticTools ==
  Reads("diagnostics", {
    <<"server_info", "GetWorkspace">>, <<"list_tool_catalog", NoMethod>>,
    <<"get_me", "Me">>, <<"get_api_status", "APIStatus">>})

WorkspaceTools ==
  Reads("workspaces", {
    <<"list_workspaces", "ListWorkspaces">>, <<"get_workspace", "GetWorkspace">>,
    <<"list_folders", "ListFolders">>})
  \cup Writes("workspaces", {
    <<"create_workspace", "CreateWorkspace">>, <<"create_folder", "CreateFolder">>})

BoardTools ==
  Reads("boards", {
    <<"list_boards", "ListBoards">>, <<"get_board", "GetBoard">>,
    <<"get_board_schema", "GetBoardSchema">>, <<"list_board_templates", NoMethod>>})
  \cup Writes("boards", {
    <<"create_board", "CreateBoard">>, <<"update_board", "UpdateBoard">>,
    <<"duplicate_board", "DuplicateBoard">>,
    <<"add_board_subscribers", "AddBoardSubscribers">>,
    <<"provision_board_from_template", "ProvisionBoard">>})
  \cup Destroys("boards", {<<"archive_board", "ArchiveBoard">>})

GroupTools ==
  Reads("groups", {<<"list_board_groups", "ListGroups">>})
  \cup Writes("groups", {
    <<"create_group", "CreateGroup">>, <<"update_group", "UpdateGroup">>,
    <<"duplicate_group", "DuplicateGroup">>})
  \cup Destroys("groups", {<<"archive_group", "ArchiveGroup">>})

ColumnTools ==
  Reads("columns", {
    <<"list_board_columns", "ListColumns">>, <<"describe_column_formats", NoMethod>>})
  \cup Writes("columns", {
    <<"create_column", "CreateColumn">>, <<"update_column", "ChangeColumn">>})

ItemReadTools ==
  Reads("items.read", {
    <<"list_items", "ListItems">>, <<"list_group_items", "ListItems">>,
    <<"search_items", "SearchItems">>,
    <<"find_items_by_column_values", "FindItemsByColumnValues">>,
    <<"get_item", "GetItem">>, <<"get_items", "GetItems">>,
    <<"list_subitems", "GetItem">>, <<"validate_column_values", "PlanValues">>})

ItemWriteTools ==
  Writes("items.write", {
    <<"create_item", "CreateItem">>, <<"create_subitem", "CreateSubitem">>,
    <<"update_item_column_values", "UpdateItemValues">>,
    <<"set_item_status", "SetDetectedColumn">>,
    <<"set_item_date", "SetDetectedColumn">>,
    <<"assign_item_people", "SetDetectedColumn">>,
    <<"rename_item", "RenameItem">>, <<"move_item", "MoveItem">>,
    <<"move_item_to_board", "MoveItemToBoard">>,
    <<"duplicate_item", "DuplicateItem">>})
  \cup Destroys("items.write", {<<"archive_item", "ArchiveItem">>})

BulkTools ==
  Writes("bulk", {
    <<"bulk_update_items", "BulkUpdateItems">>, <<"bulk_move_items", "BulkItemAction">>})
  \cup Destroys("bulk", {<<"bulk_archive_items", "BulkItemAction">>})

PeopleTools ==
  Reads("people", {
    <<"list_users", "ListUsers">>, <<"search_users", "ListUsers">>,
    <<"get_user", "GetUser">>, <<"list_teams", "ListTeams">>})

CollaborationTools ==
  Reads("collaboration", {
    <<"list_item_updates", "ListItemUpdates">>,
    <<"list_board_updates", "ListBoardUpdates">>})
  \cup Writes("collaboration", {
    <<"create_update", "CreateUpdate">>, <<"reply_to_update", "ReplyToUpdate">>,
    <<"edit_update", "EditUpdate">>, <<"like_update", "LikeUpdate">>,
    <<"add_file_to_update", "AddFileToUpdate">>,
    <<"add_file_to_column", "AddFileToColumn">>, <<"notify_user", "Notify">>})

TagTools ==
  Reads("tags", {<<"list_tags", "ListTags">>})
  \cup Writes("tags", {<<"create_or_get_tag", "CreateOrGetTag">>})

ReportTools ==
  Reads("reports", {
    <<"board_summary", "Snapshot">>, <<"column_distribution", "Snapshot">>,
    <<"workload_report", "Snapshot">>, <<"overdue_items", "Snapshot">>,
    <<"stale_items", "Snapshot">>, <<"daily_standup", "Snapshot">>,
    <<"board_health_report", "Snapshot">>, <<"export_board_markdown", "Snapshot">>,
    <<"export_board_csv", "Snapshot">>,
    <<"workspace_overview", "BuildWorkspaceOverview">>})

QualityTools ==
  Reads("items.read", {
    <<"list_items_all", "ListItems">>, <<"search_items_all", "SearchItems">>,
    <<"get_item_context", "GetItem">>, <<"item_integration_payload", "GetItem">>})
  \cup Reads("reports", {
    <<"find_due_soon_items", "ListItems">>, <<"find_unassigned_items", "ListItems">>,
    <<"find_blocked_items", "ListItems">>, <<"board_risk_report", "ListItems">>})
  \cup Reads("collaboration", {
    <<"item_activity_summary", "ListItemUpdates">>,
    <<"board_activity_summary", "ListBoardUpdates">>})
  \cup Reads("diagnostics", {<<"quality_diagnostics", NoMethod>>})

DeleteTools ==
  Deletes({
    <<"delete_item", "DeleteItem">>, <<"delete_group", "DeleteGroup">>,
    <<"delete_board", "DeleteBoard">>, <<"delete_column", "DeleteColumn">>,
    <<"delete_update", "DeleteUpdate">>, <<"delete_folder", "DeleteFolder">>,
    <<"delete_workspace", "DeleteWorkspace">>})

Tools ==
  DiagnosticTools \cup WorkspaceTools \cup BoardTools \cup GroupTools
  \cup ColumnTools \cup ItemReadTools \cup ItemWriteTools \cup BulkTools
  \cup PeopleTools \cup CollaborationTools \cup TagTools \cup ReportTools
  \cup QualityTools \cup DeleteTools

ToolNames == {t.name : t \in Tools}

\* ---- what the methods of the service do -----------------------------------------

\* Those that ask requireDelete, which takes level full and a confirmation.
DeletingMethods ==
  {"DeleteItem", "DeleteGroup", "DeleteBoard", "DeleteColumn", "DeleteUpdate",
   "DeleteFolder", "DeleteWorkspace"}
\* Those that change nothing unless they are asked to execute.
PlanningMethods == {"BulkUpdateItems", "BulkItemAction"}
\* The others that ask the write guard, which refuses them at level read.
ChangingMethods ==
  {"CreateWorkspace", "CreateFolder", "CreateBoard", "UpdateBoard", "ArchiveBoard",
   "DuplicateBoard", "AddBoardSubscribers", "ProvisionBoard", "CreateGroup",
   "UpdateGroup", "DuplicateGroup", "ArchiveGroup", "CreateColumn", "ChangeColumn",
   "CreateItem", "CreateSubitem", "UpdateItemValues", "SetDetectedColumn",
   "RenameItem", "MoveItem", "MoveItemToBoard", "DuplicateItem", "ArchiveItem",
   "CreateUpdate", "ReplyToUpdate", "EditUpdate", "LikeUpdate", "AddFileToUpdate",
   "AddFileToColumn", "Notify", "CreateOrGetTag"}
\* Those that want confirm=true.
ConfirmedMethods == DeletingMethods \cup {"ArchiveBoard", "ArchiveGroup"}
=============================================================================
