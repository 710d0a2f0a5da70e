------------------------- MODULE ServerAccessProofs -------------------------
(***************************************************************************)
(* Nothing reaches monday that the settings forbid, for every configuration  *)
(* and any number of overlapping requests.  A request is let in, its token   *)
(* put into its context and its tool looked up once; the invariant keeps     *)
(* those decisions with the request, and the lemmas on the tool catalog and  *)
(* on the profile tie them to what the operator has stated.                 *)
(***************************************************************************)
EXTENDS ServerAccess, WellFoundedInduction, TLAPS

-----------------------------------------------------------------------------
\* The catalog of tools.

Mutating == ChangingMethods \cup PlanningMethods \cup DeletingMethods

\* The tools that change something, and those that delete for good.
DeletingNames ==
  {"delete_item", "delete_group", "delete_board", "delete_column", "delete_update",
   "delete_folder", "delete_workspace"}

MutatingNames ==
  {"create_workspace", "create_folder", "create_board", "update_board",
   "duplicate_board", "add_board_subscribers", "provision_board_from_template",
   "archive_board", "create_group", "update_group", "duplicate_group",
   "archive_group", "create_column", "update_column", "create_item",
   "create_subitem", "update_item_column_values", "set_item_status",
   "set_item_date", "assign_item_people", "rename_item", "move_item",
   "move_item_to_board", "duplicate_item", "archive_item", "bulk_update_items",
   "bulk_move_items", "bulk_archive_items", "create_update", "reply_to_update",
   "edit_update", "like_update", "add_file_to_update", "add_file_to_column",
   "notify_user", "create_or_get_tag"} \cup DeletingNames

Catalogued(t) ==
  /\ t.readOnly \in BOOLEAN /\ t.permanent \in BOOLEAN
  /\ t.readOnly <=> t.method \notin Mutating
  /\ t.readOnly <=> t.name \notin MutatingNames
  /\ t.permanent <=> t.method \in DeletingMethods
  /\ t.permanent <=> t.name \in DeletingNames
  /\ t.category = "deletes" => t.method \in DeletingMethods
  /\ t.category = "bulk" => t.method \in PlanningMethods

\* The three kinds of methods are apart.
LEMMA MethodsAreApart ==
  /\ DeletingMethods \cap (ChangingMethods \cup PlanningMethods) = {}
  /\ PlanningMethods \cap ChangingMethods = {}
BY DEF DeletingMethods, PlanningMethods, ChangingMethods

LEMMA DeletingNamesMutate == DeletingNames \subseteq MutatingNames
BY DEF MutatingNames

\* The pairs that a category may list as reading, and as changing.
Reading(pairs) == \A p \in pairs : p[1] \notin MutatingNames /\ p[2] \notin Mutating

Changing(pairs, category) ==
  \A p \in pairs :
    /\ p[1] \in MutatingNames \ DeletingNames
    /\ p[2] \in Mutating \ DeletingMethods
    /\ category = "bulk" => p[2] \in PlanningMethods

\* The tools that a list of reading pairs stands for read, by name and by method.
LEMMA ReadsCatalogued ==
  ASSUME NEW category, category \notin {"deletes", "bulk"}, NEW pairs, Reading(pairs),
         NEW t \in Reads(category, pairs)
  PROVE  Catalogued(t)
<1>1. PICK p \in pairs : t = Tool(category, p, TRUE, FALSE, FALSE)
  BY DEF Reads
<1>2. p[1] \notin DeletingNames /\ p[2] \notin DeletingMethods
  BY DeletingNamesMutate DEF Reading, Mutating
<1>3. QED
  BY <1>1, <1>2 DEF Tool, Catalogued, Reading

\* The tools that a list of changing pairs stands for change, and delete nothing.
LEMMA ChangesCatalogued ==
  ASSUME NEW category, category # "deletes", NEW pairs, Changing(pairs, category),
         NEW t \in Writes(category, pairs) \cup Destroys(category, pairs)
  PROVE  Catalogued(t)
<1>1. PICK p \in pairs, destructive \in BOOLEAN :
        t = Tool(category, p, FALSE, destructive, FALSE)
  BY DEF Writes, Destroys
<1>2. QED
  BY <1>1 DEF Tool, Catalogued, Changing

\* The tools of each category are as their flags say.
LEMMA DeletesCatalogued ==
  ASSUME NEW t \in DeleteTools
  PROVE  Catalogued(t)
<1>1. PICK p \in {<<"delete_item", "DeleteItem">>, <<"delete_group", "DeleteGroup">>,
                  <<"delete_board", "DeleteBoard">>, <<"delete_column", "DeleteColumn">>,
                  <<"delete_update", "DeleteUpdate">>, <<"delete_folder", "DeleteFolder">>,
                  <<"delete_workspace", "DeleteWorkspace">>} :
             t = Tool("deletes", p, FALSE, TRUE, TRUE)
  BY DEF DeleteTools, Deletes
<1>2. p[1] \in DeletingNames /\ p[2] \in DeletingMethods
  BY DEF DeletingNames, DeletingMethods
<1>3. p[1] \in MutatingNames /\ p[2] \in Mutating
  BY <1>2, DeletingNamesMutate DEF Mutating
<1>4. QED
  BY <1>1, <1>2, <1>3 DEF Tool, Catalogued

LEMMA DiagnosticCatalogued ==
  ASSUME NEW t \in DiagnosticTools
  PROVE  Catalogued(t)
<1> DEFINE pairs == {<<"server_info", "GetWorkspace">>, <<"list_tool_catalog", NoMethod>>,
                     <<"get_me", "Me">>, <<"get_api_status", "APIStatus">>}
<1>1. Reading(pairs)
  BY DEF Reading, NoMethod, MutatingNames, DeletingNames, Mutating,
         ChangingMethods, PlanningMethods, DeletingMethods
<1>2. t \in Reads("diagnostics", pairs)
  BY DEF DiagnosticTools
<1> HIDE DEF pairs
<1>3. QED
  BY <1>1, <1>2, ReadsCatalogued

LEMMA WorkspaceCatalogued ==
  ASSUME NEW t \in WorkspaceTools
  PROVE  Catalogued(t)
<1> DEFINE reads == {<<"list_workspaces", "ListWorkspaces">>,
                     <<"get_workspace", "GetWorkspace">>,
                     <<"list_folders", "ListFolders">>}
           writes == {<<"create_workspace", "CreateWorkspace">>,
                      <<"create_folder", "CreateFolder">>}
<1>1. Reading(reads)
  BY DEF Reading, NoMethod, MutatingNames, DeletingNames, Mutating,
         ChangingMethods, PlanningMethods, DeletingMethods
<1>2. Changing(writes, "workspaces")
  BY DEF Changing, NoMethod, MutatingNames, DeletingNames, Mutating,
         ChangingMethods, PlanningMethods, DeletingMethods
<1>3. \/ t \in Reads("workspaces", reads)
       \/ t \in Writes("workspaces", writes)
  BY DEF WorkspaceTools
<1> HIDE DEF reads, writes
<1>4. QED
  BY <1>1, <1>2, <1>3, ReadsCatalogued, ChangesCatalogued

LEMMA BoardCatalogued ==
  ASSUME NEW t \in BoardTools
  PROVE  Catalogued(t)
<1> DEFINE reads == {<<"list_boards", "ListBoards">>, <<"get_board", "GetBoard">>,
                     <<"get_board_schema", "GetBoardSchema">>,
                     <<"list_board_templates", NoMethod>>}
           writes == {<<"create_board", "CreateBoard">>,
                      <<"update_board", "UpdateBoard">>,
                      <<"duplicate_board", "DuplicateBoard">>,
                      <<"add_board_subscribers", "AddBoardSubscribers">>,
                      <<"provision_board_from_template", "ProvisionBoard">>}
           destroys == {<<"archive_board", "ArchiveBoard">>}
<1>1. Reading(reads)
  BY DEF Reading, NoMethod, MutatingNames, DeletingNames, Mutating,
         ChangingMethods, PlanningMethods, DeletingMethods
<1>2. Changing(writes, "boards")
  BY DEF Changing, NoMethod, MutatingNames, DeletingNames, Mutating,
         ChangingMethods, PlanningMethods, DeletingMethods
<1>3. Changing(destroys, "boards")
  BY DEF Changing, NoMethod, MutatingNames, DeletingNames, Mutating,
         ChangingMethods, PlanningMethods, DeletingMethods
<1>4. \/ t \in Reads("boards", reads)
       \/ t \in Writes("boards", writes)
       \/ t \in Destroys("boards", destroys)
  BY DEF BoardTools
<1> HIDE DEF reads, writes, destroys
<1>5. QED
  BY <1>1, <1>2, <1>3, <1>4, ReadsCatalogued, ChangesCatalogued

LEMMA GroupCatalogued ==
  ASSUME NEW t \in GroupTools
  PROVE  Catalogued(t)
<1> DEFINE reads == {<<"list_board_groups", "ListGroups">>}
           writes == {<<"create_group", "CreateGroup">>,
                      <<"update_group", "UpdateGroup">>,
                      <<"duplicate_group", "DuplicateGroup">>}
           destroys == {<<"archive_group", "ArchiveGroup">>}
<1>1. Reading(reads)
  BY DEF Reading, NoMethod, MutatingNames, DeletingNames, Mutating,
         ChangingMethods, PlanningMethods, DeletingMethods
<1>2. Changing(writes, "groups")
  BY DEF Changing, NoMethod, MutatingNames, DeletingNames, Mutating,
         ChangingMethods, PlanningMethods, DeletingMethods
<1>3. Changing(destroys, "groups")
  BY DEF Changing, NoMethod, MutatingNames, DeletingNames, Mutating,
         ChangingMethods, PlanningMethods, DeletingMethods
<1>4. \/ t \in Reads("groups", reads)
       \/ t \in Writes("groups", writes)
       \/ t \in Destroys("groups", destroys)
  BY DEF GroupTools
<1> HIDE DEF reads, writes, destroys
<1>5. QED
  BY <1>1, <1>2, <1>3, <1>4, ReadsCatalogued, ChangesCatalogued

LEMMA ColumnCatalogued ==
  ASSUME NEW t \in ColumnTools
  PROVE  Catalogued(t)
<1> DEFINE reads == {<<"list_board_columns", "ListColumns">>,
                     <<"describe_column_formats", NoMethod>>}
           writes == {<<"create_column", "CreateColumn">>,
                      <<"update_column", "ChangeColumn">>}
<1>1. Reading(reads)
  BY DEF Reading, NoMethod, MutatingNames, DeletingNames, Mutating,
         ChangingMethods, PlanningMethods, DeletingMethods
<1>2. Changing(writes, "columns")
  BY DEF Changing, NoMethod, MutatingNames, DeletingNames, Mutating,
         ChangingMethods, PlanningMethods, DeletingMethods
<1>3. \/ t \in Reads("columns", reads)
       \/ t \in Writes("columns", writes)
  BY DEF ColumnTools
<1> HIDE DEF reads, writes
<1>4. QED
  BY <1>1, <1>2, <1>3, ReadsCatalogued, ChangesCatalogued

LEMMA ItemReadCatalogued ==
  ASSUME NEW t \in ItemReadTools
  PROVE  Catalogued(t)
<1> DEFINE reads == {<<"list_items", "ListItems">>, <<"list_group_items", "ListItems">>,
                     <<"search_items", "SearchItems">>,
                     <<"find_items_by_column_values", "FindItemsByColumnValues">>,
                     <<"get_item", "GetItem">>, <<"get_items", "GetItems">>,
                     <<"list_subitems", "GetItem">>,
                     <<"validate_column_values", "PlanValues">>}
<1>1. Reading(reads)
  BY DEF Reading, NoMethod, MutatingNames, DeletingNames, Mutating,
         ChangingMethods, PlanningMethods, DeletingMethods
<1>2. t \in Reads("items.read", reads)
  BY DEF ItemReadTools
<1> HIDE DEF reads
<1>3. QED
  BY <1>1, <1>2, ReadsCatalogued

LEMMA ItemWriteCatalogued ==
  ASSUME NEW t \in ItemWriteTools
  PROVE  Catalogued(t)
<1> DEFINE writes == {<<"create_item", "CreateItem">>,
                      <<"create_subitem", "CreateSubitem">>,
                      <<"update_item_column_values", "UpdateItemValues">>,
                      <<"set_item_status", "SetDetectedColumn">>,
                      <<"set_item_date", "SetDetectedColumn">>,
                      <<"assign_item_people", "SetDetectedColumn">>,
                      <<"rename_item", "RenameItem">>, <<"move_item", "MoveItem">>,
                      <<"move_item_to_board", "MoveItemToBoard">>,
                      <<"duplicate_item", "DuplicateItem">>}
           destroys == {<<"archive_item", "ArchiveItem">>}
<1>1. Changing(writes, "items.write")
  BY DEF Changing, NoMethod, MutatingNames, DeletingNames, Mutating,
         ChangingMethods, PlanningMethods, DeletingMethods
<1>2. Changing(destroys, "items.write")
  BY DEF Changing, NoMethod, MutatingNames, DeletingNames, Mutating,
         ChangingMethods, PlanningMethods, DeletingMethods
<1>3. \/ t \in Writes("items.write", writes)
       \/ t \in Destroys("items.write", destroys)
  BY DEF ItemWriteTools
<1> HIDE DEF writes, destroys
<1>4. QED
  BY <1>1, <1>2, <1>3, ChangesCatalogued

LEMMA BulkCatalogued ==
  ASSUME NEW t \in BulkTools
  PROVE  Catalogued(t)
<1> DEFINE writes == {<<"bulk_update_items", "BulkUpdateItems">>,
                      <<"bulk_move_items", "BulkItemAction">>}
           destroys == {<<"bulk_archive_items", "BulkItemAction">>}
<1>1. Changing(writes, "bulk")
  BY DEF Changing, NoMethod, MutatingNames, DeletingNames, Mutating,
         ChangingMethods, PlanningMethods, DeletingMethods
<1>2. Changing(destroys, "bulk")
  BY DEF Changing, NoMethod, MutatingNames, DeletingNames, Mutating,
         ChangingMethods, PlanningMethods, DeletingMethods
<1>3. \/ t \in Writes("bulk", writes)
       \/ t \in Destroys("bulk", destroys)
  BY DEF BulkTools
<1> HIDE DEF writes, destroys
<1>4. QED
  BY <1>1, <1>2, <1>3, ChangesCatalogued

LEMMA PeopleCatalogued ==
  ASSUME NEW t \in PeopleTools
  PROVE  Catalogued(t)
<1> DEFINE reads == {<<"list_users", "ListUsers">>, <<"search_users", "ListUsers">>,
                     <<"get_user", "GetUser">>, <<"list_teams", "ListTeams">>}
<1>1. Reading(reads)
  BY DEF Reading, NoMethod, MutatingNames, DeletingNames, Mutating,
         ChangingMethods, PlanningMethods, DeletingMethods
<1>2. t \in Reads("people", reads)
  BY DEF PeopleTools
<1> HIDE DEF reads
<1>3. QED
  BY <1>1, <1>2, ReadsCatalogued

LEMMA CollaborationCatalogued ==
  ASSUME NEW t \in CollaborationTools
  PROVE  Catalogued(t)
<1> DEFINE reads == {<<"list_item_updates", "ListItemUpdates">>,
                     <<"list_board_updates", "ListBoardUpdates">>}
           writes == {<<"create_update", "CreateUpdate">>,
                      <<"reply_to_update", "ReplyToUpdate">>,
                      <<"edit_update", "EditUpdate">>, <<"like_update", "LikeUpdate">>,
                      <<"add_file_to_update", "AddFileToUpdate">>,
                      <<"add_file_to_column", "AddFileToColumn">>,
                      <<"notify_user", "Notify">>}
<1>1. Reading(reads)
  BY DEF Reading, NoMethod, MutatingNames, DeletingNames, Mutating,
         ChangingMethods, PlanningMethods, DeletingMethods
<1>2. Changing(writes, "collaboration")
  BY DEF Changing, NoMethod, MutatingNames, DeletingNames, Mutating,
         ChangingMethods, PlanningMethods, DeletingMethods
<1>3. \/ t \in Reads("collaboration", reads)
       \/ t \in Writes("collaboration", writes)
  BY DEF CollaborationTools
<1> HIDE DEF reads, writes
<1>4. QED
  BY <1>1, <1>2, <1>3, ReadsCatalogued, ChangesCatalogued

LEMMA TagCatalogued ==
  ASSUME NEW t \in TagTools
  PROVE  Catalogued(t)
<1> DEFINE reads == {<<"list_tags", "ListTags">>}
           writes == {<<"create_or_get_tag", "CreateOrGetTag">>}
<1>1. Reading(reads)
  BY DEF Reading, NoMethod, MutatingNames, DeletingNames, Mutating,
         ChangingMethods, PlanningMethods, DeletingMethods
<1>2. Changing(writes, "tags")
  BY DEF Changing, NoMethod, MutatingNames, DeletingNames, Mutating,
         ChangingMethods, PlanningMethods, DeletingMethods
<1>3. \/ t \in Reads("tags", reads)
       \/ t \in Writes("tags", writes)
  BY DEF TagTools
<1> HIDE DEF reads, writes
<1>4. QED
  BY <1>1, <1>2, <1>3, ReadsCatalogued, ChangesCatalogued

LEMMA ReportCatalogued ==
  ASSUME NEW t \in ReportTools
  PROVE  Catalogued(t)
<1> DEFINE reads == {<<"board_summary", "Snapshot">>,
                     <<"column_distribution", "Snapshot">>,
                     <<"workload_report", "Snapshot">>, <<"overdue_items", "Snapshot">>,
                     <<"stale_items", "Snapshot">>, <<"daily_standup", "Snapshot">>,
                     <<"board_health_report", "Snapshot">>,
                     <<"export_board_markdown", "Snapshot">>,
                     <<"export_board_csv", "Snapshot">>,
                     <<"workspace_overview", "BuildWorkspaceOverview">>}
<1>1. Reading(reads)
  BY DEF Reading, NoMethod, MutatingNames, DeletingNames, Mutating,
         ChangingMethods, PlanningMethods, DeletingMethods
<1>2. t \in Reads("reports", reads)
  BY DEF ReportTools
<1> HIDE DEF reads
<1>3. QED
  BY <1>1, <1>2, ReadsCatalogued

LEMMA QualityCatalogued ==
  ASSUME NEW t \in QualityTools
  PROVE  Catalogued(t)
<1> DEFINE reads1 == {<<"list_items_all", "ListItems">>,
                      <<"search_items_all", "SearchItems">>,
                      <<"get_item_context", "GetItem">>,
                      <<"item_integration_payload", "GetItem">>}
           reads2 == {<<"find_due_soon_items", "ListItems">>,
                      <<"find_unassigned_items", "ListItems">>,
                      <<"find_blocked_items", "ListItems">>,
                      <<"board_risk_report", "ListItems">>}
           reads3 == {<<"item_activity_summary", "ListItemUpdates">>,
                      <<"board_activity_summary", "ListBoardUpdates">>}
           reads4 == {<<"quality_diagnostics", NoMethod>>}
<1>1. Reading(reads1)
  BY DEF Reading, NoMethod, MutatingNames, DeletingNames, Mutating,
         ChangingMethods, PlanningMethods, DeletingMethods
<1>2. Reading(reads2)
  BY DEF Reading, NoMethod, MutatingNames, DeletingNames, Mutating,
         ChangingMethods, PlanningMethods, DeletingMethods
<1>3. Reading(reads3)
  BY DEF Reading, NoMethod, MutatingNames, DeletingNames, Mutating,
         ChangingMethods, PlanningMethods, DeletingMethods
<1>4. Reading(reads4)
  BY DEF Reading, NoMethod, MutatingNames, DeletingNames, Mutating,
         ChangingMethods, PlanningMethods, DeletingMethods
<1>5. \/ t \in Reads("items.read", reads1)
       \/ t \in Reads("reports", reads2)
       \/ t \in Reads("collaboration", reads3)
       \/ t \in Reads("diagnostics", reads4)
  BY DEF QualityTools
<1> HIDE DEF reads1, reads2, reads3, reads4
<1>6. QED
  BY <1>1, <1>2, <1>3, <1>4, <1>5, ReadsCatalogued

LEMMA ToolsCatalogued == \A t \in Tools : Catalogued(t)
BY DiagnosticCatalogued, WorkspaceCatalogued, BoardCatalogued, GroupCatalogued,
   ColumnCatalogued, ItemReadCatalogued, ItemWriteCatalogued, BulkCatalogued,
   PeopleCatalogued, CollaborationCatalogued, TagCatalogued, ReportCatalogued,
   QualityCatalogued, DeletesCatalogued DEF Tools

-----------------------------------------------------------------------------
\* The profile.

LEMMA GreatestExists ==
  ASSUME NEW n \in Nat, NEW S \in SUBSET (1..n), S # {}
  PROVE  \E k \in S : \A j \in S : j <= k
<1> DEFINE T == {n - k : k \in S}
           Less == OpToRel(<, Nat)
<1>1. T \subseteq Nat /\ T # {}
  <2>1. \A k \in S : k \in Int /\ n - k \in Nat
    OBVIOUS
  <2>2. QED
    BY <2>1
<1>2. PICK x \in T : \A y \in T : <<y, x>> \notin Less
  <2>1. IsWellFoundedOn(Less, Nat)
    BY NatLessThanWellFounded
  <2> HIDE DEF T, Less
  <2>2. QED
    BY <1>1, <2>1, WFMin
<1>3. \A y \in T : ~(y < x)
  <2>1. \A y \in Nat : y < x => <<y, x>> \in Less
    BY <1>1, <1>2 DEF OpToRel
  <2>2. QED
    BY <1>1, <1>2, <2>1
<1>4. PICK k \in S : x = n - k
  BY <1>2
<1>5. ASSUME NEW j \in S PROVE j <= k
  <2>1. j \in 1..n /\ k \in 1..n
    OBVIOUS
  <2>2. ~(n - j < n - k)
    BY <1>3, <1>4
  <2>3. QED
    BY <2>1, <2>2
<1>6. QED
  BY <1>5

\* The line that counts is the last one for a key, as the loader reads it and
\* as the operator means it.
LastLine(profile, key) ==
  LET keyed == {k \in DOMAIN profile.lines : profile.lines[k].key = key}
  IN CHOOSE k \in keyed : \A j \in keyed : j <= k

LEMMA LastLineCounts ==
  ASSUME NEW profile, profile.lines \in Seq(ToSet(profile.lines)),
         NEW key, key \in Settings(profile)
  PROVE  SettingOf(profile, key) = profile.lines[LastLine(profile, key)].value
<1> DEFINE keyed == {k \in DOMAIN profile.lines : profile.lines[k].key = key}
<1>1. Len(profile.lines) \in Nat /\ DOMAIN profile.lines = 1..Len(profile.lines)
  OBVIOUS
<1>2. keyed \in SUBSET (1..Len(profile.lines)) /\ keyed # {}
  BY <1>1 DEF Settings
<1>3. PICK k \in keyed : \A j \in keyed : j <= k
  <2> HIDE DEF keyed
  <2>1. QED
    BY <1>1, <1>2, GreatestExists
<1>4. ASSUME NEW m \in keyed, \A j \in keyed : j <= m PROVE m = k
  BY <1>1, <1>3, <1>4
<1>5. SettingOf(profile, key) = profile.lines[Max(keyed)].value
  BY <1>1, <1>2 DEF SettingOf, SelectLastInSeq
<1>6. Max(keyed) = k
  <2>1. \A m \in keyed : m \in Int
    BY <1>1
  <2>2. k \in keyed /\ \A j \in keyed : k >= j
    BY <1>3, <2>1
  <2>3. ASSUME NEW m \in keyed, \A j \in keyed : m >= j PROVE m = k
    BY <1>3, <2>1, <2>3
  <2> HIDE DEF keyed
  <2>4. QED
    BY <2>2, <2>3 DEF Max
<1>7. LastLine(profile, key) = k
  <2>1. LastLine(profile, key) = CHOOSE m \in keyed : \A j \in keyed : j <= m
    BY DEF LastLine
  <2> HIDE DEF keyed
  <2>2. QED
    BY <1>3, <1>4, <2>1
<1>8. QED
  BY <1>5, <1>6, <1>7

\* What the server reads for a key is what the operator has stated.
LEMMA StatedIsGot ==
  ASSUME NEW key, case \in Cases
  PROVE  Stated(key) = get(source, key)
<1>1. CASE Sets(source.profile, key)
  <2>1. source.profile.named /\ key \in Settings(source.profile)
    BY <1>1 DEF Sets
  <2>2. source.profile.lines \in Seq(ToSet(source.profile.lines))
    BY <2>1, ProfilesAreLines DEF source
  <2>3. {k \in DOMAIN source.profile.lines : source.profile.lines[k].key = key} # {}
    BY <2>1 DEF Settings
  <2>4. Stated(key) = source.profile.lines[LastLine(source.profile, key)].value
    BY <2>1, <2>3 DEF Stated, LastLine
  <2>5. QED
    BY <1>1, <2>1, <2>2, <2>4, LastLineCounts DEF get
<1>2. CASE ~Sets(source.profile, key)
  <2>1. source.profile.named =>
          {k \in DOMAIN source.profile.lines : source.profile.lines[k].key = key} = {}
    BY <1>2 DEF Sets, Settings
  <2>2. QED
    BY <1>2, <2>1 DEF Stated, get, lookup
<1>3. QED
  BY <1>1, <1>2

-----------------------------------------------------------------------------
\* The inductive invariant.

\* The tools on offer are those the settings leave.
OfferedInv ==
  /\ phase \in {"starting", "serving", "stopped"}
  /\ phase = "serving" =>
       /\ Starts
       /\ registered = {t.name : t \in {u \in Tools : ~Hidden(u, Cfg.level, Cfg.tools)}}
  /\ phase # "serving" => effects = {} /\ \A r \in Req : stage[r] = "arriving"

\* What was decided about a request stays with it.
RequestInv(r) ==
  /\ stage[r] \in {"arriving", "rejected", "admitted", "running", "answered"}
  /\ stage[r] \in {"admitted", "running", "answered"} =>
       /\ Accepts(r)
       /\ carried[r] = IF Guarded /\ Cfg.authMode = "request" THEN Caller(r).bearer ELSE Blank
  /\ stage[r] = "running" => Ask(r).tool \in registered

EffectInv(e) ==
  /\ e.req \in Req /\ stage[e.req] \in {"running", "answered"}
  /\ Ask(e.req).tool \in registered
  /\ e.token = TokenFor(e.req) /\ e.token # Blank
  /\ e.kind = "change" => Carries(e.req)

AccessInv ==
  /\ case \in Cases
  /\ stage = [r \in Req |-> stage[r]] /\ carried = [r \in Req |-> carried[r]]
  /\ OfferedInv
  /\ \A r \in Req : RequestInv(r)
  /\ \A e \in effects : EffectInv(e)

\* What a case decides, no step changes.
LEMMA SettingsStay ==
  ASSUME case' = case
  PROVE  /\ Cfg' = Cfg
         /\ Starts' <=> Starts
         /\ Guarded' <=> Guarded
         /\ \A r : /\ Ask(r)' = Ask(r)
                   /\ Caller(r)' = Caller(r)
                   /\ AskedTool(r)' = AskedTool(r)
                   /\ Accepts(r)' <=> Accepts(r)
                   /\ Carries(r)' <=> Carries(r)
<1>1. source' = source /\ Cfg' = Cfg
  BY DEF Cfg, source
<1>2. \A r : Ask(r)' = Ask(r) /\ Caller(r)' = Caller(r)
  BY DEF Ask, Caller
<1>3. (Starts' <=> Starts) /\ (Guarded' <=> Guarded)
  BY <1>1 DEF Starts, Guarded, OverHTTP
<1>4. \A r : AskedTool(r)' = AskedTool(r)
  BY <1>2 DEF AskedTool
<1>5. \A r : Accepts(r)' <=> Accepts(r)
  BY <1>1, <1>2, <1>3 DEF Accepts, validClientKey, allowedPrefix
<1>6. \A r : Carries(r)' <=> Carries(r)
  BY <1>1, <1>2, <1>4 DEF Carries, dryRun
<1>7. QED
  BY <1>1, <1>2, <1>3, <1>4, <1>5, <1>6

\* A request whose record is as before is as it was.
LEMMA RequestStays ==
  ASSUME case' = case, NEW r, RequestInv(r), stage'[r] = stage[r],
         carried'[r] = carried[r], registered' = registered
  PROVE  RequestInv(r)'
BY SettingsStay DEF RequestInv

\* So is what was sent for it, as long as its call has not ended.
LEMMA EffectStays ==
  ASSUME case' = case, NEW e, EffectInv(e), carried'[e.req] = carried[e.req],
         stage'[e.req] \in {"running", "answered"}, registered' = registered
  PROVE  EffectInv(e)'
<1>1. TokenFor(e.req)' = TokenFor(e.req)
  BY SettingsStay DEF TokenFor
<1>2. QED
  BY <1>1, SettingsStay DEF EffectInv

LEMMA AccessInit == Init => AccessInv
BY DEF Init, AccessInv, OfferedInv, RequestInv

LEMMA StartKeepsAccess ==
  ASSUME AccessInv, Start \/ StartFails
  PROVE  AccessInv'
<1>1. /\ case' = case /\ stage' = stage /\ carried' = carried /\ effects' = effects
      /\ phase = "starting"
  BY DEF Start, StartFails
<1>2. effects' = {} /\ \A r \in Req : stage'[r] = "arriving"
  BY <1>1 DEF AccessInv, OfferedInv
<1>3. OfferedInv'
  <2>1. CASE Start
    BY <2>1, <1>1, <1>2, SettingsStay DEF Start, OfferedInv
  <2>2. CASE StartFails
    BY <2>2, <1>2 DEF StartFails, OfferedInv
  <2>3. QED
    BY <2>1, <2>2
<1>4. QED
  BY <1>1, <1>2, <1>3 DEF AccessInv, RequestInv

\* The steps of one request, which change only what belongs to it.
LEMMA RequestStepKeepsAccess ==
  ASSUME AccessInv, NEW r \in Req, phase = "serving", stage[r] # "answered",
         NEW newStage, NEW newToken,
         stage' = [stage EXCEPT ![r] = newStage],
         carried' = [carried EXCEPT ![r] = newToken],
         UNCHANGED <<case, phase, registered, effects>>,
         RequestInv(r)',
         stage[r] = "running" => newStage = "answered" /\ newToken = carried[r]
  PROVE  AccessInv'
<1>1. DOMAIN stage = Req /\ DOMAIN carried = Req
  BY DEF AccessInv
<1>2. OfferedInv'
  BY SettingsStay DEF AccessInv, OfferedInv
<1>3. ASSUME NEW q \in Req PROVE RequestInv(q)'
  <2>1. CASE q = r
    BY <2>1
  <2>2. CASE q # r
    BY <2>2, <1>1, RequestStays DEF AccessInv
  <2>3. QED
    BY <2>1, <2>2
<1>4. ASSUME NEW e \in effects PROVE EffectInv(e)'
  <2>1. EffectInv(e) /\ e.req \in Req /\ stage[e.req] \in {"running", "answered"}
    BY DEF AccessInv, EffectInv
  <2>2. carried'[e.req] = carried[e.req] /\ stage'[e.req] \in {"running", "answered"}
    BY <2>1, <1>1
  <2>3. QED
    BY <2>1, <2>2, EffectStays
<1>5. QED
  BY <1>1, <1>2, <1>3, <1>4 DEF AccessInv

LEMMA AdmitKeepsAccess ==
  ASSUME AccessInv, NEW r \in Req, Admit(r)
  PROVE  AccessInv'
<1> DEFINE taken == IF Guarded /\ Cfg.authMode = "request" THEN Caller(r).bearer ELSE Blank
<1>1. DOMAIN stage = Req /\ DOMAIN carried = Req
  BY DEF AccessInv
<1>2. RequestInv(r)'
  <2>1. stage'[r] = "admitted" /\ carried'[r] = taken /\ case' = case /\ Accepts(r)
    BY <1>1 DEF Admit
  <2>2. QED
    BY <2>1, SettingsStay DEF RequestInv
<1>3. QED
  BY <1>2, RequestStepKeepsAccess DEF Admit

LEMMA RejectKeepsAccess ==
  ASSUME AccessInv, NEW r \in Req, Reject(r)
  PROVE  AccessInv'
<1>1. DOMAIN stage = Req /\ DOMAIN carried = Req
  BY DEF AccessInv
<1>2. RequestInv(r)'
  BY <1>1 DEF Reject, RequestInv
<1>3. carried' = [carried EXCEPT ![r] = carried[r]]
  BY DEF AccessInv, Reject
<1>4. QED
  BY <1>2, <1>3, RequestStepKeepsAccess DEF Reject

LEMMA CallToolKeepsAccess ==
  ASSUME AccessInv, NEW r \in Req, CallTool(r)
  PROVE  AccessInv'
<1>1. DOMAIN stage = Req /\ DOMAIN carried = Req
  BY DEF AccessInv
<1>2. RequestInv(r)'
  <2>1. /\ stage'[r] \in {"running", "answered"} /\ case' = case
        /\ carried' = carried /\ registered' = registered
        /\ stage'[r] = "running" => Ask(r).tool \in registered
    BY <1>1 DEF CallTool
  <2>2. RequestInv(r) /\ stage[r] = "admitted"
    BY DEF AccessInv, CallTool
  <2>3. QED
    BY <2>1, <2>2, SettingsStay DEF RequestInv
<1>3. carried' = [carried EXCEPT ![r] = carried[r]]
  BY DEF AccessInv, CallTool
<1>4. phase = "serving"
  BY DEF AccessInv, OfferedInv, CallTool
<1>5. QED
  BY <1>2, <1>3, <1>4, RequestStepKeepsAccess DEF CallTool

LEMMA AnswerKeepsAccess ==
  ASSUME AccessInv, NEW r \in Req, Answer(r)
  PROVE  AccessInv'
<1>1. DOMAIN stage = Req /\ DOMAIN carried = Req
  BY DEF AccessInv
<1>2. RequestInv(r)'
  <2>1. stage'[r] = "answered" /\ case' = case /\ carried' = carried
    BY <1>1 DEF Answer
  <2>2. RequestInv(r) /\ stage[r] = "running"
    BY DEF AccessInv, Answer
  <2>3. QED
    BY <2>1, <2>2, SettingsStay DEF RequestInv
<1>3. carried' = [carried EXCEPT ![r] = carried[r]]
  BY DEF AccessInv, Answer
<1>4. phase = "serving"
  BY DEF AccessInv, OfferedInv, Answer
<1>5. QED
  BY <1>2, <1>3, <1>4, RequestStepKeepsAccess DEF Answer

LEMMA SendKeepsAccess ==
  ASSUME AccessInv, NEW r \in Req, Read(r) \/ Change(r)
  PROVE  AccessInv'
<1>1. PICK kind : Send(r, kind) /\ (kind = "change" => Carries(r))
  <2>1. CASE Read(r)
    BY <2>1 DEF Read
  <2>2. CASE Change(r)
    BY <2>2 DEF Change
  <2>3. QED
    BY <2>1, <2>2
<1> DEFINE e == [req |-> r, kind |-> kind, token |-> TokenFor(r)]
<1>2. /\ case' = case /\ stage' = stage /\ carried' = carried /\ phase' = phase
      /\ registered' = registered /\ effects' = effects \cup {e}
      /\ stage[r] = "running" /\ TokenFor(r) # Blank
  BY <1>1 DEF Send
<1>3. EffectInv(e)
  BY <1>1, <1>2 DEF AccessInv, RequestInv, EffectInv
<1>4. \A x \in effects' : EffectInv(x) /\ stage[x.req] \in {"running", "answered"}
  <2> HIDE DEF e
  <2>1. QED
    BY <1>2, <1>3 DEF AccessInv, EffectInv
<1>5. \A x \in effects' : EffectInv(x)'
  BY <1>2, <1>4, EffectStays
<1>6. \A q \in Req : RequestInv(q)'
  BY <1>2, RequestStays DEF AccessInv
<1>7. OfferedInv'
  <2>1. phase = "serving"
    BY <1>2 DEF AccessInv, OfferedInv
  <2>2. QED
    BY <2>1, <1>2, SettingsStay DEF AccessInv, OfferedInv
<1>8. QED
  BY <1>2, <1>5, <1>6, <1>7 DEF AccessInv

LEMMA StutterKeepsAccess ==
  ASSUME AccessInv, UNCHANGED vars
  PROVE  AccessInv'
<1>1. /\ case' = case /\ stage' = stage /\ carried' = carried /\ phase' = phase
      /\ registered' = registered /\ effects' = effects
  BY DEF vars
<1>2. OfferedInv'
  BY <1>1, SettingsStay DEF AccessInv, OfferedInv
<1>3. \A q \in Req : RequestInv(q)'
  BY <1>1, RequestStays DEF AccessInv
<1>4. \A e \in effects : EffectInv(e)'
  BY <1>1, EffectStays DEF AccessInv, EffectInv
<1>5. QED
  BY <1>1, <1>2, <1>3, <1>4 DEF AccessInv

LEMMA AccessStep == AccessInv /\ [Next]_vars => AccessInv'
<1> SUFFICES ASSUME AccessInv, [Next]_vars PROVE AccessInv'
  OBVIOUS
<1>1. CASE Start \/ StartFails
  BY <1>1, StartKeepsAccess
<1>2. ASSUME NEW r \in Req, Admit(r) \/ Reject(r) PROVE AccessInv'
  BY <1>2, AdmitKeepsAccess, RejectKeepsAccess
<1>3. ASSUME NEW r \in Req, CallTool(r) \/ Answer(r) PROVE AccessInv'
  BY <1>3, CallToolKeepsAccess, AnswerKeepsAccess
<1>4. ASSUME NEW r \in Req, Read(r) \/ Change(r) PROVE AccessInv'
  BY <1>4, SendKeepsAccess
<1>5. CASE UNCHANGED vars
  BY <1>5, StutterKeepsAccess
<1>6. QED
  BY <1>1, <1>2, <1>3, <1>4, <1>5 DEF Next

\* What was decided once stays with the process and with each of its requests.
THEOREM AccessIsInvariant == Spec => []AccessInv
BY AccessInit, AccessStep, PTL DEF Spec

-----------------------------------------------------------------------------
\* What a started server was told.

LEMMA LevelIsStated ==
  ASSUME case \in Cases, Starts
  PROVE  /\ Cfg.level \in {"read", "write", "full"}
         /\ Stated("MCP_ACCESS_LEVEL") =
              IF get(source, "MCP_ACCESS_LEVEL") = Blank THEN Blank ELSE <<Cfg.level>>
         /\ get(source, "MCP_ACCESS_LEVEL") = Blank => Cfg.level = "write"
<1>1. Stated("MCP_ACCESS_LEVEL") = get(source, "MCP_ACCESS_LEVEL")
  BY StatedIsGot
<1>2. /\ parseAccessLevel(source) \in {<<"read">>, <<"write">>, <<"full">>}
      /\ Cfg.level = parseAccessLevel(source)[1]
  BY DEF Starts, Loads, Cfg, config
<1>3. parseAccessLevel(source) = IF get(source, "MCP_ACCESS_LEVEL") = Blank
                                 THEN <<"write">> ELSE get(source, "MCP_ACCESS_LEVEL")
  BY DEF parseAccessLevel, valueOrDefault
<1>4. QED
  BY <1>1, <1>2, <1>3

LEMMA ToolsAreStated ==
  ASSUME case \in Cases
  PROVE  Cfg.tools = ToSet(Stated("MCP_WRITE_TOOL_ALLOWLIST")) \ {Nothing}
<1>1. Stated("MCP_WRITE_TOOL_ALLOWLIST") = get(source, "MCP_WRITE_TOOL_ALLOWLIST")
  BY StatedIsGot
<1>2. QED
  BY <1>1 DEF Cfg, config, parseList, Listed

\* No profile sets the prefixes: a file that tried would stop the start.
LEMMA PrefixesAreStated ==
  ASSUME case \in Cases, Starts
  PROVE  Cfg.prefixes = ToSet(Stated("MCP_ALLOWED_TOKEN_PREFIXES")) \ {Nothing}
<1>1. ~Sets(source.profile, "MCP_ALLOWED_TOKEN_PREFIXES")
  <2>1. source.profile.named => Settings(source.profile) \subseteq profileKeys
    BY DEF Starts, Loads, readProfile
  <2>2. "MCP_ALLOWED_TOKEN_PREFIXES" \notin profileKeys
    BY DEF profileKeys
  <2>3. QED
    BY <2>1, <2>2 DEF Sets
<1>2. Stated("MCP_ALLOWED_TOKEN_PREFIXES") = lookup(source, "MCP_ALLOWED_TOKEN_PREFIXES")
  BY <1>1, StatedIsGot DEF get
<1>3. QED
  BY <1>2 DEF Cfg, config, parseTokenPrefixes, Listed

LEMMA CredentialsAreStated ==
  ASSUME case \in Cases, Starts
  PROVE  /\ Cfg.authMode \in {"env", "request"}
         /\ Cfg.authMode = "env" => Cfg.apiToken = token(source)
         /\ Cfg.authMode = "env" /\ OverHTTP =>
              Stated("MCP_ALLOW_SHARED_TOKEN") = <<"true">>
<1>1. Stated("MCP_ALLOW_SHARED_TOKEN") = get(source, "MCP_ALLOW_SHARED_TOKEN")
  BY StatedIsGot
<1>2. TransportFits(source)
  BY DEF Starts, Loads
<1>3. /\ parseAuthMode(source) \in {<<"env">>, <<"request">>}
      /\ Transport(source) \in {<<"stdio">>, <<"streamable-http">>}
  BY <1>2 DEF TransportFits
<1>4. /\ Cfg.authMode = parseAuthMode(source)[1]
      /\ Cfg.transport = Transport(source)[1]
      /\ Cfg.apiToken = IF parseAuthMode(source) = <<"env">> THEN token(source) ELSE Blank
  BY DEF Cfg, config
<1>5. Cfg.authMode \in {"env", "request"}
  BY <1>3, <1>4
<1>6. Cfg.authMode = "env" => parseAuthMode(source) = <<"env">>
  <2>1. parseAuthMode(source) = <<"request">> => Cfg.authMode = "request"
    BY <1>4
  <2>2. QED
    BY <1>3, <2>1
<1>7. OverHTTP => Transport(source) = <<"streamable-http">>
  <2>1. Transport(source) = <<"stdio">> => Cfg.transport = "stdio"
    BY <1>4
  <2>2. QED
    BY <1>3, <2>1 DEF OverHTTP
<1>8. QED
  BY <1>1, <1>2, <1>4, <1>5, <1>6, <1>7 DEF TransportFits, SharedToken

\* The tool a request asks for is one of the catalog.
LEMMA AskedToolIsATool ==
  ASSUME case \in Cases, NEW r \in Req
  PROVE  AskedTool(r) \in Tools /\ AskedTool(r).name = Ask(r).tool
<1>1. \E t \in Tools : t.name = Ask(r).tool
  BY CasesAreComplete DEF Ask, ToolNames
<1>2. QED
  BY <1>1 DEF AskedTool

\* What hides one tool of a name hides them all.
LEMMA OfferedMeansNotHidden ==
  ASSUME OfferedInv, phase = "serving", NEW t \in Tools
  PROVE  t.name \in registered <=> ~Hidden(t, Cfg.level, Cfg.tools)
<1>1. ASSUME NEW u \in Tools, u.name = t.name
      PROVE  Hidden(u, Cfg.level, Cfg.tools) <=> Hidden(t, Cfg.level, Cfg.tools)
  <2>1. Catalogued(u) /\ Catalogued(t)
    BY ToolsCatalogued
  <2>2. (u.readOnly <=> t.readOnly) /\ (u.permanent <=> t.permanent)
    BY <1>1, <2>1 DEF Catalogued
  <2>3. QED
    BY <1>1, <2>2 DEF Hidden
<1>2. t.name \in registered <=>
        \E u \in Tools : ~Hidden(u, Cfg.level, Cfg.tools) /\ u.name = t.name
  BY DEF OfferedInv
<1>3. QED
  BY <1>1, <1>2

-----------------------------------------------------------------------------
\* The properties.

LEMMA AccessImpliesHidden == AccessInv => HiddenExactlyWhatIsRefused
<1> SUFFICES ASSUME AccessInv, phase = "serving", NEW t \in Tools
             PROVE  t.name \in registered <=>
                      \/ t.method \notin Mutating
                      \/ /\ Executes(t.method, Cfg.level)
                         /\ Cfg.tools # {} => t.name \in Cfg.tools
  BY DEF HiddenExactlyWhatIsRefused, Mutating
<1>1. Cfg.level \in {"read", "write", "full"}
  BY LevelIsStated DEF AccessInv, OfferedInv
<1>2. Catalogued(t)
  BY ToolsCatalogued
<1>3. t.name \in registered <=> ~Hidden(t, Cfg.level, Cfg.tools)
  BY OfferedMeansNotHidden DEF AccessInv
<1>4. CASE t.readOnly
  BY <1>2, <1>3, <1>4 DEF Catalogued, Hidden, Mutating
<1>5. CASE ~t.readOnly
  <2>1. t.method \in Mutating
    BY <1>2, <1>5 DEF Catalogued
  <2>2. Executes(t.method, Cfg.level) <=>
          Cfg.level # "read" /\ (t.permanent => Cfg.level = "full")
    BY <1>1, <1>2, <2>1, MethodsAreApart DEF Catalogued, Executes, Mutating
  <2>3. QED
    BY <1>3, <1>5, <2>1, <2>2 DEF Hidden
<1>6. QED
  BY <1>4, <1>5

LEMMA AccessImpliesSettings == AccessInv => EffectsWithinSettings
<1> SUFFICES ASSUME AccessInv, NEW e \in effects, e.kind = "change"
             PROVE  LET t == AskedTool(e.req)
                        level == Stated("MCP_ACCESS_LEVEL")
                        named == ToSet(Stated("MCP_WRITE_TOOL_ALLOWLIST")) \ {Nothing}
                    IN /\ level # <<"read">>
                       /\ named # {} => t.name \in named
                       /\ t.category = "deletes" => level = <<"full">> /\ Ask(e.req).confirm
                       /\ t.category = "bulk" => Ask(e.req).dry = "false"
  BY DEF EffectsWithinSettings
<1> DEFINE t == AskedTool(e.req)
           level == Stated("MCP_ACCESS_LEVEL")
           named == ToSet(Stated("MCP_WRITE_TOOL_ALLOWLIST")) \ {Nothing}
<1>1. /\ case \in Cases /\ EffectInv(e) /\ e.req \in Req
      /\ phase = "serving" /\ Starts
  BY DEF AccessInv, OfferedInv, EffectInv
<1>2. /\ Executes(t.method, Cfg.level)
      /\ t.method \in ConfirmedMethods => Ask(e.req).confirm
      /\ t.method \in PlanningMethods => ~dryRun(e.req)
  BY <1>1 DEF EffectInv, Carries
<1>3. t \in Tools /\ t.name \in registered /\ Catalogued(t)
  BY <1>1, AskedToolIsATool, ToolsCatalogued DEF EffectInv
<1> HIDE DEF t
<1>4. t.method \in Mutating /\ Cfg.level # "read"
  BY <1>2 DEF Executes, Mutating
<1>5. level # <<"read">>
  <2>1. level = Blank \/ level = <<Cfg.level>>
    BY <1>1, LevelIsStated
  <2>2. Blank # <<"read">> /\ <<Cfg.level>> # <<"read">>
    BY <1>4 DEF Blank
  <2>3. QED
    BY <2>1, <2>2
<1>6. named # {} => t.name \in named
  <2>1. ~t.readOnly /\ ~Hidden(t, Cfg.level, Cfg.tools)
    BY <1>1, <1>3, <1>4, OfferedMeansNotHidden DEF AccessInv, Catalogued
  <2>2. Cfg.tools = named
    BY <1>1, ToolsAreStated
  <2>3. QED
    BY <2>1, <2>2 DEF Hidden
<1>7. ASSUME t.category = "deletes" PROVE level = <<"full">> /\ Ask(e.req).confirm
  <2>1. t.method \in DeletingMethods
    BY <1>3, <1>7 DEF Catalogued
  <2>2. Cfg.level = "full"
    BY <1>2, <2>1, MethodsAreApart DEF Executes
  <2>3. level = <<"full">>
    BY <1>1, <2>2, LevelIsStated
  <2>4. QED
    BY <1>2, <2>1, <2>3 DEF ConfirmedMethods
<1>8. ASSUME t.category = "bulk" PROVE Ask(e.req).dry = "false"
  BY <1>2, <1>3, <1>8 DEF Catalogued, dryRun
<1>9. QED
  BY <1>5, <1>6, <1>7, <1>8 DEF t

LEMMA AccessImpliesOwnCredential == AccessInv => OwnCredential
<1> SUFFICES ASSUME AccessInv, NEW e \in effects
             PROVE  LET own == e.token = Caller(e.req).bearer
                        permitted == ToSet(Stated("MCP_ALLOWED_TOKEN_PREFIXES")) \ {Nothing}
                    IN \/ /\ Cfg.authMode = "request" /\ own /\ OverHTTP
                          /\ permitted # {} => PrefixesOf[e.token] \cap permitted # {}
                          /\ Cfg.clientKey # Blank => Caller(e.req).key = Cfg.clientKey
                       \/ /\ Cfg.authMode = "env" /\ e.token = token(source)
                          /\ OverHTTP =>
                               /\ Stated("MCP_ALLOW_SHARED_TOKEN") = <<"true">>
                               /\ Cfg.clientKey # Blank => Caller(e.req).key = Cfg.clientKey
  BY DEF OwnCredential
<1> DEFINE permitted == ToSet(Stated("MCP_ALLOWED_TOKEN_PREFIXES")) \ {Nothing}
<1>1. /\ case \in Cases /\ EffectInv(e) /\ e.req \in Req /\ Starts
      /\ RequestInv(e.req) /\ stage[e.req] \in {"running", "answered"}
  BY DEF AccessInv, OfferedInv, EffectInv
<1>2. /\ Accepts(e.req)
      /\ carried[e.req] = IF Guarded /\ Cfg.authMode = "request"
                          THEN Caller(e.req).bearer ELSE Blank
  BY <1>1 DEF RequestInv
<1>3. e.token = TokenFor(e.req) /\ e.token # Blank
  BY <1>1 DEF EffectInv
<1>4. permitted = Cfg.prefixes
  BY <1>1, PrefixesAreStated
<1>5. OverHTTP /\ Cfg.clientKey # Blank => Caller(e.req).key = Cfg.clientKey
  BY <1>2 DEF Accepts, Guarded, validClientKey
<1> HIDE DEF permitted
<1>6. CASE Cfg.authMode = "request"
  <2>1. e.token = Caller(e.req).bearer /\ OverHTTP /\ Guarded
    BY <1>2, <1>3, <1>6 DEF TokenFor, Guarded
  <2>2. allowedPrefix(e.req)
    BY <1>2, <1>6, <2>1 DEF Accepts
  <2>3. permitted # {} => PrefixesOf[e.token] \cap permitted # {}
    BY <1>4, <2>1, <2>2 DEF allowedPrefix
  <2>4. QED
    BY <1>5, <1>6, <2>1, <2>3 DEF permitted
<1>7. CASE Cfg.authMode = "env"
  <2>1. e.token = token(source)
    BY <1>1, <1>3, <1>7, CredentialsAreStated DEF TokenFor
  <2>2. OverHTTP => Stated("MCP_ALLOW_SHARED_TOKEN") = <<"true">>
    BY <1>1, <1>7, CredentialsAreStated
  <2>3. QED
    BY <1>5, <1>7, <2>1, <2>2
<1>8. QED
  BY <1>1, <1>6, <1>7, CredentialsAreStated

\* Whatever the sources and the requests, nothing is sent to monday that the
\* operator's level, list of tools and confirmations forbid (guard.go, deletes.go,
\* registry.go 56-73).
THEOREM SettingsBind == Spec => []EffectsWithinSettings
BY AccessIsInvariant, AccessImpliesSettings, PTL

\* However the requests overlap, each call to monday carries its own caller's
\* token, or the server's where sharing it was agreed (transport.go 67-87).
THEOREM CredentialsAreOwn == Spec => []OwnCredential
BY AccessIsInvariant, AccessImpliesOwnCredential, PTL

\* A client is shown exactly what the service would carry out for it at the
\* server's level (registry.go 56-73).
THEOREM CatalogAgreesWithGuards == Spec => []HiddenExactlyWhatIsRefused
BY AccessIsInvariant, AccessImpliesHidden, PTL

=============================================================================
