--------------------------- MODULE ProvisionBoard ---------------------------
(***************************************************************************)
(* Service.ProvisionBoard: a board from a template, in steps that only add.  *)
(* The board itself must succeed; after that a step that fails leaves a      *)
(* warning and the next one follows.  Every step is a mutation of its own,   *)
(* which may fail, or be carried out and reported as failed.  The client     *)
(* sends a mutation again when the answer is lost: the attempt it gives up   *)
(* may have been carried out, or may be later, beside the one that succeeds. *)
(***************************************************************************)
EXTENDS BoardContents

CONSTANTS
  TemplateColumns,   \* the columns of the template, in order
  TemplateGroups,    \* the group titles of the template, in order
  Seeds              \* the seed items: a name, a group, the columns it sets

Seed == [name : Name, group : Title \cup {NoTitle}, uses : SUBSET Column]

ASSUME TemplateIsValid ==
  /\ TemplateColumns \in Seq(Column) /\ IsInjective(TemplateColumns)
  /\ TemplateGroups \in Seq(Title) /\ IsInjective(TemplateGroups)
  /\ TemplateGroups # <<>>   \* each of the templates has some
  /\ Seeds \in Seq(Seed)
  /\ \A i, j \in DOMAIN Seeds : Seeds[i].name = Seeds[j].name => i = j
  /\ \A i \in DOMAIN Seeds : Seeds[i].name \notin OthersAdd \cup Copy
  /\ Copy \cap ToSet(TemplateColumns) = {}

VARIABLES
  step,         \* what comes next
  at,           \* the position in the list that is worked on
  existing,     \* the groups ListGroups found
  previous,     \* the group made last, or NoGroup
  groupIDs,     \* the group made for a title, or NoGroup
  known,        \* the columns seeds are validated against
  madeColumns, madeGroups, madeItems, warnings,   \* the result
  groupsListed  \* history: whether ListGroups answered

provisioning == <<step, at, existing, previous, groupIDs, known,
                  madeColumns, madeGroups, madeItems, warnings, groupsListed>>

Steps == {"board", "columns", "groups", "seeds", "done", "failed"}
Warning == [of : {"column", "group", "seed", "seeds"}, at : Nat]

ProvisionOK ==
  /\ step \in Steps
  /\ at \in 1..(Len(TemplateColumns) + Len(TemplateGroups) + Len(Seeds) + 1)
  /\ existing \in Seq(Group)
  /\ previous \in Group \cup {NoGroup}
  /\ groupIDs \in [Title -> Group \cup {NoGroup}]
  /\ known \subseteq Column
  /\ madeColumns \subseteq Column
  /\ madeGroups \in Seq([title : Title, id : Group])
  /\ madeItems \in Seq(Entry)
  /\ warnings \subseteq Warning
  /\ groupsListed \in BOOLEAN

ProvisionInit ==
  /\ columns = {} /\ groups = <<>> /\ items = <<>> /\ touched = {}
  /\ titleOf = [g \in Group |-> NoTitle] /\ late = [c \in Copy |-> Unsent]
  /\ step = "board" /\ at = 1
  /\ existing = <<>> /\ previous = NoGroup /\ known = {}
  /\ groupIDs = [t \in Title |-> NoGroup]
  /\ madeColumns = {} /\ madeGroups = <<>> /\ madeItems = <<>>
  /\ warnings = {}
  /\ groupsListed = FALSE

Warn(kind) == warnings' = warnings \cup {[of |-> kind, at |-> at]}

\* The board, through CreateBoard with its own checks.  monday puts a default
\* group on it.
MakeBoard ==
  /\ step = "board"
  /\ \/ step' = "columns" /\ groups' = <<Default>>
     \/ step' = "failed" /\ UNCHANGED groups
  /\ UNCHANGED <<columns, titleOf, items, touched, late, at, existing, previous, groupIDs,
                 known, madeColumns, madeGroups, madeItems, warnings, groupsListed>>

AtColumn == step = "columns" /\ at <= Len(TemplateColumns)

MakeColumn ==
  LET c == TemplateColumns[at]
  IN /\ AtColumn
     /\ columns' = columns \cup {c}
     /\ madeColumns' = madeColumns \cup {c}
     /\ at' = at + 1
     /\ UNCHANGED <<groups, titleOf, items, touched, late, step, existing, previous,
                    groupIDs, known, madeGroups, madeItems, warnings, groupsListed>>

ColumnFails ==
  /\ AtColumn
  /\ columns' \in {columns, columns \cup {TemplateColumns[at]}}
  /\ Warn("column")
  /\ at' = at + 1
  /\ UNCHANGED <<groups, titleOf, items, touched, late, step, existing, previous, groupIDs,
                 known, madeColumns, madeGroups, madeItems, groupsListed>>

\* The error of ListGroups is dropped: no answer counts as no group.
ListGroups ==
  /\ step = "columns" /\ at > Len(TemplateColumns)
  /\ \/ existing' = groups /\ groupsListed' = TRUE
     \/ existing' = <<>> /\ UNCHANGED groupsListed
  /\ step' = "groups" /\ at' = 1
  /\ UNCHANGED <<contents, previous, groupIDs, known,
                 madeColumns, madeGroups, madeItems, warnings>>

\* What one template group asks of monday: the first takes over the group that
\* is there, the others follow the one made last.
PlaceOf(id) == SelectInSeq(groups, LAMBDA g : g = id)
Rename(g, title) ==
  /\ titleOf' = [titleOf EXCEPT ![g] = title]
  /\ UNCHANGED groups
AddBelow(place, id, title) ==
  /\ groups' = InsertAt(groups, place + 1, id)
  /\ titleOf' = [titleOf EXCEPT ![id] = title]
Top == 0

\* A flaw: a group follows whatever stands last in the template, made or not.
GroupRequestByTemplate(i, after, id) ==
  LET title == TemplateGroups[i]
  IN IF i = 1 /\ existing # <<>> THEN Rename(existing[1], title)
     ELSE IF i > 1 /\ TemplateGroups[i - 1] \in ToSet(groups)
          THEN AddBelow(PlaceOf(TemplateGroups[i - 1]), id, title)
     ELSE AddBelow(Top, id, title)

\* A flaw: the group that is there is left alone.
GroupRequestAnew(i, after, id) ==
  AddBelow(IF after # NoGroup THEN PlaceOf(after) ELSE Top, id, TemplateGroups[i])

GroupRequest(i, after, id) ==
  LET title == TemplateGroups[i]
  IN IF i = 1 /\ existing # <<>> THEN Rename(existing[1], title)
     ELSE AddBelow(IF after # NoGroup THEN PlaceOf(after) ELSE Top, id, title)
ThisGroup == GroupRequest(at, previous, TemplateGroups[at])

\* A flaw: the answer to a renaming is not read.
GroupIDUnread == IF at = 1 /\ existing # <<>> THEN NoGroup ELSE TemplateGroups[at]

GroupID == IF at = 1 /\ existing # <<>> THEN existing[1] ELSE TemplateGroups[at]

AtGroup == step = "groups" /\ at <= Len(TemplateGroups)

MakeGroup ==
  LET title == TemplateGroups[at]
  IN /\ AtGroup
     /\ ThisGroup
     /\ previous' = GroupID
     /\ groupIDs' = [groupIDs EXCEPT ![title] = GroupID]
     /\ madeGroups' = Append(madeGroups, [title |-> title, id |-> GroupID])
     /\ at' = at + 1
     /\ UNCHANGED <<columns, items, touched, late, step, existing, known,
                    madeColumns, madeItems, warnings, groupsListed>>

\* A flaw: a failed group is passed over in silence.
GroupFailsSilently ==
  /\ AtGroup
  /\ at' = at + 1
  /\ UNCHANGED <<contents, step, existing, previous, groupIDs, known,
                 madeColumns, madeGroups, madeItems, warnings, groupsListed>>

\* A flaw: the group is remembered although its request failed.
GroupFailsRemembered ==
  /\ AtGroup
  /\ Warn("group")
  /\ previous' = GroupID
  /\ groupIDs' = [groupIDs EXCEPT ![TemplateGroups[at]] = GroupID]
  /\ madeGroups' = Append(madeGroups, [title |-> TemplateGroups[at], id |-> GroupID])
  /\ at' = at + 1
  /\ UNCHANGED <<contents, step, existing, known, madeColumns, madeItems, groupsListed>>

GroupFails ==
  /\ AtGroup
  /\ ThisGroup \/ UNCHANGED <<groups, titleOf>>
  /\ Warn("group")
  /\ at' = at + 1
  /\ UNCHANGED <<columns, items, touched, late, step, existing, previous, groupIDs, known,
                 madeColumns, madeGroups, madeItems, groupsListed>>

\* Seeds are validated against the columns the board has now, or skipped.
ListSeedColumns ==
  /\ step = "groups" /\ at > Len(TemplateGroups)
  /\ \/ /\ Seeds # <<>>
        /\ step' = "seeds" /\ known' = columns
        /\ UNCHANGED warnings
     \/ /\ Seeds # <<>>
        /\ step' = "done" /\ Warn("seeds")
        /\ UNCHANGED known
     \/ /\ Seeds = <<>>
        /\ step' = "done"
        /\ UNCHANGED <<known, warnings>>
  /\ at' = 1
  /\ UNCHANGED <<contents, existing, previous, groupIDs, madeColumns, madeGroups,
                 madeItems, groupsListed>>

AtSeed == step = "seeds" /\ at <= Len(Seeds)
SeedFits == Seeds[at].uses \subseteq known

\* monday puts an item without a group into the first one.
PlaceFor(title) ==
  IF title # NoTitle /\ groupIDs[title] # NoGroup THEN groupIDs[title] ELSE groups[1]

SeedEntry == [name |-> Seeds[at].name, group |-> PlaceFor(Seeds[at].group)]

PlantSeed ==
  /\ AtSeed /\ SeedFits
  /\ items' = Append(items, SeedEntry)
  /\ madeItems' = Append(madeItems, SeedEntry)
  /\ at' = at + 1
  /\ UNCHANGED <<columns, groups, titleOf, touched, late, step, existing, previous, groupIDs,
                 known, madeColumns, madeGroups, warnings, groupsListed>>

\* The plan is invalid, or the item cannot be created.
SeedFails ==
  /\ AtSeed
  /\ \/ UNCHANGED items
     \/ SeedFits /\ items' = Append(items, SeedEntry)
  /\ Warn("seed")
  /\ at' = at + 1
  /\ UNCHANGED <<columns, groups, titleOf, touched, late, step, existing, previous, groupIDs,
                 known, madeColumns, madeGroups, madeItems, groupsListed>>

\* The client gives up an attempt: it sends the request again, or reports the
\* failure when its attempts are used up.
Abandon ==
  \E c \in Copy, kind \in {"column", "group", "seed"} :
    /\ late[c] = Unsent
    /\ kind = "column" => AtColumn
    /\ kind = "group" => AtGroup
    /\ kind = "seed" => AtSeed /\ SeedFits
    /\ late' = [late EXCEPT ![c] =
         [of |-> kind, at |-> at, after |-> IF kind = "group" THEN previous ELSE NoGroup]]
    /\ UNCHANGED <<columns, groups, titleOf, items, touched, provisioning>>

\* monday carries out what was given up, before the call goes on or after it.
CarryOut ==
  \E c \in Copy :
    LET i == late[c].at IN
    /\ \/ /\ late[c].of = "column"
          /\ columns' \in {columns \cup {TemplateColumns[i]}, columns \cup {c}}
          /\ UNCHANGED <<groups, titleOf, items>>
       \/ /\ late[c].of = "group"
          /\ GroupRequest(i, late[c].after, c)
          /\ UNCHANGED <<columns, items>>
       \/ /\ late[c].of = "seed"
          /\ items' = Append(items, [name |-> c, group |-> PlaceFor(Seeds[i].group)])
          /\ UNCHANGED <<columns, groups, titleOf>>
    /\ late' = [late EXCEPT ![c] = Settled]
    /\ UNCHANGED <<touched, provisioning>>

Finish ==
  /\ step = "seeds" /\ at > Len(Seeds)
  /\ step' = "done"
  /\ UNCHANGED <<contents, at, existing, previous, groupIDs, known,
                 madeColumns, madeGroups, madeItems, warnings, groupsListed>>

ProvisionNext ==
  \/ MakeBoard
  \/ MakeColumn \/ ColumnFails
  \/ ListGroups \/ MakeGroup \/ GroupFails
  \/ ListSeedColumns \/ PlantSeed \/ SeedFails \/ Finish

\* ---- properties -------------------------------------------------------------

Warned(kind, i) == [of |-> kind, at |-> i] \in warnings
Skipped == \E w \in warnings : w.of = "seeds"

\* At the end each column, group and seed of the template is either in the
\* result or in the warnings, once: nothing is passed over in silence, whatever
\* failed before it.
EveryStepIsAccounted ==
  step = "done" =>
    /\ \A i \in DOMAIN TemplateColumns :
         (TemplateColumns[i] \in madeColumns) # Warned("column", i)
    /\ \A i \in DOMAIN TemplateGroups :
         (\E k \in DOMAIN madeGroups : madeGroups[k].title = TemplateGroups[i])
           # Warned("group", i)
    /\ \A i \in DOMAIN Seeds :
         (Seeds[i].name \in Names(madeItems)) # (Warned("seed", i) \/ Skipped)

\* What the result names is on the board: its columns, its groups under the
\* titles given, and its items, unless other users have touched them; and an
\* item whose seed names a group that was made is in that group.
ResultIsOnBoard ==
  /\ madeColumns \subseteq columns
  /\ \A k \in DOMAIN madeGroups :
       /\ madeGroups[k].id \in ToSet(groups)
       /\ titleOf[madeGroups[k].id] = madeGroups[k].title
  /\ \A k \in DOMAIN madeItems : madeItems[k].name \notin touched =>
       /\ madeItems[k] \in ToSet(items)
       /\ \A s \in DOMAIN Seeds : \A g \in DOMAIN madeGroups :
            /\ Seeds[s].name = madeItems[k].name
            /\ Seeds[s].group = madeGroups[g].title
            => madeItems[k].group = madeGroups[g].id

\* The groups that were made stand on the board in the order of the template,
\* whichever of them failed or were carried out without an answer.
GroupsKeepTemplateOrder ==
  \A i, j \in DOMAIN madeGroups :
    i < j => PlaceOf(madeGroups[i].id) < PlaceOf(madeGroups[j].id)

\* Without a warning the board is the template, if only ListGroups answered
\* (its error leaves no warning): apart from what abandoned attempts have made,
\* now or later, its columns are those of the template and its groups are those
\* of the template, in order, the default group included; every group, a double
\* too, has a title of the template, and no seed is missing.
CleanMeansTemplate ==
  step = "done" /\ warnings = {} /\ groupsListed =>
    /\ columns \ Copy = ToSet(TemplateColumns)
    /\ \E place \in [DOMAIN TemplateGroups -> DOMAIN groups] :
         /\ \A i, j \in DOMAIN place : i < j => place[i] < place[j]
         /\ \A i \in DOMAIN place : titleOf[groups[place[i]]] = TemplateGroups[i]
         /\ \A p \in DOMAIN groups :
              groups[p] \notin Copy <=> \E i \in DOMAIN place : place[i] = p
    /\ \A g \in ToSet(groups) : titleOf[g] \in ToSet(TemplateGroups)
    /\ {Seeds[s].name : s \in DOMAIN Seeds} \subseteq Names(items) \cup touched

=============================================================================
