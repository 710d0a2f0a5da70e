-------------------------- MODULE MCScopedService --------------------------
(***************************************************************************)
(* Small instances of ScopedService.  Boards home and annex are on the       *)
(* allowlist and in the scope, away is neither, fresh can be created, and sub *)
(* and awaySub are the subitems boards of home and away.  Each configuration *)
(* names the operations it serves.                                           *)
(***************************************************************************)
EXTENDS ScopedService, TLC

CONSTANTS home, annex, away, fresh, sub, awaySub,   \* boards
          w1, w2,                   \* workspaces
          onHome, onAway, later,    \* items
          uHome, uAway              \* updates

MCHomeOf ==
  [b \in Board |-> IF b \in {home, annex, sub} THEN w1
                   ELSE IF b \in {away, awaySub} THEN w2 ELSE Unborn]
MCPlaceOf ==
  [i \in Item |-> IF i = onHome THEN home ELSE IF i = onAway THEN away ELSE Unborn]
MCSubBoard ==
  [b \in Board |-> IF b = home /\ sub \in Board THEN sub
                   ELSE IF b = away /\ awaySub \in Board THEN awaySub
                   ELSE NoBoard]
MCItemOf == [u \in Update |-> IF u = uHome THEN onHome ELSE onAway]

\* ---- policies ---------------------------------------------------------------

\* One workspace, and in it the listed boards and what the process creates.
Strict == [level |-> "full", scope |-> w1, boards |-> {home, annex} \cap Board,
           workspaces |-> {w1}]
\* The same without permanent deletes.
Daily == [Strict EXCEPT !.level = "write"]
Allowlisted == [Strict EXCEPT !.scope = NoWorkspace]
ScopedOnly == [Strict EXCEPT !.boards = {}, !.workspaces = {}]
Open == [ScopedOnly EXCEPT !.scope = NoWorkspace]
\* The allowlist names a board outside the scope, which alone keeps it out.
Overlapping == [Strict EXCEPT !.boards = {home, sub, away}]
ReadOnly == [Strict EXCEPT !.level = "read"]

FencedPolicies == {Strict, Allowlisted, ScopedOnly}
AllPolicies == {Strict, Daily, Allowlisted, ScopedOnly, Open, ReadOnly}
AllowlistedOrScoped == {Allowlisted, ScopedOnly}
ScopedPolicy == {ScopedOnly}
OverlappingPolicy == {Overlapping}

\* Calls are interchangeable.
Interchangeable == Permutations(Req)

\* ---- operations -------------------------------------------------------------

Resolved == Operations \ Unresolved

\* Without subitems, whose board other users can move unseen.
ResolvedAlone == Resolved \ {CreateSubitem, CreateValidatedSubitem}

BoardOperations == {ListBoards, CreateBoard, DuplicateBoard, UpdateBoard, DeleteBoard, DeleteFolder}
ItemOperations == {UpdateItemValues, MoveItemToBoard, DeleteItem, EditUpdate}
SubitemOperations == {CreateSubitem, CreateValidatedSubitem, MoveItemToBoard}
OnlyReplyToUpdate == {ReplyToUpdate}
=============================================================================
