--------------------------- MODULE BulkOperations ---------------------------
(***************************************************************************)
(* The bulk methods of the service: BulkUpdateItems sets column values on   *)
(* several items of one board, BulkItemAction moves or archives several     *)
(* items.  A call reads once, judges every row, and then sends row by row,  *)
(* going on after a row that fails, while other users of the account move   *)
(* and delete items.                                                        *)
(*                                                                         *)
(* A row is sent through the port as a call of its own (RemoteCall): it may *)
(* be refused, under a scope also by ScopedPort; it may be applied and      *)
(* reported as failed; and it may be applied after that.                    *)
(***************************************************************************)
EXTENDS Integers, Sequences, FiniteSets

CONSTANTS
  Call,          \* bulk calls
  Asked,         \* the requests they may make
  Item, NoItem,  \* item IDs, and an ID that is not one
  Board, Gone,   \* boards, and the place of an item that is not there
  Values,        \* column values a row may carry
  NoValues,      \* a row without values
  FitsOn,        \* FitsOn[v]: the boards whose columns accept v
  Allowed,       \* the boards the write guard admits
  MaxBulkItems,  \* the most rows of a call
  PlaceOf        \* PlaceOf[i]: the board i starts on, or Gone

Kinds == {"update", "move", "archive"}
Row == [item : Item \cup {NoItem}, values : Values \cup {NoValues}]
Request == [kind : Kinds, board : Board, rows : Seq(Row), dry : BOOLEAN]

ASSUME AskedAreRequests == Asked \subseteq Request
ASSUME BulkNames ==
  NoItem \notin Item /\ Gone \notin Board /\ NoValues \notin Values
ASSUME FitsAreBoards == FitsOn \in [Values -> SUBSET Board]
ASSUME AllowedAreBoards == Allowed \subseteq Board
ASSUME BulkBound == MaxBulkItems \in Nat
ASSUME PlacesArePossible == PlaceOf \in [Item -> Board \cup {Gone}]

VARIABLES
  request,    \* what the call was asked
  phase,      \* where it is: new, writing, returned, refused
  status,     \* the status of each row, as the result reports it
  next,       \* the row the loop has come to
  succeeded, failed,   \* the counters of the result
  boardOf,    \* monday: the board an item is on
  sent,       \* history: the rows handed to the port
  lost,       \* history: those whose answer was lost
  applied,    \* history: those monday has carried out
  moved       \* history: the items other users have moved or deleted

report == <<request, phase, status, next, succeeded, failed>>
vars == <<report, boardOf, sent, lost, applied, moved>>

Phases == {"new", "writing", "returned", "refused"}
Written == {"updated", "moved", "archived"}
Statuses == {"planned", "invalid", "failed"} \cup Written

TypeOK ==
  /\ request \in [Call -> Asked]
  /\ phase \in [Call -> Phases]
  /\ status \in [Call -> Seq(Statuses)]
  /\ next \in [Call -> 1..(MaxBulkItems + 1)]
  /\ succeeded \in [Call -> 0..MaxBulkItems]
  /\ failed \in [Call -> 0..MaxBulkItems]
  /\ boardOf \in [Item -> Board \cup {Gone}]
  /\ sent \in [Call -> SUBSET (1..MaxBulkItems)]
  /\ lost \in [Call -> SUBSET (1..MaxBulkItems)]
  /\ applied \in [Call -> SUBSET (1..MaxBulkItems)]
  /\ moved \subseteq Item

Init ==
  /\ request \in [Call -> Asked]
  /\ phase = [c \in Call |-> "new"]
  /\ status = [c \in Call |-> <<>>]
  /\ next = [c \in Call |-> 1]
  /\ succeeded = [c \in Call |-> 0]
  /\ failed = [c \in Call |-> 0]
  /\ boardOf = PlaceOf
  /\ sent = [c \in Call |-> {}]
  /\ lost = [c \in Call |-> {}]
  /\ applied = [c \in Call |-> {}]
  /\ moved = {}

account == <<boardOf, moved>>
history == <<sent, lost, applied>>

\* ---- judging ----------------------------------------------------------------

\* The rows that have the given status.
RowsThat(rows, state) == {i \in DOMAIN rows : rows[i] = state}
countStatus(rows, state) == Cardinality(RowsThat(rows, state))

\* A flaw: one row too many is let through.
RefusableLate(q) ==
  \/ Len(q.rows) = 0 \/ Len(q.rows) > MaxBulkItems + 1
  \/ (q.kind = "update" /\ ~q.dry /\ q.board \notin Allowed)
  \/ q.kind # "update" /\ \E i \in DOMAIN q.rows : q.rows[i].item = NoItem

\* What is refused before anything is read.  BulkUpdateItems looks at the IDs
\* of the rows later, and asks the guard about the board only when it will write.
Refusable(q) ==
  \/ Len(q.rows) = 0 \/ Len(q.rows) > MaxBulkItems
  \/ (q.kind = "update" /\ ~q.dry /\ q.board \notin Allowed)
  \/ q.kind # "update" /\ \E i \in DOMAIN q.rows : q.rows[i].item = NoItem

\* A row of an update is judged by the columns of the board the call names.
UpdateRowFits(q, row) ==
  /\ row.item # NoItem
  /\ row.values # NoValues
  /\ q.board \in FitsOn[row.values]
JudgeUpdateRow(q, row) == IF UpdateRowFits(q, row) THEN "planned" ELSE "invalid"

\* A flaw: the guard is asked about the board the call names.
JudgeActionRowByName(q, row) ==
  IF boardOf[row.item] = Gone THEN "invalid"
  ELSE IF ~q.dry /\ q.board \notin Allowed THEN "failed"
  ELSE "planned"

\* A row of an action is judged by the board its item is on; a dry run does not
\* ask the guard.
JudgeActionRow(q, row) ==
  IF boardOf[row.item] = Gone THEN "invalid"
  ELSE IF ~q.dry /\ boardOf[row.item] \notin Allowed THEN "failed"
  ELSE "planned"

Judge(q, row) ==
  IF q.kind = "update" THEN JudgeUpdateRow(q, row) ELSE JudgeActionRow(q, row)

\* A flaw: the valid rows are written although another is not.
OnlyDryPlanned(q, rows) == q.dry

\* A dry run writes nothing, nor does an update with an invalid row.
OnlyPlanned(q, rows) ==
  q.dry \/ (q.kind = "update" /\ RowsThat(rows, "invalid") # {})

\* ---- the call ---------------------------------------------------------------

Refuse(c) ==
  /\ phase[c] = "new"
  /\ Refusable(request[c])
  /\ phase' = [phase EXCEPT ![c] = "refused"]
  /\ UNCHANGED <<request, status, next, succeeded, failed, account, history>>

\* The columns of the board, or the items, cannot be read.
ReadFails(c) ==
  /\ phase[c] = "new"
  /\ ~Refusable(request[c])
  /\ phase' = [phase EXCEPT ![c] = "refused"]
  /\ UNCHANGED <<request, status, next, succeeded, failed, account, history>>

\* One read, of the columns or of all items, and the verdict on every row.
Plan(c) ==
  LET q == request[c]
      judged == [i \in 1..Len(q.rows) |-> Judge(q, q.rows[i])]
  IN /\ phase[c] = "new"
     /\ ~Refusable(q)
     /\ status' = [status EXCEPT ![c] = judged]
     /\ IF OnlyPlanned(q, judged)
        THEN /\ phase' = [phase EXCEPT ![c] = "returned"]
             /\ failed' = [failed EXCEPT ![c] = countStatus(judged, "invalid")]
        ELSE /\ phase' = [phase EXCEPT ![c] = "writing"]
             /\ UNCHANGED failed
     /\ UNCHANGED <<request, next, succeeded, account, history>>

AtRow(c) == phase[c] = "writing" /\ next[c] <= Len(request[c].rows)
Planned(c) == status[c][next[c]] = "planned"

\* A row that was judged unfit is counted and passed over.
SkipRow(c) ==
  /\ AtRow(c)
  /\ ~Planned(c)
  /\ failed' = [failed EXCEPT ![c] = @ + 1]
  /\ next' = [next EXCEPT ![c] = @ + 1]
  /\ UNCHANGED <<request, phase, status, succeeded, account, history>>

Done(kind) ==
  CASE kind = "update"  -> "updated"
    [] kind = "move"    -> "moved"
    [] kind = "archive" -> "archived"

\* monday carries a row out; values sent with a board the item is not on are
\* discarded, which monday reports as success.
Takes(q, i) ==
  /\ boardOf[q.rows[i].item] # Gone
  /\ q.kind = "update" => boardOf[q.rows[i].item] = q.board

\* The row is sent and monday answers.
WriteRow(c) ==
  LET q == request[c]
      i == next[c]
  IN /\ AtRow(c)
     /\ Planned(c)
     /\ boardOf[q.rows[i].item] # Gone
     /\ sent' = [sent EXCEPT ![c] = @ \cup {i}]
     /\ applied' = [applied EXCEPT ![c] = IF Takes(q, i) THEN @ \cup {i} ELSE @]
     /\ status' = [status EXCEPT ![c][i] = Done(q.kind)]
     /\ succeeded' = [succeeded EXCEPT ![c] = @ + 1]
     /\ next' = [next EXCEPT ![c] = i + 1]
     /\ UNCHANGED <<request, phase, failed, lost, account>>

\* A flaw: a row that fails is tried again.
RowRetried(c) ==
  LET i == next[c]
  IN /\ AtRow(c)
     /\ Planned(c)
     /\ sent' = [sent EXCEPT ![c] = @ \cup {i}]
     /\ UNCHANGED <<report, lost, applied, account>>

\* A flaw: a row that fails ends the loop and is not counted.
RowEndsLoop(c) ==
  LET i == next[c]
  IN /\ AtRow(c)
     /\ Planned(c)
     /\ sent' = [sent EXCEPT ![c] = @ \cup {i}]
     /\ status' = [status EXCEPT ![c][i] = "failed"]
     /\ phase' = [phase EXCEPT ![c] = "returned"]
     /\ UNCHANGED <<request, next, succeeded, failed, lost, applied, account>>

\* A flaw: the caller is told that the row was written.
RowFailsSilently(c) ==
  LET i == next[c]
  IN /\ AtRow(c)
     /\ Planned(c)
     /\ sent' = [sent EXCEPT ![c] = @ \cup {i}]
     /\ status' = [status EXCEPT ![c][i] = Done(request[c].kind)]
     /\ succeeded' = [succeeded EXCEPT ![c] = @ + 1]
     /\ next' = [next EXCEPT ![c] = i + 1]
     /\ UNCHANGED <<request, phase, failed, lost, applied, account>>

\* The port refuses the row or monday fails it, and the loop goes on.  Whether
\* the request itself got through is unknown when its answer is lost.
RowFails(c) ==
  LET i == next[c]
  IN /\ AtRow(c)
     /\ Planned(c)
     /\ sent' = [sent EXCEPT ![c] = @ \cup {i}]
     /\ \/ UNCHANGED lost
        \/ lost' = [lost EXCEPT ![c] = @ \cup {i}]
     /\ status' = [status EXCEPT ![c][i] = "failed"]
     /\ failed' = [failed EXCEPT ![c] = @ + 1]
     /\ next' = [next EXCEPT ![c] = i + 1]
     /\ UNCHANGED <<request, phase, succeeded, applied, account>>

Return(c) ==
  /\ phase[c] = "writing"
  /\ next[c] > Len(request[c].rows)
  /\ phase' = [phase EXCEPT ![c] = "returned"]
  /\ UNCHANGED <<request, status, next, succeeded, failed, account, history>>

\* ---- monday and its other users ---------------------------------------------

\* A request whose answer was lost is carried out, now or much later.
ApplyLost(c) ==
  \E i \in lost[c] \ applied[c] :
    /\ Takes(request[c], i)
    /\ applied' = [applied EXCEPT ![c] = @ \cup {i}]
    /\ UNCHANGED <<report, sent, lost, account>>

OthersMove ==
  \E i \in Item, b \in Board \cup {Gone} :
    /\ boardOf[i] \notin {Gone, b}
    /\ boardOf' = [boardOf EXCEPT ![i] = b]
    /\ moved' = moved \cup {i}
    /\ UNCHANGED <<report, history>>

\* What a call does by itself.
Onward(c) ==
  \/ Refuse(c) \/ ReadFails(c) \/ Plan(c)
  \/ SkipRow(c) \/ WriteRow(c) \/ RowFails(c) \/ Return(c)

Next ==
  \/ \E c \in Call : Onward(c) \/ ApplyLost(c)
  \/ OthersMove

Spec == Init /\ [][Next]_vars
\* A call runs in a goroutine of its own, and each of its requests ends.
FairSpec == Spec /\ \A c \in Call : WF_vars(Onward(c))

\* ---- properties -------------------------------------------------------------

Whole(q) == ~q.dry /\ q.kind = "update"

\* A dry run writes nothing, and an update of which one row is invalid writes
\* none of its rows, not even before the invalid one (BulkUpdateItems).
AllOrNothing ==
  \A c \in Call :
    /\ request[c].dry => sent[c] = {}
    /\ Whole(request[c]) /\ RowsThat(status[c], "invalid") # {} => sent[c] = {}

\* The result adds up: every row has a final status, the counters count exactly
\* the rows that have it, and a call that wrote leaves no row uncounted.
ReportAddsUp ==
  \A c \in Call : phase[c] = "returned" =>
    LET rows == status[c]
        written == {i \in DOMAIN rows : rows[i] \in Written}
        unfit == {i \in DOMAIN rows : rows[i] \in {"invalid", "failed"}}
    IN /\ Len(rows) = Len(request[c].rows)
       /\ succeeded[c] = Cardinality(written)
       /\ failed[c] = Cardinality(unfit)
       /\ ~OnlyPlanned(request[c], rows) => written \cup unfit = DOMAIN rows

\* What the rows say is what happened in the account: a written row was carried
\* out, unless other users have moved its item or it was never on the board the
\* call names, and a row that was carried out is reported as written or had its
\* answer lost.
ReportMatchesAccount ==
  \A c \in Call : \A i \in DOMAIN status[c] :
    LET q == request[c]
        item == q.rows[i].item
    IN /\ /\ status[c][i] \in Written
          /\ item \notin moved
          /\ q.kind = "update" => PlaceOf[item] = q.board
          => i \in applied[c]
       /\ i \in applied[c] => status[c][i] \in Written \/ i \in lost[c]

\* However late a row is carried out, its item is on a board the guard admits,
\* unless other users have moved it there: the guard decides for all rows before
\* the first is sent, and not at all about the items of an update.
RowsStayOnAllowedBoards ==
  [][\A c \in Call : \A i \in applied'[c] \ applied[c] :
       LET item == request[c].rows[i].item
       IN boardOf[item] \in Allowed \/ item \in moved]_vars

\* Every bulk call ends, whatever fails.
BulkCallsReturn ==
  \A c \in Call : <>(phase[c] \in {"returned", "refused"})

\* docs/TROUBLESHOOTING.md:73: "Bulk tools validate every row first; one invalid
\* row means nothing is written".  BulkItemAction writes the other rows.
InvalidRowHoldsBackAll ==
  \A c \in Call : RowsThat(status[c], "invalid") # {} => sent[c] = {}
=============================================================================
