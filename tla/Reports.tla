------------------------------ MODULE Reports ------------------------------
(***************************************************************************)
(* The reports over a snapshot of a board: the summary, the listings, the    *)
(* stand-up, the load of each person, the health score, and the risk report  *)
(* of the quality tools.  Each walks the items of the snapshot by itself.    *)
(*                                                                         *)
(* With the snapshot s come the inputs of the reports: the columns a caller  *)
(* names (override), the age in days at which stale_items and the health     *)
(* report take an item for stale (days, staleDays), the hours the stand-up   *)
(* looks back, the moment (now, hours of UTC) and the hours by which the     *)
(* server's clock is ahead of UTC (zone).  Changes of items are hours of UTC,*)
(* due dates are days; the text of a status is one word.                     *)
(***************************************************************************)
EXTENDS Integers, Sequences, FiniteSets, SequencesExt

CONSTANTS
  UsuallyDone,     \* the status words that mean done on a board that flags none
  SoundsBlocked,   \* those that suggest blocked work to the reports of domain
  SoundsAtRisk     \* those that do to the risk report

None == "none"   \* no column, no text
NoDay == -1      \* no date, or none that can be read

\* ---- what a report reads --------------------------------------------------------

\* The column of a role: the first that has the type and a hint in its title,
\* else the first of the type.
Pick(columns, types) ==
  LET fits == SelectSeq(columns, LAMBDA c : ~c.archived /\ c.type \in types)
      hinted == SelectSeq(fits, LAMBDA c : c.hinted)
  IN IF hinted # <<>> THEN Head(hinted).id
     ELSE IF fits # <<>> THEN Head(fits).id ELSE None

\* A column the caller names is taken as it is.
DetectReportColumns(columns, override) ==
  LET Of(given, types) == IF given # None THEN given ELSE Pick(columns, types)
  IN [status |-> Of(override.status, {"status"}), date |-> Of(override.date, {"date"}),
      people |-> Of(override.people, {"people", "person"})]

\* A column the token may not see is not among the cells of an item.
Cell(item, column, otherwise) ==
  IF column \in DOMAIN item.cells THEN item.cells[column] ELSE otherwise

Cols(s) == DetectReportColumns(s.columns, s.override)
Status(cols, item) == Cell(item, cols.status, None)
Due(cols, item) == Cell(item, cols.date, NoDay)
Persons(cols, item) == Cell(item, cols.people, <<>>)

\* The day on the server's clock, and the day of UTC.
LocalDay(s) == (s.now + s.zone) \div 24
UTCDay(s) == s.now \div 24

DoneWords(s) ==
  LET flagged == UNION {s.columns[k].done : k \in
                   {j \in DOMAIN s.columns : s.columns[j].id = Cols(s).status}}
  IN IF flagged = {} THEN UsuallyDone ELSE flagged

Done(s, item) == Status(Cols(s), item) \in DoneWords(s)
Blocked(s, item) == Status(Cols(s), item) \in SoundsBlocked

\* A flaw: work that is done can still be late.
OverdueDaysOfAll(s, item) ==
  IF Due(Cols(s), item) = NoDay THEN 0
  ELSE IF Due(Cols(s), item) >= LocalDay(s) THEN 0 ELSE LocalDay(s) - Due(Cols(s), item)

OverdueDays(s, item) ==
  IF Done(s, item) \/ Due(Cols(s), item) = NoDay THEN 0
  ELSE IF Due(Cols(s), item) >= LocalDay(s) THEN 0 ELSE LocalDay(s) - Due(Cols(s), item)

\* The items of a snapshot, as positions, that have a property.
Where(s, P(_)) == {k \in DOMAIN s.items : P(s.items[k])}

\* ---- the reports ------------------------------------------------------------------

\* How often each key occurs among the keys of the items.
CountBy(keys) ==
  [key \in ToSet(keys) |-> Cardinality({k \in DOMAIN keys : keys[k] = key})]

Summarize(s) ==
  LET Open(i) == ~Done(s, i)
  IN [total |-> Len(s.items),
      byGroup |-> CountBy([k \in DOMAIN s.items |-> s.items[k].group]),
      byStatus |-> IF Cols(s).status = None THEN <<>>
                   ELSE CountBy([k \in DOMAIN s.items |-> Status(Cols(s), s.items[k])]),
      done |-> Cardinality(Where(s, LAMBDA i : Done(s, i))),
      overdue |-> Cardinality(Where(s, LAMBDA i : Open(i) /\ OverdueDays(s, i) > 0)),
      unassigned |-> IF Cols(s).people = None THEN 0
                     ELSE Cardinality(Where(s, LAMBDA i : Open(i) /\ Persons(Cols(s), i) = <<>>)),
      blocked |-> Cardinality(Where(s, LAMBDA i : Open(i) /\ Blocked(s, i)))]

\* The latest first; the order of items equally late is left open.
Overdue(s) ==
  LET late == Where(s, LAMBDA i : OverdueDays(s, i) > 0)
      DaysLate(k) == OverdueDays(s, s.items[k])
  IN CHOOSE list \in [1..Cardinality(late) -> late] :
       /\ IsInjective(list)
       /\ \A j, k \in DOMAIN list : j < k => DaysLate(list[j]) >= DaysLate(list[k])

\* An item whose date of change cannot be read is not stale.
Stale(s, days) ==
  Where(s, LAMBDA i : ~Done(s, i) /\ i.updated # NoDay /\ i.updated <= s.now - 24 * days)

BuildStandup(s) ==
  LET Recent(i) == i.updated # NoDay /\ i.updated > s.now - s.hours
  IN [completed |-> Where(s, LAMBDA i : Recent(i) /\ Done(s, i)),
      moving    |-> Where(s, LAMBDA i : Recent(i) /\ ~Done(s, i)),
      blocked   |-> Where(s, LAMBDA i : ~Done(s, i) /\ Blocked(s, i)),
      overdue   |-> Where(s, LAMBDA i : OverdueDays(s, i) > 0)]

\* An item counts for each of its owners, by name; without owners, for Unassigned.
\* A share is an item and one of its owners, both by their position.
Unassigned == "Unassigned"
OwnersOf(s, item) == IF Persons(Cols(s), item) = <<>> THEN <<Unassigned>> ELSE Persons(Cols(s), item)

Shares(s) == UNION {{k} \X DOMAIN OwnersOf(s, s.items[k]) : k \in DOMAIN s.items}
Owner(s, x) == OwnersOf(s, s.items[x[1]])[x[2]]

Workload(s) ==
  LET Load(name, P(_)) ==
        Cardinality({x \in Shares(s) : P(s.items[x[1]]) /\ Owner(s, x) = name})
  IN [name \in {Owner(s, x) : x \in Shares(s)} |->
        [open    |-> Load(name, LAMBDA i : ~Done(s, i)),
         done    |-> Load(name, LAMBDA i : Done(s, i)),
         overdue |-> Load(name, LAMBDA i : ~Done(s, i) /\ OverdueDays(s, i) > 0),
         blocked |-> Load(name, LAMBDA i : ~Done(s, i) /\ Blocked(s, i))]]

\* count / open * weight, rounded, halves up.
Penalty(count, open, weight) ==
  IF open = 0 \/ count = 0 THEN 0 ELSE (2 * count * weight + open) \div (2 * open)

Penalties(s) ==
  LET summary == Summarize(s)
      open == summary.total - summary.done
  IN Penalty(summary.overdue, open, 40) + Penalty(summary.blocked, open, 25)
     + Penalty(Cardinality(Stale(s, s.staleDays)), open, 20) + Penalty(summary.unassigned, open, 15)

Score(s) == IF Penalties(s) > 100 THEN 0 ELSE 100 - Penalties(s)

\* ---- the risk report of the quality tools --------------------------------------------

\* The quality tools take no columns from the caller.
Projected(s) == DetectReportColumns(s.columns, [status |-> None, date |-> None, people |-> None])

\* Whether an item is done makes no difference to it, and its day is that of UTC;
\* the window ends eight days from this moment, so that with the clock past midnight
\* it takes in the eighth day.
Risk(s) ==
  LET cols == Projected(s)
      unassigned == Where(s, LAMBDA i : Persons(cols, i) = <<>>)
      blocked == Where(s, LAMBDA i : Status(cols, i) \in SoundsAtRisk)
      dated == Where(s, LAMBDA i : Due(cols, i) # NoDay)
      overdue == {k \in dated : Due(cols, s.items[k]) < UTCDay(s)}
      dueSoon == {k \in dated \ overdue : 24 * Due(cols, s.items[k]) < s.now + 24 * 8}
      pressure == 4 * Cardinality(overdue) + 3 * Cardinality(blocked)
                  + 2 * Cardinality(unassigned) + Cardinality(dueSoon)
  IN [unassigned |-> unassigned, blocked |-> blocked, overdue |-> overdue,
      dueSoon |-> dueSoon, score |-> IF pressure > 100 THEN 100 ELSE pressure]
=============================================================================
