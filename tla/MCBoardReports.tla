--------------------------- MODULE MCBoardReports ---------------------------
(***************************************************************************)
(* A template of one column and three groups, with two seeds: one names a    *)
(* group and a column, one names neither; and a template of one group to     *)
(* report on, with seeds that need no column.                                *)
(***************************************************************************)
EXTENDS BoardReports

CONSTANTS todo, doing, closed, status, s1, s2, extra, x1, x2

MCColumns == <<status>>
MCGroups == <<todo, doing, closed>>
SeedOf(n, g, u) == [name |-> n, group |-> g, uses |-> u]
MCSeeds ==
  <<SeedOf(s1, doing, {status}), SeedOf(s2, NoTitle, {})>>
NoColumns == <<>>
OneGroup == <<doing>>
PlainSeeds == <<SeedOf(s1, doing, {}), SeedOf(s2, NoTitle, {})>>
MCWanted == {0, 1, 5}
\* One that is left to the bounds, and two that are refused.
MCInspections == {[items |-> 0, pages |-> 0], [items |-> 6, pages |-> 1], [items |-> 1, pages |-> 2]}
=============================================================================
