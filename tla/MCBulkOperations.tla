-------------------------- MODULE MCBulkOperations --------------------------
(***************************************************************************)
(* Small instances of BulkOperations: items on an allowed board, on one that *)
(* is not, and gone; values that fit one board only; every request of up to  *)
(* three rows, and one of four.                                              *)
(***************************************************************************)
EXTENDS BulkOperations

CONSTANTS c1, home, away, near, far, missing, homeValues

MCPlaceOf == [i \in Item |-> IF i = near THEN home ELSE IF i = far THEN away ELSE Gone]
MCFitsOn == [v \in Values |-> {home}]

RowOf(i, v) == [item |-> i, values |-> v]
UpdateRows ==
  {RowOf(near, homeValues), RowOf(far, homeValues), RowOf(NoItem, homeValues),
   RowOf(near, NoValues)}
ActionRows == {RowOf(i, NoValues) : i \in Item \cup {NoItem}}

Lists(rows) == UNION {[1..n -> rows] : n \in 0..MaxBulkItems}
               \cup {[i \in 1..(MaxBulkItems + 1) |-> r] : r \in rows}

MCAsked ==
  [kind : {"update"}, board : Board, rows : Lists(UpdateRows), dry : BOOLEAN]
  \cup
  [kind : {"move", "archive"}, board : {home}, rows : Lists(ActionRows), dry : BOOLEAN]

\* One action with two rows, one of them missing.
MCPartial ==
  [kind : {"archive"}, board : {home}, rows : [1..2 -> ActionRows], dry : {FALSE}]
=============================================================================
