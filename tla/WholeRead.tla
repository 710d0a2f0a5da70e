----------------------------- MODULE WholeRead -----------------------------
(***************************************************************************)
(* What Snapshot promises: on a board that stands still while it reads, the  *)
(* first items up to the cap, as one atomic read would return them, and a    *)
(* mark when more are left.                                                 *)
(***************************************************************************)
EXTENDS Integers, Sequences

VARIABLES
  board,      \* the items on the board, in listing order
  cap,        \* the most items to return; 0 when no read is under way
  disturbed,  \* whether the board has changed since the read began
  answered, answer, truncated

vars == <<board, cap, disturbed, answered, answer, truncated>>

Init ==
  /\ cap = 0
  /\ ~disturbed /\ ~answered /\ ~truncated
  /\ answer = <<>>

\* Others change the board; while a read is under way that disturbs it.
Change ==
  /\ disturbed => disturbed'
  /\ cap # 0 /\ ~answered /\ board' # board => disturbed'
  /\ UNCHANGED <<cap, answered, answer, truncated>>

Begin ==
  /\ ~answered /\ cap = 0 /\ cap' # 0
  /\ UNCHANGED <<board, disturbed, answered, answer, truncated>>

GiveUp ==
  /\ ~answered /\ cap # 0 /\ cap' = 0 /\ ~disturbed'
  /\ UNCHANGED <<board, answered, answer, truncated>>

Prefix(n) == SubSeq(board, 1, IF n < Len(board) THEN n ELSE Len(board))

Answer ==
  /\ ~answered /\ answered'
  /\ ~disturbed =>
       /\ answer' = Prefix(cap)
       /\ Len(board) > cap => truncated'
       /\ truncated' => Len(board) >= cap
  /\ UNCHANGED <<board, cap, disturbed>>

Next == Change \/ Begin \/ GiveUp \/ Answer

Spec == Init /\ [][Next]_vars
=============================================================================
