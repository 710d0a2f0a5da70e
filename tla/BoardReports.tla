---------------------------- MODULE BoardReports ----------------------------
(***************************************************************************)
(* A report on a board while it is provisioned: ProvisionBoard, and Snapshot *)
(* or loadItems, two calls of one server, other users, and attempts that     *)
(* were given up, all at work on the same board.                             *)
(***************************************************************************)
EXTENDS ProvisionBoard, SnapshotPaging

vars == <<contents, provisioning, snapshot>>

TypeOK == ContentsOK /\ ProvisionOK /\ SnapshotOK

Init == ProvisionInit /\ SnapshotInit

\* Without a board there is nothing to report on.
Next ==
  \/ ProvisionNext /\ Disturb
  \/ Abandon /\ Disturb
  \/ CarryOut /\ Disturb
  \/ OthersAct /\ Disturb /\ UNCHANGED provisioning
  \/ step \notin {"board", "failed"} /\ SnapshotNext /\ UNCHANGED <<contents, provisioning>>

Spec == Init /\ [][Next]_vars

\* Both calls run in goroutines of their own, and each of their requests ends,
\* with an answer or a failure.  Attempts are given up a bounded number of times;
\* nothing makes monday carry them out.
FairSpec ==
  /\ Spec
  /\ WF_vars(ProvisionNext /\ Disturb)
  /\ WF_vars(ReadPage /\ UNCHANGED <<contents, provisioning>>)

\* Provisioning and a snapshot both end, whatever fails and whatever the other
\* users do, the pages that bring nothing but a cursor included.
BothCallsEnd ==
  /\ <>(step \in {"done", "failed"})
  /\ reading = "paging" ~> reading \in {"done", "failed"}

\* What a read of full pages can return.
MostItems == IF pageCap = NoBound THEN cap ELSE Smaller(cap, pageCap * PageMax)

Whole ==
  INSTANCE WholeRead WITH
    board     <- items,
    cap       <- IF reading \in {"paging", "done"} THEN MostItems ELSE 0,
    answered  <- reading = "done",
    answer    <- IF reading = "done" THEN got ELSE <<>>

\* On a board that stands still, a snapshot is what one atomic read would give:
\* the first items up to the cap, with Truncated when more are left.
SnapshotIsWholeRead == Whole!Spec
=============================================================================
