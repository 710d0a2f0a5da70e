----------------------------- MODULE RemoteCall -----------------------------
(***************************************************************************)
(* What the rest of the server may rely on when it sends one mutation to    *)
(* monday: it is applied a bounded number of times, possibly none, possibly *)
(* after the call has been reported as failed; and when success is reported *)
(* it has been applied.  This is how ScopedService uses the client.         *)
(***************************************************************************)
EXTENDS Naturals

CONSTANTS Call, Attempts

VARIABLES
  applied,   \* how often monday has applied the mutation of a call
  report     \* what the caller has been told: nothing, success, failure

vars == <<applied, report>>

Init ==
  /\ applied = [c \in Call |-> 0]
  /\ report = [c \in Call |-> "nothing"]

Apply(c) ==
  /\ applied[c] < Attempts
  /\ applied' = [applied EXCEPT ![c] = applied[c] + 1]
  /\ UNCHANGED report

Report(c) ==
  /\ report[c] = "nothing"
  /\ \/ applied[c] > 0 /\ report' = [report EXCEPT ![c] = "success"]
     \/ report' = [report EXCEPT ![c] = "failure"]
  /\ UNCHANGED applied

Next == \E c \in Call : Apply(c) \/ Report(c)

Spec == Init /\ [][Next]_vars
=============================================================================
