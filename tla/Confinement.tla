---------------------------- MODULE Confinement ----------------------------
(***************************************************************************)
(* What the write policy and the workspace scope promise together: a server *)
(* changes the account as if every check and the change it is made for were *)
(* one step.  A board is created in an admitted workspace only, an item is  *)
(* created on, moved between or deleted from admitted boards only, and only *)
(* a server at level full deletes.  ScopedService is shown to implement     *)
(* this, although there a check and its change are several calls apart.     *)
(***************************************************************************)
EXTENDS WritePolicy

CONSTANTS Item, Unborn, Gone, SubBoard, HomeOf, PlaceOf, Policies

VARIABLES policy, workspaceOf, boardOf, created

vars == <<policy, workspaceOf, boardOf, created>>

Family(b) == {c \in Board : c = b \/ SubBoard[b] = c \/ SubBoard[c] = b}
Exists(b) == b \in Board /\ workspaceOf[b] \in Workspace

\* The workspaces and the boards a server may change.
AdmitsWorkspace(w) ==
  /\ CheckWorkspace(policy, w)
  /\ Scoped(policy) => w = policy.scope

AdmitsBoard(b) ==
  /\ Exists(b)
  /\ CheckBoard(policy, created, b)
  /\ Scoped(policy) => workspaceOf[b] = policy.scope

Init ==
  /\ policy \in Policies
  /\ workspaceOf = HomeOf
  /\ boardOf = PlaceOf
  /\ created = {}

NewBoard ==
  /\ \E b \in Board, w \in Workspace :
       /\ workspaceOf[b] = Unborn /\ AdmitsWorkspace(w)
       /\ workspaceOf' = [c \in Board |-> IF c \in Family(b) THEN w ELSE workspaceOf[c]]
  /\ UNCHANGED <<policy, boardOf, created>>

\* A board is trusted once it is known to lie in an admitted workspace.
Trust ==
  /\ \E b \in Board :
       /\ workspaceOf[b] # Unborn
       /\ workspaceOf[b] # Gone => AdmitsWorkspace(workspaceOf[b])
       /\ created' = created \cup {b}
  /\ UNCHANGED <<policy, workspaceOf, boardOf>>

DeleteBoards ==
  /\ policy.level = "full"
  /\ \E boards \in SUBSET Board :
       /\ \A b \in boards :
            AdmitsWorkspace(workspaceOf[b]) \/ \E c \in Family(b) : AdmitsBoard(c)
       /\ workspaceOf' = [b \in Board |-> IF b \in boards THEN Gone ELSE workspaceOf[b]]
  /\ UNCHANGED <<policy, boardOf, created>>

NewItem ==
  /\ \E i \in Item, b \in Board :
       /\ boardOf[i] = Unborn /\ AdmitsBoard(b)
       /\ \/ boardOf' = [boardOf EXCEPT ![i] = b]
          \/ SubBoard[b] \in Board /\ boardOf' = [boardOf EXCEPT ![i] = SubBoard[b]]
  /\ UNCHANGED <<policy, workspaceOf, created>>

MoveItem ==
  /\ \E i \in Item, b \in Board :
       /\ AdmitsBoard(boardOf[i]) /\ AdmitsBoard(b)
       /\ boardOf' = [boardOf EXCEPT ![i] = b]
  /\ UNCHANGED <<policy, workspaceOf, created>>

DeleteItem ==
  /\ policy.level = "full"
  /\ \E i \in Item : /\ AdmitsBoard(boardOf[i])
                     /\ boardOf' = [boardOf EXCEPT ![i] = Gone]
  /\ UNCHANGED <<policy, workspaceOf, created>>

Next == NewBoard \/ Trust \/ DeleteBoards \/ NewItem \/ MoveItem \/ DeleteItem

Spec == Init /\ [][Next]_vars
=============================================================================
