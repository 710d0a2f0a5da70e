---------------------------- MODULE WritePolicy ----------------------------
(***************************************************************************)
(* The write policy of the server: the access level, the workspace scope    *)
(* and the two write allowlists, with the decisions internal/application    *)
(* takes from them (WriteGuard in guard.go, requireDelete in deletes.go).   *)
(*                                                                         *)
(* A policy is fixed when the process starts.  The boards this process has  *)
(* created are the only part of a decision that changes while it runs, so   *)
(* they are a parameter (trusted).                                          *)
(***************************************************************************)
CONSTANTS
  Board,        \* board IDs
  Workspace,    \* workspace IDs
  NoWorkspace   \* "": no scope configured, or no workspace argument given

ASSUME NoWorkspaceIsNone == NoWorkspace \notin Workspace

Policy ==
  [level      : {"read", "write", "full"},
   scope      : Workspace \cup {NoWorkspace},
   boards     : SUBSET Board,
   workspaces : SUBSET Workspace]

Scoped(p) == p.scope # NoWorkspace

\* Any allowlist at all restricts every write (Restricted).
Restricted(p) == p.boards # {} \/ p.workspaces # {}

\* CheckWrite: at level read every mutation is refused.
CheckWrite(p) == p.level # "read"

\* CheckBoard: under an allowlist a board is writable when it is listed or
\* was created by this process.
CheckBoard(p, trusted, b) ==
  /\ CheckWrite(p)
  /\ Restricted(p) => b \in p.boards \cup trusted

\* A flaw: any workspace will do.
CheckWorkspaceUnlisted(p, w) == CheckWrite(p)

\* CheckWorkspace: with only a board allowlist no workspace qualifies.
CheckWorkspace(p, w) ==
  /\ CheckWrite(p)
  /\ Restricted(p) => w \in p.workspaces

\* requireDelete: the level must be full and the caller must confirm.
RequireDelete(p, confirm) == p.level = "full" /\ confirm /\ CheckWrite(p)

\* scopedWorkspace: an omitted workspace argument means the scope.
ScopedWorkspace(p, w) == IF w = NoWorkspace THEN p.scope ELSE w
=============================================================================
