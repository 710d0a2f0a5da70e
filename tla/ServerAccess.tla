---------------------------- MODULE ServerAccess ----------------------------
(***************************************************************************)
(* The server process, from its start to the requests it sends to monday:   *)
(* what is configured decides which tools are registered, which callers are  *)
(* let in, what the service lets a tool do, and which credential each        *)
(* request to monday carries.  The calls of several callers overlap.         *)
(*                                                                         *)
(* What the service refuses because of allowlists of boards and the scope is *)
(* the subject of ScopedService; here it refuses by access level,            *)
(* confirmation and dry run.                                                *)
(***************************************************************************)
EXTENDS Configuration, ToolCatalog

CONSTANTS
  Req,          \* requests of MCP clients
  Cases,        \* what may be configured and asked together
  PrefixesOf    \* PrefixesOf[t]: the prefixes of token t that occur in Cases

\* A case: a source, who makes each request, and what it asks for.
ASSUME CasesAreComplete ==
  \A c \in Cases :
    /\ {"source", "caller", "ask"} \subseteq DOMAIN c
    /\ DOMAIN c.caller = Req /\ DOMAIN c.ask = Req
    /\ \A r \in Req : c.ask[r].tool \in ToolNames
ASSUME ProfilesAreLines ==
  \A c \in Cases : c.source.profile.named =>
    c.source.profile.lines \in Seq(ToSet(c.source.profile.lines))

VARIABLES
  case,        \* the configuration and the requests of this behaviour
  phase,       \* of the process: starting, serving, stopped
  registered,  \* the names of the tools it offers
  stage,       \* of each request: arriving, rejected, admitted, running, answered
  carried,     \* the token in the context of each request
  admitted,    \* history: the requests let in, in order
  effects      \* history: what was sent to monday, for whom, with which token

vars == <<case, phase, registered, stage, carried, admitted, effects>>

source == case.source
Ask(r) == case.ask[r]
Caller(r) == case.caller[r]
AskedTool(r) == CHOOSE t \in Tools : t.name = Ask(r).tool
Cfg == config(source)

Init ==
  /\ case \in Cases
  /\ phase = "starting"
  /\ registered = {}
  /\ stage = [r \in Req |-> "arriving"]
  /\ carried = [r \in Req |-> Blank]
  /\ admitted = <<>>
  /\ effects = {}

\* ---- the start -------------------------------------------------------------------

\* A flaw: only the confirmation protects what cannot be undone.
HiddenByKind(t, level, allowlist) ==
  /\ ~t.readOnly
  /\ level = "read" \/ (allowlist # {} /\ t.name \notin allowlist)

\* The tools that add leaves out of the server.
Hidden(t, level, allowlist) ==
  \/ ~t.readOnly /\ level = "read"
  \/ ~t.readOnly /\ allowlist # {} /\ t.name \notin allowlist
  \/ t.permanent /\ level # "full"

Starts == Loads(source) /\ Cfg.tools \subseteq ToolNames

Start ==
  /\ phase = "starting" /\ Starts
  /\ phase' = "serving"
  /\ registered' = {t.name : t \in {u \in Tools : ~Hidden(u, Cfg.level, Cfg.tools)}}
  /\ UNCHANGED <<case, stage, carried, admitted, effects>>

StartFails ==
  /\ phase = "starting" /\ ~Starts
  /\ phase' = "stopped"
  /\ UNCHANGED <<case, registered, stage, carried, admitted, effects>>

\* ---- a request comes in -----------------------------------------------------------

OverHTTP == Cfg.transport = "streamable-http"
Guarded == OverHTTP /\ (Cfg.authMode = "request" \/ Cfg.clientKey # Blank)

validClientKey(r) == Cfg.clientKey # Blank => Caller(r).key = Cfg.clientKey
allowedPrefix(r) ==
  /\ Caller(r).bearer # Blank
  /\ Cfg.prefixes = {} \/ PrefixesOf[Caller(r).bearer] \cap Cfg.prefixes # {}

Accepts(r) ==
  Guarded =>
    /\ Cfg.authMode = "env" => Cfg.shared
    /\ validClientKey(r)
    /\ Cfg.authMode = "request" => allowedPrefix(r)

Admit(r) ==
  /\ phase = "serving" /\ stage[r] = "arriving"
  /\ Accepts(r)
  /\ stage' = [stage EXCEPT ![r] = "admitted"]
  /\ carried' = [carried EXCEPT ![r] =
       IF Guarded /\ Cfg.authMode = "request" THEN Caller(r).bearer ELSE Blank]
  /\ admitted' = Append(admitted, r)
  /\ UNCHANGED <<case, phase, registered, effects>>

Reject(r) ==
  /\ phase = "serving" /\ stage[r] = "arriving"
  /\ ~Accepts(r)
  /\ stage' = [stage EXCEPT ![r] = "rejected"]
  /\ UNCHANGED <<case, phase, registered, carried, admitted, effects>>

\* ---- it calls a tool ---------------------------------------------------------------

CallTool(r) ==
  /\ stage[r] = "admitted"
  /\ stage' = [stage EXCEPT ![r] =
       IF Ask(r).tool \in registered THEN "running" ELSE "answered"]
  /\ UNCHANGED <<case, phase, registered, carried, admitted, effects>>

\* An absent dry_run is a dry run.
dryRun(r) == Ask(r).dry # "false"

\* Whether a method, confirmed and executed, may change something at this level.
Executes(method, level) ==
  \/ method \in ChangingMethods \cup PlanningMethods /\ level # "read"
  \/ method \in DeletingMethods /\ level = "full"

\* The service carries out the change that the tool stands for.
Carries(r) ==
  LET method == AskedTool(r).method
  IN /\ Executes(method, Cfg.level)
     /\ method \in ConfirmedMethods => Ask(r).confirm
     /\ method \in PlanningMethods => ~dryRun(r)

\* A flaw: the token is kept in the client, which all the requests share.
TokenOfLatest(r) ==
  IF Cfg.authMode = "request" THEN carried[admitted[Len(admitted)]] ELSE Cfg.apiToken

TokenFor(r) == IF Cfg.authMode = "request" THEN carried[r] ELSE Cfg.apiToken

\* The client sends nothing for a request that brought no token of its own.
Send(r, kind) ==
  /\ stage[r] = "running" /\ TokenFor(r) # Blank
  /\ effects' = effects \cup {[req |-> r, kind |-> kind, token |-> TokenFor(r)]}
  /\ UNCHANGED <<case, phase, registered, stage, carried, admitted>>

Read(r) == AskedTool(r).method # NoMethod /\ Send(r, "read")
Change(r) == Carries(r) /\ Send(r, "change")

Answer(r) ==
  /\ stage[r] = "running"
  /\ stage' = [stage EXCEPT ![r] = "answered"]
  /\ UNCHANGED <<case, phase, registered, carried, admitted, effects>>

Next ==
  \/ Start \/ StartFails
  \/ \E r \in Req :
       \/ Admit(r) \/ Reject(r) \/ CallTool(r)
       \/ Read(r) \/ Change(r) \/ Answer(r)

Spec == Init /\ [][Next]_vars

\* ---- what must hold -----------------------------------------------------------------

\* What the operator has stated for a key: the profile, where it sets the key,
\* stands against the environment, even if it sets the key to nothing.
Stated(key) ==
  LET lines == {k \in DOMAIN source.profile.lines : source.profile.lines[k].key = key}
  IN IF source.profile.named /\ lines # {}
     THEN source.profile.lines[CHOOSE k \in lines : \A j \in lines : j <= k].value
     ELSE IF key \in DOMAIN source.env THEN source.env[key] ELSE Blank

\* Nothing reaches monday that the operator's settings forbid: no variable of the
\* environment widens what a profile has pinned, a stated list of tools binds
\* every tool that changes something, at level read nothing changes, and a
\* permanent delete takes level full and a confirmation (profiles.go 17-19, 43-48;
\* registry.go 63-67; deletes.go 16-32).
EffectsWithinSettings ==
  \A e \in effects :
    e.kind = "change" =>
      LET t == AskedTool(e.req)
          level == Stated("MCP_ACCESS_LEVEL")
          named == ToSet(Stated("MCP_WRITE_TOOL_ALLOWLIST")) \ {Nothing}
      IN /\ level # <<"read">>
         /\ named # {} => t.name \in named
         /\ t.category = "deletes" => level = <<"full">> /\ Ask(e.req).confirm
         /\ t.category = "bulk" => Ask(e.req).dry = "false"

\* Each request to monday carries the credential of the caller it is made for:
\* the caller's own, of a kind the operator admits, or the server's, and then only
\* over stdio or where the operator has agreed to share it with those who hold
\* the client key (transport.go 67-87, client.go 98-107, files.go 46-53).
OwnCredential ==
  \A e \in effects :
    LET own == e.token = Caller(e.req).bearer
        permitted == ToSet(Stated("MCP_ALLOWED_TOKEN_PREFIXES")) \ {Nothing}
    IN \/ /\ Cfg.authMode = "request" /\ own /\ OverHTTP
          /\ permitted # {} => PrefixesOf[e.token] \cap permitted # {}
          /\ Cfg.clientKey # Blank => Caller(e.req).key = Cfg.clientKey
       \/ /\ Cfg.authMode = "env" /\ e.token = token(source)
          /\ OverHTTP =>
               /\ Stated("MCP_ALLOW_SHARED_TOKEN") = <<"true">>
               /\ Cfg.clientKey # Blank => Caller(e.req).key = Cfg.clientKey

\* The flags of the tools agree with the guards of the service: a client is shown
\* a tool that changes something when, and only when, the service would carry it
\* out at this level, and the list of tools takes away nothing that only reads
\* (registry.go 56-73 against guard.go and deletes.go).
HiddenExactlyWhatIsRefused ==
  phase = "serving" =>
    \A t \in Tools :
      t.name \in registered <=>
        \/ t.method \notin ChangingMethods \cup PlanningMethods \cup DeletingMethods
        \/ /\ Executes(t.method, Cfg.level)
           /\ Cfg.tools # {} => t.name \in Cfg.tools
=============================================================================
