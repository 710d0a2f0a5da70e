--------------------------- MODULE MCServerAccess ---------------------------
(***************************************************************************)
(* Small instances of ServerAccess: one caller over stdio under many         *)
(* policies, and two callers under every choice of transport and credential. *)
(***************************************************************************)
EXTENDS ServerAccess

CONSTANTS r1, r2, prefix

Token == {<<"tokenA">>, <<"tokenB">>}
MCPrefixesOf == [t \in Token |-> IF t = <<"tokenA">> THEN {prefix} ELSE {}]

\* A partial function with the settings that are there; Blank stands for a
\* variable that is not set.
Settled(settings) ==
  [key \in {k \in DOMAIN settings : settings[k] # Blank} |-> settings[key]]

Wants(tool, confirm, dry) == [tool |-> tool, confirm |-> confirm, dry |-> dry]
Anyone == [key |-> Blank, bearer |-> Blank]

\* ---- policies ------------------------------------------------------------------

LevelValues == {Blank, <<"read">>, <<"write">>, <<"full">>, <<Junk>>}
ListValues ==
  {Blank, <<Nothing, Nothing>>, <<"create_item", "delete_item">>, <<"no_such_tool">>}

PinnedLevel == {<<Line("MCP_ACCESS_LEVEL", v)>> : v \in LevelValues}
PinnedTwice ==
  {<<Line("MCP_ACCESS_LEVEL", <<"full">>),
     Line("MCP_WRITE_TOOL_ALLOWLIST", <<"create_item">>),
     Line("MCP_ACCESS_LEVEL", <<"read">>)>>,
   <<Line("MCP_WRITE_TOOL_ALLOWLIST", Blank)>>}
Refused ==
  {<<Line("MONDAY_API_TOKEN", <<"tokenA">>)>>, <<Line("MCP_REPORT_MAX_ITEMS", <<5001>>)>>,
   <<Line("MONDAY_API_TOKEN_ENV", <<"NOT_SET">>)>>}
Redirected == {<<Line("MONDAY_API_TOKEN_ENV", <<"TOKEN_OF_B">>)>>}

Profiles ==
  {NoProfile, [ProfileWith(<<>>) EXCEPT !.valid = FALSE],
   [ProfileWith(<<>>) EXCEPT !.exists = FALSE]}
  \cup {ProfileWith(l) : l \in PinnedLevel \cup PinnedTwice \cup Refused \cup Redirected}

Policies ==
  [env : {Settled([MONDAY_API_TOKEN |-> <<"tokenA">>, TOKEN_OF_B |-> <<"tokenB">>,
                   MCP_ACCESS_LEVEL |-> level, MCP_WRITE_TOOL_ALLOWLIST |-> list,
                   MCP_READ_ONLY |-> Blank])
          : level \in LevelValues, list \in ListValues}
         \cup {Settled([MONDAY_API_TOKEN |-> <<"tokenA">>, MCP_READ_ONLY |-> <<"true">>])},
   profile : Profiles]

PolicyAsks ==
  {Wants(tool, FALSE, "absent") : tool \in {"get_me", "list_board_templates", "like_update"}}
  \cup {Wants(tool, confirm, "absent") :
          tool \in {"create_item", "delete_item", "archive_board"}, confirm \in BOOLEAN}
  \cup {Wants("bulk_archive_items", FALSE, dry) : dry \in {"absent", "true", "false"}}

PolicyCases ==
  {[source |-> s, caller |-> [r \in Req |-> Anyone],
    ask |-> [r \in Req |-> IF r = r1 THEN a ELSE Wants("get_me", FALSE, "absent")]]
   : s \in Policies, a \in PolicyAsks}

\* ---- transports -----------------------------------------------------------------

Transports ==
  [env : {Settled([MONDAY_API_TOKEN |-> own, MCP_TRANSPORT |-> transport,
                   MCP_AUTH_MODE |-> mode, MCP_ALLOW_SHARED_TOKEN |-> shared,
                   MCP_CLIENT_KEY |-> key, MCP_ALLOWED_TOKEN_PREFIXES |-> prefixes])
          : own \in {Blank, <<"ownToken">>},
            transport \in {Blank, <<"streamable-http">>},
            mode \in {Blank, <<"env">>, <<"request">>},
            shared \in {Blank, <<"true">>},
            key \in {Blank, <<"key">>},
            prefixes \in {Blank, <<prefix>>}},
   profile : {NoProfile}]

Callers == [key : {Blank, <<"key">>, <<"guess">>}, bearer : Token \cup {Blank}]

TransportCases ==
  {[source |-> s,
    caller |-> [r \in Req |->
      IF r = r1 THEN [key |-> <<"key">>, bearer |-> <<"tokenA">>] ELSE c],
    ask |-> [r \in Req |-> Wants("create_item", FALSE, "absent")]]
   : s \in Transports, c \in Callers}

MCCases == PolicyCases \cup TransportCases
=============================================================================
