--------------------------- MODULE Configuration ---------------------------
(***************************************************************************)
(* What config.Load makes of the process environment and of a profile file.  *)
(*                                                                         *)
(* A raw value is the sequence of its comma-separated parts, trimmed; the    *)
(* part Nothing stands between two commas, and a blank value has no parts.   *)
(* Junk stands for any text that the parser of a key refuses.                *)
(***************************************************************************)
EXTENDS Integers, Sequences, SequencesExt

Blank == <<>>
Nothing == ""
Junk == "junk"

\* The variables a profile may set.
profileKeys ==
  {"MONDAY_API_TOKEN_ENV", "MONDAY_API_VERSION", "MONDAY_API_URL",
   "MCP_ACCESS_LEVEL", "MCP_SERVER_INSTRUCTIONS", "MCP_WRITE_TOOL_ALLOWLIST",
   "MONDAY_WORKSPACE_ID", "MONDAY_WRITE_BOARD_ALLOWLIST",
   "MONDAY_WRITE_WORKSPACE_ALLOWLIST", "MCP_REPORT_MAX_ITEMS", "MCP_HTTP_TIMEOUT",
   "MCP_MAX_RESPONSE_BYTES", "MCP_MAX_RETRIES", "MCP_LOG_LEVEL"}

\* A source: env, the variables of the process that are set, and profile, which
\* is NoProfile or has a name that may be malformed, a file that may be missing,
\* and the lines of that file.
NoProfile == [named |-> FALSE]
ProfileWith(lines) == [named |-> TRUE, valid |-> TRUE, exists |-> TRUE, lines |-> lines]
Line(key, value) == [key |-> key, value |-> value]

lookup(source, key) == IF key \in DOMAIN source.env THEN source.env[key] ELSE Blank

Settings(profile) == {profile.lines[k].key : k \in DOMAIN profile.lines}

\* An unknown key, a token among them, stops the start.
readProfile(profile) ==
  profile.named =>
    /\ profile.valid /\ profile.exists
    /\ Settings(profile) \subseteq profileKeys

Sets(profile, key) == profile.named /\ key \in Settings(profile)
SettingOf(profile, key) ==
  LET k == SelectLastInSeq(profile.lines, LAMBDA l : l.key = key)
  IN profile.lines[k].value

\* A flaw: the environment wins over the profile.
getEnvironmentFirst(source, key) ==
  IF lookup(source, key) # Blank THEN lookup(source, key)
  ELSE IF Sets(source.profile, key) THEN SettingOf(source.profile, key) ELSE Blank

\* A key the profile sets, if only to nothing, is not looked up elsewhere.
get(source, key) ==
  IF Sets(source.profile, key) THEN SettingOf(source.profile, key)
  ELSE lookup(source, key)

valueOrDefault(source, key, fallback) ==
  IF get(source, key) = Blank THEN <<fallback>> ELSE get(source, key)

\* ---- the parsers --------------------------------------------------------------

Transport(source) == valueOrDefault(source, "MCP_TRANSPORT", "stdio")
parseAuthMode(source) ==
  valueOrDefault(source, "MCP_AUTH_MODE",
                 IF Transport(source) = <<"streamable-http">> THEN "request" ELSE "env")
parseAccessLevel(source) == valueOrDefault(source, "MCP_ACCESS_LEVEL", "write")
SharedToken(source) == get(source, "MCP_ALLOW_SHARED_TOKEN") = <<"true">>

\* A list that holds nothing but separators is empty.
Listed(raw) == ToSet(raw) \ {Nothing}
parseList(source, key) == Listed(get(source, key))
ListFits(source, key) == Junk \notin parseList(source, key)
\* The prefixes are read from the environment alone, and any text is one.
parseTokenPrefixes(source) == Listed(lookup(source, "MCP_ALLOWED_TOKEN_PREFIXES"))

\* The variable that MONDAY_API_TOKEN_ENV names, or MONDAY_API_TOKEN; a named
\* variable that is empty is an error, never a reason to use the other.
token(source) ==
  LET ref == get(source, "MONDAY_API_TOKEN_ENV")
  IN IF ref = Blank THEN lookup(source, "MONDAY_API_TOKEN")
     ELSE IF ref = <<Junk>> THEN Blank
     ELSE lookup(source, ref[1])

\* The numbers, each with the least and the largest value accepted.
Numbers ==
  [MCP_MAX_RETRIES |-> [from |-> 0, to |-> 5],
   MCP_REPORT_MAX_ITEMS |-> [from |-> 1, to |-> 5000],
   MCP_HTTP_PORT |-> [from |-> 1, to |-> 65535],
   MCP_MAX_RESPONSE_BYTES |-> [from |-> 1024, to |-> 2^30],   \* to: a bound of the model
   MCP_HTTP_TIMEOUT |-> [from |-> 1, to |-> 2^30]]            \* in seconds here
Fallbacks ==
  [MCP_MAX_RETRIES |-> 2, MCP_REPORT_MAX_ITEMS |-> 500, MCP_HTTP_PORT |-> 8080,
   MCP_MAX_RESPONSE_BYTES |-> 4 * 1024 * 1024, MCP_HTTP_TIMEOUT |-> 15]
parseNumber(source, key) == valueOrDefault(source, key, Fallbacks[key])[1]
NumberFits(source, key) ==
  parseNumber(source, key) \in Numbers[key].from .. Numbers[key].to

TextKeys ==
  {"MONDAY_API_URL", "MCP_HTTP_PATH", "MCP_SERVER_INSTRUCTIONS", "MCP_LOG_LEVEL",
   "MONDAY_WORKSPACE_ID"}
ListKeys ==
  {"MCP_WRITE_TOOL_ALLOWLIST", "MONDAY_WRITE_BOARD_ALLOWLIST",
   "MONDAY_WRITE_WORKSPACE_ALLOWLIST"}

\* ---- Load -----------------------------------------------------------------------

TransportFits(source) ==
  /\ Transport(source) \in {<<"stdio">>, <<"streamable-http">>}
  /\ parseAuthMode(source) \in {<<"env">>, <<"request">>}
  /\ get(source, "MCP_ALLOW_SHARED_TOKEN") \in {Blank, <<"true">>, <<"false">>}
  /\ Transport(source) = <<"streamable-http">> /\ parseAuthMode(source) = <<"env">>
     => SharedToken(source)

\* Whether Load returns a configuration.
Loads(source) ==
  /\ readProfile(source.profile)
  /\ TransportFits(source)
  /\ parseAuthMode(source) = <<"env">> => token(source) # Blank
  /\ get(source, "MCP_READ_ONLY") = Blank
  /\ parseAccessLevel(source) \in {<<"read">>, <<"write">>, <<"full">>}
  /\ \A key \in DOMAIN Numbers : NumberFits(source, key)
  /\ \A key \in TextKeys : get(source, key) # <<Junk>>
  /\ \A key \in ListKeys : ListFits(source, key)

\* The configuration, as far as it decides who may do what.
config(source) ==
  [transport |-> Transport(source)[1],
   authMode  |-> parseAuthMode(source)[1],
   shared    |-> SharedToken(source),
   clientKey |-> lookup(source, "MCP_CLIENT_KEY"),
   prefixes  |-> parseTokenPrefixes(source),
   apiToken  |-> IF parseAuthMode(source) = <<"env">> THEN token(source) ELSE Blank,
   level     |-> parseAccessLevel(source)[1],
   tools     |-> parseList(source, "MCP_WRITE_TOOL_ALLOWLIST")]
=============================================================================
