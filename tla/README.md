# Verification of mcp-monday-projects

The repository is an MCP server, written in Go, that offers monday.com boards,
items, updates and reports as tools. Its own core is not the tools but what
stands between them and the account: an access level, two write allowlists and
a workspace scope, enforced by checks that are themselves calls to monday, made
by any number of concurrent tool calls over a little shared state. Around that
core stand the configuration and the registry that decide which tools exist and
whose credential a request carries, the client that retries, the long methods
that write or read in many requests (bulk operations, provisioning, snapshots),
and the pure functions that validate values and write reports. All of these are
modelled and checked with TLC, and every safety property and refinement that a
passing run checks is also a theorem that TLAPS has proved, for every value of the
constants its assumptions admit.

Paths are relative to `src/`; `application/` stands for `internal/application/`,
and so on for the other packages.

## The system

| Component | State | Operations | Talks to |
|---|---|---|---|
| Configuration, profiles (`config/`) | none after start | `Load` from environment and profile | process entry (`cmd/mcp-server`) |
| Tool registry (`mcpserver/registry.go`, tool files) | the catalog, built once | `add`, tool handlers | service |
| HTTP transport (`mcpserver/transport.go`) | none | authentication, token of the request | registry, client |
| Write guard (`application/guard.go`) | `created`: boards made by this process | `CheckWrite`, `CheckBoard`, `CheckWorkspace`, `TrustBoard` | service |
| Workspace scope (`application/scope.go`, `ScopedPort`) | `boards`: workspace of each board seen | wraps every method of the client; `checkBoard`, `checkItems`, `remember` | client |
| Service: structure, items, collaboration, deletes (`application/*.go`) | none | one method per tool: checks, then one port call | guard, scope, domain |
| Bulk operations (`items.go:407-529`) | none | `BulkUpdateItems`, `BulkItemAction` | port |
| Provisioning (`collaboration.go:310-384`) | none | `ProvisionBoard` | service, port |
| Snapshots, overview (`collaboration.go:389-453`) | none | `Snapshot`, `BuildWorkspaceOverview` | port |
| monday client (`monday/client.go`, `files.go`) | none | `Do` with retries, upload | monday |
| monday adapters (`monday/boards.go`, `items.go`, `deletes.go`) | none | one GraphQL call each | client |
| Column values, templates, reports (`domain/`) | none | pure functions | service |

One process serves many calls at once. A call runs its service method from top
to bottom: local decisions of the guard, reads from monday, then one mutation.
Under a scope each port method runs further checks, which may read from monday
and fill the cache. Calls share the guard's set of created boards and the
scope's cache, each behind its own mutex, which is held for a single map access
and never across a request. Other people use the same account meanwhile.

### What is hard

- **Check, then act.** Which board an item is on is read in one request and the
  mutation is another. Another call can move the item, or delete or create
  boards, in between. No lock spans the two.
- **A cache that is never refreshed.** `checkBoard` takes the verdict from the
  cache for the life of the process, and stores answers that may be old by the
  time they are stored.
- **Trust that grows.** Each created board becomes writable under an allowlist
  that does not name it.
- **Answers that get lost.** A change may be made and reported as failed.
- **Targets monday resolves by itself.** An update is named by its ID alone.
- **Retries of mutations**, bulk operations and provisioning that go on after a
  failed step, paging that ends when monday says so, over a board that changes.
- **Settings that meet.** Two sources of configuration, two transports, two
  modes of authentication; flags of tools and guards of the service that are
  written in different places and must agree.
- **Walks repeated by hand.** Each report walks the items by itself, each column
  type has its own normalizer, and a plan is validated again when it is sent.

### What makes each component correct

- Guard: a write reaches an allowlisted board, an admitted workspace, or a board
  made by this process in an admitted workspace; nothing is deleted below level
  `full`, nothing changes at level `read`.
- Scope: a call that reaches monday concerns the configured workspace; the cache
  does not lie.
- Service: the two together behave as if checks and change were one step; values
  go to monday with the board the item is on; every call returns.
- Bulk: an invalid row keeps a bulk update from writing at all; counts and rows
  agree with what was sent.
- Provisioning: what exists afterwards is what the result and the warnings say.
- Snapshots: no item twice or lost without `Truncated`; paging ends.
- Client: at most `maxRetries + 1` attempts, bounded waits, the token of the
  caller, and no second attempt of what was refused for good.
- Registry: no configuration registers a tool above its level.
- Domain: plans, colours and scores agree with their definitions at the edges.

`PROJECT.json` lists each hazard at its line, with the properties that cover it
or the reason why none does.

## The modules

| Module | Models |
|---|---|
| `WritePolicy` | The policy and the decisions taken from it: `guard.go`, `requireDelete`. No state. |
| `Operations` | The 42 operations that reach monday, each as data: arguments, the service method's checks in order, ScopedPort's checks in order, the effect, what is done with the answer. No state. |
| `ScopedService` | Concurrent calls running operations: one action per kind of check, per request to monday and per access to shared state, and the moves of other users. |
| `Confinement` | Abstract: every change together with its checks in one step. |
| `MondayClient` | One mutation through the client: `Client.Do` and `uploadFile`, with attempts, waits, lost and late answers, cancellation. |
| `RemoteCall` | Abstract: the contract of such a call, as `ScopedService` relies on it. |
| `BulkOperations` | `BulkUpdateItems` and `BulkItemAction`: one read, a verdict per row, one request per row, the counters. |
| `BoardContents` | External: one board with its columns, groups and items, the users who change it, and the attempts whose answer was lost. |
| `ProvisionBoard` | `Service.ProvisionBoard`, over `BoardContents`: one action per request and per way it fails. |
| `SnapshotPaging` | `Service.Snapshot` and `loadItems` of the quality tools, over `BoardContents`: the cap, the pages, the cursor. |
| `WholeRead` | Abstract: the atomic read that a snapshot stands for. |
| `BoardReports` | The composition of the last four: a snapshot of a board that is being provisioned and used. |
| `Configuration` | `config.Load`: profile and environment, parsers, what stops the start. No state. |
| `ToolCatalog` | The tools with their flags and the service methods they call. No state. |
| `ServerAccess` | The process from start to requests: registration, authentication, tools, levels, tokens; over the two modules above. |
| `ColumnValues`, `LabelColours`, `Reports` | The functions of `domain/` (and the risk report of `mcpserver/quality.go`) as operators. |
| `PureAlgorithms` | Runs those operators on inputs of a bounded set. |
| `MCScopedService`, `MCMondayClient`, `MCBulkOperations`, `MCBoardReports`, `MCServerAccess`, `MCPureAlgorithms` | Small instances for TLC; one `.cfg` per run. |
| `ScopedServiceProofs` | The order of checks of all operations, the type invariant and how each action changes a call's frame, proved. |
| `ScopedServiceSafety` | The inductive invariant of the service and its safety theorems, proved. |
| `ScopedServiceConfinement` | On top of it: trust, levels, the destination of values, and the refinement of `Confinement`, proved. |
| `MondayClientProofs` | Types, bounds, honesty of reports and the contract of the client, proved. |
| `BulkOperationsProofs` | Types, counters, reports and confinement of bulk calls, proved. |
| `BoardReportsProofs` | Provisioning, snapshots and the refinement of `WholeRead`, proved. |
| `ServerAccessProofs` | Settings, credentials and the catalog, proved. |
| `PureAlgorithmsProofs` | Plans, colours and reports, proved for every input. |

Definitions introduced by "A flaw" or "Flaws" are not used by any specification. Each is the
form that a plausible bug would give the definition after it, and shows, put in
its place, that the property named in `PROJECT.json` is able to fail.

### How the model corresponds to the code

A service method in this code is a straight line of checks ending in one port
call, so an operation is a record of two check lists and `ScopedService` is
their interpreter. `request[r]` holds the operation and its arguments,
`layer[r]` and `pc[r]` the place in the code: `service` is the method in
`application/*.go`, `port` the method of `ScopedPort`, `reply` what is done with
the answer. `found[r]` is the item's board as last read, `target[r]` the
variable `effectiveBoardID` of `UpdateItemValues`, and `resolved[r]`, which the code
does not keep, the board its own read of the item came to: what
`ValuesReachTheirItem` compares the target with; it is `Unanswered` after a read that
failed. `asking[r]` and `answer[r]`
split `checkBoard` where the code releases its mutex: a cache lookup, the
request to monday, and the store are three steps.

| Model | Code |
|---|---|
| `cache` | `ScopedPort.boards` |
| `created` | `WriteGuard.created` |
| `policy` | `WriteGuard.level`, the allowlists, `Service.workspace` |
| `workspaceOf`, `boardOf` | the account: where boards and items are |
| `movedItems`, `movedBoards` | history: what other users have moved, used to say what the properties promise |
| `Guard`, `GuardWorkspace`, `GuardBoard` | `CheckWrite`, `requireDelete`, `CheckWorkspace`, `workspaceOr`, `CheckBoard` |
| `SkipLookUp`, `LookUpItem`, `LookUpFails` | `checkItem`, `GetItem(s)`; the failure `UpdateItemValues` ignores |
| `SkipScope`, `LookUpCache`, `AskBoard`, `AskBoardFails`, `RememberBoard` | `ScopedPort.checkBoard` |
| `ReadAndValidate`, `FindUpdate` | reads whose content decides: columns, groups, updates |
| `Send...` | the request to monday: it fails, is made and answered, or is made and the answer lost |
| `Remember`, `TrustBoard` | `remember` and `TrustBoard` after `CreateBoard`, `DuplicateBoard`, `CreateSubitem` |
| `OthersMoveItem`, `OthersMoveBoard` | other users of the account |

Abstracted: names, texts and column values (validation accepts or refuses);
malformed arguments, which are refused before any check; groups, columns and
tags, which live inside a board. A board and its subitems board are always in
the same workspace, as on monday.

monday itself is the environment: a request may fail before it has an effect or
lose its answer after it, and items and boards are created, moved and deleted as
the requests say. After a lost answer the client may send the same request again
without any new check; `Answered` allows that, any number of times.

### The client

`MondayClient` is the loop of `Client.Do` for one mutation: `phase`, `attempt`
and `wait` are the loop, `alive` the caller's context, `outcome` what the call
returned. Its answers are told apart as the code does: `Lost` (the HTTP client
returns an error), `Unavailable` (500 and above), `Throttled` (429 and the
GraphQL codes of `RequestError.Temporary`), `Refused` (any other status, any
other GraphQL error, the legacy envelope, which is never retried), `Broken`
(unreadable, too large, not decodable), `Succeed`. `uploadFile` is a call with
no retries. monday is external: it applies an attempt at any time after it was
sent, also after the client has given it up (`strays`), and a refusal or a limit
means that the attempt was not applied. `Wrap` is the multiplication
`time.Duration(seconds)*time.Second` at its width, which comes before the cap of
30 seconds in `retryAfter`: a hint large enough wraps, and is then not kept to.
Left out: the choice of the token (a call without one fails before the loop) and
the removal of it from error texts.

`ScopedService` uses the client under the contract of `RemoteCall`: a mutation
is applied a bounded number of times; when success is reported it has been
applied; a failure says nothing. Its `Send...` actions are the contract's
`Apply` and `Report` in one or several steps.

### Bulk operations

`request[c]` is what a call was asked, with rows of an item and values; `phase`
is where its method is, `next` the row the loop has come to, `status`,
`succeeded` and `failed` the `BulkResult` under construction. `Refuse` and
`ReadFails` are the early returns, `Plan` is the one read with the verdict on every
row (`JudgeUpdateRow`, `JudgeActionRow`), which ends a dry run and an update with an
invalid row; `SkipRow`, `WriteRow` and `RowFails` are the three ways through the
body of the loop. An update is judged by the columns of the board the call
names, an action by the board each item is on. The port is used under the
contract of `RemoteCall`: a failed row may have been carried out (`ApplyLost`),
also long after. `OthersMove` moves and deletes items meanwhile. monday discards
values sent with a board the item is not on and reports success
(`items.go:251-252`): `Takes`.

### Provisioning and snapshots

`ProvisionBoard` keeps the local variables of the method: `existing`, `previous`
and `groupIDs` for the groups, `known` for the columns of the seeds, and the
result with its warnings; `step` and `at` are the place in it. Each request has an
action that succeeds and one that fails, and the latter leaves the board changed
or not. A group is known by the title it was created with.

The client sends a mutation again when its answer is lost (`client.go:133`), so a
`create_group` that succeeds may have been carried out before, or may be once more
later. `Abandon` is an attempt that is given up: `late` keeps which request it was
and after which group the new one was to stand. `CarryOut` is monday carrying it
out, at any time from then on, also when the call has returned, or never. What it makes
is told apart by a member of `Copy`: a second group of a title, a second seed, a second
column (or the same one, where monday refuses the second). An abandoned
`create_board` would leave a second board, which nothing in the method ever sees;
it is outside this model of one board.

`SnapshotPaging` has `reading`, `cap`, `got`, `cursor` and `truncated`; `ReadPage` is
one turn of the loop. `loadItems` is the same loop with a second bound, on the pages,
and refuses a bound that is out of range where `Snapshot` corrects it (`LoadSchema`,
`OutOfPages`). monday's cursor is external: it stands for the items that were there
when the first page was read and were not delivered yet, less those archived since,
and may accompany the last page if that page is full. `BoardReports` lets both
methods, other users and late attempts work on one board.

### The server

`Configuration` represents a raw value as the sequence of its comma-separated
parts, so that lists with empty parts are told apart from lists without; texts a
parser refuses are one value, `Junk`. `Loads` is whether `Load` returns a
configuration, `config` the part of it that decides who may do what.
`ServerAccess` starts or stops (`Start`, `StartFails`), lets requests in or
rejects them (`Admit`, `Reject`: `transport.go`), dispatches a call to a
registered tool (`CallTool`) and records what reaches monday and with which
token (`Read`, `Change`). What a service method refuses is reduced here to level,
confirmation and dry run; `ScopedService` has the rest.

### The functions of `domain/`

A text is what its reader finds in it (`DayText`, `Clock`, `NumberText`, `Word`
...), so normalizers keep their decisions and lose their regular expressions. Days are
integers that count from a Monday. `Validate` of `PureAlgorithms` runs
`PlanColumnValues` on its own output, as a caller does that sends the plan it was
shown. Colours are the numbers of monday's palette; which colour the words of a label
suggest is a parameter, and `Colour` is one turn of the loop, one label.

The reports take a snapshot whose cells hold a status word, a due day and names,
together with what they are asked (`mcpserver/reports.go:61-71`): the columns a
caller names (`override`), the age in days of a stale item (`days` for the listing,
`staleDays` for the health report), the hours the stand-up looks back. The moment is
an hour of UTC and `zone` the hours by which the server's clock is ahead: the reports of
`domain/` take their day from the local clock (`LocalDay`; `guard.go:181`), the risk
report from UTC (`UTCDay`; `quality.go:330`). The risk report reads the columns it
finds itself, from projected items, and takes none from its caller (`Projected`).
Zones are whole hours, a day has 24 of them (`AddDate` across a change of
summer time is left out), a column that is named has the type of its role,
and all reports of one board are written at the same moment.

## The runs

Boards `home` and `annex` are listed and in the scope, `away` is neither,
`fresh` does not exist yet, `sub` and `awaySub` are subitems boards. A policy is
drawn from: `Strict` (scope and both allowlists, level `full`), `Daily` (level
`write`), `Allowlisted` (no scope), `ScopedOnly` (no allowlist), `Open`,
`ReadOnly`, and `Overlapping` (scope, level `full`, and an allowlist of
`home`, `sub` and `away`, where the scope alone keeps the last out).

| Run | Instance | Checks |
|---|---|---|
| `boards` | 2 calls, 3 boards, 6 board operations, `Strict`, `Allowlisted`, `ScopedOnly` | `TypeOK`, `TrustStaysInside`, `WritesStayOnAllowedBoards`, `Confined` |
| `items` | 2 calls, 3 boards, 2 items and their updates, `Allowlisted`, `ScopedOnly`; any read may fail | `ValuesReachTheirItem`, `WritesStayOnAllowedBoards`, `Confined` |
| `subitems` | 2 calls that create subitems and move items, 2 boards with a subitems board each, `Overlapping`; `FairSpec` | `CacheTruthful`, `Confined`, `CallsReturn` |
| `one` | 1 call after another, every operation that resolves its target but the creation of subitems, all policies but `Overlapping`; reads fail and other users move items and boards | `WritesStayOnAllowedBoards`, `WritesStayInScope`, `LevelsBoundChanges` |
| `reply` | `ReplyToUpdate` alone | `WritesStayInScope`, violated |
| `client` | 1 call, 5 retries (the most that can be configured), hints of 0, 1 and 60 seconds and two that wrap, `FairSpec` | `TypeOK`, `CostIsBounded`, `DuplicatesComeFromLostAnswers`, `RefusalsLeaveNothing`, `ContractKept`, `CallsEnd` |
| `bulk` | 1 call with any of the three kinds, up to 3 rows (and one too many), dry or not, 2 boards, 3 items of which one is missing; other users; `FairSpec` | `TypeOK`, `AllOrNothing`, `ReportAddsUp`, `ReportMatchesAccount`, `RowsStayOnAllowedBoards`, `BulkCallsReturn` |
| `bulk_partial` | an archive of two rows | `InvalidRowHoldsBackAll`, violated |
| `provision` | a template of 1 column, 3 groups and 2 seeds, two attempts given up, other users who touch one item | `EveryStepIsAccounted`, `ResultIsOnBoard`, `GroupsKeepTemplateOrder`, `CleanMeansTemplate` |
| `reports` | a template of 1 group and 2 seeds, one attempt given up, other users who touch one item, and meanwhile a snapshot with pages of 2 and a cap of 1 or 3, or one page of `loadItems`; `FairSpec` | `TypeOK`, `SnapshotWithinCap`, `CompleteUnlessTruncated`, `BothCallsEnd`, `SnapshotIsWholeRead` |
| `access` | 2 requests; every combination of levels, lists and profiles with tools of each kind, and of transports, modes, keys and prefixes with every caller | `EffectsWithinSettings`, `OwnCredential`, `HiddenExactlyWhatIsRefused` |
| `algorithms` | a value of every shape for a column of every type, among them a status with two labels that differ in case alone; every order of up to 5 of 7 labels; boards of none or two items, with columns named by the caller or not, at three moments on clocks ahead of UTC, behind it and at it, a stand-up that looks back less far than items take to be stale and one that looks back further | `ResubmissionIsStable`, `LabelsKeepTheirColours`, `ReportsAgree` |

### What the properties say

- **Service.** A call about to send concerns a board the allowlists admit
  (`WritesStayOnAllowedBoards`) and the configured workspace (`WritesStayInScope`),
  although what it knows was read earlier; the cache names the workspace a board
  is in (`CacheTruthful`); boards trusted because the process made them are in
  admitted workspaces (`TrustStaysInside`); no mutation is sent at level `read` and no
  permanent delete below `full`, of a group, a column or an update no more than of a
  board, and a board that disappears was one the policy admits
  (`LevelsBoundChanges`). `Confined` sums this up as a refinement.
  `ValuesReachTheirItem`: values are sent with the board that the call found the
  item on; with the board its caller named only after a read that got no answer, and
  never because the scope refused the board that was read. `CallsReturn`: every
  call ends.
- **Client.** Attempts, waits and the total time are bounded; a change is made
  twice only after an answer was lost; a refusal leaves nothing behind.
- **Bulk.** A dry run, and an update with an invalid row, send nothing, in
  whatever order the rows come; counters and rows agree; what a row reports is
  what happened, as far as the call can know; what is carried out is on an allowed
  board, although the guard decided for all rows before the first was sent.
- **Provisioning.** Every part of the template ends in the result or in the
  warnings; the result is on the board; the groups that were made stand in the
  order of the template. `CleanMeansTemplate`: no warning means that the board is the
  template, if `ListGroups` answered (its error is dropped without a warning), apart
  from what abandoned attempts have made. Those can double a column, a group or a
  seed without a warning; they add no group of another title, and the rest stands
  in the template's order around them.
- **Snapshots.** Caps, page sizes and numbers of pages; no item twice; an item that was there from
  the first page to the end is in the snapshot unless it says that it is cut.
  `SnapshotIsWholeRead` is the refinement: on a board that stands still it is
  what one atomic read would return.
- **Server.** No variable of the environment widens what a profile has pinned,
  and what is changed at monday is what the operator's settings allow, tool by
  tool; each request to monday carries the credential of the caller it is made
  for; the tools a client is shown are exactly those the service would carry
  out, which compares the flags in the tool files with the guards in the service.
- **Functions.** A value of a plan shown by `validate_column_values` is either
  refused when it is sent or comes out as it went in, but for the spelling of a
  label; labels lose their colour only to a palette that is
  exhausted. `ReportsAgree`: the summary, listings, stand-up, load and score of one
  board tell one story; no item is in motion and stale if the stand-up looks back no
  further than the age of a stale item; and the risk report lists what the others call
  overdue if it reads the same dates and the server's clock is not a day ahead of UTC,
  and otherwise at least as due soon.

**Bounds.** Nothing in the core model is cut off by a counter: calls keep
arriving in its runs and TLC explores every reachable state. The bounds are the
sets. Two calls are what a check-then-act race takes; a third could only repeat
what one of the two does to the other, and the theorems below hold for any
number. The three kinds of board (listed and in scope, foreign, not yet created)
and two workspaces are every case a policy tells apart; two listed boards, so
that an allowed move exists. `one` covers what needs a long sequence of calls
and every operation, and the two-call runs the operations that disturb each
other. `SYMMETRY` permutes the request slots in `boards` and `items`, which check
safety only: no definition names a slot. In `items` and `subitems` the boards stay;
they are created in `boards`, and deleted in `boards` and `one`.

`client` has one call because calls of the client share nothing, and the real
bound on retries. Durations are counted in quarters of a second and wrap at 512
of them, far enough above the cap of 120 that some hints fit, some are cut and
some wrap.

`bulk` has one call, for bulk calls meet only in the account and other users do
to it whatever a second call could; `MaxBulkItems` is 3 instead of 50, which gives
a row that fails one before it and one after it. `provision` has three groups, the
least with one between two others that may fail, and a seed that depends on a
column and a group and one that does not; `Copy` lets it give up two attempts,
so that a late one meets another. `reports` has a small template, for the snapshot does
not look at groups, and a cap that takes two pages, the second cut short; there
one attempt is given up. `TouchMax` allows other users one item.
`access` needs two requests for a token that strays from one to the other.
`algorithms` has 4 fallback colours instead of 14, so that 5 labels exhaust
them, and values up to the edges the normalizers name (90 and 180 degrees, hour 23,
minute 59, five stars); its clocks stand an hour before and after midnight, where the
local day and that of UTC differ. `CHECK_DEADLOCK FALSE` is in the runs whose system
comes to an end: `client`, `bulk`, `bulk_partial`, `provision`, `reports`, `access` and
`algorithms`. Everywhere else deadlock is checked.

**Fairness.** `FairSpec` of `ScopedService` asks that a call that has started is
led on (`WF_vars(Onward(r))`): each call runs in its own goroutine, each request
to monday is bounded by the HTTP client's timeout and the number of its attempts
by `maxRetries`, which is why `Onward` leaves out the steps that only lead to
one more attempt. `subitems` checks it. That this is justified is what `CostIsBounded` and `CallsEnd`
show of the client, where only the client's own steps are fair: `Transmit`,
`Lost` (the timeout) and `TimerFires`. Nothing is asked of the arrival of calls,
of other users, of callers, or of monday. `BulkOperations` and `BoardReports` ask
for the same of their calls: weak fairness of a call's next step, where every
request of it ends with an answer or a failure; that a snapshot ends rests on
monday's cursor moving on. Other users and late effects are not fair.

**Refinements.** `Confined`: under the identity mapping of the policy, the
account and the created boards, every step of `ScopedService` is a step of
`Confinement` or leaves those alone. It is checked without other users, who
could not be confined by any server. `ContractKept`: every step of the client is a
step of `RemoteCall`, with the attempts not yet answered hidden.
`SnapshotIsWholeRead`: `Begin`, `GiveUp` and `Answer` of `WholeRead` are the first
step, the failure and the last page of a snapshot, and the pages between are hidden.

### Findings

Two runs show where a document or a comment says more than the code does:

- `reply`: `ReplyToUpdate` checks the item the caller names and then sends the
  update's ID alone; the comment at `scope.go:439-440` says the service resolves
  and checks *their* item. `EditUpdate` and `DeleteUpdate` do look for the update
  among the item's, and the `items` and `one` runs show that this suffices.
- `bulk_partial`: `BulkItemAction` moves or archives the valid rows although
  another is invalid; `docs/TROUBLESHOOTING.md:73` says that one invalid row means
  that nothing is written, which holds of `BulkUpdateItems` only.

Read while modelling, and not runs of their own. About targets:

- `AddFileToUpdate` asks `CheckWrite` alone, so an allowlist does not hold it
  (`collaboration.go:131-134`); `docs/CAPABILITIES.md:127` says item-level writes
  resolve the item's board first. `LikeUpdate` is like `ReplyToUpdate`, and
  `DuplicateItem` judges the caller's board argument and never the item's. These
  four are the set `Unresolved`, the only operations the safety runs do not serve.
- When the read of the item fails, `UpdateItemValues` keeps the caller's board
  (`items.go:269-272`), which the comment at `items.go:249-250` says it does not
  trust: values are then validated against that board and sent with it. This is the
  case `ValuesReachTheirItem` excepts, and reads do fail in `items`.
- `BulkUpdateItems` trusts the board the call names for every row: values of an
  item that is on another board are discarded by monday (`items.go:251-252`) and
  reported as `updated`. `ReportMatchesAccount` therefore excepts such items.
- With other users moving things, a board moved out of the scope keeps its cached
  verdict, and a parent moved between the check and the creation of a subitem
  leaves a foreign board in the cache. The first is why `CacheTruthful` and
  `InScope` except the boards others have moved, the second why `one` does not
  create subitems and why the theorem has `SubitemsUndisturbed`.

About provisioning and settings:

- A request whose answer was lost is sent again, and nothing tells a second
  group, column or seed from the first: `ProvisionBoard` then reports success
  without a warning (`collaboration.go:351`).
- An error of `ListGroups` is dropped (`collaboration.go:340`): the default group
  is then left on the board and no warning says so. A seed whose group was not
  made, or is not in the template, lands in the first group of the board.
- `create_column` with more labels without a suggested colour than there are
  fallback colours keeps only the last of those that find none (all have key -1).
- An allowlist of separators only (`,`) is an empty list, which restricts nothing.
- A `Retry-After` so large that it wraps is not kept to, against
  `docs/SETUP.md:157-158`; `client` includes such hints.

About values and reports:

- The value of a dropdown that is given as an object is passed on without a look
  at its labels, against `docs/COLUMN_VALUES.md:49`. `null` for the column `name`
  becomes an empty name, which a string is not allowed to be.
- Of two labels of a status that differ in case alone the first is taken, also when
  the second was written as it is (`columnvalues.go:299-304`): the plan turns one
  valid label into another. `ResubmissionIsStable` excepts this (`Respelled`), and
  `algorithms` has such a column.
- A person called "Unassigned" shares a line of the workload with the items that have
  no owner (`reports.go:369`), and the count of those no longer agrees with the
  summary. `ReportsAgree` asks for that agreement only where nobody is called so.
- `find_due_soon_items` and `find_unassigned_items` say "open items"
  (`quality.go:260`, `291`) and return those done as well; the risk report counts
  done items as overdue, the summary does not. This is why `ReportsAgree` asks
  for an inclusion there.
- The risk report takes its day from UTC (`quality.go:330`), the other reports from
  the server's clock (`guard.go:181`): ahead of UTC, an item that is overdue in one is
  only due soon in the other during the first hours of the day.
- The windows for what is due soon are measured from the current time of day, so an
  item of the day after the last can be in them (`quality.go:281`, `343`).
- `find_blocked_items` knows "detenido", the risk report does not.
- `get_item_context`, `search_items_all` and `item_integration_payload` project
  items without the columns of the board, so status, owner and date are empty.
- `docs/REPORTS.md:30` names "Resolved" as a fallback for done; the code has no
  such word.
- The Markdown export leaves out items whose group is not among the groups of the
  snapshot.

## The proofs

TLAPS checks these for every value of the constants that satisfies the
assumptions named in the modules. TLC has found each statement, and each inductive
invariant, to hold on a small instance first.

| Component | Theorems (property) | Assuming |
|---|---|---|
| Service | `TypeInvariant` (`TypeOK`), `TrustIsNeverWidened` (`TrustStaysInside`) | |
| | `TheCacheIsTruthful` (`CacheTruthful`), `LevelsAreKept` (`LevelsBoundChanges`), `ValuesAreSentHome` (`ValuesReachTheirItem`) | `SubitemsUndisturbed` |
| | `WritesAreConfined` (`WritesStayOnAllowedBoards`, `WritesStayInScope`) | `ServesResolved`, `SubitemsUndisturbed` |
| | `TheServiceIsConfined` (`Confined`, a refinement) | `OutsideMoves = {}` |
| Client | `ClientTypes`, `CostsAreBounded`, `ReportsAreHonest` (`DuplicatesComeFromLostAnswers`, `RefusalsLeaveNothing`), `ClientKeepsContract` (`ContractKept`, a refinement) | |
| Bulk | `BulkTypes`, `InvalidUpdatesWriteNothing` (`AllOrNothing`), `CountersAddUp` (`ReportAddsUp`), `ReportsMatchTheAccount` (`ReportMatchesAccount`), `CarriedOutOnAllowedBoards` (`RowsStayOnAllowedBoards`) | |
| Provisioning | `BoardReportsTypes` (`TypeOK`), `NothingIsPassedOver` (`EveryStepIsAccounted`), `ResultStaysOnBoard` (`ResultIsOnBoard`), `GroupsStayInOrder` (`GroupsKeepTemplateOrder`), `CleanIsTheTemplate` (`CleanMeansTemplate`) | |
| Snapshots | `SnapshotsAreBounded` (`SnapshotWithinCap`), `SnapshotsAreComplete` (`CompleteUnlessTruncated`), `SnapshotsReadAtomically` (`SnapshotIsWholeRead`, a refinement) | |
| Server | `SettingsBind` (`EffectsWithinSettings`), `CredentialsAreOwn` (`OwnCredential`), `CatalogAgreesWithGuards` (`HiddenExactlyWhatIsRefused`) | |
| Functions | `PlansAreStable` (`ResubmissionIsStable`), `LabelsAreKept` (`LabelsKeepTheirColours`), `ReportsTellTheSame` (`ReportsAgree`) | |

The hypotheses of the third column are about the server or the other users:

- `ServesResolved` says that none of the four `Unresolved` operations is served,
  and `SubitemsUndisturbed` that, where subitems are created, other users do not
  move items. The findings show what becomes of `WritesAreConfined` without them.
  The inductive invariant needs only the second, which is why `CacheTruthful` and
  the levels hold of every set of operations.
- `OutsideMoves = {}`: `Confinement` asks at the moment of a change whether it is
  admitted, and a board that another user has just moved is not, whatever the
  server checked.

Assumptions on constants are the `ASSUME`s of the modules. Most say that the names
are distinct, the lists are lists and the days are numbers. Those with content: `TemplateIsValid`, that the
template has at least one group and repeats no title, as is true of each built-in
one (with no group at all the board's default group would stay and no warning would
say so); `PagesAreBounded`, that caps and page sizes are positive; and
`FallbackColours`, that the palette repeats no colour and green is not in it.
TLC evaluates all of them.

**Argument for the service.** None of the three invariants of `WritesAreConfined` is
inductive: they speak of the moment when a call is ready to send, and say nothing of a
call half-way through its checks. The invariant that is, `IInv`, adds

- `FamiliesTogether`: a board and its subitems board are in one workspace;
- `OnlyOthersMove`: a board is where it started, was created, was deleted or was
  moved by another user, and so an answer read earlier is still true of it;
- `Facts(r)`, for each call: every check already passed has left its fact. The
  board argument is admitted once `guardArg` is behind; the item, unless another
  user has moved it, is on an admitted board once `guardFound` is behind;
  an answer not yet stored names the workspace the board is in; and so on.

That a fact about an item survives the steps of other calls is the heart of the
proof: another call that moves the item has itself been judged for the
destination, so the item goes from one admitted board to another, and admission
never shrinks (`created` only grows). `OperationsWellOrdered` and
`OperationsJudged` establish, by cases over all operations, that each list makes
its checks in an order in which those facts accumulate and that, for each effect,
the checks needed for it are in the lists. `StepKeepsIInv` has one case per action;
`CallsAreSafe` derives the three invariants.

`ScopedServiceConfinement` builds on it. `TrustInv` adds what a call that creates a
board knows of its own request: the workspace it was judged for (`Warranted`) and, once
the answer is there, the board it is about to trust (`Entrusted`). It does not need
`IInv`, and so trust is never widened, whatever is served. `StepIsBounded` takes each
change back to the level under which it was licensed (`OperationsLicensed`), also the
changes of deleted folders and workspaces. `StepIsAtomic` is the refinement, one case per
request that changes something: the facts of `IInv` are the guard of the abstract step.
Its first part says it of what is sent, its second of what becomes of the account.
`ValuesInv` follows `UpdateItemValues` from its own look-up to the request: from then on
its target is the board it resolved, or the read got no answer, or there is a scope and
the item is outside it (`Settled`, `Abroad`). The last is what makes the fall-back
on the caller's board harmless, for `ScopedPort` then refuses the item once more; and
it lasts, since no call can move or delete an item or a board outside the scope
(`ForeignersKept`, from the facts of `IInv` and from `StepIsBounded`), and what is
remembered of such a board stays exact (`ForeignKnown`).

**Argument for the client.** `IInv` keeps a balance per call: what monday has applied
plus what it may yet apply is at most what was given up plus the attempt in
progress (`Accounted`), and at most what was sent; the loop has slept at most its
attempts times the cap (`Counted`); and what was returned fits the last attempt
(`Judged`). Calls share nothing, so each action disturbs one of them
(`OthersStand`).

**Argument for bulk operations.** The properties speak of calls that have returned
or of rows that were sent; in the middle of the loop the result does not add up
yet. `IInv` says of each call what is true at every turn: before it starts nothing
is there (`Untouched`); what started was not refusable (`Admitted`); a plan that is
only shown has sent nothing (`ShownOnly`); behind the loop's position no row is
still planned, ahead of it none is written, and each counter is the number of the
rows behind that it counts (`Looped`); what was applied or lost was sent, and
what was sent lies behind (`Honest`); a row that is sent or still to be sent names an
item, which for an action is on an allowed board unless others have moved it
(`Vetted`), while an update that was not refusable names an allowed board and
monday takes its values only there; and an item others have not moved is where
it started (`Settled`). The cardinalities
move by one when the position does, by the library's facts on finite sets. The
action property follows from `Vetted` at the state before the step, however late
the effect comes.

**Argument for provisioning and snapshots.** The properties of `ProvisionBoard` speak of
its end. `ProvisionInv` says for every position of the template, in whatever loop the
method is, that it is in the result or in the warnings exactly if it has been tried
(`ColumnsAccounted`, `GroupsAccounted`, `SeedsAccounted`); that `previous` is the last
group made and each group of the result stands on the board under its title
(`GroupsInv`), in the order in which they were made (`OrderInv`: a new group is put
after `previous`, and a late attempt moves none); and that without a warning the
groups of the board are those of the template up to here and what late attempts have
made (`CleanInv`). `LateInv` says of an attempt under way that it is a request for a part
of the template and names a group that is on the board, so that a double has the
title of its original, whenever it comes. `ReportInv` is
about a snapshot on a board that changes under it: what was read and what the cursor
still has are disjoint and without repetition, and between them cover the items that
were there at the first page and still are (`ReadInv`); for the refinement, that on a
board that stands still what was read is a beginning of the board and the cursor the
rest (`StillInv`). A page maps to a stutter, the last page to `Answer`, a failure to
`GiveUp`.

**Argument for the server.** `AccessInv` keeps with each request what was decided
when it was let in and when it was dispatched: that it was accepted, the token in its
context, that its tool was registered; and with each effect the request it belongs to.
`SettingsBind` needs besides that every tool of the catalog is flagged as the method
it calls behaves (`Catalogued`, by cases over all tools) and that no source of the
configuration loosens what another has pinned.

**Argument for the functions.** That a plan is stable is shown type by type: what a
normalizer makes of any value it either refuses or leaves as it is (`LongTextKept` ...
`WrappedRefused`), and `StatusSettles` where the first of two spellings is taken; that
the plan of a plan is a plan of its values is `WriteInv`. A colour is free as long as
fewer are used than the palette has (`FreeColour`, by the pigeonhole principle), so
the loop adds one label per turn (`Coloured`). For the reports, `EachIsCountedOnce`
says that counting the elements of a set by any key counts each of them once: with the
items and their groups it gives the totals of the summary, with the shares of the
owners the load per person. `PenaltyBound` bounds a rounded share by its weight, so no
penalty is cut off at a hundred; `SortedExists` says that the list of late items, which
the model chooses, is there to choose.

Where a proof needs induction (`LeastExists`, `RisingExists`, `SortedExists`), it takes
the least counterexample from the library's theorem on well-founded relations,
`WFMin`, as the theorems that state induction directly have a predicate for a parameter.

Checked by TLC only: `CallsReturn`, `CallsEnd`, `BulkCallsReturn` and `BothCallsEnd`,
since liveness under fairness, and `ENABLED` in it, is outside what TLAPS does here.
The two properties of `reply` and `bulk_partial` are false, and their runs show it.

## Plan

Modelled: policy, scope and service; client; bulk operations; provisioning and
snapshots; configuration, registry and authentication; values, colours and
reports. Proved: all their safety properties and refinements. What is left:

1. Hazards that no property covers yet: the board `DuplicateItem` judges
   (`items.go:362`), boards listed without a workspace (`scope.go:192`), the
   latest 100 updates (`deletes.go:117`), the two requests of `ChangeColumn`
   (`structure.go:455`).
2. A theorem that joins the client to the service: that `Send...` and `Answered` of
   `ScopedService`, with the steps of one request hidden, implement `RemoteCall`. The
   correspondence is argued above and not yet checked.
3. The conditions of liveness that are safety: that a call which has not returned
   always has a step, for any number of calls.

## Not modelled

- Distributions, activity summaries, item projections and the CSV and Markdown
  exports copy and lay out fields; `BuildWorkspaceOverview` is two reads and a
  sum.
- The text of GraphQL queries and the decoding of answers are I/O; what the
  mutations do to the account is modelled from how the service uses them.
- Reads that change nothing in the process (searches, listings of users, teams and
  updates) are left out of `Operations`, but for those whose answer fills the
  cache or decides a write.
- The syntax of dates, numbers, addresses, URLs and paths, the redaction of
  tokens in texts, logging and the health endpoint.
- The built-in templates and the words that suggest a colour or a state are data:
  the models take them as parameters.
- Scripts, CI and documents hold no program state.

`PROJECT.json` gives the status of each component.

## Running

    tlc -workers 2 -config MCScopedService_boards.cfg MCScopedService
    tlc -workers 2 -config MCBulkOperations_bulk.cfg MCBulkOperations
    tlapm ScopedServiceConfinement.tla

`tlapm` checks one module: for everything above, run it on each module whose name
ends in `Proofs`, and on `ScopedServiceSafety` and `ScopedServiceConfinement`.
