---------------------------- MODULE MondayClient ----------------------------
(***************************************************************************)
(* One mutation through the monday client (monday/client.go): Client.Do     *)
(* sends it, waits and sends it again while the failure looks temporary,    *)
(* and uploadFile (files.go) does the same without a second attempt.  A     *)
(* request may reach monday and its answer be lost, or be applied only      *)
(* after the client has given it up; the caller's context may end at any    *)
(* time.  Calls share nothing but the client's configuration.               *)
(*                                                                         *)
(* Time is counted in quarters of a second, the shortest backoff.  A        *)
(* time.Duration wraps at Half of them, which stands for 2^63 nanoseconds.  *)
(***************************************************************************)
EXTENDS Integers

CONSTANTS
  Call,         \* the calls in progress
  MaxRetries,   \* MCP_MAX_RETRIES
  Hints,        \* the seconds a server may ask for; 0 when it asks for none
  Half          \* half the number of values of a time.Duration

\* config.go refuses other values.
ASSUME RetriesAreFew == MaxRetries \in 0..5
ASSUME HintsAreSeconds == Hints \subseteq Nat /\ 0 \in Hints
ASSUME DurationsAreWide == Half \in Nat /\ Half > 120

VARIABLES
  limit,     \* the retries a call may make: MaxRetries in Do, none in uploadFile
  phase,     \* ready to send, sent, waiting to send again, done
  attempt,   \* the attempt the loop is in, from 0
  alive,     \* the caller's context has not ended
  wait,      \* the delay waitForRetry was given
  outcome,   \* what the call returned
  effect,    \* monday has applied the attempt in progress
  strays,    \* attempts given up that monday may still apply
  applied,   \* how often monday has applied the mutation
  sent,      \* history: the requests that have left
  unsure,    \* history: the attempts that may or may not have been applied
  slept      \* history: the time spent waiting

loop    == <<limit, phase, attempt, alive, wait, outcome>>
monday  == <<effect, strays, applied>>
history == <<sent, unsure, slept>>
vars == <<limit, phase, attempt, alive, wait, outcome, effect, strays, applied,
          sent, unsure, slept>>

\* ---- delays -----------------------------------------------------------------

Second == 4
LongestHint == 30 * Second
MinOf(a, b) == IF a <= b THEN a ELSE b

\* Multiplication of durations at their width.
Wrap(n) == ((n + Half) % (2 * Half)) - Half

\* retryAfter: the product is taken first and capped afterwards.
RetryAfter(seconds) == MinOf(Wrap(seconds * Second), LongestHint)

\* min(250ms << n, 5s)
Backoff == <<1, 2, 4, 8, 16, 20>>

\* waitForRetry: a hint, even a negative one, replaces the backoff.
Delay(n, seconds) ==
  IF RetryAfter(seconds) = 0 THEN Backoff[n + 1] ELSE RetryAfter(seconds)

-----------------------------------------------------------------------------
\* Do may retry; uploadFile ends with its first answer, or with none.
Limits == {0, MaxRetries}

Init ==
  /\ limit \in [Call -> Limits]
  /\ phase = [c \in Call |-> "ready"]
  /\ attempt = [c \in Call |-> 0]
  /\ alive = [c \in Call |-> TRUE]
  /\ wait = [c \in Call |-> 0]
  /\ outcome = [c \in Call |-> "none"]
  /\ effect = [c \in Call |-> FALSE]
  /\ strays = [c \in Call |-> 0]
  /\ applied = [c \in Call |-> 0]
  /\ sent = [c \in Call |-> 0]
  /\ unsure = [c \in Call |-> 0]
  /\ slept = [c \in Call |-> 0]

Finish(c, result) ==
  /\ phase' = [phase EXCEPT ![c] = "done"]
  /\ outcome' = [outcome EXCEPT ![c] = result]
  /\ UNCHANGED <<limit, attempt, alive, wait>>

\* A flaw: the attempt after the last is made too.
RetryOnceMore(c, seconds, result) ==
  IF attempt[c] <= limit[c]
    THEN /\ phase' = [phase EXCEPT ![c] = "waiting"]
         /\ wait' = [wait EXCEPT ![c] = Delay(attempt[c], seconds)]
         /\ UNCHANGED <<limit, attempt, alive, outcome>>
    ELSE Finish(c, result)

\* A temporary failure: wait and go on while attempts are left.
Retry(c, seconds, result) ==
  IF attempt[c] < limit[c]
    THEN /\ phase' = [phase EXCEPT ![c] = "waiting"]
         /\ wait' = [wait EXCEPT ![c] = Delay(attempt[c], seconds)]
         /\ UNCHANGED <<limit, attempt, alive, outcome>>
    ELSE Finish(c, result)

\* httpClient.Do: nothing is sent under a context that has ended.
Transmit(c) ==
  /\ phase[c] = "ready"
  /\ \/ /\ alive[c]
        /\ phase' = [phase EXCEPT ![c] = "sent"]
        /\ sent' = [sent EXCEPT ![c] = sent[c] + 1]
        /\ UNCHANGED <<limit, attempt, alive, wait, outcome>>
     \/ ~alive[c] /\ Finish(c, "cancelled") /\ UNCHANGED sent
  /\ UNCHANGED <<monday, unsure, slept>>

\* The attempt in progress is given up, although monday may have applied it
\* or may yet apply it.
Abandon(c) ==
  /\ unsure' = [unsure EXCEPT ![c] = unsure[c] + 1]
  /\ strays' = [strays EXCEPT ![c] = IF effect[c] THEN strays[c] ELSE strays[c] + 1]
  /\ effect' = [effect EXCEPT ![c] = FALSE]
  /\ UNCHANGED <<applied, sent, slept>>

\* A flaw: the HTTP client has no timeout.
LostUnlessCancelled(c) ==
  /\ phase[c] = "sent" /\ ~alive[c]
  /\ Abandon(c)
  /\ Finish(c, "cancelled")

\* The connection fails, the client's timeout expires or the context ends.
Lost(c) ==
  /\ phase[c] = "sent"
  /\ Abandon(c)
  /\ IF alive[c] THEN Retry(c, 0, "lost") ELSE Finish(c, "cancelled")

\* A status of 500 and above: a gateway may answer for a monday at work.
Unavailable(c) ==
  /\ phase[c] = "sent"
  /\ Abandon(c)
  /\ \E seconds \in Hints : Retry(c, seconds, "temporary")

\* 429, or a GraphQL error whose code says that a limit was reached.
Throttled(c) ==
  /\ phase[c] = "sent" /\ ~effect[c]
  /\ \E seconds \in Hints : Retry(c, seconds, "temporary")
  /\ UNCHANGED <<monday, history>>

\* Another status, another GraphQL error, or the legacy error envelope.
Refused(c) ==
  /\ phase[c] = "sent" /\ ~effect[c]
  /\ Finish(c, "refused")
  /\ UNCHANGED <<monday, history>>

\* A flaw: an answer that cannot be decoded is asked for again.
BrokenRetried(c) ==
  /\ phase[c] = "sent"
  /\ Retry(c, 0, "broken")
  /\ effect' = [effect EXCEPT ![c] = FALSE]
  /\ UNCHANGED <<strays, applied, history>>

\* The answer, whoever gave it, cannot be read, is too large or does not decode.
Broken(c) ==
  /\ phase[c] = "sent"
  /\ Finish(c, "broken")
  /\ UNCHANGED <<monday, history>> \/ Abandon(c)

\* A flaw: the error envelope is not looked at.
SucceedUnchecked(c) ==
  /\ phase[c] = "sent"
  /\ Finish(c, "success")
  /\ UNCHANGED <<monday, history>>

\* A status of 200 with data and without errors.
Succeed(c) ==
  /\ phase[c] = "sent" /\ effect[c]
  /\ Finish(c, "success")
  /\ UNCHANGED <<monday, history>>

\* waitForRetry, when the timer ends first.
TimerFires(c) ==
  /\ phase[c] = "waiting"
  /\ phase' = [phase EXCEPT ![c] = "ready"]
  /\ attempt' = [attempt EXCEPT ![c] = attempt[c] + 1]
  /\ slept' = [slept EXCEPT ![c] = slept[c] + (IF wait[c] > 0 THEN wait[c] ELSE 0)]
  /\ UNCHANGED <<limit, alive, wait, outcome, monday, sent, unsure>>

\* waitForRetry, when the context does.
WaitCancelled(c) ==
  /\ phase[c] = "waiting" /\ ~alive[c]
  /\ Finish(c, "cancelled")
  /\ UNCHANGED <<monday, history>>

\* The caller hangs up.
Cancel(c) ==
  /\ alive[c] /\ phase[c] # "done"
  /\ alive' = [alive EXCEPT ![c] = FALSE]
  /\ UNCHANGED <<limit, phase, attempt, wait, outcome, monday, history>>

\* monday applies the attempt in progress, or one that was given up.
MondayApplies(c) ==
  /\ \/ /\ phase[c] = "sent" /\ ~effect[c]
        /\ effect' = [effect EXCEPT ![c] = TRUE]
        /\ UNCHANGED strays
     \/ /\ strays[c] > 0
        /\ strays' = [strays EXCEPT ![c] = strays[c] - 1]
        /\ UNCHANGED effect
  /\ applied' = [applied EXCEPT ![c] = applied[c] + 1]
  /\ UNCHANGED <<loop, history>>

Next ==
  \E c \in Call :
    \/ Transmit(c) \/ Lost(c) \/ Unavailable(c) \/ Throttled(c) \/ Refused(c)
    \/ Broken(c) \/ Succeed(c) \/ TimerFires(c) \/ WaitCancelled(c)
    \/ Cancel(c) \/ MondayApplies(c)

Spec == Init /\ [][Next]_vars

\* The client's own steps: its loop, the HTTP client's timeout and the timer.
\* monday need not answer and no caller need hang up.
FairSpec ==
  /\ Spec
  /\ \A c \in Call : WF_vars(Transmit(c)) /\ WF_vars(Lost(c)) /\ WF_vars(TimerFires(c))
-----------------------------------------------------------------------------
TypeOK ==
  /\ limit \in [Call -> {0, MaxRetries}]
  /\ phase \in [Call -> {"ready", "sent", "waiting", "done"}]
  /\ attempt \in [Call -> 0..MaxRetries]
  /\ alive \in [Call -> BOOLEAN]
  /\ wait \in [Call -> Int]
  /\ outcome \in [Call -> {"none", "success", "refused", "broken", "lost",
                           "temporary", "cancelled"}]
  /\ effect \in [Call -> BOOLEAN]
  /\ strays \in [Call -> Nat]
  /\ applied \in [Call -> Nat]
  /\ sent \in [Call -> Nat]
  /\ unsure \in [Call -> Nat]
  /\ slept \in [Call -> Nat]

\* "Retries are bounded by MCP_MAX_RETRIES and honor a bounded Retry-After
\* header" (SETUP.md): whatever monday answers and asks for, a call sends at
\* most one request more than it may retry, and waits at most 30 seconds
\* before each of the others.
CostIsBounded ==
  \A c \in Call : /\ sent[c] <= limit[c] + 1
                  /\ slept[c] <= limit[c] * LongestHint

\* A mutation is applied more than once only because the answer to an earlier
\* attempt was lost or came from a gateway: every other failure is either
\* final or known to have left nothing behind.
DuplicatesComeFromLostAnswers ==
  \A c \in Call : applied[c] <= unsure[c] + 1

\* A refusal is worth what it says only when no answer was lost before it;
\* then nothing has been applied, and nothing will be.
RefusalsLeaveNothing ==
  \A c \in Call : outcome[c] = "refused" /\ unsure[c] = 0 =>
    applied[c] = 0 /\ strays[c] = 0

\* The call as the service sees it.
Reported ==
  [c \in Call |-> IF phase[c] # "done" THEN "nothing"
                  ELSE IF outcome[c] = "success" THEN "success" ELSE "failure"]

Contract == INSTANCE RemoteCall WITH report <- Reported, Attempts <- MaxRetries + 1

\* Success is reported of what has been applied, and no mutation is applied
\* more often than it may be attempted.
ContractKept == Contract!Spec

\* Every call returns, although monday may never answer.
CallsEnd == \A c \in Call : <>(phase[c] = "done")
=============================================================================
