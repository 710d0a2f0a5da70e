------------------------- MODULE MondayClientProofs -------------------------
(***************************************************************************)
(* What is proved of MondayClient for any calls, any configured number of   *)
(* retries and whatever a server may ask for: the type invariant, the       *)
(* bounds on requests and waits, what a report is worth, and that the       *)
(* client keeps the contract of RemoteCall.                                 *)
(***************************************************************************)
EXTENDS MondayClient, TLAPS

\* One attempt counts once: while it is under way in sent, and afterwards
\* among those applied, given up, or known to have left nothing.
Accounted(c) ==
  /\ applied[c] + strays[c] <= unsure[c] + (IF effect[c] THEN 1 ELSE 0)
  /\ applied[c] + strays[c] + (IF phase[c] = "sent" /\ ~effect[c] THEN 1 ELSE 0)
       <= sent[c]
  /\ effect[c] => applied[c] > 0
  /\ phase[c] \in {"ready", "waiting"} => ~effect[c]

\* The loop counts its attempts right.
Counted(c) ==
  /\ attempt[c] <= limit[c]
  /\ phase[c] = "waiting" => attempt[c] < limit[c] /\ wait[c] <= LongestHint
  /\ sent[c] <= attempt[c] + (IF phase[c] = "ready" THEN 0 ELSE 1)
  /\ slept[c] <= attempt[c] * LongestHint

\* What was returned fits what monday did in the last attempt.
Judged(c) ==
  /\ phase[c] = "done" <=> outcome[c] # "none"
  /\ outcome[c] = "success" => effect[c]
  /\ outcome[c] = "refused" => ~effect[c]

CallInv(c) == Accounted(c) /\ Counted(c) /\ Judged(c)

IInv == TypeOK /\ \A c \in Call : CallInv(c)

-----------------------------------------------------------------------------
\* Delays.

LEMMA WrapIsInteger == ASSUME NEW n \in Int PROVE Wrap(n) \in Int
BY DurationsAreWide DEF Wrap

\* No delay is longer than the cap, however large the hint.
LEMMA DelayIsBounded ==
  ASSUME NEW n \in 0..5, NEW seconds \in Nat
  PROVE  Delay(n, seconds) \in Int /\ Delay(n, seconds) <= LongestHint
<1>1. RetryAfter(seconds) \in Int /\ RetryAfter(seconds) <= LongestHint
  <2>1. Wrap(seconds * Second) \in Int
    BY WrapIsInteger DEF Second
  <2>2. LongestHint = 120
    BY DEF LongestHint, Second
  <2>3. QED
    BY <2>1, <2>2 DEF RetryAfter, MinOf
<1>2. Backoff[n + 1] \in Int /\ Backoff[n + 1] <= LongestHint
  BY DEF Backoff, LongestHint, Second
<1>3. QED
  BY <1>1, <1>2 DEF Delay

-----------------------------------------------------------------------------
LEMMA InitEstablishes == Init => IInv
BY RetriesAreFew DEF Init, Limits, IInv, TypeOK, CallInv, Accounted, Counted, Judged,
                     LongestHint, Second

\* A step of one call keeps the types and that call's own facts.
LEMMA FinishingCounts ==
  ASSUME TypeOK, NEW c \in Call, Counted(c), phase[c] = "sent" \/ phase[c] = "waiting",
         NEW result \in {"success", "refused", "broken", "lost", "temporary",
                         "cancelled"},
         Finish(c, result), UNCHANGED <<sent, slept>>
  PROVE  /\ Counted(c)' /\ phase'[c] = "done" /\ outcome'[c] = result
         /\ limit' \in [Call -> {0, MaxRetries}]
         /\ phase' \in [Call -> {"ready", "sent", "waiting", "done"}]
         /\ attempt' \in [Call -> 0..MaxRetries]
         /\ alive' \in [Call -> BOOLEAN] /\ wait' \in [Call -> Int]
         /\ outcome' \in [Call -> {"none", "success", "refused", "broken", "lost",
                                   "temporary", "cancelled"}]
BY DEF TypeOK, Counted, Finish

LEMMA RetryingCounts ==
  ASSUME TypeOK, NEW c \in Call, Counted(c), phase[c] = "sent", outcome[c] = "none",
         NEW seconds \in Nat, NEW result \in {"lost", "temporary"},
         Retry(c, seconds, result), UNCHANGED <<sent, slept>>
  PROVE  /\ Counted(c)'
         /\ \/ phase'[c] = "done" /\ outcome'[c] = result
            \/ phase'[c] = "waiting" /\ outcome'[c] = "none"
         /\ limit' \in [Call -> {0, MaxRetries}]
         /\ phase' \in [Call -> {"ready", "sent", "waiting", "done"}]
         /\ attempt' \in [Call -> 0..MaxRetries]
         /\ alive' \in [Call -> BOOLEAN] /\ wait' \in [Call -> Int]
         /\ outcome' \in [Call -> {"none", "success", "refused", "broken", "lost",
                                   "temporary", "cancelled"}]
<1>1. CASE attempt[c] < limit[c]
  <2>1. attempt[c] \in 0..5
    BY RetriesAreFew DEF TypeOK
  <2>2. Delay(attempt[c], seconds) \in Int /\ Delay(attempt[c], seconds) <= LongestHint
    BY <2>1, DelayIsBounded
  <2> HIDE DEF Delay
  <2>3. QED
    BY <1>1, <2>2 DEF TypeOK, Counted, Retry, LongestHint, Second
<1>2. CASE ~(attempt[c] < limit[c])
  <2>1. Finish(c, result)
    BY <1>2 DEF Retry
  <2>2. QED
    BY <2>1, FinishingCounts
<1>3. QED
  BY <1>1, <1>2

\* The account of the attempt in progress, when it is given up.
LEMMA AbandoningAccounts ==
  ASSUME TypeOK, NEW c \in Call, Accounted(c), phase[c] = "sent", Abandon(c),
         phase'[c] # "sent"
  PROVE  /\ Accounted(c)' /\ effect'[c] = FALSE
         /\ effect' \in [Call -> BOOLEAN] /\ strays' \in [Call -> Nat]
         /\ applied' \in [Call -> Nat] /\ sent' \in [Call -> Nat]
         /\ unsure' \in [Call -> Nat] /\ slept' \in [Call -> Nat]
BY DEF TypeOK, Accounted, Abandon

\* The account, when the attempt ends with monday's own answer.
LEMMA AnsweredAccounts ==
  ASSUME TypeOK, NEW c \in Call, Accounted(c), UNCHANGED <<monday, history>>,
         phase'[c] = "done" \/ (phase'[c] = "waiting" /\ ~effect[c])
  PROVE  Accounted(c)'
BY DEF TypeOK, Accounted, monday, history

Client(c) ==
  \/ Transmit(c) \/ Lost(c) \/ Unavailable(c) \/ Throttled(c) \/ Refused(c)
  \/ Broken(c) \/ Succeed(c) \/ TimerFires(c) \/ WaitCancelled(c)

Around(c) == Cancel(c) \/ MondayApplies(c)

LEMMA ClientKeepsCall ==
  ASSUME IInv, NEW c \in Call, Client(c)
  PROVE  TypeOK' /\ CallInv(c)'
<1>1. TypeOK /\ Accounted(c) /\ Counted(c) /\ Judged(c)
  BY DEF IInv, CallInv
<1>2. CASE Transmit(c)
  <2>1. CASE alive[c]
    <3>1. TypeOK'
      BY <1>1, <1>2, <2>1 DEF TypeOK, Transmit, monday
    <3>2. CallInv(c)'
      BY <1>1, <1>2, <2>1 DEF TypeOK, Transmit, monday, CallInv, Accounted, Counted, Judged
    <3>3. QED
      BY <3>1, <3>2
  <2>2. CASE ~alive[c]
    <3>1. TypeOK'
      BY <1>1, <1>2, <2>2 DEF TypeOK, Transmit, Finish, monday
    <3>2. CallInv(c)'
      BY <1>1, <1>2, <2>2 DEF TypeOK, Transmit, Finish, monday, CallInv, Accounted,
                              Counted, Judged
    <3>3. QED
      BY <3>1, <3>2
  <2>3. QED
    BY <2>1, <2>2
<1>3. CASE Lost(c)
  <2>1. phase[c] = "sent" /\ Abandon(c) /\ outcome[c] = "none"
        /\ UNCHANGED <<sent, slept>>
    BY <1>1, <1>3 DEF Lost, Abandon, Judged
  <2>2. CASE alive[c]
    <3>1. Retry(c, 0, "lost")
      BY <1>3, <2>2 DEF Lost
    <3>2. /\ Counted(c)'
          /\ \/ phase'[c] = "done" /\ outcome'[c] = "lost"
             \/ phase'[c] = "waiting" /\ outcome'[c] = "none"
      BY <1>1, <2>1, <3>1, RetryingCounts
    <3>3. TypeOK' /\ Accounted(c)'
      BY <1>1, <2>1, <3>1, <3>2, RetryingCounts, AbandoningAccounts DEF TypeOK
    <3>4. QED
      BY <3>2, <3>3 DEF CallInv, Judged
  <2>3. CASE ~alive[c]
    <3>1. Finish(c, "cancelled")
      BY <1>3, <2>3 DEF Lost
    <3>2. Counted(c)' /\ phase'[c] = "done" /\ outcome'[c] = "cancelled"
      BY <1>1, <2>1, <3>1, FinishingCounts
    <3>3. TypeOK' /\ Accounted(c)'
      BY <1>1, <2>1, <3>1, <3>2, FinishingCounts, AbandoningAccounts DEF TypeOK
    <3>4. QED
      BY <3>2, <3>3 DEF CallInv, Judged
  <2>4. QED
    BY <2>2, <2>3
<1>4. CASE Unavailable(c)
  <2>1. phase[c] = "sent" /\ Abandon(c) /\ outcome[c] = "none"
        /\ UNCHANGED <<sent, slept>>
    BY <1>1, <1>4 DEF Unavailable, Abandon, Judged
  <2>2. PICK seconds \in Hints : Retry(c, seconds, "temporary")
    BY <1>4 DEF Unavailable
  <2>3. seconds \in Nat
    BY HintsAreSeconds
  <2>4. /\ Counted(c)'
        /\ \/ phase'[c] = "done" /\ outcome'[c] = "temporary"
           \/ phase'[c] = "waiting" /\ outcome'[c] = "none"
    BY <1>1, <2>1, <2>2, <2>3, RetryingCounts
  <2>5. TypeOK' /\ Accounted(c)'
    BY <1>1, <2>1, <2>2, <2>3, <2>4, RetryingCounts, AbandoningAccounts DEF TypeOK
  <2>6. QED
    BY <2>4, <2>5 DEF CallInv, Judged
<1>5. CASE Throttled(c)
  <2>1. phase[c] = "sent" /\ ~effect[c] /\ outcome[c] = "none"
        /\ UNCHANGED <<monday, history>>
    BY <1>1, <1>5 DEF Throttled, Judged
  <2>2. PICK seconds \in Hints : Retry(c, seconds, "temporary")
    BY <1>5 DEF Throttled
  <2>3. seconds \in Nat /\ UNCHANGED <<sent, slept>>
    BY <2>1, HintsAreSeconds DEF history
  <2>4. /\ Counted(c)'
        /\ \/ phase'[c] = "done" /\ outcome'[c] = "temporary"
           \/ phase'[c] = "waiting" /\ outcome'[c] = "none"
    BY <1>1, <2>1, <2>2, <2>3, RetryingCounts
  <2>5. Accounted(c)'
    BY <1>1, <2>1, <2>4, AnsweredAccounts
  <2>6. TypeOK'
    BY <1>1, <2>1, <2>2, <2>3, RetryingCounts DEF TypeOK, monday, history
  <2>7. QED
    BY <2>4, <2>5, <2>6 DEF CallInv, Judged
<1>6. CASE Refused(c) \/ Succeed(c) \/ WaitCancelled(c)
           \/ (Broken(c) /\ UNCHANGED <<monday, history>>)
  <2>1. PICK result \in {"success", "refused", "broken", "cancelled"} :
          /\ Finish(c, result)
          /\ result = "success" => effect[c]
          /\ result = "refused" => ~effect[c]
    BY <1>6 DEF Refused, Succeed, WaitCancelled, Broken
  <2>2. phase[c] \in {"sent", "waiting"} /\ UNCHANGED <<monday, history>>
        /\ UNCHANGED <<sent, slept>>
    BY <1>6 DEF Refused, Succeed, WaitCancelled, Broken, history
  <2>3. Counted(c)' /\ phase'[c] = "done" /\ outcome'[c] = result
    BY <1>1, <2>1, <2>2, FinishingCounts
  <2>4. Accounted(c)'
    BY <1>1, <2>2, <2>3, AnsweredAccounts
  <2>5. TypeOK'
    BY <1>1, <2>1, <2>2, FinishingCounts DEF TypeOK, monday, history
  <2>6. QED
    BY <2>1, <2>2, <2>3, <2>4, <2>5 DEF CallInv, Judged, monday
<1>7. CASE Broken(c) /\ Abandon(c)
  <2>1. phase[c] = "sent" /\ Finish(c, "broken") /\ UNCHANGED <<sent, slept>>
    BY <1>7 DEF Broken, Abandon
  <2>2. Counted(c)' /\ phase'[c] = "done" /\ outcome'[c] = "broken"
    BY <1>1, <2>1, FinishingCounts
  <2>3. TypeOK' /\ Accounted(c)'
    BY <1>1, <1>7, <2>1, <2>2, FinishingCounts, AbandoningAccounts DEF TypeOK
  <2>4. QED
    BY <2>2, <2>3 DEF CallInv, Judged
<1>8. CASE TimerFires(c)
  <2>1. attempt[c] \in 0..MaxRetries /\ limit[c] <= MaxRetries
        /\ attempt[c] < limit[c] /\ wait[c] \in Int /\ wait[c] <= LongestHint
        /\ slept[c] \in Nat /\ slept[c] <= attempt[c] * LongestHint
    BY <1>1, <1>8, RetriesAreFew DEF TypeOK, Counted, TimerFires
  <2>2. TypeOK'
    BY <1>1, <1>8, <2>1, RetriesAreFew DEF TypeOK, TimerFires, monday
  <2>3. Counted(c)'
    BY <1>1, <1>8, <2>1, RetriesAreFew DEF TypeOK, TimerFires, Counted, LongestHint, Second
  <2>4. Accounted(c)' /\ Judged(c)'
    BY <1>1, <1>8 DEF TypeOK, TimerFires, Accounted, Judged, monday
  <2>5. QED
    BY <2>2, <2>3, <2>4 DEF CallInv
<1>9. QED
  BY <1>2, <1>3, <1>4, <1>5, <1>6, <1>7, <1>8 DEF Client, Broken

LEMMA AroundKeepsCall ==
  ASSUME IInv, NEW c \in Call, Around(c)
  PROVE  TypeOK' /\ CallInv(c)'
<1>1. TypeOK /\ Accounted(c) /\ Counted(c) /\ Judged(c)
  BY DEF IInv, CallInv
<1>2. CASE Cancel(c)
  <2>1. TypeOK'
    BY <1>1, <1>2 DEF TypeOK, Cancel, monday, history
  <2>2. CallInv(c)'
    BY <1>1, <1>2 DEF TypeOK, Cancel, monday, history, CallInv, Accounted, Counted, Judged
  <2>3. QED
    BY <2>1, <2>2
<1>3. CASE MondayApplies(c)
  <2>1. TypeOK'
    <3>1. effect' \in [Call -> BOOLEAN]
      BY <1>1, <1>3 DEF TypeOK, MondayApplies
    <3>2. strays' \in [Call -> Nat] /\ applied' \in [Call -> Nat]
      BY <1>1, <1>3 DEF TypeOK, MondayApplies
    <3>3. QED
      BY <1>1, <1>3, <3>1, <3>2 DEF TypeOK, MondayApplies, loop, history
  <2>2. Accounted(c)'
    BY <1>1, <1>3 DEF TypeOK, MondayApplies, loop, history, Accounted
  <2>3. Counted(c)' /\ Judged(c)'
    BY <1>1, <1>3 DEF TypeOK, MondayApplies, loop, history, Counted, Judged
  <2>4. QED
    BY <2>1, <2>2, <2>3 DEF CallInv
<1>4. QED
  BY <1>2, <1>3 DEF Around

\* Calls share nothing.
LEMMA OthersStand ==
  ASSUME TypeOK, NEW c \in Call, NEW d \in Call, d # c, Client(c) \/ Around(c),
         CallInv(d)
  PROVE  CallInv(d)'
<1>1. /\ limit'[d] = limit[d] /\ phase'[d] = phase[d] /\ attempt'[d] = attempt[d]
      /\ wait'[d] = wait[d] /\ outcome'[d] = outcome[d]
  BY DEF TypeOK, Client, Around, Transmit, Lost, Unavailable, Throttled, Refused,
         Broken, Succeed, TimerFires, WaitCancelled, Cancel, MondayApplies,
         Finish, Retry, loop
<1>2. /\ effect'[d] = effect[d] /\ strays'[d] = strays[d] /\ applied'[d] = applied[d]
      /\ sent'[d] = sent[d] /\ unsure'[d] = unsure[d] /\ slept'[d] = slept[d]
  BY DEF TypeOK, Client, Around, Transmit, Lost, Unavailable, Throttled, Refused,
         Broken, Succeed, TimerFires, WaitCancelled, Cancel, MondayApplies,
         Abandon, monday, history
<1>3. QED
  BY <1>1, <1>2 DEF CallInv, Accounted, Counted, Judged

LEMMA StepKeepsIInv ==
  ASSUME IInv, [Next]_vars
  PROVE  IInv'
<1>1. CASE Next
  <2>1. PICK c \in Call : Client(c) \/ Around(c)
    BY <1>1 DEF Next, Client, Around
  <2>2. TypeOK' /\ CallInv(c)'
    BY <2>1, ClientKeepsCall, AroundKeepsCall
  <2>3. ASSUME NEW d \in Call, d # c PROVE CallInv(d)'
    BY <2>1, <2>3, OthersStand DEF IInv
  <2>4. QED
    BY <2>2, <2>3 DEF IInv
<1>2. CASE UNCHANGED vars
  BY <1>2 DEF vars, IInv, TypeOK, CallInv, Accounted, Counted, Judged
<1>3. QED
  BY <1>1, <1>2

THEOREM ClientInvariant == Spec => []IInv
<1>1. Init => IInv
  BY InitEstablishes
<1>2. IInv /\ [Next]_vars => IInv'
  BY StepKeepsIInv
<1>3. QED
  BY <1>1, <1>2, PTL DEF Spec

\* The type invariant.
THEOREM ClientTypes == Spec => []TypeOK
<1>1. IInv => TypeOK
  BY DEF IInv
<1>2. QED
  BY <1>1, ClientInvariant, PTL

\* Whatever monday answers and asks for, a call sends at most one request more
\* than it may retry and waits at most 30 seconds before each of the others
\* (Client.Do, waitForRetry).
THEOREM CostsAreBounded == Spec => []CostIsBounded
<1>1. IInv => CostIsBounded
  <2> SUFFICES ASSUME IInv, NEW c \in Call
               PROVE  sent[c] <= limit[c] + 1 /\ slept[c] <= limit[c] * LongestHint
    BY DEF CostIsBounded
  <2>1. TypeOK /\ Counted(c)
    BY DEF IInv, CallInv
  <2>2. QED
    BY <2>1, RetriesAreFew DEF TypeOK, Counted, LongestHint, Second
<1>2. QED
  BY <1>1, ClientInvariant, PTL

\* A mutation is applied twice only after an answer was lost, and a refusal
\* with none lost before it means that nothing was applied (Client.Do).
THEOREM ReportsAreHonest ==
  Spec => [](DuplicatesComeFromLostAnswers /\ RefusalsLeaveNothing)
<1>1. IInv => DuplicatesComeFromLostAnswers /\ RefusalsLeaveNothing
  <2> SUFFICES ASSUME IInv, NEW c \in Call
               PROVE  /\ applied[c] <= unsure[c] + 1
                      /\ outcome[c] = "refused" /\ unsure[c] = 0 =>
                           applied[c] = 0 /\ strays[c] = 0
    BY DEF DuplicatesComeFromLostAnswers, RefusalsLeaveNothing
  <2>1. TypeOK /\ Accounted(c) /\ Judged(c)
    BY DEF IInv, CallInv
  <2>2. QED
    BY <2>1 DEF TypeOK, Accounted, Judged
<1>2. QED
  BY <1>1, ClientInvariant, PTL

\* One step of the client is one step of the contract, or none: monday applies
\* the mutation, or the call returns.
LEMMA StepKeepsContract ==
  ASSUME IInv, Next
  PROVE  [Contract!Next]_(Contract!vars)
<1>1. PICK c \in Call : Client(c) \/ Around(c)
  BY DEF Next, Client, Around
<1>2. TypeOK /\ Accounted(c) /\ Counted(c) /\ Judged(c)
  BY DEF IInv, CallInv
<1>3. CASE MondayApplies(c)
  <2>1. applied[c] < MaxRetries + 1
    <3>1. applied[c] < sent[c]
      BY <1>2, <1>3 DEF TypeOK, Accounted, MondayApplies
    <3>2. sent[c] <= MaxRetries + 1
      BY <1>2, RetriesAreFew DEF TypeOK, Counted
    <3>3. QED
      BY <1>2, <3>1, <3>2, RetriesAreFew DEF TypeOK
  <2>2. UNCHANGED Reported
    BY <1>3 DEF MondayApplies, loop, Reported
  <2>3. Contract!Apply(c)
    BY <1>3, <2>1, <2>2 DEF MondayApplies, Contract!Apply
  <2>4. QED
    BY <2>3 DEF Contract!Next
<1>4. CASE ~MondayApplies(c)
  <2>1. UNCHANGED applied
    BY <1>1, <1>4 DEF Client, Around, Transmit, Lost, Unavailable, Throttled,
           Refused, Broken, Succeed, TimerFires, WaitCancelled, Cancel, Abandon, monday
  <2>2. TypeOK' /\ Judged(c)'
    BY <1>1, ClientKeepsCall, AroundKeepsCall DEF CallInv
  <2>3. ASSUME NEW d \in Call, d # c
        PROVE  phase'[d] = phase[d] /\ outcome'[d] = outcome[d]
    BY <1>1, <1>2, <2>3 DEF TypeOK, Client, Around, Transmit, Lost, Unavailable,
           Throttled, Refused, Broken, Succeed, TimerFires, WaitCancelled, Cancel,
           MondayApplies, Finish, Retry, loop
  <2>4. CASE phase[c] # "done" /\ phase'[c] = "done"
    <3>1. Reported[c] = "nothing"
      BY <2>4 DEF Reported
    <3>2. outcome'[c] = "success" => applied[c] > 0
      <4>1. outcome'[c] = "success" => Succeed(c)
        BY <1>1, <1>2, <2>4 DEF TypeOK, Judged, Client, Around, Transmit, Lost,
               Unavailable, Throttled, Refused, Broken, TimerFires, WaitCancelled,
               Cancel, MondayApplies, Finish, Retry, loop
      <4>2. QED
        BY <1>2, <4>1 DEF Succeed, Accounted
    <3>3. Reported' = [Reported EXCEPT ![c] = IF outcome'[c] = "success"
                                                THEN "success" ELSE "failure"]
      BY <2>3, <2>4 DEF Reported
    <3>4. Contract!Report(c)
      BY <2>1, <3>1, <3>2, <3>3 DEF Contract!Report
    <3>5. QED
      BY <3>4 DEF Contract!Next
  <2>5. CASE ~(phase[c] # "done" /\ phase'[c] = "done")
    <3>1. phase[c] # "done" \/ (phase'[c] = phase[c] /\ outcome'[c] = outcome[c])
      BY <1>1, <1>2 DEF TypeOK, Client, Around, Transmit, Lost, Unavailable,
             Throttled, Refused, Broken, Succeed, TimerFires, WaitCancelled, Cancel,
             MondayApplies, loop
    <3>2. UNCHANGED Reported
      BY <2>3, <2>5, <3>1 DEF Reported
    <3>3. QED
      BY <2>1, <3>2 DEF Contract!vars
  <2>6. QED
    BY <2>4, <2>5
<1>5. QED
  BY <1>3, <1>4

\* The client keeps the contract the rest of the server relies on
\* (Client.Do, uploadFile).
THEOREM ClientKeepsContract == Spec => ContractKept
<1>1. Init => Contract!Init
  BY DEF Init, Contract!Init, Reported
<1>2. IInv /\ [Next]_vars => [Contract!Next]_(Contract!vars)
  <2>1. CASE UNCHANGED vars
    BY <2>1 DEF vars, Contract!vars, Reported
  <2>2. QED
    BY <2>1, StepKeepsContract
<1>3. QED
  BY <1>1, <1>2, ClientInvariant, PTL DEF Spec, ContractKept, Contract!Spec
=============================================================================
