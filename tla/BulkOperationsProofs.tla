------------------------ MODULE BulkOperationsProofs ------------------------
(***************************************************************************)
(* What is proved of BulkOperations for any calls, any requests, any number  *)
(* of rows and boards, and other users who move what they like: the type     *)
(* invariant, that a dry run and a refused update write nothing, that the    *)
(* result adds up and matches the account, and that what is carried out      *)
(* stays on the allowed boards.                                             *)
(***************************************************************************)
EXTENDS BulkOperations, FiniteSetTheorems, SequenceTheorems, TLAPS

Started(c) == phase[c] \in {"writing", "returned"}
\* Calls that write: neither dry runs nor updates held back by an invalid row.
Writes(c) == Started(c) /\ ~OnlyPlanned(request[c], status[c])

Rows(c) == Len(request[c].rows)
ItemAt(c, i) == request[c].rows[i].item
WrittenBefore(c) == {i \in 1..(next[c] - 1) : status[c][i] \in Written}
UnfitBefore(c) == {i \in 1..(next[c] - 1) : status[c][i] \in {"invalid", "failed"}}

\* Before the verdict, and after a refusal, nothing has been done.
Untouched(c) ==
  phase[c] \in {"new", "refused"} =>
    /\ status[c] = <<>> /\ next[c] = 1
    /\ succeeded[c] = 0 /\ failed[c] = 0
    /\ sent[c] = {} /\ lost[c] = {} /\ applied[c] = {}

Admitted(c) ==
  Started(c) => ~Refusable(request[c]) /\ Len(status[c]) = Rows(c)

\* A plan that is only shown.
ShownOnly(c) ==
  Started(c) /\ OnlyPlanned(request[c], status[c]) =>
    /\ phase[c] = "returned" /\ next[c] = 1
    /\ sent[c] = {} /\ lost[c] = {} /\ applied[c] = {}
    /\ \A i \in 1..Rows(c) : status[c][i] \in {"planned", "invalid"}
    /\ succeeded[c] = 0
    /\ failed[c] = countStatus(status[c], "invalid")

\* The loop: the rows behind it have their final status and are counted, the
\* rows ahead are not written.
Looped(c) ==
  Writes(c) =>
    /\ next[c] \in 1..(Rows(c) + 1)
    /\ phase[c] = "returned" => next[c] = Rows(c) + 1
    /\ \A i \in 1..Rows(c) :
         /\ i < next[c] => status[c][i] # "planned"
         /\ i >= next[c] => status[c][i] \notin Written
    /\ succeeded[c] = Cardinality(WrittenBefore(c))
    /\ failed[c] = Cardinality(UnfitBefore(c))

\* What the rows say of the account, and what was sent and lost.
Honest(c) ==
  /\ applied[c] \subseteq sent[c] /\ lost[c] \subseteq sent[c]
  /\ sent[c] \subseteq 1..(next[c] - 1)
  /\ \A i \in applied[c] : status[c][i] \in Written \/ i \in lost[c]
  /\ \A i \in 1..Len(status[c]) :
       /\ status[c][i] \in Written
       /\ ItemAt(c, i) \notin moved
       /\ request[c].kind = "update" => PlaceOf[ItemAt(c, i)] = request[c].board
       => i \in applied[c]

\* A row that is sent, or will be, was judged: it names an item, and the item
\* of an action is where the guard admits it unless others have moved it.
Vetted(c) ==
  Writes(c) =>
    \A i \in 1..Rows(c) : i \in sent[c] \/ status[c][i] = "planned" =>
      /\ ItemAt(c, i) \in Item
      /\ request[c].kind # "update" =>
           boardOf[ItemAt(c, i)] \in Allowed \/ ItemAt(c, i) \in moved

CallInv(c) ==
  Untouched(c) /\ Admitted(c) /\ ShownOnly(c) /\ Looped(c) /\ Honest(c) /\ Vetted(c)

\* An item is where it started unless others have moved it.
Settled == \A i \in Item : boardOf[i] = PlaceOf[i] \/ i \in moved

IInv == TypeOK /\ Settled /\ \A c \in Call : CallInv(c)

-----------------------------------------------------------------------------
\* Requests, rows and sets of rows.

LEMMA RequestsAreTyped ==
  ASSUME TypeOK, NEW c \in Call
  PROVE  /\ request[c] \in Request
         /\ request[c].kind \in Kinds /\ request[c].dry \in BOOLEAN
         /\ request[c].board \in Board
         /\ request[c].rows \in Seq(Row) /\ Rows(c) \in Nat
         /\ \A i \in 1..Rows(c) : /\ request[c].rows[i] \in Row
                                  /\ ItemAt(c, i) \in Item \cup {NoItem}
<1>1. request[c] \in Request
  BY AskedAreRequests DEF TypeOK
<1>2. /\ request[c].kind \in Kinds /\ request[c].dry \in BOOLEAN
      /\ request[c].board \in Board /\ request[c].rows \in Seq(Row)
  BY <1>1 DEF Request
<1>3. Rows(c) \in Nat /\ \A i \in 1..Rows(c) : request[c].rows[i] \in Row
  BY <1>2 DEF Rows
<1>4. \A i \in 1..Rows(c) : ItemAt(c, i) \in Item \cup {NoItem}
  BY <1>3 DEF ItemAt, Row
<1>5. QED
  BY <1>1, <1>2, <1>3, <1>4

\* What is not refused has at least one row and not too many; the rows of an
\* action name items, and an update that writes is for an allowed board.
LEMMA AdmittedRequests ==
  ASSUME TypeOK, NEW c \in Call, ~Refusable(request[c])
  PROVE  /\ Rows(c) \in 1..MaxBulkItems
         /\ request[c].kind # "update" => \A i \in 1..Rows(c) : ItemAt(c, i) \in Item
         /\ request[c].kind = "update" /\ ~request[c].dry => request[c].board \in Allowed
<1>1. DOMAIN request[c].rows = 1..Rows(c)
  BY RequestsAreTyped DEF Rows
<1>2. QED
  BY <1>1, RequestsAreTyped, BulkBound DEF Refusable, Rows, ItemAt

LEMMA RowSetsAreSmall ==
  ASSUME NEW n \in Nat, NEW S, S \subseteq 1..n
  PROVE  IsFiniteSet(S) /\ Cardinality(S) \in 0..n
<1>1. IsFiniteSet(1..n) /\ Cardinality(1..n) = n
  BY FS_Interval
<1>2. IsFiniteSet(S) /\ Cardinality(S) <= Cardinality(1..n)
  BY <1>1, FS_Subset
<1>3. Cardinality(S) \in Nat
  BY <1>2, FS_CardinalityType
<1>4. QED
  BY <1>1, <1>2, <1>3

LEMMA OneRowMore ==
  ASSUME NEW n \in Nat, NEW S, S \subseteq 1..n, NEW T, T = S \cup {n + 1}
  PROVE  Cardinality(T) = Cardinality(S) + 1
<1>1. IsFiniteSet(S)
  BY RowSetsAreSmall
<1>2. n + 1 \notin S
  OBVIOUS
<1>3. QED
  BY <1>1, <1>2, FS_AddElement

LEMMA ListsAreSequences ==
  ASSUME NEW n \in Nat, NEW S, NEW f \in [1..n -> S]
  PROVE  f \in Seq(S) /\ Len(f) = n
OBVIOUS

\* One status of a result is replaced.
LEMMA StatusReplaced ==
  ASSUME NEW s \in Seq(Statuses), NEW i \in 1..Len(s), NEW v \in Statuses,
         NEW t, t = [s EXCEPT ![i] = v]
  PROVE  /\ t \in Seq(Statuses) /\ Len(t) = Len(s) /\ t[i] = v
         /\ \A j \in 1..Len(s) : j # i => t[j] = s[j]
BY ExceptSeq

-----------------------------------------------------------------------------
\* What a step leaves alone.

SameCall(c) ==
  /\ request'[c] = request[c] /\ phase'[c] = phase[c] /\ status'[c] = status[c]
  /\ next'[c] = next[c] /\ succeeded'[c] = succeeded[c] /\ failed'[c] = failed[c]
  /\ sent'[c] = sent[c] /\ lost'[c] = lost[c] /\ applied'[c] = applied[c]

\* A call keeps its facts while others of its kind, and other users, act.
LEMMA OthersStand ==
  ASSUME TypeOK, NEW c \in Call, CallInv(c), SameCall(c), moved \subseteq moved',
         \A i \in Item : boardOf'[i] = boardOf[i] \/ i \in moved'
  PROVE  CallInv(c)'
<1>1. Untouched(c)' /\ Admitted(c)' /\ ShownOnly(c)'
  BY DEF CallInv, SameCall, Untouched, Admitted, ShownOnly, Started, Rows
<1>2. Looped(c)'
  BY DEF CallInv, SameCall, Looped, Writes, Started, Rows, WrittenBefore, UnfitBefore
<1>3. Honest(c)'
  BY DEF CallInv, SameCall, Honest, ItemAt
<1>4. Vetted(c)'
  <2>1. \A i : ItemAt(c, i)' = ItemAt(c, i)
    BY DEF SameCall, ItemAt
  <2>2. Writes(c)' => Writes(c) /\ Rows(c)' = Rows(c)
    BY DEF SameCall, Writes, Started, Rows
  <2>3. QED
    BY <2>1, <2>2 DEF CallInv, SameCall, Vetted
<1>5. QED
  BY <1>1, <1>2, <1>3, <1>4 DEF CallInv

LEMMA InitEstablishes == Init => IInv
<1> SUFFICES ASSUME Init PROVE IInv
  OBVIOUS
<1>1. TypeOK
  <2>1. status \in [Call -> Seq(Statuses)]
    BY DEF Init
  <2>2. 1 \in 1..(MaxBulkItems + 1) /\ 0 \in 0..MaxBulkItems
    BY BulkBound
  <2>3. QED
    BY <2>1, <2>2, PlacesArePossible DEF Init, TypeOK, Phases
<1>2. Settled
  BY DEF Init, Settled
<1>3. ASSUME NEW c \in Call PROVE CallInv(c)
  <2>1. Untouched(c) /\ ~Started(c) /\ status[c] = <<>> /\ sent[c] = {} /\ lost[c] = {}
        /\ applied[c] = {}
    BY DEF Init, Untouched, Started
  <2>2. Admitted(c) /\ ShownOnly(c) /\ Looped(c) /\ Vetted(c)
    BY <2>1 DEF Admitted, ShownOnly, Looped, Vetted, Writes
  <2>3. Honest(c)
    BY <2>1 DEF Honest
  <2>4. QED
    BY <2>1, <2>2, <2>3 DEF CallInv
<1>4. QED
  BY <1>1, <1>2, <1>3 DEF IInv

\* A refusal, whatever it is for.
LEMMA RefusingKeeps ==
  ASSUME IInv, NEW c \in Call, Refuse(c) \/ ReadFails(c)
  PROVE  TypeOK' /\ CallInv(c)'
<1>1. TypeOK'
  BY DEF IInv, TypeOK, Refuse, ReadFails, account, history, Phases
<1>2. Untouched(c)' /\ ~Started(c)'
  BY DEF IInv, TypeOK, CallInv, Untouched, Started, Refuse, ReadFails, account, history
<1>3. Honest(c)'
  BY DEF IInv, TypeOK, CallInv, Untouched, Honest, Refuse, ReadFails, account, history,
         ItemAt
<1>4. QED
  BY <1>1, <1>2, <1>3 DEF CallInv, Admitted, ShownOnly, Looped, Vetted, Writes

\* A step of one call leaves the others and the account alone.
LEMMA OthersUntouched ==
  ASSUME TypeOK, NEW c \in Call, Onward(c) \/ ApplyLost(c)
  PROVE  /\ \A d \in Call : d # c => SameCall(d)
         /\ UNCHANGED <<boardOf, moved, request>>
<1>1. CASE Refuse(c) \/ ReadFails(c)
  BY <1>1 DEF TypeOK, Refuse, ReadFails, SameCall, account, history
<1>2. CASE Plan(c)
  BY <1>2 DEF TypeOK, Plan, SameCall, account, history
<1>3. CASE SkipRow(c)
  BY <1>3 DEF TypeOK, SkipRow, SameCall, account, history
<1>4. CASE WriteRow(c)
  BY <1>4 DEF TypeOK, WriteRow, SameCall, account
<1>5. CASE RowFails(c)
  BY <1>5 DEF TypeOK, RowFails, SameCall, account
<1>6. CASE Return(c)
  BY <1>6 DEF TypeOK, Return, SameCall, account, history
<1>7. CASE ApplyLost(c)
  BY <1>7 DEF TypeOK, ApplyLost, SameCall, account, report
<1>8. QED
  BY <1>1, <1>2, <1>3, <1>4, <1>5, <1>6, <1>7 DEF Onward

-----------------------------------------------------------------------------
\* The verdict on the rows.

LEMMA VerdictOnRow ==
  ASSUME TypeOK, NEW c \in Call, ~Refusable(request[c]), NEW i \in 1..Rows(c),
         NEW v, v = Judge(request[c], request[c].rows[i])
  PROVE  /\ v \in {"planned", "invalid", "failed"}
         /\ request[c].dry \/ request[c].kind = "update" => v \in {"planned", "invalid"}
         /\ v = "planned" =>
              /\ ItemAt(c, i) \in Item
              /\ ~request[c].dry /\ request[c].kind # "update" =>
                   boardOf[ItemAt(c, i)] \in Allowed
<1>1. CASE request[c].kind = "update"
  BY <1>1, RequestsAreTyped DEF Judge, JudgeUpdateRow, UpdateRowFits, ItemAt
<1>2. CASE request[c].kind # "update"
  <2>1. ItemAt(c, i) \in Item
    BY <1>2, AdmittedRequests
  <2>2. v = JudgeActionRow(request[c], request[c].rows[i])
    BY <1>2 DEF Judge
  <2>3. QED
    BY <1>2, <2>1, <2>2 DEF JudgeActionRow, ItemAt
<1>3. QED
  BY <1>1, <1>2

LEMMA PlanningKeeps ==
  ASSUME IInv, NEW c \in Call, Plan(c)
  PROVE  TypeOK' /\ CallInv(c)'
<1> DEFINE q == request[c]
           judged == [i \in 1..Len(q.rows) |-> Judge(q, q.rows[i])]
<1>1. /\ phase[c] = "new" /\ ~Refusable(q) /\ TypeOK
      /\ status' = [status EXCEPT ![c] = judged]
      /\ UNCHANGED <<request, next, succeeded, boardOf, moved, sent, lost, applied>>
  BY DEF IInv, Plan, account, history
<1>2. Rows(c) \in 1..MaxBulkItems /\ Rows(c) \in Nat
  BY <1>1, AdmittedRequests, RequestsAreTyped
<1>3. \A i \in 1..Rows(c) :
        /\ judged[i] \in {"planned", "invalid", "failed"}
        /\ q.dry \/ q.kind = "update" => judged[i] \in {"planned", "invalid"}
        /\ judged[i] = "planned" =>
             /\ ItemAt(c, i) \in Item
             /\ ~q.dry /\ q.kind # "update" => boardOf[ItemAt(c, i)] \in Allowed
  BY <1>1, VerdictOnRow DEF Rows
<1>4. judged \in Seq(Statuses) /\ Len(judged) = Rows(c)
  <2>1. judged \in [1..Rows(c) -> Statuses]
    BY <1>3 DEF Rows, Statuses
  <2>2. QED
    BY <1>2, <2>1, ListsAreSequences
<1>5. status' \in [Call -> Seq(Statuses)] /\ status'[c] = judged
  BY <1>1, <1>4 DEF TypeOK
<1>6. /\ next[c] = 1 /\ succeeded[c] = 0 /\ failed[c] = 0
      /\ sent[c] = {} /\ lost[c] = {} /\ applied[c] = {}
  BY <1>1 DEF IInv, CallInv, Untouched
<1>7. countStatus(judged, "invalid") \in 0..MaxBulkItems
  <2>1. RowsThat(judged, "invalid") \subseteq 1..Rows(c)
    BY DEF RowsThat, Rows
  <2>2. countStatus(judged, "invalid") \in 0..Rows(c)
    BY <1>2, <2>1, RowSetsAreSmall DEF countStatus
  <2>3. QED
    BY <1>2, <2>2, BulkBound
<1>8. CASE OnlyPlanned(q, judged)
  <2>1. /\ phase' = [phase EXCEPT ![c] = "returned"]
        /\ failed' = [failed EXCEPT ![c] = countStatus(judged, "invalid")]
    BY <1>8 DEF Plan
  <2>2. TypeOK'
    BY <1>1, <1>5, <1>7, <2>1 DEF TypeOK, Phases
  <2>3. phase'[c] = "returned" /\ failed'[c] = countStatus(judged, "invalid")
    BY <1>1, <2>1 DEF TypeOK
  <2>4. Untouched(c)' /\ Admitted(c)'
    BY <1>1, <1>4, <1>5, <2>3 DEF Untouched, Admitted, Rows
  <2>5. \A i \in 1..Rows(c) : judged[i] \in {"planned", "invalid"}
    BY <1>3, <1>8 DEF OnlyPlanned
  <2>6. ShownOnly(c)'
    BY <1>1, <1>5, <1>6, <2>3, <2>5 DEF ShownOnly, Rows
  <2>7. ~Writes(c)'
    BY <1>1, <1>5, <1>8 DEF Writes
  <2>8. Looped(c)' /\ Vetted(c)'
    BY <2>7 DEF Looped, Vetted
  <2>9. Honest(c)'
    BY <1>1, <1>4, <1>5, <1>6, <2>5 DEF Honest, Written
  <2>10. QED
    BY <2>2, <2>4, <2>6, <2>8, <2>9 DEF CallInv
<1>9. CASE ~OnlyPlanned(q, judged)
  <2>1. phase' = [phase EXCEPT ![c] = "writing"] /\ failed' = failed
    BY <1>9 DEF Plan
  <2>2. TypeOK'
    BY <1>1, <1>5, <2>1 DEF TypeOK, Phases
  <2>3. phase'[c] = "writing"
    BY <1>1, <2>1 DEF TypeOK
  <2>4. Untouched(c)' /\ Admitted(c)' /\ ShownOnly(c)'
    BY <1>1, <1>4, <1>5, <1>9, <2>3 DEF Untouched, Admitted, ShownOnly, Rows
  <2>5. WrittenBefore(c)' = {} /\ UnfitBefore(c)' = {}
    BY <1>1, <1>6 DEF WrittenBefore, UnfitBefore
  <2>6. Cardinality({}) = 0
    BY FS_EmptySet
  <2>7. Looped(c)'
    <3>1. Rows(c)' = Rows(c) /\ next'[c] = 1 /\ succeeded'[c] = 0 /\ failed'[c] = 0
      BY <1>1, <1>6, <2>1 DEF Rows
    <3>2. \A i \in 1..Rows(c) : status'[c][i] \notin Written
      BY <1>3, <1>5 DEF Written
    <3>3. QED
      BY <1>2, <2>3, <2>5, <2>6, <3>1, <3>2 DEF Looped
  <2>8. Honest(c)'
    BY <1>1, <1>3, <1>4, <1>5, <1>6 DEF Honest, Written
  <2>9. ~q.dry
    BY <1>9 DEF OnlyPlanned
  <2>10. Vetted(c)'
    BY <1>1, <1>3, <1>5, <1>6, <2>9 DEF Vetted, ItemAt, Rows
  <2>11. QED
    BY <2>2, <2>4, <2>7, <2>8, <2>10 DEF CallInv
<1>10. QED
  BY <1>8, <1>9

-----------------------------------------------------------------------------
\* The loop over the rows.

LEMMA AtRowFacts ==
  ASSUME IInv, NEW c \in Call, AtRow(c)
  PROVE  /\ Writes(c) /\ ~Refusable(request[c])
         /\ Rows(c) \in 1..MaxBulkItems /\ Rows(c) \in Nat /\ Len(status[c]) = Rows(c)
         /\ next[c] \in 1..Rows(c) /\ next[c] + 1 \in 1..(MaxBulkItems + 1)
         /\ status[c] \in Seq(Statuses)
         /\ status[c][next[c]] \in {"planned", "invalid", "failed"}
         /\ phase[c] = "writing"
<1>1. TypeOK /\ phase[c] = "writing" /\ next[c] <= Rows(c) /\ CallInv(c)
  BY DEF IInv, AtRow, Rows
<1>2. Started(c)
  BY <1>1 DEF Started
<1>3. ~Refusable(request[c]) /\ Len(status[c]) = Rows(c) /\ Writes(c)
  BY <1>1, <1>2 DEF CallInv, Admitted, ShownOnly, Writes
<1>4. Rows(c) \in 1..MaxBulkItems /\ Rows(c) \in Nat
  BY <1>1, <1>3, AdmittedRequests, RequestsAreTyped
<1>5. status[c] \in Seq(Statuses) /\ next[c] \in 1..(MaxBulkItems + 1)
  BY <1>1 DEF TypeOK
<1>6. next[c] \in 1..Rows(c) /\ next[c] + 1 \in 1..(MaxBulkItems + 1)
  BY <1>1, <1>4, <1>5, BulkBound
<1>7. status[c][next[c]] \in Statuses /\ status[c][next[c]] \notin Written
  BY <1>1, <1>3, <1>4, <1>5, <1>6 DEF CallInv, Looped
<1>8. QED
  BY <1>1, <1>3, <1>4, <1>5, <1>6, <1>7 DEF Statuses

\* The loop passes a row: the row has a final status, which is counted, and no
\* row becomes invalid or ceases to be.
LEMMA RowIsPassed ==
  ASSUME IInv, NEW c \in Call, AtRow(c),
         request' = request, phase'[c] = phase[c], next'[c] = next[c] + 1,
         Len(status'[c]) = Len(status[c]),
         \A j \in 1..Rows(c) : j # next[c] => status'[c][j] = status[c][j],
         status'[c][next[c]] \in Written \cup {"invalid", "failed"},
         status'[c][next[c]] = "invalid" <=> status[c][next[c]] = "invalid",
         status'[c] \in Seq(Statuses),
         IF status'[c][next[c]] \in Written
         THEN succeeded'[c] = succeeded[c] + 1 /\ failed'[c] = failed[c]
         ELSE succeeded'[c] = succeeded[c] /\ failed'[c] = failed[c] + 1
  PROVE  /\ Untouched(c)' /\ Admitted(c)' /\ ShownOnly(c)' /\ Looped(c)' /\ Writes(c)'
         /\ succeeded'[c] \in 0..MaxBulkItems /\ failed'[c] \in 0..MaxBulkItems
<1> DEFINE at == next[c]
<1>1. /\ Writes(c) /\ ~Refusable(request[c]) /\ phase[c] = "writing"
      /\ Rows(c) \in 1..MaxBulkItems /\ Rows(c) \in Nat /\ Len(status[c]) = Rows(c)
      /\ at \in 1..Rows(c) /\ status[c] \in Seq(Statuses)
  BY AtRowFacts
<1>2. Looped(c)
  BY DEF IInv, CallInv
<1>3. Rows(c)' = Rows(c) /\ Started(c)'
  BY <1>1 DEF Rows, Started
<1>4. RowsThat(status'[c], "invalid") = RowsThat(status[c], "invalid")
  <2>1. DOMAIN status'[c] = 1..Rows(c) /\ DOMAIN status[c] = 1..Rows(c)
    BY <1>1
  <2>2. QED
    BY <2>1, <1>1 DEF RowsThat
<1>5. ~OnlyPlanned(request[c], status'[c])
  BY <1>1, <1>4 DEF Writes, OnlyPlanned
<1>6. Writes(c)'
  BY <1>3, <1>5 DEF Writes
<1>7. Untouched(c)' /\ Admitted(c)' /\ ShownOnly(c)'
  BY <1>1, <1>3, <1>6 DEF Untouched, Admitted, ShownOnly, Writes
<1>8. /\ \A j \in 1..(at - 1) : status'[c][j] = status[c][j]
      /\ 1..(next'[c] - 1) = 1..(at - 1) \cup {at}
  BY <1>1
<1>9. WrittenBefore(c) \subseteq 1..(at - 1) /\ UnfitBefore(c) \subseteq 1..(at - 1)
  BY DEF WrittenBefore, UnfitBefore
<1>10. at - 1 \in Nat /\ (at - 1) + 1 = at
  BY <1>1
<1>11. /\ succeeded'[c] = Cardinality(WrittenBefore(c)')
       /\ failed'[c] = Cardinality(UnfitBefore(c)')
  <2>1. CASE status'[c][at] \in Written
    <3>1. status'[c][at] \notin {"invalid", "failed"}
      BY <2>1 DEF Written
    <3>2. WrittenBefore(c)' = WrittenBefore(c) \cup {(at - 1) + 1}
      BY <1>8, <1>10, <2>1 DEF WrittenBefore
    <3>3. UnfitBefore(c)' = UnfitBefore(c)
      BY <1>8, <3>1 DEF UnfitBefore
    <3>4. Cardinality(WrittenBefore(c)') = Cardinality(WrittenBefore(c)) + 1
      BY <1>9, <1>10, <3>2, OneRowMore
    <3>5. QED
      BY <1>1, <1>2, <2>1, <3>3, <3>4 DEF Looped
  <2>2. CASE status'[c][at] \notin Written
    <3>1. status'[c][at] \in {"invalid", "failed"}
      BY <2>2
    <3>2. UnfitBefore(c)' = UnfitBefore(c) \cup {(at - 1) + 1}
      BY <1>8, <1>10, <3>1 DEF UnfitBefore
    <3>3. WrittenBefore(c)' = WrittenBefore(c)
      BY <1>8, <2>2 DEF WrittenBefore
    <3>4. Cardinality(UnfitBefore(c)') = Cardinality(UnfitBefore(c)) + 1
      BY <1>9, <1>10, <3>2, OneRowMore
    <3>5. QED
      BY <1>1, <1>2, <2>2, <3>3, <3>4 DEF Looped
  <2>3. QED
    BY <2>1, <2>2
<1>12. succeeded'[c] \in 0..MaxBulkItems /\ failed'[c] \in 0..MaxBulkItems
  <2>1. WrittenBefore(c)' \subseteq 1..at /\ UnfitBefore(c)' \subseteq 1..at /\ at \in Nat
    BY <1>1 DEF WrittenBefore, UnfitBefore
  <2>2. Cardinality(WrittenBefore(c)') \in 0..at /\ Cardinality(UnfitBefore(c)') \in 0..at
    BY <2>1, RowSetsAreSmall
  <2>3. QED
    BY <1>1, <1>11, <2>2, BulkBound
<1>13. Looped(c)'
  <2>1. next'[c] \in 1..(Rows(c) + 1) /\ phase'[c] # "returned"
    BY <1>1
  <2>2. \A j \in 1..Rows(c) : /\ j < next'[c] => status'[c][j] # "planned"
                              /\ j >= next'[c] => status'[c][j] \notin Written
    <3>1. status'[c][at] # "planned"
      BY DEF Written
    <3>2. QED
      BY <1>1, <1>2, <3>1 DEF Looped
  <2>3. QED
    BY <1>3, <1>11, <2>1, <2>2 DEF Looped
<1>14. QED
  BY <1>6, <1>7, <1>12, <1>13

LEMMA SkippingKeeps ==
  ASSUME IInv, NEW c \in Call, SkipRow(c)
  PROVE  TypeOK' /\ CallInv(c)'
<1>1. /\ TypeOK /\ AtRow(c) /\ status[c][next[c]] # "planned"
      /\ request' = request /\ phase' = phase /\ status' = status
      /\ failed' = [failed EXCEPT ![c] = failed[c] + 1]
      /\ next' = [next EXCEPT ![c] = next[c] + 1]
      /\ UNCHANGED <<succeeded, boardOf, moved, sent, lost, applied>>
  BY DEF IInv, SkipRow, Planned, account, history
<1>2. /\ Rows(c) \in Nat /\ Len(status[c]) = Rows(c) /\ next[c] \in 1..Rows(c)
      /\ next[c] + 1 \in 1..(MaxBulkItems + 1)
      /\ status[c][next[c]] \in {"invalid", "failed"} /\ status[c] \in Seq(Statuses)
  BY <1>1, AtRowFacts
<1>3. next'[c] = next[c] + 1 /\ failed'[c] = failed[c] + 1 /\ succeeded'[c] = succeeded[c]
  BY <1>1 DEF TypeOK
<1>4. status[c][next[c]] \notin Written
  BY <1>2 DEF Written
<1>5. /\ Untouched(c)' /\ Admitted(c)' /\ ShownOnly(c)' /\ Looped(c)' /\ Writes(c)'
      /\ failed'[c] \in 0..MaxBulkItems
  BY <1>1, <1>2, <1>3, <1>4, RowIsPassed
<1>6. TypeOK'
  BY <1>1, <1>2, <1>3, <1>5 DEF TypeOK
<1>7. Honest(c)'
  BY <1>1, <1>2, <1>3 DEF IInv, CallInv, Honest, ItemAt
<1>8. Vetted(c)'
  BY <1>1, AtRowFacts DEF IInv, CallInv, Vetted, ItemAt, Rows
<1>9. QED
  BY <1>5, <1>6, <1>7, <1>8 DEF CallInv

\* A row that is sent: whatever is reported of it, its status is replaced by a
\* final one that is not "invalid".
LEMMA SentRow ==
  ASSUME IInv, NEW c \in Call, AtRow(c), Planned(c), NEW v \in Written \cup {"failed"},
         request' = request, phase' = phase,
         status' = [status EXCEPT ![c][next[c]] = v],
         next' = [next EXCEPT ![c] = next[c] + 1],
         sent' = [sent EXCEPT ![c] = sent[c] \cup {next[c]}],
         moved' = moved, boardOf' = boardOf,
         IF v \in Written
         THEN succeeded' = [succeeded EXCEPT ![c] = succeeded[c] + 1] /\ failed' = failed
         ELSE succeeded' = succeeded /\ failed' = [failed EXCEPT ![c] = failed[c] + 1]
  PROVE  /\ Untouched(c)' /\ Admitted(c)' /\ ShownOnly(c)' /\ Looped(c)' /\ Vetted(c)'
         /\ request' \in [Call -> Asked] /\ phase' \in [Call -> Phases]
         /\ status' \in [Call -> Seq(Statuses)]
         /\ next' \in [Call -> 1..(MaxBulkItems + 1)]
         /\ succeeded' \in [Call -> 0..MaxBulkItems]
         /\ failed' \in [Call -> 0..MaxBulkItems]
         /\ sent' \in [Call -> SUBSET (1..MaxBulkItems)]
         /\ Len(status'[c]) = Len(status[c]) /\ status'[c][next[c]] = v
         /\ \A j \in 1..Len(status[c]) : j # next[c] => status'[c][j] = status[c][j]
<1> DEFINE at == next[c]
<1>1. TypeOK
  BY DEF IInv
<1>2. /\ Rows(c) \in 1..MaxBulkItems /\ Rows(c) \in Nat /\ Len(status[c]) = Rows(c)
      /\ at \in 1..Rows(c) /\ at + 1 \in 1..(MaxBulkItems + 1)
      /\ status[c] \in Seq(Statuses) /\ Writes(c)
  BY AtRowFacts
<1>3. status[c][at] = "planned"
  BY DEF Planned
<1>4. v \in Statuses /\ v \notin {"invalid", "planned"}
  BY DEF Statuses, Written
<1>5. status'[c] = [status[c] EXCEPT ![at] = v]
  BY <1>1 DEF TypeOK
<1>6. /\ status'[c] \in Seq(Statuses) /\ Len(status'[c]) = Len(status[c])
      /\ status'[c][at] = v
      /\ \A j \in 1..Len(status[c]) : j # at => status'[c][j] = status[c][j]
  BY <1>2, <1>4, <1>5, StatusReplaced
<1>7. next'[c] = at + 1 /\ sent'[c] = sent[c] \cup {at}
  BY <1>1 DEF TypeOK
<1>8. IF v \in Written
      THEN succeeded'[c] = succeeded[c] + 1 /\ failed'[c] = failed[c]
      ELSE succeeded'[c] = succeeded[c] /\ failed'[c] = failed[c] + 1
  BY <1>1 DEF TypeOK
<1>9. /\ Untouched(c)' /\ Admitted(c)' /\ ShownOnly(c)' /\ Looped(c)' /\ Writes(c)'
      /\ succeeded'[c] \in 0..MaxBulkItems /\ failed'[c] \in 0..MaxBulkItems
  BY <1>2, <1>3, <1>4, <1>6, <1>7, <1>8, RowIsPassed
<1>10. Vetted(c)'
  <2>1. Rows(c)' = Rows(c) /\ \A j : ItemAt(c, j)' = ItemAt(c, j)
    BY DEF Rows, ItemAt
  <2>2. \A j \in 1..Rows(c) :
          j \in sent'[c] \/ status'[c][j] = "planned" => j \in sent[c] \/ status[c][j] = "planned"
    BY <1>2, <1>3, <1>4, <1>6, <1>7
  <2>3. QED
    BY <1>2, <2>1, <2>2 DEF IInv, CallInv, Vetted
<1>11. status' \in [Call -> Seq(Statuses)]
  BY <1>1, <1>5, <1>6 DEF TypeOK
<1>12. at \in 1..MaxBulkItems
  BY <1>2, BulkBound
<1>13. /\ next' \in [Call -> 1..(MaxBulkItems + 1)]
       /\ sent' \in [Call -> SUBSET (1..MaxBulkItems)]
  BY <1>1, <1>2, <1>12 DEF TypeOK
<1>14. succeeded' \in [Call -> 0..MaxBulkItems] /\ failed' \in [Call -> 0..MaxBulkItems]
  <2>1. CASE v \in Written
    BY <1>1, <1>9, <2>1 DEF TypeOK
  <2>2. CASE v \notin Written
    BY <1>1, <1>9, <2>2 DEF TypeOK
  <2>3. QED
    BY <2>1, <2>2
<1>15. QED
  BY <1>1, <1>6, <1>9, <1>10, <1>11, <1>13, <1>14 DEF TypeOK

LEMMA WritingKeeps ==
  ASSUME IInv, NEW c \in Call, WriteRow(c)
  PROVE  TypeOK' /\ CallInv(c)'
<1> DEFINE q == request[c]
           at == next[c]
<1>1. /\ TypeOK /\ AtRow(c) /\ Planned(c) /\ boardOf[ItemAt(c, at)] # Gone
      /\ applied' = [applied EXCEPT ![c] = IF Takes(q, at) THEN @ \cup {at} ELSE @]
      /\ status' = [status EXCEPT ![c][at] = Done(q.kind)]
      /\ succeeded' = [succeeded EXCEPT ![c] = succeeded[c] + 1]
      /\ next' = [next EXCEPT ![c] = at + 1]
      /\ sent' = [sent EXCEPT ![c] = sent[c] \cup {at}]
      /\ request' = request /\ phase' = phase /\ failed' = failed
      /\ lost' = lost /\ boardOf' = boardOf /\ moved' = moved
  BY DEF IInv, WriteRow, account, ItemAt
<1>2. Done(q.kind) \in Written
  BY <1>1, RequestsAreTyped DEF Done, Written, Kinds
<1>3. /\ Untouched(c)' /\ Admitted(c)' /\ ShownOnly(c)' /\ Looped(c)' /\ Vetted(c)'
      /\ request' \in [Call -> Asked] /\ phase' \in [Call -> Phases]
      /\ status' \in [Call -> Seq(Statuses)]
      /\ next' \in [Call -> 1..(MaxBulkItems + 1)]
      /\ succeeded' \in [Call -> 0..MaxBulkItems]
      /\ failed' \in [Call -> 0..MaxBulkItems]
      /\ sent' \in [Call -> SUBSET (1..MaxBulkItems)]
      /\ Len(status'[c]) = Len(status[c]) /\ status'[c][at] = Done(q.kind)
      /\ \A j \in 1..Len(status[c]) : j # at => status'[c][j] = status[c][j]
  BY <1>1, <1>2, SentRow
<1>4. /\ Rows(c) \in 1..MaxBulkItems /\ Len(status[c]) = Rows(c) /\ at \in 1..Rows(c)
      /\ Rows(c) \in Nat /\ Writes(c)
  BY <1>1, AtRowFacts
<1>5. /\ next'[c] = at + 1 /\ sent'[c] = sent[c] \cup {at} /\ lost'[c] = lost[c]
      /\ applied'[c] = IF Takes(q, at) THEN applied[c] \cup {at} ELSE applied[c]
  BY <1>1 DEF TypeOK
<1>6. Honest(c) /\ ItemAt(c, at) \in Item
  BY <1>1, <1>4 DEF IInv, CallInv, Vetted, Planned
\* The row is carried out unless others have moved its item or it was elsewhere.
<1>7. /\ ItemAt(c, at) \notin moved
      /\ q.kind = "update" => PlaceOf[ItemAt(c, at)] = q.board
      => Takes(q, at)
  BY <1>1, <1>6 DEF IInv, Settled, Takes, ItemAt
<1>8. TypeOK'
  <2>1. applied' \in [Call -> SUBSET (1..MaxBulkItems)]
    BY <1>1, <1>4, BulkBound DEF TypeOK
  <2>2. QED
    BY <1>1, <1>3, <2>1 DEF TypeOK
<1>9. Honest(c)'
  <2>1. applied'[c] \subseteq sent'[c] /\ lost'[c] \subseteq sent'[c]
    BY <1>5, <1>6 DEF Honest
  <2>2. sent'[c] \subseteq 1..(next'[c] - 1)
    BY <1>4, <1>5, <1>6 DEF Honest
  <2>3. applied[c] \subseteq 1..(at - 1)
    BY <1>6 DEF Honest
  <2>4. \A i \in applied'[c] : status'[c][i] \in Written \/ i \in lost'[c]
    <3>1. \A i \in applied[c] : i \in 1..Len(status[c]) /\ i # at
      BY <1>4, <2>3
    <3>2. \A i \in applied[c] : status'[c][i] \in Written \/ i \in lost'[c]
      BY <1>3, <1>5, <1>6, <3>1 DEF Honest
    <3>3. status'[c][at] \in Written
      BY <1>2, <1>3
    <3>4. QED
      BY <1>5, <3>2, <3>3
  <2>5. \A i \in 1..Len(status'[c]) :
          /\ status'[c][i] \in Written
          /\ ItemAt(c, i) \notin moved
          /\ q.kind = "update" => PlaceOf[ItemAt(c, i)] = q.board
          => i \in applied'[c]
    BY <1>3, <1>5, <1>6, <1>7 DEF Honest
  <2>6. QED
    BY <1>1, <2>1, <2>2, <2>4, <2>5 DEF Honest, ItemAt
<1>10. QED
  BY <1>3, <1>8, <1>9 DEF CallInv

LEMMA FailingKeeps ==
  ASSUME IInv, NEW c \in Call, RowFails(c)
  PROVE  TypeOK' /\ CallInv(c)'
<1> DEFINE at == next[c]
<1>1. /\ TypeOK /\ AtRow(c) /\ Planned(c)
      /\ lost' = lost \/ lost' = [lost EXCEPT ![c] = @ \cup {at}]
      /\ status' = [status EXCEPT ![c][at] = "failed"]
      /\ failed' = [failed EXCEPT ![c] = failed[c] + 1]
      /\ next' = [next EXCEPT ![c] = at + 1]
      /\ sent' = [sent EXCEPT ![c] = sent[c] \cup {at}]
      /\ request' = request /\ phase' = phase /\ succeeded' = succeeded
      /\ applied' = applied /\ boardOf' = boardOf /\ moved' = moved
  BY DEF IInv, RowFails, account
<1>2. "failed" \notin Written
  BY DEF Written
<1>3. /\ Untouched(c)' /\ Admitted(c)' /\ ShownOnly(c)' /\ Looped(c)' /\ Vetted(c)'
      /\ request' \in [Call -> Asked] /\ phase' \in [Call -> Phases]
      /\ status' \in [Call -> Seq(Statuses)]
      /\ next' \in [Call -> 1..(MaxBulkItems + 1)]
      /\ succeeded' \in [Call -> 0..MaxBulkItems]
      /\ failed' \in [Call -> 0..MaxBulkItems]
      /\ sent' \in [Call -> SUBSET (1..MaxBulkItems)]
      /\ Len(status'[c]) = Len(status[c]) /\ status'[c][at] = "failed"
      /\ \A j \in 1..Len(status[c]) : j # at => status'[c][j] = status[c][j]
  BY <1>1, <1>2, SentRow
<1>4. /\ Rows(c) \in 1..MaxBulkItems /\ Len(status[c]) = Rows(c) /\ at \in 1..Rows(c)
      /\ Rows(c) \in Nat
  BY <1>1, AtRowFacts
<1>5. /\ next'[c] = at + 1 /\ sent'[c] = sent[c] \cup {at} /\ applied'[c] = applied[c]
      /\ lost'[c] \in {lost[c], lost[c] \cup {at}}
  BY <1>1 DEF TypeOK
<1>6. Honest(c)
  BY DEF IInv, CallInv
<1>7. TypeOK'
  <2>1. lost' \in [Call -> SUBSET (1..MaxBulkItems)]
    <3>1. at \in 1..MaxBulkItems
      BY <1>4, BulkBound
    <3>2. lost \in [Call -> SUBSET (1..MaxBulkItems)]
      BY <1>1 DEF TypeOK
    <3>3. CASE lost' = lost
      BY <3>2, <3>3
    <3>4. CASE lost' = [lost EXCEPT ![c] = @ \cup {at}]
      <4>1. lost[c] \cup {at} \in SUBSET (1..MaxBulkItems)
        BY <3>1, <3>2
      <4>2. QED
        BY <3>2, <3>4, <4>1
    <3>5. QED
      BY <1>1, <3>3, <3>4
  <2>2. UNCHANGED <<applied, boardOf, moved>>
    BY <1>1
  <2>3. TypeOK
    BY <1>1
  <2>4. QED
    BY <1>3, <2>1, <2>2, <2>3 DEF TypeOK
<1>8. Honest(c)'
  <2>1. applied'[c] \subseteq sent'[c] /\ lost'[c] \subseteq sent'[c]
    BY <1>5, <1>6 DEF Honest
  <2>2. sent'[c] \subseteq 1..(next'[c] - 1)
    BY <1>4, <1>5, <1>6 DEF Honest
  <2>3. applied[c] \subseteq 1..(at - 1)
    BY <1>6 DEF Honest
  <2>4. \A i \in applied[c] : i \in 1..Len(status[c]) /\ i # at
    BY <1>4, <2>3
  <2>5. \A i \in applied'[c] : status'[c][i] \in Written \/ i \in lost'[c]
    <3>1. lost[c] \subseteq lost'[c]
      BY <1>5
    <3>2. \A i \in applied[c] : status'[c][i] = status[c][i]
      BY <1>3, <2>4
    <3>3. QED
      BY <1>5, <1>6, <3>1, <3>2 DEF Honest
  <2>6. \A i \in 1..Len(status'[c]) :
          /\ status'[c][i] \in Written
          /\ ItemAt(c, i) \notin moved
          /\ request[c].kind = "update" => PlaceOf[ItemAt(c, i)] = request[c].board
          => i \in applied'[c]
    BY <1>2, <1>3, <1>5, <1>6 DEF Honest
  <2>7. QED
    BY <1>1, <2>1, <2>2, <2>5, <2>6 DEF Honest, ItemAt
<1>9. QED
  BY <1>3, <1>7, <1>8 DEF CallInv

LEMMA ReturningKeeps ==
  ASSUME IInv, NEW c \in Call, Return(c)
  PROVE  TypeOK' /\ CallInv(c)'
<1>1. /\ TypeOK /\ CallInv(c) /\ phase[c] = "writing" /\ next[c] > Rows(c)
      /\ phase' = [phase EXCEPT ![c] = "returned"]
      /\ UNCHANGED <<request, status, next, succeeded, failed, boardOf, moved, sent, lost,
                    applied>>
  BY DEF IInv, Return, account, history, Rows
<1>2. TypeOK'
  BY <1>1 DEF TypeOK, Phases
<1>3. phase'[c] = "returned"
  BY <1>1 DEF TypeOK
<1>4. Writes(c) /\ Writes(c)' /\ Rows(c)' = Rows(c)
  BY <1>1, <1>3 DEF CallInv, ShownOnly, Writes, Started, Rows
<1>5. Untouched(c)' /\ Admitted(c)' /\ ShownOnly(c)'
  BY <1>1, <1>3, <1>4 DEF CallInv, Untouched, Admitted, ShownOnly, Writes, Started
<1>6. Looped(c)'
  <2>1. Rows(c) \in Nat /\ next[c] \in 1..(Rows(c) + 1)
    BY <1>1, <1>4, RequestsAreTyped DEF CallInv, Looped
  <2>2. next[c] = Rows(c) + 1
    BY <1>1, <2>1
  <2>3. WrittenBefore(c)' = WrittenBefore(c) /\ UnfitBefore(c)' = UnfitBefore(c)
    BY <1>1 DEF WrittenBefore, UnfitBefore
  <2>4. QED
    BY <1>1, <1>4, <2>2, <2>3 DEF CallInv, Looped
<1>7. Honest(c)' /\ Vetted(c)'
  BY <1>1, <1>4 DEF CallInv, Honest, Vetted, ItemAt
<1>8. QED
  BY <1>2, <1>5, <1>6, <1>7 DEF CallInv

LEMMA ApplyingKeeps ==
  ASSUME IInv, NEW c \in Call, ApplyLost(c)
  PROVE  TypeOK' /\ CallInv(c)'
<1>1. PICK i \in lost[c] \ applied[c] :
        /\ Takes(request[c], i)
        /\ applied' = [applied EXCEPT ![c] = @ \cup {i}]
        /\ UNCHANGED <<request, phase, status, next, succeeded, failed, sent, lost,
                      boardOf, moved>>
  BY DEF ApplyLost, report, account
<1>2. TypeOK /\ CallInv(c)
  BY DEF IInv
<1>3. applied'[c] = applied[c] \cup {i} /\ i \in sent[c] /\ i \in 1..MaxBulkItems
  BY <1>1, <1>2 DEF TypeOK, CallInv, Honest
<1>4. TypeOK'
  BY <1>1, <1>2, <1>3 DEF TypeOK
<1>5. Untouched(c)' /\ Admitted(c)' /\ ShownOnly(c)'
  BY <1>1, <1>2, <1>3 DEF CallInv, Untouched, Admitted, ShownOnly, Started, Rows
<1>6. Looped(c)' /\ Vetted(c)'
  BY <1>1, <1>2 DEF CallInv, Looped, Vetted, Writes, Started, Rows, ItemAt, WrittenBefore,
                    UnfitBefore
<1>7. Honest(c)'
  BY <1>1, <1>2, <1>3 DEF CallInv, Honest, ItemAt
<1>8. QED
  BY <1>4, <1>5, <1>6, <1>7 DEF CallInv

-----------------------------------------------------------------------------
LEMMA StepKeepsIInv ==
  ASSUME IInv, [Next]_vars
  PROVE  IInv'
<1>1. ASSUME NEW c \in Call, Onward(c) \/ ApplyLost(c) PROVE IInv'
  <2>1. TypeOK' /\ CallInv(c)'
    BY <1>1, RefusingKeeps, PlanningKeeps, SkippingKeeps, WritingKeeps, FailingKeeps,
       ReturningKeeps, ApplyingKeeps DEF Onward
  <2>2. /\ \A d \in Call : d # c => SameCall(d)
        /\ UNCHANGED <<boardOf, moved>>
    BY <1>1, OthersUntouched DEF IInv
  <2>3. \A d \in Call : d # c => CallInv(d)'
    BY <2>2, OthersStand DEF IInv
  <2>4. Settled'
    BY <2>2 DEF IInv, Settled
  <2>5. QED
    BY <2>1, <2>3, <2>4 DEF IInv
<1>2. CASE OthersMove
  <2>1. PICK i \in Item, b \in Board \cup {Gone} :
          /\ boardOf' = [boardOf EXCEPT ![i] = b]
          /\ moved' = moved \cup {i}
          /\ UNCHANGED <<report, history>>
    BY <1>2 DEF OthersMove
  <2>2. TypeOK'
    BY <2>1 DEF IInv, TypeOK, report, history
  <2>3. moved \subseteq moved' /\ \A j \in Item : boardOf'[j] = boardOf[j] \/ j \in moved'
    BY <2>1 DEF IInv, TypeOK
  <2>4. \A d \in Call : SameCall(d)
    BY <2>1 DEF report, history, SameCall
  <2>5. \A d \in Call : CallInv(d)'
    BY <2>3, <2>4, OthersStand DEF IInv
  <2>6. Settled'
    BY <2>3 DEF IInv, Settled
  <2>7. QED
    BY <2>2, <2>5, <2>6 DEF IInv
<1>3. CASE UNCHANGED vars
  <2>1. TypeOK' /\ Settled'
    BY <1>3 DEF vars, report, IInv, TypeOK, Settled
  <2>2. \A d \in Call : SameCall(d)
    BY <1>3 DEF vars, report, SameCall
  <2>3. \A d \in Call : CallInv(d)'
    BY <1>3, <2>2, OthersStand DEF vars, IInv
  <2>4. QED
    BY <2>1, <2>3 DEF IInv
<1>4. QED
  BY <1>1, <1>2, <1>3 DEF Next

LEMMA AlwaysIInv == Spec => []IInv
<1>1. Init => IInv
  BY InitEstablishes
<1>2. IInv /\ [Next]_vars => IInv'
  BY StepKeepsIInv
<1>3. QED
  BY <1>1, <1>2, PTL DEF Spec

-----------------------------------------------------------------------------
\* Types: no call ever counts more rows than it may have.
THEOREM BulkTypes == Spec => []TypeOK
BY AlwaysIInv, PTL DEF IInv

LEMMA AllOrNothingFollows == IInv => AllOrNothing
<1> SUFFICES ASSUME IInv, NEW c \in Call
             PROVE  /\ request[c].dry => sent[c] = {}
                    /\ Whole(request[c]) /\ RowsThat(status[c], "invalid") # {} => sent[c] = {}
  BY DEF AllOrNothing
<1>1. CallInv(c) /\ phase[c] \in Phases
  BY DEF IInv, TypeOK
<1>2. CASE Started(c)
  BY <1>1, <1>2 DEF CallInv, ShownOnly, OnlyPlanned, Whole
<1>3. CASE ~Started(c)
  BY <1>1, <1>3 DEF CallInv, Untouched, Started, Phases
<1>4. QED
  BY <1>2, <1>3

\* BulkUpdateItems and BulkItemAction: a dry run writes nothing, nor does an update
\* of which a row is invalid, for any rows and whatever fails (items.go 408-529).
THEOREM InvalidUpdatesWriteNothing == Spec => []AllOrNothing
BY AlwaysIInv, AllOrNothingFollows, PTL

LEMMA ReportAddsUpFollows == IInv => ReportAddsUp
<1> SUFFICES ASSUME IInv, NEW c \in Call, phase[c] = "returned"
             PROVE  LET rows == status[c]
                        written == {i \in DOMAIN rows : rows[i] \in Written}
                        unfit == {i \in DOMAIN rows : rows[i] \in {"invalid", "failed"}}
                    IN /\ Len(rows) = Len(request[c].rows)
                       /\ succeeded[c] = Cardinality(written)
                       /\ failed[c] = Cardinality(unfit)
                       /\ ~OnlyPlanned(request[c], rows) => written \cup unfit = DOMAIN rows
  BY DEF ReportAddsUp
<1> DEFINE written == {i \in DOMAIN status[c] : status[c][i] \in Written}
           unfit == {i \in DOMAIN status[c] : status[c][i] \in {"invalid", "failed"}}
<1>1. /\ CallInv(c) /\ Started(c) /\ status[c] \in Seq(Statuses)
      /\ Rows(c) \in Nat
  BY RequestsAreTyped DEF IInv, TypeOK, Started
<1>2. Len(status[c]) = Rows(c) /\ DOMAIN status[c] = 1..Rows(c)
  BY <1>1 DEF CallInv, Admitted
<1>3. CASE OnlyPlanned(request[c], status[c])
  <2>1. /\ \A i \in 1..Rows(c) : status[c][i] \in {"planned", "invalid"}
        /\ succeeded[c] = 0 /\ failed[c] = Cardinality(RowsThat(status[c], "invalid"))
    BY <1>1, <1>3 DEF CallInv, ShownOnly, countStatus
  <2>2. written = {} /\ unfit = RowsThat(status[c], "invalid")
    BY <1>2, <2>1 DEF Written, RowsThat
  <2>3. Cardinality({}) = 0
    BY FS_EmptySet
  <2>4. QED
    BY <1>2, <1>3, <2>1, <2>2, <2>3 DEF Rows
<1>4. CASE ~OnlyPlanned(request[c], status[c])
  <2>1. Writes(c) /\ Looped(c)
    BY <1>1, <1>4 DEF CallInv, Writes
  <2>2. next[c] - 1 = Rows(c)
    BY <1>1, <2>1 DEF Looped
  <2>3. written = WrittenBefore(c) /\ unfit = UnfitBefore(c)
    BY <1>2, <2>2 DEF WrittenBefore, UnfitBefore
  <2>4. \A i \in 1..Rows(c) : status[c][i] \in Statuses /\ status[c][i] # "planned"
    BY <1>1, <1>2, <2>1, <2>2 DEF Looped
  <2>5. written \cup unfit = DOMAIN status[c]
    BY <1>2, <2>4 DEF Statuses
  <2>6. QED
    BY <1>2, <2>1, <2>3, <2>5 DEF Looped, Rows
<1>5. QED
  BY <1>3, <1>4

\* The counters of a result count exactly the rows that have the status, and a call
\* that wrote leaves no row without a final one (items.go 440-467, 504-529).
THEOREM CountersAddUp == Spec => []ReportAddsUp
BY AlwaysIInv, ReportAddsUpFollows, PTL

LEMMA ReportMatchesFollows == IInv => ReportMatchesAccount
<1> SUFFICES ASSUME IInv, NEW c \in Call, NEW i \in DOMAIN status[c]
             PROVE  LET q == request[c]
                        item == q.rows[i].item
                    IN /\ /\ status[c][i] \in Written
                          /\ item \notin moved
                          /\ q.kind = "update" => PlaceOf[item] = q.board
                          => i \in applied[c]
                       /\ i \in applied[c] => status[c][i] \in Written \/ i \in lost[c]
  BY DEF ReportMatchesAccount
<1>1. Honest(c) /\ status[c] \in Seq(Statuses)
  BY DEF IInv, CallInv, TypeOK
<1>2. i \in 1..Len(status[c])
  BY <1>1
<1>3. QED
  BY <1>1, <1>2 DEF Honest, ItemAt

\* What a row says is what happened, as far as the call can know (items.go 446-455).
THEOREM ReportsMatchTheAccount == Spec => []ReportMatchesAccount
BY AlwaysIInv, ReportMatchesFollows, PTL

LEMMA StepStaysOnAllowedBoards ==
  ASSUME IInv, Next, NEW c \in Call, NEW i \in applied'[c] \ applied[c]
  PROVE  boardOf[ItemAt(c, i)] \in Allowed \/ ItemAt(c, i) \in moved
<1>1. PICK d \in Call : Onward(d) \/ ApplyLost(d)
  BY DEF Next, OthersMove, history
<1>2. d = c
  BY <1>1, OthersUntouched DEF IInv, SameCall
<1>3. WriteRow(c) \/ ApplyLost(c)
  BY <1>1, <1>2 DEF Onward, Refuse, ReadFails, Plan, SkipRow, RowFails, Return, history
<1>4. /\ Writes(c) /\ i \in 1..Rows(c)
      /\ i \in sent[c] \/ status[c][i] = "planned"
      /\ Takes(request[c], i) /\ ~Refusable(request[c])
  <2>1. CASE WriteRow(c)
    <3>1. i = next[c] /\ Takes(request[c], i)
      BY <2>1 DEF WriteRow, IInv, TypeOK
    <3>2. AtRow(c) /\ status[c][i] = "planned"
      BY <2>1, <3>1 DEF WriteRow, Planned
    <3>3. QED
      BY <3>1, <3>2, AtRowFacts
  <2>2. CASE ApplyLost(c)
    <3>1. i \in lost[c] /\ Takes(request[c], i)
      BY <2>2 DEF ApplyLost, IInv, TypeOK
    <3>2. CallInv(c) /\ phase[c] \in Phases
      BY DEF IInv, TypeOK
    <3>3. i \in sent[c] /\ sent[c] # {}
      BY <3>1, <3>2 DEF CallInv, Honest
    <3>4. Started(c) /\ Writes(c) /\ ~Refusable(request[c])
      BY <3>2, <3>3 DEF CallInv, Untouched, Admitted, ShownOnly, Started, Writes, Phases
    <3>5. Rows(c) \in Nat /\ next[c] \in 1..(Rows(c) + 1) /\ i \in 1..(next[c] - 1)
      BY <3>2, <3>3, <3>4, RequestsAreTyped DEF CallInv, Looped, Honest, IInv
    <3>6. QED
      BY <3>1, <3>3, <3>4, <3>5
  <2>3. QED
    BY <1>3, <2>1, <2>2
<1>5. CASE request[c].kind = "update"
  <2>1. ~request[c].dry
    BY <1>4 DEF Writes, OnlyPlanned
  <2>2. request[c].board \in Allowed
    BY <1>4, <1>5, <2>1, AdmittedRequests DEF IInv
  <2>3. QED
    BY <1>4, <1>5, <2>2 DEF Takes, ItemAt
<1>6. CASE request[c].kind # "update"
  BY <1>4, <1>6 DEF IInv, CallInv, Vetted
<1>7. QED
  BY <1>5, <1>6

LEMMA RowsStayFollows ==
  IInv /\ [Next]_vars =>
    [\A c \in Call : \A i \in applied'[c] \ applied[c] :
       LET item == request[c].rows[i].item
       IN boardOf[item] \in Allowed \/ item \in moved]_vars
BY StepStaysOnAllowedBoards DEF ItemAt

\* However late a row is carried out, its item is on an allowed board, unless other
\* users have moved it there (items.go 417-418, 496-501).
THEOREM CarriedOutOnAllowedBoards == Spec => RowsStayOnAllowedBoards
BY AlwaysIInv, RowsStayFollows, PTL DEF Spec, RowsStayOnAllowedBoards
=============================================================================
