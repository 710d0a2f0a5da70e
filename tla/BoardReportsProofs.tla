------------------------- MODULE BoardReportsProofs -------------------------
(***************************************************************************)
(* ProvisionBoard and Snapshot at work on one board, proved for every        *)
(* template, every cap and page size, and every number of other users and of *)
(* attempts whose answer is lost:                                            *)
(*   - ProvisionInv: each position of the template that is behind the loop   *)
(*     is either in the result or in the warnings; the groups made stand on  *)
(*     the board in the order of the template; while nothing has been warned *)
(*     of, the board is the template as far as the loop has come, beside     *)
(*     what attempts that were given up have made;                           *)
(*   - ReportInv: what has been read and what the cursor still has are       *)
(*     disjoint, name no item twice, and between them cover what was there   *)
(*     at the first page and still is; on a board that stands still they are *)
(*     its items, cut in two.                                                *)
(***************************************************************************)
EXTENDS BoardReports, SequenceTheorems, FiniteSetTheorems, WellFoundedInduction, TLAPS

\* The positions of each list that provisioning has behind it.
TriedColumns ==
  IF step \in {"board", "failed"} THEN {}
  ELSE IF step = "columns" THEN 1..(at - 1) ELSE DOMAIN TemplateColumns
TriedGroups ==
  IF step \in {"board", "failed", "columns"} THEN {}
  ELSE IF step = "groups" THEN 1..(at - 1) ELSE DOMAIN TemplateGroups
TriedSeeds ==
  IF step = "seeds" THEN 1..(at - 1) ELSE IF step = "done" THEN DOMAIN Seeds ELSE {}

\* Where provisioning is in the list it works on.
Placed ==
  /\ step = "columns" => at <= Len(TemplateColumns) + 1
  /\ step = "groups" => at <= Len(TemplateGroups) + 1
  /\ step \in {"seeds", "done"} => at <= Len(Seeds) + 1
  /\ step \in {"board", "failed"} => at = 1

\* What has been tried is in the result or in the warnings, and nothing else is.
ColumnsAccounted ==
  \A i \in DOMAIN TemplateColumns :
    IF i \in TriedColumns
    THEN TemplateColumns[i] \in madeColumns <=> ~Warned("column", i)
    ELSE TemplateColumns[i] \notin madeColumns /\ ~Warned("column", i)

GroupMade(i) == \E k \in DOMAIN madeGroups : madeGroups[k].title = TemplateGroups[i]
GroupsAccounted ==
  \A i \in DOMAIN TemplateGroups :
    IF i \in TriedGroups THEN GroupMade(i) <=> ~Warned("group", i)
    ELSE ~GroupMade(i) /\ ~Warned("group", i)

SeedMade(i) == Seeds[i].name \in Names(madeItems)
SeedsAccounted ==
  /\ Skipped => step = "done"
  /\ \A i \in DOMAIN Seeds :
       IF i \in TriedSeeds /\ ~Skipped THEN SeedMade(i) <=> ~Warned("seed", i)
       ELSE ~SeedMade(i) /\ ~Warned("seed", i)

\* What attempts that were given up have made.
Doubled == {c \in Copy : late[c].of = "settled"}

\* The groups of the board, and those the result names.
GroupsInv ==
  /\ IsInjective(groups)
  /\ ToSet(groups) \subseteq
       {Default} \cup {TemplateGroups[i] : i \in TriedGroups} \cup Doubled
  /\ groups = <<>> <=> step \in {"board", "failed"}
  /\ step \notin {"board", "failed"} => Default \in ToSet(groups)
  /\ step = "columns" => groups = <<Default>>
  /\ existing \in {<<>>, <<Default>>}
  /\ groupsListed => existing = <<Default>> /\ step \in {"groups", "seeds", "done"}
  /\ \A k \in DOMAIN madeGroups :
       /\ \E i \in TriedGroups : madeGroups[k].title = TemplateGroups[i]
       /\ madeGroups[k].id \in ToSet(groups) \ Copy
       /\ madeGroups[k].id = Default => madeGroups[k].title = TemplateGroups[1]
       /\ titleOf[madeGroups[k].id] = madeGroups[k].title
       /\ groupIDs[madeGroups[k].title] = madeGroups[k].id
  /\ \A g \in ToSet(groups) \ {Default} : titleOf[g] \in ToSet(TemplateGroups)
  /\ previous = IF madeGroups = <<>> THEN NoGroup ELSE madeGroups[Len(madeGroups)].id

\* The groups of the result in the order of the board.
OrderInv ==
  \A i, j \in DOMAIN madeGroups : \A a, b \in DOMAIN groups :
    i < j /\ groups[a] = madeGroups[i].id /\ groups[b] = madeGroups[j].id => a < b

ItemsInv ==
  /\ madeColumns \subseteq columns
  /\ columns \subseteq ToSet(TemplateColumns) \cup Copy
  /\ step \notin {"seeds", "done"} => madeItems = <<>>
  /\ \A k \in DOMAIN madeItems :
       /\ madeItems[k].name \notin touched => madeItems[k] \in ToSet(items)
       /\ \A s \in DOMAIN Seeds : \A g \in DOMAIN madeGroups :
            /\ Seeds[s].name = madeItems[k].name
            /\ Seeds[s].group = madeGroups[g].title
            => madeItems[k].group = madeGroups[g].id

\* How many groups of the template have been tried.
GroupsTried == IF step = "groups" THEN at - 1 ELSE Len(TemplateGroups)

\* As long as there is no warning, the groups of the board are those of the
\* template as far as it goes, and what abandoned attempts have made.
CleanInv ==
  warnings = {} /\ step \in {"groups", "seeds", "done"} =>
    /\ Len(madeGroups) = GroupsTried
    /\ \A k \in 1..GroupsTried : madeGroups[k].title = TemplateGroups[k]
    /\ groupsListed /\ GroupsTried # 0 => madeGroups[1].id = Default
    /\ ToSet(groups) \subseteq
         {Default} \cup Copy \cup {madeGroups[k].id : k \in DOMAIN madeGroups}

\* What an attempt under way asks for can be carried out at any time.
LateInv ==
  \A c \in Copy :
    /\ late[c].of = "column" => late[c].at \in DOMAIN TemplateColumns
    /\ late[c].of = "group" =>
         /\ late[c].at \in DOMAIN TemplateGroups /\ step \in {"groups", "seeds", "done"}
         /\ late[c].after \in ToSet(groups) \cup {NoGroup}
    /\ late[c].of = "seed" => late[c].at \in DOMAIN Seeds /\ step \in {"seeds", "done"}

ProvisionInv ==
  /\ ContentsOK /\ ProvisionOK /\ Placed
  /\ ColumnsAccounted /\ GroupsAccounted /\ SeedsAccounted
  /\ GroupsInv /\ OrderInv /\ ItemsInv /\ CleanInv /\ LateInv

-----------------------------------------------------------------------------
\* Sequences.

\* Min of a set that has a least element.
LEMMA LeastIsMin ==
  ASSUME NEW S, S \subseteq Int, NEW x \in S, \A y \in S : x <= y
  PROVE  Min(S) = x
<1>1. \A z \in S : (\A y \in S : z <= y) => z = x
  OBVIOUS
<1>2. QED
  BY <1>1 DEF Min

LEMMA InsertAtIs ==
  ASSUME NEW S, NEW s \in Seq(S), NEW q \in 1..(Len(s) + 1), NEW e \in S
  PROVE  LET t == InsertAt(s, q, e) IN
           /\ t \in Seq(S) /\ Len(t) = Len(s) + 1 /\ DOMAIN t = 1..(Len(s) + 1)
           /\ \A i \in 1..(q - 1) : t[i] = s[i]
           /\ t[q] = e
           /\ \A i \in (q + 1)..(Len(s) + 1) : t[i] = s[i - 1]
<1> DEFINE a == SubSeq(s, 1, q - 1)
           b == SubSeq(s, q, Len(s))
           ae == a \o <<e>>
<1>1. /\ a \in Seq(S) /\ Len(a) = q - 1
      /\ \A i \in 1..(q - 1) : a[i] = s[i]
  BY SubSeqProperties
<1>2. /\ b \in Seq(S) /\ Len(b) = Len(s) - q + 1
      /\ \A i \in 1..(Len(s) - q + 1) : b[i] = s[q + i - 1]
  BY SubSeqProperties
<1>3. <<e>> \in Seq(S) /\ Len(<<e>>) = 1 /\ <<e>>[1] = e
  OBVIOUS
<1>4. InsertAt(s, q, e) = ae \o b
  BY DEF InsertAt
<1> HIDE DEF a, b
<1>5. /\ ae \in Seq(S) /\ Len(ae) = q
      /\ \A i \in 1..(q - 1) : ae[i] = s[i]
      /\ ae[q] = e
  BY <1>1, <1>3, ConcatProperties
<1> HIDE DEF ae
<1>6. /\ ae \o b \in Seq(S) /\ Len(ae \o b) = Len(s) + 1
      /\ \A i \in 1..(Len(s) + 1) : (ae \o b)[i] = IF i <= q THEN ae[i] ELSE b[i - q]
  <2>1. Len(ae) + Len(b) = Len(s) + 1
    BY <1>2, <1>5
  <2>2. /\ ae \o b \in Seq(S) /\ Len(ae \o b) = Len(ae) + Len(b)
        /\ \A i \in 1..(Len(ae) + Len(b)) :
             (ae \o b)[i] = IF i <= Len(ae) THEN ae[i] ELSE b[i - Len(ae)]
    BY <1>2, <1>5, ConcatProperties, Zenon
  <2>3. QED
    BY <1>5, <2>1, <2>2
<1>7. ASSUME NEW i \in (q + 1)..(Len(s) + 1) PROVE (ae \o b)[i] = s[i - 1]
  <2>1. (ae \o b)[i] = b[i - q] /\ i - q \in 1..(Len(s) - q + 1)
    BY <1>6
  <2>2. b[i - q] = s[q + (i - q) - 1]
    BY <1>2, <2>1
  <2>3. q + (i - q) - 1 = i - 1
    OBVIOUS
  <2>4. QED
    BY <2>1, <2>2, <2>3
<1>8. \A i \in 1..(q - 1) : (ae \o b)[i] = s[i]
  BY <1>5, <1>6
<1>9. (ae \o b)[q] = e
  BY <1>5, <1>6
<1>10. QED
  BY <1>4, <1>6, <1>7, <1>8, <1>9, LenProperties

LEMMA RemoveAtIs ==
  ASSUME NEW S, NEW s \in Seq(S), NEW p \in 1..Len(s)
  PROVE  LET t == RemoveAt(s, p) IN
           /\ t \in Seq(S) /\ Len(t) = Len(s) - 1 /\ DOMAIN t = 1..(Len(s) - 1)
           /\ \A i \in 1..(p - 1) : t[i] = s[i]
           /\ \A i \in p..(Len(s) - 1) : t[i] = s[i + 1]
<1> DEFINE a == SubSeq(s, 1, p - 1)
           b == SubSeq(s, p + 1, Len(s))
<1>1. /\ a \in Seq(S) /\ Len(a) = p - 1
      /\ \A i \in 1..(p - 1) : a[i] = s[i]
  BY SubSeqProperties
<1>2. /\ b \in Seq(S) /\ Len(b) = Len(s) - p
      /\ \A i \in 1..(Len(s) - p) : b[i] = s[p + i]
  BY SubSeqProperties
<1>3. RemoveAt(s, p) = a \o b
  BY DEF RemoveAt
<1> HIDE DEF a, b
<1>4. /\ a \o b \in Seq(S) /\ Len(a \o b) = Len(s) - 1
      /\ \A i \in 1..(Len(s) - 1) :
           (a \o b)[i] = IF i <= p - 1 THEN a[i] ELSE b[i - (p - 1)]
  BY <1>1, <1>2, ConcatProperties
<1>5. ASSUME NEW i \in p..(Len(s) - 1) PROVE (a \o b)[i] = s[i + 1]
  <2>1. (a \o b)[i] = b[i - (p - 1)]
    BY <1>4
  <2>2. b[i - (p - 1)] = s[p + (i - (p - 1))]
    BY <1>2
  <2>3. p + (i - (p - 1)) = i + 1
    OBVIOUS
  <2>4. QED
    BY <2>1, <2>2, <2>3
<1>6. \A i \in 1..(p - 1) : (a \o b)[i] = s[i]
  BY <1>1, <1>4
<1>7. QED
  BY <1>3, <1>4, <1>5, <1>6

-----------------------------------------------------------------------------
\* Provisioning: types and places.

LEMMA TemplateFacts ==
  /\ Len(TemplateColumns) \in Nat /\ DOMAIN TemplateColumns = 1..Len(TemplateColumns)
  /\ Len(TemplateGroups) \in Nat \ {0} /\ DOMAIN TemplateGroups = 1..Len(TemplateGroups)
  /\ Len(Seeds) \in Nat /\ DOMAIN Seeds = 1..Len(Seeds)
  /\ \A i \in DOMAIN TemplateColumns : TemplateColumns[i] \in Column
  /\ \A i \in DOMAIN TemplateGroups : TemplateGroups[i] \in Title
  /\ \A i \in DOMAIN Seeds : Seeds[i] \in Seed
  /\ \A i, j \in DOMAIN TemplateColumns : TemplateColumns[i] = TemplateColumns[j] => i = j
  /\ \A i, j \in DOMAIN TemplateGroups : TemplateGroups[i] = TemplateGroups[j] => i = j
  /\ \A i, j \in DOMAIN Seeds : Seeds[i].name = Seeds[j].name => i = j
BY TemplateIsValid DEF IsInjective

\* The place of a group on a board that has it once.
LEMMA PlaceOfIs ==
  ASSUME groups \in Seq(Group), IsInjective(groups), NEW p \in DOMAIN groups
  PROVE  PlaceOf(groups[p]) = p
<1> DEFINE I == {i \in 1..Len(groups) : groups[i] = groups[p]}
<1>1. I \subseteq Int /\ p \in I
  OBVIOUS
<1>2. \A y \in I : p <= y
  BY DEF IsInjective
<1>3. PlaceOf(groups[p]) = IF I # {} THEN Min(I) ELSE 0
  BY DEF PlaceOf, SelectInSeq
<1> HIDE DEF I
<1>4. QED
  BY <1>1, <1>2, <1>3, LeastIsMin

\* A new group below place q leaves the order of the others as it was.
LEMMA GroupAdded ==
  ASSUME groups \in Seq(Group), IsInjective(groups), NEW q \in 0..Len(groups),
         NEW e \in Group, e \notin ToSet(groups), NEW title, AddBelow(q, e, title)
  PROVE  /\ groups' \in Seq(Group) /\ IsInjective(groups')
         /\ ToSet(groups') = ToSet(groups) \cup {e}
         /\ \A a, b \in DOMAIN groups : \A c, d \in DOMAIN groups' :
              a < b /\ groups'[c] = groups[a] /\ groups'[d] = groups[b] => c < d
         /\ \A a \in DOMAIN groups : \A c, d \in DOMAIN groups' :
              a <= q /\ groups'[c] = groups[a] /\ groups'[d] = e => c < d
<1> DEFINE n == Len(groups)
           t == InsertAt(groups, q + 1, e)
<1>1. n \in Nat /\ DOMAIN groups = 1..n /\ q \in 0..n /\ groups' = t
  BY DEF AddBelow
<1>2. /\ t \in Seq(Group) /\ DOMAIN t = 1..(n + 1)
      /\ \A i \in 1..q : t[i] = groups[i]
      /\ t[q + 1] = e
      /\ \A i \in (q + 2)..(n + 1) : t[i] = groups[i - 1]
  <2> DEFINE m == q + 1
  <2>1. m \in 1..(Len(groups) + 1) /\ m - 1 = q /\ m + 1 = q + 2
    BY <1>1
  <2> HIDE DEF m
  <2> DEFINE u == InsertAt(groups, m, e)
  <2>2. /\ u \in Seq(Group) /\ Len(u) = Len(groups) + 1 /\ DOMAIN u = 1..(Len(groups) + 1)
        /\ \A i \in 1..(m - 1) : u[i] = groups[i]
        /\ u[m] = e
        /\ \A i \in (m + 1)..(Len(groups) + 1) : u[i] = groups[i - 1]
    <3>1. groups \in Seq(Group)
      OBVIOUS
    <3>2. m \in 1..(Len(groups) + 1)
      BY <2>1
    <3>3. e \in Group
      OBVIOUS
    <3>4. QED
      BY <3>1, <3>2, <3>3, InsertAtIs
  <2>3. QED
    BY <2>1, <2>2 DEF m
<1> HIDE DEF t, n
<1> DEFINE from(i) == IF i <= q THEN i ELSE i - 1
<1>3. \A i \in DOMAIN t : i # q + 1 =>
        from(i) \in DOMAIN groups /\ t[i] = groups[from(i)]
  BY <1>1, <1>2
<1>4. \A i \in DOMAIN groups : \E j \in DOMAIN t : t[j] = groups[i]
  <2>1. ASSUME NEW i \in DOMAIN groups PROVE \E j \in DOMAIN t : t[j] = groups[i]
    <3>1. CASE i <= q
      BY <1>1, <1>2, <3>1
    <3>2. CASE i > q
      <4>1. i + 1 \in DOMAIN t /\ i + 1 \in (q + 2)..(n + 1) /\ (i + 1) - 1 = i
        BY <1>1, <1>2, <3>2
      <4>2. t[i + 1] = groups[i]
        BY <1>2, <4>1
      <4>3. QED
        BY <4>1, <4>2
    <3>3. QED
      BY <1>1, <3>1, <3>2
  <2>2. QED
    BY <2>1
<1>5. q + 1 \in DOMAIN t
  BY <1>1, <1>2
<1>6. ToSet(t) = ToSet(groups) \cup {e}
  <2>1. ToSet(groups) \cup {e} \subseteq ToSet(t)
    BY <1>2, <1>4, <1>5 DEF ToSet
  <2>2. ToSet(t) \subseteq ToSet(groups) \cup {e}
    BY <1>2, <1>3 DEF ToSet
  <2>3. QED
    BY <2>1, <2>2
<1>7. \A i \in DOMAIN t : t[i] = e => i = q + 1
  BY <1>3 DEF ToSet
<1>8. \A c, d \in DOMAIN t : c # q + 1 /\ d # q + 1 =>
        /\ t[c] = t[d] => c = d
        /\ from(c) < from(d) => c < d
  BY <1>1, <1>2, <1>3 DEF IsInjective
<1>9. IsInjective(t)
  BY <1>2, <1>7, <1>8 DEF IsInjective
<1>10. ASSUME NEW a \in DOMAIN groups, NEW c \in DOMAIN t, t[c] = groups[a]
       PROVE  c # q + 1 /\ from(c) = a
  <2>1. c # q + 1
    BY <1>2, <1>10 DEF ToSet
  <2>2. QED
    BY <1>3, <1>10, <2>1 DEF IsInjective
<1>11. ASSUME NEW a \in DOMAIN groups, NEW b \in DOMAIN groups,
              NEW c \in DOMAIN t, NEW d \in DOMAIN t,
              a < b, t[c] = groups[a], t[d] = groups[b]
       PROVE  c < d
  BY <1>8, <1>10, <1>11
<1>12. ASSUME NEW a \in DOMAIN groups, NEW c \in DOMAIN t, NEW d \in DOMAIN t,
              a <= q, t[c] = groups[a], t[d] = e
       PROVE  c < d
  <2>1. d = q + 1 /\ c # q + 1 /\ from(c) = a
    BY <1>7, <1>10, <1>12
  <2>2. c \in 1..(n + 1)
    BY <1>2
  <2>3. QED
    BY <1>1, <1>12, <2>1, <2>2
<1>13. QED
  BY <1>1, <1>2, <1>6, <1>9, <1>11, <1>12

\* Where a request puts a new group.
LEMMA PlaceIs ==
  ASSUME groups \in Seq(Group), IsInjective(groups),
         NEW after \in ToSet(groups) \cup {NoGroup}
  PROVE  /\ (IF after # NoGroup THEN PlaceOf(after) ELSE Top) \in 0..Len(groups)
         /\ after # NoGroup =>
              PlaceOf(after) \in DOMAIN groups /\ groups[PlaceOf(after)] = after
<1>1. Len(groups) \in Nat /\ DOMAIN groups = 1..Len(groups)
  BY LenProperties
<1>2. ASSUME after # NoGroup
      PROVE  PlaceOf(after) \in DOMAIN groups /\ groups[PlaceOf(after)] = after
  <2>1. PICK p \in DOMAIN groups : groups[p] = after
    BY <1>2 DEF ToSet
  <2>2. PlaceOf(after) = p
    BY <2>1, PlaceOfIs
  <2>3. QED
    BY <2>1, <2>2
<1>3. QED
  BY <1>1, <1>2 DEF Top

\* What one template group asks of monday leaves on the board.
LEMMA GroupRequestIs ==
  ASSUME ContentsOK, ProvisionOK, Placed, GroupsInv, OrderInv, AtGroup, ThisGroup
  PROVE  /\ groups' \in Seq(Group) /\ titleOf' \in [Group -> Title \cup {NoTitle}]
         /\ IsInjective(groups')
         /\ ToSet(groups) \subseteq ToSet(groups')
         /\ ToSet(groups') \subseteq ToSet(groups) \cup {TemplateGroups[at]}
         /\ GroupID \in ToSet(groups') \ Copy /\ titleOf'[GroupID] = TemplateGroups[at]
         /\ GroupID = Default => at = 1
         /\ at = 1 /\ existing # <<>> => GroupID = Default
         /\ ToSet(groups') \subseteq ToSet(groups) \cup {GroupID}
         /\ \A g \in ToSet(groups') \ {Default} : titleOf'[g] \in {titleOf[g], TemplateGroups[at]}
         /\ \A g \in ToSet(groups') \ ToSet(groups) : titleOf'[g] = TemplateGroups[at]
         /\ \A k \in DOMAIN madeGroups :
              /\ madeGroups[k].id # GroupID
              /\ titleOf'[madeGroups[k].id] = titleOf[madeGroups[k].id]
         /\ \A a, b \in DOMAIN groups : \A c, d \in DOMAIN groups' :
              a < b /\ groups'[c] = groups[a] /\ groups'[d] = groups[b] => c < d
         /\ \A k \in DOMAIN madeGroups : \A c, d \in DOMAIN groups' :
              groups'[c] = madeGroups[k].id /\ groups'[d] = GroupID => c < d
<1> DEFINE title == TemplateGroups[at]
<1>1. title \in Title /\ title \in Group /\ title # Default /\ title \notin Copy
      /\ Default \notin Copy
  BY TemplateFacts, ContentNames DEF AtGroup, ProvisionOK, Group
<1>2. groups \in Seq(Group) /\ Len(groups) \in Nat /\ DOMAIN groups = 1..Len(groups)
      /\ titleOf \in [Group -> Title \cup {NoTitle}]
  BY DEF ContentsOK
<1>3. title \notin ToSet(groups)
  <2>1. TriedGroups = 1..(at - 1) /\ at \in 1..Len(TemplateGroups)
    BY DEF TriedGroups, AtGroup, ProvisionOK
  <2>2. \A i \in 1..(at - 1) : i \in DOMAIN TemplateGroups /\ i # at
    BY <2>1, TemplateFacts
  <2>3. \A i \in TriedGroups : TemplateGroups[i] # title
    BY <2>1, <2>2, TemplateFacts
  <2>4. QED
    BY <1>1, <2>3 DEF GroupsInv, Doubled
<1>4. ASSUME NEW k \in DOMAIN madeGroups
      PROVE  madeGroups[k].id \in ToSet(groups) /\ at # 1
  BY <1>4, TemplateFacts DEF GroupsInv, TriedGroups, AtGroup
<1>5. madeGroups \in Seq([title : Title, id : Group]) /\ DOMAIN madeGroups = 1..Len(madeGroups)
      /\ Len(madeGroups) \in Nat
  BY DEF ProvisionOK
<1>6. CASE at = 1 /\ existing # <<>>
  <2>1. existing[1] = Default /\ GroupID = Default /\ groups' = groups
        /\ titleOf' = [titleOf EXCEPT ![Default] = title]
    BY <1>6 DEF GroupsInv, ThisGroup, GroupRequest, GroupID, Rename
  <2>2. DOMAIN madeGroups = {}
    BY <1>4, <1>6
  <2>3. Default \in ToSet(groups)
    BY DEF GroupsInv, AtGroup
  <2>4. /\ titleOf' \in [Group -> Title \cup {NoTitle}]
        /\ titleOf'[GroupID] = title
        /\ \A g \in Group \ {Default} : titleOf'[g] = titleOf[g]
    BY <1>1, <1>2, <2>1 DEF Group
  <2>5. \A a, b \in DOMAIN groups : \A c, d \in DOMAIN groups' :
              a < b /\ groups'[c] = groups[a] /\ groups'[d] = groups[b] => c < d
    BY <2>1 DEF GroupsInv, IsInjective
  <2>6. ToSet(groups) \subseteq Group
    BY <1>2 DEF ToSet
  <2>7. QED
    BY <1>1, <1>2, <1>6, <2>1, <2>2, <2>3, <2>4, <2>5, <2>6 DEF GroupsInv
<1>7. CASE ~(at = 1 /\ existing # <<>>)
  <2> DEFINE q == IF previous # NoGroup THEN PlaceOf(previous) ELSE Top
             n == Len(madeGroups)
  <2>1. GroupID = title
    BY <1>7 DEF GroupID
  <2>2. AddBelow(q, title, title)
    BY <1>7 DEF ThisGroup, GroupRequest
  <2>3. IF DOMAIN madeGroups = {} THEN previous = NoGroup
        ELSE n \in DOMAIN madeGroups /\ previous = madeGroups[n].id
    <3>1. CASE madeGroups = <<>>
      BY <1>5, <3>1 DEF GroupsInv
    <3>2. CASE madeGroups # <<>>
      BY <1>5, <3>2 DEF GroupsInv
    <3>3. QED
      BY <3>1, <3>2
  <2>4. previous \in ToSet(groups) \cup {NoGroup} /\ NoGroup \notin ToSet(groups)
    <3>1. ToSet(groups) \subseteq Group
      BY <1>2 DEF ToSet
    <3>2. QED
      BY <1>4, <2>3, <3>1, ContentNames
  <2>5. /\ q \in 0..Len(groups)
        /\ previous # NoGroup => q \in DOMAIN groups /\ groups[q] = previous
    BY <1>2, <2>4, PlaceIs DEF GroupsInv
  <2>6. ASSUME NEW k \in DOMAIN madeGroups, NEW a \in DOMAIN groups,
               groups[a] = madeGroups[k].id
        PROVE  a <= q
    <3>1. n \in DOMAIN madeGroups /\ groups[q] = madeGroups[n].id /\ q \in DOMAIN groups
      BY <1>4, <2>3, <2>4, <2>5
    <3> HIDE DEF q
    <3>2. CASE k = n
      BY <1>2, <2>6, <3>1, <3>2 DEF GroupsInv, IsInjective
    <3>3. CASE k # n
      <4>1. k < n
        BY <1>5, <3>3
      <4>2. a < q
        BY <2>6, <3>1, <4>1 DEF OrderInv
      <4>3. QED
        BY <1>2, <3>1, <4>2
    <3>4. QED
      BY <3>2, <3>3
  <2> HIDE DEF q, n
  <2>7. /\ groups' \in Seq(Group) /\ IsInjective(groups')
        /\ ToSet(groups') = ToSet(groups) \cup {title}
        /\ \A a, b \in DOMAIN groups : \A c, d \in DOMAIN groups' :
             a < b /\ groups'[c] = groups[a] /\ groups'[d] = groups[b] => c < d
        /\ \A a \in DOMAIN groups : \A c, d \in DOMAIN groups' :
             a <= q /\ groups'[c] = groups[a] /\ groups'[d] = title => c < d
    BY <1>1, <1>2, <1>3, <2>2, <2>5, GroupAdded DEF GroupsInv
  <2>8. /\ titleOf' \in [Group -> Title \cup {NoTitle}] /\ titleOf'[title] = title
        /\ \A g \in Group \ {title} : titleOf'[g] = titleOf[g]
    BY <1>1, <1>2, <2>2 DEF AddBelow
  <2>9. \A g \in ToSet(groups) : g \in Group /\ g # title /\ titleOf'[g] = titleOf[g]
    <3>1. ToSet(groups) \subseteq Group
      BY <1>2 DEF ToSet
    <3>2. QED
      BY <1>3, <2>8, <3>1
  <2>10. \A k \in DOMAIN madeGroups :
           /\ madeGroups[k].id # GroupID
           /\ titleOf'[madeGroups[k].id] = titleOf[madeGroups[k].id]
    BY <1>4, <2>1, <2>9
  <2>11. ASSUME NEW k \in DOMAIN madeGroups, NEW c \in DOMAIN groups', NEW d \in DOMAIN groups',
                groups'[c] = madeGroups[k].id, groups'[d] = title
         PROVE  c < d
    <3>1. PICK a \in DOMAIN groups : groups[a] = madeGroups[k].id
      BY <1>4 DEF ToSet
    <3>2. QED
      BY <2>6, <2>7, <2>11, <3>1
  <2>12. QED
    BY <1>1, <1>7, <2>1, <2>7, <2>8, <2>9, <2>10, <2>11
<1>8. QED
  BY <1>6, <1>7

-----------------------------------------------------------------------------
\* Provisioning: each part of the invariant is kept by each step.

LEMMA WarnTypes ==
  ASSUME ProvisionOK, NEW kind \in {"column", "group", "seed", "seeds"}, Warn(kind)
  PROVE  warnings' \subseteq Warning
BY DEF ProvisionOK, Warn, Warning

\* What a warning adds.
LEMMA WarnAdds ==
  ASSUME NEW kind, Warn(kind)
  PROVE  /\ \A other, i : Warned(other, i)' <=>
              Warned(other, i) \/ (other = kind /\ i = at)
         /\ kind # "seeds" => (Skipped' <=> Skipped)
         /\ warnings' # {}
BY DEF Warn, Warned, Skipped

LEMMA PlantedTypes ==
  ASSUME ContentsOK, ProvisionOK, GroupsInv, AtSeed
  PROVE  SeedEntry \in Entry /\ Append(items, SeedEntry) \in Seq(Entry)
<1>1. Seeds[at] \in Seed
  BY TemplateFacts DEF AtSeed, ProvisionOK
<1>2. groups[1] \in Group
  BY DEF ContentsOK, GroupsInv, AtSeed
<1>3. PlaceFor(Seeds[at].group) \in Group
  BY <1>1, <1>2 DEF PlaceFor, ProvisionOK, Seed
<1>4. QED
  BY <1>1, <1>3 DEF SeedEntry, Entry, Seed, ContentsOK

LEMMA TypesKept ==
  ASSUME ProvisionInv, ProvisionNext
  PROVE  ContentsOK' /\ ProvisionOK' /\ Placed'
<1> USE DEF ProvisionInv
<1>1. /\ columns \subseteq Column /\ groups \in Seq(Group)
      /\ titleOf \in [Group -> Title \cup {NoTitle}]
      /\ items \in Seq(Entry) /\ touched \subseteq Name /\ late \in [Copy -> Attempt]
  BY DEF ContentsOK
<1>2. /\ step \in Steps /\ existing \in Seq(Group) /\ previous \in Group \cup {NoGroup}
      /\ groupIDs \in [Title -> Group \cup {NoGroup}]
      /\ known \subseteq Column /\ madeColumns \subseteq Column
      /\ madeGroups \in Seq([title : Title, id : Group])
      /\ madeItems \in Seq(Entry) /\ warnings \subseteq Warning
      /\ groupsListed \in BOOLEAN
      /\ at \in Nat \ {0}
  BY TemplateFacts DEF ProvisionOK
<1>3. CASE MakeBoard
  <2>1. <<Default>> \in Seq(Group)
    BY DEF Group
  <2>2. groups' \in Seq(Group) /\ step' \in Steps /\ at' = 1 /\ at = 1
    BY <1>1, <1>3, <2>1 DEF MakeBoard, Steps, Placed
  <2>3. step' \in {"columns", "failed"} /\ (step' = "columns" \/ at' = 1)
        /\ UNCHANGED <<titleOf, items, touched, late, existing, previous, groupIDs,
                       known, madeColumns, madeGroups, madeItems, warnings, groupsListed>>
    BY <1>3, <2>2 DEF MakeBoard
  <2>4. columns' \subseteq Column
    BY <1>1, <1>3 DEF MakeBoard
  <2>5. ContentsOK'
    BY <1>1, <2>2, <2>3, <2>4 DEF ContentsOK
  <2>6. ProvisionOK'
    <3>1. at' \in 1..(Len(TemplateColumns) + Len(TemplateGroups) + Len(Seeds) + 1)
      BY <2>2, TemplateFacts
    <3>2. existing' \in Seq(Group) /\ previous' \in Group \cup {NoGroup}
          /\ groupIDs' \in [Title -> Group \cup {NoGroup}]
          /\ known' \subseteq Column /\ madeColumns' \subseteq Column
      BY <1>2, <2>3
    <3>3. madeGroups' \in Seq([title : Title, id : Group])
          /\ madeItems' \in Seq(Entry) /\ warnings' \subseteq Warning
          /\ groupsListed' \in BOOLEAN
      BY <1>2, <2>3
    <3>4. QED
      BY <2>2, <3>1, <3>2, <3>3 DEF ProvisionOK
  <2>7. at' <= Len(TemplateColumns) + 1
    BY <2>2, TemplateFacts
  <2>8. Placed'
    <3>1. step' \notin {"groups", "seeds", "done"} /\ at' = 1
      BY <2>2, <2>3
    <3>2. QED
      BY <2>7, <3>1 DEF Placed
  <2>9. QED
    BY <2>5, <2>6, <2>8
<1>4. CASE MakeColumn \/ ColumnFails
  <2>1. step' = step /\ step = "columns" /\ at' = at + 1 /\ at <= Len(TemplateColumns)
    BY <1>4 DEF MakeColumn, ColumnFails, AtColumn
  <2>2. TemplateColumns[at] \in Column
    <3>1. at \in Nat \ {0}
      BY <1>2
    <3>2. at \in DOMAIN TemplateColumns
      BY <2>1, <3>1, TemplateFacts
    <3>3. QED
      BY <3>2, TemplateFacts
  <2>3. columns' \subseteq Column /\ madeColumns' \subseteq Column
    BY <1>1, <1>2, <1>4, <2>2 DEF MakeColumn, ColumnFails
  <2>4. warnings' \subseteq Warning
    BY <1>2, <1>4, WarnTypes DEF MakeColumn, ColumnFails
  <2>5. UNCHANGED <<groups, titleOf, items, touched, late, existing, previous, groupIDs,
                    known, madeGroups, madeItems, groupsListed>>
    BY <1>4 DEF MakeColumn, ColumnFails
  <2>6. at' \in 1..(Len(TemplateColumns) + 1)
    BY <1>2, <2>1, TemplateFacts
  <2>7. ContentsOK'
    BY <1>1, <2>3, <2>5 DEF ContentsOK
  <2>8. ProvisionOK'
    BY <1>2, <2>1, <2>3, <2>4, <2>5, <2>6, TemplateFacts DEF ProvisionOK
  <2>9. QED
    BY <2>1, <2>6, <2>7, <2>8, TemplateFacts DEF Placed
<1>5. CASE ListGroups
  <2>1. existing' \in {<<>>, groups} /\ groupsListed' \in BOOLEAN
        /\ at' = 1 /\ step' = "groups"
    BY <1>2, <1>5 DEF ListGroups
  <2>2. existing' \in Seq(Group)
    BY <1>1, <2>1, EmptySeq
  <2>3. QED
    BY <1>1, <1>2, <1>5, <2>1, <2>2, TemplateFacts
       DEF ListGroups, contents, ContentsOK, ProvisionOK, Placed, Steps
<1>6. CASE MakeGroup
  <2>1. /\ groups' \in Seq(Group) /\ titleOf' \in [Group -> Title \cup {NoTitle}]
        /\ TemplateGroups[at] \in Title
    <3>1. groups' \in Seq(Group) /\ titleOf' \in [Group -> Title \cup {NoTitle}]
      BY <1>6, GroupRequestIs DEF MakeGroup
    <3>2. at \in DOMAIN TemplateGroups
      <4>1. AtGroup
        BY <1>6 DEF MakeGroup
      <4>2. QED
        BY <1>2, <4>1, TemplateFacts DEF AtGroup
    <3>3. QED
      BY <3>1, <3>2, TemplateFacts
  <2>2. GroupID \in Group
    BY <1>2, <1>6, <2>1 DEF GroupID, Group, GroupsInv
  <2>3. /\ previous' \in Group \cup {NoGroup}
        /\ groupIDs' \in [Title -> Group \cup {NoGroup}]
        /\ madeGroups' \in Seq([title : Title, id : Group])
    BY <1>2, <1>6, <2>1, <2>2 DEF MakeGroup
  <2>4. at' \in 1..(Len(TemplateGroups) + 1) /\ step' = step /\ step = "groups"
    BY <1>2, <1>6, TemplateFacts DEF MakeGroup, AtGroup
  <2>5. QED
    BY <1>1, <1>2, <1>6, <2>1, <2>3, <2>4, TemplateFacts
       DEF MakeGroup, ContentsOK, ProvisionOK, Placed
<1>7. CASE GroupFails
  <2>1. /\ groups' \in Seq(Group) /\ titleOf' \in [Group -> Title \cup {NoTitle}]
    BY <1>1, <1>7, GroupRequestIs DEF GroupFails
  <2>2. warnings' \subseteq Warning
    BY <1>7, WarnTypes DEF GroupFails
  <2>3. at' \in 1..(Len(TemplateGroups) + 1) /\ step' = step /\ step = "groups"
    BY <1>2, <1>7, TemplateFacts DEF GroupFails, AtGroup
  <2>4. QED
    BY <1>1, <1>2, <1>7, <2>1, <2>2, <2>3, TemplateFacts
       DEF GroupFails, ContentsOK, ProvisionOK, Placed
<1>8. CASE ListSeedColumns
  <2>1. warnings' \subseteq Warning
    BY <1>2, <1>8, WarnTypes DEF ListSeedColumns
  <2>2. known' \subseteq Column /\ step' \in {"seeds", "done"} /\ at' = 1
    BY <1>1, <1>2, <1>8 DEF ListSeedColumns
  <2>3. QED
    BY <1>1, <1>2, <1>8, <2>1, <2>2, TemplateFacts
       DEF ListSeedColumns, contents, ContentsOK, ProvisionOK, Placed, Steps
<1>9. CASE PlantSeed \/ SeedFails
  <2>1. items' \in Seq(Entry) /\ madeItems' \in Seq(Entry)
    <3>1. SeedEntry \in Entry /\ Append(items, SeedEntry) \in Seq(Entry)
      BY <1>9, PlantedTypes DEF PlantSeed, SeedFails
    <3>2. Append(madeItems, SeedEntry) \in Seq(Entry)
      BY <1>2, <3>1
    <3>3. /\ items' \in {items, Append(items, SeedEntry)}
          /\ madeItems' \in {madeItems, Append(madeItems, SeedEntry)}
      BY <1>9 DEF PlantSeed, SeedFails
    <3>4. QED
      BY <1>1, <1>2, <3>1, <3>2, <3>3
  <2>2. warnings' \subseteq Warning
    BY <1>2, <1>9, WarnTypes DEF PlantSeed, SeedFails
  <2>3. at' \in 1..(Len(Seeds) + 1) /\ step' = step /\ step = "seeds"
    BY <1>2, <1>9, TemplateFacts DEF PlantSeed, SeedFails, AtSeed
  <2>4. UNCHANGED <<columns, groups, titleOf, touched, late, existing, previous, groupIDs,
                    known, madeColumns, madeGroups, groupsListed>>
    BY <1>9 DEF PlantSeed, SeedFails
  <2>5. ContentsOK'
    BY <1>1, <2>1, <2>4 DEF ContentsOK
  <2>6. ProvisionOK'
    BY <1>2, <2>1, <2>2, <2>3, <2>4, TemplateFacts DEF ProvisionOK
  <2>7. QED
    BY <2>3, <2>5, <2>6, TemplateFacts DEF Placed
<1>10. CASE Finish
  BY <1>1, <1>2, <1>10, TemplateFacts
     DEF Finish, contents, ContentsOK, ProvisionOK, Placed, Steps
<1>11. QED
  BY <1>3, <1>4, <1>5, <1>6, <1>7, <1>8, <1>9, <1>10 DEF ProvisionNext

\* Which positions a step puts behind it.
LEMMA ColumnsTried ==
  ASSUME ProvisionInv, ProvisionNext
  PROVE  IF MakeColumn \/ ColumnFails
         THEN /\ TriedColumns' = TriedColumns \cup {at}
              /\ at \in DOMAIN TemplateColumns \ TriedColumns
         ELSE TriedColumns' = TriedColumns
<1>1. at \in Nat \ {0} /\ Placed
  BY TemplateFacts DEF ProvisionInv, ProvisionOK
<1>2. CASE MakeColumn \/ ColumnFails
  <2>1. step = "columns" /\ step' = "columns" /\ at' = at + 1 /\ at <= Len(TemplateColumns)
    BY <1>2 DEF MakeColumn, ColumnFails, AtColumn
  <2>2. TriedColumns = 1..(at - 1) /\ TriedColumns' = 1..at
    BY <1>1, <2>1 DEF TriedColumns
  <2>3. QED
    BY <1>1, <1>2, <2>1, <2>2, TemplateFacts
<1>3. CASE MakeBoard
  BY <1>1, <1>3, <1>2 DEF MakeBoard, Placed, TriedColumns
<1>4. CASE ListGroups
  <2>1. TriedColumns = 1..(at - 1) /\ at = Len(TemplateColumns) + 1
    BY <1>1, <1>4, TemplateFacts DEF ListGroups, Placed, TriedColumns
  <2>2. QED
    BY <1>2, <1>4, <2>1, TemplateFacts DEF ListGroups, TriedColumns
<1>5. CASE MakeGroup \/ GroupFails \/ ListSeedColumns \/ PlantSeed \/ SeedFails \/ Finish
  BY <1>2, <1>5 DEF MakeGroup, GroupFails, AtGroup, ListSeedColumns, PlantSeed, SeedFails,
                    AtSeed, Finish, TriedColumns
<1>6. QED
  BY <1>2, <1>3, <1>4, <1>5 DEF ProvisionNext

LEMMA GroupsTriedMove ==
  ASSUME ProvisionInv, ProvisionNext
  PROVE  IF MakeGroup \/ GroupFails
         THEN /\ TriedGroups' = TriedGroups \cup {at}
              /\ at \in DOMAIN TemplateGroups \ TriedGroups
         ELSE TriedGroups' = TriedGroups
<1>1. at \in Nat \ {0} /\ Placed
  BY TemplateFacts DEF ProvisionInv, ProvisionOK
<1>2. CASE MakeGroup \/ GroupFails
  <2>1. step = "groups" /\ step' = "groups" /\ at' = at + 1 /\ at <= Len(TemplateGroups)
    BY <1>2 DEF MakeGroup, GroupFails, AtGroup
  <2>2. TriedGroups = 1..(at - 1) /\ TriedGroups' = 1..at
    BY <1>1, <2>1 DEF TriedGroups
  <2>3. QED
    BY <1>1, <1>2, <2>1, <2>2, TemplateFacts
<1>3. CASE MakeBoard \/ MakeColumn \/ ColumnFails
  BY <1>2, <1>3 DEF MakeBoard, MakeColumn, ColumnFails, AtColumn, TriedGroups
<1>4. CASE ListGroups
  BY <1>2, <1>4 DEF ListGroups, TriedGroups
<1>5. CASE ListSeedColumns
  <2>1. TriedGroups = 1..(at - 1) /\ at = Len(TemplateGroups) + 1
    BY <1>1, <1>5, TemplateFacts DEF ListSeedColumns, Placed, TriedGroups
  <2>2. QED
    BY <1>2, <1>5, <2>1, TemplateFacts DEF ListSeedColumns, TriedGroups
<1>6. CASE PlantSeed \/ SeedFails \/ Finish
  BY <1>2, <1>6 DEF PlantSeed, SeedFails, AtSeed, Finish, TriedGroups
<1>7. QED
  BY <1>2, <1>3, <1>4, <1>5, <1>6 DEF ProvisionNext

LEMMA SeedsTried ==
  ASSUME ProvisionInv, ProvisionNext
  PROVE  IF PlantSeed \/ SeedFails
         THEN /\ TriedSeeds' = TriedSeeds \cup {at}
              /\ at \in DOMAIN Seeds \ TriedSeeds
         ELSE TriedSeeds' = TriedSeeds \/ Skipped'
<1>1. at \in Nat \ {0} /\ Placed
  BY TemplateFacts DEF ProvisionInv, ProvisionOK
<1>2. CASE PlantSeed \/ SeedFails
  <2>1. step = "seeds" /\ step' = "seeds" /\ at' = at + 1 /\ at <= Len(Seeds)
    BY <1>2 DEF PlantSeed, SeedFails, AtSeed
  <2>2. TriedSeeds = 1..(at - 1) /\ TriedSeeds' = 1..at
    BY <1>1, <2>1 DEF TriedSeeds
  <2>3. QED
    BY <1>1, <1>2, <2>1, <2>2, TemplateFacts
<1>3. CASE MakeBoard \/ MakeColumn \/ ColumnFails \/ ListGroups \/ MakeGroup \/ GroupFails
  BY <1>2, <1>3 DEF MakeBoard, MakeColumn, ColumnFails, AtColumn, ListGroups, MakeGroup,
                    GroupFails, AtGroup, TriedSeeds
<1>4. CASE ListSeedColumns
  <2>1. TriedSeeds = {}
    BY <1>4 DEF ListSeedColumns, TriedSeeds
  <2>2. CASE step' = "seeds"
    BY <1>2, <1>4, <2>1, <2>2 DEF ListSeedColumns, TriedSeeds
  <2>3. CASE step' = "done" /\ Seeds = <<>>
    BY <1>2, <1>4, <2>1, <2>3 DEF ListSeedColumns, TriedSeeds
  <2>4. CASE step' = "done" /\ Seeds # <<>>
    <3> DEFINE w == [of |-> "seeds", at |-> at]
    <3>1. w \in warnings' /\ w.of = "seeds"
      BY <1>4, <2>4 DEF ListSeedColumns, Warn
    <3>2. Skipped'
      BY <3>1 DEF Skipped
    <3>3. ~PlantSeed /\ ~SeedFails
      BY <1>4 DEF ListSeedColumns, PlantSeed, SeedFails, AtSeed
    <3>4. QED
      BY <3>2, <3>3
  <2>5. QED
    BY <1>4, <2>2, <2>3, <2>4 DEF ListSeedColumns
<1>5. CASE Finish
  <2>1. TriedSeeds = 1..(at - 1) /\ at = Len(Seeds) + 1
    BY <1>1, <1>5, TemplateFacts DEF Finish, Placed, TriedSeeds
  <2>2. QED
    BY <1>2, <1>5, <2>1, TemplateFacts DEF Finish, TriedSeeds
<1>6. QED
  BY <1>2, <1>3, <1>4, <1>5 DEF ProvisionNext

LEMMA ColumnsAccountedKept ==
  ASSUME ProvisionInv, ProvisionNext
  PROVE  ColumnsAccounted'
<1>1. ColumnsAccounted
  BY DEF ProvisionInv
<1>2. CASE MakeColumn
  <2>1. /\ TriedColumns' = TriedColumns \cup {at}
        /\ at \in DOMAIN TemplateColumns \ TriedColumns
        /\ madeColumns' = madeColumns \cup {TemplateColumns[at]}
        /\ \A i : Warned("column", i)' <=> Warned("column", i)
    BY <1>2, ColumnsTried DEF MakeColumn, Warned
  <2>2. QED
    BY <1>1, <2>1, TemplateFacts DEF ColumnsAccounted
<1>3. CASE ColumnFails
  <2>1. /\ TriedColumns' = TriedColumns \cup {at}
        /\ at \in DOMAIN TemplateColumns \ TriedColumns
        /\ madeColumns' = madeColumns
    BY <1>3, ColumnsTried DEF ColumnFails
  <2>2. \A i : Warned("column", i)' <=> Warned("column", i) \/ i = at
    BY <1>3, WarnAdds DEF ColumnFails
  <2>3. QED
    BY <1>1, <2>1, <2>2 DEF ColumnsAccounted
<1>4. CASE ~MakeColumn /\ ~ColumnFails
  <2>1. TriedColumns' = TriedColumns
    BY <1>4, ColumnsTried
  <2>2. madeColumns' = madeColumns
    BY <1>4 DEF ProvisionNext, MakeBoard, ListGroups, MakeGroup, GroupFails,
                ListSeedColumns, PlantSeed, SeedFails, Finish
  <2>3. \A i : Warned("column", i)' <=> Warned("column", i)
    <3>1. CASE UNCHANGED warnings
      BY <3>1 DEF Warned
    <3>2. CASE Warn("group") \/ Warn("seed") \/ Warn("seeds")
      BY <3>2, WarnAdds
    <3>3. QED
      BY <1>4, <3>1, <3>2 DEF ProvisionNext, MakeBoard, ListGroups, MakeGroup, GroupFails,
                              ListSeedColumns, PlantSeed, SeedFails, Finish
  <2>4. QED
    BY <1>1, <2>1, <2>2, <2>3 DEF ColumnsAccounted
<1>5. QED
  BY <1>2, <1>3, <1>4

LEMMA GroupsAccountedKept ==
  ASSUME ProvisionInv, ProvisionNext
  PROVE  GroupsAccounted'
<1>1. GroupsAccounted /\ DOMAIN madeGroups = 1..Len(madeGroups) /\ Len(madeGroups) \in Nat
      /\ madeGroups \in Seq([title : Title, id : Group])
  BY DEF ProvisionInv, ProvisionOK
<1>2. CASE MakeGroup
  <2>1. /\ TriedGroups' = TriedGroups \cup {at}
        /\ at \in DOMAIN TemplateGroups \ TriedGroups
    BY <1>2, GroupsTriedMove
  <2>2. \A i : Warned("group", i)' <=> Warned("group", i)
    BY <1>2 DEF MakeGroup, Warned
  <2>3. madeGroups' = Append(madeGroups, [title |-> TemplateGroups[at], id |-> GroupID])
    BY <1>2 DEF MakeGroup
  <2>4. \A i \in DOMAIN TemplateGroups : GroupMade(i)' <=> GroupMade(i) \/ i = at
    <3> DEFINE made == [title |-> TemplateGroups[at], id |-> GroupID]
    <3>1. /\ DOMAIN madeGroups' = 1..(Len(madeGroups) + 1)
          /\ \A k \in DOMAIN madeGroups : madeGroups'[k] = madeGroups[k]
          /\ madeGroups'[Len(madeGroups) + 1] = made
      BY <1>1, <2>3
    <3>2. made.title = TemplateGroups[at]
      OBVIOUS
    <3> HIDE DEF made
    <3>3. \A i \in DOMAIN TemplateGroups : TemplateGroups[i] = TemplateGroups[at] <=> i = at
      BY <2>1, TemplateFacts
    <3>4. QED
      BY <1>1, <3>1, <3>2, <3>3 DEF GroupMade
  <2>5. QED
    BY <1>1, <2>1, <2>2, <2>4 DEF GroupsAccounted
<1>3. CASE GroupFails
  <2>1. /\ TriedGroups' = TriedGroups \cup {at}
        /\ at \in DOMAIN TemplateGroups \ TriedGroups
    BY <1>3, GroupsTriedMove
  <2>2. \A i : Warned("group", i)' <=> Warned("group", i) \/ i = at
    BY <1>3, WarnAdds DEF GroupFails
  <2>3. \A i : GroupMade(i)' <=> GroupMade(i)
    BY <1>3 DEF GroupFails, GroupMade
  <2>4. QED
    BY <1>1, <2>1, <2>2, <2>3 DEF GroupsAccounted
<1>4. CASE ~MakeGroup /\ ~GroupFails
  <2>1. TriedGroups' = TriedGroups
    BY <1>4, GroupsTriedMove
  <2>2. madeGroups' = madeGroups
    BY <1>4 DEF ProvisionNext, MakeBoard, MakeColumn, ColumnFails, ListGroups,
                ListSeedColumns, PlantSeed, SeedFails, Finish
  <2>3. \A i : Warned("group", i)' <=> Warned("group", i)
    <3>1. CASE UNCHANGED warnings
      BY <3>1 DEF Warned
    <3>2. CASE Warn("column") \/ Warn("seed") \/ Warn("seeds")
      BY <3>2, WarnAdds
    <3>3. QED
      BY <1>4, <3>1, <3>2 DEF ProvisionNext, MakeBoard, MakeColumn, ColumnFails, ListGroups,
                              ListSeedColumns, PlantSeed, SeedFails, Finish
  <2>4. \A i : GroupMade(i)' <=> GroupMade(i)
    BY <2>2 DEF GroupMade
  <2>5. QED
    BY <1>1, <2>1, <2>3, <2>4 DEF GroupsAccounted
<1>5. QED
  BY <1>2, <1>3, <1>4

LEMMA SeedsAccountedKept ==
  ASSUME ProvisionInv, ProvisionNext
  PROVE  SeedsAccounted'
<1>1. SeedsAccounted /\ madeItems \in Seq(Entry)
      /\ DOMAIN madeItems = 1..Len(madeItems) /\ Len(madeItems) \in Nat
  BY DEF ProvisionInv, ProvisionOK
<1>2. CASE PlantSeed
  <2>1. /\ TriedSeeds' = TriedSeeds \cup {at}
        /\ at \in DOMAIN Seeds \ TriedSeeds
    BY <1>2, SeedsTried
  <2>2. /\ \A i : Warned("seed", i)' <=> Warned("seed", i)
        /\ Skipped' <=> Skipped
        /\ ~Skipped /\ step' = step
    BY <1>1, <1>2 DEF PlantSeed, AtSeed, Warned, Skipped, SeedsAccounted
  <2>3. \A i \in DOMAIN Seeds : SeedMade(i)' <=> SeedMade(i) \/ i = at
    <3>1. madeItems' = Append(madeItems, SeedEntry) /\ SeedEntry.name = Seeds[at].name
      BY <1>2 DEF PlantSeed, SeedEntry
    <3>2. /\ DOMAIN madeItems' = 1..(Len(madeItems) + 1)
          /\ \A k \in DOMAIN madeItems : madeItems'[k] = madeItems[k]
          /\ madeItems'[Len(madeItems) + 1] = SeedEntry
      BY <1>1, <3>1
    <3>3. Names(madeItems') = Names(madeItems) \cup {Seeds[at].name}
      BY <1>1, <3>1, <3>2 DEF Names
    <3>4. \A i \in DOMAIN Seeds : Seeds[i].name = Seeds[at].name <=> i = at
      BY <2>1, TemplateFacts
    <3>5. QED
      BY <3>3, <3>4 DEF SeedMade
  <2>4. QED
    BY <1>1, <2>1, <2>2, <2>3 DEF SeedsAccounted
<1>3. CASE SeedFails
  <2>1. /\ TriedSeeds' = TriedSeeds \cup {at}
        /\ at \in DOMAIN Seeds \ TriedSeeds
    BY <1>3, SeedsTried
  <2>2. /\ \A i : Warned("seed", i)' <=> Warned("seed", i) \/ i = at
        /\ Skipped' <=> Skipped
    BY <1>3, WarnAdds DEF SeedFails
  <2>3. ~Skipped /\ \A i : SeedMade(i)' <=> SeedMade(i)
    BY <1>1, <1>3 DEF SeedFails, AtSeed, SeedMade, SeedsAccounted
  <2>4. QED
    BY <1>1, <2>1, <2>2, <2>3 DEF SeedsAccounted
<1>4. CASE ListSeedColumns
  <2>1. \A i : (SeedMade(i)' <=> SeedMade(i)) /\ (Warned("seed", i)' <=> Warned("seed", i))
    <3>1. \A i : SeedMade(i)' <=> SeedMade(i)
      BY <1>4 DEF ListSeedColumns, SeedMade
    <3>2. CASE UNCHANGED warnings
      BY <3>1, <3>2 DEF Warned
    <3>3. CASE Warn("seeds")
      BY <3>1, <3>3, WarnAdds
    <3>4. QED
      BY <1>4, <3>2, <3>3 DEF ListSeedColumns
  <2>2. ~Skipped /\ TriedSeeds = {}
    BY <1>1, <1>4 DEF ListSeedColumns, SeedsAccounted, TriedSeeds
  <2>3. TriedSeeds' = TriedSeeds \/ Skipped'
    BY <1>4, SeedsTried DEF ListSeedColumns, PlantSeed, SeedFails, AtSeed
  <2>4. Skipped' => step' = "done"
    BY <1>4, <2>2 DEF ListSeedColumns, Skipped
  <2>5. QED
    BY <1>1, <2>1, <2>2, <2>3, <2>4 DEF SeedsAccounted
<1>5. CASE ~PlantSeed /\ ~SeedFails /\ ~ListSeedColumns
  <2>1. madeItems' = madeItems
    BY <1>5 DEF ProvisionNext, MakeBoard, MakeColumn, ColumnFails, ListGroups,
                MakeGroup, GroupFails, Finish
  <2>2. /\ \A i : Warned("seed", i)' <=> Warned("seed", i)
        /\ Skipped' <=> Skipped
    <3>1. CASE UNCHANGED warnings
      BY <3>1 DEF Warned, Skipped
    <3>2. CASE Warn("column") \/ Warn("group")
      BY <3>2, WarnAdds
    <3>3. QED
      BY <1>5, <3>1, <3>2 DEF ProvisionNext, MakeBoard, MakeColumn, ColumnFails, ListGroups,
                              MakeGroup, GroupFails, Finish
  <2>3. ~Skipped
    BY <1>1, <1>5 DEF ProvisionNext, MakeBoard, MakeColumn, ColumnFails, AtColumn, ListGroups,
                      MakeGroup, GroupFails, AtGroup, Finish, SeedsAccounted
  <2>4. TriedSeeds' = TriedSeeds
    BY <1>5, <2>2, <2>3, SeedsTried
  <2>5. \A i : SeedMade(i)' <=> SeedMade(i)
    BY <2>1 DEF SeedMade
  <2>6. QED
    BY <1>1, <2>2, <2>3, <2>4, <2>5 DEF SeedsAccounted
<1>6. QED
  BY <1>2, <1>3, <1>4, <1>5

\* A made group stands for a title that was tried before.
LEMMA MadeTitles ==
  ASSUME GroupsInv, NEW k \in DOMAIN madeGroups, NEW i \in DOMAIN TemplateGroups \ TriedGroups,
         TriedGroups \subseteq DOMAIN TemplateGroups
  PROVE  madeGroups[k].title # TemplateGroups[i]
BY TemplateFacts DEF GroupsInv

LEMMA TriedInRange ==
  ASSUME ProvisionInv
  PROVE  /\ TriedColumns \subseteq DOMAIN TemplateColumns
         /\ TriedGroups \subseteq DOMAIN TemplateGroups
         /\ TriedSeeds \subseteq DOMAIN Seeds
BY TemplateFacts DEF ProvisionInv, ProvisionOK, Placed, TriedColumns, TriedGroups, TriedSeeds

\* The groups of the board may grow by what was tried without being made.
LEMMA GroupsGrow ==
  ASSUME ProvisionInv, ProvisionNext, GroupFails
  PROVE  GroupsInv'
<1>1. GroupsInv /\ groups \in Seq(Group)
  BY DEF ProvisionInv, ContentsOK
<1>2. /\ TriedGroups' = TriedGroups \cup {at}
      /\ at \in DOMAIN TemplateGroups \ TriedGroups
      /\ step' = step /\ step = "groups" /\ UNCHANGED <<existing, groupsListed, madeGroups,
                                                        groupIDs, previous>>
      /\ Doubled' = Doubled
  BY GroupsTriedMove DEF GroupFails, AtGroup, Doubled
<1>t. TemplateGroups[at] \in ToSet(TemplateGroups)
  BY <1>2 DEF ToSet
<1>3. /\ groups' \in Seq(Group) /\ IsInjective(groups')
      /\ ToSet(groups) \subseteq ToSet(groups')
      /\ ToSet(groups') \subseteq ToSet(groups) \cup {TemplateGroups[at]}
      /\ \A k \in DOMAIN madeGroups : titleOf'[madeGroups[k].id] = titleOf[madeGroups[k].id]
      /\ \A g \in ToSet(groups') \ {Default} : titleOf'[g] \in ToSet(TemplateGroups)
  <2>1. CASE ThisGroup
    <3>1. /\ ToSet(groups') \subseteq ToSet(groups) \cup {TemplateGroups[at]}
          /\ \A g \in ToSet(groups') \ {Default} :
               titleOf'[g] \in {titleOf[g], TemplateGroups[at]}
          /\ \A g \in ToSet(groups') \ ToSet(groups) : titleOf'[g] = TemplateGroups[at]
      BY <2>1, GroupRequestIs DEF ProvisionInv, GroupFails
    <3>2. \A g \in ToSet(groups') \ {Default} : titleOf'[g] \in ToSet(TemplateGroups)
      BY <1>1, <1>t, <3>1 DEF GroupsInv
    <3>3. QED
      BY <2>1, <3>2, GroupRequestIs DEF ProvisionInv, GroupFails
  <2>2. CASE UNCHANGED <<groups, titleOf>>
    BY <1>1, <2>2 DEF GroupsInv
  <2>3. QED
    BY <2>1, <2>2 DEF GroupFails
<1>4. groups' # <<>>
  <2>1. groups # <<>>
    BY <1>1, <1>2 DEF GroupsInv
  <2>2. groups[1] \in ToSet(groups)
    BY <1>1, <2>1 DEF ToSet
  <2>3. groups[1] \in ToSet(groups')
    BY <1>3, <2>2
  <2>4. QED
    BY <2>3 DEF ToSet
<1>d. Default \in ToSet(groups')
  BY <1>1, <1>2, <1>3 DEF GroupsInv
<1>5. ToSet(groups') \subseteq {Default} \cup {TemplateGroups[i] : i \in TriedGroups'} \cup Doubled'
  BY <1>1, <1>2, <1>3 DEF GroupsInv
<1>6. ASSUME NEW k \in DOMAIN madeGroups'
      PROVE  /\ \E i \in TriedGroups' : madeGroups'[k].title = TemplateGroups[i]
             /\ madeGroups'[k].id \in ToSet(groups') \ Copy
             /\ madeGroups'[k].id = Default => madeGroups'[k].title = TemplateGroups[1]
             /\ titleOf'[madeGroups'[k].id] = madeGroups'[k].title
             /\ groupIDs'[madeGroups'[k].title] = madeGroups'[k].id
  BY <1>1, <1>2, <1>3 DEF GroupsInv
<1>7. QED
  BY <1>1, <1>2, <1>3, <1>4, <1>5, <1>6, <1>d DEF GroupsInv

LEMMA GroupsMade ==
  ASSUME ProvisionInv, ProvisionNext, MakeGroup
  PROVE  GroupsInv'
<1>1. /\ GroupsInv /\ groups \in Seq(Group) /\ groupIDs \in [Title -> Group \cup {NoGroup}]
      /\ madeGroups \in Seq([title : Title, id : Group])
      /\ Len(madeGroups) \in Nat /\ DOMAIN madeGroups = 1..Len(madeGroups)
  BY DEF ProvisionInv, ContentsOK, ProvisionOK
<1>2. /\ TriedGroups' = TriedGroups \cup {at}
      /\ at \in DOMAIN TemplateGroups \ TriedGroups
      /\ step' = step /\ step = "groups" /\ UNCHANGED <<existing, groupsListed>>
      /\ Doubled' = Doubled
  BY GroupsTriedMove DEF MakeGroup, AtGroup, Doubled
<1>t. TemplateGroups[at] \in ToSet(TemplateGroups)
  BY <1>2 DEF ToSet
<1>3. /\ groups' \in Seq(Group) /\ IsInjective(groups')
      /\ ToSet(groups) \subseteq ToSet(groups')
      /\ ToSet(groups') \subseteq ToSet(groups) \cup {TemplateGroups[at]}
      /\ GroupID \in ToSet(groups') \ Copy /\ titleOf'[GroupID] = TemplateGroups[at]
      /\ GroupID = Default => at = 1
      /\ \A k \in DOMAIN madeGroups : titleOf'[madeGroups[k].id] = titleOf[madeGroups[k].id]
      /\ \A g \in ToSet(groups') \ {Default} : titleOf'[g] \in {titleOf[g], TemplateGroups[at]}
      /\ \A g \in ToSet(groups') \ ToSet(groups) : titleOf'[g] = TemplateGroups[at]
  BY GroupRequestIs DEF ProvisionInv, MakeGroup
<1> DEFINE made == [title |-> TemplateGroups[at], id |-> GroupID]
<1>4. /\ madeGroups' = Append(madeGroups, made)
      /\ groupIDs' = [groupIDs EXCEPT ![TemplateGroups[at]] = GroupID]
      /\ previous' = GroupID
  BY DEF MakeGroup
<1>5. made.title = TemplateGroups[at] /\ made.id = GroupID
  OBVIOUS
<1> HIDE DEF made
<1>6. /\ DOMAIN madeGroups' = 1..(Len(madeGroups) + 1) /\ Len(madeGroups') = Len(madeGroups) + 1
      /\ \A k \in DOMAIN madeGroups : madeGroups'[k] = madeGroups[k]
      /\ madeGroups'[Len(madeGroups) + 1] = made
      /\ madeGroups' # <<>>
  BY <1>1, <1>4
<1>7. groups' # <<>>
  BY <1>3 DEF ToSet
<1>d. Default \in ToSet(groups')
  BY <1>1, <1>2, <1>3 DEF GroupsInv
<1>8. ToSet(groups') \subseteq {Default} \cup {TemplateGroups[i] : i \in TriedGroups'} \cup Doubled'
  BY <1>1, <1>2, <1>3 DEF GroupsInv
<1>g. \A g \in ToSet(groups') \ {Default} : titleOf'[g] \in ToSet(TemplateGroups)
  BY <1>1, <1>3, <1>t DEF GroupsInv
<1>9. ASSUME NEW k \in DOMAIN madeGroups'
      PROVE  /\ \E i \in TriedGroups' : madeGroups'[k].title = TemplateGroups[i]
             /\ madeGroups'[k].id \in ToSet(groups') \ Copy
             /\ madeGroups'[k].id = Default => madeGroups'[k].title = TemplateGroups[1]
             /\ titleOf'[madeGroups'[k].id] = madeGroups'[k].title
             /\ groupIDs'[madeGroups'[k].title] = madeGroups'[k].id
  <2>1. CASE k \in DOMAIN madeGroups
    <3>1. madeGroups'[k] = madeGroups[k]
      BY <1>6, <2>1
    <3>2. madeGroups[k].title # TemplateGroups[at]
      BY <1>1, <1>2, <2>1, MadeTitles, TriedInRange
    <3>3. madeGroups[k] \in [title : Title, id : Group]
      BY <1>1, <2>1, ElementOfSeq
    <3>4. groupIDs'[madeGroups[k].title] = groupIDs[madeGroups[k].title]
      BY <1>1, <1>4, <3>2, <3>3
    <3>5. QED
      BY <1>1, <1>2, <1>3, <2>1, <3>1, <3>4 DEF GroupsInv
  <2>2. CASE k = Len(madeGroups) + 1
    <3>1. madeGroups'[k] = made
      BY <1>6, <2>2
    <3>2. TemplateGroups[at] \in Title
      BY <1>2, TemplateFacts
    <3>3. groupIDs'[TemplateGroups[at]] = GroupID
      BY <1>1, <1>4, <3>2
    <3>4. QED
      BY <1>2, <1>3, <1>5, <3>1, <3>3
  <2>3. QED
    BY <1>1, <1>6, <2>1, <2>2
<1>10. previous' = madeGroups'[Len(madeGroups')].id
  BY <1>4, <1>5, <1>6
<1>11. QED
  BY <1>1, <1>2, <1>3, <1>6, <1>7, <1>8, <1>9, <1>10, <1>d, <1>g DEF GroupsInv

LEMMA GroupsInvKept ==
  ASSUME ProvisionInv, ProvisionNext
  PROVE  GroupsInv'
<1>1. GroupsInv
  BY DEF ProvisionInv
<1>2. CASE MakeBoard
  <2>1. /\ TriedGroups = {} /\ TriedGroups' = {} /\ step = "board" /\ ~groupsListed
        /\ UNCHANGED <<existing, previous, groupIDs, groupsListed, madeGroups, titleOf, late>>
        /\ \/ step' = "columns" /\ groups' = <<Default>>
           \/ step' = "failed" /\ groups' = <<>>
    BY <1>1, <1>2 DEF MakeBoard, TriedGroups, GroupsInv
  <2>2. IsInjective(groups') /\ ToSet(groups') \subseteq {Default}
        /\ (step' = "columns" => Default \in ToSet(groups'))
    BY <2>1 DEF IsInjective, ToSet
  <2>d. Doubled' = Doubled
    BY <2>1 DEF Doubled
  <2>3. \A k \in DOMAIN madeGroups : FALSE
    BY <1>1, <2>1 DEF GroupsInv
  <2>4. QED
    BY <1>1, <2>1, <2>2, <2>3, <2>d DEF GroupsInv
<1>3. CASE ListGroups
  <2>1. /\ UNCHANGED <<groups, titleOf, previous, groupIDs, madeGroups>> /\ Doubled' = Doubled
        /\ step = "columns" /\ step' = "groups" /\ TriedGroups' = TriedGroups
        /\ \/ existing' = groups /\ groupsListed' = TRUE
           \/ existing' = <<>> /\ UNCHANGED groupsListed
    BY <1>3, GroupsTriedMove DEF Doubled, ListGroups, contents, MakeGroup, GroupFails, AtGroup
  <2>2. groups = <<Default>>
    BY <1>1, <2>1 DEF GroupsInv
  <2>3. ~groupsListed
    BY <1>1, <2>1 DEF GroupsInv
  <2>4. QED
    BY <1>1, <2>1, <2>2, <2>3 DEF GroupsInv
<1>4. CASE MakeColumn \/ ColumnFails \/ ListSeedColumns \/ PlantSeed \/ SeedFails \/ Finish
  <2>1. /\ UNCHANGED <<groups, titleOf, existing, previous, groupIDs, madeGroups, groupsListed>>
        /\ Doubled' = Doubled
        /\ step' \in {"board", "failed"} <=> step \in {"board", "failed"}
        /\ step' = "columns" <=> step = "columns"
        /\ step \in {"groups", "seeds", "done"} => step' \in {"groups", "seeds", "done"}
    BY <1>4 DEF MakeColumn, ColumnFails, AtColumn, ListSeedColumns, PlantSeed, SeedFails,
                AtSeed, Finish, contents, Doubled
  <2>2. TriedGroups' = TriedGroups
    BY <1>4, GroupsTriedMove DEF MakeColumn, ColumnFails, AtColumn, ListSeedColumns, PlantSeed,
         SeedFails, AtSeed, Finish, MakeGroup, GroupFails, AtGroup
  <2>3. QED
    BY <1>1, <2>1, <2>2 DEF GroupsInv
<1>5. QED
  BY <1>2, <1>3, <1>4, GroupsGrow, GroupsMade DEF ProvisionNext

\* A group that is made stands below those made before it, and what is added
\* above or between them leaves their order as it was.
LEMMA OrderKept ==
  ASSUME ProvisionInv, ProvisionNext
  PROVE  OrderInv'
<1>1. /\ OrderInv /\ GroupsInv /\ groups \in Seq(Group)
      /\ madeGroups \in Seq([title : Title, id : Group])
      /\ Len(madeGroups) \in Nat /\ DOMAIN madeGroups = 1..Len(madeGroups)
  BY DEF ProvisionInv, ContentsOK, ProvisionOK
<1>2. ASSUME ThisGroup, AtGroup,
             NEW i \in DOMAIN madeGroups, NEW j \in DOMAIN madeGroups,
             NEW c \in DOMAIN groups', NEW d \in DOMAIN groups',
             i < j, groups'[c] = madeGroups[i].id, groups'[d] = madeGroups[j].id
      PROVE  c < d
  <2>1. PICK a \in DOMAIN groups : groups[a] = madeGroups[i].id
    BY <1>1 DEF GroupsInv, ToSet
  <2>2. PICK b \in DOMAIN groups : groups[b] = madeGroups[j].id
    BY <1>1 DEF GroupsInv, ToSet
  <2>3. a < b
    BY <1>1, <1>2, <2>1, <2>2 DEF OrderInv
  <2>4. \A x, y \in DOMAIN groups : \A z, w \in DOMAIN groups' :
          x < y /\ groups'[z] = groups[x] /\ groups'[w] = groups[y] => z < w
    BY <1>2, GroupRequestIs DEF ProvisionInv
  <2>5. QED
    BY <1>2, <2>1, <2>2, <2>3, <2>4
<1>3. CASE MakeGroup
  <2>1. ThisGroup /\ AtGroup
    BY <1>3 DEF MakeGroup
  <2> DEFINE made == [title |-> TemplateGroups[at], id |-> GroupID]
  <2>2. madeGroups' = Append(madeGroups, made) /\ made.id = GroupID
    BY <1>3 DEF MakeGroup
  <2> HIDE DEF made
  <2>3. /\ DOMAIN madeGroups' = 1..(Len(madeGroups) + 1)
        /\ \A k \in DOMAIN madeGroups : madeGroups'[k] = madeGroups[k]
        /\ madeGroups'[Len(madeGroups) + 1].id = GroupID
    BY <1>1, <2>2
  <2>4. \A k \in DOMAIN madeGroups : \A c, d \in DOMAIN groups' :
          groups'[c] = madeGroups[k].id /\ groups'[d] = GroupID => c < d
    BY <2>1, GroupRequestIs DEF ProvisionInv
  <2>5. ASSUME NEW i \in DOMAIN madeGroups', NEW j \in DOMAIN madeGroups',
               NEW c \in DOMAIN groups', NEW d \in DOMAIN groups',
               i < j, groups'[c] = madeGroups'[i].id, groups'[d] = madeGroups'[j].id
        PROVE  c < d
    <3>1. i \in DOMAIN madeGroups /\ madeGroups'[i] = madeGroups[i]
      BY <1>1, <2>3, <2>5
    <3>2. CASE j \in DOMAIN madeGroups
      <4>1. madeGroups'[j] = madeGroups[j]
        BY <2>3, <3>2
      <4>2. QED
        BY <1>2, <2>1, <2>5, <3>1, <3>2, <4>1
    <3>3. CASE j = Len(madeGroups) + 1
      BY <2>3, <2>4, <2>5, <3>1, <3>3
    <3>4. QED
      BY <1>1, <2>3, <3>2, <3>3
  <2>6. QED
    BY <2>5 DEF OrderInv
<1>4. CASE GroupFails
  <2>1. madeGroups' = madeGroups /\ AtGroup /\ (ThisGroup \/ groups' = groups)
    BY <1>4 DEF GroupFails
  <2>2. CASE groups' = groups
    BY <1>1, <2>1, <2>2 DEF OrderInv
  <2>3. CASE ThisGroup
    BY <1>2, <2>1, <2>3 DEF OrderInv
  <2>4. QED
    BY <2>1, <2>2, <2>3
<1>5. CASE MakeBoard
  <2>1. madeGroups' = madeGroups /\ TriedGroups = {}
    BY <1>5 DEF MakeBoard, TriedGroups
  <2>2. \A k \in DOMAIN madeGroups : FALSE
    BY <1>1, <2>1 DEF GroupsInv
  <2>3. QED
    BY <2>1, <2>2 DEF OrderInv
<1>6. CASE MakeColumn \/ ColumnFails \/ ListGroups \/ ListSeedColumns \/ PlantSeed \/ SeedFails
           \/ Finish
  <2>1. UNCHANGED <<groups, madeGroups>>
    BY <1>6 DEF MakeColumn, ColumnFails, ListGroups, ListSeedColumns, PlantSeed, SeedFails,
                Finish, contents
  <2>2. QED
    BY <1>1, <2>1 DEF OrderInv
<1>7. QED
  BY <1>3, <1>4, <1>5, <1>6 DEF ProvisionNext

LEMMA ItemsKept ==
  ASSUME ProvisionInv, ProvisionNext
  PROVE  ItemsInv'
<1>1. /\ ItemsInv /\ GroupsInv /\ items \in Seq(Entry) /\ madeItems \in Seq(Entry)
      /\ Len(madeItems) \in Nat /\ DOMAIN madeItems = 1..Len(madeItems)
      /\ madeGroups \in Seq([title : Title, id : Group])
  BY DEF ProvisionInv, ContentsOK, ProvisionOK
<1>2. CASE MakeColumn \/ ColumnFails
  <2>1. /\ UNCHANGED <<step, items, touched, madeGroups, madeItems>>
        /\ madeColumns' \subseteq columns'
    BY <1>1, <1>2 DEF MakeColumn, ColumnFails, ItemsInv
  <2>c. columns' \subseteq ToSet(TemplateColumns) \cup Copy
    <3>1. TemplateColumns[at] \in ToSet(TemplateColumns)
      <4>1. at \in DOMAIN TemplateColumns
        BY <1>2, TemplateFacts DEF MakeColumn, ColumnFails, AtColumn, ProvisionInv, ProvisionOK
      <4>2. QED
        BY <4>1 DEF ToSet
    <3>2. QED
      BY <1>1, <1>2, <3>1 DEF MakeColumn, ColumnFails, ItemsInv
  <2>2. QED
    BY <1>1, <2>1, <2>c DEF ItemsInv
<1>3. CASE MakeBoard \/ ListGroups \/ MakeGroup \/ GroupFails \/ ListSeedColumns
  <2>1. UNCHANGED <<columns, madeColumns, madeItems>> /\ madeItems = <<>>
    BY <1>1, <1>3 DEF MakeBoard, ListGroups, MakeGroup, GroupFails, AtGroup, ListSeedColumns,
                      contents, ItemsInv
  <2>2. DOMAIN madeItems' = {}
    BY <1>1, <2>1
  <2>3. QED
    BY <1>1, <2>1, <2>2 DEF ItemsInv
<1>4. CASE Finish
  <2>1. /\ UNCHANGED <<columns, items, touched, madeColumns, madeGroups, madeItems>>
        /\ step' = "done"
    BY <1>4 DEF Finish, contents
  <2>2. QED
    BY <1>1, <2>1 DEF ItemsInv
<1>5. ASSUME PlantSeed \/ SeedFails
      PROVE  /\ ToSet(items) \subseteq ToSet(items')
             /\ SeedEntry \in Entry
             /\ PlantSeed => SeedEntry \in ToSet(items')
  <2>1. SeedEntry \in Entry
    BY <1>5, PlantedTypes DEF ProvisionInv, PlantSeed, SeedFails
  <2>2. items' = items \/ items' = Append(items, SeedEntry)
    BY <1>5 DEF PlantSeed, SeedFails
  <2>3. ASSUME NEW e \in Entry
        PROVE  ToSet(Append(items, e)) = ToSet(items) \cup {e}
    <3>1. /\ DOMAIN Append(items, e) = 1..(Len(items) + 1)
          /\ DOMAIN items = 1..Len(items) /\ Len(items) \in Nat
          /\ \A k \in DOMAIN items : Append(items, e)[k] = items[k]
          /\ Append(items, e)[Len(items) + 1] = e
      BY <1>1
    <3>2. QED
      BY <3>1 DEF ToSet
  <2>4. PlantSeed => items' = Append(items, SeedEntry)
    BY DEF PlantSeed
  <2>5. QED
    BY <2>1, <2>2, <2>3, <2>4
<1>6. CASE SeedFails
  <2>1. UNCHANGED <<columns, step, touched, madeColumns, madeGroups, madeItems>>
    BY <1>6 DEF SeedFails
  <2>2. QED
    BY <1>1, <1>5, <1>6, <2>1 DEF ItemsInv
<1>7. CASE PlantSeed
  <2>1. /\ UNCHANGED <<columns, step, touched, madeColumns, madeGroups>>
        /\ madeItems' = Append(madeItems, SeedEntry)
        /\ at \in DOMAIN Seeds /\ step = "seeds"
    BY <1>7, TemplateFacts DEF PlantSeed, AtSeed, ProvisionInv, ProvisionOK
  <2>2. /\ DOMAIN madeItems' = 1..(Len(madeItems) + 1)
        /\ \A k \in DOMAIN madeItems : madeItems'[k] = madeItems[k]
        /\ madeItems'[Len(madeItems) + 1] = SeedEntry
    BY <1>1, <1>5, <1>7, <2>1
  <2>3. ASSUME NEW s \in DOMAIN Seeds, NEW g \in DOMAIN madeGroups,
               Seeds[s].name = SeedEntry.name, Seeds[s].group = madeGroups[g].title
        PROVE  SeedEntry.group = madeGroups[g].id
    <3>1. SeedEntry.name = Seeds[at].name /\ SeedEntry.group = PlaceFor(Seeds[at].group)
      BY DEF SeedEntry
    <3>2. s = at
      BY <2>1, <2>3, <3>1, TemplateFacts
    <3>3. madeGroups[g] \in [title : Title, id : Group]
      BY <1>1, ElementOfSeq, LenProperties
    <3>4. groupIDs[madeGroups[g].title] = madeGroups[g].id
      BY <1>1 DEF GroupsInv
    <3>5. Seeds[at].group # NoTitle /\ groupIDs[Seeds[at].group] # NoGroup
      BY <2>3, <3>2, <3>3, <3>4, ContentNames
    <3>6. QED
      BY <2>3, <3>1, <3>2, <3>4, <3>5 DEF PlaceFor
  <2>4. ASSUME NEW k \in DOMAIN madeItems'
        PROVE  /\ madeItems'[k].name \notin touched => madeItems'[k] \in ToSet(items')
               /\ \A s \in DOMAIN Seeds : \A g \in DOMAIN madeGroups :
                    /\ Seeds[s].name = madeItems'[k].name
                    /\ Seeds[s].group = madeGroups[g].title
                    => madeItems'[k].group = madeGroups[g].id
    <3>1. CASE k \in DOMAIN madeItems
      BY <1>1, <1>5, <1>7, <2>2, <3>1 DEF ItemsInv
    <3>2. CASE k = Len(madeItems) + 1
      BY <1>5, <1>7, <2>2, <2>3, <3>2
    <3>3. QED
      BY <1>1, <2>2, <3>1, <3>2
  <2>5. QED
    BY <1>1, <2>1, <2>4 DEF ItemsInv
<1>8. QED
  BY <1>2, <1>3, <1>4, <1>6, <1>7 DEF ProvisionNext

LEMMA CleanKept ==
  ASSUME ProvisionInv, ProvisionNext
  PROVE  CleanInv'
<1>1. /\ CleanInv /\ GroupsInv /\ Placed /\ at \in Nat \ {0}
      /\ madeGroups \in Seq([title : Title, id : Group])
      /\ Len(madeGroups) \in Nat /\ DOMAIN madeGroups = 1..Len(madeGroups)
  BY TemplateFacts DEF ProvisionInv, ProvisionOK
<1>2. CASE ColumnFails \/ GroupFails \/ SeedFails
  <2>1. warnings' # {}
    BY <1>2, WarnAdds DEF ColumnFails, GroupFails, SeedFails
  <2>2. QED
    BY <2>1 DEF CleanInv
<1>3. CASE MakeBoard \/ MakeColumn
  <2>1. step' \notin {"groups", "seeds", "done"}
    BY <1>3 DEF MakeBoard, MakeColumn, AtColumn
  <2>2. QED
    BY <2>1 DEF CleanInv
<1>4. CASE ListGroups
  <2>1. UNCHANGED <<groups, madeGroups>> /\ step = "columns" /\ step' = "groups" /\ at' = 1
    BY <1>4 DEF ListGroups, contents
  <2>2. GroupsTried' = 0
    BY <2>1 DEF GroupsTried
  <2>3. groups = <<Default>> /\ DOMAIN madeGroups = {}
    BY <1>1, <2>1 DEF GroupsInv, TriedGroups
  <2>4. Len(madeGroups) = 0
    BY <1>1, <2>3
  <2>5. ToSet(groups) \subseteq {Default}
    BY <2>3 DEF ToSet
  <2>6. QED
    BY <2>1, <2>2, <2>4, <2>5 DEF CleanInv
<1>5. CASE MakeGroup
  <2> DEFINE made == [title |-> TemplateGroups[at], id |-> GroupID]
  <2>1. /\ UNCHANGED <<warnings, groupsListed, step, existing>>
        /\ step = "groups" /\ at' = at + 1
        /\ madeGroups' = Append(madeGroups, made)
    BY <1>5 DEF MakeGroup, AtGroup
  <2>2. GroupsTried = at - 1 /\ GroupsTried' = at
    BY <1>1, <2>1 DEF GroupsTried
  <2>3. made.title = TemplateGroups[at] /\ made.id = GroupID
    OBVIOUS
  <2> HIDE DEF made
  <2>4. /\ Len(madeGroups') = Len(madeGroups) + 1
        /\ DOMAIN madeGroups' = 1..(Len(madeGroups) + 1)
        /\ \A k \in DOMAIN madeGroups : madeGroups'[k] = madeGroups[k]
        /\ madeGroups'[Len(madeGroups) + 1] = made
    BY <1>1, <2>1
  <2>5. /\ ToSet(groups') \subseteq ToSet(groups) \cup {GroupID}
        /\ at = 1 /\ existing # <<>> => GroupID = Default
    BY <1>5, GroupRequestIs DEF ProvisionInv, MakeGroup
  <2>6. SUFFICES ASSUME warnings = {}
                 PROVE  /\ Len(madeGroups') = at
                        /\ \A k \in 1..at : madeGroups'[k].title = TemplateGroups[k]
                        /\ groupsListed => madeGroups'[1].id = Default
                        /\ ToSet(groups') \subseteq
                             {Default} \cup Copy \cup {madeGroups'[k].id : k \in DOMAIN madeGroups'}
    BY <1>1, <2>1, <2>2 DEF CleanInv
  <2>7. /\ Len(madeGroups) = at - 1
        /\ \A k \in 1..(at - 1) : madeGroups[k].title = TemplateGroups[k]
        /\ groupsListed /\ at # 1 => madeGroups[1].id = Default
        /\ ToSet(groups) \subseteq
             {Default} \cup Copy \cup {madeGroups[k].id : k \in DOMAIN madeGroups}
    BY <1>1, <2>1, <2>2, <2>6 DEF CleanInv
  <2>8. Len(madeGroups') = at /\ madeGroups'[at] = made /\ DOMAIN madeGroups' = 1..at
    BY <1>1, <2>4, <2>7
  <2>9. ASSUME NEW k \in 1..at PROVE madeGroups'[k].title = TemplateGroups[k]
    <3>1. CASE k = at
      BY <2>3, <2>8, <3>1
    <3>2. CASE k # at
      BY <1>1, <2>4, <2>7, <3>2
    <3>3. QED
      BY <3>1, <3>2
  <2>10. ASSUME groupsListed PROVE madeGroups'[1].id = Default
    <3>1. CASE at = 1
      <4>1. existing = <<Default>>
        BY <1>1, <2>10 DEF GroupsInv
      <4>2. existing # <<>>
        BY <4>1
      <4>3. madeGroups'[1] = made /\ made.id = Default
        BY <2>3, <2>5, <2>8, <3>1, <4>2
      <4>4. QED
        BY <4>3
    <3>2. CASE at # 1
      BY <1>1, <2>4, <2>7, <2>10, <3>2
    <3>3. QED
      BY <3>1, <3>2
  <2>11. ASSUME NEW g \in ToSet(groups')
         PROVE  g \in {Default} \cup Copy \cup {madeGroups'[k].id : k \in DOMAIN madeGroups'}
    <3>1. CASE g = GroupID
      BY <1>1, <2>3, <2>8, <3>1
    <3>2. CASE g # GroupID
      <4>1. g \in {Default} \cup Copy \cup {madeGroups[k].id : k \in DOMAIN madeGroups}
        BY <2>5, <2>7, <2>11, <3>2
      <4>2. \A k \in DOMAIN madeGroups : k \in DOMAIN madeGroups' /\ madeGroups'[k] = madeGroups[k]
        BY <1>1, <2>4
      <4>3. QED
        BY <4>1, <4>2
    <3>3. QED
      BY <3>1, <3>2
  <2>12. QED
    BY <2>8, <2>9, <2>10, <2>11
<1>6. CASE ListSeedColumns
  <2>1. CASE warnings' # {}
    BY <2>1 DEF CleanInv
  <2>2. CASE warnings' = {}
    <3>1. /\ UNCHANGED <<groups, madeGroups, groupsListed>>
          /\ step = "groups" /\ step' \in {"seeds", "done"} /\ at > Len(TemplateGroups)
      BY <1>6 DEF ListSeedColumns, contents
    <3>2. GroupsTried' = GroupsTried
      BY <1>1, <3>1, TemplateFacts DEF GroupsTried, Placed
    <3>3. warnings = {}
      BY <1>6, <2>2 DEF ListSeedColumns, Warn
    <3>4. QED
      BY <1>1, <3>1, <3>2, <3>3 DEF CleanInv
  <2>3. QED
    BY <2>1, <2>2
<1>7. CASE PlantSeed \/ Finish
  <2>1. /\ UNCHANGED <<groups, madeGroups, groupsListed, warnings>>
        /\ step = "seeds" /\ step' \in {"seeds", "done"}
    BY <1>7 DEF PlantSeed, AtSeed, Finish, contents
  <2>2. GroupsTried' = GroupsTried
    BY <2>1 DEF GroupsTried
  <2>3. QED
    BY <1>1, <2>1, <2>2 DEF CleanInv
<1>8. QED
  BY <1>2, <1>3, <1>4, <1>5, <1>6, <1>7 DEF ProvisionNext

\* No step of the call takes away what an attempt under way rests on.
LEMMA LateKept ==
  ASSUME ProvisionInv, ProvisionNext
  PROVE  LateInv'
<1>1. LateInv /\ late' = late
  BY DEF ProvisionInv, ProvisionNext, MakeBoard, MakeColumn, ColumnFails, ListGroups, MakeGroup,
         GroupFails, ListSeedColumns, PlantSeed, SeedFails, Finish, contents
<1>2. /\ step \in {"groups", "seeds", "done"} => step' \in {"groups", "seeds", "done"}
      /\ step \in {"seeds", "done"} => step' \in {"seeds", "done"}
  BY DEF ProvisionNext, MakeBoard, MakeColumn, ColumnFails, AtColumn, ListGroups, MakeGroup,
         GroupFails, AtGroup, ListSeedColumns, PlantSeed, SeedFails, AtSeed, Finish
<1>3. step \in {"groups", "seeds", "done"} => ToSet(groups) \subseteq ToSet(groups')
  <2>1. CASE MakeGroup
    BY <2>1, GroupRequestIs DEF ProvisionInv, MakeGroup
  <2>2. CASE GroupFails
    <3>1. CASE ThisGroup
      BY <2>2, <3>1, GroupRequestIs DEF ProvisionInv, GroupFails
    <3>2. QED
      BY <2>2, <3>1 DEF GroupFails
  <2>3. CASE ~MakeGroup /\ ~GroupFails /\ step \in {"groups", "seeds", "done"}
    BY <2>3 DEF ProvisionNext, MakeBoard, MakeColumn, ColumnFails, ListGroups,
                ListSeedColumns, PlantSeed, SeedFails, Finish, contents
  <2>4. QED
    BY <2>1, <2>2, <2>3
<1>4. QED
  BY <1>1, <1>2, <1>3 DEF LateInv

\* What other users do leaves every untouched item where it is.
LEMMA OthersTouch ==
  ASSUME ContentsOK, OthersAct
  PROVE  /\ UNCHANGED <<columns, groups, titleOf, late>>
         /\ items' \in Seq(Entry)
         /\ touched \subseteq touched' /\ touched' \subseteq Name
         /\ \A e \in ToSet(items) : e.name \notin touched' => e \in ToSet(items')
<1>1. /\ items \in Seq(Entry) /\ Len(items) \in Nat /\ DOMAIN items = 1..Len(items)
      /\ groups \in Seq(Group) /\ touched \subseteq Name
  BY DEF ContentsOK
<1>2. CASE OthersAddItem
  <2>1. PICK n \in OthersAdd \ touched :
          /\ items' = Append(items, [name |-> n, group |-> groups[1]])
          /\ touched' = touched \cup {n}
          /\ UNCHANGED <<columns, groups, titleOf, late>>
    BY <1>2 DEF OthersAddItem
  <2> DEFINE e == [name |-> n, group |-> groups[1]]
  <2>2. e \in Entry /\ n \in Name
    <3>1. groups[1] \in Group
      BY <1>1, <1>2 DEF OthersAddItem
    <3>2. n \in Name
      BY ContentNames
    <3>3. QED
      BY <3>1, <3>2 DEF Entry
  <2> HIDE DEF e
  <2>3. /\ items' \in Seq(Entry) /\ DOMAIN items' = 1..(Len(items) + 1)
        /\ \A k \in DOMAIN items : items'[k] = items[k]
    BY <1>1, <2>1, <2>2 DEF e
  <2>4. ToSet(items) \subseteq ToSet(items')
    BY <1>1, <2>3 DEF ToSet
  <2>5. QED
    BY <1>1, <2>1, <2>2, <2>3, <2>4
<1>3. CASE OthersArchiveItem
  <2>1. PICK k \in DOMAIN items :
          /\ items' = RemoveAt(items, k)
          /\ touched' = touched \cup {items[k].name}
          /\ UNCHANGED <<columns, groups, titleOf, late>>
    BY <1>3 DEF OthersArchiveItem
  <2> DEFINE t == RemoveAt(items, k)
  <2>2. k \in 1..Len(items)
    BY <1>1
  <2>3. items \in Seq(Entry)
    BY <1>1
  <2>4. /\ t \in Seq(Entry) /\ DOMAIN t = 1..(Len(items) - 1)
        /\ \A i \in 1..(k - 1) : t[i] = items[i]
        /\ \A i \in k..(Len(items) - 1) : t[i] = items[i + 1]
    BY <2>2, <2>3, RemoveAtIs
  <2>5. items' = t
    BY <2>1
  <2> HIDE DEF t
  <2>6. ASSUME NEW i \in DOMAIN items, i # k PROVE items[i] \in ToSet(t)
    <3>1. CASE i < k
      <4>1. i \in DOMAIN t /\ t[i] = items[i]
        BY <1>1, <2>2, <2>4, <3>1
      <4>2. QED
        BY <4>1 DEF ToSet
    <3>2. CASE i > k
      <4>1. i - 1 \in DOMAIN t /\ i - 1 \in k..(Len(items) - 1) /\ (i - 1) + 1 = i
        BY <1>1, <2>2, <2>4, <3>2
      <4>2. t[i - 1] = items[i]
        BY <2>4, <4>1
      <4>3. QED
        BY <4>1, <4>2 DEF ToSet
    <3>3. QED
      BY <1>1, <2>2, <2>6, <3>1, <3>2
  <2>7. \A e \in ToSet(items) : e.name \notin touched' => e \in ToSet(items')
    BY <2>1, <2>5, <2>6 DEF ToSet
  <2>8. items[k].name \in Name
    <3>1. items[k] \in Entry
      BY <2>2, <2>3, ElementOfSeq
    <3>2. QED
      BY <3>1 DEF Entry
  <2>9. QED
    BY <1>1, <2>1, <2>4, <2>5, <2>7, <2>8
<1>4. CASE OthersMoveItem
  <2>1. PICK k \in DOMAIN items, g \in ToSet(groups) :
          /\ items' = [items EXCEPT ![k].group = g]
          /\ touched' = touched \cup {items[k].name}
          /\ UNCHANGED <<columns, groups, titleOf, late>>
    BY <1>4 DEF OthersMoveItem
  <2>2. items[k] \in Entry /\ items[k].name \in Name /\ g \in Group
    <3>1. items[k] \in Entry
      BY <1>1, ElementOfSeq
    <3>2. g \in Group
      BY <1>1 DEF ToSet
    <3>3. QED
      BY <3>1, <3>2 DEF Entry
  <2>3. items' \in Seq(Entry) /\ \A i \in DOMAIN items : i # k => items'[i] = items[i]
        /\ DOMAIN items' = DOMAIN items
    <3>1. [items[k] EXCEPT !.group = g] \in Entry
      BY <2>2 DEF Entry
    <3>2. QED
      BY <1>1, <2>1, <3>1
  <2>4. \A e \in ToSet(items) : e.name \notin touched' => e \in ToSet(items')
    BY <2>1, <2>3 DEF ToSet
  <2>5. QED
    BY <1>1, <2>1, <2>2, <2>3, <2>4
<1>5. QED
  BY <1>2, <1>3, <1>4 DEF OthersAct

\* The accounts speak of the call alone.
LEMMA AccountsStay ==
  ASSUME ColumnsAccounted, GroupsAccounted, SeedsAccounted,
         step' = step, at' = at, madeColumns' = madeColumns, madeGroups' = madeGroups,
         madeItems' = madeItems, warnings' = warnings
  PROVE  ColumnsAccounted' /\ GroupsAccounted' /\ SeedsAccounted'
<1>1. /\ TriedColumns' = TriedColumns /\ TriedGroups' = TriedGroups
      /\ TriedSeeds' = TriedSeeds
      /\ Skipped' <=> Skipped
      /\ \A kind, i : Warned(kind, i)' <=> Warned(kind, i)
      /\ \A i : GroupMade(i)' <=> GroupMade(i)
      /\ \A i : SeedMade(i)' <=> SeedMade(i)
  BY DEF TriedColumns, TriedGroups, TriedSeeds, Skipped, Warned, GroupMade, SeedMade
<1>2. QED
  BY <1>1 DEF ColumnsAccounted, GroupsAccounted, SeedsAccounted

LEMMA OthersKeep ==
  ASSUME ProvisionInv, UNCHANGED provisioning,
         \/ OthersAct
         \/ UNCHANGED contents
  PROVE  ProvisionInv'
<1>1. /\ UNCHANGED <<columns, groups, titleOf, late>>
      /\ items' \in Seq(Entry) /\ touched' \subseteq Name
      /\ touched \subseteq touched'
      /\ \A e \in ToSet(items) : e.name \notin touched' => e \in ToSet(items')
  <2>1. CASE OthersAct
    BY <2>1, OthersTouch DEF ProvisionInv
  <2>2. CASE UNCHANGED contents
    BY <2>2 DEF contents, ProvisionInv, ContentsOK
  <2>3. QED
    BY <2>1, <2>2
<1>2. /\ step' = step /\ at' = at /\ existing' = existing /\ previous' = previous
      /\ groupIDs' = groupIDs /\ known' = known /\ madeColumns' = madeColumns
      /\ madeGroups' = madeGroups /\ madeItems' = madeItems /\ warnings' = warnings
      /\ groupsListed' = groupsListed
  BY DEF provisioning
<1>3. ContentsOK' /\ ProvisionOK' /\ Placed'
  BY <1>1, <1>2 DEF ProvisionInv, ContentsOK, ProvisionOK, Placed
<1>4. /\ TriedColumns' = TriedColumns /\ TriedGroups' = TriedGroups
      /\ TriedSeeds' = TriedSeeds /\ GroupsTried' = GroupsTried
      /\ Skipped' <=> Skipped
      /\ \A kind, i : Warned(kind, i)' <=> Warned(kind, i)
      /\ \A i : GroupMade(i)' <=> GroupMade(i)
      /\ \A i : SeedMade(i)' <=> SeedMade(i)
      /\ Doubled' = Doubled
  BY <1>1, <1>2 DEF Doubled, TriedColumns, TriedGroups, TriedSeeds, GroupsTried, Skipped, Warned, GroupMade,
              SeedMade
<1>5. ColumnsAccounted' /\ GroupsAccounted' /\ SeedsAccounted'
  BY <1>2, <1>4 DEF ProvisionInv, ColumnsAccounted, GroupsAccounted, SeedsAccounted
<1>6. GroupsInv' /\ OrderInv'
  BY <1>1, <1>2, <1>4 DEF ProvisionInv, GroupsInv, OrderInv
<1>7. ItemsInv'
  BY <1>1, <1>2 DEF ProvisionInv, ItemsInv
<1>8. CleanInv'
  BY <1>1, <1>2, <1>4 DEF ProvisionInv, CleanInv
<1>9. LateInv'
  BY <1>1, <1>2 DEF ProvisionInv, LateInv
<1>10. QED
  BY <1>3, <1>5, <1>6, <1>7, <1>8, <1>9 DEF ProvisionInv

-----------------------------------------------------------------------------
\* Attempts that are given up.

\* Giving an attempt up changes nothing on the board.
LEMMA AbandonKeeps ==
  ASSUME ProvisionInv, Abandon
  PROVE  ProvisionInv'
<1>1. PICK c \in Copy, kind \in {"column", "group", "seed"} :
        /\ late[c] = Unsent
        /\ kind = "column" => AtColumn
        /\ kind = "group" => AtGroup
        /\ kind = "seed" => AtSeed /\ SeedFits
        /\ late' = [late EXCEPT ![c] =
             [of |-> kind, at |-> at, after |-> IF kind = "group" THEN previous ELSE NoGroup]]
        /\ UNCHANGED <<columns, groups, titleOf, items, touched, provisioning>>
  BY DEF Abandon
<1> DEFINE a == [of |-> kind, at |-> at, after |-> IF kind = "group" THEN previous ELSE NoGroup]
<1>2. /\ late \in [Copy -> Attempt] /\ at \in Nat \ {0} /\ previous \in Group \cup {NoGroup}
      /\ LateInv /\ GroupsInv
  BY TemplateFacts DEF ProvisionInv, ContentsOK, ProvisionOK
<1>3. a \in Attempt /\ a.of = kind /\ a.at = at
      /\ a.after = (IF kind = "group" THEN previous ELSE NoGroup)
  BY <1>2 DEF Attempt
<1>4. late' = [late EXCEPT ![c] = a]
  BY <1>1
<1> HIDE DEF a
<1>5. /\ late' \in [Copy -> Attempt] /\ late'[c] = a
      /\ \A d \in Copy \ {c} : late'[d] = late[d]
  BY <1>2, <1>3, <1>4
<1>6. Doubled' = Doubled
  <2>1. late[c].of # "settled" /\ late'[c].of # "settled"
    BY <1>1, <1>3, <1>5 DEF Unsent
  <2>2. \A d \in Copy : late'[d].of = "settled" <=> late[d].of = "settled"
    BY <1>5, <2>1
  <2>3. QED
    BY <2>2 DEF Doubled
<1>7. LateInv'
  <2>1. previous \in ToSet(groups) \cup {NoGroup}
    <3>1. madeGroups \in Seq([title : Title, id : Group])
      BY DEF ProvisionInv, ProvisionOK
    <3>2. madeGroups # <<>> => Len(madeGroups) \in DOMAIN madeGroups
      BY <3>1
    <3>3. QED
      BY <1>2, <3>2 DEF GroupsInv
  <2>2. /\ kind = "column" => a.at \in DOMAIN TemplateColumns
        /\ kind = "group" => /\ a.at \in DOMAIN TemplateGroups /\ step = "groups"
                             /\ a.after \in ToSet(groups) \cup {NoGroup}
        /\ kind = "seed" => a.at \in DOMAIN Seeds /\ step = "seeds"
    BY <1>1, <1>2, <1>3, <2>1, TemplateFacts DEF AtColumn, AtGroup, AtSeed
  <2>3. step' = step /\ groups' = groups
    BY <1>1 DEF provisioning
  <2>4. QED
    BY <1>2, <1>3, <1>5, <2>2, <2>3 DEF LateInv
<1>8. /\ step' = step /\ at' = at /\ existing' = existing /\ previous' = previous
      /\ groupIDs' = groupIDs /\ known' = known /\ madeColumns' = madeColumns
      /\ madeGroups' = madeGroups /\ madeItems' = madeItems /\ warnings' = warnings
      /\ groupsListed' = groupsListed
      /\ UNCHANGED <<columns, groups, titleOf, items, touched>>
  BY <1>1 DEF provisioning
<1>9. ContentsOK' /\ ProvisionOK' /\ Placed'
  BY <1>5, <1>8 DEF ProvisionInv, ContentsOK, ProvisionOK, Placed
<1>10. ColumnsAccounted' /\ GroupsAccounted' /\ SeedsAccounted'
  BY <1>8, AccountsStay DEF ProvisionInv
<1>11. GroupsInv' /\ OrderInv' /\ ItemsInv' /\ CleanInv'
  BY <1>6, <1>8 DEF ProvisionInv, GroupsInv, OrderInv, ItemsInv, CleanInv, TriedGroups,
                    GroupsTried
<1>12. QED
  BY <1>7, <1>9, <1>10, <1>11 DEF ProvisionInv

\* What an attempt makes when it is carried out stands beside what the call has
\* made, under a title of the template.
LEMMA CarryOutKeeps ==
  ASSUME ProvisionInv, CarryOut
  PROVE  ProvisionInv'
<1>1. PICK c \in Copy :
        /\ \/ /\ late[c].of = "column"
              /\ columns' \in {columns \cup {TemplateColumns[late[c].at]}, columns \cup {c}}
              /\ UNCHANGED <<groups, titleOf, items>>
           \/ /\ late[c].of = "group"
              /\ GroupRequest(late[c].at, late[c].after, c)
              /\ UNCHANGED <<columns, items>>
           \/ /\ late[c].of = "seed"
              /\ items' = Append(items, [name |-> c,
                                         group |-> PlaceFor(Seeds[late[c].at].group)])
              /\ UNCHANGED <<columns, groups, titleOf>>
        /\ late' = [late EXCEPT ![c] = Settled]
        /\ UNCHANGED <<touched, provisioning>>
  BY DEF CarryOut
<1> DEFINE i == late[c].at
<1>2. /\ late \in [Copy -> Attempt] /\ LateInv /\ GroupsInv /\ OrderInv /\ ItemsInv /\ CleanInv
      /\ groups \in Seq(Group) /\ titleOf \in [Group -> Title \cup {NoTitle}]
      /\ items \in Seq(Entry) /\ columns \subseteq Column
  BY DEF ProvisionInv, ContentsOK
<1>3. /\ step' = step /\ at' = at /\ existing' = existing /\ previous' = previous
      /\ groupIDs' = groupIDs /\ known' = known /\ madeColumns' = madeColumns
      /\ madeGroups' = madeGroups /\ madeItems' = madeItems /\ warnings' = warnings
      /\ groupsListed' = groupsListed /\ touched' = touched
  BY <1>1 DEF provisioning
<1>4. /\ late' \in [Copy -> Attempt] /\ late'[c] = Settled
      /\ \A d \in Copy \ {c} : late'[d] = late[d]
  <2>1. Settled \in Attempt
    BY DEF Settled, Attempt
  <2>2. QED
    BY <1>1, <1>2, <2>1
<1>5. c \notin Doubled /\ Doubled' = Doubled \cup {c}
  <2>1. late[c].of # "settled"
    BY <1>1
  <2>2. \A d \in Copy : late'[d].of = "settled" <=> (late[d].of = "settled" \/ d = c)
    BY <1>4 DEF Settled
  <2>3. QED
    BY <2>1, <2>2 DEF Doubled
<1>6. c \in Group /\ c \in Name /\ c \in Column /\ c # Default /\ c \notin Title
      /\ c \notin ToSet(groups)
  <2>1. c \in Group /\ c \in Name /\ c \in Column /\ c # Default /\ c \notin Title
    BY ContentNames DEF Group
  <2>2. \A j \in TriedGroups : TemplateGroups[j] \in Title
    BY TriedInRange, TemplateFacts
  <2>3. QED
    BY <1>2, <1>5, <2>1, <2>2 DEF GroupsInv
<1>7. /\ columns' \subseteq Column /\ columns \subseteq columns'
      /\ columns' \subseteq ToSet(TemplateColumns) \cup Copy
  <2>1. CASE late[c].of = "column"
    <3>1. i \in DOMAIN TemplateColumns
      BY <1>2, <2>1 DEF LateInv
    <3>2. TemplateColumns[i] \in Column /\ TemplateColumns[i] \in ToSet(TemplateColumns)
      BY <3>1, TemplateFacts DEF ToSet
    <3>3. QED
      BY <1>1, <1>2, <1>6, <2>1, <3>2 DEF ItemsInv
  <2>2. CASE late[c].of # "column"
    BY <1>1, <1>2, <2>2 DEF ItemsInv
  <2>3. QED
    BY <2>1, <2>2
<1>8. items' \in Seq(Entry) /\ ToSet(items) \subseteq ToSet(items')
  <2>1. CASE items' = items
    BY <1>2, <2>1
  <2>2. CASE items' # items
    <3> DEFINE e == [name |-> c, group |-> PlaceFor(Seeds[i].group)]
    <3>1. items' = Append(items, e) /\ late[c].of = "seed"
      BY <1>1, <2>2
    <3>2. i \in DOMAIN Seeds /\ step \in {"seeds", "done"}
      BY <1>2, <3>1 DEF LateInv
    <3>3. Seeds[i].group \in Title \cup {NoTitle}
      BY <3>2, TemplateFacts DEF Seed
    <3>4. groups[1] \in Group
      BY <1>2, <3>2 DEF GroupsInv
    <3>5. e \in Entry
      BY <1>6, <3>3, <3>4 DEF PlaceFor, Entry, ProvisionInv, ProvisionOK
    <3> HIDE DEF e
    <3>6. /\ DOMAIN Append(items, e) = 1..(Len(items) + 1)
          /\ DOMAIN items = 1..Len(items) /\ Len(items) \in Nat
          /\ \A k \in DOMAIN items : Append(items, e)[k] = items[k]
      BY <1>2, <3>5
    <3>7. QED
      BY <1>2, <3>1, <3>5, <3>6 DEF ToSet
  <2>3. QED
    BY <2>1, <2>2
<1>9. /\ groups' \in Seq(Group) /\ IsInjective(groups')
      /\ titleOf' \in [Group -> Title \cup {NoTitle}]
      /\ ToSet(groups) \subseteq ToSet(groups') /\ ToSet(groups') \subseteq ToSet(groups) \cup {c}
      /\ \A a, b \in DOMAIN groups : \A x, y \in DOMAIN groups' :
           a < b /\ groups'[x] = groups[a] /\ groups'[y] = groups[b] => x < y
      /\ \A g \in ToSet(groups) \ {Default} : titleOf'[g] = titleOf[g]
      /\ c \in ToSet(groups') => titleOf'[c] \in ToSet(TemplateGroups)
      /\ titleOf'[Default] \in {titleOf[Default], TemplateGroups[1]}
      /\ step = "columns" => groups' = groups
      /\ step \in {"board", "failed"} => groups' = groups
  <2>0. ToSet(groups) \subseteq Group
    BY <1>2 DEF ToSet
  <2>1. CASE UNCHANGED <<groups, titleOf>>
    BY <1>2, <1>6, <2>1 DEF GroupsInv, IsInjective
  <2>2. CASE late[c].of = "group" /\ GroupRequest(i, late[c].after, c)
    <3> DEFINE title == TemplateGroups[i]
               q == IF late[c].after # NoGroup THEN PlaceOf(late[c].after) ELSE Top
    <3>1. /\ i \in DOMAIN TemplateGroups /\ step \in {"groups", "seeds", "done"}
          /\ late[c].after \in ToSet(groups) \cup {NoGroup}
      BY <1>2, <2>2 DEF LateInv
    <3>2. title \in Title /\ title \in ToSet(TemplateGroups)
      BY <3>1, TemplateFacts DEF ToSet
    <3>3. CASE i = 1 /\ existing # <<>>
      <4>1. groups' = groups /\ titleOf' = [titleOf EXCEPT ![Default] = title]
        BY <1>2, <2>2, <3>3 DEF GroupRequest, Rename, GroupsInv
      <4>2. titleOf' \in [Group -> Title \cup {NoTitle}] /\ titleOf'[Default] = TemplateGroups[1]
            /\ \A g \in Group \ {Default} : titleOf'[g] = titleOf[g]
        BY <1>2, <3>2, <3>3, <4>1 DEF Group
      <4>3. QED
        BY <1>2, <1>6, <2>0, <4>1, <4>2 DEF GroupsInv, IsInjective
    <3>4. CASE ~(i = 1 /\ existing # <<>>)
      <4>1. AddBelow(q, c, title)
        BY <2>2, <3>4 DEF GroupRequest
      <4>2. q \in 0..Len(groups)
        BY <1>2, <3>1, PlaceIs DEF GroupsInv
      <4> HIDE DEF q, title
      <4>3. /\ groups' \in Seq(Group) /\ IsInjective(groups')
            /\ ToSet(groups') = ToSet(groups) \cup {c}
            /\ \A a, b \in DOMAIN groups : \A x, y \in DOMAIN groups' :
                 a < b /\ groups'[x] = groups[a] /\ groups'[y] = groups[b] => x < y
        BY <1>2, <1>6, <4>1, <4>2, GroupAdded DEF GroupsInv
      <4>4. /\ titleOf' \in [Group -> Title \cup {NoTitle}] /\ titleOf'[c] = title
            /\ \A g \in Group \ {c} : titleOf'[g] = titleOf[g]
        BY <1>2, <1>6, <3>2, <4>1 DEF AddBelow
      <4>5. Default \in Group
        BY DEF Group
      <4>6. QED
        BY <1>6, <2>0, <3>1, <3>2, <4>3, <4>4, <4>5
    <3>5. QED
      BY <3>3, <3>4
  <2>3. QED
    BY <1>1, <2>1, <2>2
<1>10. ContentsOK' /\ ProvisionOK' /\ Placed'
  BY <1>3, <1>4, <1>7, <1>8, <1>9 DEF ProvisionInv, ContentsOK, ProvisionOK, Placed
<1>11. ColumnsAccounted' /\ GroupsAccounted' /\ SeedsAccounted'
  BY <1>3, AccountsStay DEF ProvisionInv
<1>12. TriedGroups' = TriedGroups /\ GroupsTried' = GroupsTried
  BY <1>3 DEF TriedGroups, GroupsTried
<1>13. ASSUME NEW k \in DOMAIN madeGroups
       PROVE  /\ madeGroups[k].id \in ToSet(groups') \ Copy
              /\ titleOf'[madeGroups[k].id] = madeGroups[k].title
  BY <1>2, <1>9 DEF GroupsInv
<1>14. groups' = <<>> <=> step \in {"board", "failed"}
  <2>1. CASE step \in {"board", "failed"}
    BY <1>2, <1>9, <2>1 DEF GroupsInv
  <2>2. CASE step \notin {"board", "failed"}
    <3>1. groups # <<>>
      BY <1>2, <2>2 DEF GroupsInv
    <3>2. groups[1] \in ToSet(groups)
      BY <1>2, <3>1 DEF ToSet
    <3>3. groups[1] \in ToSet(groups')
      BY <1>9, <3>2
    <3>4. QED
      BY <2>2, <3>3 DEF ToSet
  <2>3. QED
    BY <2>1, <2>2
<1>d. step \notin {"board", "failed"} => Default \in ToSet(groups')
  BY <1>2, <1>9 DEF GroupsInv
<1>15. GroupsInv'
  <2>1. ToSet(groups') \subseteq
          {Default} \cup {TemplateGroups[j] : j \in TriedGroups} \cup Doubled'
    BY <1>2, <1>5, <1>9 DEF GroupsInv
  <2>2. \A g \in ToSet(groups') \ {Default} : titleOf'[g] \in ToSet(TemplateGroups)
    BY <1>2, <1>9 DEF GroupsInv
  <2>3. QED
    BY <1>2, <1>3, <1>9, <1>12, <1>13, <1>14, <1>d, <2>1, <2>2 DEF GroupsInv
<1>16. OrderInv'
  <2>1. ASSUME NEW k \in DOMAIN madeGroups, NEW l \in DOMAIN madeGroups,
               NEW x \in DOMAIN groups', NEW y \in DOMAIN groups',
               k < l, groups'[x] = madeGroups[k].id, groups'[y] = madeGroups[l].id
        PROVE  x < y
    <3>1. PICK a \in DOMAIN groups : groups[a] = madeGroups[k].id
      BY <1>2 DEF GroupsInv, ToSet
    <3>2. PICK b \in DOMAIN groups : groups[b] = madeGroups[l].id
      BY <1>2 DEF GroupsInv, ToSet
    <3>3. a < b
      BY <1>2, <2>1, <3>1, <3>2 DEF OrderInv
    <3>4. QED
      BY <1>9, <2>1, <3>1, <3>2, <3>3
  <2>2. QED
    BY <1>3, <2>1 DEF OrderInv
<1>17. ItemsInv'
  BY <1>2, <1>3, <1>7, <1>8 DEF ItemsInv
<1>18. CleanInv'
  <2>1. ToSet(groups') \subseteq ToSet(groups) \cup {c} /\ c \in Copy
    BY <1>9
  <2>2. UNCHANGED <<warnings, step, madeGroups, groupsListed>> /\ GroupsTried' = GroupsTried
    BY <1>3, <1>12
  <2>3. CASE warnings = {} /\ step \in {"groups", "seeds", "done"}
    <3>1. /\ Len(madeGroups) = GroupsTried
          /\ \A k \in 1..GroupsTried : madeGroups[k].title = TemplateGroups[k]
          /\ groupsListed /\ GroupsTried # 0 => madeGroups[1].id = Default
      BY <1>2, <2>3 DEF CleanInv
    <3>2. ToSet(groups) \subseteq
            {Default} \cup Copy \cup {madeGroups[k].id : k \in DOMAIN madeGroups}
      BY <1>2, <2>3 DEF CleanInv
    <3>3. ToSet(groups') \subseteq
            {Default} \cup Copy \cup {madeGroups'[k].id : k \in DOMAIN madeGroups'}
      BY <2>1, <2>2, <3>2
    <3>4. QED
      BY <2>2, <3>1, <3>3 DEF CleanInv
  <2>4. CASE ~(warnings = {} /\ step \in {"groups", "seeds", "done"})
    BY <2>2, <2>4 DEF CleanInv
  <2>5. QED
    BY <2>3, <2>4
<1>19. LateInv'
  <2>1. late'[c].of = "settled"
    BY <1>4 DEF Settled
  <2>2. QED
    BY <1>2, <1>3, <1>4, <1>9, <2>1 DEF LateInv
<1>20. QED
  BY <1>10, <1>11, <1>15, <1>16, <1>17, <1>18, <1>19 DEF ProvisionInv


LEMMA ProvisionInitially == Init => ProvisionInv
<1> SUFFICES ASSUME ProvisionInit PROVE ProvisionInv
  BY DEF Init
<1> USE DEF ProvisionInit
<1>1. /\ <<>> \in Seq(Group) /\ <<>> \in Seq(Entry)
      /\ <<>> \in Seq([title : Title, id : Group])
  BY EmptySeq
<1>2. ContentsOK
  BY <1>1 DEF ContentsOK, Attempt, Unsent
<1>3. ProvisionOK /\ Placed
  <2>1. at \in 1..(Len(TemplateColumns) + Len(TemplateGroups) + Len(Seeds) + 1)
    BY TemplateFacts
  <2>2. groupIDs \in [Title -> Group \cup {NoGroup}]
    OBVIOUS
  <2>3. /\ step \in Steps /\ previous \in Group \cup {NoGroup}
        /\ warnings \subseteq Warning /\ groupsListed \in BOOLEAN
    BY DEF Steps
  <2>4. ProvisionOK
    BY <1>1, <2>1, <2>2, <2>3 DEF ProvisionOK
  <2>5. Placed
    BY TemplateFacts DEF Placed
  <2>6. QED
    BY <2>4, <2>5
<1>4. TriedColumns = {} /\ TriedGroups = {} /\ TriedSeeds = {}
  BY DEF TriedColumns, TriedGroups, TriedSeeds
<1>5. ~Skipped /\ \A kind, i : ~Warned(kind, i)
  BY DEF Skipped, Warned
<1>6. (\A i : ~GroupMade(i)) /\ (\A i : ~SeedMade(i))
  BY DEF GroupMade, SeedMade, Names
<1>7. ColumnsAccounted /\ GroupsAccounted /\ SeedsAccounted
  BY <1>4, <1>5, <1>6 DEF ColumnsAccounted, GroupsAccounted, SeedsAccounted
<1>8. GroupsInv /\ OrderInv /\ ItemsInv /\ LateInv
  BY DEF GroupsInv, OrderInv, ItemsInv, LateInv, Unsent, IsInjective, ToSet
<1>9. CleanInv
  BY <1>4 DEF CleanInv
<1>10. QED
  BY <1>2, <1>3, <1>7, <1>8, <1>9 DEF ProvisionInv

LEMMA ProvisionStep == ProvisionInv /\ [Next]_vars => ProvisionInv'
<1> SUFFICES ASSUME ProvisionInv, [Next]_vars PROVE ProvisionInv'
  OBVIOUS
<1>1. CASE ProvisionNext
  BY <1>1, TypesKept, ColumnsAccountedKept, GroupsAccountedKept, SeedsAccountedKept,
     GroupsInvKept, OrderKept, ItemsKept, CleanKept, LateKept DEF ProvisionInv
<1>2. CASE OthersAct /\ UNCHANGED provisioning
  BY <1>2, OthersKeep
<1>3. CASE UNCHANGED <<contents, provisioning>>
  BY <1>3, OthersKeep
<1>4. CASE Abandon
  BY <1>4, AbandonKeeps
<1>5. CASE CarryOut
  BY <1>5, CarryOutKeeps
<1>6. QED
  BY <1>1, <1>2, <1>3, <1>4, <1>5 DEF Next, vars

\* What has been tried, made and warned of stays in step, whatever fails.
THEOREM ProvisioningIsInvariant == Spec => []ProvisionInv
BY ProvisionInitially, ProvisionStep, PTL DEF Spec

LEMMA AccountedAtTheEnd == ProvisionInv => EveryStepIsAccounted
<1> SUFFICES ASSUME ProvisionInv, step = "done" PROVE
      /\ \A i \in DOMAIN TemplateColumns :
           (TemplateColumns[i] \in madeColumns) # Warned("column", i)
      /\ \A i \in DOMAIN TemplateGroups :
           (\E k \in DOMAIN madeGroups : madeGroups[k].title = TemplateGroups[i])
             # Warned("group", i)
      /\ \A i \in DOMAIN Seeds :
           (Seeds[i].name \in Names(madeItems)) # (Warned("seed", i) \/ Skipped)
  BY DEF EveryStepIsAccounted
<1>1. /\ TriedColumns = DOMAIN TemplateColumns /\ TriedGroups = DOMAIN TemplateGroups
      /\ TriedSeeds = DOMAIN Seeds
  BY DEF TriedColumns, TriedGroups, TriedSeeds
<1>2. ASSUME NEW i \in DOMAIN TemplateColumns
      PROVE  (TemplateColumns[i] \in madeColumns) # Warned("column", i)
  BY <1>1, <1>2 DEF ProvisionInv, ColumnsAccounted
<1>3. ASSUME NEW i \in DOMAIN TemplateGroups
      PROVE  (\E k \in DOMAIN madeGroups : madeGroups[k].title = TemplateGroups[i])
               # Warned("group", i)
  BY <1>1, <1>3 DEF ProvisionInv, GroupsAccounted, GroupMade
<1>4. ASSUME NEW i \in DOMAIN Seeds
      PROVE  (Seeds[i].name \in Names(madeItems)) # (Warned("seed", i) \/ Skipped)
  BY <1>1, <1>4 DEF ProvisionInv, SeedsAccounted, SeedMade
<1>5. QED
  BY <1>2, <1>3, <1>4

LEMMA OnBoardAlways == ProvisionInv => ResultIsOnBoard
BY DEF ProvisionInv, GroupsInv, ItemsInv, ResultIsOnBoard

LEMMA OrderedAlways == ProvisionInv => GroupsKeepTemplateOrder
<1> SUFFICES ASSUME ProvisionInv, NEW i \in DOMAIN madeGroups, NEW j \in DOMAIN madeGroups,
                    i < j
             PROVE  PlaceOf(madeGroups[i].id) < PlaceOf(madeGroups[j].id)
  BY DEF GroupsKeepTemplateOrder
<1>1. groups \in Seq(Group) /\ IsInjective(groups)
  BY DEF ProvisionInv, ContentsOK, GroupsInv
<1>2. PICK a \in DOMAIN groups : groups[a] = madeGroups[i].id
  BY DEF ProvisionInv, GroupsInv, ToSet
<1>3. PICK b \in DOMAIN groups : groups[b] = madeGroups[j].id
  BY DEF ProvisionInv, GroupsInv, ToSet
<1>4. PlaceOf(madeGroups[i].id) = a /\ PlaceOf(madeGroups[j].id) = b
  BY <1>1, <1>2, <1>3, PlaceOfIs
<1>5. a < b
  BY <1>2, <1>3 DEF ProvisionInv, OrderInv
<1>6. QED
  BY <1>4, <1>5

LEMMA CleanAtTheEnd == ProvisionInv => CleanMeansTemplate
<1> DEFINE InOrderThere(place) ==
             /\ \A i, j \in DOMAIN place : i < j => place[i] < place[j]
             /\ \A i \in DOMAIN place : titleOf[groups[place[i]]] = TemplateGroups[i]
             /\ \A p \in DOMAIN groups :
                  groups[p] \notin Copy <=> \E i \in DOMAIN place : place[i] = p
<1> SUFFICES ASSUME ProvisionInv, step = "done", warnings = {}, groupsListed
             PROVE  /\ columns \ Copy = ToSet(TemplateColumns)
                    /\ \E place \in [DOMAIN TemplateGroups -> DOMAIN groups] : InOrderThere(place)
                    /\ \A g \in ToSet(groups) : titleOf[g] \in ToSet(TemplateGroups)
                    /\ {Seeds[s].name : s \in DOMAIN Seeds} \subseteq Names(items) \cup touched
  BY DEF CleanMeansTemplate
<1>1. columns \ Copy = ToSet(TemplateColumns)
  <2>1. \A i \in DOMAIN TemplateColumns : TemplateColumns[i] \in madeColumns
    BY DEF ProvisionInv, ColumnsAccounted, TriedColumns, Warned
  <2>2. ToSet(TemplateColumns) \subseteq columns
    BY <2>1 DEF ProvisionInv, ItemsInv, ToSet
  <2>3. Copy \cap ToSet(TemplateColumns) = {} /\ columns \subseteq ToSet(TemplateColumns) \cup Copy
    BY TemplateIsValid DEF ProvisionInv, ItemsInv
  <2>4. QED
    BY <2>2, <2>3
<1> DEFINE n == Len(TemplateGroups)
<1>2. /\ n \in Nat \ {0} /\ DOMAIN TemplateGroups = 1..n
      /\ groups \in Seq(Group) /\ IsInjective(groups)
      /\ DOMAIN madeGroups = 1..Len(madeGroups)
  BY TemplateFacts DEF ProvisionInv, ContentsOK, ProvisionOK, GroupsInv
<1>3. /\ Len(madeGroups) = n
      /\ \A k \in 1..n : madeGroups[k].title = TemplateGroups[k]
      /\ madeGroups[1].id = Default
      /\ ToSet(groups) \subseteq
           {Default} \cup Copy \cup {madeGroups[k].id : k \in DOMAIN madeGroups}
  <2>1. GroupsTried = n
    BY DEF GroupsTried
  <2>2. QED
    BY <1>2, <2>1 DEF ProvisionInv, CleanInv
<1>4. DOMAIN madeGroups = 1..n
  BY <1>2, <1>3
<1> HIDE DEF n
<1>5. \A k \in 1..n : /\ madeGroups[k].id \in ToSet(groups) \ Copy
                      /\ titleOf[madeGroups[k].id] = TemplateGroups[k]
  BY <1>3, <1>4 DEF ProvisionInv, GroupsInv
<1> DEFINE place == [k \in 1..n |-> PlaceOf(madeGroups[k].id)]
<1>6. \A k \in 1..n : place[k] \in DOMAIN groups /\ groups[place[k]] = madeGroups[k].id
  <2>1. ASSUME NEW k \in 1..n
        PROVE  PlaceOf(madeGroups[k].id) \in DOMAIN groups
               /\ groups[PlaceOf(madeGroups[k].id)] = madeGroups[k].id
    <3>1. PICK p \in DOMAIN groups : groups[p] = madeGroups[k].id
      BY <1>5 DEF ToSet
    <3>2. PlaceOf(madeGroups[k].id) = p
      BY <1>2, <3>1, PlaceOfIs
    <3>3. QED
      BY <3>1, <3>2
  <2>2. QED
    BY <2>1
<1>7. place \in [1..n -> DOMAIN groups] /\ DOMAIN place = 1..n
  BY <1>6
<1> HIDE DEF place
<1>8. InOrderThere(place)
  <2>1. \A i, j \in 1..n : i < j => place[i] < place[j]
    BY <1>4, <1>6 DEF ProvisionInv, OrderInv
  <2>2. \A i \in 1..n : titleOf[groups[place[i]]] = TemplateGroups[i]
    BY <1>5, <1>6
  <2>3. ASSUME NEW p \in DOMAIN groups
        PROVE  groups[p] \notin Copy <=> \E i \in 1..n : place[i] = p
    <3>1. ASSUME groups[p] \notin Copy PROVE \E i \in 1..n : place[i] = p
      <4>1. groups[p] \in ToSet(groups)
        BY DEF ToSet
      <4>2. PICK k \in 1..n : groups[p] = madeGroups[k].id
        BY <1>2, <1>3, <1>4, <3>1, <4>1
      <4>3. groups[place[k]] = groups[p] /\ place[k] \in DOMAIN groups
        BY <1>6, <4>2
      <4>4. place[k] = p
        BY <1>2, <4>3 DEF IsInjective
      <4>5. QED
        BY <4>4
    <3>2. ASSUME NEW k \in 1..n, place[k] = p PROVE groups[p] \notin Copy
      BY <1>5, <1>6, <3>2
    <3>3. QED
      BY <3>1, <3>2
  <2>4. QED
    BY <1>7, <2>1, <2>2, <2>3
<1>9. ASSUME NEW g \in ToSet(groups) PROVE titleOf[g] \in ToSet(TemplateGroups)
  <2>1. CASE g = Default
    <3>1. titleOf[g] = TemplateGroups[1] /\ 1 \in DOMAIN TemplateGroups
      BY <1>2, <1>3, <1>5, <2>1
    <3>2. QED
      BY <3>1 DEF ToSet
  <2>2. CASE g # Default
    BY <1>9, <2>2 DEF ProvisionInv, GroupsInv
  <2>3. QED
    BY <2>1, <2>2
<1>10. ASSUME NEW s \in DOMAIN Seeds PROVE Seeds[s].name \in Names(items) \cup touched
  <2>1. SeedMade(s)
    BY <1>10 DEF ProvisionInv, SeedsAccounted, TriedSeeds, Skipped, Warned
  <2>2. PICK k \in DOMAIN madeItems : madeItems[k].name = Seeds[s].name
    BY <2>1 DEF SeedMade, Names
  <2>3. madeItems[k].name \notin touched => madeItems[k] \in ToSet(items)
    BY DEF ProvisionInv, ItemsInv
  <2>4. QED
    BY <2>2, <2>3 DEF ToSet, Names
<1> HIDE DEF InOrderThere
<1>11. \E p \in [DOMAIN TemplateGroups -> DOMAIN groups] : InOrderThere(p)
  BY <1>2, <1>7, <1>8
<1>12. QED
  BY <1>1, <1>9, <1>10, <1>11

\* Whatever fails, each step of the template ends in the result or in a warning
\* (collaboration.go 329-381).
THEOREM NothingIsPassedOver == Spec => []EveryStepIsAccounted
BY ProvisioningIsInvariant, AccountedAtTheEnd, PTL

\* What the result names stays on the board while other users work on it.
THEOREM ResultStaysOnBoard == Spec => []ResultIsOnBoard
BY ProvisioningIsInvariant, OnBoardAlways, PTL

\* The made groups stand in the order of the template, whichever of them failed.
THEOREM GroupsStayInOrder == Spec => []GroupsKeepTemplateOrder
BY ProvisioningIsInvariant, OrderedAlways, PTL

\* A result without a warning means the whole template, in order; what an attempt
\* that was given up has made, before the end or after it, stands beside it.
THEOREM CleanIsTheTemplate == Spec => []CleanMeansTemplate
BY ProvisioningIsInvariant, CleanAtTheEnd, PTL

-----------------------------------------------------------------------------
\* A report on the board while it changes.

\* The items of the template that may have come onto the board, and those that
\* may have been there at any time, doubles included: no item comes twice.
TriedNames == {Seeds[i].name : i \in TriedSeeds}
Seen == touched \cup TriedNames \cup Doubled

Distinct(list) == \A i, j \in DOMAIN list : list[i].name = list[j].name => i = j

NamesInv ==
  /\ Distinct(items)
  /\ Names(items) \subseteq Seen
  /\ touched \subseteq OthersAdd \cup TriedNames \cup Doubled

\* What the call may read.
BoundsInv ==
  /\ IF reading \in {"idle", "failed"} THEN cap = 0 /\ pageCap = NoBound /\ pages = 0
     ELSE IF pageCap = NoBound THEN cap \in 1..ReportMax
     ELSE cap \in 1..InspectMax /\ pageCap \in 1..PagesMax /\ pages <= pageCap
  /\ Len(got) <= cap
  /\ reading = "paging" => Len(got) < cap /\ (pageCap # NoBound => pages < pageCap)
  /\ begun => limit \in 1..PageMax

\* What it has read, and what the cursor still has.
ReadInv ==
  /\ reading \in {"idle", "failed"} => ~begun
  /\ reading \in {"idle", "failed", "paging"} => ~truncated
  /\ reading = "done" => begun
  /\ ~begun => got = <<>> /\ pending = {} /\ pages = 0
  /\ Distinct(got)
  /\ pending \subseteq Seen
  /\ begun /\ reading = "paging" =>
       /\ ~cursor.none
       /\ IsInjective(cursor.rest)
       /\ ToSet(cursor.rest) \cap Names(got) = {}
       /\ pending \cap Names(items) \subseteq Names(got) \cup ToSet(cursor.rest)
  /\ reading = "done" /\ ~truncated => pending \cap Names(items) \subseteq Names(got)

\* On a board that stands still: the beginning of its items, in whole pages.
StillInv ==
  /\ reading \in {"idle", "failed"} => ~disturbed
  /\ reading = "paging" /\ ~disturbed =>
       /\ Len(got) <= Len(items)
       /\ \A k \in 1..Len(got) : got[k] = items[k]
       /\ begun =>
            /\ Len(cursor.rest) = Len(items) - Len(got)
            /\ \A k \in 1..Len(cursor.rest) : cursor.rest[k] = items[Len(got) + k].name
       /\ pageCap # NoBound => Len(got) = pages * PageMax

ReportInv == SnapshotOK /\ NamesInv /\ BoundsInv /\ ReadInv /\ StillInv

LEMMA LeastExists ==
  ASSUME NEW S \in SUBSET Nat, S # {}
  PROVE  \E k \in S : \A j \in S : k <= j
<1> DEFINE Less == OpToRel(<, Nat)
<1>1. PICK x \in S : \A y \in S : <<y, x>> \notin Less
  <2>1. IsWellFoundedOn(Less, Nat)
    BY NatLessThanWellFounded
  <2> HIDE DEF Less
  <2>2. QED
    BY <2>1, WFMin
<1>2. \A y \in Nat : y < x => <<y, x>> \in Less
  BY <1>1 DEF OpToRel
<1> HIDE DEF Less
<1>3. \A y \in S : y \in Nat /\ x \in Nat
  OBVIOUS
<1>4. \A y \in S : ~(y < x)
  BY <1>1, <1>2, <1>3
<1>5. QED
  BY <1>3, <1>4

\* A finite set of places can be listed from the first to the last.
Rising(f) == \A i, j \in DOMAIN f : i < j => f[i] < f[j]

LEMMA RisingExists ==
  ASSUME NEW n \in Nat, NEW S \in SUBSET (1..n)
  PROVE  \E f \in [1..Cardinality(S) -> S] : Rising(f)
<1> DEFINE Low(m) == S \cap (1..m)
           Bad == {m \in Nat : ~ \E f \in [1..Cardinality(Low(m)) -> Low(m)] : Rising(f)}
<1>1. SUFFICES Bad = {}
  <2>1. Low(n) = S
    OBVIOUS
  <2>2. QED
    BY <2>1
<1>2. SUFFICES ASSUME NEW m \in Bad, \A k \in Bad : m <= k PROVE FALSE
  BY LeastExists
<1>m. m \in Nat /\ \A k \in 0..(m - 1) : k \notin Bad
  <2>1. m \in Nat
    OBVIOUS
  <2> HIDE DEF Bad
  <2>2. QED
    BY <1>2, <2>1
<1>3. CASE m = 0
  <2>1. Low(m) = {} /\ Cardinality(Low(m)) = 0
    BY <1>3, FS_EmptySet
  <2> DEFINE f == [i \in {} |-> i]
  <2>2. Rising(f) /\ f \in [{} -> {}] /\ 1..0 = {}
    BY DEF Rising
  <2>3. f \in [1..Cardinality(Low(m)) -> Low(m)]
    BY <2>1, <2>2
  <2> HIDE DEF f, Low
  <2>4. QED
    BY <2>2, <2>3
<1>4. CASE m # 0
  <2> DEFINE T == Low(m - 1)
             c == Cardinality(T)
  <2>1. m - 1 \in Nat /\ m - 1 \notin Bad /\ m \in Nat
    <3>1. m - 1 \in 0..(m - 1)
      BY <1>m, <1>4
    <3> HIDE DEF Bad
    <3>2. QED
      BY <1>m, <3>1
  <2>2. PICK g \in [1..c -> T] : Rising(g)
    BY <2>1
  <2>3. IsFiniteSet(T) /\ c \in Nat
    <3>1. IsFiniteSet(1..(m - 1)) /\ T \in SUBSET (1..(m - 1))
      BY <2>1, FS_Interval
    <3>2. QED
      BY <3>1, FS_Subset, FS_CardinalityType
  <2>4. CASE m \notin S
    <3>1. Low(m) = T
      BY <2>1, <2>4
    <3>2. QED
      BY <2>2, <3>1
  <2>5. CASE m \in S
    <3>1. Low(m) = T \cup {m} /\ m \notin T
      BY <2>1, <2>5
    <3>2. Cardinality(Low(m)) = c + 1
      BY <2>3, <3>1, FS_AddElement
    <3> DEFINE f == [i \in 1..(c + 1) |-> IF i <= c THEN g[i] ELSE m]
    <3>3. f \in [1..(c + 1) -> Low(m)]
      <4>1. ASSUME NEW i \in 1..(c + 1) PROVE (IF i <= c THEN g[i] ELSE m) \in Low(m)
        <5> HIDE DEF T, c
        <5>1. i <= c => i \in 1..c
          BY <2>3
        <5>2. QED
          BY <2>2, <3>1, <5>1
      <4> HIDE DEF Low
      <4>2. QED
        BY <4>1
    <3>4. ASSUME NEW i \in 1..(c + 1), NEW j \in 1..(c + 1), i < j PROVE f[i] < f[j]
      <4>1. i \in 1..c /\ f[i] = g[i]
        BY <2>3, <3>4
      <4>2. g[i] \in T
        BY <2>2, <4>1
      <4>3. CASE j <= c
        <5>1. f[j] = g[j] /\ j \in 1..c
          BY <2>3, <4>3
        <5> HIDE DEF T, c, f
        <5>2. QED
          BY <2>2, <3>4, <4>1, <5>1 DEF Rising
      <4>4. CASE ~(j <= c)
        <5>1. f[j] = m /\ g[i] \in 1..(m - 1)
          BY <4>2, <4>4
        <5> HIDE DEF T, c, f
        <5>2. QED
          BY <2>1, <4>1, <5>1
      <4>5. QED
        BY <4>3, <4>4
    <3>5. Rising(f)
      BY <3>4 DEF Rising
    <3>6. f \in [1..Cardinality(Low(m)) -> Low(m)]
      BY <3>2, <3>3
    <3> HIDE DEF f, Low
    <3>7. QED
      BY <3>5, <3>6
  <2>6. QED
    BY <2>4, <2>5
<1>5. QED
  BY <1>3, <1>4

LEMMA InOrderIs ==
  ASSUME NEW n \in Nat, NEW S \in SUBSET (1..n)
  PROVE  /\ IsFiniteSet(S) /\ Cardinality(S) \in 0..n
         /\ InOrder(S) \in [1..Cardinality(S) -> S]
         /\ Rising(InOrder(S))
         /\ \A x \in S : \E i \in 1..Cardinality(S) : InOrder(S)[i] = x
<1> DEFINE f == InOrder(S)
           c == Cardinality(S)
<1>1. IsFiniteSet(S) /\ c \in Nat /\ c <= n
  <2>1. IsFiniteSet(1..n) /\ Cardinality(1..n) = n
    BY FS_Interval
  <2>2. QED
    BY <2>1, FS_Subset, FS_CardinalityType
<1>2. InOrder(S) = CHOOSE g \in [1..c -> S] : Rising(g)
  BY DEF InOrder, Rising
<1>3. f \in [1..c -> S] /\ Rising(f)
  BY <1>2, RisingExists
<1> HIDE DEF f
<1>4. f \in Injection(1..c, S)
  <2>1. ASSUME NEW i \in 1..c, NEW j \in 1..c, f[i] = f[j] PROVE i = j
    <3>1. f[i] \in Int /\ f[j] \in Int
      <4>1. f[i] \in S /\ f[j] \in S
        BY <1>3
      <4>2. \A s \in S : s \in Int
        OBVIOUS
      <4>3. QED
        BY <4>1, <4>2
    <3>2. ~(i < j) /\ ~(j < i)
      BY <1>3, <2>1, <3>1 DEF Rising
    <3>3. QED
      BY <1>1, <3>2
  <2>2. QED
    BY <1>3, <2>1 DEF Injection, IsInjective
<1>5. Cardinality(1..c) = c
  BY <1>1, FS_Interval
<1>6. f \in Surjection(1..c, S)
  BY <1>1, <1>4, <1>5, FS_Injection
<1>7. \A x \in S : \E i \in 1..c : f[i] = x
  BY <1>6 DEF Surjection
<1>8. QED
  BY <1>1, <1>3, <1>7 DEF f

\* Only one rising function takes 1..n to itself.
LEMMA RisingIsIdentity ==
  ASSUME NEW n \in Nat, NEW f \in [1..n -> 1..n], Rising(f)
  PROVE  \A i \in 1..n : f[i] = i
<1>1. \A i, j \in 1..n : i < j => f[i] < f[j]
  BY DEF Rising
<1>2. \A i \in 1..n : f[i] \in 1..n
  OBVIOUS
<1>3. \A i \in 1..n : f[i] >= i
  <2> DEFINE Bad == {i \in 1..n : f[i] < i}
  <2>1. SUFFICES Bad = {}
    BY <1>2
  <2>0. Bad \in SUBSET Nat
    OBVIOUS
  <2>2. SUFFICES ASSUME NEW i \in Bad, \A j \in Bad : i <= j PROVE FALSE
    <3> HIDE DEF Bad
    <3>1. QED
      BY <2>0, LeastExists
  <2>3. i \in 1..n /\ f[i] < i /\ f[i] \in 1..n
    BY <1>2
  <2>4. i - 1 \in 1..n /\ f[i - 1] < f[i] /\ f[i - 1] \in 1..n
    BY <1>1, <1>2, <2>3
  <2>5. i - 1 \notin Bad
    <3> HIDE DEF Bad
    <3>1. QED
      BY <2>2, <2>3
  <2>6. ~(f[i - 1] < i - 1)
    BY <2>4, <2>5
  <2>7. QED
    BY <2>3, <2>4, <2>6
<1>4. \A i \in 1..n : f[i] <= i
  <2> DEFINE Bad == {d \in 0..(n - 1) : f[n - d] > n - d}
  <2>1. SUFFICES Bad = {}
    <3>1. ASSUME NEW i \in 1..n, Bad = {} PROVE f[i] <= i
      <4>1. n - i \in 0..(n - 1) /\ n - (n - i) = i
        OBVIOUS
      <4>2. ~(f[n - (n - i)] > n - (n - i))
        BY <3>1, <4>1
      <4>3. QED
        BY <1>2, <4>1, <4>2
    <3>2. QED
      BY <3>1
  <2>0. Bad \in SUBSET Nat
    OBVIOUS
  <2>2. SUFFICES ASSUME NEW d \in Bad, \A j \in Bad : d <= j PROVE FALSE
    <3> HIDE DEF Bad
    <3>1. QED
      BY <2>0, LeastExists
  <2> DEFINE i == n - d
  <2>3. d \in 0..(n - 1) /\ i \in 1..n /\ f[i] > i /\ f[i] \in 1..n
    BY <1>2
  <2>4. i + 1 \in 1..n /\ f[i] < f[i + 1] /\ f[i + 1] \in 1..n
    BY <1>1, <1>2, <2>3
  <2>5. d - 1 \notin Bad /\ d - 1 \in 0..(n - 1)
    <3>1. d - 1 \in 0..(n - 1)
      BY <2>3, <2>4
    <3> HIDE DEF Bad
    <3>2. QED
      BY <2>2, <2>3, <3>1
  <2>6. n - (d - 1) = i + 1
    BY <2>3
  <2>7. ~(f[i + 1] > i + 1)
    BY <2>5, <2>6
  <2>8. QED
    BY <2>3, <2>4, <2>7
<1>5. QED
  BY <1>2, <1>3, <1>4

\* What monday delivers of an item that is on the board.
LEMMA NowIs ==
  ASSUME items \in Seq(Entry), NEW k \in DOMAIN items
  PROVE  /\ Now(items[k].name) \in ToSet(items)
         /\ Now(items[k].name).name = items[k].name
<1> DEFINE n == items[k].name
           I == {i \in 1..Len(items) : items[i].name = n}
<1>1. Len(items) \in Nat /\ DOMAIN items = 1..Len(items)
  BY LenProperties
<1>2. I \in SUBSET Nat /\ k \in I
  BY <1>1
<1>3. Now(n) = items[IF I # {} THEN Min(I) ELSE 0]
  BY DEF Now, SelectInSeq
<1>4. PICK x \in I : \A y \in I : x <= y
  <2> HIDE DEF I
  <2>1. QED
    BY <1>2, LeastExists
<1>5. Min(I) = x
  <2>1. \A i \in I : i \in Int
    BY <1>2
  <2> HIDE DEF I
  <2>2. QED
    BY <1>4, <2>1, LeastIsMin
<1>6. x \in DOMAIN items /\ items[x].name = n
  BY <1>1, <1>4
<1>7. Now(n) = items[x]
  <2> HIDE DEF I, n
  <2>1. QED
    BY <1>2, <1>3, <1>5
<1> HIDE DEF n
<1>8. Now(n) \in ToSet(items) /\ Now(n).name = n
  BY <1>6, <1>7 DEF ToSet
<1>9. QED
  BY <1>8 DEF n

LEMMA PresentIs ==
  ASSUME items \in Seq(Entry), NEW names \in Seq(Name), IsInjective(names)
  PROVE  LET p == Present(names) IN
           /\ p \in Seq(Entry) /\ Len(p) \in 0..Len(names) /\ DOMAIN p = 1..Len(p)
           /\ \A k \in 1..Len(p) : p[k] \in ToSet(items) /\ p[k].name \in ToSet(names)
           /\ \A i, j \in 1..Len(p) : p[i].name = p[j].name => i = j
           /\ ToSet(names) \cap Names(items) \subseteq Names(p)
           /\ ToSet(names) \subseteq Names(items) =>
                Len(p) = Len(names) /\ \A k \in 1..Len(p) : p[k].name = names[k]
<1> DEFINE p == Present(names)
           places == {k \in DOMAIN names : names[k] \in Names(items)}
           c == Cardinality(places)
           f == InOrder(places)
<1>1. /\ Len(names) \in Nat /\ DOMAIN names = 1..Len(names)
      /\ Len(items) \in Nat /\ DOMAIN items = 1..Len(items)
  BY LenProperties
<1>2. places \in SUBSET (1..Len(names))
  BY <1>1
<1>3. p = [i \in 1..c |-> Now(names[f[i]])]
  BY DEF Present
<1>4. \A k \in places : k \in DOMAIN names /\ names[k] \in Names(items)
  OBVIOUS
<1>5. \A k \in DOMAIN names : names[k] \in Names(items) => k \in places
  OBVIOUS
<1> HIDE DEF places, f, p
<1>6. /\ IsFiniteSet(places) /\ c \in 0..Len(names)
      /\ f \in [1..c -> places] /\ Rising(f)
      /\ \A x \in places : \E i \in 1..c : f[i] = x
  BY <1>1, <1>2, InOrderIs DEF f
<1> HIDE DEF c
<1>7. ASSUME NEW i \in 1..c
      PROVE  /\ f[i] \in DOMAIN names /\ f[i] \in 1..Len(names)
             /\ p[i] = Now(names[f[i]])
             /\ p[i] \in ToSet(items) /\ p[i].name = names[f[i]]
  <2>1. f[i] \in DOMAIN names /\ names[f[i]] \in Names(items)
    BY <1>4, <1>6
  <2>2. PICK k \in DOMAIN items : names[f[i]] = items[k].name
    BY <2>1 DEF Names
  <2>3. p[i] = Now(names[f[i]])
    BY <1>3
  <2>4. QED
    BY <1>1, <2>1, <2>2, <2>3, NowIs
<1>8. p \in Seq(Entry) /\ Len(p) = c /\ DOMAIN p = 1..c
  <2>1. \A i \in 1..c : p[i] \in Entry
    <3>1. \A e \in ToSet(items) : e \in Entry
      BY <1>1, ElementOfSeq DEF ToSet
    <3>2. QED
      BY <1>7, <3>1
  <2>2. p \in [1..c -> Entry]
    BY <1>3, <2>1
  <2>3. c \in Nat
    BY <1>6
  <2>4. QED
    BY <2>2, <2>3
<1>9. \A i \in 1..c : p[i].name \in ToSet(names)
  BY <1>7 DEF ToSet
<1>10. ASSUME NEW i \in 1..c, NEW j \in 1..c, p[i].name = p[j].name PROVE i = j
  <2>1. f[i] = f[j] /\ f[i] \in Int
    BY <1>7, <1>10 DEF IsInjective
  <2>2. ~(i < j) /\ ~(j < i)
    BY <1>6, <2>1 DEF Rising
  <2>3. QED
    BY <1>6, <2>2
<1>11. ASSUME NEW n \in ToSet(names) \cap Names(items) PROVE n \in Names(p)
  <2>1. PICK k \in DOMAIN names : names[k] = n
    BY <1>11 DEF ToSet
  <2>2. PICK i \in 1..c : f[i] = k
    BY <1>5, <1>6, <1>11, <2>1
  <2>3. i \in DOMAIN p /\ p[i].name = n
    BY <1>7, <1>8, <2>1, <2>2
  <2>4. QED
    BY <2>3 DEF Names
<1>12. ASSUME ToSet(names) \subseteq Names(items)
       PROVE  c = Len(names) /\ \A k \in 1..c : p[k].name = names[k]
  <2>1. places = 1..Len(names)
    BY <1>1, <1>2, <1>5, <1>12 DEF ToSet
  <2>2. c = Len(names)
    <3> DEFINE l == Len(names)
    <3>1. Cardinality(1..l) = l
      <4>1. l \in Nat
        BY <1>1
      <4> HIDE DEF l
      <4>2. QED
        BY <4>1, FS_Interval
    <3>2. QED
      BY <2>1, <3>1 DEF c
  <2>3. \A k \in 1..c : f[k] = k
    BY <1>1, <1>6, <2>1, <2>2, RisingIsIdentity
  <2>4. QED
    BY <1>7, <2>2, <2>3
<1>13. QED
  BY <1>6, <1>7, <1>8, <1>9, <1>10, <1>11, <1>12 DEF p

-----------------------------------------------------------------------------
\* The names on the board.

LEMMA AppendNames ==
  ASSUME NEW list \in Seq(Entry), Distinct(list), NEW e \in Entry, e.name \notin Names(list)
  PROVE  Distinct(Append(list, e)) /\ Names(Append(list, e)) = Names(list) \cup {e.name}
<1> DEFINE t == Append(list, e)
           n == Len(list)
<1>1. n \in Nat /\ DOMAIN list = 1..n
  BY LenProperties
<1>2. DOMAIN t = 1..(n + 1) /\ t[n + 1] = e /\ \A i \in 1..n : t[i] = list[i]
  BY <1>1
<1> HIDE DEF t, n
<1>3. Names(t) = Names(list) \cup {e.name}
  BY <1>1, <1>2 DEF Names
<1>4. ASSUME NEW i \in DOMAIN t, NEW j \in DOMAIN t, t[i].name = t[j].name PROVE i = j
  <2>1. \A k \in 1..n : list[k].name # e.name
    BY <1>1 DEF Names
  <2>2. i \in 1..n \/ i = n + 1
    BY <1>1, <1>2
  <2>3. j \in 1..n \/ j = n + 1
    BY <1>1, <1>2
  <2>4. QED
    BY <1>1, <1>2, <1>4, <2>1, <2>2, <2>3 DEF Distinct
<1>5. Distinct(t)
  BY <1>4 DEF Distinct
<1>6. QED
  BY <1>3, <1>5 DEF t

LEMMA RemoveNames ==
  ASSUME NEW list \in Seq(Entry), Distinct(list), NEW p \in DOMAIN list
  PROVE  Distinct(RemoveAt(list, p)) /\ Names(RemoveAt(list, p)) \subseteq Names(list)
<1> DEFINE t == RemoveAt(list, p)
           n == Len(list)
           old == [i \in 1..(n - 1) |-> IF i < p THEN i ELSE i + 1]
<1>1. n \in Nat /\ DOMAIN list = 1..n /\ p \in 1..n
  BY LenProperties
<1>2. /\ DOMAIN t = 1..(n - 1)
      /\ \A i \in 1..(p - 1) : t[i] = list[i]
      /\ \A i \in p..(n - 1) : t[i] = list[i + 1]
  BY <1>1, RemoveAtIs
<1> HIDE DEF t, n
<1>3. \A i \in DOMAIN t : old[i] \in DOMAIN list /\ t[i] = list[old[i]]
  BY <1>1, <1>2
<1>4. \A i, j \in DOMAIN t : old[i] = old[j] => i = j
  BY <1>1, <1>2
<1> HIDE DEF old
<1>5. QED
  BY <1>3, <1>4 DEF Distinct, Names, t

\* What a step does to the board, for someone who reads it by name.
LEMMA OthersMoveNames ==
  ASSUME ProvisionInv, NamesInv, OthersAct, UNCHANGED provisioning
  PROVE  /\ items' \in Seq(Entry) /\ NamesInv' /\ Seen \subseteq Seen'
         /\ Names(items') \cap Seen \subseteq Names(items)
<1>1. /\ items \in Seq(Entry) /\ Len(items) \in Nat /\ DOMAIN items = 1..Len(items)
      /\ groups \in Seq(Group) /\ touched \subseteq Name
  BY DEF ProvisionInv, ContentsOK
<1>2. TriedNames' = TriedNames /\ Doubled' = Doubled
  BY OthersTouch DEF ProvisionInv, provisioning, TriedNames, TriedSeeds, Doubled
<1>3. items' \in Seq(Entry)
  BY OthersTouch DEF ProvisionInv
<1>4. CASE OthersAddItem
  <2>1. PICK n \in OthersAdd \ touched :
          /\ items' = Append(items, [name |-> n, group |-> groups[1]])
          /\ touched' = touched \cup {n}
    BY <1>4 DEF OthersAddItem
  <2> DEFINE e == [name |-> n, group |-> groups[1]]
  <2>2. e \in Entry /\ e.name = n
    <3>1. groups[1] \in Group
      BY <1>1, <1>4 DEF OthersAddItem
    <3>2. n \in Name
      BY ContentNames
    <3>3. QED
      BY <3>1, <3>2 DEF Entry
  <2>3. items' = Append(items, e)
    BY <2>1
  <2> HIDE DEF e
  <2>4. n \notin TriedNames
    BY TriedInRange, TemplateFacts, TemplateIsValid DEF TriedNames, ProvisionInv, TriedSeeds
  <2>5. n \notin Seen /\ n \notin Names(items)
    BY <2>1, <2>4, ContentNames DEF NamesInv, Seen, Doubled
  <2>6. Distinct(items') /\ Names(items') = Names(items) \cup {n}
    BY <1>1, <2>2, <2>3, <2>5, AppendNames DEF NamesInv
  <2>7. Seen' = Seen \cup {n}
    BY <1>2, <2>1 DEF Seen
  <2>8. QED
    BY <1>2, <1>3, <2>1, <2>5, <2>6, <2>7 DEF NamesInv
<1>5. CASE OthersArchiveItem
  <2>1. PICK k \in DOMAIN items :
          /\ items' = RemoveAt(items, k)
          /\ touched' = touched \cup {items[k].name}
    BY <1>5 DEF OthersArchiveItem
  <2>2. Distinct(items') /\ Names(items') \subseteq Names(items)
    BY <1>1, <2>1, RemoveNames DEF NamesInv
  <2>3. items[k].name \in Seen
    BY DEF NamesInv, Names
  <2>4. QED
    BY <1>2, <1>3, <2>1, <2>2, <2>3 DEF NamesInv, Seen
<1>6. CASE OthersMoveItem
  <2>1. PICK k \in DOMAIN items, g \in ToSet(groups) :
          /\ items' = [items EXCEPT ![k].group = g]
          /\ touched' = touched \cup {items[k].name}
    BY <1>6 DEF OthersMoveItem
  <2>2. DOMAIN items' = DOMAIN items /\ \A i \in DOMAIN items : items'[i].name = items[i].name
    <3>1. \A i \in DOMAIN items : items[i] \in [name : Name, group : Group]
      BY <1>1, ElementOfSeq DEF Entry
    <3>2. QED
      BY <1>1, <2>1, <3>1
  <2>3. Distinct(items') /\ Names(items') = Names(items)
    BY <2>2 DEF NamesInv, Distinct, Names
  <2>4. items[k].name \in Seen
    BY DEF NamesInv, Names
  <2>5. QED
    BY <1>2, <1>3, <2>1, <2>3, <2>4 DEF NamesInv, Seen
<1>7. QED
  BY <1>4, <1>5, <1>6 DEF OthersAct

LEMMA ProvisionMovesNames ==
  ASSUME ProvisionInv, NamesInv, ProvisionNext
  PROVE  /\ items' \in Seq(Entry) /\ NamesInv' /\ Seen \subseteq Seen'
         /\ Names(items') \cap Seen \subseteq Names(items)
<1>1. items \in Seq(Entry) /\ touched' = touched /\ Doubled' = Doubled
  BY DEF Doubled, ProvisionInv, ContentsOK, ProvisionNext, MakeBoard, MakeColumn, ColumnFails,
         ListGroups, MakeGroup, GroupFails, ListSeedColumns, PlantSeed, SeedFails, Finish,
         contents
<1>2. items' \in Seq(Entry)
  BY TypesKept DEF ContentsOK
<1>3. TriedSeeds \subseteq TriedSeeds'
  <2>1. CASE PlantSeed \/ SeedFails
    BY <2>1, SeedsTried
  <2>2. CASE ~(PlantSeed \/ SeedFails)
    <3>1. CASE step = "done"
      BY <3>1 DEF ProvisionNext, MakeBoard, MakeColumn, ColumnFails, AtColumn, ListGroups,
                  MakeGroup, GroupFails, AtGroup, ListSeedColumns, PlantSeed, SeedFails,
                  AtSeed, Finish
    <3>2. CASE step = "seeds"
      <4>1. Finish
        BY <2>2, <3>2 DEF ProvisionNext, MakeBoard, MakeColumn, ColumnFails, AtColumn,
                          ListGroups, MakeGroup, GroupFails, AtGroup, ListSeedColumns
      <4>2. at - 1 \in Nat /\ at - 1 <= Len(Seeds) /\ step' = "done"
        BY <3>2, <4>1, TemplateFacts DEF Finish, ProvisionInv, ProvisionOK, Placed
      <4>3. QED
        BY <3>2, <4>2, TemplateFacts DEF TriedSeeds
    <3>3. CASE step \notin {"seeds", "done"}
      BY <3>3 DEF TriedSeeds
    <3>4. QED
      BY <3>1, <3>2, <3>3
  <2>3. QED
    BY <2>1, <2>2
<1>4. TriedNames \subseteq TriedNames' /\ Seen \subseteq Seen'
  BY <1>1, <1>3 DEF TriedNames, Seen
<1>5. CASE items' = items
  BY <1>1, <1>2, <1>4, <1>5 DEF NamesInv
<1>6. CASE items' # items
  <2>1. /\ PlantSeed \/ SeedFails
        /\ items' = Append(items, SeedEntry) /\ AtSeed
    BY <1>6 DEF ProvisionNext, MakeBoard, MakeColumn, ColumnFails, ListGroups, MakeGroup,
                GroupFails, ListSeedColumns, PlantSeed, SeedFails, Finish, contents
  <2>2. SeedEntry \in Entry
    BY <2>1, PlantedTypes DEF ProvisionInv
  <2>3. /\ TriedSeeds' = TriedSeeds \cup {at}
        /\ at \in DOMAIN Seeds \ TriedSeeds
    BY <2>1, SeedsTried
  <2> DEFINE n == SeedEntry.name
  <2>4. n = Seeds[at].name
    BY DEF SeedEntry
  <2>5. n \notin TriedNames
    BY <2>3, <2>4, TriedInRange, TemplateFacts DEF TriedNames
  <2>6. n \notin touched /\ n \notin Doubled
    BY <2>3, <2>4, <2>5, TemplateIsValid DEF NamesInv, Doubled
  <2>7. n \notin Names(items) /\ n \notin Seen
    BY <2>5, <2>6 DEF NamesInv, Seen
  <2>8. Distinct(items') /\ Names(items') = Names(items) \cup {n}
    BY <1>1, <2>1, <2>2, <2>7, AppendNames DEF NamesInv
  <2>9. TriedNames' = TriedNames \cup {n}
    BY <2>3, <2>4 DEF TriedNames
  <2> HIDE DEF n
  <2>10. QED
    BY <1>1, <1>2, <1>4, <2>7, <2>8, <2>9 DEF NamesInv, Seen
<1>7. QED
  BY <1>5, <1>6

LEMMA LateMovesNames ==
  ASSUME ProvisionInv, NamesInv, Abandon \/ CarryOut
  PROVE  /\ items' \in Seq(Entry) /\ NamesInv' /\ Seen \subseteq Seen'
         /\ Names(items') \cap Seen \subseteq Names(items)
<1>1. /\ items \in Seq(Entry) /\ late \in [Copy -> Attempt]
      /\ items' \in Seq(Entry) /\ ProvisionInv'
  BY AbandonKeeps, CarryOutKeeps DEF ProvisionInv, ContentsOK
<1>2. TriedNames' = TriedNames /\ touched' = touched
  BY DEF Abandon, CarryOut, provisioning, TriedNames, TriedSeeds
<1>3. CASE Abandon
  <2>1. items' = items
    BY <1>3 DEF Abandon
  <2>2. Doubled' = Doubled
    BY <1>1, <1>3 DEF Abandon, Doubled, Unsent
  <2>3. QED
    BY <1>1, <1>2, <2>1, <2>2 DEF NamesInv, Seen
<1>4. CASE CarryOut
  <2>1. PICK c \in Copy :
          /\ late[c].of \in {"column", "group", "seed"}
          /\ late' = [late EXCEPT ![c] = Settled]
          /\ \/ items' = items
             \/ \E g : items' = Append(items, [name |-> c, group |-> g])
    BY <1>4 DEF CarryOut
  <2>2. c \notin Doubled /\ Doubled' = Doubled \cup {c}
    <3>1. \A d \in Copy : late'[d].of = "settled" <=> (late[d].of = "settled" \/ d = c)
      BY <1>1, <2>1 DEF Settled
    <3>2. QED
      BY <2>1, <3>1 DEF Doubled
  <2>3. c \notin Seen /\ c \notin Names(items)
    <3>1. c \notin TriedNames
      BY TriedInRange, TemplateIsValid DEF TriedNames
    <3>2. c \notin OthersAdd
      BY ContentNames
    <3>3. QED
      BY <2>2, <3>1, <3>2 DEF NamesInv, Seen
  <2>4. CASE items' = items
    BY <1>1, <1>2, <2>2, <2>4 DEF NamesInv, Seen
  <2>5. CASE \E g : items' = Append(items, [name |-> c, group |-> g])
    <3>1. PICK g : items' = Append(items, [name |-> c, group |-> g])
      BY <2>5
    <3> DEFINE e == [name |-> c, group |-> g]
    <3>2. items' = Append(items, e) /\ e.name = c
      BY <3>1
    <3> HIDE DEF e
    <3>3. e \in Entry
      <4>1. Len(items') = Len(items) + 1 /\ items'[Len(items) + 1] = e /\ Len(items) \in Nat
        BY <1>1, <3>2
      <4>2. QED
        BY <1>1, <4>1, ElementOfSeq
    <3>4. Distinct(items') /\ Names(items') = Names(items) \cup {c}
      BY <1>1, <2>3, <3>2, <3>3, AppendNames DEF NamesInv
    <3>5. QED
      BY <1>1, <1>2, <2>2, <2>3, <3>4 DEF NamesInv, Seen
  <2>6. QED
    BY <2>1, <2>4, <2>5
<1>5. QED
  BY <1>3, <1>4


-----------------------------------------------------------------------------
\* Reading a page.

LEMMA SplitIs ==
  ASSUME NEW S, NEW a \in Seq(S), IsInjective(a), NEW m \in 0..Len(a)
  PROVE  LET b == SubSeq(a, 1, m)
             c == SubSeq(a, m + 1, Len(a))
         IN /\ b \in Seq(S) /\ Len(b) = m /\ IsInjective(b)
            /\ c \in Seq(S) /\ Len(c) = Len(a) - m /\ IsInjective(c)
            /\ \A k \in 1..m : b[k] = a[k]
            /\ \A k \in 1..(Len(a) - m) : c[k] = a[m + k]
            /\ ToSet(b) \cap ToSet(c) = {} /\ ToSet(b) \cup ToSet(c) = ToSet(a)
<1> DEFINE b == SubSeq(a, 1, m)
           c == SubSeq(a, m + 1, Len(a))
           n == Len(a)
<1>1. n \in Nat /\ DOMAIN a = 1..n /\ m \in 0..n
  BY LenProperties
<1>2. b \in Seq(S) /\ Len(b) = m /\ \A k \in 1..m : b[k] = a[k]
  BY <1>1, SubSeqProperties
<1>3. c \in Seq(S) /\ Len(c) = n - m /\ \A k \in 1..(n - m) : c[k] = a[m + k]
  <2> DEFINE p == m + 1
  <2>1. p \in Int /\ n \in Int /\ (\A i \in p..n : a[i] \in S)
    BY <1>1
  <2>2. (IF p <= n THEN n - p + 1 ELSE 0) = n - m /\ n - p + 1 = n - m
    <3> HIDE DEF n
    <3>1. m \in Int /\ n \in Int /\ m <= n
      BY <1>1
    <3>2. QED
      BY <3>1
  <2>3. \A k \in 1..(n - m) : p + k - 1 = m + k
    BY <1>1
  <2>4. c = SubSeq(a, p, n)
    OBVIOUS
  <2> HIDE DEF p, n, c
  <2>5. /\ c \in Seq(S)
        /\ Len(c) = IF p <= n THEN n - p + 1 ELSE 0
        /\ \A k \in 1..(n - p + 1) : c[k] = a[p + k - 1]
    BY <2>1, <2>4, SubSeqProperties
  <2>6. QED
    BY <2>2, <2>3, <2>5
<1>4. DOMAIN b = 1..m /\ DOMAIN c = 1..(n - m)
  BY <1>2, <1>3, LenProperties
<1> HIDE DEF b, c, n
<1>5. \A i, j \in 1..n : a[i] = a[j] => i = j
  BY <1>1 DEF IsInjective
<1>6. IsInjective(b)
  BY <1>1, <1>2, <1>4, <1>5 DEF IsInjective
<1>7. IsInjective(c)
  <2>1. \A k \in 1..(n - m) : m + k \in 1..n
    BY <1>1
  <2>2. \A i, j \in 1..(n - m) : m + i = m + j => i = j
    BY <1>1
  <2>3. QED
    BY <1>3, <1>4, <1>5, <2>1, <2>2 DEF IsInjective
<1>8. ToSet(b) \cap ToSet(c) = {}
  <2>1. ASSUME NEW i \in 1..m, NEW k \in 1..(n - m) PROVE a[i] # a[m + k]
    <3>1. i \in 1..n /\ m + k \in 1..n /\ i # m + k
      BY <1>1
    <3>2. QED
      BY <1>5, <3>1
  <2>2. QED
    BY <1>2, <1>3, <1>4, <2>1 DEF ToSet
<1>9. ToSet(b) \cup ToSet(c) = ToSet(a)
  <2>1. \A i \in 1..n : i \in 1..m \/ (i - m \in 1..(n - m) /\ m + (i - m) = i)
    BY <1>1
  <2>2. \A k \in 1..(n - m) : m + k \in 1..n
    BY <1>1
  <2>3. \A k \in 1..m : k \in 1..n
    BY <1>1
  <2>4. ASSUME NEW i \in 1..n PROVE a[i] \in ToSet(b) \cup ToSet(c)
    <3>1. CASE i \in 1..m
      BY <1>2, <1>4, <3>1 DEF ToSet
    <3>2. CASE i - m \in 1..(n - m) /\ m + (i - m) = i
      <4> DEFINE k == i - m
      <4>1. k \in 1..(n - m) /\ c[k] = a[i]
        BY <1>3, <3>2
      <4> HIDE DEF k
      <4>2. QED
        BY <1>4, <4>1 DEF ToSet
    <3>3. QED
      BY <2>1, <3>1, <3>2
  <2>5. /\ \A k \in 1..m : b[k] \in ToSet(a)
        /\ \A k \in 1..(n - m) : c[k] \in ToSet(a)
    BY <1>1, <1>2, <1>3, <2>2, <2>3 DEF ToSet
  <2>6. QED
    BY <1>1, <1>4, <2>4, <2>5 DEF ToSet
<1>10. QED
  BY <1>2, <1>3, <1>6, <1>7, <1>8, <1>9 DEF b, c, n

LEMMA BoundFacts ==
  /\ PageMax \in Nat \ {0} /\ ReportMax \in Nat \ {0}
  /\ InspectMax \in Nat \ {0} /\ PagesMax \in Nat \ {0}
BY PagesAreBounded

LEMMA PageSizeIs ==
  ASSUME ReportInv, reading = "paging"
  PROVE  /\ PageSize \in 1..PageMax
         /\ Len(got) \in Nat /\ cap \in Nat /\ Len(got) + PageSize <= cap
         /\ PageSize = PageMax \/ Len(got) + PageSize = cap
<1>1. Len(got) \in Nat /\ cap \in Nat /\ Len(got) < cap
  BY DEF ReportInv, SnapshotOK, BoundsInv
<1>2. QED
  BY <1>1, BoundFacts DEF PageSize, Smaller

\* The names that the next page is cut from.
LEMMA AheadIs ==
  ASSUME ProvisionInv, ReportInv, reading = "paging"
  PROVE  /\ Ahead \in Seq(Name) /\ IsInjective(Ahead)
         /\ ToSet(Ahead) \cap Names(got) = {}
         /\ LET now == IF begun THEN pending ELSE ToSet(Ahead) IN
              /\ now \subseteq Seen /\ now \subseteq Name
              /\ now \cap Names(items) \subseteq Names(got) \cup ToSet(Ahead)
<1>1. /\ items \in Seq(Entry) /\ Len(items) \in Nat /\ DOMAIN items = 1..Len(items)
  BY DEF ProvisionInv, ContentsOK
<1>2. CASE begun
  <2>1. Ahead = cursor.rest
    BY <1>2 DEF Ahead
  <2>2. QED
    BY <1>2, <2>1 DEF ReportInv, SnapshotOK, ReadInv
<1>3. CASE ~begun
  <2> DEFINE a == [k \in DOMAIN items |-> items[k].name]
  <2>1. Ahead = a
    BY <1>3 DEF Ahead
  <2>2. \A k \in DOMAIN items : items[k].name \in Name
    <3>1. \A k \in DOMAIN items : items[k] \in Entry
      BY <1>1, ElementOfSeq
    <3>2. QED
      BY <3>1 DEF Entry
  <2>3. a \in Seq(Name) /\ DOMAIN a = DOMAIN items
    BY <1>1, <2>2
  <2>4. IsInjective(a)
    BY <2>3 DEF ReportInv, NamesInv, Distinct, IsInjective
  <2>5. ToSet(a) = Names(items)
    BY <2>3 DEF ToSet, Names
  <2>6. Names(got) = {}
    BY <1>3 DEF ReportInv, ReadInv, Names
  <2>7. ToSet(a) \subseteq Name
    BY <2>2, <2>5 DEF Names
  <2> HIDE DEF a
  <2>8. QED
    BY <1>3, <2>1, <2>3, <2>4, <2>5, <2>6, <2>7 DEF ReportInv, NamesInv
<1>4. QED
  BY <1>2, <1>3 DEF ReportInv, SnapshotOK

PageNames == SubSeq(Ahead, 1, Smaller(PageSize, Len(Ahead)))
RestNames == SubSeq(Ahead, Len(PageNames) + 1, Len(Ahead))
Page == Present(PageNames)

LEMMA NamesAre ==
  ASSUME ProvisionInv, ReportInv, reading = "paging"
  PROVE  /\ PageNames \in Seq(Name) /\ IsInjective(PageNames)
         /\ Len(PageNames) = Smaller(PageSize, Len(Ahead)) /\ Len(PageNames) \in 0..PageSize
         /\ RestNames \in Seq(Name) /\ IsInjective(RestNames)
         /\ Len(RestNames) = Len(Ahead) - Len(PageNames)
         /\ \A k \in 1..Len(PageNames) : PageNames[k] = Ahead[k]
         /\ \A k \in 1..Len(RestNames) : RestNames[k] = Ahead[Len(PageNames) + k]
         /\ ToSet(PageNames) \cap ToSet(RestNames) = {}
         /\ ToSet(PageNames) \cup ToSet(RestNames) = ToSet(Ahead)
<1> DEFINE m == Smaller(PageSize, Len(Ahead))
           b == SubSeq(Ahead, 1, m)
           c == SubSeq(Ahead, m + 1, Len(Ahead))
<1>1. Ahead \in Seq(Name) /\ IsInjective(Ahead)
  BY AheadIs
<1>2. m \in 0..Len(Ahead) /\ m \in 0..PageSize
  <2>1. Len(Ahead) \in Nat /\ PageSize \in 1..PageMax
    BY <1>1, PageSizeIs, LenProperties
  <2>2. QED
    BY <2>1 DEF Smaller
<1> HIDE DEF m
<1>3. /\ b \in Seq(Name) /\ Len(b) = m /\ IsInjective(b)
      /\ c \in Seq(Name) /\ Len(c) = Len(Ahead) - m /\ IsInjective(c)
      /\ \A k \in 1..m : b[k] = Ahead[k]
      /\ \A k \in 1..(Len(Ahead) - m) : c[k] = Ahead[m + k]
      /\ ToSet(b) \cap ToSet(c) = {} /\ ToSet(b) \cup ToSet(c) = ToSet(Ahead)
  BY <1>1, <1>2, SplitIs, Zenon
<1>4. PageNames = b
  BY DEF PageNames, m
<1>5. RestNames = c
  BY <1>3, <1>4 DEF RestNames
<1> HIDE DEF b, c
<1>6. QED
  BY <1>2, <1>3, <1>4, <1>5 DEF m

LEMMA PageIs ==
  ASSUME ProvisionInv, ReportInv, ReadPage
  PROVE  /\ got' \in Seq(Entry) /\ Len(got') = Len(got) + Len(Page)
         /\ Len(Page) \in 0..Len(PageNames) /\ Len(got') \in 0..cap
         /\ \A k \in 1..Len(got) : got'[k] = got[k]
         /\ \A k \in 1..Len(Page) : got'[Len(got) + k] = Page[k]
         /\ Distinct(got')
         /\ Names(got') \subseteq Names(got) \cup ToSet(PageNames)
         /\ Names(got) \cup (ToSet(PageNames) \cap Names(items)) \subseteq Names(got')
         /\ ToSet(RestNames) \cap Names(got') = {}
         /\ \/ cursor' = CursorTo(RestNames) /\ Len(PageNames) = PageSize
            \/ cursor' = NoCursor /\ RestNames = <<>>
<1> DEFINE g == Len(got)
           l == Len(Page)
           h == got \o Page
<1>1. reading = "paging" /\ got' = h
      /\ (\/ cursor' = CursorTo(RestNames) /\ Len(PageNames) = PageSize
          \/ cursor' = NoCursor /\ RestNames = <<>>)
  BY DEF ReadPage, PageNames, RestNames, Page, CursorAfter
<1>2. got \in Seq(Entry) /\ g \in Nat /\ DOMAIN got = 1..g
  BY DEF ReportInv, SnapshotOK
<1>3. items \in Seq(Entry)
  BY DEF ProvisionInv, ContentsOK
<1>4. PageNames \in Seq(Name) /\ IsInjective(PageNames)
  BY <1>1, NamesAre
<1>5. /\ Page \in Seq(Entry) /\ l \in 0..Len(PageNames) /\ DOMAIN Page = 1..l
      /\ \A k \in 1..l : Page[k] \in ToSet(items) /\ Page[k].name \in ToSet(PageNames)
      /\ \A i, j \in 1..l : Page[i].name = Page[j].name => i = j
      /\ ToSet(PageNames) \cap Names(items) \subseteq Names(Page)
  BY <1>3, <1>4, PresentIs DEF Page
<1>6. /\ h \in Seq(Entry) /\ Len(h) = g + l
      /\ \A i \in 1..(g + l) : h[i] = IF i <= g THEN got[i] ELSE Page[i - g]
  <2>1. Page \in Seq(Entry) /\ got \in Seq(Entry)
    BY <1>2, <1>5
  <2>2. QED
    BY <2>1, ConcatProperties
<1>7. l \in Nat /\ DOMAIN h = 1..(g + l)
  BY <1>2, <1>4, <1>5, <1>6
<1> HIDE DEF h, l, g
<1>8. /\ \A k \in 1..g : h[k] = got[k]
      /\ \A k \in 1..l : h[g + k] = Page[k]
  <2>1. \A k \in 1..l : g + k \in 1..(g + l) /\ ~(g + k <= g) /\ (g + k) - g = k
    BY <1>2, <1>7
  <2>2. \A k \in 1..l : h[g + k] = Page[(g + k) - g]
    BY <1>6, <2>1
  <2>3. \A k \in 1..l : h[g + k] = Page[k]
    BY <2>1, <2>2
  <2>4. \A k \in 1..g : k \in 1..(g + l) /\ k <= g
    BY <1>2, <1>7
  <2>5. QED
    BY <1>6, <2>3, <2>4
<1>9. \A i \in DOMAIN h : i \in 1..g \/ (i - g \in 1..l /\ g + (i - g) = i)
  BY <1>2, <1>7
<1>10. ToSet(Ahead) \cap Names(got) = {}
  BY <1>1, AheadIs
<1>11. \A n \in Names(got) : n \notin ToSet(PageNames) /\ n \notin ToSet(RestNames)
  BY <1>1, <1>10, NamesAre
<1>12. ASSUME NEW i \in DOMAIN h, NEW j \in DOMAIN h, h[i].name = h[j].name PROVE i = j
  <2>1. CASE i \in 1..g /\ j \in 1..g
    BY <1>2, <1>8, <1>12, <2>1 DEF ReportInv, ReadInv, Distinct
  <2>2. CASE i \in 1..g /\ j - g \in 1..l /\ g + (j - g) = j
    <3> DEFINE k == j - g
    <3>1. h[i] = got[i] /\ h[j] = Page[k] /\ k \in 1..l
      BY <1>8, <2>2
    <3> HIDE DEF k
    <3>2. h[i].name \in Names(got) /\ h[j].name \in ToSet(PageNames)
      BY <1>2, <1>5, <2>2, <3>1 DEF Names
    <3>3. QED
      BY <1>11, <1>12, <3>2
  <2>3. CASE j \in 1..g /\ i - g \in 1..l /\ g + (i - g) = i
    <3> DEFINE k == i - g
    <3>1. h[j] = got[j] /\ h[i] = Page[k] /\ k \in 1..l
      BY <1>8, <2>3
    <3> HIDE DEF k
    <3>2. h[j].name \in Names(got) /\ h[i].name \in ToSet(PageNames)
      BY <1>2, <1>5, <2>3, <3>1 DEF Names
    <3>3. QED
      BY <1>11, <1>12, <3>2
  <2>4. CASE i - g \in 1..l /\ g + (i - g) = i /\ j - g \in 1..l /\ g + (j - g) = j
    <3> DEFINE k == i - g
               m == j - g
    <3>1. h[i] = Page[k] /\ k \in 1..l /\ h[j] = Page[m] /\ m \in 1..l
      BY <1>8, <2>4
    <3>2. k = m => i = j
      BY <2>4
    <3> HIDE DEF k, m
    <3>3. QED
      BY <1>5, <1>12, <3>1, <3>2
  <2>5. QED
    BY <1>9, <2>1, <2>2, <2>3, <2>4
<1>13. Names(h) \subseteq Names(got) \cup ToSet(PageNames)
  <2>1. ASSUME NEW i \in DOMAIN h PROVE h[i].name \in Names(got) \cup ToSet(PageNames)
    <3>1. CASE i \in 1..g
      BY <1>2, <1>8, <3>1 DEF Names
    <3>2. CASE i - g \in 1..l /\ g + (i - g) = i
      <4> DEFINE k == i - g
      <4>1. h[i] = Page[k] /\ k \in 1..l
        BY <1>8, <3>2
      <4> HIDE DEF k
      <4>2. QED
        BY <1>5, <4>1
    <3>3. QED
      BY <1>9, <3>1, <3>2
  <2>2. QED
    BY <2>1 DEF Names
<1>14. Names(got) \cup Names(Page) \subseteq Names(h)
  <2>1. (\A k \in 1..g : k \in DOMAIN h) /\ \A k \in 1..l : g + k \in DOMAIN h
    BY <1>2, <1>7
  <2>2. \A k \in 1..g : got[k].name \in Names(h)
    BY <1>8, <2>1 DEF Names
  <2>3. ASSUME NEW k \in 1..l PROVE Page[k].name \in Names(h)
    <3> DEFINE m == g + k
    <3>1. m \in DOMAIN h /\ h[m] = Page[k]
      BY <1>8, <2>1
    <3> HIDE DEF m
    <3>2. QED
      BY <3>1 DEF Names
  <2>4. Names(got) \subseteq Names(h)
    BY <1>2, <2>2 DEF Names
  <2>5. Names(Page) \subseteq Names(h)
    BY <1>5, <2>3 DEF Names
  <2>6. QED
    BY <2>4, <2>5
<1>15. ToSet(RestNames) \cap Names(h) = {}
  BY <1>1, <1>11, <1>13, NamesAre
<1>16. g + l \in 0..cap
  BY <1>1, <1>2, <1>4, <1>5, <1>7, NamesAre, PageSizeIs DEF g
<1>17. QED
  BY <1>1, <1>5, <1>6, <1>8, <1>12, <1>13, <1>14, <1>15, <1>16 DEF g, l, Distinct

LEMMA ReportInitially == Init => ReportInv
<1> SUFFICES ASSUME ProvisionInit, SnapshotInit PROVE ReportInv
  BY DEF Init
<1>1. <<>> \in Seq(Group) /\ <<>> \in Seq(Entry) /\ <<>> \in Seq(Name) /\ Len(<<>>) = 0
  BY EmptySeq
<1>2. SnapshotOK
  <2>1. NoCursor \in [none : BOOLEAN, rest : Seq(Name)]
    BY <1>1 DEF NoCursor
  <2>2. /\ cap \in Nat /\ pageCap \in Nat \cup {NoBound} /\ pages \in Nat
        /\ limit \in Int /\ pending \subseteq Name
    BY DEF SnapshotInit
  <2>3. /\ reading = "idle" /\ schemaGroups \in Seq(Group) /\ got \in Seq(Entry)
        /\ cursor \in [none : BOOLEAN, rest : Seq(Name)]
    BY <1>1, <2>1 DEF SnapshotInit
  <2>4. begun \in BOOLEAN /\ truncated \in BOOLEAN /\ disturbed \in BOOLEAN
    BY DEF SnapshotInit
  <2>5. QED
    BY <2>2, <2>3, <2>4 DEF SnapshotOK
<1>3. NamesInv
  BY DEF ProvisionInit, NamesInv, Distinct, Names
<1>4. BoundsInv
  BY <1>1 DEF SnapshotInit, BoundsInv
<1>5. ReadInv
  BY DEF SnapshotInit, ReadInv, Distinct
<1>6. StillInv
  BY DEF SnapshotInit, StillInv
<1>7. QED
  BY <1>2, <1>3, <1>4, <1>5, <1>6 DEF ReportInv

\* Everything but the snapshot may move, and the snapshot learns of it.
LEMMA BoardMoves ==
  ASSUME ProvisionInv, ReportInv,
         \/ ProvisionNext /\ Disturb
         \/ (Abandon \/ CarryOut) /\ Disturb
         \/ OthersAct /\ Disturb /\ UNCHANGED provisioning
  PROVE  ReportInv'
<1>1. /\ items' \in Seq(Entry) /\ NamesInv' /\ Seen \subseteq Seen'
      /\ Names(items') \cap Seen \subseteq Names(items)
  BY ProvisionMovesNames, OthersMoveNames, LateMovesNames DEF ReportInv
<1>2. /\ disturbed' = (disturbed \/ (reading = "paging" /\ <<groups, items>>' # <<groups, items>>))
      /\ UNCHANGED <<reading, cap, pageCap, pages, schemaGroups, got, cursor, begun,
                     truncated, limit, pending>>
  BY DEF Disturb
<1>3. SnapshotOK'
  BY <1>2 DEF ReportInv, SnapshotOK
<1>4. BoundsInv'
  BY <1>2 DEF ReportInv, BoundsInv
<1>5. ReadInv'
  <2>1. pending \subseteq Seen
    BY DEF ReportInv, ReadInv
  <2>2. pending \subseteq Seen' /\ pending \cap Names(items') \subseteq pending \cap Names(items)
    BY <1>1, <2>1
  <2>3. QED
    BY <1>2, <2>2 DEF ReportInv, ReadInv
<1>6. StillInv'
  <2>1. reading = "paging" /\ ~disturbed' => items' = items /\ ~disturbed
    BY <1>2
  <2>2. reading \in {"idle", "failed"} => ~disturbed'
    BY <1>2 DEF ReportInv, StillInv
  <2>3. QED
    BY <1>2, <2>1, <2>2 DEF ReportInv, StillInv
<1>7. QED
  BY <1>1, <1>3, <1>4, <1>5, <1>6 DEF ReportInv

LEMMA NamesStay ==
  ASSUME NamesInv, UNCHANGED <<contents, provisioning>>
  PROVE  NamesInv' /\ Seen' = Seen
<1>1. items' = items /\ touched' = touched /\ late' = late /\ step' = step /\ at' = at
  BY DEF contents, provisioning
<1>2. TriedNames' = TriedNames /\ Doubled' = Doubled
  BY <1>1 DEF TriedNames, TriedSeeds, Doubled
<1>3. QED
  BY <1>1, <1>2 DEF NamesInv, Seen

LEMMA ReportStutters ==
  ASSUME ReportInv, UNCHANGED vars
  PROVE  ReportInv'
<1>1. UNCHANGED <<contents, provisioning, snapshot>>
  BY DEF vars
<1>2. NamesInv' /\ Seen' = Seen
  BY <1>1, NamesStay DEF ReportInv
<1>3. SnapshotOK' /\ BoundsInv'
  BY <1>1 DEF ReportInv, SnapshotOK, BoundsInv, snapshot
<1>4. ReadInv'
  BY <1>1, <1>2 DEF ReportInv, ReadInv, contents, snapshot
<1>5. StillInv'
  BY <1>1 DEF ReportInv, StillInv, contents, snapshot
<1>6. QED
  BY <1>2, <1>3, <1>4, <1>5 DEF ReportInv

\* The call begins, or gives up.
LEMMA ReportBegins ==
  ASSUME ProvisionInv, ReportInv, ReadSchema \/ LoadSchema, UNCHANGED <<contents, provisioning>>
  PROVE  ReportInv'
<1>1. NamesInv' /\ Seen' = Seen
  BY NamesStay DEF ReportInv
<1>2. /\ reading = "idle" /\ reading' = "paging" /\ schemaGroups' = groups
      /\ UNCHANGED <<pages, got, cursor, begun, truncated, limit, pending, disturbed>>
  BY DEF ReadSchema, LoadSchema
<1>3. /\ cap = 0 /\ pageCap = NoBound /\ pages = 0 /\ ~begun /\ ~truncated
      /\ got = <<>> /\ pending = {} /\ ~disturbed
  BY <1>2 DEF ReportInv, BoundsInv, ReadInv, StillInv
<1>4. IF pageCap' = NoBound THEN cap' \in 1..ReportMax
      ELSE cap' \in 1..InspectMax /\ pageCap' \in 1..PagesMax
  <2>1. CASE ReadSchema
    <3>1. PICK n \in Wanted : cap' = CapFor(n)
      BY <2>1 DEF ReadSchema
    <3>2. CapFor(n) \in 1..ReportMax
      BY WantedAreNumbers, BoundFacts DEF CapFor
    <3>3. pageCap' = NoBound
      BY <1>3, <2>1 DEF ReadSchema
    <3>4. QED
      BY <3>1, <3>2, <3>3
  <2>2. CASE LoadSchema
    <3>1. PICK q \in Inspections : /\ qualityBounds(q)
                                   /\ cap' = OrElse(q.items, InspectDefault)
                                   /\ pageCap' = OrElse(q.pages, PagesMax)
      BY <2>2 DEF LoadSchema
    <3>2. cap' \in 1..InspectMax /\ pageCap' \in 1..PagesMax
      BY <3>1 DEF qualityBounds
    <3>3. pageCap' # NoBound
      BY <3>2, BoundFacts DEF NoBound
    <3>4. QED
      BY <3>2, <3>3
  <2>3. QED
    BY <2>1, <2>2
<1>5. contents' = contents /\ items' = items /\ groups \in Seq(Group) /\ items \in Seq(Entry)
  BY DEF contents, ProvisionInv, ContentsOK
<1>6. cap' \in Nat \ {0} /\ pageCap' \in Nat \cup {NoBound}
      /\ (pageCap' # NoBound => pageCap' \in Nat \ {0})
  BY <1>4, BoundFacts
<1>7. SnapshotOK'
  BY <1>2, <1>5, <1>6 DEF ReportInv, SnapshotOK
<1>8. BoundsInv'
  BY <1>2, <1>3, <1>4, <1>6, EmptySeq DEF BoundsInv
<1>9. ReadInv'
  BY <1>2, <1>3 DEF ReadInv, Distinct
<1>10. StillInv'
  <2>1. Len(items) \in Nat /\ Len(<<>>) = 0
    BY <1>5
  <2>2. 0 * PageMax = 0
    BY BoundFacts
  <2>3. QED
    BY <1>2, <1>3, <1>5, <2>1, <2>2 DEF StillInv
<1>11. QED
  BY <1>1, <1>7, <1>8, <1>9, <1>10 DEF ReportInv

LEMMA ReportFails ==
  ASSUME ReportInv, PageFails, UNCHANGED <<contents, provisioning>>
  PROVE  ReportInv'
<1>1. NamesInv'
  BY NamesStay DEF ReportInv
<1>2. /\ reading = "paging" /\ reading' = "failed" /\ cap' = 0 /\ pageCap' = NoBound
      /\ pages' = 0 /\ schemaGroups' = <<>> /\ got' = <<>> /\ cursor' = NoCursor
      /\ pending' = {} /\ begun' = FALSE /\ limit' = 0 /\ disturbed' = FALSE
      /\ truncated' = truncated /\ ~truncated
  BY DEF PageFails, ReportInv, ReadInv
<1>3. <<>> \in Seq(Group) /\ <<>> \in Seq(Entry) /\ <<>> \in Seq(Name) /\ Len(<<>>) = 0
  BY EmptySeq
<1>4. SnapshotOK'
  <2>1. NoCursor \in [none : BOOLEAN, rest : Seq(Name)]
    BY <1>3 DEF NoCursor
  <2>2. /\ cap' \in Nat /\ pageCap' \in Nat \cup {NoBound} /\ pages' \in Nat
        /\ limit' \in Int /\ pending' \subseteq Name
    BY <1>2
  <2>3. /\ schemaGroups' \in Seq(Group) /\ got' \in Seq(Entry)
        /\ cursor' \in [none : BOOLEAN, rest : Seq(Name)]
    BY <1>2, <1>3, <2>1
  <2>4. begun' \in BOOLEAN /\ truncated' \in BOOLEAN /\ disturbed' \in BOOLEAN
    BY <1>2 DEF ReportInv, SnapshotOK
  <2>5. QED
    BY <1>2, <2>2, <2>3, <2>4 DEF SnapshotOK
<1>5. BoundsInv'
  BY <1>2, <1>3 DEF BoundsInv
<1>6. ReadInv'
  BY <1>2 DEF ReadInv, Distinct
<1>7. StillInv'
  BY <1>2 DEF StillInv
<1>8. QED
  BY <1>1, <1>4, <1>5, <1>6, <1>7 DEF ReportInv

\* On a board that stands still the page is the next of its items.
LEMMA StillPage ==
  ASSUME ProvisionInv, ReportInv, ReadPage, ~disturbed
  PROVE  /\ Len(got') = Len(got) + Len(PageNames) /\ Len(got') \in 0..Len(items)
         /\ \A k \in 1..Len(got') : got'[k] = items[k]
         /\ Len(RestNames) = Len(items) - Len(got')
         /\ \A k \in 1..Len(RestNames) : RestNames[k] = items[Len(got') + k].name
<1> DEFINE g == Len(got)
           p == Len(PageNames)
           n == Len(items)
<1>1. reading = "paging"
  BY DEF ReadPage
<1>2. /\ items \in Seq(Entry) /\ n \in Nat /\ DOMAIN items = 1..n
      /\ got \in Seq(Entry) /\ g \in Nat
  BY DEF ProvisionInv, ContentsOK, ReportInv, SnapshotOK
<1>3. g <= n /\ \A k \in 1..g : got[k] = items[k]
  BY <1>1 DEF ReportInv, StillInv
<1>4. /\ Ahead \in Seq(Name) /\ Len(Ahead) = n - g
      /\ \A k \in 1..(n - g) : Ahead[k] = items[g + k].name
  <2>1. CASE begun
    BY <1>1, <2>1, AheadIs DEF Ahead, ReportInv, StillInv
  <2>2. CASE ~begun
    <3>1. g = 0
      BY <2>2, EmptySeq DEF ReportInv, ReadInv
    <3> DEFINE a == [k \in DOMAIN items |-> items[k].name]
    <3>2. Ahead = a
      BY <2>2 DEF Ahead
    <3>3. Ahead \in Seq(Name) /\ Len(Ahead) \in Nat /\ DOMAIN Ahead = 1..Len(Ahead)
      BY <1>1, AheadIs, LenProperties
    <3>4. DOMAIN Ahead = 1..n /\ \A k \in 1..n : Ahead[k] = items[k].name
      BY <1>2, <3>2
    <3>5. Len(Ahead) = n
      <4>1. n \in Nat /\ Ahead \in [1..n -> Name]
        BY <1>2, <3>3, <3>4, LenProperties
      <4> HIDE DEF n
      <4>2. QED
        BY <4>1
    <3> HIDE DEF n
    <3>6. n - g = n /\ \A k \in 1..n : g + k = k
      BY <1>2, <3>1
    <3>7. QED
      BY <3>3, <3>4, <3>5, <3>6
  <2>3. QED
    BY <2>1, <2>2
<1>5. /\ PageNames \in Seq(Name) /\ IsInjective(PageNames) /\ p \in Nat
      /\ Len(RestNames) = Len(Ahead) - p
      /\ \A k \in 1..p : PageNames[k] = Ahead[k]
      /\ \A k \in 1..Len(RestNames) : RestNames[k] = Ahead[p + k]
      /\ p = Smaller(PageSize, Len(Ahead)) /\ PageSize \in Nat
  BY <1>1, NamesAre, PageSizeIs
<1> HIDE DEF g, p, n
<1>6. p <= n - g
  <2>1. p = Smaller(PageSize, n - g) /\ PageSize \in Nat
    BY <1>4, <1>5
  <2>2. QED
    BY <1>2, <2>1 DEF Smaller
<1>7. ASSUME NEW k \in 1..p PROVE PageNames[k] = items[g + k].name /\ g + k \in 1..n
  <2>1. k \in 1..(n - g) /\ g + k \in 1..n
    BY <1>2, <1>3, <1>5, <1>6 DEF g, n
  <2>2. PageNames[k] = Ahead[k] /\ Ahead[k] = items[g + k].name
    BY <1>4, <1>5, <2>1
  <2>3. QED
    BY <2>1, <2>2
<1>8. ToSet(PageNames) \subseteq Names(items)
  <2>1. DOMAIN PageNames = 1..p
    BY <1>5, LenProperties DEF p
  <2>2. QED
    BY <1>2, <1>7, <2>1 DEF ToSet, Names
<1>9. /\ Len(Page) = p
      /\ \A k \in 1..p : Page[k] \in ToSet(items) /\ Page[k].name = PageNames[k]
  BY <1>2, <1>5, <1>8, PresentIs DEF Page, p
<1>10. ASSUME NEW k \in 1..p PROVE Page[k] = items[g + k]
  <2>1. PICK i \in DOMAIN items : Page[k] = items[i]
    BY <1>9 DEF ToSet
  <2> DEFINE j == g + k
  <2>2. j \in DOMAIN items /\ items[i].name = items[j].name
    BY <1>2, <1>7, <1>9, <2>1
  <2> HIDE DEF j
  <2>3. i = j
    BY <2>2 DEF ReportInv, NamesInv, Distinct
  <2>4. QED
    BY <2>1, <2>3 DEF j
<1>11. /\ Len(got') = g + p
       /\ \A k \in 1..g : got'[k] = got[k]
       /\ \A k \in 1..p : got'[g + k] = Page[k]
  BY <1>9, PageIs DEF g
<1>12. ASSUME NEW k \in 1..(g + p) PROVE got'[k] = items[k]
  <2>1. CASE k <= g
    BY <1>2, <1>3, <1>11, <2>1 DEF g
  <2>2. CASE k > g
    <3> DEFINE m == k - g
    <3>1. m \in 1..p /\ g + m = k
      BY <1>2, <1>5, <2>2
    <3> HIDE DEF m
    <3>2. got'[g + m] = Page[m] /\ Page[m] = items[g + m]
      BY <1>10, <1>11, <3>1
    <3>3. QED
      BY <3>1, <3>2
  <2>3. QED
    BY <1>2, <1>5, <2>1, <2>2
<1>13. Len(RestNames) = n - (g + p) /\ g + p \in 0..n
  BY <1>2, <1>4, <1>5, <1>6
<1>14. ASSUME NEW k \in 1..(n - (g + p)) PROVE RestNames[k] = items[(g + p) + k].name
  <2> DEFINE m == p + k
  <2>1. m \in 1..(n - g) /\ g + m = (g + p) + k
    BY <1>2, <1>5, <1>6
  <2>2. RestNames[k] = Ahead[m]
    BY <1>5, <1>13
  <2> HIDE DEF m
  <2>3. Ahead[m] = items[g + m].name
    BY <1>4, <2>1
  <2>4. QED
    BY <2>1, <2>2, <2>3
<1>15. QED
  BY <1>11, <1>12, <1>13, <1>14 DEF g, p, n

\* What a page means for the call.
LEMMA ReportReads ==
  ASSUME ProvisionInv, ReportInv, ReadPage, UNCHANGED <<contents, provisioning>>
  PROVE  ReportInv'
<1>1. NamesInv' /\ Seen' = Seen /\ items' = items
  BY NamesStay DEF ReportInv, contents
<1>2. /\ reading = "paging" /\ limit' = PageSize /\ begun' = TRUE
      /\ pages' = (IF pageCap = NoBound THEN pages ELSE pages + 1)
      /\ pending' = (IF begun THEN pending ELSE ToSet(Ahead))
      /\ UNCHANGED <<cap, pageCap, schemaGroups, disturbed>>
  BY DEF ReadPage, CountPage
<1>3. /\ cap \in Nat /\ pageCap \in Nat \cup {NoBound} /\ pages \in Nat
      /\ schemaGroups \in Seq(Group)
      /\ truncated = FALSE /\ disturbed \in BOOLEAN
  BY <1>2 DEF ReportInv, SnapshotOK, ReadInv
<1>4. \/ cursor' = NoCursor /\ reading' = "done" /\ truncated' = FALSE
      \/ cursor' # NoCursor /\ reading' = "done" /\ truncated' = TRUE
      \/ /\ cursor' # NoCursor /\ reading' = "paging" /\ truncated' = FALSE
         /\ ~(Len(got') >= cap) /\ ~(pageCap # NoBound /\ pages' >= pageCap)
  BY <1>2, <1>3 DEF ReadPage, AfterPage, OutOfPages
<1>5. /\ RestNames \in Seq(Name) /\ IsInjective(RestNames)
      /\ ToSet(PageNames) \cup ToSet(RestNames) = ToSet(Ahead)
  BY <1>2, NamesAre
<1>6. /\ CursorTo(RestNames) \in [none : BOOLEAN, rest : Seq(Name)]
      /\ NoCursor \in [none : BOOLEAN, rest : Seq(Name)]
      /\ CursorTo(RestNames).none = FALSE /\ CursorTo(RestNames).rest = RestNames
      /\ NoCursor.none = TRUE
  BY <1>5, EmptySeq DEF CursorTo, NoCursor
<1>7. /\ got' \in Seq(Entry) /\ Len(got') \in 0..cap /\ Distinct(got')
      /\ Names(got) \cup (ToSet(PageNames) \cap Names(items)) \subseteq Names(got')
      /\ ToSet(RestNames) \cap Names(got') = {}
      /\ \/ cursor' = CursorTo(RestNames) /\ Len(PageNames) = PageSize
         \/ cursor' = NoCursor /\ RestNames = <<>>
  BY PageIs
<1>8. /\ pending' \subseteq Seen /\ pending' \subseteq Name
      /\ pending' \cap Names(items) \subseteq Names(got) \cup ToSet(Ahead)
  BY <1>2, AheadIs
<1>9. PageSize \in 1..PageMax /\ PageMax \in Nat /\ PageSize \in Nat
  BY <1>2, PageSizeIs, BoundFacts
<1>10. SnapshotOK'
  <2>1. cursor' \in [none : BOOLEAN, rest : Seq(Name)]
    BY <1>6, <1>7
  <2>2. reading' \in {"paging", "done"} /\ truncated' \in BOOLEAN /\ begun' \in BOOLEAN
    BY <1>2, <1>4
  <2>3. pages' \in Nat /\ limit' \in Int
    BY <1>2, <1>3, <1>9
  <2>4. QED
    BY <1>2, <1>3, <1>7, <1>8, <2>1, <2>2, <2>3 DEF SnapshotOK
<1>11. BoundsInv'
  <2>1. IF pageCap = NoBound THEN cap \in 1..ReportMax
        ELSE cap \in 1..InspectMax /\ pageCap \in 1..PagesMax /\ pages < pageCap
    BY <1>2 DEF ReportInv, BoundsInv
  <2>2. pageCap # NoBound => pageCap \in Nat /\ pages + 1 <= pageCap
    BY <1>3, <2>1, BoundFacts
  <2>3. QED
    BY <1>2, <1>3, <1>4, <1>7, <1>9, <2>1, <2>2 DEF BoundsInv
<1>12. ReadInv'
  <2>1. pending' \cap Names(items) \subseteq Names(got') \cup ToSet(RestNames)
    BY <1>5, <1>7, <1>8
  <2>2. reading' = "done" /\ ~truncated' => RestNames = <<>>
    BY <1>4, <1>6, <1>7
  <2>3. ToSet(<<>>) = {}
    BY DEF ToSet
  <2>4. reading' = "done" /\ ~truncated' => pending' \cap Names(items) \subseteq Names(got')
    BY <2>1, <2>2, <2>3
  <2>5. reading' = "paging" => cursor' = CursorTo(RestNames)
    BY <1>4, <1>7
  <2>6. reading' = "paging" =>
          /\ ~cursor'.none
          /\ IsInjective(cursor'.rest)
          /\ ToSet(cursor'.rest) \cap Names(got') = {}
          /\ pending' \cap Names(items) \subseteq Names(got') \cup ToSet(cursor'.rest)
    BY <1>5, <1>6, <1>7, <2>1, <2>5
  <2>7. reading' \in {"paging", "done"} /\ (reading' = "paging" => ~truncated')
    BY <1>4
  <2>8. QED
    BY <1>1, <1>2, <1>7, <1>8, <2>4, <2>6, <2>7 DEF ReadInv
<1>13. StillInv'
  <2>1. SUFFICES ASSUME reading' = "paging", ~disturbed
                 PROVE  /\ Len(got') <= Len(items)
                        /\ \A k \in 1..Len(got') : got'[k] = items[k]
                        /\ Len(cursor'.rest) = Len(items) - Len(got')
                        /\ \A k \in 1..Len(cursor'.rest) :
                             cursor'.rest[k] = items[Len(got') + k].name
                        /\ pageCap # NoBound => Len(got') = pages' * PageMax
    BY <1>1, <1>2, <1>4 DEF StillInv
  <2>2. cursor'.rest = RestNames /\ Len(PageNames) = PageSize /\ Len(got') < cap
    BY <1>3, <1>4, <1>6, <1>7, <2>1
  <2>3. /\ Len(got') = Len(got) + Len(PageNames) /\ Len(got') \in 0..Len(items)
        /\ \A k \in 1..Len(got') : got'[k] = items[k]
        /\ Len(RestNames) = Len(items) - Len(got')
        /\ \A k \in 1..Len(RestNames) : RestNames[k] = items[Len(got') + k].name
    BY <2>1, StillPage
  <2>4. ASSUME pageCap # NoBound PROVE Len(got') = pages' * PageMax
    <3>1. Len(got) = pages * PageMax /\ pages' = pages + 1
      BY <1>2, <2>1, <2>4 DEF ReportInv, StillInv
    <3>2. PageSize = PageMax
      BY <1>2, <2>2, <2>3, PageSizeIs
    <3>3. (pages + 1) * PageMax = pages * PageMax + PageMax
      BY <1>3, <1>9
    <3>4. QED
      BY <2>2, <2>3, <3>1, <3>2, <3>3
  <2>5. QED
    BY <2>2, <2>3, <2>4
<1>14. QED
  BY <1>1, <1>10, <1>11, <1>12, <1>13 DEF ReportInv

LEMMA ReportStep == ProvisionInv /\ ReportInv /\ [Next]_vars => ReportInv'
<1> SUFFICES ASSUME ProvisionInv, ReportInv, [Next]_vars PROVE ReportInv'
  OBVIOUS
<1>1. CASE ProvisionNext /\ Disturb
  BY <1>1, BoardMoves
<1>2. CASE OthersAct /\ Disturb /\ UNCHANGED provisioning
  BY <1>2, BoardMoves
<1>3. CASE SnapshotNext /\ UNCHANGED <<contents, provisioning>>
  BY <1>3, ReportBegins, ReportReads, ReportFails DEF SnapshotNext
<1>4. CASE UNCHANGED vars
  BY <1>4, ReportStutters
<1>5. CASE (Abandon \/ CarryOut) /\ Disturb
  BY <1>5, BoardMoves
<1>6. QED
  BY <1>1, <1>2, <1>3, <1>4, <1>5 DEF Next

\* Provisioning and the snapshot keep their invariants together: a read that is
\* under way survives whatever is done to the board.
THEOREM ReportingIsInvariant == Spec => [](ProvisionInv /\ ReportInv)
<1>1. Init => ProvisionInv /\ ReportInv
  BY ProvisionInitially, ReportInitially
<1>2. ProvisionInv /\ ReportInv /\ [Next]_vars => (ProvisionInv /\ ReportInv)'
  BY ProvisionStep, ReportStep
<1>3. QED
  BY <1>1, <1>2, PTL DEF Spec

\* Every variable of the board, of ProvisionBoard and of Snapshot keeps its type.
THEOREM BoardReportsTypes == Spec => []TypeOK
<1>1. ProvisionInv /\ ReportInv => TypeOK
  BY DEF ProvisionInv, ReportInv, TypeOK
<1>2. QED
  BY <1>1, ReportingIsInvariant, PTL

\* Snapshot and loadItems stay within the cap and within the pages they may
\* read, and hold no item twice, however the board changes between two pages.
THEOREM SnapshotsAreBounded == Spec => []SnapshotWithinCap
<1>1. ProvisionInv /\ ReportInv => SnapshotWithinCap
  <2> SUFFICES ASSUME ReportInv PROVE SnapshotWithinCap
    OBVIOUS
  <2>2. IF pageCap = NoBound THEN cap <= ReportMax
        ELSE cap <= InspectMax /\ pages <= pageCap
    <3>1. CASE reading \in {"idle", "failed"}
      BY <3>1, BoundFacts DEF ReportInv, BoundsInv
    <3>2. CASE reading \notin {"idle", "failed"}
      BY <3>2, BoundFacts DEF ReportInv, BoundsInv
    <3>3. QED
      BY <3>1, <3>2
  <2>3. Len(got) <= cap /\ (begun => limit \in 1..PageMax) /\ Distinct(got)
    BY DEF ReportInv, BoundsInv, ReadInv
  <2>4. QED
    BY <2>2, <2>3 DEF Distinct, SnapshotWithinCap
<1>2. QED
  BY <1>1, ReportingIsInvariant, PTL

\* A snapshot that does not say it is cut has every item that was there from the
\* first page to the last.
THEOREM SnapshotsAreComplete == Spec => []CompleteUnlessTruncated
<1>1. ProvisionInv /\ ReportInv => CompleteUnlessTruncated
  BY DEF ReportInv, ReadInv, CompleteUnlessTruncated
<1>2. QED
  BY <1>1, ReportingIsInvariant, PTL

-----------------------------------------------------------------------------
\* On a board that stands still the pages add up to one atomic read.

LEMMA AtMostIs ==
  ASSUME ReportInv, reading = "paging"
  PROVE  MostItems \in Nat \ {0}
<1>1. cap \in Nat \ {0} /\ (pageCap # NoBound => pageCap \in Nat \ {0})
  BY BoundFacts DEF ReportInv, SnapshotOK, BoundsInv
<1>2. ASSUME pageCap # NoBound PROVE pageCap * PageMax \in Nat \ {0}
  BY <1>1, <1>2, BoundFacts
<1>3. QED
  BY <1>1, <1>2 DEF MostItems, Smaller

LEMMA AnswerIs ==
  ASSUME ProvisionInv, ReportInv, ReadPage, ~disturbed, reading' = "done"
  PROVE  /\ got' = SubSeq(items, 1, IF MostItems < Len(items) THEN MostItems ELSE Len(items))
         /\ Len(items) > MostItems => truncated'
         /\ truncated' => Len(items) >= MostItems
<1> DEFINE n == Len(items)
           g == Len(got)
           h == Len(got')
           p == Len(PageNames)
<1>1. /\ reading = "paging" /\ pageCap' = pageCap /\ cap' = cap
      /\ pages' = (IF pageCap = NoBound THEN pages ELSE pages + 1)
  BY DEF ReadPage, CountPage
<1>2. /\ items \in Seq(Entry) /\ n \in Nat /\ g \in Nat /\ cap \in Nat /\ pages \in Nat
      /\ truncated = FALSE /\ got' \in Seq(Entry) /\ h \in 0..cap
      /\ \A i \in 1..n : items[i] \in Entry
  BY <1>1, PageIs, ElementOfSeq
     DEF ProvisionInv, ContentsOK, ReportInv, SnapshotOK, ReadInv
<1>3. /\ h = g + p /\ h \in 0..n
      /\ \A k \in 1..h : got'[k] = items[k]
      /\ Len(RestNames) = n - h
  BY StillPage
<1>4. /\ PageSize \in 1..PageMax /\ PageMax \in Nat
      /\ p \in 0..PageSize
      /\ PageSize = PageMax \/ g + PageSize = cap
  BY <1>1, PageSizeIs, NamesAre, BoundFacts
<1>5. \/ RestNames = <<>> /\ truncated' = FALSE
      \/ /\ p = PageSize /\ truncated' = TRUE
         /\ h >= cap \/ (pageCap # NoBound /\ pages' >= pageCap)
  <2>1. \/ cursor' = CursorTo(RestNames) /\ p = PageSize
        \/ cursor' = NoCursor /\ RestNames = <<>>
    BY PageIs
  <2>2. CursorTo(RestNames) # NoCursor
    BY DEF CursorTo, NoCursor
  <2>3. \/ cursor' = NoCursor /\ truncated' = FALSE
        \/ /\ cursor' # NoCursor /\ truncated' = TRUE
           /\ h >= cap \/ (pageCap # NoBound /\ pages' >= pageCap)
    BY <1>1, <1>2 DEF ReadPage, AfterPage, OutOfPages
  <2>4. QED
    BY <2>1, <2>2, <2>3
<1>6. ASSUME pageCap # NoBound
      PROVE  /\ pageCap * PageMax \in Nat
             /\ h <= pageCap * PageMax
             /\ pages' >= pageCap /\ p = PageMax => h = pageCap * PageMax
  <2>1. pages < pageCap /\ pageCap \in Nat /\ g = pages * PageMax /\ pages' = pages + 1
    BY <1>1, <1>6, BoundFacts DEF ReportInv, BoundsInv, StillInv
  <2> HIDE DEF n, g, h, p
  <2>2. PICK d \in Nat : pageCap = (pages + 1) + d
    <3>1. pageCap - (pages + 1) \in Nat /\ pageCap = (pages + 1) + (pageCap - (pages + 1))
      BY <1>2, <2>1
    <3>2. QED
      BY <3>1
  <2>3. pageCap * PageMax = (pages * PageMax + PageMax) + d * PageMax
    BY <1>2, <1>4, <2>2
  <2>4. d * PageMax \in Nat /\ pages * PageMax \in Nat
    BY <1>2, <1>4
  <2>5. h <= pages * PageMax + PageMax
    BY <1>2, <1>3, <1>4, <2>1, <2>4
  <2>6. pages' >= pageCap => d = 0 /\ d * PageMax = 0
    BY <1>2, <1>4, <2>1, <2>2
  <2> DEFINE q == pages * PageMax
             r == d * PageMax
             s == pageCap * PageMax
  <2>7. /\ s = (q + PageMax) + r /\ r \in Nat /\ q \in Nat /\ h <= q + PageMax
        /\ h = g + p /\ g = q /\ (pages' >= pageCap => r = 0) /\ PageMax \in Nat
    BY <1>3, <1>4, <2>1, <2>3, <2>4, <2>5, <2>6
  <2> HIDE DEF q, r, s
  <2>8. s \in Nat /\ h <= s /\ (pages' >= pageCap /\ p = PageMax => h = s)
    BY <1>2, <2>7
  <2>9. QED
    BY <2>8 DEF s
<1> DEFINE M == MostItems
<1>7. /\ M \in Nat /\ h <= M
      /\ h >= cap => h = M
      /\ pageCap # NoBound /\ h = pageCap * PageMax => h = M
  <2>1. CASE pageCap = NoBound
    BY <1>2, <2>1 DEF MostItems
  <2>2. CASE pageCap # NoBound
    BY <1>2, <1>6, <2>2 DEF MostItems, Smaller
  <2>3. QED
    BY <2>1, <2>2
<1> HIDE DEF n, g, h, p, M
<1>8. \/ h = n /\ truncated' = FALSE
      \/ h = M /\ truncated' = TRUE
  <2>1. CASE RestNames = <<>> /\ truncated' = FALSE
    <3>1. Len(RestNames) = 0
      BY <2>1
    <3>2. QED
      BY <1>2, <1>3, <2>1, <3>1
  <2>2. CASE /\ p = PageSize /\ truncated' = TRUE
             /\ h >= cap \/ (pageCap # NoBound /\ pages' >= pageCap)
    <3>1. CASE h >= cap
      BY <1>7, <2>2, <3>1
    <3>2. CASE ~(h >= cap)
      <4>1. p = PageMax /\ pageCap # NoBound /\ pages' >= pageCap
        BY <1>2, <1>3, <1>4, <2>2, <3>2
      <4>2. h = pageCap * PageMax
        BY <1>6, <4>1
      <4>3. QED
        BY <1>7, <2>2, <4>1, <4>2
    <3>3. QED
      BY <3>1, <3>2
  <2>3. QED
    BY <1>5, <2>1, <2>2
<1>9. h = IF M < n THEN M ELSE n
  BY <1>2, <1>3, <1>7, <1>8
<1>10. got' = SubSeq(items, 1, h)
  <2> DEFINE t == SubSeq(items, 1, h)
  <2>1. t \in Seq(Entry) /\ Len(t) = h /\ \A i \in 1..h : t[i] = items[i]
    BY <1>2, <1>3, SubSeqProperties
  <2> HIDE DEF t
  <2>2. Len(got') = h
    BY DEF h
  <2>3. QED
    <3> DEFINE u == got'
    <3>1. u \in Seq(Entry) /\ Len(u) = Len(t) /\ \A i \in 1..Len(u) : u[i] = t[i]
      BY <1>2, <1>3, <2>1, <2>2
    <3> HIDE DEF u
    <3>2. u = t
      BY <2>1, <3>1, SeqEqual
    <3>3. QED
      BY <3>2 DEF u, t
<1>11. QED
  BY <1>2, <1>3, <1>8, <1>9, <1>10 DEF n, M

LEMMA WholeReadInitially == Init => Whole!Init
BY DEF Init, SnapshotInit, Whole!Init

LEMMA WholeReadStep ==
  ASSUME ProvisionInv, ReportInv, [Next]_vars
  PROVE  [Whole!Next]_(Whole!vars)
<1>1. CASE (ProvisionNext \/ OthersAct \/ Abandon \/ CarryOut) /\ Disturb
  <2>1. /\ disturbed' = (disturbed \/ (reading = "paging" /\ <<groups, items>>' # <<groups, items>>))
        /\ UNCHANGED <<reading, cap, pageCap, got, truncated>>
    BY <1>1 DEF Disturb
  <2>2. MostItems' = MostItems
    BY <2>1 DEF MostItems
  <2>3. Whole!Change
    BY <2>1, <2>2 DEF Whole!Change
  <2>4. QED
    BY <2>3 DEF Whole!Next
<1>2. CASE (ReadSchema \/ LoadSchema) /\ UNCHANGED <<contents, provisioning>>
  <2>1. /\ reading = "idle" /\ reading' = "paging" /\ items' = items
        /\ UNCHANGED <<disturbed, truncated>>
    BY <1>2 DEF ReadSchema, LoadSchema, contents
  <2>2. ReportInv'
    BY <1>2, ReportBegins
  <2>3. MostItems' # 0
    <3>1. cap' \in Nat \ {0} /\ (pageCap' # NoBound => pageCap' \in Nat \ {0})
      BY <2>1, <2>2, BoundFacts DEF ReportInv, SnapshotOK, BoundsInv
    <3>2. ASSUME pageCap' # NoBound PROVE pageCap' * PageMax \in Nat \ {0}
      BY <3>1, <3>2, BoundFacts
    <3>3. QED
      BY <2>1, <3>1, <3>2 DEF MostItems, Smaller
  <2>4. Whole!Begin
    BY <2>1, <2>3 DEF Whole!Begin
  <2>5. QED
    BY <2>4 DEF Whole!Next
<1>3. CASE PageFails /\ UNCHANGED <<contents, provisioning>>
  <2>1. /\ reading = "paging" /\ reading' = "failed" /\ items' = items
        /\ disturbed' = FALSE /\ truncated' = truncated
    BY <1>3 DEF PageFails, contents
  <2>2. MostItems # 0
    BY <2>1, AtMostIs
  <2>3. Whole!GiveUp
    BY <2>1, <2>2 DEF Whole!GiveUp
  <2>4. QED
    BY <2>3 DEF Whole!Next
<1>4. CASE ReadPage /\ UNCHANGED <<contents, provisioning>>
  <2>1. /\ reading = "paging" /\ items' = items
        /\ UNCHANGED <<cap, pageCap, disturbed>>
    BY <1>4 DEF ReadPage, contents
  <2>2. MostItems' = MostItems
    BY <2>1 DEF MostItems
  <2>3. reading' \in {"paging", "done"} /\ (reading' = "paging" => truncated' = truncated)
    BY <1>4, <2>1 DEF ReadPage, AfterPage
  <2>4. CASE reading' = "paging"
    BY <2>1, <2>2, <2>3, <2>4 DEF Whole!vars
  <2>5. CASE reading' = "done"
    <3>1. ~disturbed =>
            /\ got' = SubSeq(items, 1, IF MostItems < Len(items) THEN MostItems ELSE Len(items))
            /\ Len(items) > MostItems => truncated'
            /\ truncated' => Len(items) >= MostItems
      BY <1>4, <2>5, AnswerIs
    <3>2. Whole!Answer
      BY <2>1, <2>2, <2>5, <3>1 DEF Whole!Answer, Whole!Prefix
    <3>3. QED
      BY <3>2 DEF Whole!Next
  <2>6. QED
    BY <2>3, <2>4, <2>5
<1>5. CASE UNCHANGED vars
  BY <1>5 DEF vars, snapshot, contents, MostItems, Whole!vars
<1>6. QED
  BY <1>1, <1>2, <1>3, <1>4, <1>5 DEF Next, SnapshotNext

\* Page by page, Snapshot and loadItems implement one atomic read.
THEOREM SnapshotsReadAtomically == Spec => SnapshotIsWholeRead
<1>1. ProvisionInv /\ ReportInv /\ [Next]_vars => [Whole!Next]_(Whole!vars)
  BY WholeReadStep
<1>2. QED
  BY <1>1, WholeReadInitially, ReportingIsInvariant, PTL
     DEF Spec, SnapshotIsWholeRead, Whole!Spec

=============================================================================
