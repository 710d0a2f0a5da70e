-------------------------- MODULE MCPureAlgorithms --------------------------
(***************************************************************************)
(* Bounded inputs for PureAlgorithms: values of every shape for a column of  *)
(* every type, all orders of a few labels, and boards of two items.          *)
(***************************************************************************)
EXTENDS PureAlgorithms

\* ---- values --------------------------------------------------------------------

Types ==
  {"name", "text", "long_text", "numbers", "status", "dropdown", "date", "timeline",
   "people", "checkbox", "email", "link", "phone", "rating", "hour", "week", "country",
   "location", "world_clock", "tags", "dependency", "color_picker", "other"}

\* Labels, one with a number for a name, one deactivated, two in different cases.
Label(id, text, off) == [id |-> id, label |-> text, deactivated |-> off]
LabelLists ==
  {<<Label(1, Word("done", TRUE), FALSE), Label(2, NumberText(Num(1)), FALSE),
     Label(5, BlankText, FALSE)>>,
   <<Label(1, Word("stuck", TRUE), TRUE), Label(2, Word("done", TRUE), FALSE)>>,
   <<Label(1, Word("done", TRUE), FALSE), Label(2, Word("done", FALSE), FALSE)>>}

TheColumn(type, labels) ==
  [id |-> "c", type |-> type, labels |-> labels, archived |-> FALSE, readOnly |-> FALSE]

Texts ==
  {BlankText, Word("done", TRUE), Word("done", FALSE), Word("stuck", TRUE), Moment(9, "short"),
   Moment(9, "bad"), Clock(9, 30), Clock(9, 75), Team(7), Team(0)}
  \cup {NumberText(Num(n)) : n \in {-1, 0, 1, 2, 5, 6, 90, 180}} \cup {NumberText(Half(5))}
  \cup {DayText(d) : d \in {6, 7, 9}}
  \cup {Special(f) : f \in {"address", "URL", "CC:phone", "phone", "CC", "zone", "hex", "true",
                            "false", "full", "short"}}
Scalars ==
  {Null, Flag(TRUE), Flag(FALSE), Num(-1), Num(0), Num(1), Num(2), Num(5), Num(6), Half(5)}
  \cup {Str(t) : t \in Texts}
Dates == {Str(DayText(6)), Str(DayText(9)), Str(BlankText)}
Coordinates == {Num(-181), Num(-90), Num(90), Half(90), Num(180), Str(NumberText(Half(2)))}

Objects ==
  {EmptyObject, Obj([personsAndTeams |-> List(<<Num(4)>>)])}
  \cup {Obj([text |-> v]) : v \in Scalars} \cup {Obj([label |-> v]) : v \in Scalars}
  \cup {Obj([index |-> v]) : v \in Scalars} \cup {Obj([date |-> v]) : v \in Dates}
  \cup {Obj([date |-> v, time |-> Str(t)]) : v \in Dates, t \in {Special("short"), BlankText}}
  \cup {Obj([from |-> v, to |-> w]) : v \in Dates, w \in Dates}
  \cup {Obj([startDate |-> v, endDate |-> w]) : v \in Dates, w \in Dates}
  \cup {Obj([email |-> Str(Special("address")), text |-> v]) : v \in Scalars}
  \cup {Obj([url |-> Str(Special("URL"))])}
  \cup {Obj([phone |-> Str(Special("phone")), countryShortName |-> v]) : v \in Scalars}
  \cup {Obj([hour |-> v, minute |-> w]) : v \in {Num(0), Num(23), Num(24)}, w \in {Num(59), Num(60)}}
  \cup {Obj([countryCode |-> Str(Special("CC")), countryName |-> v]) : v \in Scalars}
  \cup {Obj([lat |-> v, lng |-> w]) : v \in Coordinates, w \in Coordinates}
Lists ==
  {List(<<>>)} \cup {List(<<v>>) : v \in Scalars}
  \cup {List(<<v, w>>) : v \in {Str(Word("done", FALSE)), Num(2)},
                         w \in {Num(1), Num(2), Str(Team(7)), Str(Word("stuck", TRUE))}}
AllValues == Scalars \cup Objects \cup Lists

ColumnsTried ==
  {TheColumn(t, <<>>) : t \in Types \ {"status", "dropdown"}}
  \cup {TheColumn(t, l) : t \in {"status", "dropdown"}, l \in LabelLists}

\* One value for one column; and one that no column takes.
MCWrites ==
  {[columns |-> <<c>>, input |-> [c |-> v]] : c \in ColumnsTried, v \in AllValues}
  \cup {[columns |-> <<[TheColumn("text", <<>>) EXCEPT !.archived = old, !.readOnly = fixed]>>,
         input |-> [c |-> Str(Word("done", TRUE)), unknown |-> Null]]
        : old \in BOOLEAN, fixed \in BOOLEAN}

\* ---- labels --------------------------------------------------------------------

MCFallback == <<6, 7, 8, 9>>
MCSuggests ==
  [listo |-> 1, shipped |-> 1, blocked |-> 2, medium |-> 3, other |-> NoColour,
   another |-> NoColour, third |-> NoColour]
Orders(S) == {q \in [1..Cardinality(S) -> S] : \A i, j \in DOMAIN q : q[i] = q[j] => i = j}
MCLabellings ==
  UNION {[labels : Orders(S), done : S \cup {None}]
         : S \in {T \in SUBSET DOMAIN MCSuggests : Cardinality(T) <= 5}}

\* ---- boards --------------------------------------------------------------------

ReportColumn(id, type, hinted, done) ==
  [id |-> id, type |-> type, hinted |-> hinted, archived |-> FALSE, done |-> done]
ColumnLists ==
  {<<ReportColumn("state", "status", TRUE, {}), ReportColumn("due", "date", TRUE, {}),
     ReportColumn("start", "date", FALSE, {}), ReportColumn("who", "people", FALSE, {})>>,
   <<ReportColumn("other", "status", FALSE, {}), ReportColumn("state", "status", TRUE, {"shipped"}),
     ReportColumn("due", "date", FALSE, {})>>}
Overrides ==
  {[status |-> None, date |-> None, people |-> None],
   [status |-> "other", date |-> "start", people |-> "who"]}

\* Midday at UTC; an hour before midnight where it is tomorrow already on the
\* server's clock, and an hour after midnight where it is yesterday still.
Clocks == {[now |-> 252, zone |-> 0], [now |-> 263, zone |-> 2], [now |-> 241, zone |-> -2]}

\* The stand-up looks back less far than items take to be stale, and further.
Windows == {[days |-> 2, hours |-> 24], [days |-> 2, hours |-> 72]}

\* Days 9, 10 and 18 are one before, on and eight after the day of UTC.
Cells ==
  [state : {"done", "shipped", "stuck", None}, due : {9, 10}, who : {<<>>, <<"ann", "bob">>}]
  \cup [state : {"stuck"}, due : {NoDay}]
  \cup [state : {"done"}, due : {18}, start : {3, 18}, other : {"done", "stuck"}]
ItemsTried == [cells : Cells, updated : {NoDay, 170, 200, 240}, group : {"g"}]
OthersTried ==
  [cells : [state : {"done", "stuck"}, due : {3}, who : {<<"ann">>}], updated : {200},
   group : {"g", "h"}]

MCSnapshots ==
  {[columns |-> columns, override |-> override, items |-> items, now |-> clock.now,
    zone |-> clock.zone, days |-> window.days, staleDays |-> 3, hours |-> window.hours]
   : columns \in ColumnLists, override \in Overrides, clock \in Clocks, window \in Windows,
     items \in {<<>>} \cup {<<a, b>> : a \in ItemsTried, b \in OthersTried}}

MCUsuallyDone == {"done"}
MCSoundsBlocked == {"stuck", "detenido"}
MCSoundsAtRisk == {"stuck"}
=============================================================================
