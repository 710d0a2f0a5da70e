---------------------------- MODULE ColumnValues ----------------------------
(***************************************************************************)
(* The validation of column values: what PlanColumnValues makes of the JSON  *)
(* values a caller writes, given the columns of the board.                   *)
(*                                                                         *)
(* A text is what its reader finds in it: a number, a day, a word and so on. *)
(* Two spellings of one word differ in exact.  Days count from a Monday.     *)
(***************************************************************************)
EXTENDS Integers, Sequences, SequencesExt

\* ---- JSON values ---------------------------------------------------------------

Null == [is |-> "null"]
Str(text) == [is |-> "string", text |-> text]
Flag(b) == [is |-> "bool", flag |-> b]
List(entries) == [is |-> "list", entries |-> entries]
Obj(fields) == [is |-> "object", at |-> fields]
EmptyObject == Obj(<<>>)
Refused == [is |-> "refused"]

\* The number n, or n and a half.
Num(n) == [is |-> "number", n |-> n, whole |-> TRUE]
Half(n) == [is |-> "number", n |-> n, whole |-> FALSE]

BlankText == [form |-> "blank"]
Word(w, exact) == [form |-> "word", word |-> w, exact |-> exact]
NumberText(v) == [form |-> "number", n |-> v.n, whole |-> v.whole]
DayText(d) == [form |-> "day", day |-> d]
Moment(d, t) == [form |-> "moment", day |-> d, time |-> t]   \* t: short, full, bad
Clock(h, m) == [form |-> "clock", hour |-> h, minute |-> m]
Team(n) == [form |-> "team", n |-> n]
\* A well-formed address, URL, phone number with its country, time zone or colour.
Special(form) == [form |-> form]

IsText(v) == v.is = "string"
HasForm(v, form) == IsText(v) /\ v.text.form = form
Field(v, f) == IF v.is = "object" /\ f \in DOMAIN v.at THEN v.at[f] ELSE Null
\* A field that is no string reads as the empty one.
TextField(v, f) == IF IsText(Field(v, f)) THEN Field(v, f) ELSE Str(BlankText)

\* The integer a value stands for, as a set of at most one.
asInt(v) ==
  IF v.is = "number" THEN IF v.whole THEN {v.n} ELSE {}
  ELSE IF HasForm(v, "number") THEN IF v.text.whole THEN {v.text.n} ELSE {}
  ELSE {}
Entries(v) == IF v.is = "list" THEN v.entries ELSE <<v>>
Positive(v) == \E n \in asInt(v) : n > 0
TheInt(v) == CHOOSE n \in asInt(v) : TRUE
validDate(v) == HasForm(v, "day")

\* ---- labels ----------------------------------------------------------------------

\* A label: its ID, its text, whether it has been deactivated.
SameText(t, u) ==
  IF t.form = "word" /\ u.form = "word" THEN t.word = u.word ELSE t = u

\* The places of the labels with a text, and of those with an ID.
ByText(column, t) == {k \in DOMAIN column.labels : SameText(column.labels[k].label, t)}
ByID(column, v) == {k \in DOMAIN column.labels : column.labels[k].id \in asInt(v)}

\* A flaw: a label given in an object is looked up as a bare text is.
ChosenAsText(column, v) ==
  LET t == IF IsText(Field(v, "label")) THEN Field(v, "label") ELSE v
  IN IF IsText(t) /\ asInt(t) = {} THEN ByText(column, t.text)
     ELSE ByID(column, IF t.is = "object" THEN Field(v, "index") ELSE t)

\* The labels a status value may mean, the first of them is taken.  A bare text
\* that is a number is an ID, and never the text of a label.
Chosen(column, v) ==
  IF IsText(v) /\ asInt(v) = {} THEN ByText(column, v.text)
  ELSE IF IsText(Field(v, "label")) THEN ByText(column, Field(v, "label").text)
  ELSE ByID(column, IF v.is = "object" THEN Field(v, "index") ELSE v)

normalizeStatus(column, v) ==
  LET found == Chosen(column, v)
      label == column.labels[Min(found)]
  IN IF found = {} THEN Refused
     ELSE IF label.deactivated THEN Refused
     ELSE Obj([label |-> Str(label.label)])

\* Only active labels count; of two with one text the last is taken.
normalizeDropdown(column, v) ==
  LET active == {k \in DOMAIN column.labels : ~column.labels[k].deactivated}
      named(e) == active \cap ByText(column, e.text)
      entries == Entries(v)
      Known(e) == IF IsText(e) THEN named(e) # {} ELSE active \cap ByID(column, e) # {}
      texts == {k \in DOMAIN entries : IsText(entries[k])}
      Name(e) == Str(column.labels[Max(named(e))].label)
  IN IF v.is = "object" THEN v
     ELSE IF entries = <<>> THEN EmptyObject
     ELSE IF \/ \E k \in DOMAIN entries : ~Known(entries[k])
             \/ texts \notin {{}, DOMAIN entries} THEN Refused
     ELSE IF texts = {} THEN
            Obj([ids |-> List([k \in DOMAIN entries |-> Num(TheInt(entries[k]))])])
     ELSE Obj([labels |-> List([k \in DOMAIN entries |-> Name(entries[k])])])

\* ---- the other types ----------------------------------------------------------------

normalizeText(column, v) ==
  IF ~IsText(v) \/ (column.type = "name" /\ v.text = BlankText) THEN Refused ELSE v

normalizeLongText(v) ==
  IF IsText(Field(v, "text")) THEN v
  ELSE IF IsText(v) THEN Obj([text |-> v])
  ELSE Refused

normalizeNumber(v) ==
  IF v.is = "number" THEN Str(NumberText(v))
  ELSE IF HasForm(v, "number") THEN v
  ELSE Refused

\* In a text the seconds are added where they are missing; an object is left as it is.
normalizeDate(v) ==
  IF validDate(Field(v, "date"))
  THEN IF IsText(Field(v, "time")) => Field(v, "time").text.form \in {"short", "full"}
       THEN v ELSE Refused
  ELSE IF validDate(v) THEN Obj([date |-> v])
  ELSE IF HasForm(v, "moment") /\ v.text.time # "bad"
  THEN Obj([date |-> Str(DayText(v.text.day)), time |-> Str(Special("full"))])
  ELSE Refused

\* Two dates, the second not before the first.
Ordered(from, to) == validDate(from) /\ validDate(to) /\ from.text.day <= to.text.day

normalizeTimeline(v) ==
  IF Ordered(Field(v, "from"), Field(v, "to"))
  THEN Obj([from |-> Field(v, "from"), to |-> Field(v, "to")]) ELSE Refused

WeekOf(day) ==
  LET monday == day - (day % 7)
  IN Obj([startDate |-> Str(DayText(monday)), endDate |-> Str(DayText(monday + 6))])

normalizeWeek(v) ==
  LET inner == IF Field(v, "week").is = "object" THEN Field(v, "week") ELSE v
      start == Field(inner, "startDate")
      end == Field(inner, "endDate")
  IN IF validDate(v) THEN Obj([week |-> WeekOf(v.text.day)])
     ELSE IF Ordered(start, end)
     THEN Obj([week |-> Obj([startDate |-> start, endDate |-> end])])
     ELSE Refused

normalizePeople(v) ==
  LET entries == Entries(v)
      IsTeam(e) == HasForm(e, "team")
      Fits(e) == IF IsTeam(e) THEN e.text.n > 0 ELSE Positive(e)
      Entry(e) ==
        Obj([id |-> Num(IF IsTeam(e) THEN e.text.n ELSE TheInt(e)),
             kind |-> Str(Special(IF IsTeam(e) THEN "is team" ELSE "is person"))])
  IN IF v.is = "object" THEN IF "personsAndTeams" \in DOMAIN v.at THEN v ELSE Refused
     ELSE IF \A k \in DOMAIN entries : Fits(entries[k])
     THEN Obj([personsAndTeams |-> List([k \in DOMAIN entries |-> Entry(entries[k])])])
     ELSE Refused

\* A false checkbox is written as null.
normalizeCheckbox(v) ==
  IF v.is = "bool" THEN IF v.flag THEN Obj([checked |-> Str(Special("true"))]) ELSE Null
  ELSE IF HasForm(v, "true") THEN Obj([checked |-> v])
  ELSE IF HasForm(v, "false") THEN Null
  ELSE Refused

\* An e-mail address or a link; the text to show is the address when there is none.
Shown(field, form, v) ==
  LET address == IF IsText(v) THEN v ELSE TextField(v, field)
      text == TextField(v, "text")
  IN IF ~HasForm(address, form) THEN Refused
     ELSE Obj([f \in {field, "text"} |->
                 IF f = field \/ text.text = BlankText THEN address ELSE text])

\* A phone number brings its country with it, or in a second field.
normalizePhone(v) ==
  LET number == IF HasForm(v, "CC:phone") THEN Str(Special("phone")) ELSE TextField(v, "phone")
      country == IF HasForm(v, "CC:phone") THEN Str(Special("CC"))
                 ELSE TextField(v, "countryShortName")
  IN IF HasForm(number, "phone") /\ HasForm(country, "CC")
     THEN Obj([phone |-> number, countryShortName |-> country]) ELSE Refused

normalizeRating(v) ==
  IF \E n \in asInt(v) : n \in 0..5 THEN Obj([rating |-> Num(TheInt(v))]) ELSE Refused

normalizeHour(v) ==
  LET h == IF HasForm(v, "clock") THEN {v.text.hour} ELSE asInt(Field(v, "hour"))
      m == IF HasForm(v, "clock") THEN {v.text.minute} ELSE asInt(Field(v, "minute"))
  IN IF (\E n \in h : n \in 0..23) /\ (\E n \in m : n \in 0..59)
     THEN Obj([hour |-> Num(CHOOSE n \in h : TRUE), minute |-> Num(CHOOSE n \in m : TRUE)])
     ELSE Refused

\* A number between two bounds, the bounds included, given as a number or a text.
Within(v, low, high) ==
  LET x == IF IsText(v) THEN v.text ELSE v
  IN /\ v.is = "number" \/ HasForm(v, "number")
     /\ x.n >= low
     /\ x.n < high \/ (x.n = high /\ x.whole)

normalizeLocation(v) ==
  LET lat == Field(v, "lat")
      lng == Field(v, "lng")
  IN IF v.is = "object" /\ Within(lat, -90, 90) /\ Within(lng, -180, 180)
     THEN Obj([lat |-> normalizeNumber(lat), lng |-> normalizeNumber(lng),
               address |-> TextField(v, "address")])
     ELSE Refused

normalizeCountry(v) ==
  IF HasForm(Field(v, "countryCode"), "CC") /\ TextField(v, "countryName").text # BlankText
  THEN Obj([countryCode |-> Field(v, "countryCode"), countryName |-> Field(v, "countryName")])
  ELSE Refused

\* A text of a given form, or a list of IDs, put into a field.
Wrapped(field, form, v) == IF HasForm(v, form) THEN Obj([f \in {field} |-> v]) ELSE Refused
intList(field, v) ==
  IF \A k \in DOMAIN Entries(v) : Positive(Entries(v)[k])
  THEN Obj([f \in {field} |-> List([k \in DOMAIN Entries(v) |-> Num(TheInt(Entries(v)[k]))])])
  ELSE Refused

\* ---- NormalizeColumnValue and PlanColumnValues ------------------------------------------

NormalizeColumnValue(column, v) ==
  LET type == column.type
  IN IF v = Null
     THEN IF type \in {"text", "numbers", "name"} THEN Str(BlankText) ELSE EmptyObject
     ELSE
       CASE type \in {"name", "text"} -> normalizeText(column, v)
         [] type = "long_text" -> normalizeLongText(v)
         [] type = "numbers" -> normalizeNumber(v)
         [] type \in {"status", "color"} -> normalizeStatus(column, v)
         [] type = "dropdown" -> normalizeDropdown(column, v)
         [] type = "date" -> normalizeDate(v)
         [] type = "timeline" -> normalizeTimeline(v)
         [] type \in {"people", "person", "team"} -> normalizePeople(v)
         [] type = "checkbox" -> normalizeCheckbox(v)
         [] type = "email" -> Shown("email", "address", v)
         [] type = "link" -> Shown("url", "URL", v)
         [] type = "phone" -> normalizePhone(v)
         [] type = "rating" -> normalizeRating(v)
         [] type = "hour" -> normalizeHour(v)
         [] type = "week" -> normalizeWeek(v)
         [] type = "country" -> normalizeCountry(v)
         [] type = "location" -> normalizeLocation(v)
         [] type = "world_clock" -> Wrapped("timezone", "zone", v)
         [] type = "tags" -> intList("tag_ids", v)
         [] type \in {"board_relation", "dependency"} -> intList("item_ids", v)
         [] type = "color_picker" -> Wrapped("color", "hex", v)
         [] OTHER -> IF v.is = "object" THEN v ELSE Refused

\* The result for each column ID of the input.  A column that monday computes, an
\* archived one and one that is not on the board take no value.
PlanColumnValues(columns, input) ==
  LET ColumnOf(id) == {columns[k] : k \in {j \in DOMAIN columns : columns[j].id = id}}
      Planned(id) ==
        IF \E c \in ColumnOf(id) : ~c.archived /\ ~c.readOnly
        THEN NormalizeColumnValue(CHOOSE c \in ColumnOf(id) : TRUE, input[id])
        ELSE Refused
      issues == {id \in DOMAIN input : Planned(id) = Refused}
  IN [normalized |-> [id \in DOMAIN input \ issues |-> Planned(id)], issues |-> issues]
=============================================================================
