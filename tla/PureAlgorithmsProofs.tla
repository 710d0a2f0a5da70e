------------------------ MODULE PureAlgorithmsProofs ------------------------
(***************************************************************************)
(* The plan of a write is settled: whatever values it was made from, and     *)
(* whatever the columns of the board, to validate it once more changes       *)
(* nothing but the spelling of a label.  The loop that gives labels their    *)
(* colours gives each one of its own, while there are enough of them.  And   *)
(* the reports on one board agree, since each counts every item once.        *)
(***************************************************************************)
EXTENDS PureAlgorithms, FiniteSetTheorems, FunctionTheorems, WellFoundedInduction, TLAPS

-----------------------------------------------------------------------------
\* Values.

\* The kinds of values are told apart by their tag.
LEMMA Shapes ==
  /\ \A t : Str(t).is = "string" /\ Str(t).text = t
  /\ \A f : Obj(f).is = "object" /\ Obj(f).at = f
  /\ \A n : Num(n).is = "number" /\ Num(n).n = n /\ Num(n).whole = TRUE
  /\ \A e : List(e).is = "list" /\ List(e).entries = e
  /\ Null.is = "null" /\ Refused.is = "refused" /\ EmptyObject = Obj(<<>>)
BY DEF Str, Obj, Num, List, Null, Refused, EmptyObject

LEMMA FieldOfObject ==
  ASSUME NEW f, NEW x
  PROVE  Field(Obj(f), x) = IF x \in DOMAIN f THEN f[x] ELSE Null
BY Shapes DEF Field

LEMMA FieldOfOther ==
  ASSUME NEW v, NEW x, v.is # "object"
  PROVE  Field(v, x) = Null
BY DEF Field

\* Which normalizer a value goes to.
LEMMA Dispatched ==
  ASSUME NEW column, NEW v, v # Null
  PROVE  LET type == column.type
             w == NormalizeColumnValue(column, v)
         IN /\ type \in {"name", "text"} => w = normalizeText(column, v)
            /\ type = "long_text" => w = normalizeLongText(v)
            /\ type = "numbers" => w = normalizeNumber(v)
            /\ type \in {"status", "color"} => w = normalizeStatus(column, v)
            /\ type = "dropdown" => w = normalizeDropdown(column, v)
            /\ type = "date" => w = normalizeDate(v)
            /\ type = "timeline" => w = normalizeTimeline(v)
            /\ type \in {"people", "person", "team"} => w = normalizePeople(v)
            /\ type = "checkbox" => w = normalizeCheckbox(v)
            /\ type = "email" => w = Shown("email", "address", v)
            /\ type = "link" => w = Shown("url", "URL", v)
            /\ type = "phone" => w = normalizePhone(v)
            /\ type = "rating" => w = normalizeRating(v)
            /\ type = "hour" => w = normalizeHour(v)
            /\ type = "week" => w = normalizeWeek(v)
            /\ type = "country" => w = normalizeCountry(v)
            /\ type = "location" => w = normalizeLocation(v)
            /\ type = "world_clock" => w = Wrapped("timezone", "zone", v)
            /\ type = "tags" => w = intList("tag_ids", v)
            /\ type \in {"board_relation", "dependency"} => w = intList("item_ids", v)
            /\ type = "color_picker" => w = Wrapped("color", "hex", v)
BY DEF NormalizeColumnValue

\* What a normalizer made of a value it makes of itself again, or refuses.
LEMMA LongTextKept ==
  ASSUME NEW v, normalizeLongText(v) # Refused
  PROVE  normalizeLongText(normalizeLongText(v)) = normalizeLongText(v)
BY Shapes, FieldOfObject, FieldOfOther DEF normalizeLongText, IsText

LEMMA NumberKept ==
  ASSUME NEW v, normalizeNumber(v) # Refused
  PROVE  normalizeNumber(normalizeNumber(v)) = normalizeNumber(v)
BY Shapes DEF normalizeNumber, HasForm, IsText, NumberText

LEMMA DateKept ==
  ASSUME NEW v, normalizeDate(v) # Refused
  PROVE  normalizeDate(normalizeDate(v)) = normalizeDate(v)
BY Shapes, FieldOfObject, FieldOfOther
   DEF normalizeDate, validDate, HasForm, IsText, DayText, Special

LEMMA TimelineKept ==
  ASSUME NEW v, normalizeTimeline(v) # Refused
  PROVE  normalizeTimeline(normalizeTimeline(v)) = normalizeTimeline(v)
BY Shapes, FieldOfObject DEF normalizeTimeline

LEMMA PeopleKept ==
  ASSUME NEW v, normalizePeople(v) # Refused
  PROVE  normalizePeople(normalizePeople(v)) = normalizePeople(v)
<1> DEFINE entries == Entries(v)
           IsTeam(e) == HasForm(e, "team")
           Entry(e) ==
             Obj([id |-> Num(IF IsTeam(e) THEN e.text.n ELSE TheInt(e)),
                  kind |-> Str(Special(IF IsTeam(e) THEN "is team" ELSE "is person"))])
           list == List([k \in DOMAIN entries |-> Entry(entries[k])])
<1>1. \/ normalizePeople(v) = v /\ v.is = "object" /\ "personsAndTeams" \in DOMAIN v.at
      \/ normalizePeople(v) = Obj([personsAndTeams |-> list])
  BY DEF normalizePeople
<1> HIDE DEF list
<1>2. Obj([personsAndTeams |-> list]).is = "object"
      /\ "personsAndTeams" \in DOMAIN Obj([personsAndTeams |-> list]).at
  BY Shapes
<1>3. \A w : w.is = "object" /\ "personsAndTeams" \in DOMAIN w.at => normalizePeople(w) = w
  BY DEF normalizePeople
<1>4. QED
  BY <1>1, <1>2, <1>3

LEMMA CheckboxRefused ==
  ASSUME NEW v, normalizeCheckbox(v) # Null
  PROVE  normalizeCheckbox(normalizeCheckbox(v)) = Refused
BY Shapes DEF normalizeCheckbox, HasForm, IsText

LEMMA ShownKept ==
  ASSUME NEW field, NEW form, NEW v, field # "text", form # "blank", Shown(field, form, v) # Refused
  PROVE  Shown(field, form, Shown(field, form, v)) = Shown(field, form, v)
<1> DEFINE address == IF IsText(v) THEN v ELSE TextField(v, field)
           text == TextField(v, "text")
           shown == IF text.text = BlankText THEN address ELSE text
           w == Shown(field, form, v)
           f == [x \in {field, "text"} |-> IF x = field \/ text.text = BlankText THEN address ELSE text]
<1>1. HasForm(address, form) /\ w = Obj(f)
  BY DEF Shown
<1>2. IsText(address) /\ address.text # BlankText
  BY <1>1 DEF HasForm, BlankText
<1>3. IsText(text)
  BY Shapes DEF TextField, IsText
<1>4. Field(w, field) = address /\ Field(w, "text") = shown
  BY <1>1, FieldOfObject
<1>5. IsText(shown) /\ shown.text # BlankText
  BY <1>2, <1>3
<1>6. ~IsText(w)
  BY <1>1, Shapes DEF IsText
<1> HIDE DEF address, text, shown, w
<1>7. TextField(w, field) = address /\ TextField(w, "text") = shown
  BY <1>2, <1>4, <1>5 DEF TextField
<1>8. f = [x \in {field, "text"} |-> IF x = field \/ shown.text = BlankText THEN address ELSE shown]
  BY <1>5 DEF shown
<1>9. QED
  BY <1>1, <1>6, <1>7, <1>8 DEF Shown, w

LEMMA PhoneKept ==
  ASSUME NEW v, normalizePhone(v) # Refused
  PROVE  normalizePhone(normalizePhone(v)) = normalizePhone(v)
<1> DEFINE number == IF HasForm(v, "CC:phone") THEN Str(Special("phone")) ELSE TextField(v, "phone")
           country == IF HasForm(v, "CC:phone") THEN Str(Special("CC"))
                      ELSE TextField(v, "countryShortName")
           w == normalizePhone(v)
<1>1. /\ HasForm(number, "phone") /\ HasForm(country, "CC")
      /\ w = Obj([phone |-> number, countryShortName |-> country])
  BY DEF normalizePhone
<1>2. Field(w, "phone") = number /\ Field(w, "countryShortName") = country
  BY <1>1, FieldOfObject
<1>3. ~HasForm(w, "CC:phone")
  BY <1>1, Shapes DEF HasForm, IsText
<1> HIDE DEF number, country, w
<1>4. TextField(w, "phone") = number /\ TextField(w, "countryShortName") = country
  BY <1>1, <1>2 DEF TextField, HasForm
<1>5. QED
  BY <1>1, <1>3, <1>4 DEF normalizePhone, w

LEMMA RatingRefused ==
  ASSUME NEW v
  PROVE  normalizeRating(normalizeRating(v)) = Refused
BY Shapes DEF normalizeRating, asInt, HasForm, IsText

LEMMA HourKept ==
  ASSUME NEW v, normalizeHour(v) # Refused
  PROVE  normalizeHour(normalizeHour(v)) = normalizeHour(v)
<1> DEFINE h == IF HasForm(v, "clock") THEN {v.text.hour} ELSE asInt(Field(v, "hour"))
           m == IF HasForm(v, "clock") THEN {v.text.minute} ELSE asInt(Field(v, "minute"))
           w == normalizeHour(v)
<1>1. \A x : asInt(x) = {} \/ \E n : asInt(x) = {n}
  BY DEF asInt
<1>2. PICK i, j : h = {i} /\ m = {j} /\ i \in 0..23 /\ j \in 0..59
  BY <1>1 DEF normalizeHour
<1>3. w = Obj([hour |-> Num(i), minute |-> Num(j)])
  BY <1>2 DEF normalizeHour
<1>4. ~HasForm(w, "clock") /\ Field(w, "hour") = Num(i) /\ Field(w, "minute") = Num(j)
  BY <1>3, Shapes, FieldOfObject DEF HasForm, IsText
<1>5. asInt(Num(i)) = {i} /\ asInt(Num(j)) = {j}
  BY Shapes DEF asInt
<1> HIDE DEF h, m, w
<1>6. QED
  BY <1>2, <1>3, <1>4, <1>5 DEF normalizeHour, w

LEMMA WeekKept ==
  ASSUME NEW v, validDate(v) => v.text.day \in Int, normalizeWeek(v) # Refused
  PROVE  normalizeWeek(normalizeWeek(v)) = normalizeWeek(v)
<1>1. \E from, to : Ordered(from, to)
                    /\ normalizeWeek(v) = Obj([week |-> Obj([startDate |-> from, endDate |-> to])])
  <2>1. CASE validDate(v)
    <3> DEFINE monday == v.text.day - (v.text.day % 7)
               from == Str(DayText(monday))
               to == Str(DayText(monday + 6))
    <3>1. monday \in Int /\ monday <= monday + 6
      BY <2>1
    <3>2. Ordered(from, to)
      BY <3>1, Shapes DEF Ordered, validDate, HasForm, IsText, DayText
    <3>3. normalizeWeek(v) = Obj([week |-> Obj([startDate |-> from, endDate |-> to])])
      BY <2>1 DEF normalizeWeek, WeekOf
    <3>4. QED
      BY <3>2, <3>3
  <2>2. CASE ~validDate(v)
    BY <2>2 DEF normalizeWeek
  <2>3. QED
    BY <2>1, <2>2
<1>2. PICK from, to : Ordered(from, to)
                      /\ normalizeWeek(v) = Obj([week |-> Obj([startDate |-> from, endDate |-> to])])
  BY <1>1
<1> DEFINE w == Obj([week |-> Obj([startDate |-> from, endDate |-> to])])
<1>3. ~validDate(w) /\ Field(w, "week") = Obj([startDate |-> from, endDate |-> to])
  BY Shapes, FieldOfObject DEF validDate, HasForm, IsText
<1>4. Field(w, "week").is = "object" /\ Field(Field(w, "week"), "startDate") = from
      /\ Field(Field(w, "week"), "endDate") = to
  BY <1>3, Shapes, FieldOfObject
<1> HIDE DEF w
<1>5. normalizeWeek(w) = Obj([week |-> Obj([startDate |-> from, endDate |-> to])])
  BY <1>2, <1>3, <1>4 DEF normalizeWeek
<1>6. QED
  BY <1>2, <1>5 DEF w

LEMMA CountryKept ==
  ASSUME NEW v, normalizeCountry(v) # Refused
  PROVE  normalizeCountry(normalizeCountry(v)) = normalizeCountry(v)
<1> DEFINE code == Field(v, "countryCode")
           name == Field(v, "countryName")
           w == normalizeCountry(v)
<1>1. /\ HasForm(code, "CC") /\ TextField(v, "countryName").text # BlankText
      /\ w = Obj([countryCode |-> code, countryName |-> name])
  BY DEF normalizeCountry
<1>2. Field(w, "countryCode") = code /\ Field(w, "countryName") = name
  BY <1>1, FieldOfObject
<1> HIDE DEF code, name, w
<1>3. TextField(w, "countryName") = TextField(v, "countryName")
  BY <1>2 DEF TextField, name
<1>4. QED
  BY <1>1, <1>2, <1>3 DEF normalizeCountry, w

LEMMA WithinKept ==
  ASSUME NEW v, NEW low, NEW high, Within(v, low, high)
  PROVE  /\ Within(normalizeNumber(v), low, high)
         /\ normalizeNumber(normalizeNumber(v)) = normalizeNumber(v)
BY Shapes DEF Within, normalizeNumber, NumberText, HasForm, IsText

LEMMA LocationKept ==
  ASSUME NEW v, normalizeLocation(v) # Refused
  PROVE  normalizeLocation(normalizeLocation(v)) = normalizeLocation(v)
<1> DEFINE lat == normalizeNumber(Field(v, "lat"))
           lng == normalizeNumber(Field(v, "lng"))
           address == TextField(v, "address")
           w == normalizeLocation(v)
<1>1. /\ Within(Field(v, "lat"), -90, 90) /\ Within(Field(v, "lng"), -180, 180)
      /\ w = Obj([lat |-> lat, lng |-> lng, address |-> address])
  BY DEF normalizeLocation
<1>2. /\ Within(lat, -90, 90) /\ Within(lng, -180, 180)
      /\ normalizeNumber(lat) = lat /\ normalizeNumber(lng) = lng
  BY <1>1, WithinKept
<1>3. IsText(address)
  BY Shapes DEF TextField, IsText
<1>4. w.is = "object" /\ Field(w, "lat") = lat /\ Field(w, "lng") = lng /\ Field(w, "address") = address
  BY <1>1, Shapes, FieldOfObject
<1> HIDE DEF lat, lng, address, w
<1>5. TextField(w, "address") = address
  BY <1>3, <1>4 DEF TextField
<1>6. QED
  BY <1>1, <1>2, <1>4, <1>5 DEF normalizeLocation, w

LEMMA WrappedRefused ==
  ASSUME NEW field, NEW form, NEW v
  PROVE  Wrapped(field, form, Wrapped(field, form, v)) = Refused
BY Shapes DEF Wrapped, HasForm, IsText

LEMMA ListRefused ==
  ASSUME NEW field, NEW v
  PROVE  intList(field, intList(field, v)) = Refused
<1> DEFINE list == List([k \in DOMAIN Entries(v) |-> Num(TheInt(Entries(v)[k]))])
<1>1. intList(field, v) \in {Refused, Obj([f \in {field} |-> list])}
  BY DEF intList
<1> HIDE DEF list
<1>2. \A w : w.is \in {"refused", "object"} => intList(field, w) = Refused
  <2> SUFFICES ASSUME NEW w, w.is \in {"refused", "object"} PROVE intList(field, w) = Refused
    OBVIOUS
  <2>1. Entries(w) = <<w>> /\ asInt(w) = {}
    BY DEF Entries, asInt, HasForm, IsText
  <2>2. 1 \in DOMAIN Entries(w) /\ Entries(w)[1] = w /\ ~Positive(w)
    BY <2>1 DEF Positive
  <2>3. QED
    BY <2>2 DEF intList
<1>3. QED
  BY <1>1, <1>2, Shapes

LEMMA LeastExists ==
  ASSUME NEW S \in SUBSET Nat, S # {}
  PROVE  Min(S) \in S /\ \A j \in S : Min(S) <= j
<1> DEFINE Less == OpToRel(<, Nat)
<1>1. PICK x \in S : \A y \in S : <<y, x>> \notin Less
  <2>1. IsWellFoundedOn(Less, Nat)
    BY NatLessThanWellFounded
  <2> HIDE DEF Less
  <2>2. QED
    BY <2>1, WFMin
<1>2. \A y \in Nat : y < x => <<y, x>> \in Less
  BY <1>1 DEF OpToRel
<1> HIDE DEF Less
<1>3. \A y \in S : y \in Nat /\ x \in Nat
  OBVIOUS
<1>4. \A y \in S : ~(y < x)
  BY <1>1, <1>2, <1>3
<1>5. \A y \in S : x <= y
  BY <1>3, <1>4
<1>6. QED
  BY <1>1, <1>5 DEF Min

\* A status is the first of the labels with its text, and so is the second time.
LEMMA StatusSettles ==
  ASSUME NEW column, column.labels \in Seq(ToSet(column.labels)),
         NEW v, normalizeStatus(column, v) # Refused
  PROVE  LET w == normalizeStatus(column, v)
             again == normalizeStatus(column, w)
         IN w.is = "object" /\ (again \in {Refused, w} \/ Respelled(w, again))
<1> DEFINE k == Min(Chosen(column, v))
           t == column.labels[k].label
           w == normalizeStatus(column, v)
           m == Min(Chosen(column, w))
           u == column.labels[m].label
<1>1. DOMAIN column.labels \subseteq Nat
  OBVIOUS
<1>2. Chosen(column, v) # {} /\ w = Obj([label |-> Str(t)])
  BY DEF normalizeStatus
<1>3. ~IsText(w) /\ Field(w, "label") = Str(t) /\ w.is = "object"
  BY <1>2, Shapes, FieldOfObject DEF IsText
<1>4. Chosen(column, w) = ByText(column, t)
  BY <1>3, Shapes DEF Chosen, IsText
<1>5. m \in ByText(column, t) \/ Chosen(column, w) = {}
  <2>1. Chosen(column, w) \subseteq Nat
    BY <1>1, <1>4 DEF ByText
  <2>2. QED
    BY <1>4, <2>1, LeastExists
<1> HIDE DEF w, m, k, t, u
<1>6. normalizeStatus(column, w) = Refused \/
      (Chosen(column, w) # {} /\ normalizeStatus(column, w) = Obj([label |-> Str(u)]))
  BY DEF normalizeStatus, m, u
<1>7. CASE normalizeStatus(column, w) # Refused
  <2>1. SameText(u, t)
    BY <1>5, <1>6, <1>7 DEF ByText, u
  <2>2. Field(Obj([label |-> Str(u)]), "label") = Str(u)
    BY FieldOfObject
  <2>3. CASE t.form = "word" /\ u.form = "word"
    BY <1>3, <1>6, <1>7, <2>1, <2>2, <2>3, Shapes
       DEF SameText, Respelled, HasForm, IsText, w
  <2>4. CASE u = t
    BY <1>2, <1>3, <1>6, <1>7, <2>4 DEF w
  <2>5. QED
    BY <2>1, <2>3, <2>4 DEF SameText
<1>8. QED
  BY <1>3, <1>7 DEF w

LEMMA DropdownKept ==
  ASSUME NEW column, NEW v, normalizeDropdown(column, v) # Refused
  PROVE  /\ normalizeDropdown(column, v).is = "object"
         /\ normalizeDropdown(column, normalizeDropdown(column, v)) = normalizeDropdown(column, v)
<1>1. \A w : w.is = "object" => normalizeDropdown(column, w) = w
  BY DEF normalizeDropdown
<1>2. \A w : normalizeDropdown(column, w) = Refused \/ normalizeDropdown(column, w).is = "object"
  BY Shapes DEF normalizeDropdown
<1>3. QED
  BY <1>1, <1>2

\* Only a checkbox is ever written as null.
LEMMA NeverNull ==
  ASSUME NEW column, column.type # "checkbox", NEW v
  PROVE  NormalizeColumnValue(column, v) # Null
<1>1. CASE v = Null
  BY <1>1, Shapes DEF NormalizeColumnValue
<1>2. CASE v # Null
  <2>1. /\ normalizeText(column, v) # Null /\ normalizeLongText(v) # Null
        /\ normalizeNumber(v) # Null
    BY <1>2, Shapes DEF normalizeText, normalizeLongText, normalizeNumber
  <2>2. normalizeStatus(column, v) # Null /\ normalizeDropdown(column, v) # Null
    BY <1>2, Shapes DEF normalizeStatus, normalizeDropdown
  <2>3. normalizeDate(v) # Null /\ normalizeTimeline(v) # Null /\ normalizePeople(v) # Null
    BY <1>2, Shapes DEF normalizeDate, normalizeTimeline, normalizePeople
  <2>4. /\ \A field, form : Shown(field, form, v) # Null
        /\ \A field, form : Wrapped(field, form, v) # Null
        /\ \A field : intList(field, v) # Null
    BY Shapes DEF Shown, Wrapped, intList
  <2>5. /\ normalizePhone(v) # Null /\ normalizeRating(v) # Null /\ normalizeHour(v) # Null
        /\ normalizeWeek(v) # Null /\ normalizeCountry(v) # Null /\ normalizeLocation(v) # Null
    BY Shapes DEF normalizePhone, normalizeRating, normalizeHour, normalizeWeek,
                  normalizeCountry, normalizeLocation
  <2>6. Refused # Null
    BY Shapes
  <2>7. QED
    BY <1>2, <2>1, <2>2, <2>3, <2>4, <2>5, <2>6 DEF NormalizeColumnValue
<1>3. QED
  BY <1>1, <1>2

\* What clears a column is refused, or clears it again.
LEMMA ClearedStays ==
  ASSUME NEW column
  PROVE  LET w == NormalizeColumnValue(column, Null)
             again == NormalizeColumnValue(column, w)
         IN Clears(w) /\ (again = Refused \/ Clears(again))
<1>1. EmptyObject # Null /\ Str(BlankText) # Null /\ EmptyObject.is = "object"
  BY Shapes
<1>2. \A x : Field(EmptyObject, x) = Null
  BY Shapes, FieldOfObject
<1>3. /\ ~IsText(Null) /\ ~IsText(EmptyObject) /\ ~validDate(Null)
      /\ asInt(Null) = {} /\ asInt(EmptyObject) = {}
      /\ \A form : ~HasForm(Null, form) /\ ~HasForm(EmptyObject, form)
  BY <1>1, Shapes DEF IsText, HasForm, validDate, asInt
<1>4. \A x : TextField(EmptyObject, x) = Str(BlankText)
  BY <1>2, <1>3 DEF TextField
<1>5. \A form : form # "blank" => ~HasForm(Str(BlankText), form)
  BY Shapes DEF HasForm, BlankText
<1> DEFINE OneOf(w) == w \in {Refused, EmptyObject}
<1>6. OneOf(normalizeLongText(EmptyObject)) /\ OneOf(normalizeDropdown(column, EmptyObject))
  BY <1>1, <1>2, <1>3 DEF normalizeLongText, normalizeDropdown
<1>7. OneOf(normalizeStatus(column, EmptyObject))
  <2>1. Chosen(column, EmptyObject) = ByID(column, Null)
    BY <1>1, <1>2, <1>3 DEF Chosen
  <2>2. ByID(column, Null) = {}
    BY <1>3 DEF ByID
  <2>3. QED
    BY <2>1, <2>2 DEF normalizeStatus
<1>8. /\ OneOf(normalizeDate(EmptyObject)) /\ OneOf(normalizeTimeline(EmptyObject))
      /\ OneOf(normalizePeople(EmptyObject)) /\ OneOf(normalizeCheckbox(EmptyObject))
  BY <1>1, <1>2, <1>3, Shapes
     DEF normalizeDate, normalizeTimeline, normalizePeople, normalizeCheckbox, Ordered, validDate
<1>9. /\ \A field, form : form # "blank" => OneOf(Shown(field, form, EmptyObject))
      /\ \A field, form : OneOf(Wrapped(field, form, EmptyObject))
      /\ \A field : OneOf(intList(field, EmptyObject))
  <2>1. Entries(EmptyObject) = <<EmptyObject>> /\ ~Positive(EmptyObject)
    BY <1>1, <1>3 DEF Entries, Positive
  <2>2. 1 \in DOMAIN Entries(EmptyObject) /\ ~Positive(Entries(EmptyObject)[1])
    BY <2>1
  <2>3. QED
    BY <1>3, <1>4, <1>5, <2>2 DEF Shown, Wrapped, intList
<1>10. /\ OneOf(normalizePhone(EmptyObject)) /\ OneOf(normalizeRating(EmptyObject))
       /\ OneOf(normalizeHour(EmptyObject))
  BY <1>2, <1>3, <1>4, <1>5 DEF normalizePhone, normalizeRating, normalizeHour
<1>11. /\ OneOf(normalizeWeek(EmptyObject)) /\ OneOf(normalizeCountry(EmptyObject))
       /\ OneOf(normalizeLocation(EmptyObject))
  BY <1>1, <1>2, <1>3, Shapes
     DEF normalizeWeek, normalizeCountry, normalizeLocation, Ordered, validDate, Within
<1> HIDE DEF OneOf
<1>12. CASE column.type \in {"text", "numbers", "name"}
  <2>1. NormalizeColumnValue(column, Null) = Str(BlankText)
    BY <1>12 DEF NormalizeColumnValue
  <2>2. /\ normalizeText(column, Str(BlankText)) \in {Refused, Str(BlankText)}
        /\ normalizeNumber(Str(BlankText)) = Refused
    BY <1>5, Shapes DEF normalizeText, normalizeNumber, IsText
  <2>3. QED
    BY <1>1, <1>12, <2>1, <2>2, Dispatched DEF Clears
<1>13. CASE column.type \notin {"text", "numbers", "name"}
  <2>1. NormalizeColumnValue(column, Null) = EmptyObject
    BY <1>13 DEF NormalizeColumnValue
  <2>2. OneOf(NormalizeColumnValue(column, EmptyObject))
    <3>1. OneOf(EmptyObject)
      BY DEF OneOf
    <3>2. QED
      BY <1>1, <1>6, <1>7, <1>8, <1>9, <1>10, <1>11, <1>13, <3>1 DEF NormalizeColumnValue
  <2>3. QED
    BY <2>1, <2>2 DEF OneOf, Clears
<1>14. QED
  BY <1>12, <1>13

Dated(column, v) == column.type = "week" /\ validDate(v) => v.text.day \in Int

LEMMA WeekIsNoDay ==
  ASSUME NEW column, NEW v
  PROVE  Dated(column, NormalizeColumnValue(column, v))
<1> SUFFICES ASSUME column.type = "week" PROVE ~validDate(NormalizeColumnValue(column, v))
  BY DEF Dated
<1>1. ~validDate(EmptyObject) /\ ~validDate(normalizeWeek(v))
  BY Shapes DEF normalizeWeek, validDate, HasForm, IsText
<1>2. QED
  BY <1>1, Dispatched DEF NormalizeColumnValue

\* What a second look at a value makes of it.
Settled(w, again) ==
  \/ again = Refused \/ again = w
  \/ Clears(again) /\ Clears(w)
  \/ Respelled(w, again)

\* All types together.
LEMMA PlanSettles ==
  ASSUME NEW column, column.labels \in Seq(ToSet(column.labels)),
         NEW v, Dated(column, v), NormalizeColumnValue(column, v) # Refused
  PROVE  LET w == NormalizeColumnValue(column, v)
         IN Settled(w, NormalizeColumnValue(column, w))
<1> DEFINE type == column.type
           w == NormalizeColumnValue(column, v)
           again == NormalizeColumnValue(column, w)
<1>1. CASE v = Null
  BY <1>1, ClearedStays DEF Settled
<1>2. CASE v # Null /\ w = Null
  <2>1. type = "checkbox"
    BY <1>2, NeverNull
  <2>2. again = EmptyObject
    BY <1>2, <2>1 DEF NormalizeColumnValue
  <2>3. QED
    BY <1>2, <2>2 DEF Settled, Clears
<1>3. CASE v # Null /\ w # Null
  <2>1. CASE type \in {"name", "text"}
    <3>1. w = normalizeText(column, v) /\ again = normalizeText(column, w)
      BY <1>3, <2>1, Dispatched
    <3>2. w = v
      BY <3>1 DEF normalizeText
    <3>3. QED
      BY <3>1, <3>2 DEF Settled
  <2>2. CASE type = "long_text"
    BY <1>3, <2>2, Dispatched, LongTextKept DEF Settled
  <2>3. CASE type = "numbers"
    BY <1>3, <2>3, Dispatched, NumberKept DEF Settled
  <2>4. CASE type \in {"status", "color"}
    <3>1. w = normalizeStatus(column, v) /\ again = normalizeStatus(column, w)
      BY <1>3, <2>4, Dispatched
    <3>2. QED
      BY <3>1, StatusSettles DEF Settled
  <2>5. CASE type = "dropdown"
    BY <1>3, <2>5, Dispatched, DropdownKept DEF Settled
  <2>6. CASE type = "date"
    BY <1>3, <2>6, Dispatched, DateKept DEF Settled
  <2>7. CASE type = "timeline"
    BY <1>3, <2>7, Dispatched, TimelineKept DEF Settled
  <2>8. CASE type \in {"people", "person", "team"}
    <3>1. w = normalizePeople(v) /\ again = normalizePeople(w)
      BY <1>3, <2>8, Dispatched
    <3>2. QED
      BY <3>1, PeopleKept DEF Settled
  <2>9. CASE type = "checkbox"
    BY <1>3, <2>9, Dispatched, CheckboxRefused DEF Settled
  <2>10. CASE type = "email"
    BY <1>3, <2>10, Dispatched, ShownKept DEF Settled
  <2>11. CASE type = "link"
    BY <1>3, <2>11, Dispatched, ShownKept DEF Settled
  <2>12. CASE type = "phone"
    BY <1>3, <2>12, Dispatched, PhoneKept DEF Settled
  <2>13. CASE type = "rating"
    BY <1>3, <2>13, Dispatched, RatingRefused DEF Settled
  <2>14. CASE type = "hour"
    BY <1>3, <2>14, Dispatched, HourKept DEF Settled
  <2>15. CASE type = "week"
    BY <1>3, <2>15, Dispatched, WeekKept DEF Settled, Dated
  <2>16. CASE type = "country"
    BY <1>3, <2>16, Dispatched, CountryKept DEF Settled
  <2>17. CASE type = "location"
    BY <1>3, <2>17, Dispatched, LocationKept DEF Settled
  <2>18. CASE type \in {"world_clock", "color_picker"}
    BY <1>3, <2>18, Dispatched, WrappedRefused DEF Settled
  <2>19. CASE type \in {"tags", "board_relation", "dependency"}
    BY <1>3, <2>19, Dispatched, ListRefused DEF Settled
  <2>20. CASE type \notin {"name", "text", "long_text", "numbers", "status", "color",
                           "dropdown", "date", "timeline", "people", "person", "team",
                           "checkbox", "email", "link", "phone", "rating", "hour", "week",
                           "country", "location", "world_clock", "tags", "board_relation",
                           "dependency", "color_picker"}
    <3>1. w = IF v.is = "object" THEN v ELSE Refused
      BY <1>3, <2>20 DEF NormalizeColumnValue
    <3>2. QED
      BY <3>1 DEF Settled
  <2>21. QED
    BY <2>1, <2>2, <2>3, <2>4, <2>5, <2>6, <2>7, <2>8, <2>9, <2>10, <2>11, <2>12,
       <2>13, <2>14, <2>15, <2>16, <2>17, <2>18, <2>19, <2>20
<1>4. QED
  BY <1>1, <1>2, <1>3

-----------------------------------------------------------------------------
\* What is tried, and what came of it so far.

TrialInv == trial \in Trials /\ results \in Seq(ToSet(results))

LEMMA OneKindOfTrial ==
  ASSUME TrialInv
  PROVE  /\ "write" \in DOMAIN trial =>
              trial.write \in Writes /\ "label" \notin DOMAIN trial /\ "board" \notin DOMAIN trial
         /\ "label" \in DOMAIN trial =>
              trial.label \in Labellings /\ "write" \notin DOMAIN trial /\ "board" \notin DOMAIN trial
         /\ "board" \in DOMAIN trial =>
              trial.board \in Snapshots /\ "write" \notin DOMAIN trial /\ "label" \notin DOMAIN trial
BY DEF TrialInv, Trials

LEMMA AppendedTo ==
  ASSUME NEW s, s \in Seq(ToSet(s)), NEW x
  PROVE  LET t == Append(s, x) IN
           /\ t \in Seq(ToSet(t)) /\ Len(t) = Len(s) + 1 /\ t # <<>>
           /\ Last(t) = x /\ t[Len(s) + 1] = x
           /\ \A k \in 1..Len(s) : t[k] = s[k]
<1> DEFINE t == Append(s, x)
           S == ToSet(s) \cup {x}
<1>1. s \in Seq(S) /\ Len(s) \in Nat
  <2>1. ToSet(s) \subseteq S
    OBVIOUS
  <2>2. \A k \in 1..Len(s) : s[k] \in S
    BY DEF ToSet
  <2> HIDE DEF S
  <2>3. QED
    BY <2>2
<1> HIDE DEF S
<1>2. x \in S
  BY DEF S
<1>3. t \in Seq(S) /\ Len(t) = Len(s) + 1 /\ t[Len(s) + 1] = x
      /\ \A k \in 1..Len(s) : t[k] = s[k]
  BY <1>1, <1>2
<1> HIDE DEF t
<1>4. \A k \in 1..Len(t) : t[k] \in ToSet(t)
  BY <1>3 DEF ToSet
<1>5. t \in Seq(ToSet(t))
  <2> DEFINE T == ToSet(t)
  <2>1. \A k \in 1..Len(t) : t[k] \in T
    BY <1>4
  <2> HIDE DEF T
  <2>2. t \in Seq(T)
    BY <1>3, <2>1
  <2>3. QED
    BY <2>2 DEF T
<1>6. QED
  BY <1>1, <1>3, <1>5 DEF Last, t

LEMMA TrialInitially ==
  ASSUME Init
  PROVE  TrialInv
BY DEF Init, TrialInv

LEMMA TrialStep ==
  ASSUME TrialInv, [Next]_vars
  PROVE  /\ trial' = trial /\ TrialInv'
<1>1. CASE Next
  <2>1. trial' = trial /\ \E x : results' = Append(results, x)
    <3>1. CASE Report
      <4>1. \A x : <<x>> = Append(<<>>, x)
        OBVIOUS
      <4>2. trial' = trial /\ results = <<>> /\ \E x : results' = <<x>>
        BY <3>1 DEF Report
      <4>3. QED
        BY <4>1, <4>2
    <3>2. QED
      BY <1>1, <3>1 DEF Next, Validate, Colour
  <2>2. QED
    BY <2>1, AppendedTo DEF TrialInv
<1>2. CASE UNCHANGED vars
  BY <1>2 DEF vars, TrialInv
<1>3. QED
  BY <1>1, <1>2

-----------------------------------------------------------------------------
\* A plan that is validated again.

Input(k) == IF k = 1 THEN trial.write.input ELSE results[k - 1].normalized

WriteInv ==
  "write" \in DOMAIN trial =>
    \A k \in 1..Len(results) :
      results[k] = PlanColumnValues(trial.write.columns, Input(k))

LEMMA WriteStep ==
  ASSUME TrialInv, WriteInv, [Next]_vars
  PROVE  WriteInv'
<1>1. trial' = trial
  BY TrialStep
<1> SUFFICES ASSUME "write" \in DOMAIN trial PROVE WriteInv'
  BY <1>1 DEF WriteInv
<1>2. CASE UNCHANGED vars
  BY <1>1, <1>2 DEF vars, WriteInv, Input
<1>3. CASE Next
  <2> DEFINE n == Len(results)
             input == IF results = <<>> THEN trial.write.input ELSE Last(results).normalized
             plan == PlanColumnValues(trial.write.columns, input)
  <2>1. results' = Append(results, plan)
    BY <1>3, OneKindOfTrial DEF Next, Validate, Colour, Report
  <2>2. n \in Nat /\ (results = <<>> <=> n = 0) /\ input = Input(n + 1)
    BY DEF TrialInv, Last, Input
  <2> HIDE DEF plan, input
  <2>3. Len(results') = n + 1 /\ results'[n + 1] = plan /\ \A k \in 1..n : results'[k] = results[k]
    BY <2>1, AppendedTo DEF TrialInv
  <2>4. \A k \in 1..(n + 1) : Input(k)' = Input(k)
    BY <1>1, <2>2, <2>3 DEF Input
  <2>5. \A k \in 1..(n + 1) : results'[k] = PlanColumnValues(trial.write.columns, Input(k))
    BY <2>2, <2>3 DEF WriteInv, plan
  <2>6. QED
    BY <1>1, <2>3, <2>4, <2>5 DEF WriteInv
<1>4. QED
  BY <1>2, <1>3

ColumnNamed(columns, id) ==
  CHOOSE c \in {columns[k] : k \in {j \in DOMAIN columns : columns[j].id = id}} : TRUE

\* What stands in a plan is what its column made of the input.
LEMMA PlannedValue ==
  ASSUME NEW columns, NEW input, NEW plan, plan = PlanColumnValues(columns, input),
         NEW id \in DOMAIN plan.normalized
  PROVE  /\ plan.normalized[id] = NormalizeColumnValue(ColumnNamed(columns, id), input[id])
         /\ plan.normalized[id] # Refused
         /\ \E k \in DOMAIN columns : ColumnNamed(columns, id) = columns[k]
         /\ id \in DOMAIN input
<1> DEFINE ColumnOf(x) == {columns[k] : k \in {j \in DOMAIN columns : columns[j].id = x}}
           Planned(x) ==
             IF \E c \in ColumnOf(x) : ~c.archived /\ ~c.readOnly
             THEN NormalizeColumnValue(CHOOSE c \in ColumnOf(x) : TRUE, input[x])
             ELSE Refused
           issues == {x \in DOMAIN input : Planned(x) = Refused}
           normalized == [x \in DOMAIN input \ issues |-> Planned(x)]
<1>1. plan.normalized = normalized
  BY DEF PlanColumnValues
<1>2. id \in DOMAIN input \ issues /\ normalized[id] = Planned(id)
  BY <1>1
<1>3. Planned(id) # Refused
  BY <1>2
<1>4. ColumnOf(id) # {} /\ Planned(id) = NormalizeColumnValue(CHOOSE c \in ColumnOf(id) : TRUE, input[id])
  BY <1>3
<1>5. (CHOOSE c \in ColumnOf(id) : TRUE) \in ColumnOf(id)
  BY <1>4
<1>6. QED
  BY <1>1, <1>2, <1>3, <1>4, <1>5 DEF ColumnNamed

LEMMA WritesSettle ==
  ASSUME TrialInv, WriteInv
  PROVE  ResubmissionIsStable
<1> SUFFICES ASSUME "write" \in DOMAIN trial, NEW k \in 2..Len(results),
                    NEW id \in DOMAIN results[k].normalized
             PROVE  Settled(results[k - 1].normalized[id], results[k].normalized[id])
                    /\ results[k].normalized[id] # Refused
  BY DEF ResubmissionIsStable, Settled
<1> DEFINE columns == trial.write.columns
           column == ColumnNamed(columns, id)
           v == Input(k - 1)[id]
           w == results[k - 1].normalized[id]
<1>1. Len(results) \in Nat /\ k \in Int /\ k - 1 \in 1..Len(results) /\ k \in 1..Len(results) /\ k # 1
  BY DEF TrialInv
<1>2. Input(k) = results[k - 1].normalized
  BY <1>1 DEF Input
<1>3. results[k] = PlanColumnValues(columns, Input(k))
      /\ results[k - 1] = PlanColumnValues(columns, Input(k - 1))
  BY <1>1 DEF WriteInv
<1>4. /\ results[k].normalized[id] = NormalizeColumnValue(column, w)
      /\ results[k].normalized[id] # Refused
      /\ \E j \in DOMAIN columns : column = columns[j]
      /\ id \in DOMAIN results[k - 1].normalized
  BY <1>2, <1>3, PlannedValue
<1>5. w = NormalizeColumnValue(column, v) /\ w # Refused /\ id \in DOMAIN Input(k - 1)
  BY <1>3, <1>4, PlannedValue
<1>6. column.labels \in Seq(ToSet(column.labels))
  BY <1>4, OneKindOfTrial, WritesAreForBoards
<1>7. Dated(column, v)
  <2>1. CASE k = 2
    <3>1. v = trial.write.input[id] /\ id \in DOMAIN trial.write.input
      BY <1>5, <2>1 DEF Input
    <3>2. QED
      BY <3>1, OneKindOfTrial, WritesAreForBoards DEF Dated
  <2>2. CASE k # 2
    <3>1. k - 2 \in 1..Len(results) /\ k - 1 # 1 /\ (k - 1) - 1 = k - 2
      BY <1>1, <2>2
    <3>2. v = results[k - 2].normalized[id] /\ Input(k - 1) = results[k - 2].normalized
      BY <3>1 DEF Input
    <3>3. results[k - 2] = PlanColumnValues(columns, Input(k - 2))
      BY <3>1 DEF WriteInv
    <3>4. v = NormalizeColumnValue(column, Input(k - 2)[id])
      BY <1>5, <3>2, <3>3, PlannedValue
    <3>5. QED
      BY <3>4, WeekIsNoDay
  <2>3. QED
    BY <2>1, <2>2
<1> HIDE DEF column, v
<1>8. Settled(w, NormalizeColumnValue(column, w))
  BY <1>5, <1>6, <1>7, PlanSettles
<1>9. QED
  BY <1>4, <1>8

\* A plan that was shown and is sent, once or again, is refused or comes out as
\* it went in, whatever columns the board has and whatever the caller wrote; only
\* the spelling of a label may change (columnvalues.go 121-277).
THEOREM PlansAreStable == Spec => []ResubmissionIsStable
<1>1. Init => TrialInv /\ WriteInv
  BY TrialInitially DEF Init, WriteInv
<1>2. TrialInv /\ WriteInv /\ [Next]_vars => (TrialInv /\ WriteInv)'
  BY TrialStep, WriteStep
<1>3. QED
  BY <1>1, <1>2, WritesSettle, PTL DEF Spec

-----------------------------------------------------------------------------
\* The colours of labels.

\* A palette is not exhausted by fewer colours than it has.
LEMMA FreeColour ==
  ASSUME NEW used, IsFiniteSet(used), Cardinality(used) < Len(Fallback)
  PROVE  FirstFree(used) \notin used /\ FirstFree(used) # NoColour
<1> DEFINE S == 1..Len(Fallback)
           free == {k \in DOMAIN Fallback : Fallback[k] \notin used}
<1>1. /\ Len(Fallback) \in Nat /\ DOMAIN Fallback = S
      /\ \A k \in S : Fallback[k] \in Nat
      /\ \A j, k \in S : Fallback[j] = Fallback[k] => j = k
  BY FallbackColours DEF IsInjective
<1>2. free # {}
  <2> SUFFICES ASSUME free = {} PROVE FALSE
    OBVIOUS
  <2> DEFINE f == [k \in S |-> Fallback[k]]
  <2>1. f \in [S -> used]
    BY <1>1
  <2>2. IsFiniteSet(S) /\ Cardinality(S) = Len(Fallback)
    BY <1>1, FS_Interval
  <2>3. \A j, k \in S : j # k => f[j] # f[k]
    BY <1>1
  <2> HIDE DEF f, S
  <2>4. QED
    BY <2>1, <2>2, <2>3, FS_PigeonHole
<1>3. Min(free) \in free
  <2>1. free \in SUBSET Nat
    BY <1>1
  <2>2. QED
    BY <1>2, <2>1, LeastExists
<1>4. FirstFree(used) = Fallback[Min(free)]
  BY <1>2 DEF FirstFree
<1>5. QED
  BY <1>1, <1>3, <1>4 DEF NoColour

\* The first k labels have each a colour of their own.
Coloured(labels, byColor, k) ==
  /\ IsFiniteSet(DOMAIN byColor) /\ Cardinality(DOMAIN byColor) <= k
  /\ NoColour \notin DOMAIN byColor
  /\ {byColor[c] : c \in DOMAIN byColor} = {labels[j] : j \in 1..k}

LEMMA OneMoreLabel ==
  ASSUME NEW k \in Nat, NEW labels, NEW byColor, Coloured(labels, byColor, k), k < Len(Fallback), NEW done
  PROVE  Coloured(labels, AddLabel(byColor, labels[k + 1], done), k + 1)
<1> DEFINE label == labels[k + 1]
           used == DOMAIN byColor
           colour == ColourFor(label, done, used)
           b == AddLabel(byColor, label, done)
<1>1. IsFiniteSet(used) /\ Cardinality(used) \in Nat /\ Cardinality(used) < Len(Fallback)
  <2>1. Len(Fallback) \in Nat
    BY FallbackColours
  <2>2. QED
    BY <2>1, FS_CardinalityType DEF Coloured
<1>2. colour \notin used /\ colour # NoColour
  BY <1>1, FreeColour DEF ColourFor
<1>3. /\ DOMAIN b = used \cup {colour} /\ b[colour] = label
      /\ \A c \in used : b[c] = byColor[c]
  BY <1>2 DEF AddLabel
<1>0. Cardinality(used) <= k
  BY DEF Coloured
<1> HIDE DEF label, used, colour, b
<1>4. IsFiniteSet(DOMAIN b) /\ Cardinality(DOMAIN b) <= k + 1
  <2>1. IsFiniteSet(used \cup {colour}) /\ Cardinality(used \cup {colour}) = Cardinality(used) + 1
    BY <1>1, <1>2, FS_AddElement
  <2>2. QED
    BY <1>0, <1>1, <1>3, <2>1
<1>5. {b[c] : c \in DOMAIN b} = {byColor[c] : c \in used} \cup {label}
  BY <1>3
<1>6. {labels[j] : j \in 1..(k + 1)} = {labels[j] : j \in 1..k} \cup {label}
  <2>1. 1..(k + 1) = (1..k) \cup {k + 1}
    OBVIOUS
  <2>2. QED
    BY <2>1 DEF label
<1>7. QED
  BY <1>2, <1>3, <1>4, <1>5, <1>6 DEF Coloured, label, used, b

LabelInv ==
  "label" \in DOMAIN trial /\ Len(trial.label.labels) <= Len(Fallback) =>
    /\ Len(results) <= Len(trial.label.labels)
    /\ results # <<>> => Coloured(trial.label.labels, Last(results), Len(results))

LEMMA LabelStep ==
  ASSUME TrialInv, LabelInv, [Next]_vars
  PROVE  LabelInv'
<1>1. trial' = trial
  BY TrialStep
<1> SUFFICES ASSUME "label" \in DOMAIN trial, Len(trial.label.labels) <= Len(Fallback)
             PROVE  LabelInv'
  BY <1>1 DEF LabelInv
<1>2. CASE UNCHANGED vars
  BY <1>1, <1>2 DEF vars, LabelInv
<1>3. CASE Next
  <2> DEFINE n == Len(results)
             byColor == IF results = <<>> THEN <<>> ELSE Last(results)
             b == AddLabel(byColor, trial.label.labels[n + 1], trial.label.done)
  <2>1. results' = Append(results, b) /\ n < Len(trial.label.labels)
    BY <1>3, OneKindOfTrial DEF Next, Validate, Colour, Report
  <2>2. n \in Nat /\ (results = <<>> <=> n = 0) /\ Len(Fallback) \in Nat
        /\ Len(trial.label.labels) \in Nat
    BY OneKindOfTrial, LabellingsAreLists, FallbackColours DEF TrialInv
  <2>3. Coloured(trial.label.labels, byColor, n)
    <3>1. CASE results = <<>>
      <4>1. DOMAIN byColor = {} /\ 1..n = {}
        BY <2>2, <3>1
      <4>2. IsFiniteSet({}) /\ Cardinality({}) = 0
        BY FS_EmptySet
      <4> HIDE DEF byColor
      <4>3. QED
        BY <2>2, <3>1, <4>1, <4>2 DEF Coloured
    <3>2. CASE results # <<>>
      BY <3>2 DEF LabelInv
    <3>3. QED
      BY <3>1, <3>2
  <2>f. n < Len(Fallback)
    BY <2>1, <2>2
  <2> HIDE DEF byColor, n
  <2>4. Coloured(trial.label.labels, b, n + 1)
    BY <2>2, <2>f, <2>3, OneMoreLabel
  <2> USE DEF n
  <2> HIDE DEF b
  <2>5. Len(results') = n + 1 /\ Last(results') = b
    BY <2>1, AppendedTo DEF TrialInv
  <2>7. Len(results') <= Len(trial.label.labels)
    BY <2>1, <2>2, <2>5
  <2>8. QED
    BY <1>1, <2>4, <2>5, <2>7 DEF LabelInv
<1>4. QED
  BY <1>2, <1>3

LEMMA LabelsAreColoured ==
  ASSUME TrialInv, LabelInv
  PROVE  LabelsKeepTheirColours
<1> SUFFICES ASSUME "label" \in DOMAIN trial, results # <<>>,
                    Len(results) = Len(trial.label.labels),
                    Len(trial.label.labels) <= Len(Fallback)
             PROVE  LET byColor == Last(results)
                    IN /\ {byColor[c] : c \in DOMAIN byColor} = ToSet(trial.label.labels)
                       /\ NoColour \notin DOMAIN byColor
  BY DEF LabelsKeepTheirColours
<1>1. Coloured(trial.label.labels, Last(results), Len(trial.label.labels))
  BY DEF LabelInv
<1>2. ToSet(trial.label.labels) = {trial.label.labels[j] : j \in 1..Len(trial.label.labels)}
  BY OneKindOfTrial, LabellingsAreLists DEF ToSet
<1>3. QED
  BY <1>1, <1>2 DEF Coloured

\* No label loses its colour before the palette is exhausted, whatever colours
\* the words of the labels suggest and in whatever order they come
\* (templates.go 123-153).
THEOREM LabelsAreKept == Spec => []LabelsKeepTheirColours
<1>1. Init => TrialInv /\ LabelInv
  <2> SUFFICES ASSUME Init PROVE LabelInv
    BY TrialInitially
  <2>1. results = <<>> /\ Len(results) = 0 /\ TrialInv
    BY TrialInitially DEF Init
  <2>2. "label" \in DOMAIN trial => Len(trial.label.labels) \in Nat
    BY <2>1, OneKindOfTrial, LabellingsAreLists
  <2>3. QED
    BY <2>1, <2>2 DEF LabelInv
<1>2. TrialInv /\ LabelInv /\ [Next]_vars => (TrialInv /\ LabelInv)'
  BY TrialStep, LabelStep
<1>3. QED
  BY <1>1, <1>2, LabelsAreColoured, PTL DEF Spec

-----------------------------------------------------------------------------
\* Counting.

\* Every element of a finite set is counted once under its key, whatever other
\* keys there are.
LEMMA EachIsCountedOnce ==
  ASSUME NEW D, IsFiniteSet(D), NEW K, NEW f \in [D -> K],
         NEW counts, DOMAIN counts = K,
         \A key \in K : counts[key] = Cardinality({d \in D : f[d] = key})
  PROVE  Total(counts) = Cardinality(D)
<1> DEFINE Fibre(key) == {d \in D : f[d] = key}
           b == [key \in K |-> CHOOSE g : g \in Bijection(1..counts[key], Fibre(key))]
           Pairs == UNION {{key} \X (1..counts[key]) : key \in K}
           F == [p \in Pairs |-> b[p[1]][p[2]]]
<1>1. ASSUME NEW key \in K
      PROVE  b[key] \in Bijection(1..counts[key], Fibre(key))
  <2>1. IsFiniteSet(Fibre(key))
    <3>1. Fibre(key) \in SUBSET D
      OBVIOUS
    <3>2. QED
      BY <3>1, FS_Subset
  <2>2. ExistsBijection(1..counts[key], Fibre(key))
    BY <2>1, FS_CardinalityType
  <2>3. \E g : g \in Bijection(1..counts[key], Fibre(key))
    BY <2>2 DEF ExistsBijection
  <2> HIDE DEF Fibre
  <2>4. QED
    BY <2>3
<1>2. ASSUME NEW key \in K
      PROVE  /\ \A i \in 1..counts[key] : b[key][i] \in D /\ f[b[key][i]] = key
             /\ \A i, j \in 1..counts[key] : b[key][i] = b[key][j] => i = j
             /\ \A d \in D : f[d] = key => \E i \in 1..counts[key] : b[key][i] = d
  <2>1. b[key] \in [1..counts[key] -> Fibre(key)] /\ IsInjective(b[key])
        /\ \A t \in Fibre(key) : \E i \in 1..counts[key] : b[key][i] = t
    BY <1>1 DEF Bijection, Injection, Surjection
  <2> HIDE DEF b
  <2>2. \A i \in 1..counts[key] : b[key][i] \in Fibre(key)
    BY <2>1
  <2>3. QED
    BY <2>1, <2>2 DEF IsInjective
<1>3. \A p : p \in Pairs <=> p = <<p[1], p[2]>> /\ p[1] \in K /\ p[2] \in 1..counts[p[1]]
  OBVIOUS
<1>4. F \in [Pairs -> D] /\ \A p \in Pairs : F[p] = b[p[1]][p[2]]
  <2> HIDE DEF b, Pairs
  <2>1. \A p \in Pairs : b[p[1]][p[2]] \in D
    BY <1>2, <1>3
  <2>2. QED
    BY <2>1
<1>5. ASSUME NEW p \in Pairs, NEW q \in Pairs, F[p] = F[q] PROVE p = q
  <2> HIDE DEF b, Pairs, F
  <2>1. f[F[p]] = p[1] /\ f[F[q]] = q[1]
    BY <1>2, <1>3, <1>4
  <2>2. p[1] = q[1]
    BY <1>5, <2>1
  <2>3. p[2] = q[2]
    BY <1>2, <1>3, <1>4, <1>5, <2>2
  <2>4. QED
    BY <1>3, <2>2, <2>3
<1>6. ASSUME NEW d \in D PROVE \E p \in Pairs : F[p] = d
  <2>1. f[d] \in K
    OBVIOUS
  <2>2. PICK i \in 1..counts[f[d]] : b[f[d]][i] = d
    BY <1>2, <2>1
  <2>3. <<f[d], i>> \in Pairs
    BY <2>1
  <2> HIDE DEF b, Pairs, F
  <2>4. F[<<f[d], i>>] = d
    BY <1>4, <2>2, <2>3
  <2>5. QED
    BY <2>3, <2>4
<1> HIDE DEF F, Pairs, b
<1>7. F \in Bijection(Pairs, D)
  BY <1>4, <1>5, <1>6, Fun_IsBij
<1>8. ExistsBijection(D, Pairs)
  BY <1>7, Fun_ExistsBijSymmetric DEF ExistsBijection
<1>9. QED
  BY <1>8, FS_Bijection DEF Total, Pairs

\* A share of a whole, rounded, is never more than its weight.
LEMMA PenaltyBound ==
  ASSUME NEW count \in Nat, NEW open \in Nat, count <= open, NEW weight \in Nat
  PROVE  Penalty(count, open, weight) \in 0..weight
<1>1. CASE open = 0 \/ count = 0
  BY <1>1 DEF Penalty
<1>2. CASE open # 0 /\ count # 0
  <2> DEFINE a == 2 * count * weight + open
             q == a \div (2 * open)
  <2>1. count * weight <= open * weight /\ count * weight \in Nat /\ open * weight \in Nat
    OBVIOUS
  <2>2. a \in Nat /\ a <= 2 * (open * weight) + open
    BY <2>1
  <2>3. q \in Nat /\ 2 * open * q <= a
    BY <1>2, <2>2
  <2> HIDE DEF q, a
  <2>4. ASSUME q > weight PROVE FALSE
    <3>1. q >= weight + 1
      BY <2>3, <2>4
    <3>2. open * q >= open * (weight + 1) 
      BY <2>3, <3>1
    <3>3. open * (weight + 1) = open * weight + open
      OBVIOUS
    <3>4. 2 * open * q = 2 * (open * q) /\ open * q \in Nat
      BY <2>3
    <3>5. QED
      BY <1>2, <2>1, <2>2, <2>3, <3>2, <3>3, <3>4
  <2>5. q \in 0..weight
    BY <2>3, <2>4
  <2>6. QED
    BY <1>2, <2>5 DEF Penalty, q, a
<1>3. QED
  BY <1>1, <1>2

\* What can be weighed can be listed, the heaviest first.
LEMMA SortedExists ==
  ASSUME NEW T, IsFiniteSet(T), NEW m \in [T -> Nat]
  PROVE  \E list \in [1..Cardinality(T) -> T] :
           /\ IsInjective(list)
           /\ \A j, k \in DOMAIN list : j < k => m[list[j]] >= m[list[k]]
<1> DEFINE Good(list) == /\ IsInjective(list)
                         /\ \A j, k \in DOMAIN list : j < k => m[list[j]] >= m[list[k]]
           Unlisted(S) == ~ \E list \in [1..Cardinality(S) -> S] : Good(list)
           Bad == {Cardinality(S) : S \in {U \in SUBSET T : Unlisted(U)}}
<1>f. \A S \in SUBSET T : IsFiniteSet(S) /\ Cardinality(S) \in Nat
  BY FS_Subset, FS_CardinalityType
<1>1. SUFFICES ASSUME Bad # {} PROVE FALSE
  <2> SUFFICES ASSUME Unlisted(T) PROVE Bad # {}
    OBVIOUS
  <2>1. T \in {U \in SUBSET T : Unlisted(U)}
    OBVIOUS
  <2> HIDE DEF Unlisted
  <2>2. QED
    BY <2>1
<1>2. PICK S \in SUBSET T : Unlisted(S) /\ \A U \in SUBSET T : Unlisted(U) => Cardinality(S) <= Cardinality(U)
  <2> HIDE DEF Unlisted
  <2>1. Bad \in SUBSET Nat
    BY <1>f
  <2>2. Min(Bad) \in Bad /\ \A j \in Bad : Min(Bad) <= j
    BY <1>1, <2>1, LeastExists
  <2>3. QED
    BY <2>2
<1>3. S # {}
  <2> SUFFICES ASSUME S = {} PROVE FALSE
    OBVIOUS
  <2> DEFINE list == [i \in {} |-> i]
  <2>1. Cardinality(S) = 0 /\ 1..0 = {}
    BY FS_EmptySet
  <2>2. list \in [1..Cardinality(S) -> S] /\ DOMAIN list = {}
    BY <2>1
  <2> HIDE DEF list
  <2>3. Good(list)
    BY <2>2 DEF IsInjective
  <2> HIDE DEF Good
  <2>4. QED
    BY <1>2, <2>2, <2>3
<1>4. PICK x \in S : \A y \in S : m[x] <= m[y]
  <2> DEFINE V == {m[y] : y \in S}
  <2>1. V \in SUBSET Nat /\ V # {}
    BY <1>3
  <2>2. Min(V) \in V /\ \A j \in V : Min(V) <= j
    <3> HIDE DEF V
    <3>1. QED
      BY <2>1, LeastExists
  <2>3. QED
    BY <2>2
<1> DEFINE U == S \ {x}
           c == Cardinality(U)
<1>5. c \in Nat /\ Cardinality(S) = c + 1 /\ U \in SUBSET T
  <2>1. U \in SUBSET T /\ IsFiniteSet(S) /\ Cardinality(S) \in Nat
    BY <1>f
  <2>2. c = Cardinality(S) - 1
    BY <2>1, FS_RemoveElement
  <2>3. c \in Nat
    BY <1>f, <2>1
  <2>4. QED
    BY <2>1, <2>2, <2>3
<1>6. PICK g \in [1..c -> U] : Good(g)
  <2>1. ~ Unlisted(U)
    <3> HIDE DEF Unlisted
    <3>1. QED
      BY <1>2, <1>5
  <2>2. QED
    BY <2>1
<1> DEFINE list == [i \in 1..(c + 1) |-> IF i <= c THEN g[i] ELSE x]
<1>7. ASSUME NEW i \in 1..(c + 1)
      PROVE  \/ i \in 1..c /\ list[i] = g[i] /\ list[i] \in U
             \/ i = c + 1 /\ list[i] = x
  <2> HIDE DEF U, c
  <2>1. i \in 1..c \/ i = c + 1
    BY <1>5
  <2>2. QED
    BY <1>5, <1>6, <2>1
<1>8. list \in [1..Cardinality(S) -> S]
  <2>1. \A i \in 1..(c + 1) : list[i] \in S
    BY <1>7
  <2>2. list = [i \in 1..(c + 1) |-> list[i]]
    OBVIOUS
  <2> HIDE DEF list, c, U
  <2>3. list \in [1..(c + 1) -> S]
    BY <2>1, <2>2
  <2>4. QED
    BY <1>5, <2>3
<1>9. IsInjective(list)
  <2> SUFFICES ASSUME NEW i \in 1..(c + 1), NEW j \in 1..(c + 1), list[i] = list[j]
               PROVE  i = j
    BY DEF IsInjective
  <2>1. x \notin U
    OBVIOUS
  <2>2. DOMAIN g = 1..c
    OBVIOUS
  <2> HIDE DEF list, c, U
  <2>3. QED
    BY <1>6, <1>7, <2>1, <2>2 DEF IsInjective
<1>10. ASSUME NEW i \in 1..(c + 1), NEW j \in 1..(c + 1), i < j
       PROVE  m[list[i]] >= m[list[j]]
  <2>1. DOMAIN g = 1..c /\ U \subseteq S
    OBVIOUS
  <2>2. i \in 1..c /\ list[i] = g[i] /\ list[i] \in U
    <3> HIDE DEF list, U, c
    <3>1. i # c + 1
      BY <1>5, <1>10
    <3>2. QED
      BY <1>7, <3>1
  <2>3. CASE j = c + 1
    <3>1. list[j] = x
      BY <1>7, <1>5, <2>3
    <3>2. list[i] \in S /\ m[list[i]] \in Nat /\ m[x] \in Nat
      BY <2>1, <2>2
    <3> HIDE DEF list, U, c
    <3>3. QED
      BY <1>4, <3>1, <3>2
  <2>4. CASE j # c + 1
    <3> HIDE DEF list, U, c
    <3>1. j \in 1..c /\ list[j] = g[j]
      BY <1>7, <2>4
    <3>2. QED
      BY <1>6, <1>10, <2>1, <2>2, <3>1
  <2>5. QED
    BY <2>3, <2>4
<1>11. DOMAIN list = 1..(c + 1)
  OBVIOUS
<1> HIDE DEF list, c, U
<1>12. QED
  BY <1>2, <1>8, <1>9, <1>10, <1>11

-----------------------------------------------------------------------------
\* The items a report tells of.

AreDone(s) == {k \in DOMAIN s.items : Done(s, s.items[k])}
AreLate(s) == {k \in DOMAIN s.items : OverdueDays(s, s.items[k]) > 0}
AreBlocked(s) == {k \in DOMAIN s.items : ~Done(s, s.items[k]) /\ Blocked(s, s.items[k])}
AreOpen(s) == DOMAIN s.items \ AreDone(s)
AreNobodys(s) == {k \in AreOpen(s) : Persons(Cols(s), s.items[k]) = <<>>}

LEMMA ReadSnapshot ==
  ASSUME NEW s \in Snapshots
  PROVE  /\ Len(s.items) \in Nat /\ DOMAIN s.items = 1..Len(s.items)
         /\ IsFiniteSet(DOMAIN s.items) /\ Cardinality(DOMAIN s.items) = Len(s.items)
         /\ LocalDay(s) \in Int /\ UTCDay(s) \in Int /\ s.now \in Int
         /\ s.now - 24 * s.days \in Int /\ s.now - s.hours \in Int
         /\ LocalDay(s) <= UTCDay(s) + 1 /\ 24 * UTCDay(s) <= s.now
         /\ \A k \in DOMAIN s.items :
              /\ Due(Cols(s), s.items[k]) \in Int /\ s.items[k].updated \in Int
              /\ OverdueDays(s, s.items[k]) \in Nat
              /\ Len(Persons(Cols(s), s.items[k])) \in Nat
              /\ DOMAIN Persons(Cols(s), s.items[k]) = 1..Len(Persons(Cols(s), s.items[k]))
              /\ Persons(Cols(s), s.items[k]) = <<>> <=> Len(Persons(Cols(s), s.items[k])) = 0
<1>1. Len(s.items) \in Nat /\ DOMAIN s.items = 1..Len(s.items)
  BY SnapshotsAreRead
<1>8. /\ s.now \in Int /\ s.zone \in Int /\ s.zone <= 14
      /\ s.days \in Int /\ s.hours \in Int
  BY InputsAreBounded
<1>7. /\ LocalDay(s) \in Int /\ UTCDay(s) \in Int
      /\ s.now - 24 * s.days \in Int /\ s.now - s.hours \in Int
      /\ LocalDay(s) <= UTCDay(s) + 1 /\ 24 * UTCDay(s) <= s.now
  BY <1>8 DEF LocalDay, UTCDay
<1>2. IsFiniteSet(DOMAIN s.items) /\ Cardinality(DOMAIN s.items) = Len(s.items)
  BY <1>1, FS_Interval
<1>3. ASSUME NEW k \in DOMAIN s.items
      PROVE  /\ Due(Cols(s), s.items[k]) \in Int /\ s.items[k].updated \in Int
             /\ Persons(Cols(s), s.items[k]) \in Seq(ToSet(Persons(Cols(s), s.items[k])))
  BY SnapshotsAreRead
<1>4. ASSUME NEW k \in DOMAIN s.items PROVE OverdueDays(s, s.items[k]) \in Nat
  BY <1>3, <1>7 DEF OverdueDays
<1>5. ASSUME NEW k \in DOMAIN s.items
      PROVE  /\ Len(Persons(Cols(s), s.items[k])) \in Nat
             /\ DOMAIN Persons(Cols(s), s.items[k]) = 1..Len(Persons(Cols(s), s.items[k]))
             /\ Persons(Cols(s), s.items[k]) = <<>> <=> Len(Persons(Cols(s), s.items[k])) = 0
  BY <1>3
<1>6. QED
  BY <1>1, <1>2, <1>3, <1>4, <1>5, <1>7, <1>8

LEMMA OpenItems ==
  ASSUME NEW s \in Snapshots
  PROVE  /\ AreLate(s) \subseteq AreOpen(s) /\ AreBlocked(s) \subseteq AreOpen(s)
         /\ AreNobodys(s) \subseteq AreOpen(s)
         /\ \A days : Stale(s, days) \subseteq AreOpen(s)
         /\ IsFiniteSet(AreOpen(s)) /\ Cardinality(AreOpen(s)) \in Nat
         /\ Cardinality(AreOpen(s)) = Len(s.items) - Cardinality(AreDone(s))
<1>1. AreLate(s) \subseteq AreOpen(s)
  BY DEF AreLate, AreOpen, AreDone, OverdueDays
<1>2. AreBlocked(s) \subseteq AreOpen(s) /\ AreNobodys(s) \subseteq AreOpen(s)
  BY DEF AreBlocked, AreNobodys, AreOpen, AreDone
<1>3. ASSUME NEW days PROVE Stale(s, days) \subseteq AreOpen(s)
  BY DEF Stale, Where, AreOpen, AreDone
<1>4. AreDone(s) = DOMAIN s.items \cap AreDone(s)
  BY DEF AreDone
<1>5. IsFiniteSet(AreOpen(s))
      /\ Cardinality(AreOpen(s)) = Len(s.items) - Cardinality(AreDone(s))
  <2> DEFINE D == DOMAIN s.items
             E == AreDone(s)
  <2>1. IsFiniteSet(D) /\ Cardinality(D) = Len(s.items) /\ E = D \cap E
    BY <1>4, ReadSnapshot
  <2>2. AreOpen(s) = D \ E
    BY DEF AreOpen
  <2> HIDE DEF D, E
  <2>3. IsFiniteSet(D \ E) /\ Cardinality(D \ E) = Cardinality(D) - Cardinality(D \cap E)
    BY <2>1, FS_Difference
  <2>4. Cardinality(D \ E) = Len(s.items) - Cardinality(E)
    BY <2>1, <2>3
  <2>5. QED
    BY <2>2, <2>3, <2>4 DEF E
<1>6. QED
  BY <1>1, <1>2, <1>3, <1>5, FS_CardinalityType

\* The counts of the summary, as sets of items.
LEMMA SummaryOf ==
  ASSUME NEW s \in Snapshots
  PROVE  LET r == Summarize(s)
         IN /\ r.total = Len(s.items) /\ r.done = Cardinality(AreDone(s))
            /\ r.overdue = Cardinality(AreLate(s)) /\ r.blocked = Cardinality(AreBlocked(s))
            /\ r.unassigned = IF Cols(s).people = None THEN 0 ELSE Cardinality(AreNobodys(s))
            /\ r.byGroup = CountBy([k \in DOMAIN s.items |-> s.items[k].group])
            /\ r.byStatus = IF Cols(s).status = None THEN <<>>
                            ELSE CountBy([k \in DOMAIN s.items |-> Status(Cols(s), s.items[k])])
<1>1. {k \in DOMAIN s.items : ~Done(s, s.items[k]) /\ OverdueDays(s, s.items[k]) > 0} = AreLate(s)
  BY OpenItems DEF AreLate, AreOpen, AreDone
<1>2. {k \in DOMAIN s.items : ~Done(s, s.items[k]) /\ Persons(Cols(s), s.items[k]) = <<>>} = AreNobodys(s)
  BY DEF AreNobodys, AreOpen, AreDone
<1>3. QED
  BY <1>1, <1>2 DEF Summarize, Where, AreDone, AreBlocked

\* The counts by any key add up to all there are.
LEMMA CountedBy ==
  ASSUME NEW n \in Nat, NEW keys, DOMAIN keys = 1..n
  PROVE  Total(CountBy(keys)) = n
<1> DEFINE D == 1..n
           K == {keys[k] : k \in D}
           f == [k \in D |-> keys[k]]
           counts == CountBy(keys)
<1>1. IsFiniteSet(D) /\ Cardinality(D) = n
  BY FS_Interval
<1>2. f \in [D -> K]
  OBVIOUS
<1>3. DOMAIN counts = K /\ \A key \in K : counts[key] = Cardinality({d \in D : keys[d] = key})
  BY DEF CountBy, ToSet
<1>4. \A key \in K : counts[key] = Cardinality({d \in D : f[d] = key})
  <2>1. ASSUME NEW key \in K PROVE {d \in D : keys[d] = key} = {d \in D : f[d] = key}
    OBVIOUS
  <2>2. QED
    BY <1>3, <2>1
<1> HIDE DEF f, K, D, counts
<1>5. Total(counts) = Cardinality(D)
  BY <1>1, <1>2, <1>3, <1>4, EachIsCountedOnce
<1>6. QED
  BY <1>1, <1>5 DEF counts

\* The list of late items has each of them once.
LEMMA OverdueListed ==
  ASSUME NEW s \in Snapshots
  PROVE  Len(Overdue(s)) = Cardinality(AreLate(s)) /\ ToSet(Overdue(s)) = AreLate(s)
<1> DEFINE late == AreLate(s)
           m == [k \in late |-> OverdueDays(s, s.items[k])]
           Fits(list) == /\ IsInjective(list)
                         /\ \A j, k \in DOMAIN list :
                              j < k => OverdueDays(s, s.items[list[j]])
                                       >= OverdueDays(s, s.items[list[k]])
           n == Cardinality(late)
<1>1. IsFiniteSet(late) /\ n \in Nat
  BY OpenItems, FS_Subset, FS_CardinalityType
<1>2. m \in [late -> Nat]
  BY ReadSnapshot DEF AreLate
<1>3. PICK list \in [1..n -> late] :
        /\ IsInjective(list)
        /\ \A j, k \in DOMAIN list : j < k => m[list[j]] >= m[list[k]]
  <2> HIDE DEF late, m
  <2>1. QED
    BY <1>1, <1>2, SortedExists
<1>4. Fits(list)
  <2>1. \A j \in DOMAIN list : m[list[j]] = OverdueDays(s, s.items[list[j]])
    OBVIOUS
  <2> HIDE DEF m
  <2>2. QED
    BY <1>3, <2>1
<1>5. Overdue(s) = CHOOSE l \in [1..n -> late] : Fits(l)
  BY DEF Overdue, Where, AreLate
<1>6. Overdue(s) \in [1..n -> late] /\ IsInjective(Overdue(s))
  BY <1>3, <1>4, <1>5
<1> HIDE DEF late, n
<1>7. Overdue(s) \in Injection(1..n, late)
  BY <1>6 DEF Injection
<1>8. IsFiniteSet(1..n) /\ Cardinality(1..n) = n
  BY <1>1, FS_Interval
<1>9. Overdue(s) \in Surjection(1..n, late)
  BY <1>1, <1>7, <1>8, FS_Injection DEF n
<1>10. ToSet(Overdue(s)) = late
  BY <1>6, <1>9 DEF ToSet, Surjection
<1>11. Len(Overdue(s)) = n
  BY <1>1, <1>6
<1>12. QED
  BY <1>10, <1>11 DEF late, n

-----------------------------------------------------------------------------
\* The load of each person.

\* Each item has a share, for its owner or for nobody.
LEMMA SharesOf ==
  ASSUME NEW s \in Snapshots
  PROVE  /\ IsFiniteSet(Shares(s))
         /\ \A x \in Shares(s) : x = <<x[1], x[2]>> /\ x[1] \in DOMAIN s.items
                                 /\ x[2] \in DOMAIN OwnersOf(s, s.items[x[1]])
         /\ \A k \in DOMAIN s.items : <<k, 1>> \in Shares(s)
<1> DEFINE D == DOMAIN s.items
           Part(k) == {k} \X DOMAIN OwnersOf(s, s.items[k])
           Parts == {Part(k) : k \in D}
           f == [k \in D |-> Part(k)]
<1>1. Shares(s) = UNION Parts
  BY DEF Shares
<1>2. ASSUME NEW k \in D
      PROVE  /\ Len(OwnersOf(s, s.items[k])) \in Nat \ {0}
             /\ DOMAIN OwnersOf(s, s.items[k]) = 1..Len(OwnersOf(s, s.items[k]))
  <2>1. CASE Persons(Cols(s), s.items[k]) = <<>>
    BY <2>1 DEF OwnersOf
  <2>2. CASE Persons(Cols(s), s.items[k]) # <<>>
    BY <2>2, ReadSnapshot DEF OwnersOf
  <2>3. QED
    BY <2>1, <2>2
<1>3. ASSUME NEW k \in D PROVE IsFiniteSet(Part(k))
  <2> DEFINE S == DOMAIN OwnersOf(s, s.items[k])
  <2>1. IsFiniteSet({k}) /\ IsFiniteSet(S)
    <3> DEFINE n == Len(OwnersOf(s, s.items[k]))
    <3>1. n \in Int /\ S = 1..n
      BY <1>2
    <3> HIDE DEF n, S, D
    <3>2. IsFiniteSet({k})
      BY FS_Singleton
    <3>3. IsFiniteSet(1..n)
      BY <3>1, FS_Interval
    <3>4. QED
      BY <3>1, <3>2, <3>3
  <2>2. IsFiniteSet({k} \X S)
    <3> HIDE DEF S
    <3>1. QED
      BY <2>1, FS_Product
  <2>3. QED
    BY <2>2
<1>4. f \in Surjection(D, Parts)
  BY DEF Surjection
<1>5. IsFiniteSet(D)
  BY ReadSnapshot
<1>6. IsFiniteSet(Parts)
  <2> HIDE DEF f, Parts, D
  <2>1. QED
    BY <1>4, <1>5, FS_Surjection
<1>7. \A P \in Parts : IsFiniteSet(P)
  <2> HIDE DEF Part
  <2>1. QED
    BY <1>3
<1>8. IsFiniteSet(Shares(s))
  <2> HIDE DEF Parts
  <2>1. QED
    BY <1>1, <1>6, <1>7, FS_UNION
<1>9. ASSUME NEW x \in Shares(s)
      PROVE  x = <<x[1], x[2]>> /\ x[1] \in D /\ x[2] \in DOMAIN OwnersOf(s, s.items[x[1]])
  BY DEF Shares
<1>10. ASSUME NEW k \in D PROVE <<k, 1>> \in Shares(s)
  <2>1. 1 \in DOMAIN OwnersOf(s, s.items[k])
    BY <1>2
  <2>2. QED
    BY <2>1 DEF Shares
<1>11. QED
  BY <1>8, <1>9, <1>10

\* Whoever the items are shared out among, each is somebody's.
LEMMA SharedOut ==
  ASSUME NEW s \in Snapshots, NEW A \in SUBSET DOMAIN s.items, NEW counts,
         DOMAIN counts = {Owner(s, x) : x \in Shares(s)},
         \A name \in DOMAIN counts :
           counts[name] = Cardinality({x \in Shares(s) : x[1] \in A /\ Owner(s, x) = name})
  PROVE  Total(counts) >= Cardinality(A)
<1> DEFINE D == {x \in Shares(s) : x[1] \in A}
           K == {Owner(s, x) : x \in Shares(s)}
           f == [x \in D |-> Owner(s, x)]
           g == [k \in A |-> <<k, 1>>]
<1>1. IsFiniteSet(D) /\ f \in [D -> K]
  <2>1. D \in SUBSET Shares(s)
    OBVIOUS
  <2>2. QED
    BY <2>1, SharesOf, FS_Subset
<1>2. \A key \in K : counts[key] = Cardinality({d \in D : f[d] = key})
  <2>1. ASSUME NEW key \in K
        PROVE  {x \in Shares(s) : x[1] \in A /\ Owner(s, x) = key} = {d \in D : f[d] = key}
    OBVIOUS
  <2>2. QED
    BY <2>1
<1>3. Total(counts) = Cardinality(D)
  <2> HIDE DEF f, D
  <2>1. QED
    BY <1>1, <1>2, EachIsCountedOnce
<1>4. g \in Injection(A, D)
  <2>1. ASSUME NEW k \in A PROVE <<k, 1>> \in D
    BY SharesOf
  <2>2. g \in [A -> D]
    <3> HIDE DEF D
    <3>1. QED
      BY <2>1
  <2>3. IsInjective(g)
    BY DEF IsInjective
  <2>4. QED
    BY <2>2, <2>3 DEF Injection
<1>5. IsFiniteSet(A) /\ Cardinality(A) <= Cardinality(D)
  <2> HIDE DEF D, g
  <2>1. QED
    BY <1>1, <1>4, FS_Injection
<1>6. Cardinality(A) \in Nat /\ Cardinality(D) \in Nat
  <2> HIDE DEF D
  <2>1. QED
    BY <1>1, <1>5, FS_CardinalityType
<1> HIDE DEF D
<1>7. QED
  BY <1>3, <1>5, <1>6

\* The load of a person, as the shares in sets of items.
LEMMA WorkloadOf ==
  ASSUME NEW s \in Snapshots
  PROVE  LET load == Workload(s)
             Share(A, name) == Cardinality({x \in Shares(s) : x[1] \in A /\ Owner(s, x) = name})
         IN /\ DOMAIN load = {Owner(s, x) : x \in Shares(s)}
            /\ \A name \in DOMAIN load :
                 /\ load[name].open = Share(AreOpen(s), name)
                 /\ load[name].done = Share(AreDone(s), name)
                 /\ load[name].overdue = Share(AreLate(s), name)
                 /\ load[name].blocked = Share(AreBlocked(s), name)
<1>1. ASSUME NEW x \in Shares(s)
      PROVE  /\ x[1] \in AreOpen(s) <=> ~Done(s, s.items[x[1]])
             /\ x[1] \in AreDone(s) <=> Done(s, s.items[x[1]])
             /\ x[1] \in AreLate(s) <=> ~Done(s, s.items[x[1]]) /\ OverdueDays(s, s.items[x[1]]) > 0
             /\ x[1] \in AreBlocked(s) <=> ~Done(s, s.items[x[1]]) /\ Blocked(s, s.items[x[1]])
  <2>1. x[1] \in DOMAIN s.items
    BY SharesOf
  <2>2. x[1] \in AreLate(s) => ~Done(s, s.items[x[1]])
    BY OpenItems DEF AreOpen, AreDone
  <2>3. QED
    BY <2>1, <2>2 DEF AreOpen, AreDone, AreLate, AreBlocked
<1>2. ASSUME NEW name
      PROVE  /\ {x \in Shares(s) : ~Done(s, s.items[x[1]]) /\ Owner(s, x) = name}
                = {x \in Shares(s) : x[1] \in AreOpen(s) /\ Owner(s, x) = name}
             /\ {x \in Shares(s) : Done(s, s.items[x[1]]) /\ Owner(s, x) = name}
                = {x \in Shares(s) : x[1] \in AreDone(s) /\ Owner(s, x) = name}
             /\ {x \in Shares(s) : (~Done(s, s.items[x[1]]) /\ OverdueDays(s, s.items[x[1]]) > 0)
                                    /\ Owner(s, x) = name}
                = {x \in Shares(s) : x[1] \in AreLate(s) /\ Owner(s, x) = name}
             /\ {x \in Shares(s) : (~Done(s, s.items[x[1]]) /\ Blocked(s, s.items[x[1]]))
                                    /\ Owner(s, x) = name}
                = {x \in Shares(s) : x[1] \in AreBlocked(s) /\ Owner(s, x) = name}
  BY <1>1
<1>3. QED
  BY <1>2 DEF Workload

\* The line of the unassigned is the items without an owner, if no one is called so.
LEMMA NobodysShare ==
  ASSUME NEW s \in Snapshots,
         {k \in DOMAIN s.items : Unassigned \in ToSet(Persons(Cols(s), s.items[k]))} = {}
  PROVE  LET load == Workload(s)
         IN Cardinality(AreNobodys(s)) = IF Unassigned \in DOMAIN load THEN load[Unassigned].open ELSE 0
<1> DEFINE A == AreNobodys(s)
           B == {x \in Shares(s) : x[1] \in AreOpen(s) /\ Owner(s, x) = Unassigned}
           g == [k \in A |-> <<k, 1>>]
<1>1. ASSUME NEW k \in A PROVE <<k, 1>> \in B /\ Owner(s, <<k, 1>>) = Unassigned
  BY SharesOf DEF AreNobodys, AreOpen, Owner, OwnersOf
<1>2. ASSUME NEW x \in B PROVE x[1] \in A /\ x = <<x[1], 1>>
  <2>1. x[1] \in DOMAIN s.items /\ x[2] \in DOMAIN OwnersOf(s, s.items[x[1]]) /\ x = <<x[1], x[2]>>
    BY SharesOf
  <2>2. Persons(Cols(s), s.items[x[1]]) = <<>>
    <3> SUFFICES ASSUME Persons(Cols(s), s.items[x[1]]) # <<>> PROVE FALSE
      OBVIOUS
    <3>1. Owner(s, x) \in ToSet(Persons(Cols(s), s.items[x[1]]))
      BY <2>1 DEF Owner, OwnersOf, ToSet
    <3>2. QED
      BY <2>1, <3>1
  <2>3. x[2] = 1
    BY <2>1, <2>2 DEF OwnersOf
  <2>4. QED
    BY <2>1, <2>2, <2>3 DEF AreNobodys
<1>3. g \in Bijection(A, B)
  <2> HIDE DEF A, B
  <2>1. g \in [A -> B] /\ \A j, k \in A : g[j] = g[k] => j = k
    BY <1>1
  <2>2. \A x \in B : \E k \in A : g[k] = x
    BY <1>2
  <2> HIDE DEF g
  <2>3. QED
    BY <2>1, <2>2, Fun_IsBij
<1>4. Cardinality(A) = Cardinality(B)
  <2>1. IsFiniteSet(A)
    BY OpenItems, FS_Subset
  <2> HIDE DEF A, B, g
  <2>2. QED
    BY <1>3, <2>1, FS_Bijection DEF ExistsBijection
<1>5. CASE Unassigned \in DOMAIN Workload(s)
  BY <1>4, <1>5, WorkloadOf
<1>6. CASE Unassigned \notin DOMAIN Workload(s)
  <2>1. B = {}
    BY <1>6, WorkloadOf
  <2>2. Cardinality(A) = 0
    BY <1>4, <2>1, FS_EmptySet
  <2>3. QED
    BY <1>6, <2>2
<1>7. QED
  BY <1>5, <1>6

-----------------------------------------------------------------------------
\* One story.

LEMMA SummaryAgrees ==
  ASSUME NEW s \in Snapshots, NEW r,
         r.summary = Summarize(s), r.overdue = Overdue(s), r.standup = BuildStandup(s)
  PROVE  SummaryAgreesWith(r)
<1>1. /\ r.summary.total = Len(s.items) /\ r.summary.overdue = Cardinality(AreLate(s))
      /\ r.summary.blocked = Cardinality(AreBlocked(s))
      /\ r.summary.byGroup = CountBy([k \in DOMAIN s.items |-> s.items[k].group])
      /\ r.summary.byStatus # <<>> =>
           r.summary.byStatus = CountBy([k \in DOMAIN s.items |-> Status(Cols(s), s.items[k])])
  BY SummaryOf
<1>2. Total(r.summary.byGroup) = r.summary.total
  <2> DEFINE keys == [k \in DOMAIN s.items |-> s.items[k].group]
  <2>1. Len(s.items) \in Nat /\ DOMAIN keys = 1..Len(s.items)
    BY ReadSnapshot
  <2> HIDE DEF keys
  <2>2. Total(CountBy(keys)) = Len(s.items)
    BY <2>1, CountedBy
  <2>3. QED
    BY <1>1, <2>2 DEF keys
<1>3. r.summary.byStatus # <<>> => Total(r.summary.byStatus) = r.summary.total
  <2> DEFINE keys == [k \in DOMAIN s.items |-> Status(Cols(s), s.items[k])]
  <2>1. Len(s.items) \in Nat /\ DOMAIN keys = 1..Len(s.items)
    BY ReadSnapshot
  <2> HIDE DEF keys
  <2>2. Total(CountBy(keys)) = Len(s.items)
    BY <2>1, CountedBy
  <2>3. QED
    BY <1>1, <2>2 DEF keys
<1>4. Len(r.overdue) = r.summary.overdue
  BY <1>1, OverdueListed
<1>5. ToSet(r.overdue) = r.standup.overdue
  BY OverdueListed DEF BuildStandup, Where, AreLate
<1>6. Cardinality(r.standup.blocked) = r.summary.blocked
  BY <1>1 DEF BuildStandup, Where, AreBlocked
<1>7. QED
  BY <1>2, <1>3, <1>4, <1>5, <1>6 DEF SummaryAgreesWith

LEMMA LoadAgrees ==
  ASSUME NEW s \in Snapshots, NEW r, r.summary = Summarize(s), r.workload = Workload(s)
  PROVE  NobodyIsLost(s, r)
<1> DEFINE load == Workload(s)
           done == [n \in DOMAIN load |-> load[n].done]
           overdue == [n \in DOMAIN load |-> load[n].overdue]
           blocked == [n \in DOMAIN load |-> load[n].blocked]
<1>1. /\ r.summary.done = Cardinality(AreDone(s))
      /\ r.summary.overdue = Cardinality(AreLate(s))
      /\ r.summary.blocked = Cardinality(AreBlocked(s))
      /\ r.summary.unassigned \in {0, Cardinality(AreNobodys(s))}
  BY SummaryOf
<1>2. Total(done) >= Cardinality(AreDone(s))
  <2>1. AreDone(s) \in SUBSET DOMAIN s.items
    BY DEF AreDone
  <2>2. /\ DOMAIN done = {Owner(s, x) : x \in Shares(s)}
        /\ \A n \in DOMAIN done :
             done[n] = Cardinality({x \in Shares(s) : x[1] \in AreDone(s) /\ Owner(s, x) = n})
    BY WorkloadOf
  <2> HIDE DEF done
  <2>3. QED
    BY <2>1, <2>2, SharedOut
<1>3. Total(overdue) >= Cardinality(AreLate(s))
  <2>1. AreLate(s) \in SUBSET DOMAIN s.items
    BY DEF AreLate
  <2>2. /\ DOMAIN overdue = {Owner(s, x) : x \in Shares(s)}
        /\ \A n \in DOMAIN overdue :
             overdue[n] = Cardinality({x \in Shares(s) : x[1] \in AreLate(s) /\ Owner(s, x) = n})
    BY WorkloadOf
  <2> HIDE DEF overdue
  <2>3. QED
    BY <2>1, <2>2, SharedOut
<1>4. Total(blocked) >= Cardinality(AreBlocked(s))
  <2>1. AreBlocked(s) \in SUBSET DOMAIN s.items
    BY DEF AreBlocked
  <2>2. /\ DOMAIN blocked = {Owner(s, x) : x \in Shares(s)}
        /\ \A n \in DOMAIN blocked :
             blocked[n] = Cardinality({x \in Shares(s) : x[1] \in AreBlocked(s) /\ Owner(s, x) = n})
    BY WorkloadOf
  <2> HIDE DEF blocked
  <2>3. QED
    BY <2>1, <2>2, SharedOut
<1>5. {k \in DOMAIN s.items : Unassigned \in ToSet(Persons(Cols(s), s.items[k]))} = {} =>
        Cardinality(AreNobodys(s)) = IF Unassigned \in DOMAIN load THEN load[Unassigned].open ELSE 0
  BY NobodysShare
<1> HIDE DEF load
<1>6. QED
  BY <1>1, <1>2, <1>3, <1>4, <1>5 DEF NobodyIsLost, load

LEMMA PenaltiesAddUp ==
  ASSUME NEW s \in Snapshots
  PROVE  Score(s) + Penalties(s) = 100
<1> DEFINE open == Cardinality(AreOpen(s))
<1>1. open \in Nat /\ open = Summarize(s).total - Summarize(s).done /\ IsFiniteSet(AreOpen(s))
  BY OpenItems, SummaryOf
<1>2. ASSUME NEW S, S \subseteq AreOpen(s)
      PROVE  Cardinality(S) \in Nat /\ Cardinality(S) <= open
  BY <1>1, <1>2, FS_Subset, FS_CardinalityType
<1> HIDE DEF open
<1>3. Penalty(Summarize(s).overdue, open, 40) \in 0..40
  BY <1>1, <1>2, OpenItems, SummaryOf, PenaltyBound
<1>4. Penalty(Summarize(s).blocked, open, 25) \in 0..25
  BY <1>1, <1>2, OpenItems, SummaryOf, PenaltyBound
<1>5. Penalty(Cardinality(Stale(s, s.staleDays)), open, 20) \in 0..20
  BY <1>1, <1>2, OpenItems, PenaltyBound
<1>6. Penalty(Summarize(s).unassigned, open, 15) \in 0..15
  <2>1. Cardinality(AreNobodys(s)) \in Nat /\ Cardinality(AreNobodys(s)) <= open
    BY <1>2, OpenItems
  <2>2. Summarize(s).unassigned = IF Cols(s).people = None THEN 0 ELSE Cardinality(AreNobodys(s))
    BY SummaryOf
  <2>3. Summarize(s).unassigned \in Nat /\ Summarize(s).unassigned <= open
    BY <1>1, <2>1, <2>2
  <2>4. QED
    BY <1>1, <2>3, PenaltyBound
<1>7. Penalties(s)
        = Penalty(Summarize(s).overdue, open, 40) + Penalty(Summarize(s).blocked, open, 25)
          + Penalty(Cardinality(Stale(s, s.staleDays)), open, 20)
          + Penalty(Summarize(s).unassigned, open, 15)
  BY <1>1 DEF Penalties
<1>8. Penalties(s) \in 0..100
  BY <1>3, <1>4, <1>5, <1>6, <1>7
<1>9. QED
  BY <1>8 DEF Score

LEMMA MotionAndStaleness ==
  ASSUME NEW s \in Snapshots, s.hours <= 24 * s.days
  PROVE  BuildStandup(s).moving \cap Stale(s, s.days) = {}
<1>1. \A k \in DOMAIN s.items : s.items[k].updated \in Int
  BY ReadSnapshot
<1>2. s.now \in Int /\ s.days \in Int /\ s.hours \in Int
  BY InputsAreBounded
<1>3. s.now - s.hours >= s.now - 24 * s.days
  BY <1>2
<1>4. s.now - s.hours \in Int /\ s.now - 24 * s.days \in Int
  BY <1>2
<1>5. QED
  BY <1>1, <1>3, <1>4 DEF BuildStandup, Stale, Where

\* The server's clock is ahead of UTC by less than a day.
LEMMA LateIsListed ==
  ASSUME NEW s \in Snapshots, Cols(s).date = Projected(s).date
  PROVE  /\ AreLate(s) \subseteq Risk(s).overdue \cup Risk(s).dueSoon
         /\ LocalDay(s) <= UTCDay(s) => AreLate(s) \subseteq Risk(s).overdue
<1> DEFINE due(k) == Due(Cols(s), s.items[k])
<1>1. ASSUME NEW k \in AreLate(s)
      PROVE  k \in DOMAIN s.items /\ due(k) \in Int /\ due(k) # NoDay /\ due(k) < LocalDay(s)
  BY ReadSnapshot DEF AreLate, OverdueDays
<1>2. \A k : due(k) = Due(Projected(s), s.items[k])
  BY DEF Due
<1>3. /\ LocalDay(s) \in Int /\ UTCDay(s) \in Int /\ s.now \in Int
      /\ LocalDay(s) <= UTCDay(s) + 1 /\ 24 * UTCDay(s) <= s.now
  BY ReadSnapshot
<1> HIDE DEF due
<1>4. ASSUME NEW k \in AreLate(s)
      PROVE  /\ due(k) <= UTCDay(s) /\ 24 * due(k) < s.now + 24 * 8
             /\ LocalDay(s) <= UTCDay(s) => due(k) < UTCDay(s)
  BY <1>1, <1>3
<1>5. Risk(s).overdue = {k \in DOMAIN s.items : due(k) # NoDay /\ due(k) < UTCDay(s)}
  BY <1>2 DEF Risk, Where
<1>6. Risk(s).dueSoon = {k \in DOMAIN s.items : /\ due(k) # NoDay /\ ~(due(k) < UTCDay(s))
                                                /\ 24 * due(k) < s.now + 24 * 8}
  BY <1>2 DEF Risk, Where
<1>7. QED
  BY <1>1, <1>4, <1>5, <1>6

ReportInv ==
  "board" \in DOMAIN trial /\ results # <<>> =>
    LET s == trial.board
        r == results[1]
    IN /\ r.summary = Summarize(s) /\ r.overdue = Overdue(s) /\ r.stale = Stale(s, s.days)
       /\ r.standup = BuildStandup(s) /\ r.workload = Workload(s)
       /\ r.penalties = Penalties(s) /\ r.score = Score(s) /\ r.risk = Risk(s)

LEMMA ReportStep ==
  ASSUME TrialInv, ReportInv, [Next]_vars
  PROVE  ReportInv'
<1>1. CASE UNCHANGED vars
  BY <1>1 DEF vars, ReportInv
<1>2. CASE Report
  BY <1>2 DEF Report, ReportInv
<1>3. CASE Validate \/ Colour
  BY <1>3, OneKindOfTrial DEF Validate, Colour, ReportInv
<1>4. QED
  BY <1>1, <1>2, <1>3 DEF Next

LEMMA ReportsTellOneStory ==
  ASSUME TrialInv, ReportInv
  PROVE  ReportsAgree
<1> SUFFICES ASSUME "board" \in DOMAIN trial, results # <<>>
             PROVE  LET s == trial.board
                        r == results[1]
                    IN /\ SummaryAgreesWith(r) /\ NobodyIsLost(s, r)
                       /\ r.score + r.penalties = 100
                       /\ MotionExcludesStale(s, r) /\ RiskMissesNothingLate(s, r)
  BY DEF ReportsAgree
<1> DEFINE s == trial.board
           r == results[1]
<1>1. s \in Snapshots
  BY OneKindOfTrial
<1>2. /\ r.summary = Summarize(s) /\ r.overdue = Overdue(s) /\ r.stale = Stale(s, s.days)
      /\ r.standup = BuildStandup(s) /\ r.workload = Workload(s)
      /\ r.penalties = Penalties(s) /\ r.score = Score(s) /\ r.risk = Risk(s)
  BY DEF ReportInv
<1> HIDE DEF s, r
<1>3. SummaryAgreesWith(r)
  BY <1>1, <1>2, SummaryAgrees
<1>4. NobodyIsLost(s, r)
  BY <1>1, <1>2, LoadAgrees
<1>5. MotionExcludesStale(s, r)
  BY <1>1, <1>2, MotionAndStaleness DEF MotionExcludesStale
<1>8. RiskMissesNothingLate(s, r)
  BY <1>1, <1>2, LateIsListed, OverdueListed DEF RiskMissesNothingLate
<1>6. r.score + r.penalties = 100
  BY <1>1, <1>2, PenaltiesAddUp
<1>7. QED
  BY <1>3, <1>4, <1>5, <1>6, <1>8 DEF s, r

\* Whatever board the snapshot is of, whatever columns, ages and hours are asked
\* for, and wherever the server's clock is, the summary, the listings, the stand-up,
\* the load of each person and the health score agree on what is late, blocked,
\* done and nobody's; and under the inputs ReportsAgree names, no item is in motion
\* and stale and the risk report misses none that is late (reports.go 298-527,
\* quality.go 321-364).
THEOREM ReportsTellTheSame == Spec => []ReportsAgree
<1>1. Init => TrialInv /\ ReportInv
  BY TrialInitially DEF Init, ReportInv
<1>2. TrialInv /\ ReportInv /\ [Next]_vars => (TrialInv /\ ReportInv)'
  BY TrialStep, ReportStep
<1>3. QED
  BY <1>1, <1>2, ReportsTellOneStory, PTL DEF Spec

=============================================================================
