--------------------------- MODULE PureAlgorithms ---------------------------
(***************************************************************************)
(* The algorithms of the domain package, each run on inputs of a bounded     *)
(* set: values are validated and what comes out is validated again, as a     *)
(* caller does that writes the plan it was shown; labels are given colours,  *)
(* one after the other; a snapshot is reported on.                           *)
(***************************************************************************)
EXTENDS ColumnValues, LabelColours, Reports

CONSTANTS
  Writes,       \* [columns, input]: the columns of a board and values for them
  Labellings,   \* [labels, done]: the labels of a new column, and the one for done
  Snapshots     \* what the reports are about, and what they are asked

\* Dates and hours are numbers; the inputs are within the bounds of the tools.
ASSUME WritesAreForBoards ==
  \A w \in Writes :
    /\ \A k \in DOMAIN w.columns : w.columns[k].labels \in Seq(ToSet(w.columns[k].labels))
    /\ \A id \in DOMAIN w.input : validDate(w.input[id]) => w.input[id].text.day \in Int
ASSUME LabellingsAreLists == \A l \in Labellings : l.labels \in Seq(ToSet(l.labels))
ASSUME SnapshotsAreRead ==
  \A s \in Snapshots :
    /\ s.items \in Seq(ToSet(s.items))
    /\ \A k \in DOMAIN s.items :
         /\ Due(Cols(s), s.items[k]) \in Int /\ s.items[k].updated \in Int
         /\ Persons(Cols(s), s.items[k]) \in Seq(ToSet(Persons(Cols(s), s.items[k])))
ASSUME InputsAreBounded ==
  \A s \in Snapshots :
    /\ s.now \in Int /\ s.zone \in -12..14
    /\ s.days \in 1..365 /\ s.staleDays \in 1..365 /\ s.hours \in 1..336

VARIABLES
  trial,    \* what is tried: one of the three kinds
  results   \* what came of it, round by round

vars == <<trial, results>>

Trials == [write : Writes] \cup [label : Labellings] \cup [board : Snapshots]

Init == trial \in Trials /\ results = <<>>

Rounds == 3

\* validate_column_values, then a write of the values it returned, and again.
Validate ==
  /\ "write" \in DOMAIN trial /\ Len(results) < Rounds
  /\ LET input == IF results = <<>> THEN trial.write.input ELSE Last(results).normalized
     IN results' = Append(results, PlanColumnValues(trial.write.columns, input))
  /\ UNCHANGED trial

\* The loop of ColumnDefaults, a label at each step.
Colour ==
  /\ "label" \in DOMAIN trial /\ Len(results) < Len(trial.label.labels)
  /\ LET byColor == IF results = <<>> THEN <<>> ELSE Last(results)
         label == trial.label.labels[Len(results) + 1]
     IN results' = Append(results, AddLabel(byColor, label, trial.label.done))
  /\ UNCHANGED trial

Report ==
  /\ "board" \in DOMAIN trial /\ results = <<>>
  /\ LET s == trial.board
     IN results' = <<[summary |-> Summarize(s), overdue |-> Overdue(s),
                      stale |-> Stale(s, s.days), standup |-> BuildStandup(s),
                      workload |-> Workload(s), penalties |-> Penalties(s),
                      score |-> Score(s), risk |-> Risk(s)]>>
  /\ UNCHANGED trial

Next == Validate \/ Colour \/ Report

Spec == Init /\ [][Next]_vars

\* ---- what must hold -----------------------------------------------------------------

Clears(v) == v \in {Null, EmptyObject, Str(BlankText)}

\* Two labels of a status that the reader of texts takes for one word.
Respelled(v, w) ==
  /\ HasForm(Field(v, "label"), "word") /\ HasForm(Field(w, "label"), "word")
  /\ Field(v, "label").text.word = Field(w, "label").text.word

\* The plan that validate_column_values shows is the one a write would send
\* (COLUMN_VALUES.md:10): sent as it is, each value is either refused or comes out
\* as it went in, and a value that clears a column goes on clearing it; it never
\* turns into another date or person, and into another label only where a column
\* has two that differ in nothing but case (columnvalues.go 121-277).
ResubmissionIsStable ==
  "write" \in DOMAIN trial =>
    \A k \in 2..Len(results) :
      LET before == results[k - 1].normalized
          after == results[k].normalized
      IN \A id \in DOMAIN after :
           \/ after[id] = before[id]
           \/ Clears(after[id]) /\ Clears(before[id])
           \/ Respelled(before[id], after[id])

\* A label is lost only to a palette that is exhausted: as long as there are no more
\* labels than spare colours each has a colour of monday's of its own, whatever
\* their words suggest and in whatever order they come (templates.go 123-153).
LabelsKeepTheirColours ==
  "label" \in DOMAIN trial /\ results # <<>> =>
    LET byColor == Last(results)
        labels == trial.label.labels
    IN Len(results) = Len(labels) /\ Len(labels) <= Len(Fallback) =>
         /\ {byColor[c] : c \in DOMAIN byColor} = ToSet(labels)
         /\ NoColour \notin DOMAIN byColor

\* The sum of counts: what there is, if there are so many of each.
Total(counts) == Cardinality(UNION {{key} \X (1..counts[key]) : key \in DOMAIN counts})

SummaryAgreesWith(r) ==
  /\ Total(r.summary.byGroup) = r.summary.total
  /\ r.summary.byStatus # <<>> => Total(r.summary.byStatus) = r.summary.total
  /\ Len(r.overdue) = r.summary.overdue
  /\ ToSet(r.overdue) = r.standup.overdue
  /\ Cardinality(r.standup.blocked) = r.summary.blocked

NobodyIsLost(s, r) ==
  LET load == r.workload
      unassigned == IF Unassigned \in DOMAIN load THEN load[Unassigned].open ELSE 0
      bearers == {k \in DOMAIN s.items : Unassigned \in ToSet(Persons(Cols(s), s.items[k]))}
  IN /\ bearers = {} => r.summary.unassigned \in {0, unassigned}
     /\ Total([n \in DOMAIN load |-> load[n].done]) >= r.summary.done
     /\ Total([n \in DOMAIN load |-> load[n].overdue]) >= r.summary.overdue
     /\ Total([n \in DOMAIN load |-> load[n].blocked]) >= r.summary.blocked

\* The stand-up and the list of stale items are asked for apart: only where the
\* stand-up looks back no further than the age that makes an item stale is none of
\* them in motion and stale.
MotionExcludesStale(s, r) ==
  s.hours <= 24 * s.days => r.standup.moving \cap r.stale = {}

\* The risk report takes its day from UTC and no column from the caller.  Where
\* both read the same dates it lists each overdue item, but where the server's clock
\* is a day ahead it may list it as due soon.
RiskMissesNothingLate(s, r) ==
  Cols(s).date = Projected(s).date =>
    /\ ToSet(r.overdue) \subseteq r.risk.overdue \cup r.risk.dueSoon
    /\ LocalDay(s) <= UTCDay(s) => ToSet(r.overdue) \subseteq r.risk.overdue

\* The reports walk the same items separately and must tell one story: the totals
\* of the summary are those of its listings, of the stand-up and of the load per
\* person, as long as no one is called Unassigned; every penalty counts, for
\* together they never exceed the hundred points they are taken from; and, each
\* under the inputs it needs for that, no item is both in motion and stale, and
\* the risk report misses nothing that is late (reports.go 298-527, quality.go
\* 321-364).
ReportsAgree ==
  "board" \in DOMAIN trial /\ results # <<>> =>
    LET s == trial.board
        r == results[1]
    IN /\ SummaryAgreesWith(r) /\ NobodyIsLost(s, r)
       /\ r.score + r.penalties = 100
       /\ MotionExcludesStale(s, r) /\ RiskMissesNothingLate(s, r)
=============================================================================
