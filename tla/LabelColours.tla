---------------------------- MODULE LabelColours ----------------------------
(***************************************************************************)
(* The labels a new status column is created with: ColumnDefaults gives one  *)
(* after the other a colour of monday's palette, by which monday keys them.  *)
(***************************************************************************)
EXTENDS Integers, Sequences, SequencesExt

CONSTANTS
  Fallback,   \* the colours for labels that suggest none, in order
  Suggests    \* Suggests[l]: the colour the words of label l suggest, or NoColour

NoColour == -1
DoneColour == 1   \* green

ASSUME FallbackColours == Fallback \in Seq(Nat \ {DoneColour}) /\ IsInjective(Fallback)
ASSUME SuggestedColours == \A l \in DOMAIN Suggests : Suggests[l] \in Nat \cup {NoColour}

\* The label that ends the work is green, whatever it is called.
semanticColor(label, done) == IF label = done THEN DoneColour ELSE Suggests[label]

FirstFree(used) ==
  LET free == {k \in DOMAIN Fallback : Fallback[k] \notin used}
  IN IF free = {} THEN NoColour ELSE Fallback[Min(free)]

\* A flaw: a colour that is suggested is taken, whoever has it.
ColourForAnyone(label, done, used) ==
  LET colour == semanticColor(label, done)
  IN IF colour = NoColour THEN FirstFree(used) ELSE colour

ColourFor(label, done, used) ==
  LET colour == semanticColor(label, done)
  IN IF colour = NoColour \/ colour \in used THEN FirstFree(used) ELSE colour

\* One turn of the loop over the labels of a column, where byColor has the label
\* of each colour: of two labels with one colour the later is left.
AddLabel(byColor, label, done) ==
  LET colour == ColourFor(label, done, DOMAIN byColor)
  IN [c \in DOMAIN byColor \cup {colour} |-> IF c = colour THEN label ELSE byColor[c]]
=============================================================================
