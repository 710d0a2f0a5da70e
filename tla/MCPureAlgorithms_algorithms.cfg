SPECIFICATION Spec
CONSTANTS
  Fallback <- MCFallback
  Suggests <- MCSuggests
  UsuallyDone <- MCUsuallyDone
  SoundsBlocked <- MCSoundsBlocked
  SoundsAtRisk <- MCSoundsAtRisk
  Writes <- MCWrites
  Labellings <- MCLabellings
  Snapshots <- MCSnapshots
CHECK_DEADLOCK FALSE
INVARIANTS
  ResubmissionIsStable
  LabelsKeepTheirColours
  ReportsAgree
