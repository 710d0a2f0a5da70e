SPECIFICATION Spec
CONSTANTS
  c1 = c1  home = home  away = away  near = near  far = far  missing = missing
  homeValues = homeValues
  Call = {c1}
  Item = {near, far, missing}  NoItem = NoItem
  Board = {home, away}  Gone = Gone
  Values = {homeValues}  NoValues = NoValues
  Allowed = {home}
  MaxBulkItems = 3
  PlaceOf <- MCPlaceOf
  FitsOn <- MCFitsOn
  Asked <- MCPartial
CHECK_DEADLOCK FALSE
INVARIANTS
  InvalidRowHoldsBackAll
