SPECIFICATION Spec
CONSTANTS
  home = home  annex = annex  away = away  fresh = fresh  sub = sub  awaySub = awaySub
  w1 = w1  w2 = w2
  onHome = onHome  onAway = onAway  later = later
  uHome = uHome  uAway = uAway
  Board = {home, away}
  Workspace = {w1, w2}
  Item = {onHome, onAway}
  Update = {uHome, uAway}
  NoWorkspace = NoWorkspace  NoBoard = NoBoard  NoItem = NoItem  NoUpdate = NoUpdate
  Unborn = Unborn  Gone = Gone  Unanswered = Unanswered
  Req = {r1, r2}
  MainWorkspace = w2
  HomeOf <- MCHomeOf
  PlaceOf <- MCPlaceOf
  SubBoard <- MCSubBoard
  ItemOf <- MCItemOf
  OutsideMoves = {}
  ReadsFail = FALSE
  Policies <- ScopedPolicy
  Served <- OnlyReplyToUpdate
INVARIANTS
  WritesStayInScope
