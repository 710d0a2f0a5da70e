SPECIFICATION Spec
CONSTANTS
  home = home  annex = annex  away = away  fresh = fresh  sub = sub  awaySub = awaySub
  w1 = w1  w2 = w2
  onHome = onHome  onAway = onAway  later = later
  uHome = uHome  uAway = uAway
  Board = {home, away}
  Workspace = {w1, w2}
  Item = {onAway, later}
  Update = {uAway}
  NoWorkspace = NoWorkspace  NoBoard = NoBoard  NoItem = NoItem  NoUpdate = NoUpdate
  Unborn = Unborn  Gone = Gone  Unanswered = Unanswered
  Req = {r1}
  MainWorkspace = w2
  HomeOf <- MCHomeOf
  PlaceOf <- MCPlaceOf
  SubBoard <- MCSubBoard
  ItemOf <- MCItemOf
  OutsideMoves = {"item", "board"}
  ReadsFail = TRUE
  Policies <- AllPolicies
  Served <- ResolvedAlone
INVARIANTS
  WritesStayOnAllowedBoards
  WritesStayInScope
PROPERTIES
  LevelsBoundChanges
