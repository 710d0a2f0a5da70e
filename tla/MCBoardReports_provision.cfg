SPECIFICATION Spec
CONSTANTS
  todo = todo  doing = doing  closed = closed  status = status
  s1 = s1  s2 = s2  extra = extra  x1 = x1  x2 = x2
  Title = {todo, doing, closed}
  Default = Default  NoTitle = NoTitle  NoGroup = NoGroup
  Column = {status, x1, x2}
  Name = {s1, s2, extra, x1, x2}
  Copy = {x1, x2}
  OthersAdd = {extra}  TouchMax = 1
  TemplateColumns <- MCColumns
  TemplateGroups <- MCGroups
  Seeds <- MCSeeds
  PageMax = 2
  ReportMax = 3
  InspectMax = 5  InspectDefault = 3  PagesMax = 1
  Inspections = {}
  Wanted = {}
CHECK_DEADLOCK FALSE
INVARIANTS
  EveryStepIsAccounted
  ResultIsOnBoard
  GroupsKeepTemplateOrder
  CleanMeansTemplate
