SPECIFICATION Spec
CONSTANTS
  r1 = r1  r2 = r2  prefix = "prefix"
  Req = {r1, r2}
  Cases <- MCCases
  PrefixesOf <- MCPrefixesOf
CHECK_DEADLOCK FALSE
INVARIANTS
  EffectsWithinSettings
  OwnCredential
  HiddenExactlyWhatIsRefused
