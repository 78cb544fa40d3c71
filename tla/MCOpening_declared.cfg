SPECIFICATION Spec
CONSTANTS
  Unset = Unset
  Second = 20
  DefaultRefresh = 1200
  DefaultMaxAge = 12000
  DefaultRidBase = 2
  Max32 = 15
  Max64 = 63
  Configurations <- MCConfigurations
  Databases <- MCDatabases
  Rewrites = {{}, {"siteStaff"}, {"keyHolder", "nothing"}}
  MaxChanges = 1
INVARIANTS AMissingMustKeepsThePerson
CHECK_DEADLOCK FALSE
