SPECIFICATION Spec
CONSTANTS
  alice = alice
  bob = bob
  carol = carol
  p = p
  q = q
  None = None
  Free = Free
  Names <- MCNames
  Passwords <- MCPasswords
  Fold <- MCFoldOne
  StartFile <- AliceFile
  FileEdits <- NameEdits
  StartUp <- EmptyUp
  Passwordless = {}
  UpStates <- UpOnly
  Health = {"up", "down", "hung"}
  Sessions = {s1}
  Requests <- AliceAsks
  Workers = {k1, k2}
  Clients = {c1}
  MaxAge = 1
  MaxTime = 4
  MaxChanges = 1
SYMMETRY WorkerSymmetry
INVARIANTS NeverOverlaps AnswersAreYoungEnough NoTwoSpellings
PROPERTIES BuiltNeverGoesBack RefusedWhenStale
CHECK_DEADLOCK FALSE
