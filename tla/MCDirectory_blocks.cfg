SPECIFICATION Spec
CONSTANTS
  alice = alice
  bob = bob
  carol = carol
  p = p
  q = q
  None = None
  Free = Free
  Names <- MCNames
  Passwords <- MCPasswords
  Fold <- MCFold
  StartFile <- AliceFile
  FileEdits <- GroupEdit
  StartUp <- BobUp
  Passwordless = {}
  UpStates <- UpOnly
  Health = {"up"}
  Sessions = {s1}
  Requests <- AliceAsks
  Workers = {k1}
  Clients = {}
  MaxAge = 0
  MaxTime = 0
  MaxChanges = 1
INVARIANT GroupBlocksStayAsTheyWere
CHECK_DEADLOCK FALSE
