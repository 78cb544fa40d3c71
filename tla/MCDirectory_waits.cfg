SPECIFICATION Spec
CONSTANTS
  alice = alice
  bob = bob
  carol = carol
  p = p
  q = q
  None = None
  Free = Free
  Names <- MCNames
  Passwords <- MCPasswords
  Fold <- MCFold
  StartFile <- AliceFile
  FileEdits <- NoEdits
  StartUp <- BobUp
  Passwordless = {}
  UpStates <- UpOnly
  Health = {"up", "hung"}
  Sessions = {s1, s2}
  Requests <- BothAsk
  Workers = {k1}
  Clients = {}
  MaxAge = 0
  MaxTime = 0
  MaxChanges = 1
INVARIANT NoOtherChangeWaits
CHECK_DEADLOCK FALSE
