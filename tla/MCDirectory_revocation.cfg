SPECIFICATION FairSpec
CONSTANTS
  alice = alice
  bob = bob
  carol = carol
  p = p
  q = q
  None = None
  Free = Free
  Names <- MCThree
  Passwords <- MCPasswords
  Fold <- MCFold
  StartFile <- StartNamesBob
  FileEdits <- NoEdits
  StartUp <- BobCarolUp
  Passwordless = {carol}
  UpStates <- Revocations
  Health = {"up", "hung"}
  Sessions = {s1, s2}
  Requests <- AliceAsks
  Workers = {k1}
  Clients = {}
  MaxAge = 0
  MaxTime = 0
  MaxChanges = 2
PROPERTIES OutageIsNoticed RevocationArrives EveryChangeIsAnswered
CHECK_DEADLOCK FALSE
