SPECIFICATION Spec
CONSTANTS
  alice = alice
  bob = bob
  carol = carol
  p = p
  q = q
  None = None
  Free = Free
  Names <- MCThree
  Passwords <- MCPasswords
  Fold <- MCFold
  StartFile <- AliceFile
  FileEdits <- Edits
  StartUp <- BobCarolUp
  Passwordless = {carol}
  UpStates <- UpBoth
  Health = {"up"}
  Sessions = {s1, s2}
  Requests <- AllAsk
  Workers = {k1}
  Clients = {}
  MaxAge = 0
  MaxTime = 0
  MaxChanges = 1
SYMMETRY SessionSymmetry
INVARIANTS TypeOK LocalServed
PROPERTY ImplementsRegister
CHECK_DEADLOCK FALSE
