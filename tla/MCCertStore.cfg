SPECIFICATION FairSpec
CONSTANTS
  Good = {0, 2}
  MaxContent = 2
  Lookers = {h1, h2}
  Free = Free
INVARIANTS TypeOK StampsTell
PROPERTIES NeverBackwards RenewalArrives
CHECK_DEADLOCK FALSE
