SPECIFICATION Spec
CONSTANTS
  bob = bob
  reader = reader
  READER = READER
  upstream = upstream
  code = code
  None = None
  Here = Here
  Binds = {b1, b2}
  Checks = {c1, c2}
  Sources = {Here, upstream}
  DNs <- MCDNs
  Lower <- MCLower
  Readers = {reader}
  People = {bob}
  Person <- MCPerson
  Where <- MCWhere
  Enrolled = {bob, reader}
  Codes = {code}
  Methods = {"pwd", "pin", "otp"}
  KindOf <- MCKindOf
  NoDN = NoDN
  Policies <- BothPolicies
  Requests <- AllRequests
  MaxPending = 1
  MaxGuesses = 1
SYMMETRY BindSymmetry
PROPERTY StaleIsUnavailable
CHECK_DEADLOCK FALSE
