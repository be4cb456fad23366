SPECIFICATION FairSpec
CONSTANTS
  Request = {r1, r2}
  Memory = {m1, m2}
  NoRecord = NoRecord
INVARIANTS
  StoresAreWhole
  ForgottenUnlessOverlapped
PROPERTY RequestsReturn
