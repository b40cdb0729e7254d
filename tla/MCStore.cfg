CONSTANTS
  s1 = s1
  s2 = s2
  e1 = e1
  e2 = e2
  Service = {s1, s2}
  Endpoint = {e1, e2}
  Self <- MCSelf
  MaxTime = 1
SPECIFICATION Spec
INVARIANTS TypeOK ViewInSync
PROPERTIES NoRedundantCallback DirectorySpec
CHECK_DEADLOCK FALSE
