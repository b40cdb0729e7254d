CONSTANTS
  PB01 = PB01
  PEER = PEER
  QUERY = QUERY
  Newline = Newline
  Junk = Junk
  s = s
  e = e
  z = z
  Zero = z
  Name = {s, e, z}
  Width = 2
  MaxWrites = 4
  MaxJunk = 1
  Written <- MCWritten
SPECIFICATION Spec
INVARIANTS TypeOK ReadAsWritten DamageIsLocal
CHECK_DEADLOCK FALSE
