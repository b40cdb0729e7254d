CONSTANTS
  a = a
  b = b
  c = c
  s = s
  ab = ab
  ba = ba
  bc = bc
  ca = ca
  nobody = nobody
  Service = {s}
  Endpoint = {a, b}
  Node = {a, b}
  Link = {ab, ba}
  Src <- MCSrc
  Dst <- MCDst
  SeenAs <- MCSeenAs
  Svc <- MCSvc
  ReadRestarts <- MCOld
  Leavers = {a, b}
  Sayers = {a}
  Faulty = {ab, ba}
SPECIFICATION FairSpec
INVARIANTS OutPeerInformed
PROPERTIES ComesToRest Announced EveryLinkEnds
CHECK_DEADLOCK FALSE
