CONSTANTS
  a = a
  b = b
  c = c
  s = s
  ab = ab
  ba = ba
  bc = bc
  ca = ca
  nobody = nobody
  Service = {s}
  Endpoint = {a, b, c}
  Node = {a, b, c}
  Link = {ab, bc, ca}
  Src <- MCSrc
  Dst <- MCDst
  SeenAs <- MCSeenAs
  Svc <- MCSvc
  ReadRestarts <- MCMixed
  Leavers = {b}
  Sayers = {}
  Faulty = {bc}
SPECIFICATION Spec
INVARIANTS TypeOK ToldOnce ForwardOnce OutPeerInformed AnnouncedBeforeClosed ReplyNotSentBack ReplyComes
PROPERTIES ClientLinks
CHECK_DEADLOCK FALSE
