------------------------------- MODULE MCWire -------------------------------
EXTENDS Wire

CONSTANTS s, e, z

Peer(service, endpoint, time) ==
  [type |-> PEER, service |-> service, endpoint |-> endpoint, lastSeen |-> time]

\* A plain message of each kind, one from 2087, one without a service, one
\* with a blank in its name and one with a zero byte.
MCWritten == {Peer(<<s>>, <<e>>, 1), Peer(<<s>>, <<e>>, 2), Peer(<<>>, <<e>>, 1),
              Peer(<<s, s>>, <<e>>, 1), [type |-> QUERY, service |-> <<s>>],
              [type |-> QUERY, service |-> <<z>>]}
=============================================================================
