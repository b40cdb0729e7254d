----------------------------- MODULE MCPeboNet -----------------------------
EXTENDS PeboNet

CONSTANTS a, b, c, s, ab, ba, bc, ca, nobody

\* A pair that know each other, and a ring of three.
SrcOf(l) == CASE l \in {ab} -> a [] l \in {ba, bc} -> b [] l = ca -> c
DstOf(l) == CASE l = ab -> b [] l \in {ba, ca} -> a [] l = bc -> c
MCSrc == [l \in Link |-> SrcOf(l)]
MCDst == [l \in Link |-> DstOf(l)]

\* What comes from c, or from b, looks as if it came from b, or from nobody.
MCSeenAs == {[l \in Link |-> IF l \in {ca, ba} THEN x ELSE nobody] : x \in {b, nobody}}

MCSvc == [n \in Node |-> s]

\* The libuv of every node is before 1.38; that of c is not.
MCOld == [n \in Node |-> TRUE]
MCMixed == [n \in Node |-> n # c]
=============================================================================
