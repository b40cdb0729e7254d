----------------------------- MODULE WireProofs -----------------------------
(***************************************************************************)
(* What the reader of a line, and of a stream of lines cut anywhere, gets: *)
(* for any messages, any width of a time, and any number of writes.        *)
(***************************************************************************)
EXTENDS Wire, Integers, SequenceTheorems, FiniteSetTheorems, WellFoundedInduction, TLAPS

-----------------------------------------------------------------------------
(* Sequences and numbers.                                                  *)

LEMMA Least ==
  ASSUME NEW S \in SUBSET Nat, S # {}
  PROVE  \E m \in S : \A k \in S : m <= k
  <1> DEFINE R == {ss \in Nat \X Nat : ss[1] < ss[2]}
  <1>1. R = OpToRel(<, Nat)
    BY DEF OpToRel
  <1>2. IsWellFoundedOn(R, Nat)
    BY <1>1, NatLessThanWellFounded
  <1> HIDE DEF R
  <1>3. PICK m \in S : \A k \in S : ~ (<<k, m>> \in R)
    BY <1>2, WFMin
  <1>4. ASSUME NEW k \in S PROVE m <= k
    <2>1. k \in Nat /\ m \in Nat
      OBVIOUS
    <2>2. k < m => <<k, m>> \in R
      BY <2>1 DEF R
    <2>3. QED
      BY <1>3, <2>1, <2>2
  <1>5. QED
    BY <1>4

LEMMA Concat ==
  ASSUME NEW S, NEW s \in Seq(S), NEW t \in Seq(S)
  PROVE  /\ s \o t \in Seq(S) /\ Len(s \o t) = Len(s) + Len(t)
         /\ \A i \in 1 .. Len(s) : (s \o t)[i] = s[i]
         /\ \A i \in 1 .. Len(t) : (s \o t)[Len(s) + i] = t[i]
BY ConcatProperties

\* A sequence of five, entry by entry.
LEMMA FiveWords ==
  ASSUME NEW S, NEW s \in Seq(S), Len(s) = 5
  PROVE  s = <<s[1], s[2], s[3], s[4], s[5]>>
  <1> DEFINE t == <<s[1], s[2], s[3], s[4], s[5]>>
  <1>0. s[1] \in S /\ s[2] \in S /\ s[3] \in S /\ s[4] \in S /\ s[5] \in S
    <2>1. \A i \in 1 .. 5 : s[i] \in S
      BY ElementOfSeq
    <2>2. QED
      BY <2>1
  <1>1. /\ t \in Seq(S) /\ Len(t) = 5
        /\ t[1] = s[1] /\ t[2] = s[2] /\ t[3] = s[3] /\ t[4] = s[4] /\ t[5] = s[5]
    BY <1>0
  <1> HIDE DEF t
  <1>2. \A i \in 1 .. 5 : i = 1 \/ i = 2 \/ i = 3 \/ i = 4 \/ i = 5
    OBVIOUS
  <1>3. \A i \in 1 .. Len(s) : s[i] = t[i]
    BY <1>1, <1>2
  <1>4. s = t
    BY <1>1, <1>3, SeqEqual
  <1>5. QED
    BY <1>4 DEF t

\* The words of a PEER line.
LEMMA PeerWords ==
  ASSUME NEW S, NEW p \in S, NEW q \in S, NEW x \in S, NEW s \in Seq(S), NEW e \in Seq(S)
  PROVE  /\ <<p, q>> \o s \o e \o <<x>> \in Seq(S)
         /\ Len(s) = 1 /\ Len(e) = 1 => <<p, q>> \o s \o e \o <<x>> = <<p, q, s[1], e[1], x>>
  <1> DEFINE h == <<p, q>>
             a == h \o s
             b == a \o e
             y == <<x>>
             r == b \o y
  <1>1. /\ h \in Seq(S) /\ Len(h) = 2 /\ h[1] = p /\ h[2] = q
        /\ y \in Seq(S) /\ Len(y) = 1 /\ y[1] = x
    OBVIOUS
  <1> HIDE DEF h, y
  <1>h. h \in Seq(S)
    BY <1>1
  <1>y. y \in Seq(S)
    BY <1>1
  <1>2. a \in Seq(S)
    BY <1>1, Concat
  <1> HIDE DEF a
  <1>3. b \in Seq(S)
    BY <1>2, Concat
  <1> HIDE DEF b
  <1>4. r \in Seq(S)
    BY <1>1, <1>3, Concat
  <1> HIDE DEF r
  <1>5. ASSUME Len(s) = 1, Len(e) = 1
        PROVE  r = <<p, q, s[1], e[1], x>>
    <2>1. Len(a) = 3 /\ a[1] = p /\ a[2] = q /\ a[3] = s[1]
      <3>1. /\ Len(a) = Len(h) + Len(s) /\ \A i \in 1 .. Len(h) : a[i] = h[i]
            /\ \A i \in 1 .. Len(s) : a[Len(h) + i] = s[i]
        <4>1. /\ Len(h \o s) = Len(h) + Len(s)
              /\ \A i \in 1 .. Len(h) : (h \o s)[i] = h[i]
              /\ \A i \in 1 .. Len(s) : (h \o s)[Len(h) + i] = s[i]
          BY <1>h, Concat
        <4>2. QED
          BY <4>1 DEF a
      <3>2. QED
        BY <1>1, <1>5, <3>1
    <2>2. Len(b) = 4 /\ b[1] = p /\ b[2] = q /\ b[3] = s[1] /\ b[4] = e[1]
      <3>1. /\ Len(b) = Len(a) + Len(e) /\ \A i \in 1 .. Len(a) : b[i] = a[i]
            /\ \A i \in 1 .. Len(e) : b[Len(a) + i] = e[i]
        <4>1. /\ Len(a \o e) = Len(a) + Len(e)
              /\ \A i \in 1 .. Len(a) : (a \o e)[i] = a[i]
              /\ \A i \in 1 .. Len(e) : (a \o e)[Len(a) + i] = e[i]
          BY <1>2, Concat
        <4>2. QED
          BY <4>1 DEF b
      <3>2. QED
        BY <1>5, <2>1, <3>1
    <2>3. Len(r) = 5 /\ r[1] = p /\ r[2] = q /\ r[3] = s[1] /\ r[4] = e[1] /\ r[5] = x
      <3>1. /\ Len(r) = Len(b) + Len(y) /\ \A i \in 1 .. Len(b) : r[i] = b[i]
            /\ \A i \in 1 .. Len(y) : r[Len(b) + i] = y[i]
        <4>1. /\ Len(b \o y) = Len(b) + Len(y)
              /\ \A i \in 1 .. Len(b) : (b \o y)[i] = b[i]
              /\ \A i \in 1 .. Len(y) : (b \o y)[Len(b) + i] = y[i]
          BY <1>y, <1>3, Concat
        <4>2. QED
          BY <4>1 DEF r
      <3>2. QED
        BY <1>1, <2>2, <3>1
    <2>4. QED
      BY <1>4, <2>3, FiveWords
  <1>6. QED
    BY <1>4, <1>5 DEF h, a, b, y, r

LEMMA OneWord ==
  ASSUME NEW S, NEW s \in Seq(S), Len(s) = 1
  PROVE  s[1] \in S /\ s = <<s[1]>>
  <1>1. s[1] \in S
    BY ElementOfSeq
  <1> DEFINE t == <<s[1]>>
  <1>2. t \in Seq(S) /\ Len(t) = 1 /\ t[1] = s[1]
    BY <1>1
  <1> HIDE DEF t
  <1>3. \A i \in 1 .. Len(s) : s[i] = t[i]
    BY <1>2
  <1>4. s = t
    BY <1>2, <1>3, SeqEqual
  <1>5. QED
    BY <1>1, <1>4 DEF t

\* The words of a QUERY line.
LEMMA QueryWords ==
  ASSUME NEW S, NEW p \in S, NEW q \in S, NEW s \in Seq(S)
  PROVE  /\ <<p, q>> \o s \in Seq(S)
         /\ Len(s) = 1 => <<p, q>> \o s = <<p, q, s[1]>>
  <1> DEFINE h == <<p, q>>
  <1>1. h \in Seq(S)
    OBVIOUS
  <1>2. Len(h) = 2 /\ h[1] = p /\ h[2] = q
    OBVIOUS
  <1> HIDE DEF h
  <1>3. /\ h \o s \in Seq(S) /\ Len(h \o s) = Len(h) + Len(s)
        /\ \A i \in 1 .. Len(h) : (h \o s)[i] = h[i]
        /\ \A i \in 1 .. Len(s) : (h \o s)[Len(h) + i] = s[i]
    BY <1>1, Concat
  <1>4. ASSUME Len(s) = 1 PROVE h \o s = <<p, q, s[1]>>
    <2> DEFINE t == <<p, q, s[1]>>
    <2>1. s[1] \in S
      BY <1>4, OneWord
    <2>2. t \in Seq(S) /\ Len(t) = 3 /\ t[1] = p /\ t[2] = q /\ t[3] = s[1]
      BY <2>1
    <2> HIDE DEF t
    <2>3. /\ Len(h \o s) = 3 /\ (h \o s)[1] = p /\ (h \o s)[2] = q
          /\ (h \o s)[3] = s[1]
      BY <1>2, <1>3, <1>4
    <2>4. \A i \in 1 .. 3 : i = 1 \/ i = 2 \/ i = 3
      OBVIOUS
    <2>5. \A i \in 1 .. Len(h \o s) : (h \o s)[i] = t[i]
      BY <2>2, <2>3, <2>4
    <2>6. h \o s = t
      BY <1>3, <2>2, <2>3, <2>5, SeqEqual
    <2>7. QED
      BY <2>6 DEF t
  <1>5. QED
    BY <1>3, <1>4 DEF h

-----------------------------------------------------------------------------
(* Lines.                                                                  *)

Letter == Word \ {Newline}

LEMMA Words ==
  /\ {PB01, PEER, QUERY, Junk} \cup Name \cup Nat \subseteq Letter
  /\ Newline \in Word /\ Time \subseteq Nat
  <1>1. Newline \notin Nat
    BY WordAssumption DEF Mark
  <1>2. QED
    BY <1>1, WordAssumption DEF Letter, Word, Mark, Time

LEMMA PeerFields ==
  ASSUME NEW m \in PeerUpdateMessage
  PROVE  /\ m.type = PEER /\ m.service \in Seq(Letter) /\ m.endpoint \in Seq(Letter)
         /\ m.lastSeen \in Nat
         /\ m = [type |-> PEER, service |-> m.service, endpoint |-> m.endpoint,
                 lastSeen |-> m.lastSeen]
  <1>1. /\ m.type = PEER /\ m.service \in Seq(Name) /\ m.endpoint \in Seq(Name)
        /\ m.lastSeen \in Time
        /\ m = [type |-> PEER, service |-> m.service, endpoint |-> m.endpoint,
                lastSeen |-> m.lastSeen]
    BY DEF PeerUpdateMessage
  <1>2. Name \subseteq Letter /\ Time \subseteq Nat
    BY Words
  <1>3. Seq(Name) \subseteq Seq(Letter)
    BY <1>2
  <1>4. QED
    BY <1>1, <1>2, <1>3

LEMMA QueryFields ==
  ASSUME NEW m \in QueryMessage
  PROVE  /\ m.type = QUERY /\ m.service \in Seq(Letter)
         /\ m = [type |-> QUERY, service |-> m.service]
  <1>1. /\ m.type = QUERY /\ m.service \in Seq(Name)
        /\ m = [type |-> QUERY, service |-> m.service]
    BY DEF QueryMessage
  <1>2. Name \subseteq Letter
    BY Words
  <1>3. Seq(Name) \subseteq Seq(Letter)
    BY <1>2
  <1>4. QED
    BY <1>1, <1>3

\* A line has no newline but its last word.
LEMMA LineWords ==
  ASSUME NEW m \in Message
  PROVE  ToString(m) \in Seq(Letter)
  <1>0. /\ PB01 \in Letter /\ PEER \in Letter /\ QUERY \in Letter /\ Nat \subseteq Letter
        /\ PEER # QUERY
    BY Words, WordAssumption
  <1>1. CASE m \in PeerUpdateMessage
    <2>1. /\ m.type = PEER /\ m.service \in Seq(Letter) /\ m.endpoint \in Seq(Letter)
          /\ m.lastSeen \in Letter
      BY <1>0, <1>1, PeerFields
    <2>2. <<PB01, PEER>> \o m.service \o m.endpoint \o <<m.lastSeen>> \in Seq(Letter)
      BY <1>0, <2>1, PeerWords
    <2>3. QED
      BY <2>1, <2>2 DEF ToString
  <1>2. CASE m \in QueryMessage
    <2>1. m.type = QUERY /\ m.service \in Seq(Letter)
      BY <1>2, QueryFields
    <2>2. <<PB01, QUERY>> \o m.service \in Seq(Letter)
      BY <1>0, <2>1, QueryWords
    <2>3. QED
      BY <1>0, <2>1, <2>2 DEF ToString
  <1>3. QED
    BY <1>1, <1>2 DEF Message

\* What is written is what is read: for a message whose names are words, the
\* words of its line make the message again, but for a time that an int does
\* not hold (message.cpp:41-61, net_client.cpp:169-211).
THEOREM RoundTrip ==
  ASSUME NEW m \in Message, Sound(m)
  PROVE  Parse(ToString(m)) = Expected(m) /\ Expected(m) # NoMessage
  <1>0. /\ PB01 \in Letter /\ PEER \in Letter /\ QUERY \in Letter /\ Nat \subseteq Letter
        /\ PEER # QUERY /\ Junk # PEER /\ Junk # QUERY
    BY Words, WordAssumption
  <1>1. CASE m \in PeerUpdateMessage
    <2>1. /\ m.type = PEER /\ m.service \in Seq(Letter) /\ m.endpoint \in Seq(Letter)
          /\ m.lastSeen \in Nat
          /\ m = [type |-> PEER, service |-> m.service, endpoint |-> m.endpoint,
                  lastSeen |-> m.lastSeen]
      BY <1>1, PeerFields
    <2>2. Len(m.service) = 1 /\ Len(m.endpoint) = 1
      BY <2>1 DEF Sound
    <2>3. m.service = <<m.service[1]>> /\ m.endpoint = <<m.endpoint[1]>>
      BY <2>1, <2>2, OneWord
    <2>4. ToString(m) = <<PB01, PEER, m.service[1], m.endpoint[1], m.lastSeen>>
      <3>1. m.lastSeen \in Letter
        BY <1>0, <2>1
      <3>2. <<PB01, PEER>> \o m.service \o m.endpoint \o <<m.lastSeen>>
              = <<PB01, PEER, m.service[1], m.endpoint[1], m.lastSeen>>
        BY <1>0, <2>1, <2>2, <3>1, PeerWords
      <3>3. QED
        BY <2>1, <3>2 DEF ToString
    <2>5. Parse(ToString(m)) = [type |-> PEER, service |-> m.service, endpoint |-> m.endpoint,
                                lastSeen |-> Stoi(m.lastSeen)]
      <3> DEFINE s == m.service[1]
                 e == m.endpoint[1]
                 x == m.lastSeen
      <3> HIDE DEF s, e, x
      <3>1. Parse(<<PB01, PEER, s, e, x>>)
              = [type |-> PEER, service |-> <<s>>, endpoint |-> <<e>>, lastSeen |-> Stoi(x)]
        BY <1>0 DEF Parse
      <3>2. QED
        BY <2>3, <2>4, <3>1 DEF s, e, x
    <2>6. Stoi(m.lastSeen) = IF m.lastSeen <= MaxInt THEN m.lastSeen ELSE 0
      BY <2>1 DEF Stoi
    <2>7. Parse(ToString(m)) = Expected(m)
      <3>1. CASE m.lastSeen <= MaxInt
        BY <2>1, <2>5, <2>6, <3>1 DEF Expected
      <3>2. CASE ~(m.lastSeen <= MaxInt)
        <4>0. m.type = PEER /\ m.type # QUERY
          BY <1>0, <2>1
        <4>1. Expected(m) = [m EXCEPT !.lastSeen = 0]
          BY <4>0, <3>2 DEF Expected
        <4>2. [m EXCEPT !.lastSeen = 0] = [type |-> PEER, service |-> m.service,
                                           endpoint |-> m.endpoint, lastSeen |-> 0]
          BY <2>1
        <4>3. QED
          BY <2>5, <2>6, <3>2, <4>1, <4>2
      <3>3. QED
        BY <3>1, <3>2
    <2>8. Parse(ToString(m)).type = PEER
      BY <2>5
    <2>9. NoMessage.type = Junk
      BY DEF NoMessage
    <2>10. QED
      BY <1>0, <2>7, <2>8, <2>9
  <1>2. CASE m \in QueryMessage
    <2>1. /\ m.type = QUERY /\ m.service \in Seq(Letter)
          /\ m = [type |-> QUERY, service |-> m.service]
      BY <1>2, QueryFields
    <2>2. Len(m.service) = 1
      BY DEF Sound
    <2>3. m.service = <<m.service[1]>>
      BY <2>1, <2>2, OneWord
    <2>4. ToString(m) = <<PB01, QUERY, m.service[1]>>
      <3>1. <<PB01, QUERY>> \o m.service = <<PB01, QUERY, m.service[1]>>
        BY <1>0, <2>1, <2>2, QueryWords
      <3>2. QED
        BY <1>0, <2>1, <3>1 DEF ToString
    <2>5. Parse(ToString(m)) = [type |-> QUERY, service |-> m.service]
      <3> DEFINE s == m.service[1]
      <3> HIDE DEF s
      <3>1. Parse(<<PB01, QUERY, s>>) = [type |-> QUERY, service |-> <<s>>]
        BY <1>0 DEF Parse
      <3>2. QED
        BY <2>3, <2>4, <3>1 DEF s
    <2>6. Expected(m) = m
      BY <2>1 DEF Expected
    <2>7. NoMessage.type = Junk
      BY DEF NoMessage
    <2>8. QED
      BY <1>0, <2>1, <2>5, <2>6, <2>7
  <1>3. QED
    BY <1>1, <1>2 DEF Message

-----------------------------------------------------------------------------
(* Types.                                                                  *)

\* The first newline of the buffer is there, and is the first.
LEMMA TerminatorFirst ==
  ASSUME buffer \in Seq(Word), HasLine
  PROVE  /\ Terminator \in 1 .. Len(buffer) /\ buffer[Terminator] = Newline
         /\ \A j \in 1 .. Terminator - 1 : buffer[j] # Newline
  <1> DEFINE S == {i \in 1 .. Len(buffer) : buffer[i] = Newline}
  <1>1. S \in SUBSET Nat /\ S # {}
    BY DEF HasLine
  <1>2. PICK m \in S : \A k \in S : m <= k
    <2> HIDE DEF S
    <2>1. QED
      BY <1>1, Least
  <1>3. /\ m \in 1 .. Len(buffer) /\ buffer[m] = Newline
        /\ \A j \in 1 .. m - 1 : buffer[j] # Newline
    <2>1. Len(buffer) \in Nat
      BY LenProperties
    <2>2. ASSUME NEW j \in 1 .. m - 1 PROVE buffer[j] # Newline
      <3>1. j \in 1 .. Len(buffer) /\ ~(m <= j)
        BY <1>2, <2>1
      <3>2. QED
        BY <1>2, <3>1
    <2>3. QED
      BY <1>2, <2>2
  <1>4. QED
    BY <1>3 DEF Terminator

LEMMA ParseReceived ==
  ASSUME NEW w \in Seq(Word), Parse(w) # NoMessage
  PROVE  Parse(w) \in Received
  <1>0. Len(w) \in Nat /\ \A i \in 1 .. Len(w) : w[i] \in Word
    BY LenProperties, ElementOfSeq
  <1> DEFINE kind == IF Len(w) >= 2 /\ w[1] = PB01 THEN w[2] ELSE Junk
  <1>1. CASE kind = PEER /\ Len(w) >= 5
    <2>1. Parse(w) = [type |-> PEER, service |-> <<w[3]>>, endpoint |-> <<w[4]>>,
                      lastSeen |-> Stoi(w[5])]
      BY <1>1, WordAssumption DEF Parse
    <2>2. w[3] \in Word /\ w[4] \in Word
      BY <1>0, <1>1
    <2>3. <<w[3]>> \in Seq(Word) /\ <<w[4]>> \in Seq(Word) /\ Stoi(w[5]) \in Nat
      BY <2>2 DEF Stoi
    <2>4. QED
      BY <2>1, <2>3 DEF Received
  <1>2. CASE kind = QUERY /\ Len(w) >= 3
    <2>1. Parse(w) = [type |-> QUERY, service |-> <<w[3]>>]
      BY <1>2, WordAssumption DEF Parse
    <2>2. w[3] \in Word
      BY <1>0, <1>2
    <2>3. <<w[3]>> \in Seq(Word)
      BY <2>2
    <2>4. QED
      BY <2>1, <2>3 DEF Received
  <1>3. CASE ~(kind = PEER /\ Len(w) >= 5) /\ ~(kind = QUERY /\ Len(w) >= 3)
    <2>1. Parse(w) = NoMessage
      BY <1>3 DEF Parse
    <2>2. QED
      BY <2>1
  <1>4. QED
    BY <1>1, <1>2, <1>3

\* The words of a line with its newline.
LEMMA LineSeq ==
  ASSUME NEW m \in Message
  PROVE  /\ Line(m) \in Seq(Word) /\ Len(Line(m)) = Len(ToString(m)) + 1
         /\ Len(ToString(m)) \in Nat
         /\ \A i \in 1 .. Len(ToString(m)) : Line(m)[i] = ToString(m)[i]
         /\ \A i \in 1 .. Len(ToString(m)) : Line(m)[i] # Newline
         /\ Line(m)[Len(Line(m))] = Newline
  <1> DEFINE s == ToString(m)
             t == <<Newline>>
  <1>1. s \in Seq(Letter)
    BY LineWords
  <1>2. Letter \subseteq Word
    BY DEF Letter
  <1>3. s \in Seq(Word)
    <2>1. Seq(Letter) \subseteq Seq(Word)
      BY <1>2
    <2>2. QED
      BY <1>1, <2>1
  <1>4. t \in Seq(Word)
    BY Words
  <1>5. Len(t) = 1 /\ t[1] = Newline
    OBVIOUS
  <1>6. \A i \in 1 .. Len(s) : s[i] # Newline
    BY <1>1, ElementOfSeq DEF Letter
  <1>7. Len(s) \in Nat
    BY <1>3, LenProperties
  <1> HIDE DEF s, t
  <1>8. /\ s \o t \in Seq(Word) /\ Len(s \o t) = Len(s) + Len(t)
        /\ \A i \in 1 .. Len(s) : (s \o t)[i] = s[i]
        /\ \A i \in 1 .. Len(t) : (s \o t)[Len(s) + i] = t[i]
    BY <1>3, <1>4, Concat
  <1>9. /\ Len(s \o t) = Len(s) + 1 /\ (s \o t)[Len(s) + 1] = Newline
        /\ \A i \in 1 .. Len(s) : (s \o t)[i] # Newline
    BY <1>5, <1>6, <1>7, <1>8
  <1>10. Line(m) = s \o t
    BY DEF Line, s, t
  <1>11. QED
    BY <1>7, <1>8, <1>9, <1>10 DEF s

\* SubSeq of words is words.
LEMMA Part ==
  ASSUME NEW s \in Seq(Word), NEW a \in Nat \ {0}, NEW b \in Nat, b <= Len(s), a <= b + 1
  PROVE  /\ SubSeq(s, a, b) \in Seq(Word) /\ Len(SubSeq(s, a, b)) = b - a + 1
         /\ \A i \in 1 .. b - a + 1 : SubSeq(s, a, b)[i] = s[a + i - 1]
  <1>1. Len(s) \in Nat
    BY LenProperties
  <1>2. \A i \in a .. b : s[i] \in Word
    BY <1>1, ElementOfSeq
  <1>3. a \in Int /\ b \in Int
    OBVIOUS
  <1>4. /\ SubSeq(s, a, b) \in Seq(Word)
        /\ Len(SubSeq(s, a, b)) = IF a <= b THEN b - a + 1 ELSE 0
        /\ \A i \in 1 .. b - a + 1 : SubSeq(s, a, b)[i] = s[a + i - 1]
    BY <1>2, <1>3, SubSeqProperties
  <1>5. QED
    BY <1>4

\* The g words of a sequence behind its first p.
LEMMA Front ==
  ASSUME NEW s \in Seq(Word), NEW p \in Nat, NEW g \in Nat, p + g <= Len(s)
  PROVE  /\ SubSeq(s, p + 1, p + g) \in Seq(Word) /\ Len(SubSeq(s, p + 1, p + g)) = g
         /\ \A i \in 1 .. g : SubSeq(s, p + 1, p + g)[i] = s[p + i]
  <1>1. p + 1 \in Nat \ {0} /\ p + g \in Nat /\ p + 1 <= p + g + 1 /\ p + g - (p + 1) + 1 = g
    OBVIOUS
  <1>2. /\ SubSeq(s, p + 1, p + g) \in Seq(Word) /\ Len(SubSeq(s, p + 1, p + g)) = g
        /\ \A i \in 1 .. g : SubSeq(s, p + 1, p + g)[i] = s[p + 1 + i - 1]
    BY <1>1, Part
  <1>3. \A i \in 1 .. g : p + 1 + i - 1 = p + i
    OBVIOUS
  <1>4. QED
    BY <1>2, <1>3

\* What TypeOK leaves out: the bound of the writes.
WireType == TypeOK /\ Len(sent) <= MaxWrites /\ ends \in Seq(Nat)

LEMMA TypeInit == Init => WireType
BY BoundAssumption DEF Init, WireType, TypeOK

LEMMA LineAtBound ==
  ASSUME WireType, NEW p \in Nat
  PROVE  LineAt(p) \in 1 .. MaxWrites + 1
  <1> DEFINE n == Len(ends)
             T == {i \in 1 .. n : ends[i] <= p}
  <1>1. n \in Nat /\ n <= MaxWrites
    BY LenProperties DEF WireType, TypeOK
  <1> HIDE DEF n
  <1>2. IsFiniteSet(1 .. n) /\ Cardinality(1 .. n) = n
    BY <1>1, FS_Interval
  <1>3. T \in SUBSET (1 .. n)
    OBVIOUS
  <1> HIDE DEF T
  <1>4. IsFiniteSet(T) /\ Cardinality(T) <= n
    BY <1>2, <1>3, FS_Subset
  <1>5. Cardinality(T) \in Nat
    BY <1>4, FS_CardinalityType
  <1>6. LineAt(p) = Cardinality(T) + 1
    BY DEF LineAt, T, n
  <1>7. QED
    BY <1>1, <1>4, <1>5, <1>6, BoundAssumption

LEMMA WriteType == ASSUME WireType, NEW m \in Written, Write(m) PROVE WireType'
  <1>1. /\ stream \in Seq(Word) /\ pos \in 0 .. Len(stream)
        /\ sent \in Seq(Written) /\ ends \in Seq(Nat) /\ Len(ends) = Len(sent)
    BY DEF WireType, TypeOK
  <1>2. Line(m) \in Seq(Word)
    BY WrittenAssumption, LineSeq
  <1>3. /\ stream' \in Seq(Word) /\ Len(stream') = Len(stream) + Len(Line(m))
        /\ Len(stream) \in Nat /\ Len(Line(m)) \in Nat
    <2>1. stream' = stream \o Line(m)
      BY DEF Write
    <2>2. QED
      BY <1>1, <1>2, <2>1, Concat, LenProperties
  <1>4. pos' \in 0 .. Len(stream')
    BY <1>1, <1>3 DEF Write
  <1>5. sent' \in Seq(Written) /\ Len(sent') = Len(sent) + 1 /\ Len(sent') <= MaxWrites
    BY <1>1, BoundAssumption DEF Write
  <1>6. ends' \in Seq(Nat) /\ Len(ends') = Len(ends) + 1
    <2>1. ends' = Append(ends, Len(stream')) /\ Len(stream') \in Nat
      BY <1>3 DEF Write
    <2>2. QED
      BY <1>1, <2>1
  <1>7. UNCHANGED <<buffer, handler, handled, spoiled>>
    BY DEF Write
  <1>8. QED
    BY <1>1, <1>3, <1>4, <1>5, <1>6, <1>7 DEF WireType, TypeOK

LEMMA OnReadType == ASSUME WireType, OnRead PROVE WireType'
  <1>1. /\ stream \in Seq(Word) /\ pos \in 0 .. Len(stream) /\ buffer \in Seq(Word)
        /\ spoiled \subseteq 1 .. MaxWrites + 1 /\ Len(stream) \in Nat
    BY LenProperties DEF WireType, TypeOK
  <1>2. PICK n \in 1 .. Len(stream) - pos : pos' = pos + n /\ (ReadClean(n) \/ ReadMore(n) \/ ReadShort(n))
    BY DEF OnRead
  <1>3. pos' \in 0 .. Len(stream) /\ pos + n \in Nat
    BY <1>1, <1>2
  <1> DEFINE part == SubSeq(stream, pos + 1, pos + n)
             read == buffer \o part
  <1>4. part \in Seq(Word) /\ Len(part) = n
    <2>1. /\ pos + 1 \in Nat \ {0} /\ pos + n \in Nat /\ pos + n <= Len(stream)
          /\ pos + 1 <= pos + n + 1 /\ pos + n - (pos + 1) + 1 = n
      BY <1>1
    <2>2. QED
      BY <1>1, <2>1, Part
  <1> HIDE DEF part
  <1>5. read \in Seq(Word)
    BY <1>1, <1>4, Concat
  <1>6. Len(read) >= 1 /\ Len(read) \in Nat
    BY <1>1, <1>4, Concat, LenProperties
  <1>7. CASE ReadClean(n)
    <2>1. buffer' = read /\ spoiled' = spoiled
      BY <1>7 DEF ReadClean, read, part
    <2>2. UNCHANGED <<stream, handled, sent, ends>> /\ handler' = "lines"
      BY DEF OnRead
    <2>3. QED
      BY <1>1, <1>3, <1>5, <2>1, <2>2 DEF WireType, TypeOK
  <1>8. CASE ReadMore(n)
    <2>1. spoiled' = spoiled \cup {LineAt(pos + n)}
      BY <1>8 DEF ReadMore
    <2>2. LineAt(pos + n) \in 1 .. MaxWrites + 1
      BY <1>3, LineAtBound
    <2>3. \/ \E junk \in {<<Junk>>, <<Newline>>, <<Junk, Newline>>} : buffer' = read \o junk
          \/ buffer' = [read EXCEPT ![Len(read)] = Junk]
      BY <1>8 DEF ReadMore, read, part
    <2> HIDE DEF read
    <2>4. Junk \in Word /\ Newline \in Word
      BY Words DEF Letter
    <2>5. buffer' \in Seq(Word)
      <3>1. /\ <<Junk>> \in Seq(Word) /\ <<Newline>> \in Seq(Word)
            /\ <<Junk, Newline>> \in Seq(Word)
        BY <2>4
      <3>2. [read EXCEPT ![Len(read)] = Junk] \in Seq(Word)
        BY <1>5, <1>6, <2>4, ExceptSeq
      <3>3. \A junk \in Seq(Word) : read \o junk \in Seq(Word)
        BY <1>5, Concat
      <3>4. QED
        BY <2>3, <3>1, <3>2, <3>3
    <2>6. UNCHANGED <<stream, handled, sent, ends>> /\ handler' = "lines"
      BY DEF OnRead
    <2>7. QED
      BY <1>1, <1>3, <2>1, <2>2, <2>5, <2>6 DEF WireType, TypeOK
  <1>9. CASE ReadShort(n)
    <2>1. PICK z \in 1 .. n :
            /\ \E cut \in {<<>>, <<Junk>>} : buffer' = buffer \o SubSeq(stream, pos + 1, pos + z - 1) \o cut
            /\ spoiled' = spoiled \cup {LineAt(p) : p \in pos + z - 1 .. pos + n}
      BY <1>9 DEF ReadShort
    <2>2. \A p \in pos + z - 1 .. pos + n : p \in Nat
      BY <1>1, <1>2, <2>1
    <2>3. spoiled' \subseteq 1 .. MaxWrites + 1
      BY <1>1, <2>1, <2>2, LineAtBound
    <2>4. SubSeq(stream, pos + 1, pos + z - 1) \in Seq(Word)
      <3>1. /\ pos + 1 \in Nat \ {0} /\ pos + z - 1 \in Nat /\ pos + z - 1 <= Len(stream)
            /\ pos + 1 <= pos + z - 1 + 1
        BY <1>1, <1>2, <2>1
      <3>2. QED
        BY <1>1, <3>1, Part
    <2>5. <<>> \in Seq(Word) /\ <<Junk>> \in Seq(Word)
      BY Words DEF Letter
    <2>6. buffer' \in Seq(Word)
      <3>1. buffer \o SubSeq(stream, pos + 1, pos + z - 1) \in Seq(Word)
        BY <1>1, <2>4, Concat
      <3>2. QED
        BY <2>1, <2>5, <3>1, Concat
    <2>7. UNCHANGED <<stream, handled, sent, ends>> /\ handler' = "lines"
      BY DEF OnRead
    <2>8. QED
      BY <1>1, <1>3, <2>3, <2>6, <2>7 DEF WireType, TypeOK
  <1>10. QED
    BY <1>2, <1>7, <1>8, <1>9

LEMMA NextLineType == ASSUME WireType, NextLine PROVE WireType'
  <1>1. buffer \in Seq(Word) /\ HasLine /\ handled \in Seq(Received) /\ Len(buffer) \in Nat
    BY LenProperties DEF WireType, TypeOK, NextLine
  <1>2. Terminator \in 1 .. Len(buffer)
    BY <1>1, TerminatorFirst
  <1> DEFINE w == SubSeq(buffer, 1, Terminator - 1)
             rest == SubSeq(buffer, Terminator + 1, Len(buffer))
  <1>3. w \in Seq(Word)
    <2>1. /\ 1 \in Nat \ {0} /\ Terminator - 1 \in Nat /\ Terminator - 1 <= Len(buffer)
          /\ 1 <= Terminator - 1 + 1
      BY <1>1, <1>2
    <2>2. QED
      BY <1>1, <2>1, Part
  <1>4. rest \in Seq(Word)
    <2>1. /\ Terminator + 1 \in Nat \ {0} /\ Len(buffer) <= Len(buffer)
          /\ Terminator + 1 <= Len(buffer) + 1
      BY <1>1, <1>2
    <2>2. QED
      BY <1>1, <2>1, Part
  <1>5. buffer' = rest
    BY DEF NextLine
  <1>6. handled' = IF Parse(w) = NoMessage THEN handled ELSE Append(handled, Parse(w))
    BY DEF NextLine
  <1> HIDE DEF w, rest
  <1>7. handled' \in Seq(Received)
    <2>1. CASE Parse(w) = NoMessage
      BY <1>1, <1>6, <2>1
    <2>2. CASE Parse(w) # NoMessage
      <3>1. Parse(w) \in Received
        BY <1>3, <2>2, ParseReceived
      <3>2. Append(handled, Parse(w)) \in Seq(Received)
        BY <1>1, <3>1, AppendProperties
      <3>3. QED
        BY <1>6, <2>2, <3>2
    <2>3. QED
      BY <2>1, <2>2
  <1>8. UNCHANGED <<stream, pos, handler, sent, ends, spoiled>>
    BY DEF NextLine, history
  <1>9. QED
    BY <1>4, <1>5, <1>7, <1>8 DEF WireType, TypeOK

LEMMA TypeStep == WireType /\ [Next]_vars => WireType'
  <1>1. ASSUME WireType, LastLine PROVE WireType'
    BY <1>1 DEF WireType, TypeOK, LastLine, history
  <1>2. ASSUME WireType, UNCHANGED vars PROVE WireType'
    BY <1>2 DEF WireType, TypeOK, vars
  <1>3. QED
    BY <1>1, <1>2, WriteType, OnReadType, NextLineType DEF Next

\* The variables of Wire.tla keep their types, and only messages are handled.
THEOREM TypeCorrect == Spec => []TypeOK
  <1>1. Spec => []WireType
    BY TypeInit, TypeStep, PTL DEF Spec
  <1>2. WireType => TypeOK
    BY DEF WireType
  <1>3. QED
    BY <1>1, <1>2, PTL

-----------------------------------------------------------------------------
(* The reader is between two lines of the writer.                          *)

\* Where the lines after the first k begin, if they end at e.
StartOf(e, k) == IF k = 0 THEN 0 ELSE e[k]

\* The stream is the lines of the messages sent, one behind the other.
StreamInv ==
  /\ StartOf(ends, Len(sent)) = Len(stream)
  /\ \A k \in 0 .. Len(sent) : StartOf(ends, k) \in Nat /\ StartOf(ends, k) <= Len(stream)
  /\ \A i, j \in 0 .. Len(sent) : i < j => StartOf(ends, i) < StartOf(ends, j)
  /\ \A k \in 1 .. Len(sent) :
       /\ StartOf(ends, k) = StartOf(ends, k - 1) + Len(Line(sent[k]))
       /\ \A j \in 1 .. Len(Line(sent[k])) : stream[StartOf(ends, k - 1) + j] = Line(sent[k])[j]

\* How much of the stream was taken out of the buffer.
Taken == pos - Len(buffer)

AllSound(s, k) == \A i \in 1 .. k : Sound(s[i])
Got(s, k) == [i \in 1 .. k |-> Expected(s[i])]

\* The buffer is the part of the stream up to pos that begins with a line, and
\* the lines before it were handled.
BufferInv ==
  /\ Taken \in Nat
  /\ \A j \in 1 .. Len(buffer) : buffer[j] = stream[Taken + j]
  /\ \E k \in 0 .. Len(sent) : Taken = StartOf(ends, k) /\ (AllSound(sent, k) => handled = Got(sent, k))
  /\ handler = "idle" => ~HasLine

ReadInv == StreamInv /\ (spoiled = {} => BufferInv)

WireInv == WireType /\ ReadInv

LEMMA ReadInit == Init => ReadInv
  <1> SUFFICES ASSUME Init PROVE ReadInv
    OBVIOUS
  <1>1. /\ stream = <<>> /\ pos = 0 /\ buffer = <<>> /\ handled = <<>> /\ sent = <<>>
        /\ Len(sent) = 0 /\ Len(stream) = 0 /\ Len(buffer) = 0
    BY DEF Init
  <1>2. StreamInv
    BY <1>1 DEF StreamInv, StartOf
  <1>3. ~HasLine
    BY <1>1 DEF HasLine
  <1>4. Taken = 0
    <2>1. pos = 0 /\ Len(buffer) = 0
      BY <1>1
    <2>2. QED
      BY <2>1 DEF Taken
  <1>5. handled = Got(sent, 0)
    BY <1>1 DEF Got
  <1>6. BufferInv
    BY <1>1, <1>3, <1>4, <1>5 DEF BufferInv, StartOf
  <1>7. QED
    BY <1>2, <1>6 DEF ReadInv

\* A message that is written becomes the last line of the stream.
LEMMA WriteStream == ASSUME WireInv, NEW m \in Written, Write(m) PROVE ReadInv'
  <1> DEFINE n == Len(sent)
             l == Line(m)
  <1>1. /\ stream \in Seq(Word) /\ pos \in 0 .. Len(stream) /\ Len(stream) \in Nat
        /\ sent \in Seq(Written) /\ ends \in Seq(Nat) /\ Len(ends) = n /\ n \in Nat
        /\ buffer \in Seq(Word) /\ Len(buffer) \in Nat
    BY LenProperties DEF WireInv, WireType, TypeOK
  <1>2. l \in Seq(Word) /\ Len(l) \in Nat /\ Len(l) >= 1
    <2>1. l \in Seq(Word) /\ Len(l) = Len(ToString(m)) + 1 /\ Len(ToString(m)) \in Nat
      BY WrittenAssumption, LineSeq
    <2>2. QED
      BY <2>1
  <1> HIDE DEF l
  <1>3. /\ Len(stream') = Len(stream) + Len(l)
        /\ \A i \in 1 .. Len(stream) : stream'[i] = stream[i]
        /\ \A i \in 1 .. Len(l) : stream'[Len(stream) + i] = l[i]
    <2>1. stream' = stream \o l
      BY DEF Write, l
    <2>2. QED
      BY <1>1, <1>2, <2>1, Concat
  <1>4. /\ Len(sent') = n + 1 /\ sent'[n + 1] = m
        /\ \A i \in 1 .. n : sent'[i] = sent[i]
    <2>1. sent' = Append(sent, m)
      BY DEF Write
    <2>2. QED
      BY <1>1, <2>1, AppendProperties
  <1>5. /\ ends'[n + 1] = Len(stream') /\ \A i \in 1 .. n : ends'[i] = ends[i]
    <2>1. ends' = Append(ends, Len(stream')) /\ Len(stream') \in Nat
      BY <1>1, <1>2, <1>3 DEF Write
    <2>2. QED
      BY <1>1, <2>1, AppendProperties
  <1>6. /\ \A k \in 0 .. n : StartOf(ends', k) = StartOf(ends, k)
        /\ StartOf(ends', n + 1) = Len(stream) + Len(l)
    <2>1. \A k \in 0 .. n : k # 0 => k \in 1 .. n
      BY <1>1
    <2>2. n + 1 # 0
      BY <1>1
    <2>3. \A k \in 0 .. n : StartOf(ends', k) = StartOf(ends, k)
      BY <1>5, <2>1 DEF StartOf
    <2>4. StartOf(ends', n + 1) = ends'[n + 1]
      BY <2>2 DEF StartOf
    <2>5. QED
      BY <1>3, <1>5, <2>3, <2>4
  <1>7. StreamInv
    BY DEF WireInv, ReadInv
  <1> HIDE DEF n
  <1>8. StreamInv'
    <2>1. StartOf(ends', Len(sent')) = Len(stream)'
      BY <1>3, <1>4, <1>6
    <2>2. ASSUME NEW k \in 0 .. Len(sent')
          PROVE  StartOf(ends', k) \in Nat /\ StartOf(ends', k) <= Len(stream')
      <3>1. CASE k \in 0 .. n
        BY <1>1, <1>2, <1>3, <1>6, <1>7, <3>1 DEF StreamInv, n
      <3>2. CASE k = n + 1
        BY <1>1, <1>2, <1>3, <1>6, <3>2
      <3>3. QED
        BY <1>1, <1>4, <3>1, <3>2
    <2>3. ASSUME NEW i \in 0 .. Len(sent'), NEW j \in 0 .. Len(sent'), i < j
          PROVE  StartOf(ends', i) < StartOf(ends', j)
      <3>1. i \in 0 .. n
        BY <1>1, <1>4, <2>3
      <3>2. StartOf(ends, i) \in Nat /\ StartOf(ends, i) <= Len(stream)
        BY <1>7, <3>1 DEF StreamInv, n
      <3>3. CASE j \in 0 .. n
        BY <1>6, <1>7, <2>3, <3>1, <3>3 DEF StreamInv, n
      <3>4. CASE j = n + 1
        BY <1>1, <1>2, <1>6, <3>1, <3>2, <3>4
      <3>5. QED
        BY <1>1, <1>4, <3>3, <3>4
    <2>4. ASSUME NEW k \in 1 .. Len(sent')
          PROVE  /\ StartOf(ends', k) = StartOf(ends', k - 1) + Len(Line(sent'[k]))
                 /\ \A j \in 1 .. Len(Line(sent'[k])) :
                      stream'[StartOf(ends', k - 1) + j] = Line(sent'[k])[j]
      <3>1. CASE k \in 1 .. n
        <4>1. k \in 0 .. n /\ k - 1 \in 0 .. n
          BY <1>1, <3>1
        <4>2. /\ StartOf(ends, k) = StartOf(ends, k - 1) + Len(Line(sent[k]))
              /\ \A j \in 1 .. Len(Line(sent[k])) : stream[StartOf(ends, k - 1) + j] = Line(sent[k])[j]
              /\ StartOf(ends, k) <= Len(stream) /\ StartOf(ends, k - 1) \in Nat
          BY <1>7, <3>1, <4>1 DEF StreamInv, n
        <4>3. sent'[k] = sent[k] /\ StartOf(ends', k) = StartOf(ends, k) /\ StartOf(ends', k - 1) = StartOf(ends, k - 1)
          BY <1>4, <1>6, <3>1, <4>1
        <4>4. Len(Line(sent[k])) \in Nat
          <5>1. sent[k] \in Message
            BY <1>1, <3>1, ElementOfSeq, WrittenAssumption DEF n
          <5>2. QED
            BY <5>1, LineSeq
        <4>5. ASSUME NEW j \in 1 .. Len(Line(sent[k]))
              PROVE  stream'[StartOf(ends, k - 1) + j] = Line(sent[k])[j]
          <5>0. /\ StartOf(ends, k - 1) + Len(Line(sent[k])) <= Len(stream)
                /\ StartOf(ends, k - 1) \in Nat
            BY <4>2
          <5>1. StartOf(ends, k - 1) + j \in 1 .. Len(stream)
            BY <1>1, <4>4, <5>0
          <5>2. QED
            BY <1>3, <4>2, <5>1
        <4>6. QED
          BY <4>2, <4>3, <4>5
      <3>2. CASE k = n + 1
        <4>1. k - 1 = n /\ n \in 0 .. n
          BY <1>1, <3>2
        <4>2. StartOf(ends', k - 1) = Len(stream) /\ StartOf(ends', k) = Len(stream) + Len(l)
          BY <1>6, <1>7, <3>2, <4>1 DEF StreamInv, n
        <4>3. Line(sent'[k]) = l
          BY <1>4, <3>2 DEF l
        <4>4. QED
          BY <1>3, <4>2, <4>3
      <3>3. QED
        BY <1>1, <1>4, <3>1, <3>2
    <2>5. QED
      BY <2>1, <2>2, <2>3, <2>4 DEF StreamInv
  <1>9. ASSUME spoiled' = {} PROVE BufferInv'
    <2>0. UNCHANGED <<pos, buffer, handler, handled, spoiled>>
      BY DEF Write
    <2>1. BufferInv
      BY <1>9, <2>0 DEF WireInv, ReadInv
    <2>2. Taken' = Taken /\ Taken \in Nat /\ HasLine' = HasLine
      BY <2>0, <2>1 DEF Taken, BufferInv, HasLine
    <2>3. ASSUME NEW j \in 1 .. Len(buffer) PROVE buffer[j] = stream'[Taken + j]
      <3>1. Taken + j \in 1 .. Len(stream)
        BY <1>1, <2>2 DEF Taken
      <3>2. QED
        BY <1>3, <2>1, <3>1 DEF BufferInv
    <2>4. PICK k \in 0 .. n : Taken = StartOf(ends, k) /\ (AllSound(sent, k) => handled = Got(sent, k))
      BY <2>1 DEF BufferInv, n
    <2>5. k \in 0 .. Len(sent') /\ \A i \in 1 .. k : sent'[i] = sent[i]
      BY <1>1, <1>4
    <2>6. AllSound(sent', k) = AllSound(sent, k) /\ Got(sent', k) = Got(sent, k)
      BY <2>5 DEF AllSound, Got
    <2>7. Taken' = StartOf(ends', k) /\ (AllSound(sent', k) => handled' = Got(sent', k))
      BY <1>6, <2>0, <2>2, <2>4, <2>6
    <2>8. QED
      BY <2>0, <2>1, <2>2, <2>3, <2>5, <2>7 DEF BufferInv
  <1>10. QED
    BY <1>8, <1>9 DEF ReadInv

\* A step that does not write leaves the stream.
LEMMA StreamStays ==
  ASSUME StreamInv, UNCHANGED <<stream, sent, ends>>
  PROVE  StreamInv' /\ \A k \in 0 .. Len(sent) : StartOf(ends', k) = StartOf(ends, k)
BY DEF StreamInv, StartOf

\* A chunk that brings nothing but itself continues the buffer.
LEMMA OnReadBuffer == ASSUME WireInv, OnRead PROVE ReadInv'
  <1>1. UNCHANGED <<stream, handled, sent, ends>> /\ handler' = "lines"
    BY DEF OnRead
  <1>2. StreamInv' /\ \A k \in 0 .. Len(sent) : StartOf(ends', k) = StartOf(ends, k)
    BY <1>1, StreamStays DEF WireInv, ReadInv
  <1>3. ASSUME spoiled' = {} PROVE BufferInv'
    <2>1. PICK n \in 1 .. Len(stream) - pos : pos' = pos + n /\ (ReadClean(n) \/ ReadMore(n) \/ ReadShort(n))
      BY DEF OnRead
    <2>2. ~ReadMore(n) /\ ~ReadShort(n)
      <3>1. ~ReadMore(n)
        BY <1>3 DEF ReadMore
      <3>2. ASSUME NEW z \in 1 .. n PROVE pos + n \in pos + z - 1 .. pos + n
        BY <2>1, LenProperties DEF WireInv, WireType, TypeOK
      <3>3. ~ReadShort(n)
        BY <1>3, <3>2 DEF ReadShort
      <3>4. QED
        BY <3>1, <3>3
    <2> DEFINE part == SubSeq(stream, pos + 1, pos + n)
    <2>3. buffer' = buffer \o part /\ spoiled = {}
      BY <1>3, <2>1, <2>2 DEF ReadClean
    <2>4. /\ stream \in Seq(Word) /\ pos \in Nat /\ Len(stream) \in Nat /\ n \in Nat
          /\ buffer \in Seq(Word) /\ Len(buffer) \in Nat /\ pos + n <= Len(stream)
      BY <2>1, LenProperties DEF WireInv, WireType, TypeOK
    <2>5. /\ part \in Seq(Word) /\ Len(part) = n
          /\ \A i \in 1 .. n : part[i] = stream[pos + i]
      BY <2>4, Front
    <2> HIDE DEF part
    <2>6. /\ Len(buffer') = Len(buffer) + n
          /\ \A i \in 1 .. Len(buffer) : buffer'[i] = buffer[i]
          /\ \A i \in 1 .. n : buffer'[Len(buffer) + i] = stream[pos + i]
      <3>1. /\ Len(buffer \o part) = Len(buffer) + Len(part)
            /\ \A i \in 1 .. Len(buffer) : (buffer \o part)[i] = buffer[i]
            /\ \A i \in 1 .. Len(part) : (buffer \o part)[Len(buffer) + i] = part[i]
        <4>1. part \in Seq(Word) /\ buffer \in Seq(Word)
          BY <2>4, <2>5
        <4>2. QED
          BY <4>1, Concat
      <3>2. QED
        BY <2>3, <2>5, <3>1
    <2>7. BufferInv
      BY <2>3 DEF WireInv, ReadInv
    <2>8. Taken' = Taken /\ Taken \in Nat /\ Taken + Len(buffer) = pos
      <3>1. Taken' = (pos + n) - (Len(buffer) + n)
        <4>1. pos' = pos + n /\ Len(buffer') = Len(buffer) + n
          BY <2>1, <2>6
        <4>2. QED
          BY <4>1, Zenon DEF Taken
      <3>2. Taken \in Nat /\ Taken = pos - Len(buffer)
        BY <2>7 DEF BufferInv, Taken
      <3>3. QED
        BY <2>4, <3>1, <3>2
    <2>9. ASSUME NEW j \in 1 .. Len(buffer') PROVE buffer'[j] = stream'[Taken' + j]
      <3>1. CASE j <= Len(buffer)
        <4>1. j \in 1 .. Len(buffer)
          BY <2>4, <2>6, <3>1
        <4>2. buffer[j] = stream[Taken + j]
          BY <2>7, <4>1 DEF BufferInv
        <4>3. QED
          BY <1>1, <2>6, <2>8, <4>1, <4>2
      <3>2. CASE ~(j <= Len(buffer))
        <4>1. PICK i \in 1 .. n : j = Len(buffer) + i
          <5>1. j - Len(buffer) \in 1 .. n /\ j = Len(buffer) + (j - Len(buffer))
            BY <2>4, <2>6, <3>2
          <5>2. QED
            BY <5>1
        <4>2. Taken' + j = pos + i
          BY <2>4, <2>8, <4>1
        <4>3. QED
          BY <1>1, <2>6, <4>1, <4>2
      <3>3. QED
        BY <3>1, <3>2
    <2>10. PICK k \in 0 .. Len(sent) :
             Taken = StartOf(ends, k) /\ (AllSound(sent, k) => handled = Got(sent, k))
      BY <2>7 DEF BufferInv
    <2>11. Taken' = StartOf(ends', k) /\ (AllSound(sent', k) => handled' = Got(sent', k))
      BY <1>1, <1>2, <2>8, <2>10
    <2>12. handler' # "idle"
      BY <1>1
    <2>13. k \in 0 .. Len(sent')
      BY <1>1
    <2>14. QED
      BY <2>8, <2>9, <2>11, <2>12, <2>13 DEF BufferInv
  <1>4. QED
    BY <1>2, <1>3 DEF ReadInv

\* The k-th line lies in the stream right behind the line before it.
LEMMA LineLies ==
  ASSUME StreamInv, NEW k \in 1 .. Len(sent)
  PROVE  /\ StartOf(ends, k) = StartOf(ends, k - 1) + Len(Line(sent[k]))
         /\ \A j \in 1 .. Len(Line(sent[k])) :
              stream[StartOf(ends, k - 1) + j] = Line(sent[k])[j]
  <1>1. \A i \in 1 .. Len(sent) :
          /\ StartOf(ends, i) = StartOf(ends, i - 1) + Len(Line(sent[i]))
          /\ \A j \in 1 .. Len(Line(sent[i])) :
               stream[StartOf(ends, i - 1) + j] = Line(sent[i])[j]
    BY DEF StreamInv
  <1>2. QED
    BY <1>1, Zenon

\* The first newline in the buffer ends the first line not yet handled.
LEMMA NewlineEnds ==
  ASSUME WireInv, spoiled = {}, NEW k \in 0 .. Len(sent), Taken = StartOf(ends, k),
         NEW t \in 1 .. Len(buffer), buffer[t] = Newline
  PROVE  /\ k + 1 \in 1 .. Len(sent) /\ Len(Line(sent[k + 1])) <= t
         /\ buffer[Len(Line(sent[k + 1]))] = Newline
  <1>1. /\ pos \in 0 .. Len(stream) /\ Len(stream) \in Nat /\ Len(buffer) \in Nat
        /\ sent \in Seq(Written) /\ Len(sent) \in Nat
    BY LenProperties DEF WireInv, WireType, TypeOK
  <1>2. BufferInv /\ StreamInv
    BY DEF WireInv, ReadInv
  <1>3. Taken \in Nat /\ Taken + Len(buffer) = pos
    <2>1. Taken \in Nat /\ Taken = pos - Len(buffer)
      BY <1>2 DEF BufferInv, Taken
    <2>2. QED
      BY <1>1, <2>1
  <1>4. k # Len(sent)
    <2>1. StartOf(ends, Len(sent)) = Len(stream)
      BY <1>2 DEF StreamInv
    <2>2. QED
      BY <1>1, <1>3, <2>1
  <1>5. k + 1 \in 1 .. Len(sent) /\ k + 1 - 1 = k
    BY <1>1, <1>4
  <1> DEFINE l == Line(sent[k + 1])
  <1>6. sent[k + 1] \in Message
    BY <1>1, <1>5, ElementOfSeq, WrittenAssumption
  <1>7. /\ Len(l) \in Nat /\ Len(l) >= 1 /\ l[Len(l)] = Newline
        /\ \A i \in 1 .. Len(l) - 1 : l[i] # Newline
    <2>1. /\ Len(l) = Len(ToString(sent[k + 1])) + 1 /\ Len(ToString(sent[k + 1])) \in Nat
          /\ \A i \in 1 .. Len(ToString(sent[k + 1])) : l[i] # Newline
          /\ l[Len(l)] = Newline
      BY <1>6, LineSeq
    <2>2. QED
      BY <2>1
  <1>8. \A j \in 1 .. Len(l) : stream[Taken + j] = l[j]
    <2>1. \A j \in 1 .. Len(l) : stream[StartOf(ends, k + 1 - 1) + j] = l[j]
      BY <1>2, <1>5, LineLies
    <2>2. StartOf(ends, k + 1 - 1) = Taken
      BY <1>5
    <2>3. QED
      BY <2>1, <2>2
  <1> HIDE DEF l
  <1>9. Len(l) <= t
    <2>1. SUFFICES ASSUME t < Len(l) PROVE FALSE
      BY <1>1, <1>7
    <2>2. t \in 1 .. Len(l) - 1 /\ t \in 1 .. Len(l)
      BY <1>1, <1>7, <2>1
    <2>3. buffer[t] = stream[Taken + t]
      BY <1>2 DEF BufferInv
    <2>4. QED
      BY <1>7, <1>8, <2>2, <2>3
  <1>10. buffer[Len(l)] = Newline
    <2>1. Len(l) \in 1 .. Len(buffer) /\ Len(l) \in 1 .. Len(l)
      BY <1>1, <1>7, <1>9
    <2>2. buffer[Len(l)] = stream[Taken + Len(l)]
      BY <1>2, <2>1 DEF BufferInv
    <2>3. QED
      BY <1>7, <1>8, <2>1, <2>2
  <1>11. QED
    BY <1>5, <1>9, <1>10 DEF l

LEMMA GotNext ==
  ASSUME NEW s, NEW k \in Nat
  PROVE  Append(Got(s, k), Expected(s[k + 1])) = Got(s, k + 1)
  <1> DEFINE S == {Expected(s[i]) : i \in 1 .. k + 1}
             a == Got(s, k)
             x == Expected(s[k + 1])
             b == Got(s, k + 1)
  <1>1. x \in S
    BY DEF S, x
  <1>2. a \in Seq(S) /\ Len(a) = k /\ \A i \in 1 .. k : a[i] = Expected(s[i])
    BY DEF Got
  <1>3. b \in Seq(S) /\ Len(b) = k + 1 /\ \A i \in 1 .. k + 1 : b[i] = Expected(s[i])
    BY DEF Got
  <1> HIDE DEF S, a, b
  <1>4. /\ Append(a, x) \in Seq(S) /\ Len(Append(a, x)) = Len(a) + 1
        /\ \A i \in 1 .. Len(a) : Append(a, x)[i] = a[i]
        /\ Append(a, x)[Len(a) + 1] = x
    BY <1>1, <1>2, AppendProperties
  <1>5. \A i \in 1 .. k + 1 : Append(a, x)[i] = b[i]
    <2>1. ASSUME NEW i \in 1 .. k + 1 PROVE Append(a, x)[i] = b[i]
      <3>1. CASE i = k + 1
        BY <1>2, <1>3, <1>4, <3>1
      <3>2. CASE i # k + 1
        <4>1. i \in 1 .. k
          BY <3>2
        <4>2. QED
          BY <1>2, <1>3, <1>4, <4>1
      <3>3. QED
        BY <3>1, <3>2
    <2>2. QED
      BY <2>1
  <1>6. Len(Append(a, x)) = k + 1
    BY <1>2, <1>4
  <1>7. Append(a, x) = b
    BY <1>3, <1>4, <1>5, <1>6, SeqEqual
  <1>8. QED
    BY <1>7 DEF a, b, x

\* The loop takes exactly that line, and handles the message it was made of.
LEMMA NextLineBuffer == ASSUME WireInv, NextLine PROVE ReadInv'
  <1>1. UNCHANGED <<stream, pos, handler, sent, ends, spoiled>> /\ handler = "lines" /\ HasLine
    BY DEF NextLine, history
  <1>2. StreamInv' /\ \A k \in 0 .. Len(sent) : StartOf(ends', k) = StartOf(ends, k)
    BY <1>1, StreamStays DEF WireInv, ReadInv
  <1>3. ASSUME spoiled' = {} PROVE BufferInv'
    <2>1. BufferInv /\ StreamInv /\ spoiled = {}
      BY <1>1, <1>3 DEF WireInv, ReadInv
    <2>2. PICK k \in 0 .. Len(sent) :
            Taken = StartOf(ends, k) /\ (AllSound(sent, k) => handled = Got(sent, k))
      BY <2>1 DEF BufferInv
    <2>3. /\ buffer \in Seq(Word) /\ Len(buffer) \in Nat /\ Len(sent) \in Nat
          /\ sent \in Seq(Written) /\ pos \in Nat
      BY LenProperties DEF WireInv, WireType, TypeOK
    <2> DEFINE t == Terminator
               m == sent[k + 1]
               L == Len(Line(m))
    <2>4. /\ t \in 1 .. Len(buffer) /\ buffer[t] = Newline
          /\ \A j \in 1 .. t - 1 : buffer[j] # Newline
      BY <1>1, <2>3, TerminatorFirst
    <2> HIDE DEF t
    <2>5. k + 1 \in 1 .. Len(sent) /\ L <= t /\ buffer[L] = Newline
      BY <2>1, <2>2, <2>4, NewlineEnds
    <2>6. m \in Message /\ m \in Written
      BY <2>3, <2>5, ElementOfSeq, WrittenAssumption
    <2>7. /\ L = Len(ToString(m)) + 1 /\ Len(ToString(m)) \in Nat /\ L \in Nat /\ L >= 1
          /\ \A i \in 1 .. Len(ToString(m)) : Line(m)[i] = ToString(m)[i]
      <3>1. /\ L = Len(ToString(m)) + 1 /\ Len(ToString(m)) \in Nat
            /\ \A i \in 1 .. Len(ToString(m)) : Line(m)[i] = ToString(m)[i]
        BY <2>6, LineSeq
      <3>2. QED
        BY <3>1
    <2>8. t = L
      <3>1. ~(L \in 1 .. t - 1)
        BY <2>4, <2>5
      <3>2. QED
        BY <2>3, <2>4, <2>5, <2>7, <3>1
    <2>9. /\ StartOf(ends, k + 1) = Taken + L
          /\ \A j \in 1 .. L : stream[Taken + j] = Line(m)[j]
      <3>1. /\ StartOf(ends, k + 1) = StartOf(ends, k + 1 - 1) + L
            /\ \A j \in 1 .. L : stream[StartOf(ends, k + 1 - 1) + j] = Line(m)[j]
        BY <2>1, <2>5, LineLies
      <3>2. StartOf(ends, k + 1 - 1) = Taken
        <4>1. k + 1 - 1 = k
          BY <2>3
        <4>2. QED
          BY <2>2, <4>1
      <3>3. QED
        BY <3>1, <3>2
    <2> HIDE DEF L
    <2> DEFINE w == SubSeq(buffer, 1, t - 1)
               rest == SubSeq(buffer, t + 1, Len(buffer))
    <2>10. w = ToString(m)
      <3>1. /\ 1 \in Nat \ {0} /\ t - 1 \in Nat /\ t - 1 <= Len(buffer) /\ 1 <= t - 1 + 1
        BY <2>3, <2>4
      <3>2. /\ w \in Seq(Word) /\ Len(w) = t - 1 - 1 + 1
            /\ \A i \in 1 .. t - 1 - 1 + 1 : w[i] = buffer[1 + i - 1]
        BY <2>3, <3>1, Part
      <3>3. t - 1 - 1 + 1 = Len(ToString(m))
        BY <2>7, <2>8, <3>1
      <3>4. ToString(m) \in Seq(Word)
        <4>1. ToString(m) \in Seq(Letter)
          BY <2>6, LineWords
        <4>2. Letter \subseteq Word
          BY DEF Letter
        <4>3. Seq(Letter) \subseteq Seq(Word)
          BY <4>2
        <4>4. QED
          BY <4>1, <4>3
      <3> HIDE DEF w
      <3>5. ASSUME NEW i \in 1 .. Len(ToString(m)) PROVE w[i] = ToString(m)[i]
        <4>1. i \in 1 .. L /\ i \in 1 .. Len(buffer) /\ 1 + i - 1 = i
          BY <2>3, <2>4, <2>7, <2>8
        <4>2. w[i] = buffer[i]
          BY <3>2, <3>3, <4>1
        <4>3. buffer[i] = stream[Taken + i]
          BY <2>1, <4>1 DEF BufferInv
        <4>4. stream[Taken + i] = Line(m)[i]
          BY <2>9, <4>1
        <4>5. QED
          BY <2>7, <4>2, <4>3, <4>4
      <3>6. w \in Seq(Word) /\ Len(w) = Len(ToString(m))
        BY <3>2, <3>3
      <3>7. QED
        BY <3>4, <3>5, <3>6, SeqEqual
    <2>11. /\ Len(rest) = Len(buffer) - t
           /\ \A i \in 1 .. Len(rest) : rest[i] = buffer[t + i]
      <3>1. /\ t + 1 \in Nat \ {0} /\ Len(buffer) <= Len(buffer) /\ t + 1 <= Len(buffer) + 1
            /\ Len(buffer) - (t + 1) + 1 = Len(buffer) - t
        BY <2>3, <2>4
      <3>2. /\ Len(rest) = Len(buffer) - (t + 1) + 1
            /\ \A i \in 1 .. Len(buffer) - (t + 1) + 1 : rest[i] = buffer[t + 1 + i - 1]
        BY <2>3, <3>1, Part
      <3>3. \A i \in 1 .. Len(buffer) - t : t + 1 + i - 1 = t + i
        BY <2>3, <2>4
      <3>4. QED
        BY <3>1, <3>2, <3>3
    <2>12. buffer' = rest
      BY DEF NextLine, t
    <2>13. handled' = IF Parse(w) = NoMessage THEN handled ELSE Append(handled, Parse(w))
      BY DEF NextLine, t
    <2> HIDE DEF w, rest, m
    <2>14. Taken \in Nat /\ Taken = pos - Len(buffer)
      BY <2>1 DEF BufferInv, Taken
    <2>15. Taken' = Taken + t /\ Taken' \in Nat
      <3>1. pos' = pos /\ Len(buffer') = Len(buffer) - t
        BY <1>1, <2>11, <2>12
      <3>2. Taken' = pos - (Len(buffer) - t)
        BY <3>1 DEF Taken
      <3>3. QED
        BY <2>3, <2>4, <2>14, <3>2
    <2>16. ASSUME NEW j \in 1 .. Len(buffer') PROVE buffer'[j] = stream'[Taken' + j]
      <3>1. buffer'[j] = buffer[t + j] /\ t + j \in 1 .. Len(buffer)
        BY <2>3, <2>4, <2>11, <2>12
      <3>2. buffer[t + j] = stream[Taken + (t + j)]
        BY <2>1, <3>1 DEF BufferInv
      <3>3. Taken + (t + j) = Taken' + j
        BY <2>3, <2>4, <2>11, <2>12, <2>14, <2>15
      <3>4. QED
        BY <1>1, <3>1, <3>2, <3>3
    <2>17. k + 1 \in 0 .. Len(sent') /\ Taken' = StartOf(ends', k + 1)
      <3>1. k + 1 \in 0 .. Len(sent)
        BY <2>3, <2>5
      <3>2. StartOf(ends', k + 1) = StartOf(ends, k + 1)
        BY <1>2, <3>1
      <3>3. QED
        BY <1>1, <2>8, <2>9, <2>15, <3>1, <3>2
    <2>18. ASSUME AllSound(sent', k + 1) PROVE handled' = Got(sent', k + 1)
      <3>1. Sound(sent[k + 1]) /\ AllSound(sent, k)
        BY <1>1, <2>3, <2>18 DEF AllSound
      <3>2. Parse(w) = Expected(m) /\ Parse(w) # NoMessage
        <4>1. Sound(m)
          BY <3>1 DEF m
        <4>2. QED
          BY <2>6, <2>10, <4>1, RoundTrip
      <3>3. handled = Got(sent, k)
        BY <2>2, <3>1
      <3>4. handled' = Append(Got(sent, k), Expected(sent[k + 1]))
        BY <2>13, <3>2, <3>3 DEF m
      <3>5. Append(Got(sent, k), Expected(sent[k + 1])) = Got(sent, k + 1)
        <4>1. k \in Nat
          OBVIOUS
        <4>2. QED
          BY <4>1, GotNext
      <3>6. QED
        BY <1>1, <3>4, <3>5
    <2>19. handler' # "idle"
      BY <1>1
    <2>20. QED
      BY <2>15, <2>16, <2>17, <2>18, <2>19 DEF BufferInv
  <1>4. QED
    BY <1>2, <1>3 DEF ReadInv

LEMMA ReadStep == WireInv /\ [Next]_vars => ReadInv'
  <1>1. ASSUME WireInv, LastLine PROVE ReadInv'
    <2>1. UNCHANGED <<stream, pos, buffer, handled, sent, ends, spoiled>> /\ ~HasLine
      BY <1>1 DEF LastLine, history
    <2>2. StreamInv' /\ \A k \in 0 .. Len(sent) : StartOf(ends', k) = StartOf(ends, k)
      BY <1>1, <2>1, StreamStays DEF WireInv, ReadInv
    <2>3. Taken' = Taken /\ ~HasLine'
      BY <2>1 DEF Taken, HasLine
    <2>4. spoiled' = {} => BufferInv'
      BY <1>1, <2>1, <2>2, <2>3 DEF WireInv, ReadInv, BufferInv
    <2>5. QED
      BY <2>2, <2>4 DEF ReadInv
  <1>2. ASSUME WireInv, UNCHANGED vars PROVE ReadInv'
    <2>1. UNCHANGED <<stream, pos, buffer, handler, handled, sent, ends, spoiled>>
      BY <1>2 DEF vars
    <2>2. StreamInv' /\ \A k \in 0 .. Len(sent) : StartOf(ends', k) = StartOf(ends, k)
      BY <1>2, <2>1, StreamStays DEF WireInv, ReadInv
    <2>3. Taken' = Taken /\ HasLine' = HasLine
      BY <2>1 DEF Taken, HasLine
    <2>4. spoiled' = {} => BufferInv'
      BY <1>2, <2>1, <2>2, <2>3 DEF WireInv, ReadInv, BufferInv
    <2>5. QED
      BY <2>2, <2>4 DEF ReadInv
  <1>3. QED
    BY <1>1, <1>2, WriteStream, OnReadBuffer, NextLineBuffer DEF Next

\* Between two chunks the lines that are all in were all handled.
LEMMA CompleteHandled ==
  ASSUME WireInv, spoiled = {}, handler = "idle",
         NEW k \in 0 .. Len(sent), Taken = StartOf(ends, k)
  PROVE  Complete = k
  <1>1. /\ pos \in 0 .. Len(stream) /\ Len(stream) \in Nat /\ Len(buffer) \in Nat
        /\ sent \in Seq(Written) /\ Len(sent) \in Nat /\ Len(ends) = Len(sent)
    BY LenProperties DEF WireInv, WireType, TypeOK
  <1>2. BufferInv /\ StreamInv /\ ~HasLine
    BY DEF WireInv, ReadInv, BufferInv
  <1>3. Taken \in Nat /\ Taken <= pos /\ Taken + Len(buffer) = pos
    <2>1. Taken \in Nat /\ Taken = pos - Len(buffer)
      BY <1>2 DEF BufferInv, Taken
    <2>2. QED
      BY <1>1, <2>1
  <1>4. ASSUME NEW i \in 1 .. Len(sent) PROVE ends[i] <= pos <=> i <= k
    <2>1. ends[i] = StartOf(ends, i) /\ ends[i] \in Nat /\ i \in 0 .. Len(sent)
      BY <1>1, <1>2 DEF StartOf, StreamInv
    <2>2. CASE i <= k
      <3>1. i = k \/ i < k
        BY <2>2
      <3>2. ends[i] <= Taken
        <4>1. CASE i = k
          BY <1>3, <2>1, <4>1
        <4>2. CASE i < k
          <5>1. StartOf(ends, i) < StartOf(ends, k)
            BY <1>2, <2>1, <4>2 DEF StreamInv
          <5>2. QED
            BY <1>3, <2>1, <5>1
        <4>3. QED
          BY <3>1, <4>1, <4>2
      <3>3. QED
        BY <1>1, <1>3, <2>1, <2>2, <3>2
    <2>3. CASE ~(i <= k)
      <3>1. k + 1 \in 1 .. Len(sent) /\ k + 1 \in 0 .. Len(sent) /\ k + 1 - 1 = k
            /\ (k + 1 = i \/ k + 1 < i)
        BY <1>1, <2>3
      <3> DEFINE l == Line(sent[k + 1])
      <3>2. sent[k + 1] \in Message
        BY <1>1, <3>1, ElementOfSeq, WrittenAssumption
      <3>3. Len(l) \in Nat /\ Len(l) >= 1 /\ l[Len(l)] = Newline
        <4>1. /\ Len(l) = Len(ToString(sent[k + 1])) + 1 /\ Len(ToString(sent[k + 1])) \in Nat
              /\ l[Len(l)] = Newline
          BY <3>2, LineSeq
        <4>2. QED
          BY <4>1
      <3>4. /\ StartOf(ends, k + 1) = Taken + Len(l)
            /\ \A j \in 1 .. Len(l) : stream[Taken + j] = l[j]
        <4>1. /\ StartOf(ends, k + 1) = StartOf(ends, k + 1 - 1) + Len(l)
              /\ \A j \in 1 .. Len(l) : stream[StartOf(ends, k + 1 - 1) + j] = l[j]
          <5>1. \A q \in 1 .. Len(sent) :
                  /\ StartOf(ends, q) = StartOf(ends, q - 1) + Len(Line(sent[q]))
                  /\ \A j \in 1 .. Len(Line(sent[q])) :
                       stream[StartOf(ends, q - 1) + j] = Line(sent[q])[j]
            BY <1>2 DEF StreamInv
          <5>2. QED
            BY <3>1, <5>1
        <4>2. StartOf(ends, k + 1 - 1) = Taken
          BY <3>1
        <4>3. QED
          BY <4>1, <4>2
      <3> HIDE DEF l
      <3>5. ~(Taken + Len(l) <= pos)
        <4>1. SUFFICES ASSUME Taken + Len(l) <= pos PROVE FALSE
          OBVIOUS
        <4>2. Len(l) \in 1 .. Len(buffer) /\ Len(l) \in 1 .. Len(l)
          BY <1>1, <1>3, <3>3, <4>1
        <4>3. buffer[Len(l)] = stream[Taken + Len(l)]
          BY <1>2, <4>2 DEF BufferInv
        <4>4. buffer[Len(l)] = Newline
          BY <3>3, <3>4, <4>2, <4>3
        <4>5. QED
          BY <1>2, <4>2, <4>4 DEF HasLine
      <3>6. StartOf(ends, k + 1) <= StartOf(ends, i) /\ StartOf(ends, k + 1) \in Nat
        <4>1. StartOf(ends, k + 1) \in Nat /\ StartOf(ends, i) \in Nat
          BY <1>2, <2>1, <3>1 DEF StreamInv
        <4>2. k + 1 < i => StartOf(ends, k + 1) < StartOf(ends, i)
          BY <1>2, <2>1, <3>1 DEF StreamInv
        <4>3. QED
          BY <3>1, <4>1, <4>2
      <3>7. QED
        BY <1>1, <1>3, <2>1, <2>3, <3>3, <3>4, <3>5, <3>6
    <2>4. QED
      BY <2>2, <2>3
  <1>5. {i \in 1 .. Len(ends) : ends[i] <= pos} = 1 .. k
    <2>1. \A i \in 1 .. Len(ends) : ends[i] <= pos <=> i \in 1 .. k
      BY <1>1, <1>4
    <2>2. 1 .. k \subseteq 1 .. Len(ends)
      BY <1>1
    <2>3. QED
      BY <2>1, <2>2
  <1>6. Cardinality(1 .. k) = k
    <2>1. 1 \in Int /\ k \in Int /\ k - 1 + 1 = k /\ (1 > k => k = 0)
      BY <1>1
    <2>2. Cardinality(1 .. k) = IF 1 > k THEN 0 ELSE k - 1 + 1
      BY <2>1, FS_Interval
    <2>3. QED
      BY <2>1, <2>2
  <1>7. QED
    BY <1>5, <1>6 DEF Complete

\* As long as nothing but zeros follows a chunk, what is read is what was
\* written, however TCP cuts it (net_client.cpp:157-213, 264-268).
THEOREM ReadCorrect == Spec => []ReadAsWritten
  <1>1. Init => WireInv
    BY TypeInit, ReadInit DEF WireInv
  <1>2. WireInv /\ [Next]_vars => WireInv'
    BY TypeStep, ReadStep DEF WireInv
  <1>3. WireInv => ReadAsWritten
    <2>1. SUFFICES ASSUME WireInv, handler = "idle", spoiled = {},
                          \A i \in 1 .. Complete : Sound(sent[i])
                   PROVE  handled = [i \in 1 .. Complete |-> Expected(sent[i])]
      BY DEF ReadAsWritten
    <2>2. PICK k \in 0 .. Len(sent) :
            Taken = StartOf(ends, k) /\ (AllSound(sent, k) => handled = Got(sent, k))
      BY <2>1 DEF WireInv, ReadInv, BufferInv
    <2>3. Complete = k
      BY <2>1, <2>2, CompleteHandled
    <2>4. QED
      BY <2>1, <2>2, <2>3 DEF AllSound, Got
  <1>4. QED
    BY <1>1, <1>2, <1>3, PTL DEF Spec

-----------------------------------------------------------------------------
(* Damage is local: where the bytes of the lines to come lie in the buffer. *)

\* How many lines end at or before a place of the stream, and which.
LEMMA LinesUpTo ==
  ASSUME WireInv, NEW p \in Nat
  PROVE  LET c == Cardinality({i \in 1 .. Len(ends) : ends[i] <= p})
         IN  /\ c \in 0 .. Len(sent)
             /\ \A i \in 0 .. Len(sent) : StartOf(ends, i) <= p <=> i <= c
  <1> DEFINE n == Len(sent)
             T == {i \in 1 .. n + 1 : i = n + 1 \/ ~(StartOf(ends, i) <= p)}
  <1>1. n \in Nat /\ Len(ends) = n
    BY LenProperties DEF WireInv, WireType, TypeOK
  <1>2. /\ \A i \in 0 .. n : StartOf(ends, i) \in Nat
        /\ \A i, j \in 0 .. n : i < j => StartOf(ends, i) < StartOf(ends, j)
        /\ StartOf(ends, 0) = 0
        /\ \A i \in 1 .. n : ends[i] = StartOf(ends, i)
    <2>1. StreamInv
      BY DEF WireInv, ReadInv
    <2>2. QED
      BY <1>1, <2>1 DEF StreamInv, StartOf
  <1> HIDE DEF n
  <1>3. PICK m \in T : \A k \in T : m <= k
    <2>1. T \in SUBSET Nat /\ n + 1 \in T
      BY <1>1
    <2> HIDE DEF T
    <2>2. QED
      BY <2>1, Least
  <1>4. m \in 1 .. n + 1 /\ m - 1 \in 0 .. n
    BY <1>1, <1>3
  <1>5. ASSUME NEW i \in 0 .. n PROVE StartOf(ends, i) <= p <=> i <= m - 1
    <2>1. CASE i <= m - 1
      <3>1. i = 0 \/ (i \in 1 .. n + 1 /\ i \notin T)
        BY <1>1, <1>3, <1>4, <1>5, <2>1
      <3>2. StartOf(ends, i) <= p
        BY <1>1, <1>2, <1>5, <3>1
      <3>3. QED
        BY <2>1, <3>2
    <2>2. CASE ~(i <= m - 1)
      <3>1. m \in 0 .. n /\ (m = i \/ m < i)
        BY <1>1, <1>4, <1>5, <2>2
      <3>2. ~(StartOf(ends, m) <= p)
        BY <1>1, <1>3, <3>1
      <3>3. StartOf(ends, m) <= StartOf(ends, i) /\ StartOf(ends, m) \in Nat /\ StartOf(ends, i) \in Nat
        <4>1. StartOf(ends, m) \in Nat /\ StartOf(ends, i) \in Nat
          BY <1>2, <1>5, <3>1
        <4>2. m < i => StartOf(ends, m) < StartOf(ends, i)
          BY <1>2, <1>5, <3>1
        <4>3. QED
          BY <3>1, <4>1, <4>2
      <3>4. QED
        BY <2>2, <3>2, <3>3
    <2>3. QED
      BY <2>1, <2>2
  <1>6. {i \in 1 .. Len(ends) : ends[i] <= p} = 1 .. (m - 1)
    <2>1. \A i \in 1 .. n : ends[i] <= p <=> i <= m - 1
      BY <1>1, <1>2, <1>5
    <2>2. 1 .. (m - 1) \subseteq 1 .. n /\ m - 1 \in Int
      BY <1>1, <1>4
    <2>3. QED
      BY <1>1, <2>1, <2>2
  <1>7. Cardinality(1 .. (m - 1)) = m - 1
    <2>1. 1 \in Int /\ m - 1 \in Int /\ m - 1 - 1 + 1 = m - 1 /\ (1 > m - 1 => m - 1 = 0)
      BY <1>1, <1>4
    <2>2. Cardinality(1 .. (m - 1)) = IF 1 > m - 1 THEN 0 ELSE m - 1 - 1 + 1
      BY <2>1, FS_Interval
    <2>3. QED
      BY <2>1, <2>2
  <1>8. QED
    BY <1>4, <1>5, <1>6, <1>7 DEF n

\* The lines read whole are the first, up to Complete.
LEMMA CompleteIs ==
  ASSUME WireInv
  PROVE  /\ Complete \in 0 .. Len(sent)
         /\ \A i \in 0 .. Len(sent) : StartOf(ends, i) <= pos <=> i <= Complete
  <1>1. pos \in Nat
    BY DEF WireInv, WireType, TypeOK
  <1>2. QED
    BY <1>1, LinesUpTo DEF Complete

-----------------------------------------------------------------------------
(* The reader is between two lines of the writer wherever nothing fell in. *)

\* How much of a line was read, if the lines before it are complete.
LineRead(i) == (IF i <= Complete THEN StartOf(ends, i) ELSE pos) - StartOf(ends, i - 1)

LEMMA LineReadIs ==
  ASSUME WireInv, NEW i \in 1 .. Complete + 1
  PROVE  /\ StartOf(ends, i - 1) \in Nat /\ LineRead(i) \in Nat
         /\ StartOf(ends, i - 1) + LineRead(i) <= pos
         /\ i = Complete + 1 => StartOf(ends, i - 1) + LineRead(i) = pos
         /\ i <= Complete => /\ i \in 1 .. Len(sent) /\ sent[i] \in Written /\ sent[i] \in Message
                             /\ LineRead(i) = Len(Line(sent[i])) /\ LineRead(i) >= 1
                             /\ StartOf(ends, i) = StartOf(ends, i - 1) + LineRead(i)
                             /\ stream[StartOf(ends, i - 1) + LineRead(i)] = Newline
                             /\ stream[StartOf(ends, i)] = Newline
         /\ \A j \in 1 .. LineRead(i) :
              stream[StartOf(ends, i - 1) + j] = Newline => i <= Complete /\ j = LineRead(i)
  <1> DEFINE n == Len(sent)
             c == Complete
             a == StartOf(ends, i - 1)
  <1>1. /\ n \in Nat /\ sent \in Seq(Written) /\ pos \in Nat /\ pos <= Len(stream)
        /\ Len(stream) \in Nat
    BY LenProperties DEF WireInv, WireType, TypeOK
  <1>2. /\ c \in 0 .. n /\ \A q \in 0 .. n : StartOf(ends, q) <= pos <=> q <= c
    BY CompleteIs
  <1>3. StreamInv
    BY DEF WireInv, ReadInv
  <1>4. i \in Nat /\ i - 1 \in 0 .. n /\ i - 1 <= c
    BY <1>1, <1>2
  <1>5. a \in Nat /\ a <= pos
    BY <1>2, <1>3, <1>4 DEF StreamInv
  <1>6. ASSUME NEW q \in 1 .. n
        PROVE  /\ sent[q] \in Written /\ sent[q] \in Message
               /\ Len(Line(sent[q])) \in Nat /\ Len(Line(sent[q])) >= 1
               /\ Line(sent[q])[Len(Line(sent[q]))] = Newline
               /\ \A j \in 1 .. Len(Line(sent[q])) : Line(sent[q])[j] = Newline => j = Len(Line(sent[q]))
               /\ StartOf(ends, q) = StartOf(ends, q - 1) + Len(Line(sent[q]))
               /\ \A j \in 1 .. Len(Line(sent[q])) : stream[StartOf(ends, q - 1) + j] = Line(sent[q])[j]
    <2>1. sent[q] \in Written /\ sent[q] \in Message
      BY <1>1, ElementOfSeq, WrittenAssumption
    <2> DEFINE l == Line(sent[q])
               u == Len(ToString(sent[q]))
    <2>2. /\ Len(l) = u + 1 /\ u \in Nat
          /\ \A j \in 1 .. u : l[j] # Newline
          /\ l[Len(l)] = Newline
      BY <2>1, LineSeq
    <2> HIDE DEF l, u
    <2>3. \A j \in 1 .. Len(l) : j \in 1 .. u \/ j = Len(l)
      BY <2>2
    <2>4. Len(l) \in Nat /\ Len(l) >= 1 /\ \A j \in 1 .. Len(l) : l[j] = Newline => j = Len(l)
      BY <2>2, <2>3
    <2>5. /\ StartOf(ends, q) = StartOf(ends, q - 1) + Len(l)
          /\ \A j \in 1 .. Len(l) : stream[StartOf(ends, q - 1) + j] = l[j]
      BY <1>3, LineLies DEF l
    <2>6. QED
      BY <2>1, <2>2, <2>4, <2>5 DEF l
  <1> HIDE DEF c, n
  <1>7. CASE i <= c
    <2>1. i \in 1 .. n
      BY <1>1, <1>2, <1>4, <1>7
    <2> DEFINE l == Line(sent[i])
    <2>2. /\ sent[i] \in Written /\ sent[i] \in Message
          /\ Len(l) \in Nat /\ Len(l) >= 1 /\ l[Len(l)] = Newline
          /\ \A j \in 1 .. Len(l) : l[j] = Newline => j = Len(l)
          /\ StartOf(ends, i) = a + Len(l)
          /\ \A j \in 1 .. Len(l) : stream[a + j] = l[j]
      BY <1>6, <2>1
    <2> HIDE DEF l
    <2>3. LineRead(i) = Len(l)
      <3>1. LineRead(i) = (a + Len(l)) - a
        BY <1>7, <2>2 DEF LineRead, c
      <3>2. QED
        BY <1>5, <2>2, <3>1
    <2>4. StartOf(ends, i) <= pos
      BY <1>1, <1>2, <1>7, <2>1
    <2>5. stream[a + Len(l)] = Newline /\ stream[StartOf(ends, i)] = Newline
      <3>1. Len(l) \in 1 .. Len(l)
        BY <2>2
      <3>2. QED
        BY <2>2, <3>1
    <2>6. i # c + 1
      BY <1>1, <1>2, <1>4, <1>7
    <2>7. \A j \in 1 .. LineRead(i) : stream[a + j] = Newline => i <= c /\ j = LineRead(i)
      BY <1>7, <2>2, <2>3
    <2>8. QED
      BY <1>5, <2>1, <2>2, <2>3, <2>4, <2>5, <2>6, <2>7 DEF c, n, l
  <1>8. CASE ~(i <= c)
    <2>1. i = c + 1 /\ c \in Nat /\ i - 1 = c
      BY <1>1, <1>2, <1>4, <1>8 DEF c
    <2>2. LineRead(i) = pos - a
      BY <1>8 DEF LineRead, c
    <2>3. LineRead(i) \in Nat /\ a + LineRead(i) = pos
      BY <1>1, <1>5, <2>2
    <2>4. ASSUME NEW j \in 1 .. LineRead(i) PROVE stream[a + j] # Newline
      <3>1. c # n
        <4>1. StartOf(ends, n) = Len(stream)
          BY <1>3 DEF StreamInv, n
        <4>2. a < pos
          BY <1>1, <1>5, <2>3, <2>4
        <4>3. QED
          BY <1>1, <1>5, <2>1, <4>1, <4>2
      <3>2. i \in 1 .. n /\ i \in 0 .. n
        BY <1>1, <1>2, <2>1, <3>1
      <3> DEFINE l == Line(sent[i])
      <3>3. /\ Len(l) \in Nat
            /\ \A q \in 1 .. Len(l) : l[q] = Newline => q = Len(l)
            /\ StartOf(ends, i) = a + Len(l)
            /\ \A q \in 1 .. Len(l) : stream[a + q] = l[q]
        BY <1>6, <3>2
      <3> HIDE DEF l
      <3>4. ~(StartOf(ends, i) <= pos)
        BY <1>2, <1>8, <3>2
      <3>5. j \in 1 .. Len(l) /\ j # Len(l)
        BY <1>1, <1>5, <2>3, <2>4, <3>3, <3>4
      <3>6. QED
        BY <3>3, <3>5
    <2>5. QED
      BY <1>1, <1>5, <1>8, <2>1, <2>3, <2>4 DEF c
  <1>9. QED
    BY <1>7, <1>8

\* The lines after the first k of which some or all was read, and nothing fell into.
Pending(k) == {i \in k + 1 .. Complete + 1 : i \notin spoiled}

\* They lie in the buffer, one behind the other, each behind a newline or at
\* the front: off[i] says where line i begins.
Placed(k, off) ==
  /\ \A i \in Pending(k) :
       /\ off[i] = 0 \/ buffer[off[i]] = Newline
       /\ off[i] + LineRead(i) <= Len(buffer)
       /\ i = Complete + 1 => off[i] + LineRead(i) = Len(buffer)
       /\ \A j \in 1 .. LineRead(i) : buffer[off[i] + j] = stream[StartOf(ends, i - 1) + j]
  /\ \A i, j \in Pending(k) : i < j => off[i] + LineRead(i) <= off[j]

CleanTo(k) == {i \in 1 .. k : i \notin spoiled /\ Sound(sent[i])}

\* The lines up to some k are gone from the buffer and those of them that
\* nothing fell into were handled; the others lie in it.
DamageInv ==
  /\ spoiled \subseteq 1 .. Complete + 1
  /\ handler = "idle" => ~HasLine
  /\ \E k \in 0 .. Complete : \E off \in [Pending(k) -> 0 .. Len(buffer)] :
       Placed(k, off) /\ Arrived(CleanTo(k))

LEMMA DamageInit == Init => DamageInv
  <1> SUFFICES ASSUME Init PROVE DamageInv
    OBVIOUS
  <1>1. /\ pos = 0 /\ buffer = <<>> /\ handled = <<>> /\ ends = <<>> /\ spoiled = {}
        /\ Len(ends) = 0 /\ Len(buffer) = 0 /\ Len(handled) = 0
    BY DEF Init
  <1>2. Complete = 0
    <2>1. {i \in 1 .. Len(ends) : ends[i] <= pos} = {}
      BY <1>1
    <2>2. Cardinality({}) = 0
      BY FS_EmptySet
    <2>3. QED
      BY <2>1, <2>2 DEF Complete
  <1>3. ~HasLine
    BY <1>1 DEF HasLine
  <1> DEFINE off == [i \in Pending(0) |-> 0]
  <1>4. Pending(0) = {1}
    BY <1>1, <1>2 DEF Pending
  <1>5. LineRead(1) = 0
    BY <1>1, <1>2 DEF LineRead, StartOf
  <1>6. off \in [Pending(0) -> 0 .. Len(buffer)] /\ Placed(0, off)
    BY <1>1, <1>2, <1>4, <1>5 DEF Placed
  <1>7. Arrived(CleanTo(0))
    <2>1. CleanTo(0) = {}
      BY DEF CleanTo
    <2>2. [x \in {} |-> 0] \in [{} -> 1 .. Len(handled)]
      OBVIOUS
    <2>3. QED
      BY <2>1, <2>2 DEF Arrived
  <1> HIDE DEF off
  <1>8. 0 \in 0 .. Complete
    BY <1>2
  <1>9. QED
    BY <1>1, <1>3, <1>6, <1>7, <1>8 DEF DamageInv

\* A step that reads nothing completes no line.
LEMMA NothingRead ==
  ASSUME WireInv, UNCHANGED <<pos, spoiled>>,
         \/ UNCHANGED <<stream, sent, ends>>
         \/ \E m \in Written : Write(m)
  PROVE  /\ Complete' = Complete
         /\ \A i \in 1 .. Complete + 1 :
              StartOf(ends', i - 1) = StartOf(ends, i - 1) /\ LineRead(i)' = LineRead(i)
         /\ \A k \in Nat : Pending(k)' = Pending(k)
         /\ \A k \in 0 .. Complete : CleanTo(k)' = CleanTo(k) /\ \A i \in 1 .. k : sent'[i] = sent[i]
         /\ \A i \in 1 .. Complete + 1 : \A j \in 1 .. LineRead(i) :
              stream'[StartOf(ends, i - 1) + j] = stream[StartOf(ends, i - 1) + j]
  <1> DEFINE n == Len(sent)
  <1>1. /\ n \in Nat /\ sent \in Seq(Written) /\ Len(ends) = n /\ ends \in Seq(Nat)
        /\ stream \in Seq(Word) /\ Len(stream) \in Nat /\ pos \in Nat /\ pos <= Len(stream)
    BY LenProperties DEF WireInv, WireType, TypeOK
  <1>2. Complete \in 0 .. n
    BY CompleteIs
  <1>3. /\ \A i \in 1 .. n : ends'[i] = ends[i] /\ sent'[i] = sent[i]
        /\ \A i \in 1 .. Len(stream) : stream'[i] = stream[i]
        /\ \A i \in 1 .. Len(ends') : i \in 1 .. n \/ ~(ends'[i] <= pos)
        /\ n <= Len(ends')
    <2>1. CASE UNCHANGED <<stream, sent, ends>>
      BY <1>1, <2>1
    <2>2. ASSUME NEW m \in Written, Write(m)
          PROVE  /\ \A i \in 1 .. n : ends'[i] = ends[i] /\ sent'[i] = sent[i]
                 /\ \A i \in 1 .. Len(stream) : stream'[i] = stream[i]
                 /\ \A i \in 1 .. Len(ends') : i \in 1 .. n \/ ~(ends'[i] <= pos)
                 /\ n <= Len(ends')
      <3>1. stream' = stream \o Line(m) /\ sent' = Append(sent, m) /\ ends' = Append(ends, Len(stream'))
        BY <2>2 DEF Write
      <3> DEFINE l == Line(m)
      <3>2. l \in Seq(Word) /\ Len(l) \in Nat /\ Len(l) >= 1
        <4>1. m \in Message
          BY <2>2, WrittenAssumption
        <4>2. l \in Seq(Word) /\ Len(l) = Len(ToString(m)) + 1 /\ Len(ToString(m)) \in Nat
          BY <4>1, LineSeq
        <4>3. QED
          BY <4>2
      <3> HIDE DEF l
      <3>3. /\ Len(stream') = Len(stream) + Len(l)
            /\ \A i \in 1 .. Len(stream) : stream'[i] = stream[i]
        <4>1. /\ Len(stream \o l) = Len(stream) + Len(l)
              /\ \A i \in 1 .. Len(stream) : (stream \o l)[i] = stream[i]
          BY <1>1, <3>2, Concat
        <4>2. QED
          BY <3>1, <4>1 DEF l
      <3>4. \A i \in 1 .. n : sent'[i] = sent[i]
        BY <1>1, <2>2, <3>1, AppendProperties
      <3>5. Len(stream') \in Nat /\ ~(Len(stream') <= pos)
        BY <1>1, <3>2, <3>3
      <3>6. /\ Len(ends') = n + 1 /\ ends'[n + 1] = Len(stream')
            /\ \A i \in 1 .. n : ends'[i] = ends[i]
        BY <1>1, <3>1, <3>5, AppendProperties
      <3>7. \A i \in 1 .. n + 1 : i \in 1 .. n \/ i = n + 1
        BY <1>1
      <3>8. n <= Len(ends')
        BY <1>1, <3>6
      <3>9. QED
        BY <3>3, <3>4, <3>5, <3>6, <3>7, <3>8
    <2>3. QED
      BY <2>1, <2>2
  <1> HIDE DEF n
  <1>4. Complete' = Complete
    <2>1. {i \in 1 .. Len(ends') : ends'[i] <= pos} = {i \in 1 .. Len(ends) : ends[i] <= pos}
      <3>1. Len(ends') \in Nat
        <4>1. CASE UNCHANGED <<stream, sent, ends>>
          BY <1>1, <4>1
        <4>2. ASSUME NEW m \in Written, Write(m) PROVE Len(ends') \in Nat
          BY <4>2, WriteType, LenProperties DEF WireInv, WireType
        <4>3. QED
          BY <4>1, <4>2
      <3>2. \A i \in 1 .. n : i \in 1 .. Len(ends')
        BY <1>1, <1>3, <3>1
      <3>3. QED
        BY <1>1, <1>3, <3>2
    <2>2. QED
      BY <2>1 DEF Complete
  <1>5. ASSUME NEW i \in 1 .. Complete + 1
        PROVE  /\ StartOf(ends', i - 1) = StartOf(ends, i - 1) /\ LineRead(i)' = LineRead(i)
               /\ \A j \in 1 .. LineRead(i) :
                    stream'[StartOf(ends, i - 1) + j] = stream[StartOf(ends, i - 1) + j]
    <2>1. StartOf(ends', i - 1) = StartOf(ends, i - 1) /\ (i <= Complete => StartOf(ends', i) = StartOf(ends, i))
      <3>1. i \in Nat /\ (i - 1 = 0 \/ i - 1 \in 1 .. n) /\ (i <= Complete => i \in 1 .. n)
        BY <1>1, <1>2
      <3>2. QED
        BY <1>3, <3>1 DEF StartOf
    <2>2. LineRead(i)' = LineRead(i)
      BY <1>4, <2>1 DEF LineRead
    <2>3. StartOf(ends, i - 1) \in Nat /\ LineRead(i) \in Nat /\ StartOf(ends, i - 1) + LineRead(i) <= pos
      BY LineReadIs
    <2>4. \A j \in 1 .. LineRead(i) : StartOf(ends, i - 1) + j \in 1 .. Len(stream)
      BY <1>1, <2>3
    <2>5. QED
      BY <1>3, <2>1, <2>2, <2>4
  <1>6. \A k \in Nat : Pending(k)' = Pending(k)
    BY <1>4 DEF Pending
  <1>7. ASSUME NEW k \in 0 .. Complete
        PROVE  CleanTo(k)' = CleanTo(k) /\ \A i \in 1 .. k : sent'[i] = sent[i]
    <2>1. \A i \in 1 .. k : i \in 1 .. n
      BY <1>1, <1>2
    <2>2. QED
      BY <1>3, <2>1 DEF CleanTo
  <1>8. QED
    BY <1>4, <1>5, <1>6, <1>7

\* A step that reads nothing and takes nothing leaves everything in its place.
LEMMA DamageStays ==
  ASSUME WireInv, DamageInv, UNCHANGED <<pos, spoiled, buffer, handled>>,
         \/ UNCHANGED <<stream, sent, ends>>
         \/ \E m \in Written : Write(m),
         handler' = "idle" => ~HasLine
  PROVE  DamageInv'
  <1>0. PICK k \in 0 .. Complete : \E off \in [Pending(k) -> 0 .. Len(buffer)] :
          Placed(k, off) /\ Arrived(CleanTo(k))
    BY DEF DamageInv
  <1>1. PICK off \in [Pending(k) -> 0 .. Len(buffer)] : Placed(k, off) /\ Arrived(CleanTo(k))
    BY <1>0
  <1>2. k \in Nat /\ Pending(k) \subseteq 1 .. Complete + 1
    <2>1. Complete \in Nat
      BY CompleteIs, LenProperties DEF WireInv, WireType, TypeOK
    <2>2. QED
      BY <2>1 DEF Pending
  <1>3. /\ Complete' = Complete /\ Pending(k)' = Pending(k) /\ CleanTo(k)' = CleanTo(k)
        /\ \A i \in 1 .. k : sent'[i] = sent[i]
        /\ \A i \in Pending(k) :
             /\ StartOf(ends', i - 1) = StartOf(ends, i - 1) /\ LineRead(i)' = LineRead(i)
             /\ \A j \in 1 .. LineRead(i) :
                  stream'[StartOf(ends, i - 1) + j] = stream[StartOf(ends, i - 1) + j]
    <2>1. /\ Complete' = Complete
          /\ \A i \in 1 .. Complete + 1 :
                StartOf(ends', i - 1) = StartOf(ends, i - 1) /\ LineRead(i)' = LineRead(i)
          /\ \A q \in Nat : Pending(q)' = Pending(q)
          /\ \A q \in 0 .. Complete : CleanTo(q)' = CleanTo(q) /\ \A i \in 1 .. q : sent'[i] = sent[i]
          /\ \A i \in 1 .. Complete + 1 : \A j \in 1 .. LineRead(i) :
                stream'[StartOf(ends, i - 1) + j] = stream[StartOf(ends, i - 1) + j]
      BY NothingRead
    <2>2. Pending(k)' = Pending(k) /\ CleanTo(k)' = CleanTo(k) /\ \A i \in 1 .. k : sent'[i] = sent[i]
      BY <1>1, <1>2, <2>1
    <2>3. QED
      BY <1>2, <2>1, <2>2
  <1>4. Placed(k, off)'
    <2>1. ASSUME NEW i \in Pending(k)
          PROVE  /\ off[i] = 0 \/ buffer'[off[i]] = Newline
                 /\ off[i] + LineRead(i)' <= Len(buffer')
                 /\ i = Complete' + 1 => off[i] + LineRead(i)' = Len(buffer')
                 /\ \A j \in 1 .. LineRead(i)' : buffer'[off[i] + j] = stream'[StartOf(ends', i - 1) + j]
      <3>1. /\ off[i] = 0 \/ buffer[off[i]] = Newline
            /\ off[i] + LineRead(i) <= Len(buffer)
            /\ i = Complete + 1 => off[i] + LineRead(i) = Len(buffer)
            /\ \A j \in 1 .. LineRead(i) : buffer[off[i] + j] = stream[StartOf(ends, i - 1) + j]
        BY <1>1, <2>1 DEF Placed
      <3>2. /\ StartOf(ends', i - 1) = StartOf(ends, i - 1) /\ LineRead(i)' = LineRead(i)
            /\ \A j \in 1 .. LineRead(i) :
                  stream'[StartOf(ends, i - 1) + j] = stream[StartOf(ends, i - 1) + j]
        BY <1>3, <2>1
      <3>3. QED
        BY <1>3, <3>1, <3>2
    <2>2. ASSUME NEW i \in Pending(k), NEW j \in Pending(k), i < j
          PROVE  off[i] + LineRead(i)' <= off[j]
      <3>1. off[i] + LineRead(i) <= off[j]
        BY <1>1, <2>2 DEF Placed
      <3>2. QED
        BY <1>3, <2>2, <3>1
    <2>3. QED
      BY <1>3, <2>1, <2>2 DEF Placed
  <1>5. Arrived(CleanTo(k))'
    <2>1. \A i \in CleanTo(k) : sent'[i] = sent[i]
      BY <1>3 DEF CleanTo
    <2> DEFINE C == CleanTo(k)
    <2>2. PICK at \in [C -> 1 .. Len(handled)] :
            /\ \A i, j \in C : i < j => at[i] < at[j]
            /\ \A i \in C : handled[at[i]] = Expected(sent[i])
      BY <1>1 DEF Arrived
    <2> HIDE DEF C
    <2>3. /\ at \in [C -> 1 .. Len(handled')]
          /\ \A i \in C : handled'[at[i]] = Expected(sent'[i])
      BY <2>1, <2>2 DEF C
    <2>4. CleanTo(k)' = C
      BY <1>3 DEF C
    <2>5. QED
      BY <2>2, <2>3, <2>4 DEF Arrived
  <1>6. spoiled' \subseteq 1 .. Complete' + 1 /\ (handler' = "idle" => ~HasLine')
    BY <1>3 DEF DamageInv, HasLine
  <1>7. k \in 0 .. Complete' /\ off \in [Pending(k)' -> 0 .. Len(buffer')]
    BY <1>1, <1>3
  <1>8. QED
    BY <1>4, <1>5, <1>6, <1>7 DEF DamageInv

\* What the loop takes out of the buffer, and what it leaves.
LEMMA FirstLine ==
  ASSUME WireType, HasLine, NEW m \in Message, Len(Line(m)) <= Len(buffer),
         \A j \in 1 .. Len(Line(m)) : buffer[j] = Line(m)[j]
  PROVE  Terminator = Len(Line(m)) /\ SubSeq(buffer, 1, Terminator - 1) = ToString(m)
  <1> DEFINE t == Terminator
             l == Line(m)
             u == ToString(m)
             w == SubSeq(buffer, 1, t - 1)
  <1>1. buffer \in Seq(Word) /\ Len(buffer) \in Nat
    BY LenProperties DEF WireType, TypeOK
  <1>2. /\ t \in 1 .. Len(buffer) /\ buffer[t] = Newline
        /\ \A j \in 1 .. t - 1 : buffer[j] # Newline
    BY <1>1, TerminatorFirst
  <1>3. /\ Len(l) = Len(u) + 1 /\ Len(u) \in Nat
        /\ \A i \in 1 .. Len(u) : l[i] = u[i] /\ l[i] # Newline
        /\ l[Len(l)] = Newline
    BY LineSeq
  <1>4. Len(l) <= Len(buffer) /\ \A j \in 1 .. Len(l) : buffer[j] = l[j]
    OBVIOUS
  <1>5. u \in Seq(Word)
    <2>1. u \in Seq(Letter)
      BY LineWords
    <2>2. Seq(Letter) \subseteq Seq(Word)
      BY DEF Letter
    <2>3. QED
      BY <2>1, <2>2
  <1> HIDE DEF t, l, u
  <1>6. t = Len(l)
    <2>1. ~(Len(l) < t)
      <3>1. Len(l) \in 1 .. Len(l) /\ (Len(l) < t => Len(l) \in 1 .. t - 1)
        BY <1>1, <1>2, <1>3
      <3>2. QED
        BY <1>2, <1>3, <1>4, <3>1
    <2>2. ~(t < Len(l))
      <3>1. t < Len(l) => t \in 1 .. Len(u) /\ t \in 1 .. Len(l)
        BY <1>1, <1>2, <1>3
      <3>2. QED
        BY <1>2, <1>3, <1>4, <3>1
    <2>3. QED
      BY <1>2, <1>3, <2>1, <2>2
  <1>7. w = u
    <2>1. /\ 1 \in Nat \ {0} /\ t - 1 \in Nat /\ t - 1 <= Len(buffer) /\ 1 <= t - 1 + 1
          /\ t - 1 - 1 + 1 = Len(u)
      BY <1>1, <1>2, <1>3, <1>6
    <2>2. /\ w \in Seq(Word) /\ Len(w) = t - 1 - 1 + 1
          /\ \A i \in 1 .. t - 1 - 1 + 1 : w[i] = buffer[1 + i - 1]
      BY <1>1, <2>1, Part
    <2>3. w \in Seq(Word) /\ Len(w) = Len(u)
      BY <2>1, <2>2
    <2>4. ASSUME NEW i \in 1 .. Len(w) PROVE w[i] = u[i]
      <3>1. i \in 1 .. Len(u) /\ i \in 1 .. Len(l) /\ 1 + i - 1 = i
        BY <1>3, <2>3, <2>4
      <3>2. w[i] = buffer[i]
        BY <2>1, <2>2, <3>1
      <3>3. QED
        BY <1>3, <1>4, <3>1, <3>2
    <2> HIDE DEF w
    <2>5. QED
      BY <1>5, <2>3, <2>4, SeqEqual
  <1>8. QED
    BY <1>6, <1>7 DEF t, l, u

LEMMA BufferRest ==
  ASSUME WireType, HasLine
  PROVE  LET rest == SubSeq(buffer, Terminator + 1, Len(buffer))
         IN  /\ Len(rest) = Len(buffer) - Terminator
             /\ \A i \in 1 .. Len(rest) : rest[i] = buffer[Terminator + i]
  <1> DEFINE t == Terminator
             rest == SubSeq(buffer, t + 1, Len(buffer))
  <1>1. buffer \in Seq(Word) /\ Len(buffer) \in Nat
    BY LenProperties DEF WireType, TypeOK
  <1>2. t \in 1 .. Len(buffer)
    BY <1>1, TerminatorFirst
  <1> HIDE DEF t
  <1>3. /\ t + 1 \in Nat \ {0} /\ Len(buffer) <= Len(buffer) /\ t + 1 <= Len(buffer) + 1
        /\ Len(buffer) - (t + 1) + 1 = Len(buffer) - t
    BY <1>1, <1>2
  <1>4. /\ Len(rest) = Len(buffer) - (t + 1) + 1
        /\ \A i \in 1 .. Len(buffer) - (t + 1) + 1 : rest[i] = buffer[t + 1 + i - 1]
    BY <1>1, <1>3, Part
  <1>5. \A i \in 1 .. Len(buffer) - t : t + 1 + i - 1 = t + i
    BY <1>1, <1>2
  <1> HIDE DEF rest
  <1>6. Len(rest) = Len(buffer) - t /\ \A i \in 1 .. Len(rest) : rest[i] = buffer[t + i]
    BY <1>3, <1>4, <1>5
  <1>7. QED
    BY <1>6 DEF rest, t

\* The loop takes the least line that is all in the buffer, if it stands at the
\* front; else what it takes lies before every line nothing fell into.
LEMMA DamageNextLine == ASSUME WireInv, DamageInv, NextLine PROVE DamageInv'
  <1> DEFINE t == Terminator
  <1>1. PICK k \in 0 .. Complete : \E off \in [Pending(k) -> 0 .. Len(buffer)] :
          Placed(k, off) /\ Arrived(CleanTo(k))
    BY DEF DamageInv
  <1>2. PICK off \in [Pending(k) -> 0 .. Len(buffer)] : Placed(k, off) /\ Arrived(CleanTo(k))
    BY <1>1
  <1>3. /\ buffer \in Seq(Word) /\ Len(buffer) \in Nat /\ handled \in Seq(Received)
        /\ Len(handled) \in Nat /\ Complete \in Nat /\ k \in Nat /\ k <= Complete
        /\ HasLine /\ handler' = "lines" /\ UNCHANGED <<stream, pos, sent, ends, spoiled>>
    <2>1. Complete \in 0 .. Len(sent) /\ Len(sent) \in Nat
      BY CompleteIs, LenProperties DEF WireInv, WireType, TypeOK
    <2>2. QED
      BY <2>1, LenProperties DEF WireInv, WireType, TypeOK, NextLine, history
  <1>4. /\ t \in 1 .. Len(buffer) /\ buffer[t] = Newline
        /\ \A j \in 1 .. t - 1 : buffer[j] # Newline
    BY <1>3, TerminatorFirst
  <1>5. /\ Len(buffer') = Len(buffer) - t
        /\ \A i \in 1 .. Len(buffer') : buffer'[i] = buffer[t + i]
    BY BufferRest DEF NextLine, WireInv
  <1>6. LET m == Parse(SubSeq(buffer, 1, t - 1))
        IN  handled' = IF m = NoMessage THEN handled ELSE Append(handled, m)
    BY DEF NextLine
  <1>7. /\ 1 .. Len(handled) \subseteq 1 .. Len(handled')
        /\ \A i \in 1 .. Len(handled) : handled'[i] = handled[i]
    <2>1. handled' \in Seq(Received)
      BY NextLineType DEF WireInv, WireType, TypeOK
    <2>2. handled' = handled \/ \E x : handled' = Append(handled, x)
      BY <1>6
    <2>3. QED
      BY <1>3, <2>2
  <1> HIDE DEF t
  <1>7a. /\ t \in Nat /\ 1 <= t /\ t <= Len(buffer) /\ Len(buffer) \in Nat
         /\ Len(buffer) = t + Len(buffer') /\ Len(buffer') \in Nat
    BY <1>3, <1>4, <1>5
  <1>8. /\ Complete' = Complete
        /\ \A q \in Nat : Pending(q)' = Pending(q)
        /\ \A q \in 0 .. Complete : CleanTo(q)' = CleanTo(q)
        /\ \A i \in 1 .. Complete + 1 :
             StartOf(ends', i - 1) = StartOf(ends, i - 1) /\ LineRead(i)' = LineRead(i)
    BY <1>3, NothingRead
  <1>9. ASSUME NEW i \in Pending(k)
        PROVE  /\ i \in 1 .. Complete + 1 /\ i \in k + 1 .. Complete + 1 /\ i \notin spoiled
               /\ off[i] \in 0 .. Len(buffer)
               /\ off[i] = 0 \/ buffer[off[i]] = Newline
               /\ off[i] + LineRead(i) <= Len(buffer)
               /\ i = Complete + 1 => off[i] + LineRead(i) = Len(buffer)
               /\ \A j \in 1 .. LineRead(i) : buffer[off[i] + j] = stream[StartOf(ends, i - 1) + j]
               /\ \A j \in Pending(k) : i < j => off[i] + LineRead(i) <= off[j]
               /\ LineRead(i) \in Nat /\ StartOf(ends, i - 1) \in Nat
               /\ i <= Complete => LineRead(i) >= 1
    <2>1. i \in 1 .. Complete + 1 /\ i \in k + 1 .. Complete + 1 /\ i \notin spoiled
      BY <1>3 DEF Pending
    <2>2. LineRead(i) \in Nat /\ StartOf(ends, i - 1) \in Nat /\ (i <= Complete => LineRead(i) >= 1)
      BY <2>1, LineReadIs
    <2>3. QED
      BY <1>2, <2>1, <2>2 DEF Placed
  <1>10. ASSUME NEW q \in 0 .. Complete, k <= q, \A i \in Pending(q) : off[i] >= t,
                Arrived(CleanTo(q))'
         PROVE  DamageInv'
    <2>1. Pending(q) \subseteq Pending(k) /\ q \in Nat
      BY <1>3, <1>10 DEF Pending
    <2>0. PICK new \in [Pending(q) -> 0 .. Len(buffer')] : \A i \in Pending(q) : off[i] = t + new[i]
      <3>1. ASSUME NEW i \in Pending(q)
            PROVE  off[i] - t \in 0 .. Len(buffer') /\ off[i] = t + (off[i] - t)
        <4>1. off[i] \in Nat /\ off[i] >= t /\ off[i] <= Len(buffer)
          BY <1>3, <1>9, <1>10, <2>1, <3>1
        <4>2. QED
          BY <1>7a, <4>1
      <3>2. [i \in Pending(q) |-> off[i] - t] \in [Pending(q) -> 0 .. Len(buffer')]
        BY <3>1
      <3>3. QED
        BY <3>1, <3>2
    <2>2. ASSUME NEW i \in Pending(q)
          PROVE  /\ new[i] \in 0 .. Len(buffer')
                 /\ new[i] = 0 \/ buffer'[new[i]] = Newline
                 /\ new[i] + LineRead(i)' <= Len(buffer')
                 /\ i = Complete' + 1 => new[i] + LineRead(i)' = Len(buffer')
                 /\ \A j \in 1 .. LineRead(i)' :
                      buffer'[new[i] + j] = stream'[StartOf(ends', i - 1) + j]
      <3>1. /\ i \in Pending(k) /\ i \in 1 .. Complete + 1
            /\ off[i] \in 0 .. Len(buffer) /\ off[i] >= t
            /\ off[i] = 0 \/ buffer[off[i]] = Newline
            /\ off[i] + LineRead(i) <= Len(buffer)
            /\ i = Complete + 1 => off[i] + LineRead(i) = Len(buffer)
            /\ \A j \in 1 .. LineRead(i) : buffer[off[i] + j] = stream[StartOf(ends, i - 1) + j]
            /\ LineRead(i) \in Nat
        BY <1>9, <1>10, <2>1, <2>2
      <3>2. StartOf(ends', i - 1) = StartOf(ends, i - 1) /\ LineRead(i)' = LineRead(i)
        BY <1>8, <3>1
      <3>3. off[i] = t + new[i] /\ new[i] \in Nat
        BY <2>0, <2>2
      <3>4. /\ new[i] \in 0 .. Len(buffer') /\ off[i] = t + new[i]
            /\ new[i] + LineRead(i) <= Len(buffer')
            /\ i = Complete + 1 => new[i] + LineRead(i) = Len(buffer')
        <4>1. /\ off[i] \in Nat /\ off[i] >= t /\ off[i] <= Len(buffer) /\ LineRead(i) \in Nat
              /\ off[i] + LineRead(i) <= Len(buffer)
              /\ i = Complete + 1 => off[i] + LineRead(i) = Len(buffer)
          BY <1>7a, <3>1
        <4>2. QED
          BY <1>7a, <3>3, <4>1
      <3>5. new[i] = 0 \/ buffer'[new[i]] = Newline
        <4>1. CASE new[i] = 0
          BY <4>1
        <4>2. CASE new[i] # 0
          <5>1. new[i] \in 1 .. Len(buffer') /\ off[i] # 0
            BY <1>3, <1>4, <1>5, <3>4, <4>2
          <5>2. QED
            BY <1>5, <3>1, <3>4, <5>1
        <4>3. QED
          BY <4>1, <4>2
      <3>6. ASSUME NEW j \in 1 .. LineRead(i)
            PROVE  buffer'[new[i] + j] = stream[StartOf(ends, i - 1) + j]
        <4>0. /\ new[i] \in Nat /\ off[i] = t + new[i] /\ new[i] + LineRead(i) <= Len(buffer')
              /\ LineRead(i) \in Nat /\ Len(buffer') \in Nat /\ t \in Nat
          BY <1>3, <1>4, <1>5, <3>1, <3>4
        <4>1. new[i] + j \in 1 .. Len(buffer') /\ off[i] + j = t + (new[i] + j)
          BY <4>0
        <4>2. buffer'[new[i] + j] = buffer[off[i] + j]
          BY <1>5, <4>1
        <4>3. QED
          BY <3>1, <4>2
      <3>7. QED
        BY <1>3, <1>8, <3>2, <3>3, <3>4, <3>5, <3>6
    <2>3. ASSUME NEW i \in Pending(q), NEW j \in Pending(q), i < j
          PROVE  new[i] + LineRead(i)' <= new[j]
      <3>1. off[i] + LineRead(i) <= off[j] /\ LineRead(i) \in Nat /\ i \in 1 .. Complete + 1
            /\ off[i] \in Nat /\ off[j] \in Nat
        BY <1>9, <2>1, <2>3
      <3>2. LineRead(i)' = LineRead(i)
        BY <1>8, <3>1
      <3>3. off[i] = t + new[i] /\ off[j] = t + new[j] /\ new[i] \in Nat /\ new[j] \in Nat
        BY <2>0, <2>3
      <3>4. new[i] + LineRead(i) <= new[j]
        <4>1. PICK x \in Nat, y \in Nat, r \in Nat : x = new[i] /\ y = new[j] /\ r = LineRead(i)
          BY <3>1, <3>3
        <4>2. (t + x) + r <= t + y /\ t \in Nat
          BY <1>7a, <3>1, <3>3, <4>1
        <4>3. x + r <= y
          BY ONLY <4>2, x \in Nat, y \in Nat, r \in Nat
        <4>4. QED
          BY ONLY <4>1, <4>3
      <3>5. QED
        BY ONLY <3>2, <3>4
    <2>5. Pending(q)' = Pending(q)
      BY <1>8, <2>1
    <2>6. Placed(q, new)'
      BY <2>2, <2>3, <2>5 DEF Placed
    <2>7. q \in 0 .. Complete' /\ new \in [Pending(q)' -> 0 .. Len(buffer')]
      BY <1>8, <2>0, <2>5
    <2>8. spoiled' \subseteq 1 .. Complete' + 1 /\ handler' # "idle"
      BY <1>3, <1>8 DEF DamageInv
    <2>9. QED
      BY <1>10, <2>6, <2>7, <2>8 DEF DamageInv
  <1> DEFINE C == CleanTo(k)
  <1>11. PICK at \in [C -> 1 .. Len(handled)] :
           /\ \A i, j \in C : i < j => at[i] < at[j]
           /\ \A i \in C : handled[at[i]] = Expected(sent[i])
    BY <1>2 DEF Arrived
  <1> HIDE DEF C
  <1>12. at \in [C -> 1 .. Len(handled')] /\ \A i \in C : handled'[at[i]] = Expected(sent'[i])
    BY <1>3, <1>7, <1>11
  <1>13. ASSUME NEW i \in Pending(k), off[i] = 0, i <= Complete PROVE DamageInv'
    <2> DEFINE m == sent[i]
               l == Line(m)
    <2>1. /\ i \in 1 .. Len(sent) /\ m \in Message /\ LineRead(i) = Len(l)
          /\ LineRead(i) \in Nat /\ LineRead(i) >= 1
      BY <1>9, <1>13, LineReadIs
    <2>2. \A j \in 1 .. Len(l) : buffer[j] = l[j]
      <3>1. \A j \in 1 .. LineRead(i) : buffer[0 + j] = stream[StartOf(ends, i - 1) + j]
        BY <1>9, <1>13
      <3>2. \A j \in 1 .. Len(l) : stream[StartOf(ends, i - 1) + j] = l[j]
        BY <2>1, LineLies DEF WireInv, ReadInv
      <3>3. QED
        BY <2>1, <3>1, <3>2
    <2>3. t = LineRead(i) /\ SubSeq(buffer, 1, t - 1) = ToString(m)
      <3>1. Len(l) <= Len(buffer)
        BY <1>3, <1>9, <1>13, <2>1
      <3>2. QED
        BY <1>3, <2>1, <2>2, <3>1, FirstLine DEF WireInv, t
    <2>4. i \in 0 .. Complete /\ k <= i
      BY <1>3, <1>9, <1>13
    <2>5. ASSUME NEW j \in Pending(i) PROVE off[j] >= t
      <3>1. j \in Pending(k) /\ i < j
        BY <1>3, <2>4, <2>5 DEF Pending
      <3>2. off[j] \in Nat /\ off[i] + LineRead(i) <= off[j]
        BY <1>9, <3>1
      <3>3. QED
        BY <1>13, <2>1, <2>3, <3>2
    <2>6. ASSUME NEW x \in CleanTo(i) PROVE x \in C \/ x = i
      <3>1. x \in 1 .. i /\ x \notin spoiled /\ Sound(sent[x])
        BY <2>6 DEF CleanTo
      <3>2. CASE x <= k
        BY <1>3, <3>1, <3>2 DEF C, CleanTo
      <3>3. CASE k < x /\ x < i
        <4>1. x \in Pending(k) /\ x <= Complete
          BY <1>3, <2>4, <3>1, <3>3 DEF Pending
        <4>2. off[x] \in Nat /\ LineRead(x) \in Nat /\ LineRead(x) >= 1 /\ off[x] + LineRead(x) <= off[i]
          BY <1>9, <3>3, <4>1
        <4>3. QED
          BY <1>13, <4>2
      <3>4. QED
        BY <1>3, <2>1, <3>1, <3>2, <3>3
    <2>7. C \subseteq 1 .. k /\ i \notin C /\ \A x \in C : x < i
      BY <1>3, <1>9 DEF C, CleanTo
    <2>8. C \subseteq CleanTo(i)
      BY <1>3, <2>4 DEF C, CleanTo
    <2>9. Arrived(CleanTo(i))'
      <3> DEFINE D == CleanTo(i)
      <3>1. CleanTo(i)' = D
        BY <1>8, <2>4
      <3>2. CASE ~Sound(m)
        <4>1. D = C
          BY <2>6, <2>8, <3>2 DEF CleanTo
        <4>2. QED
          BY <1>11, <1>12, <3>1, <4>1 DEF Arrived
      <3>3. CASE Sound(m)
        <4>1. Parse(SubSeq(buffer, 1, t - 1)) = Expected(m) /\ Expected(m) # NoMessage
          BY <2>1, <2>3, <3>3, RoundTrip
        <4>2. handled' = Append(handled, Expected(m))
          BY <1>6, <4>1
        <4>3. Len(handled') = Len(handled) + 1 /\ handled'[Len(handled) + 1] = Expected(m)
          BY <1>3, <4>2
        <4> DEFINE at2 == [x \in D |-> IF x = i THEN Len(handled) + 1 ELSE at[x]]
        <4>4. \A x \in D : x # i => x \in C
          BY <2>6
        <4> HIDE DEF D
        <4>5. \A x \in D : /\ x # i => x \in C /\ at2[x] = at[x] /\ at[x] \in 1 .. Len(handled)
                           /\ x = i => at2[x] = Len(handled) + 1
          BY <1>11, <4>4
        <4>6. at2 \in [D -> 1 .. Len(handled')]
          BY <1>3, <4>3, <4>5
        <4> HIDE DEF at2
        <4>7. ASSUME NEW x \in D, NEW y \in D, x < y PROVE at2[x] < at2[y]
          <5>1. CASE y = i
            <6>1. x # i
              BY <2>1, <4>7, <5>1
            <6>2. QED
              BY <1>3, <4>5, <4>7, <5>1, <6>1
          <5>2. CASE y # i
            <6>0. y \in C
              BY <4>5, <4>7, <5>2
            <6>1. y \in C /\ y < i /\ y \in Nat
              BY <2>7, <6>0
            <6>2. x # i
              BY <2>1, <4>7, <6>1
            <6>3. QED
              BY <1>11, <4>5, <4>7, <5>2, <6>2
          <5>3. QED
            BY <5>1, <5>2
        <4>8. ASSUME NEW x \in D PROVE handled'[at2[x]] = Expected(sent'[x])
          <5>1. CASE x = i
            BY <1>3, <4>3, <4>5, <4>8, <5>1
          <5>2. CASE x # i
            BY <1>12, <4>5, <4>8, <5>2
          <5>3. QED
            BY <5>1, <5>2
        <4>9. QED
          BY <3>1, <4>6, <4>7, <4>8 DEF Arrived
      <3>4. QED
        BY <3>2, <3>3
    <2> HIDE DEF m, l
    <2>10. QED
      BY <1>10, <2>4, <2>5, <2>9
  <1>14. CASE \A i \in Pending(k) : off[i] = 0 => ~(i <= Complete)
    <2>1. ASSUME NEW i \in Pending(k) PROVE off[i] >= t
      <3>1. CASE off[i] = 0
        <4>1. i = Complete + 1 /\ i \in 1 .. Complete + 1
          BY <1>3, <1>9, <1>14, <2>1, <3>1
        <4>2. t \in 1 .. LineRead(i) /\ 0 + t = t
          BY <1>3, <1>4, <1>9, <2>1, <3>1, <4>1
        <4>3. stream[StartOf(ends, i - 1) + t] = Newline
          <5>1. \A j \in 1 .. LineRead(i) : buffer[0 + j] = stream[StartOf(ends, i - 1) + j]
            BY <1>9, <2>1, <3>1
          <5>2. QED
            BY <1>4, <4>2, <5>1
        <4>4. i <= Complete
          BY <4>1, <4>2, <4>3, LineReadIs
        <4>5. QED
          BY <1>3, <4>1, <4>4
      <3>2. CASE off[i] # 0
        <4>1. off[i] \in 1 .. Len(buffer) /\ buffer[off[i]] = Newline
          BY <1>3, <1>9, <2>1, <3>2
        <4>2. QED
          BY <1>3, <1>4, <4>1
      <3>3. QED
        BY <3>1, <3>2
    <2>2. Arrived(CleanTo(k))'
      BY <1>8, <1>11, <1>12 DEF Arrived, C
    <2>3. k \in 0 .. Complete /\ k <= k
      BY <1>3
    <2>4. QED
      BY <1>10, <2>1, <2>2, <2>3
  <1>15. QED
    BY <1>13, <1>14

\* What onRead appends: the chunk, then perhaps more; a chunk whose last word,
\* no newline, is another; or only the g words in front of a zero byte.
LEMMA ChunkRead ==
  ASSUME WireInv, OnRead
  PROVE  \E n \in 1 .. Len(stream) - pos : \E read \in Seq(Word) :
           /\ pos' = pos + n /\ Len(read) = Len(buffer) + n
           /\ \A i \in 1 .. Len(buffer) : read[i] = buffer[i]
           /\ \A i \in 1 .. n : read[Len(buffer) + i] = stream[pos + i]
           /\ \/ buffer' = read /\ spoiled' = spoiled
              \/ \E g \in 0 .. n :
                   /\ spoiled' = spoiled \cup {LineAt(p) : p \in pos + g .. pos + n}
                   /\ Len(buffer) + g <= Len(buffer')
                   /\ \A i \in 1 .. Len(buffer) + g :
                        buffer'[i] = read[i] \/ (i = Len(read) /\ read[i] # Newline)
  <1>1. PICK n \in 1 .. Len(stream) - pos : pos' = pos + n /\ (ReadClean(n) \/ ReadMore(n) \/ ReadShort(n))
    BY DEF OnRead
  <1> DEFINE part == SubSeq(stream, pos + 1, pos + n)
             read == buffer \o part
  <1>2. /\ stream \in Seq(Word) /\ pos \in Nat /\ Len(stream) \in Nat /\ n \in Nat /\ n >= 1
        /\ buffer \in Seq(Word) /\ Len(buffer) \in Nat /\ pos + n <= Len(stream)
    BY <1>1, LenProperties DEF WireInv, WireType, TypeOK
  <1>3. part \in Seq(Word) /\ Len(part) = n /\ \A i \in 1 .. n : part[i] = stream[pos + i]
    BY <1>2, Front
  <1>4. ReadClean(n) => buffer' = read /\ spoiled' = spoiled
    BY DEF ReadClean
  <1>5. ReadMore(n) => /\ spoiled' = spoiled \cup {LineAt(pos + n)}
                       /\ \/ \E junk \in {<<Junk>>, <<Newline>>, <<Junk, Newline>>} : buffer' = read \o junk
                          \/ /\ read[Len(read)] # Newline
                             /\ buffer' = [read EXCEPT ![Len(read)] = Junk]
    BY DEF ReadMore
  <1> HIDE DEF part
  <1>6. /\ read \in Seq(Word) /\ Len(read) = Len(buffer) + n
        /\ \A i \in 1 .. Len(buffer) : read[i] = buffer[i]
        /\ \A i \in 1 .. n : read[Len(buffer) + i] = stream[pos + i]
    <2>1. /\ read \in Seq(Word) /\ Len(read) = Len(buffer) + Len(part)
          /\ \A i \in 1 .. Len(buffer) : read[i] = buffer[i]
          /\ \A i \in 1 .. Len(part) : read[Len(buffer) + i] = part[i]
      <3>1. buffer \in Seq(Word) /\ part \in Seq(Word)
        BY <1>2, <1>3
      <3>2. QED
        BY ONLY <3>1, Concat
    <2>2. QED
      BY <1>3, <2>1
  <1> HIDE DEF read
  <1>7. Len(read) \in Nat
    BY <1>2, <1>6
  <1>8. ASSUME NEW junk \in {<<Junk>>, <<Newline>>, <<Junk, Newline>>}, buffer' = read \o junk
        PROVE  Len(read) <= Len(buffer') /\ \A i \in 1 .. Len(read) : buffer'[i] = read[i]
    <2>1. junk \in Seq(Word) /\ Len(junk) \in Nat
      <3>1. Junk \in Word /\ Newline \in Word
        BY DEF Word, Mark
      <3>2. junk = <<Junk>> \/ junk = <<Newline>> \/ junk = <<Junk, Newline>>
        BY <1>8
      <3>3. <<Junk>> \in Seq(Word) /\ <<Newline>> \in Seq(Word) /\ <<Junk, Newline>> \in Seq(Word)
        BY <3>1
      <3>4. junk \in Seq(Word)
        BY <3>2, <3>3
      <3>5. QED
        BY <3>4, LenProperties
    <2>2. /\ Len(read \o junk) = Len(read) + Len(junk)
          /\ \A i \in 1 .. Len(read) : (read \o junk)[i] = read[i]
      <3>1. read \in Seq(Word) /\ junk \in Seq(Word)
        BY <1>6, <2>1
      <3>2. QED
        BY ONLY <3>1, Concat
    <2>3. Len(read) <= Len(read) + Len(junk)
      BY ONLY <1>7, <2>1
    <2>4. buffer' = read \o junk
      BY <1>8
    <2>5. Len(read) <= Len(buffer')
      BY ONLY <2>2, <2>3, <2>4
    <2>6. \A i \in 1 .. Len(read) : buffer'[i] = read[i]
      BY ONLY <2>2, <2>4
    <2>7. QED
      BY <2>5, <2>6
  <1>9. ASSUME read[Len(read)] # Newline, buffer' = [read EXCEPT ![Len(read)] = Junk]
        PROVE  /\ Len(read) <= Len(buffer')
               /\ \A i \in 1 .. Len(read) : buffer'[i] = read[i] \/ (i = Len(read) /\ read[i] # Newline)
    <2>1. read \in [1 .. Len(read) -> Word]
      BY <1>6, LenProperties
    <2>2. DOMAIN buffer' = 1 .. Len(read) /\ \A i \in 1 .. Len(read) : i # Len(read) => buffer'[i] = read[i]
      BY <1>9, <2>1
    <2>3. Junk \in Word
      BY DEF Word, Mark
    <2>4. Len(buffer') = Len(read)
      <3>1. buffer' \in Seq(Word)
        BY <1>6, <1>7, <1>9, <2>3
      <3>2. QED
        BY <1>7, <2>2, <3>1, LenProperties
    <2>5. Len(read) <= Len(buffer')
      BY <1>7, <2>4
    <2>6. \A i \in 1 .. Len(read) : buffer'[i] = read[i] \/ (i = Len(read) /\ read[i] # Newline)
      BY <1>9, <2>2
    <2>7. QED
      BY <2>5, <2>6
  <1>10. ASSUME ReadMore(n)
         PROVE  \E g \in 0 .. n :
           /\ spoiled' = spoiled \cup {LineAt(p) : p \in pos + g .. pos + n}
           /\ Len(buffer) + g <= Len(buffer')
           /\ \A i \in 1 .. Len(buffer) + g :
                buffer'[i] = read[i] \/ (i = Len(read) /\ read[i] # Newline)
    <2>1. /\ spoiled' = spoiled \cup {LineAt(pos + n)}
          /\ Len(read) <= Len(buffer')
          /\ \A i \in 1 .. Len(read) : buffer'[i] = read[i] \/ (i = Len(read) /\ read[i] # Newline)
      BY <1>5, <1>8, <1>9, <1>10
    <2>2. pos + n .. pos + n = {pos + n} /\ n \in 0 .. n
      BY <1>2
    <2>3. {LineAt(p) : p \in pos + n .. pos + n} = {LineAt(pos + n)}
      BY <2>2
    <2>4. Len(buffer) + n = Len(read)
      BY <1>6
    <2>5. QED
      BY <2>1, <2>2, <2>3, <2>4
  <1>11. ASSUME ReadShort(n)
         PROVE  \E g \in 0 .. n :
           /\ spoiled' = spoiled \cup {LineAt(p) : p \in pos + g .. pos + n}
           /\ Len(buffer) + g <= Len(buffer')
           /\ \A i \in 1 .. Len(buffer) + g :
                buffer'[i] = read[i] \/ (i = Len(read) /\ read[i] # Newline)
    <2>1. PICK z \in 1 .. n :
            /\ \E cut \in {<<>>, <<Junk>>} : buffer' = buffer \o SubSeq(stream, pos + 1, pos + z - 1) \o cut
            /\ spoiled' = spoiled \cup {LineAt(p) : p \in pos + z - 1 .. pos + n}
      BY <1>11 DEF ReadShort
    <2>2. PICK cut \in {<<>>, <<Junk>>} : buffer' = buffer \o SubSeq(stream, pos + 1, pos + z - 1) \o cut
      BY <2>1
    <2>3. PICK g \in Nat : g <= n /\ z = g + 1
      <3>1. z - 1 \in Nat /\ z - 1 <= n /\ z = (z - 1) + 1
        BY <1>2, <2>1
      <3>2. QED
        BY <3>1
    <2>4. pos + z - 1 = pos + g
      BY <1>2, <2>3
    <2>4a. pos + g <= Len(stream)
      BY <1>2, <2>3
    <2> DEFINE front == SubSeq(stream, pos + 1, pos + g)
    <2>5. front \in Seq(Word) /\ Len(front) = g /\ \A i \in 1 .. g : front[i] = stream[pos + i]
      BY <1>2, <2>3, <2>4a, Front
    <2>6. buffer' = (buffer \o front) \o cut
      BY <2>2, <2>4
    <2> HIDE DEF front
    <2>7. /\ buffer \o front \in Seq(Word) /\ Len(buffer \o front) = Len(buffer) + g
          /\ \A i \in 1 .. Len(buffer) : (buffer \o front)[i] = buffer[i]
          /\ \A i \in 1 .. g : (buffer \o front)[Len(buffer) + i] = stream[pos + i]
      <3>1. /\ buffer \o front \in Seq(Word) /\ Len(buffer \o front) = Len(buffer) + Len(front)
            /\ \A i \in 1 .. Len(buffer) : (buffer \o front)[i] = buffer[i]
            /\ \A i \in 1 .. Len(front) : (buffer \o front)[Len(buffer) + i] = front[i]
        <4>1. buffer \in Seq(Word) /\ front \in Seq(Word)
          BY <1>2, <2>5
        <4>2. QED
          BY ONLY <4>1, Concat
      <3>2. QED
        BY <2>5, <3>1
    <2>8. cut \in Seq(Word) /\ Len(cut) \in Nat
      <3>1. <<>> \in Seq(Word) /\ <<Junk>> \in Seq(Word)
        BY Words DEF Letter
      <3>2. cut \in Seq(Word)
        BY <2>2, <3>1
      <3>3. QED
        BY <3>2, LenProperties
    <2>9. /\ Len(buffer') = Len(buffer \o front) + Len(cut)
          /\ \A i \in 1 .. Len(buffer \o front) : buffer'[i] = (buffer \o front)[i]
      <3>1. /\ Len((buffer \o front) \o cut) = Len(buffer \o front) + Len(cut)
            /\ \A i \in 1 .. Len(buffer \o front) :
                 ((buffer \o front) \o cut)[i] = (buffer \o front)[i]
        <4>1. buffer \o front \in Seq(Word) /\ cut \in Seq(Word)
          BY <2>7, <2>8
        <4> DEFINE f == buffer \o front
        <4> HIDE DEF f
        <4>2. f \in Seq(Word) /\ cut \in Seq(Word)
          BY <4>1 DEF f
        <4>3. /\ Len(f \o cut) = Len(f) + Len(cut)
              /\ \A i \in 1 .. Len(f) : (f \o cut)[i] = f[i]
          BY ONLY <4>2, Concat
        <4>4. QED
          BY <4>3 DEF f
      <3>2. QED
        BY ONLY <2>6, <3>1
    <2>10. Len(buffer) + g <= Len(buffer')
      BY <1>2, <2>3, <2>7, <2>8, <2>9
    <2>11. ASSUME NEW i \in 1 .. Len(buffer) + g PROVE buffer'[i] = read[i]
      <3>1. buffer'[i] = (buffer \o front)[i]
        BY <2>7, <2>9
      <3>2. CASE i <= Len(buffer)
        <4>1. i \in 1 .. Len(buffer)
          BY <1>2, <2>3, <3>2
        <4>2. QED
          BY <1>6, <2>7, <3>1, <4>1
      <3>3. CASE ~(i <= Len(buffer))
        <4>1. PICK q \in 1 .. g : i = Len(buffer) + q
          <5>1. i - Len(buffer) \in 1 .. g /\ i = Len(buffer) + (i - Len(buffer))
            BY <1>2, <2>3, <3>3
          <5>2. QED
            BY <5>1
        <4>2. q \in 1 .. n
          BY <1>2, <2>3, <4>1
        <4>3. QED
          BY <1>6, <2>7, <3>1, <4>1, <4>2
      <3>4. QED
        BY <3>2, <3>3
    <2>12. g \in 0 .. n /\ spoiled' = spoiled \cup {LineAt(p) : p \in pos + g .. pos + n}
      BY <1>2, <2>1, <2>3, <2>4
    <2>13. QED
      BY <2>10, <2>11, <2>12
  <1>12. QED
    BY <1>1, <1>4, <1>6, <1>10, <1>11

Reads ==
  /\ Complete \in 0 .. Len(sent)
  /\ \A i \in 0 .. Len(sent) : StartOf(ends, i) <= pos <=> i <= Complete
  /\ \A i \in 1 .. Complete + 1 :
       /\ LineRead(i) \in Nat
       /\ StartOf(ends, i - 1) + LineRead(i) <= pos
       /\ i = Complete + 1 => StartOf(ends, i - 1) + LineRead(i) = pos
       /\ i <= Complete => /\ LineRead(i) >= 1
                           /\ StartOf(ends, i) = StartOf(ends, i - 1) + LineRead(i)
                           /\ stream[StartOf(ends, i - 1) + LineRead(i)] = Newline
                           /\ stream[StartOf(ends, i)] = Newline

LEMMA ReadsHold == WireInv => Reads
BY CompleteIs, LineReadIs DEF Reads

\* The same of the state after a step.
LEMMA LinesNext ==
  ASSUME WireInv', UNCHANGED <<stream, sent, ends>>
  PROVE  /\ Complete' \in 0 .. Len(sent)
         /\ \A i \in 0 .. Len(sent) : StartOf(ends, i) <= pos' <=> i <= Complete'
         /\ \A i \in 1 .. Complete' + 1 :
              /\ LineRead(i)' \in Nat
              /\ StartOf(ends, i - 1) + LineRead(i)' <= pos'
              /\ i = Complete' + 1 => StartOf(ends, i - 1) + LineRead(i)' = pos'
              /\ i <= Complete' => /\ LineRead(i)' >= 1
                                  /\ StartOf(ends, i) = StartOf(ends, i - 1) + LineRead(i)'
                                  /\ stream[StartOf(ends, i - 1) + LineRead(i)'] = Newline
                                  /\ stream[StartOf(ends, i)] = Newline
  <1>1. Reads'
    BY ReadsHold, PTL
  <1>2. QED
    BY <1>1 DEF Reads, StartOf

\* The lines that a chunk brings follow each other at its end, each behind the
\* newline of the one before.
LEMMA DamageOnRead == ASSUME WireInv, DamageInv, OnRead PROVE DamageInv'
  <1>0. /\ Complete \in Nat /\ Len(buffer) \in Nat /\ pos \in Nat /\ Len(stream) \in Nat
        /\ Complete \in 0 .. Len(sent) /\ Len(sent) \in Nat
    BY CompleteIs, LenProperties DEF WireInv, WireType, TypeOK
  <1>1. PICK k \in Nat : /\ k <= Complete
                         /\ \E off \in [Pending(k) -> Nat] :
                              /\ \A i \in Pending(k) : off[i] <= Len(buffer)
                              /\ Placed(k, off) /\ Arrived(CleanTo(k))
    <2>1. PICK k \in 0 .. Complete : \E off \in [Pending(k) -> 0 .. Len(buffer)] :
            Placed(k, off) /\ Arrived(CleanTo(k))
      BY DEF DamageInv
    <2>2. PICK off \in [Pending(k) -> 0 .. Len(buffer)] : Placed(k, off) /\ Arrived(CleanTo(k))
      BY <2>1
    <2>3. off \in [Pending(k) -> Nat] /\ \A i \in Pending(k) : off[i] <= Len(buffer)
      BY <1>0, <2>2
    <2>4. k \in Nat /\ k <= Complete
      BY <1>0, <2>1
    <2>5. QED
      BY <2>2, <2>3, <2>4
  <1>2. PICK off \in [Pending(k) -> Nat] : /\ \A i \in Pending(k) : off[i] <= Len(buffer)
                                           /\ Placed(k, off) /\ Arrived(CleanTo(k))
    BY <1>1
  <1>3. PICK n \in Nat : n >= 1 /\ \E read \in Seq(Word) :
          /\ pos' = pos + n /\ Len(read) = Len(buffer) + n
          /\ \A i \in 1 .. Len(buffer) : read[i] = buffer[i]
          /\ \A i \in 1 .. n : read[Len(buffer) + i] = stream[pos + i]
          /\ \/ buffer' = read /\ spoiled' = spoiled
             \/ \E g \in 0 .. n :
                  /\ spoiled' = spoiled \cup {LineAt(p) : p \in pos + g .. pos + n}
                  /\ Len(buffer) + g <= Len(buffer')
                  /\ \A i \in 1 .. Len(buffer) + g :
                       buffer'[i] = read[i] \/ (i = Len(read) /\ read[i] # Newline)
    <2>1. PICK n \in 1 .. Len(stream) - pos : \E read \in Seq(Word) :
            /\ pos' = pos + n /\ Len(read) = Len(buffer) + n
            /\ \A i \in 1 .. Len(buffer) : read[i] = buffer[i]
            /\ \A i \in 1 .. n : read[Len(buffer) + i] = stream[pos + i]
            /\ \/ buffer' = read /\ spoiled' = spoiled
               \/ \E g \in 0 .. n :
                    /\ spoiled' = spoiled \cup {LineAt(p) : p \in pos + g .. pos + n}
                    /\ Len(buffer) + g <= Len(buffer')
                    /\ \A i \in 1 .. Len(buffer) + g :
                         buffer'[i] = read[i] \/ (i = Len(read) /\ read[i] # Newline)
      BY ChunkRead
    <2>2. n \in Nat /\ n >= 1
      BY <1>0
    <2>3. QED
      BY <2>1, <2>2
  <1>4. PICK read \in Seq(Word) :
          /\ pos' = pos + n /\ Len(read) = Len(buffer) + n
          /\ \A i \in 1 .. Len(buffer) : read[i] = buffer[i]
          /\ \A i \in 1 .. n : read[Len(buffer) + i] = stream[pos + i]
          /\ \/ buffer' = read /\ spoiled' = spoiled
             \/ \E g \in 0 .. n :
                  /\ spoiled' = spoiled \cup {LineAt(p) : p \in pos + g .. pos + n}
                  /\ Len(buffer) + g <= Len(buffer')
                  /\ \A i \in 1 .. Len(buffer) + g :
                       buffer'[i] = read[i] \/ (i = Len(read) /\ read[i] # Newline)
    BY <1>3
  <1> DEFINE b == Len(buffer)
             N == Len(sent)
             c == Complete
             d == Complete'
  <1>5. /\ b \in Nat /\ N \in Nat /\ pos \in Nat /\ n \in Nat /\ 1 <= n /\ Len(read) \in Nat
        /\ Len(read) = b + n /\ pos' = pos + n
        /\ UNCHANGED <<stream, handled, sent, ends>> /\ handler' = "lines"
    BY <1>0, <1>3, <1>4, LenProperties DEF OnRead
  <1>5a. /\ b \in Nat /\ N \in Nat /\ pos \in Nat /\ n \in Nat /\ 1 <= n
         /\ Len(read) \in Nat /\ Len(read) = b + n
    BY <1>5
  <1>4a. /\ \A i \in 1 .. b : read[i] = buffer[i]
         /\ \A i \in 1 .. n : read[b + i] = stream[pos + i]
    BY <1>4
  <1>6. WireInv'
    BY OnReadType, OnReadBuffer DEF WireInv
  <1>7. /\ c \in 0 .. N
        /\ \A i \in 0 .. N : StartOf(ends, i) <= pos <=> i <= c
    BY CompleteIs
  <1> HIDE DEF d
  <1>8. /\ d \in 0 .. N
        /\ \A i \in 0 .. N : StartOf(ends, i) <= pos + n <=> i <= d
        /\ \A i \in 1 .. d + 1 :
             /\ LineRead(i)' \in Nat
             /\ StartOf(ends, i - 1) + LineRead(i)' <= pos + n
             /\ i = d + 1 => StartOf(ends, i - 1) + LineRead(i)' = pos + n
             /\ i <= d => /\ LineRead(i)' >= 1
                                 /\ StartOf(ends, i) = StartOf(ends, i - 1) + LineRead(i)'
                                 /\ stream[StartOf(ends, i - 1) + LineRead(i)'] = Newline
                                 /\ stream[StartOf(ends, i)] = Newline
    <2>1. /\ d \in 0 .. N
          /\ \A i \in 0 .. N : StartOf(ends, i) <= pos' <=> i <= d
          /\ \A i \in 1 .. d + 1 :
               /\ LineRead(i)' \in Nat
               /\ StartOf(ends, i - 1) + LineRead(i)' <= pos'
               /\ i = d + 1 => StartOf(ends, i - 1) + LineRead(i)' = pos'
               /\ i <= d => /\ LineRead(i)' >= 1
                            /\ StartOf(ends, i) = StartOf(ends, i - 1) + LineRead(i)'
                            /\ stream[StartOf(ends, i - 1) + LineRead(i)'] = Newline
                            /\ stream[StartOf(ends, i)] = Newline
      BY <1>5, <1>6, LinesNext DEF d
    <2>2. pos' = pos + n
      BY <1>5
    <2>3. QED
      BY <2>1, <2>2
  <1>9. /\ \A i \in 0 .. N : StartOf(ends, i) \in Nat
        /\ \A i, j \in 0 .. N : i < j => StartOf(ends, i) < StartOf(ends, j)
    BY DEF WireInv, ReadInv, StreamInv
  <1>10. c <= d /\ c \in Nat /\ d \in Nat /\ k \in Nat /\ k <= c
    <2>1. StartOf(ends, c) <= pos /\ StartOf(ends, c) \in Nat /\ c \in 0 .. N
      BY <1>5, <1>7, <1>9
    <2>2. StartOf(ends, c) <= pos + n
      BY <1>5a, <2>1
    <2>3. QED
      BY <1>1, <1>5, <1>7, <1>8, <2>1, <2>2
  <1>11. ASSUME NEW p \in Nat, pos <= p, p <= pos + n
         PROVE  /\ LineAt(p) \in c + 1 .. d + 1
                /\ \A i \in 1 .. N : StartOf(ends, i - 1) <= p /\ ~(StartOf(ends, i) <= p) => LineAt(p) = i
    <2> DEFINE q == Cardinality({i \in 1 .. Len(ends) : ends[i] <= p})
    <2>1. q \in 0 .. N /\ \A i \in 0 .. N : StartOf(ends, i) <= p <=> i <= q
      BY LinesUpTo
    <2>2. LineAt(p) = q + 1
      BY DEF LineAt
    <2> HIDE DEF q
    <2>3. q \in Nat
      BY <1>5a, <2>1
    <2>4. c <= q
      <3>1. StartOf(ends, c) <= pos /\ StartOf(ends, c) \in Nat /\ c \in 0 .. N
        BY <1>5a, <1>7, <1>9, <1>10
      <3>2. StartOf(ends, c) <= p
        BY <1>5a, <1>11, <3>1
      <3>3. QED
        BY <2>1, <3>1, <3>2
    <2>5. q <= d
      <3>1. StartOf(ends, q) <= p /\ StartOf(ends, q) \in Nat
        BY <1>9, <2>1, <2>3
      <3>2. StartOf(ends, q) <= pos + n
        BY <1>5a, <1>11, <3>1
      <3>3. QED
        BY <1>8, <2>1, <3>2
    <2>6. ASSUME NEW i \in 1 .. N, StartOf(ends, i - 1) <= p, ~(StartOf(ends, i) <= p)
          PROVE  LineAt(p) = i
      <3>1. i \in 0 .. N /\ i - 1 \in 0 .. N /\ i \in Nat
        BY <1>5a
      <3>2. i - 1 <= q /\ ~(i <= q)
        BY <2>1, <2>6, <3>1
      <3>3. QED
        BY <2>2, <2>3, <3>1, <3>2
    <2>7. QED
      BY <1>10, <2>2, <2>3, <2>4, <2>5, <2>6
  <1>12. /\ spoiled \subseteq spoiled' /\ spoiled' \subseteq spoiled \cup (c + 1 .. d + 1)
    <2>1. CASE spoiled' = spoiled
      BY <2>1
    <2>2. ASSUME NEW g \in 0 .. n,
                 spoiled' = spoiled \cup {LineAt(p) : p \in pos + g .. pos + n}
          PROVE  spoiled \subseteq spoiled' /\ spoiled' \subseteq spoiled \cup (c + 1 .. d + 1)
      <3>1. \A p \in pos + g .. pos + n : p \in Nat /\ pos <= p /\ p <= pos + n
        BY <1>5a, <2>2
      <3>2. \A p \in pos + g .. pos + n : LineAt(p) \in c + 1 .. d + 1
        BY <1>11, <3>1
      <3>3. QED
        BY <2>2, <3>2
    <2>3. QED
      BY <1>4, <2>1, <2>2
  <1>13. ASSUME NEW i \in Pending(k)
         PROVE  /\ i \in k + 1 .. c + 1 /\ i \in 1 .. c + 1 /\ off[i] \in Nat /\ off[i] <= b
                /\ off[i] = 0 \/ buffer[off[i]] = Newline
                /\ off[i] + LineRead(i) <= b
                /\ i = c + 1 => off[i] + LineRead(i) = b
                /\ \A j \in 1 .. LineRead(i) : buffer[off[i] + j] = stream[StartOf(ends, i - 1) + j]
                /\ \A j \in Pending(k) : i < j => off[i] + LineRead(i) <= off[j]
                /\ LineRead(i) \in Nat /\ StartOf(ends, i - 1) \in Nat
                /\ i = c + 1 => StartOf(ends, i - 1) + LineRead(i) = pos
    <2>1. i \in 1 .. c + 1 /\ i \in k + 1 .. c + 1 /\ i \notin spoiled
      BY <1>10 DEF Pending
    <2>2. /\ LineRead(i) \in Nat /\ StartOf(ends, i - 1) \in Nat
          /\ i = c + 1 => StartOf(ends, i - 1) + LineRead(i) = pos
      BY <2>1, LineReadIs
    <2>3. QED
      BY <1>2, <2>1, <2>2 DEF Placed
  <1>14. ASSUME NEW i \in 1 .. c PROVE LineRead(i)' = LineRead(i)
    BY <1>5, <1>10 DEF LineRead, c, d
  <1> DEFINE P == Pending(k)'
  <1> HIDE DEF P, N, b, c
  <1>15. ASSUME NEW i \in P
         PROVE  /\ i \in k + 1 .. d + 1 /\ i \in 1 .. d + 1 /\ i \notin spoiled'
                /\ i \in Nat /\ i - 1 \in 0 .. N
                /\ i <= c + 1 => i \in Pending(k)
                /\ ~(i <= c + 1) => i - 1 \in 1 .. d /\ ~(StartOf(ends, i - 1) <= pos)
    <2>1. i \in k + 1 .. d + 1 /\ i \notin spoiled'
      BY DEF Pending, d, P
    <2>2. i <= c + 1 => i \in Pending(k)
      BY <1>10, <1>12, <2>1 DEF Pending, c
    <2>3. i \in 1 .. d + 1 /\ i \in Nat /\ i - 1 \in 0 .. N
      BY <1>5, <1>8, <1>10, <2>1
    <2>4. ~(i <= c + 1) => i - 1 \in 1 .. d /\ ~(i - 1 <= c)
      BY <1>10, <2>1, <2>3
    <2>5. QED
      BY <1>7, <2>1, <2>2, <2>3, <2>4
\* Where the lines of the chunk begin.
  <1>16. PICK new \in [P -> Nat] :
           \A i \in P : /\ new[i] <= Len(read)
                        /\ i <= c + 1 => new[i] = off[i]
                        /\ ~(i <= c + 1) => pos + new[i] = b + StartOf(ends, i - 1)
    <2> DEFINE Fits(i, o) == /\ o <= Len(read)
                             /\ i <= c + 1 => o = off[i]
                             /\ ~(i <= c + 1) => pos + o = b + StartOf(ends, i - 1)
               f == [i \in P |-> CHOOSE o \in Nat : Fits(i, o)]
    <2>1. ASSUME NEW i \in P PROVE \E o \in Nat : Fits(i, o)
      <3>1. CASE i <= c + 1
        <4>1. off[i] \in Nat /\ off[i] <= b
          BY <1>13, <1>15, <2>1, <3>1
        <4>2. off[i] <= Len(read)
          BY <1>5a, <4>1
        <4>3. QED
          BY <3>1, <4>1, <4>2
      <3>2. CASE ~(i <= c + 1)
        <4> DEFINE o == StartOf(ends, i - 1) - pos
        <4>1. /\ StartOf(ends, i - 1) \in Nat /\ ~(StartOf(ends, i - 1) <= pos)
              /\ StartOf(ends, i - 1) <= pos + n
          <5>1. i \in 1 .. d + 1 /\ i - 1 \in 0 .. N
            BY <1>15, <2>1
          <5>2. StartOf(ends, i - 1) \in Nat
            BY <1>9, <5>1
          <5>3. LineRead(i)' \in Nat /\ StartOf(ends, i - 1) + LineRead(i)' <= pos + n
            BY <1>8, <5>1
          <5>4. StartOf(ends, i - 1) <= pos + n
            BY <1>5, <5>2, <5>3
          <5>5. QED
            BY <1>15, <2>1, <3>2, <5>2, <5>4
        <4>2. o \in Nat /\ o <= n /\ pos + o = StartOf(ends, i - 1)
          BY <1>5a, <4>1
        <4> HIDE DEF o
        <4>3. b + o \in Nat /\ b + o <= Len(read) /\ pos + (b + o) = b + StartOf(ends, i - 1)
          BY <1>5a, <4>1, <4>2
        <4>4. QED
          BY <3>2, <4>3
      <3>3. QED
        BY <3>1, <3>2
    <2> HIDE DEF Fits
    <2>3. f \in [P -> Nat] /\ \A i \in P : Fits(i, f[i])
      BY <2>1
    <2> HIDE DEF f
    <2>4. QED
      BY <2>3 DEF Fits
\* They lie in the chunk as they lie in the stream.
  <1>17. ASSUME NEW i \in P
         PROVE  /\ new[i] \in Nat /\ LineRead(i)' \in Nat
                /\ new[i] = 0 \/ (new[i] \in 1 .. Len(read) /\ read[new[i]] = Newline)
                /\ new[i] + LineRead(i)' <= Len(read)
                /\ i = d + 1 => new[i] + LineRead(i)' = Len(read)
                /\ \A j \in 1 .. LineRead(i)' : read[new[i] + j] = stream[StartOf(ends, i - 1) + j]
    <2> DEFINE a == StartOf(ends, i - 1)
               r == LineRead(i)'
    <2>1. /\ i \in 1 .. d + 1 /\ i \in Nat /\ i - 1 \in 0 .. N
          /\ new[i] <= Len(read) /\ new[i] \in Nat
      BY <1>15, <1>16, <1>17
    <2>0. PICK o \in Nat : o = new[i]
      BY <2>1
    <2>2. a \in Nat /\ r \in Nat /\ a + r <= pos + n /\ (i = d + 1 => a + r = pos + n)
      BY <1>5, <1>8, <1>9, <2>1
    <2> HIDE DEF a, r
    <2> SUFFICES /\ o = 0 \/ (o \in 1 .. Len(read) /\ read[o] = Newline)
                 /\ o + r <= Len(read)
                 /\ i = d + 1 => o + r = Len(read)
                 /\ \A j \in 1 .. r : read[o + j] = stream[a + j]
      BY <2>0, <2>2 DEF a, r
    <2>3. CASE i <= c + 1
      <3>1. /\ i \in 1 .. c + 1 /\ off[i] \in Nat /\ off[i] <= b /\ o = off[i]
            /\ off[i] = 0 \/ buffer[off[i]] = Newline
            /\ off[i] + LineRead(i) <= b
            /\ i = c + 1 => off[i] + LineRead(i) = b
            /\ \A j \in 1 .. LineRead(i) : buffer[off[i] + j] = stream[a + j]
            /\ LineRead(i) \in Nat
            /\ i = c + 1 => a + LineRead(i) = pos
        BY <1>13, <1>15, <1>16, <1>17, <2>0, <2>3 DEF a
      <3>2. o = 0 \/ (o \in 1 .. Len(read) /\ read[o] = Newline)
        <4>1. o # 0 => o \in 1 .. b /\ o \in 1 .. Len(read)
          BY <1>5a, <3>1
        <4>2. QED
          BY <1>4a, <3>1, <4>1
      <3>3. CASE i <= c
        <4>1. r = LineRead(i) /\ i # d + 1
          BY <1>10, <1>14, <2>1, <3>1, <3>3 DEF r
        <4>2. o + r <= Len(read)
          BY <1>5a, <3>1, <4>1
        <4>3. ASSUME NEW j \in 1 .. r PROVE read[o + j] = stream[a + j]
          <5>0. o + r <= b
            BY <3>1, <4>1
          <5>1. o + j \in 1 .. b
            BY <1>5a, <2>2, <5>0
          <5>2. QED
            BY <1>4a, <3>1, <4>1, <5>1
        <4>4. QED
          BY <2>1, <2>2, <3>2, <4>1, <4>2, <4>3
      <3>4. CASE i = c + 1
        <4> DEFINE s == LineRead(i)
        <4>1. /\ s \in Nat /\ a + s = pos /\ o + s = b /\ o \in Nat
          BY <2>1, <3>1, <3>4
        <4>2. \A j \in 1 .. s : buffer[o + j] = stream[a + j]
          BY <3>1
        <4> HIDE DEF s
        <4>3. r <= s + n /\ (i = d + 1 => r = s + n)
          BY <1>5a, <2>2, <4>1
        <4>4. o + r <= Len(read) /\ (i = d + 1 => o + r = Len(read))
          <5>1. o + s = b /\ Len(read) = o + (s + n)
            BY <1>5a, <4>1
          <5>2. QED
            BY ONLY <1>5a, <2>2, <4>1, <4>3, <5>1
        <4>5. ASSUME NEW j \in 1 .. r PROVE read[o + j] = stream[a + j]
          <5>1. CASE j <= s
            <6>1. o + j \in 1 .. b /\ j \in 1 .. s
              BY <1>5a, <2>2, <4>1, <5>1
            <6>2. QED
              BY <1>4a, <4>2, <6>1
          <5>2. CASE ~(j <= s)
            <6>1. PICK q \in Nat : q \in 1 .. n /\ j = s + q
              <7>1. j - s \in 1 .. n /\ j = s + (j - s)
                BY <1>5a, <2>2, <4>1, <4>3, <5>2
              <7>2. QED
                BY <7>1
            <6>2. o + j = b + q /\ a + j = pos + q
              BY <1>5a, <2>2, <4>1, <6>1
            <6>3. QED
              BY <1>4a, <6>1, <6>2
          <5>3. QED
            BY <5>1, <5>2
        <4>6. QED
          BY <2>1, <2>2, <3>2, <4>4, <4>5
      <3>5. QED
        BY <1>10, <2>1, <2>3, <3>3, <3>4
    <2>4. CASE ~(i <= c + 1)
      <3>1. pos + o = b + a /\ i - 1 \in 1 .. d /\ ~(a <= pos)
        BY <1>15, <1>16, <1>17, <2>0, <2>4 DEF a
      <3>2. PICK m \in Nat : m \in 1 .. n /\ a = pos + m
        <4>1. a - pos \in 1 .. n /\ a = pos + (a - pos)
          BY <1>5a, <2>2, <3>1
        <4>2. QED
          BY <4>1
      <3>3. o = b + m /\ m + r <= n /\ (i = d + 1 => m + r = n)
        BY <1>5a, <2>1, <2>2, <3>1, <3>2
      <3>4. o \in 1 .. Len(read) /\ read[o] = Newline
        <4>1. stream[a] = Newline
          BY <1>8, <1>10, <3>1 DEF a
        <4>2. read[b + m] = stream[pos + m]
          BY <1>4a, <3>2
        <4>3. QED
          BY <1>5a, <3>2, <3>3, <4>1, <4>2
      <3>5. o + r <= Len(read) /\ (i = d + 1 => o + r = Len(read))
        BY <1>5a, <2>2, <3>3
      <3>6. ASSUME NEW j \in 1 .. r PROVE read[o + j] = stream[a + j]
        <4>1. m + j \in 1 .. n /\ o + j = b + (m + j) /\ a + j = pos + (m + j)
          BY <1>5a, <2>2, <3>2, <3>3
        <4>2. QED
          BY <1>4, <4>1 DEF b
      <3>7. QED
        BY <2>1, <2>2, <3>4, <3>5, <3>6
    <2>5. QED
      BY <2>3, <2>4
\* And one behind the other.
  <1>18. ASSUME NEW i \in P, NEW j \in P, i < j
         PROVE  new[i] + LineRead(i)' <= new[j]
    <2> DEFINE r == LineRead(i)'
    <2>1. /\ i \in 1 .. d + 1 /\ j \in 1 .. d + 1 /\ i \in Nat /\ j \in Nat
          /\ i - 1 \in 0 .. N /\ j - 1 \in 0 .. N /\ r \in Nat
          /\ new[i] \in Nat /\ new[j] \in Nat
      BY <1>15, <1>17, <1>18
    <2>0. PICK o \in Nat, u \in Nat : o = new[i] /\ u = new[j]
      BY <2>1
    <2> HIDE DEF r
    <2> SUFFICES o + r <= u
      BY <2>0 DEF r
    <2>2. CASE j <= c + 1
      <3>1. i <= c /\ i \in 1 .. c /\ i <= c + 1
        BY <1>10, <1>18, <2>1, <2>2
      <3>2. i \in Pending(k) /\ j \in Pending(k) /\ o = off[i] /\ u = off[j]
        BY <1>15, <1>16, <1>18, <2>0, <2>2, <3>1
      <3>3. off[i] + LineRead(i) <= off[j]
        BY <1>13, <1>18, <3>2
      <3>4. LineRead(i) = r
        BY <1>14, <3>1 DEF r
      <3>5. QED
        BY <3>2, <3>3, <3>4
    <2>3. CASE ~(j <= c + 1)
      <3>1. pos + u = b + StartOf(ends, j - 1) /\ ~(StartOf(ends, j - 1) <= pos)
        BY <1>15, <1>16, <1>18, <2>0, <2>3
      <3>2. /\ i <= d /\ i \in 1 .. d /\ i \in 0 .. N
            /\ (i = j - 1 \/ i < j - 1)
        BY <1>8, <1>10, <1>18, <1>5, <2>1
      <3>3. /\ StartOf(ends, i - 1) \in Nat /\ StartOf(ends, i) \in Nat /\ StartOf(ends, j - 1) \in Nat
            /\ StartOf(ends, i) = StartOf(ends, i - 1) + r
            /\ StartOf(ends, i) <= StartOf(ends, j - 1)
        <4>1. /\ StartOf(ends, i - 1) \in Nat /\ StartOf(ends, i) \in Nat /\ StartOf(ends, j - 1) \in Nat
          BY <1>9, <2>1, <3>2
        <4>2. StartOf(ends, i) = StartOf(ends, i - 1) + r
          BY <1>8, <2>1, <3>2 DEF r
        <4>3. i < j - 1 => StartOf(ends, i) < StartOf(ends, j - 1)
          BY <1>9, <2>1, <3>2
        <4>4. StartOf(ends, i) <= StartOf(ends, j - 1)
          BY <3>2, <4>1, <4>3
        <4>5. QED
          BY <4>1, <4>2, <4>4
      <3> PICK x \in Nat, z \in Nat : x = StartOf(ends, i - 1) /\ z = StartOf(ends, j - 1)
        BY <3>3
      <3>4. x + r <= z /\ pos + u = b + z /\ ~(z <= pos)
        BY <3>1, <3>3
      <3>5. CASE i <= c + 1
        <4> PICK s \in Nat : s = LineRead(i)
          BY <1>13, <1>15, <1>18, <3>5
        <4>1. /\ o + s <= b /\ (i = c + 1 => o + s = b)
              /\ i = c + 1 => x + s = pos
          BY <1>13, <1>15, <1>16, <1>18, <2>0, <3>5
        <4>2. CASE i <= c
          <5>1. r = s
            BY <1>14, <2>1, <4>2 DEF r
          <5>2. b <= u
            BY <1>5a, <3>4
          <5>3. QED
            BY <1>5a, <4>1, <5>1, <5>2
        <4>3. CASE i = c + 1
          <5>1. x + s = pos /\ o + s = b
            BY <4>1, <4>3
          <5>2. (x + s) + u = (o + s) + z
            BY <3>4, <5>1
          <5>3. r \in Nat /\ x + r <= z
            BY <2>1, <3>4
          <5>4. QED
            BY ONLY <5>2, <5>3, x \in Nat, z \in Nat, s \in Nat, o \in Nat, u \in Nat
        <4>4. QED
          BY <1>10, <2>1, <3>5, <4>2, <4>3
      <3>6. CASE ~(i <= c + 1)
        <4>1. pos + o = b + x
          BY <1>16, <1>18, <2>0, <3>6
        <4>2. /\ b \in Nat /\ pos \in Nat /\ r \in Nat
              /\ x + r <= z /\ pos + u = b + z
          BY <1>5a, <2>1, <3>4
        <4>3. o + r <= u
          BY ONLY <4>1, <4>2, x \in Nat, z \in Nat, o \in Nat, u \in Nat
        <4>4. QED
          BY <4>3
      <3>7. QED
        BY <3>5, <3>6
    <2>4. QED
      BY <2>2, <2>3
\* What more than the chunk is appended lies behind them.
  <1>19. ASSUME NEW i \in P
         PROVE  /\ new[i] = 0 \/ buffer'[new[i]] = Newline
                /\ new[i] \in 0 .. Len(buffer')
                /\ new[i] + LineRead(i)' <= Len(buffer')
                /\ i = d + 1 => new[i] + LineRead(i)' = Len(buffer')
                /\ \A j \in 1 .. LineRead(i)' : buffer'[new[i] + j] = stream'[StartOf(ends', i - 1) + j]
    <2> DEFINE r == LineRead(i)'
               a == StartOf(ends, i - 1)
    <2>1. /\ new[i] \in Nat /\ r \in Nat
          /\ new[i] = 0 \/ (new[i] \in 1 .. Len(read) /\ read[new[i]] = Newline)
          /\ new[i] + r <= Len(read)
          /\ i = d + 1 => new[i] + r = Len(read)
          /\ \A j \in 1 .. r : read[new[i] + j] = stream[a + j]
      BY <1>17, <1>19
    <2>2. stream' = stream /\ StartOf(ends', i - 1) = a
      BY <1>5
    <2> HIDE DEF r, a
    <2>3. CASE buffer' = read
      <3>1. new[i] \in 0 .. Len(buffer')
        BY <1>5a, <2>1, <2>3
      <3>2. QED
        BY <2>1, <2>2, <2>3, <3>1 DEF r
    <2>4. CASE buffer' # read
      <3>1. PICK g \in 0 .. n :
              /\ spoiled' = spoiled \cup {LineAt(p) : p \in pos + g .. pos + n}
              /\ b + g <= Len(buffer')
              /\ \A q \in 1 .. b + g : buffer'[q] = read[q] \/ (q = Len(read) /\ read[q] # Newline)
        BY <1>4, <2>4 DEF b
      <3>2. g \in Nat /\ g <= n /\ Len(buffer') \in Nat
        <4>1. Len(buffer') \in Nat
          BY <1>6, LenProperties DEF WireInv, WireType, TypeOK
        <4>2. QED
          BY <1>5a, <3>1, <4>1
      <3>3. \A p \in Nat : pos + g <= p /\ p <= pos + n => i # LineAt(p)
        <4>1. ASSUME NEW p \in Nat, pos + g <= p, p <= pos + n PROVE i # LineAt(p)
          <5>1. p \in pos + g .. pos + n
            BY <1>5a, <3>2, <4>1
          <5>2. i \notin spoiled'
            BY <1>15, <1>19
          <5>3. QED
            BY <3>1, <5>1, <5>2
        <4>2. QED
          BY <4>1
      <3>4. i <= d /\ i \in 1 .. d /\ i \in 1 .. N /\ i # d + 1 /\ i \in 1 .. d + 1 /\ i \in Nat
        <4>1. pos + n \in Nat /\ pos + g <= pos + n /\ pos <= pos + n /\ pos + n <= pos + n
          BY <1>5a, <3>2
        <4>2. d + 1 = LineAt(pos + n)
          BY <1>5 DEF LineAt, Complete, d
        <4>3. i # d + 1
          BY <3>3, <4>1, <4>2
        <4>4. i \in 1 .. d + 1 /\ i \in Nat
          BY <1>15, <1>19
        <4>5. QED
          BY <1>8, <1>10, <4>3, <4>4, <1>5a
      <3>5. r >= 1 /\ stream[a + r] = Newline /\ StartOf(ends, i) = a + r /\ a \in Nat
        <4>1. i - 1 \in 0 .. N
          BY <1>5a, <3>4
        <4>2. a \in Nat
          BY <1>9, <4>1 DEF a
        <4>3. QED
          BY <1>8, <1>10, <3>4, <4>2 DEF r, a
\* The line ends before the zero byte, for none of the lines that end behind it is left.
      <3>6. a + r <= pos + g
        <4> SUFFICES ASSUME ~(a + r <= pos + g) PROVE FALSE
          OBVIOUS
        <4>1. a + r <= pos + n
          BY <1>8, <3>4 DEF a, r
        <4>2. PICK p \in Nat : p + 1 = a + r
          <5>1. (a + r) - 1 \in Nat /\ ((a + r) - 1) + 1 = a + r
            BY <2>1, <3>5
          <5>2. QED
            BY <5>1
        <4>3. /\ pos + g <= p /\ p <= pos + n /\ pos <= p
              /\ a <= p /\ ~(a + r <= p)
          BY <1>5a, <2>1, <3>2, <3>5, <4>1, <4>2
        <4>4. StartOf(ends, i - 1) <= p /\ ~(StartOf(ends, i) <= p)
          BY <3>5, <4>3 DEF a
        <4>5. LineAt(p) = i
          BY <1>11, <3>4, <4>3, <4>4
        <4>6. QED
          BY <3>3, <4>3, <4>5
      <3>7. new[i] + r <= b + g
        <4> PICK o \in Nat : o = new[i]
          BY <2>1
        <4> SUFFICES o + r <= b + g
          OBVIOUS
        <4>1. CASE i <= c
          <5>1. i \in 1 .. c /\ i <= c + 1
            BY <1>10, <3>4, <4>1
          <5>2. i \in Pending(k) /\ o = off[i]
            BY <1>15, <1>16, <1>19, <5>1
          <5>3. off[i] + LineRead(i) <= b /\ LineRead(i) = r
            BY <1>13, <1>14, <5>1, <5>2 DEF r
          <5>4. QED
            BY <1>5a, <2>1, <3>2, <5>2, <5>3
        <4>2. CASE i = c + 1
          <5>1. i <= c + 1
            BY <1>10, <3>4, <4>2
          <5>2. i \in Pending(k) /\ o = off[i]
            BY <1>15, <1>16, <1>19, <5>1
          <5> PICK s \in Nat : s = LineRead(i)
            BY <1>13, <5>2
          <5>3. o + s = b /\ a + s = pos
            BY <1>13, <4>2, <5>2 DEF a
          <5>4. b \in Nat /\ pos \in Nat /\ g \in Nat /\ r \in Nat /\ a \in Nat
            BY <1>5a, <2>1, <3>2, <3>5
          <5>5. QED
            BY ONLY <3>6, <5>3, <5>4, o \in Nat, s \in Nat
        <4>3. CASE ~(i <= c + 1)
          <5>1. pos + o = b + a
            BY <1>16, <1>19, <4>3 DEF a
          <5>2. b \in Nat /\ pos \in Nat /\ g \in Nat /\ r \in Nat /\ a \in Nat
            BY <1>5a, <2>1, <3>2, <3>5
          <5>3. QED
            BY ONLY <3>6, <5>1, <5>2, o \in Nat
        <4>4. QED
          BY <1>10, <3>4, <4>1, <4>2, <4>3
      <3>8. new[i] = 0 \/ buffer'[new[i]] = Newline
        <4>1. new[i] # 0 => new[i] \in 1 .. b + g
          BY <1>5a, <2>1, <3>2, <3>7
        <4>2. QED
          BY <2>1, <3>1, <4>1
      <3>9. ASSUME NEW j \in 1 .. r PROVE buffer'[new[i] + j] = stream[a + j]
        <4>1. /\ new[i] + j \in 1 .. Len(read) /\ new[i] + j \in 1 .. b + g
              /\ read[new[i] + j] = stream[a + j]
          BY <1>5a, <2>1, <3>2, <3>7
        <4>2. CASE j = r
          BY <3>1, <3>5, <4>1, <4>2
        <4>3. CASE j # r
          <5>1. new[i] + j # Len(read)
            BY <1>5a, <2>1, <4>3
          <5>2. QED
            BY <3>1, <4>1, <5>1
        <4>4. QED
          BY <4>2, <4>3
      <3>10. new[i] \in 0 .. Len(buffer') /\ new[i] + r <= Len(buffer')
        <4>1. b + g <= Len(buffer')
          BY <3>1
        <4>2. QED
          BY <1>5a, <2>1, <3>2, <3>7, <4>1
      <3>11. QED
        BY <2>2, <3>4, <3>8, <3>9, <3>10 DEF r
    <2>5. QED
      BY <2>3, <2>4
  <1>20. Placed(k, new)'
    BY <1>18, <1>19 DEF Placed, P, d
  <1>21. new \in [Pending(k)' -> 0 .. Len(buffer')]
    BY <1>16, <1>19 DEF P
  <1>22. Arrived(CleanTo(k))'
    <2>1. CleanTo(k)' = CleanTo(k)
      <3>1. \A i \in 1 .. k : i \notin c + 1 .. d + 1
        BY <1>10
      <3>2. \A i \in 1 .. k : i \in spoiled' <=> i \in spoiled
        BY <1>12, <3>1
      <3>3. QED
        BY <1>5, <3>2 DEF CleanTo
    <2>2. QED
      BY <1>2, <1>5, <2>1 DEF Arrived
  <1>23. spoiled' \subseteq 1 .. d + 1 /\ k \in 0 .. d /\ handler' # "idle"
    <2>1. spoiled \subseteq 1 .. c + 1
      BY DEF DamageInv, c
    <2>2. QED
      BY <1>5, <1>10, <1>12, <2>1
  <1>24. QED
    BY <1>20, <1>21, <1>22, <1>23 DEF DamageInv, d

LEMMA DamageStep == WireInv /\ DamageInv /\ [Next]_vars => DamageInv'
  <1>1. ASSUME WireInv, DamageInv, NEW m \in Written, Write(m) PROVE DamageInv'
    <2>1. UNCHANGED <<pos, spoiled, buffer, handled, handler>>
      BY <1>1 DEF Write
    <2>2. handler' = "idle" => ~HasLine
      BY <1>1, <2>1 DEF DamageInv
    <2>3. QED
      BY <1>1, <2>1, <2>2, DamageStays
  <1>2. ASSUME WireInv, DamageInv, LastLine \/ UNCHANGED vars PROVE DamageInv'
    <2>1. UNCHANGED <<pos, spoiled, buffer, handled, stream, sent, ends>>
      BY <1>2 DEF LastLine, vars, history
    <2>2. handler' = "idle" => ~HasLine
      BY <1>2 DEF LastLine, vars, DamageInv
    <2>3. QED
      BY <1>2, <2>1, <2>2, DamageStays
  <1>3. QED
    BY <1>1, <1>2, DamageOnRead, DamageNextLine DEF Next

\* Between two chunks no line that is all in waits in the buffer.
LEMMA DamageDone == WireInv /\ DamageInv => DamageIsLocal
  <1> SUFFICES ASSUME WireInv, DamageInv, handler = "idle" PROVE Arrived(Clean)
    BY DEF DamageIsLocal
  <1>1. PICK k \in 0 .. Complete : \E off \in [Pending(k) -> 0 .. Len(buffer)] :
          Placed(k, off) /\ Arrived(CleanTo(k))
    BY DEF DamageInv
  <1>2. PICK off \in [Pending(k) -> 0 .. Len(buffer)] : Placed(k, off) /\ Arrived(CleanTo(k))
    BY <1>1
  <1>3. Complete \in Nat /\ Len(buffer) \in Nat
    BY CompleteIs, LenProperties DEF WireInv, WireType, TypeOK
  <1>4. ASSUME NEW i \in Pending(k), i <= Complete PROVE FALSE
    <2>1. i \in 1 .. Complete + 1
      BY <1>3 DEF Pending
    <2>2. LineRead(i) \in Nat /\ LineRead(i) >= 1 /\ stream[StartOf(ends, i - 1) + LineRead(i)] = Newline
      BY <1>4, <2>1, LineReadIs
    <2>3. /\ off[i] \in 0 .. Len(buffer) /\ off[i] + LineRead(i) <= Len(buffer)
          /\ \A j \in 1 .. LineRead(i) : buffer[off[i] + j] = stream[StartOf(ends, i - 1) + j]
      BY <1>2, <1>4 DEF Placed
    <2>4. LineRead(i) \in 1 .. LineRead(i) /\ off[i] + LineRead(i) \in 1 .. Len(buffer)
      BY <1>3, <2>2, <2>3
    <2>5. buffer[off[i] + LineRead(i)] = Newline
      BY <2>2, <2>3, <2>4
    <2>6. QED
      BY <2>4, <2>5 DEF DamageInv, HasLine
  <1>5. ASSUME NEW i \in 1 .. Complete, i \notin spoiled PROVE i \in 1 .. k
    BY <1>3, <1>4, <1>5 DEF Pending
  <1>6. 1 .. k \subseteq 1 .. Complete
    BY <1>3
  <1>7. Clean = CleanTo(k)
    BY <1>5, <1>6 DEF Clean, CleanTo
  <1>8. QED
    BY <1>2, <1>7

\* Memory behind a chunk spoils the line it falls into and no other, and so
\* does a message whose names are not words; a zero byte in a chunk spoils the
\* lines from its own to the one the next chunk begins in.  Every other message
\* still arrives, and they do in the order they were written in
\* (net_client.cpp:164-168, 177-192, 208-211, 266).
THEOREM DamageCorrect == Spec => []DamageIsLocal
  <1>1. Init => WireInv /\ DamageInv
    BY TypeInit, ReadInit, DamageInit DEF WireInv
  <1>2. WireInv /\ DamageInv /\ [Next]_vars => (WireInv /\ DamageInv)'
    BY TypeStep, ReadStep, DamageStep DEF WireInv
  <1>3. QED
    BY <1>1, <1>2, DamageDone, PTL DEF Spec
=============================================================================
