-------------------------------- MODULE Wire --------------------------------
(***************************************************************************)
(* One direction of a connection as text: messages are written as lines of *)
(* words (message.cpp), TCP cuts the lines into chunks, and the reader     *)
(* collects chunks in myReceiveBuffer and takes lines out of it            *)
(* (net_client.cpp).  PeboNet.tla has a queue of messages in its place.    *)
(*                                                                         *)
(* A chunk is appended up to the first zero byte in memory that nobody     *)
(* zeroed, not up to its own end: whatever lies behind it may come along,  *)
(* and what lies behind a zero byte of its own is dropped.                 *)
(***************************************************************************)
EXTENDS Naturals, Sequences, FiniteSets

CONSTANTS PB01, PEER, QUERY, \* the words of the protocol
          Newline,           \* the terminator of a line
          Junk,              \* a word that lay in the memory behind a chunk, or lost letters
          Zero,              \* a word with a zero byte in it
          Name,              \* the words of services and endpoints
          Width,             \* bits of a timestamp_t, and of an int
          MaxWrites, MaxJunk \* bounds: messages written, lines spoiled when more comes along

Mark == {PB01, PEER, QUERY, Newline, Junk}
Time == 0 .. 2 ^ Width - 1
MaxInt == 2 ^ (Width - 1) - 1

ASSUME WidthAssumption == Width \in Nat \ {0}
ASSUME WordAssumption == /\ PEER # QUERY /\ Junk \notin {PB01, PEER, QUERY}
                         /\ Newline \notin {PB01, PEER, QUERY, Junk} \cup Name
                         /\ (Mark \cup Name) \cap Nat = {}
                         /\ Zero \in Name \ Mark
ASSUME BoundAssumption == MaxWrites \in Nat

\* What a connection carries: a time stands for its decimal digits.
Word == Mark \cup Name \cup Nat

\* The application gives any string for a service or an endpoint: in words,
\* any number of them.
PeerUpdateMessage == [type : {PEER}, service : Seq(Name), endpoint : Seq(Name), lastSeen : Time]
QueryMessage == [type : {QUERY}, service : Seq(Name)]
Message == PeerUpdateMessage \cup QueryMessage

\* What the reader makes of lines: names of one word, whatever the word.
Received == [type : {PEER}, service : Seq(Word), endpoint : Seq(Word), lastSeen : Nat]
            \cup [type : {QUERY}, service : Seq(Word)]

CONSTANT Written  \* the messages that may be written
ASSUME WrittenAssumption == Written \subseteq Message

VARIABLES stream,  \* all that was written
          pos,     \* how much of it was read
          buffer,  \* myReceiveBuffer
          handler, \* idle, or in the loop of doProcessReceivedBuffer
          handled, \* what msgFromPeboPeer was given
          sent,    \* history: the messages written
          ends,    \* history: where in stream each of them ends
          spoiled  \* history: the lines that lost something, or that something was put into or before

vars == <<stream, pos, buffer, handler, handled, sent, ends, spoiled>>
history == <<sent, ends, spoiled>>

-----------------------------------------------------------------------------
(* Text.                                                                   *)

\* toString, in words.
ToString(m) == IF m.type = PEER THEN <<PB01, PEER>> \o m.service \o m.endpoint \o <<m.lastSeen>>
                                ELSE <<PB01, QUERY>> \o m.service

Line(m) == ToString(m) \o <<Newline>>

\* stoi: what is no number, or too large for an int, becomes 0.
Stoi(w) == IF w \in Nat /\ w <= MaxInt THEN w ELSE 0

NoMessage == [type |-> Junk]

\* The message made of the words of a line, if there are enough of them.
Parse(words) ==
  LET kind == IF Len(words) >= 2 /\ words[1] = PB01 THEN words[2] ELSE Junk
  IN  CASE kind = PEER /\ Len(words) >= 5
             -> [type |-> PEER, service |-> <<words[3]>>, endpoint |-> <<words[4]>>,
                 lastSeen |-> Stoi(words[5])]
        [] kind = QUERY /\ Len(words) >= 3 -> [type |-> QUERY, service |-> <<words[3]>>]
        [] OTHER -> NoMessage

-----------------------------------------------------------------------------

Init == /\ stream = <<>> /\ pos = 0
        /\ buffer = <<>>
        /\ handler = "idle"
        /\ handled = <<>>
        /\ sent = <<>> /\ ends = <<>>
        /\ spoiled = {}

\* sendMessage: the line enters the stream whole.
Write(m) ==
  /\ Len(sent) < MaxWrites
  /\ stream' = stream \o Line(m)
  /\ sent' = Append(sent, m)
  /\ ends' = Append(ends, Len(stream'))
  /\ UNCHANGED <<pos, buffer, handler, handled, spoiled>>

\* The line that the next word of the stream belongs to.
LineAt(p) == Cardinality({i \in 1 .. Len(ends) : ends[i] <= p}) + 1

\* A chunk ends between two words, and a zero byte follows it.
ReadClean(n) ==
  /\ buffer' = buffer \o SubSeq(stream, pos + 1, pos + n)
  /\ UNCHANGED spoiled

\* Something else follows: words of their own, with or without a newline, or
\* letters that turn the last word, cut in the middle or not, into another.
ReadMore(n) ==
  LET read == buffer \o SubSeq(stream, pos + 1, pos + n)
      last == read[Len(read)]
  IN  /\ Cardinality(spoiled) < MaxJunk
      /\ \/ \E junk \in {<<Junk>>, <<Newline>>, <<Junk, Newline>>} : buffer' = read \o junk
         \/ last # Newline /\ buffer' = [read EXCEPT ![Len(read)] = Junk]
      /\ spoiled' = spoiled \cup {LineAt(pos + n)}

\* A zero byte in the chunk: what lies before it is appended, with the first
\* letters of its word if there are any.  The lines in the rest are lost, and
\* the next chunk continues what is left of the first of them.
ReadShort(n) ==
  \E z \in 1 .. n :
    /\ stream[pos + z] = Zero
    /\ \A i \in 1 .. z - 1 : stream[pos + i] # Zero
    /\ \E cut \in {<<>>, <<Junk>>} : buffer' = buffer \o SubSeq(stream, pos + 1, pos + z - 1) \o cut
    /\ spoiled' = spoiled \cup {LineAt(p) : p \in pos + z - 1 .. pos + n}

\* onRead appends a chunk, at most the buffer of alloc_buffer and more often
\* less, and enters doProcessReceivedBuffer.
OnRead ==
  /\ handler = "idle"
  /\ \E n \in 1 .. Len(stream) - pos :
       /\ pos' = pos + n
       /\ \/ /\ \A i \in 1 .. n : stream[pos + i] # Zero
             /\ ReadClean(n) \/ ReadMore(n)
          \/ ReadShort(n)
  /\ handler' = "lines"
  /\ UNCHANGED <<stream, handled, sent, ends>>

HasLine == \E i \in 1 .. Len(buffer) : buffer[i] = Newline
Terminator == CHOOSE i \in 1 .. Len(buffer) :
                buffer[i] = Newline /\ \A j \in 1 .. i - 1 : buffer[j] # Newline

\* Mutation: a line that is not understood is handled all the same.
NextLineAll ==
  /\ handler = "lines"
  /\ HasLine
  /\ buffer' = SubSeq(buffer, Terminator + 1, Len(buffer))
  /\ handled' = Append(handled, Parse(SubSeq(buffer, 1, Terminator - 1)))
  /\ UNCHANGED <<stream, pos, handler, history>>

\* Mutation: a line that is not understood takes the rest of the buffer along.
NextLineClears ==
  /\ handler = "lines"
  /\ HasLine
  /\ LET m == Parse(SubSeq(buffer, 1, Terminator - 1))
     IN  /\ handled' = IF m = NoMessage THEN handled ELSE Append(handled, m)
         /\ buffer' = IF m = NoMessage THEN <<>>
                      ELSE SubSeq(buffer, Terminator + 1, Len(buffer))
  /\ UNCHANGED <<stream, pos, handler, history>>

\* One round of the loop of doProcessReceivedBuffer.
NextLine ==
  /\ handler = "lines"
  /\ HasLine
  /\ buffer' = SubSeq(buffer, Terminator + 1, Len(buffer))
  /\ LET m == Parse(SubSeq(buffer, 1, Terminator - 1))
     IN  handled' = IF m = NoMessage THEN handled ELSE Append(handled, m)
  /\ UNCHANGED <<stream, pos, handler, history>>

\* Mutation: one line per chunk.
LastLineAny ==
  /\ handler = "lines"
  /\ handler' = "idle"
  /\ UNCHANGED <<stream, pos, buffer, handled, history>>

\* No line is left; onRead returns.
LastLine ==
  /\ handler = "lines"
  /\ ~HasLine
  /\ handler' = "idle"
  /\ UNCHANGED <<stream, pos, buffer, handled, history>>

Next == (\E m \in Written : Write(m)) \/ OnRead \/ NextLine \/ LastLine

Spec == Init /\ [][Next]_vars

-----------------------------------------------------------------------------
(* Properties.                                                             *)

\* The variables have their types; the reader is not ahead of the writer, and
\* a line that is no message is handed to nobody.
TypeOK ==
  /\ stream \in Seq(Word) /\ pos \in 0 .. Len(stream)
  /\ buffer \in Seq(Word)
  /\ handler \in {"idle", "lines"}
  /\ handled \in Seq(Received)
  /\ sent \in Seq(Written) /\ Len(ends) = Len(sent)
  /\ spoiled \subseteq 1 .. MaxWrites + 1

\* The names of a message are words: no blank in them, and not empty.
Sound(m) == Len(m.service) = 1 /\ (m.type = PEER => Len(m.endpoint) = 1)

\* What the reader is to get of a message: a lastSeen from 2^(Width - 1) on,
\* for 32 bits from January 2087 on, is lost, and nothing else is.
Expected(m) == IF m.type = QUERY \/ m.lastSeen <= MaxInt THEN m ELSE [m EXCEPT !.lastSeen = 0]

Complete == Cardinality({i \in 1 .. Len(ends) : ends[i] <= pos})

\* As long as zeros follow the chunks and none is in them, the messages read
\* are those written, in their order, none lost, doubled or held back, however
\* TCP cuts them (net_client.cpp:157-213, 264-268).
ReadAsWritten ==
  /\ handler = "idle" /\ spoiled = {}
  /\ \A i \in 1 .. Complete : Sound(sent[i])
  => handled = [i \in 1 .. Complete |-> Expected(sent[i])]

\* The lines read whole that are not spoiled and whose names are words.
Clean == {i \in 1 .. Complete : i \notin spoiled /\ Sound(sent[i])}

\* A set of messages arrived if the reader was given each of them, at a place
\* of its own, in the order they were written in.
Arrived(lines) ==
  \E at \in [lines -> 1 .. Len(handled)] :
    /\ \A i, j \in lines : i < j => at[i] < at[j]
    /\ \A i \in lines : handled[at[i]] = Expected(sent[i])

\* Memory behind a chunk spoils the line it falls into and no other, and so
\* does a message whose names are not words; a zero byte in a chunk spoils the
\* lines from its own to the one the next chunk begins in.  Every other message
\* still arrives, and they do in the order they were written in
\* (net_client.cpp:164-168, 177-192, 208-211, 266).
DamageIsLocal == handler = "idle" => Arrived(Clean)
=============================================================================
