----------------------- MODULE BufferedSocketProofs -----------------------
(***************************************************************************)
(* A pair of BufferedSockets implements ByteStream, for every size of the  *)
(* buffers and every way ::write and ::read split the octets.              *)
(***************************************************************************)
EXTENDS BufferedSocket, SequenceTheorems, TLAPS

\* s are the octets that follow the first n of the stream.
Run(s, n) == s \in Seq(Nat) /\ \A i \in 1..Len(s) : s[i] = n + i

LEMMA RunEmpty ==
    ASSUME NEW n \in Nat
    PROVE  Run(<< >>, n) /\ Len(<< >>) = 0
  BY EmptySeq DEF Run

LEMMA RunEqual ==
    ASSUME NEW s, NEW t, NEW n \in Nat, Run(s, n), Run(t, n), Len(s) = Len(t)
    PROVE  s = t
  BY SeqEqual DEF Run

LEMMA RunConcat ==
    ASSUME NEW s, NEW t, NEW n \in Nat, NEW p \in Nat,
           Run(s, n), Run(t, p), p = n + Len(s)
    PROVE  Run(s \o t, n) /\ Len(s \o t) = Len(s) + Len(t)
<1>1. s \in Seq(Nat) /\ t \in Seq(Nat) /\ Len(s) \in Nat /\ Len(t) \in Nat
  BY LenProperties DEF Run
<1>2. /\ s \o t \in Seq(Nat)
      /\ Len(s \o t) = Len(s) + Len(t)
      /\ \A i \in 1 .. Len(s) + Len(t) :
            (s \o t)[i] = IF i <= Len(s) THEN s[i] ELSE t[i - Len(s)]
  BY <1>1, ConcatProperties
<1> QED
  BY <1>1, <1>2 DEF Run

LEMMA RunSubSeq ==
    ASSUME NEW s, NEW n \in Nat, Run(s, n),
           NEW j \in Nat, NEW k \in Nat, 1 <= j, j <= k + 1, k <= Len(s),
           NEW p \in Nat, p = n + j - 1
    PROVE  /\ Run(SubSeq(s, j, k), p)
           /\ Len(SubSeq(s, j, k)) = k - j + 1
<1>1. s \in Seq(Nat) /\ Len(s) \in Nat /\ \A i \in j .. k : s[i] \in Nat
  BY LenProperties, ElementOfSeq DEF Run
<1>2. /\ SubSeq(s, j, k) \in Seq(Nat)
      /\ Len(SubSeq(s, j, k)) = IF j <= k THEN k - j + 1 ELSE 0
      /\ \A i \in 1 .. k - j + 1 : SubSeq(s, j, k)[i] = s[j + i - 1]
  BY <1>1, SubSeqProperties
<1>3. Len(SubSeq(s, j, k)) = k - j + 1
  BY <1>2
<1>4. \A i \in 1 .. k - j + 1 : SubSeq(s, j, k)[i] = p + i
  BY <1>1, <1>2 DEF Run
<1> QED
  BY <1>2, <1>3, <1>4 DEF Run

LEMMA RunSplit ==
    ASSUME NEW s, NEW n \in Nat, Run(s, n), NEW k \in 0..Len(s),
           NEW p \in Nat, p = n + k
    PROVE  /\ Run(First(s, k), n) /\ Len(First(s, k)) = k
           /\ Run(After(s, k), p) /\ Len(After(s, k)) = Len(s) - k
<1>1. Len(s) \in Nat
  BY LenProperties DEF Run
<1>2. Run(SubSeq(s, 1, k), n) /\ Len(SubSeq(s, 1, k)) = k
  BY <1>1, RunSubSeq
<1>3. Run(SubSeq(s, k + 1, Len(s)), p)
      /\ Len(SubSeq(s, k + 1, Len(s))) = Len(s) - k
  BY <1>1, RunSubSeq
<1> QED
  BY <1>2, <1>3 DEF First, After

LEMMA RunNumbers ==
    ASSUME NEW n \in Nat, NEW k \in Nat
    PROVE  Run([i \in 1..k |-> n + i], n) /\ Len([i \in 1..k |-> n + i]) = k
<1>1. [i \in 1..k |-> n + i] \in [1..k -> Nat]
  OBVIOUS
<1> QED
  BY <1>1, SeqDef, LenProperties DEF Run

LEMMA RunIsNumbers ==
    ASSUME NEW s, Run(s, 0)
    PROVE  s = [i \in 1..Len(s) |-> i]
  BY LenProperties DEF Run

\* First and After of any sequence of numbers.
LEMMA SplitTypes ==
    ASSUME NEW s \in Seq(Nat), NEW k \in 0..Len(s)
    PROVE  /\ First(s, k) \in Seq(Nat) /\ Len(First(s, k)) = k
           /\ After(s, k) \in Seq(Nat) /\ Len(After(s, k)) = Len(s) - k
<1>1. Len(s) \in Nat /\ \A i \in 1..Len(s) : s[i] \in Nat
  BY LenProperties, ElementOfSeq
<1>2. First(s, k) \in Seq(Nat)
      /\ Len(First(s, k)) = IF 1 <= k THEN k - 1 + 1 ELSE 0
  BY <1>1, SubSeqProperties DEF First
<1>3. After(s, k) \in Seq(Nat)
      /\ Len(After(s, k)) = IF k + 1 <= Len(s) THEN Len(s) - (k + 1) + 1 ELSE 0
  BY <1>1, SubSeqProperties DEF After
<1> QED
  BY <1>1, <1>2, <1>3
-----------------------------------------------------------------------------
\* What has left the writer.
Passed == Len(delivered) + Len(readBuffer) + Len(wire)

\* What the reader has and what is under way is the beginning of the stream.
ReadPart ==
    /\ Run(delivered, 0)
    /\ Run(readBuffer, Len(delivered))
    /\ Run(wire, Len(delivered) + Len(readBuffer))
    /\ Passed <= written

\* The writer has the rest, as long as the connection is up.
WritePart ==
    connection = "up" /\ writer # "closed" =>
        /\ flushed <= Passed
        /\ Run(buffer, Passed - flushed)
        /\ Run(data, Passed - flushed + Len(buffer))
        /\ Passed - flushed + Len(buffer) + Len(data) = written

WriterPlaces ==
    /\ written \in 0..MaxOctets
    /\ writer \in {"idle", "write", "flush", "closed"}
    /\ data \in Seq(Nat) /\ buffer \in Seq(Nat)
    /\ Len(buffer) <= Capacity
    /\ flushed \in Nat
    /\ IF Flushing THEN flushed < Len(buffer) ELSE flushed = 0 /\ data = << >>

ReaderPlaces ==
    /\ reader \in {"idle", "read", "ended"}
    /\ wanted \in Nat
    /\ reader = "read" => wanted > 0 /\ readBuffer = << >>
    /\ Len(readBuffer) < ReadCapacity

ConnectionPlaces ==
    /\ connection \in {"none", "refused", "up", "lost"}
    /\ connection = "none" =>
          /\ written = 0 /\ data = << >> /\ buffer = << >>
          /\ delivered = << >> /\ readBuffer = << >> /\ wire = << >>

IndInv ==
    ConnectionPlaces /\ WriterPlaces /\ ReaderPlaces /\ ReadPart /\ WritePart

\* A step of the abstract stream, or none.
StreamStep == [Stream!Write \/ Stream!Deliver]_<<written, delivered>>

LEMMA Lengths ==
    ASSUME IndInv
    PROVE  /\ Len(delivered) \in Nat /\ Len(readBuffer) \in Nat
           /\ Len(wire) \in Nat /\ Len(buffer) \in Nat /\ Len(data) \in Nat
           /\ Passed \in Nat /\ written \in Nat /\ flushed \in Nat
           /\ flushed <= Len(buffer)
<1>1. /\ delivered \in Seq(Nat) /\ readBuffer \in Seq(Nat) /\ wire \in Seq(Nat)
      /\ buffer \in Seq(Nat) /\ data \in Seq(Nat)
  BY DEF IndInv, ReadPart, WriterPlaces, Run
<1>2. /\ Len(delivered) \in Nat /\ Len(readBuffer) \in Nat /\ Len(wire) \in Nat
      /\ Len(buffer) \in Nat /\ Len(data) \in Nat
  BY <1>1, LenProperties
<1> QED
  BY <1>2, BufferedSocketAssumption DEF IndInv, WriterPlaces, Passed

LEMMA InitInv == Init => IndInv /\ Stream!Init
<1> SUFFICES ASSUME Init PROVE IndInv /\ Stream!Init
  OBVIOUS
<1>1. \A n \in Nat : Run(<< >>, n)
  BY RunEmpty
<1>2. Len(<< >>) = 0 /\ << >> \in Seq(Nat)
  BY EmptySeq
<1> QED
  BY <1>1, <1>2, BufferedSocketAssumption
     DEF Init, IndInv, ConnectionPlaces, WriterPlaces, ReaderPlaces, ReadPart,
         WritePart, Passed, Flushing, Stream!Init

LEMMA ConnectStep == IndInv /\ Connect => IndInv' /\ StreamStep
<1> SUFFICES ASSUME IndInv, Connect PROVE IndInv' /\ StreamStep
  OBVIOUS
<1>1. UNCHANGED <<written, writer, data, buffer, flushed, wire, reader,
                  readBuffer, wanted, delivered>>
      /\ connection = "none" /\ connection' \in {"up", "refused"}
  BY DEF Connect, writerVars, readerVars
<1>2. WriterPlaces' /\ ReaderPlaces' /\ ReadPart' /\ ConnectionPlaces'
  BY <1>1 DEF IndInv, WriterPlaces, ReaderPlaces, ReadPart, Passed, Flushing,
              ConnectionPlaces
<1>3. \A n \in Nat : Run(<< >>, n)
  BY RunEmpty
<1>4. Len(<< >>) = 0
  BY EmptySeq
<1>5. writer # "closed" => flushed = 0 \/ flushed < Len(buffer)
  BY DEF IndInv, WriterPlaces, Flushing
<1>6. WritePart'
  BY <1>1, <1>3, <1>4, <1>5
     DEF IndInv, ConnectionPlaces, WriterPlaces, WritePart, Passed
<1> QED
  BY <1>1, <1>2, <1>6 DEF IndInv, StreamStep

\* The octets of a write or the rest of one, split between buffer and data.
LEMMA Filled ==
    ASSUME NEW s \in Seq(Nat)
    PROVE  LET fits == Least(Capacity, Len(s)) IN
           /\ fits \in 0..Len(s) /\ fits <= Capacity
           /\ First(s, fits) \in Seq(Nat) /\ Len(First(s, fits)) = fits
           /\ After(s, fits) \in Seq(Nat)
           /\ After(s, fits) # << >> => fits > 0
<1> DEFINE fits == Least(Capacity, Len(s))
<1>1. Len(s) \in Nat
  BY LenProperties
<1>2. fits \in 0..Len(s) /\ fits <= Capacity /\ (fits = 0 => Len(s) = 0)
  BY <1>1, BufferedSocketAssumption DEF Least
<1>3. /\ First(s, fits) \in Seq(Nat) /\ Len(First(s, fits)) = fits
      /\ After(s, fits) \in Seq(Nat) /\ Len(After(s, fits)) = Len(s) - fits
  BY <1>2, SplitTypes
<1>4. After(s, fits) # << >> => Len(After(s, fits)) # 0
  BY <1>3, EmptySeq
<1> HIDE DEF fits
<1>5. After(s, fits) # << >> => fits > 0
  BY <1>1, <1>2, <1>3, <1>4
<1> QED
  BY <1>2, <1>3, <1>5 DEF fits

LEMMA WriteStep ==
    ASSUME IndInv, NEW n \in Sizes, Write(n)
    PROVE  IndInv' /\ StreamStep
<1> DEFINE octets == buffer \o [i \in 1..n |-> written + i]
           fits   == Least(Capacity, Len(octets))
<1>1. n \in Nat /\ n > 0
  BY BufferedSocketAssumption
<1>2. /\ Usable /\ writer = "idle"
      /\ written + n <= MaxOctets /\ written' = written + n
      /\ buffer' = First(octets, fits) /\ data' = After(octets, fits)
      /\ writer' = IF data' = << >> THEN "idle" ELSE "write"
      /\ UNCHANGED <<connection, flushed, wire, reader, readBuffer, wanted,
                     delivered>>
  BY DEF Write, readerVars
<1>3. flushed = 0 /\ data = << >> /\ buffer \in Seq(Nat)
      /\ connection \in {"up", "lost"}
  BY <1>2 DEF IndInv, WriterPlaces, Flushing, Usable
<1>4. /\ Run([i \in 1..n |-> written + i], written)
      /\ Len([i \in 1..n |-> written + i]) = n
  BY <1>1, Lengths, RunNumbers
<1>5. octets \in Seq(Nat) /\ Len(octets) = Len(buffer) + n
  <2> DEFINE new == [i \in 1..n |-> written + i]
  <2>1. new \in Seq(Nat) /\ Len(new) = n
    BY <1>4 DEF Run
  <2> HIDE DEF new
  <2>2. buffer \o new \in Seq(Nat) /\ Len(buffer \o new) = Len(buffer) + n
    BY <1>3, <2>1, ConcatProperties
  <2> QED
    BY <2>2 DEF new
<1>6. /\ fits \in 0..Len(octets) /\ fits <= Capacity
      /\ buffer' \in Seq(Nat) /\ Len(buffer') = fits /\ data' \in Seq(Nat)
      /\ data' # << >> => fits > 0
  BY <1>2, <1>5, Filled
<1>7. ConnectionPlaces' /\ ReaderPlaces'
  BY <1>2, <1>3 DEF IndInv, ConnectionPlaces, ReaderPlaces
<1>8. WriterPlaces'
  <2>1. written' \in 0..MaxOctets
    BY <1>1, <1>2, Lengths, BufferedSocketAssumption
  <2>2. Flushing' => data' # << >>
    BY <1>2 DEF Flushing
  <2>3. ~Flushing' => data' = << >>
    BY <1>2 DEF Flushing
  <2> QED
    BY <1>2, <1>3, <1>6, <2>1, <2>2, <2>3 DEF WriterPlaces
<1>9. ReadPart'
  BY <1>1, <1>2, Lengths DEF IndInv, ReadPart, Passed
<1>10. WritePart'
  <2> SUFFICES ASSUME connection = "up"
               PROVE  WritePart'
    BY <1>2 DEF WritePart
  <2>1. /\ Run(buffer, Passed) /\ Passed + Len(buffer) = written
    <3>1. Len(data) = 0
      BY <1>3, EmptySeq
    <3> QED
      BY <1>2, <1>3, <3>1, Lengths DEF IndInv, WritePart
  <2>2. Run(octets, Passed)
    BY <1>4, <2>1, Lengths, RunConcat
  <2> HIDE DEF octets
  <2>3. fits \in 0..Len(octets) /\ Passed + fits \in Nat
    BY <1>6, Lengths
  <2> HIDE DEF fits
  <2>4. /\ Run(buffer', Passed)
        /\ Run(data', Passed + fits) /\ Len(data') = Len(octets) - fits
    BY <1>2, <2>2, <2>3, Lengths, RunSplit
  <2>5. Passed' = Passed /\ Passed' - flushed' = Passed /\ Len(buffer') = fits
    BY <1>2, <1>3, <1>6, Lengths DEF Passed
  <2>6. Passed + fits + Len(data') = written'
    BY <1>1, <1>2, <1>5, <2>1, <2>3, <2>4, Lengths
  <2> QED
    BY <1>2, <1>3, <2>4, <2>5, <2>6, Lengths DEF WritePart
<1>11. StreamStep
  BY <1>1, <1>2, Lengths DEF StreamStep, Stream!Write
<1> QED
  BY <1>7, <1>8, <1>9, <1>10, <1>11 DEF IndInv

LEMMA FlushStep == IndInv /\ Flush => IndInv' /\ StreamStep
<1> SUFFICES ASSUME IndInv, Flush PROVE IndInv' /\ StreamStep
  OBVIOUS
<1>1. /\ Usable /\ writer = "idle" /\ buffer # << >> /\ writer' = "flush"
      /\ UNCHANGED <<connection, written, data, buffer, flushed, wire, reader,
                     readBuffer, wanted, delivered>>
  BY DEF Flush, readerVars
<1>2. flushed = 0 /\ Len(buffer) > 0
  <2>1. buffer \in Seq(Nat) /\ flushed = 0
    BY <1>1 DEF IndInv, WriterPlaces, Flushing
  <2> QED
    BY <1>1, <2>1, EmptySeq
<1>3. WriterPlaces'
  BY <1>1, <1>2 DEF IndInv, WriterPlaces, Flushing
<1>4. ConnectionPlaces' /\ ReaderPlaces' /\ ReadPart' /\ WritePart'
  BY <1>1 DEF IndInv, ConnectionPlaces, ReaderPlaces, ReadPart, WritePart,
              Passed, Usable
<1> QED
  BY <1>1, <1>3, <1>4 DEF IndInv, StreamStep

\* What flush leaves after ::write has taken k octets.
LEMMA TakenPlaces ==
    ASSUME IndInv, Flushing, NEW k \in 1 .. Len(buffer) - flushed, Taken(k),
           UNCHANGED written
    PROVE  WriterPlaces' /\ writer' # "closed"
<1>1. CASE flushed + k < Len(buffer)
  BY <1>1, Lengths DEF IndInv, WriterPlaces, Taken, Flushing
<1>2. CASE ~(flushed + k < Len(buffer))
  <2> DEFINE fits == Least(Capacity, Len(data))
  <2>1. /\ flushed' = 0
        /\ buffer' = First(data, fits) /\ data' = After(data, fits)
        /\ writer' = IF data' = << >> THEN "idle" ELSE "write"
    BY <1>2 DEF Taken
  <2>2. data \in Seq(Nat)
    BY DEF IndInv, WriterPlaces
  <2>3. /\ fits \in 0..Len(data) /\ fits <= Capacity
        /\ buffer' \in Seq(Nat) /\ Len(buffer') = fits /\ data' \in Seq(Nat)
        /\ data' # << >> => fits > 0
    BY <2>1, <2>2, Filled
  <2> HIDE DEF fits
  <2>4. (Flushing' <=> data' # << >>) /\ writer' \in {"idle", "write"}
    BY <2>1 DEF Flushing
  <2> QED
    BY <2>1, <2>3, <2>4, Lengths DEF IndInv, WriterPlaces
<1> QED
  BY <1>1, <1>2

LEMMA SocketWriteStep == IndInv /\ SocketWrite => IndInv' /\ StreamStep
<1> SUFFICES ASSUME IndInv, SocketWrite PROVE IndInv' /\ StreamStep
  OBVIOUS
<1>1. PICK k \in 1 .. Least(Len(buffer) - flushed, WireCapacity - Len(wire)) :
         /\ wire' = wire \o SubSeq(buffer, flushed + 1, flushed + k)
         /\ Taken(k)
  BY DEF SocketWrite
<1>2. /\ connection = "up" /\ Flushing /\ writer # "closed"
      /\ UNCHANGED <<connection, written, reader, readBuffer, wanted, delivered>>
  BY DEF SocketWrite, readerVars, Flushing
<1>3. k \in 1 .. Len(buffer) - flushed
  BY <1>1, Lengths, BufferedSocketAssumption DEF Least
<1>4. WriterPlaces' /\ writer' # "closed"
  BY <1>1, <1>2, <1>3, TakenPlaces
<1>5. /\ flushed <= Passed
      /\ Run(buffer, Passed - flushed)
      /\ Run(data, Passed - flushed + Len(buffer))
      /\ Passed - flushed + Len(buffer) + Len(data) = written
  BY <1>2 DEF IndInv, WritePart
<1>6. /\ Run(SubSeq(buffer, flushed + 1, flushed + k), Passed)
      /\ Len(SubSeq(buffer, flushed + 1, flushed + k)) = k
  <2> DEFINE from  == Passed - flushed
             first == flushed + 1
             upTo  == flushed + k
  <2>1. /\ from \in Nat /\ first \in Nat /\ upTo \in Nat /\ Passed \in Nat
        /\ Passed = from + first - 1
        /\ 1 <= first /\ first <= upTo + 1 /\ upTo <= Len(buffer)
        /\ upTo - first + 1 = k
    <3>1. /\ k \in Nat /\ k >= 1 /\ k <= Len(buffer) - flushed
          /\ Passed \in Nat /\ flushed \in Nat /\ Len(buffer) \in Nat
          /\ flushed <= Passed
      BY <1>3, <1>5, Lengths
    <3> QED
      BY <3>1
  <2>2. Run(buffer, from)
    BY <1>5
  <2> HIDE DEF from, first, upTo
  <2>3. /\ Run(SubSeq(buffer, first, upTo), Passed)
        /\ Len(SubSeq(buffer, first, upTo)) = k
    BY <2>1, <2>2, RunSubSeq
  <2> QED
    BY <2>3 DEF first, upTo
<1>7. /\ Run(wire', Len(delivered) + Len(readBuffer))
      /\ Len(wire') = Len(wire) + k
  <2> DEFINE from == Len(delivered) + Len(readBuffer)
  <2>1. from \in Nat /\ Passed = from + Len(wire) /\ Run(wire, from)
    BY Lengths DEF Passed, IndInv, ReadPart
  <2> HIDE DEF from
  <2>2. Run(wire', from) /\ Len(wire') = Len(wire) + k
    BY <1>1, <1>6, <2>1, Lengths, RunConcat
  <2> QED
    BY <2>2 DEF from
<1>8. Passed' = Passed + k
  BY <1>2, <1>3, <1>7, Lengths DEF Passed
<1>9. ReadPart'
  BY <1>2, <1>3, <1>5, <1>7, <1>8, Lengths DEF IndInv, ReadPart
<1>10. WritePart'
  <2>1. CASE flushed + k < Len(buffer)
    <3>1. flushed' = flushed + k /\ UNCHANGED <<writer, data, buffer>>
      BY <1>1, <2>1 DEF Taken
    <3>2. Passed' - flushed' = Passed - flushed
      BY <1>3, <1>8, <3>1, Lengths
    <3> QED
      BY <1>2, <1>3, <1>5, <1>8, <3>1, <3>2, Lengths DEF WritePart
  <2>2. CASE ~(flushed + k < Len(buffer))
    <3> DEFINE fits == Least(Capacity, Len(data))
    <3>1. /\ flushed' = 0
          /\ buffer' = First(data, fits) /\ data' = After(data, fits)
      BY <1>1, <2>2 DEF Taken
    <3>2. Passed' = Passed - flushed + Len(buffer)
      BY <1>3, <1>8, <2>2, Lengths
    <3>3. fits \in 0..Len(data)
      BY Lengths, BufferedSocketAssumption DEF Least
    <3>4. PICK p \in Nat : p = Passed'
      BY <1>3, <1>8, Lengths
    <3>5. Run(data, p) /\ p + Len(data) = written
      BY <1>5, <3>2, <3>4, Lengths
    <3> HIDE DEF fits
    <3>6. p + fits \in Nat
      BY <3>3, Lengths
    <3>7. /\ Run(buffer', p) /\ Len(buffer') = fits
          /\ Run(data', p + fits) /\ Len(data') = Len(data) - fits
      BY <3>1, <3>3, <3>5, <3>6, Lengths, RunSplit
    <3>8. flushed' <= p /\ p - flushed' = p
          /\ p + fits + Len(data') = written'
      BY <1>2, <3>1, <3>3, <3>5, <3>7, Lengths
    <3> QED
      BY <3>4, <3>7, <3>8 DEF WritePart
  <2> QED
    BY <2>1, <2>2
<1>11. ConnectionPlaces' /\ ReaderPlaces' /\ StreamStep
  BY <1>2 DEF IndInv, ConnectionPlaces, ReaderPlaces, StreamStep
<1> QED
  BY <1>4, <1>9, <1>10, <1>11 DEF IndInv

LEMMA SocketWriteInVainStep ==
    IndInv /\ SocketWriteInVain => IndInv' /\ StreamStep
<1> SUFFICES ASSUME IndInv, SocketWriteInVain PROVE IndInv' /\ StreamStep
  OBVIOUS
<1>1. PICK k \in 1 .. Len(buffer) - flushed : Taken(k)
  BY DEF SocketWriteInVain
<1>2. /\ connection = "lost" /\ Flushing
      /\ UNCHANGED <<connection, written, wire, reader, readBuffer, wanted,
                     delivered>>
  BY DEF SocketWriteInVain, readerVars
<1>3. WriterPlaces'
  BY <1>1, <1>2, TakenPlaces
<1>4. ConnectionPlaces' /\ ReaderPlaces' /\ ReadPart' /\ WritePart'
  BY <1>2 DEF IndInv, ConnectionPlaces, ReaderPlaces, ReadPart, WritePart, Passed
<1> QED
  BY <1>2, <1>3, <1>4 DEF IndInv, StreamStep

LEMMA WriterEndsStep ==
    IndInv /\ (SocketWriteFails \/ Close) => IndInv' /\ StreamStep
<1> SUFFICES ASSUME IndInv, SocketWriteFails \/ Close
             PROVE  IndInv' /\ StreamStep
  OBVIOUS
<1>1. << >> \in Seq(Nat) /\ Len(<< >>) = 0
  BY EmptySeq
<1>2. UNCHANGED <<connection, written, wire, reader, readBuffer, wanted, delivered>>
  BY DEF SocketWriteFails, Close, readerVars
<1>3. WriterPlaces' /\ (connection = "lost" \/ writer' = "closed")
  <2>1. CASE SocketWriteFails
    BY <1>1, <1>2, <2>1 DEF IndInv, WriterPlaces, SocketWriteFails, Flushing
  <2>2. CASE Close
    <3>1. /\ writer = "idle" /\ writer' = "closed" /\ buffer' = << >>
          /\ UNCHANGED <<data, flushed, written>>
      BY <2>2 DEF Close
    <3>2. 0 <= Capacity
      BY BufferedSocketAssumption
    <3> QED
      BY <1>1, <3>1, <3>2 DEF IndInv, WriterPlaces, Flushing
  <2> QED
    BY <2>1, <2>2
<1>4. ConnectionPlaces'
  BY <1>2 DEF IndInv, ConnectionPlaces, SocketWriteFails, Close, Usable
<1>5. ReaderPlaces' /\ ReadPart' /\ WritePart'
  BY <1>2, <1>3 DEF IndInv, ReaderPlaces, ReadPart, WritePart, Passed
<1> QED
  BY <1>2, <1>3, <1>4, <1>5 DEF IndInv, StreamStep
-----------------------------------------------------------------------------
\* A step that hands out the beginning of what follows is one of the stream.
LEMMA DeliverStep ==
    ASSUME IndInv, Run(delivered', 0), Len(delivered) <= Len(delivered'),
           Len(delivered') <= written, UNCHANGED written
    PROVE  StreamStep
<1>1. delivered = [i \in 1..Len(delivered) |-> i]
      /\ delivered' = [i \in 1..Len(delivered') |-> i]
  BY RunIsNumbers DEF IndInv, ReadPart
<1>2. Len(delivered') \in Nat
  BY LenProperties DEF Run
<1>3. CASE Len(delivered') = Len(delivered)
  BY <1>1, <1>3 DEF StreamStep
<1>4. CASE Len(delivered') # Len(delivered)
  <2>1. Len(delivered') \in Len(delivered) + 1 .. written
    BY <1>2, <1>4, Lengths
  <2> QED
    BY <1>1, <2>1 DEF StreamStep, Stream!Deliver
<1> QED
  BY <1>3, <1>4

LEMMA Delivering ==
    ASSUME NEW s, NEW t, Run(s, 0), Run(t, Len(s))
    PROVE  Run(s \o t, 0) /\ Len(s \o t) = Len(s) + Len(t)
<1>1. Len(s) \in Nat /\ Len(s) = 0 + Len(s)
  BY LenProperties DEF Run
<1> QED
  BY <1>1, RunConcat

LEMMA ReadStep ==
    ASSUME IndInv, NEW n \in Sizes, Read(n)
    PROVE  IndInv' /\ StreamStep
<1> DEFINE here == Least(n, Len(readBuffer))
<1>1. n \in Nat /\ n > 0
  BY BufferedSocketAssumption
<1>2. /\ Usable
      /\ delivered' = delivered \o First(readBuffer, here)
      /\ readBuffer' = After(readBuffer, here)
      /\ wanted' = n - here
      /\ reader' = IF wanted' = 0 THEN "idle" ELSE "read"
      /\ UNCHANGED <<connection, written, writer, data, buffer, flushed, wire>>
  BY DEF Read, writerVars
<1>3. here \in 0..Len(readBuffer) /\ here \in Nat /\ wanted' \in Nat
  BY <1>1, <1>2, Lengths DEF Least
<1> HIDE DEF here
<1> DEFINE from == Len(delivered) + here
<1>4. from \in Nat
  BY <1>3, Lengths
<1>5. /\ Run(First(readBuffer, here), Len(delivered))
      /\ Len(First(readBuffer, here)) = here
      /\ Run(readBuffer', from) /\ Len(readBuffer') = Len(readBuffer) - here
  BY <1>2, <1>3, <1>4, Lengths, RunSplit DEF IndInv, ReadPart
<1>6. Run(delivered', 0) /\ Len(delivered') = from
  BY <1>2, <1>5, Lengths, Delivering DEF IndInv, ReadPart
<1>7. Passed' = Passed /\ Len(delivered') + Len(readBuffer')
                            = Len(delivered) + Len(readBuffer)
  BY <1>2, <1>3, <1>5, <1>6, Lengths DEF Passed
<1>8. ReadPart'
  BY <1>2, <1>5, <1>6, <1>7 DEF IndInv, ReadPart
<1>9. ReaderPlaces'
  <2>1. wanted' > 0 => Len(readBuffer') = 0
    <3>1. Len(readBuffer) \in Nat
      BY Lengths
    <3>2. CASE n <= Len(readBuffer)
      BY <1>1, <1>2, <3>2 DEF here, Least
    <3>3. CASE ~(n <= Len(readBuffer))
      BY <1>5, <3>1, <3>3 DEF here, Least
    <3> QED
      BY <3>2, <3>3
  <2>2. wanted' > 0 => readBuffer' = << >>
    BY <1>5, <2>1, EmptySeq DEF Run
  <2> QED
    BY <1>2, <1>3, <1>5, <2>2, Lengths, BufferedSocketAssumption
       DEF IndInv, ReaderPlaces
<1>10. ConnectionPlaces' /\ WriterPlaces' /\ WritePart'
  BY <1>2, <1>7 DEF IndInv, ConnectionPlaces, WriterPlaces, WritePart, Usable,
                    Flushing
<1>11. Len(delivered) <= Len(delivered') /\ Len(delivered') <= written
  BY <1>3, <1>6, Lengths DEF IndInv, ReadPart, Passed
<1> QED
  BY <1>2, <1>6, <1>8, <1>9, <1>10, <1>11, DeliverStep DEF IndInv

LEMMA SocketReadStep == IndInv /\ SocketRead => IndInv' /\ StreamStep
<1> SUFFICES ASSUME IndInv, SocketRead PROVE IndInv' /\ StreamStep
  OBVIOUS
<1>1. PICK k \in 1 .. Least(Len(wire), ReadCapacity) :
         LET here == Least(k, wanted) IN
         /\ wire' = After(wire, k)
         /\ delivered' = delivered \o First(wire, here)
         /\ readBuffer' = SubSeq(wire, here + 1, k)
         /\ wanted' = wanted - here
  BY DEF SocketRead
<1> DEFINE here == Least(k, wanted)
<1>2. /\ reader = "read"
      /\ reader' = IF wanted' = 0 THEN "idle" ELSE "read"
      /\ UNCHANGED <<connection, written, writer, data, buffer, flushed>>
  BY DEF SocketRead, writerVars
<1>3. /\ wire' = After(wire, k)
      /\ delivered' = delivered \o First(wire, here)
      /\ readBuffer' = SubSeq(wire, here + 1, k)
      /\ wanted' = wanted - here
  BY <1>1
<1>4. k \in 1..Len(wire) /\ k <= ReadCapacity
  BY <1>1, Lengths, BufferedSocketAssumption DEF Least
<1>5. wanted \in Nat /\ wanted > 0
  BY <1>2 DEF IndInv, ReaderPlaces
<1>6. here \in 1..k /\ wanted' \in Nat
  BY <1>3, <1>4, <1>5 DEF Least
<1> HIDE DEF here
<1>7. readBuffer = << >> /\ Len(readBuffer) = 0
  BY <1>2, EmptySeq DEF IndInv, ReaderPlaces
<1> DEFINE base == Len(delivered)
           from == base + here
           next == base + k
           first == here + 1
<1>8. /\ base \in Nat /\ from \in Nat /\ next \in Nat /\ first \in Nat
      /\ here \in 0..Len(wire) /\ k \in 0..Len(wire) /\ 1 <= first
      /\ first <= k + 1 /\ k <= Len(wire) /\ from = base + first - 1
      /\ from = base + here /\ next = base + k /\ k - first + 1 = k - here
  BY <1>4, <1>6, Lengths
<1>9. Run(wire, base)
  BY <1>7, <1>8 DEF IndInv, ReadPart
<1> HIDE DEF base, from, next
<1>10. Run(First(wire, here), base) /\ Len(First(wire, here)) = here
  BY <1>8, <1>9, RunSplit
<1>11. Run(wire', next) /\ Len(wire') = Len(wire) - k
  BY <1>3, <1>8, <1>9, RunSplit
<1> HIDE DEF first
<1>12. /\ Run(SubSeq(wire, first, k), from)
       /\ Len(SubSeq(wire, first, k)) = k - first + 1
  BY <1>8, <1>9, RunSubSeq
<1>13. Run(readBuffer', from) /\ Len(readBuffer') = k - here
  BY <1>3, <1>8, <1>12 DEF first
<1>14. Run(delivered', 0) /\ Len(delivered') = from
  BY <1>3, <1>8, <1>10, Delivering DEF base, IndInv, ReadPart
<1>15. /\ Len(delivered') + Len(readBuffer') = next
       /\ Passed' = base + Len(wire) /\ Passed = base + Len(wire)
  BY <1>7, <1>8, <1>11, <1>13, <1>14, Lengths DEF Passed, base
<1>16. ReadPart'
  BY <1>2, <1>11, <1>13, <1>14, <1>15 DEF IndInv, ReadPart
<1>17. ReaderPlaces'
  <2>1. wanted' > 0 => k - here = 0
    BY <1>3, <1>4, <1>5 DEF here, Least
  <2>2. wanted' > 0 => readBuffer' = << >>
    BY <1>13, <2>1, EmptySeq DEF Run
  <2> QED
    BY <1>2, <1>4, <1>6, <1>13, <2>2, BufferedSocketAssumption DEF ReaderPlaces
<1>18. WriterPlaces' /\ WritePart'
  BY <1>2, <1>15 DEF IndInv, WriterPlaces, WritePart, Flushing
<1>19. ConnectionPlaces'
  <2>1. wire # << >>
    BY <1>4, EmptySeq
  <2> QED
    BY <1>2, <2>1 DEF IndInv, ConnectionPlaces
<1>20. Len(delivered) <= Len(delivered') /\ Len(delivered') <= written
  <2>1. Passed <= written /\ written \in Nat /\ Len(wire) \in Nat
    BY Lengths DEF IndInv, ReadPart
  <2>2. base <= from /\ from <= base + Len(wire)
    BY <1>8, <2>1
  <2> QED
    BY <1>8, <1>14, <1>15, <2>1, <2>2 DEF base
<1> QED
  BY <1>2, <1>14, <1>16, <1>17, <1>18, <1>19, <1>20, DeliverStep DEF IndInv

LEMMA SocketReadEndsStep == IndInv /\ SocketReadEnds => IndInv' /\ StreamStep
<1> SUFFICES ASSUME IndInv, SocketReadEnds PROVE IndInv' /\ StreamStep
  OBVIOUS
<1>1. /\ reader' = "ended"
      /\ UNCHANGED <<connection, written, writer, data, buffer, flushed, wire,
                     readBuffer, wanted, delivered>>
  BY DEF SocketReadEnds, writerVars
<1> QED
  BY <1>1 DEF IndInv, ConnectionPlaces, WriterPlaces, ReaderPlaces, ReadPart,
              WritePart, Passed, Flushing, StreamStep

LEMMA LoseStep == IndInv /\ Lose => IndInv' /\ StreamStep
<1> SUFFICES ASSUME IndInv, Lose PROVE IndInv' /\ StreamStep
  OBVIOUS
<1>1. /\ connection' = "lost"
      /\ UNCHANGED <<written, writer, data, buffer, flushed, reader, readBuffer,
                     wanted, delivered>>
  BY DEF Lose, writerVars, readerVars
<1>2. PICK n \in 0 .. Len(wire) : wire' = First(wire, n)
  BY DEF Lose
<1> DEFINE from == Len(delivered) + Len(readBuffer)
           next == from + n
<1>3. from \in Nat /\ next \in Nat /\ Run(wire, from)
  BY <1>2, Lengths DEF IndInv, ReadPart
<1> HIDE DEF from
<1>4. Run(wire', from) /\ Len(wire') = n
  BY <1>2, <1>3, RunSplit
<1>5. Passed' <= Passed /\ Passed' \in Nat
  BY <1>1, <1>2, <1>4, Lengths DEF Passed
<1>6. ReadPart'
  BY <1>1, <1>4, <1>5, Lengths DEF IndInv, ReadPart, from
<1>7. ConnectionPlaces' /\ WriterPlaces' /\ ReaderPlaces' /\ WritePart'
  BY <1>1 DEF IndInv, ConnectionPlaces, WriterPlaces, ReaderPlaces, WritePart,
              Flushing
<1> QED
  BY <1>1, <1>6, <1>7 DEF IndInv, StreamStep
-----------------------------------------------------------------------------
LEMMA StutterStep == IndInv /\ UNCHANGED vars => IndInv' /\ StreamStep
  BY DEF vars, writerVars, readerVars, IndInv, ConnectionPlaces, WriterPlaces,
         ReaderPlaces, ReadPart, WritePart, Passed, Flushing, StreamStep

LEMMA NextStep == IndInv /\ [Next]_vars => IndInv' /\ StreamStep
<1> SUFFICES ASSUME IndInv, [Next]_vars PROVE IndInv' /\ StreamStep
  OBVIOUS
<1> QED
  BY ConnectStep, WriteStep, FlushStep, SocketWriteStep, SocketWriteInVainStep,
     WriterEndsStep, ReadStep, SocketReadStep, SocketReadEndsStep, LoseStep,
     StutterStep DEF Next

LEMMA Invariant == Spec => []IndInv
  BY InitInv, NextStep, PTL DEF Spec

\* The buffers keep their type and never hold more than their capacity.
THEOREM TypeCorrect == Spec => []TypeOK
<1>1. ASSUME IndInv PROVE TypeOK
  <2>1. /\ flushed \in Nat /\ flushed <= Len(buffer) /\ Len(buffer) <= Capacity
        /\ Len(buffer) \in Nat /\ Capacity \in Nat
    BY <1>1, Lengths, BufferedSocketAssumption DEF IndInv, WriterPlaces
  <2>2. flushed \in 0..Capacity
    BY <2>1
  <2> QED
    BY <1>1, <2>2 DEF IndInv, ConnectionPlaces, WriterPlaces, ReaderPlaces,
                      ReadPart, TypeOK, Run
<1> QED
  BY <1>1, Invariant, PTL

\* While the connection is up every octet written is in one place, in order.
THEOREM ConservedTheorem == Spec => []Conserved
<1>1. ASSUME IndInv PROVE Conserved
  <2> SUFFICES ASSUME connection = "up", writer # "closed"
               PROVE  delivered \o readBuffer \o wire \o After(buffer, flushed)
                          \o data = [i \in 1..written |-> i]
    BY DEF Conserved
  <2> DEFINE rest == After(buffer, flushed)
             end  == Passed + Len(rest)
             back == Passed - flushed
  <2>1. /\ flushed \in 0..Len(buffer) /\ back \in Nat
        /\ Passed = back + flushed /\ Run(buffer, back)
    BY <1>1, Lengths DEF IndInv, WritePart
  <2> HIDE DEF back
  <2>2. Run(rest, Passed) /\ Len(rest) = Len(buffer) - flushed
    BY <1>1, <2>1, Lengths, RunSplit
  <2>3. Run(data, end) /\ end + Len(data) = written
    BY <1>1, <2>1, <2>2, Lengths DEF IndInv, WritePart
  <2> HIDE DEF rest
  <2>4. Run(delivered \o readBuffer, 0)
        /\ Len(delivered \o readBuffer) = Len(delivered) + Len(readBuffer)
    BY <1>1, Delivering DEF IndInv, ReadPart
  <2>5. Run((delivered \o readBuffer) \o wire, 0)
        /\ Len((delivered \o readBuffer) \o wire) = Passed
    BY <1>1, <2>4, Delivering DEF IndInv, ReadPart, Passed
  <2>6. Run(((delivered \o readBuffer) \o wire) \o rest, 0)
        /\ Len(((delivered \o readBuffer) \o wire) \o rest) = end
    BY <2>2, <2>5, Delivering
  <2>7. Run((((delivered \o readBuffer) \o wire) \o rest) \o data, 0)
        /\ Len((((delivered \o readBuffer) \o wire) \o rest) \o data) = written
    BY <2>3, <2>6, Delivering
  <2> QED
    BY <2>7, RunIsNumbers DEF rest
<1> QED
  BY <1>1, Invariant, PTL

\* What is read is what was written.
THEOREM StreamTheorem == Spec => StreamSpec
  BY InitInv, NextStep, Invariant, PTL DEF Spec, StreamSpec, Stream!Spec, StreamStep
=============================================================================
