-------------------------- MODULE BufferedSocket --------------------------
(***************************************************************************)
(* One direction of a TCP connection between two BufferedSockets: the      *)
(* write buffer of the one, what the kernels hold (wire), and the read     *)
(* buffer of the other.  The buffers belong to one thread each, so an      *)
(* action runs from one call of ::write or ::read to the next; both may    *)
(* handle fewer octets than they were asked to.                            *)
(*                                                                         *)
(* Octet n of the stream is the number n.                                  *)
(***************************************************************************)
EXTENDS Integers, Sequences

CONSTANTS Capacity,         \* _bufferCapacity: 1600
          ReadCapacity,     \* _readBufferCapacity: 1600
          WireCapacity,     \* what the kernels hold before ::write blocks
          Sizes,            \* lengths of the calls of write and read
          MaxOctets         \* bound of the octets that are written

ASSUME BufferedSocketAssumption ==
    /\ Capacity \in Nat \ {0} /\ ReadCapacity \in Nat \ {0}
    /\ WireCapacity \in Nat /\ MaxOctets \in Nat
    /\ Sizes \subseteq Nat \ {0}

VARIABLES
    connection,   \* "none", "refused", "up" or "lost"
    written,      \* how many octets write was called with
    writer,       \* "idle", in the flush of "write" or "flush", or "closed"
    data,         \* what the call of write has still to copy
    buffer,       \* _buffer up to _bufferUsed
    flushed,      \* sent, in flush
    wire,         \* octets under way
    reader,       \* "idle", in the ::read of "read", or "ended"
    readBuffer,   \* _readBuffer from _readPtr to _readBufferValid
    wanted,       \* octets the call of read has still to return
    delivered     \* the octets the calls of read have copied

writerVars == <<written, writer, data, buffer, flushed>>
readerVars == <<reader, readBuffer, wanted, delivered>>
vars == <<connection, writerVars, wire, readerVars>>

Least(a, b) == IF a <= b THEN a ELSE b
First(s, n) == SubSeq(s, 1, n)
After(s, n) == SubSeq(s, n + 1, Len(s))

Init ==
    /\ connection = "none"
    /\ written = 0 /\ writer = "idle" /\ flushed = 0
    /\ data = << >> /\ buffer = << >> /\ wire = << >>
    /\ reader = "idle" /\ wanted = 0
    /\ readBuffer = << >> /\ delivered = << >>

\* connect: a connection, or none and the object is given up.
Connect ==
    /\ connection = "none"
    /\ connection' \in {"up", "refused"}
    /\ UNCHANGED <<writerVars, wire, readerVars>>

Usable == connection \in {"up", "lost"}
-----------------------------------------------------------------------------
(* write and flush *)

\* A write that fills the buffer one octet too far.
WriteTooFar(n) ==
    LET octets == buffer \o [i \in 1..n |-> written + i]
        fits   == Least(Capacity + 1, Len(octets)) IN
    /\ Usable /\ writer = "idle"
    /\ written + n <= MaxOctets
    /\ written' = written + n
    /\ buffer' = First(octets, fits)
    /\ data' = After(octets, fits)
    /\ writer' = IF data' = << >> THEN "idle" ELSE "write"
    /\ UNCHANGED <<connection, flushed, wire, readerVars>>

\* write: the octets fit in the buffer, or it is filled and has to be flushed.
Write(n) ==
    LET octets == buffer \o [i \in 1..n |-> written + i]
        fits   == Least(Capacity, Len(octets)) IN
    /\ Usable /\ writer = "idle"
    /\ written + n <= MaxOctets
    /\ written' = written + n
    /\ buffer' = First(octets, fits)
    /\ data' = After(octets, fits)
    /\ writer' = IF data' = << >> THEN "idle" ELSE "write"
    /\ UNCHANGED <<connection, flushed, wire, readerVars>>

Flush ==
    /\ Usable /\ writer = "idle"
    /\ buffer # << >>
    /\ writer' = "flush"
    /\ UNCHANGED <<connection, written, data, buffer, flushed, wire, readerVars>>

\* A flush that takes one ::write to be the whole buffer.
TakenAtOnce(k) ==
    /\ flushed' = 0
    /\ LET fits == Least(Capacity, Len(data)) IN
       buffer' = First(data, fits) /\ data' = After(data, fits)
    /\ writer' = IF data' = << >> THEN "idle" ELSE "write"

\* A flush that goes on after the last octet.
TakenOnceMore(k) ==
    /\ flushed' = flushed + k
    /\ UNCHANGED <<writer, data, buffer>>

\* ::write has taken k octets: the loop of flush goes on, or flush returns,
\* and a write that called it fills the buffer again.
Taken(k) ==
    IF flushed + k < Len(buffer)
    THEN /\ flushed' = flushed + k
         /\ UNCHANGED <<writer, data, buffer>>
    ELSE /\ flushed' = 0
         /\ LET fits == Least(Capacity, Len(data)) IN
            buffer' = First(data, fits) /\ data' = After(data, fits)
         /\ writer' = IF data' = << >> THEN "idle" ELSE "write"

Flushing == writer \in {"write", "flush"}

\* ::write blocks until there is room, and takes what fits or less.
SocketWrite ==
    /\ connection = "up" /\ Flushing
    /\ \E k \in 1 .. Least(Len(buffer) - flushed, WireCapacity - Len(wire)) :
          /\ wire' = wire \o SubSeq(buffer, flushed + 1, flushed + k)
          /\ Taken(k)
    /\ UNCHANGED <<connection, written, readerVars>>

\* The kernel takes octets for a connection it does not know to be lost.
SocketWriteInVain ==
    /\ connection = "lost" /\ Flushing
    /\ \E k \in 1 .. Len(buffer) - flushed : Taken(k)
    /\ UNCHANGED <<connection, written, wire, readerVars>>

\* ::write fails, and so do flush and the write that called it.  The buffer
\* is left as it was; the caller may try again.
SocketWriteFails ==
    /\ connection = "lost" /\ Flushing
    /\ writer' = "idle" /\ flushed' = 0 /\ data' = << >>
    /\ UNCHANGED <<connection, written, buffer, wire, readerVars>>

\* The destructor: it does not flush.
Close ==
    /\ Usable /\ writer = "idle"
    /\ writer' = "closed"
    /\ buffer' = << >>
    /\ UNCHANGED <<connection, written, data, flushed, wire, readerVars>>
-----------------------------------------------------------------------------
(* read *)

\* A read that calls ::read although its buffer holds all that was asked for.
ReadEagerly(n) ==
    LET here == Least(n, Len(readBuffer)) IN
    /\ Usable /\ reader = "idle"
    /\ delivered' = delivered \o First(readBuffer, here)
    /\ readBuffer' = After(readBuffer, here)
    /\ wanted' = n - here
    /\ reader' = IF readBuffer' = << >> THEN "read" ELSE "idle"
    /\ UNCHANGED <<connection, writerVars, wire>>

\* read takes what it can from its buffer, and needs ::read for the rest.
Read(n) ==
    LET here == Least(n, Len(readBuffer)) IN
    /\ Usable /\ reader = "idle"
    /\ delivered' = delivered \o First(readBuffer, here)
    /\ readBuffer' = After(readBuffer, here)
    /\ wanted' = n - here
    /\ reader' = IF wanted' = 0 THEN "idle" ELSE "read"
    /\ UNCHANGED <<connection, writerVars, wire>>

\* A read that forgets what it does not need of its buffer.
SocketReadForgetting ==
    /\ reader = "read"
    /\ \E k \in 1 .. Least(Len(wire), ReadCapacity) :
          LET here == Least(k, wanted) IN
          /\ wire' = After(wire, k)
          /\ delivered' = delivered \o First(wire, here)
          /\ readBuffer' = << >>
          /\ wanted' = wanted - here
    /\ reader' = IF wanted' = 0 THEN "idle" ELSE "read"
    /\ UNCHANGED <<connection, writerVars>>

\* ::read fills the buffer with what has arrived or with less.
SocketRead ==
    /\ reader = "read"
    /\ \E k \in 1 .. Least(Len(wire), ReadCapacity) :
          LET here == Least(k, wanted) IN
          /\ wire' = After(wire, k)
          /\ delivered' = delivered \o First(wire, here)
          /\ readBuffer' = SubSeq(wire, here + 1, k)
          /\ wanted' = wanted - here
    /\ reader' = IF wanted' = 0 THEN "idle" ELSE "read"
    /\ UNCHANGED <<connection, writerVars>>

\* ::read finds the end of the stream, and read returns false.
SocketReadEnds ==
    /\ reader = "read" /\ wire = << >>
    /\ connection = "lost" \/ writer = "closed"
    /\ reader' = "ended"
    /\ UNCHANGED <<connection, writerVars, wire, readBuffer, wanted, delivered>>
-----------------------------------------------------------------------------
\* The connection breaks or the reader closes its end; some of what was under
\* way may still arrive.
Lose ==
    /\ Usable
    /\ connection' = "lost"
    /\ \E n \in 0 .. Len(wire) : wire' = First(wire, n)
    /\ UNCHANGED <<writerVars, readerVars>>

Next ==
    \/ Connect
    \/ \E n \in Sizes : Write(n)
    \/ Flush
    \/ SocketWrite \/ SocketWriteInVain \/ SocketWriteFails
    \/ Close
    \/ \E n \in Sizes : Read(n)
    \/ SocketRead \/ SocketReadEnds
    \/ Lose

Spec == Init /\ [][Next]_vars

\* Blocking calls return when they can.  Nothing says that anybody writes,
\* flushes, reads or closes.
FairSpec ==
    /\ Spec
    /\ WF_vars(SocketWrite) /\ WF_vars(SocketWriteInVain \/ SocketWriteFails)
    /\ WF_vars(SocketRead) /\ WF_vars(SocketReadEnds)
-----------------------------------------------------------------------------
TypeOK ==
    /\ connection \in {"none", "refused", "up", "lost"}
    /\ written \in 0..MaxOctets
    /\ writer \in {"idle", "write", "flush", "closed"}
    /\ data \in Seq(Nat) /\ wire \in Seq(Nat) /\ delivered \in Seq(Nat)
    /\ buffer \in Seq(Nat) /\ Len(buffer) <= Capacity
    /\ flushed \in 0..Capacity
    /\ reader \in {"idle", "read", "ended"}
    /\ readBuffer \in Seq(Nat) /\ Len(readBuffer) < ReadCapacity
    /\ wanted \in Nat

\* While the connection is up, every octet that write was called with is in
\* exactly one place, in its order, and after a flush that place is not the
\* write buffer; a flush that took several calls of ::write sends none twice.
Conserved ==
    connection = "up" /\ writer # "closed" =>
        delivered \o readBuffer \o wire \o After(buffer, flushed) \o data
            = [i \in 1..written |-> i]

\* What read hands out is what was written, whatever was split, joined, lost
\* or tried again.
Stream == INSTANCE ByteStream
StreamSpec == Stream!Spec

\* read does not wait for more than it was asked for: it returns once the
\* octets it needs have arrived, though nothing else ever does.
ReadReturns ==
    reader = "read" /\ Len(wire) >= wanted ~>
        reader # "read" \/ connection = "lost"

\* A call of write or flush comes back, if the kernels have room again and
\* again.
WriteReturns ==
    []<>(Len(wire) < WireCapacity) => (Flushing ~> ~Flushing)
=============================================================================
