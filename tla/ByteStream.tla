---------------------------- MODULE ByteStream ----------------------------
(***************************************************************************)
(* What a pair of BufferedSockets promises for one direction: the reader   *)
(* is handed the octets that were written, in their order, none left out,  *)
(* none repeated and none that were not written.  Octet n of the stream is *)
(* the number n.                                                           *)
(***************************************************************************)
EXTENDS Naturals, Sequences

VARIABLES written,      \* how many octets were written
          delivered     \* the octets the reader was handed

Init == written = 0 /\ delivered = << >>

Write ==
    /\ written' \in Nat /\ written' > written
    /\ UNCHANGED delivered

Deliver ==
    /\ \E n \in Len(delivered) + 1 .. written : delivered' = [i \in 1..n |-> i]
    /\ UNCHANGED written

Spec == Init /\ [][Write \/ Deliver]_<<written, delivered>>
=============================================================================
