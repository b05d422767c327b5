------------------------------- MODULE Octets -------------------------------
(***************************************************************************)
(* How Util.h writes a 32 bit number into four octets, the least           *)
(* significant one first, and reads it back.  Used by the length field of  *)
(* the AuthPlaintext PDU and by the numbers of the example protocol.       *)
(***************************************************************************)
EXTENDS Naturals

Octet == 0..255
FourOctets == [0..3 -> Octet]

\* v >>= 8, i times.
Shifted(v, i) ==
    CASE i = 0 -> v
      [] i = 1 -> v \div 256
      [] i = 2 -> (v \div 256) \div 256
      [] i = 3 -> ((v \div 256) \div 256) \div 256

\* The numbers a uint32_t holds.
FitsFourOctets(v) == Shifted(v, 3) < 256

Int2Octets(v) == [i \in 0..3 |-> Shifted(v, i) % 256]

Octets2Int(octets) ==
    octets[0] + 256 * (octets[1] + 256 * (octets[2] + 256 * octets[3]))
=============================================================================
