------------------------------ MODULE MSTHash ------------------------------
(***************************************************************************)
(* The class MST_Hash of Protocol.h: it lays an AuthPlaintext PDU out in a *)
(* buffer it owns and keeps between calls (so a PDU is built on top of the *)
(* remains of an earlier, larger one), and it checks and opens the PDUs    *)
(* of the partner.                                                         *)
(*                                                                         *)
(* An octet is the part of the PDU it belongs to; what AES computes is     *)
(* left out, and DMHash has the hash.  A PDU altered on its way fails the  *)
(* comparison of hashes (no collisions).                                   *)
(***************************************************************************)
EXTENDS AuthPlaintext, Octets, DMHash, Integers

CONSTANTS Lengths,     \* plaintext lengths the callers try
          MaxPDU       \* the limit of checkAndExtractPlaintext: 1001000000

ASSUME LengthsAssumption == Lengths \subseteq 0..UIntMax /\ MaxPDU \in Nat

VARIABLES outputBuffer,      \* [0..outputBufferSize-1 -> Parts]
          outputBufferSize,
          pdu,               \* what the last successful call returned
          extracted          \* what the check of that PDU made of it

vars == <<outputBuffer, outputBufferSize, pdu, extracted>>

Parts == {"undefined", "length", "text", "zero", "hash", "masked"}

NoPDU == [size |-> 0, length |-> 0, field |-> Int2Octets(0), masked |-> FALSE]

NotChecked == -2
Refused    == -1
-----------------------------------------------------------------------------
Init ==
    /\ outputBuffer = [k \in 0..-1 |-> "undefined"]
    /\ outputBufferSize = 0
    /\ pdu = NoPDU
    /\ extracted = NotChecked

\* A buffer that is kept although it is too small for the PDU.
EnsuredSizeKept(needed) == IF outputBufferSize = 0 THEN needed ELSE outputBufferSize

\* The buffer is replaced by one of the needed size when it is too small.
EnsuredSize(needed) == IF outputBufferSize < needed THEN needed ELSE outputBufferSize

\* Its content: new memory is undefined, kept memory holds the previous PDU.
Ensured(needed) ==
    IF outputBufferSize < needed
    THEN [k \in 0..needed-1 |-> "undefined"]
    ELSE outputBuffer

\* A PDU written without the loop over the padding.
WithPDUUnpadded(buffer, length) ==
    [k \in DOMAIN buffer |->
        CASE k < LengthSize                               -> "length"
          [] k \in LengthSize .. LengthSize + length - 1  -> "text"
          [] k \in HashPosition(length) ..
                   HashPosition(length) + HashWordSize - 1 -> "hash"
          [] OTHER                                        -> buffer[k]]

\* int2Octets, memcpy, the loop over the padding and the hash, in this order.
WithPDU(buffer, length) ==
    [k \in DOMAIN buffer |->
        CASE k < LengthSize                               -> "length"
          [] k \in LengthSize .. LengthSize + length - 1  -> "text"
          [] k \in LengthSize + length .. HashPosition(length) - 1 -> "zero"
          [] k \in HashPosition(length) ..
                   HashPosition(length) + HashWordSize - 1 -> "hash"
          [] OTHER                                        -> buffer[k]]

\* createAuthPlaintext past its guard; a refused call changes nothing.
CreateAuthPlaintext(length) ==
    /\ LengthAcceptable(length)
    /\ outputBufferSize' = EnsuredSize(NeededSize(length))
    /\ outputBuffer' = WithPDU(Ensured(NeededSize(length)), length)
    /\ pdu' = [size |-> NeededSize(length), length |-> length,
               field |-> Int2Octets(length), masked |-> FALSE]
    /\ extracted' = NotChecked

\* encryptToSecureMessage applies the masks to the returned buffer in place.
Mask ==
    /\ pdu # NoPDU /\ ~pdu.masked
    /\ outputBuffer' = [k \in DOMAIN outputBuffer |->
                           IF k < pdu.size THEN "masked" ELSE outputBuffer[k]]
    /\ pdu' = [pdu EXCEPT !.masked = TRUE]
    /\ UNCHANGED <<outputBufferSize, extracted>>

\* What an off-by-one of the last comparison of the check would extract.
ExtractTooStrict(size, field, damaged) ==
    IF /\ size <= MaxPDU /\ WellFormedSize(size) /\ ~damaged
       /\ Octets2Int(field) + HashWordSize < size - HashWordSize
    THEN Octets2Int(field)
    ELSE Refused

\* checkAndExtractPlaintext: the size limits, the comparison of the hashes,
\* the comparison of the length field with the authenticated length.
Extract(size, field, damaged) ==
    IF /\ size <= MaxPDU /\ WellFormedSize(size) /\ ~damaged
       /\ Octets2Int(field) < size - HashWordSize
    THEN Octets2Int(field)
    ELSE Refused

\* The partner checks the PDU as it was made.
CheckIntact ==
    /\ pdu # NoPDU
    /\ extracted' = Extract(pdu.size, pdu.field, FALSE)
    /\ UNCHANGED <<outputBuffer, outputBufferSize, pdu>>

\* The partner checks a PDU that was altered or cut on its way.
CheckDamaged ==
    /\ pdu # NoPDU
    /\ \E size \in {pdu.size, pdu.size - 1, pdu.size - HashWordSize} :
          extracted' = Extract(size, pdu.field, TRUE)
    /\ UNCHANGED <<outputBuffer, outputBufferSize, pdu>>

Next ==
    \/ \E length \in Lengths : CreateAuthPlaintext(length)
    \/ Mask
    \/ CheckIntact
    \/ CheckDamaged

Spec == Init /\ [][Next]_vars
-----------------------------------------------------------------------------
TypeOK ==
    /\ outputBufferSize \in 0..UIntMax
    /\ outputBuffer \in [0..outputBufferSize-1 -> Parts]
    /\ pdu \in [size : 0..UIntMax, length : 0..UIntMax,
                field : FourOctets, masked : BOOLEAN]
    /\ extracted \in {NotChecked, Refused} \cup 0..UIntMax

\* The PDU of Protocol.txt line 22 is complete inside the buffer that is
\* returned: its length field, all of the plaintext, at least one zero octet
\* (the callers print the plaintext as a C string, and this octet ends it),
\* nothing undefined or left over from an earlier PDU, and the hash last.
PDULayout ==
    pdu # NoPDU /\ ~pdu.masked =>
        LET text == LengthSize + pdu.length
            hash == pdu.size - HashWordSize
        IN  /\ pdu.size <= outputBufferSize
            /\ pdu.size % HashWordSize = 0
            /\ text < hash
            /\ \A k \in 0..LengthSize-1 : outputBuffer[k] = "length"
            /\ \A k \in LengthSize..text-1 : outputBuffer[k] = "text"
            /\ \A k \in text..hash-1 : outputBuffer[k] = "zero"
            /\ \A k \in hash..pdu.size-1 : outputBuffer[k] = "hash"

\* The words of the buffer that come before the hash.
HashedWords ==
    [w \in 1 .. HashPosition(pdu.length) \div HashWordSize |->
        [k \in 1..HashWordSize |-> outputBuffer[(w - 1) * HashWordSize + k - 1]]]

\* The hash of the PDU that createAuthPlaintext has laid out follows the recurrence
\* of Protocol.txt (line 18) over all its words, in their order, whatever their
\* ciphers are and however often the buffers have changed roles.  Only the
\* recurrence is the document's: the first state and the AES of a state are
\* those of the code, see HashAsDocumented.
HashChainsWords ==
    pdu # NoPDU /\ ~pdu.masked =>
        \A aes \in [Range(HashedWords) -> Ciphers] :
            Hash(aes, HashedWords) =
                DaviesMeyer(Thrice(aes, HashedWords), Begin[1], Len(HashedWords))

\* The hash of a PDU is the one of Protocol.txt, which begins with zero (line
\* 20), for one of the readings of AES of 32 octets.  It is not: the code begins
\* with the octets 0..31.
HashAsDocumented ==
    pdu # NoPDU /\ ~pdu.masked =>
        \A aes \in [Range(HashedWords) -> Ciphers] :
            \E E \in {Thrice(aes, HashedWords), Halfwise(aes, HashedWords)} :
                Hash(aes, HashedWords) = DaviesMeyer(E, Zero, Len(HashedWords))

\* What createAuthPlaintext made of a plaintext, checkAndExtractPlaintext
\* turns back into a plaintext of the same length, at every boundary of the
\* padding, unless the PDU is beyond the limit of the check.
RoundTrip ==
    [][CheckIntact /\ pdu.size <= MaxPDU => extracted' = pdu.length]_vars
=============================================================================
