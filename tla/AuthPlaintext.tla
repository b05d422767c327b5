--------------------------- MODULE AuthPlaintext ---------------------------
(***************************************************************************)
(* The size arithmetic of the AuthPlaintext and SecureMessage PDUs, shared *)
(* by MSTHash (which lays the octets out) and MSTEndpoint (which consumes  *)
(* one value of the masking counter per 16 octets).  A PDU is              *)
(*                                                                         *)
(*     length (4)  plaintext (length)  zeros (1..32)  hash (32)            *)
(*                                                                         *)
(* and the arithmetic is done in uint32_t, so the total is reduced modulo  *)
(* UIntMax + 1.                                                            *)
(***************************************************************************)
EXTENDS Naturals

CONSTANT UIntMax      \* UINT_MAX of the build: 2^32-1, smaller for TLC

ASSUME UIntMaxAssumption == UIntMax \in Nat \ 0..67

HashWordSize == 32
LengthSize   == 4     \* octets written by Util::int2Octets
AES_WORDSIZE == 16

\* Number of zero octets after the plaintext.
LaengePadding(length) ==
    HashWordSize - ((length + LengthSize) % HashWordSize)

\* Where the hash starts: the octets before it are what is hashed.
HashPosition(length) == length + LengthSize + LaengePadding(length)

\* The size that is allocated and sent, as computed in uint32_t.
NeededSize(length) == (HashPosition(length) + HashWordSize) % (UIntMax + 1)

\* The guard of createAuthPlaintext.
LengthAcceptable(length) ==
    length # 0 /\ length <= UIntMax - HashWordSize - LengthSize

\* The lengths for which NeededSize is not reduced.
LengthFits(length) ==
    length # 0 /\ length <= UIntMax - 2 * HashWordSize - LengthSize

\* The size check that decryptSecureMessage and checkAndExtractPlaintext share.
WellFormedSize(size) ==
    size >= 2 * HashWordSize /\ size % HashWordSize = 0

\* The masks one PDU of this size consumes: the loops step by AES_WORDSIZE.
Blocks(size) == (size + AES_WORDSIZE - 1) \div AES_WORDSIZE
=============================================================================
