--------------------------- MODULE MSTHashProofs ---------------------------
(***************************************************************************)
(* The layout of the PDUs MST_Hash builds and their round trip through the *)
(* partner's check, for any lengths up to UINT_MAX-68 in any order; a      *)
(* property of the hash at their end, for halves of any number of bits;    *)
(* and that both partners' calls of AES agree, for any S-box that has an   *)
(* inverse.                                                                *)
(***************************************************************************)
EXTENDS MSTHash, AES, NumberProofs, SequenceTheorems

LEMMA NeededSizeTyped ==
    ASSUME NEW length \in Nat
    PROVE  NeededSize(length) \in 0..UIntMax
<1>1. HashPosition(length) + HashWordSize \in Nat
  BY PaddingFillsWord DEF HashWordSize
<1> QED
  BY <1>1, UIntMaxAssumption DEF NeededSize

LEMMA ExtractTyped ==
    ASSUME NEW size \in Int, size <= UIntMax, NEW field \in FourOctets,
           NEW damaged \in BOOLEAN
    PROVE  Extract(size, field, damaged) \in {Refused} \cup 0..UIntMax
<1>1. Octets2Int(field) \in Nat
  <2>1. \A i \in 0..3 : field[i] \in Nat
    BY DEF FourOctets, Octet
  <2> QED
    BY <2>1 DEF Octets2Int
<1> QED
  BY <1>1, UIntMaxAssumption DEF Extract, HashWordSize

LEMMA Int2OctetsTyped == ASSUME NEW v \in Nat PROVE Int2Octets(v) \in FourOctets
<1>1. \A i \in 0..3 : Shifted(v, i) \in Nat
  <2>1. /\ v \div 256 \in Nat /\ (v \div 256) \div 256 \in Nat
        /\ ((v \div 256) \div 256) \div 256 \in Nat
    OBVIOUS
  <2> QED
    BY <2>1 DEF Shifted
<1>2. \A n \in Nat : n % 256 \in 0..255
  OBVIOUS
<1> QED
  BY <1>1, <1>2 DEF Int2Octets, FourOctets, Octet

\* The kept buffer and the size kept beside it stay together, also when the
\* size of the PDU is reduced modulo 2^32 (lengths past UINT_MAX-68), and no
\* check hands out a length that uint32_t does not hold.
THEOREM TypeCorrect == Spec => []TypeOK
<1>1. Init => TypeOK
  BY Int2OctetsTyped, UIntMaxAssumption DEF Init, TypeOK, NoPDU, NotChecked
<1>2. TypeOK /\ [Next]_vars => TypeOK'
  <2> SUFFICES ASSUME TypeOK, [Next]_vars PROVE TypeOK'
    OBVIOUS
  <2> USE DEF TypeOK
  <2>1. ASSUME NEW length \in Lengths, CreateAuthPlaintext(length) PROVE TypeOK'
    <3> DEFINE needed == NeededSize(length)
    <3>1. length \in 0..UIntMax /\ length \in Nat
      BY LengthsAssumption, UIntMaxAssumption
    <3>2. needed \in 0..UIntMax
      BY <3>1, NeededSizeTyped
    <3>3. /\ EnsuredSize(needed) \in 0..UIntMax
          /\ Ensured(needed) \in [0..EnsuredSize(needed)-1 -> Parts]
      BY <3>2, UIntMaxAssumption DEF EnsuredSize, Ensured, Parts
    <3>4. WithPDU(Ensured(needed), length) \in [0..EnsuredSize(needed)-1 -> Parts]
      <4> HIDE DEF needed
      <4> QED
        BY <3>3 DEF WithPDU, Parts
    <3>5. Int2Octets(length) \in FourOctets
      BY <3>1, Int2OctetsTyped
    <3>6. pdu' \in [size : 0..UIntMax, length : 0..UIntMax,
                    field : FourOctets, masked : BOOLEAN]
      BY <2>1, <3>1, <3>2, <3>5 DEF CreateAuthPlaintext
    <3> QED
      BY <2>1, <3>3, <3>4, <3>6 DEF CreateAuthPlaintext
  <2>2. CASE Mask
    BY <2>2 DEF Mask, Parts
  <2>3. CASE CheckIntact
    <3>1. pdu.size \in Int /\ pdu.size <= UIntMax /\ pdu.field \in FourOctets
      BY UIntMaxAssumption
    <3>2. extracted' \in {Refused} \cup 0..UIntMax
      BY <2>3, <3>1, ExtractTyped DEF CheckIntact
    <3> QED
      BY <2>3, <3>2 DEF CheckIntact
  <2>4. CASE CheckDamaged
    <3>1. PICK size \in {pdu.size, pdu.size - 1, pdu.size - HashWordSize} :
             extracted' = Extract(size, pdu.field, TRUE)
      BY <2>4 DEF CheckDamaged
    <3>2. size \in Int /\ size <= UIntMax /\ pdu.field \in FourOctets
      BY <3>1, UIntMaxAssumption DEF HashWordSize
    <3>3. extracted' \in {Refused} \cup 0..UIntMax
      BY <3>1, <3>2, ExtractTyped
    <3> QED
      BY <2>4, <3>3 DEF CheckDamaged
  <2>5. CASE UNCHANGED vars
    BY <2>5 DEF vars
  <2> QED
    BY <2>1, <2>2, <2>3, <2>4, <2>5 DEF Next
<1> QED
  BY <1>1, <1>2, PTL DEF Spec

\* The callers use no length whose PDU size is reduced modulo 2^32.
LengthsFit == \A length \in Lengths : LengthAcceptable(length) => LengthFits(length)

\* The buffer really has the size that is kept beside it.
BufferInv ==
    /\ outputBufferSize \in Nat
    /\ DOMAIN outputBuffer = 0..outputBufferSize-1

\* The size and the length field of a PDU belong to its plaintext.
PDUInv ==
    pdu # NoPDU =>
        /\ pdu.length \in Lengths /\ LengthAcceptable(pdu.length)
        /\ pdu.size = NeededSize(pdu.length)
        /\ pdu.field = Int2Octets(pdu.length)

IndInv == BufferInv /\ PDUInv /\ PDULayout

\* Reading back the four octets of a number gives the number (Util.h).
THEOREM OctetsRoundTrip ==
    ASSUME NEW v \in Nat, FitsFourOctets(v)
    PROVE  Octets2Int(Int2Octets(v)) = v
<1>1. /\ Int2Octets(v)[0] = v % 256
      /\ Int2Octets(v)[1] = (v \div 256) % 256
      /\ Int2Octets(v)[2] = ((v \div 256) \div 256) % 256
      /\ Int2Octets(v)[3] = (((v \div 256) \div 256) \div 256) % 256
  BY DEF Int2Octets, Shifted
<1>2. ((v \div 256) \div 256) \div 256 < 256
  BY DEF FitsFourOctets, Shifted
<1> QED
  BY <1>1, <1>2 DEF Octets2Int

LEMMA CreatedLayout ==
    ASSUME BufferInv, NEW length \in Nat, LengthFits(length),
           CreateAuthPlaintext(length)
    PROVE  BufferInv' /\ PDULayout'
<1> DEFINE needed == NeededSize(length)
           base   == Ensured(needed)
           text   == LengthSize + length
           hash   == HashPosition(length)
<1>1. /\ needed = hash + HashWordSize
      /\ needed \in Nat
      /\ needed % HashWordSize = 0
  BY NeededSizeExact, UIntMaxAssumption DEF WellFormedSize
<1>2. /\ hash \in Nat
      /\ text \in Nat
      /\ text < hash
      /\ LengthSize <= text
  <2>1. hash \in Nat /\ length + LengthSize < hash
    BY PaddingFillsWord
  <2> QED
    BY <2>1 DEF LengthSize
<1>3. /\ EnsuredSize(needed) \in Nat
      /\ needed <= EnsuredSize(needed)
      /\ DOMAIN base = 0..EnsuredSize(needed)-1
  BY <1>1 DEF BufferInv, EnsuredSize, Ensured
<1>4. /\ outputBufferSize' = EnsuredSize(needed)
      /\ outputBuffer' = WithPDU(base, length)
      /\ pdu'.size = needed /\ pdu'.length = length
  BY DEF CreateAuthPlaintext
<1>5. DOMAIN outputBuffer' = 0..outputBufferSize'-1
  BY <1>3, <1>4 DEF WithPDU
<1>6. \A k \in 0..needed-1 :
          /\ k \in DOMAIN base
          /\ outputBuffer'[k] =
               CASE k < LengthSize -> "length"
                 [] k \in LengthSize .. LengthSize + length - 1 -> "text"
                 [] k \in LengthSize + length .. hash - 1 -> "zero"
                 [] k \in hash .. hash + HashWordSize - 1 -> "hash"
                 [] OTHER -> base[k]
  <2>1. \A k \in 0..needed-1 : k \in DOMAIN base
    BY <1>1, <1>3
  <2> QED
    BY <2>1, <1>4 DEF WithPDU
<1>7. /\ \A k \in 0..LengthSize-1 : outputBuffer'[k] = "length"
      /\ \A k \in LengthSize..text-1 : outputBuffer'[k] = "text"
      /\ \A k \in text..hash-1 : outputBuffer'[k] = "zero"
      /\ \A k \in hash..needed-1 : outputBuffer'[k] = "hash"
  BY <1>1, <1>2, <1>6 DEF LengthSize, HashWordSize
<1>8. BufferInv'
  BY <1>3, <1>4, <1>5 DEF BufferInv
<1>9. PDULayout'
  <2>1. pdu'.size - HashWordSize = hash
    BY <1>1, <1>2, <1>4 DEF HashWordSize
  <2> QED
    BY <2>1, <1>1, <1>2, <1>3, <1>4, <1>7 DEF PDULayout
<1> QED
  BY <1>8, <1>9

LEMMA IndInvStep ==
    ASSUME LengthsFit, IndInv, [Next]_vars
    PROVE  IndInv'
<1>1. ASSUME NEW length \in Lengths, CreateAuthPlaintext(length) PROVE IndInv'
  <2>1. length \in Nat /\ LengthFits(length)
    BY <1>1, LengthsAssumption, UIntMaxAssumption
       DEF LengthsFit, CreateAuthPlaintext
  <2>2. BufferInv' /\ PDULayout'
    BY <1>1, <2>1, CreatedLayout DEF IndInv
  <2>3. PDUInv'
    BY <1>1, <2>1 DEF PDUInv, CreateAuthPlaintext
  <2> QED
    BY <2>2, <2>3 DEF IndInv
<1>2. CASE Mask
  <2>1. BufferInv'
    BY <1>2 DEF IndInv, BufferInv, Mask
  <2>2. pdu' = [pdu EXCEPT !.masked = TRUE]
    BY <1>2 DEF Mask
  <2>3. PDUInv'
    BY <1>2 DEF IndInv, PDUInv, Mask, NoPDU
  <2>4. PDULayout'
    BY <1>2 DEF PDULayout, Mask, NoPDU
  <2> QED
    BY <2>1, <2>3, <2>4 DEF IndInv
<1>3. CASE CheckIntact
  BY <1>3 DEF IndInv, BufferInv, PDUInv, PDULayout, CheckIntact
<1>4. CASE CheckDamaged
  BY <1>4 DEF IndInv, BufferInv, PDUInv, PDULayout, CheckDamaged
<1>5. CASE UNCHANGED vars
  BY <1>5 DEF IndInv, BufferInv, PDUInv, PDULayout, vars
<1> QED
  BY <1>1, <1>2, <1>3, <1>4, <1>5 DEF Next

LEMMA IndInvInvariant == ASSUME LengthsFit PROVE Spec => []IndInv
<1>1. Init => IndInv
  BY DEF Init, IndInv, BufferInv, PDUInv, PDULayout
<1>2. IndInv /\ [Next]_vars => IndInv'
  BY IndInvStep
<1> QED
  BY <1>1, <1>2, PTL DEF Spec

\* Every PDU createAuthPlaintext returns has the layout of Protocol.txt line
\* 22 inside the buffer, whatever PDUs the kept buffer held before.
THEOREM LayoutTheorem == ASSUME LengthsFit PROVE Spec => []PDULayout
<1>1. IndInv => PDULayout
  BY DEF IndInv
<1> QED
  BY <1>1, IndInvInvariant, PTL

\* The partner's check returns the plaintext of every PDU within its limit,
\* if unsigned int has at most 32 bits.
THEOREM RoundTripTheorem ==
    ASSUME LengthsFit, \A v \in 0..UIntMax : FitsFourOctets(v)
    PROVE  Spec => RoundTrip
<1>1. IndInv /\ [Next]_vars =>
         [CheckIntact /\ pdu.size <= MaxPDU => extracted' = pdu.length]_vars
  <2> SUFFICES ASSUME IndInv, CheckIntact, pdu.size <= MaxPDU
               PROVE  extracted' = pdu.length
    OBVIOUS
  <2>1. pdu # NoPDU
    BY DEF CheckIntact
  <2>2. PICK length \in Lengths : /\ length = pdu.length /\ LengthAcceptable(length)
                                 /\ pdu.size = NeededSize(length)
                                 /\ pdu.field = Int2Octets(length)
    BY <2>1 DEF IndInv, PDUInv
  <2>3. length \in Nat /\ LengthFits(length) /\ FitsFourOctets(length)
    BY <2>2, LengthsAssumption, UIntMaxAssumption DEF LengthsFit
  <2>4. Octets2Int(pdu.field) = length
    BY <2>2, <2>3, OctetsRoundTrip
  <2>5. /\ WellFormedSize(pdu.size)
        /\ pdu.size - HashWordSize = HashPosition(length)
    <3>1. /\ NeededSize(length) = HashPosition(length) + HashWordSize
          /\ WellFormedSize(NeededSize(length))
      BY <2>3, NeededSizeExact
    <3>2. HashPosition(length) \in Nat
      BY <2>3, PaddingFillsWord
    <3> QED
      BY <2>2, <3>1, <3>2 DEF HashWordSize
  <2>6. length < HashPosition(length)
    <3>1. HashPosition(length) \in Nat /\ length + LengthSize < HashPosition(length)
      BY <2>3, PaddingFillsWord
    <3> QED
      BY <2>3, <3>1 DEF LengthSize
  <2> QED
    BY <2>2, <2>4, <2>5, <2>6 DEF CheckIntact, Extract
<1> QED
  BY <1>1, IndInvInvariant, PTL DEF Spec, RoundTrip
-----------------------------------------------------------------------------
LEMMA XorCancels ==
    ASSUME NEW a, NEW b, NEW c, SymDiff(a, c) = SymDiff(b, c)
    PROVE  a = b
  BY DEF SymDiff

\* A round of the hash, before the old state is added to it, takes different
\* states to different states, whatever permutation AES is: the second half
\* tells what the first encryption made, and this both halves of the state.
THEOREM RoundTheorem == RoundPermutes
<1> SUFFICES ASSUME NEW E \in Ciphers, NEW s \in States, NEW t \in States,
                    Encrypted(E, s) = Encrypted(E, t)
             PROVE  s = t
  BY DEF RoundPermutes
<1> DEFINE firstS  == E[s[1]]
           firstT  == E[t[1]]
           secondS == E[SymDiff(s[2], firstS)]
           secondT == E[SymDiff(t[2], firstT)]
<1>1. /\ E \in [Halves -> Halves]
      /\ \A a, b \in Halves : E[a] = E[b] => a = b
      /\ \A a, b \in Halves : SymDiff(a, b) \in Halves
      /\ s[1] \in Halves /\ s[2] \in Halves /\ t[1] \in Halves /\ t[2] \in Halves
  BY DEF Ciphers, States, Halves, SymDiff
<1>2. /\ firstS \in Halves /\ firstT \in Halves
      /\ SymDiff(s[2], firstS) \in Halves /\ SymDiff(t[2], firstT) \in Halves
      /\ secondS \in Halves /\ secondT \in Halves
  BY <1>1
<1>3. /\ secondS = secondT
      /\ E[SymDiff(firstS, secondS)] = E[SymDiff(firstT, secondT)]
  BY DEF Encrypted
<1>4. SymDiff(firstS, secondS) = SymDiff(firstT, secondS)
  BY <1>1, <1>2, <1>3
<1>5. firstS = firstT
  BY <1>4, XorCancels
<1>6. s[1] = t[1]
  BY <1>1, <1>5
<1>7. SymDiff(s[2], firstS) = SymDiff(t[2], firstS)
  BY <1>1, <1>2, <1>3, <1>5
<1>8. s[2] = t[2]
  BY <1>7, XorCancels
<1> QED
  BY <1>6, <1>8 DEF States
-----------------------------------------------------------------------------
\* The buffers of hash: their roles differ, and both hold a state.
Buffers == {s \in [buffer : [1..2 -> States], in : 1..2, out : 1..2] : s.in # s.out}

LEMMA EncryptedTyped ==
    ASSUME NEW E \in Ciphers, NEW s \in States
    PROVE  Encrypted(E, s) \in States
<1>1. /\ E \in [Halves -> Halves] /\ s[1] \in Halves /\ s[2] \in Halves
      /\ \A a, b \in Halves : SymDiff(a, b) \in Halves
  BY DEF Ciphers, States, Halves, SymDiff
<1> QED
  BY <1>1 DEF Encrypted, States

\* What a word makes of a state.
Chained(E, s) == XorStates(Encrypted(E, s), s)

LEMMA ChainedTyped ==
    ASSUME NEW E \in Ciphers, NEW s \in States
    PROVE  Chained(E, s) \in States
<1>1. Encrypted(E, s) \in States
  BY EncryptedTyped
<1>2. \A a, b \in Halves : SymDiff(a, b) \in Halves
  BY DEF Halves, SymDiff
<1> QED
  BY <1>1, <1>2 DEF Chained, XorStates, States

\* A round leaves the result in the buffer that the next one reads.
LEMMA RoundChains ==
    ASSUME NEW E \in Ciphers, NEW s \in Buffers
    PROVE  /\ Round(E, s) \in Buffers
           /\ Round(E, s).buffer[Round(E, s).in] = Chained(E, s.buffer[s.in])
<1>1. /\ s.buffer \in [1..2 -> States] /\ s.in \in 1..2 /\ s.out \in 1..2
      /\ s.in # s.out
  BY DEF Buffers
<1>2. Chained(E, s.buffer[s.in]) \in States
  BY <1>1, ChainedTyped
<1>3. Round(E, s) = [buffer |-> [s.buffer EXCEPT ![s.out] = Chained(E, s.buffer[s.in])],
                     in |-> s.out, out |-> s.in]
  BY DEF Round, Chained
<1> QED
  BY <1>1, <1>2, <1>3 DEF Buffers

LEMMA HashIsChain ==
    ASSUME NEW W, NEW words \in Seq(W), words # << >>, NEW aes \in [W -> Ciphers]
    PROVE  Hash(aes, words) = DaviesMeyer(Thrice(aes, words), Begin[1], Len(words))
<1> DEFINE N == Len(words)
           AES32 == Thrice(aes, words)
           begin == [buffer |-> Begin, in |-> 1, out |-> 2]
           nextBuffers == [p \in Nat \X Buffers |->
                              IF p[1] \in 1..N THEN Round(aes[words[p[1]]], p[2]) ELSE p[2]]
           nextState == [p \in Nat \X States |->
                            IF p[1] \in 1..N THEN Chained(aes[words[p[1]]], p[2]) ELSE p[2]]
           IsRounds(f) == f = [i \in 0..N |-> IF i = 0 THEN begin
                                              ELSE Round(aes[words[i]], f[i-1])]
           IsChain(f) == f = [i \in 0..N |-> IF i = 0 THEN Begin[1]
                                             ELSE XorStates(AES32[i][f[i-1]], f[i-1])]
           after == CHOOSE after : IsRounds(after)
           H == CHOOSE H : IsChain(H)
<1>1. N \in Nat /\ N \in 0..N /\ \A i \in 1..N : aes[words[i]] \in Ciphers
  <2>1. N \in Nat /\ \A i \in 1..N : words[i] \in W
    BY LenProperties, ElementOfSeq
  <2> QED
    BY <2>1
<1>2. begin \in Buffers /\ Begin[1] \in States /\ begin.buffer[begin.in] = Begin[1]
  BY BeginAssumption DEF Buffers
<1>3. \A i \in 1..N : \A s \in States :
          XorStates(AES32[i][s], s) = Chained(aes[words[i]], s)
  BY DEF Thrice, Chained
<1> HIDE DEF AES32
<1>4. IsRounds(after)
  <2>1. nextBuffers \in [Nat \X Buffers -> Buffers]
    BY <1>1, RoundChains
  <2>2. PICK f \in [0..N -> Buffers] : IsRecursive(f, N, begin, nextBuffers)
    <3> HIDE DEF nextBuffers, begin, N
    <3> QED
      BY <1>1, <1>2, <2>1, RecursionExists
  <2>3. ASSUME NEW i \in 0..N
        PROVE  f[i] = IF i = 0 THEN begin ELSE Round(aes[words[i]], f[i-1])
    <3>1. f[i] = IF i = 0 THEN begin ELSE nextBuffers[i, f[i-1]]
      BY <2>2 DEF IsRecursive
    <3>2. i # 0 => i \in Nat /\ i - 1 \in 0..N /\ i \in 1..N
      BY <1>1
    <3>3. i # 0 => f[i-1] \in Buffers
      BY <2>2, <3>2
    <3> QED
      BY <3>1, <3>2, <3>3
  <2>4. IsRounds(f)
    BY <2>2, <2>3
  <2> HIDE DEF IsRounds
  <2> QED
    BY <2>4
<1>5. IsChain(H)
  <2>1. nextState \in [Nat \X States -> States]
    BY <1>1, ChainedTyped
  <2>2. PICK f \in [0..N -> States] : IsRecursive(f, N, Begin[1], nextState)
    <3> HIDE DEF nextState, N
    <3> QED
      BY <1>1, <1>2, <2>1, RecursionExists
  <2>3. ASSUME NEW i \in 0..N
        PROVE  f[i] = IF i = 0 THEN Begin[1] ELSE XorStates(AES32[i][f[i-1]], f[i-1])
    <3>1. f[i] = IF i = 0 THEN Begin[1] ELSE nextState[i, f[i-1]]
      BY <2>2 DEF IsRecursive
    <3>2. i # 0 => i \in Nat /\ i - 1 \in 0..N /\ i \in 1..N
      BY <1>1
    <3>3. i # 0 => f[i-1] \in States
      BY <2>2, <3>2
    <3> QED
      BY <1>3, <3>1, <3>2, <3>3
  <2>4. IsChain(f)
    BY <2>2, <2>3
  <2> HIDE DEF IsChain
  <2> QED
    BY <2>4
<1>6. /\ after[0] = begin /\ H[0] = Begin[1]
      /\ \A i \in 0..N-1 : /\ after[i+1] = Round(aes[words[i+1]], after[i])
                           /\ H[i+1] = XorStates(AES32[i+1][H[i]], H[i])
  <2>1. \A i \in 0..N : after[i] = IF i = 0 THEN begin
                                   ELSE Round(aes[words[i]], after[i-1])
    BY <1>4
  <2>2. \A i \in 0..N : H[i] = IF i = 0 THEN Begin[1]
                               ELSE XorStates(AES32[i][H[i-1]], H[i-1])
    BY <1>5
  <2> HIDE DEF after, H, begin, N
  <2>3. \A i \in 0..N-1 : i + 1 \in 0..N /\ i + 1 # 0 /\ (i + 1) - 1 = i
    BY <1>1
  <2>4. 0 \in 0..N
    BY <1>1
  <2> QED
    BY <2>1, <2>2, <2>3, <2>4
<1>7. Hash(aes, words) = after[N].buffer[after[N].in]
  BY DEF Hash
<1>8. DaviesMeyer(Thrice(aes, words), Begin[1], Len(words)) = H[N]
  BY DEF DaviesMeyer, AES32
<1> DEFINE S == {i \in 0..N : after[i] \in Buffers /\ after[i].buffer[after[i].in] = H[i]}
<1> HIDE DEF after, H, begin, N
<1>9. 0 \in S
  BY <1>1, <1>2, <1>6
<1>10. ASSUME NEW i \in 0..N-1, i \in S PROVE i + 1 \in S
  <2>1. i + 1 \in 0..N /\ i + 1 \in 1..N
    BY <1>1
  <2>2. aes[words[i+1]] \in Ciphers
    BY <1>1, <2>1
  <2>3. after[i] \in Buffers /\ after[i].buffer[after[i].in] = H[i]
    BY <1>10
  <2>4. /\ after[i+1] \in Buffers
        /\ after[i+1].buffer[after[i+1].in]
             = Chained(aes[words[i+1]], after[i].buffer[after[i].in])
    BY <1>6, <2>2, <2>3, RoundChains
  <2>5. H[i] \in States
    BY <2>3 DEF Buffers
  <2>6. H[i+1] = Chained(aes[words[i+1]], H[i])
    BY <1>6, <1>3, <2>1, <2>5
  <2> QED
    BY <2>1, <2>3, <2>4, <2>6
<1> HIDE DEF S
<1>11. 0..N \subseteq S
  BY <1>1, <1>9, <1>10, BoundedInduction
<1> QED
  BY <1>1, <1>7, <1>8, <1>11 DEF S

\* The hash that createAuthPlaintext writes behind the text follows the recurrence
\* of Protocol.txt over all its words, for texts of any length, halves of any
\* number of bits, any ciphers and any first state: the result is in the buffer
\* that is copied at the end, however often the two have changed roles.
THEOREM HashChainsTheorem == Spec => []HashChainsWords
<1>1. TypeOK => HashChainsWords
  <2> DEFINE n == HashPosition(pdu.length) \div HashWordSize
  <2> SUFFICES ASSUME TypeOK, NEW aes \in [Range(HashedWords) -> Ciphers]
               PROVE  Hash(aes, HashedWords) =
                          DaviesMeyer(Thrice(aes, HashedWords), Begin[1], Len(HashedWords))
    BY DEF HashChainsWords
  <2>1. n \in Nat /\ n >= 1
    <3>1. pdu.length \in Nat
      BY UIntMaxAssumption DEF TypeOK
    <3> QED
      BY <3>1, PaddingFillsWord DEF HashWordSize
  <2>2. DOMAIN HashedWords = 1..n /\ HashedWords = [w \in 1..n |-> HashedWords[w]]
    BY DEF HashedWords
  <2> HIDE DEF n
  <2>3. \A w \in 1..n : HashedWords[w] \in Range(HashedWords)
    BY <2>2 DEF Range
  <2>4. HashedWords \in Seq(Range(HashedWords)) /\ Len(HashedWords) = n
    BY <2>1, <2>2, <2>3, SeqDef, LenProperties
  <2>5. HashedWords # << >>
    BY <2>1, <2>4, EmptySeq
  <2> QED
    BY <2>4, <2>5, HashIsChain
<1> QED
  BY <1>1, TypeCorrect, PTL
-----------------------------------------------------------------------------
(* AES *)

\* XOR of bytes is a byte.
LEMMA SymDiffType ==
    ASSUME NEW a \in BYTE, NEW b \in BYTE PROVE SymDiff(a, b) \in BYTE
  BY DEF SymDiff, BYTE

\* XOR with the same again is undone, and a sum of sums may be regrouped.
LEMMA SymDiffTwice == ASSUME NEW a, NEW b PROVE SymDiff(SymDiff(a, b), b) = a
  BY DEF SymDiff

Sum(a, b, c, d) == SymDiff(SymDiff(a, b), SymDiff(c, d))

\* The sum of two sums of four is added place by place.
LEMMA SumOfTwo ==
    ASSUME NEW a, NEW b, NEW c, NEW d, NEW e, NEW f, NEW g, NEW h
    PROVE  SymDiff(Sum(a, b, c, d), Sum(e, f, g, h)) =
               Sum(SymDiff(a, e), SymDiff(b, f), SymDiff(c, g), SymDiff(d, h))
<1>1. \A p, q, r, s :
         SymDiff(SymDiff(p, q), SymDiff(r, s)) = SymDiff(SymDiff(p, r), SymDiff(q, s))
  BY DEF SymDiff
<1> QED
  BY ONLY <1>1 DEF Sum

\* Four sums of four may be added by columns as well as by rows.
LEMMA SumOfSums ==
    ASSUME NEW a, NEW b, NEW c, NEW d, NEW e, NEW f, NEW g, NEW h,
           NEW i, NEW j, NEW k, NEW l, NEW m, NEW n, NEW o, NEW p
    PROVE  Sum(Sum(a, b, c, d), Sum(e, f, g, h), Sum(i, j, k, l), Sum(m, n, o, p)) =
           Sum(Sum(a, e, i, m), Sum(b, f, j, n), Sum(c, g, k, o), Sum(d, h, l, p))
<1>1. \A x, y, z, w : SymDiff(SymDiff(x, y), SymDiff(z, w)) = Sum(x, y, z, w)
  BY DEF Sum
<1>2. SymDiff(Sum(a, b, c, d), Sum(e, f, g, h)) =
          Sum(SymDiff(a, e), SymDiff(b, f), SymDiff(c, g), SymDiff(d, h))
  BY SumOfTwo
<1>3. SymDiff(Sum(i, j, k, l), Sum(m, n, o, p)) =
          Sum(SymDiff(i, m), SymDiff(j, n), SymDiff(k, o), SymDiff(l, p))
  BY SumOfTwo
<1>4. SymDiff(Sum(SymDiff(a, e), SymDiff(b, f), SymDiff(c, g), SymDiff(d, h)),
              Sum(SymDiff(i, m), SymDiff(j, n), SymDiff(k, o), SymDiff(l, p))) =
      Sum(SymDiff(SymDiff(a, e), SymDiff(i, m)), SymDiff(SymDiff(b, f), SymDiff(j, n)),
          SymDiff(SymDiff(c, g), SymDiff(k, o)), SymDiff(SymDiff(d, h), SymDiff(l, p)))
  BY SumOfTwo
<1> QED
  BY <1>1, <1>2, <1>3, <1>4

\* Multiplication by two, and so by any coefficient of the table, distributes
\* over XOR.
LEMMA TwiceAdds ==
    ASSUME NEW a, NEW b PROVE Twice(SymDiff(a, b)) = SymDiff(Twice(a), Twice(b))
  BY DEF Twice, SymDiff

\* The columns of the table of multiples, in terms of multiplication by two.
LEMMA Products ==
    ASSUME NEW b
    PROVE  /\ gf_mul(b, 1) = b /\ gf_mul(b, 2) = Twice(b)
           /\ gf_mul(b, 3) = SymDiff(Twice(b), b)
           /\ gf_mul(b, 9) = SymDiff(Twice(Twice(Twice(b))), b)
           /\ gf_mul(b, 11) = SymDiff(Twice(Twice(Twice(b))), SymDiff(Twice(b), b))
           /\ gf_mul(b, 13) = SymDiff(Twice(Twice(Twice(b))), SymDiff(Twice(Twice(b)), b))
           /\ gf_mul(b, 14) =
                 SymDiff(Twice(Twice(Twice(b))), SymDiff(Twice(Twice(b)), Twice(b)))
  BY DEF gf_mul

Coefficients == {1, 2, 3, 9, 11, 13, 14}

\* Multiplication by a coefficient of either matrix distributes over XOR,
LEMMA ProductAdds ==
    ASSUME NEW a, NEW b, NEW n \in Coefficients
    PROVE  gf_mul(SymDiff(a, b), n) = SymDiff(gf_mul(a, n), gf_mul(b, n))
<1> DEFINE a2 == Twice(a)
           a4 == Twice(a2)
           a8 == Twice(a4)
           b2 == Twice(b)
           b4 == Twice(b2)
           b8 == Twice(b4)
           s  == SymDiff(a, b)
<1>1. /\ Twice(s) = SymDiff(a2, b2) /\ Twice(SymDiff(a2, b2)) = SymDiff(a4, b4)
      /\ Twice(SymDiff(a4, b4)) = SymDiff(a8, b8)
  BY TwiceAdds
<1>2. /\ gf_mul(a, 1) = a /\ gf_mul(a, 2) = a2 /\ gf_mul(a, 3) = SymDiff(a2, a)
      /\ gf_mul(a, 9) = SymDiff(a8, a) /\ gf_mul(a, 11) = SymDiff(a8, SymDiff(a2, a))
      /\ gf_mul(a, 13) = SymDiff(a8, SymDiff(a4, a))
      /\ gf_mul(a, 14) = SymDiff(a8, SymDiff(a4, a2))
  BY Products
<1>3. /\ gf_mul(b, 1) = b /\ gf_mul(b, 2) = b2 /\ gf_mul(b, 3) = SymDiff(b2, b)
      /\ gf_mul(b, 9) = SymDiff(b8, b) /\ gf_mul(b, 11) = SymDiff(b8, SymDiff(b2, b))
      /\ gf_mul(b, 13) = SymDiff(b8, SymDiff(b4, b))
      /\ gf_mul(b, 14) = SymDiff(b8, SymDiff(b4, b2))
  BY Products
<1>4. /\ gf_mul(s, 1) = s /\ gf_mul(s, 2) = Twice(s) /\ gf_mul(s, 3) = SymDiff(Twice(s), s)
      /\ gf_mul(s, 9) = SymDiff(Twice(Twice(Twice(s))), s)
      /\ gf_mul(s, 11) = SymDiff(Twice(Twice(Twice(s))), SymDiff(Twice(s), s))
      /\ gf_mul(s, 13) = SymDiff(Twice(Twice(Twice(s))), SymDiff(Twice(Twice(s)), s))
      /\ gf_mul(s, 14) = SymDiff(Twice(Twice(Twice(s))), SymDiff(Twice(Twice(s)), Twice(s)))
  BY Products
<1>5. s = SymDiff(a, b)
  OBVIOUS
<1> HIDE DEF a2, a4, a8, b2, b4, b8, s
<1>6. /\ gf_mul(s, 3) = SymDiff(SymDiff(a2, b2), SymDiff(a, b))
      /\ gf_mul(s, 9) = SymDiff(SymDiff(a8, b8), SymDiff(a, b))
      /\ gf_mul(s, 11) = SymDiff(SymDiff(a8, b8), SymDiff(SymDiff(a2, b2), SymDiff(a, b)))
      /\ gf_mul(s, 13) = SymDiff(SymDiff(a8, b8), SymDiff(SymDiff(a4, b4), SymDiff(a, b)))
      /\ gf_mul(s, 14) = SymDiff(SymDiff(a8, b8), SymDiff(SymDiff(a4, b4), SymDiff(a2, b2)))
  BY <1>1, <1>4, <1>5
<1>7. gf_mul(s, 1) = SymDiff(a, b) /\ gf_mul(s, 2) = SymDiff(a2, b2)
  BY <1>1, <1>4, <1>5
<1>8. gf_mul(s, n) = SymDiff(gf_mul(a, n), gf_mul(b, n))
  <2>1. /\ gf_mul(s, 3) = SymDiff(gf_mul(a, 3), gf_mul(b, 3))
        /\ gf_mul(s, 9) = SymDiff(gf_mul(a, 9), gf_mul(b, 9))
    BY <1>2, <1>3, <1>6 DEF SymDiff
  <2>2. gf_mul(s, 11) = SymDiff(gf_mul(a, 11), gf_mul(b, 11))
    BY <1>2, <1>3, <1>6 DEF SymDiff
  <2>3. gf_mul(s, 13) = SymDiff(gf_mul(a, 13), gf_mul(b, 13))
    BY <1>2, <1>3, <1>6 DEF SymDiff
  <2>4. gf_mul(s, 14) = SymDiff(gf_mul(a, 14), gf_mul(b, 14))
    BY <1>2, <1>3, <1>6 DEF SymDiff
  <2> QED
    BY <1>2, <1>3, <1>7, <2>1, <2>2, <2>3, <2>4 DEF Coefficients
<1> QED
  BY <1>5, <1>8

\* and over a sum of four.
LEMMA ProductOfSum ==
    ASSUME NEW a, NEW b, NEW c, NEW d, NEW n \in Coefficients
    PROVE  gf_mul(Sum(a, b, c, d), n) =
               Sum(gf_mul(a, n), gf_mul(b, n), gf_mul(c, n), gf_mul(d, n))
  BY ProductAdds DEF Sum

\* The product of the two matrices is the unit matrix.
LEMMA UnitMatrix ==
    ASSUME NEW b \in BYTE
    PROVE  /\ Sum(gf_mul(gf_mul(b, 2), 14), gf_mul(gf_mul(b, 1), 11),
                  gf_mul(gf_mul(b, 1), 13), gf_mul(gf_mul(b, 3), 9)) = b
           /\ Sum(gf_mul(gf_mul(b, 3), 14), gf_mul(gf_mul(b, 2), 11),
                  gf_mul(gf_mul(b, 1), 13), gf_mul(gf_mul(b, 1), 9)) = {}
           /\ Sum(gf_mul(gf_mul(b, 1), 14), gf_mul(gf_mul(b, 3), 11),
                  gf_mul(gf_mul(b, 2), 13), gf_mul(gf_mul(b, 1), 9)) = {}
           /\ Sum(gf_mul(gf_mul(b, 1), 14), gf_mul(gf_mul(b, 1), 11),
                  gf_mul(gf_mul(b, 3), 13), gf_mul(gf_mul(b, 2), 9)) = {}
<1> DEFINE b2 == Twice(b)
           b4 == Twice(b2)
           b8 == Twice(b4)
           b16 == Twice(b8)
<1>1. /\ gf_mul(b, 1) = b /\ gf_mul(b, 2) = b2 /\ gf_mul(b, 3) = SymDiff(b2, b)
      /\ gf_mul(b, 9) = SymDiff(b8, b) /\ gf_mul(b, 11) = SymDiff(b8, SymDiff(b2, b))
      /\ gf_mul(b, 13) = SymDiff(b8, SymDiff(b4, b))
      /\ gf_mul(b, 14) = SymDiff(b8, SymDiff(b4, b2))
  BY Products
<1>2. /\ gf_mul(b2, 9) = SymDiff(b16, b2) /\ gf_mul(b2, 11) = SymDiff(b16, SymDiff(b4, b2))
      /\ gf_mul(b2, 13) = SymDiff(b16, SymDiff(b8, b2))
      /\ gf_mul(b2, 14) = SymDiff(b16, SymDiff(b8, b4))
  BY Products
<1>3. /\ 9 \in Coefficients /\ 11 \in Coefficients
      /\ 13 \in Coefficients /\ 14 \in Coefficients
  BY DEF Coefficients
<1>4. /\ gf_mul(SymDiff(b2, b), 9) = SymDiff(gf_mul(b2, 9), gf_mul(b, 9))
      /\ gf_mul(SymDiff(b2, b), 11) = SymDiff(gf_mul(b2, 11), gf_mul(b, 11))
      /\ gf_mul(SymDiff(b2, b), 13) = SymDiff(gf_mul(b2, 13), gf_mul(b, 13))
      /\ gf_mul(SymDiff(b2, b), 14) = SymDiff(gf_mul(b2, 14), gf_mul(b, 14))
  BY <1>3, ProductAdds
<1> HIDE DEF b2, b4, b8, b16
<1>5. Sum(gf_mul(b2, 14), gf_mul(b, 11), gf_mul(b, 13), gf_mul(SymDiff(b2, b), 9)) = b
  BY <1>1, <1>2, <1>4 DEF Sum, SymDiff
<1>6. Sum(gf_mul(SymDiff(b2, b), 14), gf_mul(b2, 11), gf_mul(b, 13), gf_mul(b, 9)) = {}
  BY <1>1, <1>2, <1>4 DEF Sum, SymDiff
<1>7. Sum(gf_mul(b, 14), gf_mul(SymDiff(b2, b), 11), gf_mul(b2, 13), gf_mul(b, 9)) = {}
  BY <1>1, <1>2, <1>4 DEF Sum, SymDiff
<1>8. Sum(gf_mul(b, 14), gf_mul(b, 11), gf_mul(SymDiff(b2, b), 13), gf_mul(b2, 9)) = {}
  BY <1>1, <1>2, <1>4 DEF Sum, SymDiff
<1> QED
  BY <1>1, <1>5, <1>6, <1>7, <1>8

\* What a state has in a row and a column is a byte.
LEMMA StateBytes ==
    ASSUME NEW s \in State, NEW r \in Index, NEW c \in Index PROVE s[r][c] \in BYTE
  BY DEF State

\* States with the same bytes are the same.
LEMMA SameState ==
    ASSUME NEW s \in State, NEW t \in State,
           \A r \in Index, c \in Index : s[r][c] = t[r][c]
    PROVE  s = t
<1>1. \A r \in Index : s[r] = t[r]
  BY DEF State
<1> QED
  BY <1>1 DEF State

\* Mixing the columns of a state gives a state, either way.
LEMMA MixType ==
    ASSUME NEW s \in State
    PROVE  MixColumns(s) \in State /\ InvMixColumns(s) \in State
<1>1. \A b \in BYTE : Twice(b) \in BYTE
  BY DEF Twice, BYTE
<1>2. ASSUME NEW b \in BYTE, NEW n \in Coefficients PROVE gf_mul(b, n) \in BYTE
  <2>1. /\ gf_mul(b, 1) \in BYTE /\ gf_mul(b, 2) \in BYTE
        /\ gf_mul(b, 3) \in BYTE /\ gf_mul(b, 9) \in BYTE
        /\ gf_mul(b, 11) \in BYTE
    BY <1>1, Products, SymDiffType
  <2>2. gf_mul(b, 13) \in BYTE /\ gf_mul(b, 14) \in BYTE
    BY <1>1, Products, SymDiffType
  <2> QED
    BY <2>1, <2>2 DEF Coefficients
<1>3. ASSUME NEW c0 \in Coefficients, NEW c1 \in Coefficients,
             NEW c2 \in Coefficients, NEW c3 \in Coefficients
      PROVE  Mixed(s, c0, c1, c2, c3) \in State
  <2> DEFINE byte(r, c, i) == s[(r + i) % 4][c]
             cell(r, c) == SymDiff(SymDiff(gf_mul(byte(r, c, 0), c0), gf_mul(byte(r, c, 1), c1)),
                                   SymDiff(gf_mul(byte(r, c, 2), c2), gf_mul(byte(r, c, 3), c3)))
  <2>1. \A r \in Index, c \in Index, i \in 0..3 : byte(r, c, i) \in BYTE
    <3>1. \A r \in Index, i \in 0..3 : (r + i) % 4 \in Index
      BY DEF Index
    <3> QED
      BY <3>1, StateBytes
  <2> HIDE DEF byte
  <2>2. ASSUME NEW r \in Index, NEW c \in Index PROVE cell(r, c) \in BYTE
    <3>1. /\ gf_mul(byte(r, c, 0), c0) \in BYTE /\ gf_mul(byte(r, c, 1), c1) \in BYTE
          /\ gf_mul(byte(r, c, 2), c2) \in BYTE /\ gf_mul(byte(r, c, 3), c3) \in BYTE
      BY <1>2, <2>1
    <3> QED
      BY <3>1, SymDiffType
  <2>3. Mixed(s, c0, c1, c2, c3) = [r \in Index |-> [c \in Index |-> cell(r, c)]]
    BY DEF Mixed, byte
  <2> HIDE DEF cell
  <2> QED
    BY <2>2, <2>3 DEF State
<1> QED
  BY <1>3 DEF MixColumns, InvMixColumns, Coefficients

\* InvMixColumns undoes MixColumns.
LEMMA InvMix == ASSUME NEW s \in State PROVE InvMixColumns(MixColumns(s)) = s
<1> DEFINE m == MixColumns(s)
<1>1. m \in State /\ InvMixColumns(m) \in State
  BY MixType
<1>2. \A r \in Index, k \in Index :
         m[r][k] = Sum(gf_mul(s[(r + 0) % 4][k], 2), gf_mul(s[(r + 1) % 4][k], 3),
                       gf_mul(s[(r + 2) % 4][k], 1), gf_mul(s[(r + 3) % 4][k], 1))
  BY DEF MixColumns, Mixed, Sum
<1>3. \A r \in Index, k \in Index :
         InvMixColumns(m)[r][k] =
             Sum(gf_mul(m[(r + 0) % 4][k], 14), gf_mul(m[(r + 1) % 4][k], 11),
                 gf_mul(m[(r + 2) % 4][k], 13), gf_mul(m[(r + 3) % 4][k], 9))
  BY DEF InvMixColumns, Mixed, Sum
<1> HIDE DEF m
<1>4. ASSUME NEW r \in Index, NEW k \in Index PROVE InvMixColumns(m)[r][k] = s[r][k]
  <2> DEFINE row1 == (r + 1) % 4
             row2 == (r + 2) % 4
             row3 == (r + 3) % 4
             a == s[r][k]
             b == s[row1][k]
             c == s[row2][k]
             d == s[row3][k]
  <2>1. /\ row1 \in Index /\ row2 \in Index /\ row3 \in Index
        /\ (r + 0) % 4 = r /\ (row1 + 0) % 4 = row1
        /\ (row2 + 0) % 4 = row2 /\ (row3 + 0) % 4 = row3
        /\ (row1 + 1) % 4 = row2 /\ (row1 + 2) % 4 = row3 /\ (row1 + 3) % 4 = r
        /\ (row2 + 1) % 4 = row3 /\ (row2 + 2) % 4 = r    /\ (row2 + 3) % 4 = row1
        /\ (row3 + 1) % 4 = r    /\ (row3 + 2) % 4 = row1 /\ (row3 + 3) % 4 = row2
    BY DEF Index
  <2>2. a \in BYTE /\ b \in BYTE /\ c \in BYTE /\ d \in BYTE
    BY <2>1, StateBytes
  <2>3. /\ m[r][k] = Sum(gf_mul(a, 2), gf_mul(b, 3), gf_mul(c, 1), gf_mul(d, 1))
        /\ InvMixColumns(m)[r][k] =
             Sum(gf_mul(m[r][k], 14), gf_mul(m[row1][k], 11),
                 gf_mul(m[row2][k], 13), gf_mul(m[row3][k], 9))
    BY <1>2, <1>3, <2>1
  <2> HIDE DEF row1, row2, row3
  <2>4. /\ m[row1][k] = Sum(gf_mul(b, 2), gf_mul(c, 3), gf_mul(d, 1), gf_mul(a, 1))
        /\ m[row2][k] = Sum(gf_mul(c, 2), gf_mul(d, 3), gf_mul(a, 1), gf_mul(b, 1))
        /\ m[row3][k] = Sum(gf_mul(d, 2), gf_mul(a, 3), gf_mul(b, 1), gf_mul(c, 1))
    BY <1>2, <2>1
  <2> HIDE DEF a, b, c, d
  <2>5. \A p, q, t, u : /\ Sum(q, t, u, p) = Sum(p, q, t, u) /\ Sum(t, u, p, q) = Sum(p, q, t, u)
                        /\ Sum(u, p, q, t) = Sum(p, q, t, u)
    BY DEF Sum, SymDiff
  <2>6. /\ m[row1][k] = Sum(gf_mul(a, 1), gf_mul(b, 2), gf_mul(c, 3), gf_mul(d, 1))
        /\ m[row2][k] = Sum(gf_mul(a, 1), gf_mul(b, 1), gf_mul(c, 2), gf_mul(d, 3))
        /\ m[row3][k] = Sum(gf_mul(a, 3), gf_mul(b, 1), gf_mul(c, 1), gf_mul(d, 2))
    BY <2>4, <2>5
  <2> DEFINE P(x, i, n) == gf_mul(gf_mul(x, i), n)
  <2>7. /\ gf_mul(m[r][k], 14) = Sum(P(a, 2, 14), P(b, 3, 14), P(c, 1, 14), P(d, 1, 14))
        /\ gf_mul(m[row1][k], 11) = Sum(P(a, 1, 11), P(b, 2, 11), P(c, 3, 11), P(d, 1, 11))
        /\ gf_mul(m[row2][k], 13) = Sum(P(a, 1, 13), P(b, 1, 13), P(c, 2, 13), P(d, 3, 13))
        /\ gf_mul(m[row3][k], 9) = Sum(P(a, 3, 9), P(b, 1, 9), P(c, 1, 9), P(d, 2, 9))
    <3>1. 9 \in Coefficients /\ 11 \in Coefficients /\ 13 \in Coefficients /\ 14 \in Coefficients
      BY DEF Coefficients
    <3> QED
      BY <2>3, <2>6, <3>1, ProductOfSum
  <2>8. /\ Sum(P(a, 2, 14), P(a, 1, 11), P(a, 1, 13), P(a, 3, 9)) = a
        /\ Sum(P(b, 3, 14), P(b, 2, 11), P(b, 1, 13), P(b, 1, 9)) = {}
        /\ Sum(P(c, 1, 14), P(c, 3, 11), P(c, 2, 13), P(c, 1, 9)) = {}
        /\ Sum(P(d, 1, 14), P(d, 1, 11), P(d, 3, 13), P(d, 2, 9)) = {}
    BY <2>2, UnitMatrix
  <2> HIDE DEF P
  <2>9. InvMixColumns(m)[r][k] =
          Sum(Sum(P(a, 2, 14), P(a, 1, 11), P(a, 1, 13), P(a, 3, 9)),
              Sum(P(b, 3, 14), P(b, 2, 11), P(b, 1, 13), P(b, 1, 9)),
              Sum(P(c, 1, 14), P(c, 3, 11), P(c, 2, 13), P(c, 1, 9)),
              Sum(P(d, 1, 14), P(d, 1, 11), P(d, 3, 13), P(d, 2, 9)))
    BY <2>3, <2>7, SumOfSums
  <2>10. Sum(a, {}, {}, {}) = a
    BY DEF Sum, SymDiff
  <2> QED
    BY <2>8, <2>9, <2>10 DEF a
<1> QED
  BY <1>1, <1>4, SameState DEF m

\* So do the substitution and the shifts,
LEMMA SubType ==
    ASSUME NEW s \in State
    PROVE  /\ SubBytes(s) \in State /\ InvSubBytes(s) \in State
           /\ ShiftRows(s) \in State /\ InvShiftRows(s) \in State
<1>1. SubBytes(s) \in State /\ InvSubBytes(s) \in State
  BY AESAssumption DEF SubBytes, InvSubBytes, State
<1>2. \A r \in Index, c \in Index : (c + r) % 4 \in Index /\ (c + 4 - r) % 4 \in Index
  BY DEF Index
<1> QED
  BY <1>1, <1>2 DEF ShiftRows, InvShiftRows, State

\* InvShiftRows and InvSubBytes undo SubBytes and ShiftRows.
LEMMA InvShiftSub ==
    ASSUME NEW s \in State
    PROVE  InvSubBytes(InvShiftRows(ShiftRows(SubBytes(s)))) = s
<1> DEFINE t == SubBytes(s)
           u == ShiftRows(t)
<1>1. t \in State /\ u \in State /\ InvShiftRows(u) \in State /\ InvSubBytes(t) \in State
  BY SubType
<1>2. InvShiftRows(u) = t
  <2>1. \A r \in Index, k \in Index : /\ (k + 4 - r) % 4 \in Index
                                      /\ (((k + 4 - r) % 4) + r) % 4 = k
    BY DEF Index
  <2>2. \A r \in Index, k \in Index : u[r][k] = t[r][(k + r) % 4]
    BY DEF ShiftRows
  <2>3. \A r \in Index, k \in Index : InvShiftRows(u)[r][k] = u[r][(k + 4 - r) % 4]
    BY DEF InvShiftRows
  <2> HIDE DEF t, u
  <2>4. \A r \in Index, k \in Index : InvShiftRows(u)[r][k] = t[r][k]
    BY <2>1, <2>2, <2>3
  <2> QED
    BY <1>1, <2>4, SameState
<1>3. InvSubBytes(t) = s
  <2>1. \A r \in Index, k \in Index : InvSubBytes(t)[r][k] = aes_invsbox[aes_sbox[s[r][k]]]
    BY DEF InvSubBytes, SubBytes
  <2>2. \A r \in Index, k \in Index : InvSubBytes(t)[r][k] = s[r][k]
    BY <2>1, AESAssumption, StateBytes
  <2> QED
    BY <1>1, <2>2, SameState
<1> QED
  BY <1>2, <1>3

\* and adding the key of a round.
LEMMA AddType ==
    ASSUME NEW s \in State, NEW w \in Seq(WORD), Len(w) = 60, NEW n \in 0..14
    PROVE  AddRoundKey(s, w, n) \in State
<1>1. \A r \in Index, c \in Index : w[4 * n + c + 1][r + 1] \in BYTE
  <2>1. \A c \in Index : 4 * n + c + 1 \in 1..60 /\ c + 1 \in 1..4
    BY DEF Index
  <2>2. \A i \in 1..60 : w[i] \in WORD
    BY ElementOfSeq
  <2> QED
    BY <2>1, <2>2 DEF WORD
<1>2. ASSUME NEW r \in Index, NEW c \in Index
      PROVE  SymDiff(s[r][c], w[4 * n + c + 1][r + 1]) \in BYTE
  <2>1. s[r][c] \in BYTE
    BY StateBytes
  <2>2. w[4 * n + c + 1][r + 1] \in BYTE
    BY <1>1
  <2> QED
    BY ONLY <2>1, <2>2, SymDiffType
<1> QED
  BY <1>2 DEF AddRoundKey, State

\* Adding a key twice is undone.
LEMMA AddTwice ==
    ASSUME NEW s \in State, NEW w \in Seq(WORD), Len(w) = 60, NEW n \in 0..14
    PROVE  AddRoundKey(AddRoundKey(s, w, n), w, n) = s
<1>1. AddRoundKey(s, w, n) \in State /\ AddRoundKey(AddRoundKey(s, w, n), w, n) \in State
  BY AddType
<1>2. \A r \in Index, c \in Index :
         AddRoundKey(AddRoundKey(s, w, n), w, n)[r][c] =
             SymDiff(SymDiff(s[r][c], w[4 * n + c + 1][r + 1]), w[4 * n + c + 1][r + 1])
  BY DEF AddRoundKey
<1> QED
  BY <1>1, <1>2, SymDiffTwice, SameState

\* A round of aes_encrypt gives a state.
LEMMA RoundType ==
    ASSUME NEW s \in State, NEW w \in Seq(WORD), Len(w) = 60, NEW n \in 0..14, NEW last
    PROVE  EncryptRound(s, w, n, last) \in State
<1> DEFINE t == ShiftRows(SubBytes(s))
<1>1. t \in State /\ MixColumns(t) \in State
  BY SubType, MixType
<1> QED
  BY <1>1, AddType DEF EncryptRound

\* What aes_decrypt has before a round is what aes_encrypt had in it before
\* MixColumns.
Before(s) == ShiftRows(SubBytes(s))

\* The last round of aes_decrypt gives back the block.
LEMMA InvFirstRound ==
    ASSUME NEW s \in State, NEW w \in Seq(WORD), Len(w) = 60
    PROVE  DecryptRound(Before(AddRoundKey(s, w, 0)), w, 0) = s
  BY AddType, InvShiftSub, AddTwice DEF DecryptRound, Before

\* Every other round of it undoes the same round of aes_encrypt.
LEMMA InvRound ==
    ASSUME NEW s \in State, NEW w \in Seq(WORD), Len(w) = 60, NEW n \in 1..13
    PROVE  DecryptRound(Before(EncryptRound(s, w, n, 14)), w, n) = Before(s)
<1> DEFINE mixed == MixColumns(Before(s))
<1>1. Before(s) \in State /\ mixed \in State
  BY SubType, MixType DEF Before
<1>2. EncryptRound(s, w, n, 14) = AddRoundKey(mixed, w, n)
  BY DEF EncryptRound, Before
<1>3. InvSubBytes(InvShiftRows(Before(AddRoundKey(mixed, w, n)))) = AddRoundKey(mixed, w, n)
  <2> HIDE DEF mixed
  <2>1. n \in 0..14
    OBVIOUS
  <2>2. AddRoundKey(mixed, w, n) \in State
    BY <1>1, <2>1, AddType
  <2> QED
    BY <2>2, InvShiftSub DEF Before
<1>4. AddRoundKey(AddRoundKey(mixed, w, n), w, n) = mixed
  BY <1>1, AddTwice
<1>5. DecryptRound(Before(EncryptRound(s, w, n, 14)), w, n) = InvMixColumns(mixed)
  <2> HIDE DEF mixed
  <2> QED
    BY <1>2, <1>3, <1>4 DEF DecryptRound
<1> QED
  BY <1>1, <1>5, InvMix

\* The words of a schedule are words.
LEMMA WordType ==
    ASSUME NEW w \in Seq(WORD), NEW idx \in 8..59, Len(w) = idx
    PROVE  NextWord(w, 8) \in WORD
<1>1. \A x \in WORD, y \in WORD :
         SubWord(x) \in WORD /\ KE_ROTWORD(x) \in WORD /\ XorWord(x, y) \in WORD
  <2>1. ASSUME NEW x \in WORD, NEW y \in WORD
        PROVE  SubWord(x) \in WORD /\ KE_ROTWORD(x) \in WORD
    BY AESAssumption DEF SubWord, KE_ROTWORD, WORD
  <2>2. ASSUME NEW x \in WORD, NEW y \in WORD PROVE XorWord(x, y) \in WORD
    <3>1. \A i \in 1..4 : SymDiff(x[i], y[i]) \in BYTE
      BY SymDiffType DEF WORD
    <3> QED
      BY <3>1 DEF XorWord, WORD
  <2> QED
    BY <2>1, <2>2
<1>2. idx \in 1..Len(w) /\ idx - 8 + 1 \in 1..Len(w)
  <2>1. idx \in 1..idx /\ idx - 8 + 1 \in 1..idx
    OBVIOUS
  <2> QED
    BY <2>1
<1>3. w[idx] \in WORD /\ w[idx - 8 + 1] \in WORD
  BY <1>2, ElementOfSeq
<1>4. <<Rcon[(idx - 1) \div 8 + 1], {}, {}, {}>> \in WORD
  <2>1. (idx - 1) \div 8 + 1 \in 1..8
    OBVIOUS
  <2>2. \A i \in 1..8 : Rcon[i] \in BYTE
    BY DEF Rcon, BYTE
  <2>3. \A x \in BYTE : <<x, {}, {}, {}>> \in WORD
    <3>1. \A x \in BYTE, y \in BYTE : <<x, y, y, y>> \in WORD
      BY DEF WORD
    <3>2. {} \in BYTE
      BY DEF BYTE
    <3> QED
      BY <3>1, <3>2
  <2>4. Rcon[(idx - 1) \div 8 + 1] \in BYTE
    BY <2>1, <2>2
  <2> HIDE DEF Rcon
  <2> QED
    BY <2>3, <2>4
<1> DEFINE first == XorWord(SubWord(KE_ROTWORD(w[idx])), <<Rcon[(idx - 1) \div 8 + 1], {}, {}, {}>>)
           temp == IF idx % 8 = 0 THEN first
                   ELSE IF 8 > 6 /\ idx % 8 = 4 THEN SubWord(w[idx]) ELSE w[idx]
<1>5. first \in WORD /\ SubWord(w[idx]) \in WORD
  BY <1>1, <1>3, <1>4
<1>6. NextWord(w, 8) = XorWord(w[idx - 8 + 1], temp)
  BY DEF NextWord
<1> HIDE DEF first
<1>7. temp \in WORD
  BY <1>3, <1>5
<1> QED
  BY <1>1, <1>3, <1>6, <1>7
-----------------------------------------------------------------------------
(* The calls of the partners *)

Typed ==
    /\ use \in Uses /\ block \in State
    /\ schedule \in Seq(WORD) /\ Len(schedule) \in 8..ScheduleSize
    /\ call \in {"aes_key_setup", "own", "aes_encrypt", "aes_decrypt", "done"}
    /\ call # "aes_key_setup" => Len(schedule) = ScheduleSize
    /\ call \in {"aes_encrypt", "aes_decrypt"} => call = use.call
    /\ round \in 0..14 /\ state \in State /\ trace \in [0..14 -> State]

\* The own call so far, and all of it once the partner works.
OwnTrace ==
    call # "aes_key_setup" =>
        /\ trace[0] = AddRoundKey(block, schedule, 0)
        /\ \A n \in 1..14 : (call = "own" => n <= round) =>
              trace[n] = EncryptRound(trace[n - 1], schedule, n, 14)

\* Where the call that is under way has got to.
InStep ==
    /\ call = "aes_key_setup" => round = 0
    /\ call \in {"own", "aes_encrypt"} => state = trace[round]
    /\ call = "aes_decrypt" =>
          state = IF round = 0 THEN block ELSE Before(trace[round - 1])

AESInv == Typed /\ OwnTrace /\ InStep /\ PartnersAgree

\* All the sizes that the partners name mean 14 rounds, to both functions.
LEMMA Sizes ==
    ASSUME use \in Uses
    PROVE  /\ EncryptRounds(use.own) = 14 /\ EncryptRounds(use.partner) = 14
           /\ DecryptRounds(use.partner) = 14 /\ Sent = trace[14]
           /\ use.call = "aes_decrypt" => use = SessionKeyHalf
           /\ use.call = "aes_encrypt" => use # SessionKeyHalf
           /\ use.call \in {"aes_encrypt", "aes_decrypt"}
<1>1. \/ use.own = 256 /\ use.partner = 256 /\ use.call = "aes_decrypt" /\ use = SessionKeyHalf
      \/ use.own = 32 /\ use.partner = 256 /\ use.call = "aes_encrypt" /\ use # SessionKeyHalf
  BY DEF Uses, SessionKeyHalf, CounterValue
<1> QED
  BY <1>1 DEF EncryptRounds, DecryptRounds, Sent

\* Every step of the two calls keeps the invariant.
LEMMA AESStep == ASSUME AESInv, [AESNext]_aesVars PROVE AESInv'
<1>0. /\ Typed /\ OwnTrace /\ InStep /\ PartnersAgree
      /\ EncryptRounds(use.own) = 14 /\ EncryptRounds(use.partner) = 14
      /\ DecryptRounds(use.partner) = 14 /\ Sent = trace[14]
      /\ use.call = "aes_decrypt" => use = SessionKeyHalf
      /\ use.call = "aes_encrypt" => use # SessionKeyHalf
      /\ use.call \in {"aes_encrypt", "aes_decrypt"}
  BY Sizes DEF AESInv, Typed
<1>1. CASE ExpandKey
  <2>1. schedule \in Seq(WORD) /\ Len(schedule) \in 8..59
    <3>1. schedule \in Seq(WORD) /\ Len(schedule) \in 8..60
      BY <1>0 DEF Typed, ScheduleSize
    <3>2. Len(schedule) < 60
      BY <1>1 DEF ExpandKey, ScheduleSize
    <3> DEFINE n == Len(schedule)
    <3>3. n \in 8..60 /\ n < 60
      BY <3>1, <3>2
    <3> HIDE DEF n
    <3>4. n \in 8..59
      BY <3>3
    <3> QED
      BY <3>1, <3>4 DEF n
  <2>2. NextWord(schedule, 8) \in WORD
    BY <2>1, WordType
  <2>3. schedule' \in Seq(WORD) /\ Len(schedule') \in 8..60
    <3>1. /\ schedule' = Append(schedule, NextWord(schedule, 8))
          /\ Append(schedule, NextWord(schedule, 8)) \in Seq(WORD)
          /\ Len(Append(schedule, NextWord(schedule, 8))) = Len(schedule) + 1
      BY <1>1, <2>1, <2>2, AppendProperties DEF ExpandKey
    <3>2. \A n \in 8..59 : n + 1 \in 8..60
      OBVIOUS
    <3> QED
      BY <2>1, <3>1, <3>2
  <2> QED
    BY <1>0, <1>1, <2>3
       DEF ExpandKey, AESInv, Typed, OwnTrace, InStep, PartnersAgree, ScheduleSize
<1>2. CASE OwnCall
  <2>1. AddRoundKey(block, schedule, 0) \in State
    BY <1>0, <1>2, AddType DEF OwnCall, Typed, ScheduleSize
  <2> QED
    BY <1>0, <1>2, <2>1 DEF OwnCall, AESInv, Typed, OwnTrace, InStep, PartnersAgree
<1>3. CASE OwnRound
  <2>1. /\ call = "own" /\ call' = "own" /\ round' = round + 1 /\ round' \in 1..14
        /\ state' = EncryptRound(state, schedule, round', 14)
        /\ trace' = [trace EXCEPT ![round'] = state']
        /\ UNCHANGED <<use, block, schedule>>
        /\ Len(schedule) = 60
    BY <1>0, <1>3 DEF OwnRound, Typed, ScheduleSize
  <2>2. state' \in State
    BY <1>0, <2>1, RoundType DEF Typed
  <2>3. Typed'
    BY <1>0, <2>1, <2>2 DEF Typed
  <2>4. /\ trace'[round'] = state'
        /\ \A n \in 0..14 : n # round' => trace'[n] = trace[n]
    BY <1>0, <2>1 DEF Typed
  <2>5. trace'[round'] = EncryptRound(trace'[round' - 1], schedule, round', 14)
    BY <1>0, <2>1, <2>4 DEF InStep, Typed
  <2>6. OwnTrace'
    BY <1>0, <2>1, <2>4, <2>5 DEF OwnTrace, Typed
  <2> QED
    BY <2>1, <2>3, <2>4, <2>6 DEF AESInv, InStep, PartnersAgree
<1>4. CASE PartnerCalls
  <2>1. /\ call = "own" /\ round = 14 /\ call' = use.call /\ Len(schedule) = 60
        /\ UNCHANGED <<use, block, schedule, trace>>
    BY <1>0, <1>4 DEF PartnerCalls, Typed, ScheduleSize
  <2>2. OwnTrace'
    BY <1>0, <2>1 DEF OwnTrace
  <2>5. round' \in 0..14 /\ state' \in State => Typed'
    BY <1>0, <2>1 DEF Typed, ScheduleSize
  <2>3. CASE use.call = "aes_decrypt"
    <3>1. round' = 14 /\ state' = AddRoundKey(trace[14], schedule, 14)
      BY <1>0, <1>4, <2>3 DEF PartnerCalls
    <3>2. trace[13] \in State /\ trace[14] \in State /\ Before(trace[13]) \in State
      BY <1>0, SubType DEF Typed, Before
    <3>3. trace[14] = AddRoundKey(Before(trace[13]), schedule, 14)
      BY <1>0, <2>1 DEF OwnTrace, EncryptRound, Before
    <3>4. state' = Before(trace[13])
      BY <1>0, <2>1, <3>1, <3>2, <3>3, AddTwice DEF Typed
    <3> QED
      BY <1>0, <2>1, <2>2, <2>3, <2>5, <3>1, <3>2, <3>4 DEF AESInv, InStep, PartnersAgree
  <2>4. CASE use.call = "aes_encrypt"
    <3>1. round' = 0 /\ state' = trace[0] /\ trace[0] \in State
      BY <1>0, <1>4, <2>1, <2>4 DEF PartnerCalls, OwnTrace, Typed
    <3> QED
      BY <1>0, <2>1, <2>2, <2>4, <2>5, <3>1 DEF AESInv, InStep, PartnersAgree
  <2> QED
    BY <1>0, <2>3, <2>4
<1>5. CASE PartnerEncrypts
  <2>1. /\ call = "aes_encrypt" /\ round' = round + 1 /\ round' \in 1..14
        /\ state' = EncryptRound(state, schedule, round', 14) /\ Len(schedule) = 60
        /\ UNCHANGED <<use, block, schedule, call, trace>>
    BY <1>0, <1>5 DEF PartnerEncrypts, Typed, ScheduleSize
  <2>2. state' = trace[round'] /\ state' \in State
    <3>1. trace[round'] = EncryptRound(trace[round' - 1], schedule, round', 14)
      BY <1>0, <2>1 DEF OwnTrace
    <3>2. round' - 1 = round /\ state = trace[round]
      BY <1>0, <2>1 DEF InStep, Typed
    <3>3. trace[round'] \in State
      BY <1>0, <2>1 DEF Typed
    <3> QED
      BY <2>1, <3>1, <3>2, <3>3
  <2>3. OwnTrace'
    BY <1>0, <2>1 DEF OwnTrace
  <2>4. Typed'
    <3>1. round' \in 0..14
      BY <2>1
    <3> QED
      BY <1>0, <2>1, <2>2, <3>1, Zenon DEF Typed
  <2> QED
    BY <2>1, <2>2, <2>3, <2>4 DEF AESInv, InStep, PartnersAgree
<1>6. CASE PartnerDecrypts
  <2>1. /\ call = "aes_decrypt" /\ round' = round - 1 /\ round' \in 0..13
        /\ state = Before(trace[round']) /\ Len(schedule) = 60
        /\ state' = DecryptRound(state, schedule, round')
        /\ UNCHANGED <<use, block, schedule, call, trace>>
    BY <1>0, <1>6 DEF PartnerDecrypts, Typed, InStep, ScheduleSize
  <2>2. state' = IF round' = 0 THEN block ELSE Before(trace[round' - 1])
    <3>1. CASE round' = 0
      <4>1. trace[0] = AddRoundKey(block, schedule, 0)
        BY <1>0, <2>1 DEF OwnTrace
      <4> QED
        BY <1>0, <2>1, <3>1, <4>1, InvFirstRound DEF Typed
    <3>2. CASE round' # 0
      <4>1. /\ round' \in 1..13 /\ trace[round' - 1] \in State
            /\ trace[round'] = EncryptRound(trace[round' - 1], schedule, round', 14)
        BY <1>0, <2>1, <3>2 DEF OwnTrace, Typed
      <4> QED
        BY <1>0, <2>1, <3>2, <4>1, InvRound DEF Typed
    <3> QED
      BY <3>1, <3>2
  <2>3. state' \in State
    <3>1. round' # 0 => trace[round' - 1] \in State
      BY <1>0, <2>1 DEF Typed
    <3> QED
      BY <1>0, <2>2, <3>1, SubType DEF Typed, Before
  <2>4. Typed' /\ OwnTrace'
    <3>1. round' \in 0..14
      BY <2>1
    <3>2. OwnTrace'
      BY <1>0, <2>1 DEF OwnTrace
    <3> QED
      BY <1>0, <2>1, <2>3, <3>1, <3>2, Zenon DEF Typed
  <2> QED
    BY <2>1, <2>2, <2>4 DEF AESInv, InStep, PartnersAgree
<1>7. CASE PartnerReturns
  <2>1. /\ call' = "done" /\ call \in {"aes_encrypt", "aes_decrypt"}
        /\ call = "aes_encrypt" => round = 14 /\ state = trace[14]
        /\ call = "aes_decrypt" => round = 0 /\ state = block
        /\ UNCHANGED <<use, block, schedule, round, state, trace>>
    BY <1>0, <1>7 DEF PartnerReturns, InStep
  <2>2. PartnersAgree'
    BY <1>0, <2>1 DEF PartnersAgree, Sent, Typed
  <2>3. Typed' /\ OwnTrace'
    BY <1>0, <2>1 DEF Typed, OwnTrace
  <2> QED
    BY <2>1, <2>2, <2>3 DEF AESInv, InStep
<1>8. CASE UNCHANGED aesVars
  BY <1>0, <1>8 DEF aesVars, AESInv, Typed, OwnTrace, InStep, PartnersAgree, Sent
<1> QED
  BY <1>1, <1>2, <1>3, <1>4, <1>5, <1>6, <1>7, <1>8 DEF AESNext

\* For any S-box that has an inverse, any keys and any blocks: a half of a
\* session key reaches the partner as it was drawn, and both partners make the
\* same mask of a value of the counter.
THEOREM PartnersTheorem == AESSpec => []PartnersAgree
<1>1. AESInit => AESInv
  <2> SUFFICES ASSUME AESInit PROVE AESInv
    OBVIOUS
  <2>1. schedule \in Seq(WORD) /\ Len(schedule) = 8
    <3>1. schedule \in [1..8 -> WORD]
      BY AESAssumption DEF AESInit
    <3>2. schedule \in Seq(WORD)
      BY <3>1, SeqDef
    <3>3. 1..Len(schedule) = 1..8 /\ Len(schedule) \in Nat
      BY <3>1, <3>2, LenProperties
    <3>4. \A n \in Nat : 1..n = 1..8 => n = 8
      <4> SUFFICES ASSUME NEW n \in Nat, 1..n = 1..8, n # 8 PROVE FALSE
        OBVIOUS
      <4>1. \A i \in Int : i \in 1..n <=> i \in 1..8
        OBVIOUS
      <4> QED
        BY <4>1
    <3> QED
      BY <3>2, <3>3, <3>4
  <2> QED
    BY <2>1, AESAssumption
       DEF AESInit, AESInv, Typed, OwnTrace, InStep, PartnersAgree, ScheduleSize
<1>2. AESInv /\ [AESNext]_aesVars => AESInv'
  BY AESStep
<1>3. AESInv => PartnersAgree
  BY DEF AESInv
<1> QED
  BY <1>1, <1>2, <1>3, PTL DEF AESSpec
=============================================================================
