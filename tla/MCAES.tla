------------------------------- MODULE MCAES -------------------------------
(***************************************************************************)
(* The tables of aes.c, and the block, the keys and the results that FIPS  *)
(* 197 publishes, which aes.c says (line 8) that it implements.            *)
(***************************************************************************)
EXTENDS AES, SequencesExt

ByteOf(n) == {b \in 0..7 : (n \div 2^b) % 2 = 1}

\* The powers of three, which are all bytes but zero.
Powers == FoldLeft(LAMBDA p, i : Append(p, gf_mul(p[i], 3)), <<{0}>>, [i \in 1..254 |-> i])

Reciprocal(b) ==
    IF b = {} THEN {} ELSE LET n == CHOOSE n \in 1..255 : Powers[n] = b
                           IN  Powers[IF n = 1 THEN 1 ELSE 257 - n]

\* "the specified AES SBox": each bit of the reciprocal is added to the four
\* bits before it, and to 0x63.
SpecifiedSBox ==
    [b \in BYTE |-> {i \in 0..7 :
        (Cardinality({j \in Reciprocal(b) : (i - j) % 8 <= 4}) % 2 = 1) # (i \in {0, 1, 5, 6})}]
SpecifiedInverse == [b \in BYTE |-> CHOOSE a \in BYTE : SpecifiedSBox[a] = b]

CountingKey(Nk) ==
    [n \in 1..Nk |-> [i \in 1..4 |-> ByteOf(4 * n + i - 5)]]
MCKeys == {CountingKey(8)}

\* The octets of a block, in the order in which aes_encrypt copies them.
Copied(in) == [r \in Index |-> [c \in Index |-> ByteOf(in[4 * c + r + 1])]]
PublishedInput == Copied([i \in 1..16 |-> 17 * (i - 1)])

\* The counters of a session start at zero.
MCInputs == {PublishedInput, Copied([i \in 1..16 |-> 0])}

\* The same state: @@ makes TLC evaluate a function once for all.
Evaluated(s) == [r \in Index |-> s[r] @@ << >>] @@ << >>

\* A whole aes_key_setup and aes_encrypt.
EncryptedWith(key, keysize) ==
    LET Nr == EncryptRounds(keysize)
        w  == FoldLeft(LAMBDA v, i : Append(v, NextWord(v, Len(key))), key,
                       [i \in 1..4 * (Nr + 1) - Len(key) |-> i])
    IN  FoldLeft(LAMBDA s, r : Evaluated(EncryptRound(s, w, r, Nr)),
                 Evaluated(AddRoundKey(PublishedInput, w, 0)), [r \in 1..Nr |-> r])

ASSUME PublishedResults ==
    /\ EncryptedWith(CountingKey(4), 128) = Copied(<<
           105, 196, 224, 216, 106, 123, 4, 48, 216, 205, 183, 128, 112, 180, 197, 90>>)
    /\ EncryptedWith(CountingKey(6), 192) = Copied(<<
           221, 169, 124, 164, 134, 76, 223, 224, 110, 175, 112, 160, 236, 13, 113, 145>>)
    /\ EncryptedWith(CountingKey(8), 256) = Copied(<<
           142, 162, 183, 202, 81, 103, 69, 191, 234, 252, 73, 144, 75, 73, 96, 137>>)
=============================================================================
