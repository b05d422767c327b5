------------------------------- MODULE DMHash -------------------------------
(***************************************************************************)
(* DM_Hash::hash of DaviesMeyerHash.h: a hash of a message of 32 octet     *)
(* words.  Each word is the key of an AES that encrypts the state, and the *)
(* state before is added to the result.  The state has two halves of 16    *)
(* octets, which is what AES encrypts, and two buffers that change roles.  *)
(*                                                                         *)
(* A half is the set of its bits that are one, so that XOR is the          *)
(* symmetric difference.  AES with a key is a permutation of the halves.   *)
(***************************************************************************)
EXTENDS Integers, FiniteSetsExt, SequencesExt

CONSTANTS Bits,     \* the bits of a half: 128 in the code
          Begin     \* what the buffers begin with: the octets 0..31 and 33..64

Halves == SUBSET Bits
States == Halves \X Halves

ASSUME BeginAssumption == Begin \in [1..2 -> States]

\* aes_encrypt with some key.
Ciphers == {E \in [Halves -> Halves] : \A a, b \in Halves : E[a] = E[b] => a = b}

\* What the three encryptions of a round write to stateOutPtr: the first half,
\* the second half mixed with it, and the first half again.
Encrypted(E, in) ==
    LET first  == E[in[1]]
        second == E[SymDiff(in[2], first)]
    IN  <<E[SymDiff(first, second)], second>>

\* A round without the last loop.
RoundAlone(E, s) ==
    [buffer |-> [s.buffer EXCEPT ![s.out] = Encrypted(E, s.buffer[s.in])],
     in |-> s.out, out |-> s.in]

XorStates(s, t) == <<SymDiff(s[1], t[1]), SymDiff(s[2], t[2])>>

\* One word: H[i] = E(PT,H[i-1]) XOR H[i-1], and the buffers change roles.
Round(E, s) ==
    LET in == s.buffer[s.in]
    IN  [buffer |-> [s.buffer EXCEPT ![s.out] = XorStates(Encrypted(E, in), in)],
         in |-> s.out, out |-> s.in]

NoHash == "none"

\* aes[word] is the AES whose key is the word.  A message of no words has no
\* hash; both callers hash whole words.
Hash(aes, words) ==
    LET after[i \in 0..Len(words)] ==
            IF i = 0 THEN [buffer |-> Begin, in |-> 1, out |-> 2]
            ELSE Round(aes[words[i]], after[i-1])
        end == after[Len(words)]
    IN  IF words = << >> THEN NoHash ELSE end.buffer[end.in]
-----------------------------------------------------------------------------
\* The three encryptions together are a permutation of the state, as
\* Davies-Meyer asks for: no two states run into one before they are added, so
\* that "a single bit change anywhere in the 32 octet state" (line 79) is still
\* there after a round.
RoundPermutes ==
    \A E \in Ciphers : \A s, t \in States :
        Encrypted(E, s) = Encrypted(E, t) => s = t

\* Protocol.txt: "DAVIES_MEYER[i] = AES(Klartext[i],DAVIES_MEYER[i-1]) XOR
\* DAVIES_MEYER[i-1]" (line 18), for n words, where E[i] is what AES with the
\* i-th word makes of a state and first is DAVIES_MEYER[-1].
DaviesMeyer(E, first, n) ==
    LET H[i \in 0..n] ==
            IF i = 0 THEN first ELSE XorStates(E[i][H[i-1]], H[i-1])
    IN  H[n]

\* "DAVIES_MEYER[-1] = 0" (line 20).
Zero == <<{}, {}>>

\* Two readings of AES of a state, which is longer than a block of AES: the three
\* encryptions of the code, and one for each half, as createReceivingKey of
\* Protocol.h encrypts 32 octets.
Thrice(aes, words) ==
    [i \in 1..Len(words) |-> [s \in States |-> Encrypted(aes[words[i]], s)]]
Halfwise(aes, words) ==
    [i \in 1..Len(words) |->
        [s \in States |-> <<aes[words[i]][s[1]], aes[words[i]][s[2]]>>]]
=============================================================================
