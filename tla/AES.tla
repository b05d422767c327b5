-------------------------------- MODULE AES --------------------------------
(***************************************************************************)
(* aes/aes.c as MST uses it.  A key is expanded to a schedule; what one    *)
(* partner then encrypts, the other one decrypts (a half of a session key) *)
(* or encrypts as well (the value of a masking counter, which makes a      *)
(* mask).  The two partners do not name the size of the key alike.  An     *)
(* action is a word of the schedule or a round.                            *)
(*                                                                         *)
(* A BYTE is the set of its bits that are one, so that XOR is the          *)
(* symmetric difference; a WORD is its four bytes, the most significant    *)
(* one first.                                                              *)
(***************************************************************************)
EXTENDS Integers, FiniteSetsExt, Sequences

BYTE  == SUBSET (0..7)
WORD  == [1..4 -> BYTE]
Index == 0..3
State == [Index -> [Index -> BYTE]]    \* row, column

CONSTANTS aes_sbox, aes_invsbox,
          Keys,                      \* keys of 32 octets that occur
          Inputs                     \* blocks that are encrypted

ASSUME AESAssumption ==
    /\ aes_sbox \in [BYTE -> BYTE] /\ aes_invsbox \in [BYTE -> BYTE]
    /\ \A b \in BYTE : aes_invsbox[aes_sbox[b]] = b
    /\ Keys \subseteq [1..8 -> WORD] /\ Inputs \subseteq State
-----------------------------------------------------------------------------
(* The steps of a round *)

\* w[0] of the code is w[1].
AddRoundKey(s, w, round) ==
    [r \in Index |-> [c \in Index |-> SymDiff(s[r][c], w[4 * round + c + 1][r + 1])]]

SubBytes(s)    == [r \in Index |-> [c \in Index |-> aes_sbox[s[r][c]]]]
InvSubBytes(s) == [r \in Index |-> [c \in Index |-> aes_invsbox[s[r][c]]]]

\* Row r is shifted to the left by r, and back.
ShiftRows(s)    == [r \in Index |-> [c \in Index |-> s[r][(c + r) % 4]]]
InvShiftRows(s) == [r \in Index |-> [c \in Index |-> s[r][(c + 4 - r) % 4]]]

\* Multiplication by two: a shift, and x^8 = x^4 + x^3 + x + 1.
Twice(b) == {i \in 0..7 : (i - 1 \in b) # (i \in {0, 1, 3, 4} /\ 7 \in b)}

\* The columns of the table are the multiples by these coefficients.
gf_mul(b, coefficient) ==
    LET two   == Twice(b)
        four  == Twice(two)
        eight == Twice(four)
    IN  CASE coefficient = 1  -> b
          [] coefficient = 2  -> two
          [] coefficient = 3  -> SymDiff(two, b)
          [] coefficient = 9  -> SymDiff(eight, b)
          [] coefficient = 11 -> SymDiff(eight, SymDiff(two, b))
          [] coefficient = 13 -> SymDiff(eight, SymDiff(four, b))
          [] coefficient = 14 -> SymDiff(eight, SymDiff(four, two))

\* Each column is multiplied by a matrix whose rows are the first one turned.
Mixed(s, c0, c1, c2, c3) ==
    [r \in Index |-> [c \in Index |->
        LET byte(i) == s[(r + i) % 4][c]
        IN  SymDiff(SymDiff(gf_mul(byte(0), c0), gf_mul(byte(1), c1)),
                    SymDiff(gf_mul(byte(2), c2), gf_mul(byte(3), c3)))]]

MixColumns(s)    == Mixed(s, 2, 3, 1, 1)
InvMixColumns(s) == Mixed(s, 14, 11, 13, 9)

\* An aes_encrypt that compares for order, as aes_decrypt does.
EncryptRoundsByOrder(keysize) ==
    CASE keysize > 192 -> 14 [] keysize \in 129..192 -> 12 [] OTHER -> 10

\* aes_encrypt compares for equality, aes_decrypt for order.
EncryptRounds(keysize) ==
    CASE keysize = 128 -> 10 [] keysize = 192 -> 12 [] OTHER -> 14
DecryptRounds(keysize) ==
    CASE keysize > 192 -> 14 [] keysize \in 129..192 -> 12 [] OTHER -> 10

\* A round of aes_encrypt: the last one has no MixColumns.
EncryptRound(s, w, round, last) ==
    LET shifted == ShiftRows(SubBytes(s))
    IN  AddRoundKey(IF round = last THEN shifted ELSE MixColumns(shifted), w, round)

\* A round of aes_decrypt, down to the key of a round.
DecryptRound(s, w, round) ==
    LET added == AddRoundKey(InvSubBytes(InvShiftRows(s)), w, round)
    IN  IF round = 0 THEN added ELSE InvMixColumns(added)
-----------------------------------------------------------------------------
(* aes_key_setup *)

SubWord(x) == <<aes_sbox[x[1]], aes_sbox[x[2]], aes_sbox[x[3]], aes_sbox[x[4]]>>
KE_ROTWORD(x) == <<x[2], x[3], x[4], x[1]>>
XorWord(x, y) ==
    <<SymDiff(x[1], y[1]), SymDiff(x[2], y[2]), SymDiff(x[3], y[3]), SymDiff(x[4], y[4])>>

\* The powers of two, in the first byte; Rcon[0] of the code is Rcon[1].
Rcon == <<{0}, {1}, {2}, {3}, {4}, {5}, {6}, {7}, {0, 1, 3, 4}, {1, 2, 4, 5},
          {2, 3, 5, 6}, {3, 4, 6, 7}, {0, 1, 3, 5, 7}, {0, 2, 3, 6}, {1, 3, 4, 7}>>

\* w[idx], from a key of Nk words and the words before it.
NextWord(w, Nk) ==
    LET idx  == Len(w)
        last == w[idx]
        temp == IF idx % Nk = 0
                THEN XorWord(SubWord(KE_ROTWORD(last)), <<Rcon[(idx - 1) \div Nk + 1], {}, {}, {}>>)
                ELSE IF Nk > 6 /\ idx % Nk = 4 THEN SubWord(last) ELSE last
    IN  XorWord(w[idx - Nk + 1], temp)
-----------------------------------------------------------------------------
(* Two partners with the same key *)

VARIABLES use,        \* what the block is, of Uses
          block,
          schedule,   \* as far as it is filled
          call,       \* "aes_key_setup", "own", then use.call of the partner, "done"
          round,      \* whose key was added last
          state,
          trace       \* history: the states of the own call, one a round

aesVars == <<use, block, schedule, call, round, state, trace>>

\* The key sizes that the partners name to aes_encrypt and aes_decrypt:
\* createReceivingKey and initSendingKey AES_KEY_SIZE_BITS both, but
\* encryptToSecureMessage HashWordSize, which counts octets, and
\* decryptSecureMessage HashWordSizeBits.  aes_key_setup is given 256 always.
SessionKeyHalf == [own |-> 256, partner |-> 256, call |-> "aes_decrypt"]
CounterValue   == [own |-> 32, partner |-> 256, call |-> "aes_encrypt"]
Uses           == {SessionKeyHalf, CounterValue}

ScheduleSize == 60

AESInit ==
    /\ use \in Uses /\ block \in Inputs /\ schedule \in Keys
    /\ call = "aes_key_setup" /\ round = 0
    /\ state = block
    /\ trace = [r \in 0..14 |-> block]

ExpandKey ==
    /\ call = "aes_key_setup" /\ Len(schedule) < ScheduleSize
    /\ schedule' = Append(schedule, NextWord(schedule, 8))
    /\ UNCHANGED <<use, block, call, round, state, trace>>

OwnCall ==
    /\ call = "aes_key_setup" /\ Len(schedule) = ScheduleSize
    /\ call' = "own"
    /\ state' = AddRoundKey(block, schedule, 0)
    /\ trace' = [trace EXCEPT ![0] = state']
    /\ UNCHANGED <<use, block, schedule, round>>

OwnRound ==
    /\ call = "own" /\ round < EncryptRounds(use.own)
    /\ round' = round + 1
    /\ state' = EncryptRound(state, schedule, round', EncryptRounds(use.own))
    /\ trace' = [trace EXCEPT ![round'] = state']
    /\ UNCHANGED <<use, block, schedule, call>>

\* What the own call returned.
Sent == trace[EncryptRounds(use.own)]

PartnerCalls ==
    /\ call = "own" /\ round = EncryptRounds(use.own)
    /\ call' = use.call
    /\ \/ /\ use.call = "aes_decrypt"
          /\ round' = DecryptRounds(use.partner)
          /\ state' = AddRoundKey(Sent, schedule, round')
       \/ /\ use.call = "aes_encrypt"
          /\ round' = 0
          /\ state' = AddRoundKey(block, schedule, 0)
    /\ UNCHANGED <<use, block, schedule, trace>>

PartnerEncrypts ==
    /\ call = "aes_encrypt" /\ round < EncryptRounds(use.partner)
    /\ round' = round + 1
    /\ state' = EncryptRound(state, schedule, round', EncryptRounds(use.partner))
    /\ UNCHANGED <<use, block, schedule, call, trace>>

PartnerDecrypts ==
    /\ call = "aes_decrypt" /\ round > 0
    /\ round' = round - 1
    /\ state' = DecryptRound(state, schedule, round')
    /\ UNCHANGED <<use, block, schedule, call, trace>>

PartnerReturns ==
    /\ \/ call = "aes_encrypt" /\ round = EncryptRounds(use.partner)
       \/ call = "aes_decrypt" /\ round = 0
    /\ call' = "done"
    /\ UNCHANGED <<use, block, schedule, round, state, trace>>

AESNext ==
    \/ ExpandKey \/ OwnCall \/ OwnRound
    \/ PartnerCalls \/ PartnerEncrypts \/ PartnerDecrypts \/ PartnerReturns

AESSpec == AESInit /\ [][AESNext]_aesVars
-----------------------------------------------------------------------------
\* A session key reaches the partner as it was drawn, and both have the same
\* mask for the same value of a counter, although encryptToSecureMessage
\* (Protocol.h 376) gives the size of the key in octets, and aes.h 39 asks for
\* "128, 192, or 256".
PartnersAgree ==
    call = "done" =>
        state = IF use = SessionKeyHalf THEN block ELSE Sent
=============================================================================
