---------------------------- MODULE MSTEndpoint ----------------------------
(***************************************************************************)
(* A pair of MST_Endpoint objects (Protocol.h) and the transport between   *)
(* them.  The class is meant for "all kinds of transport protocols such as *)
(* TCP/IP, RS232, ATM, Datex-P, CAN", so the transport is anything: every  *)
(* PDU ever sent may arrive at the partner any number of times, in any     *)
(* order, damaged, or never.  Key PDUs carry no check of integrity, so a   *)
(* damaged one installs a key nobody has.                                  *)
(*                                                                         *)
(* A receiving key is its number: RandomSource never repeats a key.  A     *)
(* SecureMessage is the key, the first counter value and the size it was   *)
(* masked with: unmasking it with any other key or counter, or unmasking a *)
(* damaged one, gives octets whose hash does not match (no collisions).    *)
(* The masking counters are the numbers of blocks that incrementMC has     *)
(* counted, its octets those of MaskingCounter.                            *)
(***************************************************************************)
EXTENDS AuthPlaintext, MaskingCounter, Integers, Sequences

CONSTANTS Anna, Berta,     \* the partners, named as in Protocol.txt
          CounterMax,      \* bound of the counters, at most 2^128-1
          MaxKeys,         \* bound of createReceivingKey calls per endpoint
          Lengths,         \* plaintext lengths each endpoint sends
          DamagedSizes,    \* sizes of damaged PDUs that may arrive
          MaxLengthSM      \* limit of decryptSecureMessage: 1000000000

Endpoints  == {Anna, Berta}
Partner(e) == IF e = Anna THEN Berta ELSE Anna

ASSUME EndpointAssumption ==
    /\ Anna # Berta
    /\ CounterMax \in Nat /\ MaxLengthSM \in Nat
    /\ MaxKeys \in [Endpoints -> Nat]
    /\ Lengths \in [Endpoints -> SUBSET {l \in 0..UIntMax : LengthFits(l)}]
    /\ DamagedSizes \in [Endpoints -> SUBSET Nat]

NoKey      == 0
GarbledKey == -1
NoFailure  == -1

VARIABLES
    generated,           \* keys e created; the latest is _sessionKeyReceive
    receivingKeyCreated, \* _receivingKeyCreated
    sendingKey,          \* _partnerSendingKey; NoKey until _sendingKeyReceived
    counterOwn,          \* _CounterOwn
    counterPartner,      \* _CounterPartner
    sent,                \* the SecureMessages e made, all still in transit
    accepted,            \* positions in the partner's sent of what e accepted
    lastFailure          \* key in force when decrypt last returned false at e

keyVars == <<generated, receivingKeyCreated, sendingKey>>
vars == <<generated, receivingKeyCreated, sendingKey, counterOwn,
          counterPartner, sent, accepted, lastFailure>>

SecureMessage == [key : {GarbledKey} \cup (Nat \ {NoKey}), counter : 0..CounterMax,
                  size : 0..UIntMax]

\* The first counter value after the ones message m was masked with.
End(m) == m.counter + Blocks(m.size)
-----------------------------------------------------------------------------
\* The constructor.
Init ==
    /\ generated = [e \in Endpoints |-> 0]
    /\ receivingKeyCreated = [e \in Endpoints |-> FALSE]
    /\ sendingKey = [e \in Endpoints |-> NoKey]
    /\ counterOwn = [e \in Endpoints |-> 0]
    /\ counterPartner = [e \in Endpoints |-> 0]
    /\ sent = [e \in Endpoints |-> << >>]
    /\ accepted = [e \in Endpoints |-> << >>]
    /\ lastFailure = [e \in Endpoints |-> NoFailure]

\* A createReceivingKey that starts the partner's counter over.
CreateReceivingKeyResetting(e) ==
    /\ generated[e] < MaxKeys[e]
    /\ generated' = [generated EXCEPT ![e] = @ + 1]
    /\ receivingKeyCreated' = [receivingKeyCreated EXCEPT ![e] = TRUE]
    /\ counterPartner' = [counterPartner EXCEPT ![e] = 0]
    /\ UNCHANGED <<sendingKey, counterOwn, sent, accepted, lastFailure>>

\* createReceivingKey: a new key, the counters stay as they are.
CreateReceivingKey(e) ==
    /\ generated[e] < MaxKeys[e]
    /\ generated' = [generated EXCEPT ![e] = @ + 1]
    /\ receivingKeyCreated' = [receivingKeyCreated EXCEPT ![e] = TRUE]
    /\ UNCHANGED <<sendingKey, counterOwn, counterPartner, sent, accepted,
                   lastFailure>>

\* createReceivingKey when /dev/urandom cannot be read.
CreateReceivingKeyFails(e) ==
    /\ receivingKeyCreated' = [receivingKeyCreated EXCEPT ![e] = FALSE]
    /\ UNCHANGED <<generated, sendingKey, counterOwn, counterPartner, sent,
                   accepted, lastFailure>>

\* An initSendingKey that starts the own counter over with each key.
InitSendingKeyResetting(e, key) ==
    /\ sendingKey' = [sendingKey EXCEPT ![e] = key]
    /\ counterOwn' = [counterOwn EXCEPT ![e] = 0]
    /\ UNCHANGED <<generated, receivingKeyCreated, counterPartner,
                   sent, accepted, lastFailure>>

\* initSendingKey: whatever arrives is installed.
InitSendingKey(e, key) ==
    /\ sendingKey' = [sendingKey EXCEPT ![e] = key]
    /\ UNCHANGED <<generated, receivingKeyCreated, counterOwn, counterPartner,
                   sent, accepted, lastFailure>>

\* What a key PDU that reaches e may hold: a key the partner created, not
\* necessarily its latest, or something damaged.
ArrivingKeys(e) == {GarbledKey} \cup 1..generated[Partner(e)]

\* An encryptToSecureMessage that masks with the counter of the partner.
EncryptWithPartnerCounter(e, length) ==
    LET size == NeededSize(length) IN
    /\ sendingKey[e] # NoKey
    /\ LengthAcceptable(length)
    /\ counterPartner[e] + Blocks(size) <= CounterMax
    /\ sent' = [sent EXCEPT ![e] = Append(@, [key |-> sendingKey[e],
                                              counter |-> counterPartner[e],
                                              size |-> size])]
    /\ counterPartner' = [counterPartner EXCEPT ![e] = @ + Blocks(size)]
    /\ UNCHANGED <<generated, receivingKeyCreated, sendingKey, counterOwn,
                   accepted, lastFailure>>

\* An encryptToSecureMessage that does not ask for _sendingKeyReceived.
EncryptWithoutKey(e, length) ==
    LET size == NeededSize(length) IN
    /\ LengthAcceptable(length)
    /\ counterOwn[e] + Blocks(size) <= CounterMax
    /\ sent' = [sent EXCEPT ![e] = Append(@, [key |-> sendingKey[e],
                                              counter |-> counterOwn[e],
                                              size |-> size])]
    /\ counterOwn' = [counterOwn EXCEPT ![e] = @ + Blocks(size)]
    /\ UNCHANGED <<generated, receivingKeyCreated, sendingKey, counterPartner,
                   accepted, lastFailure>>

\* encryptToSecureMessage; a refused call (no key, unacceptable length)
\* changes nothing.
EncryptToSecureMessage(e, length) ==
    LET size == NeededSize(length) IN
    /\ sendingKey[e] # NoKey
    /\ LengthAcceptable(length)
    /\ counterOwn[e] + Blocks(size) <= CounterMax
    /\ sent' = [sent EXCEPT ![e] = Append(@, [key |-> sendingKey[e],
                                              counter |-> counterOwn[e],
                                              size |-> size])]
    /\ counterOwn' = [counterOwn EXCEPT ![e] = @ + Blocks(size)]
    /\ UNCHANGED <<generated, receivingKeyCreated, sendingKey, counterPartner,
                   accepted, lastFailure>>

\* The guards of decryptSecureMessage.
Decryptable(e, size) ==
    receivingKeyCreated[e] /\ size <= MaxLengthSM /\ WellFormedSize(size)

\* An unmasking loop without incrementMC.
UnmaskForgetting(e, size) ==
    /\ counterPartner[e] + Blocks(size) <= CounterMax
    /\ UNCHANGED counterPartner

\* The unmasking loop consumes the partner's masks, whatever comes of it.
Unmask(e, size) ==
    /\ counterPartner[e] + Blocks(size) <= CounterMax
    /\ counterPartner' = [counterPartner EXCEPT ![e] = @ + Blocks(size)]

\* A failed check that is not reported.
FailSilently(e) == UNCHANGED <<lastFailure, accepted>>

\* decryptSecureMessage returns false; the plaintext is not handed out.
Fail(e) ==
    /\ lastFailure' = [lastFailure EXCEPT ![e] = generated[e]]
    /\ UNCHANGED accepted

\* A check that does not depend on the counter.
MatchesKeyOnly(e, m) == m.key = generated[e]

\* The hash of a message that arrives at e undamaged matches.
Matches(e, m) == m.key = generated[e] /\ m.counter = counterPartner[e]

\* decryptSecureMessage of a PDU that one of its guards refuses.
DecryptRefused(e, size) ==
    /\ ~Decryptable(e, size)
    /\ Fail(e)
    /\ UNCHANGED <<keyVars, counterOwn, counterPartner, sent>>

\* decryptSecureMessage of the partner's i-th message, undamaged.
DecryptSecureMessage(e, i) ==
    LET m == sent[Partner(e)][i] IN
    /\ Decryptable(e, m.size)
    /\ Unmask(e, m.size)
    /\ IF Matches(e, m)
       THEN /\ accepted' = [accepted EXCEPT ![e] = Append(@, i)]
            /\ UNCHANGED lastFailure
       ELSE Fail(e)
    /\ UNCHANGED <<keyVars, counterOwn, sent>>

\* decryptSecureMessage of something the partner never made.
DecryptDamaged(e, size) ==
    /\ Decryptable(e, size)
    /\ Unmask(e, size)
    /\ Fail(e)
    /\ UNCHANGED <<keyVars, counterOwn, sent>>

EndpointStep(e) ==
    \/ CreateReceivingKey(e)
    \/ CreateReceivingKeyFails(e)
    \/ \E key \in ArrivingKeys(e) : InitSendingKey(e, key)
    \/ \E length \in Lengths[e] : EncryptToSecureMessage(e, length)
    \/ \E i \in DOMAIN sent[Partner(e)] :
          \/ DecryptRefused(e, sent[Partner(e)][i].size)
          \/ DecryptSecureMessage(e, i)
    \/ \E size \in DamagedSizes[e] :
          \/ DecryptRefused(e, size)
          \/ DecryptDamaged(e, size)

Next == \E e \in Endpoints : EndpointStep(e)

Spec == Init /\ [][Next]_vars
-----------------------------------------------------------------------------
TypeOK ==
    /\ generated \in [Endpoints -> Nat]
    /\ receivingKeyCreated \in [Endpoints -> BOOLEAN]
    /\ sendingKey \in [Endpoints -> {GarbledKey} \cup Nat]
    /\ counterOwn \in [Endpoints -> 0..CounterMax]
    /\ counterPartner \in [Endpoints -> 0..CounterMax]
    /\ sent \in [Endpoints -> Seq(SecureMessage)]
    /\ accepted \in [Endpoints -> Seq(Nat)]
    /\ lastFailure \in [Endpoints -> {NoFailure} \cup Nat]

\* The masks of one message: what AES makes of (key, counter) pairs.
Masks(m) == {<<m.key, c>> : c \in m.counter .. End(m) - 1}

\* Protocol.txt masks with AES(session key, i): no pair of key and counter
\* masks two blocks, even though createReceivingKey and initSendingKey may run
\* again at any time and an old key may be installed again.
MasksNeverReused ==
    \A e \in Endpoints : \A i, j \in DOMAIN sent[e] :
        i # j => Masks(sent[e][i]) \cap Masks(sent[e][j]) = {}

\* A PDU that is repeated, delayed or overtaken is never taken for a new
\* message: what an endpoint accepts is in the order it was sent, once each.
AcceptedInOrder ==
    \A e \in Endpoints : \A j, k \in DOMAIN accepted[e] :
        j < k => accepted[e][j] < accepted[e][k]

\* A message that was suppressed cannot go unnoticed: as long as
\* decryptSecureMessage has not returned false, what was accepted are all of
\* the partner's first messages, none left out.
GapsAreSignalled ==
    \A e \in Endpoints :
        lastFailure[e] = NoFailure =>
            \A k \in DOMAIN accepted[e] : accepted[e][k] = k

\* The endpoints are in step: as long as no call failed, the next message of
\* the partner finds its counter at the receiver, also across new keys.
NextMessageInStep ==
    \A e \in Endpoints :
        LET next == Len(accepted[e]) + 1 IN
        lastFailure[e] = NoFailure /\ next \in DOMAIN sent[Partner(e)] =>
            sent[Partner(e)][next].counter = counterPartner[e]

\* "Die Verbindung muss dann mittels 1. neu aufgebaut werden" (Protocol.txt
\* lines 71-74): after a failed check, the exchange of new keys lets the
\* partner's first message under the new key be accepted.
KeyExchangeRestores ==
    \A e \in Endpoints : \A i \in DOMAIN sent[Partner(e)] :
        LET m == sent[Partner(e)][i] IN
        /\ receivingKeyCreated[e] /\ m.key = generated[e]
        /\ lastFailure[e] \in 1..generated[e]-1
        /\ \A j \in 1..i-1 : sent[Partner(e)][j].key # m.key
        /\ \A k \in DOMAIN accepted[e] : accepted[e][k] # i
        => m.counter = counterPartner[e]

\* The octets of every counter stand for the number of blocks it has masked,
\* past every carry of incrementMC, and are those of an earlier block
\* only after all their values (AES_ZAEHLER[i] of Protocol.txt line 44 is made
\* from i).
CountsBlocks ==
    \A e \in Endpoints :
        Value(Octets(counterOwn[e])) = counterOwn[e] % Weight[COUNTER_SIZE]

\* Every endpoint pair is a secure channel.
Channel == INSTANCE SecureChannel
    WITH sent <- [e \in Endpoints |-> Len(sent[e])]

ChannelSpec == Channel!Spec
=============================================================================
