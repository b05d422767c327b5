------------------------- MODULE MSTEndpointProofs -------------------------
(***************************************************************************)
(* The invariants of a pair of MST_Endpoints, for every number of keys,    *)
(* messages and damaged PDUs, and the proof that the pair implements       *)
(* SecureChannel.                                                          *)
(***************************************************************************)
EXTENDS MSTEndpoint, NumberProofs, SequenceTheorems

\* What an endpoint sent was masked with adjacent ranges of counter values,
\* from zero up to _CounterOwn.
Contiguous ==
    \A e \in Endpoints :
        /\ \A i \in DOMAIN sent[e] :
              /\ WellFormedSize(sent[e][i].size)
              /\ End(sent[e][i]) <= counterOwn[e]
        /\ \A i, j \in DOMAIN sent[e] :
              i < j => End(sent[e][i]) <= sent[e][j].counter
        /\ \A i \in DOMAIN sent[e] :
              sent[e][i].counter = IF i = 1 THEN 0 ELSE End(sent[e][i-1])
        /\ counterOwn[e] = IF Len(sent[e]) = 0 THEN 0
                           ELSE End(sent[e][Len(sent[e])])

\* _CounterPartner is past everything that was accepted.
AcceptedPassed ==
    \A e \in Endpoints : \A k \in DOMAIN accepted[e] :
        /\ accepted[e][k] \in DOMAIN sent[Partner(e)]
        /\ End(sent[Partner(e)][accepted[e][k]]) <= counterPartner[e]

\* Without a failure _CounterPartner is where the last accepted message ended.
NoFailureInStep ==
    \A e \in Endpoints :
        lastFailure[e] = NoFailure =>
            counterPartner[e] = IF Len(accepted[e]) = 0 THEN 0
                                ELSE End(sent[Partner(e)][Len(accepted[e])])

IndInv ==
    /\ TypeOK
    /\ Contiguous
    /\ AcceptedPassed
    /\ AcceptedInOrder
    /\ GapsAreSignalled
    /\ NoFailureInStep
-----------------------------------------------------------------------------
LEMMA PartnerFacts ==
    \A e \in Endpoints : /\ Partner(e) \in Endpoints
                         /\ Partner(e) # e
                         /\ Partner(Partner(e)) = e
  BY EndpointAssumption DEF Endpoints, Partner

\* A message takes a positive number of masks.
LEMMA EndFacts ==
    ASSUME NEW m \in SecureMessage
    PROVE  /\ m.counter \in Nat /\ m.size \in Nat
           /\ End(m) \in Nat
           /\ WellFormedSize(m.size) => m.counter < End(m)
<1>1. m.counter \in Nat /\ m.size \in Nat
  BY EndpointAssumption, UIntMaxAssumption DEF SecureMessage
<1>2. Blocks(m.size) \in Nat /\ (WellFormedSize(m.size) => Blocks(m.size) >= 4)
  BY <1>1, BlocksPositive
<1> QED
  BY <1>1, <1>2 DEF End

LEMMA SentFacts ==
    ASSUME TypeOK, NEW e \in Endpoints
    PROVE  /\ Len(sent[e]) \in Nat
           /\ DOMAIN sent[e] = 1..Len(sent[e])
           /\ \A i \in DOMAIN sent[e] : sent[e][i] \in SecureMessage
<1>1. sent[e] \in Seq(SecureMessage)
  BY DEF TypeOK
<1> QED
  BY <1>1, LenProperties, ElementOfSeq

LEMMA AcceptedFacts ==
    ASSUME TypeOK, NEW e \in Endpoints
    PROVE  /\ Len(accepted[e]) \in Nat
           /\ DOMAIN accepted[e] = 1..Len(accepted[e])
           /\ \A k \in DOMAIN accepted[e] : accepted[e][k] \in Nat
<1>1. accepted[e] \in Seq(Nat)
  BY DEF TypeOK
<1> QED
  BY <1>1, LenProperties, ElementOfSeq

\* The counters of what was sent grow with the position.
LEMMA CountersGrow ==
    ASSUME TypeOK, Contiguous, NEW e \in Endpoints,
           NEW i \in DOMAIN sent[e], NEW j \in DOMAIN sent[e], i <= j
    PROVE  sent[e][i].counter < End(sent[e][j])
<1>1. /\ i \in Nat /\ j \in Nat
      /\ sent[e][i] \in SecureMessage /\ sent[e][j] \in SecureMessage
  BY SentFacts
<1>2. /\ sent[e][i].counter \in Nat /\ sent[e][j].counter \in Nat
      /\ End(sent[e][i]) \in Nat /\ End(sent[e][j]) \in Nat
      /\ sent[e][i].counter < End(sent[e][i])
      /\ sent[e][j].counter < End(sent[e][j])
  BY <1>1, EndFacts DEF Contiguous
<1>3. i < j => End(sent[e][i]) <= sent[e][j].counter
  BY DEF Contiguous
<1> QED
  BY <1>1, <1>2, <1>3

\* Installing and creating keys leaves counters, messages and failures alone.
LEMMA KeyStep ==
    ASSUME IndInv, TypeOK',
           UNCHANGED <<counterOwn, counterPartner, sent, accepted, lastFailure>>
    PROVE  IndInv'
  BY DEF IndInv, Contiguous, AcceptedPassed, AcceptedInOrder,
         GapsAreSignalled, NoFailureInStep

\* A failed decryptSecureMessage may move _CounterPartner, by any amount.
LEMMA FailStep ==
    ASSUME IndInv, TypeOK', NEW e \in Endpoints, Fail(e),
           UNCHANGED <<keyVars, counterOwn, sent>>,
           counterPartner'[e] >= counterPartner[e],
           \A d \in Endpoints \ {e} : counterPartner'[d] = counterPartner[d]
    PROVE  IndInv'
<1>1. /\ lastFailure'[e] # NoFailure
      /\ \A d \in Endpoints \ {e} : lastFailure'[d] = lastFailure[d]
  BY DEF IndInv, TypeOK, Fail, NoFailure
<1>2. accepted' = accepted
  BY DEF Fail
<1>3. Contiguous' /\ AcceptedInOrder'
  BY <1>2 DEF IndInv, Contiguous, AcceptedInOrder
<1>4. GapsAreSignalled' /\ NoFailureInStep'
  BY <1>1, <1>2 DEF IndInv, GapsAreSignalled, NoFailureInStep
<1>5. AcceptedPassed'
  <2> SUFFICES ASSUME NEW d \in Endpoints, NEW k \in DOMAIN accepted[d]
               PROVE  /\ accepted[d][k] \in DOMAIN sent[Partner(d)]
                      /\ End(sent[Partner(d)][accepted[d][k]]) <= counterPartner'[d]
    BY <1>2 DEF AcceptedPassed
  <2>1. /\ accepted[d][k] \in DOMAIN sent[Partner(d)]
        /\ End(sent[Partner(d)][accepted[d][k]]) <= counterPartner[d]
    BY DEF IndInv, AcceptedPassed
  <2>2. End(sent[Partner(d)][accepted[d][k]]) \in Nat
    BY <2>1, PartnerFacts, SentFacts, EndFacts DEF IndInv
  <2>3. counterPartner[d] \in Nat /\ counterPartner'[d] \in Nat
    BY EndpointAssumption DEF IndInv, TypeOK
  <2>4. counterPartner[d] <= counterPartner'[d]
    BY <2>3
  <2> QED
    BY <2>1, <2>2, <2>3, <2>4
<1> QED
  BY <1>3, <1>4, <1>5 DEF IndInv
\* Accepting a message: its counter is _CounterPartner, so it lies past all
\* that was accepted, and without a failure it is the next one.
LEMMA AcceptStep ==
    ASSUME IndInv, TypeOK', NEW e \in Endpoints,
           NEW i \in DOMAIN sent[Partner(e)],
           WellFormedSize(sent[Partner(e)][i].size),
           Matches(e, sent[Partner(e)][i]),
           counterPartner' = [counterPartner EXCEPT
                                ![e] = End(sent[Partner(e)][i])],
           accepted' = [accepted EXCEPT ![e] = Append(@, i)],
           UNCHANGED <<keyVars, counterOwn, sent, lastFailure>>
    PROVE  IndInv'
<1> DEFINE p == Partner(e)
           n == Len(accepted[e])
<1>0. TypeOK /\ Contiguous /\ AcceptedPassed /\ AcceptedInOrder
      /\ GapsAreSignalled /\ NoFailureInStep
  BY DEF IndInv
<1>1. /\ p \in Endpoints
      /\ n \in Nat /\ DOMAIN accepted[e] = 1..n
      /\ DOMAIN sent[p] = 1..Len(sent[p]) /\ Len(sent[p]) \in Nat
      /\ i \in Nat /\ i >= 1
  BY <1>0, PartnerFacts, SentFacts, AcceptedFacts
<1>2. \A j \in DOMAIN sent[p] :
        /\ sent[p][j].counter \in Nat /\ End(sent[p][j]) \in Nat
        /\ sent[p][j].counter < End(sent[p][j])
  BY <1>0, <1>1, SentFacts, EndFacts DEF Contiguous
<1>3. sent[p][i].counter = counterPartner[e]
  BY DEF Matches
<1>4. /\ accepted'[e] = Append(accepted[e], i)
      /\ Len(accepted'[e]) = n + 1
      /\ DOMAIN accepted'[e] = 1..n+1
      /\ \A k \in 1..n : accepted'[e][k] = accepted[e][k]
      /\ accepted'[e][n+1] = i
      /\ \A d \in Endpoints \ {e} : accepted'[d] = accepted[d]
  <2>1. accepted[e] \in Seq(Nat)
    BY <1>0 DEF TypeOK
  <2>2. accepted'[e] = Append(accepted[e], i)
    BY <1>0 DEF TypeOK
  <2>3. \A d \in Endpoints \ {e} : accepted'[d] = accepted[d]
    BY <1>0 DEF TypeOK
  <2>4. /\ Append(accepted[e], i) \in Seq(Nat)
        /\ Len(Append(accepted[e], i)) = n + 1
        /\ \A k \in 1..n : Append(accepted[e], i)[k] = accepted[e][k]
        /\ Append(accepted[e], i)[n+1] = i
    BY <2>1, <1>1, AppendProperties
  <2>5. DOMAIN Append(accepted[e], i) = 1..n+1
    BY <2>4, LenProperties
  <2> QED
    BY <2>2, <2>3, <2>4, <2>5
<1>5. /\ counterPartner'[e] = End(sent[p][i])
      /\ \A d \in Endpoints \ {e} : counterPartner'[d] = counterPartner[d]
      /\ counterPartner[e] <= counterPartner'[e]
      /\ counterPartner[e] \in Nat
  <2>1. counterPartner[e] \in Nat
    BY <1>0, EndpointAssumption DEF TypeOK
  <2> QED
    BY <1>0, <1>2, <1>3, <2>1 DEF TypeOK
<1>6. \A k \in 1..n : /\ accepted[e][k] \in DOMAIN sent[p]
                      /\ End(sent[p][accepted[e][k]]) <= counterPartner[e]
                      /\ accepted[e][k] < i
  <2> SUFFICES ASSUME NEW k \in 1..n
               PROVE  /\ accepted[e][k] \in DOMAIN sent[p]
                      /\ End(sent[p][accepted[e][k]]) <= counterPartner[e]
                      /\ accepted[e][k] < i
    OBVIOUS
  <2>1. /\ accepted[e][k] \in DOMAIN sent[p]
        /\ End(sent[p][accepted[e][k]]) <= counterPartner[e]
    BY <1>0, <1>1 DEF AcceptedPassed
  <2>2. CASE i <= accepted[e][k]
    <3>1. sent[p][i].counter < End(sent[p][accepted[e][k]])
      BY <1>0, <1>1, <2>1, <2>2, CountersGrow
    <3> QED
      BY <1>2, <1>3, <1>5, <2>1, <3>1
  <2>3. accepted[e][k] \in Nat
    BY <2>1, <1>1
  <2> QED
    BY <2>1, <2>2, <2>3, <1>1
<1>7. Contiguous'
  BY <1>0 DEF Contiguous
<1>8. AcceptedInOrder'
  <2> SUFFICES ASSUME NEW d \in Endpoints, NEW j \in DOMAIN accepted'[d],
                      NEW k \in DOMAIN accepted'[d], j < k
               PROVE  accepted'[d][j] < accepted'[d][k]
    BY DEF AcceptedInOrder
  <2>1. CASE d # e
    BY <1>0, <1>4, <2>1 DEF AcceptedInOrder
  <2>2. CASE d = e /\ k = n + 1
    BY <1>1, <1>4, <1>6, <2>2
  <2>3. CASE d = e /\ k # n + 1
    BY <1>0, <1>1, <1>4, <2>3 DEF AcceptedInOrder
  <2> QED
    BY <2>1, <2>2, <2>3
<1>9. AcceptedPassed'
  <2> SUFFICES ASSUME NEW d \in Endpoints, NEW k \in DOMAIN accepted'[d]
               PROVE  /\ accepted'[d][k] \in DOMAIN sent[Partner(d)]
                      /\ End(sent[Partner(d)][accepted'[d][k]]) <= counterPartner'[d]
    BY DEF AcceptedPassed
  <2>1. CASE d # e
    BY <1>0, <1>4, <1>5, <2>1 DEF AcceptedPassed
  <2>2. CASE d = e /\ k = n + 1
    BY <1>1, <1>2, <1>4, <1>5, <2>2
  <2>3. CASE d = e /\ k # n + 1
    <3>1. k \in 1..n
      BY <1>1, <1>4, <2>3
    <3>2. counterPartner'[e] \in Nat
      BY <1>2, <1>5
    <3>3. /\ accepted'[d][k] = accepted[e][k]
          /\ End(sent[p][accepted[e][k]]) \in Nat
      BY <1>2, <1>4, <1>6, <2>3, <3>1
    <3> QED
      BY <1>5, <1>6, <2>3, <3>1, <3>2, <3>3
  <2> QED
    BY <2>1, <2>2, <2>3
<1>10. lastFailure[e] = NoFailure => i = n + 1
  <2> SUFFICES ASSUME lastFailure[e] = NoFailure PROVE i = n + 1
    OBVIOUS
  <2>1. \A k \in 1..n : accepted[e][k] = k
    BY <1>0, <1>1 DEF GapsAreSignalled
  <2>2. counterPartner[e] = IF n = 0 THEN 0 ELSE End(sent[p][n])
    BY <1>0 DEF NoFailureInStep
  <2>3. i > n
    <3>1. n > 0 => accepted[e][n] = n /\ accepted[e][n] < i
      BY <1>1, <1>6, <2>1
    <3> QED
      BY <1>1, <3>1
  <2>4. n + 1 \in DOMAIN sent[p]
    BY <1>1, <2>3
  <2>5. sent[p][n+1].counter = IF n + 1 = 1 THEN 0 ELSE End(sent[p][n+1-1])
    BY <1>0, <1>1, <2>4 DEF Contiguous
  <2>6. sent[p][n+1].counter = counterPartner[e]
    BY <1>1, <2>2, <2>5
  <2>7. CASE i > n + 1
    <3>1. End(sent[p][n+1]) <= sent[p][i].counter
      BY <1>0, <1>1, <2>4, <2>7 DEF Contiguous
    <3> QED
      BY <1>2, <1>3, <2>4, <2>6, <3>1
  <2> QED
    BY <1>1, <2>3, <2>7
<1>11. GapsAreSignalled'
  BY <1>0, <1>1, <1>4, <1>10 DEF GapsAreSignalled
<1>12. NoFailureInStep'
  <2> SUFFICES ASSUME NEW d \in Endpoints, lastFailure[d] = NoFailure
               PROVE  counterPartner'[d] = IF Len(accepted'[d]) = 0 THEN 0
                             ELSE End(sent[Partner(d)][Len(accepted'[d])])
    BY DEF NoFailureInStep
  <2>1. CASE d # e
    BY <1>0, <1>4, <1>5, <2>1 DEF NoFailureInStep
  <2>2. CASE d = e
    BY <1>1, <1>4, <1>5, <1>10, <2>2
  <2> QED
    BY <2>1, <2>2
<1> QED
  BY <1>7, <1>8, <1>9, <1>11, <1>12 DEF IndInv
-----------------------------------------------------------------------------
\* The sizes of the messages an endpoint makes.
LEMMA LengthFacts ==
    ASSUME NEW e \in Endpoints, NEW length \in Lengths[e]
    PROVE  /\ NeededSize(length) \in 0..UIntMax
           /\ NeededSize(length) \in Nat
           /\ WellFormedSize(NeededSize(length))
           /\ Blocks(NeededSize(length)) \in Nat
<1>1. length \in Nat /\ LengthFits(length)
  BY EndpointAssumption, UIntMaxAssumption
<1>2. /\ NeededSize(length) \in 0..UIntMax
      /\ WellFormedSize(NeededSize(length))
  BY <1>1, NeededSizeExact
<1>3. NeededSize(length) \in Nat
  BY <1>2, UIntMaxAssumption
<1> QED
  BY <1>2, <1>3, BlocksPositive

LEMMA TypeStep ==
    ASSUME TypeOK, NEW e \in Endpoints, EndpointStep(e)
    PROVE  TypeOK'
<1> USE EndpointAssumption, PartnerFacts
<1>1. CASE CreateReceivingKey(e)
  BY <1>1 DEF TypeOK, CreateReceivingKey
<1>2. CASE CreateReceivingKeyFails(e)
  BY <1>2 DEF TypeOK, CreateReceivingKeyFails
<1>3. ASSUME NEW key \in ArrivingKeys(e), InitSendingKey(e, key) PROVE TypeOK'
  <2>1. key \in {GarbledKey} \cup Nat
    BY DEF ArrivingKeys, TypeOK
  <2> QED
    BY <1>3, <2>1 DEF TypeOK, InitSendingKey
<1>4. ASSUME NEW length \in Lengths[e], EncryptToSecureMessage(e, length)
      PROVE  TypeOK'
  <2> DEFINE size == NeededSize(length)
             m == [key |-> sendingKey[e], counter |-> counterOwn[e], size |-> size]
  <2>1. size \in 0..UIntMax /\ Blocks(size) \in Nat
    BY LengthFacts
  <2>2. counterOwn[e] + Blocks(size) \in 0..CounterMax
    BY <1>4, <2>1 DEF TypeOK, EncryptToSecureMessage
  <2>3. m \in SecureMessage
    BY <1>4, <2>1 DEF TypeOK, EncryptToSecureMessage, SecureMessage, NoKey
  <2>4. Append(sent[e], m) \in Seq(SecureMessage)
    BY <2>3, AppendProperties DEF TypeOK
  <2>5. sent' \in [Endpoints -> Seq(SecureMessage)]
    BY <1>4, <2>4 DEF TypeOK, EncryptToSecureMessage
  <2>6. counterOwn' \in [Endpoints -> 0..CounterMax]
    BY <1>4, <2>2 DEF TypeOK, EncryptToSecureMessage
  <2> QED
    BY <1>4, <2>5, <2>6 DEF TypeOK, EncryptToSecureMessage
<1>5. ASSUME Fail(e) PROVE /\ lastFailure' \in [Endpoints -> {NoFailure} \cup Nat]
                           /\ accepted' = accepted
  BY <1>5 DEF TypeOK, Fail
<1>6. ASSUME NEW size \in Nat, DecryptRefused(e, size) PROVE TypeOK'
  <2>1. Fail(e)
    BY <1>6 DEF DecryptRefused
  <2> QED
    BY <1>5, <1>6, <2>1 DEF TypeOK, DecryptRefused, keyVars
<1>7. ASSUME NEW size \in Nat, Unmask(e, size)
      PROVE  counterPartner' \in [Endpoints -> 0..CounterMax]
  <2>1. Blocks(size) \in Nat
    BY BlocksPositive
  <2> QED
    BY <1>7, <2>1 DEF TypeOK, Unmask
<1>8. ASSUME NEW i \in DOMAIN sent[Partner(e)]
      PROVE  /\ sent[Partner(e)][i].size \in Nat
             /\ i \in Nat
  BY SentFacts, EndFacts
<1>9. ASSUME NEW i \in DOMAIN sent[Partner(e)], DecryptSecureMessage(e, i)
      PROVE  TypeOK'
  <2>1. counterPartner' \in [Endpoints -> 0..CounterMax]
    BY <1>7, <1>8, <1>9 DEF DecryptSecureMessage
  <2>2. CASE Fail(e)
    BY <1>5, <1>9, <2>1, <2>2 DEF TypeOK, DecryptSecureMessage, keyVars
  <2>3. CASE ~Fail(e)
    <3>1. accepted' = [accepted EXCEPT ![e] = Append(@, i)] /\ UNCHANGED lastFailure
      BY <1>9, <2>3 DEF DecryptSecureMessage
    <3>2. Append(accepted[e], i) \in Seq(Nat)
      BY <1>8, AppendProperties DEF TypeOK
    <3>3. accepted' \in [Endpoints -> Seq(Nat)]
      BY <3>1, <3>2 DEF TypeOK
    <3> QED
      BY <1>9, <2>1, <3>1, <3>3 DEF TypeOK, DecryptSecureMessage, keyVars
  <2> QED
    BY <2>2, <2>3
<1>10. ASSUME NEW size \in Nat, DecryptDamaged(e, size) PROVE TypeOK'
  <2>1. Fail(e) /\ Unmask(e, size)
    BY <1>10 DEF DecryptDamaged
  <2> QED
    BY <1>5, <1>7, <1>10, <2>1 DEF TypeOK, DecryptDamaged, keyVars
<1>11. \A size \in DamagedSizes[e] : size \in Nat
  OBVIOUS
<1> QED
  BY <1>1, <1>2, <1>3, <1>4, <1>6, <1>8, <1>9, <1>10, <1>11 DEF EndpointStep
\* A new message starts where the messages before it end.
LEMMA EncryptStep ==
    ASSUME IndInv, TypeOK', NEW e \in Endpoints, NEW length \in Lengths[e],
           EncryptToSecureMessage(e, length)
    PROVE  IndInv'
<1> DEFINE n == Len(sent[e])
           size == NeededSize(length)
           m == [key |-> sendingKey[e], counter |-> counterOwn[e], size |-> size]
<1>0. TypeOK /\ Contiguous /\ AcceptedPassed /\ AcceptedInOrder
      /\ GapsAreSignalled /\ NoFailureInStep
  BY DEF IndInv
<1>1. /\ n \in Nat /\ DOMAIN sent[e] = 1..n
      /\ size \in 0..UIntMax /\ size \in Nat /\ WellFormedSize(size)
      /\ Blocks(size) \in Nat
      /\ counterOwn[e] \in 0..CounterMax /\ counterOwn[e] \in Nat
  BY <1>0, SentFacts, LengthFacts, EndpointAssumption DEF TypeOK
<1>2. m \in SecureMessage
  BY <1>0, <1>1 DEF TypeOK, EncryptToSecureMessage, SecureMessage, NoKey
<1>3. /\ m.size = size /\ m.counter = counterOwn[e]
      /\ End(m) = counterOwn[e] + Blocks(size)
  BY DEF End
<1>4. /\ Len(sent'[e]) = n + 1
      /\ DOMAIN sent'[e] = 1..n+1
      /\ \A i \in 1..n : sent'[e][i] = sent[e][i]
      /\ sent'[e][n+1] = m
      /\ \A d \in Endpoints \ {e} : sent'[d] = sent[d]
  <2>1. sent[e] \in Seq(SecureMessage)
    BY <1>0 DEF TypeOK
  <2>2. /\ sent'[e] = Append(sent[e], m)
        /\ \A d \in Endpoints \ {e} : sent'[d] = sent[d]
    BY <1>0 DEF TypeOK, EncryptToSecureMessage
  <2>3. /\ Append(sent[e], m) \in Seq(SecureMessage)
        /\ Len(Append(sent[e], m)) = n + 1
        /\ \A i \in 1..n : Append(sent[e], m)[i] = sent[e][i]
        /\ Append(sent[e], m)[n+1] = m
    BY <2>1, <1>1, <1>2, AppendProperties
  <2>4. DOMAIN Append(sent[e], m) = 1..n+1
    BY <2>3, LenProperties
  <2> QED
    BY <2>2, <2>3, <2>4
<1>5. /\ counterOwn'[e] = counterOwn[e] + Blocks(size)
      /\ \A d \in Endpoints \ {e} : counterOwn'[d] = counterOwn[d]
      /\ UNCHANGED <<counterPartner, accepted, lastFailure>>
  BY <1>0 DEF TypeOK, EncryptToSecureMessage
<1>6. \A i \in 1..n : /\ End(sent[e][i]) \in Nat
                      /\ End(sent[e][i]) <= counterOwn[e]
  BY <1>0, <1>1, SentFacts, EndFacts DEF Contiguous
<1> HIDE DEF m, n, size
<1>7. Contiguous'
  <2> SUFFICES ASSUME NEW d \in Endpoints
               PROVE
        /\ \A i \in DOMAIN sent'[d] :
              /\ WellFormedSize(sent'[d][i].size)
              /\ End(sent'[d][i]) <= counterOwn'[d]
        /\ \A i, j \in DOMAIN sent'[d] :
              i < j => End(sent'[d][i]) <= sent'[d][j].counter
        /\ \A i \in DOMAIN sent'[d] :
              sent'[d][i].counter = IF i = 1 THEN 0 ELSE End(sent'[d][i-1])
        /\ counterOwn'[d] = IF Len(sent'[d]) = 0 THEN 0
                            ELSE End(sent'[d][Len(sent'[d])])
    BY DEF Contiguous
  <2>1. CASE d # e
    BY <1>0, <1>4, <1>5, <2>1 DEF Contiguous
  <2>2. CASE d = e
    <3>1. ASSUME NEW i \in 1..n+1
          PROVE  /\ WellFormedSize(sent'[e][i].size)
                 /\ End(sent'[e][i]) <= counterOwn'[e]
      <4>1. CASE i = n + 1
        BY <1>1, <1>3, <1>4, <1>5, <4>1
      <4>2. CASE i # n + 1
        <5>1. i \in 1..n /\ sent'[e][i] = sent[e][i]
          BY <1>1, <1>4, <4>2
        <5>2. WellFormedSize(sent[e][i].size)
          BY <1>0, <1>1, <5>1 DEF Contiguous
        <5> QED
          BY <1>1, <1>5, <1>6, <5>1, <5>2
      <4> QED
        BY <4>1, <4>2
    <3>2. ASSUME NEW i \in 1..n+1, NEW j \in 1..n+1, i < j
          PROVE  End(sent'[e][i]) <= sent'[e][j].counter
      <4>1. i \in 1..n /\ sent'[e][i] = sent[e][i]
        BY <1>1, <1>4, <3>2
      <4>2. CASE j = n + 1
        BY <1>3, <1>4, <1>6, <4>1, <4>2
      <4>3. CASE j # n + 1
        <5>1. j \in 1..n /\ sent'[e][j] = sent[e][j]
          BY <1>1, <1>4, <4>3
        <5> QED
          BY <1>0, <1>1, <3>2, <4>1, <5>1 DEF Contiguous
      <4> QED
        BY <4>2, <4>3
    <3>3. ASSUME NEW i \in 1..n+1
          PROVE  sent'[e][i].counter = IF i = 1 THEN 0 ELSE End(sent'[e][i-1])
      <4>1. i # 1 => i-1 \in 1..n /\ sent'[e][i-1] = sent[e][i-1]
        BY <1>1, <1>4
      <4>2. CASE i = n + 1
        <5>1. sent'[e][i].counter = IF n = 0 THEN 0 ELSE End(sent[e][n])
          BY <1>0, <1>3, <1>4, <4>2 DEF Contiguous, n
        <5> QED
          BY <1>1, <4>1, <4>2, <5>1
      <4>3. CASE i # n + 1
        <5>1. i \in 1..n /\ sent'[e][i] = sent[e][i]
          BY <1>1, <1>4, <4>3
        <5>2. sent[e][i].counter = IF i = 1 THEN 0 ELSE End(sent[e][i-1])
          BY <1>0, <1>1, <5>1 DEF Contiguous
        <5> QED
          BY <4>1, <5>1, <5>2
      <4> QED
        BY <4>2, <4>3
    <3>4. counterOwn'[e] = End(sent'[e][n+1]) /\ n + 1 # 0
      BY <1>1, <1>3, <1>4, <1>5
    <3> QED
      BY <1>4, <2>2, <3>1, <3>2, <3>3, <3>4
  <2> QED
    BY <2>1, <2>2
<1>8. ASSUME NEW d \in Endpoints, NEW i \in DOMAIN sent[d]
      PROVE  i \in DOMAIN sent'[d] /\ sent'[d][i] = sent[d][i]
  <2>1. CASE d # e
    BY <1>4, <2>1
  <2>2. CASE d = e
    <3>1. i \in 1..n
      BY <1>1, <2>2
    <3> QED
      BY <1>1, <1>4, <2>2, <3>1
  <2> QED
    BY <2>1, <2>2
<1>9. AcceptedPassed'
  <2> SUFFICES ASSUME NEW d \in Endpoints, NEW k \in DOMAIN accepted[d]
               PROVE  /\ accepted[d][k] \in DOMAIN sent'[Partner(d)]
                      /\ End(sent'[Partner(d)][accepted[d][k]]) <= counterPartner[d]
    BY <1>5 DEF AcceptedPassed
  <2>1. /\ accepted[d][k] \in DOMAIN sent[Partner(d)]
        /\ End(sent[Partner(d)][accepted[d][k]]) <= counterPartner[d]
    BY <1>0 DEF AcceptedPassed
  <2> QED
    BY <1>8, <2>1, PartnerFacts
<1>10. NoFailureInStep'
  <2> SUFFICES ASSUME NEW d \in Endpoints, lastFailure[d] = NoFailure
               PROVE  counterPartner[d] = IF Len(accepted[d]) = 0 THEN 0
                             ELSE End(sent'[Partner(d)][Len(accepted[d])])
    BY <1>5 DEF NoFailureInStep
  <2>1. counterPartner[d] = IF Len(accepted[d]) = 0 THEN 0
                            ELSE End(sent[Partner(d)][Len(accepted[d])])
    BY <1>0 DEF NoFailureInStep
  <2>2. Len(accepted[d]) # 0 => Len(accepted[d]) \in DOMAIN sent[Partner(d)]
    <3>1. /\ Len(accepted[d]) \in Nat
          /\ DOMAIN accepted[d] = 1..Len(accepted[d])
      BY <1>0, AcceptedFacts
    <3>2. \A k \in DOMAIN accepted[d] :
             accepted[d][k] = k /\ accepted[d][k] \in DOMAIN sent[Partner(d)]
      BY <1>0 DEF GapsAreSignalled, AcceptedPassed
    <3>3. Len(accepted[d]) # 0 => Len(accepted[d]) \in DOMAIN accepted[d]
      BY <3>1
    <3> QED
      BY <3>2, <3>3
  <2> QED
    BY <1>8, <2>1, <2>2, PartnerFacts
<1>11. AcceptedInOrder' /\ GapsAreSignalled'
  BY <1>0, <1>5 DEF AcceptedInOrder, GapsAreSignalled
<1> QED
  BY <1>7, <1>9, <1>10, <1>11 DEF IndInv

LEMMA NextStep == ASSUME IndInv, [Next]_vars PROVE IndInv'
<1>1. CASE UNCHANGED vars
  BY <1>1 DEF vars, IndInv, TypeOK, Contiguous, AcceptedPassed,
              AcceptedInOrder, GapsAreSignalled, NoFailureInStep
<1>2. ASSUME NEW e \in Endpoints, EndpointStep(e) PROVE IndInv'
  <2>0. TypeOK /\ TypeOK'
    BY <1>2, TypeStep DEF IndInv
  <2>1. CASE CreateReceivingKey(e) \/ CreateReceivingKeyFails(e)
    BY <2>0, <2>1, KeyStep DEF CreateReceivingKey, CreateReceivingKeyFails
  <2>2. ASSUME NEW key \in ArrivingKeys(e), InitSendingKey(e, key) PROVE IndInv'
    BY <2>0, <2>2, KeyStep DEF InitSendingKey
  <2>3. ASSUME NEW length \in Lengths[e], EncryptToSecureMessage(e, length)
        PROVE  IndInv'
    BY <2>0, <2>3, EncryptStep
  <2>4. counterPartner[e] \in Nat
        /\ counterPartner \in [Endpoints -> 0..CounterMax]
    BY <2>0, EndpointAssumption DEF TypeOK
  <2>5. ASSUME NEW size \in Nat, DecryptRefused(e, size) PROVE IndInv'
    <3>1. /\ counterPartner'[e] >= counterPartner[e]
          /\ \A d \in Endpoints \ {e} : counterPartner'[d] = counterPartner[d]
      BY <2>4, <2>5 DEF DecryptRefused
    <3> QED
      BY <2>0, <2>5, <3>1, FailStep DEF DecryptRefused
  <2>6. ASSUME NEW size \in Nat, Unmask(e, size)
        PROVE  /\ counterPartner'[e] >= counterPartner[e]
               /\ \A d \in Endpoints \ {e} : counterPartner'[d] = counterPartner[d]
    <3>1. Blocks(size) \in Nat
      BY BlocksPositive
    <3> QED
      BY <2>4, <2>6, <3>1 DEF Unmask
  <2>7. ASSUME NEW size \in Nat, DecryptDamaged(e, size) PROVE IndInv'
    <3>1. /\ counterPartner'[e] >= counterPartner[e]
          /\ \A d \in Endpoints \ {e} : counterPartner'[d] = counterPartner[d]
      BY <2>6, <2>7 DEF DecryptDamaged
    <3> QED
      BY <2>0, <2>7, <3>1, FailStep DEF DecryptDamaged
  <2>8. ASSUME NEW i \in DOMAIN sent[Partner(e)] PROVE sent[Partner(e)][i].size \in Nat
    BY <2>0, PartnerFacts, SentFacts, EndFacts
  <2>9. ASSUME NEW i \in DOMAIN sent[Partner(e)], DecryptSecureMessage(e, i)
        PROVE  IndInv'
    <3> DEFINE m == sent[Partner(e)][i]
    <3>1. m.size \in Nat /\ WellFormedSize(m.size)
      BY <2>8, <2>9 DEF DecryptSecureMessage, Decryptable
    <3>2. CASE Matches(e, m)
      <4>1. counterPartner' = [counterPartner EXCEPT ![e] = End(m)]
        BY <2>9, <3>2 DEF DecryptSecureMessage, Unmask, Matches, End
      <4> QED
        BY <2>0, <2>9, <3>1, <3>2, <4>1, AcceptStep DEF DecryptSecureMessage
    <3>3. CASE ~Matches(e, m)
      <4>1. /\ counterPartner'[e] >= counterPartner[e]
            /\ \A d \in Endpoints \ {e} : counterPartner'[d] = counterPartner[d]
        BY <2>6, <2>9, <3>1 DEF DecryptSecureMessage
      <4> QED
        BY <2>0, <2>9, <3>3, <4>1, FailStep DEF DecryptSecureMessage
    <3> QED
      BY <3>2, <3>3
  <2>10. \A size \in DamagedSizes[e] : size \in Nat
    BY EndpointAssumption
  <2> QED
    BY <1>2, <2>1, <2>2, <2>3, <2>5, <2>7, <2>8, <2>9, <2>10 DEF EndpointStep
<1> QED
  BY <1>1, <1>2 DEF Next

LEMMA InitEstablishes == Init => IndInv
<1> SUFFICES ASSUME Init PROVE IndInv
  OBVIOUS
<1>1. \A e \in Endpoints : /\ sent[e] = << >> /\ accepted[e] = << >>
                           /\ counterOwn[e] = 0 /\ counterPartner[e] = 0
  BY DEF Init
<1>2. TypeOK
  BY EndpointAssumption DEF Init, TypeOK, NoKey
<1>3. \A e \in Endpoints : /\ DOMAIN sent[e] = {} /\ Len(sent[e]) = 0
                           /\ DOMAIN accepted[e] = {} /\ Len(accepted[e]) = 0
  BY <1>1
<1> QED
  BY <1>1, <1>2, <1>3 DEF IndInv, Contiguous, AcceptedPassed, AcceptedInOrder,
                          GapsAreSignalled, NoFailureInStep

LEMMA IndInvInvariant == Spec => []IndInv
  BY InitEstablishes, NextStep, PTL DEF Spec
-----------------------------------------------------------------------------
\* The state of both endpoints keeps its type.
THEOREM TypeCorrect == Spec => []TypeOK
<1>1. IndInv => TypeOK
  BY DEF IndInv
<1> QED
  BY <1>1, IndInvInvariant, PTL

\* A PDU that is repeated, delayed or overtaken is never accepted again.
THEOREM InOrderTheorem == Spec => []AcceptedInOrder
<1>1. IndInv => AcceptedInOrder
  BY DEF IndInv
<1> QED
  BY <1>1, IndInvInvariant, PTL

\* As long as no call failed, no message was left out.
THEOREM GapsTheorem == Spec => []GapsAreSignalled
<1>1. IndInv => GapsAreSignalled
  BY DEF IndInv
<1> QED
  BY <1>1, IndInvInvariant, PTL

\* No mask is used twice, whatever keys are exchanged again and again.
THEOREM MasksTheorem == Spec => []MasksNeverReused
<1>1. IndInv => MasksNeverReused
  <2>1. ASSUME IndInv, NEW e \in Endpoints, NEW i \in DOMAIN sent[e],
               NEW j \in DOMAIN sent[e], i < j
        PROVE  Masks(sent[e][i]) \cap Masks(sent[e][j]) = {}
    <3>1. /\ End(sent[e][i]) \in Nat /\ sent[e][i].counter \in Nat
          /\ End(sent[e][j]) \in Nat /\ sent[e][j].counter \in Nat
      BY <2>1, SentFacts, EndFacts DEF IndInv
    <3>2. End(sent[e][i]) <= sent[e][j].counter
      BY <2>1 DEF IndInv, Contiguous
    <3>3. ASSUME NEW c \in sent[e][i].counter .. End(sent[e][i]) - 1,
                 NEW d \in sent[e][j].counter .. End(sent[e][j]) - 1
          PROVE  c # d
      BY <3>1, <3>2
    <3> QED
      BY <3>3 DEF Masks
  <2>2. ASSUME IndInv, NEW e \in Endpoints, NEW i \in DOMAIN sent[e],
               NEW j \in DOMAIN sent[e]
        PROVE  i \in Nat /\ j \in Nat
    BY <2>2, SentFacts DEF IndInv
  <2> QED
    BY <2>1, <2>2 DEF MasksNeverReused
<1> QED
  BY <1>1, IndInvInvariant, PTL

\* As long as no call failed the endpoints stay in step, also across new keys.
THEOREM InStepTheorem == Spec => []NextMessageInStep
<1>1. IndInv => NextMessageInStep
  <2> SUFFICES ASSUME IndInv, NEW e \in Endpoints, lastFailure[e] = NoFailure,
                      Len(accepted[e]) + 1 \in DOMAIN sent[Partner(e)]
               PROVE  sent[Partner(e)][Len(accepted[e]) + 1].counter
                        = counterPartner[e]
    BY DEF NextMessageInStep
  <2>1. Len(accepted[e]) \in Nat
    BY AcceptedFacts DEF IndInv
  <2>2. sent[Partner(e)][Len(accepted[e]) + 1].counter =
          IF Len(accepted[e]) + 1 = 1 THEN 0
          ELSE End(sent[Partner(e)][Len(accepted[e]) + 1 - 1])
    BY PartnerFacts DEF IndInv, Contiguous
  <2>3. counterPartner[e] = IF Len(accepted[e]) = 0 THEN 0
                            ELSE End(sent[Partner(e)][Len(accepted[e])])
    BY DEF IndInv, NoFailureInStep
  <2> QED
    BY <2>1, <2>2, <2>3
<1> QED
  BY <1>1, IndInvInvariant, PTL
-----------------------------------------------------------------------------
\* The abstract channel names its endpoints like this module.
LEMMA ChannelEndpoints ==
    /\ Channel!Endpoints = Endpoints
    /\ \A e \in Endpoints : Channel!Partner(e) = Partner(e)
  BY DEF Channel!Endpoints, Channel!Partner, Endpoints, Partner

LEMMA ChannelInit == Init => Channel!Init
  BY ChannelEndpoints DEF Init, Channel!Init

\* Only a new message and an accepted one show in the abstract channel.
LEMMA ChannelStutters ==
    ASSUME UNCHANGED <<sent, accepted>> PROVE UNCHANGED Channel!vars
  BY DEF Channel!vars

LEMMA ChannelSend ==
    ASSUME IndInv, NEW e \in Endpoints, NEW length \in Lengths[e],
           EncryptToSecureMessage(e, length)
    PROVE  Channel!Next
<1> DEFINE m == [key |-> sendingKey[e], counter |-> counterOwn[e],
                 size |-> NeededSize(length)]
           count == [d \in Endpoints |-> Len(sent[d])]
<1>1. /\ sent' = [sent EXCEPT ![e] = Append(@, m)]
      /\ UNCHANGED accepted
  BY DEF EncryptToSecureMessage
<1>2. sent \in [Endpoints -> Seq(SecureMessage)]
  BY DEF IndInv, TypeOK
<1>3. m \in SecureMessage
  <2>1. NeededSize(length) \in 0..UIntMax
    BY LengthFacts
  <2> QED
    BY <2>1 DEF IndInv, TypeOK, EncryptToSecureMessage, SecureMessage, NoKey
<1>4. Len(sent'[e]) = Len(sent[e]) + 1
  <2>1. sent'[e] = Append(sent[e], m) /\ sent[e] \in Seq(SecureMessage)
    BY <1>1, <1>2
  <2> QED
    BY <1>3, <2>1, AppendProperties
<1>5. \A d \in Endpoints \ {e} : sent'[d] = sent[d]
  BY <1>1, <1>2
<1>6. [d \in Endpoints |-> Len(sent'[d])] = [count EXCEPT ![e] = @ + 1]
  BY <1>4, <1>5
<1>7. Channel!Send(e)
  BY <1>1, <1>6 DEF Channel!Send, Channel!Endpoints, Endpoints
<1> QED
  BY <1>7, ChannelEndpoints DEF Channel!Next

LEMMA ChannelAccept ==
    ASSUME IndInv, IndInv', NEW e \in Endpoints,
           NEW i \in DOMAIN sent[Partner(e)],
           accepted' = [accepted EXCEPT ![e] = Append(@, i)],
           UNCHANGED sent
    PROVE  Channel!Next
<1> DEFINE n == Len(accepted[e])
<1>1. /\ i \in Nat /\ i \in 1..Len(sent[Partner(e)])
      /\ Partner(e) \in Endpoints
  BY PartnerFacts, SentFacts DEF IndInv
<1>2. /\ n \in Nat /\ DOMAIN accepted[e] = 1..n
      /\ accepted[e] \in Seq(Nat)
  BY AcceptedFacts DEF IndInv, TypeOK
<1>3. /\ accepted'[e] = Append(accepted[e], i)
      /\ DOMAIN accepted'[e] = 1..n+1
      /\ \A k \in 1..n : accepted'[e][k] = accepted[e][k]
      /\ accepted'[e][n+1] = i
  <2>1. accepted'[e] = Append(accepted[e], i)
    BY DEF IndInv, TypeOK
  <2>2. /\ Append(accepted[e], i) \in Seq(Nat)
        /\ Len(Append(accepted[e], i)) = n + 1
        /\ \A k \in 1..n : Append(accepted[e], i)[k] = accepted[e][k]
        /\ Append(accepted[e], i)[n+1] = i
    BY <1>1, <1>2, AppendProperties
  <2>3. DOMAIN Append(accepted[e], i) = 1..n+1
    BY <2>2, LenProperties
  <2> QED
    BY <2>1, <2>2, <2>3
<1>4. \A k \in DOMAIN accepted[e] : accepted[e][k] < i
  <2> SUFFICES ASSUME NEW k \in 1..n PROVE accepted[e][k] < i
    BY <1>2
  <2>1. /\ k \in DOMAIN accepted'[e] /\ n+1 \in DOMAIN accepted'[e]
        /\ k < n + 1
    BY <1>2, <1>3
  <2>2. accepted'[e][k] < accepted'[e][n+1]
    BY <2>1 DEF IndInv, AcceptedInOrder
  <2> QED
    BY <1>3, <2>2
<1>5. Channel!Accept(e, i)
  BY <1>4 DEF Channel!Accept
<1>6. i \in 1..[d \in Endpoints |-> Len(sent[d])][Partner(e)]
  BY <1>1
<1> QED
  BY <1>5, <1>6, ChannelEndpoints DEF Channel!Next

LEMMA ChannelStep ==
    ASSUME IndInv, [Next]_vars
    PROVE  [Channel!Next]_Channel!vars
<1>0. IndInv'
  BY NextStep
<1>1. CASE UNCHANGED vars
  BY <1>1, ChannelStutters DEF vars
<1>2. ASSUME NEW e \in Endpoints, EndpointStep(e)
      PROVE  [Channel!Next]_Channel!vars
  <2>1. CASE CreateReceivingKey(e) \/ CreateReceivingKeyFails(e)
    BY <2>1, ChannelStutters DEF CreateReceivingKey, CreateReceivingKeyFails
  <2>2. ASSUME NEW key \in ArrivingKeys(e), InitSendingKey(e, key)
        PROVE  [Channel!Next]_Channel!vars
    BY <2>2, ChannelStutters DEF InitSendingKey
  <2>3. ASSUME NEW length \in Lengths[e], EncryptToSecureMessage(e, length)
        PROVE  [Channel!Next]_Channel!vars
    BY <2>3, ChannelSend
  <2>4. ASSUME NEW size, DecryptRefused(e, size) \/ DecryptDamaged(e, size)
        PROVE  [Channel!Next]_Channel!vars
    BY <2>4, ChannelStutters DEF DecryptRefused, DecryptDamaged, Fail
  <2>5. ASSUME NEW i \in DOMAIN sent[Partner(e)], DecryptSecureMessage(e, i)
        PROVE  [Channel!Next]_Channel!vars
    <3>1. CASE Matches(e, sent[Partner(e)][i])
      BY <1>0, <2>5, <3>1, ChannelAccept DEF DecryptSecureMessage
    <3>2. CASE ~Matches(e, sent[Partner(e)][i])
      BY <2>5, <3>2, ChannelStutters DEF DecryptSecureMessage, Fail
    <3> QED
      BY <3>1, <3>2
  <2> QED
    BY <1>2, <2>1, <2>2, <2>3, <2>4, <2>5 DEF EndpointStep
<1> QED
  BY <1>1, <1>2 DEF Next

\* A pair of endpoints is a secure channel, whatever the transport does.
THEOREM ChannelTheorem == Spec => ChannelSpec
<1>1. Init => Channel!Init
  BY ChannelInit
<1>2. IndInv /\ [Next]_vars => [Channel!Next]_Channel!vars
  BY ChannelStep
<1> QED
  BY <1>1, <1>2, IndInvInvariant, PTL DEF Spec, ChannelSpec, Channel!Spec
-----------------------------------------------------------------------------
\* Octets of a masking counter.
Digits == [Positions -> 0..Base-1]

LEMMA WeightFacts ==
    /\ Weight \in [0..COUNTER_SIZE -> Nat \ {0}]
    /\ Weight[0] = 1
    /\ \A n \in 0..COUNTER_SIZE-1 : Weight[n+1] = Base * Weight[n]
<1> DEFINE next == [p \in Nat \X (Nat \ {0}) |-> Base * p[2]]
           Is(f) == f = [n \in 0..COUNTER_SIZE |-> IF n = 0 THEN 1 ELSE Base * f[n-1]]
<1>1. next \in [Nat \X (Nat \ {0}) -> Nat \ {0}]
  BY CounterAssumption, Times
<1>2. PICK f \in [0..COUNTER_SIZE -> Nat \ {0}] : IsRecursive(f, COUNTER_SIZE, 1, next)
  <2>1. 1 \in Nat \ {0} /\ COUNTER_SIZE \in Nat
    BY CounterAssumption
  <2> HIDE DEF next
  <2> QED
    BY <2>1, <1>1, RecursionExists
<1>3. ASSUME NEW n \in 0..COUNTER_SIZE PROVE f[n] = IF n = 0 THEN 1 ELSE Base * f[n-1]
  <2>1. f[n] = IF n = 0 THEN 1 ELSE next[n, f[n-1]]
    BY <1>2 DEF IsRecursive
  <2>2. n # 0 => <<n, f[n-1]>> \in Nat \X (Nat \ {0})
    BY <1>2, CounterAssumption
  <2> QED
    BY <2>1, <2>2
<1>4. Is(f)
  BY <1>2, <1>3
<1>5. Is(Weight)
  BY <1>4 DEF Weight
<1>6. ASSUME NEW h, Is(h)
      PROVE  /\ DOMAIN h = 0..COUNTER_SIZE /\ h = [n \in 0..COUNTER_SIZE |-> h[n]]
             /\ h[0] = 1
             /\ \A n \in 0..COUNTER_SIZE-1 : h[n+1] = Base * h[n]
  <2>1. \A n \in 0..COUNTER_SIZE : h[n] = IF n = 0 THEN 1 ELSE Base * h[n-1]
    BY <1>6
  <2>2. DOMAIN h = 0..COUNTER_SIZE /\ h = [n \in 0..COUNTER_SIZE |-> h[n]]
    BY <1>6
  <2> HIDE DEF Is
  <2>3. h[0] = 1
    BY <2>1, CounterAssumption
  <2>4. ASSUME NEW n \in 0..COUNTER_SIZE-1 PROVE h[n+1] = Base * h[n]
    <3>1. n + 1 \in 0..COUNTER_SIZE /\ n + 1 # 0 /\ (n + 1) - 1 = n
      BY CounterAssumption
    <3> QED
      BY <2>1, <3>1
  <2> QED
    BY <2>2, <2>3, <2>4
<1> HIDE DEF Is
<1>7. Weight = f
  <2>1. ASSUME NEW n \in 0..COUNTER_SIZE-1, Weight[n] = f[n] PROVE Weight[n+1] = f[n+1]
    <3>1. f[n+1] = Base * f[n]
      BY <1>4, <1>6
    <3>2. Weight[n+1] = Base * Weight[n]
      BY <1>5, <1>6
    <3> QED
      BY <2>1, <3>1, <3>2
  <2> QED
    BY <1>4, <1>5, <1>6, <2>1, RecursionUnique, CounterAssumption
<1> QED
  BY <1>2, <1>4, <1>6, <1>7

\* Value as the sum it adds up.
IsSum(v, c) ==
    /\ v[0] = 0
    /\ \A n \in 0..COUNTER_SIZE-1 : v[n+1] = v[n] + c[n] * Weight[n]

LEMMA ValueSums ==
    ASSUME NEW c \in Digits
    PROVE  \E v \in [0..COUNTER_SIZE -> Nat] : IsSum(v, c) /\ Value(c) = v[COUNTER_SIZE]
<1> DEFINE N == COUNTER_SIZE
           next == [p \in Nat \X Nat |->
                       IF p[1] - 1 \in Positions
                       THEN p[2] + c[p[1]-1] * Weight[p[1]-1] ELSE 0]
           Is(f) == f = [n \in 0..N |-> IF n = 0 THEN 0
                                        ELSE f[n-1] + c[n-1] * Weight[n-1]]
           value == CHOOSE value : Is(value)
<1>0. N \in Nat /\ \A n \in Positions : c[n] * Weight[n] \in Nat
  <2>1. \A n \in Positions : c[n] \in Nat /\ Weight[n] \in Nat
    BY CounterAssumption, WeightFacts DEF Digits, Positions
  <2> QED
    BY <2>1, CounterAssumption, Times
<1>1. next \in [Nat \X Nat -> Nat]
  BY <1>0
<1>2. PICK f \in [0..N -> Nat] : IsRecursive(f, N, 0, next)
  <2> HIDE DEF next
  <2> QED
    BY <1>0, <1>1, RecursionExists
<1>3. ASSUME NEW n \in 0..N
      PROVE  f[n] = IF n = 0 THEN 0 ELSE f[n-1] + c[n-1] * Weight[n-1]
  <2>1. f[n] = IF n = 0 THEN 0 ELSE next[n, f[n-1]]
    BY <1>2 DEF IsRecursive
  <2>2. n # 0 => <<n, f[n-1]>> \in Nat \X Nat /\ n - 1 \in Positions
    BY <1>0, <1>2 DEF Positions
  <2> QED
    BY <2>1, <2>2
<1>4. Is(f)
  BY <1>2, <1>3
<1>5. Is(value)
  BY <1>4
<1>6. ASSUME NEW h, Is(h)
      PROVE  /\ DOMAIN h = 0..N /\ h = [n \in 0..N |-> h[n]]
             /\ IsSum(h, c)
  <2>1. \A n \in 0..N : h[n] = IF n = 0 THEN 0 ELSE h[n-1] + c[n-1] * Weight[n-1]
    BY <1>6
  <2>2. DOMAIN h = 0..N /\ h = [n \in 0..N |-> h[n]]
    BY <1>6
  <2> HIDE DEF Is
  <2>3. h[0] = 0
    BY <2>1, <1>0
  <2>4. ASSUME NEW n \in 0..N-1 PROVE h[n+1] = h[n] + c[n] * Weight[n]
    <3>1. n + 1 \in 0..N /\ n + 1 # 0 /\ (n + 1) - 1 = n
      BY <1>0
    <3> QED
      BY <2>1, <3>1
  <2> QED
    BY <2>2, <2>3, <2>4 DEF IsSum
<1> HIDE DEF Is, value
<1>7. value = f
  <2>1. ASSUME NEW n \in 0..N-1, value[n] = f[n] PROVE value[n+1] = f[n+1]
    <3>1. f[n+1] = f[n] + c[n] * Weight[n]
      BY <1>4, <1>6 DEF IsSum
    <3>2. value[n+1] = value[n] + c[n] * Weight[n]
      BY <1>5, <1>6 DEF IsSum
    <3> QED
      BY <2>1, <3>1, <3>2
  <2>2. value[0] = f[0]
    BY <1>4, <1>5, <1>6 DEF IsSum
  <2> QED
    BY <1>0, <1>4, <1>5, <1>6, <2>1, <2>2, RecursionUnique
<1>8. Value(c) = value[N]
  BY DEF Value, value, Is
<1> QED
  BY <1>2, <1>4, <1>6, <1>7, <1>8

\* incrementMC adds one to the octets below n, and starts over with zero when
\* they are all at their maximum.
LEMMA IncrementStep ==
    ASSUME NEW c \in Digits,
           NEW v \in [0..COUNTER_SIZE -> Nat], IsSum(v, c),
           NEW w \in [0..COUNTER_SIZE -> Nat], IsSum(w, IncrementMC(c)),
           NEW n \in 0..COUNTER_SIZE
    PROVE  IF \A j \in 0..n-1 : c[j] = Base - 1
           THEN v[n] = Weight[n] - 1 /\ w[n] = 0
           ELSE w[n] = v[n] + 1
<1> DEFINE N == COUNTER_SIZE
           Full(k) == \A j \in 0..k-1 : c[j] = Base - 1
           Right(k) == IF Full(k) THEN v[k] = Weight[k] - 1 /\ w[k] = 0
                       ELSE w[k] = v[k] + 1
           S == {k \in 0..N : Right(k)}
<1>0. N \in Nat /\ Base \in Nat \ {0}
  BY CounterAssumption
<1>1. 0 \in S
  BY <1>0, WeightFacts DEF IsSum
<1>2. ASSUME NEW k \in 0..N-1, k \in S PROVE k + 1 \in S
  <2> DEFINE d == IncrementMC(c)
  <2>1. /\ k \in Nat /\ k + 1 \in 0..N /\ k \in Positions
        /\ c[k] \in 0..Base-1 /\ Weight[k] \in Nat \ {0}
        /\ v[k] \in Nat /\ w[k] \in Nat
    BY <1>0, WeightFacts DEF Digits, Positions
  <2>2. /\ v[k+1] = v[k] + c[k] * Weight[k]
        /\ w[k+1] = w[k] + d[k] * Weight[k]
        /\ Weight[k+1] = Base * Weight[k]
    BY WeightFacts DEF IsSum
  <2>3. d[k] = IF Full(k) THEN (c[k] + 1) % Base ELSE c[k]
    BY <2>1 DEF IncrementMC
  <2>4. Full(k + 1) <=> Full(k) /\ c[k] = Base - 1
    <3>1. 0..(k + 1) - 1 = 0..k-1 \cup {k}
      BY <2>1
    <3> QED
      BY <3>1
  <2>5. Right(k)
    BY <1>2
  <2> HIDE DEF d, Full, S
  <2>6. CASE Full(k) /\ c[k] = Base - 1
    <3>1. (c[k] + 1) % Base = 0
      BY <2>6, <1>0
    <3>2. w[k+1] = 0
      BY <2>1, <2>2, <2>3, <2>5, <2>6, <3>1
    <3>3. v[k+1] = Weight[k] - 1 + (Base - 1) * Weight[k]
      BY <2>2, <2>5, <2>6
    <3>4. v[k+1] = Weight[k+1] - 1
      BY <3>3, <2>1, <2>2, <1>0
    <3> QED
      BY <3>2, <3>4, <2>1, <2>4, <2>6 DEF S
  <2>7. CASE Full(k) /\ c[k] # Base - 1
    <3>1. (c[k] + 1) % Base = c[k] + 1
      <4>1. c[k] + 1 \in 0..Base-1
        BY <2>7, <2>1, <1>0
      <4> QED
        BY <4>1, <1>0, SmallRemainder
    <3>2. w[k+1] = (c[k] + 1) * Weight[k] /\ v[k+1] = Weight[k] - 1 + c[k] * Weight[k]
      BY <2>1, <2>2, <2>3, <2>5, <2>7, <3>1
    <3>3. (c[k] + 1) * Weight[k] = c[k] * Weight[k] + Weight[k]
      BY <2>1
    <3>4. c[k] * Weight[k] \in Nat
      BY <2>1, Times
    <3>5. w[k+1] = v[k+1] + 1
      BY <3>2, <3>3, <3>4, <2>1
    <3> QED
      BY <3>5, <2>1, <2>4, <2>7 DEF S
  <2>8. CASE ~Full(k)
    <3>1. w[k+1] = v[k] + 1 + c[k] * Weight[k]
      BY <2>2, <2>3, <2>5, <2>8
    <3>2. c[k] * Weight[k] \in Nat
      BY <2>1, Times
    <3>3. w[k+1] = v[k+1] + 1
      BY <3>1, <3>2, <2>1, <2>2
    <3> QED
      BY <3>3, <2>1, <2>4, <2>8 DEF S
  <2> QED
    BY <2>6, <2>7, <2>8
<1> HIDE DEF S, Full
<1>3. 0..N \subseteq S
  BY <1>0, <1>1, <1>2, BoundedInduction
<1> QED
  BY <1>3 DEF S, Full

\* Octets below n stand for numbers below the weight of n.
LEMMA SumBounded ==
    ASSUME NEW c \in Digits, NEW v \in [0..COUNTER_SIZE -> Nat], IsSum(v, c),
           NEW n \in 0..COUNTER_SIZE
    PROVE  v[n] < Weight[n]
<1> DEFINE N == COUNTER_SIZE
           S == {k \in 0..N : v[k] < Weight[k]}
<1>0. N \in Nat /\ Base \in Nat \ {0}
  BY CounterAssumption
<1>1. 0 \in S
  BY <1>0, WeightFacts DEF IsSum
<1>2. ASSUME NEW k \in 0..N-1, k \in S PROVE k + 1 \in S
  <2>1. /\ k + 1 \in 0..N
        /\ c[k] \in 0..Base-1 /\ Weight[k] \in Nat \ {0}
        /\ v[k] \in Nat /\ v[k] < Weight[k]
    BY <1>0, <1>2, WeightFacts DEF Digits, Positions
  <2>2. v[k+1] = v[k] + c[k] * Weight[k] /\ Weight[k+1] = Base * Weight[k]
    BY WeightFacts DEF IsSum
  <2>3. c[k] * Weight[k] <= (Base - 1) * Weight[k]
    <3>1. c[k] \in Nat /\ Base - 1 \in Nat /\ Weight[k] \in Nat /\ c[k] <= Base - 1
      BY <1>0, <2>1
    <3> QED
      BY <3>1, Times
  <2>4. (Base - 1) * Weight[k] = Base * Weight[k] - Weight[k]
    BY <1>0, <2>1
  <2>5. c[k] * Weight[k] \in Nat /\ Base * Weight[k] \in Nat
    BY <1>0, <2>1, Times
  <2>6. v[k+1] < Weight[k+1]
    BY <2>1, <2>2, <2>3, <2>4, <2>5
  <2> QED
    BY <2>1, <2>6
<1> HIDE DEF S
<1>3. 0..N \subseteq S
  BY <1>0, <1>1, <1>2, BoundedInduction
<1> QED
  BY <1>3 DEF S

LEMMA IncrementTyped == ASSUME NEW c \in Digits PROVE IncrementMC(c) \in Digits
<1>1. ASSUME NEW i \in Positions
      PROVE  c[i] \in 0..Base-1 /\ (c[i] + 1) % Base \in 0..Base-1
  BY CounterAssumption DEF Digits
<1> QED
  BY <1>1 DEF Digits, IncrementMC

\* incrementMC adds one modulo the number of values of the counter.
THEOREM IncrementAdds ==
    ASSUME NEW c \in Digits
    PROVE  /\ Value(c) \in 0..Weight[COUNTER_SIZE]-1
           /\ Value(IncrementMC(c)) = (Value(c) + 1) % Weight[COUNTER_SIZE]
<1> DEFINE N == COUNTER_SIZE
           M == Weight[N]
<1>0. N \in 0..N /\ M \in Nat \ {0}
  BY CounterAssumption, WeightFacts
<1>1. PICK v \in [0..N -> Nat] : IsSum(v, c) /\ Value(c) = v[N]
  BY ValueSums
<1>2. PICK w \in [0..N -> Nat] :
          IsSum(w, IncrementMC(c)) /\ Value(IncrementMC(c)) = w[N]
  BY ValueSums, IncrementTyped
<1>3. v[N] \in Nat /\ w[N] \in Nat /\ v[N] < M /\ w[N] < M
  BY <1>0, <1>1, <1>2, IncrementTyped, SumBounded
<1>4. \/ v[N] = M - 1 /\ w[N] = 0
      \/ w[N] = v[N] + 1
  BY <1>0, <1>1, <1>2, IncrementStep
<1> HIDE DEF M
<1>5. v[N] % M = v[N]
  <2>1. v[N] \in 0..M-1
    BY <1>0, <1>3
  <2> QED
    BY <2>1, <1>0, SmallRemainder
<1>6. (v[N] + 1) % M = IF v[N] = M - 1 THEN 0 ELSE v[N] + 1
  BY <1>0, <1>3, <1>5, Successor
<1>7. w[N] = (v[N] + 1) % M
  BY <1>0, <1>3, <1>4, <1>6
<1>8. v[N] \in 0..M-1
  BY <1>0, <1>3
<1> QED
  BY <1>1, <1>2, <1>7, <1>8 DEF M

LEMMA ZeroValue == Value([i \in Positions |-> 0]) = 0 /\ [i \in Positions |-> 0] \in Digits
<1> DEFINE N == COUNTER_SIZE
           zero == [i \in Positions |-> 0]
           S(v) == {k \in 0..N : v[k] = 0}
<1>1. zero \in Digits
  BY CounterAssumption DEF Digits
<1>2. PICK v \in [0..N -> Nat] : IsSum(v, zero) /\ Value(zero) = v[N]
  BY <1>1, ValueSums
<1>3. 0 \in S(v)
  BY <1>2, CounterAssumption DEF IsSum
<1>4. ASSUME NEW k \in 0..N-1, k \in S(v) PROVE k + 1 \in S(v)
  <2>1. k + 1 \in 0..N /\ k \in Positions /\ v[k] = 0 /\ Weight[k] \in Nat
    BY <1>4, CounterAssumption, WeightFacts DEF Positions
  <2>2. v[k+1] = v[k] + zero[k] * Weight[k] /\ zero[k] = 0
    BY <1>2, <2>1 DEF IsSum
  <2> QED
    BY <2>1, <2>2
<1>5. N \in Nat /\ N \in 0..N
  BY CounterAssumption
<1> HIDE DEF S
<1>6. 0..N \subseteq S(v)
  BY <1>3, <1>4, <1>5, BoundedInduction
<1> QED
  BY <1>1, <1>2, <1>5, <1>6 DEF S

\* After n calls of incrementMC the octets stand for n, modulo the number of
\* their values.
THEOREM OctetsCount ==
    ASSUME NEW n \in Nat
    PROVE  Value(Octets(n)) = n % Weight[COUNTER_SIZE]
<1> DEFINE M == Weight[COUNTER_SIZE]
           zero == [i \in Positions |-> 0]
           next == [p \in Nat \X Digits |-> IncrementMC(p[2])]
           Is(f) == f = [k \in 0..n |-> IF k = 0 THEN zero ELSE IncrementMC(f[k-1])]
           after == CHOOSE after : Is(after)
           S == {k \in 0..n : after[k] \in Digits /\ Value(after[k]) = k % M}
<1>0. M \in Nat \ {0} /\ zero \in Digits /\ Value(zero) = 0
  BY CounterAssumption, WeightFacts, ZeroValue
<1>1. next \in [Nat \X Digits -> Digits]
  BY IncrementTyped
<1>2. PICK f \in [0..n -> Digits] : IsRecursive(f, n, zero, next)
  <2> HIDE DEF next, zero
  <2> QED
    BY <1>0, <1>1, RecursionExists
<1>3. ASSUME NEW k \in 0..n
      PROVE  f[k] = IF k = 0 THEN zero ELSE IncrementMC(f[k-1])
  <2>1. f[k] = IF k = 0 THEN zero ELSE next[k, f[k-1]]
    BY <1>2 DEF IsRecursive
  <2>2. k # 0 => <<k, f[k-1]>> \in Nat \X Digits
    BY <1>2
  <2> QED
    BY <2>1, <2>2
<1>4. Is(f)
  BY <1>2, <1>3
<1>5. Is(after)
  BY <1>4
<1>6. \A k \in 0..n : after[k] = IF k = 0 THEN zero ELSE IncrementMC(after[k-1])
  BY <1>5
<1>7. Octets(n) = after[n]
  BY DEF Octets, Is, after
<1> HIDE DEF Is, after, zero, M
<1>8. 0 \in S
  <2>1. after[0] = zero
    BY <1>6
  <2>2. 0 % M = 0
    <3>1. 0 \in 0..M-1
      BY <1>0
    <3> QED
      BY <3>1, <1>0, SmallRemainder
  <2> QED
    BY <1>0, <2>1, <2>2
<1>9. ASSUME NEW k \in 0..n-1, k \in S PROVE k + 1 \in S
  <2>1. k + 1 \in 0..n /\ k \in Nat /\ k \in 0..n
    OBVIOUS
  <2>2. after[k+1] = IncrementMC(after[k])
    <3>1. k + 1 # 0 /\ (k + 1) - 1 = k
      OBVIOUS
    <3> QED
      BY <2>1, <3>1, <1>6
  <2>3. after[k] \in Digits /\ Value(after[k]) = k % M
    BY <1>9
  <2>4. after[k+1] \in Digits
    BY <2>2, <2>3, IncrementTyped
  <2>5. Value(after[k+1]) = ((k % M) + 1) % M
    BY <2>2, <2>3, IncrementAdds DEF M
  <2>6. ((k % M) + 1) % M = (k + 1) % M
    <3>1. k % M \in 0..M-1 /\ k % M \in Nat
      BY <1>0, <2>1, Division
    <3>2. (k % M) % M = k % M
      BY <1>0, <3>1, SmallRemainder
    <3>3. ((k % M) + 1) % M = IF (k % M) % M = M - 1 THEN 0 ELSE ((k % M) % M) + 1
      BY <1>0, <3>1, Successor
    <3>4. (k + 1) % M = IF k % M = M - 1 THEN 0 ELSE (k % M) + 1
      BY <1>0, <2>1, Successor
    <3> QED
      BY <3>2, <3>3, <3>4
  <2> QED
    BY <2>1, <2>4, <2>5, <2>6
<1> HIDE DEF S
<1>10. 0..n \subseteq S
  BY <1>8, <1>9, BoundedInduction
<1> QED
  BY <1>7, <1>10 DEF S, M

\* The octets of every counter count the blocks it has masked, for any number
\* and any range of octets: for the 16 octets of the code they repeat after
\* 2^128 blocks and not before.
THEOREM CountsTheorem == Spec => []CountsBlocks
<1>1. TypeOK => CountsBlocks
  <2> SUFFICES ASSUME TypeOK, NEW e \in Endpoints
               PROVE  Value(Octets(counterOwn[e])) = counterOwn[e] % Weight[COUNTER_SIZE]
    BY DEF CountsBlocks
  <2>1. counterOwn[e] \in Nat
    BY EndpointAssumption DEF TypeOK
  <2> QED
    BY <2>1, OctetsCount
<1> QED
  BY <1>1, TypeCorrect, PTL
=============================================================================
