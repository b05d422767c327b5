-------------------------- MODULE MSTSocketProofs --------------------------
(***************************************************************************)
(* Two MST_Sockets take only steps that MSTEndpoint allows, read from each *)
(* other what was written, and agree about keys and counters, for every    *)
(* length of the messages and every limit.                                 *)
(***************************************************************************)
EXTENDS MSTSocket, NumberProofs, SequenceTheorems

\* What an endpoint may still have to read: only keys and messages that its
\* partner has made.
KnownItems(e) ==
    {Number} \cup {Key(k) : k \in 1..generated[Partner(e)]}
    \cup {Size(s) : s \in Nat}
    \cup {Message(i) : i \in 1..Len(sent[Partner(e)])}

StreamsKnown == \A e \in Endpoints : stream[e] \in Seq(KnownItems(e))

SentMessage == [key : Int, counter : Nat, size : Nat]

EndpointTypes ==
    /\ generated \in [Endpoints -> Nat]
    /\ receivingKeyCreated \in [Endpoints -> BOOLEAN]
    /\ sendingKey \in [Endpoints -> Int]
    /\ counterOwn \in [Endpoints -> Nat]
    /\ counterPartner \in [Endpoints -> Nat]
    /\ sent \in [Endpoints -> Seq(SentMessage)]
    /\ accepted \in [Endpoints -> Seq(Nat)]
    /\ lastFailure \in [Endpoints -> Int]

SocketTypes ==
    /\ presharedKey \in {"same", "different", "none"}
    /\ pc \in [Endpoints -> {"created", "unconnected", "startup", "waitNumber",
                             "waitKey", "open", "failed", "closed"}]
    /\ stream = [e \in Endpoints |-> stream[e]]
    /\ frame \in [Endpoints -> Nat]
    /\ ended \in [Endpoints -> BOOLEAN]
    /\ broken \in BOOLEAN

IndInv == SocketTypes /\ EndpointTypes /\ StreamsKnown
-----------------------------------------------------------------------------
LEMMA PartnerFacts ==
    \A e \in Endpoints : /\ Partner(e) \in Endpoints
                         /\ Partner(e) # e
                         /\ Partner(Partner(e)) = e
  BY SocketAssumption DEF Endpoints, Partner

\* The items are of the type Item.
LEMMA ItemsOfType ==
    ASSUME EndpointTypes, NEW e \in Endpoints
    PROVE  KnownItems(e) \subseteq Item
<1>1. generated[Partner(e)] \in Nat /\ Len(sent[Partner(e)]) \in Nat
  BY PartnerFacts, LenProperties DEF EndpointTypes
<1>2. Number \in Item
  BY DEF Number, Item
<1>3. \A k \in Nat : Key(k) \in Item /\ Size(k) \in Item /\ Message(k) \in Item
  BY DEF Key, Size, Message, Item
<1>4. \A k \in 1..generated[Partner(e)] : k \in Nat
  BY <1>1
<1>5. \A k \in 1..Len(sent[Partner(e)]) : k \in Nat
  BY <1>1
<1> QED
  BY <1>2, <1>3, <1>4, <1>5 DEF KnownItems

\* What stands first in a stream.
LEMMA HeadFacts ==
    ASSUME IndInv, NEW e \in Endpoints, stream[e] # << >>
    PROVE  /\ Head(stream[e]) \in KnownItems(e)
           /\ Tail(stream[e]) \in Seq(KnownItems(e))
           /\ Head(stream[e]).type = "key" =>
                 Head(stream[e]).key \in 1..generated[Partner(e)]
           /\ Head(stream[e]).type = "message" =>
                 Head(stream[e]).position \in 1..Len(sent[Partner(e)])
<1>1. /\ Head(stream[e]) \in KnownItems(e)
      /\ Tail(stream[e]) \in Seq(KnownItems(e))
  BY HeadTailProperties DEF IndInv, StreamsKnown
<1>2. CASE Head(stream[e]) = Number
  BY <1>1, <1>2 DEF Number
<1>3. CASE \E k \in 1..generated[Partner(e)] : Head(stream[e]) = Key(k)
  BY <1>1, <1>3 DEF Key
<1>4. CASE \E s \in Nat : Head(stream[e]) = Size(s)
  BY <1>1, <1>4 DEF Size
<1>5. CASE \E i \in 1..Len(sent[Partner(e)]) : Head(stream[e]) = Message(i)
  BY <1>1, <1>5 DEF Message
<1> QED
  BY <1>1, <1>2, <1>3, <1>4, <1>5 DEF KnownItems

\* A stream stays known when more keys and messages are made.
LEMMA KnownGrow ==
    ASSUME EndpointTypes, EndpointTypes',
           \A e \in Endpoints : generated[e] <= generated'[e]
                                /\ Len(sent[e]) <= Len(sent'[e]),
           NEW e \in Endpoints, NEW s \in Seq(KnownItems(e))
    PROVE  s \in Seq(KnownItems(e)')
<1>1. /\ generated[Partner(e)] \in Nat /\ generated'[Partner(e)] \in Nat
      /\ Len(sent[Partner(e)]) \in Nat /\ Len(sent'[Partner(e)]) \in Nat
      /\ generated[Partner(e)] <= generated'[Partner(e)]
      /\ Len(sent[Partner(e)]) <= Len(sent'[Partner(e)])
  BY PartnerFacts, LenProperties DEF EndpointTypes
<1>2. /\ 1..generated[Partner(e)] \subseteq 1..generated'[Partner(e)]
      /\ 1..Len(sent[Partner(e)]) \subseteq 1..Len(sent'[Partner(e)])
  BY <1>1
<1>3. KnownItems(e) \subseteq KnownItems(e)'
  BY <1>2 DEF KnownItems
<1> QED
  BY <1>3, SeqMonotonic

\* What an endpoint step leaves of the types, and that nothing that was made
\* is forgotten.
Grown ==
    /\ EndpointTypes'
    /\ \A e \in Endpoints : /\ generated[e] <= generated'[e]
                            /\ Len(sent[e]) <= Len(sent'[e])

LEMMA Unchanged ==
    ASSUME EndpointTypes, UNCHANGED endpointVars
    PROVE  Grown
<1>1. \A e \in Endpoints : generated[e] \in Nat /\ Len(sent[e]) \in Nat
  BY LenProperties DEF EndpointTypes
<1> QED
  BY <1>1 DEF Grown, EndpointTypes, endpointVars

LEMMA CreateGrows ==
    ASSUME EndpointTypes, NEW e \in Endpoints, Endpoint!CreateReceivingKey(e)
    PROVE  Grown /\ generated'[e] \in 1..generated'[e]
<1>1. \A p \in Endpoints : generated[p] \in Nat /\ Len(sent[p]) \in Nat
  BY LenProperties DEF EndpointTypes
<1>2. generated' = [generated EXCEPT ![e] = @ + 1]
      /\ receivingKeyCreated' = [receivingKeyCreated EXCEPT ![e] = TRUE]
      /\ UNCHANGED <<sendingKey, counterOwn, counterPartner, sent, accepted,
                     lastFailure>>
  BY DEF Endpoint!CreateReceivingKey
<1>3. EndpointTypes'
  BY <1>1, <1>2 DEF EndpointTypes
<1>4. \A p \in Endpoints : generated[p] <= generated'[p] /\ sent'[p] = sent[p]
  BY <1>1, <1>2 DEF EndpointTypes
<1>5. generated'[e] = generated[e] + 1
  BY <1>2 DEF EndpointTypes
<1> QED
  BY <1>1, <1>3, <1>4, <1>5 DEF Grown

LEMMA CreateFailsGrows ==
    ASSUME EndpointTypes, NEW e \in Endpoints, Endpoint!CreateReceivingKeyFails(e)
    PROVE  Grown
<1>1. \A p \in Endpoints : generated[p] \in Nat /\ Len(sent[p]) \in Nat
  BY LenProperties DEF EndpointTypes
<1> QED
  BY <1>1 DEF Grown, EndpointTypes, Endpoint!CreateReceivingKeyFails

LEMMA InitSendingGrows ==
    ASSUME EndpointTypes, NEW e \in Endpoints, NEW key \in Int,
           Endpoint!InitSendingKey(e, key)
    PROVE  Grown
<1>1. \A p \in Endpoints : generated[p] \in Nat /\ Len(sent[p]) \in Nat
  BY LenProperties DEF EndpointTypes
<1> QED
  BY <1>1 DEF Grown, EndpointTypes, Endpoint!InitSendingKey

\* What encryptToSecureMessage appends to the messages.
NewMessage(e, length) == [key |-> sendingKey[e], counter |-> counterOwn[e],
                          size |-> NeededSize(length)]

\* The endpoints compute sizes as AuthPlaintext says.
LEMMA EndpointSizes ==
    /\ \A length : Endpoint!NeededSize(length) = NeededSize(length)
    /\ \A size : /\ Endpoint!Blocks(size) = Blocks(size)
                 /\ Endpoint!WellFormedSize(size) = WellFormedSize(size)
  BY DEF Endpoint!NeededSize, NeededSize, Endpoint!HashPosition, HashPosition,
         Endpoint!LaengePadding, LaengePadding, Endpoint!Blocks, Blocks,
         Endpoint!HashWordSize, HashWordSize, Endpoint!LengthSize, LengthSize,
         Endpoint!AES_WORDSIZE, AES_WORDSIZE, Endpoint!WellFormedSize,
         WellFormedSize

LEMMA EncryptEffect ==
    ASSUME NEW e \in Endpoints, NEW length \in Nat,
           Endpoint!EncryptToSecureMessage(e, length)
    PROVE  /\ sendingKey[e] # Endpoint!NoKey
           /\ sent' = [sent EXCEPT ![e] = Append(@, NewMessage(e, length))]
           /\ counterOwn' = [counterOwn EXCEPT
                               ![e] = @ + Blocks(NeededSize(length))]
           /\ UNCHANGED <<generated, receivingKeyCreated, sendingKey,
                          counterPartner, accepted, lastFailure>>
  BY EndpointSizes DEF Endpoint!EncryptToSecureMessage, NewMessage

LEMMA EncryptGrows ==
    ASSUME EndpointTypes, NEW e \in Endpoints, NEW length \in Nat,
           Endpoint!EncryptToSecureMessage(e, length)
    PROVE  /\ Grown
           /\ NeededSize(length) \in Nat
           /\ NewMessage(e, length) \in SentMessage
           /\ Len(sent'[e]) = Len(sent[e]) + 1
           /\ Len(sent'[e]) \in 1..Len(sent'[e])
<1> DEFINE m == NewMessage(e, length)
<1>1. \A p \in Endpoints : generated[p] \in Nat /\ Len(sent[p]) \in Nat
  BY LenProperties DEF EndpointTypes
<1>2. NeededSize(length) \in Nat
  BY PaddingFillsWord, UIntMaxAssumption DEF NeededSize, HashWordSize
<1>3. Blocks(NeededSize(length)) \in Nat
  BY <1>2, BlocksPositive
<1>4. m \in SentMessage
  BY <1>2 DEF EndpointTypes, SentMessage, NewMessage
<1> HIDE DEF m
<1>5. /\ sent' = [sent EXCEPT ![e] = Append(@, m)]
      /\ counterOwn' = [counterOwn EXCEPT ![e] = @ + Blocks(NeededSize(length))]
      /\ UNCHANGED <<generated, receivingKeyCreated, sendingKey,
                     counterPartner, accepted, lastFailure>>
  BY EncryptEffect DEF m
<1>6. /\ Append(sent[e], m) \in Seq(SentMessage)
      /\ Len(Append(sent[e], m)) = Len(sent[e]) + 1
  BY <1>4, AppendProperties DEF EndpointTypes
<1>7. EndpointTypes'
  BY <1>3, <1>5, <1>6 DEF EndpointTypes
<1>8. \A p \in Endpoints : /\ generated'[p] = generated[p]
                           /\ sent'[p] = IF p = e THEN Append(sent[p], m)
                                         ELSE sent[p]
  BY <1>5 DEF EndpointTypes
<1>9. Len(sent'[e]) = Len(sent[e]) + 1
  BY <1>6, <1>8
<1>10. \A p \in Endpoints : Len(sent[p]) <= Len(sent'[p])
  BY <1>1, <1>8, <1>9
<1>11. \A p \in Endpoints : generated[p] <= generated'[p]
  BY <1>1, <1>8
<1>12. Len(sent'[e]) \in 1..Len(sent'[e])
  BY <1>1, <1>9
<1> QED
  BY <1>2, <1>4, <1>7, <1>9, <1>10, <1>11, <1>12 DEF Grown, m

LEMMA DecryptGrows ==
    ASSUME EndpointTypes, NEW e \in Endpoints,
           NEW i \in 1..Len(sent[Partner(e)]),
           Endpoint!DecryptSecureMessage(e, i)
    PROVE  Grown
<1> DEFINE m == sent[Partner(e)][i]
<1>1. \A p \in Endpoints : generated[p] \in Nat /\ Len(sent[p]) \in Nat
  BY LenProperties DEF EndpointTypes
<1>2. /\ m \in SentMessage
      /\ i \in Nat
  BY <1>1, PartnerFacts, ElementOfSeq DEF EndpointTypes
<1>3. Blocks(m.size) \in Nat
  BY <1>2, BlocksPositive DEF SentMessage
<1>4. Endpoint!Partner(e) = Partner(e)
  BY DEF Endpoint!Partner, Partner
<1>5. counterPartner' = [counterPartner EXCEPT ![e] = @ + Blocks(m.size)]
  BY <1>4, EndpointSizes DEF Endpoint!DecryptSecureMessage, Endpoint!Unmask
<1>6. /\ accepted' \in {accepted, [accepted EXCEPT ![e] = Append(@, i)]}
      /\ lastFailure' \in {lastFailure,
                           [lastFailure EXCEPT ![e] = generated[e]]}
      /\ UNCHANGED <<generated, receivingKeyCreated, sendingKey, counterOwn, sent>>
  BY DEF Endpoint!DecryptSecureMessage, Endpoint!Fail, Endpoint!keyVars
<1> HIDE DEF m
<1>7. Append(accepted[e], i) \in Seq(Nat)
  BY <1>2, AppendProperties DEF EndpointTypes
<1>8. accepted' \in [Endpoints -> Seq(Nat)]
  BY <1>6, <1>7 DEF EndpointTypes
<1>9. counterPartner' \in [Endpoints -> Nat]
  BY <1>3, <1>5 DEF EndpointTypes
<1>10. lastFailure' \in [Endpoints -> Int]
  BY <1>1, <1>6 DEF EndpointTypes
<1>11. EndpointTypes'
  BY <1>6, <1>8, <1>9, <1>10 DEF EndpointTypes
<1> QED
  BY <1>1, <1>6, <1>11 DEF Grown
-----------------------------------------------------------------------------
\* Streams out of which something was read or lost.
LEMMA StreamsShrink ==
    ASSUME IndInv, Grown,
           \A p \in Endpoints : stream'[p] \in Seq(KnownItems(p))
    PROVE  StreamsKnown'
  BY KnownGrow DEF IndInv, Grown, StreamsKnown

\* Streams after a write.
LEMMA TransmitKnown ==
    ASSUME IndInv, Grown, NEW e \in Endpoints,
           NEW rest \in Seq(KnownItems(e)),
           NEW items \in Seq(KnownItems(Partner(e))'),
           Transmit(e, rest, items)
    PROVE  StreamsKnown' /\ stream' = [p \in Endpoints |-> stream'[p]]
<1>1. EndpointTypes /\ EndpointTypes' /\ stream = [p \in Endpoints |-> stream[p]]
  BY DEF IndInv, Grown, SocketTypes
<1>2. /\ Partner(e) \in Endpoints /\ Partner(e) # e
      /\ \A p \in Endpoints : p = e \/ p = Partner(e)
  BY PartnerFacts DEF Endpoints, Partner
<1>3. stream[Partner(e)] \in Seq(KnownItems(Partner(e)))
  BY <1>2 DEF IndInv, StreamsKnown
<1>4. /\ stream[Partner(e)] \in Seq(KnownItems(Partner(e))')
      /\ rest \in Seq(KnownItems(e)')
  BY <1>1, <1>2, <1>3, KnownGrow DEF Grown
<1>5. stream[Partner(e)] \o items \in Seq(KnownItems(Partner(e))')
  BY <1>4, ConcatProperties
<1>6. /\ stream'[e] = rest
      /\ stream'[Partner(e)] \in {stream[Partner(e)], stream[Partner(e)] \o items}
      /\ stream' = [p \in Endpoints |-> stream'[p]]
  BY <1>1, <1>2 DEF Transmit
<1> QED
  BY <1>2, <1>4, <1>5, <1>6 DEF StreamsKnown

\* Items that are written are known.
LEMMA WrittenKnown ==
    ASSUME NEW e \in Endpoints
    PROVE  /\ Number \in KnownItems(Partner(e))'
           /\ generated'[e] \in 1..generated'[e] =>
                 Key(generated'[e]) \in KnownItems(Partner(e))'
           /\ \A s \in Nat : Size(s) \in KnownItems(Partner(e))'
           /\ Len(sent'[e]) \in 1..Len(sent'[e]) =>
                 Message(Len(sent'[e])) \in KnownItems(Partner(e))'
  BY PartnerFacts DEF KnownItems

LEMMA TypesFollow == IndInv => TypeOK
<1> SUFFICES ASSUME IndInv
             PROVE  stream \in [Endpoints -> Seq(Item)]
  BY DEF IndInv, SocketTypes, TypeOK
<1>1. \A e \in Endpoints : stream[e] \in Seq(Item)
  BY ItemsOfType, SeqMonotonic DEF IndInv, StreamsKnown
<1> QED
  BY <1>1 DEF IndInv, SocketTypes
-----------------------------------------------------------------------------
EndpointStepOrStutter ==
    Endpoint!Next \/ UNCHANGED endpointVars

LEMMA Allowed ==
    ASSUME NEW e \in Endpoints, Endpoint!EndpointStep(e)
    PROVE  EndpointStepOrStutter
  BY DEF EndpointStepOrStutter, Endpoint!Next, Endpoint!Endpoints, Endpoints

LEMMA InitHolds == Init => IndInv /\ Endpoint!Init
<1> SUFFICES ASSUME Init PROVE IndInv
  BY DEF Init
<1>1. SocketTypes
  BY DEF Init, SocketTypes, NoFrame
<1>2. EndpointTypes
  BY DEF Init, Endpoint!Init, Endpoint!Endpoints, Endpoint!NoKey,
         Endpoint!NoFailure, EndpointTypes, Endpoints
<1>3. StreamsKnown
  BY DEF Init, StreamsKnown
<1> QED
  BY <1>1, <1>2, <1>3 DEF IndInv

LEMMA ConnectStep ==
    ASSUME IndInv, Connect \/ Serve \/ Break
    PROVE  IndInv' /\ EndpointStepOrStutter
<1>1. UNCHANGED endpointVars /\ stream' = stream
  BY DEF Connect, Serve, Break
<1>2. Grown
  BY <1>1, Unchanged DEF IndInv
<1>3. StreamsKnown'
  BY <1>1, <1>2, StreamsShrink DEF IndInv, StreamsKnown
<1>4. SocketTypes'
  <2> USE DEF IndInv, SocketTypes, Goto, Client, Server, Endpoints
  <2>1. CASE Connect
    BY <2>1 DEF Connect
  <2>2. CASE Serve
    BY <2>2 DEF Serve
  <2>3. CASE Break
    BY <2>3 DEF Break
  <2> QED
    BY <2>1, <2>2, <2>3
<1> QED
  BY <1>1, <1>2, <1>3, <1>4 DEF IndInv, Grown, EndpointStepOrStutter

LEMMA SendNumberStep ==
    ASSUME IndInv, NEW e \in Endpoints, SendNumber(e)
    PROVE  IndInv' /\ EndpointStepOrStutter
<1>1. UNCHANGED endpointVars /\ Transmit(e, stream[e], <<Number>>)
  BY DEF SendNumber
<1>2. Grown
  BY <1>1, Unchanged DEF IndInv
<1>3. /\ stream[e] \in Seq(KnownItems(e))
      /\ <<Number>> \in Seq(KnownItems(Partner(e))')
  BY WrittenKnown DEF IndInv, StreamsKnown
<1>4. StreamsKnown' /\ stream' = [p \in Endpoints |-> stream'[p]]
  BY <1>1, <1>2, <1>3, TransmitKnown
<1>5. SocketTypes'
  BY <1>4 DEF IndInv, SocketTypes, SendNumber, Goto
<1> QED
  BY <1>1, <1>2, <1>4, <1>5 DEF IndInv, Grown, EndpointStepOrStutter

\* An endpoint reads one item and writes none.
LEMMA TailKnown ==
    ASSUME IndInv, Grown, NEW e \in Endpoints, stream[e] # << >>,
           stream' = [stream EXCEPT ![e] = Tail(@)]
    PROVE  StreamsKnown' /\ stream' = [p \in Endpoints |-> stream'[p]]
<1>1. \A p \in Endpoints :
         stream'[p] = IF p = e THEN Tail(stream[p]) ELSE stream[p]
  BY DEF IndInv, SocketTypes
<1>2. \A p \in Endpoints : stream'[p] \in Seq(KnownItems(p))
  BY <1>1, HeadFacts DEF IndInv, StreamsKnown
<1> QED
  BY <1>2, StreamsShrink DEF IndInv, SocketTypes

LEMMA ReadNumberStep ==
    ASSUME IndInv, NEW e \in Endpoints,
           ReadUnknownNumber(e) \/ ReadNumber(e) \/ ReadNumberNoKey(e)
    PROVE  IndInv' /\ EndpointStepOrStutter
<1>1. stream[e] # << >>
  BY DEF ReadUnknownNumber, ReadNumber, ReadNumberNoKey, Arrived
<1>2. CASE ReadUnknownNumber(e)
  <2>1. /\ UNCHANGED endpointVars
        /\ stream' = [stream EXCEPT ![e] = Tail(@)]
    BY <1>2 DEF ReadUnknownNumber
  <2>2. Grown
    BY <2>1, Unchanged DEF IndInv
  <2>3. StreamsKnown' /\ stream' = [p \in Endpoints |-> stream'[p]]
    BY <1>1, <2>1, <2>2, TailKnown
  <2>4. SocketTypes'
    BY <1>2, <2>3 DEF IndInv, SocketTypes, ReadUnknownNumber, Goto
  <2> QED
    BY <2>1, <2>2, <2>3, <2>4 DEF IndInv, Grown, EndpointStepOrStutter
<1>3. CASE ReadNumber(e)
  <2>1. /\ Endpoint!CreateReceivingKey(e)
        /\ Transmit(e, Tail(stream[e]), <<Key(generated'[e])>>)
    BY <1>3 DEF ReadNumber
  <2>2. Grown /\ generated'[e] \in 1..generated'[e]
    BY <2>1, CreateGrows DEF IndInv
  <2>3. <<Key(generated'[e])>> \in Seq(KnownItems(Partner(e))')
    BY <2>2, WrittenKnown
  <2>4. StreamsKnown' /\ stream' = [p \in Endpoints |-> stream'[p]]
    BY <1>1, <2>1, <2>2, <2>3, HeadFacts, TransmitKnown
  <2>5. SocketTypes'
    BY <1>3, <2>4 DEF IndInv, SocketTypes, ReadNumber, Goto
  <2>6. EndpointStepOrStutter
    BY <2>1, Allowed DEF Endpoint!EndpointStep
  <2> QED
    BY <2>2, <2>4, <2>5, <2>6 DEF IndInv, Grown
<1>4. CASE ReadNumberNoKey(e)
  <2>1. /\ Endpoint!CreateReceivingKeyFails(e)
        /\ stream' = [stream EXCEPT ![e] = Tail(@)]
    BY <1>4 DEF ReadNumberNoKey
  <2>2. Grown
    BY <2>1, CreateFailsGrows DEF IndInv
  <2>3. StreamsKnown' /\ stream' = [p \in Endpoints |-> stream'[p]]
    BY <1>1, <2>1, <2>2, TailKnown
  <2>4. SocketTypes'
    BY <1>4, <2>3 DEF IndInv, SocketTypes, ReadNumberNoKey, Goto
  <2>5. EndpointStepOrStutter
    BY <2>1, Allowed DEF Endpoint!EndpointStep
  <2> QED
    BY <2>2, <2>3, <2>4, <2>5 DEF IndInv, Grown
<1> QED
  BY <1>2, <1>3, <1>4

LEMMA ReadKeyStep ==
    ASSUME IndInv, NEW e \in Endpoints, ReadKey(e)
    PROVE  IndInv' /\ EndpointStepOrStutter
<1> DEFINE key == IF presharedKey = "same" THEN Head(stream[e]).key
                  ELSE Endpoint!GarbledKey
<1>1. /\ stream[e] # << >> /\ Head(stream[e]).type = "key"
      /\ Endpoint!InitSendingKey(e, key)
      /\ stream' = [stream EXCEPT ![e] = Tail(@)]
  BY DEF ReadKey, Arrived
<1>2. generated[Partner(e)] \in Nat
  BY PartnerFacts DEF IndInv, EndpointTypes
<1>3. key \in {Endpoint!GarbledKey} \cup 1..generated[Partner(e)]
  BY <1>1, HeadFacts
<1>4. key \in Int
  BY <1>2, <1>3 DEF Endpoint!GarbledKey
<1>5. key \in Endpoint!ArrivingKeys(e)
  BY <1>3 DEF Endpoint!ArrivingKeys, Endpoint!Partner, Partner
<1> HIDE DEF key
<1>6. Grown
  BY <1>1, <1>4, InitSendingGrows DEF IndInv
<1>7. StreamsKnown' /\ stream' = [p \in Endpoints |-> stream'[p]]
  BY <1>1, <1>6, TailKnown
<1>8. SocketTypes'
  BY <1>7 DEF IndInv, SocketTypes, ReadKey, Goto
<1>9. EndpointStepOrStutter
  BY <1>1, <1>5, Allowed DEF Endpoint!EndpointStep
<1> QED
  BY <1>6, <1>7, <1>8, <1>9 DEF IndInv, Grown

LEMMA WriteStep ==
    ASSUME IndInv, NEW e \in Endpoints, NEW length \in Lengths[e],
           Write(e, length)
    PROVE  IndInv' /\ EndpointStepOrStutter
<1>1. /\ Endpoint!EncryptToSecureMessage(e, length)
      /\ Transmit(e, stream[e], <<Size(NeededSize(length)),
                                  Message(Len(sent'[e]))>>)
  BY DEF Write
<1>2. length \in Nat
  BY SocketAssumption, UIntMaxAssumption
<1>3. /\ Grown
      /\ NeededSize(length) \in Nat
      /\ Len(sent'[e]) \in 1..Len(sent'[e])
  BY <1>1, <1>2, EncryptGrows DEF IndInv
<1>4. <<Size(NeededSize(length)), Message(Len(sent'[e]))>>
         \in Seq(KnownItems(Partner(e))')
  BY <1>3, WrittenKnown
<1>5. StreamsKnown' /\ stream' = [p \in Endpoints |-> stream'[p]]
  BY <1>1, <1>3, <1>4, TransmitKnown DEF IndInv, StreamsKnown
<1>6. SocketTypes'
  BY <1>5 DEF IndInv, SocketTypes, Write
<1>7. EndpointStepOrStutter
  BY <1>1, Allowed DEF Endpoint!EndpointStep
<1> QED
  BY <1>3, <1>5, <1>6, <1>7 DEF IndInv, Grown

LEMMA ReadSizeStep ==
    ASSUME IndInv, NEW e \in Endpoints, ReadSize(e)
    PROVE  IndInv' /\ EndpointStepOrStutter
<1>1. /\ stream[e] # << >> /\ Head(stream[e]).type = "size"
      /\ UNCHANGED endpointVars
      /\ stream' = [stream EXCEPT ![e] = Tail(@)]
  BY DEF ReadSize, Arrived
<1>2. Grown
  BY <1>1, Unchanged DEF IndInv
<1>3. StreamsKnown' /\ stream' = [p \in Endpoints |-> stream'[p]]
  BY <1>1, <1>2, TailKnown
<1>4. Head(stream[e]).size \in Nat
  <2>1. Head(stream[e]) \in KnownItems(e)
    BY <1>1, HeadFacts
  <2> QED
    BY <1>1, <2>1 DEF KnownItems, Number, Key, Size, Message
<1>5. SocketTypes'
  BY <1>3, <1>4 DEF IndInv, SocketTypes, ReadSize
<1> QED
  BY <1>1, <1>2, <1>3, <1>5 DEF IndInv, Grown, EndpointStepOrStutter

LEMMA ReadMessageStep ==
    ASSUME IndInv, NEW e \in Endpoints, ReadMessage(e)
    PROVE  IndInv' /\ EndpointStepOrStutter
<1> DEFINE i == Head(stream[e]).position
<1>1. /\ stream[e] # << >> /\ Head(stream[e]).type = "message"
      /\ Endpoint!DecryptSecureMessage(e, i)
      /\ stream' = [stream EXCEPT ![e] = Tail(@)]
  BY DEF ReadMessage, Arrived
<1>2. Grown
  BY <1>1, HeadFacts, DecryptGrows DEF IndInv
<1>3. StreamsKnown' /\ stream' = [p \in Endpoints |-> stream'[p]]
  BY <1>1, <1>2, TailKnown
<1>4. SocketTypes'
  BY <1>3 DEF IndInv, SocketTypes, ReadMessage, NoFrame
<1>5. i \in DOMAIN sent[Endpoint!Partner(e)]
  <2>1. i \in 1..Len(sent[Partner(e)])
    BY <1>1, HeadFacts
  <2>2. Endpoint!Partner(e) = Partner(e)
    BY DEF Endpoint!Partner, Partner
  <2> QED
    BY <2>1, <2>2, PartnerFacts, LenProperties DEF IndInv, EndpointTypes
<1> HIDE DEF i
<1>6. EndpointStepOrStutter
  BY <1>1, <1>5, Allowed DEF Endpoint!EndpointStep
<1> QED
  BY <1>2, <1>3, <1>4, <1>6 DEF IndInv, Grown

LEMMA EndStep ==
    ASSUME IndInv, NEW e \in Endpoints, StartupFails(e) \/ ReadFails(e)
    PROVE  IndInv' /\ EndpointStepOrStutter
<1>1. UNCHANGED endpointVars /\ stream' = stream
  BY DEF StartupFails, ReadFails
<1>2. Grown
  BY <1>1, Unchanged DEF IndInv
<1>3. StreamsKnown'
  BY <1>1, <1>2, StreamsShrink DEF IndInv, StreamsKnown
<1>4. SocketTypes'
  BY DEF IndInv, SocketTypes, StartupFails, ReadFails, Goto
<1> QED
  BY <1>1, <1>2, <1>3, <1>4 DEF IndInv, Grown, EndpointStepOrStutter

LEMMA LossStep ==
    ASSUME IndInv, NEW e \in Endpoints, Close(e) \/ Lose(e)
    PROVE  IndInv' /\ EndpointStepOrStutter
<1>1. UNCHANGED endpointVars
  BY DEF Close, Lose
<1>2. Grown
  BY <1>1, Unchanged DEF IndInv
<1>3. stream' = [p \in Endpoints |-> stream'[p]]
      /\ \A p \in Endpoints : p # e => stream'[p] = stream[p]
  BY DEF IndInv, SocketTypes, Close, Lose
<1>4. stream'[e] \in Seq(KnownItems(e))
  <2>1. CASE Close(e)
    BY <2>1 DEF IndInv, SocketTypes, Close
  <2>2. CASE Lose(e)
    <3>1. /\ stream[e] \in Seq(KnownItems(e))
          /\ Len(stream[e]) \in Nat
      BY LenProperties DEF IndInv, StreamsKnown
    <3>2. PICK n \in 0 .. Len(stream[e]) - 1 :
             stream'[e] = SubSeq(stream[e], 1, n)
      BY <2>2 DEF IndInv, SocketTypes, Lose
    <3>3. \A k \in 1..n : stream[e][k] \in KnownItems(e)
      BY <3>1, ElementOfSeq
    <3> QED
      BY <3>1, <3>2, <3>3, SubSeqProperties
  <2> QED
    BY <2>1, <2>2
<1>5. StreamsKnown'
  BY <1>2, <1>3, <1>4, StreamsShrink DEF IndInv, StreamsKnown
<1>6. SocketTypes'
  BY <1>3 DEF IndInv, SocketTypes, Close, Lose, Goto
<1> QED
  BY <1>1, <1>2, <1>5, <1>6 DEF IndInv, Grown, EndpointStepOrStutter

LEMMA EveryStep ==
    ASSUME IndInv, [Next]_vars
    PROVE  IndInv' /\ EndpointStepOrStutter
<1>1. CASE UNCHANGED vars
  <2>1. UNCHANGED endpointVars /\ UNCHANGED socketVars
    BY <1>1 DEF vars
  <2>2. Grown
    BY <2>1, Unchanged DEF IndInv
  <2>3. StreamsKnown'
    BY <2>1, <2>2, StreamsShrink DEF IndInv, StreamsKnown, socketVars
  <2> QED
    BY <2>1, <2>2, <2>3 DEF IndInv, Grown, SocketTypes, socketVars,
                            EndpointStepOrStutter
<1>2. CASE Connect \/ Serve \/ Break
  BY <1>2, ConnectStep
<1>3. ASSUME NEW e \in Endpoints, StartupStep(e)
      PROVE  IndInv' /\ EndpointStepOrStutter
  BY <1>3, SendNumberStep, ReadNumberStep, ReadKeyStep, EndStep DEF StartupStep
<1>4. ASSUME NEW e \in Endpoints, NEW length \in Lengths[e], Write(e, length)
      PROVE  IndInv' /\ EndpointStepOrStutter
  BY <1>4, WriteStep
<1>5. ASSUME NEW e \in Endpoints, ReadStep(e)
      PROVE  IndInv' /\ EndpointStepOrStutter
  BY <1>5, ReadSizeStep, ReadMessageStep, EndStep DEF ReadStep
<1>6. ASSUME NEW e \in Endpoints, Close(e) \/ Lose(e)
      PROVE  IndInv' /\ EndpointStepOrStutter
  BY <1>6, LossStep
<1> QED
  BY <1>1, <1>2, <1>3, <1>4, <1>5, <1>6 DEF Next

\* The state of two sockets keeps its type.
THEOREM TypeCorrect == Spec => []TypeOK
<1>1. Init => IndInv
  BY InitHolds
<1>2. IndInv /\ [Next]_vars => IndInv'
  BY EveryStep
<1> QED
  BY <1>1, <1>2, TypesFollow, PTL DEF Spec

\* The endpoints inside two sockets behave as MSTEndpoint says, so that
\* everything proved of MSTEndpoint holds of them: connectAndStartup, read and
\* write call them in no way that MSTEndpoint does not know.
THEOREM EndpointTheorem == Spec => EndpointSpec
<1>1. Init => IndInv /\ Endpoint!Init
  BY InitHolds
<1>2. IndInv /\ [Next]_vars => IndInv'
  BY EveryStep
<1>3. IndInv /\ [Next]_vars => [Endpoint!Next]_(Endpoint!vars)
  BY EveryStep DEF EndpointStepOrStutter, Endpoint!vars, endpointVars
<1> QED
  BY <1>1, <1>2, <1>3, PTL DEF Spec, EndpointSpec, Endpoint!Spec
-----------------------------------------------------------------------------
(* What is read is what was written, and keys and counters agree.  The      *)
(* inductive invariant follows both directions of the connection: how many *)
(* items the partner has written, how many of them e has read, that the    *)
(* stream holds those in between, and the masks of the next message.       *)

\* The items that come after each other in a direction in which the messages
\* s are sent.
ItemAt(s, n) ==
    IF n = 1 THEN Number
    ELSE IF n = 2 THEN Key(1)
    ELSE IF n % 2 = 1 THEN Size(s[(n - 1) \div 2].size)
    ELSE Message((n - 2) \div 2)

\* How many of them e has read, as long as it reads.
Consumed(e) ==
    IF pc[e] \in {"created", "startup", "waitNumber"} THEN 0
    ELSE IF pc[e] = "waitKey" THEN 1
    ELSE 2 + 2 * Len(accepted[e]) + (IF frame[e] = NoFrame THEN 0 ELSE 1)

\* How many of them p has written, as long as it writes.
Produced(p) ==
    IF pc[p] \in {"created", "unconnected", "startup"} THEN 0
    ELSE IF pc[p] = "waitNumber" THEN 1
    ELSE 2 + 2 * Len(sent[p])

Listening(e) ==
    pc[e] \in {"created", "startup", "waitNumber", "waitKey"} \/ Reading(e)

Writing(p) == ~broken /\ pc[p] \notin {"failed", "closed"}

\* The stream to e goes on where e has read up to, and ends where its partner
\* has written up to unless something was lost.
Linked(e) ==
    /\ \A n \in 1..Len(stream[e]) :
          stream[e][n] = ItemAt(sent[Partner(e)], Consumed(e) + n)
    /\ Consumed(e) + Len(stream[e]) <= 2 + 2 * Len(sent[Partner(e)])
    /\ Writing(Partner(e)) =>
          Consumed(e) + Len(stream[e]) = Produced(Partner(e))

\* The counter after the first n of the messages s.
CounterAfter(s, n) == IF n = 0 THEN 0 ELSE s[n].counter + Blocks(s[n].size)

\* e has read the size of the message that comes next and knows its masks.
InStep(e) ==
    /\ counterPartner[e] = CounterAfter(sent[Partner(e)], Len(accepted[e]))
    /\ frame[e] # NoFrame =>
          /\ Len(accepted[e]) + 1 \in 1..Len(sent[Partner(e)])
          /\ frame[e] = sent[Partner(e)][Len(accepted[e]) + 1].size
          /\ frame[e] <= MaxTransaction

\* What is so before connectAndStartup is at its end.
StartedUp(e) ==
    /\ pc[e] \in {"created", "unconnected", "startup", "waitNumber"} =>
          generated[e] = 0
    /\ pc[e] \in {"created", "unconnected", "startup", "waitNumber", "waitKey"} =>
          /\ sendingKey[e] = Endpoint!NoKey /\ frame[e] = NoFrame
          /\ sent[e] = << >> /\ accepted[e] = << >>
    /\ pc[e] \in {"waitKey", "open"} =>
          generated[e] = 1 /\ receivingKeyCreated[e]

\* The key that arrives is the partner's first one under the same secret.
ArrivingKey == IF presharedKey = "same" THEN 1 ELSE Endpoint!GarbledKey

\* All messages are masked with it, and with one counter value after the other.
Masked(e) ==
    /\ sendingKey[e] \in {Endpoint!NoKey, ArrivingKey}
    /\ counterOwn[e] = CounterAfter(sent[e], Len(sent[e]))
    /\ \A i \in 1..Len(sent[e]) :
          /\ sent[e][i].key = ArrivingKey
          /\ sent[e][i].counter = CounterAfter(sent[e], i - 1)
          /\ sent[e][i].size # NoFrame
          /\ WellFormedSize(sent[e][i].size)

\* What decryptSecureMessage has said.
Answered(e) ==
    /\ presharedKey = "same" => lastFailure[e] = Endpoint!NoFailure
    /\ presharedKey # "same" => accepted[e] = << >>

Direction(e) == Listening(e) => Linked(e) /\ InStep(e)

Good(e) == Direction(e) /\ StartedUp(e) /\ Masked(e) /\ Answered(e)

Agreement == \A e \in Endpoints : Good(e)
-----------------------------------------------------------------------------
LEMMA ItemFacts ==
    ASSUME NEW s, NEW i \in Nat, i >= 1
    PROVE  /\ ItemAt(s, 2 * i + 1) = Size(s[i].size)
           /\ ItemAt(s, 2 * i + 2) = Message(i)
<1>1. /\ 2 * i + 1 \notin {1, 2} /\ (2 * i + 1) % 2 = 1
      /\ ((2 * i + 1) - 1) \div 2 = i
  OBVIOUS
<1>2. /\ 2 * i + 2 \notin {1, 2} /\ (2 * i + 2) % 2 # 1
      /\ ((2 * i + 2) - 2) \div 2 = i
  OBVIOUS
<1> QED
  BY <1>1, <1>2 DEF ItemAt

\* What p has sent stays, and more may follow.
SentGrows(p) ==
    /\ Len(sent[p]) <= Len(sent'[p])
    /\ \A i \in 1..Len(sent[p]) : sent'[p][i] = sent[p][i]

LEMMA GrowsFacts ==
    ASSUME EndpointTypes, EndpointTypes', NEW p \in Endpoints, SentGrows(p)
    PROVE  /\ \A n \in 1 .. 2 + 2 * Len(sent[p]) :
                 ItemAt(sent'[p], n) = ItemAt(sent[p], n)
           /\ \A n \in 0..Len(sent[p]) :
                 CounterAfter(sent'[p], n) = CounterAfter(sent[p], n)
<1>1. Len(sent[p]) \in Nat /\ Len(sent'[p]) \in Nat
  BY LenProperties DEF EndpointTypes
<1>2. ASSUME NEW n \in 1 .. 2 + 2 * Len(sent[p])
      PROVE  ItemAt(sent'[p], n) = ItemAt(sent[p], n)
  <2>1. n # 1 /\ n # 2 /\ n % 2 = 1 => (n - 1) \div 2 \in 1..Len(sent[p])
    BY <1>1
  <2> QED
    BY <2>1 DEF ItemAt, SentGrows
<1>3. ASSUME NEW n \in 0..Len(sent[p])
      PROVE  CounterAfter(sent'[p], n) = CounterAfter(sent[p], n)
  BY <1>1 DEF CounterAfter, SentGrows
<1> QED
  BY <1>2, <1>3

LEMMA Counts ==
    ASSUME IndInv, NEW e \in Endpoints
    PROVE  /\ Consumed(e) \in Nat /\ Produced(e) \in Nat
           /\ Len(stream[e]) \in Nat /\ Len(sent[e]) \in Nat
           /\ Len(accepted[e]) \in Nat /\ frame[e] \in Nat
<1>1. /\ Len(stream[e]) \in Nat /\ Len(sent[e]) \in Nat
      /\ Len(accepted[e]) \in Nat /\ frame[e] \in Nat
  BY LenProperties DEF IndInv, EndpointTypes, StreamsKnown, SocketTypes
<1>2. /\ 2 + 2 * Len(accepted[e]) + 0 \in Nat /\ 2 + 2 * Len(accepted[e]) + 1 \in Nat
      /\ 2 + 2 * Len(sent[e]) \in Nat
  BY <1>1
<1>3. Consumed(e) \in Nat
  BY <1>2 DEF Consumed
<1>4. Produced(e) \in Nat
  BY <1>2 DEF Produced
<1> QED
  BY <1>1, <1>3, <1>4

\* Nothing changes in the endpoint of d.
EndpointKept(d) ==
    /\ generated'[d] = generated[d]
    /\ receivingKeyCreated'[d] = receivingKeyCreated[d]
    /\ sendingKey'[d] = sendingKey[d]
    /\ counterOwn'[d] = counterOwn[d] /\ counterPartner'[d] = counterPartner[d]
    /\ sent'[d] = sent[d] /\ accepted'[d] = accepted[d]
    /\ lastFailure'[d] = lastFailure[d]
    /\ presharedKey' = presharedKey

\* Only the stream of d may change, in a step of its partner.
OwnUnchanged(d) ==
    /\ EndpointKept(d)
    /\ pc'[d] = pc[d] /\ frame'[d] = frame[d] /\ ended'[d] = ended[d]

LEMMA MaskedKept ==
    ASSUME NEW d \in Endpoints, EndpointKept(d)
    PROVE  /\ Masked(d) => Masked(d)'
           /\ Answered(d) => Answered(d)'
           /\ SentGrows(d)
<1> USE DEF EndpointKept
<1>1. Masked(d) => Masked(d)'
  BY DEF Masked, ArrivingKey, CounterAfter, Endpoint!NoKey, Endpoint!GarbledKey
<1>2. Answered(d) => Answered(d)'
  BY DEF Answered
<1>3. SentGrows(d)
  BY DEF SentGrows
<1> QED
  BY <1>1, <1>2, <1>3

LEMMA OwnKept ==
    ASSUME NEW d \in Endpoints, OwnUnchanged(d)
    PROVE  /\ StartedUp(d) => StartedUp(d)'
           /\ Masked(d) => Masked(d)'
           /\ Answered(d) => Answered(d)'
           /\ Listening(d)' = Listening(d)
           /\ Consumed(d)' = Consumed(d)
           /\ Produced(d)' = Produced(d)
           /\ SentGrows(d)
<1> USE DEF OwnUnchanged, EndpointKept
<1>1. StartedUp(d) => StartedUp(d)'
  BY DEF StartedUp, Endpoint!NoKey, NoFrame
<1>2. Listening(d)' = Listening(d)
  BY DEF Listening, Reading
<1>3. Consumed(d)' = Consumed(d) /\ Produced(d)' = Produced(d)
  BY DEF Consumed, Produced
<1> QED
  BY <1>1, <1>2, <1>3, MaskedKept

\* e listens: it has not accepted more than its partner has sent.
LEMMA AcceptedBound ==
    ASSUME IndInv, NEW e \in Endpoints, Good(e), Listening(e)
    PROVE  Len(accepted[e]) \in 0..Len(sent[Partner(e)])
<1>1. /\ Consumed(e) \in Nat /\ Len(stream[e]) \in Nat
      /\ Len(accepted[e]) \in Nat /\ Len(sent[Partner(e)]) \in Nat
      /\ frame[e] \in Nat
  BY PartnerFacts, Counts
<1>2. Consumed(e) + Len(stream[e]) <= 2 + 2 * Len(sent[Partner(e)])
  BY DEF Good, Direction, Linked
<1>3. CASE pc[e] = "open"
  <2>1. \/ Consumed(e) = 2 + 2 * Len(accepted[e]) + 0
        \/ Consumed(e) = 2 + 2 * Len(accepted[e]) + 1
    BY <1>3 DEF Consumed
  <2> QED
    BY <1>1, <1>2, <2>1
<1>4. CASE pc[e] # "open"
  BY <1>1, <1>4 DEF Good, StartedUp, Listening, Reading
<1> QED
  BY <1>3, <1>4

\* The masks stay in step while the partner sends.
LEMMA InStepKept ==
    ASSUME IndInv, IndInv', NEW e \in Endpoints, Good(e), Listening(e),
           SentGrows(Partner(e)), counterPartner'[e] = counterPartner[e],
           accepted'[e] = accepted[e], frame'[e] = frame[e]
    PROVE  InStep(e)'
<1>1. /\ Partner(e) \in Endpoints
      /\ Len(accepted[e]) \in 0..Len(sent[Partner(e)])
      /\ Len(sent[Partner(e)]) \in Nat /\ Len(sent'[Partner(e)]) \in Nat
      /\ Len(accepted[e]) \in Nat
  BY AcceptedBound, PartnerFacts, Counts, LenProperties DEF IndInv, EndpointTypes
<1>2. InStep(e)
  BY DEF Good, Direction
<1>3. CounterAfter(sent'[Partner(e)], Len(accepted[e]))
        = CounterAfter(sent[Partner(e)], Len(accepted[e]))
  BY <1>1, GrowsFacts DEF IndInv
<1> QED
  BY <1>1, <1>2, <1>3 DEF InStep, SentGrows, NoFrame

\* Nothing happens to the direction to e, or its writer stops.
LEMMA LinkKept ==
    ASSUME IndInv, NEW e \in Endpoints, Linked(e),
           stream'[e] = stream[e], Consumed(e)' = Consumed(e),
           sent'[Partner(e)] = sent[Partner(e)],
           Writing(Partner(e))' => /\ Writing(Partner(e))
                                   /\ Produced(Partner(e))' = Produced(Partner(e))
    PROVE  Linked(e)'
  BY DEF Linked

\* e has read the next item.
LEMMA LinkRead ==
    ASSUME IndInv, NEW e \in Endpoints, Linked(e), stream[e] # << >>,
           stream'[e] = Tail(stream[e]), Consumed(e)' = Consumed(e) + 1,
           sent'[Partner(e)] = sent[Partner(e)],
           Writing(Partner(e))' => /\ Writing(Partner(e))
                                   /\ Produced(Partner(e))' = Produced(Partner(e))
    PROVE  Linked(e)'
<1>1. /\ Consumed(e) \in Nat /\ Len(stream[e]) \in Nat
      /\ stream[e] \in Seq(KnownItems(e))
  BY Counts DEF IndInv, StreamsKnown
<1>2. /\ Len(Tail(stream[e])) = Len(stream[e]) - 1
      /\ \A n \in 1 .. Len(stream[e]) - 1 : Tail(stream[e])[n] = stream[e][n + 1]
  BY <1>1, HeadTailProperties
<1>3. ASSUME NEW n \in 1..Len(stream'[e])
      PROVE  stream'[e][n] = ItemAt(sent[Partner(e)], (Consumed(e) + 1) + n)
  <2>1. n + 1 \in 1..Len(stream[e]) /\ stream'[e][n] = stream[e][n + 1]
    BY <1>1, <1>2
  <2>2. stream[e][n + 1] = ItemAt(sent[Partner(e)], Consumed(e) + (n + 1))
    BY <2>1 DEF Linked
  <2>3. Consumed(e) + (n + 1) = (Consumed(e) + 1) + n
    BY <1>1, <2>1
  <2> QED
    BY <2>1, <2>2, <2>3
<1>4. Consumed(e)' + Len(stream'[e]) = Consumed(e) + Len(stream[e])
  BY <1>1, <1>2
<1> QED
  BY <1>3, <1>4 DEF Linked

\* The partner has written items.
LEMMA LinkWritten ==
    ASSUME IndInv, IndInv', NEW e \in Endpoints, Linked(e),
           Writing(Partner(e)), SentGrows(Partner(e)),
           Consumed(e)' = Consumed(e),
           NEW S, NEW items \in Seq(S), stream'[e] = stream[e] \o items,
           Produced(Partner(e))' = Produced(Partner(e)) + Len(items),
           Produced(Partner(e))' <= 2 + 2 * Len(sent'[Partner(e)]),
           \A k \in 1..Len(items) :
              items[k] = ItemAt(sent'[Partner(e)], Produced(Partner(e)) + k)
    PROVE  Linked(e)'
<1> DEFINE p == Partner(e)
           l == Len(stream[e])
<1>1. /\ Consumed(e) \in Nat /\ l \in Nat /\ p \in Endpoints
      /\ Produced(p) \in Nat /\ Len(sent[p]) \in Nat
      /\ stream[e] \in Seq(KnownItems(e)) /\ Len(items) \in Nat
  BY Counts, PartnerFacts, LenProperties DEF IndInv, StreamsKnown
<1>2. Consumed(e) + l = Produced(p) /\ Consumed(e) + l <= 2 + 2 * Len(sent[p])
  BY DEF Linked
<1>3. /\ Len(stream'[e]) = l + Len(items)
      /\ \A n \in 1 .. l + Len(items) :
            stream'[e][n] = IF n <= l THEN stream[e][n] ELSE items[n - l]
  <2>1. stream[e] \in Seq(KnownItems(e) \cup S) /\ items \in Seq(KnownItems(e) \cup S)
    BY <1>1, SeqMonotonic
  <2> QED
    BY <2>1, ConcatProperties
<1>4. ASSUME NEW n \in 1 .. l + Len(items)
      PROVE  stream'[e][n] = ItemAt(sent'[p], Consumed(e) + n)
  <2>1. CASE n <= l
    <3>1. stream'[e][n] = ItemAt(sent[p], Consumed(e) + n)
      BY <1>1, <1>3, <2>1 DEF Linked
    <3>2. Consumed(e) + n \in 1 .. 2 + 2 * Len(sent[p])
      <4> HIDE DEF l, p
      <4> QED
        BY <1>1, <1>2, <1>4, <2>1
    <3> QED
      BY <1>1, <3>1, <3>2, GrowsFacts DEF IndInv
  <2>2. CASE n > l
    <3>1. n - l \in 1..Len(items) /\ Consumed(e) + n = Produced(p) + (n - l)
      BY <1>1, <1>2, <2>2
    <3>2. items[n - l] = ItemAt(sent'[p], Produced(p) + (n - l))
      BY <3>1
    <3>3. stream'[e][n] = items[n - l]
      <4> HIDE DEF l, p
      <4> QED
        BY <1>1, <1>3, <1>4, <2>2
    <3> QED
      BY <3>1, <3>2, <3>3
  <2> QED
    BY <1>1, <2>1, <2>2
<1>5. Consumed(e)' + Len(stream'[e]) = Produced(p)'
  BY <1>1, <1>2, <1>3
<1> QED
  BY <1>3, <1>4, <1>5 DEF Linked

\* What the partner writes is lost, or something of what is under way.
LEMMA LinkCut ==
    ASSUME IndInv, IndInv', NEW e \in Endpoints, Linked(e),
           ~Writing(Partner(e))', SentGrows(Partner(e)),
           Consumed(e)' = Consumed(e),
           NEW n \in 0..Len(stream[e]), Len(stream'[e]) = n,
           \A k \in 1..n : stream'[e][k] = stream[e][k]
    PROVE  Linked(e)'
<1> DEFINE p == Partner(e)
<1>1. /\ Consumed(e) \in Nat /\ Len(stream[e]) \in Nat /\ p \in Endpoints
      /\ Len(sent[p]) \in Nat /\ stream[e] \in Seq(KnownItems(e))
      /\ Len(sent'[p]) \in Nat
  BY Counts, PartnerFacts, LenProperties DEF IndInv, StreamsKnown, EndpointTypes
<1>2. Consumed(e) + Len(stream[e]) <= 2 + 2 * Len(sent[p])
  BY DEF Linked
<1>4. ASSUME NEW k \in 1..n
      PROVE  stream'[e][k] = ItemAt(sent'[p], Consumed(e) + k)
  <2>1. stream'[e][k] = ItemAt(sent[p], Consumed(e) + k)
    BY <1>1 DEF Linked
  <2>2. Consumed(e) + k \in 1 .. 2 + 2 * Len(sent[p])
    BY <1>1, <1>2
  <2> QED
    BY <1>1, <2>1, <2>2, GrowsFacts DEF IndInv
<1>5. Consumed(e)' + Len(stream'[e]) <= 2 + 2 * Len(sent'[p])
  BY <1>1, <1>2 DEF SentGrows
<1> QED
  BY <1>4, <1>5 DEF Linked
-----------------------------------------------------------------------------
LEMMA Both ==
    ASSUME NEW e \in Endpoints, Good(e)', Good(Partner(e))'
    PROVE  Agreement'
  BY SocketAssumption DEF Agreement, Endpoints, Partner

\* The partner of e, when e writes nothing.
LEMMA PartnerKept ==
    ASSUME IndInv, IndInv', Agreement, NEW e \in Endpoints,
           OwnUnchanged(Partner(e)), stream'[Partner(e)] = stream[Partner(e)],
           sent'[e] = sent[e],
           Writing(e)' => Writing(e) /\ Produced(e)' = Produced(e)
    PROVE  Good(Partner(e))'
<1> DEFINE d == Partner(e)
<1>1. d \in Endpoints /\ Partner(d) = e /\ Good(d)
  BY PartnerFacts DEF Agreement
<1>2. /\ StartedUp(d)' /\ Masked(d)' /\ Answered(d)'
      /\ Listening(d)' = Listening(d) /\ Consumed(d)' = Consumed(d)
  BY <1>1, OwnKept DEF Good
<1>3. ASSUME Listening(d)' PROVE Linked(d)' /\ InStep(d)'
  <2>1. Listening(d) /\ Linked(d) /\ InStep(d)
    BY <1>1, <1>2, <1>3 DEF Good, Direction
  <2>2. Linked(d)'
    BY <1>1, <1>2, <2>1, LinkKept
  <2>3. SentGrows(e)
    BY DEF SentGrows
  <2>4. InStep(d)'
    BY <1>1, <2>1, <2>3, InStepKept DEF OwnUnchanged, EndpointKept
  <2> QED
    BY <2>2, <2>4
<1> QED
  BY <1>2, <1>3 DEF Good, Direction

\* The partner of e, when e writes.
LEMMA PartnerWritten ==
    ASSUME IndInv, IndInv', Agreement, NEW e \in Endpoints,
           OwnUnchanged(Partner(e)), SentGrows(e), broken' = broken,
           NEW rest, NEW S, NEW items \in Seq(S), Transmit(e, rest, items),
           ~Lost(e) =>
              /\ Writing(e)
              /\ Produced(e)' = Produced(e) + Len(items)
              /\ Produced(e)' <= 2 + 2 * Len(sent'[e])
              /\ \A k \in 1..Len(items) :
                    items[k] = ItemAt(sent'[e], Produced(e) + k)
    PROVE  Good(Partner(e))'
<1> DEFINE d == Partner(e)
<1>1. d \in Endpoints /\ Partner(d) = e /\ Good(d) /\ d # e
  BY PartnerFacts DEF Agreement
<1>2. /\ StartedUp(d)' /\ Masked(d)' /\ Answered(d)'
      /\ Listening(d)' = Listening(d) /\ Consumed(d)' = Consumed(d)
  BY <1>1, OwnKept DEF Good
<1>3. stream'[d] = IF Lost(e) THEN stream[d] ELSE stream[d] \o items
  BY <1>1 DEF Transmit, IndInv, SocketTypes
<1>4. ASSUME Listening(d)' PROVE Linked(d)' /\ InStep(d)'
  <2>1. Listening(d) /\ Linked(d) /\ InStep(d)
    BY <1>1, <1>2, <1>4 DEF Good, Direction
  <2>2. CASE Lost(e)
    <3>1. ~Writing(e)'
      BY <2>1, <2>2 DEF Lost, Writing, Listening, Reading
    <3>2. Len(stream[d]) \in 0..Len(stream[d])
      BY <1>1, Counts
    <3> HIDE DEF d
    <3> QED
      BY <1>1, <1>2, <1>3, <2>1, <2>2, <3>1, <3>2, LinkCut, InStepKept
         DEF OwnUnchanged, EndpointKept, d
  <2>3. CASE ~Lost(e)
    <3>1. Linked(d)'
      BY <1>1, <1>2, <1>3, <2>1, <2>3, LinkWritten
    <3>2. InStep(d)'
      BY <1>1, <2>1, InStepKept DEF OwnUnchanged, EndpointKept
    <3> QED
      BY <3>1, <3>2
  <2> QED
    BY <2>2, <2>3
<1> QED
  BY <1>2, <1>4 DEF Good, Direction

\* The stream of e when it reads an item, or none.
LEMMA OwnRead ==
    ASSUME IndInv, Agreement, NEW e \in Endpoints, Listening(e),
           OwnUnchanged(Partner(e)), broken' = broken,
           \/ stream'[e] = stream[e] /\ Consumed(e)' = Consumed(e)
           \/ /\ stream[e] # << >> /\ stream'[e] = Tail(stream[e])
              /\ Consumed(e)' = Consumed(e) + 1
    PROVE  Linked(e)'
<1>1. /\ Partner(e) \in Endpoints /\ Linked(e)
      /\ sent'[Partner(e)] = sent[Partner(e)]
  BY PartnerFacts DEF Agreement, Good, Direction, OwnUnchanged, EndpointKept
<1>2. /\ Writing(Partner(e))' = Writing(Partner(e))
      /\ Produced(Partner(e))' = Produced(Partner(e))
  BY <1>1, OwnKept DEF Writing, OwnUnchanged
<1> QED
  BY <1>1, <1>2, LinkKept, LinkRead
-----------------------------------------------------------------------------
\* A step of e that leaves its partner alone.
LEMMA PartnerOwn ==
    ASSUME IndInv, NEW e \in Endpoints, UNCHANGED endpointVars,
           UNCHANGED <<presharedKey, frame, ended>>
    PROVE  /\ EndpointKept(e) /\ EndpointKept(Partner(e))
           /\ frame' = frame /\ ended' = ended
           /\ SentGrows(e) /\ SentGrows(Partner(e))
  BY DEF endpointVars, EndpointKept, SentGrows

\* The phase of another endpoint stays.
LEMMA GotoFacts ==
    ASSUME IndInv, NEW e \in Endpoints, NEW label, Goto(e, label)
    PROVE  pc'[e] = label /\ pc'[Partner(e)] = pc[Partner(e)]
  BY PartnerFacts DEF IndInv, SocketTypes, Goto

LEMMA ConnectAgrees ==
    ASSUME IndInv, IndInv', Agreement, Connect \/ Serve
    PROVE  Agreement'
<1>1. PICK e \in Endpoints, label \in {"startup", "unconnected"} :
         pc[e] = "created" /\ Goto(e, label)
  BY DEF Connect, Serve, Client, Server, Endpoints
<1>2. /\ UNCHANGED endpointVars /\ UNCHANGED <<presharedKey, frame, ended>>
      /\ stream' = stream /\ broken' = broken
  BY DEF Connect, Serve
<1>3. pc'[e] = label /\ pc'[Partner(e)] = pc[Partner(e)]
  BY <1>1, GotoFacts
<1>4. /\ EndpointKept(e) /\ EndpointKept(Partner(e))
      /\ frame' = frame /\ ended' = ended
      /\ SentGrows(e) /\ SentGrows(Partner(e)) /\ sent'[e] = sent[e]
  BY <1>2, PartnerOwn DEF EndpointKept
<1>5. OwnUnchanged(Partner(e))
  BY <1>3, <1>4 DEF OwnUnchanged
<1>6. Good(Partner(e))'
  <2>1. Writing(e)' => Writing(e) /\ Produced(e)' = Produced(e)
    BY <1>1, <1>2, <1>3 DEF Writing, Produced
  <2> QED
    BY <1>2, <1>4, <1>5, <2>1, PartnerKept
<1>7. Good(e) /\ Listening(e)
  BY <1>1 DEF Agreement, Listening
<1>8. StartedUp(e)' /\ Masked(e)' /\ Answered(e)'
  <2>1. StartedUp(e)'
    BY <1>1, <1>3, <1>4, <1>7 DEF Good, StartedUp, EndpointKept, NoFrame,
                                 Endpoint!NoKey
  <2> QED
    BY <1>4, <1>7, <2>1, MaskedKept DEF Good
<1>9. ASSUME Listening(e)' PROVE Linked(e)' /\ InStep(e)'
  <2>1. label = "startup"
    BY <1>3, <1>9 DEF Listening, Reading
  <2>2. Consumed(e)' = Consumed(e)
    BY <1>1, <1>3, <2>1 DEF Consumed
  <2>3. Linked(e)'
    BY <1>2, <1>5, <1>7, <2>2, OwnRead
  <2>4. InStep(e)'
    BY <1>4, <1>7, InStepKept DEF EndpointKept
  <2> QED
    BY <2>3, <2>4
<1>10. Good(e)'
  BY <1>8, <1>9 DEF Good, Direction
<1> QED
  BY <1>6, <1>10, Both

LEMMA BreakAgrees ==
    ASSUME IndInv, IndInv', Agreement, Break
    PROVE  Agreement'
<1>1. /\ UNCHANGED endpointVars /\ UNCHANGED <<presharedKey, frame, ended>>
      /\ stream' = stream /\ pc' = pc /\ broken'
  BY DEF Break
<1>2. ASSUME NEW e \in Endpoints PROVE Good(Partner(e))'
  <2>1. OwnUnchanged(Partner(e)) /\ sent'[e] = sent[e]
    BY <1>1, PartnerOwn DEF OwnUnchanged, EndpointKept
  <2>2. ~Writing(e)'
    BY <1>1 DEF Writing
  <2> QED
    BY <1>1, <2>1, <2>2, PartnerKept
<1>3. \A e \in Endpoints : Good(e)'
  <2> TAKE e \in Endpoints
  <2>1. Partner(e) \in Endpoints /\ Partner(Partner(e)) = e
    BY PartnerFacts
  <2>2. Good(Partner(Partner(e)))'
    BY <1>2, <2>1
  <2> QED
    BY <2>1, <2>2
<1> QED
  BY <1>3 DEF Agreement

\* A step of e after which it no longer listens, and writes nothing.
LEMMA EndAgrees ==
    ASSUME IndInv, IndInv', Agreement, NEW e \in Endpoints,
           OwnUnchanged(Partner(e)), sent'[e] = sent[e], broken' = broken,
           stream'[Partner(e)] = stream[Partner(e)],
           ~Listening(e)', StartedUp(e)', Masked(e)', Answered(e)',
           \/ pc'[e] \in {"failed", "closed"}
           \/ pc'[e] = pc[e]
    PROVE  Agreement'
<1>1. Writing(e)' => Writing(e) /\ Produced(e)' = Produced(e)
  BY DEF Writing, Produced
<1>2. Good(Partner(e))'
  BY <1>1, PartnerKept
<1>3. Good(e)'
  BY DEF Good, Direction
<1> QED
  BY <1>2, <1>3, Both

LEMMA SendNumberAgrees ==
    ASSUME IndInv, IndInv', Agreement, NEW e \in Endpoints, SendNumber(e)
    PROVE  Agreement'
<1>1. /\ UNCHANGED endpointVars /\ UNCHANGED <<presharedKey, frame, ended>>
      /\ broken' = broken /\ pc[e] = "startup"
      /\ Transmit(e, stream[e], <<Number>>)
  BY DEF SendNumber
<1>2. PICK ok \in WriteOutcomes(e) :
         Goto(e, IF ok THEN "waitNumber" ELSE "failed")
  BY DEF SendNumber
<1>3. /\ pc'[e] = IF ok THEN "waitNumber" ELSE "failed"
      /\ pc'[Partner(e)] = pc[Partner(e)]
  BY <1>2, GotoFacts
<1>4. /\ EndpointKept(e) /\ EndpointKept(Partner(e))
      /\ frame' = frame /\ ended' = ended
      /\ SentGrows(e) /\ SentGrows(Partner(e))
  BY <1>1, PartnerOwn
<1>5. OwnUnchanged(Partner(e))
  BY <1>3, <1>4 DEF OwnUnchanged
<1>6. ~Lost(e) => /\ Writing(e)
                  /\ Produced(e) = 0 /\ Produced(e)' = 1
                  /\ pc'[e] = "waitNumber"
  BY <1>1, <1>2, <1>3 DEF Lost, Writing, Produced, WriteOutcomes
<1>7. Good(Partner(e))'
  <2>1. /\ Len(<<Number>>) = 1 /\ <<Number>> \in Seq({Number})
        /\ \A k \in 1..1 : <<Number>>[k] = ItemAt(sent'[e], 0 + k)
    BY DEF ItemAt
  <2>2. Len(sent'[e]) \in Nat
    BY Counts, LenProperties DEF IndInv, EndpointTypes
  <2>3. ~Lost(e) =>
              /\ Writing(e)
              /\ Produced(e)' = Produced(e) + Len(<<Number>>)
              /\ Produced(e)' <= 2 + 2 * Len(sent'[e])
              /\ \A k \in 1..Len(<<Number>>) :
                    <<Number>>[k] = ItemAt(sent'[e], Produced(e) + k)
    BY <1>6, <2>1, <2>2
  <2> QED
    BY <1>1, <1>4, <1>5, <2>1, <2>3, PartnerWritten
<1>8. Good(e) /\ Listening(e)
  BY <1>1 DEF Agreement, Listening
<1>9. StartedUp(e)' /\ Masked(e)' /\ Answered(e)'
  <2>1. StartedUp(e)'
    BY <1>1, <1>3, <1>4, <1>8 DEF Good, StartedUp, EndpointKept, NoFrame,
                                 Endpoint!NoKey
  <2> QED
    BY <1>4, <1>8, <2>1, MaskedKept DEF Good
<1>10. ASSUME Listening(e)' PROVE Linked(e)' /\ InStep(e)'
  <2>1. pc'[e] = "waitNumber"
    BY <1>3, <1>10 DEF Listening, Reading
  <2>2. Consumed(e)' = Consumed(e)
    BY <1>1, <2>1 DEF Consumed
  <2>3. stream'[e] = stream[e]
    BY <1>1, PartnerFacts DEF Transmit, IndInv, SocketTypes
  <2>4. Linked(e)'
    BY <1>1, <1>5, <1>8, <2>2, <2>3, OwnRead
  <2>5. InStep(e)'
    BY <1>4, <1>8, InStepKept DEF EndpointKept
  <2> QED
    BY <2>4, <2>5
<1>11. Good(e)'
  BY <1>9, <1>10 DEF Good, Direction
<1> QED
  BY <1>7, <1>11, Both

LEMMA CreateEffect ==
    ASSUME IndInv, NEW e \in Endpoints, Endpoint!CreateReceivingKey(e)
    PROVE  /\ generated'[e] = generated[e] + 1
           /\ receivingKeyCreated'[e] = TRUE
           /\ \A d \in Endpoints \ {e} :
                 /\ generated'[d] = generated[d]
                 /\ receivingKeyCreated'[d] = receivingKeyCreated[d]
           /\ UNCHANGED <<sendingKey, counterOwn, counterPartner, sent, accepted,
                          lastFailure>>
  BY DEF Endpoint!CreateReceivingKey, IndInv, EndpointTypes

LEMMA ReadNumberAgrees ==
    ASSUME IndInv, IndInv', Agreement, NEW e \in Endpoints, ReadNumber(e)
    PROVE  Agreement'
<1>1. /\ UNCHANGED <<presharedKey, frame, ended, broken>>
      /\ pc[e] = "waitNumber" /\ stream[e] # << >>
      /\ Endpoint!CreateReceivingKey(e)
      /\ Transmit(e, Tail(stream[e]), <<Key(generated'[e])>>)
  BY DEF ReadNumber, Arrived
<1>2. PICK ok \in WriteOutcomes(e) :
         Goto(e, IF ok THEN "waitKey" ELSE "failed")
  BY DEF ReadNumber
<1>3. /\ pc'[e] = IF ok THEN "waitKey" ELSE "failed"
      /\ pc'[Partner(e)] = pc[Partner(e)]
  BY <1>2, GotoFacts
<1>4. Good(e) /\ Listening(e) /\ generated[e] = 0 /\ sent[e] = << >>
  BY <1>1 DEF Agreement, Listening, Good, StartedUp
<1>5. /\ generated'[e] = 1 /\ receivingKeyCreated'[e] = TRUE
      /\ EndpointKept(Partner(e)) /\ SentGrows(Partner(e))
      /\ SentGrows(e)
      /\ UNCHANGED <<sendingKey, counterOwn, counterPartner, sent, accepted,
                     lastFailure>>
  <2>1. /\ generated'[e] = generated[e] + 1 /\ receivingKeyCreated'[e] = TRUE
        /\ generated'[Partner(e)] = generated[Partner(e)]
        /\ receivingKeyCreated'[Partner(e)] = receivingKeyCreated[Partner(e)]
        /\ UNCHANGED <<sendingKey, counterOwn, counterPartner, sent, accepted,
                       lastFailure>>
    BY <1>1, CreateEffect, PartnerFacts
  <2>2. Len(sent[e]) \in Nat /\ Len(sent[Partner(e)]) \in Nat
    BY PartnerFacts, Counts
  <2> QED
    BY <1>1, <1>4, <2>1, <2>2 DEF EndpointKept, SentGrows
<1>6. OwnUnchanged(Partner(e))
  BY <1>1, <1>3, <1>5 DEF OwnUnchanged
<1>7. Len(sent[e]) = 0
  BY <1>4
<1>8. ~Lost(e) => /\ Writing(e)
                  /\ Produced(e) = 1 /\ Produced(e)' = 2
                  /\ pc'[e] = "waitKey"
  <2>1. 2 + 2 * Len(sent'[e]) = 2
    BY <1>5, <1>7
  <2>2. ~Lost(e) => Writing(e) /\ pc'[e] = "waitKey"
    BY <1>1, <1>2, <1>3 DEF Lost, Writing, WriteOutcomes
  <2>3. Produced(e) = 1 /\ (pc'[e] = "waitKey" => Produced(e)' = 2)
    BY <1>1, <2>1 DEF Produced
  <2> QED
    BY <2>2, <2>3
<1>9. Good(Partner(e))'
  <2> DEFINE items == <<Key(generated'[e])>>
  <2>1. /\ Len(items) = 1 /\ items \in Seq({Key(1)})
        /\ \A k \in 1..1 : items[k] = ItemAt(sent'[e], 1 + k)
    BY <1>5 DEF ItemAt
  <2>2. 2 <= 2 + 2 * Len(sent'[e])
    BY <1>5, <1>7
  <2> HIDE DEF items
  <2>3. ~Lost(e) =>
              /\ Writing(e)
              /\ Produced(e)' = Produced(e) + Len(items)
              /\ Produced(e)' <= 2 + 2 * Len(sent'[e])
              /\ \A k \in 1..Len(items) :
                    items[k] = ItemAt(sent'[e], Produced(e) + k)
    BY <1>8, <2>1, <2>2
  <2>4. Transmit(e, Tail(stream[e]), items)
    BY <1>1 DEF items
  <2> QED
    BY <1>1, <1>5, <1>6, <2>1, <2>3, <2>4, PartnerWritten
<1>10. StartedUp(e)' /\ Masked(e)' /\ Answered(e)'
  <2>1. StartedUp(e)'
    BY <1>1, <1>3, <1>4, <1>5 DEF Good, StartedUp, NoFrame, Endpoint!NoKey
  <2>2. Masked(e)'
    BY <1>1, <1>4, <1>5 DEF Good, Masked, ArrivingKey, CounterAfter,
                           Endpoint!NoKey, Endpoint!GarbledKey
  <2>3. Answered(e)'
    BY <1>1, <1>4, <1>5 DEF Good, Answered
  <2> QED
    BY <2>1, <2>2, <2>3
<1>11. ASSUME Listening(e)' PROVE Linked(e)' /\ InStep(e)'
  <2>1. pc'[e] = "waitKey"
    BY <1>3, <1>11 DEF Listening, Reading
  <2>2. Consumed(e)' = Consumed(e) + 1
    BY <1>1, <2>1 DEF Consumed
  <2>3. stream'[e] = Tail(stream[e])
    BY <1>1, PartnerFacts DEF Transmit, IndInv, SocketTypes
  <2>4. Linked(e)'
    BY <1>1, <1>4, <1>6, <2>2, <2>3, OwnRead
  <2>5. InStep(e)'
    BY <1>1, <1>4, <1>5, InStepKept
  <2> QED
    BY <2>4, <2>5
<1>12. Good(e)'
  BY <1>10, <1>11 DEF Good, Direction
<1> QED
  BY <1>9, <1>12, Both

LEMMA StopAgrees ==
    ASSUME IndInv, IndInv', Agreement, NEW e \in Endpoints,
           ReadUnknownNumber(e) \/ StartupFails(e) \/ ReadFails(e) \/ Close(e)
    PROVE  Agreement'
<1>1. /\ UNCHANGED endpointVars /\ UNCHANGED <<presharedKey, frame, broken>>
      /\ \/ Goto(e, "failed") \/ Goto(e, "closed")
         \/ pc' = pc /\ ended'[e]
      /\ ended'[Partner(e)] = ended[Partner(e)]
      /\ stream'[Partner(e)] = stream[Partner(e)]
  BY PartnerFacts DEF ReadUnknownNumber, StartupFails, ReadFails, Close,
                      IndInv, SocketTypes
<1>2. /\ \/ pc'[e] \in {"failed", "closed"}
         \/ pc'[e] = pc[e] /\ ended'[e]
      /\ pc'[Partner(e)] = pc[Partner(e)]
  BY <1>1, GotoFacts
<1>3. EndpointKept(e) /\ EndpointKept(Partner(e)) /\ frame' = frame
  BY <1>1 DEF endpointVars, EndpointKept
<1>4. OwnUnchanged(Partner(e)) /\ sent'[e] = sent[e]
  BY <1>1, <1>2, <1>3 DEF OwnUnchanged, EndpointKept
<1>5. Good(e)
  BY DEF Agreement
<1>6. ~Listening(e)'
  <2>1. CASE pc'[e] \in {"failed", "closed"}
    BY <2>1 DEF Listening, Reading
  <2>2. CASE ReadFails(e)
    BY <1>1, <2>2 DEF Listening, Reading, ReadFails, IndInv, SocketTypes
  <2>3. CASE ~ReadFails(e)
    BY <2>1, <2>3, GotoFacts DEF ReadUnknownNumber, StartupFails, Close
  <2> QED
    BY <2>2, <2>3
<1>7. StartedUp(e)' /\ Masked(e)' /\ Answered(e)'
  <2>1. StartedUp(e)'
    BY <1>2, <1>3, <1>5 DEF Good, StartedUp, EndpointKept, NoFrame,
                            Endpoint!NoKey
  <2> QED
    BY <1>3, <1>5, <2>1, MaskedKept DEF Good
<1> QED
  BY <1>1, <1>2, <1>4, <1>6, <1>7, EndAgrees

LEMMA NoKeyAgrees ==
    ASSUME IndInv, IndInv', Agreement, NEW e \in Endpoints, ReadNumberNoKey(e)
    PROVE  Agreement'
<1>1. /\ UNCHANGED <<presharedKey, frame, ended, broken>>
      /\ Endpoint!CreateReceivingKeyFails(e) /\ Goto(e, "failed")
      /\ stream'[Partner(e)] = stream[Partner(e)]
  BY PartnerFacts DEF ReadNumberNoKey, IndInv, SocketTypes
<1>2. pc'[e] = "failed" /\ pc'[Partner(e)] = pc[Partner(e)]
  BY <1>1, GotoFacts
<1>3. /\ receivingKeyCreated'[Partner(e)] = receivingKeyCreated[Partner(e)]
      /\ UNCHANGED <<generated, sendingKey, counterOwn, counterPartner, sent,
                     accepted, lastFailure>>
  BY <1>1, PartnerFacts DEF Endpoint!CreateReceivingKeyFails, IndInv,
                            EndpointTypes
<1>4. OwnUnchanged(Partner(e)) /\ sent'[e] = sent[e]
  BY <1>1, <1>2, <1>3 DEF OwnUnchanged, EndpointKept
<1>5. Good(e)
  BY DEF Agreement
<1>6. ~Listening(e)' /\ StartedUp(e)'
  BY <1>2 DEF Listening, Reading, StartedUp
<1>7. Masked(e)' /\ Answered(e)'
  BY <1>1, <1>3, <1>5 DEF Good, Masked, Answered, ArrivingKey, CounterAfter,
                          Endpoint!NoKey, Endpoint!GarbledKey
<1> QED
  BY <1>1, <1>2, <1>4, <1>6, <1>7, EndAgrees

LEMMA LoseAgrees ==
    ASSUME IndInv, IndInv', Agreement, NEW e \in Endpoints, Lose(e)
    PROVE  Agreement'
<1>1. /\ UNCHANGED endpointVars
      /\ UNCHANGED <<presharedKey, pc, frame, ended, broken>>
  BY DEF Lose
<1>2. /\ stream[e] \in Seq(KnownItems(e)) /\ Len(stream[e]) \in Nat
      /\ Partner(e) \in Endpoints /\ Partner(Partner(e)) = e
  BY PartnerFacts, Counts DEF IndInv, StreamsKnown
<1>3. PICK n \in 0 .. Len(stream[e]) - 1 : stream'[e] = SubSeq(stream[e], 1, n)
  BY DEF Lose, IndInv, SocketTypes
<1>4. /\ n \in 0..Len(stream[e]) /\ Len(stream'[e]) = n
      /\ \A k \in 1..n : stream'[e][k] = stream[e][k]
  <2>1. \A k \in 1..n : stream[e][k] \in KnownItems(e)
    BY <1>2, ElementOfSeq
  <2> QED
    BY <1>2, <1>3, <2>1, SubSeqProperties
<1>5. stream'[Partner(e)] = stream[Partner(e)]
  BY <1>2, PartnerFacts DEF Lose, IndInv, SocketTypes
<1>6. /\ OwnUnchanged(e) /\ OwnUnchanged(Partner(e)) /\ sent'[e] = sent[e]
      /\ SentGrows(Partner(e))
  BY <1>1, PartnerOwn DEF OwnUnchanged, EndpointKept, endpointVars
<1>7. Good(Partner(e))'
  <2>1. Writing(e)' => Writing(e) /\ Produced(e)' = Produced(e)
    BY <1>1, <1>6, OwnKept DEF Writing
  <2> QED
    BY <1>5, <1>6, <2>1, PartnerKept
<1>8. ~Writing(Partner(e))'
  BY <1>1 DEF Lose, Lost, Writing
<1>9. Good(e)
  BY DEF Agreement
<1>10. /\ StartedUp(e)' /\ Masked(e)' /\ Answered(e)'
       /\ Listening(e)' = Listening(e) /\ Consumed(e)' = Consumed(e)
  BY <1>6, <1>9, OwnKept DEF Good
<1>11. ASSUME Listening(e)' PROVE Linked(e)' /\ InStep(e)'
  <2>1. Listening(e) /\ Linked(e)
    BY <1>9, <1>10, <1>11 DEF Good, Direction
  <2>2. Linked(e)'
    BY <1>4, <1>6, <1>8, <1>10, <2>1, LinkCut
  <2>3. InStep(e)'
    BY <1>6, <1>9, <2>1, InStepKept DEF OwnUnchanged, EndpointKept
  <2> QED
    BY <2>2, <2>3
<1>12. Good(e)'
  BY <1>10, <1>11 DEF Good, Direction
<1> QED
  BY <1>7, <1>12, Both

\* What e reads next is the next item its partner wrote.
LEMMA NextItem ==
    ASSUME IndInv, Agreement, NEW e \in Endpoints, Listening(e),
           stream[e] # << >>
    PROVE  /\ Head(stream[e]) = ItemAt(sent[Partner(e)], Consumed(e) + 1)
           /\ Consumed(e) + 1 <= 2 + 2 * Len(sent[Partner(e)])
<1>1. /\ Consumed(e) \in Nat /\ Len(stream[e]) \in Nat
      /\ stream[e] \in Seq(KnownItems(e))
      /\ Partner(e) \in Endpoints /\ Len(sent[Partner(e)]) \in Nat
  BY Counts, PartnerFacts DEF IndInv, StreamsKnown
<1>2. Linked(e)
  BY DEF Agreement, Good, Direction
<1>3. Len(stream[e]) >= 1 /\ Head(stream[e]) = stream[e][1]
  BY <1>1, EmptySeq, HeadTailProperties
<1> QED
  BY <1>1, <1>2, <1>3 DEF Linked

LEMMA ReadKeyAgrees ==
    ASSUME IndInv, IndInv', Agreement, NEW e \in Endpoints, ReadKey(e)
    PROVE  Agreement'
<1> DEFINE key == IF presharedKey = "same" THEN Head(stream[e]).key
                  ELSE Endpoint!GarbledKey
<1>1. /\ UNCHANGED <<presharedKey, frame, ended, broken>>
      /\ pc[e] = "waitKey" /\ stream[e] # << >>
      /\ Endpoint!InitSendingKey(e, key) /\ Goto(e, "open")
      /\ stream'[e] = Tail(stream[e])
      /\ stream'[Partner(e)] = stream[Partner(e)]
  BY PartnerFacts DEF ReadKey, Arrived, IndInv, SocketTypes
<1>2. pc'[e] = "open" /\ pc'[Partner(e)] = pc[Partner(e)]
  BY <1>1, GotoFacts
<1>3. /\ Good(e) /\ Listening(e) /\ generated[e] = 1 /\ receivingKeyCreated[e]
      /\ sent[e] = << >> /\ accepted[e] = << >> /\ frame[e] = NoFrame
  BY <1>1 DEF Agreement, Listening, Good, StartedUp
<1>4. key = ArrivingKey
  <2>1. Consumed(e) = 1
    BY <1>1 DEF Consumed
  <2>2. Head(stream[e]) = Key(1)
    BY <1>1, <1>3, <2>1, NextItem DEF ItemAt
  <2> QED
    BY <2>2 DEF ArrivingKey, Key
<1>5. /\ sendingKey'[e] = key
      /\ sendingKey'[Partner(e)] = sendingKey[Partner(e)]
      /\ UNCHANGED <<generated, receivingKeyCreated, counterOwn, counterPartner,
                     sent, accepted, lastFailure>>
  BY <1>1, PartnerFacts DEF Endpoint!InitSendingKey, IndInv, EndpointTypes
<1> HIDE DEF key
<1>6. OwnUnchanged(Partner(e)) /\ sent'[e] = sent[e] /\ SentGrows(Partner(e))
  BY <1>1, <1>2, <1>5, PartnerFacts, Counts DEF OwnUnchanged, EndpointKept, SentGrows
<1>7. Good(Partner(e))'
  <2>1. Writing(e)' => Writing(e) /\ Produced(e)' = Produced(e)
    BY <1>1, <1>2, <1>5 DEF Writing, Produced
  <2> QED
    BY <1>1, <1>6, <2>1, PartnerKept
<1>8. StartedUp(e)' /\ Masked(e)' /\ Answered(e)'
  <2>1. StartedUp(e)'
    BY <1>2, <1>3, <1>5 DEF StartedUp
  <2>2. Masked(e)'
    BY <1>1, <1>3, <1>4, <1>5 DEF Good, Masked, ArrivingKey, CounterAfter,
                                 Endpoint!NoKey, Endpoint!GarbledKey
  <2>3. Answered(e)'
    BY <1>1, <1>3, <1>5 DEF Good, Answered
  <2> QED
    BY <2>1, <2>2, <2>3
<1>9. Linked(e)' /\ InStep(e)'
  <2>1. Len(accepted'[e]) = 0
    BY <1>3, <1>5
  <2>2. Consumed(e)' = Consumed(e) + 1
    BY <1>1, <1>2, <1>3, <1>5, <2>1 DEF Consumed
  <2>3. Linked(e)'
    BY <1>1, <1>3, <1>6, <2>2, OwnRead
  <2>4. InStep(e)'
    BY <1>1, <1>3, <1>5, <1>6, InStepKept
  <2> QED
    BY <2>3, <2>4
<1>10. Good(e)'
  BY <1>8, <1>9 DEF Good, Direction
<1> QED
  BY <1>7, <1>10, Both

LEMMA WriteAgrees ==
    ASSUME IndInv, IndInv', Agreement, NEW e \in Endpoints,
           NEW length \in Lengths[e], Write(e, length)
    PROVE  Agreement'
<1> DEFINE m == NewMessage(e, length)
           l == Len(sent[e])
           items == <<Size(NeededSize(length)), Message(Len(sent'[e]))>>
<1>1. /\ UNCHANGED <<presharedKey, pc, frame, ended, broken>>
      /\ pc[e] = "open"
      /\ Endpoint!EncryptToSecureMessage(e, length)
      /\ Transmit(e, stream[e], items)
  BY DEF Write
<1>2. length \in Nat /\ LengthFits(length)
  BY SocketAssumption, UIntMaxAssumption
<1>3. /\ sendingKey[e] # Endpoint!NoKey
      /\ sent' = [sent EXCEPT ![e] = Append(@, m)]
      /\ counterOwn' = [counterOwn EXCEPT ![e] = @ + Blocks(NeededSize(length))]
      /\ UNCHANGED <<generated, receivingKeyCreated, sendingKey,
                     counterPartner, accepted, lastFailure>>
  BY <1>1, <1>2, EncryptEffect
<1>4. /\ m \in SentMessage /\ sent[e] \in Seq(SentMessage)
      /\ l \in Nat
  BY <1>1, <1>2, EncryptGrows, LenProperties DEF IndInv, EndpointTypes
<1>5. /\ m.key = sendingKey[e] /\ m.counter = counterOwn[e]
      /\ m.size = NeededSize(length)
  BY DEF NewMessage
<1> HIDE DEF m
<1>6. /\ sent'[e] = Append(sent[e], m)
      /\ Len(sent'[e]) = l + 1
      /\ \A i \in 1..l : sent'[e][i] = sent[e][i]
      /\ sent'[e][l + 1] = m
      /\ counterOwn'[e] = counterOwn[e] + Blocks(m.size)
  <2>1. /\ sent'[e] = Append(sent[e], m)
        /\ counterOwn'[e] = counterOwn[e] + Blocks(m.size)
    BY <1>3, <1>5 DEF IndInv, EndpointTypes
  <2> QED
    BY <1>4, <2>1, AppendProperties
<1>7. SentGrows(e)
  BY <1>4, <1>6 DEF SentGrows
<1>8. OwnUnchanged(Partner(e)) /\ SentGrows(Partner(e))
  <2>1. /\ counterOwn'[Partner(e)] = counterOwn[Partner(e)]
        /\ sent'[Partner(e)] = sent[Partner(e)]
    BY <1>3, PartnerFacts DEF IndInv, EndpointTypes
  <2>2. Len(sent[Partner(e)]) \in Nat
    BY PartnerFacts, Counts
  <2> QED
    BY <1>1, <1>3, <2>1, <2>2 DEF OwnUnchanged, EndpointKept, SentGrows
<1>9. Good(e)
  BY DEF Agreement
<1>10. Good(Partner(e))'
  <2>1. /\ Produced(e) = 2 + 2 * l
        /\ Produced(e)' = 2 + 2 * (l + 1)
    BY <1>1, <1>6 DEF Produced
  <2>2. /\ Len(items) = 2 /\ items \in Seq({items[1], items[2]})
        /\ items[1] = Size(m.size) /\ items[2] = Message(l + 1)
    BY <1>5, <1>6
  <2> HIDE DEF items
  <2>3. /\ ItemAt(sent'[e], 2 * (l + 1) + 1) = Size(m.size)
        /\ ItemAt(sent'[e], 2 * (l + 1) + 2) = Message(l + 1)
    <3>1. l + 1 \in Nat /\ l + 1 >= 1
      BY <1>4
    <3>2. /\ ItemAt(sent'[e], 2 * (l + 1) + 1) = Size(sent'[e][l + 1].size)
          /\ ItemAt(sent'[e], 2 * (l + 1) + 2) = Message(l + 1)
      <4> HIDE DEF l
      <4> QED
        BY <3>1, ItemFacts
    <3> QED
      BY <1>6, <3>2
  <2>4. /\ Produced(e) + 1 = 2 * (l + 1) + 1
        /\ Produced(e) + 2 = 2 * (l + 1) + 2
        /\ Produced(e)' = Produced(e) + 2
        /\ Produced(e)' <= 2 + 2 * Len(sent'[e])
    BY <1>4, <1>6, <2>1
  <2>5. \A k \in 1..Len(items) : items[k] = ItemAt(sent'[e], Produced(e) + k)
    <3> SUFFICES ASSUME NEW k \in 1..2
                 PROVE  items[k] = ItemAt(sent'[e], Produced(e) + k)
      BY <2>2
    <3>1. k = 1 \/ k = 2
      OBVIOUS
    <3> QED
      BY <2>2, <2>3, <2>4, <3>1
  <2>6. ~Lost(e) => Writing(e)
    BY <1>1 DEF Lost, Writing
  <2> QED
    BY <1>1, <1>7, <1>8, <2>2, <2>4, <2>5, <2>6, PartnerWritten
<1>11. StartedUp(e)' /\ Answered(e)'
  BY <1>1, <1>3, <1>9 DEF Good, StartedUp, Answered
<1>12. Masked(e)'
  <2>1. ArrivingKey' = ArrivingKey
    BY <1>1 DEF ArrivingKey, Endpoint!GarbledKey
  <2>2. m.key = ArrivingKey /\ sendingKey'[e] = ArrivingKey
    BY <1>3, <1>5, <1>9 DEF Good, Masked
  <2>3. WellFormedSize(m.size) /\ m.size # NoFrame
    BY <1>2, <1>5, NeededSizeExact, PaddingFillsWord
       DEF NoFrame, HashWordSize
  <2>4. m.counter = CounterAfter(sent[e], l)
    BY <1>5, <1>9 DEF Good, Masked
  <2>5. \A n \in 0..l : CounterAfter(sent'[e], n) = CounterAfter(sent[e], n)
    BY <1>7, GrowsFacts DEF IndInv
  <2>6. ASSUME NEW i \in 1..l + 1
        PROVE  /\ sent'[e][i].key = ArrivingKey
               /\ sent'[e][i].counter = CounterAfter(sent'[e], i - 1)
               /\ sent'[e][i].size # NoFrame
               /\ WellFormedSize(sent'[e][i].size)
    <3>1. i - 1 \in 0..l /\ (i # l + 1 => i \in 1..l)
      BY <1>4
    <3>2. CASE i = l + 1
      <4>1. i - 1 = l
        BY <1>4, <3>2
      <4> QED
        BY <1>4, <1>6, <2>2, <2>3, <2>4, <2>5, <3>1, <3>2, <4>1
    <3>3. CASE i # l + 1
      BY <1>6, <1>9, <2>5, <3>1, <3>3 DEF Good, Masked
    <3> QED
      BY <3>2, <3>3
  <2>7. counterOwn'[e] = CounterAfter(sent'[e], l + 1)
    BY <1>4, <1>5, <1>6 DEF CounterAfter
  <2> QED
    BY <1>6, <2>1, <2>2, <2>6, <2>7 DEF Masked
<1>13. ASSUME Listening(e)' PROVE Linked(e)' /\ InStep(e)'
  <2>1. Listening(e) /\ Consumed(e)' = Consumed(e)
    BY <1>1, <1>3, <1>13 DEF Listening, Reading, Consumed
  <2>2. stream'[e] = stream[e]
    BY <1>1, PartnerFacts DEF Transmit, IndInv, SocketTypes
  <2>3. Linked(e)'
    BY <1>1, <1>8, <2>1, <2>2, OwnRead
  <2>4. InStep(e)'
    BY <1>1, <1>3, <1>8, <1>9, <2>1, InStepKept
  <2> QED
    BY <2>3, <2>4
<1>14. Good(e)'
  BY <1>11, <1>12, <1>13 DEF Good, Direction
<1> QED
  BY <1>10, <1>14, Both

\* The next item that is read while messages are exchanged.
LEMMA NextMessage ==
    ASSUME IndInv, Agreement, NEW e \in Endpoints, Reading(e),
           stream[e] # << >>, NEW i, i = Len(accepted[e]) + 1
    PROVE  /\ i \in 1..Len(sent[Partner(e)])
           /\ sent[Partner(e)][i] \in SentMessage
           /\ frame[e] = NoFrame =>
                 Head(stream[e]) = Size(sent[Partner(e)][i].size)
           /\ frame[e] # NoFrame => Head(stream[e]) = Message(i)
<1> DEFINE p == Partner(e)
<1>1. /\ Len(accepted[e]) \in Nat /\ Len(sent[p]) \in Nat /\ p \in Endpoints
  BY Counts, PartnerFacts
<1>2. /\ Head(stream[e]) = ItemAt(sent[p], Consumed(e) + 1)
      /\ Consumed(e) + 1 <= 2 + 2 * Len(sent[p])
  BY NextItem DEF Listening
<1>3. /\ frame[e] = NoFrame => Consumed(e) = 2 + 2 * Len(accepted[e]) + 0
      /\ frame[e] # NoFrame => Consumed(e) = 2 + 2 * Len(accepted[e]) + 1
  BY DEF Consumed, Reading
<1>4. /\ frame[e] = NoFrame => Consumed(e) + 1 = 2 * i + 1
      /\ frame[e] # NoFrame => Consumed(e) + 1 = 2 * i + 2
  BY <1>1, <1>3
<1>5. i \in 1..Len(sent[p])
  BY <1>1, <1>2, <1>4
<1>6. i \in Nat /\ i >= 1 /\ sent[p] \in Seq(SentMessage)
  BY <1>1 DEF IndInv, EndpointTypes
<1>7. sent[p][i] \in SentMessage
  BY <1>5, <1>6, ElementOfSeq
<1> QED
  BY <1>2, <1>4, <1>5, <1>6, <1>7, ItemFacts

LEMMA ReadSizeAgrees ==
    ASSUME IndInv, IndInv', Agreement, NEW e \in Endpoints, ReadSize(e)
    PROVE  Agreement'
<1> DEFINE p == Partner(e)
           i == Len(accepted[e]) + 1
           size == sent[p][i].size
<1>1. /\ UNCHANGED endpointVars /\ UNCHANGED <<presharedKey, pc, broken>>
      /\ Reading(e) /\ frame[e] = NoFrame /\ stream[e] # << >>
      /\ stream'[e] = Tail(stream[e]) /\ stream'[p] = stream[p]
      /\ frame'[p] = frame[p] /\ ended'[p] = ended[p]
  BY PartnerFacts DEF ReadSize, Arrived, IndInv, SocketTypes
<1>2. /\ p \in Endpoints /\ i \in 1..Len(sent[p])
      /\ Head(stream[e]) = Size(size) /\ Len(accepted[e]) \in Nat
  BY <1>1, NextMessage, Counts, PartnerFacts
<1>3. \/ size <= MaxTransaction /\ frame'[e] = size /\ ended' = ended
      \/ ended'[e] /\ frame' = frame
  BY <1>2 DEF ReadSize, Size, IndInv, SocketTypes
<1>4. size # NoFrame
  BY <1>2 DEF Agreement, Good, Masked
<1>5. Good(e) /\ Listening(e)
  BY <1>1 DEF Agreement, Listening
<1>6. /\ EndpointKept(e) /\ OwnUnchanged(p) /\ sent'[e] = sent[e]
      /\ sent'[p] = sent[p]
  BY <1>1 DEF endpointVars, EndpointKept, OwnUnchanged
<1>7. StartedUp(e)' /\ Masked(e)' /\ Answered(e)'
  <2>1. StartedUp(e)'
    BY <1>1, <1>5, <1>6 DEF Good, StartedUp, EndpointKept, Reading
  <2> QED
    BY <1>5, <1>6, <2>1, MaskedKept DEF Good
<1>8. CASE ended'[e]
  <2>1. ~Listening(e)'
    BY <1>1, <1>8 DEF Listening, Reading
  <2> QED
    BY <1>1, <1>6, <1>7, <2>1, EndAgrees
<1>9. CASE size <= MaxTransaction /\ frame'[e] = size /\ ended' = ended
  <2>1. Good(p)'
    <3>1. Writing(e)' => Writing(e) /\ Produced(e)' = Produced(e)
      BY <1>1, <1>6 DEF Writing, Produced
    <3> QED
      BY <1>1, <1>6, <3>1, PartnerKept
  <2>2. Consumed(e)' = Consumed(e) + 1
    <3>1. /\ Consumed(e) = 2 + 2 * Len(accepted[e]) + 0
          /\ Consumed(e)' = 2 + 2 * Len(accepted[e]) + 1
      <4> HIDE DEF size
      <4> QED
        BY <1>1, <1>4, <1>6, <1>9 DEF Consumed, Reading, EndpointKept, NoFrame
    <3> QED
      BY <1>2, <3>1
  <2>3. Linked(e)'
    BY <1>1, <1>5, <1>6, <2>2, OwnRead
  <2>4. InStep(e)'
    BY <1>2, <1>5, <1>6, <1>9 DEF Good, Direction, InStep, EndpointKept,
                                  CounterAfter
  <2>5. Good(e)'
    BY <1>7, <2>3, <2>4 DEF Good, Direction
  <2> QED
    BY <2>1, <2>5, Both
<1> QED
  BY <1>3, <1>8, <1>9

LEMMA ReadMessageAgrees ==
    ASSUME IndInv, IndInv', Agreement, NEW e \in Endpoints, ReadMessage(e)
    PROVE  Agreement'
<1> DEFINE p == Partner(e)
           i == Len(accepted[e]) + 1
           m == sent[p][i]
           matches == m.key = generated[e] /\ m.counter = counterPartner[e]
<1>1. /\ UNCHANGED <<presharedKey, pc, broken>>
      /\ Reading(e) /\ frame[e] # NoFrame /\ stream[e] # << >>
      /\ Endpoint!DecryptSecureMessage(e, Head(stream[e]).position)
      /\ stream'[e] = Tail(stream[e]) /\ stream'[p] = stream[p]
      /\ frame'[e] = NoFrame
      /\ frame'[p] = frame[p] /\ ended'[p] = ended[p]
      /\ ended'[e] = (accepted'[e] = accepted[e])
  BY PartnerFacts DEF ReadMessage, Arrived, IndInv, SocketTypes
<1>2. /\ p \in Endpoints /\ p # e /\ Partner(p) = e /\ i \in 1..Len(sent[p])
      /\ Head(stream[e]) = Message(i) /\ Len(accepted[e]) \in Nat
      /\ accepted[e] \in Seq(Nat) /\ m \in SentMessage
  BY <1>1, NextMessage, Counts, PartnerFacts DEF IndInv, EndpointTypes
<1>3. Endpoint!DecryptSecureMessage(e, i)
  BY <1>1, <1>2 DEF Message
<1>4. /\ counterPartner'[e] = counterPartner[e] + Blocks(m.size)
      /\ counterPartner'[p] = counterPartner[p]
      /\ IF matches
         THEN /\ accepted' = [accepted EXCEPT ![e] = Append(@, i)]
              /\ lastFailure' = lastFailure
         ELSE /\ accepted' = accepted
              /\ lastFailure' = [lastFailure EXCEPT ![e] = generated[e]]
      /\ UNCHANGED <<generated, receivingKeyCreated, sendingKey, counterOwn, sent>>
  <2>1. Endpoint!Partner(e) = p
    BY DEF Endpoint!Partner, Partner
  <2> HIDE DEF i
  <2> QED
    BY <1>2, <1>3, <2>1, EndpointSizes
       DEF Endpoint!DecryptSecureMessage, Endpoint!Unmask, Endpoint!Matches,
           Endpoint!Fail, Endpoint!keyVars, IndInv, EndpointTypes
<1>5. /\ Good(e) /\ Listening(e) /\ InStep(e) /\ generated[e] = 1
      /\ receivingKeyCreated[e] /\ pc[e] = "open" /\ Masked(p)
  BY <1>1, <1>2 DEF Agreement, Good, Direction, Listening, StartedUp, Reading
<1>6. OwnUnchanged(p) /\ sent'[e] = sent[e]
  <2>1. accepted'[p] = accepted[p] /\ lastFailure'[p] = lastFailure[p]
    BY <1>2, <1>4 DEF IndInv, EndpointTypes
  <2> QED
    BY <1>1, <1>4, <2>1 DEF OwnUnchanged, EndpointKept
<1>7. Masked(e)'
  BY <1>1, <1>4, <1>5 DEF Good, Masked, ArrivingKey, CounterAfter,
                          Endpoint!NoKey, Endpoint!GarbledKey
<1>8. StartedUp(e)'
  BY <1>1, <1>4, <1>5 DEF StartedUp
<1>9. matches <=> presharedKey = "same"
  <2>1. /\ m.key = ArrivingKey
        /\ m.counter = CounterAfter(sent[p], i - 1)
    BY <1>2, <1>5 DEF Masked
  <2>2. i - 1 = Len(accepted[e])
    BY <1>2
  <2>3. m.counter = counterPartner[e]
    BY <1>5, <2>1, <2>2 DEF InStep
  <2> QED
    BY <1>5, <2>1, <2>3 DEF ArrivingKey, Endpoint!GarbledKey
<1>10. CASE presharedKey # "same"
  <2>1. /\ accepted' = accepted
        /\ Answered(e)'
    BY <1>1, <1>4, <1>5, <1>9, <1>10 DEF Good, Answered
  <2>2. ~Listening(e)'
    BY <1>1, <1>5, <2>1 DEF Listening, Reading
  <2> QED
    BY <1>1, <1>6, <1>7, <1>8, <2>1, <2>2, EndAgrees
<1>11. CASE presharedKey = "same"
  <2>1. /\ accepted'[e] = Append(accepted[e], i)
        /\ lastFailure' = lastFailure
    BY <1>4, <1>9, <1>11 DEF IndInv, EndpointTypes
  <2>2. Len(accepted'[e]) = i
    BY <1>2, <2>1, AppendProperties
  <2>3. Answered(e)'
    BY <1>1, <1>5, <1>11, <2>1 DEF Good, Answered
  <2>4. Good(p)'
    <3>1. Writing(e)' => Writing(e) /\ Produced(e)' = Produced(e)
      BY <1>1, <1>6 DEF Writing, Produced
    <3> QED
      BY <1>1, <1>6, <3>1, PartnerKept
  <2>5. Consumed(e)' = Consumed(e) + 1
    <3>1. /\ Consumed(e) = 2 + 2 * Len(accepted[e]) + 1
          /\ Consumed(e)' = 2 + 2 * Len(accepted'[e]) + 0
      BY <1>1, <1>5 DEF Consumed, NoFrame
    <3> QED
      BY <1>2, <2>2, <3>1
  <2>6. Linked(e)'
    BY <1>1, <1>5, <1>6, <2>5, OwnRead
  <2>7. InStep(e)'
    <3>1. m.counter = counterPartner[e]
      BY <1>9, <1>11
    <3>2. /\ counterPartner'[e] = CounterAfter(sent'[p], i)
          /\ frame'[e] = NoFrame
      BY <1>1, <1>2, <1>4, <3>1 DEF CounterAfter
    <3> QED
      BY <2>2, <3>2 DEF InStep, NoFrame
  <2>8. Good(e)'
    BY <1>7, <1>8, <2>3, <2>6, <2>7 DEF Good, Direction
  <2> QED
    BY <2>4, <2>8, Both
<1> QED
  BY <1>10, <1>11

LEMMA AgreementInit == Init => Agreement
<1> SUFFICES ASSUME Init, NEW e \in Endpoints PROVE Good(e)
  BY DEF Agreement
<1>1. /\ sent[e] = << >> /\ accepted[e] = << >> /\ stream[e] = << >>
      /\ counterOwn[e] = 0 /\ counterPartner[e] = 0 /\ generated[e] = 0
      /\ sendingKey[e] = Endpoint!NoKey /\ frame[e] = NoFrame
      /\ pc[e] = "created" /\ lastFailure[e] = Endpoint!NoFailure
      /\ sent[Partner(e)] = << >> /\ pc[Partner(e)] = "created"
  BY PartnerFacts DEF Init, Endpoint!Init, Endpoint!Endpoints, Endpoints
<1>2. Len(sent[e]) = 0 /\ Len(accepted[e]) = 0 /\ Len(stream[e]) = 0
      /\ Len(sent[Partner(e)]) = 0
  BY <1>1
<1>3. Linked(e)
  BY <1>1, <1>2 DEF Linked, Consumed, Produced
<1>4. InStep(e) /\ StartedUp(e) /\ Masked(e) /\ Answered(e)
  BY <1>1, <1>2 DEF InStep, StartedUp, Masked, Answered, CounterAfter
<1> QED
  BY <1>3, <1>4 DEF Good, Direction

LEMMA AgreementStep ==
    ASSUME IndInv, Agreement, [Next]_vars
    PROVE  Agreement'
<1>0. IndInv'
  BY EveryStep
<1>1. CASE UNCHANGED vars
  <2>1. /\ UNCHANGED endpointVars
        /\ UNCHANGED <<presharedKey, pc, stream, frame, ended, broken>>
    BY <1>1 DEF vars, socketVars
  <2>2. ASSUME NEW e \in Endpoints PROVE Good(Partner(e))'
    <3>1. OwnUnchanged(Partner(e)) /\ OwnUnchanged(e) /\ sent'[e] = sent[e]
      BY <2>1, PartnerOwn DEF OwnUnchanged, EndpointKept, endpointVars
    <3>2. Writing(e)' => Writing(e) /\ Produced(e)' = Produced(e)
      BY <2>1, <3>1, OwnKept DEF Writing
    <3> QED
      BY <1>0, <2>1, <3>1, <3>2, PartnerKept
  <2>3. ASSUME NEW e \in Endpoints PROVE Good(e)'
    <3>1. Partner(e) \in Endpoints /\ Partner(Partner(e)) = e
      BY PartnerFacts
    <3>2. Good(Partner(Partner(e)))'
      BY <2>2, <3>1
    <3> QED
      BY <3>1, <3>2
  <2> QED
    BY <2>3 DEF Agreement
<1>2. CASE Connect \/ Serve \/ Break
  BY <1>0, <1>2, ConnectAgrees, BreakAgrees
<1>3. ASSUME NEW e \in Endpoints, StartupStep(e)
      PROVE  Agreement'
  BY <1>0, <1>3, SendNumberAgrees, ReadNumberAgrees, NoKeyAgrees, ReadKeyAgrees,
     StopAgrees DEF StartupStep
<1>4. ASSUME NEW e \in Endpoints, NEW length \in Lengths[e], Write(e, length)
      PROVE  Agreement'
  BY <1>0, <1>4, WriteAgrees
<1>5. ASSUME NEW e \in Endpoints, ReadStep(e)
      PROVE  Agreement'
  BY <1>0, <1>5, ReadSizeAgrees, ReadMessageAgrees, StopAgrees DEF ReadStep
<1>6. ASSUME NEW e \in Endpoints, Close(e) \/ Lose(e)
      PROVE  Agreement'
  BY <1>0, <1>6, StopAgrees, LoseAgrees
<1> QED
  BY <1>1, <1>2, <1>3, <1>4, <1>5, <1>6 DEF Next

LEMMA AgreementInvariant == Spec => [](IndInv /\ Agreement)
<1>1. Init => IndInv /\ Agreement
  BY InitHolds, AgreementInit
<1>2. IndInv /\ Agreement /\ [Next]_vars => IndInv' /\ Agreement'
  BY EveryStep, AgreementStep
<1> QED
  BY <1>1, <1>2, PTL DEF Spec

\* Whatever the partner has written is read as what it was written as, in
\* every order of the two startups, the threads, the break and the losses; no
\* read finds a number where it looks for a key, or a frame cut in two.
THEOREM ReadsTheorem == Spec => []ReadsWhatWasWritten
<1>1. IndInv /\ Agreement => ReadsWhatWasWritten
  <2> SUFFICES ASSUME IndInv, Agreement, NEW e \in Endpoints, stream[e] # << >>
               PROVE
            /\ pc[e] = "waitNumber" => Arrived(e, "number")
            /\ pc[e] = "waitKey" => Arrived(e, "key")
            /\ Reading(e) /\ frame[e] = NoFrame => Arrived(e, "size")
            /\ Reading(e) /\ frame[e] # NoFrame =>
                  /\ Arrived(e, "message")
                  /\ sent[Partner(e)][Head(stream[e]).position].size = frame[e]
                  /\ Endpoint!Decryptable(e, frame[e])
    BY DEF ReadsWhatWasWritten
  <2>1. ASSUME pc[e] = "waitNumber" PROVE Arrived(e, "number")
    <3>1. Consumed(e) = 0 /\ Listening(e)
      BY <2>1 DEF Consumed, Listening
    <3>2. Head(stream[e]) = Number
      BY <3>1, NextItem DEF ItemAt
    <3> QED
      BY <3>2 DEF Arrived, Number
  <2>2. ASSUME pc[e] = "waitKey" PROVE Arrived(e, "key")
    <3>1. Consumed(e) = 1 /\ Listening(e)
      BY <2>2 DEF Consumed, Listening
    <3>2. Head(stream[e]) = Key(1)
      BY <3>1, NextItem DEF ItemAt
    <3> QED
      BY <3>2 DEF Arrived, Key
  <2>3. ASSUME Reading(e), frame[e] = NoFrame PROVE Arrived(e, "size")
    <3>1. \E s : Head(stream[e]) = Size(s)
      BY <2>3, NextMessage
    <3> QED
      BY <3>1 DEF Arrived, Size
  <2>4. ASSUME Reading(e), frame[e] # NoFrame
        PROVE  /\ Arrived(e, "message")
               /\ sent[Partner(e)][Head(stream[e]).position].size = frame[e]
               /\ Endpoint!Decryptable(e, frame[e])
    <3>1. Head(stream[e]) = Message(Len(accepted[e]) + 1)
      BY <2>4, NextMessage
    <3>2. frame[e] = sent[Partner(e)][Len(accepted[e]) + 1].size
      BY <2>4 DEF Agreement, Good, Direction, Listening, InStep
    <3>3. /\ Len(accepted[e]) + 1 \in 1..Len(sent[Partner(e)])
          /\ frame[e] <= MaxTransaction /\ receivingKeyCreated[e]
      BY <2>4 DEF Agreement, Good, Direction, Listening, InStep, StartedUp,
                  Reading
    <3>4. WellFormedSize(frame[e])
      BY <3>2, <3>3, PartnerFacts DEF Agreement, Good, Masked
    <3>5. frame[e] <= MaxLengthSM
      BY <3>3, SocketAssumption DEF IndInv, SocketTypes
    <3>6. Endpoint!Decryptable(e, frame[e])
      BY <3>3, <3>4, <3>5, EndpointSizes DEF Endpoint!Decryptable
    <3> QED
      BY <3>1, <3>2, <3>6 DEF Arrived, Message
  <2> QED
    BY <2>1, <2>2, <2>3, <2>4
<1> QED
  BY <1>1, AgreementInvariant, PTL

\* Partners with the same secret never refuse a message of each other.
THEOREM NothingRefusedTheorem == Spec => []NothingRefused
<1>1. IndInv /\ Agreement => NothingRefused
  BY DEF NothingRefused, Agreement, Good, Answered
<1> QED
  BY <1>1, AgreementInvariant, PTL

\* A message is accepted only under the same secret.
THEOREM OnlyPartnerTheorem == Spec => []OnlyPartnerAccepted
<1>1. IndInv /\ Agreement => OnlyPartnerAccepted
  BY DEF OnlyPartnerAccepted, Agreement, Good, Answered
<1> QED
  BY <1>1, AgreementInvariant, PTL
=============================================================================
