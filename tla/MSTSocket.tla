----------------------------- MODULE MSTSocket -----------------------------
(***************************************************************************)
(* Two MST_Sockets and the TCP connection between them: the client's, made *)
(* with its key, and the server's, made of an accepted socket.  Each runs  *)
(* connectAndStartup, then read and write, which two threads of its        *)
(* program may call at the same time.                                      *)
(*                                                                         *)
(* The endpoints inside are those of MSTEndpoint and take its steps.  The  *)
(* stream of octets is a sequence of items: a 32 bit number, a key PDU, or *)
(* the octets of a SecureMessage; BufferedSocket splits and joins them.    *)
(* When the connection breaks, what was under way is lost from some point  *)
(* on, both sides find the end of the stream there, and a write may still  *)
(* be taken by the kernel or fail.                                         *)
(***************************************************************************)
EXTENDS AuthPlaintext, Integers, Sequences

CONSTANTS Anna, Berta, CounterMax, Lengths, MaxLengthSM,   \* as in MSTEndpoint
          MaxTransaction      \* MAX_PLAINTEXT_TRANSACTION_SIZE: 10000000

Client == Anna
Server == Berta
Endpoints  == {Anna, Berta}
Partner(e) == IF e = Anna THEN Berta ELSE Anna

ASSUME SocketAssumption ==
    /\ Anna # Berta
    /\ CounterMax \in Nat
    /\ Lengths \in [Endpoints -> SUBSET {l \in 0..UIntMax : LengthFits(l)}]
    /\ MaxLengthSM \in Nat /\ MaxTransaction \in 0..MaxLengthSM

VARIABLES
    generated, receivingKeyCreated, sendingKey, counterOwn, counterPartner,
    sent, accepted, lastFailure,      \* the endpoints, as in MSTEndpoint
    presharedKey,  \* the server's entry for the client's number
    pc,            \* how far connectAndStartup is
    stream,        \* stream[e]: what e has still to read
    frame,         \* size of the SecureMessage e is reading, or NoFrame
    ended,         \* read has returned false at e
    broken         \* the connection is broken

endpointVars == <<generated, receivingKeyCreated, sendingKey, counterOwn,
                  counterPartner, sent, accepted, lastFailure>>
socketVars == <<presharedKey, pc, stream, frame, ended, broken>>
vars == <<endpointVars, socketVars>>

\* One key each, and TCP damages nothing.
Endpoint == INSTANCE MSTEndpoint
    WITH MaxKeys <- [e \in Endpoints |-> 1],
         DamagedSizes <- [e \in Endpoints |-> {}],
         COUNTER_SIZE <- 16, Base <- 256

NoFrame == 0

Number      == [type |-> "number"]
Key(k)      == [type |-> "key", key |-> k]
Size(s)     == [type |-> "size", size |-> s]
Message(i)  == [type |-> "message", position |-> i]

\* Nothing e writes can arrive any more.
Lost(e) == broken \/ pc[Partner(e)] = "closed"

\* A write to a lost connection may still be taken by the kernel.
WriteOutcomes(e) == {TRUE, ~Lost(e)}

\* e has read up to rest and writes the items.
Transmit(e, rest, items) ==
    stream' = [stream EXCEPT ![e] = rest,
                             ![Partner(e)] = IF Lost(e) THEN @ ELSE @ \o items]

Goto(e, label) == pc' = [pc EXCEPT ![e] = label]

\* The next item at e.
Arrived(e, type) == stream[e] # << >> /\ Head(stream[e]).type = type
-----------------------------------------------------------------------------
Init ==
    /\ Endpoint!Init
    /\ presharedKey \in {"same", "different", "none"}
    /\ pc = [e \in Endpoints |-> "created"]
    /\ stream = [e \in Endpoints |-> << >>]
    /\ frame = [e \in Endpoints |-> NoFrame]
    /\ ended = [e \in Endpoints |-> FALSE]
    /\ broken = FALSE

(* connectAndStartup *)

\* The client connects, or there is no server to connect to.
Connect ==
    /\ pc[Client] = "created"
    /\ \E label \in {"startup", "unconnected"} : Goto(Client, label)
    /\ UNCHANGED <<endpointVars, presharedKey, stream, frame, ended, broken>>

\* A worker of the server has taken the accepted socket from the queue.
Serve ==
    /\ pc[Server] = "created" /\ pc[Client] \notin {"created", "unconnected"}
    /\ Goto(Server, "startup")
    /\ UNCHANGED <<endpointVars, presharedKey, stream, frame, ended, broken>>

\* A number that stays in the buffer because flush is not called.
SendNumberUnflushed(e) ==
    /\ pc[e] = "startup"
    /\ Goto(e, "waitNumber")
    /\ UNCHANGED <<endpointVars, presharedKey, stream, frame, ended, broken>>

\* Both sides send a number before they wait for the other's.
SendNumber(e) ==
    /\ pc[e] = "startup"
    /\ Transmit(e, stream[e], <<Number>>)
    /\ \E ok \in WriteOutcomes(e) :
          Goto(e, IF ok THEN "waitNumber" ELSE "failed")
    /\ UNCHANGED <<endpointVars, presharedKey, frame, ended, broken>>

\* The client's number has no entry: the server gives up.
ReadUnknownNumber(e) ==
    /\ pc[e] = "waitNumber" /\ Arrived(e, "number")
    /\ e = Server /\ presharedKey = "none"
    /\ stream' = [stream EXCEPT ![e] = Tail(@)]
    /\ Goto(e, "failed")
    /\ UNCHANGED <<endpointVars, presharedKey, frame, ended, broken>>

\* A key PDU that is sent before createReceivingKey has filled it.
ReadNumberKeyFirst(e) ==
    /\ pc[e] = "waitNumber" /\ Arrived(e, "number")
    /\ e = Server => presharedKey # "none"
    /\ Endpoint!CreateReceivingKey(e)
    /\ Transmit(e, Tail(stream[e]), <<Key(Endpoint!GarbledKey)>>)
    /\ Goto(e, "waitKey")
    /\ UNCHANGED <<presharedKey, frame, ended, broken>>

\* The partner's number is read and the receiving key created and sent.
ReadNumber(e) ==
    /\ pc[e] = "waitNumber" /\ Arrived(e, "number")
    /\ e = Server => presharedKey # "none"
    /\ Endpoint!CreateReceivingKey(e)
    /\ Transmit(e, Tail(stream[e]), <<Key(generated'[e])>>)
    /\ \E ok \in WriteOutcomes(e) :
          Goto(e, IF ok THEN "waitKey" ELSE "failed")
    /\ UNCHANGED <<presharedKey, frame, ended, broken>>

\* The partner's number is read, and there is no random key.
ReadNumberNoKey(e) ==
    /\ pc[e] = "waitNumber" /\ Arrived(e, "number")
    /\ e = Server => presharedKey # "none"
    /\ Endpoint!CreateReceivingKeyFails(e)
    /\ stream' = [stream EXCEPT ![e] = Tail(@)]
    /\ Goto(e, "failed")
    /\ UNCHANGED <<presharedKey, frame, ended, broken>>

\* A key that is installed as it came, not decrypted with the secret.
ReadKeyPlain(e) ==
    /\ pc[e] = "waitKey" /\ Arrived(e, "key")
    /\ Endpoint!InitSendingKey(e, Head(stream[e]).key)
    /\ stream' = [stream EXCEPT ![e] = Tail(@)]
    /\ Goto(e, "open")
    /\ UNCHANGED <<presharedKey, frame, ended, broken>>

\* The partner's key is installed; under another secret it is garbled.
ReadKey(e) ==
    /\ pc[e] = "waitKey" /\ Arrived(e, "key")
    /\ Endpoint!InitSendingKey(e, IF presharedKey = "same"
                                  THEN Head(stream[e]).key
                                  ELSE Endpoint!GarbledKey)
    /\ stream' = [stream EXCEPT ![e] = Tail(@)]
    /\ Goto(e, "open")
    /\ UNCHANGED <<presharedKey, frame, ended, broken>>

\* connectAndStartup finds the end of the stream.
StartupFails(e) ==
    /\ pc[e] \in {"waitNumber", "waitKey"}
    /\ stream[e] = << >> /\ Lost(e)
    /\ Goto(e, "failed")
    /\ UNCHANGED <<endpointVars, presharedKey, stream, frame, ended, broken>>
-----------------------------------------------------------------------------
(* write and read *)

\* A write that leaves out the size before the message.
WriteWithoutSize(e, length) ==
    /\ pc[e] = "open"
    /\ length <= MaxTransaction
    /\ Endpoint!EncryptToSecureMessage(e, length)
    /\ Transmit(e, stream[e], <<Message(Len(sent'[e]))>>)
    /\ UNCHANGED <<presharedKey, pc, frame, ended, broken>>

\* A write that does not flush.
WriteUnflushed(e, length) ==
    /\ pc[e] = "open"
    /\ length <= MaxTransaction
    /\ Endpoint!EncryptToSecureMessage(e, length)
    /\ UNCHANGED socketVars

\* write: the counter has advanced whether the octets can be sent or not.
Write(e, length) ==
    /\ pc[e] = "open"
    /\ length <= MaxTransaction
    /\ Endpoint!EncryptToSecureMessage(e, length)
    /\ Transmit(e, stream[e], <<Size(NeededSize(length)),
                                Message(Len(sent'[e]))>>)
    /\ UNCHANGED <<presharedKey, pc, frame, ended, broken>>

Reading(e) == pc[e] = "open" /\ ~ended[e]

\* read up to its check of the size; the programs do not read again after
\* read has returned false.
ReadSize(e) ==
    /\ Reading(e) /\ frame[e] = NoFrame /\ Arrived(e, "size")
    /\ stream' = [stream EXCEPT ![e] = Tail(@)]
    /\ LET size == Head(stream[e]).size IN
       IF size <= MaxTransaction
       THEN frame' = [frame EXCEPT ![e] = size] /\ UNCHANGED ended
       ELSE ended' = [ended EXCEPT ![e] = TRUE] /\ UNCHANGED frame
    /\ UNCHANGED <<endpointVars, presharedKey, pc, broken>>

\* A read that does not look at the result of decryptSecureMessage.
ReadMessageUnchecked(e) ==
    /\ Reading(e) /\ frame[e] # NoFrame /\ Arrived(e, "message")
    /\ Endpoint!Unmask(e, frame[e])
    /\ accepted' = [accepted EXCEPT ![e] = Append(@, Head(stream[e]).position)]
    /\ stream' = [stream EXCEPT ![e] = Tail(@)]
    /\ frame' = [frame EXCEPT ![e] = NoFrame]
    /\ UNCHANGED <<generated, receivingKeyCreated, sendingKey, counterOwn, sent,
                   lastFailure, presharedKey, pc, ended, broken>>

\* read from there on: the message is decrypted, or read returns false.
ReadMessage(e) ==
    /\ Reading(e) /\ frame[e] # NoFrame /\ Arrived(e, "message")
    /\ Endpoint!DecryptSecureMessage(e, Head(stream[e]).position)
    /\ stream' = [stream EXCEPT ![e] = Tail(@)]
    /\ frame' = [frame EXCEPT ![e] = NoFrame]
    /\ ended' = [ended EXCEPT ![e] = accepted'[e] = accepted[e]]
    /\ UNCHANGED <<presharedKey, pc, broken>>

\* read finds the end of the stream, before a frame or within one.
ReadFails(e) ==
    /\ Reading(e) /\ stream[e] = << >> /\ Lost(e)
    /\ ended' = [ended EXCEPT ![e] = TRUE]
    /\ UNCHANGED <<endpointVars, presharedKey, pc, stream, frame, broken>>

\* The program has done with its MST_Socket; the destructor closes the socket.
Close(e) ==
    /\ pc[e] \in {"open", "failed"}
    /\ Goto(e, "closed")
    /\ stream' = [stream EXCEPT ![e] = << >>]
    /\ UNCHANGED <<endpointVars, presharedKey, frame, ended, broken>>
-----------------------------------------------------------------------------
(* the connection *)

Break ==
    /\ ~broken /\ pc[Client] \notin {"created", "unconnected"}
    /\ broken' = TRUE
    /\ UNCHANGED <<endpointVars, presharedKey, pc, stream, frame, ended>>

\* What was still under way to e when the connection was lost.
Lose(e) ==
    /\ Lost(e)
    /\ \E n \in 0 .. Len(stream[e]) - 1 :
          stream' = [stream EXCEPT ![e] = SubSeq(@, 1, n)]
    /\ UNCHANGED <<endpointVars, presharedKey, pc, frame, ended, broken>>

StartupStep(e) ==
    \/ SendNumber(e) \/ ReadUnknownNumber(e)
    \/ ReadNumber(e) \/ ReadNumberNoKey(e)
    \/ ReadKey(e)    \/ StartupFails(e)

ReadStep(e) == ReadSize(e) \/ ReadMessage(e) \/ ReadFails(e)

Next ==
    \/ Connect
    \/ Serve
    \/ \E e \in Endpoints :
          \/ StartupStep(e)
          \/ \E length \in Lengths[e] : Write(e, length)
          \/ ReadStep(e)
          \/ Close(e)
          \/ Lose(e)
    \/ Break

Spec == Init /\ [][Next]_vars

\* Both programs run: they go on with connectAndStartup, read what arrives, and
\* give up an MST_Socket that failed.  Nothing says that they write or that an
\* open connection is ever closed.
FairSpec ==
    /\ Spec
    /\ \A e \in Endpoints :
          /\ WF_vars(StartupStep(e)) /\ WF_vars(ReadStep(e))
          /\ WF_vars(pc[e] = "failed" /\ Close(e))
-----------------------------------------------------------------------------
Item == [type : {"number"}] \cup [type : {"key"}, key : Nat]
        \cup [type : {"size"}, size : Nat]
        \cup [type : {"message"}, position : Nat]

TypeOK ==
    /\ presharedKey \in {"same", "different", "none"}
    /\ pc \in [Endpoints -> {"created", "unconnected", "startup", "waitNumber",
                             "waitKey", "open", "failed", "closed"}]
    /\ stream \in [Endpoints -> Seq(Item)]
    /\ frame \in [Endpoints -> Nat]
    /\ ended \in [Endpoints -> BOOLEAN]
    /\ broken \in BOOLEAN

\* Each read of the partner's octets finds what it takes them for: number, key
\* and frames are told apart by their order alone, and the size that was read
\* is the size of the message that follows, one decryptSecureMessage accepts.
ReadsWhatWasWritten ==
    \A e \in Endpoints :
        stream[e] # << >> =>
            /\ pc[e] = "waitNumber" => Arrived(e, "number")
            /\ pc[e] = "waitKey" => Arrived(e, "key")
            /\ Reading(e) /\ frame[e] = NoFrame => Arrived(e, "size")
            /\ Reading(e) /\ frame[e] # NoFrame =>
                  /\ Arrived(e, "message")
                  /\ sent[Partner(e)][Head(stream[e]).position].size = frame[e]
                  /\ Endpoint!Decryptable(e, frame[e])

\* Partners with the same secret never refuse each other's messages: whatever
\* the order of the steps of the two connectAndStartups, the threads and the
\* break, keys and counters of both directions agree for every message read.
NothingRefused ==
    presharedKey = "same" =>
        \A e \in Endpoints : lastFailure[e] = Endpoint!NoFailure

\* Without the same secret no message is accepted.
OnlyPartnerAccepted ==
    \A e \in Endpoints : accepted[e] # << >> => presharedKey = "same"

\* The endpoints in the sockets behave as MSTEndpoint says.
EndpointSpec == Endpoint!Spec

\* Once a worker serves the client, connectAndStartup comes to an end on both
\* sides: they never wait for each other, and nobody waits for a partner that
\* has given up.
HandshakeEnds ==
    pc[Server] = "startup" ~>
        \A e \in Endpoints : pc[e] \in {"open", "failed", "closed"}

\* What write has sent is handed out by the partner's read, unless the
\* connection is lost, the partner has given up or a read has failed.
Delivered ==
    \A e \in Endpoints : \A n \in 1 .. CounterMax :
        Len(sent[Partner(e)]) >= n ~>
            \/ Len(accepted[e]) >= n
            \/ ended[e] \/ Lost(e) \/ pc[e] \in {"failed", "closed"}

\* MAX_PLAINTEXT_TRANSACTION_SIZE (MST_Socket.h line 20) is the largest
\* plaintext: one that write accepts is not too large for read.
LimitsAgree ==
    \A e \in Endpoints :
        stream[e] # << >> /\ Arrived(e, "size") =>
            Head(stream[e]).size <= MaxTransaction
=============================================================================
