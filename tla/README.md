# Formal verification of the Minimal Secure Transport library

MST is a small library for a secured bidirectional channel between two programs
that share a 32 octet secret, with example servers, clients and a TCP proxy
built on it. This directory holds TLA+ modules translated from the C++ source,
TLC configurations that check them on small instances, and TLAPS proofs of the
properties that matter most. `PROJECT.json` is the index: components, runs, the
mutants that show that every property can fail, the lines of the source each
definition stands for, the hazards of the code, and the theorems.

    tlc -config MSTEndpoint_oneway.cfg MCMSTEndpoint.tla
    tlapm MSTEndpointProofs.tla

## 1. Inventory

### The library (`src/*.h`)

**MST_Hash** (`Protocol.h` 32-173). State: an output buffer and its size, kept
between calls and only ever replaced by a larger one. `createAuthPlaintext`
checks the length, computes the size of the PDU in `uint32_t`, replaces the
buffer if it is too small, writes length field, plaintext, zero padding and
Davies-Meyer hash, and returns a pointer into the buffer.
`checkAndExtractPlaintext` refuses sizes that are too large, too small or no
multiple of 32, compares the hashes, and compares the length field with the
authenticated length.
*Correct when*: the PDU lies in the buffer in full, nothing of an earlier PDU is
in it, and what is checked is what was made. *Hard*: the boundary lengths (word
boundary, octet boundary of the length field, end of `uint32_t`), the reuse of
the buffer, which by then holds a masked PDU.

**MST_Endpoint** (`Protocol.h` 185-390). State: the shared secret, the key it
receives with, the key it sends with, two masking counters of 16 octets, two
flags, a receive buffer, an `MST_Hash`. `createReceivingKey` takes a key from
`RandomSource` and encrypts it for the partner; `initSendingKey` installs what
the partner sent (no check of integrity is possible); `encryptToSecureMessage`
builds a PDU and masks it, `decryptSecureMessage` unmasks and checks one. Each
block of 16 octets advances a counter (`incrementMC`).
*Correct when*: no mask is ever used twice, messages are accepted once and in
order, a gap is noticed, and the two counters of a direction agree as long as
nothing failed. *Hard*: the transport may do anything; a faulty PDU advances the
receiver's counter before it is found to be faulty; keys may be renewed at any
time while the counters stay.

**DM_Hash** (`DaviesMeyerHash.h`). No state between calls; two buffers that
exchange their roles with every word. *Correct when*: no word and no part of the
state is lost on the way to the output.

**AES** (`aes/aes.c`). No state between calls: `aes_key_setup` expands a key to a
schedule that the caller keeps, `aes_encrypt` and `aes_decrypt` take a block, the
schedule and the size of the key. MST expands keys of 256 bits, decrypts the halves
of a session key it receives, and otherwise encrypts. *Correct when*: decryption undoes
encryption, and both partners get the same mask from the same counter. *Hard*:
the sizes are not named alike. `encryptToSecureMessage` says 32
(`HashWordSize`, octets), `decryptSecureMessage` 256, and that both mean 14 rounds
is due to `aes_encrypt` comparing for equality, with 14 rounds for every other size;
`aes_decrypt` compares for order.

**RandomSource, Util, GeneralUtil.** Pure functions and one read of
`/dev/urandom`.

### The example programs (`src/clientServerExample`)

**ThreadWorkQueue**: mutex, condition variable, queue. `getWork` waits for the
condition and takes the front; `insertWork` pushes, unlocks and signals.
*Correct when*: payloads are handed out in order, each to one worker, never out
of an empty queue, and every one is handed out. *Hard*: lost signals, spurious
wakeups, the signal after the unlock.

**BufferedSocket**: a socket handle it closes itself, a write buffer, a read
buffer. **MST_Socket**: an `MST_Endpoint` over a `BufferedSocket`;
`connectAndStartup` exchanges partner numbers and keys, `write` and `read` frame
SecureMessages with their size. *Hard*: breaks between any two steps, partial
writes, a write that fails after the counter has advanced.

**server, serverFull, TCPServer**: an accept loop inserts sockets in a
`ThreadWorkQueue`, ten workers take them and serve one connection each.
**client, clientFull** are their partners. **KeyReader** reads
`presharedKeys.csv` into a map from partner number to key.

**proxyClient, proxyServer**: for each connection two threads, one per
direction, share a plaintext socket and an `MST_Socket`. *Hard*: which side
breaks first, and who then closes and deletes what the other still uses.

### Interaction

The programs call `MST_Socket`, which calls `MST_Endpoint` and `BufferedSocket`;
`MST_Endpoint` calls `MST_Hash`, AES and `RandomSource`. Servers and workers
share a `ThreadWorkQueue`; the threads of the proxy share an `MST_Socket`, one
reading and one writing.

## 2. The modules

| module | models |
|---|---|
| `AuthPlaintext` | the size arithmetic of `createAuthPlaintext` and of the size checks, in `uint32_t` |
| `Octets` | `int2Octets`, `octets2Int` |
| `AES` | `aes_key_setup`, `aes_encrypt` and `aes_decrypt` as two partners call them |
| `MCAES` | the tables of `aes.c`, and published results to compare with |
| `DMHash` | `DM_Hash::hash`, over any permutation in place of AES |
| `MSTHash` | `MST_Hash` with its reused buffer, the masking in place and the check |
| `MaskingCounter` | `incrementMC` over the octets of a counter; extended by `MSTEndpoint` |
| `SecureChannel` | abstract: what the protocol promises |
| `MSTEndpoint` | two `MST_Endpoint`s and the transport between them |
| `WorkQueue` | abstract: a FIFO queue |
| `ThreadWorkQueue` | `ThreadWorkQueue` and the threads that use it |
| `Server` | `server` and `serverFull` with `client` and `clientFull`; extends `ThreadWorkQueue` |
| `MSTSocket` | two `MST_Socket`s over a TCP connection; composes `MSTEndpoint` |
| `ByteStream` | abstract: what one direction of a connection promises |
| `BufferedSocket` | the write buffer of one `BufferedSocket`, TCP, and the read buffer of its partner |
| `KeyReader` | the reader of `presharedKeys.csv` and of the key in a program's argument |
| `Proxy` | `proxyClient` and `proxyServer` with the `TCPServer` in which both accept connections |
| `MC...` | values of the constants for TLC |
| `...Proofs` | theorems and their proofs |

An operator described as a plausible mistake ("A check that does not depend on
the counter") is a mutant: it is used by no specification and stands next to the
definition it is a variation of.

### AuthPlaintext, Octets and MSTHash

An octet of the buffer is the *part* of the PDU it belongs to: length field,
text, zero, hash, masked, or undefined (fresh memory). `CreateAuthPlaintext` is
the whole of `createAuthPlaintext` past its guard: `Ensured` replaces or keeps
the buffer, `WithPDU` overwrites it in the order of the code. `Mask` is the loop
of `encryptToSecureMessage` that runs over the returned buffer in place, so that
the next PDU is built on masked octets. `CheckIntact` and `CheckDamaged` are
`checkAndExtractPlaintext` at the partner. `UIntMax` is the width of `uint32_t`.

### DMHash

A half of the state is the set of its bits that are one, XOR their symmetric
difference, and AES with a key any permutation of the halves (`Ciphers`).
`Encrypted` is what the three encryptions of a round leave in `stateOutPtr`,
`Round` a pass of the loop with the addition of the old state and the exchange of
the pointers, `Hash` the loop and the copy to the output. `RoundPermutes` is what
the construction needs to lose nothing of the state, and is proved;
what the two buffers begin with is the constant `Begin`.
`DaviesMeyer` is the recurrence of `Protocol.txt` 18, for any first state and any
AES of a state. `HashChainsWords` in `MSTHash` compares it, for the words of every
PDU that is laid out, with what comes out of the two buffers; for the first state
(`Begin[1]`) and the AES of a state (`Thrice`) it takes those of the code, and so it
says that words, buffers and additions are right, and not that the hash is the one
of the document. It is not: `Protocol.txt` 20 says `DAVIES_MEYER[-1] = 0`, while the
code begins with the octets 0..31 (lines 44-48, "a minimum of entropy"), and line
18 names one AES for each word, which for a state of two blocks has no single
meaning (`Halfwise` is one AES for each half), while the code makes three
encryptions (58-89). `HashAsDocumented` asks for the document's hash with either
reading, and the run `MSTHash_documented` refutes it. That hashes do not collide is not a property of
this structure alone, and the other modules assume it.

### AES

A byte is the set of its bits that are one, XOR the symmetric difference again, a
state a matrix of bytes. `ExpandKey` adds one word to the schedule (`NextWord`);
`OwnRound`, `PartnerEncrypts` and `PartnerDecrypts` are one round each. The two
`Uses` are those MST has: a half of a session key, which one partner encrypts and
the other decrypts, and a counter, which both encrypt; each comes with the two
sizes that the code names there. `EncryptRounds` and `DecryptRounds` are the two
different comparisons of that size. `gf_mul` is the table of multiples with
its six columns; the S-box is a constant that has an inverse. `MCAES` gives it the
values of `aes.c`, by the formula of the standard instead of 256 numbers, and its
assumption `PublishedResults` evaluates the model on the three examples of
FIPS 197, with keys of 128, 192 and 256 bits.

`PartnersAgree` is what the protocol takes from AES: a session key arrives as it
was drawn, and sender and receiver make the same mask. The module `DMHash` uses less
of it (a permutation for each key), and `MSTEndpoint` only that other keys and
other counters give other masks.

### MSTEndpoint and SecureChannel

A key is the number of its creation (`/dev/urandom` does not repeat a 256 bit
key), a SecureMessage is the key, first counter value and size it was masked
with. Unmasking with another key or another counter gives octets whose hash does
not match: this is the assumption that there are no collisions. The counters are
numbers; `CountsBlocks` says that the octets of the code count them.

The transport is the history `sent`: any message ever sent may be delivered at
any time, any number of times, or never; a PDU the partner never made is
`DecryptDamaged`. A key PDU that arrives is any key the partner ever created, or
a garbled one. A PDU is not reflected to the endpoint that made it.

`CreateReceivingKey`, `CreateReceivingKeyFails`, `InitSendingKey`,
`EncryptToSecureMessage`, `DecryptRefused`, `DecryptSecureMessage` and
`DecryptDamaged` are the methods and their outcomes. `lastFailure` records that
`decryptSecureMessage` returned false and with which key; calls that return
false and change nothing else on the sending side are stutters.

`SecureChannel` says: what is accepted was sent, in the order it was sent, each
message at most once. `MSTEndpoint` implements it with the lengths of `sent`.

### MaskingCounter

The octets of the counter, for any number of octets and of values of each:
`IncrementMC` is one call of `incrementMC`, `Octets(n)` what a counter holds that
started at zero and masked n blocks, `Value` the number that octets stand for.
`CountsBlocks` in `MSTEndpoint` compares them with the number `counterOwn` that
`MSTEndpoint` has in their place.

### ThreadWorkQueue and WorkQueue

One action per statement of `getWork` and `insertWork` after which another
thread can run. `Wait` releases the mutex and starts to wait in one step, as
POSIX requires; `Signal` wakes one waiting thread, or none if there is none.
`WakeSpuriously` is the return of `pthread_cond_wait` without a signal, which
POSIX allows. `TakeFromEmpty` is `front()` and `pop()` of an empty
`std::queue`, which is undefined: the model follows the deque underneath, whose
front moves past its end, so that later payloads land before it and are lost
(`overrun`), and what `front()` returned is an old payload or none. From then on
(`misused`) the module promises nothing more about the order of payloads, and
`Misuse` is the step of `WorkQueue` to this state. What can be said of a thread
that takes a payload is said until a wait has returned without a signal
(`spurious`), and the balance of `SignalsAccountForWork` counts such wakeups.

### Server

`server.cpp` and `serverFull.cpp`, told apart by the variable `program`. The
module extends `ThreadWorkQueue`: main is its one producer, the worker threads are
its workers, and payload n is what the n-th `accept` returned. `main` does not
look at that, so `accept` may return -1 (`client` is `none`), and -1 is inserted
and served like a connection.

`ServerCalls` and `ClientCalls` are the calls that a worker and a client make in
one conversation, in their order: in `server.cpp` the partner number, the key of the
server, and the size and the octets of the message; in `serverFull.cpp` those of
`connectAndStartup` and one message each way. An item is what one call writes or reads, and the items on the way are
only counted: `MSTSocket` says what is in them. `place[w]` is the call a worker
comes to next; a turn that gives up goes to `ServerEnd`, where the objects of the
turn are destroyed (`NextTurn`). `WorkerReadFails` is a read of a connection whose
partner has gone, at the end of what it wrote; octets that are lost with the
connection are as if the partner had gone before it wrote them. In `server.cpp`
a message that breaks off is a `return` from the thread (`ended`), in all other
places the turn ends and the worker asks for the next connection. `BrokenPipe` is
the SIGPIPE that neither program ignores: the process ends (`running`).

After a pop from the empty queue (`misused`) the number a worker has may be closed,
in use, or somebody else's by now: conversations are no longer followed, and turns
take any time (`AnyTurn`).

### MSTSocket

Two `MST_Socket`s, the client's and the server's, and the TCP connection between
them. The module composes `MSTEndpoint`: every action that touches an endpoint
does it with an action of that module, and `EndpointSpec` says that the endpoints
in the sockets take no other steps, so that what is proved of `MSTEndpoint` holds
of them.

`stream[e]` is what `e` has still to read. Its items are what one call of the
code writes or reads: a 32 bit number, a key PDU, a size, the octets of a
SecureMessage. `pc[e]` is the place in the life of the object: `created`, the
three blocking places of `connectAndStartup` (`startup`, `waitNumber`,
`waitKey`), then `open` or `failed`, and `closed` after the destructor;
`unconnected` is a client that found no server. In `open`, `Write` and the steps
of `read` are independent of each other, since the programs read and write in two
threads. `frame[e]` is the size that `read` has read when it waits for the octets
of the message. After a `read` that returned false the programs do not read again
(`ended`).

The server looks the client's number up: `presharedKey` is the same secret, a
different one, or none. A key PDU that was encrypted with another secret decrypts
to a key nobody has (`GarbledKey`).

`Break` is the loss of the connection. From then on, or when the partner has
closed its end (`Lost`), nothing that is written arrives; a write may fail, or be
taken by the kernel (`WriteOutcomes`). `Lose` drops what was under way from some
item on. `Write` does not look at its outcome, as `write` leaves the object in
the same state either way: the counter has advanced. A program that is ended by
SIGPIPE closes its sockets, which is `Close`.

### BufferedSocket and ByteStream

One direction of a connection. The octet at position n of the stream is the
number n, so that a repeated, a lost and an overtaken octet all show in
`delivered`. `Write(n)` is a call of `write` up to its first `::write`, or to its
return if everything fitted in the buffer; `Flush` is a call of `flush`.
`SocketWrite` is one `::write` of any part of what is left, `Taken` what follows
it: the loop of `flush` goes on, or the rest of the data is copied into the
buffer. `SocketWriteFails` is a `::write` that fails: `_bufferUsed` stays, so a
retry would repeat octets the kernel has already taken. That the connection is
lost at this point is what makes it harmless, and `StreamSpec` checks it.
`SocketWriteInVain` is a `::write` that the kernel of a broken connection still
takes. `Read(n)` is a call of `read` up to its first `::read`, and `SocketRead`
a `::read` of any part of what has arrived. `Lose` breaks the connection and
drops what was under way from some octet on; the destructor (`Close`) drops what
was not flushed.

`ByteStream` says that the reader is handed the octets that were written, in
order, from the first on.

`MSTSocket` uses the same stream with coarser items: what `BufferedSocket` proves
is why an item there is not cut in the middle without the end of the stream.

### KeyReader

The reader looks at one character at a time (`_currentChar`). An action is a
successful `getChar` and the code up to the next one, and `place` is what the
next character is read for: the first of a `line`, a further `digit` of the
number, the `high` or the `low` digit of an octet, the `dash` between octets, the
`newline` behind a key; `done` when the reader has returned. `GetCharFails` is
the end of the file (or of the argument) at any of these. `buffer` is the part of
`_readBuffer` that was not read yet; `FillBuffer` gets the next part of the file
from `::read`, any part of any length, so that the file need not be chosen at the
start: it is `text`, what all the calls returned. `loadOneKeyToBuffer` and
`readPSKey`, by which `proxyClient` reads its argument, are the initial states
with `source = "argument"`. (`ReaderInit`, `ReaderNext` and `ReaderTypeOK` have names
of their own because `MCSession` puts the module beside `MSTHash`.)

The properties compare what the reader did character by character with the lines
of `text` (`LinesOf`): `Fits(l, n)` says of a line as a whole that its characters
are those of a number of n digits, a colon and a key, `NumberOf` and `KeyOf` are
the number and the key it stands for, and `IsTable` says that a map holds for
each number the key of its last line, and nothing else. What they show of the code, and a reader may
not expect: a line that is malformed leaves the lines before it in the map
although the file is reported as unreadable; anything but a newline behind a key
ends the file with success, and what follows is ignored; a number of ten digits
gets a wrong value, since the tenth is added without a multiplication
(`KeyReader.cpp` 142), and so `ReadsTheLines` says what the map holds only if all
numbers have fewer digits.

### Proxy

Both programs in one module, as they have the same shape: a worker takes an
accepted socket number from the queue, opens an outgoing connection and reads
from it, and a writer thread reads from the accepted one. The variable `proxy`
says which program it is, and `Secured` on which side its `MST_Socket` is.

`table` is the kernel's table of socket numbers: the connection each stands for,
where a connection is the count of its arrival and its side. A number that is
closed is free for the next connection, and `Opens` takes the lowest one, as
POSIX says. `holders` is the reference count of the shared objects as the set of
the threads that hold a reference: `StartupFails` and `Leave` destroy them with
the last one, and they close their numbers (`Owned`). `CloseAccepted` is the
call of `close` with a number in `clientWriter`, `proxyWorker` and
`serverWorker`. `reading` is the connection, not the number, that a `::read` is
blocked on: closing the number in another thread does not wake it. `CallRead`
looks the number up in the table at the moment of the call. `WrittenTo` is the
number the worker of `proxyClient` finds in `ctx->_clientSocket` (line 112),
which after `delete ctx` in the writer is any number. `Relay` writes what was
read; whether the other connection is open, gone or not one at all decides on
how it ends. What is relayed is not represented.

The places of the threads: the worker is `idle`, in `startup`, `connected`; both
threads are `calling` and `reading` in their loops, `closing` before the call of
`close`, `leaving` before the return, `ended`.

What the properties of this module leave open, because the code does not provide
it: a connection of which one partner stays stays half open; a worker ends with
the connection it relayed, so that ten of them use up the pool (that nothing else
does, such as a startup that fails, is `WorkersAccountForArrivals`); the number of
a client for which `proxyClient` finds no server is never closed (`Forgotten`, and
`NothingLeaks` says that these are the only ones); after the first `close` of a
number that another thread still uses, numbers may be confused
(`NumbersStandForTheirs` holds until then).

## 3. The runs

Passing runs:

| run | what it shows | bounds |
|---|---|---|
| `Session` | what a program does before its first message, part by part. Its keys: `ReadsTheLines`: the map is that of the lines; `RefusesMalformed`: a file is refused for a malformed line only, an argument exactly if it is no key. AES: `PartnersAgree`: a session key reaches the partner and both make the same masks. PDUs: `PDULayout`: every PDU is complete in its buffer and without remains; `RoundTrip`: checking it gives back the length; `HashChainsWords`: its hash follows the recurrence of `Protocol.txt` over all its words | keys of two octets, numbers of up to three digits, two digits one of which is no decimal one, a buffer of two characters; files of two lines; all arguments of the right length. Of AES one key, two blocks and both uses, with all rounds and the real tables. `UIntMax` 511, `MaxPDU` 480; eleven lengths on both sides of every boundary: word (27, 28, 29, 60), octet of the length field (255, 256), limit of the check (412, 443), guard (0, 476); halves of one bit, and any permutation of them for each of the up to three different words of a PDU: the words and the roles of the buffers are counted, not the bits. The three parts share no state, so they follow one another (`SessionSpec` of `MCSession`): of all the texts that are read one key goes on, and of the calls of AES one |
| `MSTEndpoint_oneway` | `MasksNeverReused`, `AcceptedInOrder`, `GapsAreSignalled`, `NextMessageInStep`, the refinement `ChannelSpec`; `CountsBlocks`: the octets of a counter are the number of blocks | counters to 16, so up to four messages of 64 or 96 octets; for `CountsBlocks` three octets of two values: every carry, and the wrap after 8, twice; two receiving keys; damaged PDUs of three sizes, one no multiple of 32 |
| `Server` | `ServerTypeOK`, the types of queue and servers; of the queue in the servers, `SignalsAccountForWork`: the balance of payloads, signals and wakeups; `WokenFindsWork`, and the refinement `QueueSpec`; of the workers, `OneWorkerEach`: a connection has one worker and is not closed under it; `BrokenMessagesEndWorkers`: what takes a worker out of the pool; under fairness `OnlyClientsKeepWorkers` and `OnlyLostSignalsStrand` | both programs; two workers, the main thread, two calls of `accept`, one spurious wakeup |
| `MSTSocket` | `ReadsWhatWasWritten`, `NothingRefused`, `OnlyPartnerAccepted`, the refinement `EndpointSpec`; under fairness `HandshakeEnds` and `Delivered` | counters to 12: up to three messages from each side; `MaxTransaction` 96; lengths 1, 61 (its SecureMessage, 128, is above the limit of `read`) and 97 (above the limit of `write`) |
| `BufferedSocket` | `Conserved`: while the connection is up every octet is in one place; the refinement `StreamSpec`; under fairness `ReadReturns` and `WriteReturns` | write buffer 3, read buffer 2, kernels 3 octets; calls of 1, 2 and 5 octets; 7 octets in all |
| `Proxy` | `NothingLeaks`, `NumbersStandForTheirs`; `WorkersAccountForArrivals`: an arrival waits, has taken a worker for good or for now, or was given up; under fairness `AllClosedInTheEnd` | both programs; two workers, two connections, four numbers |

The bounds are enough for what the properties distinguish: a replay needs two
messages, an overtaken message three, two different sizes put the counters out
of step by amounts that a later message can or cannot make up, and a second key
makes an old key something that can come back. One thread accepts connections in
both servers, and two workers let the second one come between a signal and the
worker it woke, or keep a connection while the other is free; two connections are
one that is served and one that is stranded or ends its worker. Three messages from each side let the connection break before, between
and inside messages while the partner writes and reads. Calls of 1, 2
and 5 octets fill a buffer of 3 in part, exactly, and more than once, and the
buffers have different sizes. In the proxy, two connections with two sides each
and four numbers are what it takes for a number that one connection gives up to
become a number of the other while the first one's threads still run. A key of
two octets has a dash, and numbers of three digits have all the turns of
`readNumber`: the first digit, one with and the last one without a
multiplication; in two lines the second can repeat the number of the first, or be
malformed after it. The theorems below remove the bounds.

Runs that TLC must find violated, each a disagreement between the code and what
its documents or comments say:

- `MSTHash_guard`: `createAuthPlaintext` admits lengths up to
  `UINT_MAX-32-4`, but from `UINT_MAX-67` on `neededSize` wraps to 0. The guard
  that holds is `LengthFits`, and `LayoutTheorem` proves that it is enough.
- `MSTHash_documented`: `Protocol.txt` 18-20 defines a hash that begins with zero,
  with one AES for each word; the code begins with the octets 0..31 and encrypts
  three times. Both partners run this code, so they agree with each other, and with
  nobody who follows the document.
- `MSTEndpoint_rekey`: `Protocol.txt` 71-74 says that after a failed check the
  connection must be set up again with step 1, the exchange of keys. The exchange
  leaves the counters alone, so messages under the new key are refused too. (All
  example programs make a new connection with new endpoint objects, which does
  restore it.)
- `ThreadWorkQueue_lost`: the signal of `insertWork` finds both workers busy, and
  although they return and call `getWork` again, the payload stays in the queue.
- `MSTSocket_sizes`: `write` compares the length of the plaintext with
  `MAX_PLAINTEXT_TRANSACTION_SIZE`, `read` the size of the SecureMessage. A
  plaintext of more than 9999963 octets is sent and ends the session of the
  partner.
- `Proxy_close`: `BufferedSocket.h` 82 says that the object does the closing of its
  socket handle. `serverWorker` closes the number itself, while the object exists
  and the writer thread reads from it; the destructor closes the number again.

Deadlock is checked in the endpoint runs and in `MSTHash_guard` and
`MSTHash_documented`. The queue and the servers stop
when their bounded inserts are used up (the workers then wait), when all workers
have ended or the process has, the session run when its keys are read (but for the one
that goes on) and after the calls of AES that no PDU follows, and the socket runs stop when both sides have closed or the octets are used up;
the workers of the proxy end with their connections. So there it is not.

### Fairness

Safety needs none. `FairSpec` of `ThreadWorkQueue` has weak fairness for
each step of a thread that is inside `getWork` or `insertWork`, because the
scheduler runs every thread that can run, and strong fairness for taking the
mutex, because the mutex is released again and again and a thread that asks for
it is not passed over forever. It has none for `Done` (nothing bounds how long a
connection lasts) and none for `InsertLock` (nothing says that clients come).
`EagerSpec` adds that workers do finish; with it, only the lost signal remains as
the reason why a payload is not taken.

`ServerFairSpec` has the same for the threads of the running server, and weak
fairness for the next step of a worker's turn (`Serves`), whose blocking reads
return once there is an item or the partner has gone. It has none for `Accept`, and
none for clients, which may be silent for ever: `OnlyClientsKeepWorkers` says that
nothing else keeps a worker, and `OnlyLostSignalsStrand` does not assume that a
worker ever gets free.

`FairSpec` of `MSTSocket` has weak fairness for the next step of
`connectAndStartup` and of `read` on each side, which are blocking calls in
running threads and return once octets, or the end of the stream, have arrived,
and for the destructor of a socket whose `connectAndStartup` failed, since every
program gives such a socket up. It has none for `Serve` (all workers may be
busy: `HandshakeEnds` starts when a worker has the socket), `Write`, `Close` of an
open socket, or `Break`.

`FairSpec` of `BufferedSocket` has weak fairness for each `::write` and `::read`,
which return once there is room, or something to read, or the end. It has none
for the calls themselves: nobody needs to write, flush or read. That the partner
makes room is the premise of `WriteReturns`.

`FairSpec` of `Proxy` has weak fairness for the last steps of a thread, strong
fairness for `CallRead`, since a thread that is sent back to its loop by each
`Relay` runs on, and strong fairness for a read from a partner that has gone to
fail: what this partner left behind is finite, so that a thread that reads again
and again gets to its end. It has none for `Relay`, since a write to a partner
that does not read may block. `AllClosedInTheEnd` therefore asks for both
partners to have gone, and only for the first connection, as a number that was
given out again may keep a thread in the read of a later one.

## 4. The proofs

All theorems hold for every value of the constants that meets the named
assumptions (`UIntMaxAssumption`, `LengthsAssumption`, `AESAssumption`, `EndpointAssumption`,
`WorkQueueAssumption`, `SocketAssumption`, `BufferedSocketAssumption`,
`ProxyAssumption`, `CounterAssumption`, `BeginAssumption`,
`KeyReaderAssumption`). They state every safety property of the passing runs.

- `NumberProofs`: `NeededSizeExact`: for lengths up to `UINT_MAX-68` the
  size is exact, fits, passes the partner's size checks and the own guard.
  Division by a variable (`Division`, `Successor`). Induction: the theorems of the
  library take an operator, which the provers cannot instantiate, so
  `SetInduction` and `BoundedInduction` are stated over the set of the numbers
  that have a property, and proved from the library's fact that strict inclusion is
  well-founded on finite sets. `RecursionExists` and `RecursionUnique` say of a
  function defined by recursion over 0..N that it exists, takes its values where
  its step does, and is the only one; all recursive functions below are used
  through them.
- `MSTHashProofs`: `TypeCorrect`, without any condition on the lengths.
  `HashChainsTheorem`: after each word the buffer that is `in` holds what the
  recurrence gives so far (`RoundChains`), by induction over the words, for any ciphers
  and any first state. Under `LengthsFit` (all lengths meet `LengthFits`, or are
  refused by the guard), `LayoutTheorem` (`Spec => []PDULayout`) and
  `RoundTripTheorem`. The invariant adds that the returned PDU has the size of
  its length and that its length field reads back as the length. `RoundTheorem`
  (`RoundPermutes`): from what a round has made of the second half the first
  encryption can be told, and from that the state. `PartnersTheorem`
  (`AESSpec => []PartnersAgree`, for any S-box with its inverse, any keys and
  blocks): `InvMix` multiplies the two matrices (`UnitMatrix`; multiplication by a
  coefficient distributes over XOR, `ProductAdds`), `InvShiftSub` and `AddTwice` undo
  the rest of a round, in the order in which `aes_decrypt` has them (`InvRound`). The
  invariant keeps in `OwnTrace` what the own call made in each round, and `InStep`
  says that the partner retraces it, forwards or backwards. It needs that all named
  sizes mean 14 rounds in both functions (`Sizes`).
- `MSTEndpointProofs`: the inductive invariant `IndInv` is the type invariant,
  `AcceptedInOrder` and `GapsAreSignalled`, strengthened by three facts.
  `Contiguous`: what an endpoint sent took adjacent ranges of counter values from
  0 up to `counterOwn`, whatever keys were used; it gives `MasksNeverReused`, and
  it is why two messages never share a first counter value. `AcceptedPassed`:
  the receiver's counter is past the end of all it accepted; with `Contiguous`,
  a message whose counter matches is newer than these, which gives the order.
  `NoFailureInStep`: without a failure the receiver's counter is where the last
  accepted message ended, which makes the next accepted one its successor.
  `ChannelTheorem` maps each step to a step of `SecureChannel` or a stutter.
  `CountsTheorem` comes from two facts about the octets alone. `IncrementAdds`:
  as long as all octets so far are at their maximum they become 0 and a carry is
  due, and the first one that is not takes it on (`IncrementStep`, an induction over
  the octets). `OctetsCount`: hence n calls give n modulo the
  number of all values (an induction over the calls).
- `ServerProofs`, of the queue alone: `AccountTheorem` proves the balance for any number of
  threads and of spurious wakeups: each step moves a thread into or out of one of
  the two sets that are counted, or changes one of the counts. As long as no wait has
  returned without a signal, the balance says that a woken worker finds a payload
  (`WokenFindsWorkTheorem`). `QueueTheorem` needs more: that the payloads in the
  queue are those inserted and not taken, in order, until the queue is misused.
- `ServerProofs`, of the servers: `ServerTypeCorrect`, with the type of the queue;
  `ServerQueueTheorem`: the threads of the servers take only
  steps of `ThreadWorkQueue`, so that its theorems hold of them. `OneWorkerTheorem`
  and `BrokenMessagesTheorem` come from one invariant, `Followed`, which holds until
  a worker finds the queue empty. `Assigned` and `ClosedLast`: a worker has a
  connection of its own among those that were taken, and only what nobody serves is
  closed; this needs that the queue hands payload n out as the n-th, and that the
  holder of the mutex is the only thread in a critical section (`Holder`).
  `Unheard`: an `accept` that is not counted yet was made under the mutex.
  `Accounted`: in `server.cpp` the items on the way are those the client has written
  and the worker has not read, so that a worker that misses the fourth item knows
  where its client stopped.
- `MSTSocketProofs`: `TypeCorrect`, and `EndpointTheorem`: every step of the
  sockets is a step of `MSTEndpoint` or leaves the endpoints alone. The steps of
  the sockets are guarded by what stands in the streams, so the induction needs
  `StreamsKnown`: the keys in a stream are keys the partner has created and the
  positions of messages are those of messages it has sent.
  `ReadsTheorem`, `NothingRefusedTheorem` and `OnlyPartnerTheorem` come from a
  second invariant, `Agreement`, which says of each socket: all that its partner
  ever writes is one sequence of items (`ItemAt`: number, key, then a size and a
  message for each entry of `sent`), what is under way is the part of it behind what
  the socket has consumed, which its `pc`, `accepted` and `frame` count, and,
  unless something was lost, up to what the partner has produced (`Linked`); its
  counter stands behind the last message it accepted (`InStep`); all messages are
  masked with the one key and with one counter value after the other (`Masked`).
  The first two hold as long as the socket listens, as after a refusal nobody reads
  on. Loss only shortens a stream, so that nothing of this needs the connection.
- `BufferedSocketProofs`: the invariant says that each place holds a run of
  consecutive octets and where it begins: `ReadPart` of what was handed out, the
  read buffer and the wire, `WritePart` of the write buffer and the data, and,
  while the connection is up, that the second begins where the first ends.
  `ConservedTheorem` is this last fact, `StreamTheorem` uses that the first begins
  with octet 1.
- `ProxyProofs`: `References` ties the reference counts to the places of the
  threads, `Phases` says which pairs of places occur and when the numbers are
  set, `ArrivalsDistinct` that an arrival is queued once or served by one worker.
  With these `LeaksTheorem` goes through step by step: what a step leaves open is
  known after it. `PoolTheorem` counts: `OneFateEach` says that the arrivals are split
  between the queue, the workers away from the pool, each with another one, and
  `givenUp`; a step moves one arrival from one of these to the next. For
  `NumbersTheorem`, two numbers in use stand for different
  connections and hence differ, so that a failed startup closes only its own; the
  thread that closes a number, or the last reference after such a close, ends the
  premise, which is never restored (`ClosedStays`).
- `KeyReaderProofs`: the invariant says that what has been read of the line fits
  (`Fits`, with the digits read so far) and is as long as `place`, `digits` and
  `key` say, that number and key are those of its characters (`LineRead`), and that
  the map is that of the lines before it (`Entered`). It needs three facts about
  texts. One more character makes one more line or a longer last line
  (`LinesAppend`). A line fits with one number of digits only, since its colon comes
  first after them (`OneWidth`), so that a character that does not fit the line as it
  was read fits no line (`FitsNowhere`), and a line whose key is complete stays the
  same entry whatever follows (`KeyStays`). A line enters its key in the map in
  the place of an earlier one of the same number (`TableExtended`).

Only model-checked: all liveness (`HandshakeEnds`, `Delivered`,
`OnlyClientsKeepWorkers`, `OnlyLostSignalsStrand`, `ReadReturns`, `WriteReturns`,
`AllClosedInTheEnd`), since fairness needs ENABLED, which is out of the prover's
reach; and the assumption `PublishedResults` of `MCAES`, which is an evaluation.

## 5. Assumptions and what is left out

- Hashes do not collide, AES is a function nobody inverts, random keys differ.
- One pair of endpoint objects; a new connection is a new pair. Counters stay
  below 2^128 (`CounterMax`); PDUs are not reflected to their sender.
- `KeyReader` is the reader alone: that its file can be opened, and the storage
  its callers give it, are left out. (The usage text of `proxyClient`, line 162,
  asks for a key of 16 octets; `loadOneKeyToBuffer` takes 32 only.)
- Memory that cannot be allocated (`new` throws) and wiping of secrets are left out.
- AES is modelled on its own; inside `MSTHash`, `DMHash` and `MSTEndpoint` it stays
  abstract, as a permutation or a function without collisions, since its strength
  is nothing a state space shows. The block modes of `aes.c` (CBC, CTR, CCM, lines
  221-531) are called by nothing in this repository and not modelled.
- In the proxies a `pthread_create` does not fail, and a partner that goes is noticed:
  one that vanishes without FIN or RST is a partner that stays silent.
- The queue of the proxies is the FIFO queue that `QueueSpec` shows
  `ThreadWorkQueue` to be. Its lost signals, which strand connections in the
  proxies as in the servers, are those of `Server`: both in one state space
  are too many states.

## 6. Plan

The order is that of importance. All modules are written; what is left is marked.

1. `MSTHash`, `MaskingCounter`: the PDU. Theorems: all its safety.
2. `MSTEndpoint`, `SecureChannel`: the protocol. Theorems: all its safety.
3. `ThreadWorkQueue`, `WorkQueue`: the queue under all servers.
4. `MSTSocket`: handshake and framing of two `MST_Socket`s, client and server.
   Theorems: all its safety, with the agreement of the two sockets.
5. `BufferedSocket`, `ByteStream`: the buffers over a TCP stream that splits,
   delays and breaks, with the refinement as a theorem.
6. `Proxy`: both proxies with `TCPServer`: threads, socket numbers and objects.
   Theorems: its safety, with the count of its workers. Left: the composition with
   `ThreadWorkQueue` (see section 5).
7. `KeyReader`: the reader compared with the lines of its text. Theorems: all its
   safety.
8. `Server`: both servers with their clients on `ThreadWorkQueue`. Theorems: its
   safety. Still to model: what a worker does with a number that it got from the
   empty queue.
9. `DMHash`: the rounds of the hash, with the theorem that they follow the recurrence
   of `Protocol.txt`, and the run that shows where they differ from it.
10. `AES`: key expansion and rounds, as the partners use them, with the theorem
    that they agree. Left: that the schedule is the one of FIPS 197 for every key;
    it is compared with published results only.
