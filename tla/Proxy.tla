------------------------------- MODULE Proxy -------------------------------
(***************************************************************************)
(* proxyClient and proxyServer.  Both accept connections in a TCPServer,   *)
(* whose workers open an outgoing connection for each and relay between    *)
(* the two: the worker from the outgoing to the accepted connection, a     *)
(* writer thread that it starts in the other direction.  In proxyClient    *)
(* the outgoing connection is secured (MST_Socket) and the accepted one a  *)
(* plain socket number, in proxyServer the accepted one is secured and the *)
(* outgoing one a BufferedSocket.                                          *)
(*                                                                         *)
(* The threads share socket numbers and, by shared_ptr, the objects that   *)
(* close theirs.  The kernel gives a number that was closed to the next    *)
(* connection (table).  A ::read that has begun stays with its connection. *)
(***************************************************************************)
EXTENDS Integers, Sequences, FiniteSets

CONSTANTS Workers,           \* the worker threads of TCPServer
          MaxNumber,         \* the socket numbers are 1..MaxNumber
          MaxConnections,    \* bound of the accepted connections
          None

ASSUME ProxyAssumption ==
    /\ IsFiniteSet(Workers)
    /\ MaxNumber \in Nat /\ MaxConnections \in Nat
    /\ None \notin (1..MaxConnections) \X {"accepted", "outgoing"}

Numbers == 1..MaxNumber
Sides == {"accepted", "outgoing"}
Connections == (1..MaxConnections) \X Sides
Roles == {"worker", "writer"}

VARIABLES
    proxy,      \* the program: "client" or "server"
    table,      \* the connection each number stands for
    gone,       \* connections whose partner has closed or was lost
    arrived,    \* how many connections were accepted
    queue,      \* the work queue: numbers, with the count of arrival
    place,      \* where the two threads of each worker are
    serves,     \* the arrival a worker serves
    number,     \* the numbers of its two connections
    reading,    \* the connection a thread's ::read is blocked on
    holders,    \* the threads that share the objects of a worker
    givenUp     \* history: arrivals whose startup failed

threadVars == <<place, serves, number, reading, holders>>
vars == <<proxy, table, gone, arrived, queue, threadVars, givenUp>>

Other(side) == IF side = "accepted" THEN "outgoing" ELSE "accepted"
From(r) == IF r = "worker" THEN "outgoing" ELSE "accepted"
Secured == IF proxy = "client" THEN "outgoing" ELSE "accepted"

\* The sides whose number is closed by the destructor of a shared object.
Owned == IF proxy = "client" THEN {"outgoing"} ELSE Sides

\* Before a connection is relayed there is no writer thread.
Before(r) == IF r = "worker" THEN "idle" ELSE "none"

Init ==
    /\ proxy \in {"client", "server"}
    /\ table = [n \in Numbers |-> None]
    /\ gone = {} /\ arrived = 0 /\ queue = << >>
    /\ place = [w \in Workers |-> [r \in Roles |-> Before(r)]]
    /\ serves = [w \in Workers |-> 0]
    /\ number = [w \in Workers |-> [s \in Sides |-> 0]]
    /\ reading = [w \in Workers |-> [r \in Roles |-> None]]
    /\ holders = [w \in Workers |-> {}]
    /\ givenUp = {}

\* The kernel opens a connection under the lowest free number.
Opens(n, c) ==
    /\ n \in Numbers /\ table[n] = None
    /\ \A m \in 1 .. n - 1 : table[m] # None
    /\ table' = [table EXCEPT ![n] = c]

\* close, for a set of numbers; a number that is not open is an error nobody
\* looks at.
Closes(ns) ==
    table' = [n \in Numbers |-> IF n \in ns THEN None ELSE table[n]]

Goto(w, r, label) == place' = [place EXCEPT ![w][r] = label]

\* An accept loop that does not look at what accept returned.
AcceptUnchecked ==
    /\ arrived < MaxConnections
    /\ arrived' = arrived + 1
    /\ \/ \E n \in Numbers :
             /\ Opens(n, <<arrived', "accepted">>)
             /\ queue' = Append(queue, [number |-> n, arrival |-> arrived'])
       \/ /\ queue' = Append(queue, [number |-> -1, arrival |-> arrived'])
          /\ UNCHANGED table
    /\ UNCHANGED <<proxy, gone, threadVars, givenUp>>

\* TCPServer::acceptLoop; a failing accept is only printed.
Accept ==
    /\ arrived < MaxConnections
    /\ arrived' = arrived + 1
    /\ \E n \in Numbers :
          /\ Opens(n, <<arrived', "accepted">>)
          /\ queue' = Append(queue, [number |-> n, arrival |-> arrived'])
    /\ UNCHANGED <<proxy, gone, threadVars, givenUp>>

\* The partner closes or is lost.
Go(c) ==
    /\ c \notin gone
    /\ \/ \E n \in Numbers : table[n] = c
       \/ \E w \in Workers, r \in Roles : reading[w][r] = c
    /\ gone' = gone \cup {c}
    /\ UNCHANGED <<proxy, table, arrived, queue, threadVars, givenUp>>
-----------------------------------------------------------------------------
(* The worker until both connections are up. *)

\* A getWork that leaves the number in the queue.
GetWithoutPop(w) ==
    /\ place[w]["worker"] = "idle" /\ queue # << >>
    /\ UNCHANGED queue
    /\ serves' = [serves EXCEPT ![w] = Head(queue).arrival]
    /\ number' = [number EXCEPT ![w] = [s \in Sides |->
                     IF s = "accepted" THEN Head(queue).number ELSE 0]]
    /\ holders' = [holders EXCEPT ![w] = {"worker"}]
    /\ Goto(w, "worker", "startup")
    /\ UNCHANGED <<proxy, table, gone, arrived, reading, givenUp>>

\* TCPServer::getClientSocket, and the MST_Socket of the worker.
GetClientSocket(w) ==
    /\ place[w]["worker"] = "idle" /\ queue # << >>
    /\ queue' = Tail(queue)
    /\ serves' = [serves EXCEPT ![w] = Head(queue).arrival]
    /\ number' = [number EXCEPT ![w] = [s \in Sides |->
                     IF s = "accepted" THEN Head(queue).number ELSE 0]]
    /\ holders' = [holders EXCEPT ![w] = {"worker"}]
    /\ Goto(w, "worker", "startup")
    /\ UNCHANGED <<proxy, table, gone, arrived, reading, givenUp>>

\* BufferedSocket::connect has its number; in proxyServer the handshake with
\* the accepted partner comes first.
Connect(w) ==
    /\ place[w]["worker"] = "startup"
    /\ \E n \in Numbers :
          /\ Opens(n, <<serves[w], "outgoing">>)
          /\ number' = [number EXCEPT ![w]["outgoing"] = n]
    /\ Goto(w, "worker", "connected")
    /\ UNCHANGED <<proxy, gone, arrived, queue, serves, reading, holders, givenUp>>

\* A failed startup that leaves the objects behind.
StartupForgets(w) ==
    /\ place[w]["worker"] \in {"startup", "connected"}
    /\ UNCHANGED table
    /\ holders' = [holders EXCEPT ![w] = {}]
    /\ Goto(w, "worker", "idle")
    /\ UNCHANGED <<proxy, gone, arrived, queue, serves, number, reading, givenUp>>

\* A worker that returns when its startup fails.
StartupFailsForGood(w) ==
    /\ place[w]["worker"] \in {"startup", "connected"}
    /\ Closes({number[w][s] : s \in Owned})
    /\ holders' = [holders EXCEPT ![w] = {}]
    /\ givenUp' = givenUp \cup {serves[w]}
    /\ Goto(w, "worker", "ended")
    /\ UNCHANGED <<proxy, gone, arrived, queue, serves, number, reading>>

\* No connection, or the handshake fails: the objects are destroyed, the
\* number that proxyClient has accepted is not closed.
StartupFails(w) ==
    /\ place[w]["worker"] \in {"startup", "connected"}
    /\ Closes({number[w][s] : s \in Owned})
    /\ holders' = [holders EXCEPT ![w] = {}]
    /\ givenUp' = givenUp \cup {serves[w]}
    /\ Goto(w, "worker", "idle")
    /\ UNCHANGED <<proxy, gone, arrived, queue, serves, number, reading>>

\* The context with its references, and the writer thread.
Start(w) ==
    /\ place[w]["worker"] = "connected"
    /\ place' = [place EXCEPT ![w] = [r \in Roles |-> "calling"]]
    /\ holders' = [holders EXCEPT ![w] = Roles]
    /\ UNCHANGED <<proxy, table, gone, arrived, queue, serves, number, reading,
                   givenUp>>
-----------------------------------------------------------------------------
(* The loops of the two threads.  A thread whose loop ends closes the        *)
(* accepted number, except for the writer of proxyServer, and returns.       *)

AfterLoop(r) ==
    IF proxy = "server" /\ r = "writer" THEN "leaving" ELSE "closing"

\* ::read of a number that is not open fails at once.
CallRead(w, r) ==
    LET c == table[number[w][From(r)]] IN
    /\ place[w][r] = "calling"
    /\ reading' = [reading EXCEPT ![w][r] = c]
    /\ Goto(w, r, IF c = None THEN AfterLoop(r) ELSE "reading")
    /\ UNCHANGED <<proxy, table, gone, arrived, queue, serves, number, holders,
                   givenUp>>

\* The number the worker of proxyClient finds in its context is any memory
\* once the writer has deleted the context.
WrittenTo(w, r) ==
    IF proxy = "client" /\ r = "worker" /\ "writer" \notin holders[w]
    THEN 0..MaxNumber
    ELSE {number[w][Other(From(r))]}

\* The read buffer of an MST_Socket may hold the next message already.
Readable(w, r) ==
    \/ place[w][r] = "reading"
    \/ place[w][r] = "calling" /\ From(r) = Secured

\* What was read is written to the other number.
Relay(w, r) ==
    /\ Readable(w, r)
    /\ \E n \in WrittenTo(w, r) :
          \/ /\ n \in Numbers /\ table[n] # None
             /\ Goto(w, r, "calling")
          \/ /\ n \in Numbers => table[n] \in gone \cup {None}
             /\ Goto(w, r, AfterLoop(r))
    /\ reading' = [reading EXCEPT ![w][r] = None]
    /\ UNCHANGED <<proxy, table, gone, arrived, queue, serves, number, holders,
                   givenUp>>

\* ::read has returned a part of a message.
ReadPart(w, r) ==
    /\ place[w][r] = "reading" /\ From(r) = Secured
    /\ reading' = [reading EXCEPT ![w][r] = None]
    /\ Goto(w, r, "calling")
    /\ UNCHANGED <<proxy, table, gone, arrived, queue, serves, number, holders,
                   givenUp>>

\* The partner has gone, or sent what does not decrypt.
ReadFails(w, r) ==
    /\ Readable(w, r)
    /\ reading[w][r] \in gone \/ From(r) = Secured
    /\ reading' = [reading EXCEPT ![w][r] = None]
    /\ Goto(w, r, AfterLoop(r))
    /\ UNCHANGED <<proxy, table, gone, arrived, queue, serves, number, holders,
                   givenUp>>

\* close(socket)
CloseAccepted(w, r) ==
    /\ place[w][r] = "closing"
    /\ Closes({number[w]["accepted"]})
    /\ Goto(w, r, "leaving")
    /\ UNCHANGED <<proxy, gone, arrived, queue, serves, number, reading, holders,
                   givenUp>>

\* A writer that does not delete its context.
LeaveKeepingContext(w, r) ==
    /\ place[w][r] = "leaving"
    /\ holders' = IF r = "writer" THEN holders
                  ELSE [holders EXCEPT ![w] = @ \ {r}]
    /\ Closes(IF holders'[w] = {} THEN {number[w][s] : s \in Owned} ELSE {})
    /\ Goto(w, r, "ended")
    /\ UNCHANGED <<proxy, gone, arrived, queue, serves, number, reading, givenUp>>

\* The writer deletes its context, the worker returns: the objects go with
\* their last reference.
Leave(w, r) ==
    /\ place[w][r] = "leaving"
    /\ holders' = [holders EXCEPT ![w] = @ \ {r}]
    /\ Closes(IF holders'[w] = {} THEN {number[w][s] : s \in Owned} ELSE {})
    /\ Goto(w, r, "ended")
    /\ UNCHANGED <<proxy, gone, arrived, queue, serves, number, reading, givenUp>>

ThreadStep(w, r) ==
    \/ CallRead(w, r) \/ Relay(w, r) \/ ReadPart(w, r) \/ ReadFails(w, r)
    \/ CloseAccepted(w, r) \/ Leave(w, r)

Next ==
    \/ Accept
    \/ \E c \in Connections : Go(c)
    \/ \E w \in Workers :
          \/ GetClientSocket(w)
          \/ Connect(w) \/ StartupFails(w) \/ Start(w)
          \/ \E r \in Roles : ThreadStep(w, r)

Spec == Init /\ [][Next]_vars

\* Running threads go on, and what a partner that has gone left behind is
\* finite: it ends the reads.  Writes may block.
ThreadsRun ==
    \A w \in Workers, r \in Roles :
        /\ SF_vars(CallRead(w, r))
        /\ SF_vars(reading[w][r] \in gone /\ ReadFails(w, r))
        /\ WF_vars(CloseAccepted(w, r)) /\ WF_vars(Leave(w, r))

FairSpec == Spec /\ ThreadsRun
-----------------------------------------------------------------------------
LoopPlaces == {"calling", "reading", "closing"}
Places == LoopPlaces \cup
    {"none", "idle", "startup", "connected", "leaving", "ended"}

TypeOK ==
    /\ proxy \in {"client", "server"}
    /\ table \in [Numbers -> Connections \cup {None}]
    /\ gone \subseteq Connections
    /\ arrived \in 0..MaxConnections
    /\ queue \in Seq([number : Numbers, arrival : 1..MaxConnections])
    /\ place \in [Workers -> [Roles -> Places]]
    /\ serves \in [Workers -> 0..MaxConnections]
    /\ number \in [Workers -> [Sides -> 0..MaxNumber]]
    /\ reading \in [Workers -> [Roles -> Connections \cup {None}]]
    /\ holders \in [Workers -> SUBSET Roles]
    /\ givenUp \subseteq 1..MaxConnections

Looping(w, r) == place[w][r] \in LoopPlaces
Starting(w) == place[w]["worker"] \in {"startup", "connected"}

\* Who knows the open number n and will close it: a worker that serves its
\* connection, as it holds the object or will close the number ...
WillClose(w, n) ==
    \E s \in Sides :
        /\ table[n] = <<serves[w], s>> /\ number[w][s] = n
        /\ IF s \in Owned THEN holders[w] # {}
           ELSE Starting(w) \/ \E r \in Roles : Looping(w, r)

\* ... the next worker that looks into the queue ...
Queued(n) ==
    \E i \in 1..Len(queue) :
        /\ queue[i].number = n
        /\ table[n] = <<queue[i].arrival, "accepted">>

\* ... or nobody.
Forgotten(n) ==
    proxy = "client" /\ \E a \in givenUp : table[n] = <<a, "accepted">>

Known(n) == Forgotten(n) \/ Queued(n) \/ \E w \in Workers : WillClose(w, n)

\* Every open number has a thread or an object that knows it and closes it in
\* the end, or waits in the queue, however the ends of the two threads and
\* the closings by numbers interleave; proxyClient loses exactly the numbers
\* it accepted when the startup failed.
NothingLeaks == \A n \in Numbers : table[n] # None => Known(n)

\* The workers that are not, or no more, in getClientSocket.
Away == {w \in Workers : place[w]["worker"] # "idle"}

\* A worker that has relayed a connection never comes back (proxyClient.cpp 115
\* and 121), one whose startup failed does: the workers away from the pool, the
\* connections that wait and those that were given up are together all that
\* arrived.  So the pool is used up by as many relayed connections as it has
\* workers, by nothing else, and no connection costs two workers.
WorkersAccountForArrivals ==
    Cardinality(Away) + Len(queue) + Cardinality(givenUp) = arrived

\* A thread has called close with a number, not the object it belongs to.
ClosedByNumber(w) ==
    \E r \in Roles :
        /\ place[w][r] \in {"leaving", "ended"}
        /\ ~(proxy = "server" /\ r = "writer")

\* Until a thread calls close with the number of a connection it relays, every
\* number stands for the connection it was opened for: what is queued, and
\* what threads and objects hold.
NumbersStandForTheirs ==
    (\A w \in Workers : ~ClosedByNumber(w)) =>
        /\ \A i \in 1..Len(queue) :
              table[queue[i].number] = <<queue[i].arrival, "accepted">>
        /\ \A w \in Workers, s \in Sides :
              holders[w] # {} /\ number[w][s] # 0 =>
                  table[number[w][s]] = <<serves[w], s>>

\* When both partners of the only connection so far have gone, both threads
\* end and everything is closed, whoever finds out first and whatever number
\* the worker of proxyClient finds in a deleted context.
AllClosedInTheEnd ==
    [](arrived <= 1) =>
        \A w \in Workers :
            /\ Looping(w, "worker") \/ Looping(w, "writer")
            /\ \A s \in Sides : <<serves[w], s>> \in gone
            ~> /\ \A r \in Roles : place[w][r] = "ended"
               /\ \A n \in Numbers : table[n] = None

\* "This class will do the closing of the socket handle !" (BufferedSocket.h
\* line 82): as long as the MST_Socket of an accepted connection exists, its
\* number stands for this connection.
ObjectKeepsSocket ==
    proxy = "server" =>
        \A w \in Workers : holders[w] # {} =>
            table[number[w]["accepted"]] = <<serves[w], "accepted">>
=============================================================================
