------------------------------- MODULE Server -------------------------------
(***************************************************************************)
(* The servers server.cpp and serverFull.cpp with their clients: the main  *)
(* thread accepts connections and inserts them in the ThreadWorkQueue, and *)
(* each worker serves one connection after the other.  The queue and its   *)
(* threads are those of ThreadWorkQueue; what a worker does between two    *)
(* calls of getWork is a conversation with a client.                       *)
(*                                                                         *)
(* A conversation is a sequence of calls that write or read one item       *)
(* (number, key, size, message); MSTSocket has the items themselves, and   *)
(* here they are counted.  Payload n is what the n-th accept returned.     *)
(***************************************************************************)
EXTENDS ThreadWorkQueue

VARIABLES
    program,    \* "server" or "serverFull"
    running,    \* the server's process
    conn,       \* conn[w]: the connection that w serves
    place,      \* place[w]: the call w comes to next
    ended,      \* the workers whose thread has returned
    client,     \* client[n]: the partner of connection n
    said,       \* said[n]: the call this partner comes to next
    toServer,   \* items under way to the server
    toClient,   \* items under way to the client
    shut        \* the server has closed the connection

workerVars == <<conn, place, ended>>
clientVars == <<client, said>>
wireVars   == <<toServer, toClient, shut>>
serverVars == <<program, running, workerVars, clientVars, wireVars>>
allVars    == <<vars, serverVars>>

\* Connection 0 is none.
Connections == 0..MaxInserts

\* A worker of server.cpp that waits for the message before it sends its key.
ServerCallsKeyLate ==
    IF program = "server" THEN <<"read", "read", "read", "write">>
    ELSE <<"write", "read", "write", "read", "write", "read">>

\* The calls of workerProcedure and of the client program, in their order.
ServerCalls ==
    IF program = "server" THEN <<"read", "write", "read", "read">>
    ELSE <<"write", "read", "write", "read", "write", "read">>
ClientCalls ==
    IF program = "server" THEN <<"write", "read", "write", "write">>
    ELSE <<"write", "read", "write", "read", "write", "read">>

ServerEnd == Len(ServerCalls) + 1
ClientEnd == Len(ClientCalls) + 1

NoWork  == [w \in Workers |-> 0]
NoItems == [n \in Connections |-> 0]
Nowhere == [n \in Connections |-> "none"]
NotShut == [n \in Connections |-> FALSE]

ServerInit ==
    /\ Init
    /\ program \in {"server", "serverFull"} /\ running = TRUE
    /\ conn = NoWork /\ place = NoWork /\ ended = {}
    /\ client = Nowhere /\ said = NoItems
    /\ toServer = NoItems /\ toClient = NoItems /\ shut = NotShut

Connected(n) == client[n] = "connected"
-----------------------------------------------------------------------------
(* main and getWork *)

\* accept returns a connection or -1, and insertWork locks the mutex.
Accept(p) ==
    /\ running /\ InsertLock(p)
    /\ LET n == inserted + 1 IN
       IF misused THEN UNCHANGED clientVars
       ELSE \E c \in {"connected", "none"} :
               /\ client' = [client EXCEPT ![n] = c]
               /\ said' = [said EXCEPT ![n] = 1]
    /\ UNCHANGED <<program, running, workerVars, wireVars>>

Insert(p) ==
    /\ running /\ (Push(p) \/ InsertUnlock(p) \/ Signal(p))
    /\ UNCHANGED serverVars

AskForWork(w) ==
    /\ running
    /\ Lock(w) \/ Wait(w) \/ WakeSpuriously(w) \/ Relock(w) \/ Take(w)
    /\ UNCHANGED serverVars

\* A number that comes from an empty queue may be one that was closed, is served
\* by another worker, or was given to another connection since: from then on the
\* conversations are not followed.
AskInVain(w) ==
    /\ running /\ TakeFromEmpty(w)
    /\ conn' = NoWork /\ place' = NoWork
    /\ client' = Nowhere /\ said' = NoItems
    /\ toServer' = NoItems /\ toClient' = NoItems /\ shut' = NotShut
    /\ UNCHANGED <<program, running, ended>>

\* getWork returns, and the socket object is made of the number.
Begin(w) ==
    /\ running /\ Unlock(w)
    /\ IF misused THEN UNCHANGED <<conn, place>>
       ELSE /\ conn' = [conn EXCEPT ![w] = taken[Len(taken)]]
            /\ place' = [place EXCEPT ![w] = 1]
    /\ UNCHANGED <<program, running, ended, clientVars, wireVars>>
-----------------------------------------------------------------------------
(* workerProcedure *)

Calls(w, call) ==
    /\ running /\ w \notin ended /\ place[w] \in DOMAIN ServerCalls
    /\ ServerCalls[place[w]] = call

GoOn(w)   == place' = [place EXCEPT ![w] = @ + 1] /\ UNCHANGED running
GiveUp(w) == place' = [place EXCEPT ![w] = ServerEnd] /\ UNCHANGED running

\* The call that may find an unknown number, or a size that is too large.
Refuses(w) == place[w] = IF program = "server" THEN 3 ELSE 2

\* A read that does not wait for what it is to read.
WorkerReadsAtOnce(w) ==
    /\ Calls(w, "read")
    /\ toServer' = [toServer EXCEPT ![conn[w]] = @ - 1]
    /\ GoOn(w) \/ (Refuses(w) /\ GiveUp(w))
    /\ UNCHANGED <<vars, program, running, conn, ended, clientVars,
                   toClient, shut>>

WorkerReads(w) ==
    /\ Calls(w, "read") /\ toServer[conn[w]] > 0
    /\ toServer' = [toServer EXCEPT ![conn[w]] = @ - 1]
    /\ GoOn(w) \/ (Refuses(w) /\ GiveUp(w))
    /\ UNCHANGED <<vars, program, running, conn, ended, clientVars,
                   toClient, shut>>

\* The destructor of the socket object, unless the number was -1.
CloseSocket(w) ==
    /\ shut' = [shut EXCEPT ![conn[w]] = client[conn[w]] # "none"]
    /\ toServer' = [toServer EXCEPT ![conn[w]] = 0]
    /\ UNCHANGED toClient

\* A worker that returns when any of its reads fails.
WorkerReadFailsForGood(w) ==
    /\ Calls(w, "read") /\ toServer[conn[w]] = 0 /\ ~Connected(conn[w])
    /\ IF program = "server"
       THEN ended' = ended \cup {w} /\ CloseSocket(w) /\ UNCHANGED place
       ELSE GiveUp(w) /\ UNCHANGED <<ended, wireVars>>
    /\ UNCHANGED <<vars, program, running, conn, clientVars>>

\* In server.cpp a message that breaks off ends the thread.
WorkerReadFails(w) ==
    /\ Calls(w, "read") /\ toServer[conn[w]] = 0 /\ ~Connected(conn[w])
    /\ IF program = "server" /\ place[w] = Len(ServerCalls)
       THEN ended' = ended \cup {w} /\ CloseSocket(w) /\ UNCHANGED place
       ELSE GiveUp(w) /\ UNCHANGED <<ended, wireVars>>
    /\ UNCHANGED <<vars, program, running, conn, clientVars>>

WorkerWrites(w) ==
    /\ Calls(w, "write") /\ Connected(conn[w])
    /\ toClient' = [toClient EXCEPT ![conn[w]] = @ + 1]
    /\ GoOn(w)
    /\ UNCHANGED <<vars, program, running, conn, ended, clientVars,
                   toServer, shut>>

\* A write to a lost connection may be taken by the kernel, or fail, which
\* server.cpp does not look at.
WorkerWritesInVain(w) ==
    /\ Calls(w, "write") /\ ~Connected(conn[w])
    /\ \/ (client[conn[w]] = "gone" \/ program = "server") /\ GoOn(w)
       \/ program = "serverFull" /\ GiveUp(w)
    /\ UNCHANGED <<vars, program, running, conn, ended, clientVars, wireVars>>

\* SIGPIPE is not ignored: such a write may end the whole process.
BrokenPipe(w) ==
    /\ Calls(w, "write") /\ client[conn[w]] = "gone"
    /\ running' = FALSE
    /\ UNCHANGED <<vars, program, workerVars, clientVars, wireVars>>

\* The object is destroyed at the end of the turn, and getWork called again.
NextTurn(w) ==
    /\ running /\ place[w] = ServerEnd /\ Done(w)
    /\ CloseSocket(w)
    /\ conn' = [conn EXCEPT ![w] = 0] /\ place' = [place EXCEPT ![w] = 0]
    /\ UNCHANGED <<program, running, ended, clientVars>>

Serves(w) ==
    \/ WorkerReads(w) \/ WorkerReadFails(w)
    \/ WorkerWrites(w) \/ WorkerWritesInVain(w) \/ BrokenPipe(w)
    \/ NextTurn(w)

\* After a pop of the empty queue a turn takes any time.
AnyTurn(w) ==
    /\ running /\ misused /\ w \notin ended /\ Done(w)
    /\ UNCHANGED serverVars
-----------------------------------------------------------------------------
(* the client programs *)

ClientComesTo(n, call) ==
    /\ running /\ Connected(n) /\ said[n] \in DOMAIN ClientCalls
    /\ ClientCalls[said[n]] = call

ClientWrites(n) ==
    /\ ClientComesTo(n, "write")
    /\ toServer' = [toServer EXCEPT ![n] = IF shut[n] THEN @ ELSE @ + 1]
    /\ said' = [said EXCEPT ![n] = @ + 1]
    /\ UNCHANGED <<vars, program, running, workerVars, client, toClient, shut>>

ClientReads(n) ==
    /\ ClientComesTo(n, "read") /\ toClient[n] > 0
    /\ toClient' = [toClient EXCEPT ![n] = @ - 1]
    /\ said' = [said EXCEPT ![n] = @ + 1]
    /\ UNCHANGED <<vars, program, running, workerVars, client, toServer, shut>>

\* The client's program ends, behind its last call or anywhere, or the connection
\* breaks.  Octets that are lost with it are as if it had gone before it wrote
\* them.
Go(n) ==
    /\ running /\ Connected(n)
    /\ client' = [client EXCEPT ![n] = "gone"]
    /\ toClient' = [toClient EXCEPT ![n] = 0]
    /\ UNCHANGED <<vars, program, running, workerVars, said, toServer, shut>>

ServerNext ==
    \/ \E p \in Producers : Accept(p) \/ Insert(p)
    \/ \E w \in Workers :
          AskForWork(w) \/ AskInVain(w) \/ Begin(w) \/ Serves(w) \/ AnyTurn(w)
    \/ \E n \in Connections : ClientWrites(n) \/ ClientReads(n) \/ Go(n)

ServerSpec == ServerInit /\ [][ServerNext]_allVars

\* The threads of the server run.  Nothing says that somebody connects, or
\* that a client ever goes on or goes.
ServerFairSpec ==
    /\ ServerSpec
    /\ \A w \in Workers :
          /\ SF_allVars(running /\ Lock(w) /\ UNCHANGED serverVars)
          /\ SF_allVars(running /\ Relock(w) /\ UNCHANGED serverVars)
          /\ WF_allVars(running /\ (Wait(w) \/ Take(w)) /\ UNCHANGED serverVars)
          /\ WF_allVars(AskInVain(w))
          /\ WF_allVars(Begin(w)) /\ WF_allVars(Serves(w))
    /\ \A p \in Producers : WF_allVars(Insert(p))
-----------------------------------------------------------------------------
\* 0 is nowhere, the first call is 1, and ServerEnd or ClientEnd is behind the last.
Places == 0..7

ServerStateOK ==
    /\ program \in {"server", "serverFull"} /\ running \in BOOLEAN
    /\ conn \in [Workers -> Connections]
    /\ place \in [Workers -> Places]
    /\ ended \subseteq Workers
    /\ client \in [Connections -> {"none", "connected", "gone"}]
    /\ said \in [Connections -> Places]
    /\ toServer \in [Connections -> Nat] /\ toClient \in [Connections -> Nat]
    /\ shut \in [Connections -> BOOLEAN]

ServerTypeOK == TypeOK /\ ServerStateOK

Serving(w) == pc[w] = "working" /\ w \notin ended

\* As long as no worker has met an empty queue, no two workers serve the same
\* connection, and none serves one that was closed under it.
OneWorkerEach ==
    ~misused =>
        \A w \in Workers : Serving(w) /\ client[conn[w]] # "none" =>
            /\ ~shut[conn[w]]
            /\ \A v \in Workers \ {w} : Serving(v) => conn[v] # conn[w]

\* A worker of server.cpp leaves the pool only by a client that has announced a
\* message and gone before it has sent it; one of serverFull never does.
BrokenMessagesEndWorkers ==
    ~misused =>
        \A w \in ended :
            /\ program = "server"
            /\ client[conn[w]] = "gone" /\ said[conn[w]] = 4

\* It is the client that has to go on: to write, to read what has arrived, or to
\* end because it has done all or the server has closed.
ClientsTurn(n) ==
    /\ Connected(n)
    /\ \/ said[n] = ClientEnd \/ ClientComesTo(n, "write")
       \/ toClient[n] > 0 \/ shut[n]

\* The server and a client never wait for each other: what keeps a worker for
\* ever is a client that could go on.
OnlyClientsKeepWorkers ==
    \A w \in Workers :
        []<>(~Serving(w) \/ ClientsTurn(conn[w]) \/ misused \/ ~running)

\* A connection that was inserted gets a worker, even if clients keep the
\* others for ever, but for as many of the last ones as there were signals that
\* found no worker waiting.
OnlyLostSignalsStrand ==
    \A n \in 1..MaxInserts :
        inserted >= n ~>
            \/ Len(taken) >= n \/ n > inserted - lostSignals
            \/ misused \/ ~running
=============================================================================
