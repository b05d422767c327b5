---------------------------- MODULE ProxyProofs ----------------------------
(***************************************************************************)
(* What the two proxies do with socket numbers, for any number of workers, *)
(* connections and numbers.                                                *)
(***************************************************************************)
EXTENDS Proxy, SequenceTheorems, FiniteSetTheorems, TLAPS

\* A thread has its reference from the start of its work to its last step.
References ==
    \A w \in Workers :
        /\ "worker" \in holders[w] <=>
              place[w]["worker"] \in LoopPlaces \cup
                                     {"startup", "connected", "leaving"}
        /\ "writer" \in holders[w] <=>
              place[w]["writer"] \in LoopPlaces \cup {"leaving"}

\* The writer runs only when the worker has started it, and only the worker of
\* proxyServer closes a number.
PhasesOf(w) ==
    /\ place[w]["worker"] # "none"
    /\ place[w]["worker"] \in {"idle", "startup", "connected"} =>
          place[w]["writer"] = "none"
    /\ place[w]["writer"] \in LoopPlaces \cup {"none", "leaving", "ended"}
    /\ place[w]["writer"] = "closing" => proxy = "client"
    /\ place[w]["worker"] # "idle" =>
          /\ number[w]["accepted"] \in Numbers
          /\ serves[w] \in 1..MaxConnections
    /\ place[w]["worker"] = "startup" => number[w]["outgoing"] = 0
    /\ place[w]["worker"] \notin {"idle", "startup"} =>
          number[w]["outgoing"] \in Numbers

Phases == \A w \in Workers : PhasesOf(w)

\* An arrival is in the queue or served, by one worker.
ArrivalsDistinct ==
    /\ \A i \in 1..Len(queue) : queue[i].arrival \in 1..arrived
    /\ \A i, j \in 1..Len(queue) :
          i # j => queue[i].arrival # queue[j].arrival
    /\ \A w \in Workers : holders[w] # {} =>
          /\ serves[w] \in 1..arrived
          /\ \A i \in 1..Len(queue) : serves[w] # queue[i].arrival
          /\ \A v \in Workers \ {w} : holders[v] # {} => serves[w] # serves[v]

Shape == TypeOK /\ References /\ Phases
-----------------------------------------------------------------------------
Entries == [number : Numbers, arrival : 1..MaxConnections]

LEMMA Appended ==
    ASSUME NEW e \in Entries, queue \in Seq(Entries), queue' = Append(queue, e)
    PROVE  /\ queue' \in Seq(Entries) /\ Len(queue) \in Nat
           /\ Len(queue') = Len(queue) + 1
           /\ \A i \in 1..Len(queue) : queue'[i] = queue[i]
           /\ queue'[Len(queue) + 1] = e
  BY AppendProperties, LenProperties

LEMMA Popped ==
    ASSUME queue \in Seq(Entries), queue # << >>, queue' = Tail(queue)
    PROVE  /\ queue' \in Seq(Entries) /\ Len(queue) \in Nat \ {0}
           /\ Len(queue') = Len(queue) - 1
           /\ \A i \in 1..Len(queue') : queue'[i] = queue[i + 1]
           /\ Head(queue) \in Entries /\ Head(queue) = queue[1]
  BY HeadTailProperties, LenProperties, EmptySeq

LEMMA Entry ==
    ASSUME queue \in Seq(Entries), NEW i \in 1..Len(queue)
    PROVE  queue[i] \in Entries
  BY ElementOfSeq
-----------------------------------------------------------------------------
\* A thread in its loop steps to another of its places and has its reference.
LEMMA ThreadSteps ==
    ASSUME Shape, NEW w \in Workers, NEW r \in Roles, ThreadStep(w, r)
    PROVE  Shape'
<1> USE DEF Shape, TypeOK, References, Phases, PhasesOf, Roles, LoopPlaces, Places, Goto
<1>1. CASE CallRead(w, r)
  <2>1. number[w][From(r)] \in Numbers
    <3>1. place[w]["worker"] \notin {"idle", "startup"}
      BY <1>1 DEF CallRead
    <3> QED
      BY <3>1 DEF From
  <2>2. table[number[w][From(r)]] \in Connections \cup {None}
    BY <2>1
  <2>3. reading' \in [Workers -> [Roles -> Connections \cup {None}]]
    BY <1>1, <2>2 DEF CallRead
  <2>4. \E label \in {"reading", AfterLoop(r)} : Goto(w, r, label)
    BY <1>1 DEF CallRead
  <2> QED
    BY <1>1, <2>3, <2>4 DEF CallRead, AfterLoop
<1>2. CASE Relay(w, r)
  <2>1. \E label \in {"calling", AfterLoop(r)} : Goto(w, r, label)
    BY <1>2 DEF Relay
  <2>2. place[w][r] \in {"calling", "reading"}
    BY <1>2 DEF Relay, Readable
  <2> QED
    BY <1>2, <2>1, <2>2 DEF Relay, AfterLoop
<1>3. CASE ReadPart(w, r)
  BY <1>3 DEF ReadPart
<1>4. CASE ReadFails(w, r)
  BY <1>4 DEF ReadFails, Readable, AfterLoop
<1>5. CASE CloseAccepted(w, r)
  BY <1>5 DEF CloseAccepted, Closes
<1>6. CASE Leave(w, r)
  BY <1>6 DEF Leave, Closes
<1> QED
  BY <1>1, <1>2, <1>3, <1>4, <1>5, <1>6 DEF ThreadStep

LEMMA ShapeStep == ASSUME Shape, [Next]_vars PROVE Shape'
<1> USE DEF Shape, TypeOK, References, Phases, PhasesOf, Roles, LoopPlaces, Places, Goto,
            threadVars
<1>1. CASE Accept
  <2>1. \E n \in Numbers :
           /\ Opens(n, <<arrived', "accepted">>)
           /\ queue' = Append(queue, [number |-> n, arrival |-> arrived'])
    BY <1>1 DEF Accept
  <2>2. arrived' \in 1..MaxConnections
    BY <1>1, ProxyAssumption DEF Accept
  <2>3. queue' \in Seq(Entries)
    BY <2>1, <2>2, Appended DEF Entries
  <2>4. table' \in [Numbers -> Connections \cup {None}]
    BY <2>1, <2>2 DEF Opens, Connections, Sides
  <2> QED
    BY <1>1, <2>2, <2>3, <2>4 DEF Accept, Entries
<1>2. CASE \E c \in Connections : Go(c)
  BY <1>2 DEF Go
<1>3. ASSUME NEW w \in Workers, GetClientSocket(w) PROVE Shape'
  <2>1. queue' \in Seq(Entries) /\ Head(queue) \in Entries
    BY <1>3, Popped DEF GetClientSocket, Entries
  <2>2. /\ number' \in [Workers -> [Sides -> 0..MaxNumber]]
        /\ number'[w]["accepted"] \in Numbers /\ number'[w]["outgoing"] = 0
        /\ \A v \in Workers \ {w} : number'[v] = number[v]
    BY <1>3, <2>1, ProxyAssumption DEF GetClientSocket, Entries, Numbers, Sides
  <2>3. /\ serves' \in [Workers -> 0..MaxConnections]
        /\ serves'[w] \in 1..MaxConnections
        /\ \A v \in Workers \ {w} : serves'[v] = serves[v]
    BY <1>3, <2>1 DEF GetClientSocket, Entries
  <2>4. /\ place' \in [Workers -> [Roles -> Places]]
        /\ holders' \in [Workers -> SUBSET Roles]
        /\ holders'[w] = {"worker"}
        /\ place'[w]["worker"] = "startup" /\ place'[w]["writer"] = "none"
        /\ \A v \in Workers \ {w} :
              place'[v] = place[v] /\ holders'[v] = holders[v]
    BY <1>3 DEF GetClientSocket
  <2>5. TypeOK'
    BY <1>3, <2>1, <2>2, <2>3, <2>4 DEF GetClientSocket, Entries
  <2>6. References'
    BY <2>4
  <2>7. Phases'
    <3>1. proxy' = proxy
      BY <1>3 DEF GetClientSocket
    <3>2. \A v \in Workers \ {w} :
             /\ place'[v] = place[v] /\ number'[v] = number[v]
             /\ serves'[v] = serves[v]
      BY <2>2, <2>3, <2>4
    <3>3. /\ place'[w]["worker"] = "startup" /\ place'[w]["writer"] = "none"
          /\ number'[w]["accepted"] \in Numbers /\ number'[w]["outgoing"] = 0
          /\ serves'[w] \in 1..MaxConnections
      BY <2>2, <2>3, <2>4
    <3>4. \A v \in Workers \ {w} : PhasesOf(v)'
      BY <3>1, <3>2
    <3>5. PhasesOf(w)'
      BY <3>3
    <3> QED
      BY <3>4, <3>5
  <2> QED
    BY <2>5, <2>6, <2>7
<1>4. ASSUME NEW w \in Workers, Connect(w) PROVE Shape'
  <2>1. PICK n \in Numbers :
           /\ Opens(n, <<serves[w], "outgoing">>)
           /\ number' = [number EXCEPT ![w]["outgoing"] = n]
    BY <1>4 DEF Connect
  <2>2. /\ number' \in [Workers -> [Sides -> 0..MaxNumber]]
        /\ number'[w]["accepted"] = number[w]["accepted"]
        /\ number'[w]["outgoing"] = n
        /\ \A v \in Workers \ {w} : number'[v] = number[v]
    BY <2>1, ProxyAssumption DEF Numbers, Sides
  <2>3. table' \in [Numbers -> Connections \cup {None}]
    BY <1>4, <2>1 DEF Opens, Connect, Connections, Sides
  <2> QED
    BY <1>4, <2>1, <2>2, <2>3 DEF Connect
<1>5. ASSUME NEW w \in Workers, StartupFails(w) PROVE Shape'
  <2>1. serves[w] \in 1..MaxConnections
    BY <1>5 DEF StartupFails
  <2>2. table' \in [Numbers -> Connections \cup {None}]
    BY <1>5 DEF StartupFails, Closes
  <2>3. givenUp' \subseteq 1..MaxConnections
    BY <1>5, <2>1 DEF StartupFails
  <2> QED
    BY <1>5, <2>2, <2>3 DEF StartupFails
<1>6. ASSUME NEW w \in Workers, Start(w) PROVE Shape'
  BY <1>6 DEF Start
<1>7. CASE UNCHANGED vars
  BY <1>7 DEF vars
<1> QED
  BY <1>1, <1>2, <1>3, <1>4, <1>5, <1>6, <1>7, ThreadSteps DEF Next
-----------------------------------------------------------------------------
\* Everything but Accept and GetClientSocket leaves the arrivals where they are
\* and can only let go of objects.
Keeps ==
    /\ UNCHANGED <<queue, arrived, serves>>
    /\ \A w \in Workers : holders'[w] # {} => holders[w] # {}

LEMMA KeepsSteps ==
    ASSUME Shape, NEW w \in Workers,
           \/ Connect(w) \/ StartupFails(w) \/ Start(w)
           \/ \E r \in Roles : ThreadStep(w, r)
    PROVE  Keeps
<1> USE DEF Keeps, Shape, TypeOK
<1>1. CASE Connect(w)
  BY <1>1 DEF Connect
<1>2. CASE StartupFails(w)
  BY <1>2 DEF StartupFails
<1>3. CASE Start(w)
  BY <1>3 DEF Start, References
<1>4. ASSUME NEW r \in Roles, ThreadStep(w, r) PROVE Keeps
  <2>1. CASE Leave(w, r)
    BY <2>1 DEF Leave
  <2> QED
    BY <1>4, <2>1 DEF ThreadStep, CallRead, Relay, ReadPart, ReadFails, CloseAccepted
<1> QED
  BY <1>1, <1>2, <1>3, <1>4

LEMMA ArrivalsStep ==
    ASSUME Shape, ArrivalsDistinct, [Next]_vars
    PROVE  ArrivalsDistinct'
<1>0. /\ queue \in Seq(Entries) /\ arrived \in Nat /\ Len(queue) \in Nat
      /\ serves \in [Workers -> 0..MaxConnections]
      /\ holders \in [Workers -> SUBSET Roles]
  BY ProxyAssumption, LenProperties DEF Shape, TypeOK, Entries
<1>1. CASE Accept
  <2>1. PICK n \in Numbers :
           queue' = Append(queue, [number |-> n, arrival |-> arrived + 1])
    BY <1>1 DEF Accept
  <2>2. [number |-> n, arrival |-> arrived + 1] \in Entries
    BY <1>0, <1>1, ProxyAssumption DEF Accept, Entries
  <2>3. /\ Len(queue') = Len(queue) + 1
        /\ \A i \in 1..Len(queue) : queue'[i] = queue[i]
        /\ queue'[Len(queue) + 1].arrival = arrived + 1
    BY <1>0, <2>1, <2>2, Appended
  <2>4. arrived' = arrived + 1 /\ UNCHANGED <<serves, holders>>
    BY <1>1 DEF Accept, threadVars
  <2>5. \A i \in 1..Len(queue) : queue'[i].arrival \in 1..arrived
    BY <2>3 DEF ArrivalsDistinct
  <2>6. \A i \in 1..Len(queue') :
           \/ i \in 1..Len(queue) /\ queue'[i] = queue[i]
           \/ i = Len(queue) + 1 /\ queue'[i].arrival = arrived + 1
    BY <1>0, <2>3
  <2>7. \A i \in 1..Len(queue') : queue'[i].arrival \in 1..arrived'
    BY <1>0, <2>4, <2>5, <2>6
  <2>8. \A i, j \in 1..Len(queue') :
           i # j => queue'[i].arrival # queue'[j].arrival
    <3>1. \A i \in 1..Len(queue) : queue[i].arrival \in 1..arrived
      BY DEF ArrivalsDistinct
    <3>2. \A i, j \in 1..Len(queue) :
             i # j => queue[i].arrival # queue[j].arrival
      BY DEF ArrivalsDistinct
    <3>3. arrived + 1 \notin 1..arrived
      BY <1>0
    <3> QED
      BY <2>6, <3>1, <3>2, <3>3
  <2>9. ASSUME NEW w \in Workers, holders'[w] # {}
        PROVE  /\ serves'[w] \in 1..arrived'
               /\ \A i \in 1..Len(queue') : serves'[w] # queue'[i].arrival
               /\ \A v \in Workers \ {w} : holders'[v] # {} => serves'[w] # serves'[v]
    <3>1. serves[w] \in 1..arrived /\ serves'[w] = serves[w]
      BY <2>4, <2>9 DEF ArrivalsDistinct
    <3>2. \A i \in 1..Len(queue') : serves[w] # queue'[i].arrival
      BY <1>0, <2>4, <2>6, <2>9, <3>1 DEF ArrivalsDistinct
    <3> QED
      BY <1>0, <2>4, <2>9, <3>1, <3>2 DEF ArrivalsDistinct
  <2> QED
    BY <2>7, <2>8, <2>9 DEF ArrivalsDistinct
<1>2. ASSUME NEW w \in Workers, GetClientSocket(w) PROVE ArrivalsDistinct'
  <2>1. /\ Len(queue) \in Nat \ {0} /\ Len(queue') = Len(queue) - 1
        /\ \A i \in 1..Len(queue') : queue'[i] = queue[i + 1]
        /\ Head(queue) = queue[1]
    BY <1>0, <1>2, Popped DEF GetClientSocket
  <2>2. /\ arrived' = arrived
        /\ serves'[w] = queue[1].arrival /\ holders'[w] = {"worker"}
        /\ \A v \in Workers \ {w} :
              serves'[v] = serves[v] /\ holders'[v] = holders[v]
    BY <1>0, <1>2, <2>1 DEF GetClientSocket
  <2>3. \A i \in 1..Len(queue') :
           /\ i + 1 \in 1..Len(queue) /\ i + 1 # 1
           /\ queue'[i].arrival = queue[i + 1].arrival
    BY <2>1
  <2>4. 1 \in 1..Len(queue)
    BY <2>1
  <2>5. \A i, j \in 1..Len(queue') :
           i # j => queue'[i].arrival # queue'[j].arrival
    <3> SUFFICES ASSUME NEW i \in 1..Len(queue'), NEW j \in 1..Len(queue'), i # j
                 PROVE  queue'[i].arrival # queue'[j].arrival
      OBVIOUS
    <3>1. i + 1 # j + 1
      BY <2>1
    <3> QED
      BY <2>3, <3>1 DEF ArrivalsDistinct
  <2>6. \A v \in Workers : holders'[v] # {} =>
           /\ serves'[v] \in 1..arrived'
           /\ \A i \in 1..Len(queue') : serves'[v] # queue'[i].arrival
           /\ \A u \in Workers \ {v} : holders'[u] # {} => serves'[v] # serves'[u]
    BY <2>2, <2>3, <2>4 DEF ArrivalsDistinct
  <2> QED
    BY <2>2, <2>3, <2>5, <2>6 DEF ArrivalsDistinct
<1>3. ASSUME Keeps PROVE ArrivalsDistinct'
  BY <1>3 DEF Keeps, ArrivalsDistinct
<1>4. CASE (\E c \in Connections : Go(c)) \/ UNCHANGED vars
  BY <1>3, <1>4 DEF Go, vars, threadVars, Keeps
<1> QED
  BY <1>1, <1>2, <1>3, <1>4, KeepsSteps DEF Next
-----------------------------------------------------------------------------
LEMMA GetClientSocketLeaks ==
    ASSUME Shape, NothingLeaks, NEW w \in Workers, GetClientSocket(w)
    PROVE  NothingLeaks'
<1> SUFFICES ASSUME NEW n \in Numbers, table[n] # None PROVE Known(n)'
  BY DEF NothingLeaks, GetClientSocket
<1>1. Known(n) /\ table' = table
  BY DEF NothingLeaks, GetClientSocket
<1>2. CASE Forgotten(n)
  BY <1>1, <1>2 DEF Known, Forgotten, GetClientSocket
<1>3. /\ Len(queue) \in Nat \ {0} /\ Len(queue') = Len(queue) - 1
      /\ \A i \in 1..Len(queue') : queue'[i] = queue[i + 1]
      /\ Head(queue) = queue[1] /\ Head(queue) \in Entries
  BY Popped DEF GetClientSocket, Shape, TypeOK, Entries
<1>4. CASE Queued(n)
  <2>1. PICK i \in 1..Len(queue) :
           /\ queue[i].number = n
           /\ table[n] = <<queue[i].arrival, "accepted">>
    BY <1>4 DEF Queued
  <2>2. CASE i = 1
    <3>1. /\ serves'[w] = queue[1].arrival
          /\ number'[w]["accepted"] = queue[1].number
          /\ holders'[w] = {"worker"} /\ place'[w]["worker"] = "startup"
      BY <1>3 DEF GetClientSocket, Shape, TypeOK, Goto, Sides, Roles
    <3>2. WillClose(w, n)'
      BY <1>1, <2>1, <2>2, <3>1 DEF WillClose, Starting, Sides
    <3> QED
      BY <3>2 DEF Known
  <2>3. CASE i # 1
    <3>1. i - 1 \in 1..Len(queue') /\ queue'[i - 1] = queue[i]
      BY <1>3, <2>3
    <3> QED
      BY <1>1, <2>1, <3>1 DEF Known, Queued
  <2> QED
    BY <2>2, <2>3
<1>5. ASSUME NEW v \in Workers, WillClose(v, n) PROVE Known(n)'
  <2>1. v # w
    <3>1. place[w]["worker"] = "idle" /\ place[w]["writer"] = "none"
      BY DEF GetClientSocket, Shape, Phases, PhasesOf
    <3>2. \A r \in Roles : ~Looping(w, r)
      BY <3>1 DEF Looping, LoopPlaces, Roles
    <3>3. holders[w] \in SUBSET Roles /\ \A r \in Roles : r \notin holders[w]
      BY <3>1 DEF Shape, TypeOK, References, LoopPlaces, Roles
    <3>4. holders[w] = {} /\ ~Starting(w)
      BY <3>1, <3>3 DEF Starting
    <3> QED
      BY <1>5, <3>2, <3>4 DEF WillClose
  <2>2. /\ serves'[v] = serves[v] /\ number'[v] = number[v]
        /\ holders'[v] = holders[v] /\ place'[v] = place[v] /\ proxy' = proxy
    BY <2>1 DEF GetClientSocket, Shape, TypeOK, Goto
  <2>3. WillClose(v, n)'
    BY <1>1, <1>5, <2>2 DEF WillClose, Starting, Looping, Owned
  <2> QED
    BY <2>3 DEF Known
<1> QED
  BY <1>1, <1>2, <1>4, <1>5 DEF Known

\* A step of a worker or its writer leaves the other workers alone.
OnlyOf(w) ==
    /\ UNCHANGED <<proxy, queue>> /\ givenUp \subseteq givenUp'
    /\ \A v \in Workers \ {w} :
          /\ serves'[v] = serves[v] /\ number'[v] = number[v]
          /\ holders'[v] = holders[v] /\ place'[v] = place[v]

LEMMA OnlyOfSteps ==
    ASSUME Shape, NEW w \in Workers,
           \/ Connect(w) \/ StartupFails(w) \/ Start(w)
           \/ \E r \in Roles : ThreadStep(w, r)
    PROVE  OnlyOf(w)
<1> USE DEF OnlyOf, Shape, TypeOK, Goto
<1>1. CASE Connect(w)
  BY <1>1 DEF Connect
<1>2. CASE StartupFails(w)
  BY <1>2 DEF StartupFails
<1>3. CASE Start(w)
  BY <1>3 DEF Start
<1>4. ASSUME NEW r \in Roles, ThreadStep(w, r) PROVE OnlyOf(w)
  <2>1. \/ /\ place' = [place EXCEPT ![w][r] = "calling"]
           /\ UNCHANGED holders
        \/ /\ \E label \in Places : place' = [place EXCEPT ![w][r] = label]
           /\ holders' = [holders EXCEPT ![w] = @ \ {r}] \/ UNCHANGED holders
    BY <1>4 DEF ThreadStep, CallRead, Relay, ReadPart, ReadFails, CloseAccepted,
                Leave, AfterLoop, Places, LoopPlaces
  <2> QED
    BY <1>4, <2>1 DEF ThreadStep, CallRead, Relay, ReadPart, ReadFails,
                      CloseAccepted, Leave
<1> QED
  BY <1>1, <1>2, <1>3, <1>4

\* A number that such a step leaves open is known after it if what its own
\* worker knows is.
LEMMA OthersKnow ==
    ASSUME NEW w \in Workers, NEW n \in Numbers, OnlyOf(w),
           table'[n] = table[n], Known(n), WillClose(w, n) => Known(n)'
    PROVE  Known(n)'
<1>1. CASE Forgotten(n)
  BY <1>1 DEF Known, Forgotten, OnlyOf
<1>2. CASE Queued(n)
  BY <1>2 DEF Known, Queued, OnlyOf
<1>3. ASSUME NEW v \in Workers \ {w}, WillClose(v, n) PROVE Known(n)'
  <2>1. WillClose(v, n)'
    BY <1>3 DEF WillClose, OnlyOf, Starting, Looping, Owned
  <2> QED
    BY <2>1 DEF Known
<1> QED
  BY <1>1, <1>2, <1>3 DEF Known

LEMMA ConnectLeaks ==
    ASSUME Shape, NothingLeaks, NEW w \in Workers, Connect(w)
    PROVE  NothingLeaks'
<1> SUFFICES ASSUME NEW n \in Numbers, table'[n] # None PROVE Known(n)'
  BY DEF NothingLeaks
<1>1. PICK m \in Numbers :
         /\ Opens(m, <<serves[w], "outgoing">>)
         /\ number' = [number EXCEPT ![w]["outgoing"] = m]
  BY DEF Connect
<1>2. /\ serves' = serves /\ proxy' = proxy /\ holders' = holders
      /\ number'[w]["outgoing"] = m
      /\ number'[w]["accepted"] = number[w]["accepted"]
      /\ number[w]["outgoing"] = 0 /\ holders[w] # {}
      /\ place'[w]["worker"] = "connected"
  BY <1>1 DEF Connect, Goto, Shape, TypeOK, References, Phases, PhasesOf, Sides, Roles
<1>3. CASE n = m
  <2>1. table'[n] = <<serves[w], "outgoing">>
    BY <1>1, <1>3 DEF Opens, Shape, TypeOK
  <2>2. WillClose(w, n)'
    BY <1>2, <1>3, <2>1 DEF WillClose, Owned, Sides
  <2> QED
    BY <2>2 DEF Known
<1>4. CASE n # m
  <2>1. table'[n] = table[n] /\ Known(n)
    BY <1>1, <1>4 DEF Opens, Shape, TypeOK, NothingLeaks
  <2>2. ASSUME WillClose(w, n) PROVE WillClose(w, n)'
    <3>1. n # 0
      BY DEF Numbers
    <3> QED
      BY <1>2, <2>1, <2>2, <3>1 DEF WillClose, Owned, Sides, Starting
  <2> QED
    BY <2>1, <2>2, OnlyOfSteps, OthersKnow DEF Known
<1> QED
  BY <1>3, <1>4

LEMMA StartupFailsLeaks ==
    ASSUME Shape, NothingLeaks, NEW w \in Workers, StartupFails(w)
    PROVE  NothingLeaks'
<1> SUFFICES ASSUME NEW n \in Numbers, table'[n] # None PROVE Known(n)'
  BY DEF NothingLeaks
<1>1. /\ table'[n] = table[n] /\ Known(n)
      /\ \A s \in Owned : number[w][s] # n
  BY DEF StartupFails, Closes, NothingLeaks
<1>2. ASSUME WillClose(w, n) PROVE Forgotten(n)'
  <2>1. proxy = "client" /\ table[n] = <<serves[w], "accepted">>
    BY <1>1, <1>2 DEF WillClose, Owned, Sides
  <2> QED
    BY <1>1, <2>1 DEF Forgotten, StartupFails
<1> QED
  BY <1>1, <1>2, OnlyOfSteps, OthersKnow DEF Known

LEMMA StartLeaks ==
    ASSUME Shape, NothingLeaks, NEW w \in Workers, Start(w)
    PROVE  NothingLeaks'
<1> SUFFICES ASSUME NEW n \in Numbers, table'[n] # None PROVE Known(n)'
  BY DEF NothingLeaks
<1>1. /\ table'[n] = table[n] /\ Known(n)
      /\ serves' = serves /\ number' = number /\ proxy' = proxy
      /\ holders'[w] = Roles /\ place'[w]["worker"] = "calling"
  BY DEF Start, Shape, TypeOK, NothingLeaks, Roles
<1>2. ASSUME WillClose(w, n) PROVE WillClose(w, n)'
  BY <1>1, <1>2 DEF WillClose, Owned, Looping, LoopPlaces, Roles
<1> QED
  BY <1>1, <1>2, OnlyOfSteps, OthersKnow DEF Known

LEMMA ThreadLeaks ==
    ASSUME Shape, NothingLeaks, NEW w \in Workers, NEW r \in Roles, ThreadStep(w, r)
    PROVE  NothingLeaks'
<1> SUFFICES ASSUME NEW n \in Numbers, table'[n] # None PROVE Known(n)'
  BY DEF NothingLeaks
<1>1. table'[n] = table[n] /\ Known(n)
  BY DEF ThreadStep, CallRead, Relay, ReadPart, ReadFails, CloseAccepted, Leave,
         Closes, NothingLeaks
<1>2. serves' = serves /\ number' = number /\ proxy' = proxy
  BY DEF ThreadStep, CallRead, Relay, ReadPart, ReadFails, CloseAccepted, Leave
<1>3. ASSUME WillClose(w, n) PROVE WillClose(w, n)'
  <2>1. PICK s \in Sides :
           /\ table[n] = <<serves[w], s>> /\ number[w][s] = n
           /\ IF s \in Owned THEN holders[w] # {}
              ELSE Starting(w) \/ \E q \in Roles : Looping(w, q)
    BY <1>3 DEF WillClose
  <2>2. CASE s \in Owned
    <3>1. holders'[w] # {}
      <4>1. CASE Leave(w, r)
        BY <1>1, <2>1, <2>2, <4>1 DEF Leave, Closes
      <4> QED
        BY <2>1, <2>2, <4>1 DEF ThreadStep, CallRead, Relay, ReadPart, ReadFails,
                                CloseAccepted
    <3> QED
      BY <1>1, <1>2, <2>1, <2>2, <3>1 DEF WillClose, Owned
  <2>3. CASE s \notin Owned
    <3>1. proxy = "client" /\ s = "accepted"
      BY <2>3 DEF Owned, Sides, Shape, TypeOK
    <3>2. ~CloseAccepted(w, r)
      BY <1>1, <2>1, <3>1 DEF CloseAccepted, Closes
    <3>3. /\ place[w][r] \in LoopPlaces => place'[w][r] \in LoopPlaces
          /\ \A q \in Roles \ {r} : place'[w][q] = place[w][q]
          /\ place[w][r] \in LoopPlaces \cup {"leaving"}
      BY <3>1, <3>2 DEF ThreadStep, CallRead, Relay, ReadPart, ReadFails,
            Readable, Leave, AfterLoop, Goto, LoopPlaces, Shape, TypeOK
    <3>4. Starting(w)' \/ \E q \in Roles : Looping(w, q)'
      BY <2>1, <2>3, <3>3 DEF Starting, Looping, LoopPlaces, Roles
    <3> QED
      BY <1>1, <1>2, <2>1, <2>3, <3>4 DEF WillClose, Owned
  <2> QED
    BY <2>2, <2>3
<1> QED
  BY <1>1, <1>3, OnlyOfSteps, OthersKnow DEF Known

LEMMA LeaksStep ==
    ASSUME Shape, NothingLeaks, [Next]_vars
    PROVE  NothingLeaks'
<1>1. CASE Accept
  <2> SUFFICES ASSUME NEW n \in Numbers, table'[n] # None PROVE Known(n)'
    BY DEF NothingLeaks
  <2>1. PICK m \in Numbers :
           /\ Opens(m, <<arrived + 1, "accepted">>)
           /\ queue' = Append(queue, [number |-> m, arrival |-> arrived + 1])
    BY <1>1 DEF Accept
  <2>2. [number |-> m, arrival |-> arrived + 1] \in Entries
    BY <1>1, ProxyAssumption DEF Accept, Entries, Shape, TypeOK
  <2>3. /\ Len(queue) \in Nat /\ Len(queue') = Len(queue) + 1
        /\ \A i \in 1..Len(queue) : queue'[i] = queue[i]
        /\ queue'[Len(queue) + 1] = [number |-> m, arrival |-> arrived + 1]
    BY <2>1, <2>2, Appended DEF Shape, TypeOK, Entries
  <2>4. CASE n = m
    <3>1. table'[n] = <<arrived + 1, "accepted">>
      BY <2>1, <2>4 DEF Opens, Shape, TypeOK
    <3>2. Len(queue) + 1 \in 1..Len(queue')
      BY <2>3
    <3>3. Queued(n)'
      BY <2>3, <2>4, <3>1, <3>2 DEF Queued
    <3> QED
      BY <3>3 DEF Known
  <2>5. CASE n # m
    <3>1. table'[n] = table[n] /\ Known(n)
      BY <2>1, <2>5 DEF Opens, Shape, TypeOK, NothingLeaks
    <3>2. ASSUME Queued(n) PROVE Queued(n)'
      <4>1. \A i \in 1..Len(queue) : i \in 1..Len(queue')
        BY <2>3
      <4> QED
        BY <2>3, <3>1, <3>2, <4>1 DEF Queued
    <3>3. ASSUME Forgotten(n) PROVE Forgotten(n)'
      BY <1>1, <3>1, <3>3 DEF Forgotten, Accept
    <3>4. ASSUME NEW v \in Workers, WillClose(v, n) PROVE WillClose(v, n)'
      BY <1>1, <3>1, <3>4 DEF WillClose, Accept, threadVars, Starting, Looping, Owned
    <3> QED
      BY <3>1, <3>2, <3>3, <3>4 DEF Known
  <2> QED
    BY <2>4, <2>5
<1>2. CASE (\E c \in Connections : Go(c)) \/ UNCHANGED vars
  <2>1. UNCHANGED <<proxy, table, queue, threadVars, givenUp>>
    BY <1>2 DEF Go, vars
  <2> QED
    BY <2>1 DEF NothingLeaks, Known, Forgotten, Queued, WillClose, Starting, Looping,
                Owned, threadVars
<1> QED
  BY <1>1, <1>2, GetClientSocketLeaks, ConnectLeaks, StartupFailsLeaks, StartLeaks,
     ThreadLeaks DEF Next
-----------------------------------------------------------------------------
\* What the queue and the objects hold stands for their connections.
Standing ==
    /\ \A i \in 1..Len(queue) :
          table[queue[i].number] = <<queue[i].arrival, "accepted">>
    /\ \A w \in Workers, s \in Sides :
          holders[w] # {} /\ number[w][s] # 0 =>
              table[number[w][s]] = <<serves[w], s>>

NothingClosed == \A w \in Workers : ~ClosedByNumber(w)

\* A thread that has called close with a number remains one that has.
LEMMA ClosedStays ==
    ASSUME Shape, NothingClosed', [Next]_vars
    PROVE  NothingClosed
<1> SUFFICES ASSUME NEW w \in Workers, ClosedByNumber(w) PROVE ClosedByNumber(w)'
  BY DEF NothingClosed
<1>1. proxy' = proxy
  BY DEF Next, Accept, Go, GetClientSocket, Connect, StartupFails, Start, ThreadStep,
         CallRead, Relay, ReadPart, ReadFails, CloseAccepted, Leave, vars
<1>2. PICK r \in Roles : /\ place[w][r] \in {"leaving", "ended"}
                         /\ ~(proxy = "server" /\ r = "writer")
  BY DEF ClosedByNumber
<1>3. place'[w][r] \in {"leaving", "ended"}
  <2> USE DEF Shape, TypeOK, Goto
  <2>1. CASE Accept \/ (\E c \in Connections : Go(c)) \/ UNCHANGED vars
    BY <1>2, <2>1 DEF Accept, Go, vars, threadVars
  <2>2. ASSUME NEW v \in Workers,
               GetClientSocket(v) \/ Connect(v) \/ StartupFails(v) \/ Start(v)
        PROVE  place'[w][r] \in {"leaving", "ended"}
    <3>1. place[v]["worker"] \in {"idle", "startup", "connected"}
      BY <2>2 DEF GetClientSocket, Connect, StartupFails, Start
    <3>2. v # w
      BY <1>2, <3>1 DEF Phases, PhasesOf, Roles
    <3>3. place'[w] = place[w]
      BY <2>2, <3>2 DEF GetClientSocket, Connect, StartupFails, Start
    <3> QED
      BY <1>2, <3>3
  <2>3. ASSUME NEW v \in Workers, NEW q \in Roles, ThreadStep(v, q)
        PROVE  place'[w][r] \in {"leaving", "ended"}
    <3>1. CASE v = w /\ q = r
      BY <1>2, <2>3, <3>1 DEF ThreadStep, CallRead, Relay, ReadPart, ReadFails,
                              Readable, CloseAccepted, Leave
    <3>2. CASE ~(v = w /\ q = r)
      <4>1. \E label \in Places : place' = [place EXCEPT ![v][q] = label]
        BY <2>3 DEF ThreadStep, CallRead, Relay, ReadPart, ReadFails, CloseAccepted,
                    Leave, AfterLoop, Places, LoopPlaces
      <4>2. place'[w][r] = place[w][r]
        BY <3>2, <4>1
      <4> QED
        BY <1>2, <4>2
    <3> QED
      BY <3>1, <3>2
  <2> QED
    BY <2>1, <2>2, <2>3 DEF Next
<1> QED
  BY <1>1, <1>2, <1>3 DEF ClosedByNumber

\* What stands for a connection is not a number the kernel finds free.
LEMMA OpensStanding ==
    ASSUME Shape, Standing, NEW c \in Connections, NEW m \in Numbers, Opens(m, c)
    PROVE  /\ table'[m] = c
           /\ \A i \in 1..Len(queue) :
                 table'[queue[i].number] = <<queue[i].arrival, "accepted">>
           /\ \A w \in Workers, s \in Sides :
                 holders[w] # {} /\ number[w][s] # 0 =>
                     table'[number[w][s]] = <<serves[w], s>>
<1>1. table'[m] = c /\ \A n \in Numbers \ {m} : table'[n] = table[n]
  BY DEF Opens, Shape, TypeOK
<1>2. ASSUME NEW i \in 1..Len(queue)
      PROVE  table'[queue[i].number] = <<queue[i].arrival, "accepted">>
  <2>1. queue[i] \in Entries
    BY Entry DEF Shape, TypeOK, Entries
  <2>2. <<queue[i].arrival, "accepted">> # None
    BY <2>1, ProxyAssumption DEF Entries
  <2> QED
    BY <1>1, <2>1, <2>2 DEF Standing, Opens, Entries
<1>3. ASSUME NEW w \in Workers, NEW s \in Sides, holders[w] # {}, number[w][s] # 0
      PROVE  table'[number[w][s]] = <<serves[w], s>>
  <2>1. serves[w] \in 1..MaxConnections
    BY <1>3 DEF Shape, TypeOK, References, Phases, PhasesOf, LoopPlaces, Roles
  <2>2. <<serves[w], s>> # None
    BY <2>1, ProxyAssumption DEF Sides
  <2>3. number[w][s] \in Numbers
    BY <1>3, ProxyAssumption DEF Shape, TypeOK, Numbers
  <2> QED
    BY <1>1, <1>3, <2>2, <2>3 DEF Standing, Opens
<1> QED
  BY <1>1, <1>2, <1>3

LEMMA GetClientSocketStanding ==
    ASSUME Shape, Standing, NEW w \in Workers, GetClientSocket(w)
    PROVE  Standing'
<1>1. /\ Len(queue) \in Nat \ {0} /\ Len(queue') = Len(queue) - 1
      /\ \A i \in 1..Len(queue') : queue'[i] = queue[i + 1]
      /\ Head(queue) = queue[1]
  BY Popped DEF GetClientSocket, Shape, TypeOK, Entries
<1>2. table' = table
  BY DEF GetClientSocket
<1>3. \A i \in 1..Len(queue') :
         table'[queue'[i].number] = <<queue'[i].arrival, "accepted">>
  <2>1. \A i \in 1..Len(queue') : i + 1 \in 1..Len(queue)
    BY <1>1
  <2> QED
    BY <1>1, <1>2, <2>1 DEF Standing
<1>4. /\ serves'[w] = queue[1].arrival
      /\ number'[w]["accepted"] = queue[1].number
      /\ number'[w]["outgoing"] = 0
      /\ \A v \in Workers \ {w} :
            /\ serves'[v] = serves[v] /\ number'[v] = number[v]
            /\ holders'[v] = holders[v]
  BY <1>1 DEF GetClientSocket, Shape, TypeOK, Sides
<1>5. table[queue[1].number] = <<queue[1].arrival, "accepted">>
  <2>1. 1 \in 1..Len(queue)
    BY <1>1
  <2> QED
    BY <2>1 DEF Standing
<1>6. ASSUME NEW v \in Workers, NEW s \in Sides, holders'[v] # {}, number'[v][s] # 0
      PROVE  table'[number'[v][s]] = <<serves'[v], s>>
  <2>1. CASE v = w
    BY <1>2, <1>4, <1>5, <1>6, <2>1 DEF Sides
  <2>2. CASE v # w
    BY <1>2, <1>4, <1>6, <2>2 DEF Standing
  <2> QED
    BY <2>1, <2>2
<1> QED
  BY <1>3, <1>6 DEF Standing

\* The objects of a failed startup close no number but their own.
LEMMA StartupFailsStanding ==
    ASSUME Shape, ArrivalsDistinct, Standing, NEW w \in Workers, StartupFails(w)
    PROVE  Standing'
<1>1. /\ holders[w] # {} /\ holders'[w] = {}
      /\ UNCHANGED <<queue, serves, number>>
      /\ \A v \in Workers \ {w} : holders'[v] = holders[v]
  BY DEF StartupFails, Shape, TypeOK, References
<1>2. \A n \in Numbers : (\A s \in Owned : n # number[w][s]) => table'[n] = table[n]
  BY DEF StartupFails, Closes
<1>3. \A s \in Sides : number[w][s] # 0 => table[number[w][s]] = <<serves[w], s>>
  BY <1>1 DEF Standing
<1>4. Owned \subseteq Sides
  BY DEF Owned, Sides
<1>5. ASSUME NEW i \in 1..Len(queue)
      PROVE  table'[queue[i].number] = <<queue[i].arrival, "accepted">>
  <2>1. queue[i].number \in Numbers
    BY Entry DEF Shape, TypeOK, Entries
  <2>2. /\ table[queue[i].number] = <<queue[i].arrival, "accepted">>
        /\ serves[w] # queue[i].arrival
    BY <1>1 DEF Standing, ArrivalsDistinct
  <2>3. queue[i].number # 0
    BY <2>1 DEF Numbers
  <2> QED
    BY <1>2, <1>3, <1>4, <2>1, <2>2, <2>3
<1>6. ASSUME NEW v \in Workers, NEW s \in Sides, holders'[v] # {}, number[v][s] # 0
      PROVE  table'[number[v][s]] = <<serves[v], s>>
  <2>1. v # w /\ holders[v] # {}
    BY <1>1, <1>6
  <2>2. table[number[v][s]] = <<serves[v], s>> /\ serves[v] # serves[w]
    BY <1>1, <1>6, <2>1 DEF Standing, ArrivalsDistinct
  <2>3. number[v][s] \in Numbers
    BY <1>6, ProxyAssumption DEF Shape, TypeOK, Numbers
  <2> QED
    BY <1>2, <1>3, <1>4, <1>6, <2>2, <2>3
<1> QED
  BY <1>1, <1>5, <1>6 DEF Standing

\* Only a thread that closes by number, or leaves after one, closes a number.
LEMMA ThreadClosesNothing ==
    ASSUME Shape, NothingClosed', NEW w \in Workers, NEW r \in Roles,
           ThreadStep(w, r)
    PROVE  table' = table
<1> USE DEF Shape, TypeOK, Roles
<1>1. CASE CloseAccepted(w, r)
  <2>1. place[w][r] = "closing" /\ place'[w][r] = "leaving" /\ proxy' = proxy
    BY <1>1 DEF CloseAccepted, Goto
  <2>2. ~(proxy = "server" /\ r = "writer")
    BY <2>1 DEF Phases, PhasesOf
  <2> QED
    BY <2>1, <2>2 DEF NothingClosed, ClosedByNumber
<1>2. CASE Leave(w, r)
  <2>1. /\ place[w][r] = "leaving" /\ place'[w][r] = "ended" /\ proxy' = proxy
        /\ \A q \in Roles \ {r} : place'[w][q] = place[w][q]
    BY <1>2 DEF Leave, Goto
  <2>2. proxy = "server" /\ r = "writer"
    BY <2>1 DEF NothingClosed, ClosedByNumber
  <2>3. place[w]["worker"] \notin {"leaving", "ended"}
    BY <2>1, <2>2 DEF NothingClosed, ClosedByNumber
  <2>4. place[w]["worker"] \in LoopPlaces
    <3>1. place[w]["worker"] \in Places \ {"none", "idle", "startup", "connected"}
      BY <2>1, <2>2 DEF Phases, PhasesOf, Places
    <3> QED
      BY <2>3, <3>1 DEF Places
  <2>5. "worker" \in holders'[w]
    BY <1>2, <2>2, <2>4 DEF Leave, References
  <2> QED
    BY <1>2, <2>5 DEF Leave, Closes
<1> QED
  BY <1>1, <1>2 DEF ThreadStep, CallRead, Relay, ReadPart, ReadFails

LEMMA NumbersStep ==
    ASSUME Shape, ArrivalsDistinct, NumbersStandForTheirs, [Next]_vars
    PROVE  NumbersStandForTheirs'
<1> SUFFICES ASSUME NothingClosed' PROVE Standing'
  BY DEF NumbersStandForTheirs, Standing, NothingClosed
<1>0. Standing
  BY ClosedStays DEF NumbersStandForTheirs, Standing, NothingClosed
<1>1. CASE Accept
  <2>1. PICK m \in Numbers :
           /\ Opens(m, <<arrived + 1, "accepted">>)
           /\ queue' = Append(queue, [number |-> m, arrival |-> arrived + 1])
    BY <1>1 DEF Accept
  <2>2. arrived + 1 \in 1..MaxConnections
    BY <1>1, ProxyAssumption DEF Accept, Shape, TypeOK
  <2>3. /\ Len(queue) \in Nat /\ Len(queue') = Len(queue) + 1
        /\ \A i \in 1..Len(queue) : queue'[i] = queue[i]
        /\ queue'[Len(queue) + 1] = [number |-> m, arrival |-> arrived + 1]
    BY <2>1, <2>2, Appended DEF Shape, TypeOK, Entries
  <2>4. <<arrived + 1, "accepted">> \in Connections
    BY <2>2 DEF Connections, Sides
  <2>5. \A i \in 1..Len(queue') : i \in 1..Len(queue) \/ i = Len(queue) + 1
    BY <2>3
  <2>6. /\ table'[m] = <<arrived + 1, "accepted">>
        /\ \A i \in 1..Len(queue) :
              table'[queue[i].number] = <<queue[i].arrival, "accepted">>
        /\ \A w \in Workers, s \in Sides :
              holders[w] # {} /\ number[w][s] # 0 =>
                  table'[number[w][s]] = <<serves[w], s>>
    BY <1>0, <2>1, <2>4, OpensStanding
  <2>7. UNCHANGED <<serves, number, holders>>
    BY <1>1 DEF Accept, threadVars
  <2>8. ASSUME NEW i \in 1..Len(queue')
        PROVE  table'[queue'[i].number] = <<queue'[i].arrival, "accepted">>
    BY <2>3, <2>5, <2>6
  <2> QED
    BY <2>6, <2>7, <2>8 DEF Standing
<1>2. ASSUME NEW w \in Workers, Connect(w) PROVE Standing'
  <2>1. PICK m \in Numbers :
           /\ Opens(m, <<serves[w], "outgoing">>)
           /\ number' = [number EXCEPT ![w]["outgoing"] = m]
    BY <1>2 DEF Connect
  <2>2. <<serves[w], "outgoing">> \in Connections
    BY <1>2 DEF Connect, Shape, TypeOK, Phases, PhasesOf, Connections, Sides
  <2>3. /\ number'[w]["outgoing"] = m
        /\ number'[w]["accepted"] = number[w]["accepted"]
        /\ \A v \in Workers \ {w} : number'[v] = number[v]
    BY <2>1 DEF Shape, TypeOK, Sides
  <2>4. UNCHANGED <<queue, serves, holders>>
    BY <1>2 DEF Connect
  <2>5. /\ table'[m] = <<serves[w], "outgoing">>
        /\ \A i \in 1..Len(queue) :
              table'[queue[i].number] = <<queue[i].arrival, "accepted">>
        /\ \A v \in Workers, s \in Sides :
              holders[v] # {} /\ number[v][s] # 0 =>
                  table'[number[v][s]] = <<serves[v], s>>
    BY <1>0, <2>1, <2>2, OpensStanding
  <2>6. ASSUME NEW v \in Workers, NEW s \in Sides, holders[v] # {}, number'[v][s] # 0
        PROVE  table'[number'[v][s]] = <<serves[v], s>>
    BY <2>3, <2>5, <2>6 DEF Sides
  <2> QED
    BY <2>4, <2>5, <2>6 DEF Standing
<1>3. ASSUME NEW w \in Workers, Start(w) PROVE Standing'
  <2>1. holders[w] # {} /\ \A v \in Workers \ {w} : holders'[v] = holders[v]
    BY <1>3 DEF Start, Shape, TypeOK, References
  <2> QED
    BY <1>0, <1>3, <2>1 DEF Start, Standing
<1>4. ASSUME NEW w \in Workers, NEW r \in Roles, ThreadStep(w, r) PROVE Standing'
  <2>1. table' = table /\ Keeps
    BY <1>4, ThreadClosesNothing, KeepsSteps
  <2>2. number' = number
    BY <1>4 DEF ThreadStep, CallRead, Relay, ReadPart, ReadFails, CloseAccepted, Leave
  <2> QED
    BY <1>0, <2>1, <2>2 DEF Standing, Keeps
<1>5. CASE (\E c \in Connections : Go(c)) \/ UNCHANGED vars
  <2>1. UNCHANGED <<table, queue, threadVars>>
    BY <1>5 DEF Go, vars
  <2> QED
    BY <1>0, <2>1 DEF Standing, threadVars
<1> QED
  BY <1>0, <1>1, <1>2, <1>3, <1>4, <1>5, GetClientSocketStanding,
     StartupFailsStanding DEF Next
-----------------------------------------------------------------------------
\* An arrival has one fate: it waits, is with one worker, or was given up.
OneFateEach ==
    /\ givenUp \subseteq 1..arrived
    /\ \A i \in 1..Len(queue) : queue[i].arrival \notin givenUp
    /\ \A w \in Away :
          /\ serves[w] \in (1..arrived) \ givenUp
          /\ \A i \in 1..Len(queue) : serves[w] # queue[i].arrival
          /\ \A v \in Away \ {w} : serves[v] # serves[w]

FateInv == OneFateEach /\ WorkersAccountForArrivals

LEMMA Finite ==
    ASSUME Shape, OneFateEach
    PROVE  /\ IsFiniteSet(Away) /\ Cardinality(Away) \in Nat
           /\ IsFiniteSet(givenUp) /\ Cardinality(givenUp) \in Nat
           /\ Len(queue) \in Nat /\ arrived \in Nat
<1>1. arrived \in Nat /\ Len(queue) \in Nat
  BY ProxyAssumption, LenProperties DEF Shape, TypeOK
<1>2. IsFiniteSet(Away)
  BY ProxyAssumption, FS_Subset DEF Away
<1>3. IsFiniteSet(givenUp)
  <2>1. IsFiniteSet(1..arrived)
    BY <1>1, FS_Interval
  <2>2. givenUp \in SUBSET (1..arrived)
    BY DEF OneFateEach
  <2> QED
    BY <2>1, <2>2, FS_Subset
<1> QED
  BY <1>1, <1>2, <1>3, FS_CardinalityType

\* Most steps leave the arrivals and the workers that are away as they are.
LEMMA AwayKept ==
    ASSUME Shape, NEW w \in Workers,
           \/ Connect(w) \/ Start(w)
           \/ \E r \in Roles : ThreadStep(w, r)
    PROVE  Away' = Away /\ UNCHANGED <<queue, arrived, serves, givenUp>>
<1>1. UNCHANGED <<queue, arrived, serves, givenUp>>
  BY DEF Connect, Start, ThreadStep, CallRead, Relay, ReadPart, ReadFails,
         CloseAccepted, Leave
<1>2. /\ place[w]["worker"] # "idle" /\ place'[w]["worker"] # "idle"
      /\ \A v \in Workers \ {w} : place'[v] = place[v]
  <2> USE DEF Shape, TypeOK, Goto, Roles
  <2>1. CASE Connect(w) \/ Start(w)
    BY <2>1 DEF Connect, Start
  <2>2. ASSUME NEW r \in Roles, ThreadStep(w, r) PROVE <1>2
    <3>1. /\ \E label \in Places \ {"idle"} :
                place' = [place EXCEPT ![w][r] = label]
          /\ place[w][r] \in LoopPlaces \cup {"leaving"}
      BY <2>2 DEF ThreadStep, CallRead, Relay, ReadPart, ReadFails, CloseAccepted,
                  Leave, Readable, AfterLoop, Places, LoopPlaces
    <3>2. place[w]["worker"] # "idle"
      BY <3>1 DEF Phases, PhasesOf, LoopPlaces
    <3> QED
      BY <3>1, <3>2
  <2> QED
    BY <2>1, <2>2
<1> QED
  BY <1>1, <1>2 DEF Away

LEMMA AcceptFate == ASSUME Shape, ArrivalsDistinct, FateInv, Accept PROVE FateInv'
<1>1. PICK n \in Numbers :
         queue' = Append(queue, [number |-> n, arrival |-> arrived + 1])
  BY DEF Accept
<1>2. [number |-> n, arrival |-> arrived + 1] \in Entries
  BY ProxyAssumption DEF Accept, Entries, Shape, TypeOK
<1>3. /\ Len(queue') = Len(queue) + 1
      /\ \A i \in 1..Len(queue) : queue'[i] = queue[i]
      /\ queue'[Len(queue) + 1].arrival = arrived + 1
  BY <1>1, <1>2, Appended DEF Shape, TypeOK, Entries
<1>4. /\ arrived' = arrived + 1 /\ UNCHANGED <<serves, givenUp>>
      /\ Away' = Away
  BY DEF Accept, threadVars, Away
<1>5. /\ IsFiniteSet(Away) /\ Cardinality(Away) \in Nat
      /\ Cardinality(givenUp) \in Nat /\ Len(queue) \in Nat /\ arrived \in Nat
  BY Finite DEF FateInv
<1>6. \A i \in 1..Len(queue') :
         \/ i \in 1..Len(queue) /\ queue'[i] = queue[i]
         \/ queue'[i].arrival = arrived + 1
  BY <1>3, <1>5
<1>7. arrived + 1 \notin givenUp /\ givenUp \subseteq 1..arrived'
  BY <1>4, <1>5 DEF FateInv, OneFateEach
<1>8. \A i \in 1..Len(queue') : queue'[i].arrival \notin givenUp'
  BY <1>4, <1>6, <1>7 DEF FateInv, OneFateEach
<1>9. ASSUME NEW w \in Away
      PROVE  /\ serves[w] \in (1..arrived') \ givenUp
             /\ \A i \in 1..Len(queue') : serves[w] # queue'[i].arrival
  <2>1. serves[w] \in (1..arrived) \ givenUp
    BY DEF FateInv, OneFateEach
  <2>2. serves[w] # arrived + 1 /\ serves[w] \in 1..arrived'
    BY <1>4, <1>5, <2>1
  <2> QED
    BY <1>6, <2>1, <2>2 DEF FateInv, OneFateEach
<1>10. OneFateEach'
  BY <1>4, <1>7, <1>8, <1>9 DEF FateInv, OneFateEach
<1>11. WorkersAccountForArrivals'
  BY <1>3, <1>4, <1>5 DEF FateInv, WorkersAccountForArrivals
<1> QED
  BY <1>10, <1>11 DEF FateInv

LEMMA GetClientSocketFate ==
    ASSUME Shape, ArrivalsDistinct, FateInv, NEW w \in Workers, GetClientSocket(w)
    PROVE  FateInv'
<1>1. /\ Len(queue) \in Nat \ {0} /\ Len(queue') = Len(queue) - 1
      /\ \A i \in 1..Len(queue') : queue'[i] = queue[i + 1]
      /\ Head(queue) = queue[1]
  BY Popped DEF GetClientSocket, Shape, TypeOK, Entries
<1>2. /\ UNCHANGED <<arrived, givenUp>> /\ serves'[w] = queue[1].arrival
      /\ \A v \in Workers \ {w} : serves'[v] = serves[v]
  BY <1>1 DEF GetClientSocket, Shape, TypeOK
<1>3. w \notin Away /\ Away' = Away \cup {w}
  BY DEF GetClientSocket, Goto, Away, Shape, TypeOK, Roles
<1>4. 1 \in 1..Len(queue) /\ \A i \in 1..Len(queue') : i + 1 \in 1..Len(queue) /\ i + 1 # 1
  BY <1>1
<1>5. \A i \in 1..Len(queue') :
         queue'[i].arrival \notin givenUp /\ queue'[i].arrival # queue[1].arrival
  BY <1>1, <1>4 DEF FateInv, OneFateEach, ArrivalsDistinct
<1>6. queue[1].arrival \in (1..arrived) \ givenUp
  BY <1>4 DEF FateInv, OneFateEach, ArrivalsDistinct
<1>7. ASSUME NEW v \in Away
      PROVE  /\ serves'[v] = serves[v] /\ serves[v] \in (1..arrived) \ givenUp
             /\ serves[v] # queue[1].arrival
             /\ \A i \in 1..Len(queue') : serves[v] # queue'[i].arrival
             /\ \A u \in Away \ {v} : serves[u] # serves[v]
  <2>1. v \in Workers \ {w}
    BY <1>3 DEF Away
  <2> QED
    BY <1>1, <1>2, <1>4, <2>1 DEF FateInv, OneFateEach
<1>8. OneFateEach'
  BY <1>2, <1>3, <1>5, <1>6, <1>7 DEF FateInv, OneFateEach
<1>9. WorkersAccountForArrivals'
  <2>1. Cardinality(Away') = Cardinality(Away) + 1
    BY <1>3, Finite, FS_AddElement DEF FateInv
  <2> QED
    BY <1>1, <1>2, <2>1, Finite DEF FateInv, WorkersAccountForArrivals
<1> QED
  BY <1>8, <1>9 DEF FateInv

\* A failed startup gives the worker back, and its arrival was not given up
\* before.
LEMMA StartupFailsFate ==
    ASSUME Shape, FateInv, NEW w \in Workers, StartupFails(w)
    PROVE  FateInv'
<1>1. /\ UNCHANGED <<arrived, queue, serves>>
      /\ givenUp' = givenUp \cup {serves[w]}
  BY DEF StartupFails
<1>2. w \in Away /\ Away' = Away \ {w}
  BY DEF StartupFails, Goto, Away, Shape, TypeOK, Roles
<1>3. /\ serves[w] \in (1..arrived) \ givenUp
      /\ \A i \in 1..Len(queue) : serves[w] # queue[i].arrival
      /\ \A v \in Away \ {w} : serves[v] # serves[w]
  BY <1>2 DEF FateInv, OneFateEach
<1>4. OneFateEach'
  BY <1>1, <1>2, <1>3 DEF FateInv, OneFateEach
<1>5. WorkersAccountForArrivals'
  <2>1. /\ Cardinality(Away') = Cardinality(Away) - 1
        /\ Cardinality(givenUp') = Cardinality(givenUp) + 1
    BY <1>1, <1>2, <1>3, Finite, FS_AddElement, FS_RemoveElement DEF FateInv
  <2> QED
    BY <1>1, <2>1, Finite DEF FateInv, WorkersAccountForArrivals
<1> QED
  BY <1>4, <1>5 DEF FateInv

LEMMA FateStep ==
    ASSUME Shape, ArrivalsDistinct, FateInv, [Next]_vars
    PROVE  FateInv'
<1>1. ASSUME Away' = Away, UNCHANGED <<queue, arrived, serves, givenUp>>
      PROVE  FateInv'
  BY <1>1 DEF FateInv, OneFateEach, WorkersAccountForArrivals
<1>2. CASE (\E c \in Connections : Go(c)) \/ UNCHANGED vars
  BY <1>1, <1>2 DEF Go, vars, threadVars, Away
<1> QED
  BY <1>1, <1>2, AwayKept, AcceptFate, GetClientSocketFate, StartupFailsFate DEF Next
-----------------------------------------------------------------------------
IndInv ==
    /\ Shape /\ ArrivalsDistinct /\ NothingLeaks /\ NumbersStandForTheirs
    /\ FateInv

LEMMA InitInd == ASSUME Init PROVE IndInv
<1> USE DEF Init
<1>1. TypeOK
  BY ProxyAssumption DEF TypeOK, Before, Places, LoopPlaces, Roles, Entries
<1>2. References /\ Phases
  BY DEF References, Phases, PhasesOf, Before, LoopPlaces, Roles
<1>3. Len(queue) = 0
  OBVIOUS
<1>4. ArrivalsDistinct /\ NothingLeaks /\ NumbersStandForTheirs
  BY <1>3 DEF ArrivalsDistinct, NothingLeaks, NumbersStandForTheirs
<1>5. FateInv
  <2>1. Away = {} /\ givenUp = {}
    BY DEF Away, Before, Roles
  <2>2. Cardinality(Away) = 0 /\ Cardinality(givenUp) = 0 /\ arrived = 0
    BY <2>1, FS_EmptySet
  <2> QED
    BY <1>3, <2>1, <2>2 DEF FateInv, OneFateEach, WorkersAccountForArrivals
<1> QED
  BY <1>1, <1>2, <1>4, <1>5 DEF IndInv, Shape

LEMMA StepInd == ASSUME IndInv, [Next]_vars PROVE IndInv'
  BY ShapeStep, ArrivalsStep, LeaksStep, NumbersStep, FateStep DEF IndInv

LEMMA Inductive == Spec => []IndInv
  BY InitInd, StepInd, PTL DEF Spec

\* Every variable of the two proxies has its type: a queued number is one the
\* kernel gave, as an accept that fails queues none.
THEOREM TypeCorrect == Spec => []TypeOK
<1>1. IndInv => TypeOK
  BY DEF IndInv, Shape
<1> QED
  BY <1>1, Inductive, PTL

\* Every open number waits in the queue, or is known to a thread or an object
\* that closes it, except for those proxyClient accepted and then failed to
\* connect.
THEOREM LeaksTheorem == Spec => []NothingLeaks
<1>1. IndInv => NothingLeaks
  BY DEF IndInv
<1> QED
  BY <1>1, Inductive, PTL

\* Until a thread closes a number, each stands for the connection it was
\* opened for.
THEOREM NumbersTheorem == Spec => []NumbersStandForTheirs
<1>1. IndInv => NumbersStandForTheirs
  BY DEF IndInv
<1> QED
  BY <1>1, Inductive, PTL

\* Every relayed connection costs the pool one worker, and nothing else does: for
\* any number of workers, the workers that are away, the connections that wait
\* and those that were given up are together all that arrived.
THEOREM PoolTheorem == Spec => []WorkersAccountForArrivals
<1>1. IndInv => WorkersAccountForArrivals
  BY DEF IndInv, FateInv
<1> QED
  BY <1>1, Inductive, PTL
=============================================================================
