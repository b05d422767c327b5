-------------------------- MODULE ThreadWorkQueue --------------------------
(***************************************************************************)
(* The class ThreadWorkQueue: the accept loop of a server inserts sockets, *)
(* its worker threads take them.  A worker waits on the condition variable *)
(* every time, without looking at the queue before or after; insertWork    *)
(* signals after it has released the mutex.                                *)
(*                                                                         *)
(* Every action is what one thread does between two points where another   *)
(* thread can run.  POSIX lets pthread_cond_wait return without a signal.  *)
(*                                                                         *)
(* std::queue does not test for pop() of an empty queue.  The deque under  *)
(* it moves its front past its end; what is pushed then lands before the   *)
(* front and is never found, until the pushes have caught up (overrun).    *)
(***************************************************************************)
EXTENDS Integers, Sequences, FiniteSets

CONSTANTS Workers,           \* threads that call getWork in a loop
          Producers,         \* threads that call insertWork
          MaxSpurious,       \* bound of the unsignalled returns of the wait
          MaxInserts,        \* bound of the calls of insertWork
          Nobody             \* the owner of a free mutex

Threads == Workers \cup Producers

ASSUME WorkQueueAssumption ==
    /\ IsFiniteSet(Workers) /\ IsFiniteSet(Producers)
    /\ Workers \cap Producers = {}
    /\ Nobody \notin Threads
    /\ MaxSpurious \in Nat /\ MaxInserts \in Nat

VARIABLES mutex,         \* the thread that holds _mutex, or Nobody
          pc,            \* where each thread is
          payloads,      \* _payloads
          overrun,       \* pops past its end that no push made up for
          inserted,      \* how many payloads were inserted
          taken,         \* the payloads the workers got, in this order
          misused,       \* history: there was a pop of an empty queue
          lostSignals,   \* history: signals that found no waiting thread
          spurious       \* history: unsignalled returns of the wait

queueVars == <<payloads, overrun, inserted, taken, misused>>
signalVars == <<lostSignals, spurious>>
vars == <<mutex, pc, queueVars, signalVars>>

Init ==
    /\ mutex = Nobody
    /\ pc = [t \in Threads |-> "idle"]
    /\ payloads = << >> /\ overrun = 0
    /\ inserted = 0
    /\ taken = << >> /\ misused = FALSE
    /\ lostSignals = 0 /\ spurious = 0

Goto(t, label) == pc' = [pc EXCEPT ![t] = label]

Acquire(t) == mutex = Nobody /\ mutex' = t
Release(t) == mutex' = Nobody

Waiting == {w \in Workers : pc[w] = "waiting"}
-----------------------------------------------------------------------------
(* getWork *)

Lock(w) ==
    /\ pc[w] = "idle"
    /\ Acquire(w)
    /\ Goto(w, "locked")
    /\ UNCHANGED <<queueVars, signalVars>>

\* pthread_cond_wait: release and wait in one step.
Wait(w) ==
    /\ pc[w] = "locked"
    /\ Release(w)
    /\ Goto(w, "waiting")
    /\ UNCHANGED <<queueVars, signalVars>>

\* pthread_cond_wait returns although nobody signalled.
WakeSpuriously(w) ==
    /\ spurious < MaxSpurious
    /\ pc[w] = "waiting"
    /\ spurious' = spurious + 1
    /\ Goto(w, "woken")
    /\ UNCHANGED <<mutex, queueVars, lostSignals>>

\* The woken thread has the mutex again before pthread_cond_wait returns.
Relock(w) ==
    /\ pc[w] = "woken"
    /\ Acquire(w)
    /\ Goto(w, "holding")
    /\ UNCHANGED <<queueVars, signalVars>>

\* A pop that leaves the payload in the queue.
TakeWithoutPop(w) ==
    /\ pc[w] = "holding"
    /\ payloads # << >>
    /\ taken' = Append(taken, Head(payloads))
    /\ Goto(w, "taken")
    /\ UNCHANGED <<mutex, payloads, overrun, inserted, misused, signalVars>>

\* front() and pop().
Take(w) ==
    /\ pc[w] = "holding"
    /\ payloads # << >>
    /\ taken' = Append(taken, Head(payloads))
    /\ payloads' = Tail(payloads)
    /\ Goto(w, "taken")
    /\ UNCHANGED <<mutex, overrun, inserted, misused, signalVars>>

\* front() and pop() of an empty queue: what front() reads there is an old
\* payload or no payload at all (0).
TakeFromEmpty(w) ==
    /\ pc[w] = "holding"
    /\ payloads = << >>
    /\ \E x \in 0..inserted : taken' = Append(taken, x)
    /\ overrun' = overrun + 1 /\ misused' = TRUE
    /\ Goto(w, "taken")
    /\ UNCHANGED <<mutex, payloads, inserted, signalVars>>

Unlock(w) ==
    /\ pc[w] = "taken"
    /\ Release(w)
    /\ Goto(w, "working")
    /\ UNCHANGED <<queueVars, signalVars>>

\* The worker has served the connection and calls getWork again.
Done(w) ==
    /\ pc[w] = "working"
    /\ Goto(w, "idle")
    /\ UNCHANGED <<mutex, queueVars, signalVars>>

GetWork(w) ==
    \/ Lock(w)  \/ Wait(w) \/ WakeSpuriously(w) \/ Relock(w)
    \/ Take(w)  \/ TakeFromEmpty(w)  \/ Unlock(w) \/ Done(w)
-----------------------------------------------------------------------------
(* insertWork *)

InsertLock(p) ==
    /\ pc[p] = "idle"
    /\ inserted < MaxInserts
    /\ Acquire(p)
    /\ Goto(p, "locked")
    /\ UNCHANGED <<queueVars, signalVars>>

Push(p) ==
    /\ pc[p] = "locked"
    /\ inserted' = inserted + 1
    /\ IF overrun > 0
       THEN overrun' = overrun - 1 /\ UNCHANGED payloads
       ELSE payloads' = Append(payloads, inserted') /\ UNCHANGED overrun
    /\ Goto(p, "pushed")
    /\ UNCHANGED <<mutex, taken, misused, signalVars>>

\* An insertWork that returns with the mutex locked.
InsertKeepsLock(p) ==
    /\ pc[p] = "pushed"
    /\ Goto(p, "signalling")
    /\ UNCHANGED <<mutex, queueVars, signalVars>>

InsertUnlock(p) ==
    /\ pc[p] = "pushed"
    /\ Release(p)
    /\ Goto(p, "signalling")
    /\ UNCHANGED <<queueVars, signalVars>>

\* A pthread_cond_broadcast in place of the signal.
Broadcast(p) ==
    /\ pc[p] = "signalling"
    /\ pc' = [t \in Threads |-> IF t = p THEN "idle"
                                ELSE IF t \in Waiting THEN "woken" ELSE pc[t]]
    /\ lostSignals' = IF Waiting = {} THEN lostSignals + 1 ELSE lostSignals
    /\ UNCHANGED <<mutex, queueVars, spurious>>

\* pthread_cond_signal wakes one thread that is waiting, if there is one.
Signal(p) ==
    /\ pc[p] = "signalling"
    /\ \/ /\ Waiting = {}
          /\ Goto(p, "idle")
          /\ lostSignals' = lostSignals + 1
       \/ \E w \in Waiting :
             /\ pc' = [pc EXCEPT ![p] = "idle", ![w] = "woken"]
             /\ UNCHANGED lostSignals
    /\ UNCHANGED <<mutex, queueVars, spurious>>

InsertWork(p) == InsertLock(p) \/ Push(p) \/ InsertUnlock(p) \/ Signal(p)

Next ==
    \/ \E w \in Workers : GetWork(w)
    \/ \E p \in Producers : InsertWork(p)

Spec == Init /\ [][Next]_vars

\* A thread that is running goes on, and one that asks for a mutex that is
\* released again and again gets it.  Nothing says that a connection is ever
\* served to its end (Done), or that another one arrives (InsertLock).
ThreadsRun ==
    /\ \A w \in Workers :
          /\ SF_vars(Lock(w)) /\ SF_vars(Relock(w))
          /\ WF_vars(Wait(w)) /\ WF_vars(Take(w) \/ TakeFromEmpty(w))
          /\ WF_vars(Unlock(w))
    /\ \A p \in Producers :
          WF_vars(Push(p)) /\ WF_vars(InsertUnlock(p)) /\ WF_vars(Signal(p))

FairSpec == Spec /\ ThreadsRun

\* The workers also serve every connection to its end.
EagerSpec == FairSpec /\ \A w \in Workers : WF_vars(Done(w))
-----------------------------------------------------------------------------
WorkerPlaces ==
    {"idle", "locked", "waiting", "woken", "holding", "taken", "working"}
ProducerPlaces == {"idle", "locked", "pushed", "signalling"}

TypeOK ==
    /\ mutex \in Threads \cup {Nobody}
    /\ pc \in [Threads -> WorkerPlaces \cup ProducerPlaces]
    /\ \A w \in Workers : pc[w] \in WorkerPlaces
    /\ \A p \in Producers : pc[p] \in ProducerPlaces
    /\ payloads \in Seq(Nat)
    /\ inserted \in Nat
    /\ taken \in Seq(Nat)
    /\ overrun \in Nat /\ misused \in BOOLEAN
    /\ lostSignals \in Nat /\ spurious \in Nat

\* Workers that were woken and have not taken their payload.
Awake == {w \in Workers : pc[w] \in {"woken", "holding"}}

\* Payloads in the queue whose signal is still to come.
Unsignalled == {p \in Producers : pc[p] \in {"pushed", "signalling"}}

\* getWork calls front() without testing for an empty queue: as long as no wait
\* has returned without a signal, a worker that has the mutex after its wait
\* finds a payload, because no other worker can have taken the one it was
\* woken for.
WokenFindsWork ==
    spurious = 0 =>
        ~misused /\ \A w \in Workers : pc[w] = "holding" => payloads # << >>

\* The payloads in the queue are those a woken worker is about to take, those
\* whose signal is still to come, and one for every signal that found nobody
\* waiting, less one for every wakeup without a signal: a payload is stranded
\* by a lost signal and by nothing else, and the queue runs past its end
\* because of a spurious wakeup and of nothing else.
SignalsAccountForWork ==
    Len(payloads) - overrun =
        Cardinality(Awake) + Cardinality(Unsignalled) + lostSignals - spurious

\* The queue hands the payloads out in order, each to one worker, until one of
\* them finds it empty.
Queue == INSTANCE WorkQueue
QueueSpec == Queue!Spec

\* "a work queue which can be used to provide work for many threads"
\* (ThreadWorkQueue.h line 18): what is inserted is taken by a worker, if the
\* workers keep asking for work.
WorkIsProvided ==
    \A n \in 1..MaxInserts :
        inserted >= n ~> Len(taken) >= n
=============================================================================
