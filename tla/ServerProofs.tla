---------------------------- MODULE ServerProofs ----------------------------
(***************************************************************************)
(* The queue: the accounting of signals and payloads, for any number of    *)
(* workers, producers and payloads; from it, that no worker meets an empty *)
(* queue unless a wait has returned without a signal; and that the queue   *)
(* is a first-in first-out queue until a worker does.                      *)
(*                                                                         *)
(* The servers: they use their queue as ThreadWorkQueue says, so that its  *)
(* theorems hold of them; a connection has one worker, and workers leave   *)
(* the pool for one reason only, for any number of workers and             *)
(* connections.                                                            *)
(***************************************************************************)
EXTENDS Server, FiniteSetTheorems, SequenceTheorems, TLAPS

(* The queue alone *)

\* What was taken and what is left are the payloads in the order they came.
InOrder ==
    /\ \A k \in DOMAIN taken : taken[k] = k
    /\ \A k \in DOMAIN payloads : payloads[k] = Len(taken) + k
    /\ Len(taken) + Len(payloads) = inserted
    /\ overrun = 0

InOrderOrMisused == misused \/ InOrder

\* A pop of an empty queue comes from a spurious wakeup.
MisuseIsSpurious == misused => spurious > 0
-----------------------------------------------------------------------------
LEMMA ThreadSets ==
    ASSUME TypeOK
    PROVE  /\ IsFiniteSet(Awake) /\ Cardinality(Awake) \in Nat
           /\ IsFiniteSet(Unsignalled) /\ Cardinality(Unsignalled) \in Nat
<1>1. Awake \subseteq Workers /\ Unsignalled \subseteq Producers
  BY DEF Awake, Unsignalled
<1> QED
  BY <1>1, FS_Subset, FS_CardinalityType, WorkQueueAssumption

\* Where a thread goes decides which of the counted sets it is in.
LEMMA AwakeGrows ==
    ASSUME TypeOK, NEW w \in Workers, w \notin Awake, Awake' = Awake \cup {w}
    PROVE  Cardinality(Awake') = Cardinality(Awake) + 1
  BY ThreadSets, FS_AddElement

LEMMA AwakeShrinks ==
    ASSUME TypeOK, NEW w \in Workers, w \in Awake, Awake' = Awake \ {w}
    PROVE  Cardinality(Awake') = Cardinality(Awake) - 1
  BY ThreadSets, FS_RemoveElement

LEMMA UnsignalledGrows ==
    ASSUME TypeOK, NEW p \in Producers, p \notin Unsignalled,
           Unsignalled' = Unsignalled \cup {p}
    PROVE  Cardinality(Unsignalled') = Cardinality(Unsignalled) + 1
  BY ThreadSets, FS_AddElement

LEMMA UnsignalledShrinks ==
    ASSUME TypeOK, NEW p \in Producers, p \in Unsignalled,
           Unsignalled' = Unsignalled \ {p}
    PROVE  Cardinality(Unsignalled') = Cardinality(Unsignalled) - 1
  BY ThreadSets, FS_RemoveElement

LEMMA TypeStep == ASSUME TypeOK, [Next]_vars PROVE TypeOK'
<1> USE DEF TypeOK, WorkerPlaces, ProducerPlaces, Threads
<1>0. Workers \cap Producers = {}
  BY WorkQueueAssumption
<1>1. ASSUME NEW w \in Workers, GetWork(w) PROVE TypeOK'
  <2>1. CASE Lock(w) \/ Wait(w) \/ Relock(w) \/ Unlock(w) \/ Done(w)
    BY <1>0, <2>1 DEF Lock, Wait, Relock, Unlock, Done, Acquire, Release, Goto,
                      queueVars, signalVars
  <2>2. CASE WakeSpuriously(w)
    BY <1>0, <2>2 DEF WakeSpuriously, Goto, queueVars
  <2>3. CASE Take(w)
    <3>1. Head(payloads) \in Nat /\ Tail(payloads) \in Seq(Nat)
      BY <2>3, HeadTailProperties DEF Take
    <3>2. Append(taken, Head(payloads)) \in Seq(Nat)
      BY <3>1, AppendProperties
    <3> QED
      BY <1>0, <2>3, <3>1, <3>2 DEF Take, Goto, signalVars
  <2>4. CASE TakeFromEmpty(w)
    <3>1. taken' \in Seq(Nat)
      BY <2>4, AppendProperties DEF TakeFromEmpty
    <3> QED
      BY <1>0, <2>4, <3>1 DEF TakeFromEmpty, Goto, signalVars
  <2> QED
    BY <1>1, <2>1, <2>2, <2>3, <2>4 DEF GetWork
<1>2. ASSUME NEW p \in Producers, InsertWork(p) PROVE TypeOK'
  <2>1. CASE InsertLock(p) \/ InsertUnlock(p)
    BY <1>0, <2>1 DEF InsertLock, InsertUnlock, Acquire, Release, Goto,
                      queueVars, signalVars
  <2>2. CASE Push(p)
    <3>1. inserted' \in Nat
      BY <2>2 DEF Push
    <3>2. payloads' \in Seq(Nat) /\ overrun' \in Nat
      <4>1. Append(payloads, inserted') \in Seq(Nat)
        BY <3>1, AppendProperties
      <4>2. CASE overrun > 0
        <5>1. overrun' = overrun - 1 /\ payloads' = payloads
          BY <2>2, <4>2 DEF Push
        <5> QED
          BY <4>2, <5>1
      <4>3. CASE ~(overrun > 0)
        <5>1. overrun' = overrun /\ payloads' = Append(payloads, inserted')
          BY <2>2, <4>3 DEF Push
        <5> QED
          BY <4>1, <5>1
      <4> QED
        BY <4>2, <4>3
    <3> QED
      BY <1>0, <2>2, <3>1, <3>2 DEF Push, Goto, signalVars
  <2>3. CASE Signal(p)
    <3>1. UNCHANGED <<mutex, queueVars, spurious>> /\ lostSignals' \in Nat
      BY <2>3 DEF Signal
    <3>2. /\ pc' \in [Threads -> WorkerPlaces \cup ProducerPlaces]
          /\ \A w \in Workers : pc'[w] \in WorkerPlaces
          /\ \A q \in Producers : pc'[q] \in ProducerPlaces
      BY <1>0, <2>3 DEF Signal, Waiting, Goto
    <3> QED
      BY <3>1, <3>2 DEF queueVars
  <2> QED
    BY <1>2, <2>1, <2>2, <2>3 DEF InsertWork
<1>3. CASE UNCHANGED vars
  BY <1>3 DEF vars, queueVars, signalVars
<1> QED
  BY <1>1, <1>2, <1>3 DEF Next

LEMMA AccountStep ==
    ASSUME TypeOK, SignalsAccountForWork, [Next]_vars
    PROVE  SignalsAccountForWork'
<1> DEFINE a == Cardinality(Awake)
           u == Cardinality(Unsignalled)
<1>0. /\ a \in Nat /\ u \in Nat
      /\ Len(payloads) \in Nat /\ overrun \in Nat
      /\ lostSignals \in Nat /\ spurious \in Nat
      /\ Workers \cap Producers = {}
      /\ pc \in [Threads -> WorkerPlaces \cup ProducerPlaces]
  BY ThreadSets, LenProperties, WorkQueueAssumption DEF TypeOK
<1>1. ASSUME Awake' = Awake, Unsignalled' = Unsignalled,
             UNCHANGED <<payloads, overrun, signalVars>>
      PROVE  SignalsAccountForWork'
  BY <1>1 DEF SignalsAccountForWork, signalVars
<1>2. ASSUME NEW w \in Workers, GetWork(w) PROVE SignalsAccountForWork'
  <2>0. Unsignalled' = Unsignalled
    BY <1>0, <1>2 DEF GetWork, Lock, Wait, WakeSpuriously, Relock, Take,
         TakeFromEmpty, Unlock, Done, Goto, Unsignalled, Threads
  <2>1. CASE Lock(w) \/ Wait(w) \/ Relock(w) \/ Unlock(w) \/ Done(w)
    <3>1. Awake' = Awake
      BY <1>0, <2>1 DEF Lock, Wait, Relock, Unlock, Done, Goto, Awake, Threads
    <3> QED
      BY <1>1, <2>0, <2>1, <3>1 DEF Lock, Wait, Relock, Unlock, Done, queueVars
  <2>2. CASE WakeSpuriously(w)
    <3>1. w \notin Awake /\ Awake' = Awake \cup {w}
      BY <1>0, <2>2 DEF WakeSpuriously, Goto, Awake, Threads
    <3>2. Cardinality(Awake') = a + 1
      BY <3>1, AwakeGrows
    <3> QED
      BY <1>0, <2>0, <2>2, <3>2
         DEF SignalsAccountForWork, WakeSpuriously, queueVars
  <2>3. CASE Take(w)
    <3>1. w \in Awake /\ Awake' = Awake \ {w}
      BY <1>0, <2>3 DEF Take, Goto, Awake, Threads
    <3>2. Len(payloads') = Len(payloads) - 1
      BY <2>3, HeadTailProperties DEF Take, TypeOK
    <3>3. Cardinality(Awake') = a - 1
      BY <3>1, AwakeShrinks
    <3> QED
      BY <1>0, <2>0, <2>3, <3>2, <3>3
         DEF SignalsAccountForWork, Take, signalVars
  <2>4. CASE TakeFromEmpty(w)
    <3>1. w \in Awake /\ Awake' = Awake \ {w}
      BY <1>0, <2>4 DEF TakeFromEmpty, Goto, Awake, Threads
    <3>2. Cardinality(Awake') = a - 1
      BY <3>1, AwakeShrinks
    <3> QED
      BY <1>0, <2>0, <2>4, <3>2
         DEF SignalsAccountForWork, TakeFromEmpty, signalVars
  <2> QED
    BY <1>2, <2>1, <2>2, <2>3, <2>4 DEF GetWork
<1>3. ASSUME NEW p \in Producers, InsertWork(p) PROVE SignalsAccountForWork'
  <2>1. CASE InsertLock(p) \/ InsertUnlock(p)
    <3>1. Awake' = Awake /\ Unsignalled' = Unsignalled
      BY <1>0, <2>1 DEF InsertLock, InsertUnlock, Goto, Awake, Unsignalled, Threads
    <3> QED
      BY <1>1, <2>1, <3>1 DEF InsertLock, InsertUnlock, queueVars
  <2>2. CASE Push(p)
    <3>1. /\ Awake' = Awake
          /\ p \notin Unsignalled /\ Unsignalled' = Unsignalled \cup {p}
      BY <1>0, <2>2 DEF Push, Goto, Awake, Unsignalled, Threads
    <3>2. Len(payloads') - overrun' = Len(payloads) - overrun + 1
      <4>1. CASE overrun > 0
        BY <1>0, <2>2, <4>1 DEF Push
      <4>2. CASE ~(overrun > 0)
        <5>1. inserted' \in Nat /\ payloads' = Append(payloads, inserted')
              /\ overrun' = overrun
          BY <2>2, <4>2 DEF Push, TypeOK
        <5>2. Len(payloads') = Len(payloads) + 1
          BY <5>1, AppendProperties DEF TypeOK
        <5> QED
          BY <1>0, <5>1, <5>2
      <4> QED
        BY <4>1, <4>2
    <3>3. Cardinality(Unsignalled') = u + 1
      BY <3>1, UnsignalledGrows
    <3> QED
      BY <1>0, <2>2, <3>1, <3>2, <3>3
         DEF SignalsAccountForWork, Push, signalVars
  <2>3. CASE Signal(p)
    <3>1. p \in Unsignalled /\ Unsignalled' = Unsignalled \ {p}
      BY <1>0, <2>3 DEF Signal, Goto, Unsignalled, Waiting, Threads
    <3>2. Cardinality(Unsignalled') = u - 1
      BY <3>1, UnsignalledShrinks
    <3>3. CASE Goto(p, "idle") /\ lostSignals' = lostSignals + 1
      <4>1. Awake' = Awake
        BY <1>0, <3>3 DEF Goto, Awake, Threads
      <4> QED
        BY <1>0, <2>3, <3>2, <3>3, <4>1
           DEF SignalsAccountForWork, Signal, queueVars
    <3>4. ASSUME NEW w \in Waiting, UNCHANGED lostSignals,
                 pc' = [pc EXCEPT ![p] = "idle", ![w] = "woken"]
          PROVE  SignalsAccountForWork'
      <4>1. w \in Workers /\ w \notin Awake /\ Awake' = Awake \cup {w}
        BY <1>0, <3>4 DEF Waiting, Awake, Threads
      <4>2. Cardinality(Awake') = a + 1
        BY <4>1, AwakeGrows
      <4> QED
        BY <1>0, <2>3, <3>2, <3>4, <4>2
           DEF SignalsAccountForWork, Signal, queueVars
    <3> QED
      BY <2>3, <3>3, <3>4 DEF Signal
  <2> QED
    BY <1>3, <2>1, <2>2, <2>3 DEF InsertWork
<1>4. CASE UNCHANGED vars
  BY <1>1, <1>4 DEF vars, queueVars, signalVars, Awake, Unsignalled
<1> QED
  BY <1>2, <1>3, <1>4 DEF Next

\* A woken worker cannot be counted without a payload it is counted for.
LEMMA HoldingFindsPayload ==
    ASSUME TypeOK, SignalsAccountForWork, spurious = 0,
           NEW w \in Workers, pc[w] = "holding"
    PROVE  payloads # << >>
<1>1. /\ Cardinality(Awake) \in Nat /\ Cardinality(Unsignalled) \in Nat
      /\ IsFiniteSet(Awake) /\ Len(payloads) \in Nat
      /\ overrun \in Nat /\ lostSignals \in Nat
  BY ThreadSets, LenProperties DEF TypeOK
<1>2. Cardinality(Awake) # 0
  <2>1. w \in Awake
    BY DEF Awake
  <2> QED
    BY <1>1, <2>1, FS_EmptySet
<1>3. Len(payloads) > 0
  BY <1>1, <1>2 DEF SignalsAccountForWork
<1> QED
  BY <1>3, EmptySeq

AccountInv == TypeOK /\ SignalsAccountForWork /\ MisuseIsSpurious

LEMMA MisuseStep ==
    ASSUME AccountInv, [Next]_vars
    PROVE  MisuseIsSpurious'
<1>0. TypeOK /\ SignalsAccountForWork /\ MisuseIsSpurious /\ spurious \in Nat
  BY DEF AccountInv, TypeOK
<1>1. CASE \E w \in Workers : TakeFromEmpty(w)
  <2>1. spurious # 0
    BY <1>0, <1>1, HoldingFindsPayload DEF TakeFromEmpty
  <2> QED
    BY <1>0, <1>1, <2>1 DEF TakeFromEmpty, signalVars, MisuseIsSpurious
<1>2. CASE \E w \in Workers : WakeSpuriously(w)
  BY <1>0, <1>2 DEF WakeSpuriously, MisuseIsSpurious
<1>3. CASE UNCHANGED <<misused, spurious>>
  BY <1>0, <1>3 DEF MisuseIsSpurious
<1> QED
  BY <1>1, <1>2, <1>3
     DEF Next, vars, queueVars, signalVars, GetWork, InsertWork, Lock, Wait,
         Relock, Take, Unlock, Done, InsertLock, Push, InsertUnlock, Signal

LEMMA AccountInvariant == Spec => []AccountInv
<1>1. Init => AccountInv
  <2> SUFFICES ASSUME Init PROVE AccountInv
    OBVIOUS
  <2>1. TypeOK
    BY EmptySeq DEF Init, TypeOK, WorkerPlaces, ProducerPlaces, Threads
  <2>2. Awake = {} /\ Unsignalled = {} /\ Len(payloads) = 0
    BY DEF Init, Awake, Unsignalled, Threads
  <2>3. SignalsAccountForWork
    BY <2>2, FS_EmptySet DEF Init, SignalsAccountForWork
  <2> QED
    BY <2>1, <2>3 DEF AccountInv, Init, MisuseIsSpurious
<1>2. AccountInv /\ [Next]_vars => AccountInv'
  BY TypeStep, AccountStep, MisuseStep DEF AccountInv
<1> QED
  BY <1>1, <1>2, PTL DEF Spec
-----------------------------------------------------------------------------
\* The places of the threads, the payloads and the counts keep their types.
THEOREM TypeCorrect == Spec => []TypeOK
<1>1. AccountInv => TypeOK
  BY DEF AccountInv
<1> QED
  BY <1>1, AccountInvariant, PTL

\* Payloads and signals always add up, spurious wakeups or not.
THEOREM AccountTheorem == Spec => []SignalsAccountForWork
<1>1. AccountInv => SignalsAccountForWork
  BY DEF AccountInv
<1> QED
  BY <1>1, AccountInvariant, PTL

\* front() and pop() do not meet an empty queue before a spurious wakeup.
THEOREM WokenFindsWorkTheorem == Spec => []WokenFindsWork
<1>1. AccountInv => WokenFindsWork
  <2> SUFFICES ASSUME AccountInv, spurious = 0
               PROVE  /\ ~misused
                      /\ \A w \in Workers : pc[w] = "holding" => payloads # << >>
    BY DEF WokenFindsWork
  <2>1. ~misused
    BY DEF AccountInv, MisuseIsSpurious
  <2> QED
    BY <2>1, HoldingFindsPayload DEF AccountInv
<1> QED
  BY <1>1, AccountInvariant, PTL
-----------------------------------------------------------------------------
LEMMA InOrderTake ==
    ASSUME TypeOK, InOrder, NEW w \in Workers, Take(w)
    PROVE  /\ InOrder'
           /\ Len(taken) < inserted
           /\ taken' = Append(taken, Len(taken) + 1)
<1> DEFINE n == Len(taken)
<1>1. /\ taken \in Seq(Nat) /\ payloads \in Seq(Nat)
      /\ payloads # << >> /\ inserted \in Nat
  BY DEF TypeOK, Take
<1>2. /\ n \in Nat /\ DOMAIN taken = 1..n
      /\ Len(payloads) \in Nat \ {0} /\ DOMAIN payloads = 1..Len(payloads)
  BY <1>1, LenProperties, EmptySeq
<1>3. /\ Head(payloads) = n + 1
      /\ n < inserted
  BY <1>1, <1>2 DEF InOrder
<1>4. /\ taken' = Append(taken, n + 1)
      /\ payloads' = Tail(payloads)
      /\ UNCHANGED <<overrun, inserted>>
  BY <1>3 DEF Take
<1>5. /\ Len(taken') = n + 1 /\ DOMAIN taken' = 1..n+1
      /\ \A k \in 1..n : taken'[k] = taken[k]
      /\ taken'[n+1] = n + 1
  <2>1. taken' \in Seq(Nat)
    BY <1>1, <1>2, <1>4, AppendProperties
  <2> QED
    BY <1>1, <1>2, <1>4, <2>1, AppendProperties, LenProperties
<1>6. /\ Len(payloads') = Len(payloads) - 1
      /\ DOMAIN payloads' = 1..Len(payloads) - 1
      /\ \A k \in 1..Len(payloads) - 1 : payloads'[k] = payloads[k+1]
  <2>1. /\ Tail(payloads) \in Seq(Nat)
        /\ Len(Tail(payloads)) = Len(payloads) - 1
        /\ \A i \in 1..Len(Tail(payloads)) : Tail(payloads)[i] = payloads[i+1]
    BY <1>1, HeadTailProperties
  <2>2. DOMAIN Tail(payloads) = 1..Len(Tail(payloads))
    BY <2>1, LenProperties
  <2> QED
    BY <1>4, <2>1, <2>2
<1>7. \A k \in DOMAIN taken' : taken'[k] = k
  <2>1. \A k \in 1..n : taken[k] = k
    BY <1>2 DEF InOrder
  <2> QED
    BY <1>2, <1>5, <2>1
<1>8. \A k \in DOMAIN payloads' : payloads'[k] = Len(taken') + k
  <2>1. \A k \in 1..Len(payloads) : payloads[k] = n + k
    BY <1>2 DEF InOrder
  <2> SUFFICES ASSUME NEW k \in 1..Len(payloads) - 1
               PROVE  payloads'[k] = n + 1 + k
    BY <1>5, <1>6
  <2>2. k + 1 \in 1..Len(payloads) /\ payloads'[k] = payloads[k+1]
    BY <1>2, <1>6
  <2>3. payloads[k+1] = n + (k + 1)
    BY <2>1, <2>2
  <2> QED
    BY <1>2, <2>2, <2>3
<1>9. Len(taken') + Len(payloads') = inserted' /\ overrun' = 0
  <2>1. n + Len(payloads) = inserted /\ overrun = 0
    BY DEF InOrder
  <2>2. inserted' = inserted /\ overrun' = overrun
    BY <1>4
  <2>3. Len(taken') = n + 1 /\ Len(payloads') = Len(payloads) - 1
    BY <1>5, <1>6
  <2> HIDE DEF n
  <2> QED
    BY <1>2, <2>1, <2>2, <2>3
<1> QED
  BY <1>3, <1>4, <1>7, <1>8, <1>9 DEF InOrder

LEMMA InOrderPush ==
    ASSUME TypeOK, InOrder, NEW p \in Producers, Push(p)
    PROVE  InOrder'
<1> DEFINE n == Len(payloads)
<1>1. /\ taken \in Seq(Nat) /\ payloads \in Seq(Nat) /\ inserted \in Nat
  BY DEF TypeOK
<1>2. /\ n \in Nat /\ DOMAIN payloads = 1..n /\ Len(taken) \in Nat
  BY <1>1, LenProperties
<1>3. /\ inserted' = inserted + 1
      /\ payloads' = Append(payloads, inserted')
      /\ UNCHANGED <<overrun, taken>>
  BY DEF Push, InOrder
<1>4. /\ payloads' \in Seq(Nat)
      /\ Len(payloads') = n + 1
      /\ \A k \in 1..n : payloads'[k] = payloads[k]
      /\ payloads'[n+1] = inserted + 1
  <2>1. inserted' \in Nat
    BY <1>1, <1>3
  <2> QED
    BY <1>1, <1>2, <1>3, <2>1, AppendProperties
<1>5. DOMAIN payloads' = 1..n+1
  BY <1>4, LenProperties
<1>6. Len(taken) + n = inserted /\ overrun = 0
  BY DEF InOrder
<1>7. \A k \in 1..n : payloads[k] = Len(taken) + k
  BY <1>2 DEF InOrder
<1>8. \A k \in DOMAIN payloads' : payloads'[k] = Len(taken) + k
  <2> SUFFICES ASSUME NEW k \in 1..n+1 PROVE payloads'[k] = Len(taken) + k
    BY <1>5
  <2>1. CASE k = n + 1
    BY <1>1, <1>2, <1>4, <1>6, <2>1
  <2>2. CASE k # n + 1
    BY <1>2, <1>4, <1>7, <2>2
  <2> QED
    BY <2>1, <2>2
<1>9. /\ \A k \in DOMAIN taken' : taken'[k] = k
      /\ overrun' = 0
  BY <1>3, <1>6 DEF InOrder
<1>10. Len(taken') + Len(payloads') = inserted'
  BY <1>1, <1>2, <1>3, <1>4, <1>6
<1> QED
  BY <1>3, <1>8, <1>9, <1>10 DEF InOrder

LEMMA QueueStep ==
    ASSUME TypeOK, InOrderOrMisused, [Next]_vars
    PROVE  InOrderOrMisused' /\ [Queue!Next]_Queue!vars
<1>0. misused \in BOOLEAN
  BY DEF TypeOK
<1>1. ASSUME UNCHANGED queueVars
      PROVE  InOrderOrMisused' /\ [Queue!Next]_Queue!vars
  BY <1>1 DEF InOrderOrMisused, InOrder, queueVars, Queue!vars
<1>2. CASE misused
  <2>1. misused'
    BY <1>0, <1>2
       DEF Next, vars, queueVars, GetWork, InsertWork, Lock, Wait,
           WakeSpuriously, Relock, Take, TakeFromEmpty, Unlock, Done,
           InsertLock, Push, InsertUnlock, Signal
  <2> QED
    BY <1>2, <2>1 DEF InOrderOrMisused, Queue!Next, Queue!Misuse
<1>3. CASE ~misused
  <2>0. InOrder
    BY <1>3 DEF InOrderOrMisused
  <2>1. ASSUME NEW w \in Workers, GetWork(w)
        PROVE  InOrderOrMisused' /\ [Queue!Next]_Queue!vars
    <3>1. CASE Take(w)
      <4>1. Queue!Take
        BY <2>0, <3>1, InOrderTake DEF Queue!Take, Take
      <4> QED
        BY <2>0, <3>1, <4>1, InOrderTake DEF Queue!Next, InOrderOrMisused
    <3>2. CASE TakeFromEmpty(w)
      <4>1. Len(taken) = inserted
        <5>1. Len(payloads) = 0
          BY <3>2, EmptySeq DEF TakeFromEmpty
        <5> QED
          BY <2>0, <5>1, LenProperties DEF InOrder, TypeOK
      <4> QED
        BY <3>2, <4>1 DEF TakeFromEmpty, InOrderOrMisused, Queue!Next, Queue!Misuse
    <3> QED
      BY <1>1, <2>1, <3>1, <3>2
         DEF GetWork, Lock, Wait, WakeSpuriously, Relock, Unlock, Done
  <2>2. ASSUME NEW p \in Producers, InsertWork(p)
        PROVE  InOrderOrMisused' /\ [Queue!Next]_Queue!vars
    <3>1. CASE Push(p)
      <4>1. Queue!Insert
        BY <3>1 DEF Push, Queue!Insert
      <4> QED
        BY <2>0, <3>1, <4>1, InOrderPush DEF Queue!Next, InOrderOrMisused
    <3> QED
      BY <1>1, <2>2, <3>1 DEF InsertWork, InsertLock, InsertUnlock, Signal
  <2>3. CASE UNCHANGED vars
    BY <1>1, <2>3 DEF vars, queueVars
  <2> QED
    BY <2>1, <2>2, <2>3 DEF Next
<1> QED
  BY <1>2, <1>3

\* The class is a first-in first-out queue until one of its workers finds the
\* queue empty, which by WokenFindsWorkTheorem needs a spurious wakeup.
THEOREM QueueTheorem == Spec => QueueSpec
<1>1. Init => InOrderOrMisused /\ Queue!Init
  <2>1. Len(<< >>) = 0
    BY EmptySeq
  <2> QED
    BY <2>1 DEF Init, InOrderOrMisused, InOrder, Queue!Init
<1>2. AccountInv => TypeOK
  BY DEF AccountInv
<1>3. TypeOK /\ InOrderOrMisused /\ [Next]_vars
          => InOrderOrMisused' /\ [Queue!Next]_Queue!vars
  BY QueueStep
<1> QED
  BY <1>1, <1>2, <1>3, AccountInvariant, PTL DEF Spec, QueueSpec, Queue!Spec
-----------------------------------------------------------------------------
(* The servers *)

\* The thread that holds the mutex is the only one in a critical section.
Holder ==
    \A t \in Threads :
        pc[t] \in {"locked", "holding", "taken", "pushed"} => mutex = t

\* insertWork is not called more than MaxInserts times.
WithinBound ==
    /\ inserted <= MaxInserts
    /\ \A p \in Producers : pc[p] = "locked" => inserted < MaxInserts

\* A worker that has taken something has taken it.
TakenIsLast == \A w \in Workers : pc[w] = "taken" => Len(taken) > 0

PoolInv == AccountInv /\ InOrderOrMisused /\ Holder /\ WithinBound /\ TakenIsLast
-----------------------------------------------------------------------------
(* The queue in the server *)

LEMMA PoolStep == ASSUME [ServerNext]_allVars PROVE [Next]_vars
<1>1. ASSUME NEW p \in Producers, Accept(p) \/ Insert(p) PROVE Next
  BY <1>1 DEF Accept, Insert, Next, InsertWork
<1>2. ASSUME NEW w \in Workers, AskForWork(w) \/ AskInVain(w) \/ Begin(w)
      PROVE  Next
  BY <1>2 DEF AskForWork, AskInVain, Begin, Next, GetWork
<1>3. ASSUME NEW w \in Workers, Serves(w) PROVE Next \/ UNCHANGED vars
  BY <1>3 DEF Serves, WorkerReads, WorkerReadFails, WorkerWrites,
              WorkerWritesInVain, BrokenPipe, NextTurn, Next, GetWork
<1>4. ASSUME NEW w \in Workers, AnyTurn(w) PROVE Next
  BY <1>4 DEF AnyTurn, Next, GetWork
<1>5. ASSUME NEW n \in Connections, ClientWrites(n) \/ ClientReads(n) \/ Go(n)
      PROVE  UNCHANGED vars
  BY <1>5 DEF ClientWrites, ClientReads, Go
<1>6. CASE UNCHANGED allVars
  BY <1>6 DEF allVars
<1> QED
  BY <1>1, <1>2, <1>3, <1>4, <1>5, <1>6 DEF ServerNext

LEMMA PoolInvStep == ASSUME PoolInv, [Next]_vars PROVE PoolInv'
<1>0. /\ TypeOK /\ InOrderOrMisused /\ Holder /\ WithinBound /\ TakenIsLast
      /\ Workers \cap Producers = {} /\ Nobody \notin Threads /\ MaxInserts \in Nat
  BY WorkQueueAssumption DEF PoolInv, AccountInv
<1>1. AccountInv'
  BY TypeStep, AccountStep, MisuseStep DEF PoolInv, AccountInv
<1>2. InOrderOrMisused'
  BY <1>0, QueueStep
<1>3. Holder' /\ WithinBound' /\ TakenIsLast'
  <2> USE <1>0 DEF TypeOK, Threads, Holder, WithinBound, TakenIsLast
  <2>1. ASSUME NEW w \in Workers, GetWork(w) PROVE Holder' /\ WithinBound'
    BY <2>1 DEF GetWork, Lock, Wait, WakeSpuriously, Relock, Take,
         TakeFromEmpty, Unlock, Done, Goto, Acquire, Release, queueVars
  <2>2. ASSUME NEW w \in Workers, GetWork(w) PROVE TakenIsLast'
    <3>1. CASE Take(w) \/ TakeFromEmpty(w)
      <4>1. PICK x \in Nat : taken' = Append(taken, x)
        BY <3>1, HeadTailProperties DEF Take, TakeFromEmpty
      <4>2. Len(taken') = Len(taken) + 1 /\ Len(taken) \in Nat
        BY <4>1, AppendProperties, LenProperties
      <4> QED
        BY <4>2
    <3> QED
      BY <2>2, <3>1 DEF GetWork, Lock, Wait, WakeSpuriously, Relock, Unlock, Done,
         Goto, queueVars
  <2>3. ASSUME NEW p \in Producers, InsertWork(p) PROVE Holder' /\ WithinBound'
    <3>1. CASE InsertLock(p) \/ InsertUnlock(p)
      BY <3>1 DEF InsertLock, InsertUnlock, Goto, Acquire, Release, queueVars
    <3>2. CASE Push(p)
      BY <3>2 DEF Push, Goto
    <3>3. CASE Signal(p)
      BY <3>3 DEF Signal, Goto, Waiting, queueVars
    <3> QED
      BY <2>3, <3>1, <3>2, <3>3 DEF InsertWork
  <2>4. ASSUME NEW p \in Producers, InsertWork(p) PROVE TakenIsLast'
    BY <2>4 DEF InsertWork, InsertLock, Push, InsertUnlock, Signal, Goto,
         Waiting, queueVars
  <2>5. CASE UNCHANGED vars
    BY <2>5 DEF vars, queueVars
  <2> QED
    BY <2>1, <2>2, <2>3, <2>4, <2>5 DEF Next
<1> QED
  BY <1>1, <1>2, <1>3 DEF PoolInv

LEMMA PoolInit == ASSUME Init PROVE PoolInv
<1>1. TypeOK
  BY EmptySeq DEF Init, TypeOK, WorkerPlaces, ProducerPlaces, Threads
<1>2. Awake = {} /\ Unsignalled = {} /\ Len(payloads) = 0
  BY EmptySeq DEF Init, Awake, Unsignalled, Threads
<1>3. SignalsAccountForWork
  BY <1>2, FS_EmptySet DEF Init, SignalsAccountForWork
<1>4. InOrder
  BY EmptySeq DEF Init, InOrder
<1>5. Holder /\ WithinBound /\ TakenIsLast
  BY WorkQueueAssumption DEF Init, Holder, WithinBound, TakenIsLast, Threads
<1> QED
  BY <1>1, <1>3, <1>4, <1>5
     DEF PoolInv, AccountInv, InOrderOrMisused, MisuseIsSpurious, Init

\* The threads of the servers use the queue in no other way than those of
\* ThreadWorkQueue: what holds of its Spec holds of the servers.
THEOREM PoolTheorem == ServerSpec => Spec
  BY PoolStep, PTL DEF ServerSpec, ServerInit, Spec

\* In the servers payloads, signals and wakeups add up, no worker meets an empty
\* queue before a spurious wakeup, and the queue is first-in first-out until one does.
THEOREM ServerQueueTheorem ==
    ServerSpec => []SignalsAccountForWork /\ []WokenFindsWork /\ QueueSpec
  BY PoolTheorem, AccountTheorem, WokenFindsWorkTheorem, QueueTheorem, PTL

LEMMA PoolInvariant == ServerSpec => []PoolInv
  BY PoolInit, PoolStep, PoolInvStep, PTL DEF ServerSpec, ServerInit
-----------------------------------------------------------------------------
(* The conversations *)

Working(w) == pc[w] = "working"
InHand(w)  == pc[w] = "taken"

\* Every worker has a connection of its own among those taken.
Assigned ==
    /\ \A w \in Workers : Working(w) => conn[w] \in 1..Len(taken)
    /\ \A w \in Workers : place[w] # 0 \/ w \in ended => Working(w)
    /\ \A v, w \in Workers :
          Working(v) /\ Working(w) /\ v # w => conn[v] # conn[w]
    /\ \A w \in Workers : InHand(w) =>
          \A v \in Workers : Working(v) => conn[v] # Len(taken)

\* Only what was taken and nobody serves is closed.
ClosedLast ==
    /\ \A n \in Connections : shut[n] => n \in 1..Len(taken)
    /\ \A w \in Workers : Serving(w) => ~shut[conn[w]]
    /\ \A w \in Workers : InHand(w) => ~shut[Len(taken)]

\* Who has not been accepted has said nothing.
Unheard ==
    /\ \A n \in Connections :
          n > inserted => \/ said[n] = 0
                          \/ n = inserted + 1 /\ \E p \in Producers : pc[p] = "locked"
    /\ \A n \in Connections : client[n] = "none" => said[n] < 2

\* What a client of server.cpp has written before its s-th call, and what the
\* worker has read before its p-th.
Written(s)  == IF s < 2 THEN 0 ELSE IF s < 4 THEN 1 ELSE IF s = 4 THEN 2 ELSE 3
ReadUpTo(p) == IF p = 1 THEN 0 ELSE IF p < 4 THEN 1 ELSE 2

\* In server.cpp, what the client has written and the worker has not read is on
\* its way.
Accounted ==
    program = "server" =>
        /\ \A w \in Workers :
              Serving(w) /\ place[w] < 5 =>
                  toServer[conn[w]] = Written(said[conn[w]]) - ReadUpTo(place[w])
        /\ \A n \in Connections :
              ~shut[n] /\ (\A w \in Workers : Serving(w) => conn[w] # n) =>
                  toServer[n] = Written(said[n])

\* A worker ends at the read of the message.
EndedReading ==
    \A w \in ended :
        /\ program = "server" /\ place[w] = 4
        /\ client[conn[w]] = "gone" /\ said[conn[w]] = 4

Followed == Assigned /\ ClosedLast /\ Unheard /\ Accounted /\ EndedReading

ServerInv == PoolInv /\ ServerStateOK /\ (misused \/ Followed)
-----------------------------------------------------------------------------
\* The calls of the two programs.
LEMMA CallsOfPrograms ==
    ASSUME program \in {"server", "serverFull"}
    PROVE  /\ ServerEnd = IF program = "server" THEN 5 ELSE 7
           /\ DOMAIN ServerCalls = 1..ServerEnd - 1
           /\ ClientEnd = IF program = "server" THEN 5 ELSE 7
           /\ DOMAIN ClientCalls = 1..ClientEnd - 1
           /\ program = "server" =>
                 /\ ServerCalls[1] = "read" /\ ServerCalls[2] = "write"
                 /\ ServerCalls[3] = "read" /\ ServerCalls[4] = "read"
                 /\ ClientCalls[1] = "write" /\ ClientCalls[2] = "read"
                 /\ ClientCalls[3] = "write" /\ ClientCalls[4] = "write"
<1>1. CASE program = "server"
  <2>1. /\ ServerCalls = <<"read", "write", "read", "read">>
        /\ ClientCalls = <<"write", "read", "write", "write">>
    BY <1>1 DEF ServerCalls, ClientCalls
  <2>2. Len(ServerCalls) = 4 /\ Len(ClientCalls) = 4
    BY <2>1
  <2>3. DOMAIN ServerCalls = 1..4 /\ DOMAIN ClientCalls = 1..4
    BY <2>1
  <2> QED
    BY <1>1, <2>1, <2>2, <2>3 DEF ServerEnd, ClientEnd
<1>2. CASE program = "serverFull"
  <2>1. /\ ServerCalls = <<"write", "read", "write", "read", "write", "read">>
        /\ ClientCalls = <<"write", "read", "write", "read", "write", "read">>
    BY <1>2 DEF ServerCalls, ClientCalls
  <2>2. Len(ServerCalls) = 6 /\ Len(ClientCalls) = 6
    BY <2>1
  <2>3. DOMAIN ServerCalls = 1..6 /\ DOMAIN ClientCalls = 1..6
    BY <2>1
  <2> QED
    BY <1>2, <2>1, <2>2, <2>3 DEF ServerEnd, ClientEnd
<1> QED
  BY <1>1, <1>2

\* What a worker has in its hands is the last payload, and came from an accept.
LEMMA TakenIsOwn ==
    ASSUME PoolInv, ~misused, NEW w \in Workers, pc[w] = "taken"
    PROVE  /\ Len(taken) \in Connections \ {0} /\ Len(taken) <= inserted
           /\ taken[Len(taken)] = Len(taken)
<1>1. /\ TypeOK /\ InOrder /\ inserted <= MaxInserts /\ Len(taken) > 0
      /\ MaxInserts \in Nat
  BY WorkQueueAssumption
     DEF PoolInv, AccountInv, InOrderOrMisused, WithinBound, TakenIsLast
<1>2. /\ Len(taken) \in Nat /\ Len(payloads) \in Nat /\ inserted \in Nat
      /\ DOMAIN taken = 1..Len(taken)
  BY <1>1, LenProperties DEF TypeOK
<1>3. /\ Len(taken) + Len(payloads) = inserted
      /\ \A k \in DOMAIN taken : taken[k] = k
  BY <1>1 DEF InOrder
<1> QED
  BY <1>1, <1>2, <1>3 DEF Connections

LEMMA ServerTypeStep ==
    ASSUME PoolInv, ServerStateOK, [ServerNext]_allVars, PoolInv'
    PROVE  ServerStateOK'
<1>0. /\ ServerStateOK
      /\ 0 \in Places /\ 1 \in Places /\ ServerEnd \in Places
      /\ \A k \in DOMAIN ServerCalls \cup DOMAIN ClientCalls : k + 1 \in Places
      /\ 0 \in Connections
  <2>1. program \in {"server", "serverFull"}
    BY DEF ServerStateOK
  <2>2. /\ ServerEnd \in {5, 7} /\ ClientEnd \in {5, 7}
        /\ DOMAIN ServerCalls = 1..ServerEnd - 1
        /\ DOMAIN ClientCalls = 1..ClientEnd - 1
    BY <2>1, CallsOfPrograms
  <2>3. \A k \in DOMAIN ServerCalls \cup DOMAIN ClientCalls : k + 1 \in 0..7
    BY <2>2
  <2> QED
    BY <2>2, <2>3, WorkQueueAssumption DEF Places, Connections
<1> USE DEF ServerStateOK
<1>1. ASSUME NEW p \in Producers, Accept(p) PROVE ServerStateOK'
  <2>1. /\ client' \in [Connections -> {"none", "connected", "gone"}]
        /\ said' \in [Connections -> Places]
    BY <1>0, <1>1 DEF Accept, clientVars
  <2>2. UNCHANGED <<program, running, workerVars, wireVars>>
    BY <1>1 DEF Accept
  <2> QED
    BY <1>0, <2>1, <2>2 DEF workerVars, wireVars
<1>2. ASSUME UNCHANGED serverVars PROVE ServerStateOK'
  BY <1>0, <1>2 DEF serverVars, workerVars, wireVars, clientVars
<1>4. ASSUME NEW w \in Workers, AskInVain(w) PROVE ServerStateOK'
  BY <1>0, <1>4 DEF AskInVain, NoWork, Nowhere, NoItems, NotShut
<1>5. ASSUME NEW w \in Workers, Begin(w) PROVE ServerStateOK'
  <2>1. conn' \in [Workers -> Connections] /\ place' \in [Workers -> Places]
    <3>1. CASE misused
      BY <1>0, <1>5, <3>1 DEF Begin
    <3>2. CASE ~misused
      <4>1. taken[Len(taken)] \in Connections
        BY <1>5, <3>2, TakenIsOwn DEF Begin, Unlock
      <4> QED
        BY <1>0, <1>5, <3>2, <4>1 DEF Begin
    <3> QED
      BY <3>1, <3>2
  <2>2. UNCHANGED <<program, running, ended, clientVars, wireVars>>
    BY <1>5 DEF Begin
  <2> QED
    BY <1>0, <2>1, <2>2 DEF clientVars, wireVars
<1>6. ASSUME NEW w \in Workers, Serves(w) PROVE ServerStateOK'
  <2>1. CASE WorkerReads(w)
    <3>1. place' \in [Workers -> Places] /\ running' \in BOOLEAN
      BY <1>0, <2>1 DEF WorkerReads, Calls, GoOn, GiveUp
    <3>2. toServer' \in [Connections -> Nat]
      BY <1>0, <2>1 DEF WorkerReads
    <3> QED
      BY <1>0, <2>1, <3>1, <3>2 DEF WorkerReads, clientVars
  <2>2. CASE WorkerReadFails(w)
    <3>1. place' \in [Workers -> Places] /\ ended' \subseteq Workers
      BY <1>0, <2>2 DEF WorkerReadFails, GiveUp
    <3>2. /\ toServer' \in [Connections -> Nat] /\ toClient' = toClient
          /\ shut' \in [Connections -> BOOLEAN]
      BY <1>0, <2>2 DEF WorkerReadFails, CloseSocket, wireVars
    <3> QED
      BY <1>0, <2>2, <3>1, <3>2 DEF WorkerReadFails, clientVars
  <2>3. CASE WorkerWrites(w)
    <3>1. place' \in [Workers -> Places] /\ running' \in BOOLEAN
      BY <1>0, <2>3 DEF WorkerWrites, Calls, GoOn
    <3>2. toClient' \in [Connections -> Nat]
      BY <1>0, <2>3 DEF WorkerWrites
    <3> QED
      BY <1>0, <2>3, <3>1, <3>2 DEF WorkerWrites, clientVars
  <2>4. CASE WorkerWritesInVain(w)
    <3>1. place' \in [Workers -> Places] /\ running' \in BOOLEAN
      BY <1>0, <2>4 DEF WorkerWritesInVain, Calls, GoOn, GiveUp
    <3> QED
      BY <1>0, <2>4, <3>1 DEF WorkerWritesInVain, clientVars, wireVars
  <2>5. CASE BrokenPipe(w)
    BY <1>0, <2>5 DEF BrokenPipe, workerVars, clientVars, wireVars
  <2>6. CASE NextTurn(w)
    <3>1. conn' \in [Workers -> Connections] /\ place' \in [Workers -> Places]
      BY <1>0, <2>6 DEF NextTurn
    <3>2. /\ toServer' \in [Connections -> Nat] /\ toClient' = toClient
          /\ shut' \in [Connections -> BOOLEAN]
      BY <1>0, <2>6 DEF NextTurn, CloseSocket
    <3> QED
      BY <1>0, <2>6, <3>1, <3>2 DEF NextTurn, clientVars
  <2> QED
    BY <1>6, <2>1, <2>2, <2>3, <2>4, <2>5, <2>6 DEF Serves
<1>7. ASSUME NEW n \in Connections, ClientWrites(n) \/ ClientReads(n) \/ Go(n)
      PROVE  ServerStateOK'
  <2>1. CASE ClientWrites(n)
    <3>1. said' \in [Connections -> Places]
      BY <1>0, <2>1 DEF ClientWrites, ClientComesTo
    <3>2. toServer' \in [Connections -> Nat]
      BY <1>0, <2>1 DEF ClientWrites
    <3> QED
      BY <1>0, <2>1, <3>1, <3>2 DEF ClientWrites, workerVars
  <2>2. CASE ClientReads(n)
    <3>1. said' \in [Connections -> Places]
      BY <1>0, <2>2 DEF ClientReads, ClientComesTo
    <3>2. toClient' \in [Connections -> Nat]
      BY <1>0, <2>2 DEF ClientReads
    <3> QED
      BY <1>0, <2>2, <3>1, <3>2 DEF ClientReads, workerVars
  <2>3. CASE Go(n)
    BY <1>0, <2>3 DEF Go, workerVars
  <2> QED
    BY <1>7, <2>1, <2>2, <2>3
<1>8. ASSUME NEW w \in Workers, AskForWork(w) \/ AnyTurn(w)
      PROVE  UNCHANGED serverVars
  BY <1>8 DEF AskForWork, AnyTurn
<1>9. ASSUME NEW p \in Producers, Insert(p) PROVE UNCHANGED serverVars
  BY <1>9 DEF Insert
<1>10. CASE UNCHANGED allVars
  BY <1>2, <1>10 DEF allVars
<1> QED
  BY <1>1, <1>2, <1>4, <1>5, <1>6, <1>7, <1>8, <1>9, <1>10 DEF ServerNext
-----------------------------------------------------------------------------
Ready == PoolInv /\ ServerStateOK /\ ~misused /\ Followed

LEMMA Facts ==
    ASSUME Ready
    PROVE  /\ pc \in [Threads -> WorkerPlaces \cup ProducerPlaces]
           /\ Workers \subseteq Threads /\ Producers \subseteq Threads
           /\ Workers \cap Producers = {} /\ Nobody \notin Threads
           /\ Len(taken) \in Nat /\ inserted \in Nat /\ MaxInserts \in Nat
           /\ Len(taken) <= inserted /\ inserted <= MaxInserts
           /\ Holder /\ ServerStateOK /\ ~misused
           /\ Assigned /\ ClosedLast /\ Unheard /\ Accounted /\ EndedReading
<1>1. TypeOK /\ InOrder
  BY DEF Ready, PoolInv, AccountInv, InOrderOrMisused
<1>2. Len(taken) \in Nat /\ Len(payloads) \in Nat /\ inserted \in Nat
  BY <1>1, LenProperties DEF TypeOK
<1>3. Len(taken) <= inserted
  BY <1>1, <1>2 DEF InOrder
<1> QED
  BY <1>1, <1>2, <1>3, WorkQueueAssumption
     DEF Ready, PoolInv, Followed, TypeOK, Threads, WithinBound

Locked == \E p \in Producers : pc[p] = "locked"

\* A connection that is not counted yet was accepted under the mutex, or never.
LEMMA UnheardStep ==
    ASSUME Ready, [Next]_vars, NEW n \in Connections, n > inserted'
    PROVE  /\ n > inserted
           /\ n = inserted + 1 /\ Locked => n = inserted' + 1 /\ Locked'
<1>0. /\ inserted \in Nat /\ n \in Int /\ Workers \cap Producers = {}
      /\ pc \in [Threads -> WorkerPlaces \cup ProducerPlaces]
      /\ Workers \subseteq Threads /\ Producers \subseteq Threads
  BY Facts DEF Connections
<1>1. ASSUME NEW w \in Workers, GetWork(w) PROVE inserted' = inserted /\ Locked' = Locked
  <2>1. inserted' = inserted
    BY <1>1 DEF GetWork, Lock, Wait, WakeSpuriously, Relock, Take, TakeFromEmpty,
                Unlock, Done, queueVars
  <2>2. \A p \in Producers : pc'[p] = pc[p]
    BY <1>0, <1>1 DEF GetWork, Lock, Wait, WakeSpuriously, Relock, Take,
                      TakeFromEmpty, Unlock, Done, Goto
  <2> QED
    BY <2>1, <2>2 DEF Locked
<1>2. ASSUME NEW p \in Producers, Push(p) PROVE inserted' = inserted + 1
  BY <1>2 DEF Push
<1>3. ASSUME NEW p \in Producers, InsertLock(p) \/ InsertUnlock(p) \/ Signal(p)
      PROVE  inserted' = inserted /\ (Locked => Locked')
  <2>1. inserted' = inserted
    BY <1>3 DEF InsertLock, InsertUnlock, Signal, queueVars
  <2>2. \A q \in Producers : pc[q] = "locked" => pc'[q] = "locked"
    BY <1>0, <1>3 DEF InsertLock, InsertUnlock, Signal, Goto, Waiting
  <2> QED
    BY <2>1, <2>2 DEF Locked
<1>4. CASE UNCHANGED vars
  BY <1>0, <1>4 DEF vars, queueVars, Locked
<1> QED
  BY <1>0, <1>1, <1>2, <1>3, <1>4 DEF Next, InsertWork

\* A step of the queue that no conversation notices.
LEMMA QueueKeeps ==
    ASSUME Ready, [Next]_vars, UNCHANGED <<serverVars, taken>>,
           \A w \in Workers : Working(w)' <=> Working(w),
           \A w \in Workers : InHand(w)' <=> InHand(w)
    PROVE  Followed'
<1>0. UNCHANGED <<program, conn, place, ended, client, said, toServer, shut, taken>>
  BY DEF serverVars, workerVars, clientVars, wireVars
<1>1. Assigned /\ ClosedLast /\ Accounted /\ EndedReading
  BY Facts
<1>2. \A w \in Workers : Serving(w)' <=> Serving(w)
  BY <1>0 DEF Serving, Working
<1>3. Assigned'
  BY <1>0, <1>1 DEF Assigned
<1>4. ClosedLast'
  BY <1>0, <1>1, <1>2 DEF ClosedLast
<1>5. Unheard'
  BY <1>0, Facts, UnheardStep DEF Unheard, Locked
<1>6. Accounted'
  BY <1>0, <1>1, <1>2 DEF Accounted
<1>7. EndedReading'
  BY <1>0, <1>1 DEF EndedReading
<1> QED
  BY <1>3, <1>4, <1>5, <1>6, <1>7 DEF Followed

LEMMA TakeKeeps ==
    ASSUME Ready, NEW w \in Workers, Take(w), UNCHANGED serverVars
    PROVE  Followed'
<1>0. /\ UNCHANGED <<program, conn, place, ended, client, said, toServer, shut>>
      /\ inserted' = inserted /\ pc' = [pc EXCEPT ![w] = "taken"]
  BY DEF serverVars, workerVars, clientVars, wireVars, Take, Goto
<1>1. Assigned /\ ClosedLast /\ Accounted /\ EndedReading
  BY Facts
<1>2. Len(taken') = Len(taken) + 1 /\ Len(taken) \in Nat /\ Len(taken) < inserted
  <2>1. TypeOK /\ InOrder
    BY DEF Ready, PoolInv, AccountInv, InOrderOrMisused
  <2>2. taken \in Seq(Nat) /\ taken' = Append(taken, Len(taken) + 1)
        /\ Len(taken) < inserted
    BY <2>1, InOrderTake DEF TypeOK
  <2> QED
    BY <2>2, AppendProperties, LenProperties
<1>3. \A v \in Workers : Working(v)' <=> Working(v)
  BY <1>0, Facts DEF Working, Take
<1>4. \A v \in Workers : InHand(v)' => v = w
  BY <1>0, Facts DEF InHand, Take, Holder
<1>5. \A v \in Workers : Serving(v)' <=> Serving(v)
  BY <1>0, <1>3 DEF Serving, Working
<1>6. Assigned'
  BY <1>0, <1>1, <1>2, <1>3, <1>4 DEF Assigned
<1>7. ClosedLast'
  <2>1. Len(taken') \in Connections /\ Len(taken') \notin 1..Len(taken)
    BY <1>2, Facts DEF Connections
  <2> QED
    BY <1>0, <1>1, <1>2, <1>4, <1>5, <2>1 DEF ClosedLast
<1>8. Unheard'
  <2>1. [Next]_vars
    BY DEF Next, GetWork
  <2> QED
    BY <1>0, <2>1, Facts, UnheardStep DEF Unheard, Locked
<1>9. Accounted' /\ EndedReading'
  <2>1. Accounted'
    BY <1>0, <1>1, <1>5 DEF Accounted
  <2>2. EndedReading'
    BY <1>0, <1>1 DEF EndedReading
  <2> QED
    BY <2>1, <2>2
<1> QED
  BY <1>6, <1>7, <1>8, <1>9 DEF Followed

LEMMA AcceptKeeps ==
    ASSUME Ready, NEW p \in Producers, Accept(p)
    PROVE  Followed'
<1> DEFINE k == inserted + 1
<1>0. /\ UNCHANGED <<program, conn, place, ended, toServer, shut, taken, inserted>>
      /\ mutex = Nobody /\ pc[p] = "idle" /\ pc' = [pc EXCEPT ![p] = "locked"]
      /\ inserted < MaxInserts
  BY DEF Accept, workerVars, wireVars, InsertLock, Acquire, Goto, queueVars
<1>1. PICK c \in {"connected", "none"} :
          /\ client' = [client EXCEPT ![k] = c]
          /\ said' = [said EXCEPT ![k] = 1]
  BY Facts DEF Accept
<1>2. Assigned /\ ClosedLast /\ Accounted /\ EndedReading /\ Unheard
  BY Facts
<1>3. /\ k \in Connections /\ k > inserted /\ k \in Nat
      /\ k \notin 1..Len(taken) /\ inserted \in Nat /\ k # 0
      /\ client \in [Connections -> {"none", "connected", "gone"}]
      /\ said \in [Connections -> Places]
  BY <1>0, Facts DEF Connections, ServerStateOK
<1>4. \A w \in Workers : Working(w)' <=> Working(w)
  BY <1>0, Facts DEF Working
<1>5. \A w \in Workers : InHand(w)' <=> InHand(w)
  BY <1>0, Facts DEF InHand
<1>6. \A w \in Workers : Serving(w)' <=> Serving(w)
  BY <1>0, <1>4 DEF Serving, Working
<1>7. ~Locked /\ Locked'
  <2>1. ~Locked
    BY <1>0, Facts DEF Locked, Holder
  <2>2. pc'[p] = "locked"
    BY <1>0, Facts
  <2> QED
    BY <2>1, <2>2 DEF Locked
<1>8. said[k] = 0
  BY <1>2, <1>3, <1>7 DEF Unheard, Locked
<1>9. Assigned' /\ ClosedLast'
  <2>1. Assigned'
    BY <1>0, <1>2, <1>4, <1>5 DEF Assigned
  <2>2. ClosedLast'
    BY <1>0, <1>2, <1>5, <1>6 DEF ClosedLast
  <2> QED
    BY <2>1, <2>2
<1> HIDE DEF k
<1>10. Unheard'
  <2>1. ASSUME NEW n \in Connections, n > inserted'
        PROVE  said'[n] = 0 \/ (n = inserted' + 1 /\ Locked')
    <3>1. CASE n = k
      BY <1>0, <1>7, <3>1 DEF k
    <3>2. CASE n # k
      <4>1. said'[n] = said[n]
        BY <1>1, <1>3, <3>2
      <4> QED
        BY <1>0, <1>2, <1>7, <2>1, <3>2, <4>1 DEF Unheard, Locked
    <3> QED
      BY <3>1, <3>2
  <2>2. ASSUME NEW n \in Connections, client'[n] = "none"
        PROVE  said'[n] < 2
    <3>1. CASE n = k
      BY <1>1, <1>3, <3>1
    <3>2. CASE n # k
      BY <1>1, <1>2, <1>3, <2>2, <3>2 DEF Unheard
    <3> QED
      BY <3>1, <3>2
  <2> QED
    BY <2>1, <2>2 DEF Unheard, Locked
<1>11. Accounted'
  <2>1. \A n \in Connections : Written(said'[n]) = Written(said[n])
    BY <1>1, <1>3, <1>8 DEF Written
  <2>2. \A w \in Workers : conn[w] \in Connections
    BY Facts DEF ServerStateOK
  <2> QED
    BY <1>0, <1>2, <1>6, <2>1, <2>2 DEF Accounted
<1>12. EndedReading'
  <2>1. \A w \in ended : w \in Workers /\ conn[w] \in 1..Len(taken)
    BY <1>2, Facts DEF Assigned, ServerStateOK
  <2>2. \A w \in ended : conn[w] \in Connections /\ conn[w] # k
    BY <1>3, <2>1, Facts DEF ServerStateOK
  <2> QED
    BY <1>0, <1>1, <1>2, <1>3, <2>2 DEF EndedReading
<1> QED
  BY <1>9, <1>10, <1>11, <1>12 DEF Followed

LEMMA BeginKeeps ==
    ASSUME Ready, NEW w \in Workers, Begin(w)
    PROVE  Followed'
<1> DEFINE k == Len(taken)
<1>0. /\ UNCHANGED <<program, ended, client, said, toServer, shut, taken, inserted>>
      /\ pc[w] = "taken" /\ pc' = [pc EXCEPT ![w] = "working"]
      /\ conn' = [conn EXCEPT ![w] = taken[Len(taken)]]
      /\ place' = [place EXCEPT ![w] = 1]
  BY Facts DEF Begin, clientVars, wireVars, Unlock, Goto, queueVars
<1>1. /\ k \in Connections /\ k \in 1..k /\ taken[k] = k
  BY <1>0, TakenIsOwn DEF Ready, Connections
<1>2. Assigned /\ ClosedLast /\ Accounted /\ EndedReading
  BY Facts
<1>3. \A v \in Workers : Working(v)' <=> Working(v) \/ v = w
  BY <1>0, Facts DEF Working
<1>4. ~Working(w) /\ InHand(w) /\ \A v \in Workers : ~InHand(v)'
  <2>1. \A v \in Workers : InHand(v) => v = w
    BY <1>0, Facts DEF InHand, Holder
  <2> QED
    BY <1>0, <2>1, Facts DEF Working, InHand
<1>5. w \notin ended
  BY <1>2, <1>4 DEF Assigned
<1>6. \A v \in Workers : Serving(v)' <=> Serving(v) \/ v = w
  BY <1>0, <1>3, <1>5 DEF Serving, Working
<1>7. /\ conn \in [Workers -> Connections] /\ place \in [Workers -> Places]
      /\ \A v \in Workers \ {w} : conn'[v] = conn[v] /\ place'[v] = place[v]
      /\ conn'[w] = k /\ place'[w] = 1 /\ ended \subseteq Workers
  BY <1>0, <1>1, Facts DEF ServerStateOK
<1> HIDE DEF k
<1>8. Assigned'
  <2>1. \A v \in Workers : Working(v) => conn[v] \in 1..k /\ conn[v] # k
    BY <1>2, <1>4 DEF Assigned, k
  <2>2. 1..Len(taken)' = 1..k
    BY <1>0 DEF k
  <2> QED
    BY <1>0, <1>1, <1>2, <1>3, <1>4, <1>7, <2>1, <2>2 DEF Assigned
<1>9. ClosedLast'
  BY <1>0, <1>1, <1>2, <1>4, <1>6, <1>7 DEF ClosedLast, k
<1>10. Unheard'
  <2>1. Next
    BY DEF Begin, Next, GetWork
  <2> QED
    BY <1>0, <2>1, Facts, UnheardStep DEF Unheard, Locked
<1>11. Accounted'
  <2> SUFFICES ASSUME program = "server" PROVE Accounted'
    BY <1>0 DEF Accounted
  <2>1. toServer[k] = Written(said[k])
    <3>1. ~shut[k] /\ \A v \in Workers : Serving(v) => conn[v] # k
      BY <1>2, <1>4 DEF ClosedLast, Assigned, Serving, Working, k
    <3> QED
      BY <1>1, <1>2, <3>1 DEF Accounted
  <2>2. Written(said[k]) = Written(said[k]) - ReadUpTo(1)
    BY DEF Written, ReadUpTo
  <2>3. ASSUME NEW v \in Workers, Serving(v)', place'[v] < 5
        PROVE  toServer'[conn'[v]] = Written(said'[conn'[v]]) - ReadUpTo(place'[v])
    <3>1. CASE v = w
      BY <1>0, <1>7, <2>1, <2>2, <3>1
    <3>2. CASE v # w
      BY <1>0, <1>2, <1>6, <1>7, <2>3, <3>2 DEF Accounted
    <3> QED
      BY <3>1, <3>2
  <2>4. ASSUME NEW n \in Connections, ~shut'[n],
               \A v \in Workers : Serving(v)' => conn'[v] # n
        PROVE  toServer'[n] = Written(said'[n])
    <3>1. \A v \in Workers : Serving(v) => conn[v] # n
      BY <1>4, <1>6, <1>7, <2>4 DEF Serving, Working
    <3> QED
      BY <1>0, <1>2, <2>4, <3>1 DEF Accounted
  <2> QED
    BY <2>3, <2>4 DEF Accounted
<1>12. EndedReading'
  BY <1>0, <1>2, <1>5, <1>7 DEF EndedReading
<1> QED
  BY <1>8, <1>9, <1>10, <1>11, <1>12 DEF Followed

\* A worker that makes a call serves its own, open connection.
LEMMA CallFacts ==
    ASSUME Ready, NEW w \in Workers, NEW c, Calls(w, c)
    PROVE  /\ Serving(w) /\ Working(w)
           /\ conn[w] \in Connections /\ conn[w] # 0 /\ ~shut[conn[w]]
           /\ \A v \in Workers : Working(v) /\ v # w => conn[v] # conn[w]
           /\ program = "server" =>
                 /\ place[w] \in 1..4
                 /\ c = "read" => place[w] \in {1, 3, 4}
                 /\ c = "write" => place[w] = 2
<1>0. program \in {"server", "serverFull"} /\ place[w] \in DOMAIN ServerCalls
      /\ w \notin ended /\ ServerCalls[place[w]] = c
  BY Facts DEF Calls, ServerStateOK
<1>1. /\ DOMAIN ServerCalls = 1..ServerEnd - 1
      /\ ServerEnd = IF program = "server" THEN 5 ELSE 7
      /\ program = "server" =>
            /\ ServerCalls[1] = "read" /\ ServerCalls[2] = "write"
            /\ ServerCalls[3] = "read" /\ ServerCalls[4] = "read"
  BY <1>0, CallsOfPrograms
<1>2. place[w] # 0
  BY <1>0, <1>1
<1>3. Working(w) /\ Serving(w)
  BY <1>0, <1>2, Facts DEF Assigned, Serving, Working
<1>4. conn[w] \in 1..Len(taken) /\ conn[w] \in Connections
  BY <1>3, Facts DEF Assigned, ServerStateOK
<1>5. /\ ~shut[conn[w]]
      /\ \A v \in Workers : Working(v) /\ v # w => conn[v] # conn[w]
  BY <1>3, Facts DEF Assigned, ClosedLast
<1> QED
  BY <1>0, <1>1, <1>3, <1>4, <1>5, Facts

\* What a call does to the items on their way fits the places of the two sides.
LEMMA CallKeeps ==
    ASSUME Ready, NEW w \in Workers, NEW c, Calls(w, c),
           UNCHANGED <<vars, program, conn, ended, client, said, shut>>,
           NEW x \in Places, place' = [place EXCEPT ![w] = x],
           NEW y \in Nat, toServer' = [toServer EXCEPT ![conn[w]] = y],
           program = "server" /\ x < 5 =>
               y = toServer[conn[w]] + ReadUpTo(place[w]) - ReadUpTo(x)
    PROVE  Followed'
<1>0. UNCHANGED <<pc, inserted, taken>>
  BY DEF vars, queueVars
<1>1. Assigned /\ ClosedLast /\ Accounted /\ EndedReading /\ Unheard
  BY Facts
<1>2. /\ place \in [Workers -> Places] /\ conn \in [Workers -> Connections]
      /\ toServer \in [Connections -> Nat] /\ ended \subseteq Workers
      /\ said \in [Connections -> Places]
  BY Facts DEF ServerStateOK
<1>3. /\ Serving(w) /\ Working(w) /\ conn[w] \in Connections /\ w \notin ended
      /\ \A v \in Workers : Working(v) /\ v # w => conn[v] # conn[w]
  BY CallFacts DEF Serving
<1>4. \A v \in Workers :
          /\ Working(v)' <=> Working(v)
          /\ InHand(v)' <=> InHand(v)
          /\ Serving(v)' <=> Serving(v)
          /\ Serving(v) => Working(v)
  BY <1>0 DEF Working, InHand, Serving
<1>5. \A v \in Workers \ {w} : place'[v] = place[v]
  BY <1>2
<1>6. Assigned'
  BY <1>0, <1>1, <1>3, <1>4, <1>5 DEF Assigned
<1>7. ClosedLast'
  BY <1>0, <1>1, <1>4 DEF ClosedLast
<1>8. Unheard'
  BY <1>0, <1>1 DEF Unheard
<1>9. EndedReading'
  BY <1>1, <1>2, <1>3, <1>5 DEF EndedReading
<1>10. Accounted'
  <2> SUFFICES ASSUME program = "server" PROVE Accounted'
    BY DEF Accounted
  <2>1. ASSUME NEW v \in Workers, Serving(v), place'[v] < 5
        PROVE  toServer'[conn[v]] = Written(said[conn[v]]) - ReadUpTo(place'[v])
    <3>1. CASE v = w
      <4>1. place'[w] = x /\ toServer'[conn[w]] = y
        BY <1>2, <1>3
      <4>2. y = toServer[conn[w]] + ReadUpTo(place[w]) - ReadUpTo(x)
        BY <2>1, <3>1, <4>1
      <4>3. place[w] < 5
        BY CallFacts
      <4>4. toServer[conn[w]] = Written(said[conn[w]]) - ReadUpTo(place[w])
        BY <1>1, <1>3, <4>3 DEF Accounted
      <4>5. /\ Written(said[conn[w]]) \in Int
            /\ ReadUpTo(place[w]) \in Int /\ ReadUpTo(x) \in Int
        BY DEF Written, ReadUpTo
      <4> QED
        BY <3>1, <4>1, <4>2, <4>4, <4>5
    <3>2. CASE v # w
      <4>1. toServer'[conn[v]] = toServer[conn[v]] /\ place'[v] = place[v]
        BY <1>2, <1>3, <1>4, <1>5, <2>1, <3>2
      <4> QED
        BY <1>1, <2>1, <4>1 DEF Accounted
    <3> QED
      BY <3>1, <3>2
  <2>2. ASSUME NEW n \in Connections, ~shut[n],
               \A v \in Workers : Serving(v) => conn[v] # n
        PROVE  toServer'[n] = Written(said[n])
    <3>1. toServer'[n] = toServer[n]
      BY <1>2, <1>3, <2>2
    <3> QED
      BY <1>1, <2>2, <3>1 DEF Accounted
  <2> QED
    BY <1>4, <2>1, <2>2 DEF Accounted
<1> QED
  BY <1>6, <1>7, <1>8, <1>9, <1>10 DEF Followed

\* What a worker closes is of no other worker.
LEMMA CloseKeeps ==
    ASSUME Ready, NEW w \in Workers, Serving(w), CloseSocket(w),
           UNCHANGED <<program, client, said, taken>>,
           \A v \in Workers : Serving(v)' <=> Serving(v) /\ v # w,
           \A v \in Workers : InHand(v)' <=> InHand(v),
           \A v \in Workers \ {w} : conn'[v] = conn[v] /\ place'[v] = place[v]
    PROVE  ClosedLast' /\ Accounted'
<1>1. Assigned /\ ClosedLast /\ Accounted /\ Unheard
  BY Facts
<1>2. /\ conn[w] \in Connections /\ shut \in [Connections -> BOOLEAN]
      /\ toServer \in [Connections -> Nat]
      /\ shut' = [shut EXCEPT ![conn[w]] = client[conn[w]] # "none"]
      /\ toServer' = [toServer EXCEPT ![conn[w]] = 0]
  BY Facts DEF ServerStateOK, CloseSocket
<1>3. \A v \in Workers : Serving(v) => Working(v)
  BY DEF Serving, Working
<1>4. /\ \A v \in Workers : Serving(v) /\ v # w => conn[v] # conn[w]
      /\ conn[w] \in 1..Len(taken)
      /\ \A v \in Workers : InHand(v) => conn[w] # Len(taken)
  BY <1>1, <1>3 DEF Assigned
<1>5. ClosedLast'
  <2>1. ASSUME NEW n \in Connections, shut'[n] PROVE n \in 1..Len(taken')
    BY <1>1, <1>2, <1>4, <2>1 DEF ClosedLast
  <2>2. ASSUME NEW v \in Workers, Serving(v)' PROVE ~shut'[conn'[v]]
    <3>1. Serving(v) /\ v # w /\ conn'[v] = conn[v] /\ conn[v] # conn[w]
      BY <1>4, <2>2
    <3>2. ~shut[conn[v]] /\ conn[v] \in Connections
      BY <1>1, <3>1, Facts DEF ClosedLast, ServerStateOK
    <3> QED
      BY <1>2, <3>1, <3>2
  <2>3. ASSUME NEW v \in Workers, InHand(v)' PROVE ~shut'[Len(taken')]
    <3>1. ~shut[Len(taken)] /\ conn[w] # Len(taken) /\ Len(taken) \in Connections
      BY <1>1, <1>4, <2>3, Facts DEF ClosedLast, Connections
    <3> QED
      BY <1>2, <3>1
  <2> QED
    BY <2>1, <2>2, <2>3 DEF ClosedLast
<1>6. Accounted'
  <2> SUFFICES ASSUME program = "server" PROVE Accounted'
    BY DEF Accounted
  <2>1. ASSUME NEW v \in Workers, Serving(v)', place'[v] < 5
        PROVE  toServer'[conn'[v]] = Written(said[conn'[v]]) - ReadUpTo(place'[v])
    <3>1. /\ Serving(v) /\ conn'[v] = conn[v] /\ conn[v] # conn[w]
          /\ place'[v] = place[v] /\ conn[v] \in Connections
      BY <1>4, <2>1, Facts DEF ServerStateOK
    <3>2. toServer'[conn[v]] = toServer[conn[v]]
      BY <1>2, <3>1
    <3> QED
      BY <1>1, <2>1, <3>1, <3>2 DEF Accounted
  <2>2. ASSUME NEW n \in Connections, ~shut'[n],
               \A v \in Workers : Serving(v)' => conn'[v] # n
        PROVE  toServer'[n] = Written(said[n])
    <3>1. CASE n = conn[w]
      <4>1. client[n] = "none" /\ toServer'[n] = 0
        BY <1>2, <2>2, <3>1
      <4>2. said[n] < 2
        BY <1>1, <4>1 DEF Unheard
      <4> QED
        BY <4>1, <4>2 DEF Written
    <3>2. CASE n # conn[w]
      <4>1. toServer'[n] = toServer[n] /\ ~shut[n]
        BY <1>2, <2>2, <3>2
      <4>2. \A v \in Workers : Serving(v) => conn[v] # n
        BY <2>2, <3>2
      <4> QED
        BY <1>1, <4>1, <4>2 DEF Accounted
    <3> QED
      BY <3>1, <3>2
  <2> QED
    BY <2>1, <2>2 DEF Accounted
<1> QED
  BY <1>5, <1>6

LEMMA ServesKeeps ==
    ASSUME Ready, NEW w \in Workers, Serves(w)
    PROVE  Followed'
<1>0. /\ Assigned /\ ClosedLast /\ Accounted /\ EndedReading /\ Unheard
      /\ ServerStateOK
  BY Facts
<1>1. /\ place \in [Workers -> Places] /\ conn \in [Workers -> Connections]
      /\ toServer \in [Connections -> Nat] /\ ended \subseteq Workers
      /\ client \in [Connections -> {"none", "connected", "gone"}]
      /\ conn[w] \in Connections /\ toServer[conn[w]] \in Nat
      /\ program \in {"server", "serverFull"}
  BY <1>0 DEF ServerStateOK
<1>2. /\ ServerEnd \in Places /\ ~(ServerEnd < 5)
      /\ \A k \in DOMAIN ServerCalls : k + 1 \in Places /\ k \in Int
      /\ DOMAIN ServerCalls = 1..ServerEnd - 1
      /\ program = "server" => ServerEnd = 5
  <2>1. /\ ServerEnd \in {5, 7} /\ DOMAIN ServerCalls = 1..ServerEnd - 1
        /\ program = "server" => ServerEnd = 5
    BY <1>1, CallsOfPrograms
  <2> QED
    BY <2>1 DEF Places
<1> DEFINE c == conn[w]
<1>3. CASE WorkerReads(w)
  <2>1. /\ Calls(w, "read") /\ toServer[c] > 0
        /\ UNCHANGED <<vars, program, conn, ended, client, said, shut>>
        /\ toServer' = [toServer EXCEPT ![c] = toServer[c] - 1]
        /\ toServer[c] - 1 \in Nat
    BY <1>1, <1>3 DEF WorkerReads, clientVars
  <2>2. CASE GoOn(w)
    <3>1. /\ place' = [place EXCEPT ![w] = place[w] + 1]
          /\ place[w] + 1 \in Places
      BY <1>2, <2>1, <2>2 DEF GoOn, Calls
    <3>2. program = "server" /\ place[w] + 1 < 5 =>
              toServer[c] - 1
                = toServer[c] + ReadUpTo(place[w]) - ReadUpTo(place[w] + 1)
      <4>1. program = "server" => place[w] \in {1, 3, 4}
        BY <2>1, CallFacts
      <4> QED
        BY <1>1, <4>1 DEF ReadUpTo
    <3> HIDE DEF c
    <3> QED
      BY <2>1, <3>1, <3>2, CallKeeps DEF c
  <2>3. CASE GiveUp(w)
    <3>1. place' = [place EXCEPT ![w] = ServerEnd]
      BY <2>3 DEF GiveUp
    <3> HIDE DEF c
    <3> QED
      BY <1>2, <2>1, <3>1, CallKeeps DEF c
  <2> QED
    BY <1>3, <2>2, <2>3 DEF WorkerReads
<1>4. CASE WorkerWrites(w) \/ WorkerWritesInVain(w) \/ BrokenPipe(w)
  <2>1. /\ Calls(w, "write")
        /\ UNCHANGED <<vars, program, conn, ended, client, said, shut>>
        /\ toServer' = [toServer EXCEPT ![c] = toServer[c]]
    BY <1>1, <1>4
       DEF WorkerWrites, WorkerWritesInVain, BrokenPipe, clientVars, workerVars, wireVars
  <2>2. CASE GoOn(w)
    <3>1. /\ place' = [place EXCEPT ![w] = place[w] + 1]
          /\ place[w] + 1 \in Places
      BY <1>2, <2>1, <2>2 DEF GoOn, Calls
    <3>2. program = "server" =>
              toServer[c] = toServer[c] + ReadUpTo(place[w]) - ReadUpTo(place[w] + 1)
      <4>1. program = "server" => place[w] = 2
        BY <2>1, CallFacts
      <4> QED
        BY <1>1, <4>1 DEF ReadUpTo
    <3> HIDE DEF c
    <3> QED
      BY <1>1, <2>1, <3>1, <3>2, CallKeeps DEF c
  <2>3. CASE GiveUp(w)
    <3>1. place' = [place EXCEPT ![w] = ServerEnd]
      BY <2>3 DEF GiveUp
    <3> HIDE DEF c
    <3> QED
      BY <1>1, <1>2, <2>1, <3>1, CallKeeps DEF c
  <2>4. CASE BrokenPipe(w)
    <3>1. place' = [place EXCEPT ![w] = place[w]] /\ place[w] \in Places
      BY <1>1, <2>4 DEF BrokenPipe, workerVars
    <3>2. toServer[c] = toServer[c] + ReadUpTo(place[w]) - ReadUpTo(place[w])
      BY <1>1 DEF ReadUpTo
    <3> HIDE DEF c
    <3> QED
      BY <1>1, <2>1, <3>1, <3>2, CallKeeps DEF c
  <2> QED
    BY <1>4, <2>2, <2>3, <2>4 DEF WorkerWrites, WorkerWritesInVain
<1>5. CASE WorkerReadFails(w)
  <2>1. /\ Calls(w, "read") /\ toServer[c] = 0 /\ client[c] # "connected"
        /\ UNCHANGED <<vars, program, conn, client, said>>
        /\ UNCHANGED <<pc, taken, inserted>>
    BY <1>5 DEF WorkerReadFails, Connected, clientVars, vars, queueVars
  <2>2. CASE /\ program = "server" /\ place[w] = Len(ServerCalls)
             /\ ended' = ended \cup {w} /\ CloseSocket(w) /\ UNCHANGED place
    <3>1. /\ Serving(w) /\ Working(w) /\ w \notin ended /\ place[w] = 4
      BY <1>2, <2>1, <2>2, CallFacts DEF Serving, ServerEnd
    <3>2. \A v \in Workers : /\ Serving(v)' <=> Serving(v) /\ v # w
                             /\ InHand(v)' <=> InHand(v)
                             /\ Working(v)' <=> Working(v)
      BY <2>1, <2>2 DEF Serving, InHand, Working
    <3>3. ClosedLast' /\ Accounted'
      BY <2>1, <2>2, <3>1, <3>2, CloseKeeps
    <3>4. Assigned'
      BY <1>0, <2>1, <2>2, <3>1, <3>2 DEF Assigned
    <3>5. Unheard'
      BY <1>0, <2>1 DEF Unheard
    <3>6. said[c] = 4 /\ client[c] = "gone"
      <4>1. toServer[c] = Written(said[c]) - ReadUpTo(4)
        BY <1>0, <2>2, <3>1 DEF Accounted
      <4>2. said[c] = 4
        BY <2>1, <4>1 DEF Written, ReadUpTo
      <4>3. client[c] # "none"
        BY <1>0, <1>1, <4>2 DEF Unheard
      <4> QED
        BY <1>1, <2>1, <4>2, <4>3
    <3>7. EndedReading'
      BY <1>0, <2>1, <2>2, <3>1, <3>6 DEF EndedReading
    <3> QED
      BY <3>3, <3>4, <3>5, <3>7 DEF Followed
  <2>3. CASE GiveUp(w) /\ UNCHANGED <<ended, wireVars>>
    <3>1. /\ place' = [place EXCEPT ![w] = ServerEnd] /\ UNCHANGED <<ended, shut>>
          /\ toServer' = [toServer EXCEPT ![c] = toServer[c]]
      BY <1>1, <2>3 DEF GiveUp, wireVars
    <3> HIDE DEF c
    <3> QED
      BY <1>1, <1>2, <2>1, <3>1, CallKeeps DEF c
  <2> QED
    BY <1>5, <2>2, <2>3 DEF WorkerReadFails
<1>6. CASE NextTurn(w)
  <2>1. /\ place[w] = ServerEnd /\ pc[w] = "working"
        /\ pc' = [pc EXCEPT ![w] = "idle"] /\ CloseSocket(w)
        /\ conn' = [conn EXCEPT ![w] = 0] /\ place' = [place EXCEPT ![w] = 0]
        /\ UNCHANGED <<program, ended, client, said, taken, inserted>>
    BY <1>6 DEF NextTurn, Done, Goto, clientVars, queueVars
  <2>2. w \notin ended
    BY <1>0, <1>2, <2>1 DEF EndedReading
  <2>3. /\ Serving(w) /\ Working(w)
        /\ \A v \in Workers \ {w} : conn'[v] = conn[v] /\ place'[v] = place[v]
        /\ place'[w] = 0
    BY <1>1, <2>1, <2>2 DEF Serving, Working
  <2>4. /\ \A v \in Workers : Working(v)' <=> Working(v) /\ v # w
        /\ \A v \in Workers : InHand(v)' <=> InHand(v)
    BY <2>1, Facts DEF Working, InHand
  <2>5. \A v \in Workers : Serving(v)' <=> Serving(v) /\ v # w
    BY <2>1, <2>4 DEF Serving, Working
  <2>6. ClosedLast' /\ Accounted'
    BY <2>1, <2>3, <2>4, <2>5, CloseKeeps
  <2>7. Assigned'
    BY <1>0, <2>1, <2>2, <2>3, <2>4 DEF Assigned
  <2>8. Unheard'
    <3>1. Next
      BY <1>6 DEF NextTurn, Next, GetWork
    <3> QED
      BY <1>0, <2>1, <3>1, UnheardStep DEF Unheard, Locked
  <2>9. EndedReading'
    BY <1>0, <1>1, <2>1, <2>2, <2>3 DEF EndedReading
  <2> QED
    BY <2>6, <2>7, <2>8, <2>9 DEF Followed
<1> QED
  BY <1>3, <1>4, <1>5, <1>6 DEF Serves

LEMMA ClientKeeps ==
    ASSUME Ready, NEW n \in Connections,
           ClientWrites(n) \/ ClientReads(n) \/ Go(n)
    PROVE  Followed'
<1>0. /\ Assigned /\ ClosedLast /\ Accounted /\ EndedReading /\ Unheard
      /\ ServerStateOK
  BY Facts
<1>1. /\ conn \in [Workers -> Connections] /\ ended \subseteq Workers
      /\ toServer \in [Connections -> Nat] /\ said \in [Connections -> Places]
      /\ client \in [Connections -> {"none", "connected", "gone"}]
      /\ program \in {"server", "serverFull"}
  BY <1>0 DEF ServerStateOK
<1>2. /\ UNCHANGED <<vars, program, conn, place, ended, shut>>
      /\ UNCHANGED <<pc, inserted, taken>> /\ client[n] = "connected"
  BY DEF ClientWrites, ClientReads, Go, ClientComesTo, Connected, workerVars,
         vars, queueVars
<1>3. \A v \in Workers : /\ Working(v)' <=> Working(v)
                         /\ InHand(v)' <=> InHand(v)
                         /\ Serving(v)' <=> Serving(v)
  BY <1>2 DEF Working, InHand, Serving
<1>4. Assigned' /\ ClosedLast'
  <2>1. Assigned'
    BY <1>0, <1>2, <1>3 DEF Assigned
  <2>2. ClosedLast'
    BY <1>0, <1>2, <1>3 DEF ClosedLast
  <2> QED
    BY <2>1, <2>2
<1>5. \A v \in ended : conn[v] # n
  BY <1>0, <1>2 DEF EndedReading
<1>6. CASE Go(n)
  <2>1. /\ UNCHANGED <<said, toServer>>
        /\ client' = [client EXCEPT ![n] = "gone"]
    BY <1>6 DEF Go
  <2>2. Unheard'
    <3>1. \A m \in Connections : client'[m] = "none" => client[m] = "none"
      BY <1>1, <2>1
    <3> QED
      BY <1>0, <1>2, <2>1, <3>1 DEF Unheard
  <2>3. Accounted'
    BY <1>0, <1>2, <1>3, <2>1 DEF Accounted
  <2>4. EndedReading'
    BY <1>0, <1>1, <1>2, <1>5, <2>1 DEF EndedReading
  <2> QED
    BY <1>4, <2>2, <2>3, <2>4 DEF Followed
<1>7. CASE ClientWrites(n) \/ ClientReads(n)
  <2>1. /\ client' = client /\ said' = [said EXCEPT ![n] = said[n] + 1]
        /\ said[n] \in DOMAIN ClientCalls
    BY <1>7 DEF ClientWrites, ClientReads, ClientComesTo
  <2>2. /\ said[n] # 0
        /\ \A m \in Connections \ {n} : said'[m] = said[m]
    BY <1>1, <2>1, CallsOfPrograms
  <2>3. Unheard'
    <3>1. ASSUME NEW m \in Connections, m > inserted
          PROVE  said'[m] = 0 \/ (m = inserted + 1 /\ Locked)
      BY <1>0, <2>2, <3>1 DEF Unheard, Locked
    <3>2. ASSUME NEW m \in Connections, client[m] = "none" PROVE said'[m] < 2
      BY <1>0, <1>2, <2>2, <3>2 DEF Unheard
    <3> QED
      BY <1>2, <2>1, <3>1, <3>2 DEF Unheard, Locked
  <2>4. EndedReading'
    BY <1>0, <1>1, <1>2, <1>5, <2>1, <2>2 DEF EndedReading
  <2>5. /\ \A m \in Connections \ {n} : toServer'[m] = toServer[m]
        /\ program = "server" /\ ~shut[n] =>
              toServer'[n] - toServer[n] = Written(said'[n]) - Written(said[n])
    <3>1. \A m \in Connections \ {n} : toServer'[m] = toServer[m]
      BY <1>1, <1>7 DEF ClientWrites, ClientReads
    <3>2. ASSUME program = "server", ~shut[n]
          PROVE  toServer'[n] - toServer[n] = Written(said'[n]) - Written(said[n])
      <4>1. /\ ClientCalls[1] = "write" /\ ClientCalls[2] = "read"
            /\ ClientCalls[3] = "write" /\ ClientCalls[4] = "write"
            /\ said[n] \in 1..4 /\ said'[n] = said[n] + 1
        BY <1>1, <2>1, <3>2, CallsOfPrograms
      <4>2. CASE ClientWrites(n)
        <5>1. said[n] \in {1, 3, 4}
          BY <4>1, <4>2 DEF ClientWrites, ClientComesTo
        <5>2. toServer'[n] = toServer[n] + 1 /\ toServer[n] \in Nat
          BY <1>1, <3>2, <4>2 DEF ClientWrites
        <5> QED
          BY <4>1, <5>1, <5>2 DEF Written
      <4>3. CASE ClientReads(n)
        <5>1. said[n] = 2
          BY <4>1, <4>3 DEF ClientReads, ClientComesTo
        <5>2. toServer'[n] = toServer[n] /\ toServer[n] \in Nat
          BY <1>1, <4>3 DEF ClientReads
        <5> QED
          BY <4>1, <5>1, <5>2 DEF Written
      <4> QED
        BY <1>7, <4>2, <4>3
    <3> QED
      BY <3>1, <3>2
  <2>6. Accounted'
    <3> SUFFICES ASSUME program = "server" PROVE Accounted'
      BY <1>2 DEF Accounted
    <3>0. /\ \A m \in Connections : toServer'[m] \in Int /\ toServer[m] \in Int
          /\ \A x : Written(x) \in Int /\ ReadUpTo(x) \in Int
      <4>1. \A m \in Connections : toServer'[m] \in Int /\ toServer[m] \in Int
        BY <1>1, <1>7 DEF ClientWrites, ClientReads
      <4> QED
        BY <4>1 DEF Written, ReadUpTo
    <3>1. ASSUME NEW v \in Workers, Serving(v), place[v] < 5
          PROVE  toServer'[conn[v]] = Written(said'[conn[v]]) - ReadUpTo(place[v])
      <4>1. /\ toServer[conn[v]] = Written(said[conn[v]]) - ReadUpTo(place[v])
            /\ ~shut[conn[v]] /\ conn[v] \in Connections
        BY <1>0, <1>1, <3>1 DEF Accounted, ClosedLast
      <4>2. CASE conn[v] = n
        BY <2>5, <3>0, <4>1, <4>2
      <4>3. CASE conn[v] # n
        BY <2>2, <2>5, <4>1, <4>3
      <4> QED
        BY <4>2, <4>3
    <3>2. ASSUME NEW m \in Connections, ~shut[m],
                 \A v \in Workers : Serving(v) => conn[v] # m
          PROVE  toServer'[m] = Written(said'[m])
      <4>1. toServer[m] = Written(said[m])
        BY <1>0, <3>2 DEF Accounted
      <4>2. CASE m = n
        BY <2>5, <3>0, <3>2, <4>1, <4>2
      <4>3. CASE m # n
        BY <2>2, <2>5, <4>1, <4>3
      <4> QED
        BY <4>2, <4>3
    <3> QED
      BY <1>2, <1>3, <3>1, <3>2 DEF Accounted
  <2> QED
    BY <1>4, <2>3, <2>4, <2>6 DEF Followed
<1> QED
  BY <1>6, <1>7

LEMMA FollowedStep ==
    ASSUME Ready, [ServerNext]_allVars, ~misused'
    PROVE  Followed'
<1>0. [Next]_vars
  BY PoolStep
<1>1. ASSUME NEW p \in Producers, Accept(p) PROVE Followed'
  BY <1>1, AcceptKeeps
<1>2. ASSUME NEW p \in Producers, Insert(p) PROVE Followed'
  <2>1. UNCHANGED <<serverVars, taken>>
    BY <1>2 DEF Insert, Push, InsertUnlock, Signal, queueVars
  <2>2. \A w \in Workers : Working(w)' <=> Working(w)
    BY <1>2, Facts DEF Insert, Push, InsertUnlock, Signal, Goto, Waiting, Working
  <2>3. \A w \in Workers : InHand(w)' <=> InHand(w)
    BY <1>2, Facts DEF Insert, Push, InsertUnlock, Signal, Goto, Waiting, InHand
  <2> QED
    BY <1>0, <2>1, <2>2, <2>3, QueueKeeps
<1>3. ASSUME NEW w \in Workers, AskForWork(w) PROVE Followed'
  <2>1. CASE Take(w)
    BY <1>3, <2>1, TakeKeeps DEF AskForWork
  <2>2. CASE Lock(w) \/ Wait(w) \/ WakeSpuriously(w) \/ Relock(w)
    <3>1. UNCHANGED <<serverVars, taken>>
      BY <1>3, <2>2 DEF AskForWork, Lock, Wait, WakeSpuriously, Relock, queueVars
    <3>2. \A v \in Workers : Working(v)' <=> Working(v)
      BY <2>2, Facts DEF Lock, Wait, WakeSpuriously, Relock, Goto, Working
    <3>3. \A v \in Workers : InHand(v)' <=> InHand(v)
      BY <2>2, Facts DEF Lock, Wait, WakeSpuriously, Relock, Goto, InHand
    <3> QED
      BY <1>0, <3>1, <3>2, <3>3, QueueKeeps
  <2> QED
    BY <1>3, <2>1, <2>2 DEF AskForWork
<1>4. ASSUME NEW w \in Workers PROVE ~AskInVain(w) /\ ~AnyTurn(w)
  BY Facts DEF AskInVain, TakeFromEmpty, AnyTurn
<1>5. ASSUME NEW w \in Workers, Begin(w) PROVE Followed'
  BY <1>5, BeginKeeps
<1>6. ASSUME NEW w \in Workers, Serves(w) PROVE Followed'
  BY <1>6, ServesKeeps
<1>7. ASSUME NEW n \in Connections, ClientWrites(n) \/ ClientReads(n) \/ Go(n)
      PROVE  Followed'
  BY <1>7, ClientKeeps
<1>8. CASE UNCHANGED allVars
  <2>1. UNCHANGED <<serverVars, pc, taken>>
    BY <1>8 DEF allVars, vars, queueVars
  <2>2. \A w \in Workers : Working(w)' <=> Working(w)
    BY <2>1 DEF Working
  <2>3. \A w \in Workers : InHand(w)' <=> InHand(w)
    BY <2>1 DEF InHand
  <2> QED
    BY <1>0, <2>1, <2>2, <2>3, QueueKeeps
<1> QED
  BY <1>1, <1>2, <1>3, <1>4, <1>5, <1>6, <1>7, <1>8 DEF ServerNext

LEMMA FollowedInit == ASSUME ServerInit PROVE ServerStateOK /\ Followed
<1> USE DEF ServerInit, Init
<1>1. 0 \in Connections /\ 0 \in Places
  BY WorkQueueAssumption DEF Connections, Places
<1>2. ServerStateOK
  BY <1>1 DEF ServerStateOK, NoWork, Nowhere, NoItems, NotShut
<1>3. /\ \A w \in Workers : ~Working(w) /\ ~InHand(w) /\ ~Serving(w)
      /\ \A w \in Workers : place[w] = 0
      /\ \A n \in Connections : ~shut[n] /\ said[n] = 0 /\ toServer[n] = 0
      /\ ended = {}
  BY DEF Working, InHand, Serving, Threads, NoWork, NoItems, NotShut
<1>4. Assigned /\ ClosedLast /\ Unheard
  BY <1>3 DEF Assigned, ClosedLast, Unheard
<1>5. Accounted
  <2>1. Written(0) = 0
    BY DEF Written
  <2> QED
    BY <1>3, <2>1 DEF Accounted
<1>6. EndedReading
  BY <1>3 DEF EndedReading
<1> QED
  BY <1>2, <1>4, <1>5, <1>6 DEF Followed

LEMMA ServerInvariant == ServerSpec => []ServerInv
<1>1. ServerInit => ServerInv
  BY PoolInit, FollowedInit DEF ServerInv, ServerInit
<1>2. ASSUME ServerInv, [ServerNext]_allVars PROVE ServerInv'
  <2>1. PoolInv'
    BY <1>2, PoolStep, PoolInvStep DEF ServerInv
  <2>2. ServerStateOK'
    BY <1>2, <2>1, ServerTypeStep DEF ServerInv
  <2>3. misused => misused'
    BY <1>2, PoolStep
       DEF Next, vars, queueVars, GetWork, InsertWork, Lock, Wait,
           WakeSpuriously, Relock, Take, TakeFromEmpty, Unlock, Done,
           InsertLock, Push, InsertUnlock, Signal
  <2>4. misused' \/ Followed'
    BY <1>2, <2>3, FollowedStep DEF ServerInv, Ready
  <2> QED
    BY <2>1, <2>2, <2>4 DEF ServerInv
<1> QED
  BY <1>1, <1>2, PTL DEF ServerSpec
-----------------------------------------------------------------------------
\* The queue, the workers, the clients and what is between them keep their types.
THEOREM ServerTypeCorrect == ServerSpec => []ServerTypeOK
<1>1. ServerInv => ServerTypeOK
  BY DEF ServerInv, ServerTypeOK, PoolInv, AccountInv
<1> QED
  BY <1>1, ServerInvariant, PTL

\* As long as no worker has met an empty queue, a connection has one worker, and
\* is open as long as this worker serves it.
THEOREM OneWorkerTheorem == ServerSpec => []OneWorkerEach
<1>1. ServerInv => OneWorkerEach
  <2> SUFFICES ASSUME ServerInv, ~misused, NEW w \in Workers, Serving(w)
               PROVE  /\ ~shut[conn[w]]
                      /\ \A v \in Workers \ {w} : Serving(v) => conn[v] # conn[w]
    BY DEF OneWorkerEach
  <2>1. Assigned /\ ClosedLast
    BY DEF ServerInv, Followed
  <2> QED
    BY <2>1 DEF Assigned, ClosedLast, Serving, Working
<1> QED
  BY <1>1, ServerInvariant, PTL

\* A worker leaves the pool only by a client of server.cpp that has gone between
\* the size of a message and the message.
THEOREM BrokenMessagesTheorem == ServerSpec => []BrokenMessagesEndWorkers
<1>1. ServerInv => BrokenMessagesEndWorkers
  BY DEF ServerInv, Followed, EndedReading, BrokenMessagesEndWorkers
<1> QED
  BY <1>1, ServerInvariant, PTL
=============================================================================
