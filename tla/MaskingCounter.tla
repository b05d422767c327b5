--------------------------- MODULE MaskingCounter ---------------------------
(***************************************************************************)
(* incrementMC of Protocol.h: the masking counter is COUNTER_SIZE octets,  *)
(* the least significant first, and incrementMC carries octet by octet and *)
(* drops the carry of the last one.  MSTEndpoint has the number of blocks  *)
(* in place of these octets, and says that they count the blocks.          *)
(***************************************************************************)
EXTENDS Naturals

CONSTANTS COUNTER_SIZE,    \* 16
          Base             \* values of an octet: 256

ASSUME CounterAssumption == COUNTER_SIZE \in Nat /\ Base \in Nat \ {0}

Positions == 0..COUNTER_SIZE-1

\* The carry that is dropped one octet early.
IncrementMCShort(c) ==
    [i \in Positions |->
        IF \A j \in 0..i-1 : c[j] = Base - 1
        THEN IF i < COUNTER_SIZE - 1 THEN (c[i] + 1) % Base ELSE c[i]
        ELSE c[i]]

\* The loop goes on as long as the octet before it wrapped to zero.
IncrementMC(c) ==
    [i \in Positions |->
        IF \A j \in 0..i-1 : c[j] = Base - 1 THEN (c[i] + 1) % Base ELSE c[i]]

\* The octets of an endpoint that has masked n blocks.
Octets(n) ==
    LET after[k \in 0..n] ==
            IF k = 0 THEN [i \in Positions |-> 0] ELSE IncrementMC(after[k-1])
    IN  after[n]

\* What one is worth at each position, and the number of values of the counter.
Weight[n \in 0..COUNTER_SIZE] == IF n = 0 THEN 1 ELSE Base * Weight[n-1]

\* The number that octets stand for.
Value(c) ==
    LET value[n \in 0..COUNTER_SIZE] ==
            IF n = 0 THEN 0 ELSE value[n-1] + c[n-1] * Weight[n-1]
    IN  value[COUNTER_SIZE]
=============================================================================
