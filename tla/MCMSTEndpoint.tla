--------------------------- MODULE MCMSTEndpoint ---------------------------
(***************************************************************************)
(* Instances of MSTEndpoint.  Lengths 1 and 29 give PDUs of 64 and 96      *)
(* octets, that is 4 and 6 masks: a replayed or damaged PDU of the other   *)
(* size puts the counters out of step by an amount no PDU repairs alone.   *)
(* A counter has three octets of two values, so that every carry and the   *)
(* wrap happen in the few blocks of a run.                                 *)
(***************************************************************************)
EXTENDS MSTEndpoint, TLC

\* Anna sends, Berta receives: long histories in one direction.
OneWayKeys    == Anna :> 0 @@ Berta :> 2
OneWayLengths == Anna :> {1, 29} @@ Berta :> {}
OneWayDamaged == Anna :> {} @@ Berta :> {48, 64, 96}

\* A renewed key exchange, over a transport that repeats but never damages.
RekeyKeys    == Anna :> 0 @@ Berta :> 2
RekeyLengths == Anna :> {1} @@ Berta :> {}
RekeyDamaged == Anna :> {} @@ Berta :> {}
=============================================================================
