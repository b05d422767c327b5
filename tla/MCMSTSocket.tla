---------------------------- MODULE MCMSTSocket ----------------------------
(***************************************************************************)
(* An instance of MSTSocket.  Lengths 1 and 61 give SecureMessages of 64   *)
(* and 128 octets.  61 is below the limit of write, its SecureMessage      *)
(* above the limit of read; 97 is above the limit of write.                *)
(***************************************************************************)
EXTENDS MSTSocket, TLC

TheLengths == Anna :> {1, 61, 97} @@ Berta :> {1}
=============================================================================
