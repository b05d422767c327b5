------------------------------ MODULE MCServer ------------------------------
(***************************************************************************)
(* Instances of Server.                                                    *)
(***************************************************************************)
EXTENDS Server

CONSTANTS w1, w2, main

TwoWorkers == {w1, w2}
MainThread == {main}
=============================================================================
