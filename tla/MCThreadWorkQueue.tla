------------------------- MODULE MCThreadWorkQueue -------------------------
(***************************************************************************)
(* An instance of ThreadWorkQueue.                                         *)
(***************************************************************************)
EXTENDS ThreadWorkQueue

CONSTANTS w1, w2, p1

TwoWorkers  == {w1, w2}
OneProducer == {p1}
=============================================================================
