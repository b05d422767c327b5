----------------------------- MODULE MCMSTHash -----------------------------
(***************************************************************************)
(* Instances of MSTHash and of the hash its PDUs end with.  The lengths    *)
(* sit on both sides of the boundaries of the padding (28 and 60 fill a    *)
(* word exactly), of the second octet of the length field (255, 256), of   *)
(* the guard of createAuthPlaintext and of the limit of the check.         *)
(***************************************************************************)
EXTENDS MSTHash

\* UIntMax = 511: 443 is the largest length whose PDU size still fits.
LengthsThatFit == {0, 1, 27, 28, 29, 60, 255, 256, 412, 443, 476}

\* 444..475 pass the guard of createAuthPlaintext as well.
LengthsOfTheGuard == {1, 28, 443, 444, 475, 476}

\* Halves of one bit.
MCBegin == <<<<{}, {1}>>, <<{1}, {1}>>>>
=============================================================================
