--------------------------- MODULE SecureChannel ---------------------------
(***************************************************************************)
(* What the MST protocol promises to the two programs that use it, over a  *)
(* transport that may damage, lose, repeat, delay and reorder: a message   *)
(* that is accepted was sent by the partner, no message is accepted twice, *)
(* and messages are accepted in the order they were sent.  Nothing is      *)
(* promised about messages that are never accepted.                        *)
(*                                                                         *)
(* A message is its position in the sequence of what its sender sent.      *)
(***************************************************************************)
EXTENDS Naturals, Sequences

CONSTANTS Anna, Berta      \* the partners, named as in Protocol.txt

Endpoints  == {Anna, Berta}
Partner(e) == IF e = Anna THEN Berta ELSE Anna

VARIABLES sent,        \* sent[e]: how many messages e has sent
          accepted     \* accepted[e]: the partner's messages e accepted

vars == <<sent, accepted>>

Init ==
    /\ sent = [e \in Endpoints |-> 0]
    /\ accepted = [e \in Endpoints |-> << >>]

Send(e) ==
    /\ sent' = [sent EXCEPT ![e] = @ + 1]
    /\ UNCHANGED accepted

\* Message i is newer than everything e accepted so far.
Accept(e, i) ==
    /\ \A k \in DOMAIN accepted[e] : accepted[e][k] < i
    /\ accepted' = [accepted EXCEPT ![e] = Append(@, i)]
    /\ UNCHANGED sent

Next ==
    \E e \in Endpoints :
        \/ Send(e)
        \/ \E i \in 1..sent[Partner(e)] : Accept(e, i)

Spec == Init /\ [][Next]_vars
=============================================================================
