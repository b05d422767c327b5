----------------------------- MODULE MCSession -----------------------------
(***************************************************************************)
(* What a program does before its first message goes out, one after the    *)
(* other: it reads its keys (KeyReader), and if it has a key, AES is       *)
(* called with the keys of a session (AES, MCAES) and PDUs are laid out    *)
(* and checked (MSTHash).  The three share no state: their order is not    *)
(* interleaved, and one of the many keys that can be read goes on.         *)
(***************************************************************************)
EXTENDS KeyReader, MCAES, MCMSTHash

sessionVars == <<readerVars, aesVars, vars>>

\* The argument whose key is 11-11-11-..., the one that goes on.
KeyText == [i \in 1..KeyLength |-> IF i % 3 = 0 THEN Dash ELSE 1]
KeyRead == text = KeyText /\ place = "done" /\ result

\* The calls of AES differ only where they are reached, and the PDUs follow one
\* of them.
FirstCall == use = SessionKeyHalf /\ block = PublishedInput

SessionInit == ReaderInit /\ AESInit /\ Init /\ (text # KeyText => FirstCall)
SessionNext ==
    \/ ReaderNext /\ UNCHANGED <<aesVars, vars>>
    \/ KeyRead /\ AESNext /\ UNCHANGED <<readerVars, vars>>
    \/ FirstCall /\ call = "done" /\ Next /\ UNCHANGED <<readerVars, aesVars>>
SessionSpec == SessionInit /\ [][SessionNext]_sessionVars
=============================================================================
