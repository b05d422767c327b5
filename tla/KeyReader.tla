----------------------------- MODULE KeyReader -----------------------------
(***************************************************************************)
(* KeyReader: readPresharedKeys reads lines of a partner number, a colon   *)
(* and a key into a map, readPSKey alone reads the one key of a program's  *)
(* argument.  The reader looks at one character at a time and gets them    *)
(* from a buffer that ::read fills with any part of the file.  An action   *)
(* is a call of getChar and the code up to the next one; the file is what  *)
(* the calls of ::read return.                                             *)
(*                                                                         *)
(* A character is the value of a hexadecimal digit or one of the four      *)
(* below.                                                                  *)
(***************************************************************************)
EXTENDS Octets, Integers, Sequences, FiniteSets, FiniteSetsExt, SequencesExt

CONSTANTS AES_KEY_SIZE,   \* octets of a key: 32
          MaxDigits,      \* of a number: 10
          BufferSize,     \* _readBufferSize: 2000
          HexDigits,      \* the hexadecimal digits that occur, of 0..15
          MaxLines        \* bound of the lines of the file

ASSUME KeyReaderAssumption ==
    /\ AES_KEY_SIZE \in Nat \ {0} /\ MaxDigits \in Nat \ {0}
    /\ BufferSize \in Nat \ {0} /\ MaxLines \in Nat \ {0}
    /\ HexDigits \subseteq 0..15

Colon   == 16
Dash    == 17
Newline == 18
Other   == 19

Characters == HexDigits \cup {Colon, Dash, Newline, Other}

isNumber(c)    == c \in 0..9
isHexNumber(c) == c \in 0..15

\* The characters of the written form of one key.
KeyLength == 3 * AES_KEY_SIZE - 1

VARIABLES
    source,   \* "file" or "argument"
    buffer,   \* _readBuffer from _readPtr to _bufferValid
    place,    \* what the next character is read for, or "done"
    number,   \* partnerNumber
    digits,   \* i of readNumber
    high,     \* valueTwo
    key,      \* the octets of the key so far
    keys,     \* _presharedKeys
    result,   \* what the reader returns
    ended,    \* getChar has found the end
    text      \* history: what ::read has returned, or the argument

numberVars == <<number, digits>>
keyVars    == <<high, key>>
readerVars == <<source, buffer, place, numberVars, keyVars, keys, result, ended, text>>

\* loadOneKeyToBuffer takes arguments of one length only; getChar and readPSKey
\* follow.
ReaderInit ==
    /\ \/ source = "file" /\ text = << >> /\ place = "line"
       \/ source = "argument" /\ text \in [1..KeyLength -> Characters]
          /\ place = "high"
    /\ buffer = text
    /\ number = 0 /\ digits = 0 /\ high = 0 /\ key = << >>
    /\ keys = << >> /\ result = FALSE /\ ended = FALSE

\* What a call of ::read may return.
FileParts == UNION {[1..n -> Characters] : n \in 1..BufferSize}

Newlines(s) == Cardinality({i \in 1..Len(s) : s[i] = Newline})

\* fillBuffer, if the part s of the file is next, and its first character.
FillBuffer(s, c) ==
    /\ source = "file" /\ s \in FileParts
    /\ Newlines(text \o s) < MaxLines
    /\ text' = text \o s
    /\ c = Head(s) /\ buffer' = Tail(s)

\* A getChar that fills the buffer one character early.
GetCharEarly(c) ==
    /\ IF Len(buffer) > 1
       THEN c = Head(buffer) /\ buffer' = Tail(buffer) /\ UNCHANGED text
       ELSE \E s \in FileParts : FillBuffer(s, c)
    /\ UNCHANGED <<source, ended>>

\* getChar gets c.
GetChar(c) ==
    /\ IF buffer # << >>
       THEN c = Head(buffer) /\ buffer' = Tail(buffer) /\ UNCHANGED text
       ELSE \E s \in FileParts : FillBuffer(s, c)
    /\ UNCHANGED <<source, ended>>

Go(p)     == place' = p /\ UNCHANGED result
Return(r) == place' = "done" /\ result' = r

\* getChar fails: a file may end before a line or behind a key.
GetCharFails ==
    /\ place # "done" /\ buffer = << >>
    /\ ended' = TRUE
    /\ Return(place \in {"line", "newline"})
    /\ UNCHANGED <<source, buffer, numberVars, keyVars, keys, text>>
-----------------------------------------------------------------------------
(* readNumber *)

\* The first character of a line.
BeginLine(c) ==
    /\ place = "line" /\ GetChar(c)
    /\ IF isNumber(c) THEN number' = c /\ digits' = 1 /\ Go("digit")
       ELSE number' = 0 /\ digits' = 0 /\ Return(FALSE)
    /\ key' = << >>
    /\ UNCHANGED <<high, keys>>

\* A readNumber without the limit of its digits.
ReadDigitUnlimited(c) ==
    /\ place = "digit" /\ GetChar(c)
    /\ IF isNumber(c)
       THEN /\ number' = c + 10 * number /\ digits' = digits + 1
            /\ Go("digit")
       ELSE /\ IF c = Colon THEN Go("high") ELSE Return(FALSE)
            /\ UNCHANGED numberVars
    /\ UNCHANGED <<keyVars, keys>>

\* The last digit is added without another multiplication.
ReadDigit(c) ==
    /\ place = "digit" /\ GetChar(c)
    /\ IF isNumber(c) /\ digits < MaxDigits
       THEN /\ number' = c + IF digits < MaxDigits - 1 THEN 10 * number ELSE number
            /\ digits' = digits + 1
            /\ Go("digit")
       ELSE /\ IF c = Colon THEN Go("high") ELSE Return(FALSE)
            /\ UNCHANGED numberVars
    /\ UNCHANGED <<keyVars, keys>>
-----------------------------------------------------------------------------
(* readPSKey *)

ReadHigh(c) ==
    /\ place = "high" /\ GetChar(c)
    /\ IF isHexNumber(c) THEN high' = 16 * c /\ Go("low")
       ELSE UNCHANGED high /\ Return(FALSE)
    /\ UNCHANGED <<numberVars, key, keys>>

\* readPresharedKeys enters the key when its last octet is complete.
Complete ==
    IF source = "argument" THEN UNCHANGED keys /\ Return(TRUE)
    ELSE /\ keys' = [p \in DOMAIN keys \cup {number} |->
                       IF p = number THEN key' ELSE keys[p]]
         /\ Go("newline")

ReadLow(c) ==
    /\ place = "low" /\ GetChar(c)
    /\ IF ~isHexNumber(c) THEN UNCHANGED <<key, keys>> /\ Return(FALSE)
       ELSE /\ key' = Append(key, high + c)
            /\ IF Len(key') = AES_KEY_SIZE THEN Complete
               ELSE UNCHANGED keys /\ Go("dash")
    /\ UNCHANGED <<numberVars, high>>

\* A separator that is not looked at closely.
ReadDashOrColon(c) ==
    /\ place = "dash" /\ GetChar(c)
    /\ IF c \in {Dash, Colon} THEN Go("high") ELSE Return(FALSE)
    /\ UNCHANGED <<numberVars, keyVars, keys>>

ReadDash(c) ==
    /\ place = "dash" /\ GetChar(c)
    /\ IF c = Dash THEN Go("high") ELSE Return(FALSE)
    /\ UNCHANGED <<numberVars, keyVars, keys>>

\* A reader that refuses what follows a key.
ReadNewlineOnly(c) ==
    /\ place = "newline" /\ GetChar(c)
    /\ IF c = Newline THEN Go("line") ELSE Return(FALSE)
    /\ UNCHANGED <<numberVars, keyVars, keys>>

\* Behind a key anything but a newline ends the file.
ReadNewline(c) ==
    /\ place = "newline" /\ GetChar(c)
    /\ IF c = Newline THEN Go("line") ELSE Return(TRUE)
    /\ UNCHANGED <<numberVars, keyVars, keys>>

ReaderNext ==
    \/ GetCharFails
    \/ \E c \in Characters :
          \/ BeginLine(c) \/ ReadDigit(c)
          \/ ReadHigh(c) \/ ReadLow(c) \/ ReadDash(c)
          \/ ReadNewline(c)

ReaderSpec == ReaderInit /\ [][ReaderNext]_readerVars
-----------------------------------------------------------------------------
ReaderTypeOK ==
    /\ source \in {"file", "argument"}
    /\ buffer \in Seq(Characters)
    /\ place \in {"line", "digit", "high", "low", "dash", "newline", "done"}
    /\ number \in Nat /\ digits \in 0..MaxDigits
    /\ high \in Octet
    /\ key \in Seq(Octet) /\ Len(key) <= AES_KEY_SIZE
    /\ DOMAIN keys \subseteq Nat
    /\ \A p \in DOMAIN keys : keys[p] \in [1..AES_KEY_SIZE -> Octet]
    /\ result \in BOOLEAN /\ ended \in BOOLEAN
    /\ text \in Seq(Characters)

\* What the reader has been given of the text.
Given == SubSeq(text, 1, Len(text) - Len(buffer))

\* The lines of a text, each with its newline: those that are closed by one, and
\* the one that is still open.
AllClosed(ls) == ls = << >> \/ Last(Last(ls)) = Newline
Closed(ls) == IF AllClosed(ls) THEN ls ELSE Front(ls)
Open(ls)   == IF AllClosed(ls) THEN << >> ELSE Last(ls)

WithCharacter(ls, c) == Append(Closed(ls), Append(Open(ls), c))
LinesOf(s) ==
    LET lines[i \in 0..Len(s)] ==
            IF i = 0 THEN << >> ELSE WithCharacter(lines[i-1], s[i])
    IN  lines[Len(s)]
Lines == LinesOf(Given)

\* The characters of line l, up to the end of its key, are those of a line
\* with a number of n digits, or with -1 those of a key alone.
Fits(l, n) ==
    \A i \in 1..Len(l) :
        /\ i <= n => isNumber(l[i])
        /\ i = n + 1 => l[i] = Colon
        /\ i \in n + 2 .. n + 1 + KeyLength =>
              IF (i - n - 1) % 3 = 0 THEN l[i] = Dash ELSE isHexNumber(l[i])

HasKey(l, n) == Fits(l, n) /\ Len(l) >= n + 1 + KeyLength
KeyOf(l, n)  == [j \in 1..AES_KEY_SIZE |-> 16 * l[n + 3*j - 1] + l[n + 3*j]]

HasEntry(l) == \E n \in 1..MaxDigits : HasKey(l, n)
Digits(l)   == CHOOSE n \in 1..MaxDigits : HasKey(l, n)

\* The decimal value of the first n characters.
Decimal(l, n) ==
    LET value[i \in 0..n] == IF i = 0 THEN 0 ELSE 10 * value[i-1] + l[i]
    IN  value[n]
NumberOf(l) == Decimal(l, Digits(l))

\* The map some lines stand for: the last line of a number counts.
IsTable(map, ls) ==
    /\ DOMAIN map = {NumberOf(ls[i]) : i \in 1..Len(ls)}
    /\ \A i \in 1..Len(ls) :
          (\A j \in i+1..Len(ls) : NumberOf(ls[j]) # NumberOf(ls[i])) =>
              map[NumberOf(ls[i])] = KeyOf(ls[i], Digits(ls[i]))

\* The file is read line by line, however ::read splits it: the map holds the
\* lines before the first malformed one, also when the file is reported as
\* unreadable, each number with its decimal value, as long as no number has
\* all the digits that readNumber takes.
ReadsTheLines ==
    source = "file" /\ place = "done" =>
        LET read == IF result THEN Lines ELSE Front(Lines) IN
        /\ \A i \in 1..Len(read) : HasEntry(read[i])
        /\ (\A i \in 1..Len(read) : Digits(read[i]) < MaxDigits) =>
              IsTable(keys, read)

\* An argument is read exactly if it is a key, and gives its octets.
ArgumentIsKey ==
    IF result THEN HasKey(Given, -1) /\ key = KeyOf(Given, -1)
    ELSE ~Fits(Given, -1)

\* A file is refused for a malformed line only, at the first character that
\* fits no line or at the end in the middle of one; and it is accepted only
\* when nothing is left of it but what follows a key in its line.
FileIsLines ==
    IF result
    THEN \/ ended
         \/ LET line == Last(Lines) IN
            /\ HasEntry(line) /\ Last(line) # Newline
            /\ Len(line) = Digits(line) + 2 + KeyLength
    ELSE IF ended THEN ~HasEntry(Last(Lines))
         ELSE \A n \in 1..MaxDigits : ~Fits(Last(Lines), n)

\* The reader, of a file (readPresharedKeys) or an argument (readPSKey alone),
\* refuses what is malformed, and nothing else.
RefusesMalformed ==
    place = "done" => IF source = "file" THEN FileIsLines ELSE ArgumentIsKey
=============================================================================
