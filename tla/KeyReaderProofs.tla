--------------------------- MODULE KeyReaderProofs ---------------------------
(***************************************************************************)
(* KeyReader: that readPresharedKeys reads the lines of a file and         *)
(* readPSKey the key of an argument, and that they refuse exactly what is  *)
(* malformed, for every text, every way in which ::read splits a file, and *)
(* every number of lines, digits and octets.                               *)
(*                                                                         *)
(* The invariant says how the variables and what has been read of the line *)
(* belong together, and that the map is that of the lines before it.  The  *)
(* lines of a text and the value of a number are recursive functions: what *)
(* they compute is proved with the induction of NumberProofs, which is all *)
(* that this module takes from it.                                         *)
(***************************************************************************)
EXTENDS KeyReader, NumberProofs, SequenceTheorems

\* The buffer is the rest of the text.
BufferIsRest ==
    /\ Len(buffer) <= Len(text)
    /\ \A i \in 1..Len(buffer) : buffer[i] = text[Len(text) - Len(buffer) + i]

\* The types, and what they need to be kept: the octet and the key under
\* construction have room for what is read next.
Typed ==
    /\ ReaderTypeOK
    /\ BufferIsRest
    /\ place = "low" => \E h \in 0..15 : high = 16 * h
    /\ place = "digit" => key = << >>
    /\ place \in {"high", "low", "dash"} => Len(key) < AES_KEY_SIZE

\* The line that is being read, and the digits of its number.
Line  == IF source = "file" THEN Open(Lines) ELSE Given
Width == IF source = "file" THEN digits ELSE -1

\* How far the line has been read.
LineLength ==
    CASE place = "digit" -> Width
      [] place = "high"  -> Width + 1 + 3 * Len(key)
      [] place = "low"   -> Width + 2 + 3 * Len(key)
      [] OTHER           -> Width + 3 * Len(key)

\* What has been read of the line fits, and is what the variables hold.
LineRead ==
    place \notin {"line", "done"} =>
        /\ Len(Line) = LineLength
        /\ Fits(Line, Width)
        /\ place = "dash" => Len(key) > 0
        /\ place = "newline" => source = "file" /\ Len(key) = AES_KEY_SIZE
        /\ place = "low" => high = 16 * Line[Len(Line)]
        /\ \A j \in 1..Len(key) :
              key[j] = 16 * Line[Width + 3*j - 1] + Line[Width + 3*j]
        /\ source = "file" =>
              digits > 0 /\ (digits < MaxDigits => number = Decimal(Line, digits))

\* The lines before it are entries, and the map is made of them.
Entries(ls) == \A i \in 1..Len(ls) : HasEntry(ls[i])
Short(ls)   == \A i \in 1..Len(ls) : Digits(ls[i]) < MaxDigits

Entered ==
    source = "file" /\ place # "done" =>
        LET ls == IF place = "newline" THEN Lines ELSE Closed(Lines)
        IN  /\ Entries(ls)
            /\ Short(ls) => IsTable(keys, ls)

\* At the start of a line no line is open; an argument has no lines, and is as
\* long as its key.
Placed ==
    /\ place # "done" => ~ended
    /\ source = "file" /\ place = "line" => AllClosed(Lines)
    /\ source = "argument" =>
          /\ place \in {"high", "low", "dash", "done"}
          /\ Len(text) = KeyLength

IndInv == Typed /\ LineRead /\ Entered /\ Placed /\ ReadsTheLines /\ RefusesMalformed
LEMMA CharacterFacts ==
    /\ \A c \in Characters : c \in Nat
    /\ \A c \in Characters : isHexNumber(c) => c \in 0..15
    /\ \A c : isNumber(c) => c # Colon /\ c # Newline /\ c \in Nat
    /\ \A c : isHexNumber(c) => c # Newline
    /\ Colon # Newline /\ Dash # Newline
  BY KeyReaderAssumption
     DEF Characters, isNumber, isHexNumber, Colon, Dash, Newline, Other

LEMMA GivenFacts ==
    ASSUME ReaderTypeOK, BufferIsRest
    PROVE  /\ Given \in Seq(Characters)
           /\ Len(Given) = Len(text) - Len(buffer)
           /\ \A i \in 1..Len(text) - Len(buffer) : Given[i] = text[i]
<1>1. /\ text \in Seq(Characters) /\ Len(text) \in Nat /\ Len(buffer) \in Nat
      /\ Len(text) - Len(buffer) \in 0..Len(text)
  BY DEF ReaderTypeOK, BufferIsRest
<1> QED
  BY <1>1 DEF Given

\* A call of getChar hands the next character of the text out.
LEMMA GetCharGives ==
    ASSUME ReaderTypeOK, BufferIsRest, NEW c \in Characters, GetChar(c)
    PROVE  /\ text' \in Seq(Characters) /\ buffer' \in Seq(Characters)
           /\ BufferIsRest'
           /\ Given' = Append(Given, c)
           /\ source' = source /\ ended' = ended
           /\ source = "argument" => text' = text /\ buffer # << >>
<1>0. /\ text \in Seq(Characters) /\ Len(text) \in Nat
      /\ buffer \in Seq(Characters) /\ Len(buffer) \in Nat
  BY DEF ReaderTypeOK
<1> DEFINE n == Len(text) - Len(buffer)
<1>1. /\ text' \in Seq(Characters) /\ Len(text') \in Nat
      /\ buffer' \in Seq(Characters) /\ Len(buffer') \in Nat
      /\ Len(text') - Len(buffer') = n + 1
      /\ \A i \in 1..n : text'[i] = text[i]
      /\ text'[n + 1] = c
      /\ BufferIsRest'
      /\ source = "argument" => text' = text /\ buffer # << >>
  <2>1. CASE buffer # << >>
    <3>1. c = Head(buffer) /\ buffer' = Tail(buffer) /\ text' = text
      BY <2>1 DEF GetChar
    <3>2. /\ Len(buffer) > 0 /\ buffer' \in Seq(Characters)
          /\ Len(buffer') = Len(buffer) - 1
          /\ \A i \in 1..Len(buffer') : buffer'[i] = buffer[i + 1]
      BY <1>0, <2>1, <3>1
    <3>3. c = buffer[1] /\ buffer[1] = text[n + 1]
      BY <1>0, <2>1, <3>1, <3>2 DEF BufferIsRest
    <3>4. Len(buffer) <= Len(text)
      BY DEF BufferIsRest
    <3>5. ASSUME NEW i \in 1..Len(buffer')
          PROVE  buffer'[i] = text'[Len(text') - Len(buffer') + i]
      <4>1. i + 1 \in 1..Len(buffer) /\ buffer'[i] = buffer[i + 1]
        BY <1>0, <3>2
      <4>2. buffer[i + 1] = text[Len(text) - Len(buffer) + (i + 1)]
        BY <4>1 DEF BufferIsRest
      <4> QED
        BY <1>0, <3>1, <3>2, <4>1, <4>2
    <3>6. BufferIsRest'
      BY <1>0, <3>1, <3>2, <3>4, <3>5 DEF BufferIsRest
    <3> QED
      BY <1>0, <2>1, <3>1, <3>2, <3>3, <3>6
  <2>2. CASE buffer = << >>
    <3>1. PICK s \in FileParts : FillBuffer(s, c)
      BY <2>2 DEF GetChar
    <3>2. text' = text \o s /\ c = Head(s) /\ buffer' = Tail(s) /\ source = "file"
      BY <3>1 DEF FillBuffer
    <3>3. s \in Seq(Characters) /\ Len(s) \in Nat /\ Len(s) > 0
      BY <3>1, KeyReaderAssumption DEF FileParts
    <3>4. /\ text' \in Seq(Characters) /\ Len(text') = Len(text) + Len(s)
          /\ \A i \in 1..Len(text) : text'[i] = text[i]
          /\ \A i \in 1..Len(s) : text'[Len(text) + i] = s[i]
      BY <1>0, <3>2, <3>3, ConcatProperties
    <3>5. /\ buffer' \in Seq(Characters) /\ Len(buffer') = Len(s) - 1
          /\ \A i \in 1..Len(buffer') : buffer'[i] = s[i + 1]
      BY <3>2, <3>3
    <3>6. Len(buffer) = 0 /\ n = Len(text) /\ c = s[1]
      BY <1>0, <2>2, <3>2, <3>3
    <3>7. ASSUME NEW i \in 1..Len(buffer')
          PROVE  buffer'[i] = text'[Len(text') - Len(buffer') + i]
      <4>1. i + 1 \in 1..Len(s) /\ buffer'[i] = s[i + 1]
        BY <3>3, <3>5
      <4>2. Len(text') - Len(buffer') + i = Len(text) + (i + 1)
        BY <1>0, <3>3, <3>4, <3>5
      <4> QED
        BY <3>4, <4>1, <4>2
    <3>8. BufferIsRest'
      BY <1>0, <3>3, <3>4, <3>5, <3>7 DEF BufferIsRest
    <3>9. text'[n + 1] = c
      BY <3>3, <3>4, <3>6
    <3> QED
      BY <1>0, <3>2, <3>3, <3>4, <3>5, <3>6, <3>8, <3>9
  <2> QED
    BY <2>1, <2>2
<1>2. n \in Nat
  BY <1>0 DEF BufferIsRest
<1>3. Given' = Append(Given, c)
  <2>1. /\ Given \in Seq(Characters) /\ Len(Given) = n
        /\ \A i \in 1..n : Given[i] = text[i]
    BY GivenFacts
  <2>2. /\ Given' \in Seq(Characters) /\ Len(Given') = n + 1
        /\ \A i \in 1..n + 1 : Given'[i] = text'[i]
    BY <1>1, <1>2 DEF Given, BufferIsRest
  <2>3. /\ Append(Given, c) \in Seq(Characters) /\ Len(Append(Given, c)) = n + 1
        /\ \A i \in 1..n : Append(Given, c)[i] = Given[i]
        /\ Append(Given, c)[n + 1] = c
    BY <1>2, <2>1
  <2>4. ASSUME NEW i \in 1..n + 1 PROVE Given'[i] = Append(Given, c)[i]
    <3>1. CASE i = n + 1
      BY <1>1, <2>2, <2>3, <3>1
    <3>2. CASE i # n + 1
      <4>1. i \in 1..n
        BY <1>2, <3>2
      <4> QED
        BY <1>1, <2>1, <2>2, <2>3, <4>1
    <3> QED
      BY <3>1, <3>2
  <2> QED
    BY <2>2, <2>3, <2>4, SeqEqual
<1> QED
  BY <1>1, <1>3 DEF GetChar

LEMMA TypedStep == ASSUME Typed, [ReaderNext]_readerVars PROVE Typed'
<1> USE DEF Typed
<1>1. CASE UNCHANGED readerVars
  BY <1>1 DEF readerVars, numberVars, keyVars, ReaderTypeOK, BufferIsRest
<1>2. CASE GetCharFails
  BY <1>2 DEF GetCharFails, Return, numberVars, keyVars, ReaderTypeOK, BufferIsRest
<1>3. ASSUME NEW c \in Characters,
             \/ BeginLine(c) \/ ReadDigit(c) \/ ReadHigh(c)
             \/ ReadLow(c) \/ ReadDash(c) \/ ReadNewline(c)
      PROVE  Typed'
  <2>0. GetChar(c)
    BY <1>3 DEF BeginLine, ReadDigit, ReadHigh, ReadLow, ReadDash, ReadNewline
  <2>1. /\ text' \in Seq(Characters) /\ buffer' \in Seq(Characters)
        /\ BufferIsRest' /\ source' = source /\ ended' = ended
    BY <2>0, GetCharGives
  <2>2. c \in Nat /\ (isHexNumber(c) => c \in 0..15)
    BY CharacterFacts
  <2> USE DEF ReaderTypeOK, Go, Return, numberVars, keyVars
  <2>3. CASE BeginLine(c)
    <3>1. number' \in Nat /\ digits' \in 0..MaxDigits
      BY <2>2, <2>3, KeyReaderAssumption DEF BeginLine
    <3>2. place' \in {"digit", "done"} /\ result' \in BOOLEAN /\ key' = << >>
      BY <2>3 DEF BeginLine
    <3>4. << >> \in Seq(Octet) /\ Len(<< >>) = 0
      OBVIOUS
    <3>3. high' = high /\ keys' = keys
      BY <2>3 DEF BeginLine
    <3> QED
      BY <2>1, <3>1, <3>2, <3>3, <3>4, KeyReaderAssumption
  <2>4. CASE ReadDigit(c)
    <3>1. number' \in Nat /\ digits' \in 0..MaxDigits
      BY <2>2, <2>4, KeyReaderAssumption DEF ReadDigit
    <3>2. place' \in {"digit", "high", "done"} /\ result' \in BOOLEAN
      BY <2>4 DEF ReadDigit
    <3>3. place' = "high" => Len(key) < AES_KEY_SIZE
      BY <2>4, KeyReaderAssumption DEF ReadDigit
    <3> QED
      BY <2>1, <2>4, <3>1, <3>2, <3>3 DEF ReadDigit
  <2>5. CASE ReadHigh(c)
    <3>1. /\ place' \in {"low", "done"} /\ result' \in BOOLEAN
          /\ high' \in Octet /\ (place' = "low" => \E h \in 0..15 : high' = 16 * h)
      <4>1. CASE isHexNumber(c)
        <5>1. high' = 16 * c /\ place' = "low" /\ result' = result
          BY <2>5, <4>1 DEF ReadHigh
        <5>2. c \in 0..15
          BY <2>2, <4>1
        <5>3. 16 * c \in Octet
          BY <5>2 DEF Octet
        <5> QED
          BY <5>1, <5>2, <5>3
      <4>2. CASE ~isHexNumber(c)
        BY <2>5, <4>2 DEF ReadHigh
      <4> QED
        BY <4>1, <4>2
    <3>2. UNCHANGED <<number, digits, key, keys>> /\ Len(key) < AES_KEY_SIZE
      BY <2>5 DEF ReadHigh
    <3> QED
      BY <2>1, <3>1, <3>2
  <2>6. CASE ReadLow(c)
    <3>1. CASE ~isHexNumber(c)
      BY <2>1, <2>6, <3>1 DEF ReadLow
    <3>2. CASE isHexNumber(c)
      <4>1. high + c \in Octet
        <5>1. PICK h \in 0..15 : high = 16 * h
          BY <2>6 DEF ReadLow
        <5>2. c \in 0..15
          BY <2>2, <3>2
        <5> QED
          BY <5>1, <5>2 DEF Octet
      <4>2. key' = Append(key, high + c) /\ Len(key) < AES_KEY_SIZE
        BY <2>6, <3>2 DEF ReadLow
      <4>3. /\ key' \in Seq(Octet) /\ Len(key') = Len(key) + 1
            /\ Len(key) \in Nat /\ Len(key') <= AES_KEY_SIZE
        BY <4>1, <4>2, KeyReaderAssumption
      <4>4. UNCHANGED <<number, digits, high>>
        BY <2>6 DEF ReadLow
      <4>5. CASE Len(key') = AES_KEY_SIZE
        <5>1. Complete
          BY <2>6, <3>2, <4>5 DEF ReadLow
        <5>2. key' \in [1..AES_KEY_SIZE -> Octet]
          BY <4>3, <4>5
        <5>3. /\ DOMAIN keys' \subseteq Nat
              /\ \A p \in DOMAIN keys' : keys'[p] \in [1..AES_KEY_SIZE -> Octet]
          BY <5>1, <5>2 DEF Complete
        <5>4. place' \in {"newline", "done"} /\ result' \in BOOLEAN
          BY <5>1 DEF Complete
        <5> QED
          BY <2>1, <4>3, <4>4, <5>3, <5>4
      <4>6. CASE Len(key') # AES_KEY_SIZE
        <5>1. keys' = keys /\ place' = "dash" /\ result' = result
          BY <2>6, <3>2, <4>6 DEF ReadLow
        <5>2. Len(key') < AES_KEY_SIZE
          BY <4>3, <4>6, KeyReaderAssumption
        <5> QED
          BY <2>1, <4>3, <4>4, <5>1, <5>2
      <4> QED
        BY <4>5, <4>6
    <3> QED
      BY <3>1, <3>2
  <2>7. CASE ReadDash(c)
    BY <2>1, <2>7 DEF ReadDash
  <2>8. CASE ReadNewline(c)
    BY <2>1, <2>8 DEF ReadNewline
  <2> QED
    BY <1>3, <2>3, <2>4, <2>5, <2>6, <2>7, <2>8
<1> QED
  BY <1>1, <1>2, <1>3 DEF ReaderNext
-----------------------------------------------------------------------------
(* Lines *)

\* The sequences of lines of a text: no line is empty.
Texts == Seq(Seq(Characters) \ {<< >>})

LEMMA EmptyText == << >> \in Texts /\ Closed(<< >>) = << >> /\ Open(<< >>) = << >>
  BY DEF Texts, Closed, Open, AllClosed

LEMMA FrontFacts ==
    ASSUME NEW T, NEW ls \in Seq(T), ls # << >>
    PROVE  /\ Front(ls) \in Seq(T) /\ Len(Front(ls)) = Len(ls) - 1
           /\ \A i \in 1..Len(ls) - 1 : Front(ls)[i] = ls[i]
<1>1. Len(ls) \in Nat /\ Len(ls) > 0 /\ Len(ls) - 1 \in 0..Len(ls)
  OBVIOUS
<1>2. Front(ls) = SubSeq(ls, 1, Len(ls) - 1)
  BY DEF Front
<1>3. /\ SubSeq(ls, 1, Len(ls) - 1) \in Seq(T)
      /\ Len(SubSeq(ls, 1, Len(ls) - 1)) = Len(ls) - 1
      /\ \A i \in 1..Len(ls) - 1 : SubSeq(ls, 1, Len(ls) - 1)[i] = ls[i]
  <2>1. \A i \in 1..Len(ls) - 1 : ls[i] \in T
    BY <1>1
  <2> DEFINE n == Len(ls) - 1
  <2>2. n \in Nat
    BY <1>1
  <2> HIDE DEF n
  <2>3. /\ SubSeq(ls, 1, n) \in Seq(T)
        /\ Len(SubSeq(ls, 1, n)) = IF 1 <= n THEN n - 1 + 1 ELSE 0
        /\ \A i \in 1 .. n - 1 + 1 : SubSeq(ls, 1, n)[i] = ls[1 + i - 1]
    BY <2>1, <2>2, SubSeqProperties DEF n
  <2>4. n - 1 + 1 = n /\ (n < 1 => n = 0) /\ \A i \in 1..n : 1 + i - 1 = i
    BY <2>2
  <2>5. /\ SubSeq(ls, 1, n) \in Seq(T)
        /\ Len(SubSeq(ls, 1, n)) = n
        /\ \A i \in 1..n : SubSeq(ls, 1, n)[i] = ls[i]
    BY <2>2, <2>3, <2>4
  <2> QED
    BY <2>5 DEF n
<1> QED
  BY <1>2, <1>3

LEMMA ClosedTyped ==
    ASSUME NEW ls \in Texts
    PROVE  /\ Closed(ls) \in Texts /\ Open(ls) \in Seq(Characters)
           /\ ~AllClosed(ls) => /\ ls # << >> /\ Closed(ls) = Front(ls)
                                /\ Open(ls) = Last(ls) /\ Open(ls) # << >>
                                /\ ls = Append(Closed(ls), Open(ls))
<1>1. CASE AllClosed(ls)
  BY <1>1 DEF Closed, Open
<1>2. CASE ~AllClosed(ls)
  <2>1. /\ ls # << >> /\ Len(ls) \in Nat /\ Len(ls) > 0
        /\ Closed(ls) = Front(ls) /\ Open(ls) = Last(ls)
    BY <1>2 DEF AllClosed, Closed, Open, Texts
  <2>2. /\ Front(ls) = SubSeq(ls, 1, Len(ls) - 1)
        /\ Last(ls) = ls[Len(ls)]
    BY DEF Front, Last
  <2>3. Last(ls) \in Seq(Characters) \ {<< >>}
    BY <2>1, <2>2 DEF Texts
  <2>4. /\ Front(ls) \in Texts /\ Len(Front(ls)) = Len(ls) - 1
        /\ \A i \in 1..Len(ls) - 1 : Front(ls)[i] = ls[i]
    BY <2>1, FrontFacts DEF Texts
  <2>5. ls = Append(Front(ls), Last(ls))
    <3> DEFINE l == Append(Front(ls), Last(ls))
    <3>1. /\ l \in Texts /\ Len(l) = Len(ls)
          /\ \A i \in 1..Len(ls) - 1 : l[i] = Front(ls)[i]
          /\ l[Len(ls)] = Last(ls)
      BY <2>1, <2>3, <2>4 DEF Texts
    <3>2. ASSUME NEW i \in 1..Len(ls) PROVE l[i] = ls[i]
      <4>1. CASE i = Len(ls)
        BY <3>1, <2>2, <4>1
      <4>2. CASE i # Len(ls)
        <5>1. i \in 1..Len(ls) - 1
          BY <2>1, <4>2
        <5> QED
          BY <3>1, <2>4, <5>1
      <4> QED
        BY <4>1, <4>2
    <3> HIDE DEF l
    <3>3. l = ls
      BY <3>1, <3>2, SeqEqual DEF Texts
    <3> QED
      BY <3>3 DEF l
  <2> QED
    BY <1>2, <2>1, <2>3, <2>4, <2>5
<1> QED
  BY <1>1, <1>2

\* What one more character makes of the lines.
LEMMA CharacterAdded ==
    ASSUME NEW ls \in Texts, NEW c \in Characters, NEW ms, ms = WithCharacter(ls, c)
    PROVE  /\ ms \in Texts /\ ms # << >>
           /\ Len(ms) = Len(Closed(ls)) + 1
           /\ Last(ms) = Append(Open(ls), c) /\ Front(ms) = Closed(ls)
           /\ \A i \in 1..Len(Closed(ls)) : ms[i] = Closed(ls)[i]
           /\ c # Newline => /\ ~AllClosed(ms)
                             /\ Closed(ms) = Closed(ls)
                             /\ Open(ms) = Append(Open(ls), c)
           /\ c = Newline => AllClosed(ms) /\ Closed(ms) = ms /\ Open(ms) = << >>
<1> DEFINE before == Closed(ls)
           line   == Append(Open(ls), c)
<1>1. before \in Texts /\ Open(ls) \in Seq(Characters)
  BY ClosedTyped
<1>2. /\ line \in Seq(Characters) /\ line # << >> /\ Len(line) \in Nat /\ Len(line) > 0
      /\ line[Len(line)] = c
  BY <1>1
<1>3. ms = Append(before, line)
  BY DEF WithCharacter
<1> HIDE DEF before, line
<1>4. /\ ms \in Texts /\ Len(before) \in Nat /\ Len(ms) = Len(before) + 1
      /\ ms[Len(ms)] = line /\ \A i \in 1..Len(before) : ms[i] = before[i]
  BY <1>1, <1>2, <1>3 DEF Texts
<1>5. Last(ms) = line /\ ms # << >>
  BY <1>4 DEF Last, Texts
<1>6. Front(ms) = before
  <2>1. Front(ms) = SubSeq(ms, 1, Len(before))
    BY <1>4 DEF Front
  <2>2. /\ Front(ms) \in Texts /\ Len(Front(ms)) = Len(before)
        /\ \A i \in 1..Len(before) : Front(ms)[i] = ms[i]
    BY <2>1, <1>4 DEF Texts
  <2> QED
    BY <1>1, <1>4, <2>2, SeqEqual DEF Texts
<1>7. Last(line) = c
  BY <1>2 DEF Last
<1>8. AllClosed(ms) <=> c = Newline
  BY <1>5, <1>7 DEF AllClosed
<1> QED
  BY <1>4, <1>5, <1>6, <1>8 DEF Closed, Open, before, line

\* A text is the lines that its characters make one after the other.
IsLines(f, s) ==
    /\ f[0] = << >>
    /\ \A i \in 0..Len(s)-1 : f[i+1] = WithCharacter(f[i], s[i+1])

LEMMA LinesRecursion ==
    ASSUME NEW s \in Seq(Characters)
    PROVE  \E f \in [0..Len(s) -> Texts] : IsLines(f, s) /\ LinesOf(s) = f[Len(s)]
<1> DEFINE N == Len(s)
           next == [p \in Nat \X Texts |->
                       IF p[1] \in 1..N THEN WithCharacter(p[2], s[p[1]]) ELSE p[2]]
           Is(f) == f = [i \in 0..N |-> IF i = 0 THEN << >>
                                        ELSE WithCharacter(f[i-1], s[i])]
           lines == CHOOSE lines : Is(lines)
<1>1. N \in Nat /\ \A i \in 1..N : s[i] \in Characters
  BY LenProperties, ElementOfSeq
<1>2. next \in [Nat \X Texts -> Texts]
  BY <1>1, CharacterAdded
<1>3. PICK f \in [0..N -> Texts] : IsRecursive(f, N, << >>, next)
  <2> HIDE DEF next, N
  <2> QED
    BY <1>1, <1>2, EmptyText, RecursionExists
<1>4. ASSUME NEW i \in 0..N
      PROVE  f[i] = IF i = 0 THEN << >> ELSE WithCharacter(f[i-1], s[i])
  <2>1. f[i] = IF i = 0 THEN << >> ELSE next[i, f[i-1]]
    BY <1>3 DEF IsRecursive
  <2>2. i # 0 => i \in Nat /\ i - 1 \in 0..N /\ i \in 1..N
    BY <1>1
  <2>3. i # 0 => f[i-1] \in Texts
    BY <1>3, <2>2
  <2> QED
    BY <2>1, <2>2, <2>3
<1>5. Is(f)
  BY <1>3, <1>4
<1> HIDE DEF N, next
<1>6. Is(lines)
  BY <1>5
<1>7. LinesOf(s) = lines[N]
  BY DEF LinesOf, lines, Is, N
<1>8. ASSUME NEW g, Is(g)
      PROVE  DOMAIN g = 0..N /\ g = [i \in 0..N |-> g[i]] /\ IsLines(g, s)
  <2>1. \A i \in 0..N : g[i] = IF i = 0 THEN << >> ELSE WithCharacter(g[i-1], s[i])
    BY <1>8
  <2>2. DOMAIN g = 0..N /\ g = [i \in 0..N |-> g[i]]
    BY <1>8
  <2> HIDE DEF Is
  <2>3. 0 \in 0..N /\ \A i \in 0..N-1 : i + 1 \in 0..N /\ i + 1 # 0 /\ (i + 1) - 1 = i
    BY <1>1
  <2>4. g[0] = << >> /\ \A i \in 0..N-1 : g[i+1] = WithCharacter(g[i], s[i+1])
    BY <2>1, <2>3
  <2> QED
    BY <2>2, <2>4 DEF IsLines, N
<1> HIDE DEF Is, lines
<1>9. lines = f
  <2>1. /\ f[0] = lines[0]
        /\ \A i \in 0..N-1 : lines[i] = f[i] => lines[i+1] = f[i+1]
    BY <1>5, <1>6, <1>8 DEF IsLines, N
  <2> QED
    BY <1>1, <1>5, <1>6, <1>8, <2>1, RecursionUnique
<1> QED
  BY <1>3, <1>5, <1>7, <1>8, <1>9 DEF N

LEMMA LinesAppend ==
    ASSUME NEW s \in Seq(Characters), NEW c \in Characters
    PROVE  /\ LinesOf(s) \in Texts
           /\ LinesOf(Append(s, c)) = WithCharacter(LinesOf(s), c)
<1> DEFINE N == Len(s)
           t == Append(s, c)
<1>1. /\ N \in Nat /\ t \in Seq(Characters) /\ Len(t) = N + 1
      /\ \A i \in 1..N : t[i] = s[i]
      /\ t[N + 1] = c
  OBVIOUS
<1>2. PICK f \in [0..N -> Texts] : IsLines(f, s) /\ LinesOf(s) = f[N]
  BY LinesRecursion
<1> HIDE DEF t, N
<1>3. PICK g \in [0..N + 1 -> Texts] : IsLines(g, t) /\ LinesOf(t) = g[N + 1]
  BY <1>1, LinesRecursion
<1> DEFINE S == {i \in 0..N : f[i] = g[i]}
<1>4. 0 \in S
  BY <1>1, <1>2, <1>3 DEF IsLines
<1>5. ASSUME NEW i \in 0..N-1, i \in S PROVE i + 1 \in S
  <2>1. i + 1 \in 0..N /\ i + 1 \in 1..N /\ i \in 0..(N + 1) - 1
    BY <1>1
  <2>2. f[i+1] = WithCharacter(f[i], s[i+1])
    BY <1>2 DEF IsLines, N
  <2>3. g[i+1] = WithCharacter(g[i], t[i+1])
    BY <1>1, <1>3, <2>1 DEF IsLines
  <2> QED
    BY <1>1, <1>5, <2>1, <2>2, <2>3
<1> HIDE DEF S
<1>6. 0..N \subseteq S
  BY <1>1, <1>4, <1>5, BoundedInduction
<1>7. N \in 0..N /\ N \in 0..(N + 1) - 1
  BY <1>1
<1>8. f[N] = g[N]
  BY <1>6, <1>7 DEF S
<1>9. g[N + 1] = WithCharacter(g[N], t[N + 1])
  BY <1>1, <1>3, <1>7 DEF IsLines
<1> QED
  BY <1>1, <1>2, <1>3, <1>7, <1>8, <1>9 DEF t
-----------------------------------------------------------------------------
(* What fits a line *)

\* Character c may stand at position i of a line with n digits.
MayStand(c, i, n) ==
    /\ i <= n => isNumber(c)
    /\ i = n + 1 => c = Colon
    /\ i \in n + 2 .. n + 1 + KeyLength =>
          IF (i - n - 1) % 3 = 0 THEN c = Dash ELSE isHexNumber(c)

LEMMA AppendFacts ==
    ASSUME NEW T, NEW l \in Seq(T), NEW c \in T
    PROVE  /\ Append(l, c) \in Seq(T) /\ Len(l) \in Nat
           /\ Len(Append(l, c)) = Len(l) + 1
           /\ \A i \in 1..Len(l) : Append(l, c)[i] = l[i]
           /\ Append(l, c)[Len(l) + 1] = c
  OBVIOUS

LEMMA FitsAppend ==
    ASSUME NEW l \in Seq(Characters), NEW c \in Characters, NEW n \in Int
    PROVE  Fits(Append(l, c), n) <=> Fits(l, n) /\ MayStand(c, Len(l) + 1, n)
<1> DEFINE k == Append(l, c)
<1>1. /\ Len(l) \in Nat /\ Len(k) = Len(l) + 1
      /\ \A i \in 1..Len(l) : k[i] = l[i]
      /\ k[Len(l) + 1] = c
  BY AppendFacts
<1> HIDE DEF k
<1>2. Fits(l, n) <=> \A i \in 1..Len(l) : MayStand(l[i], i, n)
  BY DEF Fits, MayStand
<1>3. Fits(k, n) <=> \A i \in 1..Len(k) : MayStand(k[i], i, n)
  BY DEF Fits, MayStand
<1>4. 1..Len(k) = 1..Len(l) \cup {Len(l) + 1}
  BY <1>1
<1>5. (\A i \in 1..Len(k) : MayStand(k[i], i, n))
        <=> (\A i \in 1..Len(l) : MayStand(l[i], i, n)) /\ MayStand(c, Len(l) + 1, n)
  BY <1>1, <1>4
<1> QED
  BY <1>2, <1>3, <1>5 DEF k

LEMMA KeyLengthFacts == KeyLength \in Nat /\ KeyLength = 3 * AES_KEY_SIZE - 1
  BY KeyReaderAssumption DEF KeyLength

\* A line has one width: its colon comes first after its digits.
LEMMA OneWidth ==
    ASSUME NEW l \in Seq(Characters), NEW n \in 1..MaxDigits, NEW m \in 1..MaxDigits,
           Fits(l, n), Fits(l, m), Len(l) > n
    PROVE  m = n
<1>0. n \in Nat /\ m \in Nat /\ Len(l) \in Nat
  BY KeyReaderAssumption
<1>1. \A i \in 1..Len(l) : i <= n => l[i] # Colon
  BY CharacterFacts DEF Fits
<1>2. \A i \in 1..Len(l) : i <= m => l[i] # Colon
  BY CharacterFacts DEF Fits
<1>3. l[n + 1] = Colon
  <2>1. n + 1 \in 1..Len(l)
    BY <1>0
  <2> QED
    BY <2>1 DEF Fits
<1>4. CASE m < n
  <2>1. m + 1 \in 1..Len(l)
    BY <1>0, <1>4
  <2>2. l[m + 1] = Colon
    BY <2>1 DEF Fits
  <2> QED
    BY <1>0, <1>1, <1>4, <2>1, <2>2
<1>5. CASE m > n
  <2>1. n + 1 \in 1..Len(l) /\ n + 1 <= m
    BY <1>0, <1>5
  <2> QED
    BY <1>2, <1>3, <2>1
<1> QED
  BY <1>0, <1>4, <1>5

LEMMA DigitsUnique ==
    ASSUME NEW l \in Seq(Characters), NEW n \in 1..MaxDigits, HasKey(l, n)
    PROVE  HasEntry(l) /\ Digits(l) = n
<1>1. HasEntry(l)
  BY DEF HasEntry
<1>2. Digits(l) \in 1..MaxDigits /\ HasKey(l, Digits(l))
  BY DEF Digits
<1>3. Len(l) > n /\ Fits(l, n) /\ Fits(l, Digits(l))
  BY <1>2, KeyReaderAssumption, KeyLengthFacts DEF HasKey
<1>4. Digits(l) = n
  BY <1>2, <1>3, OneWidth
<1> QED
  BY <1>1, <1>4

\* A character that may not stand where it does for the width of its line may
\* not for another one.
LEMMA FitsNowhere ==
    ASSUME NEW l \in Seq(Characters), NEW c \in Characters, NEW n \in 1..MaxDigits,
           Fits(l, n), Len(l) > n, ~MayStand(c, Len(l) + 1, n),
           NEW m \in 1..MaxDigits
    PROVE  ~Fits(Append(l, c), m)
<1>1. n \in Int /\ m \in Int
  BY KeyReaderAssumption
<1>2. CASE m = n
  BY <1>1, <1>2, FitsAppend
<1>3. CASE m # n
  BY <1>1, <1>3, FitsAppend, OneWidth
<1> QED
  BY <1>2, <1>3

\* The same for a number that is neither continued nor ended.
LEMMA NumberFitsNowhere ==
    ASSUME NEW l \in Seq(Characters), NEW c \in Characters,
           \A i \in 1..Len(l) : isNumber(l[i]), Len(l) <= MaxDigits,
           isNumber(c) => Len(l) = MaxDigits, c = Colon => Len(l) = 0,
           NEW m \in 1..MaxDigits
    PROVE  ~Fits(Append(l, c), m)
<1>0. m \in Nat /\ Len(l) \in Nat /\ MaxDigits \in Nat
  BY KeyReaderAssumption
<1>1. SUFFICES ASSUME Fits(l, m), MayStand(c, Len(l) + 1, m) PROVE FALSE
  BY <1>0, FitsAppend
<1>2. CASE m > Len(l)
  <2>1. isNumber(c)
    BY <1>0, <1>1, <1>2 DEF MayStand
  <2> QED
    BY <1>0, <1>2, <2>1
<1>3. CASE m = Len(l)
  <2>1. c = Colon
    BY <1>0, <1>1, <1>3 DEF MayStand
  <2> QED
    BY <1>0, <1>3, <2>1
<1>4. CASE m < Len(l)
  <2>1. m + 1 \in 1..Len(l)
    BY <1>0, <1>4
  <2>2. l[m + 1] = Colon
    BY <1>1, <2>1 DEF Fits
  <2> QED
    BY <2>1, <2>2, CharacterFacts
<1> QED
  BY <1>0, <1>2, <1>3, <1>4

\* What follows a key in its line changes none of what the line says.
LEMMA KeyStays ==
    ASSUME NEW l \in Seq(Characters), NEW c \in Characters, NEW n \in Int, n >= -1,
           HasKey(l, n)
    PROVE  HasKey(Append(l, c), n) /\ KeyOf(Append(l, c), n) = KeyOf(l, n)
<1> DEFINE k == Append(l, c)
<1>1. /\ Len(l) \in Nat /\ Len(k) = Len(l) + 1
      /\ \A i \in 1..Len(l) : k[i] = l[i]
  BY AppendFacts
<1>2. Len(l) >= n + 1 + KeyLength /\ Fits(l, n)
  BY DEF HasKey
<1>3. MayStand(c, Len(l) + 1, n)
  BY <1>1, <1>2, KeyLengthFacts DEF MayStand
<1>4. HasKey(k, n)
  BY <1>1, <1>2, <1>3, FitsAppend, KeyLengthFacts DEF HasKey
<1> HIDE DEF k
<1>5. ASSUME NEW j \in 1..AES_KEY_SIZE
      PROVE  k[n + 3*j - 1] = l[n + 3*j - 1] /\ k[n + 3*j] = l[n + 3*j]
  <2>1. j \in Nat /\ 3 * j <= 3 * AES_KEY_SIZE /\ 3 * j >= 3
    BY KeyReaderAssumption
  <2>2. n + 3*j - 1 \in 1..Len(l) /\ n + 3*j \in 1..Len(l)
    BY <1>1, <1>2, <2>1, KeyLengthFacts, KeyReaderAssumption
  <2> QED
    BY <1>1, <2>2
<1>6. KeyOf(k, n) = KeyOf(l, n)
  BY <1>5 DEF KeyOf
<1> QED
  BY <1>4, <1>6 DEF k
-----------------------------------------------------------------------------
(* Numbers and the map *)

IsDecimal(v, l, n) ==
    v[0] = 0 /\ \A i \in 0..n-1 : v[i+1] = 10 * v[i] + l[i+1]

LEMMA DecimalRecursion ==
    ASSUME NEW n \in Nat, NEW l, \A i \in 1..n : l[i] \in Nat
    PROVE  \E v \in [0..n -> Nat] : IsDecimal(v, l, n) /\ Decimal(l, n) = v[n]
<1> DEFINE next == [p \in Nat \X Nat |-> IF p[1] \in 1..n THEN 10 * p[2] + l[p[1]] ELSE 0]
           Is(f) == f = [i \in 0..n |-> IF i = 0 THEN 0 ELSE 10 * f[i-1] + l[i]]
           value == CHOOSE value : Is(value)
<1>2. next \in [Nat \X Nat -> Nat]
  OBVIOUS
<1>3. PICK f \in [0..n -> Nat] : IsRecursive(f, n, 0, next)
  <2> HIDE DEF next
  <2> QED
    BY <1>2, RecursionExists
<1>4. ASSUME NEW i \in 0..n PROVE f[i] = IF i = 0 THEN 0 ELSE 10 * f[i-1] + l[i]
  <2>1. f[i] = IF i = 0 THEN 0 ELSE next[i, f[i-1]]
    BY <1>3 DEF IsRecursive
  <2>2. i # 0 => i \in Nat /\ i - 1 \in 0..n /\ i \in 1..n
    OBVIOUS
  <2>3. i # 0 => f[i-1] \in Nat
    BY <1>3, <2>2
  <2> QED
    BY <2>1, <2>2, <2>3
<1>5. Is(f)
  BY <1>3, <1>4
<1> HIDE DEF next
<1>6. Is(value)
  BY <1>5
<1>7. Decimal(l, n) = value[n]
  BY DEF Decimal, value, Is
<1>8. ASSUME NEW g, Is(g)
      PROVE  DOMAIN g = 0..n /\ g = [i \in 0..n |-> g[i]] /\ IsDecimal(g, l, n)
  <2>1. \A i \in 0..n : g[i] = IF i = 0 THEN 0 ELSE 10 * g[i-1] + l[i]
    BY <1>8
  <2>2. DOMAIN g = 0..n /\ g = [i \in 0..n |-> g[i]]
    BY <1>8
  <2> HIDE DEF Is
  <2>3. 0 \in 0..n /\ \A i \in 0..n-1 : i + 1 \in 0..n /\ i + 1 # 0 /\ (i + 1) - 1 = i
    OBVIOUS
  <2>4. g[0] = 0 /\ \A i \in 0..n-1 : g[i+1] = 10 * g[i] + l[i+1]
    BY <2>1, <2>3
  <2> QED
    BY <2>2, <2>4 DEF IsDecimal
<1> HIDE DEF Is, value
<1>9. value = f
  <2>1. /\ f[0] = value[0]
        /\ \A i \in 0..n-1 : value[i] = f[i] => value[i+1] = f[i+1]
    BY <1>5, <1>6, <1>8 DEF IsDecimal
  <2> QED
    BY <1>5, <1>6, <1>8, <2>1, RecursionUnique
<1> QED
  BY <1>3, <1>5, <1>7, <1>8, <1>9

\* The first n characters are those of a line, and numbers.
SameStart(k, l, n) == \A i \in 1..n : l[i] = k[i] /\ k[i] \in Nat

\* The value of the first n characters is reached on the way to that of the
\* first m.
LEMMA DecimalPrefix ==
    ASSUME NEW n \in Nat, NEW m \in Nat, n <= m, NEW l, NEW k,
           SameStart(k, l, n), \A i \in 1..m : k[i] \in Nat
    PROVE  \E w \in [0..m -> Nat] : /\ IsDecimal(w, k, m)
                                    /\ Decimal(l, n) = w[n] /\ Decimal(k, m) = w[m]
<1>0. \A i \in 1..n : l[i] \in Nat
  BY DEF SameStart
<1>1. PICK v \in [0..n -> Nat] : IsDecimal(v, l, n) /\ Decimal(l, n) = v[n]
  BY <1>0, DecimalRecursion
<1>2. PICK w \in [0..m -> Nat] : IsDecimal(w, k, m) /\ Decimal(k, m) = w[m]
  BY DecimalRecursion
<1> DEFINE S == {i \in 0..n : v[i] = w[i]}
<1>3. 0 \in S
  BY <1>1, <1>2 DEF IsDecimal
<1>4. ASSUME NEW i \in 0..n-1, i \in S PROVE i + 1 \in S
  <2>1. i + 1 \in 0..n /\ i + 1 \in 1..n /\ i \in 0..m-1
    OBVIOUS
  <2>2. v[i+1] = 10 * v[i] + l[i+1] /\ w[i+1] = 10 * w[i] + k[i+1]
    BY <1>1, <1>2, <2>1 DEF IsDecimal
  <2>3. l[i+1] = k[i+1]
    BY <2>1 DEF SameStart
  <2> QED
    BY <1>4, <2>1, <2>2, <2>3
<1> HIDE DEF S
<1>5. 0..n \subseteq S
  BY <1>3, <1>4, BoundedInduction
<1>6. v[n] = w[n]
  BY <1>5 DEF S
<1> QED
  BY <1>1, <1>2, <1>6

LEMMA DecimalSame ==
    ASSUME NEW n \in Nat, NEW l, NEW k, SameStart(k, l, n)
    PROVE  Decimal(k, n) = Decimal(l, n) /\ Decimal(l, n) \in Nat
<1>1. n <= n /\ \A i \in 1..n : k[i] \in Nat
  BY DEF SameStart
<1>2. PICK w \in [0..n -> Nat] : Decimal(l, n) = w[n] /\ Decimal(k, n) = w[n]
  BY <1>1, DecimalPrefix
<1> QED
  BY <1>2

LEMMA DecimalStep ==
    ASSUME NEW n \in Nat, NEW l, NEW k, SameStart(k, l, n), k[n + 1] \in Nat
    PROVE  Decimal(k, n + 1) = 10 * Decimal(l, n) + k[n + 1]
<1>1. ASSUME NEW i \in 1..n + 1 PROVE k[i] \in Nat
  <2>1. CASE i = n + 1
    BY <2>1
  <2>2. CASE i # n + 1
    <3>1. i \in 1..n
      BY <2>2
    <3> QED
      BY <3>1 DEF SameStart
  <2> QED
    BY <2>1, <2>2
<1>2. n + 1 \in Nat /\ n <= n + 1
  OBVIOUS
<1>3. PICK w \in [0..n + 1 -> Nat] :
          /\ IsDecimal(w, k, n + 1)
          /\ Decimal(l, n) = w[n] /\ Decimal(k, n + 1) = w[n + 1]
  BY <1>1, <1>2, DecimalPrefix
<1>4. w[n + 1] = 10 * w[n] + k[n + 1]
  <2>1. n \in 0..(n + 1) - 1
    OBVIOUS
  <2> QED
    BY <1>3, <2>1 DEF IsDecimal
<1> QED
  BY <1>3, <1>4

\* The first character alone.
LEMMA DecimalOne ==
    ASSUME NEW k, k[1] \in Nat
    PROVE  Decimal(k, 1) = k[1]
<1>1. 0 \in Nat /\ \A i \in 1..0 : k[i] \in Nat
  OBVIOUS
<1>2. PICK v \in [0..0 -> Nat] : IsDecimal(v, k, 0) /\ Decimal(k, 0) = v[0]
  BY <1>1, DecimalRecursion
<1>3. Decimal(k, 0) = 0
  BY <1>2 DEF IsDecimal
<1>4. Decimal(k, 0 + 1) = 10 * Decimal(k, 0) + k[0 + 1]
  <2>1. k[0 + 1] \in Nat /\ SameStart(k, k, 0)
    BY <1>1 DEF SameStart
  <2> QED
    BY <1>1, <2>1, DecimalStep
<1> QED
  BY <1>3, <1>4

\* Lines of the same numbers and keys make the same map.
LEMMA TableSame ==
    ASSUME NEW map, NEW ls, NEW ms, Len(ls) \in Nat, Len(ms) = Len(ls), IsTable(map, ls),
           \A i \in 1..Len(ls) :
              /\ NumberOf(ms[i]) = NumberOf(ls[i])
              /\ KeyOf(ms[i], Digits(ms[i])) = KeyOf(ls[i], Digits(ls[i]))
    PROVE  IsTable(map, ms)
<1>1. DOMAIN map = {NumberOf(ms[i]) : i \in 1..Len(ms)}
  BY DEF IsTable
<1>2. ASSUME NEW i \in 1..Len(ms),
             \A j \in i+1..Len(ms) : NumberOf(ms[j]) # NumberOf(ms[i])
      PROVE  map[NumberOf(ms[i])] = KeyOf(ms[i], Digits(ms[i]))
  <2>1. \A j \in i+1..Len(ls) : NumberOf(ls[j]) # NumberOf(ls[i])
    BY <1>2
  <2> QED
    BY <2>1 DEF IsTable
<1> QED
  BY <1>1, <1>2 DEF IsTable

\* The map with one more key under its number, and the lines with one more.
With(map, n, k) ==
    [p \in DOMAIN map \cup {n} |-> IF p = n THEN k ELSE map[p]]
OneMore(ms, ls) ==
    /\ Len(ls) \in Nat /\ Len(ms) = Len(ls) + 1
    /\ \A i \in 1..Len(ls) : ms[i] = ls[i]

LEMMA TableExtended ==
    ASSUME NEW map, NEW ls, NEW ms, OneMore(ms, ls), IsTable(map, ls)
    PROVE  IsTable(With(map, NumberOf(ms[Len(ms)]),
                        KeyOf(ms[Len(ms)], Digits(ms[Len(ms)]))), ms)
<1> DEFINE number1 == NumberOf(ms[Len(ms)])
           key1 == KeyOf(ms[Len(ms)], Digits(ms[Len(ms)]))
           new  == [p \in DOMAIN map \cup {number1} |->
                      IF p = number1 THEN key1 ELSE map[p]]
           N == Len(ls)
<1>0. /\ Len(ls) \in Nat /\ Len(ms) = Len(ls) + 1
      /\ \A i \in 1..Len(ls) : ms[i] = ls[i]
  BY DEF OneMore
<1>1. 1..Len(ms) = 1..N \cup {N + 1} /\ Len(ms) = N + 1
  BY <1>0
<1>2. DOMAIN new = {NumberOf(ms[i]) : i \in 1..Len(ms)}
  <2>1. {NumberOf(ms[i]) : i \in 1..Len(ms)}
          = {NumberOf(ms[i]) : i \in 1..N} \cup {NumberOf(ms[N + 1])}
    BY <1>1
  <2>2. {NumberOf(ms[i]) : i \in 1..N} = {NumberOf(ls[i]) : i \in 1..N}
    BY <1>0
  <2> QED
    BY <2>1, <2>2, <1>1 DEF IsTable
<1>3. ASSUME NEW i \in 1..Len(ms),
             \A j \in i+1..Len(ms) : NumberOf(ms[j]) # NumberOf(ms[i])
      PROVE  new[NumberOf(ms[i])] = KeyOf(ms[i], Digits(ms[i]))
  <2>1. CASE i = N + 1
    BY <1>1, <2>1
  <2>2. CASE i # N + 1
    <3>1. i \in 1..N /\ ms[i] = ls[i]
      BY <1>0, <1>1, <2>2
    <3>2. N + 1 \in i+1..Len(ms)
      BY <1>0, <1>1, <3>1
    <3>3. NumberOf(ms[i]) # number1
      BY <1>1, <1>3, <3>2
    <3>4. \A j \in i+1..N : j \in i+1..Len(ms) /\ j \in 1..N
      BY <1>0, <1>1, <3>1
    <3>5. \A j \in i+1..N : NumberOf(ls[j]) # NumberOf(ls[i])
      BY <1>0, <1>3, <3>1, <3>4
    <3>6. map[NumberOf(ls[i])] = KeyOf(ls[i], Digits(ls[i]))
      BY <3>1, <3>5 DEF IsTable
    <3>7. NumberOf(ls[i]) \in DOMAIN map
      BY <3>1 DEF IsTable
    <3> QED
      BY <3>1, <3>3, <3>6, <3>7
  <2> QED
    BY <2>1, <2>2
<1> HIDE DEF new
<1>4. IsTable(new, ms)
  BY <1>2, <1>3 DEF IsTable
<1> QED
  BY <1>4 DEF new, With
-----------------------------------------------------------------------------
(* The steps *)

Results == ReadsTheLines /\ RefusesMalformed

LEMMA LineFacts ==
    ASSUME Typed
    PROVE  /\ Given \in Seq(Characters) /\ Lines \in Texts
           /\ Line \in Seq(Characters) /\ Len(Line) \in Nat
           /\ Len(key) \in 0..AES_KEY_SIZE
           /\ Width \in Int /\ (source = "file" => Width = digits)
           /\ digits \in 0..MaxDigits /\ AES_KEY_SIZE \in Nat \ {0}
<1>1. Given \in Seq(Characters)
  BY GivenFacts DEF Typed
<1>2. Lines \in Texts
  BY <1>1, KeyReaderAssumption, LinesAppend, CharacterFacts
     DEF Lines, Characters
<1>3. Line \in Seq(Characters)
  BY <1>1, <1>2, ClosedTyped DEF Line
<1>4. Len(key) \in 0..AES_KEY_SIZE
  BY KeyReaderAssumption DEF Typed, ReaderTypeOK
<1>5. Width \in Int /\ digits \in 0..MaxDigits
  BY KeyReaderAssumption DEF Typed, ReaderTypeOK, Width
<1> QED
  BY <1>1, <1>2, <1>3, <1>4, <1>5, KeyReaderAssumption DEF Width

\* What a character makes of the lines and of the line it is read in.
LEMMA LineGrows ==
    ASSUME Typed, NEW c \in Characters, GetChar(c)
    PROVE  /\ source' = source /\ ended' = ended
           /\ Given' = Append(Given, c)
           /\ Lines' = WithCharacter(Lines, c)
           /\ source = "argument" => Line' = Append(Line, c) /\ text' = text
           /\ source = "file" =>
                 /\ Last(Lines') = Append(Line, c)
                 /\ Front(Lines') = Closed(Lines)
                 /\ Lines' # << >>
                 /\ c # Newline => /\ Line' = Append(Line, c)
                                   /\ Closed(Lines') = Closed(Lines)
<1>1. /\ source' = source /\ ended' = ended
      /\ Given' = Append(Given, c)
      /\ source = "argument" => text' = text
  BY GetCharGives DEF Typed
<1>2. Lines' = WithCharacter(Lines, c)
  BY <1>1, LineFacts, LinesAppend DEF Lines
<1>3. /\ Lines' # << >>
      /\ Last(Lines') = Append(Open(Lines), c) /\ Front(Lines') = Closed(Lines)
      /\ c # Newline => /\ Closed(Lines') = Closed(Lines)
                        /\ Open(Lines') = Append(Open(Lines), c)
  BY <1>2, LineFacts, CharacterAdded
<1>4. CASE source = "file"
  BY <1>1, <1>2, <1>3, <1>4 DEF Line
<1>5. CASE source # "file"
  BY <1>1, <1>2, <1>5 DEF Line
<1> QED
  BY <1>4, <1>5

\* Which character may be next in a key.
LEMMA NextInKey ==
    ASSUME Typed, LineRead, place \in {"high", "low", "dash"}, NEW c
    PROVE  MayStand(c, Len(Line) + 1, Width)
              <=> IF place = "dash" THEN c = Dash ELSE isHexNumber(c)
<1> DEFINE k == Len(key)
           w == Width
           i == Len(Line) + 1
<1>1. k \in Nat /\ w \in Int /\ Len(Line) = LineLength /\ k < AES_KEY_SIZE
      /\ AES_KEY_SIZE \in Nat /\ (place = "dash" => k > 0)
  BY LineFacts DEF LineRead, Typed
<1>2. i = w + 2 + 3 * k \/ i = w + 3 + 3 * k \/ (i = w + 1 + 3 * k /\ k > 0)
  BY <1>1 DEF LineLength
<1>3. i > w + 1 /\ i <= w + 1 + KeyLength
  BY <1>1, <1>2, KeyLengthFacts
<1>4. (i - w - 1) % 3 = 0 <=> place = "dash"
  <2>1. CASE place = "high"
    <3>1. i - w - 1 = 1 + 3 * k
      BY <1>1, <2>1 DEF LineLength
    <3> QED
      BY <1>1, <2>1, <3>1
  <2>2. CASE place = "low"
    <3>1. i - w - 1 = 2 + 3 * k
      BY <1>1, <2>2 DEF LineLength
    <3> QED
      BY <1>1, <2>2, <3>1
  <2>3. CASE place = "dash"
    <3>1. i - w - 1 = 3 * k
      BY <1>1, <2>3 DEF LineLength
    <3> QED
      BY <1>1, <2>3, <3>1
  <2> QED
    BY <2>1, <2>2, <2>3
<1>5. i \in w + 2 .. w + 1 + KeyLength /\ ~(i <= w) /\ i # w + 1
  BY <1>1, <1>2, <1>3, KeyLengthFacts
<1> HIDE DEF i, w
<1> QED
  BY <1>4, <1>5 DEF MayStand, i, w

\* What was read before is not changed by what is read next.
LEMMA EarlierStays ==
    ASSUME Typed, LineRead, place \in {"high", "low", "dash", "newline"},
           NEW c \in Characters, Line' = Append(Line, c)
    PROVE  /\ Line' \in Seq(Characters) /\ Len(Line') = Len(Line) + 1
           /\ \A i \in 1..Len(Line) : Line'[i] = Line[i]
           /\ Line'[Len(Line')] = c
           /\ \A j \in 1..Len(key) :
                 key[j] = 16 * Line'[Width + 3*j - 1] + Line'[Width + 3*j]
           /\ source = "file" =>
                 digits > 0 /\ (digits < MaxDigits => number = Decimal(Line', digits))
<1> DEFINE l == Line'
<1>1. /\ l \in Seq(Characters) /\ Len(Line) \in Nat /\ Len(l) = Len(Line) + 1
      /\ \A i \in 1..Len(Line) : l[i] = Line[i]
      /\ l[Len(Line) + 1] = c
  BY LineFacts, AppendFacts
<1> HIDE DEF l
<1>2. /\ Width \in Int /\ Width >= -1 /\ Len(key) \in Nat
      /\ Len(Line) >= Width + 3 * Len(key)
      /\ digits \in Nat
      /\ source = "file" => digits > 0 /\ Width = digits /\ Len(Line) >= digits
  BY LineFacts DEF LineRead, LineLength, Width
<1>3. ASSUME NEW j \in 1..Len(key)
      PROVE  key[j] = 16 * l[Width + 3*j - 1] + l[Width + 3*j]
  <2>1. Width + 3*j - 1 \in 1..Len(Line) /\ Width + 3*j \in 1..Len(Line)
    BY <1>1, <1>2
  <2>2. key[j] = 16 * Line[Width + 3*j - 1] + Line[Width + 3*j]
    BY DEF LineRead
  <2> QED
    BY <1>1, <2>1, <2>2
<1>4. ASSUME source = "file", digits < MaxDigits PROVE number = Decimal(l, digits)
  <2>1. number = Decimal(Line, digits)
    BY <1>4 DEF LineRead
  <2>2. SameStart(l, Line, digits)
    <3>1. \A i \in 1..digits : i \in 1..Len(Line)
      BY <1>1, <1>2, <1>4
    <3>2. \A i \in 1..Len(Line) : Line[i] \in Characters
      BY LineFacts
    <3> QED
      BY <1>1, <3>1, <3>2, CharacterFacts DEF SameStart
  <2> QED
    BY <1>2, <2>1, <2>2, DecimalSame
<1> QED
  BY <1>1, <1>2, <1>3, <1>4 DEF l
\* A character that continues its line or its key.
LEMMA Continues ==
    ASSUME IndInv, Typed', LineRead', NEW c \in Characters, GetChar(c),
           place \in {"line", "digit", "high", "low", "dash"},
           place' \in {"digit", "high", "low", "dash"},
           source = "argument" => place' # "digit",
           source = "file" => c # Newline,
           keys' = keys
    PROVE  IndInv'
<1>1. /\ source' = source /\ ended' = ended
      /\ source = "argument" => text' = text
      /\ source = "file" => Closed(Lines') = Closed(Lines)
  BY LineGrows DEF IndInv
<1>2. Entered'
  <2>1. source = "file" =>
           /\ Entries(Closed(Lines))
           /\ Short(Closed(Lines)) => IsTable(keys, Closed(Lines))
    BY DEF IndInv, Entered
  <2> QED
    BY <1>1, <2>1 DEF Entered
<1>3. Placed'
  BY <1>1 DEF IndInv, Placed
<1>4. ReadsTheLines' /\ RefusesMalformed'
  BY DEF ReadsTheLines, RefusesMalformed
<1> QED
  BY <1>2, <1>3, <1>4 DEF IndInv

\* A character that makes the reader refuse.
LEMMA Refuses ==
    ASSUME IndInv, Typed', NEW c \in Characters, GetChar(c),
           place \in {"line", "digit", "high", "low", "dash"},
           place' = "done", result' = FALSE, keys' = keys,
           source = "file" => \A n \in 1..MaxDigits : ~Fits(Append(Line, c), n),
           source = "argument" => ~Fits(Append(Line, c), -1)
    PROVE  IndInv'
<1>1. /\ source' = source /\ ended' = ended
      /\ Given' = Append(Given, c)
      /\ source = "argument" => text' = text
      /\ source = "file" =>
            Last(Lines') = Append(Line, c) /\ Front(Lines') = Closed(Lines)
  BY LineGrows DEF IndInv
<1>2. LineRead' /\ Entered'
  BY DEF LineRead, Entered
<1>3. Placed' /\ source \in {"file", "argument"} /\ ~ended
  BY <1>1 DEF IndInv, Placed, Typed, ReaderTypeOK
<1>4. ReadsTheLines'
  <2>1. source = "file" =>
           /\ Entries(Closed(Lines))
           /\ Short(Closed(Lines)) => IsTable(keys, Closed(Lines))
    BY DEF IndInv, Entered
  <2> QED
    BY <1>1, <2>1 DEF ReadsTheLines, Entries, Short
<1>5. RefusesMalformed'
  <2>1. CASE source = "file"
    BY <1>1, <1>3, <2>1 DEF RefusesMalformed, FileIsLines
  <2>2. CASE source # "file"
    <3>1. Line = Given
      BY <2>2 DEF Line
    <3> QED
      BY <1>1, <1>3, <2>2, <3>1 DEF RefusesMalformed, ArgumentIsKey
  <2> QED
    BY <2>1, <2>2
<1> QED
  BY <1>2, <1>3, <1>4, <1>5 DEF IndInv

LEMMA BeginLineStep ==
    ASSUME IndInv, Typed', NEW c \in Characters, BeginLine(c)
    PROVE  IndInv'
<1>1. /\ place = "line" /\ GetChar(c) /\ source = "file"
      /\ keys' = keys /\ key' = << >>
  BY DEF BeginLine, IndInv, Placed, Typed, ReaderTypeOK
<1>2. Line = << >>
  BY <1>1 DEF IndInv, Placed, Line, Open
<1>3. CASE isNumber(c)
  <2>1. number' = c /\ digits' = 1 /\ place' = "digit"
    BY <1>3 DEF BeginLine, Go
  <2>2. c # Newline /\ c # Colon /\ c \in Nat
    BY <1>3, CharacterFacts
  <2>3. source' = "file" /\ Line' = Append(Line, c)
    BY <1>1, <2>2, LineGrows DEF IndInv
  <2>4. Len(Line') = 1 /\ Line'[1] = c /\ Width' = 1
    BY <1>2, <2>1, <2>3 DEF Width
  <2>5. Fits(Line', 1)
    BY <1>3, <2>4 DEF Fits
  <2>6. Decimal(Line', 1) = c
    BY <2>2, <2>4, DecimalOne
  <2>7. LineRead'
    <3>1. Len(key') = 0 /\ LineLength' = 1
      BY <1>1, <2>1, <2>4 DEF LineLength
    <3>2. \A j \in 1..Len(key') :
             key'[j] = 16 * Line'[Width' + 3*j - 1] + Line'[Width' + 3*j]
      BY <3>1
    <3> QED
      BY <1>1, <2>1, <2>3, <2>4, <2>5, <2>6, <3>1, <3>2 DEF LineRead
  <2> QED
    BY <1>1, <2>1, <2>2, <2>7, Continues
<1>4. CASE ~isNumber(c)
  <2>1. place' = "done" /\ result' = FALSE
    BY <1>4 DEF BeginLine, Return
  <2>2. ASSUME NEW n \in 1..MaxDigits PROVE ~Fits(Append(Line, c), n)
    <3>1. Line \in Seq(Characters) /\ Len(Line) = 0
      BY <1>2
    <3>2. Len(Line) <= MaxDigits /\ \A i \in 1..Len(Line) : isNumber(Line[i])
      BY <3>1, KeyReaderAssumption
    <3> QED
      BY <1>4, <3>1, <3>2, NumberFitsNowhere
  <2> QED
    BY <1>1, <2>1, <2>2, Refuses
<1> QED
  BY <1>3, <1>4

LEMMA ReadDigitStep ==
    ASSUME IndInv, Typed', NEW c \in Characters, ReadDigit(c)
    PROVE  IndInv'
<1>1. /\ place = "digit" /\ GetChar(c) /\ source = "file"
      /\ keys' = keys /\ key' = key /\ key = << >> /\ Len(key) = 0
  BY DEF ReadDigit, IndInv, Placed, Typed, ReaderTypeOK, keyVars
<1>2. /\ Len(Line) = digits /\ Fits(Line, digits)
      /\ digits > 0 /\ (digits < MaxDigits => number = Decimal(Line, digits))
  BY <1>1 DEF IndInv, LineRead, LineLength, Width
<1>3. /\ Line \in Seq(Characters) /\ digits \in 0..MaxDigits /\ MaxDigits \in Nat
      /\ \A i \in 1..digits : isNumber(Line[i])
  <2>1. Line \in Seq(Characters) /\ digits \in 0..MaxDigits /\ MaxDigits \in Nat
    BY LineFacts, KeyReaderAssumption DEF IndInv
  <2>2. \A i \in 1..digits : isNumber(Line[i])
    BY <1>2, <2>1 DEF Fits
  <2> QED
    BY <2>1, <2>2
<1> DEFINE k == Append(Line, c)
<1>4. /\ k \in Seq(Characters) /\ Len(k) = digits + 1
      /\ \A i \in 1..digits : k[i] = Line[i]
      /\ k[digits + 1] = c
  BY <1>2, <1>3, AppendFacts
<1>5. SameStart(k, Line, digits)
  BY <1>3, <1>4, CharacterFacts DEF SameStart
<1>6. source' = "file" /\ (c # Newline => Line' = k)
  BY <1>1, LineGrows DEF IndInv
<1> HIDE DEF k
<1>7. \A j \in 1..Len(key') :
         key'[j] = 16 * Line'[Width' + 3*j - 1] + Line'[Width' + 3*j]
  BY <1>1
<1>8. CASE isNumber(c) /\ digits < MaxDigits
  <2>1. /\ number' = c + IF digits < MaxDigits - 1 THEN 10 * number ELSE number
        /\ digits' = digits + 1 /\ place' = "digit"
    BY <1>8 DEF ReadDigit, Go
  <2>2. c # Newline /\ c \in Nat /\ Line' = k /\ Width' = digits + 1
    BY <1>6, <1>8, <2>1, CharacterFacts DEF Width
  <2>3. Fits(k, digits + 1)
    BY <1>3, <1>4, <1>8 DEF Fits
  <2>4. digits' < MaxDigits => number' = Decimal(k, digits')
    <3>1. Decimal(k, digits + 1) = 10 * Decimal(Line, digits) + c
      BY <1>3, <1>4, <1>5, <2>2, DecimalStep
    <3>2. Decimal(Line, digits) \in Nat
      BY <1>3, <1>5, DecimalSame
    <3> QED
      BY <1>2, <1>3, <2>1, <2>2, <3>1, <3>2
  <2>5. LineRead'
    <3>1. LineLength' = digits + 1
      BY <2>1, <2>2 DEF LineLength
    <3> QED
      BY <1>1, <1>2, <1>4, <1>6, <1>7, <2>1, <2>2, <2>3, <2>4, <3>1 DEF LineRead
  <2> QED
    BY <1>1, <2>1, <2>2, <2>5, Continues
<1>9. CASE ~(isNumber(c) /\ digits < MaxDigits) /\ c = Colon
  <2>1. place' = "high" /\ number' = number /\ digits' = digits
    BY <1>9 DEF ReadDigit, Go, numberVars
  <2>2. c # Newline /\ Line' = k /\ Width' = digits
    BY <1>6, <1>9, <2>1, CharacterFacts DEF Width
  <2>3. Fits(k, digits)
    BY <1>2, <1>3, <1>4, <1>9 DEF Fits
  <2>4. digits < MaxDigits => number = Decimal(k, digits)
    BY <1>2, <1>3, <1>5, DecimalSame
  <2>5. LineRead'
    <3>1. LineLength' = digits + 1
      BY <1>1, <1>3, <2>1, <2>2 DEF LineLength
    <3> QED
      BY <1>1, <1>2, <1>4, <1>6, <1>7, <2>1, <2>2, <2>3, <2>4, <3>1 DEF LineRead
  <2> QED
    BY <1>1, <2>1, <2>2, <2>5, Continues
<1>10. CASE ~(isNumber(c) /\ digits < MaxDigits) /\ c # Colon
  <2>1. place' = "done" /\ result' = FALSE
    BY <1>10 DEF ReadDigit, Return
  <2>2. ASSUME NEW n \in 1..MaxDigits PROVE ~Fits(Append(Line, c), n)
    BY <1>2, <1>3, <1>10, NumberFitsNowhere
  <2> QED
    BY <1>1, <2>1, <2>2, Refuses
<1> QED
  BY <1>8, <1>9, <1>10

\* In a key, the characters that may follow are those that some width allows.
LEMMA KeyCharacter ==
    ASSUME IndInv, place \in {"high", "low", "dash"}, NEW c \in Characters
    PROVE  /\ (IF place = "dash" THEN c = Dash ELSE isHexNumber(c)) =>
                 Fits(Append(Line, c), Width)
           /\ ~(IF place = "dash" THEN c = Dash ELSE isHexNumber(c)) =>
                 /\ source = "file" =>
                       \A n \in 1..MaxDigits : ~Fits(Append(Line, c), n)
                 /\ source = "argument" => ~Fits(Append(Line, c), -1)
<1>1. /\ Len(Line) = LineLength /\ Fits(Line, Width)
      /\ source = "file" => digits > 0
      /\ Line \in Seq(Characters) /\ Width \in Int /\ digits \in 0..MaxDigits
      /\ source = "file" => Width = digits
      /\ Len(key) \in 0..AES_KEY_SIZE /\ AES_KEY_SIZE \in Nat
      /\ place = "dash" => Len(key) > 0
  BY LineFacts DEF IndInv, LineRead
<1>2. MayStand(c, Len(Line) + 1, Width)
         <=> IF place = "dash" THEN c = Dash ELSE isHexNumber(c)
  BY NextInKey DEF IndInv
<1>3. Fits(Append(Line, c), Width) <=> MayStand(c, Len(Line) + 1, Width)
  BY <1>1, FitsAppend
<1>4. CASE source = "file" /\ ~MayStand(c, Len(Line) + 1, Width)
  <2>1. digits \in 1..MaxDigits /\ Fits(Line, digits) /\ ~MayStand(c, Len(Line) + 1, digits)
    BY <1>1, <1>4, KeyReaderAssumption
  <2>2. Len(Line) > digits
    BY <1>1, <1>4 DEF LineLength
  <2>3. ASSUME NEW n \in 1..MaxDigits PROVE ~Fits(Append(Line, c), n)
    BY <1>1, <2>1, <2>2, FitsNowhere
  <2> QED
    BY <1>2, <1>4, <2>3
<1>5. source = "argument" => Width = -1
  BY DEF Width
<1> QED
  BY <1>2, <1>3, <1>4, <1>5

LEMMA ReadHighStep ==
    ASSUME IndInv, Typed', NEW c \in Characters, ReadHigh(c)
    PROVE  IndInv'
<1>1. /\ place = "high" /\ GetChar(c) /\ source' = source
      /\ UNCHANGED <<number, digits, key, keys>> /\ Width' = Width
  BY LineGrows DEF ReadHigh, numberVars, IndInv, Width
<1>2. CASE isHexNumber(c)
  <2>1. high' = 16 * c /\ place' = "low"
    BY <1>2 DEF ReadHigh, Go
  <2>2. c # Newline
    BY <1>2, CharacterFacts
  <2>3. Line' = Append(Line, c)
    BY <1>1, <2>2, LineGrows DEF IndInv, Typed, ReaderTypeOK
  <2>4. Fits(Line', Width')
    BY <1>1, <1>2, <2>3, KeyCharacter
  <2>5. /\ Len(Line') = Len(Line) + 1 /\ Line'[Len(Line')] = c
        /\ \A j \in 1..Len(key) :
              key[j] = 16 * Line'[Width + 3*j - 1] + Line'[Width + 3*j]
        /\ source = "file" =>
              digits > 0 /\ (digits < MaxDigits => number = Decimal(Line', digits))
    BY <1>1, <2>3, EarlierStays DEF IndInv
  <2>6. Len(Line') = LineLength'
    <3>1. Len(Line) = Width + 1 + 3 * Len(key)
      BY <1>1 DEF IndInv, LineRead, LineLength
    <3>2. LineLength' = Width + 2 + 3 * Len(key)
      BY <1>1, <2>1 DEF LineLength
    <3> QED
      BY <2>5, <3>1, <3>2, LineFacts DEF IndInv
  <2>7. LineRead'
    BY <1>1, <2>1, <2>4, <2>5, <2>6 DEF LineRead
  <2> QED
    BY <1>1, <2>1, <2>2, <2>7, Continues
<1>3. CASE ~isHexNumber(c)
  <2>1. place' = "done" /\ result' = FALSE
    BY <1>3 DEF ReadHigh, Return
  <2> QED
    BY <1>1, <1>3, <2>1, KeyCharacter, Refuses
<1> QED
  BY <1>2, <1>3

LEMMA ReadDashStep ==
    ASSUME IndInv, Typed', NEW c \in Characters, ReadDash(c)
    PROVE  IndInv'
<1>1. /\ place = "dash" /\ GetChar(c) /\ source' = source
      /\ UNCHANGED <<number, digits, key, keys>> /\ Width' = Width
  BY LineGrows DEF ReadDash, numberVars, keyVars, IndInv, Width
<1>2. CASE c = Dash
  <2>1. place' = "high"
    BY <1>2 DEF ReadDash, Go
  <2>2. c # Newline
    BY <1>2, CharacterFacts
  <2>3. Line' = Append(Line, c)
    BY <1>1, <2>2, LineGrows DEF IndInv, Typed, ReaderTypeOK
  <2>4. Fits(Line', Width')
    BY <1>1, <1>2, <2>3, KeyCharacter
  <2>5. /\ Len(Line') = Len(Line) + 1
        /\ \A j \in 1..Len(key) :
              key[j] = 16 * Line'[Width + 3*j - 1] + Line'[Width + 3*j]
        /\ source = "file" =>
              digits > 0 /\ (digits < MaxDigits => number = Decimal(Line', digits))
    BY <1>1, <2>3, EarlierStays DEF IndInv
  <2>6. Len(Line') = LineLength'
    <3>1. Len(Line) = Width + 3 * Len(key)
      BY <1>1 DEF IndInv, LineRead, LineLength
    <3>2. LineLength' = Width + 1 + 3 * Len(key)
      BY <1>1, <2>1 DEF LineLength
    <3> QED
      BY <2>5, <3>1, <3>2, LineFacts DEF IndInv
  <2>7. LineRead'
    BY <1>1, <2>1, <2>4, <2>5, <2>6 DEF LineRead
  <2> QED
    BY <1>1, <2>1, <2>2, <2>7, Continues
<1>3. CASE c # Dash
  <2>1. place' = "done" /\ result' = FALSE
    BY <1>3 DEF ReadDash, Return
  <2> QED
    BY <1>1, <1>3, <2>1, KeyCharacter, Refuses
<1> QED
  BY <1>2, <1>3

\* The second digit of an octet, before the reader is done with the key.
LEMMA OctetRead ==
    ASSUME IndInv, NEW c \in Characters, ReadLow(c), isHexNumber(c)
    PROVE  /\ place = "low" /\ GetChar(c) /\ c # Newline
           /\ source' = source /\ source \in {"file", "argument"}
           /\ UNCHANGED <<number, digits>> /\ Width' = Width
           /\ Line' = Append(Line, c) /\ Line' \in Seq(Characters)
           /\ Fits(Line', Width)
           /\ Len(key') = Len(key) + 1
           /\ Len(Line') = Width + 3 * Len(key')
           /\ \A j \in 1..Len(key') :
                 key'[j] = 16 * Line'[Width + 3*j - 1] + Line'[Width + 3*j]
           /\ source = "file" =>
                 digits > 0 /\ (digits < MaxDigits => number = Decimal(Line', digits))
<1>1. /\ place = "low" /\ GetChar(c) /\ source' = source
      /\ UNCHANGED <<number, digits>> /\ Width' = Width
      /\ key' = Append(key, high + c)
      /\ source \in {"file", "argument"}
  BY LineGrows DEF ReadLow, numberVars, IndInv, Width, Typed, ReaderTypeOK
<1>2. c # Newline /\ c \in 0..15
  BY CharacterFacts
<1>3. Line' = Append(Line, c)
  BY <1>1, <1>2, LineGrows DEF IndInv
<1>4. Fits(Line', Width)
  BY <1>1, <1>3, KeyCharacter
<1>5. /\ Line' \in Seq(Characters) /\ Len(Line') = Len(Line) + 1
      /\ \A i \in 1..Len(Line) : Line'[i] = Line[i]
      /\ Line'[Len(Line')] = c
      /\ \A j \in 1..Len(key) :
            key[j] = 16 * Line'[Width + 3*j - 1] + Line'[Width + 3*j]
      /\ source = "file" =>
            digits > 0 /\ (digits < MaxDigits => number = Decimal(Line', digits))
  BY <1>1, <1>3, EarlierStays DEF IndInv
<1>6. /\ Len(Line) = Width + 2 + 3 * Len(key) /\ high = 16 * Line[Len(Line)]
      /\ Width \in Int /\ Len(key) \in Nat /\ Len(Line) \in Nat
  BY <1>1, LineFacts DEF IndInv, LineRead, LineLength
<1>7. /\ Len(key') = Len(key) + 1
      /\ \A j \in 1..Len(key) : key'[j] = key[j]
      /\ key'[Len(key) + 1] = high + c
  BY <1>1 DEF IndInv, Typed, ReaderTypeOK
<1>8. ASSUME NEW j \in 1..Len(key')
      PROVE  key'[j] = 16 * Line'[Width + 3*j - 1] + Line'[Width + 3*j]
  <2>1. CASE j = Len(key) + 1
    <3>1. Width + 3*j - 1 = Len(Line) /\ Width + 3*j = Len(Line')
      BY <1>5, <1>6, <2>1
    <3>2. Line'[Len(Line)] = Line[Len(Line)]
      <4>1. Len(Line) > 0
        BY <1>6, <1>5, <1>1, LineFacts DEF IndInv, Width
      <4> QED
        BY <1>5, <1>6, <4>1
    <3> QED
      BY <1>5, <1>6, <1>7, <2>1, <3>1, <3>2
  <2>2. CASE j # Len(key) + 1
    <3>1. j \in 1..Len(key)
      BY <1>6, <1>7, <2>2
    <3> QED
      BY <1>5, <1>7, <3>1
  <2> QED
    BY <2>1, <2>2
<1>9. Len(Line') = Width + 3 * Len(key')
  BY <1>5, <1>6, <1>7
<1> QED
  BY <1>1, <1>2, <1>3, <1>4, <1>5, <1>7, <1>8, <1>9

\* The line whose key is complete becomes the last line of the map.
LEMMA KeyEntered ==
    ASSUME IndInv, Typed', NEW c \in Characters, ReadLow(c), isHexNumber(c),
           Len(key') = AES_KEY_SIZE, source = "file"
    PROVE  IndInv'
<1>1. /\ place' = "newline" /\ result' = result
      /\ keys' = [p \in DOMAIN keys \cup {number} |->
                    IF p = number THEN key' ELSE keys[p]]
  BY DEF ReadLow, Complete, Go
<1>2. /\ place = "low" /\ GetChar(c) /\ c # Newline /\ source' = "file"
      /\ UNCHANGED <<number, digits>> /\ Width' = digits /\ Width = digits
      /\ Line' = Append(Line, c) /\ Line' \in Seq(Characters)
      /\ Fits(Line', digits)
      /\ Len(Line') = digits + 3 * AES_KEY_SIZE
      /\ \A j \in 1..AES_KEY_SIZE :
            key'[j] = 16 * Line'[digits + 3*j - 1] + Line'[digits + 3*j]
      /\ digits > 0 /\ (digits < MaxDigits => number = Decimal(Line', digits))
  BY OctetRead, LineFacts DEF IndInv
<1>3. digits \in 1..MaxDigits /\ AES_KEY_SIZE \in Nat \ {0} /\ MaxDigits \in Nat
  BY <1>2, LineFacts, KeyReaderAssumption DEF IndInv
<1>4. HasEntry(Line') /\ Digits(Line') = digits
  <2>1. HasKey(Line', digits)
    BY <1>2, <1>3, KeyLengthFacts DEF HasKey
  <2> QED
    BY <1>2, <1>3, <2>1, DigitsUnique
<1>5. key' = KeyOf(Line', Digits(Line'))
  <2>1. key' = [j \in 1..AES_KEY_SIZE |-> key'[j]]
    BY <1>3 DEF Typed, ReaderTypeOK
  <2> QED
    BY <1>2, <1>4, <2>1 DEF KeyOf
<1> DEFINE ls == Closed(Lines)
           ms == Lines'
<1>6. /\ Len(ls) \in Nat /\ Len(ms) = Len(ls) + 1
      /\ \A i \in 1..Len(ls) : ms[i] = ls[i]
      /\ ms[Len(ms)] = Line'
  <2>1. Lines \in Texts /\ ms = WithCharacter(Lines, c) /\ Last(ms) = Line'
    BY <1>2, LineFacts, LineGrows DEF IndInv
  <2>2. ls \in Texts /\ Len(ls) \in Nat
    BY <2>1, ClosedTyped DEF Texts
  <2> QED
    BY <2>1, <2>2, CharacterAdded DEF Last
<1>7. /\ Entries(ls)
      /\ Short(ls) => IsTable(keys, ls)
  BY <1>2 DEF IndInv, Entered
<1>8. Entered'
  <2> HIDE DEF ls, ms
  <2>0. OneMore(ms, ls)
    BY <1>6 DEF OneMore
  <2>1. Entries(ms)
    <3>1. ASSUME NEW i \in 1..Len(ms) PROVE HasEntry(ms[i])
      <4>1. CASE i = Len(ms)
        BY <1>4, <1>6, <4>1
      <4>2. CASE i # Len(ms)
        <5>1. i \in 1..Len(ls)
          BY <1>6, <4>2
        <5> QED
          BY <1>6, <1>7, <5>1 DEF Entries
      <4> QED
        BY <4>1, <4>2
    <3> QED
      BY <3>1 DEF Entries
  <2>2. ASSUME Short(ms) PROVE IsTable(keys', ms)
    <3>1. ASSUME NEW i \in 1..Len(ls) PROVE Digits(ls[i]) < MaxDigits
      <4>1. i \in 1..Len(ms) /\ ms[i] = ls[i]
        BY <1>6
      <4> QED
        BY <2>2, <4>1 DEF Short
    <3>2. IsTable(keys, ls)
      BY <1>7, <3>1 DEF Short
    <3>3. digits < MaxDigits
      <4>1. Len(ms) \in 1..Len(ms)
        BY <1>6
      <4> QED
        BY <1>4, <1>6, <2>2, <4>1 DEF Short
    <3>4. number = NumberOf(ms[Len(ms)])
      BY <1>2, <1>4, <1>6, <3>3 DEF NumberOf
    <3>5. key' = KeyOf(ms[Len(ms)], Digits(ms[Len(ms)]))
      BY <1>5, <1>6
    <3>6. keys' = With(keys, number, key')
      BY <1>1 DEF With
    <3> QED
      BY <2>0, <3>2, <3>4, <3>5, <3>6, TableExtended
  <2> QED
    BY <1>1, <1>2, <2>1, <2>2 DEF Entered, ms
<1>9. LineRead'
  BY <1>1, <1>2 DEF LineRead, LineLength
<1>10. Placed'
  BY <1>1, <1>2, LineGrows DEF IndInv, Placed
<1>11. ReadsTheLines' /\ RefusesMalformed'
  BY <1>1 DEF ReadsTheLines, RefusesMalformed
<1> QED
  BY <1>8, <1>9, <1>10, <1>11 DEF IndInv

LEMMA ReadLowStep ==
    ASSUME IndInv, Typed', NEW c \in Characters, ReadLow(c)
    PROVE  IndInv'
<1>1. CASE ~isHexNumber(c)
  <2>1. /\ place = "low" /\ GetChar(c) /\ keys' = keys
        /\ place' = "done" /\ result' = FALSE
    BY <1>1 DEF ReadLow, Return
  <2> QED
    BY <1>1, <2>1, KeyCharacter, Refuses
<1>2. CASE isHexNumber(c) /\ Len(key') # AES_KEY_SIZE
  <2>1. place' = "dash" /\ keys' = keys
    BY <1>2 DEF ReadLow, Go
  <2>2. Width' + 3 * Len(key') = LineLength'
    BY <2>1 DEF LineLength
  <2>3. Len(key') > 0
    BY <1>2, OctetRead, LineFacts DEF IndInv
  <2>4. LineRead'
    BY <1>2, <2>1, <2>2, <2>3, OctetRead DEF LineRead
  <2> QED
    BY <1>2, <2>1, <2>4, OctetRead, Continues
<1>3. CASE isHexNumber(c) /\ Len(key') = AES_KEY_SIZE /\ source = "argument"
  <2>1. place' = "done" /\ result' = TRUE
    BY <1>3 DEF ReadLow, Complete, Return
  <2>2. /\ GetChar(c) /\ source' = "argument" /\ Width = -1
        /\ Line' \in Seq(Characters) /\ Fits(Line', -1)
        /\ Len(Line') = -1 + 3 * AES_KEY_SIZE
        /\ \A j \in 1..AES_KEY_SIZE :
              key'[j] = 16 * Line'[-1 + 3*j - 1] + Line'[-1 + 3*j]
    BY <1>3, OctetRead DEF Width
  <2>3. Line' = Given' /\ text' = text
    BY <1>3, <2>2, LineGrows DEF Line, IndInv
  <2>4. HasKey(Given', -1)
    BY <2>2, <2>3, KeyLengthFacts, KeyReaderAssumption DEF HasKey
  <2>5. key' = KeyOf(Given', -1)
    <3>1. key' = [j \in 1..AES_KEY_SIZE |-> key'[j]]
      BY <1>3, KeyReaderAssumption DEF Typed, ReaderTypeOK
    <3>2. ASSUME NEW j \in 1..AES_KEY_SIZE
          PROVE  key'[j] = 16 * Given'[-1 + 3*j - 1] + Given'[-1 + 3*j]
      BY <2>2, <2>3
    <3>3. ASSUME NEW j \in 1..AES_KEY_SIZE
          PROVE  -1 + 3*j - 1 = (-1) + 3*j - 1 /\ -1 + 3*j = (-1) + 3*j
      OBVIOUS
    <3> QED
      BY <3>1, <3>2 DEF KeyOf
  <2>6. LineRead' /\ Entered' /\ ReadsTheLines'
    BY <2>1, <2>2 DEF LineRead, Entered, ReadsTheLines
  <2>7. Placed'
    BY <1>3, <2>1, <2>2, <2>3 DEF IndInv, Placed
  <2>8. RefusesMalformed'
    BY <2>1, <2>2, <2>4, <2>5 DEF RefusesMalformed, ArgumentIsKey
  <2> QED
    BY <2>6, <2>7, <2>8 DEF IndInv
<1>4. source \in {"file", "argument"}
  BY DEF IndInv, Typed, ReaderTypeOK
<1> QED
  BY <1>1, <1>2, <1>3, <1>4, KeyEntered

\* Whatever follows a key, it is still the same entry.
LEMMA EntryStays ==
    ASSUME IndInv, place = "newline", NEW c \in Characters, GetChar(c)
    PROVE  /\ source = "file" /\ source' = "file" /\ ended' = FALSE
           /\ Entries(Lines') /\ (Short(Lines') => IsTable(keys, Lines'))
           /\ Last(Lines') = Append(Line, c) /\ HasEntry(Append(Line, c))
           /\ Last(Append(Line, c)) = c
           /\ Len(Append(Line, c)) = Digits(Append(Line, c)) + 2 + KeyLength
<1>1. /\ source = "file" /\ Width = digits /\ Len(key) = AES_KEY_SIZE
      /\ Len(Line) = digits + 3 * AES_KEY_SIZE /\ Fits(Line, digits)
      /\ digits \in 1..MaxDigits /\ AES_KEY_SIZE \in Nat \ {0} /\ MaxDigits \in Nat
      /\ Line \in Seq(Characters) /\ Lines \in Texts
      /\ Line = Open(Lines)
  BY LineFacts, KeyReaderAssumption DEF IndInv, LineRead, LineLength, Line
<1>2. /\ source' = "file" /\ ended' = FALSE
      /\ Last(Lines') = Append(Line, c) /\ Lines' = WithCharacter(Lines, c)
  BY <1>1, LineGrows DEF IndInv, Placed, Typed, ReaderTypeOK
<1> DEFINE k  == Append(Line, c)
           cs == Closed(Lines)
           ms == Lines'
<1>3. /\ k \in Seq(Characters) /\ Len(k) = Len(Line) + 1
      /\ \A i \in 1..Len(Line) : k[i] = Line[i]
      /\ k[Len(Line) + 1] = c
  BY <1>1, AppendFacts
<1>4. HasKey(Line, digits)
  BY <1>1, KeyLengthFacts DEF HasKey
<1>5. HasKey(k, digits) /\ KeyOf(k, digits) = KeyOf(Line, digits)
  BY <1>1, <1>4, KeyStays
<1>6. /\ HasEntry(Line) /\ Digits(Line) = digits
      /\ HasEntry(k) /\ Digits(k) = digits
  BY <1>1, <1>3, <1>4, <1>5, DigitsUnique
<1>7. NumberOf(k) = NumberOf(Line)
  <2>1. SameStart(k, Line, digits)
    <3>1. ASSUME NEW i \in 1..digits PROVE Line[i] = k[i] /\ k[i] \in Nat
      <4>1. i \in 1..Len(Line) /\ isNumber(Line[i])
        BY <1>1 DEF Fits
      <4> QED
        BY <1>3, <4>1, CharacterFacts
    <3> QED
      BY <3>1 DEF SameStart
  <2> QED
    BY <1>1, <1>6, <2>1, DecimalSame DEF NumberOf
<1>8. /\ cs \in Texts /\ Len(cs) \in Nat
      /\ Lines = Append(cs, Line)
      /\ Len(Lines) = Len(cs) + 1 /\ Len(ms) = Len(cs) + 1
      /\ \A i \in 1..Len(cs) : Lines[i] = cs[i] /\ ms[i] = cs[i]
      /\ Lines[Len(cs) + 1] = Line /\ ms[Len(cs) + 1] = k
  <2>1. ~AllClosed(Lines)
    <3>1. Open(Lines) # << >>
      BY <1>1
    <3> QED
      BY <3>1 DEF Open
  <2>2. cs \in Texts /\ Lines = Append(cs, Line) /\ Len(cs) \in Nat
    BY <1>1, <2>1, ClosedTyped DEF Texts
  <2>3. /\ Len(Lines) = Len(cs) + 1 /\ Lines[Len(cs) + 1] = Line
        /\ \A i \in 1..Len(cs) : Lines[i] = cs[i]
    BY <2>2 DEF Texts
  <2>4. /\ Len(ms) = Len(cs) + 1 /\ ms \in Texts
        /\ \A i \in 1..Len(cs) : ms[i] = cs[i]
    <3>1. Lines \in Texts /\ ms = WithCharacter(Lines, c)
      BY <1>1, <1>2
    <3> QED
      BY <3>1, CharacterAdded
  <2>5. ms[Len(cs) + 1] = k
    BY <1>2, <2>4 DEF Last
  <2> QED
    BY <2>2, <2>3, <2>4, <2>5
<1>9. Entries(Lines) /\ (Short(Lines) => IsTable(keys, Lines))
  BY <1>1 DEF IndInv, Entered
<1>10. ASSUME NEW i \in 1..Len(Lines)
       PROVE  /\ HasEntry(ms[i]) /\ Digits(ms[i]) = Digits(Lines[i])
              /\ NumberOf(ms[i]) = NumberOf(Lines[i])
              /\ KeyOf(ms[i], Digits(ms[i])) = KeyOf(Lines[i], Digits(Lines[i]))
  <2> HIDE DEF k, cs, ms
  <2>1. CASE i = Len(cs) + 1
    BY <1>5, <1>6, <1>7, <1>8, <2>1
  <2>2. CASE i # Len(cs) + 1
    <3>1. i \in 1..Len(cs)
      BY <1>8, <2>2
    <3>2. ms[i] = Lines[i]
      BY <1>8, <3>1
    <3> QED
      BY <1>9, <3>2 DEF Entries
  <2> QED
    BY <2>1, <2>2
<1>11. Len(Lines) \in Nat /\ Len(ms) = Len(Lines)
  BY <1>8
<1>12. Entries(ms)
  BY <1>10, <1>11 DEF Entries
<1>13. Short(ms) => IsTable(keys, ms)
  <2> HIDE DEF k, cs, ms
  <2>1. Short(ms) => Short(Lines)
    BY <1>10, <1>11 DEF Short
  <2> QED
    BY <1>9, <1>10, <1>11, <2>1, TableSame
<1>14. Last(k) = c /\ Len(k) = Digits(k) + 2 + KeyLength
  BY <1>1, <1>3, <1>6, KeyLengthFacts DEF Last
<1> QED
  BY <1>1, <1>2, <1>6, <1>12, <1>13, <1>14

LEMMA ReadNewlineStep ==
    ASSUME IndInv, Typed', NEW c \in Characters, ReadNewline(c)
    PROVE  IndInv'
<1>1. place = "newline" /\ GetChar(c) /\ keys' = keys
  BY DEF ReadNewline
<1>2. /\ source = "file" /\ source' = "file" /\ ended' = FALSE
      /\ Entries(Lines') /\ (Short(Lines') => IsTable(keys, Lines'))
      /\ Last(Lines') = Append(Line, c) /\ HasEntry(Append(Line, c))
      /\ Last(Append(Line, c)) = c
      /\ Len(Append(Line, c)) = Digits(Append(Line, c)) + 2 + KeyLength
  BY <1>1, EntryStays
<1>3. CASE c = Newline
  <2>1. place' = "line" /\ result' = result
    BY <1>3 DEF ReadNewline, Go
  <2>2. AllClosed(Lines') /\ Closed(Lines') = Lines'
    BY <1>1, <1>2, <1>3 DEF AllClosed, Closed
  <2>3. LineRead' /\ ReadsTheLines' /\ RefusesMalformed'
    BY <2>1 DEF LineRead, ReadsTheLines, RefusesMalformed
  <2>4. Entered'
    BY <1>1, <1>2, <2>1, <2>2 DEF Entered
  <2>5. Placed'
    BY <1>2, <2>1, <2>2 DEF Placed
  <2> QED
    BY <2>3, <2>4, <2>5 DEF IndInv
<1>4. CASE c # Newline
  <2>1. place' = "done" /\ result' = TRUE
    BY <1>4 DEF ReadNewline, Return
  <2>2. LineRead' /\ Entered'
    BY <2>1 DEF LineRead, Entered
  <2>3. Placed'
    BY <1>2, <2>1 DEF Placed
  <2>4. ReadsTheLines'
    BY <1>1, <1>2, <2>1 DEF ReadsTheLines, Entries, Short
  <2>5. RefusesMalformed'
    BY <1>2, <1>4, <2>1 DEF RefusesMalformed, FileIsLines
  <2> QED
    BY <2>2, <2>3, <2>4, <2>5 DEF IndInv
<1> QED
  BY <1>3, <1>4

\* At the end of the text: a line or a key that has been begun is no entry.
LEMMA GetCharFailsStep ==
    ASSUME IndInv, Typed', GetCharFails
    PROVE  IndInv'
<1>1. /\ place # "done" /\ buffer = << >> /\ ended' = TRUE
      /\ place' = "done" /\ result' = (place \in {"line", "newline"})
      /\ UNCHANGED <<source, buffer, number, digits, high, key, keys, text>>
  BY DEF GetCharFails, Return, numberVars, keyVars
<1>2. Given' = Given /\ Lines' = Lines
  BY <1>1 DEF Given, Lines
<1>3. LineRead' /\ Entered'
  BY <1>1 DEF LineRead, Entered
<1>4. Placed'
  BY <1>1 DEF IndInv, Placed
<1>5. CASE place \in {"line", "newline"}
  <2>1. source = "file" /\ result' = TRUE /\ source' = "file"
    BY <1>1, <1>5 DEF IndInv, Placed, LineRead, Typed, ReaderTypeOK
  <2>2. Entries(Lines) /\ (Short(Lines) => IsTable(keys, Lines))
    BY <1>1, <1>5, <2>1 DEF IndInv, Entered, Placed, Closed
  <2>3. ReadsTheLines'
    BY <1>1, <1>2, <2>1, <2>2 DEF ReadsTheLines, Entries, Short
  <2>4. RefusesMalformed'
    BY <1>1, <2>1 DEF RefusesMalformed, FileIsLines
  <2> QED
    BY <1>3, <1>4, <2>3, <2>4 DEF IndInv
<1>6. CASE place \notin {"line", "newline"}
  <2>1. place \in {"digit", "high", "low", "dash"} /\ result' = FALSE
    BY <1>1, <1>6 DEF IndInv, Typed, ReaderTypeOK
  <2>2. /\ Len(Line) = LineLength /\ Fits(Line, Width) /\ Line \in Seq(Characters)
        /\ Len(key) \in 0..AES_KEY_SIZE - 1 \/ (place = "digit" /\ key = << >>)
        /\ digits \in 0..MaxDigits /\ AES_KEY_SIZE \in Nat \ {0} /\ MaxDigits \in Nat
        /\ Width \in Int
    BY <2>1, LineFacts, KeyReaderAssumption DEF IndInv, LineRead, Typed
  <2>3. Len(Line) < Width + 1 + KeyLength
    <3>1. CASE place = "digit"
      BY <2>2, <3>1, KeyLengthFacts DEF LineLength
    <3>2. CASE place # "digit"
      <4>1. Len(key) \in 0..AES_KEY_SIZE - 1
        BY <2>2, <3>2
      <4>2. LineLength <= Width + 2 + 3 * Len(key)
        BY <2>1, <2>2, <3>2, <4>1 DEF LineLength
      <4>3. LineLength \in Int
        BY <2>1, <2>2, <3>2, <4>1 DEF LineLength
      <4> QED
        BY <2>2, <4>1, <4>2, <4>3, KeyLengthFacts
    <3> QED
      BY <3>1, <3>2
  <2>4. CASE source = "file"
    <3>1. Width = digits /\ digits \in 1..MaxDigits /\ Len(Line) > 0
      <4>1. Width = digits /\ digits > 0 /\ (place = "dash" => Len(key) > 0)
        BY <2>1, <2>4 DEF IndInv, LineRead, Width
      <4> QED
        BY <2>1, <2>2, <4>1 DEF LineLength
    <3>2. ~AllClosed(Lines) /\ Line = Open(Lines)
      <4>1. Line = Open(Lines) /\ Open(Lines) # << >>
        BY <2>2, <2>4, <3>1 DEF Line
      <4> QED
        BY <4>1 DEF Open
    <3>3. Closed(Lines) = Front(Lines) /\ Line = Last(Lines)
      BY <3>2 DEF Closed, Open
    <3>4. ReadsTheLines'
      <4>1. Entries(Front(Lines)) /\ (Short(Front(Lines)) => IsTable(keys, Front(Lines)))
        BY <2>1, <2>4, <3>3 DEF IndInv, Entered
      <4> QED
        BY <1>1, <1>2, <2>1, <2>4, <4>1 DEF ReadsTheLines, Entries, Short
    <3>5. ~HasEntry(Line)
      <4>1. SUFFICES ASSUME NEW n \in 1..MaxDigits, HasKey(Line, n) PROVE FALSE
        BY DEF HasEntry
      <4>2. Fits(Line, n) /\ Len(Line) >= n + 1 + KeyLength
        BY <4>1 DEF HasKey
      <4>3. Len(Line) > n
        BY <2>2, <4>2, KeyLengthFacts
      <4>4. digits = n
        BY <2>2, <3>1, <4>2, <4>3, OneWidth
      <4> QED
        BY <2>2, <2>3, <3>1, <4>2, <4>4, KeyLengthFacts
    <3>6. RefusesMalformed'
      BY <1>1, <1>2, <2>1, <2>4, <3>3, <3>5 DEF RefusesMalformed, FileIsLines
    <3> QED
      BY <1>3, <1>4, <3>4, <3>6 DEF IndInv
  <2>5. CASE source = "argument"
    <3>1. Width = -1 /\ Line = Given
      BY <2>5 DEF Width, Line
    <3>2. Len(Given) = KeyLength
      <4>1. Len(Given) = Len(text) - Len(buffer) /\ Len(buffer) = 0
        BY <1>1, GivenFacts DEF IndInv, Typed
      <4>2. Len(text) = KeyLength
        BY <2>5 DEF IndInv, Placed
      <4> QED
        BY <4>1, <4>2, KeyLengthFacts
    <3> QED
      BY <2>3, <3>1, <3>2, KeyLengthFacts
  <2> QED
    BY <2>4, <2>5 DEF IndInv, Typed, ReaderTypeOK
<1> QED
  BY <1>5, <1>6

LEMMA Step == ASSUME IndInv, [ReaderNext]_readerVars PROVE IndInv'
<1>1. Typed'
  BY TypedStep DEF IndInv
<1>2. CASE UNCHANGED readerVars
  <2>1. UNCHANGED <<source, buffer, place, number, digits, high, key, keys, result,
                    ended, text>>
    BY <1>2 DEF readerVars, numberVars, keyVars
  <2>2. UNCHANGED <<Given, Lines, Line, Width, LineLength>>
    BY <2>1 DEF Given, Lines, Line, Width, LineLength
  <2>3. LineRead' /\ Entered' /\ Placed'
    BY <2>1, <2>2 DEF IndInv, LineRead, Entered, Placed
  <2>4. ReadsTheLines' /\ RefusesMalformed'
    BY <2>1, <2>2
       DEF IndInv, ReadsTheLines, RefusesMalformed, FileIsLines, ArgumentIsKey
  <2> QED
    BY <1>1, <2>3, <2>4 DEF IndInv
<1>3. CASE GetCharFails
  BY <1>1, <1>3, GetCharFailsStep
<1>4. ASSUME NEW c \in Characters,
             \/ BeginLine(c) \/ ReadDigit(c) \/ ReadHigh(c)
             \/ ReadLow(c) \/ ReadDash(c) \/ ReadNewline(c)
      PROVE  IndInv'
  BY <1>1, <1>4, BeginLineStep, ReadDigitStep, ReadHighStep, ReadLowStep,
     ReadDashStep, ReadNewlineStep
<1> QED
  BY <1>2, <1>3, <1>4 DEF ReaderNext

LEMMA Start == ReaderInit => IndInv
<1> SUFFICES ASSUME ReaderInit PROVE IndInv
  OBVIOUS
<1> USE DEF ReaderInit
<1>1. /\ KeyLength \in Nat /\ text \in Seq(Characters)
      /\ source = "argument" => Len(text) = KeyLength
      /\ Len(text) \in Nat
  <2>1. CASE source = "file"
    BY <2>1, KeyLengthFacts
  <2>2. CASE source # "file"
    <3>1. text \in [1..KeyLength -> Characters] /\ KeyLength \in Nat
      BY <2>2, KeyLengthFacts
    <3>2. text \in Seq(Characters) /\ Len(text) = KeyLength
      BY <3>1
    <3> QED
      BY <3>1, <3>2
  <2> QED
    BY <2>1, <2>2
<1>2. ReaderTypeOK
  <2>1. << >> \in Seq(Octet) /\ Len(<< >>) = 0 /\ DOMAIN << >> = {}
    OBVIOUS
  <2>2. /\ key \in Seq(Octet) /\ Len(key) <= AES_KEY_SIZE
        /\ DOMAIN keys \subseteq Nat
        /\ \A p \in DOMAIN keys : keys[p] \in [1..AES_KEY_SIZE -> Octet]
    BY <2>1, KeyReaderAssumption
  <2>3. number \in Nat /\ digits \in 0..MaxDigits /\ high \in Octet
    BY KeyReaderAssumption DEF Octet
  <2>4. /\ source \in {"file", "argument"} /\ result \in BOOLEAN /\ ended \in BOOLEAN
        /\ place \in {"line", "digit", "high", "low", "dash", "newline", "done"}
    OBVIOUS
  <2> QED
    BY <1>1, <2>2, <2>3, <2>4 DEF ReaderTypeOK
<1>3. BufferIsRest
  BY <1>1 DEF BufferIsRest
<1>4. Typed
  BY <1>2, <1>3, KeyReaderAssumption DEF Typed
<1>5. Given = << >>
  BY <1>1 DEF Given
<1>6. Lines = << >>
  <2>1. LinesOf(<< >>) = << >>
    <3>1. << >> \in Seq(Characters) /\ Len(<< >>) = 0
      OBVIOUS
    <3>2. PICK f \in [0..0 -> Texts] : IsLines(f, << >>) /\ LinesOf(<< >>) = f[0]
      BY <3>1, LinesRecursion
    <3> QED
      BY <3>2 DEF IsLines
  <2> QED
    BY <1>5, <2>1 DEF Lines
<1>7. Closed(Lines) = << >> /\ Open(Lines) = << >> /\ AllClosed(Lines)
  BY <1>6 DEF Closed, Open, AllClosed
<1>8. LineRead
  <2>1. CASE source = "file"
    BY <2>1 DEF LineRead
  <2>2. CASE source = "argument"
    <3>1. Width = -1 /\ Line = << >> /\ LineLength = 0 /\ Len(key) = 0
      BY <1>5, <2>2 DEF Width, Line, LineLength
    <3>2. Fits(Line, Width) /\ Len(Line) = 0
      BY <3>1 DEF Fits
    <3> QED
      BY <2>2, <3>1, <3>2 DEF LineRead
  <2> QED
    BY <2>1, <2>2
<1>9. Entered
  <2>1. Entries(<< >>) /\ IsTable(<< >>, << >>)
    BY DEF Entries, IsTable
  <2> QED
    BY <1>7, <2>1 DEF Entered
<1>10. Placed
  BY <1>1, <1>7 DEF Placed
<1>11. ReadsTheLines /\ RefusesMalformed
  BY DEF ReadsTheLines, RefusesMalformed
<1> QED
  BY <1>4, <1>8, <1>9, <1>10, <1>11 DEF IndInv

-----------------------------------------------------------------------------
\* What has been read of the line is what the variables hold, and the map is that
\* of the lines before it.
THEOREM Invariance == ReaderSpec => []IndInv
  BY Start, Step, PTL DEF ReaderSpec

\* The types, for every text, however ::read splits it: the octet under
\* construction stays one, and no more digits and no more octets are taken than
\* readNumber and readPSKey have room for.
THEOREM TypeCorrect == ReaderSpec => []ReaderTypeOK
<1>1. IndInv => ReaderTypeOK
  BY DEF IndInv, Typed
<1> QED
  BY <1>1, Invariance, PTL

\* readPresharedKeys: the map is that of the file's lines before the first
\* malformed one, whatever the file and however ::read splits it.
THEOREM LinesTheorem == ReaderSpec => []ReadsTheLines
<1>1. IndInv => ReadsTheLines
  BY DEF IndInv
<1> QED
  BY <1>1, Invariance, PTL

\* readPresharedKeys and readPSKey refuse what is malformed, and nothing else.
THEOREM RefusesTheorem == ReaderSpec => []RefusesMalformed
<1>1. IndInv => RefusesMalformed
  BY DEF IndInv
<1> QED
  BY <1>1, Invariance, PTL
=============================================================================
