------------------------------ MODULE TextFile ------------------------------
(***************************************************************************)
(* The text of the persistent file: how Storage writes entries, one to a   *)
(* line, and reads them back (Vision/src/Storage.cpp, Base64.cpp).         *)
(*                                                                         *)
(* Text is a sequence of character codes.  The words before the name are   *)
(* kept apart, as the line's word, and a value is a pair of its type and   *)
(* its data.  A double is a natural number, written in decimal.            *)
(***************************************************************************)
EXTENDS Integers, Sequences, SequencesExt, FiniteSetsExt

CONSTANTS TextEntries, \* records of a name and a value, one of which is saved
          OtherEntries \* more of them, any of which are saved with it

VARIABLES savedText,   \* the entries saved, in the order of the file
          file,        \* its lines after the header
          header,      \* the header is as it should be
          loadedText,  \* the entries loaded; Overrun if the reader ran off a token
          textPhase

textVars == <<savedText, file, header, loadedText, textPhase>>

Tab == 9   NewLine == 10   Blank_ == 32   Quote == 34   Hash == 35   Comma == 44
Digit0 == 48   Semicolon == 59   Equals == 61   Backslash == 92   LetterN == 110
LetterT == 116   LetterX == 120
True_ == <<116, 114, 117, 101>>   False_ == <<102, 97, 108, 115, 101>>

Overrun == <<-1>>   \* what is read behind the end of a token
RanOff(s) == -1 \in ToSet(s)
-----------------------------------------------------------------------------
(* Writing.                                                                *)

HexDigit(v) == IF v < 10 THEN Digit0 + v ELSE 55 + v

Escaped(c) ==
  CASE c = Backslash -> <<Backslash, Backslash>>
    [] c = Tab       -> <<Backslash, LetterT>>
    [] c = NewLine   -> <<Backslash, LetterN>>
    [] c = Quote     -> <<Backslash, Quote>>
    [] OTHER -> IF c \in 32 .. 126 /\ c # Equals THEN <<c>>
                ELSE <<Backslash, LetterX, HexDigit(c \div 16), HexDigit(c % 16)>>

WriteText(s) == <<Quote>> \o FlattenSeq([i \in DOMAIN s |-> Escaped(s[i])]) \o <<Quote>>

RECURSIVE Decimal(_)
Decimal(n) == IF n < 10 THEN <<Digit0 + n>> ELSE Append(Decimal(n \div 10), Digit0 + (n % 10))

\* A stream shows six digits of a double.
RECURSIVE Scale(_)
Scale(n) == IF n < 1000000 THEN 1 ELSE 10 * Scale(n \div 10)
SixDigits(n) == ((n + Scale(n) \div 2) \div Scale(n)) * Scale(n)

Basis64(v) ==
  CASE v < 26 -> 65 + v [] v < 52 -> 71 + v [] v < 62 -> v - 4 [] v = 62 -> 43 [] v = 63 -> 47

Base64Encode(s) ==
  LET byte(i) == IF i \in DOMAIN s THEN s[i] ELSE 0
      group(g) ==
        LET a == byte(3 * g - 2)  b == byte(3 * g - 1)  c == byte(3 * g)
        IN <<Basis64(a \div 4), Basis64((a % 4) * 16 + b \div 16),
             IF 3 * g - 1 \in DOMAIN s THEN Basis64((b % 16) * 4 + c \div 64) ELSE Equals,
             IF 3 * g \in DOMAIN s THEN Basis64(c % 64) ELSE Equals>>
  IN FlattenSeq([g \in 1 .. (Len(s) + 2) \div 3 |-> group(g)])

WriteItem(t, x) ==
  CASE t = "boolean" -> IF x THEN True_ ELSE False_
    [] t = "double"  -> Decimal(SixDigits(x))
    [] t = "string"  -> WriteText(x)
    [] t = "raw"     -> Base64Encode(x)

ItemType(t) ==
  CASE t = "booleanArray" -> "boolean" [] t = "doubleArray" -> "double"
    [] t = "stringArray" -> "string" [] OTHER -> t
IsArray(t) == ItemType(t) # t
Words == {"boolean", "double", "string", "raw", "booleanArray", "doubleArray", "stringArray"}

WriteData(t, d) ==
  IF IsArray(t)
  THEN FlattenSeq([i \in DOMAIN d |->
                     (IF i = 1 THEN <<>> ELSE <<Comma>>) \o WriteItem(ItemType(t), d[i])])
  ELSE WriteItem(t, d)

\* SavePersistentImpl, after GetPersistentEntries has sorted by name; other
\* types have no word and are passed over.
SavePersistentImpl(entries) ==
  LET known == SelectSeq(entries, LAMBDA e : e.value[1] \in Words)
  IN [i \in DOMAIN known |->
        [word |-> known[i].value[1],
         text |-> WriteText(known[i].name) \o <<Equals>>
                    \o WriteData(known[i].value[1], known[i].value[2])]]

Before(a, b) ==
  \/ Len(a) < Len(b) /\ \A i \in DOMAIN a : a[i] = b[i]
  \/ \E i \in DOMAIN a \cap DOMAIN b : a[i] < b[i] /\ \A j \in 1 .. i - 1 : a[j] = b[j]

InNameOrder(entries) == SetToSortSeq(entries, LAMBDA a, b : Before(a.name, b.name))
-----------------------------------------------------------------------------
(* Reading.                                                                *)

RECURSIVE Ltrim(_)
Ltrim(s) == IF s # <<>> /\ Head(s) \in {Blank_, Tab} THEN Ltrim(Tail(s)) ELSE s
Trim(s) == Reverse(Ltrim(Reverse(Ltrim(s))))

\* The token, with its quotes, and the rest.
ReadStringToken(s) ==
  LET ends == {p \in 2 .. Len(s) : s[p] = Quote /\ s[p - 1] # Backslash}
      last == IF ends = {} THEN Len(s) ELSE Min(ends)
  IN IF s = <<>> \/ s[1] # Quote THEN << <<>>, s >>
     ELSE <<SubSeq(s, 1, last), SubSeq(s, last + 1, Len(s))>>

FromXDigit(c) == CASE c \in 97 .. 102 -> c - 87 [] c \in 65 .. 70 -> c - 55 [] OTHER -> c - Digit0
IsXDigit(s) == s # <<>> /\ s[1] \in 48 .. 57 \cup 65 .. 70 \cup 97 .. 102

\* Between the quotes.  s[-1], which an escaped quote, an escaped backslash and
\* an unknown escape give, is the backslash.
RECURSIVE Unescaped(_)
Unescaped(s) ==
  IF s = <<>> THEN <<>>
  ELSE IF Head(s) # Backslash THEN <<Head(s)>> \o Unescaped(Tail(s))
  ELSE IF Len(s) = 1 THEN Overrun
  ELSE LET c == s[2]  rest == SubSeq(s, 3, Len(s))
       IN CASE c = LetterT -> <<Tab>> \o Unescaped(rest)
            [] c = LetterN -> <<NewLine>> \o Unescaped(rest)
            [] c = LetterX ->
                 IF ~IsXDigit(rest) THEN <<LetterX>> \o Unescaped(rest)
                 ELSE IF ~IsXDigit(Tail(rest))
                 THEN <<FromXDigit(rest[1])>> \o Unescaped(Tail(rest))
                 ELSE <<FromXDigit(rest[1]) * 16 + FromXDigit(rest[2])>>
                        \o Unescaped(SubSeq(rest, 3, Len(rest)))
            [] OTHER -> <<Backslash>> \o Unescaped(rest)

UnescapeString(token) == Unescaped(SubSeq(token, 2, Len(token) - 1))

Pr2Six(c) ==
  CASE c \in 65 .. 90 -> c - 65 [] c \in 97 .. 122 -> c - 71 [] c \in 48 .. 57 -> c + 4
    [] c = 43 -> 62 [] c = 47 -> 63 [] OTHER -> 64

Base64Decode(s) ==
  LET bad == {i \in DOMAIN s : Pr2Six(s[i]) > 63}
      n == IF bad = {} THEN Len(s) ELSE Min(bad) - 1
      byte(i) ==
        LET r == i % 3  at == 4 * (i \div 3) + r + 1
        IN (Pr2Six(s[at]) * 4 ^ (r + 1) + Pr2Six(s[at + 1]) \div 4 ^ (2 - r)) % 256
  IN IF n = 0 THEN <<>>
     ELSE [i \in 1 .. 3 * ((n - 1) \div 4) + ((n - 1) % 4) |-> byte(i - 1)]

Bad == [ok |-> FALSE]
Good(x) == [ok |-> TRUE, x |-> x]

\* strtod() of nothing is 0, and ends where it should.
ReadDouble_(s) ==
  IF \A i \in DOMAIN s : s[i] \in 48 .. 57
  THEN Good(FoldLeft(LAMBDA n, c : 10 * n + (c - Digit0), 0, s)) ELSE Bad

ReadBoolean(s) == IF s = True_ THEN Good(TRUE) ELSE IF s = False_ THEN Good(FALSE) ELSE Bad

\* A quote with nothing behind it, or an escaped one at the end, passes for the end
\* of the token: the loop of UnescapeString steps over its end and goes on.
ReadToken(token) ==
  IF token = <<>> \/ Last(token) # Quote THEN Bad
  ELSE IF Len(token) = 1 THEN Good(Overrun) ELSE Good(UnescapeString(token))

RECURSIVE ReadItems(_, _)
ReadItems(R(_), s) ==
  IF s = <<>> THEN Good(<<>>)
  ELSE LET commas == {i \in DOMAIN s : s[i] = Comma}
           at == IF commas = {} THEN Len(s) + 1 ELSE Min(commas)
           item == R(Trim(SubSeq(s, 1, at - 1)))
           more == ReadItems(R, SubSeq(s, at + 1, Len(s)))
       IN IF item.ok /\ more.ok THEN Good(<<item.x>> \o more.x) ELSE Bad

RECURSIVE ReadStrings(_)
ReadStrings(s) ==
  IF s = <<>> THEN Good(<<>>)
  ELSE LET item == ReadToken(ReadStringToken(s)[1])
           rest == Ltrim(ReadStringToken(s)[2])
           more == ReadStrings(Ltrim(Tail(rest)))
       IN IF ~item.ok THEN Bad
          ELSE IF rest = <<>> THEN Good(<<item.x>>)
          ELSE IF Head(rest) # Comma \/ ~more.ok THEN Bad
          ELSE Good(<<item.x>> \o more.x)

ReadItem(t, s) ==
  CASE t = "boolean" -> ReadBoolean(s)
    [] t = "double"  -> ReadDouble_(s)
    [] t = "string"  -> ReadToken(ReadStringToken(s)[1])
    [] t = "raw"     -> Good(Base64Decode(s))
    [] t = "booleanArray" -> ReadItems(ReadBoolean, s)
    [] t = "doubleArray"  -> ReadItems(ReadDouble_, s)
    [] t = "stringArray"  -> ReadStrings(s)

\* One line of LoadPersistent: an entry, or Bad for one that is warned about,
\* or passed over: a comment, a blank line, an unknown type, an empty name.
ReadLine(line) ==
  LET text == Trim(line.text)
      name == ReadToken(ReadStringToken(text)[1])
      rest == Ltrim(ReadStringToken(text)[2])
      data == ReadItem(line.word, Ltrim(Tail(rest)))
  IN IF line.word \notin Words \/ ~name.ok \/ name.x = <<>> THEN Bad
     ELSE IF RanOff(name.x) THEN Good([name |-> Overrun, value |-> <<line.word, <<>> >>])
     ELSE IF rest = <<>> \/ Head(rest) # Equals \/ ~data.ok THEN Bad
     ELSE Good([name |-> name.x, value |-> <<line.word, data.x>>])

LoadPersistent(lines) ==
  LET read == SelectSeq([i \in DOMAIN lines |-> ReadLine(lines[i])], LAMBDA r : r.ok)
  IN IF ~header THEN <<>> ELSE [i \in DOMAIN read |-> read[i].x]
-----------------------------------------------------------------------------
(* A file is saved, perhaps edited or cut short, and loaded.               *)

TextInit ==
  /\ savedText = <<>> /\ file = <<>> /\ loadedText = <<>>
  /\ header = TRUE /\ textPhase = "start"

SaveText(entries) ==
  /\ textPhase = "start"
  /\ savedText' = InNameOrder(entries)
  /\ file' = SavePersistentImpl(savedText')
  /\ textPhase' = "saved"
  /\ UNCHANGED <<header, loadedText>>

\* Someone edits the file: another header, a comment, blanks about the line.
Edit ==
  /\ textPhase = "saved"
  /\ \/ header' = FALSE /\ UNCHANGED file
     \/ file' = <<[word |-> "#", text |-> <<Hash>>]>> \o file /\ UNCHANGED header
     \/ file' = [i \in DOMAIN file |-> [file[i] EXCEPT !.text = <<Blank_>> \o @ \o <<Tab>>]]
        /\ UNCHANGED header
  /\ textPhase' = "edited"
  /\ UNCHANGED <<savedText, loadedText>>

\* The last line is cut off somewhere.
Cut_ ==
  /\ textPhase = "saved" /\ file # <<>>
  /\ \E n \in 0 .. Len(Last(file).text) - 1 :
       file' = [file EXCEPT ![Len(file)].text = SubSeq(@, 1, n)]
  /\ textPhase' = "cut"
  /\ UNCHANGED <<savedText, header, loadedText>>

Load_ ==
  /\ textPhase \in {"saved", "edited", "cut"}
  /\ loadedText' = LoadPersistent(file)
  /\ textPhase' = textPhase \o " loaded"
  /\ UNCHANGED <<savedText, file, header>>

TextNext ==
  \/ \E e \in TextEntries, more \in SUBSET OtherEntries :
       SaveText({e} \cup {f \in more : f.name # e.name})
  \/ Edit \/ Cut_ \/ Load_

TextSpec == TextInit /\ [][TextNext]_textVars
-----------------------------------------------------------------------------
(* Properties.                                                             *)

\* Strings the text can hold: a quote comes back as a backslash, and a backslash
\* at the end hides the closing quote.
Holdable(s) == Quote \notin ToSet(s) /\ (s # <<>> => Last(s) # Backslash)

EntryHoldable(e) ==
  /\ Holdable(e.name) /\ e.name # <<>>
  /\ CASE e.value[1] = "string" -> Holdable(e.value[2])
       [] e.value[1] = "stringArray" -> \A x \in ToSet(e.value[2]) : Holdable(x)
       [] OTHER -> TRUE

AllHoldable == \A e \in ToSet(savedText) : EntryHoldable(e)

AsLoaded(e) ==
  [e EXCEPT !.value[2] = CASE e.value[1] = "double" -> SixDigits(@)
                           [] e.value[1] = "doubleArray" -> [i \in DOMAIN @ |-> SixDigits(@[i])]
                           [] OTHER -> @]

InFile ==
  LET known == SelectSeq(savedText, LAMBDA e : e.value[1] \in Words)
  IN [i \in DOMAIN known |-> AsLoaded(known[i])]

\* What is saved is what is loaded, but for the digits of a double: any character
\* a name or a string may hold is told from the marks of the text around it.
TextRoundTrip ==
  (header /\ textPhase \in {"saved loaded", "edited loaded"} /\ AllHoldable)
  => loadedText = InFile

RunOff(e) ==
  \/ RanOff(e.name)
  \/ e.value[1] = "string" /\ RanOff(e.value[2])
  \/ e.value[1] = "stringArray" /\ \E x \in ToSet(e.value[2]) : RanOff(x)

\* A file whose end is missing gives every whole line as it was, and of the line
\* that was cut at most an entry of the same name and type.  (Cut right behind a
\* quote, it may make the reader run off the end of the token.)
TornTail ==
  textPhase = "cut loaded" /\ AllHoldable =>
    \/ loadedText = Front(InFile)
    \/ /\ Len(loadedText) = Len(InFile) /\ Front(loadedText) = Front(InFile)
       /\ \/ Last(loadedText).name = Last(InFile).name
             /\ Last(loadedText).value[1] = Last(InFile).value[1]
          \/ RunOff(Last(loadedText)) /\ Last(Last(file).text) = Quote

TextSound == TextRoundTrip /\ TornTail
=============================================================================
