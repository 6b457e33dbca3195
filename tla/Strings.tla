------------------------------ MODULE Strings ------------------------------
(***************************************************************************)
(* The strings of the library: searching, comparing, splitting and numbers *)
(* (Vision/src/StringRef.cpp, include/llvm/StringRef.h, StringExtras.h and *)
(* .cpp, and the formatting of src/raw_ostream.cpp).                       *)
(*                                                                         *)
(* A string is a sequence of character codes; positions count from 0.      *)
(***************************************************************************)
EXTENDS Integers, Sequences, SequencesExt, FiniteSetsExt

CONSTANTS Texts,       \* strings searched and split
          Needles,     \* strings searched for, characters looked for
          Ordered,     \* strings compared
          Numerals,    \* strings read as numbers
          WordBits,    \* width of the integers: 64
          NaiveBelow   \* texts shorter than this are searched naively: 16

ASSUME StringsAssumption == WordBits \in Nat \ {0} /\ NaiveBelow \in Nat

NPos == 1000000   \* npos: beyond every string
Least(a, b) == IF a < b THEN a ELSE b

Slice(s, from, to) ==
  LET a == Least(from, Len(s))
      b == Least(IF to < a THEN a ELSE to, Len(s))
  IN SubSeq(s, a + 1, b)
Substr(s, from) == Slice(s, from, NPos)
-----------------------------------------------------------------------------
(* Searching.                                                              *)

MatchesAt(s, str, i) == i + Len(str) <= Len(s) /\ SubSeq(s, i + 1, i + Len(str)) = str

\* How far to go on when the last character compared is c.
BadCharSkip(str, c) ==
  LET before == {i \in 1 .. Len(str) - 1 : str[i] = c}
  IN Len(str) - (IF before = {} THEN 0 ELSE Max(before))

RECURSIVE SearchFrom(_, _, _, _)
SearchFrom(s, str, at, skips) ==
  IF at + Len(str) > Len(s) THEN NPos
  ELSE IF MatchesAt(s, str, at) THEN at
  ELSE SearchFrom(s, str, at + (IF skips THEN BadCharSkip(str, s[at + Len(str)]) ELSE 1), skips)

Find(s, str, from) ==
  IF from > Len(s) THEN NPos
  ELSE IF str = <<>> THEN from
  ELSE SearchFrom(s, str, from, Len(s) - from >= NaiveBelow /\ Len(str) <= 255)

RECURSIVE RFindFrom(_, _, _)
RFindFrom(s, str, i) ==
  IF i = 0 THEN NPos ELSE IF MatchesAt(s, str, i - 1) THEN i - 1 ELSE RFindFrom(s, str, i - 1)
RFind(s, str) == IF Len(str) > Len(s) THEN NPos ELSE RFindFrom(s, str, Len(s) - Len(str) + 1)

FindFirstIn(s, chars, from) ==
  LET hits == {i \in Least(from, Len(s)) .. Len(s) - 1 : s[i + 1] \in chars}
  IN IF hits = {} THEN NPos ELSE Min(hits)
FindLastIn(s, chars, from) ==
  LET hits == {i \in 0 .. Least(from, Len(s)) - 1 : s[i + 1] \in chars}
  IN IF hits = {} THEN NPos ELSE Max(hits)

FindFirstOf(s, chars, from)    == FindFirstIn(s, ToSet(chars), from)
FindFirstNotOf(s, chars, from) == FindFirstIn(s, ToSet(s) \ ToSet(chars), from)
FindLastNotOf(s, chars, from)  == FindLastIn(s, ToSet(s) \ ToSet(chars), from)

LTrim(s, chars) == Substr(s, Least(Len(s), FindFirstNotOf(s, chars, 0)))
RTrim(s, chars) ==
  LET last == FindLastNotOf(s, chars, NPos)
  IN Slice(s, 0, IF last = NPos THEN 0 ELSE last + 1)

\* count() steps by one after a match: it counts overlapped occurrences too.
Count(s, str) == Quantify(0 .. Len(s) - Len(str), LAMBDA i : MatchesAt(s, str, i))

StartsWith(s, prefix) == Len(s) >= Len(prefix) /\ MatchesAt(s, prefix, 0)
EndsWith(s, suffix)   == Len(s) >= Len(suffix) /\ MatchesAt(s, suffix, Len(s) - Len(suffix))
-----------------------------------------------------------------------------
(* Comparing.                                                              *)

ToLower(c) == IF c \in 65 .. 90 THEN c + 32 ELSE c
Lower(s) == [i \in DOMAIN s |-> ToLower(s[i])]
IsDigit(c) == c \in 48 .. 57

Sign(a, b) == IF a < b THEN -1 ELSE IF a > b THEN 1 ELSE 0

Compare(s, t) ==
  LET differ == {i \in DOMAIN s \cap DOMAIN t : s[i] # t[i]}
  IN IF differ = {} THEN Sign(Len(s), Len(t)) ELSE Sign(s[Min(differ)], t[Min(differ)])

CompareLower(s, t) == Compare(Lower(s), Lower(t))

\* Characters from position i (from 1) on that are digits.
DigitsFrom(s, i) ==
  LET ends == {j \in i .. Len(s) : ~IsDigit(s[j])}
  IN (IF ends = {} THEN Len(s) + 1 ELSE Min(ends)) - i

RECURSIVE NumericFrom(_, _, _)
NumericFrom(s, t, i) ==
  IF i > Least(Len(s), Len(t)) THEN Sign(Len(s), Len(t))
  ELSE IF IsDigit(s[i]) /\ IsDigit(t[i])
  THEN LET n == DigitsFrom(s, i)  m == DigitsFrom(t, i)
           run == Compare(SubSeq(s, i, i + n - 1), SubSeq(t, i, i + n - 1))
       IN IF n # m THEN Sign(n, m) ELSE IF run # 0 THEN run ELSE NumericFrom(s, t, i + n)
  ELSE IF s[i] # t[i] THEN Sign(s[i], t[i])
  ELSE NumericFrom(s, t, i + 1)

CompareNumeric(s, t) == NumericFrom(s, t, 1)
-----------------------------------------------------------------------------
(* Numbers.  Integers have WordBits bits and wrap around.                  *)

Word(n) == n % (2 ^ WordBits)
Signed(n) == IF Word(n) < 2 ^ (WordBits - 1) THEN Word(n) ELSE Word(n) - 2 ^ WordBits

HexDigit_(v, lower) == IF v < 10 THEN 48 + v ELSE (IF lower THEN 87 ELSE 55) + v
DigitValue(c) ==
  CASE IsDigit(c) -> c - 48 [] c \in 97 .. 122 -> c - 87 [] c \in 65 .. 90 -> c - 55 [] OTHER -> 99

RECURSIVE DigitsOf(_, _, _)
DigitsOf(n, radix, lower) ==
  IF n = 0 THEN <<>> ELSE Append(DigitsOf(n \div radix, radix, lower), HexDigit_(n % radix, lower))

Minus == <<45>>
Utostr(n) == IF n = 0 THEN <<48>> ELSE DigitsOf(n, 10, FALSE)
Itostr(n) == IF n < 0 THEN Minus \o Utostr(Word(-n)) ELSE Utostr(n)
UtoHexStr(n, lower) == IF n = 0 THEN <<48>> ELSE DigitsOf(n, 16, lower)

Spaces(n) == [i \in 1 .. n |-> 32]

\* "0x000..", or "0000..", its end written over with the digits.
FormatHex(n, width, prefix) ==
  LET digits == DigitsOf(n, 16, TRUE)
      first == IF prefix THEN 2 ELSE 0
      all == Max({width, Len(digits) + first})
  IN [i \in 1 .. all |->
        IF i > all - Len(digits) THEN digits[i - (all - Len(digits))]
        ELSE IF i = 2 /\ prefix THEN 120 ELSE 48]

\* Width 0 asks for 2^32 - 1 spaces before a zero.
FormatDecimal(n, width) ==
  LET shown == Itostr(n)
  IN Spaces(IF width > Len(shown) THEN width - Len(shown) ELSE 0) \o shown

WriteEscaped(s, hex) ==
  LET escape(c) ==
        CASE c = 92 -> <<92, 92>> [] c = 9 -> <<92, 116>> [] c = 10 -> <<92, 110>>
          [] c = 34 -> <<92, 34>>
          [] OTHER ->
             IF c \in 32 .. 126 THEN <<c>>
             ELSE IF hex THEN <<92, 120, HexDigit_(c \div 16, FALSE), HexDigit_(c % 16, FALSE)>>
             ELSE <<92, 48 + c \div 64, 48 + ((c \div 8) % 8), 48 + (c % 8)>>
  IN FlattenSeq([i \in DOMAIN s |-> escape(s[i])])

\* The radix and the string behind its prefix.
AutoSense(s) ==
  CASE StartsWith(s, <<48, 120>>) \/ StartsWith(s, <<48, 88>>) -> <<16, Substr(s, 2)>>
    [] StartsWith(s, <<48, 98>>) \/ StartsWith(s, <<48, 66>>)  -> <<2, Substr(s, 2)>>
    [] StartsWith(s, <<48, 111>>)                              -> <<8, Substr(s, 2)>>
    [] OTHER -> <<IF StartsWith(s, <<48>>) THEN 8 ELSE 10, s>>

Invalid == [ok |-> FALSE, value |-> 0]

\* (Without a check) a number too large is taken as its lowest bits.
AddDigitUnchecked(radix, r, c) ==
  IF ~r.ok \/ DigitValue(c) >= radix THEN Invalid
  ELSE [ok |-> TRUE, value |-> Word(r.value * radix + DigitValue(c))]

\* A number too large is found by dividing back.
AddDigit(radix, r, c) ==
  LET next == Word(r.value * radix + DigitValue(c))
  IN IF ~r.ok \/ DigitValue(c) >= radix \/ next \div radix < r.value THEN Invalid
     ELSE [ok |-> TRUE, value |-> next]

GetAsUnsignedInteger(s, radix) ==
  LET from == IF radix = 0 THEN AutoSense(s) ELSE <<radix, s>>
  IN IF from[2] = <<>> THEN Invalid
     ELSE FoldLeft(LAMBDA r, c : AddDigit(from[1], r, c), [ok |-> TRUE, value |-> 0], from[2])

GetAsSignedInteger(s, radix) ==
  IF ~StartsWith(s, Minus)
  THEN LET r == GetAsUnsignedInteger(s, radix)
       IN IF ~r.ok \/ Signed(r.value) < 0 THEN Invalid ELSE r
  ELSE LET r == GetAsUnsignedInteger(Tail(s), radix)
       IN IF ~r.ok \/ Signed(-r.value) > 0 THEN Invalid
          ELSE [ok |-> TRUE, value |-> Signed(-r.value)]
-----------------------------------------------------------------------------
(* Splitting.                                                              *)

VARIABLES splitBy,   \* the separator, or the characters that end a token
          splitting, \* "string", "char" or "tokens"
          keepEmpty,
          splitsLeft, \* MaxSplit: below 0, for ever
          subject,     \* the string split
          unsplit,     \* S: what is left of it
          pieces     \* A

splitVars == <<splitBy, splitting, keepEmpty, splitsLeft, subject, unsplit, pieces>>

Done == <<-1>>   \* unsplit, when the tail has been pushed

SplitInit ==
  /\ splitting \in {"string", "char", "tokens"}
  /\ splitBy \in Needles \ {<<>>} /\ (splitting = "char" => Len(splitBy) = 1)
  /\ keepEmpty \in BOOLEAN /\ splitsLeft \in {-1, 0, 2}
  /\ splitting = "tokens" => ~keepEmpty /\ splitsLeft = -1
  /\ subject \in Texts /\ unsplit = subject /\ pieces = <<>>

PushUnlessEmpty(s) == IF keepEmpty \/ s # <<>> THEN Append(pieces, s) ELSE pieces

SplitStep ==
  /\ splitting # "tokens" /\ unsplit # Done /\ splitsLeft # 0
  /\ LET i == Find(unsplit, splitBy, 0)
     IN /\ i # NPos
        /\ pieces' = PushUnlessEmpty(Slice(unsplit, 0, i))
        /\ unsplit' = Substr(unsplit, i + Len(splitBy))
  /\ splitsLeft' = splitsLeft - 1
  /\ UNCHANGED <<splitBy, splitting, keepEmpty, subject>>

SplitTail ==
  /\ splitting # "tokens" /\ unsplit # Done
  /\ splitsLeft = 0 \/ Find(unsplit, splitBy, 0) = NPos
  /\ pieces' = PushUnlessEmpty(unsplit) /\ unsplit' = Done
  /\ UNCHANGED <<splitBy, splitting, keepEmpty, splitsLeft, subject>>

GetToken(s, delimiters) ==
  LET start == FindFirstNotOf(s, delimiters, 0)
      end == FindFirstOf(s, delimiters, start)
  IN <<Slice(s, start, end), Substr(s, end)>>

NextToken ==
  /\ splitting = "tokens" /\ unsplit # Done
  /\ LET t == GetToken(unsplit, splitBy)
     IN IF t[1] = <<>> THEN unsplit' = Done /\ UNCHANGED pieces
        ELSE pieces' = Append(pieces, t[1]) /\ unsplit' = t[2]
  /\ UNCHANGED <<splitBy, splitting, keepEmpty, splitsLeft, subject>>

SplitNext == SplitStep \/ SplitTail \/ NextToken

JoinStrings(ps, sep) ==
  FlattenSeq([i \in DOMAIN ps |-> IF i = 1 THEN ps[i] ELSE sep \o ps[i]])
-----------------------------------------------------------------------------
(* Properties.                                                             *)

FirstWhere(n, P(_)) ==
  LET at == {i \in 0 .. n : P(i)} IN IF at = {} THEN NPos ELSE Min(at)

\* A search that skips by the bad-character table finds the first occurrence
\* there is, from wherever it starts; rfind() finds the last.
FindsFirst ==
  \A s \in Texts, str \in Needles :
    /\ \A from \in 0 .. Len(s) + 1 :
         Find(s, str, from) = FirstWhere(Len(s), LAMBDA i : i >= from /\ MatchesAt(s, str, i))
    /\ \A i \in 0 .. Len(s) : MatchesAt(s, str, i) => RFind(s, str) >= i
    /\ RFind(s, str) # NPos => MatchesAt(s, str, RFind(s, str))
    /\ (Count(s, str) = 0) <=> (Find(s, str, 0) = NPos)

\* Trimmed, a string is the longest part of it between two other characters.
TrimsAll ==
  \A s \in Texts, chars \in Needles :
    LET t == RTrim(LTrim(s, chars), chars)
    IN /\ t # <<>> => t[1] \notin ToSet(chars) /\ t[Len(t)] \notin ToSet(chars)
       /\ \E i \in 0 .. Len(s) :
            /\ MatchesAt(s, t, i)
            /\ \A j \in DOMAIN s : j <= i \/ j > i + Len(t) => s[j] \in ToSet(chars)

\* Each way to compare strings is an order: it can sort them, and be looked up by.
ComparesInOrder ==
  \A s, t \in Ordered :
    /\ Compare(s, t) = -Compare(t, s) /\ CompareLower(s, t) = -CompareLower(t, s)
    /\ CompareNumeric(s, t) = -CompareNumeric(t, s)
    /\ (Compare(s, t) = 0) <=> (s = t)
    /\ (CompareNumeric(s, t) = 0) <=> (s = t)
    /\ \A u \in Ordered :
         /\ Compare(s, t) < 0 /\ Compare(t, u) < 0 => Compare(s, u) < 0
         /\ CompareLower(s, t) <= 0 /\ CompareLower(t, u) <= 0 => CompareLower(s, u) <= 0
         /\ CompareNumeric(s, t) < 0 /\ CompareNumeric(t, u) < 0 => CompareNumeric(s, u) < 0

ValueOf(s, radix) == FoldLeft(LAMBDA n, c : n * radix + DigitValue(c), 0, s)
AllDigits(s, radix) == s # <<>> /\ \A i \in DOMAIN s : DigitValue(s[i]) < radix

\* A string is read as the number it shows, and refused exactly when it shows none
\* or one that does not fit.
ReadsNumbers ==
  \A s \in Numerals, radix \in {2, 8, 10, 16} :
    /\ GetAsUnsignedInteger(s, radix) =
         IF AllDigits(s, radix) /\ ValueOf(s, radix) < 2 ^ WordBits
         THEN [ok |-> TRUE, value |-> ValueOf(s, radix)] ELSE Invalid
    /\ GetAsSignedInteger(s, radix) =
         IF AllDigits(s, radix) /\ ValueOf(s, radix) < 2 ^ (WordBits - 1)
         THEN [ok |-> TRUE, value |-> ValueOf(s, radix)] ELSE Invalid
    /\ GetAsSignedInteger(Minus \o s, radix) =
         IF AllDigits(s, radix) /\ ValueOf(s, radix) <= 2 ^ (WordBits - 1)
         THEN [ok |-> TRUE, value |-> -ValueOf(s, radix)] ELSE Invalid

\* What is written of a number, in a field of any width, is read back as it.
\* (In a field too narrow for a digit, 0 is written as nothing, or "0x".)
WritesNumbers ==
  /\ \A n \in 0 .. 2 ^ WordBits - 1 :
       /\ GetAsUnsignedInteger(Utostr(n), 10).value = n
       /\ GetAsUnsignedInteger(UtoHexStr(n, TRUE), 16).value = n
       /\ \A width \in 1 .. 4 :
            /\ GetAsUnsignedInteger(FormatHex(n, width, FALSE), 16).value = n
            /\ GetAsUnsignedInteger(FormatHex(n, width + 2, TRUE), 0).value = n
            /\ Len(FormatHex(n, width, FALSE)) >= width
  /\ \A n \in -(2 ^ (WordBits - 1)) .. 2 ^ (WordBits - 1) - 1, width \in 1 .. 6 :
       /\ GetAsSignedInteger(Itostr(n), 10).value = n
       /\ GetAsSignedInteger(LTrim(FormatDecimal(n, width), <<32>>), 10).value = n

\* Two strings are never escaped to the same text.
EscapesApart ==
  \A s, t \in Ordered, hex \in BOOLEAN :
    s # t => WriteEscaped(s, hex) # WriteEscaped(t, hex)

\* Splitting loses nothing: the pieces, joined again, are the string; none but the
\* last, when the splits were counted, has a separator in it; and tokens are the
\* longest parts without a delimiter.
SplitLosesNothing ==
  /\ keepEmpty =>
       subject = IF unsplit = Done THEN JoinStrings(pieces, splitBy)
               ELSE JoinStrings(Append(pieces, unsplit), splitBy)
  /\ splitting # "tokens" =>
       \A i \in DOMAIN pieces :
         Find(pieces[i], splitBy, 0) = NPos \/ (i = Len(pieces) /\ splitsLeft = 0)
  /\ splitting = "tokens" /\ unsplit = Done =>
       FlattenSeq(pieces) = SelectSeq(subject, LAMBDA c : c \notin ToSet(splitBy))

StringsSound ==
  /\ SplitLosesNothing
  /\ FindsFirst /\ TrimsAll /\ ComparesInOrder /\ ReadsNumbers /\ WritesNumbers /\ EscapesApart
=============================================================================
