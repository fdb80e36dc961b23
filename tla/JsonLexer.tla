------------------------------- MODULE JsonLexer -------------------------------
(***************************************************************************)
(* The characters of numbers and strings, as Json::Reader takes them for   *)
(* tokens and decodes them, with integers of a smaller width.  A number is *)
(* a sequence of one-character strings, a string one of bytes.             *)
(***************************************************************************)
EXTENDS Integers, Sequences, SequencesExt, TLC

CONSTANTS
  MaxInt,        \* of Value::Int
  MaxLargestInt  \* of Value::LargestInt

MaxLargestUInt == 2 * MaxLargestInt + 1
MinLargestInt == -MaxLargestInt - 1

At(s, i) == IF i <= Len(s) THEN s[i] ELSE ""

-----------------------------------------------------------------------------
(* Numbers. *)

Digits == <<"0", "1", "2", "3", "4", "5", "6", "7", "8", "9">>
IsDigit(c) == c \in Range(Digits)
DigitOf(c) == (CHOOSE d \in DOMAIN Digits : Digits[d] = c) - 1

RECURSIVE SkipDigits(_, _)
SkipDigits(s, i) == IF IsDigit(At(s, i)) THEN SkipDigits(s, i + 1) ELSE i

\* readNumber: how many characters the token takes, a digit or a minus first.
NumberLength(s) ==
  LET i == SkipDigits(s, 2)
      j == IF At(s, i) = "." THEN SkipDigits(s, i + 1) ELSE i
      k == IF At(s, j) # "e" THEN j
           ELSE SkipDigits(s, IF At(s, j + 1) \in {"+", "-"} THEN j + 2 ELSE j + 1)
  IN k - 1

Number(type, n) == [type |-> type, n |-> n]

\* What operator>> of a stream takes for a double; overflow is left out.
IsDouble(s) ==
  LET i == SkipDigits(s, IF At(s, 1) = "-" THEN 2 ELSE 1)
      j == IF At(s, i) = "." THEN SkipDigits(s, i + 1) ELSE i
      sign == IF At(s, j + 1) \in {"+", "-"} THEN 1 ELSE 0
      k == SkipDigits(s, j + 1 + sign)
  IN /\ \E d \in 1 .. j - 1 : IsDigit(s[d])
     /\ j = Len(s) + 1 \/ (At(s, j) = "e" /\ k > j + 1 + sign /\ k = Len(s) + 1)

DecodeDouble(s) == IF IsDouble(s) THEN Number("double", 0) ELSE Number("error", 0)

RECURSIVE DecodeDigits(_, _, _, _)

\* The loop of decodeNumber.
DecodeDigits(s, i, value, max) ==
  IF i > Len(s) THEN Number("int", value)
  ELSE IF \/ ~IsDigit(s[i])
          \/ value >= max \div 10 /\ (value > max \div 10 \/ i # Len(s) \/ DigitOf(s[i]) > max % 10)
  THEN DecodeDouble(s)
  ELSE DecodeDigits(s, i + 1, (value * 10 + DigitOf(s[i])) % (MaxLargestUInt + 1), max)

\* A lone minus is zero.
DecodeNumber(s) ==
  LET negative == s[1] = "-"
      r == DecodeDigits(s, IF negative THEN 2 ELSE 1, 0, IF negative THEN MaxLargestInt + 1 ELSE MaxLargestUInt)
  IN IF r.type # "int" THEN r
     ELSE IF negative THEN Number("int", -r.n)
     ELSE Number(IF r.n <= MaxInt THEN "int" ELSE "uint", r.n)

-----------------------------------------------------------------------------
(* Strings. *)

Quote == 34
Backslash == 92
Escapes == (34 :> 34) @@ (47 :> 47) @@ (92 :> 92)                       \* " / \
             @@ (98 :> 8) @@ (102 :> 12) @@ (110 :> 10) @@ (114 :> 13) @@ (116 :> 9)  \* b f n r t
LowerU == 117

\* readString, after the opening quote: where the token ends, 0 if it does not.
RECURSIVE StringEndAt(_, _, _)
StringEndAt(s, i, quote) ==
  IF i > Len(s) THEN 0
  ELSE IF s[i] = Backslash THEN StringEndAt(s, i + 2, quote)
  ELSE IF s[i] = quote THEN i ELSE StringEndAt(s, i + 1, quote)
StringEnd(s, i) == StringEndAt(s, i, Quote)

Decoded(ok, bytes) == [ok |-> ok, bytes |-> bytes]
Undecoded == Decoded(FALSE, <<>>)

HexDigit(c) ==
  IF c \in 48 .. 57 THEN c - 48 ELSE IF c \in 97 .. 102 THEN c - 87 ELSE IF c \in 65 .. 70 THEN c - 55 ELSE -1

\* decodeUnicodeEscapeSequence, of four digits from i: a code unit or -1.
CodeUnit(s, i) ==
  IF i + 3 > Len(s) \/ \E k \in i .. i + 3 : HexDigit(s[k]) = -1 THEN -1
  ELSE FoldLeft(LAMBDA u, c : u * 16 + HexDigit(c), 0, SubSeq(s, i, i + 3))

High(u) == u \in 55296 .. 56319

\* codePointToUTF8.
Utf8(cp) ==
  LET rest(n) == 128 + ((cp \div n) % 64) IN
  IF cp < 128 THEN <<cp>>
  ELSE IF cp < 2048 THEN <<192 + ((cp \div 64) % 32), rest(1)>>
  ELSE IF cp < 65536 THEN <<224 + ((cp \div 4096) % 16), rest(64), rest(1)>>
  ELSE <<240 + ((cp \div 262144) % 8), rest(4096), rest(64), rest(1)>>

\* The second half of a surrogate pair is whatever code unit comes next.
Pair(u, v) == 65536 + ((u % 1024) * 1024) + (v % 1024)

RECURSIVE DecodeFrom(_, _)

Then(bytes, r) == IF r.ok THEN Decoded(TRUE, bytes \o r.bytes) ELSE r

\* decodeUnicodeCodePoint, of the escape whose digits begin at i.
DecodeEscapeU(s, i) ==
  LET u == CodeUnit(s, i)
      v == IF At(s, i + 5) = LowerU THEN CodeUnit(s, i + 6) ELSE -1
  IN IF u = -1 THEN Undecoded
     ELSE IF ~High(u) THEN Then(Utf8(u), DecodeFrom(s, i + 4))
     ELSE IF i + 9 > Len(s) \/ s[i + 4] # Backslash \/ v = -1 THEN Undecoded
     ELSE Then(Utf8(Pair(u, v)), DecodeFrom(s, i + 10))

DecodeFrom(s, i) ==
  IF i > Len(s) THEN Decoded(TRUE, <<>>)
  ELSE IF s[i] # Backslash THEN Then(<<s[i]>>, DecodeFrom(s, i + 1))
  ELSE IF i = Len(s) THEN Undecoded
  ELSE IF s[i + 1] = LowerU THEN DecodeEscapeU(s, i + 2)
  ELSE IF s[i + 1] \in DOMAIN Escapes THEN Then(<<Escapes[s[i + 1]]>>, DecodeFrom(s, i + 2))
  ELSE Undecoded

\* decodeString, of what stands between the quotes.
DecodeString(s) == DecodeFrom(s, 1)

\* A string token from behind its opening quote.
ReadString(s) == IF StringEnd(s, 1) = 0 THEN Undecoded ELSE DecodeString(SubSeq(s, 1, StringEnd(s, 1) - 1))

-----------------------------------------------------------------------------
(* The same in OurReader, which can take strings in single quotes and       *)
(* infinities; "I" stands for the spelled "Infinity".                       *)

SingleQuote == 39

\* readNumber: a minus may be followed by an infinity.
OurNumberLength(s) == IF s[1] = "-" /\ At(s, 2) = "I" THEN 2 ELSE NumberLength(s)

\* The bound of a negative number is the least integer with its sign changed,
\* which wraps round to itself.
OurDecodeNumber(s) ==
  LET max == IF s[1] = "-" THEN (-MinLargestInt) % (MaxLargestUInt + 1) ELSE MaxLargestUInt
      r == DecodeDigits(s, IF s[1] = "-" THEN 2 ELSE 1, 0, max)
  IN CASE r.type # "int" -> r
       [] r.type = "int" /\ s[1] = "-" -> Number("int", -r.n)
       [] OTHER -> Number(IF r.n <= MaxInt THEN "int" ELSE "uint", r.n)

\* A token that starts with a digit or a minus.
OurReadNumber(s, allowSpecialFloats) ==
  CASE At(s, 2) = "I" /\ s[1] = "-" -> Number(IF allowSpecialFloats THEN "double" ELSE "error", 0)
    [] OTHER -> OurDecodeNumber(SubSeq(s, 1, OurNumberLength(s)))

\* readString and readStringSingleQuote.
OurStringEnd(s, quote) == StringEndAt(s, 1, quote)

\* decodeString ends at a double quote whatever the string was put in.
OurDecodeString(s) ==
  LET end == StringEnd(s, 1) IN DecodeString(IF end = 0 THEN s ELSE SubSeq(s, 1, end - 1))

OurReadString(s, quote) ==
  LET end == OurStringEnd(s, quote) IN IF end = 0 THEN Undecoded ELSE OurDecodeString(SubSeq(s, 1, end - 1))

-----------------------------------------------------------------------------
(* The grammar of JSON's numbers, and UTF-8 read backwards. *)

AllDigits(s) == s # <<>> /\ \A i \in DOMAIN s : IsDigit(s[i])
Unsigned(s) == AllDigits(s) /\ (s[1] = "0" => Len(s) = 1)
Integral(s) == Unsigned(s) \/ (s # <<>> /\ s[1] = "-" /\ Unsigned(Tail(s)))
Fraction(s) == s = <<>> \/ (s[1] = "." /\ AllDigits(Tail(s)))
Exponent(s) ==
  \/ s = <<>>
  \/ /\ s[1] = "e"
     /\ AllDigits(Tail(s)) \/ (Len(s) > 1 /\ s[2] \in {"+", "-"} /\ AllDigits(Tail(Tail(s))))

JsonNumber(s) ==
  \E i \in 1 .. Len(s) : \E j \in i .. Len(s) :
    Integral(SubSeq(s, 1, i)) /\ Fraction(SubSeq(s, i + 1, j)) /\ Exponent(SubSeq(s, j + 1, Len(s)))

IntegerOf(s) ==
  LET n(t) == FoldLeft(LAMBDA v, c : v * 10 + DigitOf(c), 0, t) IN
  IF s[1] = "-" THEN -n(Tail(s)) ELSE n(s)

RECURSIVE CodePoints(_)
CodePoints(bytes) ==
  IF bytes = <<>> THEN <<>>
  ELSE LET n == IF bytes[1] < 128 THEN 0 ELSE IF bytes[1] < 224 THEN 1 ELSE IF bytes[1] < 240 THEN 2 ELSE 3
           first == IF n = 0 THEN bytes[1] ELSE bytes[1] % (2 ^ (6 - n))
           cp == FoldLeft(LAMBDA v, b : (v * 64) + (b % 64), first, SubSeq(bytes, 2, n + 1))
       IN <<cp>> \o CodePoints(SubSeq(bytes, n + 2, Len(bytes)))
==============================================================================
