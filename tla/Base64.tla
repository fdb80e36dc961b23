--------------------------------- MODULE Base64 ---------------------------------
(***************************************************************************)
(* The two pairs of base64 functions: Encode and HandlerBase's Decode,     *)
(* which know line breaks, and base64_encode and base64_decode, which do   *)
(* not.  A character of the alphabet is its number; "=" and the others     *)
(* have numbers above.                                                     *)
(***************************************************************************)
EXTENDS Integers, Sequences, SequencesExt

LineLength == 8   \* the characters of a line, 76 in the code
Pad == 64
Return == 65
NewLineByte == 66
Zero == 67        \* any other character
InAlphabet(c) == c \in 0 .. 63

\* The four characters of three bytes.
Four(a, b, c) ==
  <<a \div 4, ((a % 4) * 16) + (b \div 16), ((b % 16) * 4) + (c \div 64), c % 64>>

\* Encode, where used is how many characters the line has.
RECURSIVE Encode(_, _)
Encode(bytes, used) ==
  CASE bytes = <<>> -> <<>>
    [] Len(bytes) = 1 -> SubSeq(Four(bytes[1], 0, 0), 1, 2) \o <<Pad, Pad>>
    [] Len(bytes) = 2 -> SubSeq(Four(bytes[1], bytes[2], 0), 1, 3) \o <<Pad>>
    [] OTHER -> Four(bytes[1], bytes[2], bytes[3])
                  \o (IF used + 4 = LineLength THEN <<Return, NewLineByte>> ELSE <<>>)
                  \o Encode(SubSeq(bytes, 4, Len(bytes)), IF used + 4 = LineLength THEN 0 ELSE used + 4)

RECURSIVE PlainEncode(_)
\* base64_encode.
PlainEncode(bytes) ==
  IF Len(bytes) >= 3 THEN Four(bytes[1], bytes[2], bytes[3]) \o PlainEncode(SubSeq(bytes, 4, Len(bytes)))
  ELSE CASE bytes = <<>> -> <<>>
         [] Len(bytes) = 1 -> SubSeq(Four(bytes[1], 0, 0), 1, 2) \o <<Pad, Pad>>
         [] OTHER -> SubSeq(Four(bytes[1], bytes[2], 0), 1, 3) \o <<Pad>>

\* The three bytes of four characters.
Three(w, x, y, z) ==
  <<((w % 64) * 4) + ((x \div 16) % 4), ((x % 16) * 16) + ((y \div 4) % 16), ((y % 4) * 64 + z) % 256>>

\* DecodeTable; it ends with 'z', and what is read of it behind is anything.
Entry(c) == IF InAlphabet(c) THEN c ELSE 0

\* Decode: what it returns, and the last place it reads; behind the text stands
\* a NUL.  i counts four characters to a group, at is where it reads.
RECURSIVE DecodeGroups(_, _, _, _, _)
DecodeGroups(text, i, at, bytes, read) ==
  LET c(k) == IF k <= Len(text) THEN text[k] ELSE Zero
      group == Three(Entry(c(at)), Entry(c(at + 1)), Entry(c(at + 2)), Entry(c(at + 3)))
      taken == IF c(at + 2) = Pad THEN 2 ELSE IF c(at + 3) = Pad THEN 3 ELSE 4
  IN IF i > Len(text) THEN [bytes |-> bytes, read |-> read]
     ELSE IF InAlphabet(c(at))
     THEN DecodeGroups(text, i + 4, at + taken, bytes \o SubSeq(group, 1, taken - 1), IF taken = 2 THEN at + 2 ELSE at + 3)
     ELSE DecodeGroups(text, i + 1, at + 1, bytes, at)
Decode(text) == DecodeGroups(text, 1, 1, <<>>, 0)

\* base64_decode of what is left of the characters: those that are missing are
\* npos, cut to a byte.
PlainTail(s) ==
  IF s = <<>> THEN <<>>
  ELSE LET c(k) == IF k <= Len(s) THEN s[k] ELSE 255 IN SubSeq(Three(c(1), c(2), c(3), c(4)), 1, Len(s) - 1)

RECURSIVE PlainGroups(_)
PlainGroups(s) ==
  IF Len(s) < 4 THEN PlainTail(s) ELSE Three(s[1], s[2], s[3], s[4]) \o PlainGroups(SubSeq(s, 5, Len(s)))

\* base64_decode ends at the first character that is none of the alphabet.
PlainDecode(text) ==
  LET ends == {k \in DOMAIN text : ~InAlphabet(text[k])}
      n == IF ends = {} THEN Len(text) ELSE (CHOOSE k \in ends : \A j \in ends : k <= j) - 1
  IN PlainGroups(SubSeq(text, 1, n))
==============================================================================
