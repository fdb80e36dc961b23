------------------------------- MODULE JsonWriter -------------------------------
(***************************************************************************)
(* Json::FastWriter, which the responses are written with, and             *)
(* Json::StyledWriter, which the default configuration is written with: a  *)
(* value is written as a sequence of tokens, comments and newlines         *)
(* included.  "sp" stands for an indentation; the other blanks are left    *)
(* out.  Below them: how integers and strings are written, character by    *)
(* character.                                                              *)
(***************************************************************************)
EXTENDS Integers, Sequences, SequencesExt, FiniteSets, TLC

CONSTANTS
  RightMargin,   \* the width of a line
  TokenLength    \* the length of a leaf on the line

\* getMemberNames, which are sorted.
MemberNames(v) == SelectSeq(<<"''", "1", "'a'", "'b'">>, LAMBDA n : n \in DOMAIN v.members)

Separated(s) == FlattenSeq([i \in DOMAIN s |-> IF i = 1 THEN s[i] ELSE <<",">> \o s[i]])

\* FastWriter::writeValue, where null is written as null says.
RECURSIVE FastWrite(_, _)
FastWrite(v, null) ==
  CASE v.type = "leaf" -> IF v.leaf = "null" THEN null ELSE <<v.leaf>>
    [] v.type = "array" -> <<"[">> \o Separated([i \in DOMAIN v.elements |-> FastWrite(v.elements[i], null)]) \o <<"]">>
    [] v.type = "object" ->
         <<"{">> \o Separated([i \in DOMAIN MemberNames(v) |-> <<MemberNames(v)[i], ":">> \o FastWrite(v.members[MemberNames(v)[i]], null)])
           \o <<"}">>

-----------------------------------------------------------------------------
(* A writer: the document so far, the children of an array that have been  *)
(* written to measure them, whether pushValue adds to those, the depth of  *)
(* indentation, whether a stream writer need not indent, and the comments  *)
(* of the values, which are told apart by where they were read.            *)

NewWriter(comments) ==
  [document |-> <<>>, children |-> <<>>, adding |-> FALSE, depth |-> 0, indented |-> TRUE, comments |-> comments]

Size(v) == IF v.type = "array" THEN Len(v.elements) ELSE Cardinality(DOMAIN v.members)

Uncommented == [before |-> <<>>, same |-> <<>>, after |-> <<>>]
CommentsAt(w, v) == IF v.start \in DOMAIN w.comments THEN w.comments[v.start] ELSE Uncommented

PushValue(w, tokens) ==
  IF w.adding THEN [w EXCEPT !.children = Append(@, tokens)] ELSE [w EXCEPT !.document = @ \o tokens]
Put(w, tokens) == [w EXCEPT !.document = @ \o tokens]

Indent(w) == [w EXCEPT !.depth = @ + 1]
Unindent(w) == [w EXCEPT !.depth = @ - 1]
Indentation(w) == IF w.depth = 0 THEN <<>> ELSE <<"sp">>

\* A line comment ends with its line; that of the last one is cut off.
CommentText(s, indentation) ==
  FlattenSeq([i \in DOMAIN s |-> IF s[i] = "/*" \/ i = Len(s) THEN <<s[i]>> ELSE <<s[i], "nl">> \o indentation])

\* A document that ends in a blank is taken for indented, whether the blank is
\* an indentation, stands behind a colon or ends a comment.
WriteIndent(w) ==
  IF w.document # <<>> /\ Last(w.document) \in {"sp", ":", "// "} THEN w
  ELSE Put(w, (IF w.document = <<>> \/ Last(w.document) = "nl" THEN <<>> ELSE <<"nl">>) \o Indentation(w))
WriteWithIndent(w, tokens) == Put(WriteIndent(w), tokens)

WriteCommentBeforeValue(w, v) ==
  LET c == CommentsAt(w, v).before IN
  IF c = <<>> THEN w ELSE Put(WriteIndent(Put(w, <<"nl">>)), CommentText(c, Indentation(w)) \o <<"nl">>)

WriteCommentAfterValueOnSameLine(w, v) ==
  LET c == CommentsAt(w, v) IN
  Put(w, c.same \o IF c.after = <<>> THEN <<>> ELSE <<"nl">> \o CommentText(c.after, <<>>) \o <<"nl">>)

RECURSIVE WriteValue(_, _), WriteElements(_, _, _, _), WriteMembers(_, _, _)

Measure(w, v) ==
  LET f[i \in 0 .. Size(v)] == IF i = 0 THEN [w EXCEPT !.adding = TRUE] ELSE WriteValue(f[i - 1], v.elements[i])
  IN [f[Size(v)] EXCEPT !.adding = FALSE]

LineLength(children, n) ==
  4 + (n - 1) * 2
    + FoldLeft(LAMBDA sum, c : sum + (IF Len(c) = 1 THEN TokenLength ELSE Len(c)), 0, SubSeq(children, 1, n))

TooManyOrNested(v) ==
  Size(v) * 3 >= RightMargin \/ \E i \in DOMAIN v.elements : v.elements[i].type # "leaf" /\ Size(v.elements[i]) > 0
HasCommentForValue(w, v) == CommentsAt(w, v) # Uncommented

Measured(w, v) ==
  LET m == Measure(w, v) IN
  [writer |-> m,
   answer |-> (\E i \in DOMAIN v.elements : HasCommentForValue(w, v.elements[i]))
                \/ LineLength(m.children, Size(v)) >= RightMargin]

\* Mutant: the children of the array before are still there.
IsMultiLineKeeps(w, v) == IF TooManyOrNested(v) THEN [writer |-> w, answer |-> TRUE] ELSE Measured(w, v)

\* isMultineArray: the writer after it, and the answer.
IsMultiLine(w, v) ==
  LET cleared == [w EXCEPT !.children = <<>>] IN
  IF TooManyOrNested(v) THEN [writer |-> cleared, answer |-> TRUE] ELSE Measured(cleared, v)

\* The loop of writeArrayValue over the lines, from the i-th element; measured
\* tells whether the children had been written when it began.
WriteElements(w, v, i, measured) ==
  LET child == v.elements[i]
      before == WriteCommentBeforeValue(w, child)
      written == IF measured THEN WriteWithIndent(before, before.children[i]) ELSE WriteValue(WriteIndent(before), child)
  IN IF i > Size(v) THEN w
     ELSE WriteElements(
            WriteCommentAfterValueOnSameLine(IF i = Size(v) THEN written ELSE Put(written, <<",">>), child),
            v, i + 1, measured)

\* The rest of writeArrayValue.
WriteArray(w, v) ==
  LET m == IsMultiLine(w, v)
      lines == WriteElements(Indent(WriteWithIndent(m.writer, <<"[">>)), v, 1, m.writer.children # <<>>)
  IN IF m.answer THEN WriteWithIndent(Unindent(lines), <<"]">>)
     ELSE Put(m.writer, <<"[">> \o Separated(m.writer.children) \o <<"]">>)

WriteMembers(w, v, i) ==
  LET name == MemberNames(v)[i]
      child == v.members[name]
      written == WriteValue(Put(WriteWithIndent(WriteCommentBeforeValue(w, child), <<name>>), <<":">>), child)
  IN IF i > Size(v) THEN w
     ELSE WriteMembers(
            WriteCommentAfterValueOnSameLine(IF i = Size(v) THEN written ELSE Put(written, <<",">>), child),
            v, i + 1)

WriteValue(w, v) ==
  CASE v.type = "leaf" -> PushValue(w, <<v.leaf>>)
    [] v.type = "array" -> IF Size(v) = 0 THEN PushValue(w, <<"[", "]">>) ELSE WriteArray(w, v)
    [] v.type = "object" ->
         IF Size(v) = 0 THEN PushValue(w, <<"{", "}">>)
         ELSE WriteWithIndent(Unindent(WriteMembers(Indent(WriteWithIndent(w, <<"{">>)), v, 1)), <<"}">>)

\* StyledWriter::write.
StyledWrite(v, comments) ==
  Put(WriteCommentAfterValueOnSameLine(WriteValue(WriteCommentBeforeValue(NewWriter(comments), v), v), v), <<"nl">>).document

-----------------------------------------------------------------------------
(* valueToString of an integer, and valueToQuotedString. *)

RECURSIVE UIntToString(_)
UIntToString(n) ==
  LET digits == <<"0", "1", "2", "3", "4", "5", "6", "7", "8", "9">> IN
  (IF n < 10 THEN <<>> ELSE UIntToString(n \div 10)) \o <<digits[(n % 10) + 1]>>

\* -n does not fit if n is the least integer; the code writes that one apart.
ValueToString(n) == IF n < 0 THEN <<"-">> \o UIntToString(-n) ELSE UIntToString(n)

ShortEscapes == (34 :> 34) @@ (92 :> 92) @@ (8 :> 98) @@ (12 :> 102) @@ (10 :> 110) @@ (13 :> 114) @@ (9 :> 116)
Control(c) == c \in 0 .. 31
Hex(n) == IF n < 10 THEN 48 + n ELSE 55 + n

Escaped(c) ==
  IF c \in DOMAIN ShortEscapes THEN <<92, ShortEscapes[c]>>
  ELSE IF Control(c) THEN <<92, 117, 48, 48, Hex(c \div 16), Hex(c % 16)>> ELSE <<c>>

\* valueToQuotedStringN, from behind the opening quote.
QuotedStringN(s) == FlattenSeq([i \in DOMAIN s |-> Escaped(s[i])]) \o <<34>>

\* valueToQuotedString, which StyledWriter writes names with, ends at a NUL.
QuotedString(s) ==
  LET nul == {i \in DOMAIN s : s[i] = 0} IN
  QuotedStringN(IF nul = {} THEN s ELSE SubSeq(s, 1, (CHOOSE i \in nul : \A j \in nul : i <= j) - 1))
==============================================================================
