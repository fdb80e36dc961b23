------------------------------- MODULE JsonCalls -------------------------------
(***************************************************************************)
(* What Json's readers and writers are asked, and what must hold of their  *)
(* answers: documents, numbers, strings and values over small inputs.      *)
(***************************************************************************)
EXTENDS JsonReader, JsonStreamWriter, JsonLexer

-----------------------------------------------------------------------------
(* The grammar of JSON, which the readers are compared with: the values a   *)
(* sequence of tokens denotes, none or one.  The last of two members with   *)
(* one name counts.                                                         *)

RECURSIVE Denotes(_), Elements(_), Members(_)

Inner(s) == SubSeq(s, 2, Len(s) - 1)
Commas(s) == {k \in DOMAIN s : s[k] = ","}
Before(s, k) == SubSeq(s, 1, k - 1)
After(s, k) == SubSeq(s, k + 1, Len(s))

Elements(s) ==
  {<<v>> : v \in Denotes(s)}
    \cup UNION {{<<v>> \o e : v \in Denotes(Before(s, k)), e \in Elements(After(s, k))} : k \in Commas(s)}

Member(s) ==
  IF Len(s) < 3 \/ s[1] \notin Strings \/ s[2] # ":" THEN {}
  ELSE {<<s[1], v>> : v \in Denotes(After(s, 2))}

Members(s) ==
  {WithMember(<<>>, m[1], m[2]) : m \in Member(s)}
    \cup UNION {{WithMember(e, m[1], m[2]) : m \in Member(After(s, k)), e \in Members(Before(s, k))} : k \in Commas(s)}

Denotes(s) ==
  IF s = <<>> THEN {}
  ELSE CASE Len(s) = 1 -> {Leaf(t) : t \in {s[1]} \cap Leaves}
         [] s[1] = "[" /\ Last(s) = "]" ->
              IF Len(s) = 2 THEN {Array(<<>>)} ELSE {Array(e) : e \in Elements(Inner(s))}
         [] s[1] = "{" /\ Last(s) = "}" ->
              IF Len(s) = 2 THEN {Object(<<>>)} ELSE {Object(m) : m \in Members(Inner(s))}
         [] OTHER -> {}

\* How deep the value at i is, itself included.
Level(s, i) ==
  LET opened == {k \in 1 .. i : s[k] \in {"{", "["}}
      closed == {k \in 1 .. i - 1 : s[k] \in {"}", "]"}}
  IN Cardinality(opened) - Cardinality(closed) + (IF s[i] \in Leaves THEN 1 ELSE 0)

TooDeep(s) == \E i \in DOMAIN s : s[i] \in Leaves \cup {"{", "["} /\ Level(s, i) > StackLimit

WithoutComments(s) == SelectSeq(s, LAMBDA t : ~IsComment(t))

\* A comment may stand between any two tokens but before a colon and in an
\* empty array.
CommentsAllowed(s) ==
  \A i \in DOMAIN s : s[i] = "/*" /\ i < Len(s) =>
    s[i + 1] # ":" /\ ~(\E j \in 1 .. i : s[j] = "[" /\ \A k \in j + 1 .. i : s[k] = "/*" /\ s[i + 1] = "]")

-----------------------------------------------------------------------------
(* Documents. *)

Sequences(S, n) == UNION {[1 .. k -> S] : k \in 0 .. n}

\* Bounds: the longest text over all tokens, number and string that is read.
DocumentLength == 4
NumberLengths == 4
StringLength == 3

Samples ==
  {<<"{", "'a'", ":", "1", ",", "'b'", ":", "[", "1", ",", "'a'", "]", "}">>,
   <<"[", "{", "'a'", ":", "1", ",", "'a'", ":", "null", "}", ",", "[", "]", "]">>}
NamelessSample == <<"{", "''", ":", "{", "'a'", ":", "[", "]", "}", ",", "'b'", ":", "1", "}">>

Inserted(docs, pieces) ==
  UNION {{SubSeq(d, 1, i) \o p \o SubSeq(d, i + 1, Len(d)) : i \in 0 .. Len(d), p \in pieces} : d \in docs}

\* Texts one token away from a sample, and some with a comment besides.
Edited(doc) ==
  {RemoveAt(doc, i) : i \in DOMAIN doc} \cup {ReplaceAt(doc, i, t) : i \in DOMAIN doc, t \in Tokens}
    \cup Inserted({doc}, {<<t>> : t \in Tokens})
Documents ==
  Sequences(Tokens, DocumentLength)
    \cup UNION {Edited(d) : d \in Samples \cup {NamelessSample} \cup Inserted(Samples, {<<"/*">>})}

\* Texts that leave a string open, and what the memory behind the copy holds.
OpenDocuments == {Append(s, "open") : s \in Sequences(Punctuation \cup {"'a'"}, 3)}
Leftovers == {<<>>, <<"quote">>, <<"quote", "}">>, <<"quote", ":", "1", "}">>}

\* What the three readers make of a text.
ReadAll(text, rest) ==
  [reader |-> Parse(text, rest),
   defaults |-> OurParse(Defaults, Copied(text, <<>>)),
   strict |-> OurParse(Strict, Copied(text, <<>>))]

RECURSIVE Bare(_), MemberCount(_)
\* The value without its place in the text.
Bare(v) ==
  [v EXCEPT !.start = 0, !.limit = 0,
            !.elements = [i \in DOMAIN v.elements |-> Bare(v.elements[i])],
            !.members = [n \in DOMAIN v.members |-> Bare(v.members[n])]]
MemberCount(v) ==
  FoldLeft(LAMBDA sum, e : sum + MemberCount(e), 0, v.elements)
    + FoldFunction(LAMBDA m, sum : sum + 1 + MemberCount(m), 0, v.members)

HasEmptyName(text) == \E i \in DOMAIN text : text[i] = NoName

ReadsWhatIsJson(text, rest, out) ==
  LET plain == WithoutComments(text)
      v == Denotes(plain)
  IN /\ v # {} /\ CommentsAllowed(text) =>
          IF TooDeep(plain) THEN out.reader.status = "throws"
          ELSE out.reader.status = "ok" /\ Bare(out.reader.value) \in v
     /\ out.reader.status = "ok" /\ ~(\E t \in {"/*", NoName, "open"} : t \in Range(text)) =>
          \E k \in DOMAIN text : Bare(out.reader.value) \in Denotes(SubSeq(text, 1, k))

ReadersAgree(text, out) ==
  "open" \notin Range(text) => out.defaults = out.reader

StrictReaderIsStrict(text, out) ==
  LET v == Denotes(text)
      unique == \A u \in v : MemberCount(u) = Cardinality({i \in DOMAIN text : text[i] = ":"})
  IN /\ v # {} /\ ~TooDeep(text) =>
          (out.strict.status = "ok" <=> unique /\ \A u \in v : u.type # "leaf")
     /\ out.strict.status = "ok" => Bare(out.strict.value) \in v \/ \E t \in {"/*", NoName} : t \in Range(text)

\* Texts that all settings are tried with.
FewDocuments == Sequences(Tokens, 3) \cup UNION {Edited(d) : d \in Samples}
Widening == {"allowComments", "allowDroppedNullPlaceholders", "allowNumericKeys"}
SettingsOf(features) == [k \in Features |-> IF k \in features THEN "true" ELSE "false"] @@ DefaultSettings

\* A text that is read with one setting is read as the same value with one that
\* allows more; a name that is no setting changes nothing, and the builder can
\* find it; without a limit of the stack nothing is read.
SettingsWiden(doc) ==
  \A f \in SUBSET Features :
    LET r == BuiltParse(SettingsOf(f), doc) IN
    /\ r.status = "ok" =>
         /\ \A k \in Widening : OurParse(f \cup {k}, doc) = r
         /\ \A k \in Features \ Widening : OurParse(f \ {k}, doc) = r
    /\ LET misspelt == SettingsOf(f) @@ ("allowComment" :> "true") IN
       InvalidKeys(misspelt, ReaderKeys) = {"allowComment"} /\ BuiltParse(misspelt, doc) = r
    /\ BuiltParse([k \in Features |-> SettingsOf(f)[k]], doc).status = "throws"

-----------------------------------------------------------------------------
(* Values are written and read again. *)

\* Samples with up to two comments at any places.
Comments == {<<"/*">>, <<"//", "nl">>, <<"// ", "nl">>, <<"nl", "/*">>, <<"nl", "//", "nl">>, <<"nl", "// ", "nl">>}
Commented == Inserted(Samples, Comments) \cup Inserted(Inserted(Samples, {<<"//", "nl">>, <<"nl", "/*">>}), Comments)

NoComments == [x \in {} |-> Uncommented]
WriteWith(settings, v, comments) == BuiltWrite(NewStreamWriter(settings @@ DefaultWriter), v, comments)

\* What each writer makes of a value.
WriteAll(v, comments) ==
  [fast |-> FastWrite(v, <<"null">>), dropped |-> FastWrite(v, <<>>),
   styled |-> StyledWrite(v, comments), stream |-> StreamWrite(v, comments),
   built |-> WriteWith(<<>>, v, comments),
   plain |-> WriteWith([commentStyle |-> "None"], v, comments),
   compact |-> WriteWith([indentation |-> ""], v, comments),
   sparse |-> WriteWith([dropNullPlaceholders |-> "true", commentStyle |-> "None"], v, comments)]

\* A document that has been read and written back.
Rewrite(doc) ==
  LET r == ParseChars(doc)
      comments == CommentsOf(doc, r.value)
  IN [value |-> Bare(r.value), comments |-> comments, written |-> WriteAll(r.value, comments)]

Unindented(doc) == SelectSeq(doc, LAMBDA t : t # "sp")
ReadsAs(doc, v) == LET r == ParseChars(Unindented(doc)) IN r.status = "ok" /\ Bare(r.value) = v

\* Which comments a value has, of a kind.
Has(comments, kinds) ==
  \E at \in DOMAIN comments : \E field \in DOMAIN Uncommented : Range(comments[at][field]) \cap kinds # {}
\* A line comment on the line of a value, where its last character is a blank.
BlankBehindValue(comments) == \E at \in DOMAIN comments : "// " \in Range(comments[at].same)

RewrittenIsRead(out) ==
  /\ \A writer \in {"fast", "stream", "built", "plain"} : ReadsAs(out.written[writer], out.value)
  /\ ~BlankBehindValue(out.comments) => ReadsAs(out.written.styled, out.value)
  /\ ~Has(out.comments, LineComments) => ReadsAs(out.written.compact, out.value)

\* Values that are made, not read.
ArraysOf(S, n) == {Array(s) : s \in Sequences(S, n)}
ObjectsOf(S) == {Object(m) : m \in UNION {[N -> S] : N \in SUBSET Strings}}
SomeLeaves == {Leaf(t) : t \in {"1", "''", "null"}}
Flat == SomeLeaves \cup ArraysOf({Leaf("1"), Leaf("null")}, 2) \cup ObjectsOf({Leaf("1")})
Some == {Leaf("1"), Leaf("null"), Array(<<>>), Object(<<>>), Array(<<Leaf("1"), Array(<<>>)>>), Object([x \in {"'b'"} |-> Leaf("1")])}
Values == Flat \cup ArraysOf(Flat, 2) \cup ArraysOf(Some, 4) \cup ObjectsOf(Some)

\* A null that is left out is read by the reader that allows it, but where a
\* value has to be.
DropsOnly(v) == v # Leaf("null") /\ ~(v.type = "array" /\ v.elements = <<Leaf("null")>>)
RECURSIVE DropsAnywhere(_)
DropsAnywhere(v) ==
  \/ ~DropsOnly(v)
  \/ \E i \in DOMAIN v.elements : v.elements[i] # Leaf("null") /\ DropsAnywhere(v.elements[i])
  \/ \E n \in DOMAIN v.members : v.members[n] # Leaf("null") /\ DropsAnywhere(v.members[n])
ReadsDropped(doc, v) ==
  LET r == OurParse(Defaults \cup {"allowDroppedNullPlaceholders"}, Unindented(doc)) IN
  DropsAnywhere(v) \/ (r.status = "ok" /\ Bare(r.value) = v)

\* What is not said is written without indentation and with nulls; a writer has
\* to be told about comments.
SaysEnough(v, out) ==
  /\ BuiltWrite(NewStreamWriter([commentStyle |-> "All"]), v, NoComments) = out.compact
  /\ WriteWith([enableYAMLCompatibility |-> "true", useSpecialFloats |-> "true"], v, NoComments) = out.built
  /\ \A k \in WriterKeys :
       NewStreamWriterThrows([n \in WriterKeys \ {k} |-> DefaultWriter[n]]) <=> k = "commentStyle"

WrittenIsRead(v, out) ==
  /\ SaysEnough(v, out)
  /\ \A writer \in {"fast", "styled", "stream", "built", "plain", "compact"} : ReadsAs(out[writer], v)
  /\ \A writer \in {"dropped", "sparse"} : ReadsDropped(out[writer], v)

\* Strings and integers are written and read; a name ends at a NUL.
Bytes == Sequences({0, 1, 8, 10, 31, 34, 92, 97, 127, 195}, StringLength)
Integers == -MaxLargestInt - 1 .. MaxLargestUInt
WrittenBytesAreRead(bytes) ==
  /\ ReadString(QuotedStringN(bytes)) = Decoded(TRUE, bytes)
  /\ 0 \notin Range(bytes) => ReadString(QuotedString(bytes)) = Decoded(TRUE, bytes)
WrittenIntegerIsRead(n) ==
  DecodeNumber(ValueToString(n)) = Number(IF n > MaxInt THEN "uint" ELSE "int", n)

-----------------------------------------------------------------------------
(* Numbers and strings. *)

NumberTexts ==
  {s \in Sequences({"0", "1", "3", "6", "9", "-", ".", "e", "+"}, NumberLengths) : s # <<>> /\ s[1] \notin {".", "e", "+"}}

\* The longest number a text begins with is read as what it says, an integer
\* that fits as that integer.  Both readers agree about all texts.
ReadsNumbers(text) ==
  LET length == NumberLength(text)
      token == SubSeq(text, 1, length)
      read == DecodeNumber(token)
  IN /\ JsonNumber(token) =>
          IF ~Integral(token) \/ IntegerOf(token) \notin Integers THEN read.type = "double"
          ELSE read = Number(IF IntegerOf(token) > MaxInt THEN "uint" ELSE "int", IntegerOf(token))
     /\ \A k \in length + 1 .. Len(text) : ~JsonNumber(SubSeq(text, 1, k))
     /\ OurReadNumber(text, FALSE) = read

\* The atoms a string is made of, the last of them none of JSON's.
Atoms ==
  {<<97>>, <<195, 169>>, <<92, 110>>, <<92, 34>>, <<92, 92>>, <<92, 120>>, <<92, 117, 48, 48, 52, 49>>,
   <<92, 117, 48, 48, 101, 57>>, <<92, 117, 50, 48, 65, 67>>, <<92, 117, 100, 56, 51, 68>>,
   <<92, 117, 68, 69, 48, 48>>, <<92, 117, 49, 50>>, <<34>>}
HighHalf == <<92, 117, 100, 56, 51, 68>>
LowHalf == <<92, 117, 68, 69, 48, 48>>
\* The code points they stand for.
Meaning ==
  (<<97>> :> 97) @@ (<<195, 169>> :> 233) @@ (<<92, 110>> :> 10) @@ (<<92, 34>> :> 34) @@ (<<92, 92>> :> 92)
    @@ (<<92, 117, 48, 48, 52, 49>> :> 65) @@ (<<92, 117, 48, 48, 101, 57>> :> 233)
    @@ (<<92, 117, 50, 48, 65, 67>> :> 8364) @@ (HighHalf :> 128512) @@ (LowHalf :> -1)
StringTexts == Sequences(Atoms, StringLength)

WellFormed(s) ==
  \A i \in DOMAIN s :
    /\ s[i] \in DOMAIN Meaning
    /\ s[i] = HighHalf => i < Len(s) /\ s[i + 1] = LowHalf
    /\ s[i] = LowHalf => i > 1 /\ s[i - 1] = HighHalf
Meant(s) == SelectSeq([i \in DOMAIN s |-> Meaning[s[i]]], LAMBDA u : u # -1)

ReadsStrings(s) ==
  LET text == FlattenSeq(s)
      read == ReadString(Append(text, Quote))
  IN /\ WellFormed(s) => read.ok /\ CodePoints(read.bytes) = Meant(s)
     /\ OurReadString(Append(text, Quote), Quote) = read
     /\ Range(text) \cap {Quote, SingleQuote} = {} => OurReadString(Append(text, SingleQuote), SingleQuote) = read

-----------------------------------------------------------------------------
(* What simple values are taken for, and the order of all values. *)

V == INSTANCE JsonConversions

As(v, t) ==
  CASE t = "int" -> V!AsInt(v) [] t = "uint" -> V!AsUInt(v) [] t = "real" -> V!AsDouble(v) [] t = "bool" -> V!AsBool(v)
Exactly(v, n) == IF v.type = "real" THEN v.n = 2 * n ELSE v.n = n

\* An is function says whether the value is such a number, and then the as
\* function returns it; what isConvertibleTo allows is returned, and nothing
\* else.  Only a real that the greatest integer is rounded to has no answer.
Converts(v) ==
  /\ \A t \in {"int", "uint", "real", "bool"} : V!IsConvertibleTo(v, t) <=> As(v, t).how = "returns"
  /\ \A f \in {[is |-> V!IsInt(v), as |-> V!AsInt(v), range |-> V!MinInt .. MaxInt],
               [is |-> V!IsUInt(v), as |-> V!AsUInt(v), range |-> 0 .. V!MaxUInt],
               [is |-> V!IsInt64(v), as |-> V!AsInt64(v), range |-> V!MinInt64 .. MaxLargestInt],
               [is |-> V!IsUInt64(v), as |-> V!AsUInt64(v), range |-> 0 .. V!MaxUInt64]} :
        /\ f.is <=> V!IsNumeric(v) /\ \E n \in f.range : Exactly(v, n)
        /\ f.is => f.as.how = "returns" /\ Exactly(v, f.as.n)
  /\ V!ValueIsIntegral(v) <=> V!IsInt64(v) \/ V!IsUInt64(v)
  /\ V!AsInt64(v).how = "undefined" => v = V!Value("real", 2 * (MaxLargestInt + 1))
  /\ V!AsUInt64(v).how = "undefined" => v = V!Value("real", 2 * (MaxLargestUInt + 1))

Entry(k, v) == [key |-> k, value |-> v]
\* Values of each kind, in no order: simple ones, strings, arrays of one
\* element and objects of one or two members.
Samplings ==
  LET simple == <<V!Value("real", 2), V!Value("bool", 1), V!Value("int", 1), V!Value("null", 0), V!Value("int", -1)>>
      strings == <<<<2>>, <<1, 2>>, <<>>, <<1>>>>
      array(i) == <<Entry(V!Index(i % 2), simple[1 + (i \div 2)])>>
      member(k, i) == Entry(V!Name(strings[k]), simple[i])
  IN simple \o [i \in 1 .. 4 |-> V!Value("string", strings[i])]
       \o [i \in 1 .. 10 |-> V!Value("array", array(i - 1))]
       \o [i \in 1 .. 15 |-> V!Value("object", <<member(1 + (i % 3), 1 + (i \div 4))>>)]
       \o [i \in 1 .. 25 |-> V!Value("object", <<member(2, 1 + (i % 5)), member(1, 1 + ((i - 1) \div 5))>>)]
       \o <<V!Value("array", <<>>), V!Value("object", <<>>)>>

\* The order is one, and two values are equal where neither is less.
InOrder(i, j) ==
  LET u == Samplings[i]
      v == Samplings[j]
  IN /\ V!Equal(u, v) <=> V!Compare(u, v) = 0
     /\ V!Compare(v, u) = -V!Compare(u, v)
     /\ V!Less(u, v) => \A k \in DOMAIN Samplings : V!Less(v, Samplings[k]) => V!Less(u, Samplings[k])

-----------------------------------------------------------------------------
(* Paths. *)

P == INSTANCE JsonPath

Steps == {P!ToIndex(0), P!ToIndex(2), P!ToKey(<<"a">>), P!ToKey(<<"b", "1">>)}
Ways == Sequences(Steps, 3)
New == P!Node("x", <<>>)
Roots ==
  {P!NullNode, P!Node("y", <<>>), P!Node("array", P!ToIndex(2) :> P!Node("object", P!ToKey(<<"a">>) :> P!Node("y", <<>>))),
   P!Node("object", (P!ToKey(<<"a">>) :> P!Node("array", P!ToIndex(2) :> P!Node("y", <<>>))) @@ (P!ToKey(<<"b", "1">>) :> P!NullNode))}

PathText(way, spelled) ==
  FlattenSeq([i \in DOMAIN way |->
    LET step == way[i] IN
    IF step.kind = "index" THEN (IF spelled[i] THEN <<"[", P!PathDigits[step.index + 1], "]">> ELSE <<"[", "%", "]">>)
    ELSE <<".">> \o (IF spelled[i] THEN step.name ELSE <<"%">>)])
Arguments(way, spelled) ==
  FlattenSeq([i \in DOMAIN way |-> IF spelled[i] THEN <<>> ELSE <<way[i]>>])

\* A path that is written out, or takes its steps from the arguments, is the
\* way; what is set there is found there, and nothing beside it changes.
PathLeads(way, root) ==
  LET made == P!MakeAndSet(root, way, New) IN
  /\ \A spelled \in [DOMAIN way -> BOOLEAN] : P!MakePath(PathText(way, spelled), 1, Arguments(way, spelled)) = way
  /\ made.ok =>
       /\ P!Resolve(made.value, way, P!Node("none", <<>>)) = New
       /\ \A beside \in Ways : ~IsPrefix(way, beside) /\ ~IsPrefix(beside, way) =>
            LET before == P!Resolve(root, beside, P!NullNode)
                after == P!Resolve(made.value, beside, P!NullNode)
            IN before = after
==============================================================================
