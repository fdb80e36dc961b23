------------------------------ MODULE JsonReader ------------------------------
(***************************************************************************)
(* Json::Reader with its default features, as every part of the program    *)
(* uses it: a document, given as the tokens readToken makes of it, is read *)
(* into a value.  JsonLexer says how tokens are made of characters.        *)
(*                                                                         *)
(* Errors are not told apart, and the recovery from them is left out: it   *)
(* reads on for the sake of further messages and never succeeds.           *)
(***************************************************************************)
EXTENDS Naturals, Sequences, FiniteSets, SequencesExt

CONSTANT StackLimit   \* JSONCPP_DEPRECATED_STACK_LIMIT

NoName == "''"
Strings == {NoName, "'a'", "'b'"}
Leaves == Strings \cup {"1", "null"}

\* "bad" is a number or a string that cannot be decoded, "?" what is no token,
\* "end" the end of the document or a NUL in it.
Punctuation == {"{", "}", "[", "]", ",", ":"}
Tokens == Punctuation \cup Leaves \cup {"bad", "?", "/*"}

\* White space is left out but for the newline.  A line comment goes on up to
\* the next newline; "// " is one that ends in a blank.
NewLine == "nl"
LineComments == {"//", "// "}
IsComment(t) == t \in LineComments \cup {"/*"}

Leaf(t) == [type |-> "leaf", leaf |-> t, elements |-> <<>>, members |-> <<>>, start |-> 0, limit |-> 0]
Array(s) == [Leaf("") EXCEPT !.type = "array", !.elements = s]
Object(m) == [Leaf("") EXCEPT !.type = "object", !.members = m]

\* m[n] = v, where m may have no member n.
WithMember(m, n, v) == [x \in DOMAIN m \cup {n} |-> IF x = n THEN v ELSE m[x]]

-----------------------------------------------------------------------------
(* What a call returns: how it ends, the value, and where it got to.       *)

Ok(v, at) == [status |-> "ok", value |-> v, at |-> at]
Fails(status, at) == [status |-> status, value |-> Leaf("null"), at |-> at]

Token(doc, i) == IF i <= Len(doc) THEN doc[i] ELSE "end"

RECURSIVE SkipSpaces(_, _), SkipLine(_, _), SkipComments(_, _)
SkipSpaces(doc, i) == IF Token(doc, i) = NewLine THEN SkipSpaces(doc, i + 1) ELSE i

\* readCppStyleComment.
SkipLine(doc, i) == IF Token(doc, i) \in {NewLine, "end"} THEN i + 1 ELSE SkipLine(doc, i + 1)

\* Where the next token is that is no comment.
SkipComments(doc, i) ==
  LET j == SkipSpaces(doc, i) IN
  CASE Token(doc, j) = "/*" -> SkipComments(doc, j + 1)
    [] Token(doc, j) \in LineComments -> SkipComments(doc, SkipLine(doc, j))
    [] OTHER -> j

RECURSIVE ReadValue(_, _, _), ReadMembers(_, _, _, _, _), ReadElements(_, _, _, _)

\* Mutant: the name of the last member is forgotten.
AfterMemberForgets(doc, r, depth, members, name) ==
  LET k == SkipComments(doc, r.at)
      t == Token(doc, SkipSpaces(doc, r.at))
      read == WithMember(members, name, r.value)
  IN IF r.status # "ok" THEN r
     ELSE IF ~(t \in {"}", ","} \/ IsComment(t)) THEN Fails("error", k)
     ELSE IF Token(doc, k) = "}" THEN Ok(Object(read), k + 1)
     ELSE ReadMembers(doc, k + 1, depth, read, NoName)

\* Behind a comment any token passes for the comma.
AfterMember(doc, r, depth, members, name) ==
  LET k == SkipComments(doc, r.at)
      t == Token(doc, SkipSpaces(doc, r.at))
      read == WithMember(members, name, r.value)
  IN IF r.status # "ok" THEN r
     ELSE IF ~(t \in {"}", ","} \/ IsComment(t)) THEN Fails("error", k)
     ELSE IF Token(doc, k) = "}" THEN Ok(Object(read), k + 1)
     ELSE ReadMembers(doc, k + 1, depth, read, name)

\* readObject: name is that of the last member.  Whether the object is empty is
\* told by the name, so a closing brace may follow the comma after the member
\* with the empty name.
ReadMembers(doc, i, depth, members, name) ==
  LET j == SkipComments(doc, i)
      t == Token(doc, j)
      colon == SkipSpaces(doc, j + 1)
  IN IF t = "}" /\ name = NoName THEN Ok(Object(members), j + 1)
     ELSE IF t \notin Strings \/ Token(doc, colon) # ":" THEN Fails("error", j)
     ELSE AfterMember(doc, ReadValue(doc, colon + 1, depth + 1), depth, members, t)

\* readArray, after the test for an empty array, which no comment may precede.
ReadElements(doc, i, depth, elements) ==
  LET r == ReadValue(doc, i, depth + 1)
      k == SkipComments(doc, r.at)
      read == Append(elements, r.value)
  IN IF r.status # "ok" THEN r
     ELSE CASE Token(doc, k) = "]" -> Ok(Array(read), k + 1)
            [] Token(doc, k) = "," -> ReadElements(doc, k + 1, depth, read)
            [] OTHER -> Fails("error", k)

\* setOffsetStart and setOffsetLimit.
Placed(r, start) == [r EXCEPT !.value.start = start, !.value.limit = r.at]

\* depth is the size of nodes_.
ReadValue(doc, i, depth) ==
  LET j == SkipComments(doc, i)
      t == Token(doc, j)
      k == SkipSpaces(doc, j + 1)
  IN IF depth > StackLimit THEN Fails("throws", i)
     ELSE CASE t = "{" -> Placed(ReadMembers(doc, j + 1, depth, <<>>, NoName), j)
            [] t = "[" -> Placed(IF Token(doc, k) = "]" THEN Ok(Array(<<>>), k + 1)
                                 ELSE ReadElements(doc, k, depth, <<>>), j)
            [] t \in Leaves -> Placed(Ok(Leaf(t), j + 1), j)
            [] OTHER -> Fails("error", j)

\* parse of a string copies its capacity and not its length: behind the text
\* are a NUL and whatever the memory holds.  A string the text leaves open ends
\* at the first quote there.
Copied(text, rest) ==
  IF text = <<>> \/ Last(text) # "open" THEN text \o <<"end">> \o rest
  ELSE IF rest # <<>> /\ Head(rest) = "quote" THEN Front(text) \o <<"'a'">> \o Tail(rest)
  ELSE Append(Front(text), "?")

ParseChars(doc) == ReadValue(doc, 1, 1)
Parse(text, rest) == ParseChars(Copied(text, rest))

-----------------------------------------------------------------------------
(* Comments are collected: one on the line of the value read last belongs  *)
(* to that value and takes the place of an earlier one, any other to the   *)
(* next value to be read or, behind the last one, to the root.             *)

RECURSIVE Nodes(_)
Nodes(v) == {v} \cup UNION {Nodes(c) : c \in Range(v.elements) \cup {v.members[n] : n \in DOMAIN v.members}}

RECURSIVE CommentsFrom(_, _)
CommentsFrom(doc, i) ==
  LET j == SkipSpaces(doc, i) IN
  IF j > Len(doc) THEN {}
  ELSE (IF IsComment(doc[j]) THEN {j} ELSE {})
         \cup CommentsFrom(doc, IF doc[j] \in LineComments THEN SkipLine(doc, j) ELSE j + 1)

\* What readComment and addComment do with the comments of a document that was
\* read as the value root; the values are told apart by where they start.
CommentsOf(doc, root) ==
  LET read == {p \in CommentsFrom(doc, 1) : p < SkipComments(doc, root.limit)}
      ended(p) == {v \in Nodes(root) : v.limit <= p}
      lastValue(p) == CHOOSE v \in ended(p) : \A u \in ended(p) : u.limit <= v.limit
      sameLine(p) ==
        ended(p) # {} /\ \A q \in lastValue(p).limit .. p - 1 : doc[q] \notin LineComments \cup {NewLine}
      to(v) == {p \in read : sameLine(p) /\ lastValue(p) = v}
      waiting(p) == ~sameLine(p)
      before(v) == {p \in read : waiting(p) /\ p < v.start /\ \A u \in Nodes(root) : u.start > p => u.start >= v.start}
      after == {p \in read : waiting(p) /\ \A u \in Nodes(root) : u.start < p}
      texts(S) == [i \in 1 .. Cardinality(S) |-> doc[SetToSortSeq(S, LAMBDA p, q : p < q)[i]]]
  IN [at \in {v.start : v \in Nodes(root)} |->
        LET v == CHOOSE u \in Nodes(root) : u.start = at IN
        [before |-> texts(before(v)),
         same |-> IF to(v) = {} THEN <<>> ELSE <<Last(texts(to(v)))>>,
         after |-> IF v = root THEN texts(after) ELSE <<>>]]

------------------------------------------------------------------------------
(***************************************************************************)
(* OurReader, the copy of Json::Reader that CharReaderBuilder makes, with  *)
(* the features that are its own.  f is the record of features that are    *)
(* set.  Nothing in the program calls it yet; what it makes of a document  *)
(* is compared with what Json::Reader does.                                *)
(***************************************************************************)

Features ==
  {"allowComments", "strictRoot", "allowDroppedNullPlaceholders", "allowNumericKeys", "failIfExtra", "rejectDupKeys"}
ReaderKeys == Features \cup {"collectComments", "allowSingleQuotes", "stackLimit", "allowSpecialFloats"}

\* CharReaderBuilder::setDefaults and strictMode, which leaves the comments as
\* they are set.
DefaultSettings ==
  [k \in ReaderKeys |-> IF k \in {"collectComments", "allowComments"} THEN "true" ELSE IF k = "stackLimit" THEN "1000" ELSE "false"]
StrictMode(settings) ==
  [k \in ReaderKeys \ {"collectComments"} |->
     IF k \in {"strictRoot", "failIfExtra", "rejectDupKeys"} THEN "true" ELSE IF k = "stackLimit" THEN "1000" ELSE "false"] @@ settings

\* validate: the settings nobody knows.
InvalidKeys(settings, known) == DOMAIN settings \ known

\* newCharReader: a setting that is missing is null, which is false and zero.
NewCharReader(settings) == {k \in Features \cap DOMAIN settings : settings[k] = "true"}
ReadsNothing(settings) == "stackLimit" \notin DOMAIN settings

Defaults == NewCharReader(DefaultSettings)
Strict == NewCharReader(StrictMode(DefaultSettings))

\* skipCommentTokens; without allowComments the next token is taken as it is.
NextToken(f, doc, i) == IF "allowComments" \in f THEN SkipComments(doc, i) ELSE SkipSpaces(doc, i)

RECURSIVE OurReadValue(_, _, _, _), OurReadMembers(_, _, _, _, _, _), OurReadElements(_, _, _, _, _)

OurAfterMember(f, doc, r, depth, members, name) ==
  LET k == SkipComments(doc, r.at)
      t == Token(doc, SkipSpaces(doc, r.at))
      read == WithMember(members, name, r.value)
  IN IF r.status # "ok" THEN r
     ELSE IF ~(t \in {"}", ","} \/ IsComment(t)) THEN Fails("error", k)
     ELSE IF Token(doc, k) = "}" THEN Ok(Object(read), k + 1)
     ELSE OurReadMembers(f, doc, k + 1, depth, read, name)

MayBeName(f, t) == t \in Strings \/ (t = "1" /\ "allowNumericKeys" \in f)

\* OurReader::readObject; comments are skipped here whether allowed or not.
OurReadMembers(f, doc, i, depth, members, name) ==
  LET j == SkipComments(doc, i)
      t == Token(doc, j)
      colon == SkipSpaces(doc, j + 1)
  IN IF t = "}" /\ name = NoName THEN Ok(Object(members), j + 1)
     ELSE IF ~MayBeName(f, t) \/ Token(doc, colon) # ":" \/ ("rejectDupKeys" \in f /\ t \in DOMAIN members)
     THEN Fails("error", j)
     ELSE OurAfterMember(f, doc, OurReadValue(f, doc, colon + 1, depth + 1), depth, members, t)

\* OurReader::readArray.
OurReadElements(f, doc, i, depth, elements) ==
  LET r == OurReadValue(f, doc, i, depth + 1)
      k == SkipComments(doc, r.at)
      read == Append(elements, r.value)
  IN IF r.status # "ok" THEN r
     ELSE CASE Token(doc, k) = "]" -> Ok(Array(read), k + 1)
            [] Token(doc, k) = "," -> OurReadElements(f, doc, k + 1, depth, read)
            [] OTHER -> Fails("error", k)

\* OurReader::readValue; a value that is left out is null, and what stands in
\* its place is read again.
OurReadValue(f, doc, i, depth) ==
  LET j == NextToken(f, doc, i)
      t == Token(doc, j)
      k == SkipSpaces(doc, j + 1)
  IN IF depth > StackLimit THEN Fails("throws", i)
     ELSE CASE t = "{" -> Placed(OurReadMembers(f, doc, j + 1, depth, <<>>, NoName), j)
            [] t = "[" -> Placed(IF Token(doc, k) = "]" THEN Ok(Array(<<>>), k + 1)
                                 ELSE OurReadElements(f, doc, k, depth, <<>>), j)
            [] t \in Leaves -> Placed(Ok(Leaf(t), j + 1), j)
            [] t \in {",", "}", "]"} /\ "allowDroppedNullPlaceholders" \in f -> Placed(Ok(Leaf("null"), j), j - 1)
            [] OTHER -> Fails("error", j)

\* OurReader::parse.  Only one token behind the root is looked at, and unless
\* the root has to be a container it may be one that is no token.
OurParse(f, doc) ==
  LET r == OurReadValue(f, doc, 1, 1)
      t == Token(doc, NextToken(f, doc, r.at))
      extra == t # "end" /\ ("strictRoot" \in f \/ t # "?")
  IN IF r.status # "ok" THEN r
     ELSE IF ("failIfExtra" \in f /\ extra) \/ ("strictRoot" \in f /\ r.value.type = "leaf") THEN Fails("error", r.at)
     ELSE r

\* What the reader that is made from settings makes of a document.
BuiltParse(settings, doc) ==
  IF ReadsNothing(settings) THEN Fails("throws", 1) ELSE OurParse(NewCharReader(settings), doc)
==============================================================================
