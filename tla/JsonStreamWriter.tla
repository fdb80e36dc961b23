---------------------------- MODULE JsonStreamWriter ----------------------------
(***************************************************************************)
(* The writers to a stream: StyledStreamWriter, and the one that           *)
(* StreamWriterBuilder makes and operator<< uses.  A stream cannot be      *)
(* looked back at, so they keep in mind whether they have indented.        *)
(***************************************************************************)
EXTENDS JsonWriter

StreamWriteIndent(w) == Put(w, <<"nl">> \o Indentation(w))
StreamIndented(w) == IF w.indented THEN w ELSE StreamWriteIndent(w)
StreamWriteWithIndent(w, tokens) == [Put(StreamIndented(w), tokens) EXCEPT !.indented = FALSE]

StreamCommentBefore(w, v) ==
  LET c == CommentsAt(w, v).before IN
  IF c = <<>> THEN w ELSE [Put(StreamIndented(w), CommentText(c, Indentation(w))) EXCEPT !.indented = FALSE]

StreamCommentAfter(w, v) ==
  LET c == CommentsAt(w, v)
      same == Put(w, c.same)
  IN [IF c.after = <<>> THEN same ELSE Put(StreamWriteIndent(same), CommentText(c.after, <<>>)) EXCEPT !.indented = FALSE]

RECURSIVE StreamWriteValue(_, _), StreamWriteElements(_, _, _, _), StreamWriteMembers(_, _, _)

\* isMultineArray is the same but for the writer that measures the children,
\* and those are leaves or empty.
StreamWriteElements(w, v, i, measured) ==
  LET child == v.elements[i]
      before == StreamCommentBefore(w, child)
      itself == StreamWriteValue([StreamIndented(before) EXCEPT !.indented = TRUE], child)
      written == IF measured THEN StreamWriteWithIndent(before, before.children[i]) ELSE [itself EXCEPT !.indented = FALSE]
  IN IF i > Size(v) THEN w
     ELSE StreamWriteElements(
            StreamCommentAfter(IF i = Size(v) THEN written ELSE Put(written, <<",">>), child), v, i + 1, measured)

StreamWriteArray(w, v) ==
  LET m == IsMultiLine(w, v)
      lines == StreamWriteElements(Indent(StreamWriteWithIndent(m.writer, <<"[">>)), v, 1, m.writer.children # <<>>)
  IN IF m.answer THEN StreamWriteWithIndent(Unindent(lines), <<"]">>)
     ELSE Put(m.writer, <<"[">> \o Separated(m.writer.children) \o <<"]">>)

StreamWriteMembers(w, v, i) ==
  LET name == MemberNames(v)[i]
      child == v.members[name]
      written == StreamWriteValue(Put(StreamWriteWithIndent(StreamCommentBefore(w, child), <<name>>), <<":">>), child)
  IN IF i > Size(v) THEN w
     ELSE StreamWriteMembers(
            StreamCommentAfter(IF i = Size(v) THEN written ELSE Put(written, <<",">>), child), v, i + 1)

StreamWriteValue(w, v) ==
  CASE v.type = "leaf" -> PushValue(w, <<v.leaf>>)
    [] v.type = "array" -> IF Size(v) = 0 THEN PushValue(w, <<"[", "]">>) ELSE StreamWriteArray(w, v)
    [] v.type = "object" ->
         IF Size(v) = 0 THEN PushValue(w, <<"{", "}">>)
         ELSE StreamWriteWithIndent(Unindent(StreamWriteMembers(Indent(StreamWriteWithIndent(w, <<"{">>)), v, 1)), <<"}">>)

\* StyledStreamWriter::write.
StreamWrite(v, comments) ==
  LET began == StreamIndented(StreamCommentBefore(NewWriter(comments), v)) IN
  Put(StreamCommentAfter(StreamWriteValue([began EXCEPT !.indented = TRUE], v), v), <<"nl">>).document

-----------------------------------------------------------------------------
(* BuiltStyledStreamWriter.  g is the record of its settings: the tokens   *)
(* of null, whether lines are indented and whether comments are written.   *)

\* Without an indentation there are no newlines either.
BuiltWriteIndent(g, w) == IF g.indentation THEN StreamWriteIndent(w) ELSE w
BuiltIndented(g, w) == IF w.indented THEN w ELSE BuiltWriteIndent(g, w)
BuiltWriteWithIndent(g, w, tokens) == [Put(BuiltIndented(g, w), tokens) EXCEPT !.indented = FALSE]

BuiltCommentBefore(g, w, v) ==
  LET c == CommentsAt(w, v).before IN
  IF ~g.comments \/ c = <<>> THEN w
  ELSE [Put(BuiltIndented(g, w), CommentText(c, Indentation(w))) EXCEPT !.indented = FALSE]

BuiltCommentAfter(g, w, v) ==
  LET c == CommentsAt(w, v)
      same == Put(w, c.same)
  IN IF ~g.comments THEN w
     ELSE IF c.after = <<>> THEN same ELSE Put(BuiltWriteIndent(g, same), CommentText(c.after, <<>>))

RECURSIVE BuiltWriteValue(_, _, _), BuiltWriteElements(_, _, _, _, _), BuiltWriteMembers(_, _, _, _)

BuiltWriteElements(g, w, v, i, measured) ==
  LET child == v.elements[i]
      before == BuiltCommentBefore(g, w, child)
      itself == BuiltWriteValue(g, [BuiltIndented(g, before) EXCEPT !.indented = TRUE], child)
      written == IF measured THEN BuiltWriteWithIndent(g, before, before.children[i]) ELSE [itself EXCEPT !.indented = FALSE]
  IN IF i > Size(v) THEN w
     ELSE BuiltWriteElements(
            g, BuiltCommentAfter(g, IF i = Size(v) THEN written ELSE Put(written, <<",">>), child), v, i + 1, measured)

BuiltMeasure(g, w, v) ==
  LET f[i \in 0 .. Size(v)] == IF i = 0 THEN [w EXCEPT !.adding = TRUE] ELSE BuiltWriteValue(g, f[i - 1], v.elements[i])
      m == [f[Size(v)] EXCEPT !.adding = FALSE]
  IN [writer |-> m,
      answer |-> (\E i \in DOMAIN v.elements : HasCommentForValue(w, v.elements[i]))
                   \/ LineLength(m.children, Size(v)) >= RightMargin]

\* A writer of comments never measures.
BuiltIsMultiLine(g, w, v) ==
  LET cleared == [w EXCEPT !.children = <<>>] IN
  IF g.comments THEN [writer |-> w, answer |-> TRUE]
  ELSE IF TooManyOrNested(v) THEN [writer |-> cleared, answer |-> TRUE] ELSE BuiltMeasure(g, cleared, v)

BuiltWriteArray(g, w, v) ==
  LET m == BuiltIsMultiLine(g, w, v)
      lines == BuiltWriteElements(g, Indent(BuiltWriteWithIndent(g, m.writer, <<"[">>)), v, 1, m.writer.children # <<>>)
  IN IF m.answer THEN BuiltWriteWithIndent(g, Unindent(lines), <<"]">>)
     ELSE Put(m.writer, <<"[">> \o Separated(m.writer.children) \o <<"]">>)

BuiltWriteMembers(g, w, v, i) ==
  LET name == MemberNames(v)[i]
      child == v.members[name]
      written == BuiltWriteValue(g, Put(BuiltWriteWithIndent(g, BuiltCommentBefore(g, w, child), <<name>>), <<":">>), child)
  IN IF i > Size(v) THEN w
     ELSE BuiltWriteMembers(
            g, BuiltCommentAfter(g, IF i = Size(v) THEN written ELSE Put(written, <<",">>), child), v, i + 1)

BuiltWriteValue(g, w, v) ==
  CASE v.type = "leaf" -> PushValue(w, IF v.leaf = "null" THEN g.null ELSE <<v.leaf>>)
    [] v.type = "array" -> IF Size(v) = 0 THEN PushValue(w, <<"[", "]">>) ELSE BuiltWriteArray(g, w, v)
    [] v.type = "object" ->
         IF Size(v) = 0 THEN PushValue(w, <<"{", "}">>)
         ELSE BuiltWriteWithIndent(
                g, Unindent(BuiltWriteMembers(g, Indent(BuiltWriteWithIndent(g, w, <<"{">>)), v, 1)), <<"}">>)

BuiltWrite(g, v, comments) ==
  LET began == BuiltIndented(g, BuiltCommentBefore(g, NewWriter(comments), v)) IN
  BuiltCommentAfter(g, BuiltWriteValue(g, [began EXCEPT !.indented = TRUE], v), v).document

-----------------------------------------------------------------------------
(* StreamWriterBuilder: settings is a function from those that are set.    *)

WriterKeys ==
  {"indentation", "commentStyle", "enableYAMLCompatibility", "dropNullPlaceholders", "useSpecialFloats", "precision"}

\* setDefaults.
DefaultWriter ==
  [k \in WriterKeys |->
     CASE k = "indentation" -> "tab" [] k = "commentStyle" -> "All" [] k = "precision" -> "17" [] OTHER -> "false"]

\* A setting that is missing is null, as a string empty and as a bool false.
Setting(settings, k) == IF k \in DOMAIN settings THEN settings[k] ELSE ""

\* newStreamWriter, which throws for another comment style, or none.
NewStreamWriterThrows(settings) == Setting(settings, "commentStyle") \notin {"All", "None"}
NewStreamWriter(settings) ==
  [null |-> IF Setting(settings, "dropNullPlaceholders") = "true" THEN <<>> ELSE <<"null">>,
   indentation |-> Setting(settings, "indentation") # "", comments |-> Setting(settings, "commentStyle") = "All"]
==============================================================================
