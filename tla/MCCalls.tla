-------------------------------- MODULE MCCalls --------------------------------
(***************************************************************************)
(* The parts of the program that only compute an answer: Json, the         *)
(* detectors' arithmetic, the log's lines and the tools.  Each is asked    *)
(* one thing, chosen in Init from small sets, and the properties compare   *)
(* what it answers with what is meant.  A Json::Value that is a container  *)
(* is asked one call after the other instead.                              *)
(***************************************************************************)
EXTENDS Integers, Sequences, JsonValue

CONSTANTS
  StackLimit, RightMargin, TokenLength, MaxInt, MaxLargestInt   \* of JsonCalls

VARIABLES
  call,      \* what is asked
  input,     \* what it is given
  answered  \* whether it has answered

J == INSTANCE JsonCalls
Vision == INSTANCE VisionCalls
Logs == INSTANCE LogCalls
Tools == INSTANCE ToolCalls

vars == <<call, input, answered, valueVars>>

-----------------------------------------------------------------------------
(* What is asked. *)

AsksJson ==
  \/ call = "document" /\ input \in (J!Documents \X {<<>>}) \cup (J!OpenDocuments \X J!Leftovers)
  \/ call = "settings" /\ input \in J!FewDocuments
  \/ call = "number" /\ input \in J!NumberTexts
  \/ call = "string" /\ input \in J!StringTexts
  \/ call = "rewrite" /\ input \in J!Commented
  \/ call = "write" /\ input \in J!Values
  \/ call = "write string" /\ input \in J!Bytes
  \/ call = "write integer" /\ input \in J!Integers
  \/ call = "convert" /\ input \in J!V!Simple
  \/ call = "compare" /\ input \in (DOMAIN J!Samplings) \X (DOMAIN J!Samplings)
  \/ call = "path" /\ input \in J!Ways \X J!Roots

Angles == {<<-3, -4>>, <<9, 12>>, <<0, 1>>}

AsksVision ==
  \/ call = "intersect" /\ input \in Vision!Shapes \X (Vision!Triangles \cup Vision!Shapes)
  \/ call = "rectangles" /\ input \in {r \in Vision!Rectangles : r[1] = 1} \X Vision!Rectangles
  \/ call = "suppress" /\ input \in 0 .. 5
  \/ call = "resize image" /\ input \in (1 .. 20) \X (1 .. 40)
  \/ call = "ships" /\ input \in Vision!ScoreTables \X Angles
  \/ call = "boxes" /\ input \in (0 .. 2) \X (0 .. 3)

AsksLogs ==
  \/ call = "line" /\ input \in Logs!Formats
  \/ call = "time" /\ input \in Logs!Times
  \/ call = "file name" /\ input \in Logs!FileNames
  \/ call = "log path" /\ input \in Logs!Paths
  \/ call = "wildcard" /\ input \in Logs!Texts({"a", "b", ".c"}, 4) \X Logs!Texts({"a", "b", "*", "?"}, 3)
  \/ call = "modules" /\ input \in Logs!Modules \X Logs!Patterns
  \/ call = "every nth" /\ input \in (0 .. 30) \X (0 .. 8)
  \/ call = "configuration" /\ input \in Logs!Values \X Logs!Comments

AsksTools ==
  \/ call = "arguments" /\ input \in (Tools!CommandLines(3) \X Tools!CommandLines(0))
                                       \cup (Tools!CommandLines(1) \X Tools!CommandLines(2))
  \/ call = "argument text" /\ input \in Tools!SplitLines
  \/ call = "dongle" /\ input \in (SUBSET Tools!ToolCallsOf) \X (SUBSET Tools!DongleCalls)
  \/ call = "licence" /\ input \in (SUBSET {"m1", "m2"}) \X Tools!Keys \X (0 .. 2) \X Tools!Configs
  \/ call = "router" /\ input \in (0 .. 2) \X Tools!RouterFiles
  \/ call = "base64" /\ input \in Tools!Base64Bytes

Init ==
  /\ answered = FALSE
  /\ ValueInit
  /\ \/ call = "container" /\ input = <<>>
     \/ other = (CHOOSE s \in Scalars : TRUE) /\ (AsksJson \/ AsksVision \/ AsksLogs \/ AsksTools)

Answer ==
  /\ ~answered /\ call # "container"
  /\ answered' = TRUE /\ UNCHANGED <<call, input, valueVars>>

ChangeContainer == call = "container" /\ ValueNext /\ UNCHANGED <<call, input, answered>>

Next == Answer \/ ChangeContainer
Spec == Init /\ [][Next]_vars

\* The step in which the call c is answered.
Answers(c) == call = c /\ ~answered /\ answered'

-----------------------------------------------------------------------------
(* Json. *)

\* A text that is JSON is read as the value it denotes, with comments where
\* they are allowed, unless it is nested too deep, which throws; Reader and
\* OurReader make the same of every text, numbers and strings included; what
\* Reader takes without being JSON begins with JSON, but for comments, members
\* without a name and strings that are not closed; the strict reader takes
\* containers whose members have different names and nothing else.
JsonIsRead ==
  [][ /\ Answers("document") =>
           LET out == J!ReadAll(input[1], input[2]) IN
           /\ J!ReadsWhatIsJson(input[1], input[2], out)
           /\ J!ReadersAgree(input[1], out)
           /\ J!StrictReaderIsStrict(input[1], out)
      /\ Answers("settings") => J!SettingsWiden(input)
      /\ Answers("number") => J!ReadsNumbers(input)
      /\ Answers("string") => J!ReadsStrings(input) ]_vars

\* What each writer makes of a value is read as that value, the responses and
\* the default configuration among them; and so is a document that was read with
\* its comments, as the library allows it, as long as those do not swallow what
\* stands behind them.
JsonIsReadAgain ==
  [][ /\ Answers("rewrite") => J!RewrittenIsRead(J!Rewrite(input))
      /\ Answers("write") => J!WrittenIsRead(input, J!WriteAll(input, J!NoComments))
      /\ Answers("write string") => J!WrittenBytesAreRead(input)
      /\ Answers("write integer") => J!WrittenIntegerIsRead(input) ]_vars

\* What a value is said to be it can be taken for, exactly; the order of values
\* is one; a path leads to what was set along it and to nothing else.
ValuesAreWhatTheySay ==
  [][ /\ Answers("convert") => J!Converts(input)
      /\ Answers("compare") => J!InOrder(input[1], input[2])
      /\ Answers("path") => J!PathLeads(input[1], input[2]) ]_vars

-----------------------------------------------------------------------------
(* The detectors and the evaluation's kernels. *)

\* The ships of an answer are the rois, moved by what the network says of them
\* for their class, each once and the better of two that overlap; areas of
\* common polygons do not depend on order, place or how they are cut; pictures
\* keep their pixels, and an image fits the network.
DetectionsAreThoseOfTheNetwork ==
  [][ /\ Answers("intersect") => Vision!OverlapIsMeasured(input[1], input[2]) /\ Vision!Compared(input[1], input[2])
      /\ Answers("rectangles") => Vision!RectanglesOverlap(input[1], input[2])
      /\ Answers("suppress") =>
           /\ \A pairs \in SUBSET Vision!PairsOf(input) : Vision!SuppressesGreedily(input, pairs)
           /\ \A k \in 0 .. 5 : Vision!OverlapsWritten(input, k)
      /\ Answers("resize image") => Vision!InputFits(input[1], input[2])
      /\ Answers("ships") =>
           \A over \in Vision!Overlapping, order \in Vision!Orders(input[1]) :
             Vision!DetectsWhatIsThere(input[2][1], input[2][2], input[1], order, over)
      /\ Answers("boxes") => Vision!BoxesHold(input[1], input[2]) ]_vars

-----------------------------------------------------------------------------
(* The log and the tools. *)

\* A line of the log says what its format asks for, times sort as they passed,
\* files and folders are those that were named, and modules and hits are logged
\* as configured; the tools take their options as given, leave no session on
\* the dongle, and touch a licence only for a new one of that machine; base64 is
\* undone; the Router binds what its file says, as far as it can, or ends.
\* The exceptions are part of the statements.
KeepsWhatItIsGiven ==
  [][ /\ Answers("line") => Logs!LineSaysItsFields(input) /\ Logs!DatesAreFound(input)
      /\ Answers("time") => \A u \in Logs!Times, width \in 0 .. 7 : Logs!TimesSort(input, u, width)
      /\ Answers("file name") => Logs!NameKeepsFolders(input)
      /\ Answers("log path") =>
           /\ \A limit \in 4 .. 5 : Logs!NamesFit(input, limit)
           /\ \A tree \in Logs!Trees, readOnly \in Logs!ReadOnly : Logs!FolderIsMade(input, tree, readOnly)
      /\ Answers("wildcard") => Logs!MatchesAsStretched(input[1], input[2])
      /\ Answers("modules") =>
           \A level1, level2 \in 0 .. 2, k \in 0 .. 9 : Logs!ModulesLogToTheirLevel(input[1], input[2], level1, level2, k)
      /\ Answers("every nth") => Logs!EveryNthIsLogged(input[1], input[2], 7)
      /\ Answers("configuration") => Logs!ConfigurationIsRead(input[1], input[2])
      /\ Answers("arguments") => Tools!ReadsArguments(input[1], input[2], Tools!ParseBoth(input[1], input[2]))
      /\ Answers("argument text") => Tools!SplitReads(input)
      /\ Answers("dongle") =>
           \A file \in Tools!Files, bare \in {FALSE, input[1] = {}} :
             Tools!LeavesTheDongle(bare, input[1], input[2], file, Tools!Main(bare, input[1], input[2], file))
      /\ Answers("licence") =>
           \A pair \in Tools!Keys, directories \in SUBSET {Tools!NoConfig, Tools!WrittenConfig}, encrypts \in BOOLEAN :
             Tools!LicenceFor(input[1], pair, input[3], input[4], directories, input[2], encrypts)
      /\ Answers("router") =>
           \A free \in SUBSET Tools!Ports : Tools!RouterBinds(input[1], input[2], free)
      /\ Answers("base64") =>
           /\ Tools!Base64Inverse(input)
           /\ \A n \in 0 .. Len(Tools!PlainEncode(input)) : Tools!Base64Cut(input, n) ]_vars
==============================================================================
