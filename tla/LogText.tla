------------------------------- MODULE LogText -------------------------------
(***************************************************************************)
(* How easylogging++ reads the texts it is given: paths of source and log  *)
(* files, the modules verbose messages are wanted of, command lines and    *)
(* configurations.                                                         *)
(*                                                                         *)
(* A text is a sequence of characters; a suffix such as ".cpp" and a name  *)
(* that nothing looks into count as one.                                   *)
(***************************************************************************)
EXTENDS Integers, Sequences, SequencesExt, FiniteSets, Functions, TLC

\* The first place of a character, not before a place; 0 where there is none.
Place(text, c, from) ==
  LET found == {i \in from .. Len(text) : text[i] = c}
  IN IF found = {} THEN 0 ELSE CHOOSE i \in found : \A j \in found : i <= j
LastPlace(text, c) ==
  LET found == {i \in DOMAIN text : text[i] = c}
  IN IF found = {} THEN 0 ELSE CHOOSE i \in found : \A j \in found : i >= j
From(text, at) == SubSeq(text, at, Len(text))

-----------------------------------------------------------------------------
(* Paths. *)

\* The end of a name that is too long, behind two dots unless it begins with
\* one; there the name is one character longer.
Shortened(name, limit) ==
  IF Len(name) < limit THEN name
  ELSE LET end == From(name, Len(name) - limit + 1)
       IN IF end[1] # "." /\ end[2] # "." THEN <<".", ".">> \o From(end, 4) ELSE end

BuildStrippedFilename(path, limit) == Shortened(path, limit)

\* A slash at the very start belongs to the name.
BuildBaseFilename(path, limit) ==
  LET slash == LastPlace(path, "/")
  IN Shortened(IF slash = 1 THEN path ELSE From(path, slash + 1), limit)

\* The folder of a file; a name without a slash is taken for the folder.
ExtractPathFromFilename(path) ==
  LET slash == LastPlace(path, "/") IN IF slash = 0 THEN path ELSE SubSeq(path, 1, slash)

\* A folder is the sequence of names on the way to it, "/" first if it is
\* absolute.
Split(path) ==
  FoldLeft(LAMBDA names, i :
             IF path[i] = "/" THEN names
             ELSE IF i > 1 /\ path[i - 1] # "/" THEN ReplaceAt(names, Len(names), Append(Last(names), path[i]))
             ELSE Append(names, <<path[i]>>),
           <<>>, [i \in DOMAIN path |-> i])
Start(path) == IF path # <<>> /\ path[1] = "/" THEN <<<<"/">>>> ELSE <<>>
Folder(path) == Start(path) \o Split(path)

\* mkdir makes a folder that is not there in one that is and can be written.
Mkdir(state, name) ==
  LET built == Append(state.built, name)
      made == /\ built \notin state.folders
              /\ state.built \in state.folders \ state.readOnly
  IN [state EXCEPT !.built = built, !.ok = made, !.folders = IF made THEN @ \cup {built} ELSE @]
\* The answer is that of the last folder on the way.
CreatePath(path, folders, readOnly) ==
  LET start == [built |-> Start(path), folders |-> folders, readOnly |-> readOnly, ok |-> FALSE]
  IN CASE path = <<>> -> start
       [] path # <<>> /\ Folder(path) \in folders -> [start EXCEPT !.ok = TRUE]
       [] OTHER -> FoldLeft(Mkdir, start, Split(path))

-----------------------------------------------------------------------------
(* Which sources may log verbosely. *)

RECURSIVE WildCardMatch(_, _)
WildCardMatch(text, pattern) ==
  CASE pattern = <<>> -> text = <<>>
    [] pattern # <<>> /\ pattern[1] = "*" ->
         \/ WildCardMatch(text, Tail(pattern))
         \/ text # <<>> /\ WildCardMatch(Tail(text), pattern)
    [] OTHER -> text # <<>> /\ pattern[1] \in {"?", text[1]} /\ WildCardMatch(Tail(text), Tail(pattern))

ModuleSuffixes == <<".h", ".c", ".cpp", ".cc", ".cxx", ".-inl.h", ".hxx", ".hpp", ".hh">>

Without(name, suffix) == IF name # <<>> /\ Last(name) = suffix THEN Front(name) ELSE name
AddSuffix(name, suffix, previous) == Append(Without(Without(name, previous), suffix), suffix)

\* A module is every file of its name; a name that is listed keeps its level.
Insert(modules, name, level, extensions) ==
  LET AddModule(state, i) ==
        LET n == AddSuffix(state.name, ModuleSuffixes[i], IF i = 1 THEN "" ELSE ModuleSuffixes[i - 1])
        IN [name |-> n, modules |-> state.modules @@ (n :> level)]
  IN IF ~extensions THEN modules @@ (name :> level)
     ELSE FoldLeft(AddModule, [name |-> name, modules |-> modules], [i \in DOMAIN ModuleSuffixes |-> i]).modules

Levels == <<"0", "1", "2", "3", "4", "5", "6", "7", "8", "9">>
IsLevel(c) == \E i \in DOMAIN Levels : Levels[i] = c
LevelOf(c) == CHOOSE n \in 0 .. 9 : Levels[n + 1] = c

\* "a=1,b=2": the last digit counts, and a module without one runs into the next.
SetModules(text, modules, extensions) ==
  LET Put(s) == IF s.name = <<>> \/ s.level = -1 THEN s
                ELSE [s EXCEPT !.modules = Insert(@, s.name, s.level, extensions), !.name = <<>>, !.level = -1]
      Step(s, c) ==
        CASE c = "=" -> [s EXCEPT !.inLevel = TRUE]
          [] c = "," -> Put([s EXCEPT !.inLevel = FALSE])
          [] c \notin {"=", ","} /\ s.inLevel -> IF IsLevel(c) THEN [s EXCEPT !.level = LevelOf(c)] ELSE s
          [] OTHER -> [s EXCEPT !.name = Append(@, c)]
  IN Put(FoldLeft(Step, [modules |-> modules, name |-> <<>>, level |-> -1, inLevel |-> FALSE], text)).modules

\* The modules are tried in the order of their names.
Ranks == <<"*", ".-inl.h", ".c", ".cc", ".cpp", ".cxx", ".h", ".hh", ".hpp", ".hxx", "?", "a", "b">>
Rank(c) == CHOOSE i \in DOMAIN Ranks : Ranks[i] = c
Precedes(s, t) ==
  \/ IsStrictPrefix(s, t)
  \/ \E i \in DOMAIN s \cap DOMAIN t : SubSeq(s, 1, i - 1) = SubSeq(t, 1, i - 1) /\ Rank(s[i]) < Rank(t[i])

SourceFilenameMaxLength == 100
Allowed(registry, verbosity, file) ==
  LET name == BuildBaseFilename(file, SourceFilenameMaxLength)
      matching == {m \in DOMAIN registry.modules : WildCardMatch(name, m)}
  IN CASE registry.modules = <<>> -> verbosity <= registry.level
       [] registry.modules # <<>> /\ matching # {} ->
            verbosity <= registry.modules[CHOOSE m \in matching : \A n \in matching : m = n \/ Precedes(m, n)]
       [] OTHER -> registry.allowUnspecified

-----------------------------------------------------------------------------
(* Lines that are logged at some of their hits. max stands for the 100000 at *)
(* which a counter starts again.                                             *)

Hit(hits, log) == [hits |-> hits, log |-> log]

ValidateHitCounts(hits, n, max) ==
  1 + CASE hits < max -> hits [] hits >= max /\ n >= 1 -> max % n [] OTHER -> 0

ValidateEveryN(hits, n, max) ==
  LET now == ValidateHitCounts(hits, n, max) IN Hit(now, n >= 1 /\ now # 0 /\ now % n = 0)
ValidateAfterN(hits, n) == IF hits >= n THEN Hit(hits, TRUE) ELSE Hit(hits + 1, FALSE)
ValidateNTimes(hits, n) == Hit(hits + 1, hits + 1 <= n)

-----------------------------------------------------------------------------
(* Configurations: lines such as  Format = "%level %msg"  ## as before,
   below a line such as  * INFO: .  *)

Quote == "\""
Backslash == "\\"

IsBlank(c) == c = " "
Trim(text) ==
  LET solid == {i \in DOMAIN text : ~IsBlank(text[i])}
  IN IF solid = {} THEN <<>>
     ELSE SubSeq(text, CHOOSE i \in solid : \A j \in solid : i <= j, CHOOSE i \in solid : \A j \in solid : i >= j)

\* Where a comment starts, not before a place.
CommentFrom(line, from) ==
  LET found == {i \in from .. Len(line) - 1 : line[i] = "#" /\ line[i + 1] = "#"}
  IN IF found = {} THEN 0 ELSE CHOOSE i \in found : \A j \in found : i <= j

\* The quote that closes: not one behind a backslash. The character next to
\* such a quote is not looked at.
RECURSIVE ClosingQuote(_, _)
ClosingQuote(line, from) ==
  LET at == Place(line, Quote, from)
  IN IF at > 1 /\ line[at - 1] = Backslash THEN ClosingQuote(line, at + 2) ELSE at

\* A mark that comes before the closing quote is taken for a quoted one.
IgnoreComments(line) ==
  LET start == Place(line, Quote, 1)
      end == IF start = 0 THEN 0 ELSE ClosingQuote(line, start + 1)
      mark == CommentFrom(line, 1)
      comment == IF mark < end THEN CommentFrom(line, end + 1) ELSE mark
  IN IF mark = 0 \/ comment = 0 THEN line ELSE SubSeq(line, 1, comment - 1)

\* What is quoted, without the backslashes of the quotes in it. A backslash is
\* gone when the next quote is looked for, so one more character is passed over.
RECURSIVE Unescaped(_, _)
Unescaped(value, from) ==
  LET at == Place(value, Quote, from)
  IN IF at > 1 /\ value[at - 1] = Backslash THEN Unescaped(RemoveAt(value, at - 1), at + 2)
     ELSE [value |-> value, end |-> at]
Unquoted(value) ==
  LET start == Place(value, Quote, 1)
      u == Unescaped(value, start + 1)
      last == start + u.end - 2
  IN CASE start = 0 -> value
       [] start # 0 /\ u.end \notin {0, start + 1} ->
            SubSeq(u.value, start + 1, IF last <= Len(u.value) THEN last ELSE Len(u.value))
       [] OTHER -> u.value

\* A level or configuration is a name of one character; the others are not known.
KnownLevels == {"I", "W"}
KnownTypes == {"F", "E"}
Known(name, names) == IF Len(name) = 1 /\ name[1] \in names THEN name[1] ELSE "Unknown"
IsConfig(line) == line[1] \in KnownTypes \cup {"a"} /\ Place(line, "=", 1) # 0

\* What a line does to the level the lines below it are for, and to the settings.
ParseLine(state, raw) ==
  LET line == Trim(IgnoreComments(Trim(raw)))
      assignment == Place(line, "=", 1)
      type == IF IsConfig(line) THEN Known(Trim(SubSeq(line, 1, assignment - 1)), KnownTypes) ELSE "Unknown"
      entry == [level |-> state.level, type |-> type, value |-> Unquoted(Trim(From(line, assignment + 1)))]
  IN CASE line = <<>> -> [state EXCEPT !.ok = TRUE]
       [] line # <<>> /\ line[1] = "*" ->
            [state EXCEPT !.ok = TRUE,
                          !.level = IF Len(line) <= 2 THEN @
                                    ELSE Known(Trim(SubSeq(line, 2, Len(line) - 1)), KnownLevels)]
       [] OTHER ->
            IF "Unknown" \in {state.level, type} THEN [state EXCEPT !.ok = FALSE]
            ELSE [state EXCEPT !.ok = TRUE, !.sets = Append(@, entry)]

\* The answer is that of the last line.
ParseFromText(lines) == FoldLeft(ParseLine, [level |-> "Unknown", sets |-> <<>>, ok |-> FALSE], lines)
==============================================================================
