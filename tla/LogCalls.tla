------------------------------- MODULE LogCalls -------------------------------
(***************************************************************************)
(* What easylogging++ is asked to write and read, and what must hold of    *)
(* its answers.                                                            *)
(***************************************************************************)
EXTENDS LogFormat

Texts(S, n) == UNION {[1 .. k -> S] : k \in 0 .. n}

-----------------------------------------------------------------------------
(* Lines of the log. *)

Words == {"level", "logger", "user", "loc", "fbase", "line", "func", "msg"}
\* A format is a sequence of specifiers, escaped ones and text.
Items == {<<"%", w>> : w \in Words \cup {"datetime"}} \cup {<<"%", "%", w>> : w \in Words \cup {"datetime"}}
           \cup {<<"-">>, <<"%", "datetime", "{", "%", "H", "}">>}
Formats == Texts(Items, 3)

Noon == [year |-> 2020, month |-> 4, day |-> 9, weekday |-> 4, hour |-> 12, minute |-> 5, second |-> 7, usec |-> 60500]
Fields == [user |-> "root", host |-> "ship", short |-> "I"]
Millis == SubsecondPrecision(3)
\* A message that looks like specifiers.
Message ==
  [level |-> "Info", verbosity |-> 0, time |-> Noon, app |-> "verifier", thread |-> "1", func |-> "run",
   file |-> <<"a", "/", "b">>, line |-> 205, text |-> <<"%", "level", "%", "func", "%", "datetime">>]

Line(items) ==
  BuildLine(ResolveLoggerFormatSpec(ParseFromFormat(FlattenSeq(items), "INFO", Fields), "default"), Message, Millis)

\* What each specifier stands for here.
Given ==
  [level |-> <<"INFO">>, logger |-> <<"default">>, user |-> <<"root">>, loc |-> <<"a", "/", "b", ":", "2", "0", "5">>,
   fbase |-> <<"b">>, line |-> <<"2", "0", "5">>, func |-> <<"run">>, msg |-> Message.text]

WordOf(item) == item[IF item[1] = "%" /\ item[2] = "%" THEN 3 ELSE 2]
Escapes(item) == Len(item) = 3 /\ item[2] = "%"
Specifies(item) == item[1] = "%" /\ ~Escapes(item)

\* What an item of a format is for: the first of a specifier is what it
\* specifies, one that follows or is escaped is the specifier itself.
Says(items, i) ==
  LET again == \E j \in 1 .. i - 1 : Specifies(items[j]) /\ WordOf(items[j]) = WordOf(items[i])
      date == IF Len(items[i]) > 2 THEN TimevalToString(Noon, <<"%", "H">>, Millis)
              ELSE TimevalToString(Noon, DefaultDateTimeFormat, Millis)
  IN CASE items[i] = <<"-">> -> <<"-">>
       [] items[i] # <<"-">> /\ (Escapes(items[i]) \/ again) -> <<"%", WordOf(items[i])>>
       [] OTHER -> IF WordOf(items[i]) = "datetime" THEN date ELSE Given[WordOf(items[i])]

\* A format whose escaped specifiers are used too, and that has one date at
\* most: the rest keep their escape, or the braces of a second date.
Plain(items) ==
  /\ \A i \in DOMAIN items : Escapes(items[i]) =>
       \E j \in DOMAIN items : Specifies(items[j]) /\ WordOf(items[j]) = WordOf(items[i])
  /\ \A i, j \in DOMAIN items : {items[i], items[j]} \subseteq {t \in Items : Len(t) > 1 /\ WordOf(t) = "datetime"} => i = j

LineSaysItsFields(items) ==
  Plain(items) => Line(items) = FlattenSeq([i \in DOMAIN items |-> Says(items, i)])

\* Only a format whose dates are all escaped is read before its start.
DatesAreFound(items) ==
  LET dates == {i \in DOMAIN items : Len(items[i]) > 1 /\ WordOf(items[i]) = "datetime"}
  IN Line(items) = Undefined <=> dates # {} /\ \A i \in dates : Escapes(items[i])

-----------------------------------------------------------------------------
(* Times in the log sort as they passed, unless fewer digits of the second
   are asked for than thousandths have. *)

Times ==
  {[Noon EXCEPT !.month = m, !.hour = h, !.second = s, !.usec = u] :
     m \in {4, 12}, h \in {0, 9, 23}, s \in {7, 30}, u \in {0, 999, 60500, 157004}}
Counted(t) == <<t.month, t.hour, t.second, t.usec>>
Before(s, t) ==
  \E i \in DOMAIN s : SubSeq(s, 1, i - 1) = SubSeq(t, 1, i - 1) /\ s[i] < t[i]
Value(d) == IF \E n \in 0 .. 9 : Digit(n) = d THEN CHOOSE n \in 0 .. 9 : Digit(n) = d ELSE 0
Written(t, width) ==
  LET text == TimevalToString(t, DefaultDateTimeFormat, SubsecondPrecision(width))
  IN [i \in DOMAIN text |-> Value(text[i])]

\* A time as exact as it is written.
Rounded(t, width) == [t EXCEPT !.usec = @ \div (10 ^ (6 - SubsecondPrecision(width).width))]

TimesSort(t, u, width) ==
  width \notin {1, 2} =>
    (Before(Written(t, width), Written(u, width)) <=> Before(Counted(Rounded(t, width)), Counted(Rounded(u, width))))

\* The name of a log file keeps its folders, whatever its date has.
FileNames == Texts({<<"/">>, <<"a">>, <<"%", "datetime">>, <<"%", "datetime", "{", "%", "M", "/", "%", "d", "}">>}, 3)
Slashes(text) == Cardinality({i \in DOMAIN text : text[i] = "/"})
InBraces(items) == Cardinality({i \in DOMAIN items : Len(items[i]) > 2})
NameKeepsFolders(items) ==
  LET name == ResolveFilename(FlattenSeq(items), Noon)
  IN InBraces(items) <= 1 /\ (\A i \in DOMAIN items : Len(items[i]) > 2 =>
                                  \A j \in 1 .. i - 1 : Len(items[j]) # 2)
       => /\ Slashes(name) = Cardinality({i \in DOMAIN items : items[i] = <<"/">>})
          /\ \A i \in DOMAIN name : name[i] \notin {"%", "datetime", "{", "}"}

-----------------------------------------------------------------------------
(* Paths, wildcards and modules. *)

Paths == Texts({"/", "a", ".", "b"}, 5)

\* A name that is cut keeps its end and fits, but for one that starts with a
\* dot where it is cut.
NamesFit(path, limit) ==
  LET name == BuildStrippedFilename(path, limit)
      base == BuildBaseFilename(path, limit)
  IN /\ Len(name) <= limit /\ Len(base) <= limit
     /\ Len(path) < limit => name = path
     /\ Len(path) >= limit => IsSuffix(From(path, Len(path) - limit + 4), name)
     /\ Len(path) < limit => IsSuffix(base, path) /\ \A i \in 2 .. Len(base) : base[i] # "/"

\* The folder of a log file is there when, and only when, the answer says so.
Folders == {<<"/">>, <<"/", "a">>, <<"/", "a", "b">>, <<"a">>, <<"a", "b">>, <<"a", "a">>}
\* What may be there: with a folder those on the way to it.
Trees ==
  {t \in SUBSET {[i \in DOMAIN f |-> <<f[i]>>] : f \in Folders} :
     \A f \in t : Len(f) > 1 => Front(f) \in t}
ReadOnly == {{}, {<<<<"a">>>>}, {<<>>}}
FolderIsMade(file, tree, readOnly) ==
  LET folder == ExtractPathFromFilename(file)
      out == CreatePath(folder, tree \cup {<<>>, <<<<"/">>>>}, readOnly)
  IN Place(file, "/", 1) # 0 =>
       /\ out.ok <=> Folder(folder) \in out.folders
       /\ tree \subseteq out.folders
       /\ readOnly = {} => out.ok

\* A pattern matches what some lengths of its stars make of it.
Stars(pattern) == Cardinality({i \in DOMAIN pattern : pattern[i] = "*"})
RECURSIVE Stretched(_, _)
Stretched(pattern, n) ==
  IF Stars(pattern) = 0 THEN {pattern}
  ELSE LET at == Place(pattern, "*", 1)
       IN UNION {Stretched(SubSeq(pattern, 1, at - 1) \o [i \in 1 .. k |-> "?"] \o From(pattern, at + 1), n) : k \in 0 .. n}
MatchesAsStretched(text, pattern) ==
  WildCardMatch(text, pattern) <=>
    \E p \in Stretched(pattern, Len(text)) :
      Len(p) = Len(text) /\ \A i \in DOMAIN p : p[i] \in {"?", text[i]}

Modules == {<<"a">>, <<"b">>, <<"a", "b">>}
Patterns == Modules \cup {<<"*", "b">>}

\* A module that is listed with a level has its sources log up to that level,
\* unless a wildcard comes before it: the sources of every suffix, or, where it
\* is listed with the k-th suffix, of that one and those that are added later.
Registry(modules) == [modules |-> modules, level |-> 0, allowUnspecified |-> FALSE]
Listed(module, level) == module \o <<"=", Levels[level + 1]>>
ModulesLogToTheirLevel(first, second, level1, level2, k) ==
  LET named == IF k = 0 THEN first ELSE Append(first, ModuleSuffixes[k])
      r == Registry(SetModules(Listed(named, level1) \o <<",">> \o Listed(second, level2), <<>>, TRUE))
  IN first # second =>
       \A v \in 0 .. 3, i \in DOMAIN ModuleSuffixes :
         /\ "*" \notin Range(second) /\ i >= k =>
              (Allowed(r, v, <<"b", "/">> \o Append(first, ModuleSuffixes[i])) <=> v <= level1)
         /\ Allowed(r, v, Append(second, ModuleSuffixes[i])) <=> v <= level2

\* Every n-th hit is logged however often the counter starts again, unless it
\* starts again before it comes to n.
Nth(times, n, max) == FoldLeft(LAMBDA h, i : ValidateEveryN(h.hits, n, max), Hit(0, FALSE), [i \in 1 .. times |-> i])
EveryNthIsLogged(times, n, max) ==
  times > 0 /\ n <= max => (Nth(times, n, max).log <=> n > 0 /\ times % n = 0)

-----------------------------------------------------------------------------
(* Configurations. *)

Values == {v \in Texts({"a", " ", "#", Quote}, 5) : v # <<>> /\ v[1] # " " /\ Last(v) # " "}
\* A value in quotes, its own quotes behind backslashes.
Quoted(value) ==
  <<Quote>> \o FlattenSeq([i \in DOMAIN value |-> IF value[i] = Quote THEN <<Backslash, Quote>> ELSE <<value[i]>>]) \o <<Quote>>
Comments == {<<>>, <<" ", "#", "#", "a">>}

\* Two characters behind a quote in a value are not looked at, so they must
\* neither be a quote nor the end.
QuotesApart(value) ==
  \A i \in DOMAIN value : value[i] = Quote => i + 2 <= Len(value) /\ value[i + 1] # Quote /\ value[i + 2] # Quote

ConfigurationIsRead(value, comment) ==
  QuotesApart(value) =>
    LET text == <<<<" ", "*", " ", "I", ":">>, <<"#", "#">>, <<"F", " ", "=", " ">> \o Quoted(value) \o comment,
                  <<>>, <<"*", "W", ":">>, <<"E", "=", "a">> \o comment>>
        out == ParseFromText(text)
    IN /\ out.ok
       /\ out.sets = <<[level |-> "I", type |-> "F", value |-> value], [level |-> "W", type |-> "E", value |-> <<"a">>]>>
==============================================================================
