------------------------------- MODULE ToolCalls -------------------------------
(***************************************************************************)
(* What the tools are asked, and what must hold of their answers.          *)
(***************************************************************************)
EXTENDS CommandLine, Tools, Base64, FiniteSetsExt

Num == <<"n", "u">>
Out == <<"o", "u", "t">>
Fast == <<"f">>
Kind == <<"k">>
ToolOptions ==
  [n \in {Num, Out, Fast, Kind} |->
     CASE n = Num -> Valued("n", TRUE, <<>>, "number", RangeReader(1, 9))
       [] n = Kind -> Valued(NoShort, FALSE, <<"0">>, "number", OneOfReader(<<0, 10>>))
       [] n = Out -> Valued("o", FALSE, <<"x">>, "text", {})
       [] OTHER -> Flag("f")]
SameShort == [n \in {Num, Fast} |-> IF n = Num THEN Valued("f", FALSE, <<>>, "text", {}) ELSE Flag("f")]

ArgumentTexts ==
  {<<"-", "-">> \o Num \o <<"=", "1">>, <<"-", "-">> \o Num, <<"-", "-">> \o Out \o <<"=">>, <<"-", "-">> \o Fast,
   <<"-", "-">> \o Fast \o <<"=", "1">>, <<"-", "-">>, <<"-", "n">>, <<"-", "f", "o">>, <<"-", "o", "f">>, <<"-", "q">>,
   <<"-">>, <<"2">>, <<"1", "0">>, <<>>, <<"-", "?">>,
   <<"-", "-">> \o Kind}
CommandLines(k) == {<<<<"p">>>> \o s : s \in UNION {[1 .. n -> ArgumentTexts] : n \in 0 .. k}}

-----------------------------------------------------------------------------
(* The meaning of a command line, argument by argument.                    *)

IsLong(arg) == Len(arg) > 1 /\ arg[1] = "-" /\ arg[2] = "-"
IsShort(arg) == Len(arg) > 1 /\ arg[1] = "-" /\ arg[2] # "-"
NameIn(arg) == SubSeq(arg, 3, Len(arg))
Letters(options, c) == {n \in DOMAIN options : options[n].short = c}

\* The option an argument ends with, which the next argument is the value of.
Wants(options, arg) ==
  {n \in DOMAIN options : options[n].takes /\ \/ IsLong(arg) /\ NameIn(arg) = n
                                              \/ IsShort(arg) /\ options[n].short = Last(arg)}

RECURSIVE IsValue(_, _, _)
IsValue(options, argv, i) == i > 2 /\ Wants(options, argv[i - 1]) # {} /\ ~IsValue(options, argv, i - 1)

Sign(arg) == {k \in DOMAIN arg : k > 2 /\ arg[k] = "=" /\ \A j \in 3 .. k - 1 : arg[j] # "="}

\* The values argument i gives to options, readable or not: an option's name,
\* which need not be one, and the value.
ValuesGiven(options, argv, i) ==
  LET arg == argv[i] IN
  IF IsLong(arg) /\ Sign(arg) # {} THEN {<<SubSeq(arg, 3, k - 1), SubSeq(arg, k + 1, Len(arg))>> : k \in Sign(arg)}
  ELSE IF i = Len(argv) THEN {} ELSE {<<n, argv[i + 1]>> : n \in Wants(options, arg)}

\* The letters and names it sets without a value.
FlagsGiven(options, argv, i) ==
  LET arg == argv[i] IN
  IF IsLong(arg) THEN IF Sign(arg) = {} /\ ValuesGiven(options, argv, i) = {} THEN {{NameIn(arg)}} ELSE {}
  ELSE IF ~IsShort(arg) THEN {}
  ELSE {Letters(options, arg[k]) : k \in 2 .. (IF ValuesGiven(options, argv, i) = {} THEN Len(arg) ELSE Len(arg) - 1)}

Accepted(options, n, value) == n \in DOMAIN options /\ Readable(options[n], value)
AcceptedFlag(options, names) == \E n \in names : n \in DOMAIN options /\ ~options[n].takes

Reads(options, argv, p, earlier) ==
  LET places == {i \in 2 .. Len(argv) : ~IsValue(options, argv, i)}
      flags == UNION {FlagsGiven(options, argv, i) : i \in places}
      valued(n) == {i \in places : \E g \in ValuesGiven(options, argv, i) : g[1] = n /\ Accepted(options, n, g[2])}
      given == {n \in DOMAIN options : valued(n) # {} \/ (~options[n].takes /\ \E names \in flags : n \in names)}
  IN /\ p.has = earlier.has \cup given
     /\ \A n \in DOMAIN options : options[n].takes =>
          p.actual[n] = IF valued(n) = {} THEN earlier.actual[n]
                        ELSE (CHOOSE g \in ValuesGiven(options, argv, Max(valued(n))) : g[1] = n)[2]
     /\ p.others = [k \in 1 .. Len(p.others) |->
                      argv[SetToSortSeq({i \in places : argv[i] = <<>> \/ argv[i][1] # "-"}, LAMBDA i, j : i < j)[k]]]
     /\ Len(p.others) = Cardinality({i \in places : argv[i] = <<>> \/ argv[i][1] # "-"})
     /\ Understood(p) <=>
          /\ \A names \in flags : AcceptedFlag(options, names)
          /\ \A i \in places : \A g \in ValuesGiven(options, argv, i) : Accepted(options, g[1], g[2])
          /\ \A n \in DOMAIN options : options[n].need => n \in p.has

\* A parser reads two command lines, one after the other.
ParseBoth(first, second) ==
  LET r == ParseCheck(ToolOptions, first) IN [first |-> r.parser, then |-> r.then, second |-> ParseArguments(r.parser, second)]

ReadsArguments(first, second, out) ==
  LET options == WithHelp(ToolOptions) IN
  /\ Reads(options, first, out.first, NewParser(options))
  /\ Reads(options, second, out.second, out.first)
  /\ out.then = "goes on" => Understood(out.first) /\ GetThrows(out.first, Fast) /\ ~GetThrows(out.first, Num)
  /\ out.then = "goes on" => Readable(options[Num], Get(out.first, Num))

\* A command line in one string.
SplitTexts == {<<"a">>, <<"a", " ", "b">>, <<"quote">>, <<"\\", "a">>, <<>>}
SplitLines == UNION {[1 .. n -> SplitTexts] : n \in 0 .. 3}
QuotedText(arg, style) ==
  LET escaped(c) == IF c \in {"quote", "\\"} \/ (c = " " /\ style = "escape") THEN <<"\\", c>> ELSE <<c>>
      body == FlattenSeq([i \in DOMAIN arg |-> escaped(arg[i])])
  IN IF style = "quote" THEN <<"quote">> \o body \o <<"quote">> ELSE body
JoinedBy(args, style) == FlattenSeq([i \in DOMAIN args |-> (IF i = 1 THEN <<>> ELSE <<" ">>) \o QuotedText(args[i], style[i])])
SplitReads(args) ==
  \A style \in [DOMAIN args -> {"quote", "escape"}] :
    LET r == Split(JoinedBy(args, style)) IN
    r.ok /\ r.args = IF args # <<>> /\ Last(args) = <<>> THEN Front(args) ELSE args

\* Names that are declared twice, or share their letter.
DeclaresOnce(options, name) ==
  LET r == Added(options, name, Flag("f")) IN r.ok = (name \notin DOMAIN options) /\ \A n \in DOMAIN options : r.options[n] = options[n]

-----------------------------------------------------------------------------
(* The dongle. *)

ToolCallsOf == {"show", "read", "write", "encrypt", "decrypt", "test"}
DongleCalls == {"login", "logout", "read", "write", "encrypt", "decrypt", "open"}
Files == {[i \in 1 .. n |-> i] : n \in 0 .. MemorySize + 1}

\* The session is closed unless that fails, what comes behind a failure is not
\* done, nothing is without an argument, and the dongle holds the file and a byte that marks its end.
LeavesTheDongle(bare, asked, works, file, t) ==
  /\ t.how \in {"returns", "exits"} => ~t.session
  /\ t.how = "overflows" <=> (~bare /\ "logout" \notin works /\ "login" \in works)
  /\ bare => t = [Opened EXCEPT !.how = "exits"]
  /\ t.how = "returns" => t.done = asked
  /\ "write" \in t.done => Len(file) < MemorySize /\ SubSeq(t.memory, 1, Len(file) + 1) = Append(file, EndOfFile)
  /\ (ReadFile(file).fits <=> Len(ReadFile(file).bytes) <= MemorySize)

-----------------------------------------------------------------------------
(* The licence. *)

Configs ==
  {NoConfig, WrittenConfig, [WrittenConfig EXCEPT !.named = @ \ {"monitor_pem"}]}
    \cup {Config(kind) : kind \in {"closed", "bad", "ill-typed"}}
Keys == {"pair1", "pair2"}
OldLicence == Text(<<"pair1", "json">>, {"m3"}, "")
KeyFile(key) == Text(<<>>, {}, key)

\* Where the keys are: in the directories the first run or a later one uses.
FilesWith(info, directories, key) ==
  [path \in {"machineInfo"} \cup {Params(c).license_pem : c \in directories} \cup {Params(c).monitor_pem : c \in directories} |->
     IF path = "machineInfo" THEN info
     ELSE KeyFile(IF path \in {Params(c).license_pem : c \in directories} THEN key ELSE "watch")]

\* A machine's code goes to the one who makes licences.  The old licence is not
\* touched before there is one for that machine, signed with the key of the pair
\* its code was made with; then the old one, that one, a part of it or none is
\* there, and the program says it succeeded in each case.  Doing it again is
\* enough to get the licence, unless the default configuration was cut off.
LicenceFor(macs, pair, arguments, config, directories, key, encrypts) ==
  LET files == FilesWith(MachineInfo(macs, pair, Empty), directories, key)
      makes(c, old) == MakeLicence(arguments, c, files, old, encrypts)
      finds(c, name) == \E d \in directories : Params(d)[name] = Params(c)[name]
      for(c) == Text(<<key, "json">>, macs, IF finds(c, "monitor_pem") THEN "watch" ELSE "")
      able == arguments < 2 /\ config.kind \in {"none", "json"} /\ macs # {} /\ pair = key /\ encrypts
  IN \A r \in makes(config, OldLicence) :
       /\ r.licence \in {OldLicence, NoLicence, CutOff(for(config)), for(config)}
       /\ r.licence # OldLicence => able /\ finds(config, "license_pem")
       /\ able /\ finds(config, "license_pem") => r.code = "0"
       /\ able /\ r.config.kind # "bad" /\ finds(r.config, "license_pem") =>
            \E again \in makes(r.config, r.licence) : again.licence = for(r.config)

-----------------------------------------------------------------------------
(* The Router. *)

R == INSTANCE Router

Ports == {"5563", "5564", "7000"}
RouterFiles ==
  {R!NoFile, R!Unreadable, R!NoObject}
    \cup {R!FileWith(p) : p \in UNION {[N -> Ports \cup {"", R!Container}] : N \in SUBSET DOMAIN R!DefaultAddresses}}

\* The Router proxies between the addresses of its file, or the default ones if
\* there is no file; it does so whether or not they can be bound, both or one of
\* them, and when it is started again it binds the same or ends: it may end only
\* if its file leaves an address out or is no file of addresses, as the default
\* one is when it was cut off.
RouterBinds(arguments, file, free) ==
  LET runs == R!Start(arguments, file, free)
      proxies == {r \in runs : r.how = "proxies"}
      named(name) == IF file.kind = "none" THEN {R!DefaultAddresses[name]}
                     ELSE {file.params[n] : n \in {name} \cap DOMAIN file.params}
      same == named("front_addr") = named("back_addr")
      unusable == \/ arguments = 2 \/ file.kind \in {"unreadable", "no object"}
                  \/ R!Container \in named("front_addr") \cup named("back_addr")
      leavesOut(f) == f.kind = "object" /\ DOMAIN f.params # {"front_addr", "back_addr"}
  IN /\ proxies = {} <=> unusable
     /\ proxies # runs <=> unusable \/ leavesOut(file)
     /\ \A r \in proxies :
          /\ r.sockets.front = named("front_addr") \cap free
          /\ r.sockets.back = IF same THEN {} ELSE named("back_addr") \cap free
          /\ \A again \in R!Start(arguments, r.file, free) :
               IF again.how = "proxies" THEN again.sockets = r.sockets
               ELSE leavesOut(r.file) \/ (file.kind = "none" /\ r.file = R!NoObject)
     /\ file.kind # "none" => \A r \in runs : r.file = file

-----------------------------------------------------------------------------
(* Base64. *)

Base64Bytes ==
  UNION {[1 .. n -> {0, 5, 77, 255}] : n \in 0 .. 5} \cup [1 .. 9 -> {0, 233}] \cup [1 .. 7 -> {2, 233}]

\* A new line begins behind every LineLength characters.
LineBreaks(text) == \A k \in DOMAIN text : text[k] = Return => Len(SelectSeq(SubSeq(text, 1, k), InAlphabet)) % LineLength = 0
Aligned(text) == Len(SelectSeq(text, LAMBDA c : c \notin {Return, NewLineByte})) % 4 = 0

\* Both pairs are inverse to each other, and a text that is whole is not read
\* behind its end.
Base64Inverse(bytes) ==
  LET lines == Encode(bytes, 0)
      plain == PlainEncode(bytes)
  IN /\ Decode(lines).bytes = bytes /\ Decode(lines).read <= Len(lines) /\ Decode(plain).bytes = bytes
     /\ PlainDecode(plain) = bytes
     /\ plain = SelectSeq(lines, LAMBDA c : c \notin {Return, NewLineByte}) /\ LineBreaks(lines)
\* What is left of a text that was cut off is decoded up to the cut.
Base64Cut(bytes, n) ==
  LET cut == SubSeq(PlainEncode(bytes), 1, n) IN
  /\ IsPrefix(PlainDecode(cut), bytes) /\ Len(PlainDecode(cut)) = Min({Len(bytes), (n * 3) \div 4})
  /\ Decode(cut).read > n => ~Aligned(cut)
==============================================================================
