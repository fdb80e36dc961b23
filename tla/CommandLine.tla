------------------------------ MODULE CommandLine ------------------------------
(***************************************************************************)
(* tools/lockertool/cmdline.h: the options a program declares, and what    *)
(* parser makes of its arguments.  An argument is a sequence of            *)
(* one-character strings.                                                  *)
(***************************************************************************)
EXTENDS Naturals, Sequences, FiniteSets, SequencesExt

-----------------------------------------------------------------------------
(* Options: those without a value, and those whose value a reader takes.   *)

\* accepts is what the reader lets through: every text, or numbers of a set.
Flag(short) == [short |-> short, takes |-> FALSE, need |-> FALSE, default |-> <<>>, accepts |-> "none", numbers |-> {}]
Valued(short, need, default, accepts, numbers) ==
  [short |-> short, takes |-> TRUE, need |-> need, default |-> default, accepts |-> accepts, numbers |-> numbers]

NumberDigits == <<"0", "1", "2">>
IsNumber(s) == s # <<>> /\ \A i \in DOMAIN s : s[i] \in Range(NumberDigits)
NumberOf(s) == FoldLeft(LAMBDA n, c : n * 10 + (CHOOSE d \in DOMAIN NumberDigits : NumberDigits[d] = c) - 1, 0, s)

\* range and oneof: the numbers their readers let through.
RangeReader(low, high) == low .. high
OneOfReader(alternatives) == {alternatives[k] : k \in DOMAIN alternatives}

\* default_reader, range_reader and oneof_reader: whether they throw.
Readable(option, value) ==
  \/ option.takes /\ option.accepts = "text"
  \/ option.takes /\ option.accepts = "number" /\ IsNumber(value) /\ NumberOf(value) \in option.numbers

\* What add leaves of a parser's options; a name can be added once.
Added(options, name, option) ==
  IF name \in DOMAIN options THEN [ok |-> FALSE, options |-> options]
  ELSE [ok |-> TRUE, options |-> [n \in DOMAIN options \cup {name} |-> IF n = name THEN option ELSE options[n]]]

\* A parser before its first command line.
NewParser(options) ==
  [options |-> options, has |-> {}, actual |-> [n \in DOMAIN options |-> options[n].default],
   errors |-> <<>>, others |-> <<>>]

\* exist and get, which throw for a name that is no option or of another kind.
Exist(p, name) == IF name \notin DOMAIN p.options THEN "throws" ELSE IF name \in p.has THEN "yes" ELSE "no"
GetThrows(p, name) == name \notin DOMAIN p.options \/ ~p.options[name].takes
Get(p, name) == p.actual[name]

-----------------------------------------------------------------------------
(* One command line as a string. *)

\* parse of a string, from the i-th character on.
RECURSIVE SplitFrom(_, _, _, _, _)
SplitFrom(text, i, quoted, buf, args) ==
  IF i > Len(text) THEN [ok |-> ~quoted, args |-> IF buf = <<>> THEN args ELSE Append(args, buf)]
  ELSE CASE text[i] = "quote" -> SplitFrom(text, i + 1, ~quoted, buf, args)
         [] text[i] = " " /\ ~quoted -> SplitFrom(text, i + 1, quoted, <<>>, Append(args, buf))
         [] text[i] = "\\" /\ i = Len(text) -> [ok |-> FALSE, args |-> args]
         [] text[i] = "\\" /\ i < Len(text) -> SplitFrom(text, i + 2, quoted, Append(buf, text[i + 1]), args)
         [] OTHER -> SplitFrom(text, i + 1, quoted, Append(buf, text[i]), args)
Split(text) == SplitFrom(text, 1, FALSE, <<>>, <<>>)

-----------------------------------------------------------------------------
(* A command line as its arguments, the program's name first. *)

Fault(p, what, name) == [p EXCEPT !.errors = Append(@, <<what, name>>)]

\* set_option with and without a value.
SetFlag(p, name) ==
  IF name \notin DOMAIN p.options THEN Fault(p, "undefined", name)
  ELSE IF p.options[name].takes THEN Fault(p, "needs value", name)
  ELSE [p EXCEPT !.has = @ \cup {name}]

SetValue(p, name, value) ==
  IF name \notin DOMAIN p.options THEN Fault(p, "undefined", name)
  ELSE IF ~Readable(p.options[name], value) THEN Fault(p, "invalid", name)
  ELSE [p EXCEPT !.has = @ \cup {name}, !.actual[name] = value]

Named(p, c) == {n \in DOMAIN p.options : n # <<>> /\ p.options[n].short = c}
NoShort == ""
Ambiguous(p) ==
  \E m, n \in DOMAIN p.options \ {<<>>} :
    m # n /\ p.options[m].short = p.options[n].short /\ p.options[m].short # NoShort
LookUp(p, c) == CHOOSE n \in Named(p, c) : TRUE

\* The letters of a group of short options but the last one.
ShortFlag(p, c) == IF Named(p, c) = {} THEN Fault(p, "undefined", <<c>>) ELSE SetFlag(p, LookUp(p, c))

RECURSIVE ReadArguments(_, _, _)

\* --name=value, --name and --name followed by its value.
ReadLong(p, argv, i) ==
  LET arg == SubSeq(argv[i], 3, Len(argv[i]))
      sign == IF Contains(arg, "=") THEN CHOOSE k \in DOMAIN arg : arg[k] = "=" /\ \A j \in 1 .. k - 1 : arg[j] # "=" ELSE 0
  IN IF sign # 0 THEN ReadArguments(SetValue(p, SubSeq(arg, 1, sign - 1), SubSeq(arg, sign + 1, Len(arg))), argv, i + 1)
     ELSE IF arg \notin DOMAIN p.options THEN ReadArguments(Fault(p, "undefined", arg), argv, i + 1)
     ELSE IF ~p.options[arg].takes THEN ReadArguments(SetFlag(p, arg), argv, i + 1)
     ELSE IF i = Len(argv) THEN ReadArguments(Fault(p, "needs value", arg), argv, i + 1)
     ELSE ReadArguments(SetValue(p, arg, argv[i + 1]), argv, i + 2)

\* -abc: only the last of the options can have a value, the next argument.
ReadShort(p, argv, i) ==
  LET group == Tail(argv[i])
      q == FoldLeft(ShortFlag, p, Front(group))
      name == LookUp(p, Last(group))
  IN IF group = <<>> THEN ReadArguments(p, argv, i + 1)
     ELSE IF Named(p, Last(group)) = {} THEN ReadArguments(Fault(q, "undefined", <<Last(group)>>), argv, i + 1)
     ELSE IF i < Len(argv) /\ p.options[name].takes THEN ReadArguments(SetValue(q, name, argv[i + 1]), argv, i + 2)
     ELSE ReadArguments(SetFlag(q, name), argv, i + 1)

ReadArguments(p, argv, i) ==
  IF i > Len(argv) THEN p
  ELSE IF IsPrefix(<<"-", "-">>, argv[i]) THEN ReadLong(p, argv, i)
  ELSE IF IsPrefix(<<"-">>, argv[i]) THEN ReadShort(p, argv, i)
  ELSE ReadArguments([p EXCEPT !.others = Append(@, argv[i])], argv, i + 1)

Missing(p) == {n \in DOMAIN p.options : p.options[n].need /\ n \notin p.has}

\* parse: what an earlier command line has set stays set.
ParseArguments(p, argv) ==
  LET fresh == [p EXCEPT !.errors = <<>>, !.others = <<>>]
      read == ReadArguments(fresh, argv, 2)
  IN IF argv = <<>> THEN Fault(fresh, "no arguments", <<>>)
     ELSE IF Ambiguous(p) THEN Fault(fresh, "ambiguous", <<>>)
     ELSE [read EXCEPT !.errors = @ \o [k \in 1 .. Cardinality(Missing(read)) |-> <<"missing", <<>>>>]]

Understood(p) == p.errors = <<>>

\* parse_check: whether the program goes on, or with which code it exits.
Help == <<"h", "e", "l", "p">>
WithHelp(options) == Added(options, Help, Flag("?")).options
Check(p, argc) ==
  IF (argc = 1 /\ ~Understood(p)) \/ Exist(p, Help) = "yes" THEN "exit 0"
  ELSE IF ~Understood(p) THEN "exit 1" ELSE "goes on"

ParseCheck(options, argv) == LET p == ParseArguments(NewParser(WithHelp(options)), argv) IN [parser |-> p, then |-> Check(p, Len(argv))]
==============================================================================
