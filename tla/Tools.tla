--------------------------------- MODULE Tools ---------------------------------
(***************************************************************************)
(* The programs under tools/ that prepare a machine to be served: the one  *)
(* that writes the dongle, and those that make the machine's licence.      *)
(***************************************************************************)
EXTENDS Integers, Sequences, SequencesExt, FiniteSets

--------------------------------------------------------------------------------
(***************************************************************************)
(* tools/lockertool/lockerTool.cpp: what the tool does with the dongle     *)
(* once its command line is read.  works is the set of the dongle's calls  *)
(* that succeed; file is the content of the file to write, as bytes.       *)
(***************************************************************************)

MemorySize == 4      \* the size of the dongle's memory, 4032 in the code
EndOfFile == 255  \* what fgetc returns at the end, as an unsigned char

Opened == [how |-> "runs", isLogin |-> FALSE, session |-> FALSE, memory |-> [i \in 1 .. MemorySize |-> 0], done |-> {}]

RECURSIVE ErrorHelp(_, _, _), Logout(_, _)

\* errorHelp: the session is closed before the program exits; if that fails
\* the two call each other until the stack is used up.
ErrorHelp(t, works, ok) ==
  IF ok \/ t.how # "runs" THEN t
  ELSE IF t.isLogin /\ "logout" \notin works THEN [t EXCEPT !.how = "overflows"]
  ELSE [Logout(t, works) EXCEPT !.how = "exits"]

Logout(t, works) ==
  IF ~t.isLogin THEN t
  ELSE IF "logout" \notin works THEN ErrorHelp(t, works, FALSE)
  ELSE [t EXCEPT !.isLogin = FALSE, !.session = FALSE]

Login(t, works) ==
  IF t.isLogin THEN t
  ELSE IF "login" \notin works THEN ErrorHelp(t, works, FALSE)
  ELSE [t EXCEPT !.isLogin = TRUE, !.session = TRUE]

\* readFile: the end of the file is stored like a byte of it, and the size is
\* looked at after a byte has been stored.
ReadFile(file) ==
  LET stored == Append(file, EndOfFile) IN
  [bytes |-> [i \in DOMAIN stored \cap 1 .. MemorySize + 1 |-> stored[i]], fits |-> Len(stored) <= MemorySize]

Does(t, works, call) ==
  LET r == ErrorHelp(t, works, call \in works) IN IF r.how = "runs" THEN [r EXCEPT !.done = @ \cup {call}] ELSE r

\* writeData: all of the memory is written, with nothing behind the file.
WriteData(t, works, file) ==
  LET read == ReadFile(file) IN
  IF ~read.fits \/ "open" \notin works THEN ErrorHelp(t, works, FALSE)
  ELSE LET r == Does(t, works, "write") IN
       IF r.how # "runs" THEN r
       ELSE [r EXCEPT !.memory = [i \in 1 .. MemorySize |-> IF i <= Len(read.bytes) THEN read.bytes[i] ELSE 0]]

Step(t, call, works, file) ==
  IF t.how # "runs" THEN t
  ELSE CASE call = "show" -> [t EXCEPT !.done = @ \cup {"show"}]
         [] call = "write" -> WriteData(t, works, file)
         [] OTHER -> Does(t, works, call)

\* main, where asked are the options that are given, and bare is whether there is
\* no argument at all; the test comes before the session.
Main(bare, asked, works, file) ==
  LET tested == IF "test" \in asked THEN [Opened EXCEPT !.done = {"test"}] ELSE Opened
      calls == SelectSeq(<<"show", "read", "write", "encrypt", "decrypt">>, LAMBDA c : c \in asked)
      t == FoldLeft(LAMBDA u, c : Step(u, c, works, file), Login(tested, works), calls)
  IN IF bare THEN ErrorHelp(Opened, works, FALSE)
     ELSE IF t.how # "runs" THEN t
     ELSE LET r == Logout(t, works) IN IF r.how = "runs" THEN [r EXCEPT !.how = "returns"] ELSE r

--------------------------------------------------------------------------------
(***************************************************************************)
(* tools/machineCode and tools/rsa: a machine writes its code, and from    *)
(* that its licence is made.  A text is what it is about and the layers it *)
(* is wrapped in, the outermost first.                                     *)
(***************************************************************************)

Text(layers, macs, key) == [layers |-> layers, macs |-> macs, key |-> key]
Empty == Text(<<>>, {}, "")
Wrap(layer, text) == [text EXCEPT !.layers = <<layer>> \o @]
Unwrap(layer, text) ==
  IF text.layers # <<>> /\ Head(text.layers) = layer THEN [text EXCEPT !.layers = Tail(@)] ELSE Empty

\* License is external: what one key of a pair has closed the other opens.
Decrypt(text, pair) == Unwrap(pair, text)

\* enbase64 of machineCode: without an address the file stays as it is.
MachineInfo(macs, pair, old) ==
  IF macs = {} THEN old ELSE Wrap(pair, Wrap("base64", Wrap("json", Text(<<>>, macs, ""))))

\* What generateDefaultConfig of rsa writes, and what is used in the run that
\* calls it.  The configuration is a file that is not there, cannot be opened, is
\* no JSON object, has a parameter that is a container, or names some of them.
Written == [auth_file |-> "machineInfo", license_pem |-> "../license/rsa", monitor_pem |-> "../license/monitor"]
DefaultParams == [auth_file |-> "machineInfo", license_pem |-> "rsa", monitor_pem |-> "monitor"]
NoConfig == [kind |-> "none", named |-> {}]
WrittenConfig == [kind |-> "json", named |-> DOMAIN Written]
Config(kind) == [NoConfig EXCEPT !.kind = kind]

\* The file cannot be made, or is written in part or as a whole.
GenerateDefaultConfig == {NoConfig, Config("bad"), WrittenConfig}

\* A parameter the file leaves out is empty.
Params(config) ==
  IF config.kind = "none" THEN DefaultParams
  ELSE [n \in DOMAIN Written |-> IF n \in config.named THEN Written[n] ELSE ""]

\* A file that is not there is read as empty.
Content(files, path) == IF path \in DOMAIN files THEN files[path] ELSE Empty

Ends(code, licence, config) == [code |-> code, licence |-> licence, config |-> config]

\* The old licence is removed and the new one written, and none of that is
\* looked at: the old one, none, a part of the new one or all of it is there.
CutOff(text) == Wrap("cut", text)
NoLicence == Empty
Replaced(old, new) == {old, NoLicence, CutOff(new), new}

\* From the machine's information to its licence.
Licence(p, files, licence, encrypts, config) ==
  LET text == Unwrap("base64", Decrypt(Content(files, p.auth_file), Content(files, p.license_pem).key))
      new == Wrap(Content(files, p.license_pem).key,
                  Wrap("json", Text(<<>>, text.macs, Content(files, p.monitor_pem).key))) IN
  IF Unwrap("json", text) = Empty THEN {Ends("0", licence, config)}
  ELSE IF ~encrypts THEN {Ends("-1", licence, config)}
  ELSE {Ends("0", l, config) : l \in Replaced(licence, new)}

\* main of rsa, by what may come of it.
MakeLicence(arguments, config, files, licence, encrypts) ==
  IF arguments > 1 \/ config.kind = "closed" THEN {Ends("-1", licence, config)}
  ELSE IF config.kind \in {"bad", "ill-typed"} THEN {Ends("throws", licence, config)}
  ELSE UNION {Licence(Params(config), files, licence, encrypts, left) :
                left \in IF config.kind = "none" THEN GenerateDefaultConfig ELSE {config}}
================================================================================
