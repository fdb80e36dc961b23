------------------------------- MODULE LogConfig -------------------------------
(***************************************************************************)
(* How the switches of logConfigParams become the settings a log line is   *)
(* dispatched by.  initEasylogging sets a list of configurations one by    *)
(* one; reconfigureAllLoggers merges it into the list the logger has and   *)
(* builds typed maps from that, with the level Global as the fallback of   *)
(* every level that has no entry of its own.                               *)
(***************************************************************************)
EXTENDS Naturals, Sequences, SequencesExt

\* The valid levels in the order of forEachLevel.
ValidLevels == <<"trace", "debug", "fatal", "error", "warning", "verbose", "info">>
Levels == Range(ValidLevels)
Global == "global"

\* The configuration types whose effect is modelled.
Types == {"Enabled", "ToFile", "ToStandardOutput", "MaxLogFileSize", "LogFlushThreshold", "Filename"}

NoFile == "no file"

VARIABLES
  switches,   \* logConfigParams: switches[l] is <l>Enabled; read only
  configured, \* whether initEasylogging has run
  typed,      \* the TypedConfigurations of the logger "default", by type
  unopened    \* the log files that could not be opened

logVars == <<configured, typed, unopened>>

-----------------------------------------------------------------------------
(* Configurations.  An entry is looked up by its level and its type, so the *)
(* list is kept as one list for each type, in the order of registration.    *)

Entry(l, v) == [level |-> l, value |-> v]

NoConfigurations == [t \in Types |-> <<>>]

\* An entry that is there gets the value, another one is registered.
UnsafeSet(list, l, v) ==
  IF \E e \in Range(list) : e.level = l
  THEN [i \in DOMAIN list |-> IF list[i].level = l THEN Entry(l, v) ELSE list[i]]
  ELSE Append(list, Entry(l, v))

UnsafeSetGlobally(list, v) ==
  LET set[i \in 0 .. Len(ValidLevels)] ==
        IF i = 0 THEN list ELSE UnsafeSet(set[i - 1], ValidLevels[i], v)
  IN set[Len(ValidLevels)]

\* Setting Global sets every level as well.
Set(list, e) ==
  IF e.level = Global THEN UnsafeSetGlobally(UnsafeSet(list, Global, e.value), e.value)
  ELSE UnsafeSet(list, e.level, e.value)

\* The entries of base are set one after the other.
SetAll(list, base) ==
  LET set[i \in 0 .. Len(base)] == IF i = 0 THEN list ELSE Set(set[i - 1], base[i])
  IN set[Len(base)]

SetFromBase(confs, base) == [t \in Types |-> SetAll(confs[t], base[t])]

\* ELPP_NO_DEFAULT_LOG_FILE: everything goes to files, and no file is named.
Default ==
  SetFromBase(NoConfigurations,
    [Enabled |-> <<Entry(Global, "true")>>, ToFile |-> <<Entry(Global, "true")>>,
     ToStandardOutput |-> <<Entry(Global, "true")>>, MaxLogFileSize |-> <<Entry(Global, "0")>>,
     LogFlushThreshold |-> <<Entry(Global, "0")>>, Filename |-> <<>>])

-----------------------------------------------------------------------------
(* TypedConfigurations. *)

\* Mutant: what to_string makes of a bool is not known.
BoolWord(v) == v \in {"true", "TRUE"}

Bool(v) == v \in {"1", "true", "TRUE"}

Typed(t, v) == IF t \in {"Enabled", "ToFile", "ToStandardOutput"} THEN Bool(v) ELSE v

\* The value a list has for a level.
ValueOf(t, list, l) == Typed(t, (CHOOSE e \in Range(list) : e.level = l).value)

\* The first value is Global's whatever its level.
WithGlobal(t, map, list) ==
  [l \in DOMAIN map \cup {Global} |-> IF l \in DOMAIN map THEN map[l] ELSE Typed(t, list[1].value)]

\* setValue for each entry: one whose value is Global's is left out.
SetValueOfAll(t, list) ==
  LET own == {e \in Range(Tail(list)) : Typed(t, e.value) # Typed(t, list[1].value)} IN
  WithGlobal(t, [l \in {e.level : e \in own} |-> ValueOf(t, list, l)], list)

\* insertFile for each entry: all but the first are their levels'.
InsertFiles(t, list) ==
  WithGlobal(t, [l \in {e.level : e \in Range(Tail(list))} |-> ValueOf(t, list, l)], list)

\* A file that cannot be opened sets ToFile to FALSE for its level, and the
\* first file, which is created for Global whatever its level, for Global.
ForceToFile(map, list, bad) ==
  LET failed == {i \in DOMAIN list : list[i].value \in bad}
      forced == IF map[Global] THEN {list[i].level : i \in failed} ELSE {} IN
  IF 1 \in failed THEN [map EXCEPT ![Global] = FALSE]
  ELSE [l \in DOMAIN map \cup forced |-> l \notin forced /\ map[l]]

MapOf(t, list) ==
  IF list = <<>> THEN [l \in {} |-> NoFile]
  ELSE IF t = "Filename" THEN InsertFiles(t, list) ELSE SetValueOfAll(t, list)

\* The files are opened last, all but those in bad with success.
Build(confs, bad) ==
  [t \in Types |->
     IF t = "ToFile" THEN ForceToFile(MapOf(t, confs[t]), confs["Filename"], bad) ELSE MapOf(t, confs[t])]

\* Without an entry for the level or for Global the code reads past the map.
GetConfig(t, l) ==
  IF l \in DOMAIN typed[t] THEN typed[t][l]
  ELSE IF Global \in DOMAIN typed[t] THEN typed[t][Global] ELSE NoFile

-----------------------------------------------------------------------------
(* ConfigParams::initEasylogging. *)

OnOff(b) == IF b THEN "1" ELSE "0"

\* A level gets a file of its own if it is switched on.
OwnFile(l, name) == IF switches[l] THEN <<Entry(l, name)>> ELSE <<>>

\* Its statements by the type they set, those for Format, MillisecondsWidth and
\* PerformanceTracking left out.
Statements ==
  [Enabled |-> <<Entry(Global, "1")>>
                 \o [i \in 1 .. Len(ValidLevels) |-> Entry(ValidLevels[i], OnOff(switches[ValidLevels[i]]))],
   ToFile |-> <<Entry(Global, "1")>>, ToStandardOutput |-> <<Entry(Global, "0")>>,
   MaxLogFileSize |-> <<Entry(Global, "209715200")>>, LogFlushThreshold |-> <<Entry(Global, "100")>>,
   Filename |-> OwnFile("debug", "debug_log") \o OwnFile("error", "error_log") \o OwnFile("info", "info_log")]

FileNames == {e.value : e \in Range(Statements["Filename"])}

Init == configured = FALSE /\ typed = Build(Default, {}) /\ unopened = {}

\* Logger::configure merges the list into the one the logger has.
Reconfigure(confs, bad) == typed' = Build(SetFromBase(Default, confs), bad)

InitEasylogging ==
  /\ ~configured /\ configured' = TRUE
  /\ unopened' \in SUBSET FileNames
  /\ Reconfigure(SetFromBase(NoConfigurations, Statements), unopened')

-----------------------------------------------------------------------------
(* Properties. *)

\* After the configuration every level is on or off as logConfigParams says,
\* and every level rolls at 200 MB, flushes by the hundred and goes to a file
\* alone, although most of them have no entry of their own.  A level goes
\* nowhere if its file could not be opened, and every level goes nowhere if the
\* first file could not, even those whose own file is open.
LevelsAreAsConfigured ==
  configured => \A l \in Levels :
    /\ GetConfig("Enabled", l) = switches[l]
    /\ GetConfig("ToFile", l) <=> {GetConfig("Filename", l), GetConfig("Filename", Global)} \cap unopened = {}
    /\ ~GetConfig("ToStandardOutput", l)
    /\ GetConfig("MaxLogFileSize", l) = "209715200" /\ GetConfig("LogFlushThreshold", l) = "100"

\* Every level the program logs at that is on writes to the file named for it.
OwnFiles ==
  configured =>
    /\ switches["debug"] => GetConfig("Filename", "debug") = "debug_log"
    /\ switches["error"] => GetConfig("Filename", "error") = "error_log"
    /\ switches["info"] => GetConfig("Filename", "info") = "info_log"

\* The other levels write to the first file there is.  Where there is none,
\* nothing the program logs at is on, so the missing entry is not read.
OthersShareAFile ==
  configured => \A l \in {"trace", "fatal", "warning", "verbose"} :
    IF \E k \in {"debug", "error", "info"} : switches[k]
    THEN \E k \in {"debug", "error", "info"} :
           switches[k] /\ GetConfig("Filename", l) = GetConfig("Filename", k)
    ELSE GetConfig("Filename", l) = NoFile
=============================================================================
