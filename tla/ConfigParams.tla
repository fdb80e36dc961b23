----------------------------- MODULE ConfigParams -----------------------------
(***************************************************************************)
(* The constructor of ConfigParams: without a configuration file it writes *)
(* one with the defaults, otherwise it loads the sections of the file one  *)
(* after the other.  A section or field that is missing or of another type *)
(* keeps its default and is logged, before logging is configured.          *)
(***************************************************************************)
EXTENDS Integers

CONSTANTS
  Files,    \* the files the process may find
  Cores,    \* what hardware_concurrency may return, 0 if it does not know
  LogKeys   \* the levels with a switch

MaxInt == 1000  \* stands for INT_MAX

\* A file: what it is and, for an object, its sections.  A plain section is
\* "complete", "incomplete", "ill-typed" (a field asString or asInt throws on)
\* or "missing"; of caffe, "ill-typed batch" is one whose batchSize is the ill-typed
\* field.  A field is [is |-> type, n |-> number], and so is auth.  The switches of
\* a missing section are all "missing".  license counts how often the path has
\* been put before the name of the license file.
Defaults == [ship |-> 1, sar |-> 1, yolo |-> 1,
             switches |-> [k \in LogKeys |-> k = "info"], license |-> 0]

VARIABLES
  file,     \* the configuration file
  cores,    \* cpuCores
  params,   \* the parameters the rest of the program reads
  section,  \* the section to be loaded next, "done" or "dead"
  wrote     \* how much of the file is the program's writing: "no", "partly" or "all"

configVars == <<file, cores, params, section, wrote>>

Number(n) == [is |-> "int", n |-> n]
Word(w) == [is |-> w, n |-> 0]

Init ==
  /\ file \in Files /\ cores \in Cores /\ wrote = "no"
  /\ params = Defaults /\ section = "exists"

-----------------------------------------------------------------------------
(* What jsoncpp makes of a field. *)

IsUInt(f) == f.is = "int" /\ f.n >= 0

\* asInt takes null, a missing field included, and booleans.
AsIntThrows(f) == f.is \in {"string", "object"} \/ (f.is = "int" /\ f.n > MaxInt)
AsInt(f) == IF f.is = "true" THEN 1 ELSE f.n

\* Mutant: not clamped.
Unclamped(n) == n

Clamped(n) == IF n > cores THEN cores ELSE n

-----------------------------------------------------------------------------
\* Mutant: the size of the sar pool is left out.
GeneratedWithoutSar ==
  [is |-> "object", http |-> "complete", bucket |-> "complete", zmq |-> "complete",
   auth |-> Number(params.license), caffe |-> "complete",
   ship |-> Number(params.ship), sar |-> Word("absent"), yolo |-> Number(params.yolo),
   log |-> [k \in LogKeys |-> IF params.switches[k] THEN "true" ELSE "false"]]

\* The file as this process would write it.
Generated ==
  [is |-> "object", http |-> "complete", bucket |-> "complete", zmq |-> "complete",
   auth |-> Number(params.license), caffe |-> "complete",
   ship |-> Number(params.ship), sar |-> Number(params.sar), yolo |-> Number(params.yolo),
   log |-> [k \in LogKeys |-> IF params.switches[k] THEN "true" ELSE "false"]]

\* What is there of it when the disk is full or the process ends before it is
\* closed: an object that is not closed.
Truncated == [is |-> "broken"]

\* A file that cannot be created is told; whether all of it is written is not
\* looked at.
GenerateDefaultConfig ==
  /\ section = "exists" /\ file.is = "none"
  /\ \/ UNCHANGED <<file, wrote>> /\ section' = "done"
     \/ file' = Generated /\ wrote' = "all" /\ section' = "done"
     \/ file' = Truncated /\ wrote' = "partly" /\ section' \in {"done", "dead"}
  /\ UNCHANGED <<cores, params>>

\* A file that cannot be opened leaves the defaults; one that is no JSON
\* object throws, and main returns.
OpenConfig ==
  /\ section = "exists" /\ file.is # "none"
  /\ section' = CASE file.is = "closed" -> "done" [] file.is = "broken" -> "dead"
                  [] OTHER -> "http"
  /\ UNCHANGED <<file, cores, params, wrote>>

\* LOG(ERROR) before the logger has a file reads a file stream past the end of
\* a map: nothing happens or the process ends.
Reported(next) == section' \in {next, "dead"}

LoadPlain(s, next) ==
  /\ section = s
  /\ CASE file[s] = "complete" -> section' = next
       [] file[s] = "ill-typed" -> section' = "dead"
       [] OTHER -> Reported(next)
  /\ UNCHANGED <<file, cores, params, wrote>>

LoadHttp == LoadPlain("http", "bucket")
LoadBucket == LoadPlain("bucket", "caffe")
LoadZmq == LoadPlain("zmq", "auth")

\* The sizes of all three pools are read if that of the first is there; the
\* types of the other two are not looked at.
LoadPools ==
  IF file.caffe = "ill-typed batch" \/ \E f \in {file.ship, file.sar, file.yolo} : AsIntThrows(f)
  THEN section' = "dead" /\ UNCHANGED params
  ELSE /\ params' = [params EXCEPT !.ship = Clamped(AsInt(file.ship)),
                                   !.sar = Clamped(AsInt(file.sar)),
                                   !.yolo = Clamped(AsInt(file.yolo))]
       /\ section' = "log"

LoadCaffe ==
  /\ section = "caffe"
  /\ \/ file.caffe = "missing" /\ Reported("log") /\ UNCHANGED params
     \/ file.caffe \in {"ill-typed", "incomplete"} /\ section' = "dead" /\ UNCHANGED params
     \/ /\ file.caffe \in {"complete", "incomplete", "ill-typed batch"}
        /\ IF IsUInt(file.ship) THEN LoadPools ELSE Reported("log") /\ UNCHANGED params
  /\ UNCHANGED <<file, cores, wrote>>

\* A switch that is not a boolean keeps its default without a word, and a
\* section that is not there with one.
LoadLog ==
  /\ section = "log"
  /\ params' = [params EXCEPT !.switches =
                  [k \in LogKeys |-> IF file.log[k] \in {"true", "false"} THEN file.log[k] = "true" ELSE @[k]]]
  /\ IF \E k \in LogKeys : file.log[k] = "missing" THEN Reported("zmq") ELSE section' = "zmq"
  /\ UNCHANGED <<file, cores, wrote>>

\* The path, of the file or the default one, is put before the name of the
\* license file, if that is in the file.
WithPath == [params EXCEPT !.license = file.auth.n + 1]

LoadAuth ==
  /\ section = "auth"
  /\ CASE file.auth.is = "missing" -> Reported("done") /\ UNCHANGED params
       [] file.auth.is = "ill-typed" -> section' = "dead" /\ UNCHANGED params
       [] file.auth.is = "incomplete" -> Reported("done") /\ params' \in {params, WithPath}
       [] OTHER -> section' = "done" /\ params' = WithPath
  /\ UNCHANGED <<file, cores, wrote>>

Next ==
  \/ GenerateDefaultConfig \/ OpenConfig
  \/ LoadHttp \/ LoadBucket \/ LoadCaffe \/ LoadLog \/ LoadZmq \/ LoadAuth
==============================================================================
