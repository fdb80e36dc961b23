--------------------------------- MODULE Boot ---------------------------------
(***************************************************************************)
(* The life of the verifier process up to its poll loop: ConfigParams      *)
(* loads the configuration, initEasylogging hands the switches to the      *)
(* logger, ZmqServer makes the pools (Startup), and cron's monitor.sh      *)
(* starts it again when it is gone.                                        *)
(***************************************************************************)
EXTENDS Startup, Integers

CONSTANTS
  Files, Cores,
  PoolOf     \* PoolOf[k]: the parameter that sizes the pool of interface k

\* Every interface has a size among the parameters, and a field that is read as
\* a number has one, which counts only where the field is a number.
ASSUME PoolsAssumption ==
  /\ Interfaces \in Seq(DOMAIN PoolOf)
  /\ \A k \in DOMAIN PoolOf : PoolOf[k] \in {"ship", "sar", "yolo"}
ASSUME FilesAssumption ==
  /\ \A f \in Files :
       /\ f.is \in {"none", "closed", "broken", "object"}
       /\ f.is = "object" => \A s \in {"ship", "sar", "yolo", "auth"} : f[s].n \in Int
  /\ Cores \subseteq Nat

VARIABLES
  file, cores, params, section, wrote,  \* of ConfigParams
  configured, typed, unopened,          \* of LogConfig
  crontab,  \* the programs whose monitor.sh cron runs
  running   \* the programs that run

config == <<file, cores, params, section, wrote>>
logging == <<configured, typed, unopened>>
watchdog == <<crontab, running>>
bootVars == <<vars, config, logging, watchdog>>

LogKeys == {"trace", "debug", "fatal", "error", "warning", "verbose", "info"}

\* The license monitor is installed in the same way; its process is called
\* verifierMonitor.
Programs == {"verifier", "verifierMonitor"}
Additive == {"verifierMonitor"}  \* its installer keeps the rest of the table
\* NamedLike[p]: the programs whose name contains that of p.
NamedLike == [p \in Programs |-> IF p = "verifier" THEN Programs ELSE {p}]

C == INSTANCE ConfigParams
G == INSTANCE LogConfig WITH switches <- params.switches

-----------------------------------------------------------------------------
(* cron and the monitor.sh of each installed program.  The script counts the *)
(* processes whose name contains that of its program, and starts the program *)
(* if there is none.                                                         *)

\* Mutant: as the script's comment has it, any number but one is an error.
CheckOne(p) == \E q \in NamedLike[p] : NamedLike[p] \cap running = {q}

CheckProcess(p) == NamedLike[p] \cap running # {}

\* setup_monitor hands crontab a file, which replaces the table: that of the
\* verifier has one line, that of the license monitor keeps the other lines.
SetupMonitor(p) ==
  /\ crontab' = (IF p \in Additive THEN crontab ELSE {}) \cup {p}
  /\ UNCHANGED running

Monitor(p) ==
  /\ p \in crontab /\ ~CheckProcess(p)
  /\ running' = running \cup {p}
  /\ UNCHANGED crontab

Die(p) ==
  /\ p \in running
  /\ running' = running \ {p}
  /\ UNCHANGED crontab

-----------------------------------------------------------------------------
(* The process. *)

BeforeMain == [t \in Threads |-> IF t = Main THEN "config" ELSE "none"]

\* The verifier is running, before its first statement.
BootInit ==
  /\ pool = 1 /\ factory = 0 /\ mtx = {} /\ registered = {} /\ zmq = "none" /\ failures = 0
  /\ size = [k \in Pools |-> 0] /\ pc = BeforeMain
  /\ G!Init /\ C!Init
  /\ crontab = {"verifier"} /\ running = {"verifier"}

Configure ==
  /\ pc[Main] = "config"
  /\ C!Next
  /\ UNCHANGED <<vars, logging, watchdog>>

InitEasylogging ==
  /\ pc[Main] = "config" /\ section = "done"
  /\ UNCHANGED <<vars, config, watchdog>>
  /\ G!InitEasylogging

\* main makes the ZmqServer.
MakeServer ==
  /\ pc[Main] = "config" /\ section = "done" /\ configured
  /\ size' = [k \in Pools |-> params[PoolOf[Interfaces[k]]]]
  /\ pc' = [pc EXCEPT ![Main] = "pool"]
  /\ UNCHANGED <<pool, factory, mtx, registered, zmq, failures, config, logging, watchdog>>

Serve ==
  /\ Next
  /\ UNCHANGED <<config, logging, watchdog>>

Dead == section = "dead" \/ pc[Main] = "dead"

Exit ==
  /\ Dead
  /\ Die("verifier")
  /\ UNCHANGED <<vars, config, logging>>

\* The program is started on the file that is there now.
Restart ==
  /\ Monitor("verifier")
  /\ pool' = 1 /\ factory' = 0 /\ mtx' = {} /\ registered' = {} /\ zmq' = "none" /\ failures' = 0
  /\ size' = [k \in Pools |-> 0] /\ pc' = BeforeMain
  /\ configured' = FALSE /\ typed' = G!Build(G!Default, {}) /\ unopened' = {}
  /\ params' = C!Defaults /\ section' = "exists"
  /\ UNCHANGED <<file, cores, wrote>>

LicenseMonitor ==
  /\ \/ \E p \in Programs : SetupMonitor(p)
     \/ Monitor("verifierMonitor") \/ Die("verifierMonitor")
  /\ UNCHANGED <<vars, config, logging>>

BootNext ==
  \/ Configure \/ InitEasylogging \/ MakeServer \/ Serve \/ Exit \/ Restart \/ LicenseMonitor

BootSpec == BootInit /\ [][BootNext]_bootVars

\* The threads of the process keep running, a process that ends is gone, and
\* cron runs what is in its table.
FairBoot ==
  /\ BootSpec
  /\ WF_bootVars(Configure) /\ WF_bootVars(MakeServer)
  /\ WF_bootVars(MainStep /\ UNCHANGED <<config, logging, watchdog>>)
  /\ WF_bootVars(ZmqStep /\ UNCHANGED <<config, logging, watchdog>>)
  /\ \A t \in Threads : WF_bootVars(ThreadStep(t) /\ UNCHANGED <<config, logging, watchdog>>)
  /\ section = "done" ~> section # "done" \/ configured  \* initEasylogging returns
  /\ WF_bootVars(Exit) /\ WF_bootVars(Restart)

-----------------------------------------------------------------------------
(* Properties. *)

\* The singleton is set once and by one thread although instance takes no
\* lock, and models are loaded one at a time.
StartsSafely == FactorySetAlone /\ OneLoadAtATime

\* The pool sizes a file asks for, where it asks for all and within reason.
Asks == file.is = "object" /\ file.caffe # "missing" /\ C!IsUInt(file.ship)

\* From the file to the poll loop: no request is read before every interface
\* the file gives threads to, on as many processors, is registered with all of
\* its workers, and no other interface is.  A file without threadsShip gives
\* every interface one worker whatever it says of the others.
ServesWhatTheFileSays ==
  zmq # "none" /\ file.is # "none" /\ wrote = "no" =>
    /\ \A k \in Pools :
         LET asked == C!AsInt(file[PoolOf[Interfaces[k]]])
             n == IF ~Asks THEN 1 ELSE IF asked > cores THEN cores ELSE asked IN
         (k \in registered <=> n > 0) /\ (failures = 0 /\ n > 0 => Cardinality(Started(k)) = n)

\* From the file to the logger: when the first thread is started, a level is on
\* or off as the file says, or by default if the file does not say it with a
\* boolean, and it rolls at the size and goes to the file that initEasylogging
\* means it to, although most levels have no entry of their own.  A file that
\* cannot be opened silences its level, the first one all of them.
LogsAsConfigured ==
  configured =>
    /\ file.is = "object" => \A l \in LogKeys :
         G!GetConfig("Enabled", l) <=>
           (IF file.log[l] \in {"true", "false"} THEN file.log[l] = "true" ELSE l = "info")
    /\ G!LevelsAreAsConfigured /\ G!OwnFiles /\ G!OthersShareAFile

\* A process that finds the file one before it wrote, with defaults, runs with
\* the same parameters, except that the path is put before the license file
\* once more, and provided that the number of processors is known: where it is
\* not, the first process serves with one worker each and the next with none.
\* A file of which only a part was written, which nobody looks at, ends every
\* process that finds it before a section is loaded: none runs with a part of it.
ReloadsWhatItWrote ==
  /\ wrote # "no" /\ section = "done" /\ cores > 0 =>
       [params EXCEPT !.license = 0] = [C!Defaults EXCEPT !.license = 0]
  /\ wrote = "partly" => section \in {"exists", "done", "dead"}

\* A process that is started serves or is gone, and its workers come up; and
\* one that is gone is started again, whatever is installed besides, unless the
\* license monitor, whose name contains its own, runs.
ComesUpOrBack ==
  /\ "verifier" \in running ~> zmq = "serving" \/ "verifier" \notin running
  /\ \A w \in Workers : pc[w] = "instance" ~> pc[w] = "serving" \/ Dead
  /\ <>[]("verifierMonitor" \notin running) => []<>("verifier" \in running)
==============================================================================
