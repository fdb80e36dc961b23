--------------------------------- MODULE Router ---------------------------------
(***************************************************************************)
(* zmqServer/ZmqRouter.cpp: how the Router starts, from its arguments and  *)
(* its configuration file to the two sockets of its proxy.                 *)
(***************************************************************************)
EXTENDS Naturals, FiniteSets

\* The ports stand for the addresses.
DefaultAddresses == [front_addr |-> "5563", back_addr |-> "5564"]
Container == "[]"   \* a value that cannot be made a string

NoFile == [kind |-> "none", params |-> [x \in {} |-> ""]]
Unreadable == [NoFile EXCEPT !.kind = "unreadable"]
NoObject == [NoFile EXCEPT !.kind = "no object"]
\* A file without routerParams, or with some that are no object, has none.
FileWith(params) == [kind |-> "object", params |-> params]

\* generateDefaultConfig: the file cannot be made, or is written in part, which
\* is not looked at, or as a whole.
GenerateDefaultConfig == {NoFile, NoObject, FileWith(DefaultAddresses)}

\* An address the file leaves out stays empty.
Addresses(params) ==
  [name \in DOMAIN DefaultAddresses |-> IF name \in DOMAIN params THEN params[name] ELSE ""]

\* It is logged as well, and as in ConfigParams logging is not configured then
\* (nor ever is in this program): nothing happens or the process ends.
Reported(params) == DOMAIN params # DOMAIN DefaultAddresses

\* create_router: a socket that cannot be bound is only printed; free are
\* the addresses that can.
CreateRouter(addresses, free) ==
  LET front == {addresses.front_addr} \cap free IN
  [front |-> front, back |-> {addresses.back_addr} \cap (free \ front)]

Runs(sockets, file) == [how |-> "proxies", sockets |-> sockets, file |-> file]
Ends(how, file) == [how |-> how, sockets |-> CreateRouter(Addresses(NoFile.params), {}), file |-> file]

\* main, by what may come of it.
Start(arguments, file, free) ==
  CASE arguments > 1 \/ file.kind = "unreadable" -> {Ends("-1", file)}
    [] arguments < 2 /\ file.kind = "none" ->
         {Runs(CreateRouter(DefaultAddresses, free), left) : left \in GenerateDefaultConfig}
    [] arguments < 2 /\ file.kind = "no object" -> {Ends("dies", file)}
    [] arguments < 2 /\ file.kind = "object" ->
         LET runs == {Runs(CreateRouter(Addresses(file.params), free), file)}
             dies == {Ends("dies", file)} IN
         IF \E name \in DOMAIN file.params : file.params[name] = Container THEN dies
         ELSE IF Reported(file.params) THEN runs \cup dies ELSE runs
==============================================================================
