# TLA+ models of the ship detection service

The repository is an image detection service.  A client sends a JSON request with an image over
ZeroMQ; a *Router* process spreads requests over *verifier* processes; a verifier checks and
decodes the request, runs one of three detectors (ship, SAR, YOLO) in a pool of worker threads and
sends the result back.  Around it are a feature extraction program, the tools that make licences
and lock models, and the libraries the repository carries in its own tree (jsoncpp, easylogging++,
cmdline.h).

    client --> Router (ROUTER 5563 / DEALER 5564, zmq_proxy)
                 |  ^
           front v  | back
              ZmqWorker  (poll loop, one thread)
          dispatchDq |  ^ inproc
                     v  |
           DQueue[i] --> Worker threads --> ZmqSender (one thread)
                          | handler: validate, decode, detect, reply

This directory has two kinds of modules.  The first model the program's *control*: threads, queues,
sockets, shared frames, logging, start-up, crashes and restarts; each has actions that interleave.
The second model the parts that only *compute an answer* (JSON, the arithmetic around the networks,
log formats, command lines, base64) as operators, compared with a definition of what is meant over
all inputs of small sets.

## 1. Inventory

| Component | State | Operations | Interacts by |
|---|---|---|---|
| ZmqWorker (`ZmqServer.cpp`) | two DEALER sockets, poll result | receive, dispatch, error reply, forward response | sockets, `Dispatcher`, frame pointers |
| ZmqMessage (`ZmqMessage.h`) | frame pointer, sender pointer, `flags`, response | copy, move, `call` | shared `zframe_t*` |
| ZmqSender (`ZmqSender.cpp`) | deque, mutex, condition, `status` | push, get, run, shutdown, Join | inproc socket |
| DQueue and Worker (`Queue.cpp`) | deque, mutex, condition, `status`, threads | push, get, shutdown, run | mutex, condition |
| BQueue (`Queue.cpp`), dev::BlockingQueue (`blockQueue.h`) | ring, head, tail, mutex, two conditions | push, get, getNow, shutdown, size | mutex, conditions |
| Dispatcher (`Dispatcher.cpp`) | one queue pointer per interface | register, dispatch, shutdown | calls |
| HandlerFactory, ZmqServer's constructor | singleton pointer, mutex, pools | instance, create, register | static state |
| HandlerBase, HandlerShip, -SAR, -Yolo | api key, static uuid generator | validate, decode, detect, reply | static state |
| ship_detect, sar_detect, yolo_detect | networks (external) | scale, regress, suppress, corners | - |
| ConfigParams and log rollout | parameters, index map of rolled files | load, write defaults, roll | files, the logger |
| Logging (easylogging++) | typed configuration, streams, files, locks | configure, log, roll, format | locks |
| JSON (jsoncpp) | values | read, write, change, compare, convert | - |
| Router process (`ZmqRouter.cpp`) | two sockets | configure, bind, proxy | sockets, its file |
| main, `monitor.sh`, installers | process, crontab | start, shutdown, restart | cron |
| Feature pipeline (`test/cpp/rest`) | two BlockingQueues, `done`, `offset`, files | GetFeature, shutdown, setOffset | queues |
| Tools (`tools/lockertool`, `machineCode`, `rsa`) | dongle session, key and licence files | read, write, encrypt, sign | files |
| Evaluation kernels (`eval/DOTA_devkit`) | - | overlap of polygons, suppression | - |

What is hard here, and what makes each part correct:

* **Frame custody.**  A request's address frame is allocated by the ZmqWorker, carried as a bare
  pointer by every copy of a ZmqMessage through a queue, a worker and the sender, and freed by
  the sender, or by the ZmqWorker on an error path.  Correct: freed once, after its last use.
* **Replies.**  Each request gets at most one reply, the right one, at its own client, although
  error replies and responses share one multipart socket, several workers answer one queue and
  the process may crash and be restarted at any moment; without faults it gets one.
* **Queues.**  First in first out, nothing lost or repeated; no lost wake-up although
  `notify_one` follows the unlock; time-outs and spurious wake-ups are harmless; shutdown returns.
* **Shutdown paths** of Dispatcher, DQueue, ZmqSender and the feature pipeline: inverted null
  tests, joins under a mutex, a queue that only looks empty.
* **Requests.**  Eight tests spread over the poll loop, the dispatcher and the handlers; a reply
  must name a defect the request has.  Request ids come from one generator without a lock.
* **Coming up.**  From a configuration file with any field missing or of another type to pools of
  the right size, loggers of the right level, and a watchdog that starts the process again.
* **Logging.**  A statement takes a lock in one function and gives it back in another; files roll
  over below it and are renamed by an index that is incremented twice.
* **Values.**  Arrays that are maps with holes, an assignment that exchanges its two sides, flat
  arrays of floats whose strides are per class, formats that are cut while offsets into them are
  kept: long chains of legal steps where a slip gives plausible output.

`PROJECT.json` lists every component with its status and every hazard at its line.

## 2. Modules

| Module | What it is |
|---|---|
| `RequestReply` | abstract: what a client may observe of the service |
| `Dealer`, `MCDealer` | the verifier with its threads, sockets, frames, crash and restart; instances |
| `TaskQueue` | abstract: first-in first-out task queue that can be closed |
| `DQueue`, `ZmqSender` | two classes that implement it, at the level of mutex and condition variable |
| `BoundedFifo`, `BQueue` | abstract bounded queue; BQueue / BlockingQueue, ring indexes included |
| `FeaturePipeline` | reader, caffe threads and writer over two bounded queues, polling shutdown |
| `Handlers`, `MCHandlers` | a request body from the poll loop to its reply, code and request id |
| `Startup` | ZmqServer's constructor: pools, worker threads, singleton, sockets |
| `ConfigParams` | from the configuration file to the parameters, and the default file |
| `LogConfig` | from the log switches to the typed settings a log line is dispatched by |
| `Boot`, `MCBoot` | composition of the three with crontab, installers and the two monitor.sh: the life of the process up to its poll loop |
| `Logging` | LOG statements of several threads, locks, flushes, rollover and rename |
| `LogText`, `LogFormat`, `LogCalls` | paths, wildcards, modules; formats, dates, lines; what is asked |
| `JsonReader` | Reader, and OurReader with its features and builder, by tokens |
| `JsonLexer` | numbers and strings by characters, for both readers |
| `JsonWriter`, `JsonStreamWriter` | FastWriter, StyledWriter; the two stream writers and their builder |
| `JsonContainer`, `JsonValue` | abstract sequence or function; a Json::Value under any calls |
| `JsonConversions`, `JsonPath`, `JsonCalls` | is/as/order of values; Path; what is asked |
| `Detectors`, `Polygons`, `VisionCalls` | around the networks, and replies; overlaps and suppression; what is asked |
| `CommandLine`, `Tools`, `Base64`, `Router`, `ToolCalls` | the tools, the codecs, the start of the Router; what is asked |
| `MCCalls` | each of these asked one thing, chosen in Init |
| `DealerProofs`, `DQueueProofs`, `BQueueProofs`, `ZmqSenderProofs`, `HandlersProofs`, `FeaturePipelineProofs`, `BootProofs` | theorems about the module each is named after |
| `LibraryProofs` | theorems about the libraries compiled into the program: `Logging` and `JsonValue` |

A definition marked *Mutant* is the code with a plausible mistake; no specification uses it.  For
each property of each run, `PROJECT.json` names one that violates it, and maps every other
definition that stands for code to its lines.

**Dealer.**  `wpc` is the place of `ZmqWorker::run` in its loop: `Poll` is the `zmq_poll`,
`ForwardResponse` the first branch, `ReceiveRequest` the second, with one alternative per outcome
(empty body, syntax error or interface out of range, unregistered interface, dispatched).
`WorkerGet` and `WorkerCall` are the loop body of `Worker::run`; `SenderGet`, `SenderSend` and
`SenderDestroy` that of `ZmqSender::run`, cut where other threads can see it.  `addr[r]` is the
life of the frame popped for request r.  `flags` is the member of the sender's local message: no
constructor or assignment ever writes it, so it is any member of `FlagValues` chosen at start.
`Crash` is an uncaught exception or signal (a JSON body that is not an object already throws in
the loop), `PollError` the exit of the loop, `MainShutdown` the null dereference in `shutdownDq`,
`Restart` cron's `monitor.sh`.  `sent`, `front`, `back` and `mailbox` are clients and Router.

**DQueue.**  A step is what a thread does under the mutex.  `Take` is a `get` that returns true,
whether it found the message at once, after a wake-up or in the last test after the time ran out;
only the first of these has tested `status`.  `Wait`, `TimeOut`, `GetFails`, `GetRefused` are the
other ways through `get`.  `shutdown` is two steps with the mutex held.  The ZmqWorker pushes and
main, having joined it, calls shutdown, so both are one `caller`.  (`Dispatcher::shutdownDq` dies
before it reaches a real queue; this is what the class does when its `shutdown` is called.)

**ZmqSender.**  `run` is the place of the thread, from `zmq_connect`, which may fail and end it, on;
`Shutdown` takes the mutex and joins with it held; `Destroy` is the destructor, which deletes a
thread object that may still be joinable and then ends the process.

**BQueue.**  `Full` and `Empty` are the two predicates, `Push` and `Get` the moves of the ring,
`NotifyNotEmpty` and `NotifyNotFull` the `notify_one` after the unlock, a step of its own.
`getNow` differs from `get` only in waiting without a time-out.

**FeaturePipeline** uses what BQueue is shown to be, so its queues are sequences; only `size` is two
reads without the mutex.  The writer follows `Writer::run` for files and for redis; `offset` is
what it happened to read when it started.  For any other `writeType` the switch in `doWork` ends the
thread at once, and the constructors of pool and writer go on without a thread that cannot be
created: such threads are "absent".  `writeHead` is the ring's index, which the two reads of `size`
may straddle.

**Handlers.**  A body is a record of what the tests can tell: whether it is JSON, its interface, key
and image.  One action per test of the poll loop and the handlers, each with its early return and
code.  `Draw` is split where a second thread can enter the generator.  Nobody catches what is thrown
over a body: in the poll loop, where it is JSON but no object, has an array or object for its interface
or is nested too deep (`PollThrows`), in the key test for such an api_key, and in `cv::resize` for an
image whose short side is scaled to nothing (`DetectThrows`).  `thrown` holds the body that ended the
process.

**Boot.**  `ConfigParams` has one action per section of the file; a field is present, missing or of
another type, and the default file, whose writing nobody checks, may be written in full, in part or not
at all (`wrote`).  `Startup` follows main through the constructors while the workers of the first
pools already run `instance` and `create`; thread creation, `zmq_bind`, `zmq_connect` and the
loading of a model may fail.  `LogConfig` builds the configuration lists statement by statement as
`initEasylogging` does, a list for each type of setting, for any set of log files that cannot be opened
(`unopened`): `ForceToFile` then takes the level's output to a file away.  `Monitor` looks for a process
by a part of its name (`NamedLike`), as `check_process` does with grep.

**Logging.**  A LOG statement is the steps between lock, construct, dispatch per logger, write, flush,
rollover and unlock, so that two threads may be anywhere in it.  A line is a message and the pieces
of it that are written.

**JsonValue.**  One action per method of `Json::Value`, with any argument in any order; what it looks at
is copied by the caller into `other`, which a later assignment exchanges with the place assigned to.

**MCCalls.**  `call` and `input` are chosen in Init; the step `Answer` is the call, and the properties
say of this step what the answer must be; a `container` is asked one call after the other.  Where the code
does not look whether a call failed, or logs without a logger, the answer is the set of what may come of
it (`Router!Start`, `Tools!MakeLicence`).
Documents are sequences of tokens (`{`, `'a'`, `1`, a comment, ...) except in `JsonLexer`, where they
are characters and bytes; polygons have corners on a grid and areas that are exact fractions; angles
are quarters of a turn, or units of 15 degrees where only their sum and its wrap matter.  Constants
of the code that only bound a size are smaller: `StackLimit` (1000), `RightMargin` (74),
`MaxInputSide` (1700), `ClassNum` (5), `ThreadsPerBlock` (64), the integer widths.

## 3. Runs

| Run | Instance | Shows |
|---|---|---|
| `dealer_pool` | 4 requests, 2 clients, 2 workers on one interface and 1 on another, an empty body, flags 0 or 1 | frames are freed once and after their last use (`PointersLive`); reads never block (`ReadsNeverBlock`); refinement of `RequestReply`; with flags 0 `EveryRequestAnswered`, and at rest nothing is left unanswered (`RestingMeansAnswered`) |
| `dealer_faults` | up to 2 crashes or poll errors, restarts, a body that is not JSON, one nobody serves | `NoLostFrame`; frames of different replies never mix (`RepliesPaired`); `OneWorkerKeepsOrder`; `RecoversService` |
| `dealer_flags` | flags 0 or 1 | **violated**: `RouterModeReturn`, see findings |
| `dqueue` | 3 workers, 5 pushes, shutdown at any time | refinement of `TaskQueue`; `NoLostWakeup`; `MessagesAreTaken`; `ShutdownReturns` |
| `bqueue` | 2 producers, 2 consumers, 3 slots, 4 pushes, shutdown | refinement of `BoundedFifo`; `NoLostWakeup`; `BothSidesMove`: every message is taken, every push returns |
| `sender` | 2 workers, 3 pushes, failed connect, shutdown, destruction | refinement of `TaskQueue`; `ResponsesAreSent`; `ShutdownReturnsUnlessInsideGet` |
| `pipeline` | 2 caffe threads, 3 photos, queues of 1 per thread, files of 2, to files, to redis or with an unknown writeType, threads missing | `WrittenOnce`; `FewPhotosLost`; `ShutdownReturns`, which says when it does and when it never does |
| `handlers` | 2 workers of 2 interfaces, 2 requests of 25 bodies, with and without a licence | `CodeTellsTheTruth`; `SameIdOnlyAfterARace`; `AnsweredOrEnded` |
| `handlers_ids` | 2 workers of one interface | **violated**: `RequestIdsDiffer`, see findings |
| `logging` | 2 threads, 3 messages, files of one line, 1 restart | `WholeLines`; `OnlyTheFirstRollIsLost`; `LogReturns` |
| `boot` | about 50 files, a default file written in part, log files that cannot be opened, pools of up to 2, 1 failure, 0 or 2 processors, 2 programs under cron | `StartsSafely`; `ServesWhatTheFileSays`; `LogsAsConfigured`; `ReloadsWhatItWrote`; `ComesUpOrBack` |
| `calls` | all inputs of small sets, about 124,000 of them; values of up to 4 elements or 2 members | `JsonIsRead`; `JsonIsReadAgain`; `ValueIsContainer` (refinement); `ValuesAreWhatTheySay`; `DetectionsAreThoseOfTheNetwork`; `KeepsWhatItIsGiven` |

**What `calls` compares with what.**
`JsonIsRead`: a text of tokens with the grammar of JSON written as a denotation, Reader with
OurReader, the features of OurReader with each other (one that allows more never changes what was
read), number and string texts with their values.
`JsonIsReadAgain`: every writer, under every comment, with the reader: what is written is read as the
value that was written.
`ValueIsContainer`: a Value with holes and exchanging assignments with a sequence or a function.
`ValuesAreWhatTheySay`: is, as and isConvertibleTo with the numbers; the order with the laws of an
order; a Path with what is set along it.
`DetectionsAreThoseOfTheNetwork`: the detections and the reply with the rois, scores and moves of the
network's answer, each addressed by its own formula; overlaps with symmetry, translation and
additivity, and with the overlap of rectangles; suppression with its greedy definition.
`KeepsWhatItIsGiven`: log lines, dates, files and modules with their formats and patterns; command
lines argument by argument; the dongle's session under every subset of failing calls; licences, where
the old one, the new one, a part of it or none may be left and doing it again helps; base64; and the
addresses the Router binds, at its first start and the next, if it does not end over a missing one.

**Bounds.**  Each request of Dealer is sent once (its identity is what the properties follow); four
give two that compete for workers of one pool and two that take other paths meanwhile.
`MaxFaults` bounds crashes and poll errors: two allow a crash of a restarted process.
`MaxPushes` bounds the calls of push: five in `dqueue` give every worker a message and leave two
waiting; four in `bqueue` fill a ring of three slots (which holds two) twice, so it wraps.
Three workers are the least for a notify that hits one of two parked workers while a third
overtakes it.  In `pipeline` a queue factor of 1 makes both queues fill.  Three messages in `logging`
roll one file twice, which is what the naming of rolled files goes wrong at.  The files of `boot`
vary one group of fields at a time (pool sizes, log switches, sections), since the code reads the
groups one after the other and a missing one only keeps defaults.  Documents of up to four tokens
reach every error path of the readers; longer ones are those one edit away from samples with nested
objects and arrays, with one or two comments anywhere.  Rois, classes, boxes and corners are as many
as strides can be mistaken for one another with (two rois, three classes).  `MaxSize` 4 lets an
array have two holes with elements between and behind them.

**Deadlock.**  A Dealer, handlers, sender, pipeline or logging instance stops when what it was given
is done, bqueue when `getNow` waits for ever; these runs and `calls` switch the check off.  DQueue
never stops (workers time out or spin), nor does cron, so `dqueue` and `boot` check for deadlock.

**Fairness.**  Weak fairness only.  Each thread of the process keeps running and a handler returns;
`zmq_poll` and `wait_for` return; the Router forwards; cron restarts a process that is gone (its
two crontab lines run for ever).  `boot` also assumes that `initEasylogging` returns.  Clients need
not send, producers need not push, nothing is assumed of spurious wake-ups, crashes, installations
or the caller's decision to stop.  The mutexes are taken for short sections that never wait, so a
thread that wants one gets it; the one exception, ZmqSender's join under its mutex, is modelled as
the wait it is.

### Findings

* `dealer_flags`: the copy and move operations of ZmqMessage skip `flags`; the comment in
  `ZmqMessage.h:77` says 0 means router-mode return and every message is created with 0, but the
  sender tests uninitialised memory.  When that is not 0 the response leaves without its address.
* `handlers_ids`: `HandlerBase.cpp:75` draws request ids from one generator that no lock guards; two
  workers inside it may draw the same, while `API-zmq.md:109` calls the id unique.

### What the models had to follow

Places where the code does something a reader would not expect.  The models do the same, and the
properties state the exception.

*Service.*  An empty body gets no reply and leaks its frame.  Replies made by the poll loop have an
empty request_id, and code 005 for anything from bad JSON to an interface out of range.  The enum
numbers interfaces from 1 (`common.h:13`), the API document 5 and 6 (`API.md:46`); its codes
(`API.md:33`) are not those of `ZmqServer.cpp:124`.  `super_switch` is never set, so a build with
USE_LICENSE answers 10010 to everything, HandlerShip under the name `/sar`.  `time_used` of an error
reply is counted from its own making.  A reply without detections has no `result` member.  An api_key
or an interface that is a container, a body that is JSON but no object, a document nested deeper than
1000, and an image so narrow that the ship detector scales it to an empty one (`ship_detect.cpp:128`)
each end the process.  The Router proxies on when a bind has failed; a missing address it reports through
a logger that is never configured, which may end it.

*Start-up.*  A missing `threadsShip` makes the other pool sizes ignored.  With an unknown number of
processors the first start serves with pools of one and the next, reading the file the first wrote,
with none.  The licence path is prefixed at each load.  `ps -A | grep verifier` also finds
`verifierMonitor`, and installing the verifier drops the monitor's crontab line.  `LOG(ERROR)` in
`loadConfig` runs before logging is configured.  The default file is written without a look at the
stream (`configParams.cpp:254`); cut off, it ends every later start.

*Logging.*  A level whose file cannot be opened has its output to files switched off
(`easylogging++.cpp:1735`); where that file comes from Global, all of its levels have.  The logger `fileLogger` is never registered, so each statement costs a notice.  The second
roll of a file takes the name of the first; a rename that throws ends the process.  A format whose only
date is escaped reads before its start; milliseconds of width 1 or 2 do not sort; dates of 30
characters and base names of 100 are not terminated; `a=,b=2` names a module `ab`; of the folders of a
path only the last `mkdir` is reported; a comment mark before a closing quote counts as quoted.

*JSON.*  Behind a comment after a member any token passes for the comma; `{"":1,}` is accepted,
`[/*c*/]` is not; text behind the root is ignored; `-` reads as 0; `parse(string)` copies as many bytes
as the string's capacity; the second half of a surrogate pair is not checked.  `operator=` exchanges
its sides through a const_cast, against `json.h:769`.  `resize` and `removeIndex` count holes
differently, arrays with holes differ from arrays with nulls, and `get` takes a hole, but not a null,
for its default.  StyledWriter cuts names at a NUL and takes a document that ends in a blank for
indented, so that a line comment swallows the next member; the built writer does that to all line
comments when it has no indentation.  A single-quoted string ends at a double quote.  A reader built
without `stackLimit` reads nothing, a writer without `commentStyle` is not built.  The integers 2^63 and
2^64, as doubles, are let through by asInt64 and asUInt64 and then undefined.  Error positions
(`jsoncpp.cpp:1095`) are counted from the wrong end.

*Others.*  The writer reads `offset` when its thread starts, before or after `setOffset`; photos
without a face are dropped by the pool.  With an unknown `writeType`, or without the writer's thread, its
shutdown polls for ever once a feature has been queued.  rsa removes the old licence before it writes the new
one, unchecked, and says it succeeded (`rsa/main.cpp:130`).
`vis_detections` looks one past the last box.  rsa's first run writes other key paths into its
configuration than it uses.  `Decode` reads behind a text that is cut off.

## 4. Proofs

Checked by TLAPS for every value of the constants that the named assumptions allow.  The assumptions
are on constants only: sets of threads that are counted are finite, the values that stand for
"nothing" are not messages, sizes and bounds are naturals, tables have the types their use in the
code needs (`PoolsAssumption`, `FilesAssumption`).  TLC evaluates each of them in the runs.  Wherever an
invariant needed strengthening, the strengthening is given a name and what it is needed for.

| Theorem | States for every instance |
|---|---|
| `DealerProofs!TypeCorrect`, `ReadsCorrect` | `TypeOK`, `ReadsNeverBlock` |
| `DealerProofs!FramesUsedWhileLive`, `FramesNotLost` | `PointersLive`, `NoLostFrame` |
| `DealerProofs!ServiceImplementsRequestReply` | refinement of `RequestReply`, crashes included |
| `DealerProofs!RepliesKeepOrder` | `OneWorkerKeepsOrder` |
| `DealerProofs!RouterModePairs` | `RepliesPaired`, if `FlagValues = {0}` |
| `DealerProofs!NothingIsForgotten` | `RestingMeansAnswered`, the safety half of `EveryRequestAnswered` |
| `DQueueProofs!TypeCorrect`, `QueueIsTaskQueue`, `NoWakeupIsLost` | `TypeOK`, refinement of `TaskQueue`, `NoLostWakeup` |
| `BQueueProofs!TypeCorrect`, `RingIsFifo`, `NoWakeupIsLost` | `TypeOK`, refinement of `BoundedFifo`, `NoLostWakeup` |
| `ZmqSenderProofs!ListIsTaskQueue`, `JoinInsideGetIsForever` | refinement of `TaskQueue`, `StuckInsideGet` |
| `HandlersProofs!RepliesTellTheTruth`, `IdsRepeatOnlyAfterARace`, `FatalBodiesEndTheProcess` | `CodeTellsTheTruth`, `SameIdOnlyAfterARace`, `FatalBodiesEndIt` |
| `FeaturePipelineProofs!NoPhotoTwice`, `ShutdownLosesFew`, `NoWriterNoReturn` | `WrittenOnce`, `FewPhotosLost`, `PollsForEver` |
| `LibraryProofs!LinesAreWhole`, `OnlyTheFirstIsLost` | `WholeLines`, `OnlyTheFirstRollIsLost` |
| `LibraryProofs!ValuesAreContainers` | refinement of `JsonContainer` (`ValueIsContainer`) |
| `BootProofs!StartUpIsSafe`, `ServesTheFile`, `DefaultsComeBack`, `LogsTheFile` | `StartsSafely`, `ServesWhatTheFileSays`, `ReloadsWhatItWrote`, `LogsAsConfigured` |

**Dealer.**  Four layers, each resting on the one before.

* *Types.*  `TypeOK` is not inductive: `ForwardResponse` needs to know that a message on inproc has
  one or two frames, `RouterDeliver` that a message on `back` which starts with an address has a body
  behind it, `SenderSend` that the sender has a message in hand.  `TypeInv` adds these
  (`MessageShape`, `InHand`, `Routable`) together with `ReadsNeverBlock`, which `Tail` and `Head` in
  the two branches of the loop rest on.  The difficult case is a message completed behind frames left
  in `partial` (`CompletedShape`).
* *Custody.*  That the sender may free the frame of its message rests on the message being nowhere
  else, so `Custody` adds: a request is in one place at a time, of the queues, the workers, the
  sender's list and the sender's hand (`InCustody`), once in that place and in the queue of its own
  interface (`OneSlot`); a request on the wire is there once and has no frame yet (`Fresh`); a
  sender waiting for its list has nothing in hand (`IdleSender`).
* *Service.*  `ServiceInv` adds two things.  `Orderly`: the queues, hands and sockets a request passes are
  one line of eight stages; a request is at one place of it at most (`OneSpot`), and of two requests of a
  lane (same client and interface, one worker) the one sent first is ahead (`InOrder`).  `Truthful`: what
  is on its way to a client is the verdict of the request whose address it bears.  Custody alone says
  nothing of inproc, `back` and the mailboxes, where an answer would be repeated, swapped or overtaken.
  Every step moves the head of one stage to the end of a later one or takes requests out of the line (an
  error reply, a crash); the lemmas `Advance` and `Shrink` say once what that does to `OneSpot` and
  `InOrder`, and the lemma of each action only has to show which of the two it is.  `RequestReply` then
  follows action by action: `RouterDeliver` is its reply, everything else but `Send` a stutter.

* *Conservation.*  `Orderly` says where a request may be, not that it is anywhere: a dropped one would
  satisfy it.  `Conserved` adds that while no fault occurred and `flags` is 0 every request with a body
  that was sent is in one of the eight places (`OnItsWay`).  Without faults the process stays up, so
  `flags` keeps its value and no address is lost (`RouterModeStep`).  Each action has a lemma
  (`DeliverKeeps`, `ForwardKeeps`, ...): what it takes from one place it puts into a later one.
  `NothingIsForgotten` follows because at rest seven of the places are empty: a queued request is in the
  queue of an interface with a worker (`Orderly`), and no such queue holds one.

`RouterModePairs` has a hypothesis because the property is false without it: with other flags a
response loses its address and stays in `partial` (the finding of `dealer_flags`).  `RestingMeansAnswered` speaks
of `flags = 0` for the same reason.  The other theorems about Dealer hold for all flags.

**DQueue.**  `IInv` adds to `TypeOK` that exactly the handling workers have a message in hand (`Busy`)
and that `status` tells whether shutdown has begun (`Closed`).  The workers that may still take a message
after it are those inside `wait_for`.  `NoLostWakeup` counts: while anybody is parked, the waiting
messages never outnumber the workers about to look plus the notify on its way; each step that spends
one of these is shown to pay for it.

**BQueue.**  `TypeOK` is inductive; `NextSlot` turns the modulus into a case distinction, `PushAppends` and
`GetTakesHead` show that the ring read from `head` changes as a sequence does.  `NoLostWakeup` is
inductive relative to it: two accounts of the same form as DQueue's, one of free slots against producers
about to push (`PushersCounted`), one of messages against consumers about to take (`TakersCounted`).

**ZmqSender.**  A message is in hand only between get and `zmq_send` (`Sending`), the owner that has
cleared `status` holds the mutex until it has joined the thread (`Locked`, `Closed`), and by then the
thread has left run (`Left`): without these a `get` after the close could take a message that the
abstract queue no longer gives.  `JoinInsideGetIsForever` is the other side of the same lock: it is why
the fairness property of the sender excludes a shutdown that finds the thread inside get.

**Handlers.**  A worker that has come to a step has seen each earlier test pass (`Passed`); that makes
each code true where it is chosen, poll loop and handler together (`CodesAreTrue`).  For the ids, without
a race at most one worker is inside the generator (`Alone`), what it read there is still the position
(`Current`), and the first words of all ids begun or sent differ and lie below the position (`Fresh`).
That only fatal bodies end the process is in the steps that throw; that none is answered needs `Spared`: a
worker that has come to its reply, through a failed test or all of them, has no fatal body (`TestSpares`).

**FeaturePipeline.**  `Apart` accounts for each message: not sent, in one of the queues, with one thread,
or gone.  `Closing` follows the SHUTDOWN message: main sends it into an empty procQueue and nothing
after it (`OneShutdown`), so the thread that takes it keeps it, and whatever is pushed behind it in
writeQueue stays in the hand of the thread that pushed it (`Behind`).  So the photos lost and SHUTDOWN
map one to one into the caffe threads, hence the strict bound.  `PollsForEver` rests on the ring: queued
messages are fewer than its slots (`RingOK`), so its two indexes differ.  With nobody to take, head stays
where it is and no push brings tail to it, so whichever of them `size` has read first, it finds the other
different (`Stuck`).

**Logging.**  `LineInv`: the logger's lock is held from the first piece to the last (`Locked`), what is in
the stream is what its holder has written there (`Streamed`), each thread is at a message of its own
(`Own`), each line is a message that was logged (`EachWhole`), none twice in any files (`Once`), and what a
thread has not written yet is in no file (`NotYet`), without which `Once` could not survive a write.  A roll
gives the current file the name of another, which is lost if it was there; `LinesMove` says that whatever is
lost, lines that only move keep `EachWhole` and `Once`.  `RollInv` says of each level, until the first
restart, that there is a place in its log where each of its files begins, such that the files have the log's
lines from there on (`AsLogged`), one after the other by suffix and up to the last line (`InOrder`), with at
most the first file's lines missing (`OnlyTheBeginningLost`); that no file is over its limit (`Sized`); and
how the index numbers the files (`Numbered`): the suffix 0 is used twice, every later one is new, whichever
of the two values `s_mlogIndex[f] = iter->second++` leaves.  The lemma `RolledOnce` is the argument.

**Json::Value.**  `ShapeOK` is small: a null has no elements, an array's indices are below `MaxSize`, the map is
finite.  The work is in the mapping.  `View` says what users see of it: the size of an array is one more
than its greatest index (`GreatestElement`), each index below it reads as the map or as null, and of the two
abstract variables one is empty.  Each call is then one of the container's (`SetAtIsSeen`, `ResizeIsSeen`,
`RemoveIndexIsSeen`, ...).  A hole below the greatest index is what makes cuts and the removal of the last
element take nulls along, and what an iterator does not count (`VisitIsSeen`, by an injection).

**Boot.**  `StartInv`: until the singleton is set no worker exists and main has not come past it
(`SetByMain`), workers are started in the order of their numbers (`InOrder`), the mutex is held by the
worker that loads (`Loading`).  `ServeInv` adds what `loadConfig` has made of the file by each section
(`ConfigInv`; the default file is not there yet, is `Written`, or is there in part and loads nothing) and how far the constructor is: before main makes the
server nothing is there (`Unmade`), afterwards the sizes are those of the parameters (`Made`); the pools
behind the one at hand are registered (`Registered`, `AtHand`) with all of their workers if no thread was
refused (`Complete`), and nothing is read before the last pool is done (`ReadsLast`).  `LogInv` needs of the
state only that the switches are those of the file once they are loaded (`SwitchInv`) and that the typed
settings are made of them; the work is in what the statements of `initEasylogging` make of any
switches.  A configuration list holds one entry for a level once its value is put in (`UnsafeSetSets`), for
every level if it was put in for Global (`GloballySets`).  The lists are merged twice, each entry looked up in
the other list or appended, by a loop over as many entries as the file gives: `SetInduction` (a set of
naturals without a least member is empty) says what the loop leaves (`SetAllMerges`, `MergedTwice`).  What
follows is the order of precedence: own level, Global, built-in (`ValueIs`, `SettingIs`, `FileIs`).  Behind
it comes what a file that cannot be opened forces: the files looked at are those of `FilesOf`, and since
ToFile is configured for Global only, an entry for a level is a forced one and decides (`OutputIs`).

Only model-checked, and why:

* Liveness (`EveryRequestAnswered`, `RecoversService`, `MessagesAreTaken`, `ShutdownReturns`, `BothSidesMove`,
  `ResponsesAreSent`, `AnsweredOrEnded`, `LogReturns`, `ComesUpOrBack` and the first half of
  `ShutdownReturnsUnlessInsideGet`): fairness is ENABLED, which the prover does not handle.  The safety
  parts of four of them are proved (`RestingMeansAnswered`, `StuckInsideGet`, `FatalBodiesEndIt`, `PollsForEver`).
* The properties of `calls`: recursive operators over documents, values, boxes and texts.  Induction over
  data is possible where recursion is a function on the naturals, from the least-element principle (as for the
  configuration lists); these operators recurse on nested documents, and the prover's SMT
  backend is lost in a module with a RECURSIVE operator.

## 5. Not modelled, and the plan

Not modelled, and why:

* The networks, caffe, darknet, OpenCV, faiss, OpenSSL, the dongle's library: third-party code whose
  sources are not here or not the program's; they appear as tables, sets of outcomes or keys.
* Floating point: scores and coordinates are integers or exact fractions, so rounding is not seen.
  The printing of doubles by jsoncpp is left out for the same reason.
* Of easylogging++: syslog, asynchronous logging, performance tracking, crash handling, STL logging,
  none of which the program builds in; `setRemainingToDefault`, which it does not call.  Of jsoncpp:
  error positions and messages, secure memory.
* Dispatcher's variants for BQueue, which nothing calls; TokenBucket and SpinLock, of which nothing
  makes an object; `HandlerBase.h`'s `rectToLocation`, likewise (it would write one past its array).
* Two threads of the zmq test client share a socket without a lock, which zmq leaves undefined.
* The face data tools and the user manager (Python, sqlite), which serve another product; test
  scripts, packaging, offline evaluation in Python, model encryption: no state that outlives a call.
* Socket high-water marks (a DEALER without peer blocks; a full one never occurs in the model).

Planned, the most important first:

1. The safety halves of the other liveness properties, as `NothingIsForgotten` is that of
   `EveryRequestAnswered`: a restarted process that rests has answered what it read after its last fault
   (`RecoversService`), and the sender's list holds nothing its thread will not take (`ResponsesAreSent`).
2. Error positions of the JSON readers; the face data tools, if the service comes to call them.
