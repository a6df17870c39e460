# A verification project for vtb

vtb is a DPDK vhost-user backend. A virtual machine's virtio-net device connects
to it through a UNIX socket; DPDK's vhost library tells vtb when the device and
its queues come and go; vtb is to give each queue pair of each device a port
handler with worker threads of its own. This project models that control path
in TLA+, checks it with TLC on small instances, and proves its main invariants
with TLAPS for every size. Data movement is absent from the code (every pipeline
method is empty) and so from the models.

All paths below are relative to the repository.

## The system

| Component | State it keeps | Operations | Hard parts |
|---|---|---|---|
| Vhost controller (`src/vhost_controller.cpp`) | `port_cntr_`, socket descriptor, `instance_` | constructor, `init`, `start`, destructor; callbacks `on_new_device`, `on_destroy_device`, `on_vring_state_changed`; `notify_port_controller` | order of callbacks, two writes in one callback, a full socket, callbacks made from the destructor |
| Config manager: port map (`src/config_manager.cpp`) | `pmap_`: port id to device, pairs, enabled flags | `init_vhost_device`, `set_queue_state`, `clear_device`; tests only: `get_vhost_qids`, `assign_port_*`; nobody calls `is_queue_ready` | filled by port id, looked up by device id |
| Config manager: key/value database | `database_` | `set_value`, `get_value`, `dump_config` | none: nothing but tests uses it |
| Notification socket (`inc/common.h`, `src/common.cpp`) | address, listen queue, connection, records in flight | `create_server_socket`, `create_client_socket`, `accept`, `send_packet`, `read` | one address for all processes of a host, finite buffer, ignored results, SIGPIPE |
| Loopback port controller (`src/port_controller_loopback.cpp`) | `pmap_` (last state reported per queue), eight handlers | `create_server`, `monitor_and_dispatch_handler`, `epoll_worker`: accept, read, `process_notification`; destructor | map never cleaned; one removal stops all handlers; detached thread |
| Port handler (`src/port_handler*.cpp`) | `is_running_`, two pools, a ring | `start`, `stop`, destructor, `tx_worker`, `rx_worker`, `tx_rx_worker` | detached threads, names in DPDK's registry, creation that fails half-way |
| Logger, messenger (`src/logger.cpp`, `src/messenger.cpp`) | `buffer_`, `mutex_`, `running_`, flush thread | `log`, `flush_loop`, destructor | flush outside the mutex, missed notification, logging from a signal handler |
| Main (`vtb.cpp`) | `stop_blocking_` | start-up, signal handler, shutdown | order of destruction against detached threads |
| Command line (`src/cmdline_parser.cpp`) | table of arguments | `parse`, `get` | repeated flags, values left out, separator |
| Back2Back and Emulator controllers | none | no server; an epoll worker that spins | Back2Back still has a vhost controller that connects |

How they meet: one vhost-events thread makes all callbacks. A callback updates
the port map under its mutex and writes 20-byte records into an AF_UNIX stream.
The epoll thread reads one record at a time, remembers it in `pmap_`, and starts
the handler `qid / 2` when a pair is complete, or stops all handlers when a
device is removed. `start` makes two pools and a ring under names built from
device and queue ids and detaches one or two workers, which run until they see
`is_running_` low. All of them log; the flush thread writes.

What must be right, component by component:

* vhost controller and port map: what is recorded of a device is the state of
  its queues; ports are not mixed up;
* socket and port controller: no queue that is up is forgotten; each pair that
  is up is given its workers;
* port handlers: workers of a pair exist once, on objects that exist, of their
  own pair; stopping stops; pair by pair one producer for each ring;
* sockets and start-up: a process talks to itself whatever other processes do,
  and what one process leaves behind does not stop the next;
* shutdown: nothing is freed twice or called after its end, and main gets to its
  end without waiting for a thread that sleeps;
* logger: lines are written once, in order, and not lost; the process can end.

The code does not do all of this. Where it does not, `PROJECT.json` has a
finding with the run that shows it (see *Disagreements* below), and the
properties stated of the passing runs are the ones the code does keep.

## Modules

| Module | What it is |
|---|---|
| `Common` | pair and queue numbering, the notification record |
| `NotifySocket` | the stream: FIFO of records, capacity `SockCap` |
| `PortMap` | `pmap_` of the config manager, one operator per method |
| `VhostController` | the callbacks, and the library that makes them (external) |
| `PortHandler` | handlers, DPDK objects and worker threads |
| `PortController` | the epoll thread |
| `Loopback` | composition of the four, fairness, system properties |
| `Lifecycle` | `Loopback` with the end of the program: main's destructors next to the running threads |
| `CmdlineParser` | `parse`, `get` and `ConfigManager::init`, and what they promise |
| `Rendezvous` | the socket helpers and the kernel between the processes of a host |
| `Startup` | `main` in every process: command line, controllers, sockets, ways out |
| `PairService` | abstract specification: a pair has one chance to be served, and pairs may lose theirs |
| `LoopbackStop` | `Loopback` with a history of stops, for one property |
| `Logger` | callers, flush thread, destructor, signal handler |
| `LineLog` | abstract specification: lines come out once and in order |
| `MCLoopback`, `MCLogger`, `MCLifecycle`, `MCStartup` | instances for TLC |
| `LoopbackProofs`, `ServiceProofs`, `ReportProofs`, `OrderlyProofs`, `LifecycleProofs`, `CmdlineParserProofs`, `StartupProofs`, `LoggerProofs` | theorems |

Definitions carry the names of the code. `map` in `PROJECT.json` names the lines
each one stands for. Operators named after a definition with a suffix, under a
comment that begins with "Mutant", are not part of the model: each is a version
of that definition with a plausible mistake, kept to show that a property
notices it.

### Correspondence and abstraction

* **Callbacks are single steps.** The library has one events thread, so they
  never overlap. `on_new_device` writes two records; the model appends both when
  both fit. The epoll thread cannot tell a record that is not yet written from
  one it has not yet read, and no other thread looks at what the callback
  changes, so every order of epoll steps against the two writes is still there.
* **The library** (`Connect`, `QueueUp`, `QueueDown`, `StopDevice`, `Disconnect`,
  `Due`) is external and modelled from how DPDK calls the registered operations:
  lowest free device id; a callback for each change of a queue's readiness;
  `new_device` once queues 0 and 1 are ready, before another message is taken;
  `destroy_device` and then the queue's callback when the guest takes a queue of
  a running device back; `destroy_device` alone when the connection closes.
  `rte_vhost_get_vring_num` is any number above the highest ready queue: guests
  may mention queues they do not make ready.
* **Port map entries** keep vid, number of pairs and one flag per queue. The rx
  and tx ids of pair *i* are always 2*i* and 2*i*+1. The port-side descriptors and
  `ctlq_id` are written and printed only, and are left out. `nof_queue_pairs`
  stays within `MAX_QUEUE_PAIRS`: beyond it the code overruns its arrays
  (a hazard of its own).
* **`port_handler_[8]` and `MAX_QUEUE_PAIRS`** are the same number, 8, in the
  code, and one constant, `MaxPairs`, here.
* **`vid`, `rxqid`, `txqid` of a handler** are arguments of `start`: the only
  caller sets them just before and nothing else reads them but log lines.
* **`zones`** is DPDK's registry of names. `rte_pktmbuf_pool_create` and
  `rte_ring_create` fail if the name is taken, or for lack of memory (`MayFail`).
  Nothing frees an object before the destructor.
* **`Lifecycle`** takes one step for each member that another thread can tell is
  gone: the listening socket, the map, the running flag, each handler's objects
  and then the handler, the controller's memory. The epoll thread's round is waking
  up, handling the event, and testing the flag. A record that completes a pair is
  handled in two steps, reading and remembering it, then calling `start()`, with all
  of main in between: what `start()` finds depends on the destructors that came
  first. The other steps stay atomic: a destructor that overtakes one half-way is
  covered by one that came before it, since either way the thread is found at work on
  what is gone (`trouble`), and the same holds of a `start()` that its handler's
  destructor overtakes. A worker's
  loop reads the handler's flag only; the pools and the ring are never touched by
  it, so what matters to it is whether the handler is there. C++ gives no meaning
  to a use after the end, so a behaviour stops there. Closing the server's socket
  resets a connection that was never accepted: the next write raises SIGPIPE.
* **`Startup` and `Rendezvous`** see processes from outside: an action per call
  of `main`, and of devices only that they cause notifications. `create_*_socket`
  look for an `@`, and their callers put a NUL in front of the name, so `strncpy`
  copies nothing and the address is `sun_path` full of zeros, an abstract address
  that does not depend on the name. `SocketAddress` computes just that. The
  reader does not see who wrote a record; `inbox` and `heard` keep it to state
  the property. The listen queue of five is not filled by the processes of a run.
  SIGPIPE has its default action. A reader that finds the end of a connection
  closes a descriptor to which nothing else refers: no step here. What a process
  throws before it is up ends it by `exit(1)`; an unknown mode calls through a
  null pointer.
* **Command lines** are sequences of tokens: values, and tokens that begin with a
  dash. `parse` looks at nothing else but equality. Which exception is thrown is
  left out. A `--help` without a value behind it keeps its default `false`, so
  that the program starts: `init` says so, as the code does.
* **Worker threads** are counted per device, pair and role: created and not yet
  run, or in their loop. `is_running_` belongs to the handler, which devices
  share. The bodies of the three loops log and sleep.
* **Logger**: a call takes the mutex, adds its line and gives the mutex back. A
  signal handler's call sits on top of the call it interrupts. The flush thread
  evaluates its predicate and goes to sleep in two steps with the mutex held, for
  the destructor notifies without it. Levels are left out: a line above the level
  returns before anything is touched.

## Runs

Deadlock checking is off in all runs. The system may really stop: guests need do
nothing, ports are bounded, the process ends.

| Run | Instance | Asks |
|---|---|---|
| `devices` | 2 devices, 1 pair, socket of 3, 3 ports, guests do anything, pools may fail, 1 thread | do notifications, port map and workers stay consistent when devices share a handler and ids return; does every announcement of a device that is gone have its removal behind it; do the readers of the port map agree where port ids are not device ids; do stopped workers leave a flag that two devices share? |
| `pairs` | 1 device, 2 pairs, socket of 2, 2 ports, guests do anything | the same for queues 2 and 3, which have callbacks of their own; is what a guest has switched off known to be off; is each pair served once next to another? |
| `orderly` | 2 devices, 2 pairs, guests only come up, in order, 2 threads | is every pair served by the handler of its slot, which the devices share, and do its workers come to run? |
| `startup` | 2 processes, 3 socket names (one too long), all command lines of up to 3 tokens over 7, the empty one included, and a dozen more | does a process find itself whatever others do; what ends it; what is left of it; are command lines understood? |
| `shutdown` | 1 device, 2 pairs and so 2 handlers, socket of 3, 2 ports, a guest that comes, goes and comes back, pools may fail, 1 thread | do main's destructors free what exists and is their own, with a controller to call; does a `start()` in hand serve no pair twice though names are given back; does main get to its end? |
| `logger` | main, one other thread, SIGINT and SIGTERM, one line each | are lines written once, in order, and all of them; who can keep the mutex, and for how long; does the destructor end? |

Violation runs: `portrecord`, `unordered`, `stopholds`, `graceful`, `strangers`,
`afterlife`; see below.

**Bounds.** `MaxPorts` bounds the number of `new_device` callbacks: two are needed
for a device that returns, three for a return while another device holds the
id that the port map confuses it with. `SockCap` is the number of records the
kernel holds: it must be at least 2 for `on_new_device`, and 3 lets a removal
stand behind an announcement. One pair suffices for what devices that come and go do
to each other's workers and entries, since they meet in a handler and in the port
map; a second pair is needed for the queues above 1, and two devices with two pairs
to tell the slot of a pair from the id of its device (`orderly`). `MaxLines` bounds what a thread logs outside a handler;
each signal arrives once. Two processes are enough for one to have the address
and the other not, to be connected to it, and to start again when it is gone;
their crashes and restarts are not bounded. In `shutdown` there are
two handlers, for one's destructor to give back what another still holds, while the
epoll thread has a start of that other in hand; two devices next to two handlers are
beyond TLC there, and that devices share a handler to the end is left to the theorems,
`NothingIsFreedTwice` and `ImplementsPairServiceToTheEnd`. Its guest closes and
returns but does not stop single queues, which the other runs have; the kernel's
buffer holds hundreds of records, so that `Clogged` needs hundreds of callbacks
after the epoll thread has left, where three records make it visible. The
theorems remove these bounds.

**Fairness.** The epoll thread and each worker are weakly fair: they are threads
of the program, and the operating system runs them. The library's callbacks are
not: a guest may do nothing. In `Logger` the flush thread and callers that wait
for the mutex are strongly fair: the flush thread sleeps up to 100 ms out of
every round without the mutex, so a waiter is not passed over for ever; a caller
with the mutex, and main once it is told to stop, are weakly fair. No thread is
bound to log and no signal to arrive. In `Startup` the epoll threads are weakly
fair and nothing else is. In `Lifecycle` so are main after the signal, the epoll
thread and the workers; the library finishes a message it has begun (`Announces`),
and begins none it does not want to.

### What the passing runs show

* `UpIsSeen`: the last word the port controller will have about a queue that is
  up, in the socket or in `pmap_`, is that it is up, through removals, returns and
  a map that is never cleaned.
* `DownIsSeen`, `StopFollowsStart`: the other direction, as far as the code goes. A
  queue above the first pair that a guest switches off is known to be off, and only
  the end of a connection, which takes queues down without a callback, can leave the
  port controller mistaken. Such a mistake can have a pair started while one of its
  queues is not up yet in the next connection; nothing forbids it. Queues 0 and 1 are
  never reported down; for these there is the removal of the device, which is behind
  every announcement that is still to be read of a device that is gone, so that a
  `stop()` follows a start that comes late. Whether the worker heeds it is another
  matter: one that has not begun by then raises the flag again (`stopholds`).
* `RecordedUpIsUp`, `PortBinding`: what is true of the port map although it is
  filled under port ids and looked up under device ids.
* `OneGeneration`, `WorkersHaveRing`, `PairSlots`, and the refinement
  `ServesOnce`: the system implements `PairService`. A pair of a device id is
  served at most once in the life of the process, all its workers together, on
  objects of its own, and never comes back.
* `StopTakesEffect`: a stopped worker leaves its loop, unless there is another
  start on its handler before it looks, for its own device or for another one: the
  flag belongs to the handler. That the removal of one device stops the pairs of all is
  what the code does, and no property is about it.
* `PairsServed`, `EventuallyServed`: devices that come up in order are served.
* `AnswersAgree`: `is_queue_ready`, which nobody calls yet, takes a device id for a port id and ignores the
  number of pairs; what it says is nevertheless never about a pair that
  `get_vhost_qids` does not know, and true of the device if the ids are the same.
* `CommandLinesUnderstood`, `RequiredUnderstood`: `parse` accepts exactly the
  lines that are well-formed behind the separator and gives every argument its last value
  or its default, for the program's table and for one with required arguments. The empty
  line needs no separator, and is refused where an argument is required.
* `HolderMeetsItself`, `HolderIsHeard`: the process that got the one address is
  connected to itself and reads what it writes. `PipeFromOthers`: SIGPIPE reaches a
  process that is up only from another one's end. `OnlyTheKilledLeaveFiles`: a `-vsn`
  file that keeps the next start from succeeding is left by a kill only.
* `CallbacksHaveController`: the destructor closes the connections itself, and
  `instance_` is still set in the callbacks this causes. `NoDoubleFree`: after starts
  that failed half-way and pointers that were overwritten, what a destructor will free
  exists, also when another handler's has freed what was its own, and belongs to one
  handler. It does not ask for what nobody points to any more: that is leaked. `MainReturns`: main waits for no thread that
  may sleep; it would if the epoll thread were joined.
  `ServesOnceToTheEnd`: the destructors take away the names that keep a pair from being
  served again, while the epoll thread may be about to call `start()` for it; a handler
  that is still whole has kept its pairs' names, and one whose destructor has begun is
  found at its end (`trouble`). The system with its end is a `PairService` in which
  destructors take away the chances of their handlers' pairs.
* `WritesInOrder` (`Logger` implements `LineLog`), `LinesReachTheFile`,
  `DestructorEnds`: the last two up to the one case where a signal catches main
  inside `log()`. `HolderReleases`, `CaughtForGood`: that is the only case. No other thread
  is kept from giving the mutex back, main only by a signal, and then no step of anyone
  frees it. A notification that the flush thread misses costs 100 ms.

### Disagreements

| Run | What the repository says | What the code does |
|---|---|---|
| `portrecord` | `set_queue_state(int port_id, ...)`, `inc/config_manager.h:53` | the controller passes the device id (`src/vhost_controller.cpp:137`); a device that returns with a new port id is never recorded |
| `unordered` | "Starts both transmit and receive threads.", `inc/port_handler.h:28`; "Even Handler called", logged at `src/port_controller_loopback.cpp:93` | a pair completed by its even queue starts nothing |
| `stopholds` | "Signals both threads to stop.", `inc/port_handler.h:31` | a worker that begins after the stop raises the flag again |
| `graceful` | "assign signal handler for graceful exit", `vtb.cpp:35` | the handler logs and waits for a mutex its own thread holds |
| `strangers` | "Specify a random name. For internal use only", `src/config_manager.cpp:20`; "Using '@' to denote an abstract socket", `src/common.cpp:105` | the name never gets into the address: a process reads and acts on the notifications of another one |
| `afterlife` | "assign signal handler for graceful exit", `vtb.cpp:35` | detached threads are at work on the port controller and its handlers when main destroys them |

A device id that is used again is not served a second time, because its names
are taken; no line of the repository promises that it is, so this is no row above
but the property `ServesOnce`.

## Proofs

All theorems are for arbitrary `Vids`, `MaxPairs`, `SockCap`, `MaxPorts`, `Guest`,
`NofThreads`, `MayFail`, `Procs`, `LongNames`, `Words`, `CommandLines`, `Others`, `Signals`
and `MaxLines`, under the named assumptions beside each constant; `MaxPorts` and
`MaxLines` may be any number. The one that needs more, `OrderlyGuestsAreServed`, says so
in its statement.

* `LoopbackProofs!TypeCorrect`: types, and the socket's capacity. Other proofs
  use its lemmas on the operators of the port map and the socket.
* `ServiceProofs`: the invariant is `OneGeneration`, `WorkersHaveRing` and
  `PairSlots` together. `OneGeneration` is not inductive alone: that a worker's
  ring is still there, and its name taken, is what makes a second `start()` of the
  pair fail. From the invariant follow `NeverTwoGenerations`, `RingsOutliveWorkers`,
  `HandlersKeepToTheirPair`, and the step simulation of `ImplementsPairService`.
* `ReportProofs!UpIsNeverLost`: queues 0 and 1 of an announced device may go down
  and up again without a record, so `UpIsSeen` alone is not inductive. `ReportInv`
  says that the last word is right for every queue whose last report was up, also
  while it is down. Reading the head of the socket moves the last word into
  `pmap_` or leaves it behind.
  `StopsFollowStarts` is inductive as it stands: `on_destroy_device` puts the removal
  behind everything that is in the socket, and an announcement is made of a device that
  runs. `DownIsNeverLost` goes through the steps one by one and needs types only; like
  `UpIsNeverLost` it rests on what one more record, or one record less, does to the
  last word.
* `ReportProofs`, on the config manager's map: an entry under its device's own id exists
  only while the device runs, and a flag beyond an entry's pairs is low. Without the first,
  a change of a queue would be written into an entry that is left over; without the second,
  no callback would ever lower the flag. `OwnEntryIsTrue`, `PortsAreNotReused`;
  `ReadersAgree` uses the second part: a flag that is high lies within the pairs.
* `OrderlyProofs!OrderlyGuestsAreServed` assumes `Guest = {}` and `MayFail = FALSE`,
  both needed (`unordered`, and `devices` where pools fail). The port controller
  starts a pair only when its odd queue completes it, so the invariant is an order:
  no record of a tx queue is in the socket unless its rx queue is known or is
  reported in front of it (`SocketOrdered`). Then the record of a tx queue, when it
  is read, always starts the pair, none of whose names is taken before
  (`WorkersStay`), and `ReportInv` says that the record has been read.
* `LifecycleProofs`: `WorkersHaveRing` does not survive the destructors, which give
  names back under workers that still run. `EndInv` replaces it slot by slot: as long as
  a handler is whole its workers have their ring, since no other handler's destructor
  frees it (`PairSlots`); handlers go from last to first, those whose destructor has
  begun hold nothing, and all are gone before DPDK's memory is. With `InHandOK`, that the
  record in hand is an odd queue's, a late `start()` meets the pair whose names its
  handler guards. `NothingIsFreedTwice` and `OneGenerationToTheEnd` follow.
  `CallbacksFindController` needs `GuestsInv`: no device is left when EAL is cleaned up.
  `ImplementsPairServiceToTheEnd` maps the step of a handler's destructor that frees its
  objects to `GiveUp` of its pairs. A `start()` comes to a whole handler only, and what it
  changes is one `Serve` or `GiveUp` of a pair that still had its chance (`StartSpends`).
* `CmdlineParserProofs!ParserKeepsItsPromise`: for every table in which a token names one
  argument at most and no value is a name, and every command line of any length, the loop
  of `parse` with the checks around it accepts the line exactly if its separator is not
  missing and the definition without a loop calls what is behind it well-formed, and gives
  the values that definition gives. The library's induction rule takes an operator and is out
  of the provers' reach, so the proof goes over sets of numbers: one that holds 0 and each
  successor has no least missing number (`SetInduction`, from the well-foundedness of < on
  the naturals). It gives first that the recursive function of the loop exists
  (`RoundsIsRun`), and then what the loop knows after each number of tokens: which
  arguments were named, their last values, and whether a mistake has been made. `Text`
  lists the strings of the program's table.
* `StartupProofs` applies this to the table of the program (`CommandLinesAreUnderstood`)
  and to one that requires arguments (`RequiredAreUnderstood`), whose names are assumed
  to be no values, as those of the program's table are.
* `StartupProofs`, on the sockets: every address is the zeros or none, and one process at a time
  has it. The holder listens from before its vhost controller connects until after
  it closes, so the only socket to be found is its own (`HoldersMeetThemselves`);
  a link is reset only by the end of the one it leads to (`PipesBreakAtOthers`).
  A process has a driver only at "up", "reset" or "cleanup", so the early ways out of
  main have none to lose, and the last one removes the file it made
  (`FilesAreLeftByTheKilled`).
* `LoggerProofs`: a line belongs to one call at most, leaves it when it is
  accepted, and its number is not used again; the flush thread's copy is empty
  unless it is about to be written; what the final drain took is still at the
  front of the buffer. `LoggerTypeCorrect` needs that one call at most holds the
  mutex; `LogImplementsLineLog` is the refinement.
  `OnlySignalsKeepTheMutex` and `CaughtIsForEver` add `NestOK`: a call that lies on another
  is a signal handler's, and main's. With one holder at most, whoever holds the mutex is on
  top or under a handler, and while main waits for itself nobody else can free it.

Every safety and action property of a passing run is stated by a theorem. Only
model-checked are the liveness properties (`EventuallyServed`, `StopTakesEffect`,
`LinesReachTheFile`, `DestructorEnds`, `HolderIsHeard`, `MainReturns`), because the prover
handles neither fairness nor ENABLED. No module uses a RECURSIVE operator.

## Not modelled

* `assign_port_data_socket` and `assign_port_control_socket`: called by tests only;
  they store descriptors that nothing reads back. `print_portmap`, `dump_config` and
  `print_usage` are formatting.
* The key/value database: one locked map operation per method, called by tests only.
* Terminal echo and thread names: I/O. The numeric `get` of the parser: it converts
  digits; a value of `--mode-threads` that is no number makes `start()` throw before
  it makes anything.
* The `epoll_worker` of Back2Back and Emulator: a loop with an empty body.
* The front end, tests and scripts: outside the program.
* Queue ids above fifteen, and devices with more than eight pairs: what the code
  does with them is undefined from the first step.
* Whether a compiler may hoist the load of `stop_blocking_` out of `keep_alive`.

## Plan

All components with state are modelled and the safety properties that carry them
are proved. What could still be added: the notification that the flush thread
misses, with time in the model of the logger; the ways out of `main` before the
signal in `Lifecycle`; and, should `stop()` or the destructor come to give names back at
run time, a refinement of `PairService` in which a pair can be served again.
