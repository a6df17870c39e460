----------------------------- MODULE PortHandler -----------------------------
(***************************************************************************)
(* The loopback port handlers: src/port_handler.cpp and                    *)
(* src/port_handler_loopback.cpp, one handler for each slot, with the      *)
(* worker threads they start.                                              *)
(*                                                                         *)
(* start() makes two packet pools and a ring under names built from the    *)
(* device id and the queue ids, then starts one worker for each role and   *)
(* detaches it.  A worker raises is_running_ itself, when it first runs,   *)
(* and leaves its loop when it finds the flag low.  The flag is one for    *)
(* the handler; the threads are counted for the device they were started   *)
(* for.  start() and stop() are called by the port controller.             *)
(***************************************************************************)
EXTENDS Common

CONSTANTS
  NofThreads,   \* --mode-threads: start() knows 1 and 2
  MayFail       \* DPDK may be out of memory for a pool or a ring

ASSUME NofThreadsAssumption == NofThreads \in Nat
ASSUME MayFailAssumption == MayFail \in BOOLEAN

VARIABLES
  is_running_,
  held,         \* what tx_mbuf_pool_, rx_mbuf_pool_ and tx_ring_ point to
  zones,        \* DPDK's registry: the names in use, never given back here
  created,      \* worker threads started and not yet run
  looping       \* worker threads in their loop

handlerVars == <<is_running_, held, zones, created, looping>>
threadVars == <<created, looping>>

Roles == CASE NofThreads = 1 -> {"tx_rx"}
           [] NofThreads = 2 -> {"tx", "rx"}
           [] OTHER -> {}

(* The three objects in the order start() creates them. *)
Objects == 1 .. 3
TxPool == 1
RxPool == 2
TxRing == 3

Name(k, vid, rxqid, txqid) ==
  <<k, vid, IF k = RxPool THEN rxqid ELSE txqid>>
Zone == Objects \X Vids \X Queues
Null == <<0, 0, 0>>

HandlerInit ==
  /\ is_running_ = [h \in Slots |-> FALSE]
  /\ held = [h \in Slots |-> [k \in Objects |-> Null]]
  /\ zones = {}
  /\ created = [t \in Vids \X Slots \X Roles |-> 0]
  /\ looping = [t \in Vids \X Slots \X Roles |-> 0]

HandlerTypeOK ==
  /\ is_running_ \in [Slots -> BOOLEAN]
  /\ held \in [Slots -> [Objects -> Zone \cup {Null}]]
  /\ zones \subseteq Zone
  /\ created \in [Vids \X Slots \X Roles -> Nat]
  /\ looping \in [Vids \X Slots \X Roles -> Nat]

-----------------------------------------------------------------------------
(* start(): the first done objects are created and the next one, if any,   *)
(* is refused: its name is taken, or DPDK has no memory.  A refusal leaves *)
(* a null pointer, keeps what was created, and starts no thread.  A        *)
(* pointer is overwritten without giving back what it pointed to.  The     *)
(* fields vid, rxqid and txqid are arguments here: the one caller sets     *)
(* them just before the call and nothing else reads them.                  *)
Refused(name) == name \in zones \/ MayFail

(* Mutant: names already in use are taken over. *)
CreatesObjects_taken_over(h, fresh, done) ==
  /\ done = 3
  /\ zones' = zones \cup {fresh[k] : k \in Objects}
  /\ held' = [held EXCEPT ![h] = fresh]

CreatesObjects(h, fresh, done) ==
  /\ \A k \in 1 .. done : fresh[k] \notin zones
  /\ done < 3 => Refused(fresh[done + 1])
  /\ zones' = zones \cup {fresh[k] : k \in 1 .. done}
  /\ held' = [held EXCEPT ![h] = [k \in Objects |->
                 IF k <= done THEN fresh[k]
                 ELSE IF k = done + 1 THEN Null ELSE held[h][k]]]

start(h, vid, rxqid, txqid) ==
  \E done \in 0 .. 3 :
    /\ CreatesObjects(h, [k \in Objects |-> Name(k, vid, rxqid, txqid)], done)
    /\ created' = [t \in Vids \X Slots \X Roles |->
                     IF done = 3 /\ t[1] = vid /\ t[2] = h THEN created[t] + 1
                                                           ELSE created[t]]
    /\ UNCHANGED <<is_running_, looping>>

(* Mutant: stop() gives the pools and rings back while workers may run. *)
StopAll_frees ==
  /\ is_running_' = [h \in Slots |-> FALSE]
  /\ zones' = {}
  /\ UNCHANGED <<held, created, looping>>

(* stop() on every handler of the array, whoever it works for. *)
StopAll ==
  /\ is_running_' = [h \in Slots |-> FALSE]
  /\ UNCHANGED <<held, zones, created, looping>>

-----------------------------------------------------------------------------
(* tx_worker, rx_worker and tx_rx_worker: one loop, three names.            *)

(* Mutant: the worker does not raise the flag. *)
WorkerBegin_flag_low(t) ==
  /\ created[t] > 0
  /\ created' = [created EXCEPT ![t] = @ - 1]
  /\ looping' = [looping EXCEPT ![t] = @ + 1]
  /\ UNCHANGED <<is_running_, held, zones>>

WorkerBegin(t) ==
  /\ created[t] > 0
  /\ created' = [created EXCEPT ![t] = @ - 1]
  /\ looping' = [looping EXCEPT ![t] = @ + 1]
  /\ is_running_' = [is_running_ EXCEPT ![t[2]] = TRUE]
  /\ UNCHANGED <<held, zones>>

(* Mutant: the flag is raised in every round of the loop. *)
WorkerExit_raises(t) ==
  /\ looping[t] > 0
  /\ is_running_' = [is_running_ EXCEPT ![t[2]] = TRUE]
  /\ UNCHANGED <<held, zones, created, looping>>

WorkerExit(t) ==
  /\ looping[t] > 0
  /\ ~is_running_[t[2]]
  /\ looping' = [looping EXCEPT ![t] = @ - 1]
  /\ UNCHANGED <<is_running_, held, zones, created>>

Worker(t) == WorkerBegin(t) \/ WorkerExit(t)

-----------------------------------------------------------------------------
(* However often a device is stopped and started again, a pair never has   *)
(* two worker threads of one role: start() makes the names that a second   *)
(* start() would need, and nothing gives them back.                        *)
OneGeneration ==
  \A t \in Vids \X Slots \X Roles : created[t] + looping[t] <= 1

(* A worker thread never outlives the ring that start() made for it.       *)
WorkersHaveRing ==
  \A t \in Vids \X Slots \X Roles :
    created[t] + looping[t] > 0 =>
      Name(TxRing, t[1], rxq(t[2]), txq(t[2])) \in zones

(* A handler holds the objects of its own pair only, of whichever device:  *)
(* the slot is picked by queue id, and devices share the slots.            *)
PairSlots ==
  \A h \in Slots : \A k \in Objects :
    held[h][k] # Null =>
      /\ held[h][k] \in zones
      /\ held[h][k][1] = k
      /\ held[h][k][3] \in {rxq(h), txq(h)}

=============================================================================
