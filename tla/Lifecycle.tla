------------------------------ MODULE Lifecycle ------------------------------
(***************************************************************************)
(* How the program in Loopback mode ends.  A signal lets main go on, and   *)
(* main takes the program apart while guests, the epoll thread and the     *)
(* detached workers go on: first the port controller with its handlers,    *)
(* then the vhost controller, whose library still calls back.              *)
(*                                                                         *)
(* main_ is what main does next.  The order is that of the destructors,    *)
(* member by member where another thread can tell.  A thread that uses an  *)
(* object that is gone has no defined behaviour from there on, and a write *)
(* to a connection that was reset ends the process: both end the behaviour *)
(* here, with trouble saying which it was.                                 *)
(***************************************************************************)
EXTENDS Loopback

VARIABLES
  main_,
  epoll_,      \* the epoll thread: in epoll_wait(), woken by an event, about to
               \* call a handler's start(), at the test of its loop, or out of it
  in_hand,     \* the record for which it calls start()
  handler,     \* of each slot: whole, stopped by its destructor, or gone
  instance_,   \* whether VhostController::instance_ is set
  trouble      \* none, freed or sigpipe

lifeVars == <<main_, epoll_, in_hand, handler, instance_, trouble>>
allVars == <<vars, lifeVars>>

Stages == {"wait", "close", "maps", "lower", "handlers", "memory", "unregister",
           "eal", "instance", "ended"}

ServerOpen == main_ \in {"wait", "close"}

MapThere == main_ \in {"wait", "close", "maps"}
ControllerRuns == main_ \in {"wait", "close", "maps", "lower"}
ControllerThere == main_ \in {"wait", "close", "maps", "lower", "handlers", "memory"}
DriverThere == main_ \notin {"unregister", "eal", "instance", "ended"}

(* The connection was in the listen queue when the socket was closed.      *)
Reset == ~accepted /\ ~ServerOpen

NoRecord == [meta |-> 0, port_id |-> 0, device_id |-> -1, qid |-> 0, enable |-> 0]

LifeInit ==
  /\ Init
  /\ main_ = "wait"
  /\ epoll_ = "wait"
  /\ in_hand = NoRecord
  /\ handler = [h \in Slots |-> "whole"]
  /\ instance_ = TRUE
  /\ trouble = "none"

(* Every variable of the program's end holds a value of its kind. *)
LifeTypeOK ==
  /\ TypeOK
  /\ main_ \in Stages
  /\ epoll_ \in {"wait", "event", "start", "test", "left"}
  /\ in_hand \in PortDeviceRingState \cup {NoRecord}
  /\ handler \in [Slots -> {"whole", "stopped", "gone"}]
  /\ instance_ \in BOOLEAN
  /\ trouble \in {"none", "freed", "sigpipe"}

Running == trouble = "none" /\ main_ # "ended"

UsesFreed ==
  /\ trouble' = "freed"
  /\ UNCHANGED <<vars, main_, epoll_, in_hand, handler, instance_>>

-----------------------------------------------------------------------------
(* main() after rte_eal_mp_wait_lcore().                                    *)
MainGoes(from, to) ==
  Running /\ main_ = from /\ main_' = to /\ UNCHANGED <<epoll_, in_hand, trouble>>

Interrupt == MainGoes("wait", "close") /\ UNCHANGED <<vars, handler, instance_>>

(* ~PortControllerLoopback closes abstract_fd_, and with it a connection   *)
(* that nobody has accepted, with all that was written to it.              *)
CloseServer ==
  /\ MainGoes("close", "maps")
  /\ sock' = IF accepted THEN sock ELSE <<>>
  /\ UNCHANGED <<vhostVars, portVars, handlerVars, handler, instance_>>

DestroyMap == MainGoes("maps", "lower") /\ UNCHANGED <<vars, handler, instance_>>

(* Mutant: the epoll thread is joined. *)
LowerFlag_joins ==
  /\ epoll_ = "left"
  /\ MainGoes("lower", "handlers")
  /\ UNCHANGED <<vars, handler, instance_>>

(* ~PortController lowers is_running_.  The thread is detached: no join.   *)
LowerFlag == MainGoes("lower", "handlers") /\ UNCHANGED <<vars, handler, instance_>>

(* Members of the array go from last to first. *)
Turn(h) == \A g \in Slots : g > h => handler[g] = "gone"

(* Mutant: a destructor gives back all there is, what was leaked and what  *)
(* other handlers hold.                                                    *)
StopHandler_all(h) ==
  /\ MainGoes("handlers", "handlers")
  /\ Turn(h) /\ handler[h] = "whole"
  /\ handler' = [handler EXCEPT ![h] = "stopped"]
  /\ zones' = {}
  /\ held' = [held EXCEPT ![h] = [k \in Objects |-> Null]]
  /\ is_running_' = [is_running_ EXCEPT ![h] = FALSE]
  /\ UNCHANGED <<vhostVars, sock, portVars, threadVars, instance_>>

(* ~PortHandlerLoopback gives the objects back, ~PortHandler calls stop(). *)
StopHandler(h) ==
  /\ MainGoes("handlers", "handlers")
  /\ Turn(h) /\ handler[h] = "whole"
  /\ handler' = [handler EXCEPT ![h] = "stopped"]
  /\ zones' = zones \ {held[h][k] : k \in Objects}
  /\ held' = [held EXCEPT ![h] = [k \in Objects |-> Null]]
  /\ is_running_' = [is_running_ EXCEPT ![h] = FALSE]
  /\ UNCHANGED <<vhostVars, sock, portVars, threadVars, instance_>>

DeleteHandler(h) ==
  /\ MainGoes("handlers", IF h = 0 THEN "memory" ELSE "handlers")
  /\ handler[h] = "stopped"
  /\ handler' = [handler EXCEPT ![h] = "gone"]
  /\ UNCHANGED <<vars, instance_>>

(* Mutant: the destructor begins with what it ends with. *)
DeleteController_clears ==
  /\ MainGoes("memory", "unregister")
  /\ instance_' = FALSE
  /\ UNCHANGED <<vars, handler>>

(* The controller's memory goes, with its events, its flag and its array.  *)
DeleteController == MainGoes("memory", "unregister") /\ UNCHANGED <<vars, handler, instance_>>

(* ~VhostController unregisters the driver.  The library closes one        *)
(* connection after another, and calls back for an announced device from   *)
(* main's own thread.  It waits for a connection that is in a callback.    *)
RetireDevice(v) ==
  /\ Running /\ main_ = "unregister"
  /\ dev[v] # "free" /\ ~Due(v)
  /\ dev' = [dev EXCEPT ![v] = "free"]
  /\ ring_up' = [ring_up EXCEPT ![v] = NoRings]
  /\ IF dev[v] = "running" THEN on_destroy_device(v)
                           ELSE UNCHANGED <<portmap, port_cntr_, sock>>
  /\ trouble' = IF Reset /\ sock' # sock THEN "sigpipe" ELSE trouble
  /\ UNCHANGED <<portVars, handlerVars, main_, epoll_, in_hand, handler, instance_>>

Unregistered ==
  /\ \A v \in Vids : dev[v] = "free"
  /\ MainGoes("unregister", "eal")
  /\ UNCHANGED <<vars, handler, instance_>>

(* rte_eal_cleanup() takes DPDK's memory away, names and all. *)
CleanUpEal ==
  /\ MainGoes("eal", "instance")
  /\ zones' = {}
  /\ UNCHANGED <<vhostVars, sock, portVars, is_running_, held, threadVars,
                 handler, instance_>>

ClearInstance ==
  /\ MainGoes("instance", "ended")
  /\ instance_' = FALSE
  /\ UNCHANGED <<vars, handler>>

Main ==
  \/ CloseServer \/ DestroyMap \/ LowerFlag \/ DeleteController
  \/ \E h \in Slots : StopHandler(h) \/ DeleteHandler(h)
  \/ \E v \in Vids : RetireDevice(v)
  \/ Unregistered \/ CleanUpEal \/ ClearInstance

-----------------------------------------------------------------------------
(* The other threads meanwhile.                                             *)

(* The library's thread: no connection is taken once the driver is being   *)
(* unregistered.  Bound: no device comes to be announced beyond MaxPorts.  *)
LibraryStep ==
  /\ Running
  /\ Vhost
  /\ (\E v \in Vids : dev'[v] # "free" /\ dev[v] = "free") => DriverThere
  /\ (\E v \in Vids : Due(v)') => port_cntr_ < MaxPorts
  /\ trouble' = IF Reset /\ sock' # sock THEN "sigpipe" ELSE trouble
  /\ UNCHANGED <<main_, epoll_, in_hand, handler, instance_>>

Announces == LibraryStep /\ \E v \in Vids : Due(v)

Event == IF accepted THEN sock # <<>> ELSE ServerOpen

(* epoll_wait() returns, into an array of the controller. *)
EpollWakes ==
  /\ Running
  /\ epoll_ = "wait" /\ Event
  /\ \/ /\ ControllerThere
        /\ epoll_' = "event"
        /\ UNCHANGED <<vars, main_, in_hand, handler, instance_, trouble>>
     \/ ~ControllerThere /\ UsesFreed

(* What processing a record uses: the map, or every handler of the array.  *)
RecordSafe(pdrs) ==
  IF pdrs.meta = 1 THEN \A h \in Slots : handler[h] # "gone" ELSE MapThere

EpollHandles ==
  /\ Running
  /\ epoll_ = "event"
  /\ \/ /\ ControllerThere
        /\ accepted => RecordSafe(Head(sock)) /\ ~CompletesPair(Head(sock))
        /\ epoll_' = "test"
        /\ \/ ServerOpen /\ EpollAccept
           \/ EpollRead
           \/ Reset /\ UNCHANGED <<portVars, sock, handlerVars>>
        /\ UNCHANGED <<vhostVars, main_, in_hand, handler, instance_, trouble>>
     \/ /\ ~ControllerThere \/ (accepted /\ ~RecordSafe(Head(sock)))
        /\ UsesFreed

(* A record that completes a pair: it is read and remembered, and the map  *)
(* is of no use any more when start() is called.                           *)
EpollCompletes ==
  /\ Running
  /\ epoll_ = "event"
  /\ accepted /\ MapThere
  /\ CompletesPair(Head(sock))
  /\ Receive
  /\ Record(Head(sock))
  /\ in_hand' = Head(sock)
  /\ epoll_' = "start"
  /\ UNCHANGED <<vhostVars, accepted, handlerVars, main_, handler, instance_, trouble>>

(* Mutant: whoever calls a handler keeps it alive, but not what it held.   *)
EpollStarts_shared ==
  /\ Running
  /\ epoll_ = "start"
  /\ StartPair(in_hand)
  /\ epoll_' = "test"
  /\ in_hand' = NoRecord
  /\ UNCHANGED <<vhostVars, sock, portVars, main_, handler, instance_, trouble>>

(* start(), of a handler whose destructor may have begun in the meantime.  *)
EpollStarts ==
  /\ Running
  /\ epoll_ = "start"
  /\ \/ /\ handler[HandlerOf(in_hand)] = "whole"
        /\ StartPair(in_hand)
        /\ epoll_' = "test"
        /\ in_hand' = NoRecord
        /\ UNCHANGED <<vhostVars, sock, portVars, main_, handler, instance_, trouble>>
     \/ handler[HandlerOf(in_hand)] # "whole" /\ UsesFreed

EpollTests ==
  /\ Running
  /\ epoll_ = "test"
  /\ \/ /\ ControllerThere
        /\ epoll_' = IF ControllerRuns THEN "wait" ELSE "left"
        /\ UNCHANGED <<vars, main_, in_hand, handler, instance_, trouble>>
     \/ ~ControllerThere /\ UsesFreed

EpollThread ==
  EpollWakes \/ EpollHandles \/ EpollCompletes \/ EpollStarts \/ EpollTests

WorkerThread(t) ==
  /\ Running
  /\ \/ /\ handler[t[2]] # "gone"
        /\ WorkerStep(t)
        /\ UNCHANGED lifeVars
     \/ /\ handler[t[2]] = "gone" /\ created[t] + looping[t] > 0
        /\ UsesFreed

LifeNext ==
  \/ Interrupt \/ Main \/ LibraryStep \/ EpollThread
  \/ \E t \in Vids \X Slots \X Roles : WorkerThread(t)

(* main goes on once it is told to stop, and the threads run; the library  *)
(* finishes a message it has begun.  Nobody has to send the signal.        *)
LifeSpec ==
  /\ LifeInit /\ [][LifeNext]_allVars
  /\ WF_allVars(Main) /\ WF_allVars(EpollThread) /\ WF_allVars(Announces)
  /\ \A t \in Vids \X Slots \X Roles : WF_allVars(WorkerThread(t))

-----------------------------------------------------------------------------
(* "instance_.load()->on_new_device(vid)": as long as a connection is      *)
(* served, there is a controller to call, though connections are closed by *)
(* the very destructor that takes the controller away.                     *)
CallbacksHaveController == (\E v \in Vids : dev[v] # "free") => instance_

(* What the destructors of handlers will free exists, and no two of them   *)
(* free the same: however starts have failed half-way, a device that came  *)
(* back has been refused its names, and other handlers' destructors have   *)
(* given theirs back while a last start() was still to be made.            *)
NoDoubleFree ==
  \A h, g \in Slots : \A k, j \in Objects :
    /\ held[h][k] # Null => held[h][k] \in zones
    /\ held[h][k] = held[g][j] /\ held[h][k] # Null => h = g /\ k = j

(* A pair has lost its chance when its handler's destructor has begun.     *)
LifeSpent == Spent \cup {p \in Vids \X Slots : handler[p[2]] # "whole"}

EndService == INSTANCE PairService
  WITH Pairs <- Vids \X Slots, Workers <- Roles, spent <- LifeSpent, alive <- Alive

(* The promise of PairService holds to the end: destructors give the names *)
(* back that keep a pair from being served again, while a start() that the *)
(* epoll thread had in hand before may still come; no pair is served a     *)
(* second time, and none whose handler's destructor has begun.             *)
ServesOnceToTheEnd == EndService!Spec

(* The epoll thread has left, and a callback would wait for ever.          *)
Clogged == epoll_ = "left" /\ Len(sock) > SockCap - 2

(* Once it is told to stop, main gets to its end, unless the process ends  *)
(* in trouble before or the notifications of the last guests fill a socket *)
(* that nobody reads any more: main waits for no thread that may sleep.    *)
MainReturns ==
  main_ = "close" ~> main_ = "ended" \/ trouble # "none" \/ Clogged

(* "assign signal handler for graceful exit": the program comes to its end *)
(* without a thread at work on an object that has been destroyed.          *)
NothingUsedAfterItsEnd == trouble # "freed"

=============================================================================
