------------------------------- MODULE Loopback -------------------------------
(***************************************************************************)
(* The program in Loopback mode: the vhost controller and the port         *)
(* controller with its handlers, joined by the notification socket.        *)
(***************************************************************************)
EXTENDS VhostController, PortController

vars == <<vhostVars, sock, portVars, handlerVars>>

Init == VhostInit /\ SockInit /\ PortInit /\ HandlerInit

Vhost == VhostNext /\ UNCHANGED <<portVars, handlerVars>>

Epoll == EpollWorker /\ UNCHANGED vhostVars

WorkerStep(t) == Worker(t) /\ UNCHANGED <<vhostVars, sock, portVars>>

Next == Vhost \/ Epoll \/ \E t \in Vids \X Slots \X Roles : WorkerStep(t)

(* The operating system runs the program's own threads; a guest does what  *)
(* it likes, or nothing.                                                   *)
Spec ==
  /\ Init
  /\ [][Next]_vars
  /\ WF_vars(Epoll)
  /\ \A t \in Vids \X Slots \X Roles : WF_vars(WorkerStep(t))

(* Every variable holds a value of its kind, and the socket never holds    *)
(* more records than the kernel buffers.                                   *)
TypeOK ==
  /\ VhostTypeOK
  /\ PortTypeOK
  /\ HandlerTypeOK
  /\ sock \in Seq(PortDeviceRingState)
  /\ Len(sock) <= SockCap

-----------------------------------------------------------------------------
(* What the port controller knows.                                          *)

(* The controller has been told about queue 0 or 1 once the device is      *)
(* announced, about any other queue once it is ready.                      *)
Up(v, q) == ring_up[v][q] /\ (q < 2 => dev[v] = "running")

Reports(pdrs, v, q) == pdrs.meta # 1 /\ pdrs.device_id = v /\ pdrs.qid = q

SilentFrom(i, s, v, q) == \A j \in i .. Len(s) : ~Reports(s[j], v, q)

(* The last word on v's queue q is that it is enabled: the last record     *)
(* about it in s says so, or there is none and it is known already.        *)
LastWordUp(s, known, v, q) ==
  \/ known = 1 /\ SilentFrom(1, s, v, q)
  \/ \E i \in 1 .. Len(s) :
       Reports(s[i], v, q) /\ s[i].enable = 1 /\ SilentFrom(i + 1, s, v, q)

(* No queue that is up is ever lost on the way: devices come and go, the   *)
(* map is never cleaned, records overtake nothing, and the last word the   *)
(* port controller will have about a queue that is up is that it is up.    *)
UpIsSeen ==
  \A v \in Vids : \A q \in Queues : Up(v, q) => LastWordUp(sock, pmap_[v][q], v, q)

(* The port controller will take a queue that is down for one that is up.  *)
Mistaken(v, q) == ~ring_up[v][q] /\ LastWordUp(sock, pmap_[v][q], v, q)

(* A queue above the first pair that its guest switches off is known to be *)
(* off, however often it goes on and off and whatever is in the socket.    *)
(* Only the end of a connection, which takes queues down without a         *)
(* callback, leaves the port controller mistaken about one.                *)
DownIsSeen ==
  [][\A v \in Vids : \A q \in Queues :
       q >= 2 /\ Mistaken(v, q)' =>
         Mistaken(v, q) \/ (dev[v] # "free" /\ dev'[v] = "free")]_vars

(* The announcement of a device is its reports on queues 0 and 1.          *)
AnnouncesDevice(pdrs, v) == pdrs.meta # 1 /\ pdrs.device_id = v /\ pdrs.qid < 2
RemovesDevice(pdrs, v) == pdrs.meta = 1 /\ pdrs.device_id = v

(* Queues 0 and 1 are never reported down.  What stops their handler is    *)
(* the removal of the device, and it is never missing nor overtaken: an    *)
(* announcement that is still to be read, of a device that is not running  *)
(* any more, has the removal behind it.                                    *)
StopFollowsStart ==
  \A v \in Vids : dev[v] # "running" =>
    \A i \in 1 .. Len(sock) : AnnouncesDevice(sock[i], v) =>
      \E j \in (i + 1) .. Len(sock) : RemovesDevice(sock[j], v)

-----------------------------------------------------------------------------
(* Serving pairs.                                                           *)

AtWork(v, s) ==
  {r \in Roles : created[<<v, s, r>>] + looping[<<v, s, r>>] > 0}

(* The first of a pair's names is in use: every later start() of the pair  *)
(* is refused before it does anything.                                     *)
Tried(v, s) == Name(TxPool, v, rxq(s), txq(s)) \in zones

Spent == {p \in Vids \X Slots : Tried(p[1], p[2])}
Alive == [p \in Vids \X Slots |-> AtWork(p[1], p[2])]

Service == INSTANCE PairService
  WITH Pairs <- Vids \X Slots, Workers <- Roles, spent <- Spent, alive <- Alive

(* The whole program implements the promise of PairService. *)
ServesOnce == Service!Spec

PairUp(v, s) ==
  dev[v] = "running" /\ Up(v, rxq(s)) /\ Up(v, txq(s))

(* "Starts both transmit and receive threads": when the port controller    *)
(* has read all there is, every pair of a running device whose two queues  *)
(* are up has been given its workers.                                      *)
PairsServed ==
  sock = <<>> =>
    \A v \in Vids : \A s \in Slots : PairUp(v, s) => AtWork(v, s) = Roles

(* And they come to run: a pair that is up ends up with every one of its   *)
(* workers in its loop.                                                    *)
EventuallyServed ==
  \A v \in Vids : \A s \in Slots :
    PairUp(v, s) ~> \A r \in Roles : looping[<<v, s, r>>] > 0

NoneCreated(s) == \A v \in Vids : \A r \in Roles : created[<<v, s, r>>] = 0

(* A worker whose handler is stopped leaves its loop, unless another start *)
(* on the same handler, for this device or another, comes in between.      *)
StopTakesEffect ==
  \A t \in Vids \X Slots \X Roles :
    looping[t] > 0 /\ ~is_running_[t[2]] /\ NoneCreated(t[2])
      ~> looping[t] = 0 \/ ~NoneCreated(t[2])

=============================================================================
