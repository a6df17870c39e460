---------------------------- MODULE LoopbackProofs ----------------------------
(***************************************************************************)
(* Theorems about Loopback, for any devices, number of pairs, size of the  *)
(* socket, number of threads, and whatever guests do.                      *)
(***************************************************************************)
EXTENDS Loopback, SequenceTheorems, TLAPS

LEMMA QueueFacts ==
  /\ Queues \subseteq Nat
  /\ 0 \in Queues
  /\ 1 \in Queues
  BY MaxPairsAssumption DEF Queues

-----------------------------------------------------------------------------
(* Records and the socket.                                                  *)

SockOK == sock \in Seq(PortDeviceRingState) /\ Len(sock) <= SockCap

LEMMA NotificationType ==
  ASSUME NEW meta \in {0, 1}, NEW v \in Vids, NEW q \in Queues, NEW e \in {0, 1},
         port_cntr_ \in Nat
  PROVE  notify_port_controller(meta, v, q, e) \in PortDeviceRingState
  BY DEF notify_port_controller, PortDeviceRingState

LEMMA ReportedType ==
  ASSUME NEW v \in Vids, NEW q \in Queues, NEW e \in BOOLEAN,
         NEW out \in Seq(PortDeviceRingState), port_cntr_ \in Nat
  PROVE  Reported(v, q, e, out) \in Seq(PortDeviceRingState)
<1>1. flag(e) \in {0, 1}
  BY DEF flag
<1>2. notify_port_controller(0, v, q, flag(e)) \in PortDeviceRingState
  BY <1>1, NotificationType
<1> QED
  BY <1>2, AppendProperties DEF Reported

LEMMA ReceiveType ==
  ASSUME SockOK, Receive
  PROVE  /\ SockOK'
         /\ Head(sock) \in PortDeviceRingState
<1>1. /\ sock # <<>>
      /\ sock' = Tail(sock)
  BY DEF Receive
<1>2. /\ Head(sock) \in PortDeviceRingState
      /\ Tail(sock) \in Seq(PortDeviceRingState)
      /\ Len(Tail(sock)) = Len(sock) - 1
  BY <1>1, HeadTailProperties DEF SockOK
<1> QED
  BY <1>1, <1>2, LenProperties, SockCapAssumption DEF SockOK

-----------------------------------------------------------------------------
(* The port map.                                                            *)

IsPortMap(pm, n) ==
  /\ DOMAIN pm \subseteq 0 .. (n - 1)
  /\ \A p \in DOMAIN pm : pm[p] \in PortEntry

LEMMA SetQueueStateType ==
  ASSUME NEW pm, NEW n \in Nat, IsPortMap(pm, n),
         NEW port_id, NEW q, NEW enable \in BOOLEAN
  PROVE  IsPortMap(set_queue_state(pm, port_id, q, enable), n)
<1> DEFINE new == set_queue_state(pm, port_id, q, enable)
<1>1. CASE ~(port_id \in DOMAIN pm /\ q \in Covered(pm[port_id]))
  BY <1>1 DEF set_queue_state
<1>2. CASE port_id \in DOMAIN pm /\ q \in Covered(pm[port_id])
  <2>1. new = [pm EXCEPT ![port_id].enabled[q] = enable]
    BY <1>2 DEF set_queue_state
  <2>2. DOMAIN new = DOMAIN pm
    BY <2>1
  <2>3. ASSUME NEW p \in DOMAIN pm
        PROVE  new[p] \in PortEntry
    <3>1. pm[p] \in PortEntry
      BY DEF IsPortMap
    <3>2. CASE p = port_id
      BY <3>1, <3>2, <2>1 DEF PortEntry
    <3>3. CASE p # port_id
      BY <3>1, <3>3, <2>1
    <3> QED
      BY <3>2, <3>3
  <2> QED
    BY <2>2, <2>3 DEF IsPortMap
<1> QED
  BY <1>1, <1>2

LEMMA InitVhostDeviceType ==
  ASSUME NEW pm, NEW n \in Nat, IsPortMap(pm, n),
         NEW v \in Vids, NEW pairs \in Slots \cup {MaxPairs}
  PROVE  IsPortMap(init_vhost_device(pm, n, v, pairs), n + 1)
<1> DEFINE old == IF n \in DOMAIN pm THEN pm[n].enabled ELSE [q \in Queues |-> FALSE]
           new == [vid |-> v, nof_queue_pairs |-> pairs,
                   enabled |-> [q \in Queues |-> q >= 2 * pairs /\ old[q]]]
           all == init_vhost_device(pm, n, v, pairs)
<1>1. n \notin DOMAIN pm
  BY DEF IsPortMap
<1>2. \A q \in Queues : old[q] \in BOOLEAN
  BY <1>1
<1>3. new \in PortEntry
  BY <1>2 DEF PortEntry
<1>4. all = [p \in DOMAIN pm \cup {n} |-> IF p = n THEN new ELSE pm[p]]
  BY DEF init_vhost_device
<1>5. DOMAIN all \subseteq 0 .. n
  BY <1>4 DEF IsPortMap
<1>6. \A p \in DOMAIN all : all[p] \in PortEntry
  BY <1>3, <1>4 DEF IsPortMap
<1> QED
  BY <1>5, <1>6 DEF IsPortMap

LEMMA ClearDeviceType ==
  ASSUME NEW pm, NEW n \in Nat, IsPortMap(pm, n), NEW v
  PROVE  IsPortMap(clear_device(pm, v), n)
  BY DEF IsPortMap, clear_device

-----------------------------------------------------------------------------
(* The callbacks.                                                           *)

VhostOK == VhostTypeOK /\ SockOK

LEMMA RegisteredType ==
  ASSUME VhostTypeOK, NEW v \in Vids, NEW count \in 2 .. 2 * MaxPairs
  PROVE  IsPortMap(Registered(v, count), port_cntr_ + 1)
<1> DEFINE bound == init_vhost_device(portmap, port_cntr_, v, count \div 2)
<1>1. IsPortMap(portmap, port_cntr_) /\ port_cntr_ \in Nat
  BY MaxPortsAssumption DEF VhostTypeOK, IsPortMap
<1>2. count \div 2 \in Slots \cup {MaxPairs}
  BY MaxPairsAssumption DEF Slots
<1>3. IsPortMap(bound, port_cntr_ + 1)
  BY <1>1, <1>2, InitVhostDeviceType
<1>4. port_cntr_ + 1 \in Nat /\ TRUE \in BOOLEAN
  BY <1>1
<1> HIDE DEF bound
<1>5. IsPortMap(set_queue_state(bound, v, 0, TRUE), port_cntr_ + 1)
  BY <1>3, <1>4, SetQueueStateType
<1>6. IsPortMap(set_queue_state(set_queue_state(bound, v, 0, TRUE), v, 1, TRUE),
                port_cntr_ + 1)
  BY <1>4, <1>5, SetQueueStateType
<1> QED
  BY <1>6 DEF Registered, bound

LEMMA NewDeviceType ==
  ASSUME VhostOK, NEW v \in Vids, NewDevice(v)
  PROVE  VhostOK'
<1>1. PICK count \in 2 .. 2 * MaxPairs : on_new_device(v, count)
  BY DEF NewDevice
<1>2. port_cntr_ \in Nat /\ port_cntr_ < MaxPorts /\ port_cntr_' = port_cntr_ + 1
  BY <1>1, MaxPortsAssumption DEF VhostOK, VhostTypeOK, NewDevice, on_new_device
<1>3. IsPortMap(portmap', port_cntr_')
  BY <1>1, <1>2, RegisteredType DEF VhostOK, on_new_device
<1>4. /\ notify_port_controller(0, v, 0, 1) \in PortDeviceRingState
      /\ notify_port_controller(0, v, 1, 1) \in PortDeviceRingState
  BY <1>2, QueueFacts, NotificationType
<1>5. SockOK'
  BY <1>1, <1>4, AppendProperties DEF VhostOK, SockOK, on_new_device, Fits
<1>6. VhostTypeOK'
  BY <1>2, <1>3, MaxPortsAssumption DEF VhostOK, VhostTypeOK, NewDevice, IsPortMap
<1> QED
  BY <1>5, <1>6 DEF VhostOK

LEMMA VringStateType ==
  ASSUME VhostOK, NEW v \in Vids, NEW q \in Queues, NEW e \in BOOLEAN,
         on_vring_state_changed(v, q, e)
  PROVE  /\ SockOK'
         /\ IsPortMap(portmap', port_cntr_')
         /\ UNCHANGED port_cntr_
<1>1. IsPortMap(portmap, port_cntr_) /\ port_cntr_ \in Nat
  BY MaxPortsAssumption DEF VhostOK, VhostTypeOK, IsPortMap
<1>2. UNCHANGED port_cntr_
  BY DEF on_vring_state_changed
<1>3. IsPortMap(portmap', port_cntr_')
  BY <1>1, <1>2, SetQueueStateType DEF on_vring_state_changed
<1>4. sock' \in Seq(PortDeviceRingState)
  BY <1>1, ReportedType DEF VhostOK, SockOK, on_vring_state_changed
<1> QED
  BY <1>2, <1>3, <1>4 DEF SockOK, on_vring_state_changed, Fits

LEMMA QueueChangeType ==
  ASSUME VhostOK, NEW v \in Vids, NEW q \in Queues,
         QueueUp(v, q) \/ QueueDown(v, q)
  PROVE  VhostOK'
<1>1. PICK e \in BOOLEAN : /\ on_vring_state_changed(v, q, e)
                           /\ ring_up' = [ring_up EXCEPT ![v][q] = e]
                           /\ UNCHANGED dev
  BY DEF QueueUp, QueueDown
<1>2. /\ SockOK'
      /\ IsPortMap(portmap', port_cntr_')
      /\ UNCHANGED port_cntr_
  BY <1>1, VringStateType
<1> QED
  BY <1>1, <1>2 DEF VhostOK, VhostTypeOK, IsPortMap

LEMMA StopDeviceType ==
  ASSUME VhostOK, NEW v \in Vids, NEW q \in Queues, StopDevice(v, q)
  PROVE  VhostOK'
<1>1. IsPortMap(portmap, port_cntr_) /\ port_cntr_ \in Nat
  BY MaxPortsAssumption DEF VhostOK, VhostTypeOK, IsPortMap
<1>2. IsPortMap(portmap', port_cntr_')
  BY <1>1, ClearDeviceType, SetQueueStateType DEF StopDevice
<1>3. Append(sock, notify_port_controller(1, v, 0, 0)) \in Seq(PortDeviceRingState)
  BY <1>1, QueueFacts, NotificationType, AppendProperties DEF VhostOK, SockOK
<1>4. SockOK'
  BY <1>1, <1>3, ReportedType DEF StopDevice, SockOK, Fits
<1> QED
  BY <1>2, <1>4 DEF VhostOK, VhostTypeOK, StopDevice, IsPortMap

LEMMA DisconnectType ==
  ASSUME VhostOK, NEW v \in Vids, Disconnect(v)
  PROVE  VhostOK'
<1>1. IsPortMap(portmap, port_cntr_) /\ port_cntr_ \in Nat
  BY MaxPortsAssumption DEF VhostOK, VhostTypeOK, IsPortMap
<1>2. Append(sock, notify_port_controller(1, v, 0, 0)) \in Seq(PortDeviceRingState)
  BY <1>1, QueueFacts, NotificationType, AppendProperties DEF VhostOK, SockOK
<1>3. SockOK' /\ IsPortMap(portmap', port_cntr_') /\ UNCHANGED port_cntr_
  <2>1. CASE dev[v] = "running"
    BY <1>1, <1>2, <2>1, ClearDeviceType DEF Disconnect, on_destroy_device, SockOK, Fits
  <2>2. CASE dev[v] # "running"
    BY <1>1, <2>2 DEF Disconnect, VhostOK, SockOK
  <2> QED
    BY <2>1, <2>2
<1> QED
  BY <1>3 DEF VhostOK, VhostTypeOK, Disconnect, IsPortMap, NoRings

LEMMA VhostType ==
  ASSUME VhostOK, VhostNext
  PROVE  VhostOK'
<1>1. ASSUME NEW v \in Vids, Connect(v) PROVE VhostOK'
  BY <1>1 DEF VhostOK, VhostTypeOK, Connect, SockOK
<1> QED
  BY <1>1, NewDeviceType, QueueChangeType, StopDeviceType, DisconnectType DEF VhostNext

-----------------------------------------------------------------------------
(* The port controller and its handlers.                                    *)

Threads == Vids \X Slots \X Roles

LEMMA NameType ==
  ASSUME NEW k \in Objects, NEW v \in Vids, NEW rx \in Queues, NEW tx \in Queues
  PROVE  Name(k, v, rx, tx) \in Zone
  BY DEF Name, Zone

LEMMA StartType ==
  ASSUME HandlerTypeOK, NEW h \in Slots, NEW v \in Vids,
         NEW rx \in Queues, NEW tx \in Queues, start(h, v, rx, tx)
  PROVE  HandlerTypeOK'
<1> DEFINE fresh == [k \in Objects |-> Name(k, v, rx, tx)]
<1>1. PICK done \in 0 .. 3 :
        /\ CreatesObjects(h, fresh, done)
        /\ created' = [t \in Threads |->
                         IF done = 3 /\ t[1] = v /\ t[2] = h THEN created[t] + 1
                                                             ELSE created[t]]
        /\ UNCHANGED <<is_running_, looping>>
  BY DEF start, Threads
<1>2. \A k \in Objects : fresh[k] \in Zone
  BY NameType
<1>3. zones' \subseteq Zone
  <2>1. \A k \in 1 .. done : k \in Objects
    BY DEF Objects
  <2> HIDE DEF fresh
  <2> QED
    BY <1>1, <1>2, <2>1 DEF CreatesObjects, HandlerTypeOK
<1>4. held' \in [Slots -> [Objects -> Zone \cup {Null}]]
  BY <1>1, <1>2 DEF CreatesObjects, HandlerTypeOK
<1>5. created' \in [Threads -> Nat]
  BY <1>1 DEF HandlerTypeOK, Threads
<1> QED
  BY <1>1, <1>3, <1>4, <1>5 DEF HandlerTypeOK, Threads

LEMMA WorkerType ==
  ASSUME HandlerTypeOK, NEW t \in Threads, Worker(t)
  PROVE  HandlerTypeOK'
<1>0. t[2] \in Slots
  BY DEF Threads
<1>1. CASE WorkerBegin(t)
  BY <1>0, <1>1 DEF WorkerBegin, HandlerTypeOK, Threads
<1>2. CASE WorkerExit(t)
  BY <1>2 DEF WorkerExit, HandlerTypeOK, Threads
<1> QED
  BY <1>1, <1>2 DEF Worker

(* An odd queue is the tx queue of the slot it is handed to. *)
LEMMA OddQueue ==
  ASSUME NEW q \in Queues, ~is_even(q)
  PROVE  /\ q \div 2 \in Slots
         /\ q - 1 \in Queues
         /\ q - 1 = rxq(q \div 2)
         /\ q = txq(q \div 2)
  BY MaxPairsAssumption DEF Queues, Slots, is_even, rxq, txq

LEMMA NotificationHandled ==
  ASSUME HandlerTypeOK, PortTypeOK, NEW pdrs \in PortDeviceRingState,
         process_notification(pdrs)
  PROVE  HandlerTypeOK' /\ pmap_' \in [Vids -> [Queues -> {-1, 0, 1}]]
<1>0. /\ pdrs.device_id \in Vids
      /\ pdrs.qid \in Queues
      /\ pdrs.enable \in {0, 1}
  BY DEF PortDeviceRingState
<1>1. CASE DeviceRemoved(pdrs)
  BY <1>1 DEF DeviceRemoved, StopAll, HandlerTypeOK, PortTypeOK
<1>2. CASE OnlyRecorded(pdrs)
  BY <1>0, <1>2 DEF OnlyRecorded, Record, handlerVars, HandlerTypeOK, PortTypeOK
<1>3. CASE PairReady(pdrs)
  <2>1. HandlerOf(pdrs) \in Slots /\ pdrs.qid - 1 \in Queues
    BY <1>0, <1>3, OddQueue DEF PairReady, CompletesPair, StartPair, HandlerOf
  <2>2. HandlerTypeOK'
    BY <1>0, <1>3, <2>1, StartType DEF PairReady, StartPair
  <2> QED
    BY <1>0, <1>3, <2>2 DEF PairReady, Record, PortTypeOK
<1> QED
  BY <1>1, <1>2, <1>3 DEF process_notification

-----------------------------------------------------------------------------
(* Type correctness: the whole program keeps every variable in its type,   *)
(* and the socket within the buffer of the kernel.                         *)

LEMMA InitType == Init => TypeOK
<1> SUFFICES ASSUME Init PROVE TypeOK
  OBVIOUS
<1>1. VhostTypeOK
  BY MaxPortsAssumption DEF Init, VhostInit, VhostTypeOK, NoRings, EmptyMap
<1>2. PortTypeOK
  BY DEF Init, PortInit, PortTypeOK, Unheard
<1>3. HandlerTypeOK
  BY DEF Init, HandlerInit, HandlerTypeOK
<1>4. sock \in Seq(PortDeviceRingState) /\ Len(sock) <= SockCap
  BY SockCapAssumption DEF Init, SockInit
<1> QED
  BY <1>1, <1>2, <1>3, <1>4 DEF TypeOK

LEMMA NextType == TypeOK /\ [Next]_vars => TypeOK'
<1> SUFFICES ASSUME TypeOK, [Next]_vars PROVE TypeOK'
  OBVIOUS
<1>0. VhostOK /\ SockOK /\ PortTypeOK /\ HandlerTypeOK
  BY DEF TypeOK, VhostOK, SockOK
<1>1. CASE Vhost
  <2>1. VhostOK'
    BY <1>0, <1>1, VhostType DEF Vhost
  <2>2. PortTypeOK' /\ HandlerTypeOK'
    BY <1>0, <1>1 DEF Vhost, portVars, handlerVars, PortTypeOK, HandlerTypeOK
  <2> QED
    BY <2>1, <2>2 DEF TypeOK, VhostOK, SockOK
<1>2. CASE Epoll
  <2>0. VhostTypeOK'
    BY <1>0, <1>2 DEF Epoll, vhostVars, VhostOK, VhostTypeOK
  <2>1. CASE EpollAccept
    BY <1>0, <2>0, <2>1 DEF EpollAccept, handlerVars, TypeOK, PortTypeOK, HandlerTypeOK
  <2>2. CASE EpollRead
    <3>1. SockOK' /\ Head(sock) \in PortDeviceRingState
      BY <1>0, <2>2, ReceiveType DEF EpollRead
    <3>2. HandlerTypeOK' /\ pmap_' \in [Vids -> [Queues -> {-1, 0, 1}]]
      BY <1>0, <2>2, <3>1, NotificationHandled DEF EpollRead
    <3> QED
      BY <1>0, <2>0, <2>2, <3>1, <3>2 DEF EpollRead, TypeOK, PortTypeOK, SockOK
  <2> QED
    BY <1>2, <2>1, <2>2 DEF Epoll, EpollWorker
<1>3. ASSUME NEW t \in Threads, WorkerStep(t) PROVE TypeOK'
  <2>1. HandlerTypeOK'
    BY <1>0, <1>3, WorkerType DEF WorkerStep
  <2> QED
    BY <1>0, <1>3, <2>1
    DEF WorkerStep, vhostVars, portVars, TypeOK, VhostTypeOK, PortTypeOK
<1>4. CASE UNCHANGED vars
  BY <1>0, <1>4
  DEF vars, vhostVars, portVars, handlerVars, TypeOK, VhostTypeOK, PortTypeOK, HandlerTypeOK
<1> QED
  BY <1>1, <1>2, <1>3, <1>4 DEF Next, Threads

THEOREM TypeCorrect == Spec => []TypeOK
  BY InitType, NextType, PTL DEF Spec

=============================================================================
