---------------------------- MODULE OrderlyProofs ----------------------------
(***************************************************************************)
(* When guests only come up, and in order, and DPDK has memory, every pair *)
(* is served.  Both conditions are needed: the runs "unordered" and        *)
(* "devices" show what happens without them.                               *)
(*                                                                         *)
(* The port controller starts a pair only when its odd queue is the one    *)
(* that completes it.  So what must be shown is an order: no record about  *)
(* a tx queue is ever in the socket unless the rx queue of its pair has    *)
(* been recorded, or is recorded by a record in front of it.               *)
(***************************************************************************)
EXTENDS ServiceProofs, ReportProofs

(* Every record is a report that a queue is up. *)
OnlyUp(s) == \A i \in 1 .. Len(s) : s[i].meta = 0 /\ s[i].enable = 1

(* In s, the tx queue of v's pair h comes after its rx queue. *)
Led(s, known, v, h) ==
  \A i \in 1 .. Len(s) : Reports(s[i], v, txq(h)) =>
    known = 1 \/ \E j \in 1 .. i - 1 : Reports(s[j], v, rxq(h))

SocketOrdered ==
  /\ OnlyUp(sock)
  /\ \A v \in Vids : \A h \in Slots : Led(sock, pmap_[v][rxq(h)], v, h)

(* Neither a name nor the record of a tx queue is there without workers,   *)
(* and no worker finds its flag low.                                       *)
WorkersStay ==
  /\ \A v \in Vids : \A h \in Slots :
       \/ /\ \A k \in Objects : Name(k, v, rxq(h), txq(h)) \notin zones
          /\ pmap_[v][txq(h)] # 1
       \/ AtWork(v, h) = Roles
  /\ \A t \in Threads : looping[t] > 0 => is_running_[t[2]]

-----------------------------------------------------------------------------
(* The two ends of the socket.                                              *)

LEMMA PairQueues ==
  ASSUME NEW h \in Slots
  PROVE  /\ rxq(h) \in Queues /\ txq(h) \in Queues
         /\ rxq(h) = txq(h) - 1 /\ rxq(h) < txq(h)
         /\ ~is_even(txq(h)) /\ is_even(rxq(h))
  BY MaxPairsAssumption DEF Slots, Queues, rxq, txq, is_even

LEMMA AppendOnlyUp ==
  ASSUME NEW s \in Seq(PortDeviceRingState), NEW r \in PortDeviceRingState,
         OnlyUp(s), r.meta = 0, r.enable = 1
  PROVE  OnlyUp(Append(s, r))
  BY AppendProperties DEF OnlyUp

LEMMA AppendLed ==
  ASSUME NEW s \in Seq(PortDeviceRingState), NEW r \in PortDeviceRingState,
         NEW known, NEW v, NEW h, Led(s, known, v, h),
         Reports(r, v, txq(h)) =>
           known = 1 \/ \E j \in 1 .. Len(s) : Reports(s[j], v, rxq(h))
  PROVE  Led(Append(s, r), known, v, h)
<1> DEFINE t == Append(s, r)
<1>1. /\ Len(t) = Len(s) + 1
      /\ Len(s) \in Nat
      /\ \A i \in 1 .. Len(s) : t[i] = s[i]
      /\ t[Len(t)] = r
  BY AppendProperties
<1> HIDE DEF t
<1> SUFFICES ASSUME NEW i \in 1 .. Len(t), Reports(t[i], v, txq(h))
             PROVE  known = 1 \/ \E j \in 1 .. i - 1 : Reports(t[j], v, rxq(h))
  BY DEF Led, t
<1>2. CASE i = Len(t)
  <2>1. known = 1 \/ \E j \in 1 .. Len(s) : Reports(s[j], v, rxq(h))
    BY <1>1, <1>2
  <2> QED
    BY <1>1, <1>2, <2>1
<1>3. CASE i # Len(t)
  <2>1. i \in 1 .. Len(s) /\ Reports(s[i], v, txq(h))
    BY <1>1, <1>3
  <2>2. known = 1 \/ \E j \in 1 .. i - 1 : Reports(s[j], v, rxq(h))
    BY <2>1 DEF Led
  <2>3. \A j \in 1 .. i - 1 : t[j] = s[j]
    BY <1>1, <2>1
  <2> QED
    BY <2>2, <2>3
<1> QED
  BY <1>2, <1>3

LEMMA TailOrdered ==
  ASSUME NEW s \in Seq(PortDeviceRingState), s # <<>>, OnlyUp(s),
         NEW known, NEW later, NEW v, NEW h, Led(s, known, v, h),
         later = IF Reports(Head(s), v, rxq(h)) THEN 1 ELSE known
  PROVE  OnlyUp(Tail(s)) /\ Led(Tail(s), later, v, h)
<1> DEFINE t == Tail(s)
<1>1. /\ Len(t) = Len(s) - 1
      /\ Len(s) \in Nat \ {0}
      /\ \A i \in 1 .. Len(t) : t[i] = s[i + 1]
      /\ Head(s) = s[1]
  BY HeadTailProperties
<1> HIDE DEF t
<1>2. OnlyUp(t)
  BY <1>1 DEF OnlyUp
<1>3. ASSUME NEW i \in 1 .. Len(t), Reports(t[i], v, txq(h)), later # 1
      PROVE  \E j \in 1 .. i - 1 : Reports(t[j], v, rxq(h))
  <2>1. i + 1 \in 1 .. Len(s) /\ Reports(s[i + 1], v, txq(h)) /\ known # 1
    BY <1>1, <1>3
  <2>2. PICK j \in 1 .. i : Reports(s[j], v, rxq(h))
    BY <2>1 DEF Led
  <2>3. j # 1
    BY <1>1, <1>3, <2>2
  <2>4. j - 1 \in 1 .. i - 1 /\ j - 1 \in 1 .. Len(t) /\ (j - 1) + 1 = j
    BY <1>1, <2>2, <2>3
  <2>5. t[j - 1] = s[j]
    BY <1>1, <2>4
  <2> QED
    BY <2>2, <2>4, <2>5
<1> QED
  BY <1>2, <1>3 DEF Led, t

LEMMA LastWordLeads ==
  ASSUME NEW s, NEW known, NEW v, NEW q, LastWordUp(s, known, v, q)
  PROVE  known = 1 \/ \E j \in 1 .. Len(s) : Reports(s[j], v, q)
  BY DEF LastWordUp

-----------------------------------------------------------------------------
(* What guests do when all they do is come up.                              *)

LEMMA QueueUpOrdered ==
  ASSUME TypeOK, ReportInv, SocketOrdered, Guest = {},
         NEW v \in Vids, NEW q \in Queues, QueueUp(v, q), UNCHANGED pmap_
  PROVE  SocketOrdered'
<1> DEFINE r == notify_port_controller(0, v, q, 1)
<1>0. sock \in Seq(PortDeviceRingState) /\ port_cntr_ \in Nat
  BY MaxPortsAssumption DEF TypeOK, VhostTypeOK
<1>1. r \in PortDeviceRingState /\ r.meta = 0 /\ r.enable = 1
  BY <1>0, NotificationType DEF notify_port_controller
<1>2. \A w, p : Reports(r, w, p) <=> w = v /\ p = q
  BY NotificationReports
<1>3. sock' = IF q >= 2 THEN Append(sock, r) ELSE sock
  BY DEF QueueUp, on_vring_state_changed, Reported, flag
<1> HIDE DEF r
<1>4. \A p \in Queues : p < q => ring_up[v][p]
  BY DEF QueueUp
<1>5. CASE q >= 2
  <2>1. OnlyUp(sock')
    BY <1>0, <1>1, <1>3, <1>5, AppendOnlyUp DEF SocketOrdered
  <2>2. ASSUME NEW w \in Vids, NEW h \in Slots
        PROVE  Led(sock', pmap_[w][rxq(h)], w, h)
    <3>1. ASSUME Reports(r, w, txq(h))
          PROVE  \/ pmap_[w][rxq(h)] = 1
                 \/ \E j \in 1 .. Len(sock) : Reports(sock[j], w, rxq(h))
      <4>1. w = v /\ q = txq(h)
        BY <1>2, <3>1
      <4>2. rxq(h) \in Queues /\ rxq(h) < q /\ rxq(h) >= 2
        BY <1>5, <4>1, PairQueues DEF rxq, txq, Slots
      <4>3. ReportedUp(w, rxq(h))
        <5>1. ring_up[w][rxq(h)]
          BY <1>4, <4>1, <4>2, Zenon
        <5>2. ~(rxq(h) < 2)
          BY <4>2, MaxPairsAssumption DEF Queues
        <5> QED
          BY <5>1, <5>2 DEF ReportedUp
      <4>4. LastWordUp(sock, pmap_[w][rxq(h)], w, rxq(h))
        BY <4>2, <4>3 DEF ReportInv
      <4> QED
        BY <4>4, LastWordLeads
    <3>2. Led(sock, pmap_[w][rxq(h)], w, h)
      BY DEF SocketOrdered
    <3> QED
      BY <1>0, <1>1, <1>3, <1>5, <3>1, <3>2, AppendLed
  <2> QED
    BY <2>1, <2>2 DEF SocketOrdered
<1>6. CASE ~(q >= 2)
  BY <1>3, <1>6 DEF SocketOrdered
<1> QED
  BY <1>5, <1>6

LEMMA NewDeviceOrdered ==
  ASSUME TypeOK, SocketOrdered, NEW v \in Vids, NewDevice(v), UNCHANGED pmap_
  PROVE  SocketOrdered'
<1> DEFINE r0 == notify_port_controller(0, v, 0, 1)
           r1 == notify_port_controller(0, v, 1, 1)
           one == Append(sock, r0)
<1>0. sock \in Seq(PortDeviceRingState) /\ port_cntr_ \in Nat
  BY MaxPortsAssumption DEF TypeOK, VhostTypeOK
<1>1. /\ r0 \in PortDeviceRingState /\ r0.meta = 0 /\ r0.enable = 1
      /\ r1 \in PortDeviceRingState /\ r1.meta = 0 /\ r1.enable = 1
  BY <1>0, QueueFacts, NotificationType DEF notify_port_controller
<1>2. \A w, p : /\ Reports(r0, w, p) <=> w = v /\ p = 0
                /\ Reports(r1, w, p) <=> w = v /\ p = 1
  BY QueueFacts, NotificationReports
<1>3. sock' = Append(one, r1)
  BY DEF NewDevice, on_new_device
<1> HIDE DEF r0, r1
<1>4. /\ one \in Seq(PortDeviceRingState)
      /\ Len(one) = Len(sock) + 1 /\ Len(sock) \in Nat
      /\ one[Len(sock) + 1] = r0
  BY <1>0, <1>1, AppendProperties
<1>5. OnlyUp(one)
  BY <1>0, <1>1, AppendOnlyUp DEF SocketOrdered
<1>6. ASSUME NEW w \in Vids, NEW h \in Slots
      PROVE  Led(sock', pmap_[w][rxq(h)], w, h)
  <2>1. ~Reports(r0, w, txq(h))
    BY <1>2 DEF txq, Slots
  <2>2. Led(sock, pmap_[w][rxq(h)], w, h)
    BY DEF SocketOrdered
  <2>3. Led(one, pmap_[w][rxq(h)], w, h)
    BY <1>0, <1>1, <2>1, <2>2, AppendLed
  <2>4. ASSUME Reports(r1, w, txq(h))
        PROVE  \E j \in 1 .. Len(one) : Reports(one[j], w, rxq(h))
    <3>1. w = v /\ rxq(h) = 0
      BY <1>2, <2>4 DEF rxq, txq, Slots
    <3>2. Reports(one[Len(sock) + 1], w, rxq(h))
      BY <1>2, <1>4, <3>1
    <3> QED
      BY <1>4, <3>2
  <2> HIDE DEF one
  <2> QED
    BY <1>1, <1>3, <1>4, <2>3, <2>4, AppendLed
<1> HIDE DEF one
<1>7. OnlyUp(sock')
  BY <1>1, <1>3, <1>4, <1>5, AppendOnlyUp
<1> QED
  BY <1>6, <1>7 DEF SocketOrdered

LEMMA VhostOrdered ==
  ASSUME TypeOK, ReportInv, SocketOrdered, Guest = {}, VhostNext, UNCHANGED pmap_
  PROVE  SocketOrdered'
<1>1. ASSUME NEW v \in Vids, Connect(v) PROVE SocketOrdered'
  BY <1>1 DEF Connect, SocketOrdered
<1>2. \A v \in Vids : ~Disconnect(v) /\ \A q \in Queues : ~QueueDown(v, q) /\ ~StopDevice(v, q)
  BY DEF Disconnect, QueueDown, StopDevice
<1> QED
  BY <1>1, <1>2, QueueUpOrdered, NewDeviceOrdered DEF VhostNext

-----------------------------------------------------------------------------
(* What reading a record does to order and workers.                         *)

LEMMA HeadIsReport ==
  ASSUME TypeOK, SocketOrdered, EpollRead
  PROVE  /\ Head(sock) \in PortDeviceRingState
         /\ Head(sock).meta = 0 /\ Head(sock).enable = 1
         /\ \A v \in Vids : \A q \in Queues :
              pmap_'[v][q] = IF Reports(Head(sock), v, q) THEN 1 ELSE pmap_[v][q]
         /\ OnlyRecorded(Head(sock)) \/ PairReady(Head(sock))
<1>1. sock \in Seq(PortDeviceRingState) /\ sock # <<>> /\ Head(sock) \in PortDeviceRingState
  BY ReceiveType DEF EpollRead, Receive, TypeOK, SockOK
<1>2. Head(sock).meta = 0 /\ Head(sock).enable = 1
  <2>1. Head(sock) = sock[1] /\ 1 \in 1 .. Len(sock)
    BY <1>1, HeadTailProperties
  <2> QED
    BY <2>1 DEF SocketOrdered, OnlyUp
<1>3. OnlyRecorded(Head(sock)) \/ PairReady(Head(sock))
  BY <1>2 DEF EpollRead, process_notification, DeviceRemoved
<1>4. Record(Head(sock))
  BY <1>3 DEF OnlyRecorded, PairReady
<1>5. pmap_ \in [Vids -> [Queues -> {-1, 0, 1}]]
  BY DEF TypeOK, PortTypeOK
<1>6. Head(sock).device_id \in Vids /\ Head(sock).qid \in Queues
  BY <1>1 DEF PortDeviceRingState
<1>7. \A v \in Vids : \A q \in Queues :
        pmap_'[v][q] = IF Reports(Head(sock), v, q) THEN 1 ELSE pmap_[v][q]
  BY <1>2, <1>4, <1>5, <1>6 DEF Record, Reports
<1> QED
  BY <1>1, <1>2, <1>3, <1>7

LEMMA ReadOrdered ==
  ASSUME TypeOK, SocketOrdered, EpollRead
  PROVE  SocketOrdered'
<1>1. sock \in Seq(PortDeviceRingState) /\ sock # <<>> /\ sock' = Tail(sock)
  BY DEF EpollRead, Receive, TypeOK
<1>2. ASSUME NEW v \in Vids, NEW h \in Slots
      PROVE  OnlyUp(sock') /\ Led(sock', pmap_'[v][rxq(h)], v, h)
  <2>1. pmap_'[v][rxq(h)] =
          IF Reports(Head(sock), v, rxq(h)) THEN 1 ELSE pmap_[v][rxq(h)]
    BY HeadIsReport, PairQueues
  <2> QED
    BY <1>1, <2>1, TailOrdered DEF SocketOrdered
<1>3. OnlyUp(sock')
  <2>1. /\ Len(Tail(sock)) = Len(sock) - 1
        /\ Len(sock) \in Nat
        /\ \A i \in 1 .. Len(Tail(sock)) : Tail(sock)[i] = sock[i + 1]
    BY <1>1, HeadTailProperties
  <2> QED
    BY <1>1, <2>1 DEF SocketOrdered, OnlyUp
<1> QED
  BY <1>2, <1>3 DEF SocketOrdered

(* The record of a tx queue at the head completes its pair. *)
LEMMA TailQueueStarts ==
  ASSUME TypeOK, SocketOrdered, EpollRead, NEW v \in Vids, NEW h \in Slots,
         Reports(Head(sock), v, txq(h))
  PROVE  PairReady(Head(sock))
<1>1. sock # <<>> /\ Head(sock) = sock[1] /\ 1 \in 1 .. Len(sock)
  BY HeadTailProperties DEF EpollRead, Receive, TypeOK
<1>2. pmap_[v][rxq(h)] = 1
  BY <1>1 DEF SocketOrdered, Led
<1>3. pmap_[v] # Unheard
  BY <1>2, PairQueues DEF Unheard
<1>4. Head(sock).device_id = v /\ Head(sock).qid = txq(h)
  BY DEF Reports
<1>5. ~is_even(Head(sock).qid) /\ ready_(Head(sock))
  BY <1>2, <1>4, HeadIsReport, PairQueues DEF ready_, Partner
<1> QED
  BY <1>3, <1>4, <1>5, HeadIsReport DEF OnlyRecorded, CompletesPair

(* Workers that are there stay there. *)
LEMMA WorkersGrow ==
  ASSUME NEW v \in Vids, NEW h \in Slots, HandlerTypeOK, AtWork(v, h) = Roles,
         \A r \in Roles : LET t == <<v, h, r>> IN
           created'[t] + looping'[t] >= created[t] + looping[t]
           /\ created'[t] \in Nat /\ looping'[t] \in Nat
  PROVE  AtWork(v, h)' = Roles
<1>1. ASSUME NEW r \in Roles
      PROVE  created'[<<v, h, r>>] + looping'[<<v, h, r>>] > 0
  <2>1. created[<<v, h, r>>] + looping[<<v, h, r>>] > 0
    BY DEF AtWork
  <2>2. created[<<v, h, r>>] \in Nat /\ looping[<<v, h, r>>] \in Nat
    BY DEF HandlerTypeOK
  <2> QED
    BY <2>1, <2>2
<1> QED
  BY <1>1 DEF AtWork

LEMMA StartKeepsWorkers ==
  ASSUME HandlerTypeOK, WorkersStay, MayFail = FALSE,
         NEW g \in Slots, NEW d \in Vids, start(g, d, rxq(g), txq(g)),
         NEW v \in Vids, NEW h \in Slots,
         pmap_'[v][txq(h)] = pmap_[v][txq(h)] \/ (v = d /\ h = g)
  PROVE  \/ /\ \A k \in Objects : Name(k, v, rxq(h), txq(h)) \notin zones'
            /\ pmap_'[v][txq(h)] # 1
         \/ AtWork(v, h)' = Roles
<1>1. PICK done \in 0 .. 3 :
           /\ CreatesObjects(g, Fresh(g, d), done)
           /\ created' = [t \in Threads |->
                            IF done = 3 /\ t[1] = d /\ t[2] = g
                              THEN created[t] + 1 ELSE created[t]]
           /\ UNCHANGED <<is_running_, looping>>
  BY StartOutcome
<1>2. ASSUME NEW r \in Roles
      PROVE  LET t == <<v, h, r>> IN
             /\ created[t] \in Nat /\ looping[t] \in Nat
             /\ created'[t] \in Nat /\ looping'[t] \in Nat
             /\ created'[t] + looping'[t] >= created[t] + looping[t]
             /\ done = 3 /\ v = d /\ h = g => created'[t] + looping'[t] > 0
  BY <1>1 DEF HandlerTypeOK, Threads
<1>3. CASE AtWork(v, h) = Roles
  BY <1>2, <1>3, WorkersGrow
<1>4. CASE /\ \A k \in Objects : Name(k, v, rxq(h), txq(h)) \notin zones
           /\ pmap_[v][txq(h)] # 1
  <2>1. CASE v = d /\ h = g
    <3>1. done = 3
      <4>1. SUFFICES ASSUME done < 3 PROVE FALSE
        OBVIOUS
      <4>2. done + 1 \in Objects
        BY <4>1 DEF Objects
      <4>3. Fresh(g, d)[done + 1] = Name(done + 1, v, rxq(h), txq(h))
        BY <2>1, <4>2 DEF Fresh
      <4>4. Fresh(g, d)[done + 1] \in zones
        BY <1>1, <4>1 DEF CreatesObjects, Refused
      <4> QED
        BY <1>4, <4>2, <4>3, <4>4
    <3> QED
      BY <1>2, <2>1, <3>1 DEF AtWork
  <2>2. CASE ~(v = d /\ h = g)
    <3>1. ASSUME NEW k \in Objects, Name(k, v, rxq(h), txq(h)) \in zones'
          PROVE  FALSE
      <4>1. PICK l \in 1 .. done : Name(k, v, rxq(h), txq(h)) = Fresh(g, d)[l]
        BY <1>1, <1>4, <3>1 DEF CreatesObjects
      <4>2. l \in Objects
        BY DEF Objects
      <4>3. Name(k, v, rxq(h), txq(h)) = Name(l, d, rxq(g), txq(g))
        BY <4>1, <4>2 DEF Fresh
      <4> QED
        BY <2>2, <4>2, <4>3, NamesDiffer
    <3> QED
      BY <1>4, <2>2, <3>1
  <2> QED
    BY <2>1, <2>2
<1> QED
  BY <1>3, <1>4 DEF WorkersStay

LEMMA ReadKeepsWorkers ==
  ASSUME TypeOK, SocketOrdered, WorkersStay, MayFail = FALSE, EpollRead
  PROVE  WorkersStay'
<1> DEFINE pdrs == Head(sock)
<1>0. /\ HandlerTypeOK
      /\ pdrs \in PortDeviceRingState
      /\ pdrs.device_id \in Vids /\ pdrs.qid \in Queues
  BY HeadIsReport DEF TypeOK, PortDeviceRingState
<1>1. \A v \in Vids : \A h \in Slots :
        pmap_'[v][txq(h)] = IF Reports(pdrs, v, txq(h)) THEN 1 ELSE pmap_[v][txq(h)]
  BY HeadIsReport, PairQueues
<1>2. CASE OnlyRecorded(pdrs)
  <2>1. ASSUME NEW v \in Vids, NEW h \in Slots, Reports(pdrs, v, txq(h))
        PROVE  FALSE
    <3>1. PairReady(pdrs)
      BY <2>1, TailQueueStarts
    <3> QED
      BY <1>2, <3>1 DEF OnlyRecorded, PairReady
  <2> QED
    BY <1>1, <1>2, <2>1 DEF OnlyRecorded, handlerVars, WorkersStay, AtWork
<1>3. CASE PairReady(pdrs)
  <2>1. PICK g \in Slots :
          /\ pdrs.qid = txq(g)
          /\ start(g, pdrs.device_id, rxq(g), txq(g))
    BY <1>0, <1>3, OddQueue DEF PairReady, CompletesPair, StartPair, HandlerOf
  <2>2. ASSUME NEW v \in Vids, NEW h \in Slots
        PROVE  \/ /\ \A k \in Objects : Name(k, v, rxq(h), txq(h)) \notin zones'
                  /\ pmap_'[v][txq(h)] # 1
               \/ AtWork(v, h)' = Roles
    <3>1. pmap_'[v][txq(h)] = pmap_[v][txq(h)] \/ (v = pdrs.device_id /\ h = g)
      <4>1. Reports(pdrs, v, txq(h)) => v = pdrs.device_id /\ h = g
        BY <2>1 DEF Reports, txq, Slots
      <4> QED
        BY <1>1, <4>1
    <3> HIDE DEF pdrs
    <3> QED
      BY <1>0, <2>1, <3>1, StartKeepsWorkers
  <2>3. UNCHANGED <<is_running_, looping>>
    BY <2>1 DEF start
  <2> QED
    BY <2>2, <2>3 DEF WorkersStay
<1> QED
  BY <1>2, <1>3, HeadIsReport

(* A worker begins; none finds its flag low. *)
LEMMA WorkerStays ==
  ASSUME HandlerTypeOK, WorkersStay, NEW t \in Threads, Worker(t), UNCHANGED pmap_
  PROVE  WorkersStay'
<1>1. WorkerBegin(t)
  BY DEF Worker, WorkerExit, WorkersStay, Threads
<1>2. ASSUME NEW u \in Threads
      PROVE  /\ created[u] + looping[u] = created'[u] + looping'[u]
             /\ looping'[u] > 0 => u = t \/ looping[u] > 0
             /\ created'[u] \in Nat /\ looping'[u] \in Nat
  <2>1. created[u] \in Nat /\ looping[u] \in Nat /\ created[t] > 0
    BY <1>1 DEF WorkerBegin, HandlerTypeOK, Threads
  <2>2. /\ created'[u] = IF u = t THEN created[u] - 1 ELSE created[u]
        /\ looping'[u] = IF u = t THEN looping[u] + 1 ELSE looping[u]
    BY <1>1 DEF WorkerBegin, HandlerTypeOK, Threads
  <2> QED
    BY <2>1, <2>2
<1>3. ASSUME NEW v \in Vids, NEW h \in Slots, AtWork(v, h) = Roles
      PROVE  AtWork(v, h)' = Roles
  <2>1. \A r \in Roles : <<v, h, r>> \in Threads
    BY DEF Threads
  <2> QED
    BY <1>2, <1>3, <2>1 DEF AtWork
<1>4. ASSUME NEW u \in Threads, looping'[u] > 0 PROVE is_running_'[u[2]]
  <2>1. t[2] \in Slots /\ u[2] \in Slots
    BY DEF Threads
  <2>2. is_running_'[u[2]] = IF u[2] = t[2] THEN TRUE ELSE is_running_[u[2]]
    BY <1>1, <2>1 DEF WorkerBegin, HandlerTypeOK
  <2> QED
    BY <1>2, <1>4, <2>2 DEF WorkersStay
<1>5. zones' = zones
  BY <1>1 DEF WorkerBegin
<1> QED
  BY <1>3, <1>4, <1>5 DEF WorkersStay

-----------------------------------------------------------------------------
(* The theorem.                                                             *)

LEMMA InitOrdered == Init => SocketOrdered /\ WorkersStay
<1> SUFFICES ASSUME Init PROVE SocketOrdered /\ WorkersStay
  OBVIOUS
<1>1. SocketOrdered
  BY DEF Init, SockInit, SocketOrdered, OnlyUp, Led
<1>2. WorkersStay
  BY PairQueues DEF Init, PortInit, HandlerInit, Unheard, WorkersStay, Threads
<1> QED
  BY <1>1, <1>2

LEMMA NextOrdered ==
  ASSUME Guest = {}, MayFail = FALSE,
         TypeOK, ReportInv, SocketOrdered, WorkersStay, [Next]_vars
  PROVE  SocketOrdered' /\ WorkersStay'
<1>0. HandlerTypeOK
  BY DEF TypeOK
<1>1. CASE Vhost
  BY <1>1, VhostOrdered DEF Vhost, portVars, handlerVars, WorkersStay, AtWork
<1>2. CASE Epoll
  <2>1. CASE EpollAccept
    BY <2>1 DEF EpollAccept, handlerVars, SocketOrdered, WorkersStay, AtWork
  <2>2. CASE EpollRead
    BY <2>2, ReadOrdered, ReadKeepsWorkers
  <2> QED
    BY <1>2, <2>1, <2>2 DEF Epoll, EpollWorker
<1>3. CASE \E t \in Threads : WorkerStep(t)
  BY <1>0, <1>3, WorkerStays DEF WorkerStep, portVars, SocketOrdered
<1>4. CASE UNCHANGED vars
  BY <1>4 DEF vars, portVars, handlerVars, SocketOrdered, WorkersStay, AtWork
<1> QED
  BY <1>1, <1>2, <1>3, <1>4 DEF Next, Threads

(* Guests that only come up, and in order, get workers for every pair that *)
(* is up by the time the port controller has read all it was sent.         *)
THEOREM OrderlyGuestsAreServed ==
  ASSUME Guest = {}, MayFail = FALSE
  PROVE  Spec => []PairsServed
<1>1. TypeOK /\ ReportInv /\ SocketOrdered /\ WorkersStay /\ [Next]_vars
        => (SocketOrdered /\ WorkersStay)'
  BY NextOrdered
<1>2. ReportInv /\ WorkersStay => PairsServed
  <2> SUFFICES ASSUME ReportInv, WorkersStay, sock = <<>>,
                      NEW v \in Vids, NEW h \in Slots, PairUp(v, h)
               PROVE  AtWork(v, h) = Roles
    BY DEF PairsServed
  <2>1. ReportedUp(v, txq(h)) /\ txq(h) \in Queues
    BY PairQueues DEF PairUp, Up, ReportedUp
  <2>2. LastWordUp(<<>>, pmap_[v][txq(h)], v, txq(h))
    BY <2>1 DEF ReportInv
  <2>3. pmap_[v][txq(h)] = 1
    BY <2>2 DEF LastWordUp
  <2> QED
    BY <2>3 DEF WorkersStay
<1> QED
  BY <1>1, <1>2, InitOrdered, TypeCorrect, ReportInvariant, PTL DEF Spec

=============================================================================
