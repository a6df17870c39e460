----------------------------- MODULE ReportProofs -----------------------------
(***************************************************************************)
(* What the two receivers of a queue's state come to know: the port        *)
(* controller, from the notifications, and the config manager's map.       *)
(*                                                                         *)
(* UpIsSeen is not inductive: queue 0 or 1 of an announced device can go   *)
(* down and come up again without a record, so the last word on it must be *)
(* right also while it is down.  ReportInv says so.  In the other          *)
(* direction DownIsSeen is about the queues that are reported each time    *)
(* they change, and StopFollowsStart about the first pair.                 *)
(***************************************************************************)
EXTENDS LoopbackProofs

(* The last report of v's queue q was that it is up. *)
ReportedUp(v, q) == IF q < 2 THEN dev[v] = "running" ELSE ring_up[v][q]

ReportInv ==
  \A v \in Vids : \A q \in Queues :
    ReportedUp(v, q) => LastWordUp(sock, pmap_[v][q], v, q)

-----------------------------------------------------------------------------
(* The last word and the two ends of the socket.                            *)

LEMMA AppendKeeps ==
  ASSUME NEW s \in Seq(PortDeviceRingState), NEW r \in PortDeviceRingState,
         NEW known, NEW v, NEW q, LastWordUp(s, known, v, q),
         Reports(r, v, q) => r.enable = 1
  PROVE  LastWordUp(Append(s, r), known, v, q)
<1> DEFINE t == Append(s, r)
<1>1. /\ Len(t) = Len(s) + 1
      /\ Len(s) \in Nat
      /\ \A i \in 1 .. Len(s) : t[i] = s[i]
      /\ t[Len(t)] = r
  BY AppendProperties
<1> HIDE DEF t
<1>2. CASE Reports(r, v, q)
  <2>1. SilentFrom(Len(t) + 1, t, v, q)
    BY <1>1 DEF SilentFrom
  <2> QED
    BY <1>1, <1>2, <2>1 DEF LastWordUp, t
<1>3. CASE ~Reports(r, v, q)
  <2>1. ASSUME NEW i \in Nat \ {0}, SilentFrom(i, s, v, q) PROVE SilentFrom(i, t, v, q)
    <3>1. ASSUME NEW j \in i .. Len(t) PROVE ~Reports(t[j], v, q)
      <4>1. CASE j = Len(t)
        BY <1>1, <1>3, <4>1
      <4>2. CASE j # Len(t)
        <5>1. j \in i .. Len(s) /\ j \in 1 .. Len(s)
          BY <1>1, <4>2
        <5> QED
          BY <1>1, <2>1, <5>1 DEF SilentFrom
      <4> QED
        BY <4>1, <4>2
    <3> QED
      BY <3>1 DEF SilentFrom
  <2>2. CASE known = 1 /\ SilentFrom(1, s, v, q)
    BY <2>1, <2>2 DEF LastWordUp, t
  <2>3. CASE \E i \in 1 .. Len(s) :
               Reports(s[i], v, q) /\ s[i].enable = 1 /\ SilentFrom(i + 1, s, v, q)
    <3>1. PICK i \in 1 .. Len(s) :
               Reports(s[i], v, q) /\ s[i].enable = 1 /\ SilentFrom(i + 1, s, v, q)
      BY <2>3
    <3>2. i \in 1 .. Len(t) /\ t[i] = s[i] /\ SilentFrom(i + 1, t, v, q)
      BY <1>1, <2>1, <3>1
    <3> QED
      BY <3>1, <3>2 DEF LastWordUp, t
  <2> QED
    BY <2>2, <2>3 DEF LastWordUp
<1> QED
  BY <1>2, <1>3

LEMMA AppendSays ==
  ASSUME NEW s \in Seq(PortDeviceRingState), NEW r \in PortDeviceRingState,
         NEW known, NEW v, NEW q, Reports(r, v, q), r.enable = 1
  PROVE  LastWordUp(Append(s, r), known, v, q)
<1> DEFINE t == Append(s, r)
<1>1. Len(t) = Len(s) + 1 /\ Len(s) \in Nat /\ t[Len(t)] = r
  BY AppendProperties
<1> HIDE DEF t
<1>2. SilentFrom(Len(t) + 1, t, v, q)
  BY <1>1 DEF SilentFrom
<1> QED
  BY <1>1, <1>2 DEF LastWordUp, t

(* Reading the record at the head moves it from the socket to the map. *)
LEMMA TailKeeps ==
  ASSUME NEW s \in Seq(PortDeviceRingState), s # <<>>,
         NEW known, NEW later, NEW v, NEW q, LastWordUp(s, known, v, q),
         later = IF Reports(Head(s), v, q) THEN Head(s).enable ELSE known
  PROVE  LastWordUp(Tail(s), later, v, q)
<1> DEFINE t == Tail(s)
<1>1. /\ Len(t) = Len(s) - 1
      /\ Len(s) \in Nat \ {0}
      /\ \A i \in 1 .. Len(t) : t[i] = s[i + 1]
      /\ Head(s) = s[1]
  BY HeadTailProperties
<1> HIDE DEF t
<1>2. ASSUME NEW i \in Nat \ {0}, SilentFrom(i + 1, s, v, q)
      PROVE  SilentFrom(i, t, v, q)
  BY <1>1, <1>2 DEF SilentFrom
<1>3. CASE known = 1 /\ SilentFrom(1, s, v, q)
  <2>1. ~Reports(Head(s), v, q) /\ SilentFrom(2, s, v, q)
    BY <1>1, <1>3 DEF SilentFrom
  <2>2. SilentFrom(1, t, v, q)
    BY <1>2, <2>1
  <2> QED
    BY <1>3, <2>1, <2>2 DEF LastWordUp, t
<1>4. CASE \E i \in 1 .. Len(s) :
             Reports(s[i], v, q) /\ s[i].enable = 1 /\ SilentFrom(i + 1, s, v, q)
  <2>1. PICK i \in 1 .. Len(s) :
             Reports(s[i], v, q) /\ s[i].enable = 1 /\ SilentFrom(i + 1, s, v, q)
    BY <1>4
  <2>2. CASE i = 1
    <3>1. later = 1 /\ SilentFrom(1, t, v, q)
      BY <1>1, <1>2, <2>1, <2>2
    <3> QED
      BY <3>1 DEF LastWordUp, t
  <2>3. CASE i > 1
    <3>1. SilentFrom(i, t, v, q)
      BY <1>2, <2>1
    <3>2. (i - 1) + 1 = i
      BY <2>1
    <3>3. i - 1 \in 1 .. Len(t) /\ t[i - 1] = s[i]
      BY <1>1, <2>1, <2>3, <3>2
    <3>4. SilentFrom((i - 1) + 1, t, v, q)
      BY <3>1, <3>2
    <3> QED
      BY <2>1, <3>3, <3>4 DEF LastWordUp, t
  <2> QED
    BY <2>2, <2>3
<1> QED
  BY <1>3, <1>4 DEF LastWordUp

-----------------------------------------------------------------------------
(* The vhost controller's steps.                                            *)

LEMMA NotificationReports ==
  ASSUME NEW meta \in {0, 1}, NEW v \in Vids, NEW q \in Queues, NEW e \in {0, 1},
         NEW w, NEW p
  PROVE  /\ Reports(notify_port_controller(meta, v, q, e), w, p)
              <=> meta = 0 /\ w = v /\ p = q
         /\ notify_port_controller(meta, v, q, e).enable = e
  BY DEF Reports, notify_port_controller

(* What the reports of a queue do to the last word on any queue. *)
LEMMA ReportedKeeps ==
  ASSUME NEW s \in Seq(PortDeviceRingState), NEW known, port_cntr_ \in Nat,
         NEW v \in Vids, NEW q \in Queues, NEW e \in BOOLEAN,
         NEW w \in Vids, NEW p \in Queues, LastWordUp(s, known, w, p),
         w = v /\ p = q /\ p >= 2 => e
  PROVE  LastWordUp(Reported(v, q, e, s), known, w, p)
<1> DEFINE r == notify_port_controller(0, v, q, flag(e))
<1>1. flag(e) \in {0, 1} /\ (e => flag(e) = 1)
  BY DEF flag
<1>2. r \in PortDeviceRingState
  BY <1>1, NotificationType
<1>3. r.enable = flag(e) /\ (Reports(r, w, p) <=> w = v /\ p = q)
  BY <1>1, NotificationReports
<1> HIDE DEF r
<1>4. CASE q >= 2
  <2>1. Reports(r, w, p) => r.enable = 1
    BY <1>1, <1>3, <1>4
  <2>2. LastWordUp(Append(s, r), known, w, p)
    BY <1>2, <2>1, AppendKeeps
  <2> QED
    BY <1>4, <2>2 DEF Reported, r
<1>5. CASE ~(q >= 2)
  BY <1>5 DEF Reported
<1> QED
  BY <1>4, <1>5

LEMMA ReportedSays ==
  ASSUME NEW s \in Seq(PortDeviceRingState), NEW known, port_cntr_ \in Nat,
         NEW v \in Vids, NEW q \in Queues, q >= 2
  PROVE  LastWordUp(Reported(v, q, TRUE, s), known, v, q)
<1> DEFINE r == notify_port_controller(0, v, q, 1)
<1>1. r \in PortDeviceRingState /\ r.enable = 1 /\ Reports(r, v, q)
  BY NotificationType, NotificationReports
<1>2. Reported(v, q, TRUE, s) = Append(s, r)
  BY DEF Reported, flag
<1> HIDE DEF r
<1> QED
  BY <1>1, <1>2, AppendSays

(* The removal of a device is no report about a queue. *)
LEMMA RemovalKeeps ==
  ASSUME NEW s \in Seq(PortDeviceRingState), NEW known, port_cntr_ \in Nat,
         NEW v \in Vids, NEW w, NEW p, LastWordUp(s, known, w, p)
  PROVE  LastWordUp(Append(s, notify_port_controller(1, v, 0, 0)), known, w, p)
<1> DEFINE r == notify_port_controller(1, v, 0, 0)
<1>1. r \in PortDeviceRingState /\ ~Reports(r, w, p)
  BY QueueFacts, NotificationType, NotificationReports
<1> HIDE DEF r
<1>2. LastWordUp(Append(s, r), known, w, p)
  BY <1>1, AppendKeeps
<1> QED
  BY <1>2 DEF r

LEMMA VhostReports ==
  ASSUME TypeOK, ReportInv, VhostNext, UNCHANGED pmap_
  PROVE  ReportInv'
<1> USE DEF ReportInv
<1>0. /\ sock \in Seq(PortDeviceRingState)
      /\ port_cntr_ \in Nat
      /\ dev \in [Vids -> {"free", "conn", "running"}]
      /\ ring_up \in [Vids -> [Queues -> BOOLEAN]]
  BY MaxPortsAssumption DEF TypeOK, VhostTypeOK
<1> SUFFICES ASSUME NEW w \in Vids, NEW p \in Queues, ReportedUp(w, p)'
             PROVE  LastWordUp(sock', pmap_[w][p], w, p)
  OBVIOUS
<1>1. PICK v \in Vids :
        \/ Connect(v) \/ NewDevice(v) \/ Disconnect(v)
        \/ \E q \in Queues : QueueUp(v, q) \/ QueueDown(v, q) \/ StopDevice(v, q)
  BY DEF VhostNext
<1>2. CASE Connect(v)
  BY <1>0, <1>2 DEF Connect, ReportedUp
<1>3. CASE NewDevice(v)
  <2> DEFINE r0 == notify_port_controller(0, v, 0, 1)
             r1 == notify_port_controller(0, v, 1, 1)
  <2>1. /\ r0 \in PortDeviceRingState /\ r0.enable = 1
        /\ r1 \in PortDeviceRingState /\ r1.enable = 1
        /\ Reports(r0, w, p) <=> w = v /\ p = 0
        /\ Reports(r1, w, p) <=> w = v /\ p = 1
    <3>1. 0 \in Queues /\ 1 \in Queues
      BY QueueFacts
    <3>2. r0 \in PortDeviceRingState /\ r1 \in PortDeviceRingState
      BY ONLY <1>0, <3>1, NotificationType
    <3>3. /\ r0.enable = 1 /\ (Reports(r0, w, p) <=> w = v /\ p = 0)
          /\ r1.enable = 1 /\ (Reports(r1, w, p) <=> w = v /\ p = 1)
      BY ONLY <3>1, NotificationReports
    <3> QED
      BY ONLY <3>2, <3>3
  <2>2. /\ sock' = Append(Append(sock, r0), r1)
        /\ UNCHANGED ring_up
        /\ dev' = [dev EXCEPT ![v] = "running"]
    BY <1>3 DEF NewDevice, on_new_device
  <2> HIDE DEF r0, r1
  <2>3. Append(sock, r0) \in Seq(PortDeviceRingState)
    BY <1>0, <2>1, AppendProperties
  <2>4. CASE ReportedUp(w, p)
    <3>1. LastWordUp(Append(sock, r0), pmap_[w][p], w, p)
      BY <1>0, <2>1, <2>4, AppendKeeps
    <3> QED
      BY <2>1, <2>2, <2>3, <3>1, AppendKeeps
  <2>5. CASE w = v /\ p = 0
    <3>1. LastWordUp(Append(sock, r0), pmap_[w][p], w, p)
      BY <1>0, <2>1, <2>5, AppendSays
    <3> QED
      BY <2>1, <2>2, <2>3, <3>1, AppendKeeps
  <2>6. CASE w = v /\ p = 1
    BY <2>1, <2>2, <2>3, <2>6, AppendSays
  <2>7. ReportedUp(w, p) \/ (w = v /\ p \in {0, 1})
    BY <1>0, <2>2, QueueFacts DEF ReportedUp
  <2> QED
    BY <2>4, <2>5, <2>6, <2>7
<1>4. CASE Disconnect(v)
  <2>1. ReportedUp(w, p)
    BY <1>0, <1>4 DEF Disconnect, ReportedUp, NoRings
  <2>2. CASE dev[v] = "running"
    BY <1>0, <1>4, <2>1, <2>2, RemovalKeeps DEF Disconnect, on_destroy_device
  <2>3. CASE dev[v] # "running"
    BY <1>4, <2>1, <2>3 DEF Disconnect
  <2> QED
    BY <2>2, <2>3
<1>5. ASSUME NEW q \in Queues, QueueUp(v, q)
      PROVE  LastWordUp(sock', pmap_[w][p], w, p)
  <2>1. /\ sock' = Reported(v, q, TRUE, sock)
        /\ ring_up' = [ring_up EXCEPT ![v][q] = TRUE]
        /\ UNCHANGED dev
    BY <1>5 DEF QueueUp, on_vring_state_changed
  <2>2. CASE ReportedUp(w, p)
    <3>1. LastWordUp(sock, pmap_[w][p], w, p)
      BY <2>2
    <3>2. TRUE \in BOOLEAN
      OBVIOUS
    <3> QED
      BY <1>0, <2>1, <3>1, <3>2, ReportedKeeps
  <2>3. CASE ~ReportedUp(w, p)
    <3>1. w = v /\ p = q /\ q >= 2
      BY <1>0, <2>1, <2>3, QueueFacts DEF ReportedUp
    <3> QED
      BY <1>0, <2>1, <3>1, ReportedSays
  <2> QED
    BY <2>2, <2>3
<1>6. ASSUME NEW q \in Queues, QueueDown(v, q)
      PROVE  LastWordUp(sock', pmap_[w][p], w, p)
  <2>1. /\ sock' = Reported(v, q, FALSE, sock)
        /\ ring_up' = [ring_up EXCEPT ![v][q] = FALSE]
        /\ UNCHANGED dev
    BY <1>6 DEF QueueDown, on_vring_state_changed
  <2>2. ReportedUp(w, p) /\ ~(w = v /\ p = q /\ p >= 2)
    BY <1>0, <2>1, QueueFacts DEF ReportedUp
  <2>3. LastWordUp(sock, pmap_[w][p], w, p) /\ FALSE \in BOOLEAN
    BY <2>2
  <2> QED
    BY <1>0, <2>1, <2>2, <2>3, ReportedKeeps
<1>7. ASSUME NEW q \in Queues, StopDevice(v, q)
      PROVE  LastWordUp(sock', pmap_[w][p], w, p)
  <2> DEFINE gone == Append(sock, notify_port_controller(1, v, 0, 0))
  <2>1. /\ sock' = Reported(v, q, FALSE, gone)
        /\ ring_up' = [ring_up EXCEPT ![v][q] = FALSE]
        /\ dev' = [dev EXCEPT ![v] = "conn"]
    BY <1>7 DEF StopDevice
  <2>2. ReportedUp(w, p) /\ ~(w = v /\ p = q /\ p >= 2)
    BY <1>0, <2>1, QueueFacts DEF ReportedUp
  <2>3. LastWordUp(gone, pmap_[w][p], w, p)
    BY <1>0, <2>2, RemovalKeeps
  <2>4. gone \in Seq(PortDeviceRingState) /\ FALSE \in BOOLEAN
    BY <1>0, QueueFacts, NotificationType, AppendProperties
  <2> HIDE DEF gone
  <2> QED
    BY <1>0, <2>1, <2>2, <2>3, <2>4, ReportedKeeps
<1> QED
  BY <1>1, <1>2, <1>3, <1>4, <1>5, <1>6, <1>7

-----------------------------------------------------------------------------
(* The port controller's steps.                                             *)

LEMMA EpollRecords ==
  ASSUME TypeOK, EpollRead, NEW v \in Vids, NEW q \in Queues
  PROVE  pmap_'[v][q] = IF Reports(Head(sock), v, q) THEN Head(sock).enable ELSE pmap_[v][q]
<1>0. Head(sock) \in PortDeviceRingState
  BY ReceiveType DEF EpollRead, TypeOK, SockOK
<1>1. pmap_ \in [Vids -> [Queues -> {-1, 0, 1}]]
  BY DEF TypeOK, PortTypeOK
<1>2. CASE DeviceRemoved(Head(sock))
  BY <1>2 DEF DeviceRemoved, Reports
<1>3. CASE OnlyRecorded(Head(sock)) \/ PairReady(Head(sock))
  <2>1. Head(sock).meta # 1 /\ Record(Head(sock))
    BY <1>3 DEF OnlyRecorded, PairReady, CompletesPair
  <2>2. Head(sock).device_id \in Vids /\ Head(sock).qid \in Queues
    BY <1>0 DEF PortDeviceRingState
  <2> QED
    BY <1>1, <2>1, <2>2 DEF Record, Reports
<1> QED
  BY <1>2, <1>3 DEF EpollRead, process_notification

LEMMA EpollReports ==
  ASSUME TypeOK, ReportInv, EpollRead, UNCHANGED vhostVars
  PROVE  ReportInv'
<1>0. /\ sock \in Seq(PortDeviceRingState)
      /\ sock # <<>>
      /\ sock' = Tail(sock)
      /\ Head(sock) \in PortDeviceRingState
  BY ReceiveType DEF EpollRead, Receive, TypeOK, SockOK
<1> SUFFICES ASSUME NEW v \in Vids, NEW q \in Queues, ReportedUp(v, q)
             PROVE  LastWordUp(sock', pmap_'[v][q], v, q)
  BY DEF ReportInv, ReportedUp, vhostVars
<1>2. LastWordUp(sock, pmap_[v][q], v, q)
  BY DEF ReportInv
<1>3. pmap_'[v][q] = IF Reports(Head(sock), v, q) THEN Head(sock).enable ELSE pmap_[v][q]
  BY EpollRecords
<1> QED
  BY <1>0, <1>2, <1>3, TailKeeps

LEMMA InitReports == Init => ReportInv
  BY DEF Init, VhostInit, NoRings, ReportInv, ReportedUp

LEMMA NextReports == TypeOK /\ ReportInv /\ [Next]_vars => ReportInv'
<1> SUFFICES ASSUME TypeOK, ReportInv, [Next]_vars PROVE ReportInv'
  OBVIOUS
<1>1. CASE Vhost
  BY <1>1, VhostReports DEF Vhost, portVars
<1>2. CASE Epoll
  <2>1. CASE EpollAccept
    BY <1>2, <2>1 DEF Epoll, EpollAccept, vhostVars, ReportInv, ReportedUp
  <2>2. CASE EpollRead
    BY <1>2, <2>2, EpollReports DEF Epoll
  <2> QED
    BY <1>2, <2>1, <2>2 DEF Epoll, EpollWorker
<1>3. CASE \E t \in Threads : WorkerStep(t)
  BY <1>3 DEF WorkerStep, vhostVars, portVars, ReportInv, ReportedUp
<1>4. CASE UNCHANGED vars
  BY <1>4 DEF vars, vhostVars, portVars, ReportInv, ReportedUp
<1> QED
  BY <1>1, <1>2, <1>3, <1>4 DEF Next, Threads

LEMMA ReportInvariant == Spec => []ReportInv
  BY InitReports, NextReports, TypeCorrect, PTL DEF Spec

(* No queue that is up is lost on the way to the port controller. *)
THEOREM UpIsNeverLost == Spec => []UpIsSeen
<1>1. ReportInv => UpIsSeen
  BY DEF ReportInv, ReportedUp, UpIsSeen, Up
<1> QED
  BY <1>1, ReportInvariant, PTL

-----------------------------------------------------------------------------
(* The removal stands behind the announcement.                              *)

Followed(s, v) ==
  \A i \in 1 .. Len(s) : AnnouncesDevice(s[i], v) =>
    \E j \in (i + 1) .. Len(s) : RemovesDevice(s[j], v)

LEMMA AppendFollowed ==
  ASSUME NEW s \in Seq(PortDeviceRingState), NEW r \in PortDeviceRingState, NEW v,
         Followed(s, v), ~AnnouncesDevice(r, v)
  PROVE  Followed(Append(s, r), v)
<1> DEFINE t == Append(s, r)
<1>1. /\ Len(t) = Len(s) + 1 /\ Len(s) \in Nat
      /\ \A i \in 1 .. Len(s) : t[i] = s[i]
      /\ t[Len(t)] = r
  BY AppendProperties
<1> HIDE DEF t
<1>2. ASSUME NEW i \in 1 .. Len(t), AnnouncesDevice(t[i], v)
      PROVE  \E j \in (i + 1) .. Len(t) : RemovesDevice(t[j], v)
  <2>1. i \in 1 .. Len(s) /\ t[i] = s[i]
    BY <1>1, <1>2
  <2>2. PICK j \in (i + 1) .. Len(s) : RemovesDevice(s[j], v)
    BY <1>2, <2>1 DEF Followed
  <2>3. j \in (i + 1) .. Len(t) /\ t[j] = s[j]
    BY <1>1, <2>1
  <2> QED
    BY <2>2, <2>3
<1> QED
  BY <1>2 DEF Followed, t

LEMMA RemovalFollowed ==
  ASSUME NEW s \in Seq(PortDeviceRingState), NEW r \in PortDeviceRingState, NEW v,
         RemovesDevice(r, v)
  PROVE  Followed(Append(s, r), v)
<1> DEFINE t == Append(s, r)
<1>1. Len(t) = Len(s) + 1 /\ Len(s) \in Nat /\ t[Len(t)] = r
  BY AppendProperties
<1> HIDE DEF t
<1>2. ASSUME NEW i \in 1 .. Len(t), AnnouncesDevice(t[i], v)
      PROVE  \E j \in (i + 1) .. Len(t) : RemovesDevice(t[j], v)
  <2>1. i # Len(t)
    BY <1>1, <1>2 DEF AnnouncesDevice, RemovesDevice
  <2>2. Len(t) \in (i + 1) .. Len(t)
    BY <1>1, <2>1
  <2> QED
    BY <1>1, <2>2
<1> QED
  BY <1>2 DEF Followed, t

LEMMA TailFollowed ==
  ASSUME NEW s \in Seq(PortDeviceRingState), s # <<>>, NEW v, Followed(s, v)
  PROVE  Followed(Tail(s), v)
<1> DEFINE t == Tail(s)
<1>1. /\ Len(t) = Len(s) - 1
      /\ Len(s) \in Nat \ {0}
      /\ \A i \in 1 .. Len(t) : t[i] = s[i + 1]
  BY HeadTailProperties
<1> HIDE DEF t
<1>2. ASSUME NEW i \in 1 .. Len(t), AnnouncesDevice(t[i], v)
      PROVE  \E j \in (i + 1) .. Len(t) : RemovesDevice(t[j], v)
  <2>1. i + 1 \in 1 .. Len(s) /\ t[i] = s[i + 1]
    BY <1>1
  <2>2. PICK j \in (i + 2) .. Len(s) : RemovesDevice(s[j], v)
    BY <1>2, <2>1 DEF Followed
  <2>3. j - 1 \in (i + 1) .. Len(t) /\ (j - 1) + 1 = j
    BY <1>1, <2>2
  <2>4. t[j - 1] = s[j]
    BY <1>1, <2>3
  <2> QED
    BY <2>2, <2>3, <2>4
<1> QED
  BY <1>2 DEF Followed, t

(* What is reported of a queue is no announcement, and a removal is none.  *)
LEMMA ReportedFollowed ==
  ASSUME NEW s \in Seq(PortDeviceRingState), port_cntr_ \in Nat,
         NEW v \in Vids, NEW q \in Queues, NEW e \in BOOLEAN, NEW w \in Vids,
         Followed(s, w)
  PROVE  Followed(Reported(v, q, e, s), w)
<1> DEFINE r == notify_port_controller(0, v, q, flag(e))
<1>1. r \in PortDeviceRingState
  BY NotificationType DEF flag
<1>2. q >= 2 => ~AnnouncesDevice(r, w)
  BY MaxPairsAssumption DEF AnnouncesDevice, notify_port_controller, Queues
<1> HIDE DEF r
<1>3. q >= 2 => Followed(Append(s, r), w)
  BY <1>1, <1>2, AppendFollowed
<1> QED
  BY <1>3 DEF Reported, r

LEMMA RemovedFollowed ==
  ASSUME NEW s \in Seq(PortDeviceRingState), port_cntr_ \in Nat,
         NEW v \in Vids, NEW w \in Vids, w = v \/ Followed(s, w)
  PROVE  /\ Append(s, notify_port_controller(1, v, 0, 0)) \in Seq(PortDeviceRingState)
         /\ Followed(Append(s, notify_port_controller(1, v, 0, 0)), w)
<1> DEFINE r == notify_port_controller(1, v, 0, 0)
<1>1. r \in PortDeviceRingState
  BY QueueFacts, NotificationType
<1>2. ~AnnouncesDevice(r, w) /\ (w = v => RemovesDevice(r, w))
  BY DEF AnnouncesDevice, RemovesDevice, notify_port_controller
<1> HIDE DEF r
<1>3. Append(s, r) \in Seq(PortDeviceRingState) /\ Followed(Append(s, r), w)
  BY <1>1, <1>2, AppendFollowed, RemovalFollowed, AppendProperties
<1> QED
  BY <1>3 DEF r

LEMMA VhostStops ==
  ASSUME TypeOK, StopFollowsStart, VhostNext
  PROVE  StopFollowsStart'
<1>0. /\ sock \in Seq(PortDeviceRingState)
      /\ port_cntr_ \in Nat
      /\ dev \in [Vids -> {"free", "conn", "running"}]
  BY MaxPortsAssumption DEF TypeOK, VhostTypeOK
<1> SUFFICES ASSUME NEW w \in Vids, dev'[w] # "running"
             PROVE  Followed(sock', w)
  BY DEF StopFollowsStart, Followed
<1>1. dev[w] # "running" => Followed(sock, w)
  BY DEF StopFollowsStart, Followed
<1>2. PICK v \in Vids :
        \/ Connect(v) \/ NewDevice(v) \/ Disconnect(v)
        \/ \E q \in Queues : QueueUp(v, q) \/ QueueDown(v, q) \/ StopDevice(v, q)
  BY DEF VhostNext
<1>3. CASE Connect(v)
  BY <1>0, <1>1, <1>3 DEF Connect
<1>4. CASE NewDevice(v)
  <2> DEFINE r0 == notify_port_controller(0, v, 0, 1)
             r1 == notify_port_controller(0, v, 1, 1)
  <2>1. /\ sock' = Append(Append(sock, r0), r1)
        /\ dev' = [dev EXCEPT ![v] = "running"]
    BY <1>4 DEF NewDevice, on_new_device
  <2>2. w # v /\ dev[w] # "running"
    BY <1>0, <2>1
  <2>3. r0 \in PortDeviceRingState /\ r1 \in PortDeviceRingState
    BY <1>0, QueueFacts, NotificationType
  <2>4. ~AnnouncesDevice(r0, w) /\ ~AnnouncesDevice(r1, w)
    BY <2>2 DEF AnnouncesDevice, notify_port_controller
  <2> HIDE DEF r0, r1
  <2>5. Append(sock, r0) \in Seq(PortDeviceRingState) /\ Followed(Append(sock, r0), w)
    BY <1>0, <1>1, <2>2, <2>3, <2>4, AppendFollowed, AppendProperties
  <2> QED
    BY <2>1, <2>3, <2>4, <2>5, AppendFollowed
<1>5. CASE Disconnect(v)
  <2>1. w # v => dev[w] # "running"
    BY <1>0, <1>5 DEF Disconnect
  <2>2. CASE dev[v] = "running"
    <3>1. sock' = Append(sock, notify_port_controller(1, v, 0, 0))
      BY <1>5, <2>2 DEF Disconnect, on_destroy_device
    <3> QED
      BY <1>0, <1>1, <2>1, <3>1, RemovedFollowed
  <2>3. CASE dev[v] # "running"
    BY <1>1, <1>5, <2>1, <2>3 DEF Disconnect
  <2> QED
    BY <2>2, <2>3
<1>6. ASSUME NEW q \in Queues, NEW e \in BOOLEAN, on_vring_state_changed(v, q, e),
             UNCHANGED dev
      PROVE  Followed(sock', w)
  BY <1>0, <1>1, <1>6, ReportedFollowed DEF on_vring_state_changed
<1>7. ASSUME NEW q \in Queues, StopDevice(v, q)
      PROVE  Followed(sock', w)
  <2> DEFINE gone == Append(sock, notify_port_controller(1, v, 0, 0))
  <2>1. sock' = Reported(v, q, FALSE, gone) /\ (w # v => dev[w] # "running")
    BY <1>0, <1>7 DEF StopDevice
  <2>2. gone \in Seq(PortDeviceRingState) /\ Followed(gone, w)
    BY <1>0, <1>1, <2>1, RemovedFollowed
  <2>3. FALSE \in BOOLEAN
    OBVIOUS
  <2> HIDE DEF gone
  <2> QED
    BY <1>0, <2>1, <2>2, <2>3, ReportedFollowed
<1>8. TRUE \in BOOLEAN /\ FALSE \in BOOLEAN
  OBVIOUS
<1> QED
  BY <1>2, <1>3, <1>4, <1>5, <1>6, <1>7, <1>8 DEF QueueUp, QueueDown

LEMMA NextStops == TypeOK /\ StopFollowsStart /\ [Next]_vars => StopFollowsStart'
<1> SUFFICES ASSUME TypeOK, StopFollowsStart, [Next]_vars PROVE StopFollowsStart'
  OBVIOUS
<1>1. CASE Vhost
  BY <1>1, VhostStops DEF Vhost
<1>2. CASE EpollRead /\ UNCHANGED vhostVars
  <2>1. sock \in Seq(PortDeviceRingState) /\ sock # <<>> /\ sock' = Tail(sock)
    BY <1>2 DEF EpollRead, Receive, TypeOK
  <2>2. \A v \in Vids : Followed(sock, v) => Followed(sock', v)
    BY <2>1, TailFollowed
  <2> QED
    BY <1>2, <2>2 DEF StopFollowsStart, Followed, vhostVars
<1>3. CASE UNCHANGED <<sock, dev>>
  BY <1>3 DEF StopFollowsStart
<1> QED
  BY <1>1, <1>2, <1>3
  DEF Next, Epoll, EpollWorker, EpollAccept, WorkerStep, vars, vhostVars

(* No announcement of a device that is gone is read without its removal    *)
(* being read after it: on_new_device's notifications, on_destroy_device's *)
(* and the order of the two.                                               *)
THEOREM StopsFollowStarts == Spec => []StopFollowsStart
<1>1. Init => StopFollowsStart
  BY DEF Init, SockInit, StopFollowsStart
<1> QED
  BY <1>1, NextStops, TypeCorrect, PTL DEF Spec

-----------------------------------------------------------------------------
(* What is switched off is known to be off.                                 *)

(* A record cannot bring back what was said before it. *)
LEMMA AppendSilences ==
  ASSUME NEW s \in Seq(PortDeviceRingState), NEW r \in PortDeviceRingState,
         NEW known, NEW v, NEW q,
         LastWordUp(Append(s, r), known, v, q)
  PROVE  IF Reports(r, v, q) THEN r.enable = 1 ELSE LastWordUp(s, known, v, q)
<1> DEFINE t == Append(s, r)
<1>1. /\ Len(t) = Len(s) + 1
      /\ Len(s) \in Nat
      /\ \A i \in 1 .. Len(s) : t[i] = s[i]
      /\ t[Len(t)] = r
  BY AppendProperties
<1>2. LastWordUp(t, known, v, q)
  OBVIOUS
<1> HIDE DEF t
<1>3. ASSUME NEW i \in Nat \ {0}, SilentFrom(i, t, v, q)
      PROVE  /\ SilentFrom(i, s, v, q)
             /\ i <= Len(t) => ~Reports(r, v, q)
  BY <1>1, <1>3 DEF SilentFrom
<1>4. CASE known = 1 /\ SilentFrom(1, t, v, q)
  BY <1>1, <1>3, <1>4 DEF LastWordUp
<1>5. ASSUME NEW i \in 1 .. Len(t), Reports(t[i], v, q), t[i].enable = 1,
             SilentFrom(i + 1, t, v, q)
      PROVE  IF Reports(r, v, q) THEN r.enable = 1 ELSE LastWordUp(s, known, v, q)
  <2>1. CASE i = Len(t)
    BY <1>1, <1>5, <2>1
  <2>2. CASE i # Len(t)
    <3>1. i \in 1 .. Len(s) /\ t[i] = s[i] /\ i + 1 \in Nat \ {0} /\ i + 1 <= Len(t)
      BY <1>1, <2>2
    <3>2. SilentFrom(i + 1, s, v, q) /\ ~Reports(r, v, q)
      BY <1>3, <1>5, <3>1
    <3> QED
      BY <1>5, <3>1, <3>2 DEF LastWordUp
  <2> QED
    BY <2>1, <2>2
<1> QED
  BY <1>2, <1>4, <1>5 DEF LastWordUp

(* Reading a record tells the map nothing that was not said already. *)
LEMMA TailSilences ==
  ASSUME NEW s \in Seq(PortDeviceRingState), s # <<>>,
         NEW known, NEW later, NEW v, NEW q, LastWordUp(Tail(s), later, v, q),
         later = IF Reports(Head(s), v, q) THEN Head(s).enable ELSE known
  PROVE  LastWordUp(s, known, v, q)
<1> DEFINE t == Tail(s)
<1>1. /\ Len(t) = Len(s) - 1
      /\ Len(s) \in Nat \ {0}
      /\ \A i \in 1 .. Len(t) : t[i] = s[i + 1]
      /\ Head(s) = s[1]
  BY HeadTailProperties
<1>2. LastWordUp(t, later, v, q)
  OBVIOUS
<1> HIDE DEF t
<1>3. ASSUME NEW i \in Nat \ {0}, SilentFrom(i, t, v, q)
      PROVE  SilentFrom(i + 1, s, v, q)
  <2>1. ASSUME NEW j \in (i + 1) .. Len(s) PROVE ~Reports(s[j], v, q)
    <3>1. j - 1 \in i .. Len(t) /\ j - 1 \in 1 .. Len(t) /\ (j - 1) + 1 = j
      BY <1>1
    <3>2. t[j - 1] = s[j]
      BY <1>1, <3>1
    <3> QED
      BY <1>3, <3>1, <3>2 DEF SilentFrom
  <2> QED
    BY <2>1 DEF SilentFrom
<1>4. CASE later = 1 /\ SilentFrom(1, t, v, q)
  <2>1. SilentFrom(2, s, v, q)
    BY <1>3, <1>4
  <2>2. CASE Reports(Head(s), v, q)
    <3>1. 1 \in 1 .. Len(s) /\ s[1].enable = 1 /\ SilentFrom(1 + 1, s, v, q)
      BY <1>1, <1>4, <2>1, <2>2
    <3> QED
      BY <1>1, <2>2, <3>1 DEF LastWordUp
  <2>3. CASE ~Reports(Head(s), v, q)
    <3>1. SilentFrom(1, s, v, q)
      BY <1>1, <2>1, <2>3 DEF SilentFrom
    <3> QED
      BY <1>4, <2>3, <3>1 DEF LastWordUp
  <2> QED
    BY <2>2, <2>3
<1>5. ASSUME NEW i \in 1 .. Len(t), Reports(t[i], v, q), t[i].enable = 1,
             SilentFrom(i + 1, t, v, q)
      PROVE  LastWordUp(s, known, v, q)
  <2>1. i + 1 \in 1 .. Len(s) /\ t[i] = s[i + 1] /\ i + 1 \in Nat \ {0}
    BY <1>1
  <2>2. SilentFrom((i + 1) + 1, s, v, q)
    BY <1>3, <1>5, <2>1
  <2> QED
    BY <1>5, <2>1, <2>2 DEF LastWordUp
<1> QED
  BY <1>2, <1>4, <1>5 DEF LastWordUp

LEMMA ReportedSilences ==
  ASSUME NEW s \in Seq(PortDeviceRingState), NEW known, port_cntr_ \in Nat,
         NEW v \in Vids, NEW q \in Queues, NEW e \in BOOLEAN,
         NEW w \in Vids, NEW p \in Queues, p >= 2,
         LastWordUp(Reported(v, q, e, s), known, w, p)
  PROVE  IF w = v /\ p = q THEN e ELSE LastWordUp(s, known, w, p)
<1> DEFINE r == notify_port_controller(0, v, q, flag(e))
<1>1. flag(e) \in {0, 1} /\ (flag(e) = 1 => e)
  BY DEF flag
<1>2. r \in PortDeviceRingState
  BY <1>1, NotificationType
<1>3. r.enable = flag(e) /\ (Reports(r, w, p) <=> w = v /\ p = q)
  BY <1>1, NotificationReports
<1> HIDE DEF r
<1>4. CASE q >= 2
  <2>1. LastWordUp(Append(s, r), known, w, p)
    BY <1>4 DEF Reported, r
  <2>2. IF Reports(r, w, p) THEN r.enable = 1 ELSE LastWordUp(s, known, w, p)
    BY <1>2, <2>1, AppendSilences
  <2> QED
    BY <1>1, <1>3, <2>2
<1>5. CASE ~(q >= 2)
  BY <1>5 DEF Reported
<1> QED
  BY <1>4, <1>5, QueueFacts

(* A removal says nothing of a queue. *)
LEMMA RemovalSilences ==
  ASSUME NEW s \in Seq(PortDeviceRingState), NEW known, port_cntr_ \in Nat,
         NEW v \in Vids, NEW w, NEW p,
         LastWordUp(Append(s, notify_port_controller(1, v, 0, 0)), known, w, p)
  PROVE  LastWordUp(s, known, w, p)
<1> DEFINE r == notify_port_controller(1, v, 0, 0)
<1>1. r \in PortDeviceRingState /\ ~Reports(r, w, p)
  BY QueueFacts, NotificationType, NotificationReports
<1> HIDE DEF r
<1>2. LastWordUp(Append(s, r), known, w, p)
  BY DEF r
<1> QED
  BY <1>1, <1>2, AppendSilences

LEMMA VhostSilences ==
  ASSUME TypeOK, VhostNext, UNCHANGED pmap_,
         NEW w \in Vids, NEW p \in Queues, p >= 2, Mistaken(w, p)'
  PROVE  Mistaken(w, p) \/ (dev[w] # "free" /\ dev'[w] = "free")
<1>0. /\ sock \in Seq(PortDeviceRingState)
      /\ port_cntr_ \in Nat
      /\ ring_up \in [Vids -> [Queues -> BOOLEAN]]
      /\ dev \in [Vids -> {"free", "conn", "running"}]
  BY MaxPortsAssumption DEF TypeOK, VhostTypeOK
<1>1. LastWordUp(sock', pmap_[w][p], w, p) /\ ~ring_up'[w][p]
  BY DEF Mistaken
<1>2. PICK v \in Vids :
        \/ Connect(v) \/ NewDevice(v) \/ Disconnect(v)
        \/ \E q \in Queues : QueueUp(v, q) \/ QueueDown(v, q) \/ StopDevice(v, q)
  BY DEF VhostNext
<1>3. CASE Connect(v)
  BY <1>1, <1>3 DEF Connect, Mistaken
<1>4. CASE NewDevice(v)
  <2> DEFINE r0 == notify_port_controller(0, v, 0, 1)
             r1 == notify_port_controller(0, v, 1, 1)
  <2>1. sock' = Append(Append(sock, r0), r1) /\ UNCHANGED ring_up
    BY <1>4 DEF NewDevice, on_new_device
  <2>2. /\ r0 \in PortDeviceRingState /\ r1 \in PortDeviceRingState
        /\ ~Reports(r0, w, p) /\ ~Reports(r1, w, p)
    <3>1. 0 \in Queues /\ 1 \in Queues
      BY QueueFacts
    <3>2. r0 \in PortDeviceRingState /\ r1 \in PortDeviceRingState
      BY ONLY <1>0, <3>1, NotificationType
    <3>3. p # 0 /\ p # 1
      BY QueueFacts
    <3>4. /\ Reports(r0, w, p) <=> w = v /\ p = 0
          /\ Reports(r1, w, p) <=> w = v /\ p = 1
      BY ONLY <3>1, NotificationReports
    <3> QED
      BY ONLY <3>2, <3>3, <3>4
  <2> HIDE DEF r0, r1
  <2>3. Append(sock, r0) \in Seq(PortDeviceRingState)
    BY <1>0, <2>2, AppendProperties
  <2>4. LastWordUp(Append(sock, r0), pmap_[w][p], w, p)
    BY <1>1, <2>1, <2>2, <2>3, AppendSilences
  <2>5. LastWordUp(sock, pmap_[w][p], w, p)
    BY <1>0, <2>2, <2>4, AppendSilences
  <2> QED
    BY <1>1, <2>1, <2>5 DEF Mistaken
<1>5. CASE Disconnect(v)
  <2>1. /\ dev' = [dev EXCEPT ![v] = "free"]
        /\ ring_up' = [ring_up EXCEPT ![v] = NoRings]
    BY <1>5 DEF Disconnect
  <2>2. CASE w = v
    BY <1>0, <1>5, <2>1, <2>2 DEF Disconnect, TakesMessage
  <2>3. CASE w # v
    <3>1. ring_up'[w] = ring_up[w]
      BY <1>0, <2>1, <2>3
    <3>2. LastWordUp(sock, pmap_[w][p], w, p)
      BY <1>0, <1>1, <1>5, RemovalSilences DEF Disconnect, on_destroy_device
    <3> QED
      BY <1>1, <3>1, <3>2 DEF Mistaken
  <2> QED
    BY <2>2, <2>3
<1>6. ASSUME NEW q \in Queues, NEW e \in BOOLEAN, on_vring_state_changed(v, q, e),
             ring_up' = [ring_up EXCEPT ![v][q] = e]
      PROVE  Mistaken(w, p)
  <2>1. LastWordUp(Reported(v, q, e, sock), pmap_[w][p], w, p)
    BY <1>1, <1>6 DEF on_vring_state_changed
  <2>2. IF w = v /\ p = q THEN e ELSE LastWordUp(sock, pmap_[w][p], w, p)
    BY <1>0, <2>1, ReportedSilences
  <2>3. ring_up'[w][p] = IF w = v /\ p = q THEN e ELSE ring_up[w][p]
    BY <1>0, <1>6
  <2> QED
    BY <1>0, <1>1, <2>2, <2>3 DEF Mistaken
<1>7. ASSUME NEW q \in Queues, StopDevice(v, q)
      PROVE  Mistaken(w, p)
  <2> DEFINE r == notify_port_controller(1, v, 0, 0)
  <2>1. /\ LastWordUp(Reported(v, q, FALSE, Append(sock, r)), pmap_[w][p], w, p)
        /\ ring_up' = [ring_up EXCEPT ![v][q] = FALSE]
    BY <1>1, <1>7 DEF StopDevice
  <2>2. Append(sock, r) \in Seq(PortDeviceRingState) /\ FALSE \in BOOLEAN
    BY <1>0, QueueFacts, NotificationType, AppendProperties
  <2>3. ~(w = v /\ p = q) /\ LastWordUp(Append(sock, r), pmap_[w][p], w, p)
    <3> DEFINE gone == Append(sock, r)
    <3>1. LastWordUp(Reported(v, q, FALSE, gone), pmap_[w][p], w, p)
      BY <2>1
    <3>2. gone \in Seq(PortDeviceRingState)
      BY <2>2
    <3> HIDE DEF gone
    <3>3. IF w = v /\ p = q THEN FALSE ELSE LastWordUp(gone, pmap_[w][p], w, p)
      BY <1>0, <2>2, <3>1, <3>2, ReportedSilences
    <3> QED
      BY <3>3 DEF gone
  <2>4. LastWordUp(sock, pmap_[w][p], w, p)
    BY <1>0, <2>3, RemovalSilences
  <2> QED
    BY <1>0, <1>1, <2>1, <2>3, <2>4 DEF Mistaken
<1>8. TRUE \in BOOLEAN /\ FALSE \in BOOLEAN
  OBVIOUS
<1> QED
  BY <1>2, <1>3, <1>4, <1>5, <1>6, <1>7, <1>8 DEF QueueUp, QueueDown

LEMMA EpollSilences ==
  ASSUME TypeOK, EpollRead, UNCHANGED vhostVars,
         NEW v \in Vids, NEW q \in Queues, Mistaken(v, q)'
  PROVE  Mistaken(v, q)
<1>0. /\ sock \in Seq(PortDeviceRingState)
      /\ sock # <<>>
      /\ sock' = Tail(sock)
  BY ReceiveType DEF EpollRead, Receive, TypeOK, SockOK
<1>1. LastWordUp(sock', pmap_'[v][q], v, q) /\ ~ring_up[v][q]
  BY DEF Mistaken, vhostVars
<1>2. pmap_'[v][q] = IF Reports(Head(sock), v, q) THEN Head(sock).enable ELSE pmap_[v][q]
  BY EpollRecords
<1>3. LastWordUp(sock, pmap_[v][q], v, q)
  BY <1>0, <1>1, <1>2, TailSilences
<1> QED
  BY <1>1, <1>3 DEF Mistaken

(* The port controller is mistaken about a queue above the first pair only *)
(* from the close of its connection on: on_vring_state_changed reports each*)
(* change, in order, and no other record is about such a queue.            *)
THEOREM DownIsNeverLost == Spec => DownIsSeen
<1>1. ASSUME TypeOK, [Next]_vars, NEW v \in Vids, NEW q \in Queues, q >= 2, Mistaken(v, q)'
      PROVE  Mistaken(v, q) \/ (dev[v] # "free" /\ dev'[v] = "free")
  <2>1. CASE Vhost
    BY <1>1, <2>1, VhostSilences DEF Vhost, portVars
  <2>2. CASE EpollRead /\ UNCHANGED vhostVars
    BY <1>1, <2>2, EpollSilences
  <2>3. CASE UNCHANGED <<sock, ring_up, pmap_>>
    BY <1>1, <2>3 DEF Mistaken
  <2> QED
    BY <1>1, <2>1, <2>2, <2>3
    DEF Next, Epoll, EpollWorker, EpollAccept, WorkerStep, vars, vhostVars, portVars
<1>2. TypeOK /\ [Next]_vars =>
        \A v \in Vids : \A q \in Queues :
          q >= 2 /\ Mistaken(v, q)' =>
            Mistaken(v, q) \/ (dev[v] # "free" /\ dev'[v] = "free")
  BY <1>1
<1> QED
  BY <1>2, TypeCorrect, PTL DEF Spec, DownIsSeen

-----------------------------------------------------------------------------
(* The port map, which is filled under port ids and looked up under device *)
(* ids.                                                                    *)

(* RecordedUpIsUp is not inductive: a device that is not running must have *)
(* no entry of its own under its own id, or the next change of one of its  *)
(* queues would be recorded there; and a flag beyond the pairs of an entry *)
(* must be low, since no callback would ever lower it.                     *)
MapInv ==
  \A p \in DOMAIN portmap :
    /\ \A q \in Queues : portmap[p].enabled[q] => q \in Covered(portmap[p])
    /\ p \in Vids /\ portmap[p].vid = p =>
         /\ dev[p] = "running"
         /\ \A q \in Queues : portmap[p].enabled[q] => ring_up[p][q]

(* set_queue_state changes no entry but the one under v, and of that one   *)
(* only the flag of a queue that is covered: what is raised afterwards was *)
(* raised before, or has just been raised.                                 *)
SetsOneFlag(pm, new, v, q, e) ==
  /\ DOMAIN new = DOMAIN pm
  /\ \A p \in DOMAIN pm : p # v => new[p] = pm[p]
  /\ \A p \in DOMAIN pm :
       /\ new[p].vid = pm[p].vid
       /\ new[p].nof_queue_pairs = pm[p].nof_queue_pairs
       /\ Covered(new[p]) = Covered(pm[p])
       /\ \A r \in Queues : new[p].enabled[r] =>
            \/ p = v /\ r = q /\ q \in Covered(pm[p]) /\ e
            \/ pm[p].enabled[r] /\ ~(p = v /\ r = q /\ q \in Covered(pm[p]))

LEMMA SetQueueState ==
  ASSUME NEW pm, NEW n, IsPortMap(pm, n), NEW v, NEW q \in Queues, NEW e \in BOOLEAN
  PROVE  SetsOneFlag(pm, set_queue_state(pm, v, q, e), v, q, e)
<1> DEFINE new == set_queue_state(pm, v, q, e)
<1>1. \A p \in DOMAIN pm : pm[p] \in PortEntry
  BY DEF IsPortMap
<1>2. CASE ~(v \in DOMAIN pm /\ q \in Covered(pm[v]))
  BY <1>2 DEF set_queue_state, SetsOneFlag
<1>3. CASE v \in DOMAIN pm /\ q \in Covered(pm[v])
  <2>1. new = [pm EXCEPT ![v].enabled[q] = e]
    BY <1>3 DEF set_queue_state
  <2>2. DOMAIN new = DOMAIN pm
    BY <2>1
  <2>3. ASSUME NEW p \in DOMAIN pm
        PROVE  /\ new[p].vid = pm[p].vid
               /\ new[p].nof_queue_pairs = pm[p].nof_queue_pairs
               /\ \A r \in Queues :
                    new[p].enabled[r] = IF p = v /\ r = q THEN e ELSE pm[p].enabled[r]
    BY <1>1, <2>1 DEF PortEntry
  <2>4. \A p \in DOMAIN pm : Covered(new[p]) = Covered(pm[p])
    BY <2>3 DEF Covered
  <2>5. \A p \in DOMAIN pm : p # v => new[p] = pm[p]
    BY <2>1
  <2> HIDE DEF new
  <2>6. SetsOneFlag(pm, new, v, q, e)
    BY <1>3, <2>2, <2>3, <2>4, <2>5 DEF SetsOneFlag
  <2> QED
    BY <2>6 DEF new
<1> QED
  BY <1>2, <1>3

(* A new port has no flag raised but, if its id is the device's, the two   *)
(* of its first pair; of the older ports only the one under the device's   *)
(* id can change, and only in its flags.                                   *)
AddsPort(new, v) ==
  /\ DOMAIN new = DOMAIN portmap \cup {port_cntr_}
  /\ port_cntr_ \notin DOMAIN portmap
  /\ new[port_cntr_].vid = v
  /\ \A p \in DOMAIN portmap :
       /\ p # v => new[p] = portmap[p]
       /\ new[p].vid = portmap[p].vid
       /\ new[p].nof_queue_pairs = portmap[p].nof_queue_pairs
  /\ \A p \in DOMAIN new : \A q \in Queues : new[p].enabled[q] =>
       /\ q \in Covered(new[p])
       /\ p = port_cntr_ => p = v /\ q \in {0, 1}

LEMMA RegisteredEffect ==
  ASSUME TypeOK, MapInv, NEW v \in Vids, NEW count \in 2 .. 2 * MaxPairs
  PROVE  AddsPort(Registered(v, count), v)
<1> DEFINE n == port_cntr_
           bound == init_vhost_device(portmap, n, v, count \div 2)
           one == set_queue_state(bound, v, 0, TRUE)
           new == set_queue_state(one, v, 1, TRUE)
<1>1. /\ n \in Nat
      /\ n + 1 \in Nat
      /\ IsPortMap(portmap, n)
      /\ n \notin DOMAIN portmap
  BY MaxPortsAssumption DEF TypeOK, VhostTypeOK, IsPortMap
<1>2. /\ count \div 2 \in Slots \cup {MaxPairs}
      /\ TRUE \in BOOLEAN
      /\ 0 \in Queues /\ 1 \in Queues
  BY MaxPairsAssumption DEF Slots, Queues
<1>3. IsPortMap(bound, n + 1)
  BY <1>1, <1>2, InitVhostDeviceType
<1>4. /\ DOMAIN bound = DOMAIN portmap \cup {n}
      /\ bound[n].vid = v
      /\ bound[n].nof_queue_pairs = count \div 2
      /\ \A q \in Queues : ~bound[n].enabled[q]
      /\ \A p \in DOMAIN portmap : p # n /\ bound[p] = portmap[p]
  BY <1>1 DEF init_vhost_device
<1> HIDE DEF bound
<1>5. IsPortMap(one, n + 1)
  BY <1>1, <1>2, <1>3, SetQueueStateType
<1>6. SetsOneFlag(bound, one, v, 0, TRUE)
  BY <1>2, <1>3, SetQueueState
<1> HIDE DEF one
<1>7. SetsOneFlag(one, new, v, 1, TRUE)
  BY <1>2, <1>5, SetQueueState
<1> HIDE DEF new
<1>8. DOMAIN new = DOMAIN portmap \cup {n} /\ DOMAIN one = DOMAIN new
  BY <1>4, <1>6, <1>7 DEF SetsOneFlag
<1>9. \A p \in DOMAIN new :
        /\ new[p].vid = bound[p].vid
        /\ new[p].nof_queue_pairs = bound[p].nof_queue_pairs
        /\ Covered(new[p]) = Covered(bound[p])
        /\ p # v => new[p] = bound[p]
        /\ \A q \in Queues : new[p].enabled[q] =>
             \/ p = v /\ q \in {0, 1} /\ q \in Covered(bound[p])
             \/ bound[p].enabled[q]
  BY <1>4, <1>6, <1>7, <1>8 DEF SetsOneFlag
<1>10. ASSUME NEW p \in DOMAIN new, NEW q \in Queues, new[p].enabled[q]
       PROVE  q \in Covered(new[p]) /\ (p = n => p = v /\ q \in {0, 1})
  <2>1. CASE p = n
    BY <1>4, <1>9, <1>10, <2>1
  <2>2. CASE p \in DOMAIN portmap
    BY <1>4, <1>9, <1>10, <2>2 DEF MapInv
  <2> QED
    BY <1>8, <2>1, <2>2
<1>11. AddsPort(new, v)
  BY <1>1, <1>4, <1>8, <1>9, <1>10 DEF AddsPort
<1> QED
  BY <1>11 DEF Registered, new, one, bound

(* A change of one queue, in the library and in the map alike. *)
LEMMA QueueChange ==
  ASSUME TypeOK, MapInv, NEW v \in Vids, NEW q \in Queues, NEW e \in BOOLEAN,
         ring_up' = [ring_up EXCEPT ![v][q] = e],
         on_vring_state_changed(v, q, e),
         UNCHANGED dev
  PROVE  MapInv'
<1>1. IsPortMap(portmap, port_cntr_)
  BY MaxPortsAssumption DEF TypeOK, VhostTypeOK, IsPortMap
<1>2. SetsOneFlag(portmap, portmap', v, q, e)
  BY <1>1, SetQueueState DEF on_vring_state_changed
<1>3. \A w \in Vids : \A r \in Queues :
        ring_up'[w][r] = IF w = v /\ r = q THEN e ELSE ring_up[w][r]
  BY DEF TypeOK, VhostTypeOK
<1> SUFFICES ASSUME NEW p \in DOMAIN portmap'
             PROVE  MapInv!(p)'
  BY DEF MapInv
<1>4. p \in DOMAIN portmap
  BY <1>2 DEF SetsOneFlag
<1>5. \A r \in Queues : portmap'[p].enabled[r] => r \in Covered(portmap'[p])
  BY <1>2, <1>4 DEF SetsOneFlag, MapInv
<1>6. ASSUME p \in Vids, portmap'[p].vid = p
      PROVE  /\ dev'[p] = "running"
             /\ \A r \in Queues : portmap'[p].enabled[r] => ring_up'[p][r]
  <2>1. dev[p] = "running" /\ \A r \in Queues : portmap[p].enabled[r] => ring_up[p][r]
    BY <1>2, <1>4, <1>6 DEF SetsOneFlag, MapInv
  <2>2. ASSUME NEW r \in Queues, portmap'[p].enabled[r]
        PROVE  ring_up'[p][r]
    <3>1. \/ p = v /\ r = q /\ q \in Covered(portmap[p]) /\ e
          \/ portmap[p].enabled[r] /\ ~(p = v /\ r = q /\ q \in Covered(portmap[p]))
      BY <1>2, <1>4, <2>2 DEF SetsOneFlag
    <3>2. portmap[p].enabled[r] => r \in Covered(portmap[p])
      BY <1>4 DEF MapInv
    <3> QED
      BY <1>3, <1>6, <2>1, <3>1, <3>2
  <2> QED
    BY <2>1, <2>2
<1> QED
  BY <1>5, <1>6

(* A device that goes takes the entry under its own id along. *)
LEMMA DeviceGone ==
  ASSUME TypeOK, MapInv, NEW v \in Vids,
         portmap' = clear_device(portmap, v),
         \A w \in Vids \ {v} : dev'[w] = dev[w] /\ ring_up'[w] = ring_up[w]
  PROVE  MapInv'
<1>1. DOMAIN portmap' = DOMAIN portmap \ {v}
      /\ \A p \in DOMAIN portmap' : portmap'[p] = portmap[p]
  BY DEF clear_device
<1> QED
  BY <1>1 DEF MapInv, Covered

LEMMA NextMap == TypeOK /\ MapInv /\ [Next]_vars => MapInv'
<1> SUFFICES ASSUME TypeOK, MapInv, [Next]_vars
             PROVE  MapInv'
  OBVIOUS
<1>1. CASE UNCHANGED vhostVars
  BY <1>1 DEF MapInv, vhostVars, Covered
<1>2. ASSUME NEW v \in Vids, Connect(v)
      PROVE  MapInv'
  BY <1>2 DEF Connect, MapInv, Covered, TypeOK, VhostTypeOK
<1>3. ASSUME NEW v \in Vids, NewDevice(v)
      PROVE  MapInv'
  <2> PICK count \in 2 .. 2 * MaxPairs : on_new_device(v, count)
    BY <1>3 DEF NewDevice
  <2>1. AddsPort(portmap', v)
    BY RegisteredEffect DEF on_new_device
  <2>2. /\ dev[v] = "conn" /\ ring_up[v][0] /\ ring_up[v][1]
        /\ dev' = [dev EXCEPT ![v] = "running"]
        /\ ring_up' = ring_up
    BY <1>3 DEF NewDevice, Due
  <2>3. \A w \in Vids : dev'[w] = IF w = v THEN "running" ELSE dev[w]
    BY <2>2 DEF TypeOK, VhostTypeOK
  <2> SUFFICES ASSUME NEW p \in DOMAIN portmap'
               PROVE  MapInv!(p)'
    BY DEF MapInv
  <2>4. CASE p = port_cntr_
    BY <2>1, <2>2, <2>3, <2>4 DEF AddsPort
  <2>5. CASE p \in DOMAIN portmap
    <3>1. ASSUME p \in Vids, portmap'[p].vid = p
          PROVE  p # v /\ portmap'[p] = portmap[p] /\ portmap[p].vid = p
      BY <2>1, <2>2, <2>5, <3>1 DEF AddsPort, MapInv
    <3>2. \A q \in Queues : portmap'[p].enabled[q] => q \in Covered(portmap'[p])
      BY <2>1 DEF AddsPort
    <3>3. ASSUME p \in Vids, portmap'[p].vid = p
          PROVE  /\ dev'[p] = "running"
                 /\ \A q \in Queues : portmap'[p].enabled[q] => ring_up'[p][q]
      BY <2>2, <2>3, <2>5, <3>1, <3>3 DEF MapInv
    <3> QED
      BY <3>2, <3>3
  <2> QED
    BY <2>1, <2>4, <2>5 DEF AddsPort
<1>4. ASSUME NEW v \in Vids, NEW q \in Queues, QueueUp(v, q)
      PROVE  MapInv'
  <2>1. TRUE \in BOOLEAN
    OBVIOUS
  <2> QED
    BY <1>4, <2>1, QueueChange DEF QueueUp
<1>5. ASSUME NEW v \in Vids, NEW q \in Queues, QueueDown(v, q)
      PROVE  MapInv'
  <2>1. FALSE \in BOOLEAN
    OBVIOUS
  <2> QED
    BY <1>5, <2>1, QueueChange DEF QueueDown
<1>6. ASSUME NEW v \in Vids, NEW q \in Queues, StopDevice(v, q)
      PROVE  MapInv'
  <2>1. portmap' = clear_device(portmap, v)
    BY <1>6 DEF StopDevice, set_queue_state, clear_device
  <2>2. \A w \in Vids \ {v} : dev'[w] = dev[w] /\ ring_up'[w] = ring_up[w]
    BY <1>6 DEF StopDevice, TypeOK, VhostTypeOK
  <2> QED
    BY <2>1, <2>2, DeviceGone
<1>7. ASSUME NEW v \in Vids, Disconnect(v)
      PROVE  MapInv'
  <2>1. \A w \in Vids \ {v} : dev'[w] = dev[w] /\ ring_up'[w] = ring_up[w]
    BY <1>7 DEF Disconnect, TypeOK, VhostTypeOK
  <2>2. CASE dev[v] = "running"
    BY <1>7, <2>1, <2>2, DeviceGone DEF Disconnect, on_destroy_device
  <2>3. CASE dev[v] # "running"
    BY <1>7, <2>1, <2>3 DEF Disconnect, MapInv, Covered
  <2> QED
    BY <2>2, <2>3
<1> QED
  BY <1>1, <1>2, <1>3, <1>4, <1>5, <1>6, <1>7
  DEF Next, Vhost, VhostNext, Epoll, WorkerStep, vars

(* The entry under a device's own id shows no queue enabled that is down:  *)
(* what on_new_device and on_vring_state_changed write and                 *)
(* on_destroy_device erases.                                               *)
THEOREM OwnEntryIsTrue == Spec => []RecordedUpIsUp
<1>1. Init => MapInv
  BY DEF Init, VhostInit, EmptyMap, MapInv
<1>2. MapInv => RecordedUpIsUp
  BY DEF MapInv, RecordedUpIsUp
<1> QED
  BY <1>1, <1>2, NextMap, TypeCorrect, PTL DEF Spec

(* What is_queue_ready and get_vhost_qids answer about a port agrees. *)
THEOREM ReadersAgree == Spec => []AnswersAgree
<1>1. Init => MapInv
  BY DEF Init, VhostInit, EmptyMap, MapInv
<1>2. TypeOK /\ MapInv => AnswersAgree
  <2> SUFFICES ASSUME TypeOK, MapInv, NEW p \in DOMAIN portmap, NEW s \in Slots,
                      is_queue_ready(portmap, p, s)
               PROVE  LET qids == get_vhost_qids(portmap, p, s) IN
                      /\ qids[1] \in Vids
                      /\ qids[1] = p => ring_up[p][qids[2]] /\ ring_up[p][qids[3]]
    BY DEF AnswersAgree
  <2>1. rxq(s) \in Queues /\ txq(s) \in Queues
    BY MaxPairsAssumption DEF Slots, Queues, rxq, txq
  <2>2. portmap[p].enabled[rxq(s)] /\ portmap[p].enabled[txq(s)]
    BY DEF is_queue_ready
  <2>3. portmap[p] \in PortEntry
    BY DEF TypeOK, VhostTypeOK
  <2>4. s < portmap[p].nof_queue_pairs
    <3>1. rxq(s) < 2 * portmap[p].nof_queue_pairs
      BY <2>1, <2>2 DEF MapInv, Covered
    <3> QED
      BY <2>3, <3>1, MaxPairsAssumption DEF PortEntry, Slots, rxq
  <2>5. get_vhost_qids(portmap, p, s) = <<portmap[p].vid, rxq(s), txq(s)>>
    BY <2>4 DEF get_vhost_qids
  <2>6. portmap[p].vid \in Vids
    BY <2>3 DEF PortEntry
  <2> QED
    BY <2>1, <2>2, <2>5, <2>6 DEF MapInv
<1> QED
  BY <1>1, <1>2, NextMap, TypeCorrect, PTL DEF Spec

(* A port keeps its device and its pairs while it is in the map, and       *)
(* on_new_device never gives a port id out twice.                          *)
THEOREM PortsAreNotReused == Spec => PortBinding
<1> DEFINE Bound ==
      /\ \A p \in DOMAIN portmap \cap DOMAIN portmap' :
           /\ portmap'[p].vid = portmap[p].vid
           /\ portmap'[p].nof_queue_pairs = portmap[p].nof_queue_pairs
      /\ \A p \in DOMAIN portmap' \ DOMAIN portmap : p >= port_cntr_
<1>1. TypeOK /\ MapInv /\ [Next]_vars => [Bound]_vhostVars
  <2> SUFFICES ASSUME TypeOK, MapInv, [Next]_vars, ~UNCHANGED vhostVars
               PROVE  Bound
    OBVIOUS
  <2>1. IsPortMap(portmap, port_cntr_)
    BY MaxPortsAssumption DEF TypeOK, VhostTypeOK, IsPortMap
  <2>2. CASE portmap' = portmap
    BY <2>2
  <2>3. ASSUME NEW v \in Vids, NewDevice(v)
        PROVE  Bound
    <3> PICK count \in 2 .. 2 * MaxPairs : on_new_device(v, count)
      BY <2>3 DEF NewDevice
    <3>1. AddsPort(portmap', v)
      BY RegisteredEffect DEF on_new_device
    <3>2. port_cntr_ >= port_cntr_
      BY MaxPortsAssumption DEF TypeOK, VhostTypeOK
    <3> QED
      BY <3>1, <3>2 DEF AddsPort
  <2>4. ASSUME NEW v \in Vids, NEW q \in Queues, NEW e \in BOOLEAN,
               on_vring_state_changed(v, q, e)
        PROVE  Bound
    <3>1. SetsOneFlag(portmap, portmap', v, q, e)
      BY <2>1, <2>4, SetQueueState DEF on_vring_state_changed
    <3> QED
      BY <3>1 DEF SetsOneFlag
  <2>5. ASSUME NEW v \in Vids, portmap' = clear_device(portmap, v)
        PROVE  Bound
    BY <2>5 DEF clear_device
  <2>6. ASSUME NEW v \in Vids, NEW q \in Queues, StopDevice(v, q)
        PROVE  portmap' = clear_device(portmap, v)
    BY <2>6 DEF StopDevice, set_queue_state, clear_device
  <2>7. TRUE \in BOOLEAN /\ FALSE \in BOOLEAN
    OBVIOUS
  <2> HIDE DEF Bound
  <2> QED
    BY <2>2, <2>3, <2>4, <2>5, <2>6, <2>7
    DEF Next, Vhost, VhostNext, Epoll, WorkerStep, vars, vhostVars,
        Connect, QueueUp, QueueDown, Disconnect, on_destroy_device
<1>2. Init => MapInv
  BY DEF Init, VhostInit, EmptyMap, MapInv
<1> QED
  BY <1>1, <1>2, NextMap, TypeCorrect, PTL DEF Spec, PortBinding

=============================================================================
