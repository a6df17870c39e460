---------------------------- MODULE ServiceProofs ----------------------------
(***************************************************************************)
(* Loopback serves a pair of a device id at most once: the invariants of   *)
(* the handlers' threads and objects, and the refinement of PairService.   *)
(*                                                                         *)
(* OneGeneration is not inductive: nothing in it forbids a start() while a *)
(* worker is alive.  WorkersHaveRing is what forbids it, since start()     *)
(* needs the name of the ring to be free.                                  *)
(***************************************************************************)
EXTENDS LoopbackProofs

ServiceInv == OneGeneration /\ WorkersHaveRing /\ PairSlots

-----------------------------------------------------------------------------
(* start() of a pair, as the port controller calls it: what it does when   *)
(* done objects can be made.                                               *)

Fresh(h, v) == [k \in Objects |-> Name(k, v, rxq(h), txq(h))]

LEMMA StartOutcome ==
  ASSUME NEW h \in Slots, NEW v \in Vids, start(h, v, rxq(h), txq(h))
  PROVE  \E done \in 0 .. 3 :
           /\ CreatesObjects(h, Fresh(h, v), done)
           /\ created' = [t \in Threads |->
                            IF done = 3 /\ t[1] = v /\ t[2] = h
                              THEN created[t] + 1 ELSE created[t]]
           /\ UNCHANGED <<is_running_, looping>>
  BY DEF start, Fresh, Threads

(* Names of different pairs, or of different objects, differ. *)
LEMMA NamesDiffer ==
  ASSUME NEW k \in Objects, NEW v \in Vids, NEW h \in Slots,
         NEW l \in Objects, NEW w \in Vids, NEW i \in Slots,
         Name(k, v, rxq(h), txq(h)) = Name(l, w, rxq(i), txq(i))
  PROVE  k = l /\ v = w /\ h = i
  BY DEF Name, rxq, txq, Slots

(* The ring of a thread's pair is there if the thread is. *)
HasRing(t) ==
  created[t] + looping[t] > 0 => Name(TxRing, t[1], rxq(t[2]), txq(t[2])) \in zones

(* A pair whose threads have their ring gets no second generation. *)
LEMMA StartThread ==
  ASSUME HandlerTypeOK, NEW h \in Slots, NEW v \in Vids,
         start(h, v, rxq(h), txq(h)),
         NEW t \in Threads, created[t] + looping[t] <= 1, t[2] = h => HasRing(t)
  PROVE  /\ created'[t] + looping'[t] <= 1
         /\ HasRing(t) => HasRing(t)'
<1>1. PICK done \in 0 .. 3 :
           /\ CreatesObjects(h, Fresh(h, v), done)
           /\ created' = [u \in Threads |->
                            IF done = 3 /\ u[1] = v /\ u[2] = h
                              THEN created[u] + 1 ELSE created[u]]
           /\ UNCHANGED <<is_running_, looping>>
  BY StartOutcome
<1>2. \A k \in 1 .. done : k \in Objects
  BY DEF Objects
<1>3. zones \subseteq zones' /\ \A k \in 1 .. done : Fresh(h, v)[k] \in zones'
  BY <1>1 DEF CreatesObjects
<1>4. created[t] \in Nat /\ looping[t] \in Nat
  BY DEF HandlerTypeOK, Threads
<1>5. CASE done = 3 /\ t[1] = v /\ t[2] = h
  <2>1. Fresh(h, v)[3] = Name(TxRing, t[1], rxq(t[2]), txq(t[2]))
    BY <1>5 DEF Fresh, Objects, TxRing
  <2>2. Fresh(h, v)[3] \notin zones
    BY <1>1, <1>5 DEF CreatesObjects
  <2>3. created[t] = 0 /\ looping[t] = 0
    BY <1>4, <1>5, <2>1, <2>2 DEF HasRing
  <2> QED
    BY <1>1, <1>3, <1>5, <2>1, <2>3 DEF HasRing
<1>6. CASE ~(done = 3 /\ t[1] = v /\ t[2] = h)
  BY <1>1, <1>3, <1>6 DEF HasRing
<1> QED
  BY <1>5, <1>6

LEMMA StartKeepsPairSlots ==
  ASSUME HandlerTypeOK, PairSlots, NEW h \in Slots, NEW v \in Vids,
         start(h, v, rxq(h), txq(h))
  PROVE  PairSlots'
<1>1. PICK done \in 0 .. 3 : CreatesObjects(h, Fresh(h, v), done)
  BY StartOutcome
<1>2. \A k \in 1 .. done : k \in Objects
  BY DEF Objects
<1>3. zones \subseteq zones' /\ \A k \in 1 .. done : Fresh(h, v)[k] \in zones'
  BY <1>1 DEF CreatesObjects
<1> SUFFICES ASSUME NEW i \in Slots, NEW k \in Objects, held'[i][k] # Null
             PROVE  /\ held'[i][k] \in zones'
                    /\ held'[i][k][1] = k
                    /\ held'[i][k][3] \in {rxq(i), txq(i)}
  BY DEF PairSlots
<1>4. CASE i = h /\ k <= done
  <2>1. held'[i][k] = Fresh(h, v)[k]
    BY <1>1, <1>4 DEF CreatesObjects, HandlerTypeOK
  <2>2. k \in 1 .. done
    BY <1>4 DEF Objects
  <2>3. held'[i][k] = <<k, v, IF k = RxPool THEN rxq(i) ELSE txq(i)>>
    BY <1>4, <2>1 DEF Fresh, Name
  <2>4. held'[i][k] \in zones'
    BY <1>3, <2>1, <2>2
  <2> QED
    BY <2>3, <2>4
<1>5. CASE ~(i = h /\ k <= done)
  <2>1. held'[i][k] = held[i][k]
    BY <1>1, <1>5 DEF CreatesObjects, HandlerTypeOK
  <2> QED
    BY <1>3, <2>1 DEF PairSlots
<1> QED
  BY <1>4, <1>5

LEMMA StartService ==
  ASSUME HandlerTypeOK, ServiceInv, NEW h \in Slots, NEW v \in Vids,
         start(h, v, rxq(h), txq(h))
  PROVE  ServiceInv'
<1>1. ASSUME NEW t \in Threads
      PROVE  created'[t] + looping'[t] <= 1 /\ HasRing(t)'
  <2>1. created[t] + looping[t] <= 1 /\ HasRing(t)
    BY DEF ServiceInv, OneGeneration, WorkersHaveRing, HasRing, Threads
  <2> QED
    BY <2>1, StartThread
<1>2. PairSlots'
  BY StartKeepsPairSlots DEF ServiceInv
<1> QED
  BY <1>1, <1>2 DEF ServiceInv, OneGeneration, WorkersHaveRing, HasRing, Threads

(* A worker's step starts no thread. *)
LEMMA WorkerCounts ==
  ASSUME HandlerTypeOK, NEW t \in Threads, Worker(t), NEW u \in Threads
  PROVE  /\ created'[u] + looping'[u] <= created[u] + looping[u]
         /\ created[u] \in Nat /\ looping[u] \in Nat
         /\ created'[u] \in Nat /\ looping'[u] \in Nat
<1>1. /\ created[u] \in Nat /\ looping[u] \in Nat
      /\ created'[u] \in Nat /\ looping'[u] \in Nat
  BY WorkerType DEF HandlerTypeOK, Threads
<1>2. CASE WorkerBegin(t)
  <2>1. /\ created'[u] = IF u = t THEN created[u] - 1 ELSE created[u]
        /\ looping'[u] = IF u = t THEN looping[u] + 1 ELSE looping[u]
    BY <1>2 DEF WorkerBegin, HandlerTypeOK, Threads
  <2> QED
    BY ONLY <1>1, <2>1
<1>3. CASE WorkerExit(t)
  <2>1. /\ created'[u] = created[u]
        /\ looping'[u] = IF u = t THEN looping[u] - 1 ELSE looping[u]
    BY <1>3 DEF WorkerExit, HandlerTypeOK, Threads
  <2> QED
    BY ONLY <1>1, <2>1
<1> QED
  BY <1>2, <1>3 DEF Worker

LEMMA WorkerService ==
  ASSUME HandlerTypeOK, ServiceInv, NEW t \in Threads, Worker(t)
  PROVE  ServiceInv'
<1>1. UNCHANGED <<held, zones>>
  BY DEF Worker, WorkerBegin, WorkerExit
<1>2. ASSUME NEW u \in Threads
      PROVE  /\ created'[u] + looping'[u] <= created[u] + looping[u]
             /\ created[u] \in Nat /\ looping[u] \in Nat
             /\ created'[u] \in Nat /\ looping'[u] \in Nat
  BY WorkerCounts
<1>3. OneGeneration'
  BY <1>2 DEF ServiceInv, OneGeneration, Threads
<1>4. WorkersHaveRing'
  BY <1>1, <1>2 DEF ServiceInv, WorkersHaveRing, Threads
<1> QED
  BY <1>1, <1>3, <1>4 DEF ServiceInv, PairSlots

(* An odd queue's record starts the pair of its slot. *)
LEMMA StartsOfSlot ==
  ASSUME NEW pdrs \in PortDeviceRingState, ~is_even(pdrs.qid), StartPair(pdrs)
  PROVE  /\ HandlerOf(pdrs) \in Slots
         /\ pdrs.device_id \in Vids
         /\ start(HandlerOf(pdrs), pdrs.device_id, rxq(HandlerOf(pdrs)), txq(HandlerOf(pdrs)))
<1>1. /\ pdrs.device_id \in Vids
      /\ pdrs.qid \in Queues
      /\ start(HandlerOf(pdrs), pdrs.device_id, pdrs.qid - 1, pdrs.qid)
  BY DEF StartPair, PortDeviceRingState
<1>2. /\ HandlerOf(pdrs) \in Slots
      /\ pdrs.qid - 1 = rxq(HandlerOf(pdrs))
      /\ pdrs.qid = txq(HandlerOf(pdrs))
  BY <1>1, OddQueue DEF HandlerOf
<1> QED
  BY <1>1, <1>2

LEMMA PairReadyStarts ==
  ASSUME NEW pdrs \in PortDeviceRingState, PairReady(pdrs)
  PROVE  \E h \in Slots, v \in Vids : start(h, v, rxq(h), txq(h))
<1>1. ~is_even(pdrs.qid) /\ StartPair(pdrs)
  BY DEF PairReady, CompletesPair
<1> QED
  BY <1>1, StartsOfSlot

(* What a step of the program does to the handlers. *)
LEMMA HandlerSteps ==
  ASSUME TypeOK, Next
  PROVE  \/ UNCHANGED handlerVars
         \/ StopAll
         \/ \E h \in Slots, v \in Vids : start(h, v, rxq(h), txq(h))
         \/ \E t \in Threads : Worker(t)
<1>1. CASE Vhost
  BY <1>1 DEF Vhost
<1>2. CASE Epoll
  <2>1. CASE EpollAccept
    BY <2>1 DEF EpollAccept
  <2>2. CASE EpollRead
    <3>1. Head(sock) \in PortDeviceRingState
      BY <2>2, ReceiveType DEF EpollRead, TypeOK, SockOK
    <3> QED
      BY <2>2, <3>1, PairReadyStarts
      DEF EpollRead, process_notification, DeviceRemoved, OnlyRecorded
  <2> QED
    BY <1>2, <2>1, <2>2 DEF Epoll, EpollWorker
<1>3. CASE \E t \in Threads : WorkerStep(t)
  BY <1>3 DEF WorkerStep
<1> QED
  BY <1>1, <1>2, <1>3 DEF Next, Threads

-----------------------------------------------------------------------------
(* The invariants.                                                          *)

LEMMA InitService == Init => ServiceInv
  BY DEF Init, HandlerInit, ServiceInv, OneGeneration, WorkersHaveRing, PairSlots

LEMMA NextService == TypeOK /\ ServiceInv /\ [Next]_vars => ServiceInv'
<1> SUFFICES ASSUME TypeOK, ServiceInv, [Next]_vars PROVE ServiceInv'
  OBVIOUS
<1>0. HandlerTypeOK
  BY DEF TypeOK
<1>1. CASE UNCHANGED handlerVars
  BY <1>1 DEF handlerVars, ServiceInv, OneGeneration, WorkersHaveRing, PairSlots
<1>2. CASE StopAll
  BY <1>2 DEF StopAll, ServiceInv, OneGeneration, WorkersHaveRing, PairSlots
<1>3. CASE \E h \in Slots, v \in Vids : start(h, v, rxq(h), txq(h))
  BY <1>0, <1>3, StartService
<1>4. CASE \E t \in Threads : Worker(t)
  BY <1>0, <1>4, WorkerService
<1>5. CASE UNCHANGED vars
  BY <1>1, <1>5 DEF vars
<1> QED
  BY <1>1, <1>2, <1>3, <1>4, <1>5, HandlerSteps

LEMMA ServiceInvariant == Spec => []ServiceInv
  BY InitService, NextService, TypeCorrect, PTL DEF Spec

(* A pair never has two threads of one role, however often its device is   *)
(* stopped and announced again.                                            *)
THEOREM NeverTwoGenerations == Spec => []OneGeneration
  BY ServiceInvariant, PTL DEF ServiceInv

(* A worker's ring exists as long as the worker does. *)
THEOREM RingsOutliveWorkers == Spec => []WorkersHaveRing
  BY ServiceInvariant, PTL DEF ServiceInv

(* No handler ever holds an object of another pair. *)
THEOREM HandlersKeepToTheirPair == Spec => []PairSlots
  BY ServiceInvariant, PTL DEF ServiceInv

-----------------------------------------------------------------------------
(* The refinement: each step of the program is a step of PairService or    *)
(* leaves what it sees alone.                                               *)

LEMMA ServiceUnseen ==
  ASSUME UNCHANGED <<zones, created, looping>>
  PROVE  UNCHANGED Service!vars
  BY DEF Service!vars, Spent, Alive, Tried, AtWork

(* start() of a pair that has not had its chance uses it up, with all of   *)
(* its roles at work or with none; of any other pair it changes nothing.   *)
LEMMA StartSpends ==
  ASSUME HandlerTypeOK, NEW h \in Slots, NEW v \in Vids,
         start(h, v, rxq(h), txq(h))
  PROVE  \/ UNCHANGED <<Spent, Alive>>
         \/ /\ <<v, h>> \notin Spent
            /\ Spent' = Spent \cup {<<v, h>>}
            /\ Alive' = Alive \/ Alive' = [Alive EXCEPT ![<<v, h>>] = Roles]
<1> DEFINE pair == <<v, h>>
<1>1. PICK done \in 0 .. 3 :
           /\ CreatesObjects(h, Fresh(h, v), done)
           /\ created' = [t \in Threads |->
                            IF done = 3 /\ t[1] = v /\ t[2] = h
                              THEN created[t] + 1 ELSE created[t]]
           /\ UNCHANGED <<is_running_, looping>>
  BY StartOutcome
<1>2. zones' = zones \cup {Fresh(h, v)[k] : k \in 1 .. done}
  BY <1>1 DEF CreatesObjects
<1>3. CASE done = 0
  <2>1. UNCHANGED <<zones, created, looping>>
    BY <1>1, <1>2, <1>3 DEF HandlerTypeOK, Threads
  <2> QED
    BY <2>1 DEF Spent, Alive, Tried, AtWork
<1>4. CASE done > 0
  <2>1. Fresh(h, v)[1] = Name(TxPool, v, rxq(h), txq(h))
    BY DEF Fresh, Objects, TxPool
  <2>2. pair \in Vids \X Slots /\ pair \notin Spent
    BY <1>1, <1>4, <2>1 DEF CreatesObjects, Spent, Tried
  <2>3. Spent' = Spent \cup {pair}
    <3>1. ASSUME NEW p \in Vids \X Slots
          PROVE  Tried(p[1], p[2])' <=> Tried(p[1], p[2]) \/ p = pair
      <4>1. ASSUME p = pair PROVE Tried(p[1], p[2])'
        BY <1>2, <1>4, <2>1, <4>1 DEF Tried
      <4>2. ASSUME NEW k \in 1 .. done,
                   Fresh(h, v)[k] = Name(TxPool, p[1], rxq(p[2]), txq(p[2]))
            PROVE  p = pair
        <5>1. k \in Objects /\ TxPool \in Objects
          BY DEF Objects, TxPool
        <5>2. Fresh(h, v)[k] = Name(k, v, rxq(h), txq(h))
          BY <5>1 DEF Fresh
        <5>3. p[1] \in Vids /\ p[2] \in Slots /\ p = <<p[1], p[2]>>
          OBVIOUS
        <5>4. Name(k, v, rxq(h), txq(h)) = Name(TxPool, p[1], rxq(p[2]), txq(p[2]))
          BY <4>2, <5>2
        <5>5. v = p[1] /\ h = p[2]
          BY <5>1, <5>3, <5>4, NamesDiffer
        <5> QED
          BY <5>3, <5>5
      <4> QED
        BY <1>2, <4>1, <4>2 DEF Tried
    <3> QED
      BY <2>2, <3>1 DEF Spent
  <2>4. CASE done = 3
    <3>1. ASSUME NEW p \in Vids \X Slots
          PROVE  AtWork(p[1], p[2])' = IF p = pair THEN Roles ELSE AtWork(p[1], p[2])
      <4>1. ASSUME NEW r \in Roles
            PROVE  /\ created[<<p[1], p[2], r>>] \in Nat
                   /\ looping'[<<p[1], p[2], r>>] = looping[<<p[1], p[2], r>>]
                   /\ looping[<<p[1], p[2], r>>] \in Nat
                   /\ created'[<<p[1], p[2], r>>] =
                        IF p = pair THEN created[<<p[1], p[2], r>>] + 1
                                    ELSE created[<<p[1], p[2], r>>]
        BY <1>1, <2>4 DEF HandlerTypeOK, Threads
      <4> QED
        BY <4>1 DEF AtWork
    <3>2. Alive' = [Alive EXCEPT ![pair] = Roles]
      BY <2>2, <3>1 DEF Alive
    <3> QED
      BY <2>2, <2>3, <3>2
  <2>5. CASE done # 3
    <3>1. UNCHANGED <<created, looping>>
      BY <1>1, <2>5 DEF HandlerTypeOK, Threads
    <3>2. Alive' = Alive
      BY <3>1 DEF Alive, AtWork
    <3> QED
      BY <2>2, <2>3, <3>2
  <2> QED
    BY <2>4, <2>5
<1> QED
  BY <1>3, <1>4

LEMMA StartServes ==
  ASSUME HandlerTypeOK, NEW h \in Slots, NEW v \in Vids,
         start(h, v, rxq(h), txq(h))
  PROVE  [Service!Next]_(Service!vars)
<1> DEFINE pair == <<v, h>>
<1>1. CASE UNCHANGED <<Spent, Alive>>
  BY <1>1 DEF Service!vars
<1>2. CASE /\ pair \notin Spent
           /\ Spent' = Spent \cup {pair}
           /\ Alive' = Alive \/ Alive' = [Alive EXCEPT ![pair] = Roles]
  <2>1. pair \in Vids \X Slots /\ {pair} \in SUBSET (Vids \X Slots)
    OBVIOUS
  <2>2. CASE Alive' = Alive
    <3>1. Service!GiveUp({pair})
      BY <1>2, <2>2 DEF Service!GiveUp
    <3> QED
      BY <2>1, <3>1 DEF Service!Next
  <2>3. CASE Alive' = [Alive EXCEPT ![pair] = Roles]
    <3>1. Service!Serve(pair)
      BY <1>2, <2>3 DEF Service!Serve
    <3> QED
      BY <2>1, <3>1 DEF Service!Next
  <2> QED
    BY <1>2, <2>2, <2>3
<1> QED
  BY <1>1, <1>2, StartSpends

(* A worker that leaves its loop is one thread less for its pair; one that *)
(* begins was counted before.                                              *)
LEMMA WorkerLeaves ==
  ASSUME HandlerTypeOK, OneGeneration, NEW t \in Threads, Worker(t)
  PROVE  \/ Alive' = Alive
         \/ \E p \in Vids \X Slots, r \in Roles :
              r \in Alive[p] /\ Alive' = [Alive EXCEPT ![p] = @ \ {r}]
<1> DEFINE pair == <<t[1], t[2]>>
           role == t[3]
<1>1. pair \in Vids \X Slots /\ role \in Roles /\ t = <<t[1], t[2], t[3]>>
  BY DEF Threads
<1>2. CASE WorkerBegin(t)
  <2>1. \A u \in Threads : created'[u] + looping'[u] = created[u] + looping[u]
    BY <1>2 DEF WorkerBegin, HandlerTypeOK, Threads
  <2> QED
    BY <2>1 DEF Alive, AtWork, Threads
<1>3. CASE WorkerExit(t)
  <2>1. /\ created' = created
        /\ looping' = [looping EXCEPT ![t] = @ - 1]
        /\ created[t] + looping[t] > 0
        /\ created'[t] + looping'[t] = 0
    BY <1>3 DEF WorkerExit, HandlerTypeOK, OneGeneration, Threads
  <2>2. ASSUME NEW p \in Vids \X Slots
        PROVE  AtWork(p[1], p[2])' =
                 IF p = pair THEN AtWork(p[1], p[2]) \ {role} ELSE AtWork(p[1], p[2])
    <3>1. ASSUME NEW r \in Roles, <<p[1], p[2], r>> # t
          PROVE  created'[<<p[1], p[2], r>>] + looping'[<<p[1], p[2], r>>] =
                   created[<<p[1], p[2], r>>] + looping[<<p[1], p[2], r>>]
      BY <2>1, <3>1 DEF HandlerTypeOK
    <3>2. CASE p = pair
      BY <1>1, <2>1, <3>1, <3>2 DEF AtWork
    <3>3. CASE p # pair
      <4>1. \A r \in Roles : <<p[1], p[2], r>> # t
        BY <1>1, <3>3
      <4> QED
        BY <3>1, <3>3, <4>1 DEF AtWork
    <3> QED
      BY <3>2, <3>3
  <2>3. Alive' = [Alive EXCEPT ![pair] = @ \ {role}]
    BY <1>1, <2>2 DEF Alive
  <2>4. role \in Alive[pair]
    BY <1>1, <2>1 DEF Alive, AtWork
  <2> QED
    BY <1>1, <2>3, <2>4
<1> QED
  BY <1>2, <1>3 DEF Worker

LEMMA WorkerFinishes ==
  ASSUME HandlerTypeOK, ServiceInv, NEW t \in Threads, Worker(t)
  PROVE  [Service!Next]_(Service!vars)
<1>1. Spent' = Spent
  BY DEF Worker, WorkerBegin, WorkerExit, Spent, Tried
<1>2. CASE Alive' = Alive
  BY <1>1, <1>2 DEF Service!vars
<1>3. ASSUME NEW p \in Vids \X Slots, NEW r \in Roles, r \in Alive[p],
             Alive' = [Alive EXCEPT ![p] = @ \ {r}]
      PROVE  Service!Next
  BY <1>1, <1>3 DEF Service!Finish, Service!Next
<1> QED
  BY <1>2, <1>3, WorkerLeaves DEF ServiceInv

LEMMA InitRefines == Init => Service!Init
  BY DEF Init, HandlerInit, Service!Init, Spent, Alive, Tried, AtWork

LEMMA NextRefines ==
  TypeOK /\ ServiceInv /\ [Next]_vars => [Service!Next]_(Service!vars)
<1> SUFFICES ASSUME TypeOK, ServiceInv, [Next]_vars
             PROVE  [Service!Next]_(Service!vars)
  OBVIOUS
<1>0. HandlerTypeOK
  BY DEF TypeOK
<1>1. CASE UNCHANGED handlerVars
  BY <1>1, ServiceUnseen DEF handlerVars
<1>2. CASE StopAll
  BY <1>2, ServiceUnseen DEF StopAll
<1>3. CASE \E h \in Slots, v \in Vids : start(h, v, rxq(h), txq(h))
  BY <1>0, <1>3, StartServes
<1>4. CASE \E t \in Threads : Worker(t)
  BY <1>0, <1>4, WorkerFinishes
<1>5. CASE UNCHANGED vars
  BY <1>1, <1>5 DEF vars
<1> QED
  BY <1>1, <1>2, <1>3, <1>4, <1>5, HandlerSteps

(* The program implements PairService: a pair of a device id is served at  *)
(* most once, by all its roles at once, and never again once it has ended. *)
THEOREM ImplementsPairService == Spec => ServesOnce
  BY InitRefines, NextRefines, TypeCorrect, ServiceInvariant, PTL
  DEF Spec, ServesOnce, Service!Spec

=============================================================================
