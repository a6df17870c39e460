--------------------------- MODULE LifecycleProofs ---------------------------
(***************************************************************************)
(* Theorems about Lifecycle, for any devices, number of pairs, size of the *)
(* socket and number of threads, wherever the signal finds the program.    *)
(*                                                                         *)
(* ServiceInv does not survive the destructors: they give names back while *)
(* the workers that were started under them still run, and while the epoll *)
(* thread may have a start() in hand.  What takes its place holds slot by  *)
(* slot: a handler whose destructor has not begun still has all the names  *)
(* of its pairs in use, since no other handler's destructor gives them     *)
(* back, and one whose destructor has begun starts nothing.                *)
(***************************************************************************)
EXTENDS Lifecycle, ServiceProofs

-----------------------------------------------------------------------------
(* Type correctness.                                                        *)

(* What the program's own steps do to its own variables. *)
LEMMA LibraryType ==
  ASSUME TypeOK, LibraryStep
  PROVE  TypeOK'
<1>1. Next
  BY DEF LibraryStep, Next
<1> QED
  BY <1>1, NextType

LEMMA EpollType ==
  ASSUME TypeOK, EpollAccept \/ EpollRead, UNCHANGED vhostVars
  PROVE  TypeOK'
<1>1. Next
  BY DEF Next, Epoll, EpollWorker
<1> QED
  BY <1>1, NextType

(* The record in hand, while there is one, is an odd queue's. *)
InHandOK ==
  epoll_ = "start" => in_hand \in PortDeviceRingState /\ ~is_even(in_hand.qid)

LEMMA CompletesType ==
  ASSUME TypeOK, EpollCompletes
  PROVE  TypeOK' /\ InHandOK'
<1>0. VhostTypeOK /\ SockOK /\ PortTypeOK /\ HandlerTypeOK
  BY DEF TypeOK, SockOK
<1>1. SockOK' /\ Head(sock) \in PortDeviceRingState
  BY <1>0, ReceiveType DEF EpollCompletes
<1>2. /\ Head(sock).device_id \in Vids
      /\ Head(sock).qid \in Queues
      /\ Head(sock).enable \in {0, 1}
  BY <1>1 DEF PortDeviceRingState
<1>3. PortTypeOK'
  BY <1>0, <1>2 DEF EpollCompletes, Record, PortTypeOK
<1>4. VhostTypeOK' /\ HandlerTypeOK'
  BY <1>0 DEF EpollCompletes, vhostVars, handlerVars, VhostTypeOK, HandlerTypeOK
<1>5. InHandOK'
  BY <1>1 DEF EpollCompletes, CompletesPair, InHandOK
<1> QED
  BY <1>1, <1>3, <1>4, <1>5 DEF TypeOK, SockOK

(* start(), from the record in hand. *)
LEMMA StartsType ==
  ASSUME TypeOK, InHandOK, epoll_ = "start", StartPair(in_hand),
         UNCHANGED <<vhostVars, sock, portVars>>
  PROVE  TypeOK'
<1>0. in_hand \in PortDeviceRingState /\ ~is_even(in_hand.qid)
  BY DEF InHandOK
<1>1. in_hand.device_id \in Vids /\ in_hand.qid \in Queues
  BY <1>0 DEF PortDeviceRingState
<1>2. HandlerOf(in_hand) \in Slots /\ in_hand.qid - 1 \in Queues
  BY <1>0, <1>1, OddQueue DEF HandlerOf
<1>3. HandlerTypeOK'
  BY <1>1, <1>2, StartType DEF StartPair, TypeOK
<1> QED
  BY <1>3 DEF TypeOK, vhostVars, portVars, VhostTypeOK, PortTypeOK

LEMMA RetireType ==
  ASSUME TypeOK, NEW v \in Vids, RetireDevice(v)
  PROVE  TypeOK'
<1>0. VhostTypeOK /\ SockOK /\ PortTypeOK /\ HandlerTypeOK
  BY DEF TypeOK, SockOK
<1>1. IsPortMap(portmap, port_cntr_) /\ port_cntr_ \in Nat
  BY <1>0, MaxPortsAssumption DEF VhostTypeOK, IsPortMap
<1>2. Append(sock, notify_port_controller(1, v, 0, 0)) \in Seq(PortDeviceRingState)
  BY <1>0, <1>1, QueueFacts, NotificationType, AppendProperties DEF SockOK
<1>3. SockOK' /\ IsPortMap(portmap', port_cntr_') /\ UNCHANGED port_cntr_
  <2>1. CASE dev[v] = "running"
    BY <1>1, <1>2, <2>1, ClearDeviceType
    DEF RetireDevice, on_destroy_device, SockOK, Fits
  <2>2. CASE dev[v] # "running"
    BY <1>0, <1>1, <2>2 DEF RetireDevice, SockOK
  <2> QED
    BY <2>1, <2>2
<1>4. VhostTypeOK'
  BY <1>0, <1>3 DEF VhostTypeOK, RetireDevice, IsPortMap, NoRings
<1>5. PortTypeOK' /\ HandlerTypeOK'
  BY <1>0
  DEF RetireDevice, portVars, handlerVars, PortTypeOK, HandlerTypeOK
<1> QED
  BY <1>3, <1>4, <1>5 DEF TypeOK, SockOK

LEMMA StopHandlerType ==
  ASSUME TypeOK, NEW h \in Slots, StopHandler(h)
  PROVE  TypeOK'
<1>0. VhostTypeOK /\ SockOK /\ PortTypeOK /\ HandlerTypeOK
  BY DEF TypeOK, SockOK
<1>1. VhostTypeOK' /\ SockOK' /\ PortTypeOK'
  BY <1>0
  DEF StopHandler, vhostVars, portVars, VhostTypeOK, SockOK, PortTypeOK
<1>2. HandlerTypeOK'
  BY <1>0 DEF StopHandler, threadVars, HandlerTypeOK
<1> QED
  BY <1>1, <1>2 DEF TypeOK, SockOK

LEMMA CloseServerType ==
  ASSUME TypeOK, CloseServer
  PROVE  TypeOK'
<1>1. sock' \in Seq(PortDeviceRingState) /\ Len(sock') <= SockCap
  BY SockCapAssumption DEF CloseServer, TypeOK
<1> QED
  BY <1>1
  DEF CloseServer, vhostVars, portVars, handlerVars, TypeOK, VhostTypeOK,
      PortTypeOK, HandlerTypeOK

LEMMA CleanUpType ==
  ASSUME TypeOK, CleanUpEal
  PROVE  TypeOK'
  BY DEF CleanUpEal, vhostVars, portVars, threadVars, TypeOK, VhostTypeOK,
         PortTypeOK, HandlerTypeOK

LEMMA UnchangedType ==
  ASSUME TypeOK, UNCHANGED vars
  PROVE  TypeOK'
<1>1. [Next]_vars
  OBVIOUS
<1> QED
  BY <1>1, NextType

(* The program's variables keep their types in every step of its end. *)
LEMMA ProgramType ==
  ASSUME TypeOK, InHandOK, [LifeNext]_allVars
  PROVE  TypeOK'
<1>1. CASE Interrupt
  BY <1>1, UnchangedType DEF Interrupt
<1>2. CASE Main
  <2>1. CASE DestroyMap \/ LowerFlag \/ DeleteController \/ Unregistered \/ ClearInstance
    BY <2>1, UnchangedType
    DEF DestroyMap, LowerFlag, DeleteController, Unregistered, ClearInstance
  <2>2. ASSUME NEW h \in Slots, DeleteHandler(h) PROVE TypeOK'
    BY <2>2, UnchangedType DEF DeleteHandler
  <2> QED
    BY <1>2, <2>1, <2>2, CloseServerType, StopHandlerType, RetireType, CleanUpType
    DEF Main
<1>3. CASE LibraryStep
  BY <1>3, LibraryType
<1>4. CASE EpollThread
  <2>1. CASE UNCHANGED vars
    BY <2>1, UnchangedType
  <2>2. CASE (EpollAccept \/ EpollRead) /\ UNCHANGED vhostVars
    BY <2>2, EpollType
  <2>3. CASE EpollStarts /\ StartPair(in_hand) /\ UNCHANGED <<vhostVars, sock, portVars>>
    BY <2>3, StartsType DEF EpollStarts
  <2> QED
    BY <1>4, <2>1, <2>2, <2>3, CompletesType
    DEF EpollThread, EpollWakes, EpollHandles, EpollStarts, EpollTests, UsesFreed, vars
<1>5. ASSUME NEW t \in Threads, WorkerThread(t) PROVE TypeOK'
  <2>1. CASE WorkerStep(t)
    <3>1. Next
      BY <2>1 DEF Next, Threads
    <3> QED
      BY <3>1, NextType
  <2>2. CASE UNCHANGED vars
    BY <2>2, UnchangedType
  <2> QED
    BY <1>5, <2>1, <2>2 DEF WorkerThread, UsesFreed
<1>6. CASE UNCHANGED allVars
  BY <1>6, UnchangedType DEF allVars
<1> QED
  BY <1>1, <1>2, <1>3, <1>4, <1>5, <1>6 DEF LifeNext, Threads

EndTypeOK ==
  /\ main_ \in Stages
  /\ epoll_ \in {"wait", "event", "start", "test", "left"}
  /\ in_hand \in PortDeviceRingState \cup {NoRecord}
  /\ InHandOK
  /\ handler \in [Slots -> {"whole", "stopped", "gone"}]
  /\ instance_ \in BOOLEAN
  /\ trouble \in {"none", "freed", "sigpipe"}

LEMMA EndType ==
  ASSUME TypeOK, EndTypeOK, [LifeNext]_allVars
  PROVE  EndTypeOK'
<1>1. CASE Interrupt
  BY <1>1 DEF Interrupt, MainGoes, EndTypeOK, InHandOK, Stages
<1>2. CASE Main
  <2>1. CASE CloseServer \/ DestroyMap \/ LowerFlag \/ DeleteController \/ Unregistered
    BY <2>1
    DEF CloseServer, DestroyMap, LowerFlag, DeleteController, Unregistered, MainGoes,
        EndTypeOK, InHandOK, Stages
  <2>2. CASE CleanUpEal \/ ClearInstance
    BY <2>2 DEF CleanUpEal, ClearInstance, MainGoes, EndTypeOK, InHandOK, Stages
  <2>3. ASSUME NEW h \in Slots, StopHandler(h) \/ DeleteHandler(h) PROVE EndTypeOK'
    BY <2>3 DEF StopHandler, DeleteHandler, MainGoes, EndTypeOK, InHandOK, Stages
  <2>4. ASSUME NEW v \in Vids, RetireDevice(v) PROVE EndTypeOK'
    BY <2>4 DEF RetireDevice, EndTypeOK, InHandOK
  <2> QED
    BY <1>2, <2>1, <2>2, <2>3, <2>4 DEF Main
<1>3. CASE LibraryStep
  BY <1>3 DEF LibraryStep, EndTypeOK, InHandOK
<1>4. CASE EpollThread
  <2>1. CASE EpollCompletes
    <3>1. InHandOK'
      BY <2>1, CompletesType
    <3>2. epoll_' = "start" /\ UNCHANGED <<main_, handler, instance_, trouble>>
      BY <2>1 DEF EpollCompletes
    <3> QED
      BY <3>1, <3>2 DEF EndTypeOK, InHandOK
  <2>2. CASE EpollStarts
    BY <2>2 DEF EpollStarts, UsesFreed, EndTypeOK, InHandOK
  <2> QED
    BY <1>4, <2>1, <2>2
    DEF EpollThread, EpollWakes, EpollHandles, EpollTests, UsesFreed, EndTypeOK, InHandOK
<1>5. ASSUME NEW t \in Threads, WorkerThread(t) PROVE EndTypeOK'
  BY <1>5 DEF WorkerThread, UsesFreed, lifeVars, EndTypeOK, InHandOK
<1>6. CASE UNCHANGED allVars
  BY <1>6 DEF allVars, lifeVars, EndTypeOK, InHandOK
<1> QED
  BY <1>1, <1>2, <1>3, <1>4, <1>5, <1>6 DEF LifeNext, Threads

LEMMA EndTypes == LifeSpec => [](TypeOK /\ EndTypeOK)
<1>1. LifeInit => TypeOK /\ EndTypeOK
  BY InitType DEF LifeInit, EndTypeOK, InHandOK, Stages
<1>2. TypeOK /\ EndTypeOK /\ [LifeNext]_allVars => (TypeOK /\ EndTypeOK)'
  BY ProgramType, EndType DEF EndTypeOK
<1> QED
  BY <1>1, <1>2, PTL DEF LifeSpec

(* Type correctness of the ending program. *)
THEOREM LifeTypeCorrect == LifeSpec => []LifeTypeOK
<1>1. TypeOK /\ EndTypeOK => LifeTypeOK
  BY DEF EndTypeOK, LifeTypeOK
<1> QED
  BY <1>1, EndTypes, PTL

-----------------------------------------------------------------------------
(* The guests and the controller: there is a controller until every        *)
(* connection has been closed, and none is taken any more by then.         *)

GuestsInv ==
  /\ instance_ <=> main_ # "ended"
  /\ main_ \in {"eal", "instance", "ended"} => \A v \in Vids : dev[v] = "free"

LEMMA GuestsStay ==
  ASSUME GuestsInv, UNCHANGED <<main_, instance_, dev>>
  PROVE  GuestsInv'
  BY DEF GuestsInv

LEMMA NextGuests ==
  ASSUME TypeOK, GuestsInv, [LifeNext]_allVars
  PROVE  GuestsInv'
<1>0. dev \in [Vids -> {"free", "conn", "running"}]
  BY DEF TypeOK, VhostTypeOK
<1>1. CASE Interrupt
  BY <1>1 DEF Interrupt, MainGoes, GuestsInv, vars, vhostVars
<1>2. CASE Main
  <2>1. CASE CloseServer \/ DestroyMap \/ LowerFlag \/ DeleteController
    BY <2>1
    DEF CloseServer, DestroyMap, LowerFlag, DeleteController, MainGoes, GuestsInv,
        vars, vhostVars
  <2>2. CASE Unregistered
    BY <2>2 DEF Unregistered, MainGoes, GuestsInv, vars, vhostVars
  <2>3. CASE CleanUpEal \/ ClearInstance
    BY <2>3 DEF CleanUpEal, ClearInstance, MainGoes, GuestsInv, vars, vhostVars
  <2>4. ASSUME NEW h \in Slots, StopHandler(h) \/ DeleteHandler(h) PROVE GuestsInv'
    BY <2>4
    DEF StopHandler, DeleteHandler, MainGoes, GuestsInv, vars, vhostVars
  <2>5. ASSUME NEW v \in Vids, RetireDevice(v) PROVE GuestsInv'
    BY <1>0, <2>5 DEF RetireDevice, GuestsInv
  <2> QED
    BY <1>2, <2>1, <2>2, <2>3, <2>4, <2>5 DEF Main
<1>3. CASE LibraryStep
  <2>1. main_ \in {"eal", "instance", "ended"} => ~DriverThere
    BY DEF DriverThere
  <2>2. /\ UNCHANGED <<main_, instance_>>
        /\ (\E v \in Vids : dev'[v] # "free" /\ dev[v] = "free") => DriverThere
    BY <1>3 DEF LibraryStep
  <2> QED
    BY <2>1, <2>2 DEF GuestsInv
<1>4. CASE EpollThread
  BY <1>4, GuestsStay
  DEF EpollThread, EpollWakes, EpollHandles, EpollCompletes, EpollStarts, EpollTests,
      UsesFreed, vars, vhostVars
<1>5. ASSUME NEW t \in Threads, WorkerThread(t) PROVE GuestsInv'
  BY <1>5, GuestsStay
  DEF WorkerThread, WorkerStep, UsesFreed, lifeVars, vars, vhostVars
<1>6. CASE UNCHANGED allVars
  BY <1>6, GuestsStay DEF allVars, lifeVars, vars, vhostVars
<1> QED
  BY <1>1, <1>2, <1>3, <1>4, <1>5, <1>6 DEF LifeNext, Threads

(* No callback finds the controller gone, though main makes the last ones  *)
(* itself, from the controller's destructor.                               *)
THEOREM CallbacksFindController == LifeSpec => []CallbacksHaveController
<1>1. LifeInit => GuestsInv
  BY DEF LifeInit, GuestsInv
<1>2. TypeOK /\ GuestsInv /\ [LifeNext]_allVars => GuestsInv'
  BY NextGuests
<1>3. GuestsInv => CallbacksHaveController
  BY DEF GuestsInv, CallbacksHaveController
<1> QED
  BY <1>1, <1>2, <1>3, EndTypes, PTL DEF LifeSpec

-----------------------------------------------------------------------------
(* The handlers.  Names are given back handler by handler, while workers   *)
(* and the epoll thread go on: what is left is that a handler whose        *)
(* destructor has not begun still has the names of its pairs in use.       *)

Dismantled ==
  /\ \A t \in Threads : handler[t[2]] = "whole" => HasRing(t)
  /\ \A h \in Slots : handler[h] # "whole" =>
       /\ \A k \in Objects : held[h][k] = Null
       /\ \A g \in Slots : g > h => handler[g] = "gone"
  /\ main_ \in {"memory", "unregister", "eal", "instance", "ended"} =>
       \A h \in Slots : handler[h] = "gone"

EndInv == OneGeneration /\ PairSlots /\ Dismantled

(* A step that touches no handler. *)
LEMMA HandlersStay ==
  ASSUME EndInv, UNCHANGED handlerVars, UNCHANGED handler,
         main_' \in {"memory", "unregister", "eal", "instance", "ended"} =>
           main_ \in {"memory", "unregister", "eal", "instance", "ended"}
  PROVE  EndInv'
  BY DEF EndInv, OneGeneration, PairSlots, Dismantled, HasRing, handlerVars

(* stop() by a record, and the threads, whatever is left of the program. *)
LEMMA StopKeeps ==
  ASSUME EndInv, StopAll, UNCHANGED <<main_, handler>>
  PROVE  EndInv'
  BY DEF StopAll, EndInv, OneGeneration, PairSlots, Dismantled, HasRing

LEMMA WorkerKeeps ==
  ASSUME TypeOK, EndInv, NEW t \in Threads, Worker(t), UNCHANGED <<main_, handler>>
  PROVE  EndInv'
<1>1. UNCHANGED <<held, zones>>
  BY DEF Worker, WorkerBegin, WorkerExit
<1>2. HandlerTypeOK
  BY DEF TypeOK
<1>3. ASSUME NEW u \in Threads
      PROVE  /\ created'[u] + looping'[u] <= created[u] + looping[u]
             /\ created[u] \in Nat /\ looping[u] \in Nat
             /\ created'[u] \in Nat /\ looping'[u] \in Nat
  BY <1>2, WorkerCounts
<1>4. OneGeneration'
  BY <1>3 DEF EndInv, OneGeneration, Threads
<1>5. ASSUME NEW u \in Threads, handler[u[2]] = "whole" PROVE HasRing(u)'
  BY <1>1, <1>3, <1>5 DEF EndInv, Dismantled, HasRing
<1> QED
  BY <1>1, <1>4, <1>5 DEF EndInv, PairSlots, Dismantled

(* start() of a handler whose destructor has not begun. *)
LEMMA StartKeeps ==
  ASSUME TypeOK, EndInv, NEW h \in Slots, NEW v \in Vids, handler[h] = "whole",
         start(h, v, rxq(h), txq(h)), UNCHANGED <<main_, handler>>
  PROVE  EndInv'
<1>0. HandlerTypeOK /\ PairSlots /\ Dismantled
  BY DEF TypeOK, EndInv
<1>1. ASSUME NEW t \in Threads
      PROVE  /\ created'[t] + looping'[t] <= 1
             /\ HasRing(t) => HasRing(t)'
  <2>1. created[t] + looping[t] <= 1
    BY DEF EndInv, OneGeneration, Threads
  <2>2. t[2] = h => HasRing(t)
    BY <1>0 DEF Dismantled
  <2> QED
    BY <1>0, <2>1, <2>2, StartThread
<1>2. OneGeneration'
  BY <1>1 DEF OneGeneration, Threads
<1>3. PairSlots'
  BY <1>0, StartKeepsPairSlots
<1>4. ASSUME NEW i \in Slots, i # h, NEW k \in Objects
      PROVE  held'[i][k] = held[i][k]
  BY <1>0, <1>4, StartOutcome DEF CreatesObjects, HandlerTypeOK
<1>5. Dismantled'
  BY <1>0, <1>1, <1>4 DEF Dismantled
<1> QED
  BY <1>2, <1>3, <1>5 DEF EndInv

(* A handler gives back what it holds, and nobody else holds any of it. *)
LEMMA StopHandlerKeeps ==
  ASSUME TypeOK, EndTypeOK, EndInv, NEW h \in Slots, StopHandler(h)
  PROVE  EndInv'
<1>0. /\ main_ = "handlers" /\ main_' = "handlers"
      /\ Turn(h) /\ handler[h] = "whole"
      /\ handler' = [handler EXCEPT ![h] = "stopped"]
      /\ zones' = zones \ {held[h][k] : k \in Objects}
      /\ held' = [held EXCEPT ![h] = [k \in Objects |-> Null]]
      /\ UNCHANGED <<created, looping>>
  BY DEF StopHandler, MainGoes, threadVars
<1>1. /\ handler \in [Slots -> {"whole", "stopped", "gone"}]
      /\ held \in [Slots -> [Objects -> Zone \cup {Null}]]
  BY DEF EndTypeOK, TypeOK, HandlerTypeOK
<1>2. OneGeneration'
  BY <1>0 DEF EndInv, OneGeneration
<1>3. PairSlots'
  <2> SUFFICES ASSUME NEW i \in Slots, NEW k \in Objects, held'[i][k] # Null
               PROVE  /\ held'[i][k] \in zones'
                      /\ held'[i][k][1] = k
                      /\ held'[i][k][3] \in {rxq(i), txq(i)}
    BY DEF PairSlots
  <2>1. i # h /\ held'[i][k] = held[i][k]
    BY <1>0, <1>1
  <2>2. /\ held[i][k] \in zones
        /\ held[i][k][1] = k
        /\ held[i][k][3] \in {rxq(i), txq(i)}
    BY <2>1 DEF EndInv, PairSlots
  <2>3. ASSUME NEW j \in Objects, held[h][j] = held[i][k] PROVE FALSE
    <3>1. held[h][j][3] \in {rxq(h), txq(h)}
      BY <2>1, <2>3 DEF EndInv, PairSlots
    <3> QED
      BY <2>1, <2>2, <2>3, <3>1 DEF rxq, txq, Slots
  <2> QED
    BY <1>0, <2>1, <2>2, <2>3
<1>4. ASSUME NEW t \in Threads, handler'[t[2]] = "whole" PROVE HasRing(t)'
  <2>1. t[2] \in Slots /\ t[2] # h /\ handler[t[2]] = "whole"
    BY <1>0, <1>1, <1>4 DEF Threads
  <2>2. HasRing(t)
    BY <2>1 DEF EndInv, Dismantled
  <2>3. ASSUME NEW j \in Objects PROVE held[h][j] # Name(TxRing, t[1], rxq(t[2]), txq(t[2]))
    <3>1. CASE held[h][j] = Null
      BY <3>1 DEF Null, Name, TxRing
    <3>2. CASE held[h][j] # Null
      <4>1. held[h][j][3] \in {rxq(h), txq(h)}
        BY <3>2 DEF EndInv, PairSlots
      <4>2. Name(TxRing, t[1], rxq(t[2]), txq(t[2]))[3] = txq(t[2])
        BY DEF Name, TxRing, RxPool
      <4> QED
        BY <2>1, <4>1, <4>2 DEF rxq, txq, Slots
    <3> QED
      BY <3>1, <3>2
  <2> QED
    BY <1>0, <2>2, <2>3 DEF HasRing
<1>5. Dismantled'
  <2>1. \A g \in Slots : g > h => handler'[g] = "gone"
    BY <1>0, <1>1 DEF Turn
  <2>2. main_' \notin {"memory", "unregister", "eal", "instance", "ended"}
    BY <1>0
  <2>3. ASSUME NEW i \in Slots, i # h, handler'[i] # "whole"
        PROVE  /\ \A k \in Objects : held'[i][k] = Null
               /\ \A g \in Slots : g > i => handler'[g] = "gone"
    <3>1. handler[i] # "whole"
      BY <1>0, <1>1, <2>3
    <3>2. /\ \A k \in Objects : held[i][k] = Null
          /\ \A g \in Slots : g > i => handler[g] = "gone"
      BY <3>1 DEF EndInv, Dismantled
    <3>3. ~(h > i)
      BY <1>0, <3>2
    <3> QED
      BY <1>0, <1>1, <2>3, <3>2, <3>3
  <2>4. \A k \in Objects : held'[h][k] = Null
    BY <1>0, <1>1
  <2> QED
    BY <1>4, <2>1, <2>2, <2>3, <2>4 DEF Dismantled
<1> QED
  BY <1>2, <1>3, <1>5 DEF EndInv

LEMMA DeleteHandlerKeeps ==
  ASSUME EndTypeOK, EndInv, NEW h \in Slots, DeleteHandler(h)
  PROVE  EndInv'
<1>0. /\ main_ = "handlers"
      /\ main_' = IF h = 0 THEN "memory" ELSE "handlers"
      /\ handler[h] = "stopped"
      /\ handler' = [handler EXCEPT ![h] = "gone"]
      /\ UNCHANGED <<created, looping, held, zones>>
  BY DEF DeleteHandler, MainGoes, vars, handlerVars
<1>1. handler \in [Slots -> {"whole", "stopped", "gone"}]
  BY DEF EndTypeOK
<1>2. OneGeneration' /\ PairSlots'
  BY <1>0 DEF EndInv, OneGeneration, PairSlots
<1>3. ASSUME NEW t \in Threads, handler'[t[2]] = "whole" PROVE HasRing(t)'
  <2>1. handler[t[2]] = "whole"
    BY <1>0, <1>1, <1>3 DEF Threads
  <2> QED
    BY <1>0, <2>1 DEF EndInv, Dismantled, HasRing
<1>4. /\ \A k \in Objects : held[h][k] = Null
      /\ \A g \in Slots : g > h => handler[g] = "gone"
  BY <1>0 DEF EndInv, Dismantled
<1>5. \A i \in Slots : handler'[i] # "whole" =>
        /\ \A k \in Objects : held'[i][k] = Null
        /\ \A g \in Slots : g > i => handler'[g] = "gone"
  BY <1>0, <1>1, <1>4 DEF EndInv, Dismantled
<1>6. ASSUME h = 0 PROVE \A g \in Slots : handler'[g] = "gone"
  BY <1>0, <1>1, <1>4, <1>6 DEF Slots
<1> QED
  BY <1>0, <1>2, <1>3, <1>5, <1>6 DEF EndInv, Dismantled

(* By the time DPDK's memory goes, no handler is left. *)
LEMMA CleanUpKeeps ==
  ASSUME EndInv, CleanUpEal
  PROVE  EndInv'
<1>0. /\ main_ = "eal" /\ main_' = "instance"
      /\ UNCHANGED <<handler, created, looping, held>>
  BY DEF CleanUpEal, MainGoes, threadVars
<1>1. \A h \in Slots : handler[h] = "gone" /\ \A k \in Objects : held[h][k] = Null
  BY <1>0 DEF EndInv, Dismantled
<1> QED
  BY <1>0, <1>1 DEF EndInv, OneGeneration, PairSlots, Dismantled, Threads

(* A record that completes no pair. *)
LEMMA EpollKeeps ==
  ASSUME TypeOK, EndInv, EpollHandles
  PROVE  EndInv'
<1>1. CASE UNCHANGED handlerVars
  BY <1>1, HandlersStay DEF EpollHandles, UsesFreed, vars
<1>2. CASE EpollRead /\ ~CompletesPair(Head(sock)) /\ UNCHANGED <<main_, handler>>
  <2>1. DeviceRemoved(Head(sock)) \/ OnlyRecorded(Head(sock))
    BY <1>2 DEF EpollRead, process_notification, PairReady
  <2>2. CASE DeviceRemoved(Head(sock))
    BY <1>2, <2>2, StopKeeps DEF DeviceRemoved
  <2>3. CASE OnlyRecorded(Head(sock))
    BY <1>2, <2>3, HandlersStay DEF OnlyRecorded
  <2> QED
    BY <2>1, <2>2, <2>3
<1> QED
  BY <1>1, <1>2 DEF EpollHandles, EpollRead, EpollAccept, UsesFreed, vars

(* The start() in hand comes while its handler is whole, or not at all. *)
LEMMA StartsKeeps ==
  ASSUME TypeOK, InHandOK, EndInv, EpollStarts
  PROVE  EndInv'
<1>1. CASE UsesFreed
  BY <1>1, HandlersStay DEF UsesFreed, vars
<1>2. CASE /\ epoll_ = "start" /\ handler[HandlerOf(in_hand)] = "whole"
           /\ StartPair(in_hand) /\ UNCHANGED <<main_, handler>>
  <2>1. in_hand \in PortDeviceRingState /\ ~is_even(in_hand.qid)
    BY <1>2 DEF InHandOK
  <2> QED
    BY <1>2, <2>1, StartsOfSlot, StartKeeps
<1> QED
  BY <1>1, <1>2 DEF EpollStarts

LEMMA NextEnd ==
  ASSUME TypeOK, EndTypeOK, EndInv, [LifeNext]_allVars
  PROVE  EndInv'
<1>1. CASE Interrupt
  BY <1>1, HandlersStay DEF Interrupt, MainGoes, vars
<1>2. CASE Main
  <2>1. CASE CloseServer \/ DestroyMap \/ LowerFlag
    BY <2>1, HandlersStay
    DEF CloseServer, DestroyMap, LowerFlag, MainGoes, vars
  <2>2. CASE DeleteController \/ Unregistered \/ ClearInstance
    BY <2>2, HandlersStay
    DEF DeleteController, Unregistered, ClearInstance, MainGoes, vars
  <2>3. ASSUME NEW v \in Vids, RetireDevice(v) PROVE EndInv'
    BY <2>3, HandlersStay DEF RetireDevice
  <2> QED
    BY <1>2, <2>1, <2>2, <2>3, StopHandlerKeeps, DeleteHandlerKeeps, CleanUpKeeps
    DEF Main
<1>3. CASE LibraryStep
  BY <1>3, HandlersStay DEF LibraryStep, Vhost
<1>4. CASE EpollThread
  <2>1. CASE EpollWakes \/ EpollTests
    BY <2>1, HandlersStay DEF EpollWakes, EpollTests, UsesFreed, vars
  <2>2. CASE EpollCompletes
    BY <2>2, HandlersStay DEF EpollCompletes
  <2> QED
    BY <1>4, <2>1, <2>2, EpollKeeps, StartsKeeps DEF EpollThread, EndTypeOK
<1>5. ASSUME NEW t \in Threads, WorkerThread(t) PROVE EndInv'
  <2>1. CASE UsesFreed
    BY <2>1, HandlersStay DEF UsesFreed, vars
  <2> QED
    BY <1>5, <2>1, WorkerKeeps DEF WorkerThread, WorkerStep, lifeVars
<1>6. CASE UNCHANGED allVars
  BY <1>6, HandlersStay DEF allVars, vars, lifeVars
<1> QED
  BY <1>1, <1>2, <1>3, <1>4, <1>5, <1>6 DEF LifeNext, Threads

LEMMA EndInvariant == LifeSpec => []EndInv
<1>1. LifeInit => EndInv
  <2> SUFFICES ASSUME LifeInit PROVE EndInv
    OBVIOUS
  <2>1. ServiceInv
    BY InitService DEF LifeInit
  <2> QED
    BY <2>1
    DEF LifeInit, ServiceInv, WorkersHaveRing, EndInv, Dismantled, HasRing, Threads
<1>2. TypeOK /\ EndTypeOK /\ EndInv /\ [LifeNext]_allVars => EndInv'
  BY NextEnd
<1> QED
  BY <1>1, <1>2, EndTypes, PTL DEF LifeSpec

(* What a handler's destructor frees exists, and no other frees it. *)
THEOREM NothingIsFreedTwice == LifeSpec => []NoDoubleFree
<1>1. EndInv => NoDoubleFree
  <2> SUFFICES ASSUME EndInv, NEW h \in Slots, NEW g \in Slots,
                      NEW k \in Objects, NEW j \in Objects, held[h][k] # Null
               PROVE  /\ held[h][k] \in zones
                      /\ held[h][k] = held[g][j] => h = g /\ k = j
    BY DEF NoDoubleFree
  <2>1. /\ held[h][k] \in zones
        /\ held[h][k][1] = k
        /\ held[h][k][3] \in {rxq(h), txq(h)}
    BY DEF EndInv, PairSlots
  <2>2. ASSUME held[h][k] = held[g][j] PROVE h = g /\ k = j
    <3>1. held[g][j][1] = j /\ held[g][j][3] \in {rxq(g), txq(g)}
      BY <2>2 DEF EndInv, PairSlots
    <3> QED
      BY <2>1, <2>2, <3>1 DEF rxq, txq, Slots
  <2> QED
    BY <2>1, <2>2
<1> QED
  BY <1>1, EndInvariant, PTL

(* No pair gets a second generation of workers while its names are being   *)
(* given back.                                                             *)
THEOREM OneGenerationToTheEnd == LifeSpec => []OneGeneration
<1>1. EndInv => OneGeneration
  BY DEF EndInv
<1> QED
  BY <1>1, EndInvariant, PTL

-----------------------------------------------------------------------------
(* The refinement: the end of the program implements PairService, too.     *)

(* A step that neither starts nor ends a worker, nor touches a name. *)
LEMMA EndUnseen ==
  ASSUME UNCHANGED <<created, looping, zones, handler>>
  PROVE  UNCHANGED EndService!vars
  BY DEF EndService!vars, LifeSpent, Spent, Tried, Alive, AtWork

(* A destructor takes the last chance of its handler's pairs, and no name  *)
(* that keeps another pair from being served again.                        *)
LEMMA EndGivesUp ==
  ASSUME TypeOK, EndTypeOK, EndInv, NEW h \in Slots, StopHandler(h)
  PROVE  EndService!Next
<1> DEFINE lost == {p \in Vids \X Slots : p[2] = h}
<1>0. /\ handler' = [handler EXCEPT ![h] = "stopped"]
      /\ zones' = zones \ {held[h][k] : k \in Objects}
      /\ UNCHANGED <<created, looping>>
  BY DEF StopHandler, MainGoes, threadVars
<1>1. handler \in [Slots -> {"whole", "stopped", "gone"}]
  BY DEF EndTypeOK
<1>2. ASSUME NEW p \in Vids \X Slots, p[2] # h
      PROVE  Tried(p[1], p[2])' <=> Tried(p[1], p[2])
  <2> DEFINE name == Name(TxPool, p[1], rxq(p[2]), txq(p[2]))
  <2>1. name[3] = txq(p[2]) /\ name # Null
    BY DEF Name, TxPool, RxPool, Null
  <2>2. ASSUME NEW k \in Objects PROVE held[h][k] # name
    <3>1. CASE held[h][k] = Null
      BY <2>1, <3>1
    <3>2. CASE held[h][k] # Null
      <4>1. held[h][k][3] \in {rxq(h), txq(h)}
        BY <3>2 DEF EndInv, PairSlots
      <4>2. p[2] \in Slots
        OBVIOUS
      <4>3. txq(p[2]) \notin {rxq(h), txq(h)}
        BY <1>2, <4>2 DEF rxq, txq, Slots
      <4> HIDE DEF name
      <4> QED
        BY <2>1, <4>1, <4>3
    <3> QED
      BY <3>1, <3>2
  <2> QED
    BY <1>0, <2>2 DEF Tried
<1>3. LifeSpent' = LifeSpent \cup lost
  <2> SUFFICES ASSUME NEW p \in Vids \X Slots
               PROVE  (p \in LifeSpent)' <=> p \in LifeSpent \/ p[2] = h
    BY DEF LifeSpent, Spent
  <2>0. p[2] \in Slots
    OBVIOUS
  <2>1. CASE p[2] = h
    BY <1>0, <1>1, <2>1 DEF LifeSpent
  <2>2. CASE p[2] # h
    <3>1. handler'[p[2]] = handler[p[2]]
      BY <1>0, <1>1, <2>0, <2>2
    <3>2. (p \in Spent)' <=> p \in Spent
      BY <1>2, <2>2 DEF Spent
    <3> QED
      BY <2>2, <3>1, <3>2 DEF LifeSpent
  <2> QED
    BY <2>1, <2>2
<1>4. Alive' = Alive
  BY <1>0 DEF Alive, AtWork
<1>5. EndService!GiveUp(lost)
  BY <1>3, <1>4 DEF EndService!GiveUp
<1>6. lost \in SUBSET (Vids \X Slots)
  OBVIOUS
<1> QED
  BY <1>5, <1>6 DEF EndService!Next

(* Where no handler is whole, or none changes kind, what is spent stays so. *)
LEMMA EndDeletes ==
  ASSUME EndTypeOK, NEW h \in Slots, DeleteHandler(h)
  PROVE  UNCHANGED EndService!vars
<1>1. /\ handler[h] = "stopped"
      /\ handler' = [handler EXCEPT ![h] = "gone"]
      /\ UNCHANGED <<created, looping, zones>>
  BY DEF DeleteHandler, vars, handlerVars
<1>2. \A p \in Vids \X Slots : handler'[p[2]] # "whole" <=> handler[p[2]] # "whole"
  BY <1>1 DEF EndTypeOK
<1>3. Spent' = Spent /\ Alive' = Alive
  BY <1>1 DEF Spent, Tried, Alive, AtWork
<1> QED
  BY <1>2, <1>3 DEF EndService!vars, LifeSpent

LEMMA EndCleans ==
  ASSUME EndInv, CleanUpEal
  PROVE  UNCHANGED EndService!vars
<1>1. main_ = "eal" /\ UNCHANGED <<created, looping, handler>>
  BY DEF CleanUpEal, MainGoes, threadVars
<1>2. \A p \in Vids \X Slots : handler[p[2]] # "whole"
  BY <1>1 DEF EndInv, Dismantled
<1>3. LifeSpent = Vids \X Slots /\ LifeSpent' = Vids \X Slots
  BY <1>1, <1>2 DEF LifeSpent, Spent
<1>4. Alive' = Alive
  BY <1>1 DEF Alive, AtWork
<1> QED
  BY <1>3, <1>4 DEF EndService!vars

(* start() of a handler whose destructor has not begun serves a pair that  *)
(* still has its chance.                                                   *)
LEMMA EndServes ==
  ASSUME TypeOK, NEW h \in Slots, NEW v \in Vids, handler[h] = "whole",
         start(h, v, rxq(h), txq(h)), UNCHANGED handler
  PROVE  [EndService!Next]_(EndService!vars)
<1> DEFINE pair == <<v, h>>
<1>0. HandlerTypeOK
  BY DEF TypeOK
<1>1. CASE UNCHANGED <<Spent, Alive>>
  BY <1>1 DEF EndService!vars, LifeSpent
<1>2. CASE /\ pair \notin Spent
           /\ Spent' = Spent \cup {pair}
           /\ Alive' = Alive \/ Alive' = [Alive EXCEPT ![pair] = Roles]
  <2>1. pair \in Vids \X Slots /\ {pair} \in SUBSET (Vids \X Slots)
    OBVIOUS
  <2>2. pair \notin LifeSpent /\ LifeSpent' = LifeSpent \cup {pair}
    BY <1>2 DEF LifeSpent
  <2>3. CASE Alive' = Alive
    <3>1. EndService!GiveUp({pair})
      BY <2>2, <2>3 DEF EndService!GiveUp
    <3> QED
      BY <2>1, <3>1 DEF EndService!Next
  <2>4. CASE Alive' = [Alive EXCEPT ![pair] = Roles]
    <3>1. EndService!Serve(pair)
      BY <2>2, <2>4 DEF EndService!Serve
    <3> QED
      BY <2>1, <3>1 DEF EndService!Next
  <2> QED
    BY <1>2, <2>3, <2>4
<1> QED
  BY <1>0, <1>1, <1>2, StartSpends

LEMMA EndFinishes ==
  ASSUME TypeOK, EndInv, NEW t \in Threads, Worker(t), UNCHANGED handler
  PROVE  [EndService!Next]_(EndService!vars)
<1>1. LifeSpent' = LifeSpent
  BY DEF Worker, WorkerBegin, WorkerExit, LifeSpent, Spent, Tried
<1>2. CASE Alive' = Alive
  BY <1>1, <1>2 DEF EndService!vars
<1>3. ASSUME NEW p \in Vids \X Slots, NEW r \in Roles, r \in Alive[p],
             Alive' = [Alive EXCEPT ![p] = @ \ {r}]
      PROVE  EndService!Next
  BY <1>1, <1>3 DEF EndService!Finish, EndService!Next
<1> QED
  BY <1>2, <1>3, WorkerLeaves DEF TypeOK, EndInv

LEMMA EpollUnseen ==
  ASSUME EpollHandles \/ EpollCompletes
  PROVE  UNCHANGED EndService!vars
<1>1. CASE UNCHANGED <<handlerVars, handler>>
  BY <1>1, EndUnseen DEF handlerVars
<1>2. CASE EpollRead /\ ~CompletesPair(Head(sock)) /\ UNCHANGED handler
  <2>1. DeviceRemoved(Head(sock)) \/ OnlyRecorded(Head(sock))
    BY <1>2 DEF EpollRead, process_notification, PairReady
  <2> QED
    BY <1>2, <2>1, EndUnseen DEF DeviceRemoved, StopAll, OnlyRecorded, handlerVars
<1> QED
  BY <1>1, <1>2
  DEF EpollHandles, EpollCompletes, EpollAccept, EpollRead, UsesFreed, vars

LEMMA StartsServes ==
  ASSUME TypeOK, InHandOK, EpollStarts
  PROVE  [EndService!Next]_(EndService!vars)
<1>1. CASE UsesFreed
  BY <1>1, EndUnseen DEF UsesFreed, vars, handlerVars
<1>2. CASE /\ epoll_ = "start" /\ handler[HandlerOf(in_hand)] = "whole"
           /\ StartPair(in_hand) /\ UNCHANGED handler
  <2>1. in_hand \in PortDeviceRingState /\ ~is_even(in_hand.qid)
    BY <1>2 DEF InHandOK
  <2> QED
    BY <1>2, <2>1, StartsOfSlot, EndServes
<1> QED
  BY <1>1, <1>2 DEF EpollStarts

LEMMA EndRefines ==
  ASSUME TypeOK, EndTypeOK, EndInv, [LifeNext]_allVars
  PROVE  [EndService!Next]_(EndService!vars)
<1>1. CASE Interrupt
  BY <1>1, EndUnseen DEF Interrupt, MainGoes, vars, handlerVars
<1>2. CASE Main
  <2>1. CASE CloseServer \/ DestroyMap \/ LowerFlag
    BY <2>1, EndUnseen DEF CloseServer, DestroyMap, LowerFlag, vars, handlerVars
  <2>2. CASE DeleteController \/ Unregistered \/ ClearInstance
    BY <2>2, EndUnseen
    DEF DeleteController, Unregistered, ClearInstance, vars, handlerVars
  <2>3. ASSUME NEW v \in Vids, RetireDevice(v)
        PROVE  UNCHANGED EndService!vars
    BY <2>3, EndUnseen DEF RetireDevice, handlerVars
  <2> QED
    BY <1>2, <2>1, <2>2, <2>3, EndGivesUp, EndDeletes, EndCleans DEF Main
<1>3. CASE LibraryStep
  BY <1>3, EndUnseen DEF LibraryStep, Vhost, handlerVars
<1>4. CASE EpollThread
  <2>1. CASE EpollWakes \/ EpollTests
    BY <2>1, EndUnseen DEF EpollWakes, EpollTests, UsesFreed, vars, handlerVars
  <2> QED
    BY <1>4, <2>1, EpollUnseen, StartsServes DEF EpollThread, EndTypeOK
<1>5. ASSUME NEW t \in Threads, WorkerThread(t)
      PROVE  [EndService!Next]_(EndService!vars)
  <2>1. CASE UsesFreed
    BY <2>1, EndUnseen DEF UsesFreed, vars, handlerVars
  <2> QED
    BY <1>5, <2>1, EndFinishes DEF WorkerThread, WorkerStep, lifeVars
<1>6. CASE UNCHANGED allVars
  BY <1>6, EndUnseen DEF allVars, vars, lifeVars, handlerVars
<1> QED
  BY <1>1, <1>2, <1>3, <1>4, <1>5, <1>6 DEF LifeNext, Threads

(* No pair of a device id is served twice, nor at all once its handler's   *)
(* destructor has begun, up to the last step of main: although destructors *)
(* give back what refused a second start(), and the epoll thread may have  *)
(* one in hand.                                                            *)
THEOREM ImplementsPairServiceToTheEnd == LifeSpec => ServesOnceToTheEnd
<1>1. LifeInit => EndService!Init
  <2> SUFFICES ASSUME LifeInit PROVE EndService!Init
    OBVIOUS
  <2>1. Service!Init
    BY InitRefines DEF LifeInit
  <2>2. LifeSpent = Spent
    BY DEF LifeInit, LifeSpent, Spent
  <2> QED
    BY <2>1, <2>2 DEF Service!Init, EndService!Init
<1>2. TypeOK /\ EndTypeOK /\ EndInv /\ [LifeNext]_allVars
        => [EndService!Next]_(EndService!vars)
  BY EndRefines
<1> QED
  BY <1>1, <1>2, EndTypes, EndInvariant, PTL
  DEF LifeSpec, ServesOnceToTheEnd, EndService!Spec

=============================================================================
