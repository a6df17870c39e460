--------------------------- MODULE VhostController ---------------------------
(***************************************************************************)
(* The vhost controller: the callbacks DPDK's vhost library makes into     *)
(* src/vhost_controller.cpp, what they write into the port map and what    *)
(* they send to the port controller.                                       *)
(*                                                                         *)
(* One library thread serves all connections, so callbacks never overlap   *)
(* and each one is a single step here.  A callback that sends twice waits  *)
(* for room for both records: a reader cannot tell a record that is not    *)
(* yet written from one it has not yet read, and nothing else looks.       *)
(*                                                                         *)
(* dev and ring_up are the library's own state, an external part: it hands *)
(* out the lowest free device id at connection, reports every change of a  *)
(* queue's readiness, announces a device once its first two queues are     *)
(* ready, and retires it when a queue is taken back or the guest hangs up. *)
(***************************************************************************)
EXTENDS PortMap, NotifySocket

CONSTANTS
  MaxPorts,   \* bound: new_device callbacks in a behaviour
  Guest       \* what guests do besides coming up: see the three names below

ASSUME MaxPortsAssumption == MaxPorts \in Nat
ASSUME GuestAssumption == Guest \subseteq {"stops", "closes", "unordered"}

VARIABLES
  dev,        \* "free", "conn"ected, or "running" (announced)
  ring_up,    \* which queues of a device are ready
  portmap,    \* ConfigManager::pmap_
  port_cntr_

vhostVars == <<dev, ring_up, portmap, port_cntr_>>

NoRings == [q \in Queues |-> FALSE]

VhostInit ==
  /\ dev = [v \in Vids |-> "free"]
  /\ ring_up = [v \in Vids |-> NoRings]
  /\ portmap = EmptyMap
  /\ port_cntr_ = 0

VhostTypeOK ==
  /\ dev \in [Vids -> {"free", "conn", "running"}]
  /\ ring_up \in [Vids -> [Queues -> BOOLEAN]]
  /\ DOMAIN portmap \subseteq 0 .. (port_cntr_ - 1)
  /\ \A p \in DOMAIN portmap : portmap[p] \in PortEntry
  /\ port_cntr_ \in 0 .. MaxPorts

-----------------------------------------------------------------------------
(* The callbacks of vhost_controller.cpp.                                   *)

notify_port_controller(meta, vid, qid, enable) ==
  [meta |-> meta, port_id |-> port_cntr_, device_id |-> vid, qid |-> qid,
   enable |-> enable]

flag(enable) == IF enable THEN 1 ELSE 0

(* The new port is registered under port_cntr_, but the two flags are then *)
(* set under the device id.                                                *)
Registered(vid, vring_count) ==
  LET bound == init_vhost_device(portmap, port_cntr_, vid, vring_count \div 2)
  IN  set_queue_state(set_queue_state(bound, vid, 0, TRUE), vid, 1, TRUE)

(* Mutant: port_cntr_ is not advanced. *)
on_new_device_same_port(vid, vring_count) ==
  /\ portmap' = Registered(vid, vring_count)
  /\ sock' = Append(Append(sock, notify_port_controller(0, vid, 0, 1)),
                    notify_port_controller(0, vid, 1, 1))
  /\ Fits
  /\ UNCHANGED port_cntr_

(* Mutant: only queue 1 is announced. *)
on_new_device_half(vid, vring_count) ==
  /\ portmap' = Registered(vid, vring_count)
  /\ sock' = Append(sock, notify_port_controller(0, vid, 1, 1))
  /\ Fits
  /\ port_cntr_' = port_cntr_ + 1

on_new_device(vid, vring_count) ==
  /\ portmap' = Registered(vid, vring_count)
  /\ sock' = Append(Append(sock, notify_port_controller(0, vid, 0, 1)),
                    notify_port_controller(0, vid, 1, 1))
  /\ Fits
  /\ port_cntr_' = port_cntr_ + 1

(* Mutant: queue 2 is taken for one of the first two. *)
Reported_above_2(vid, queue_id, enable, out) ==
  IF queue_id > 2
    THEN Append(out, notify_port_controller(0, vid, queue_id, flag(enable)))
    ELSE out

(* Mutant: only queues that come up are reported. *)
Reported_up_only(vid, queue_id, enable, out) ==
  IF queue_id >= 2 /\ enable
    THEN Append(out, notify_port_controller(0, vid, queue_id, flag(enable)))
    ELSE out

(* What on_vring_state_changed sends: queues 0 and 1 are left to the       *)
(* announcement of the device.                                             *)
Reported(vid, queue_id, enable, out) ==
  IF queue_id >= 2
    THEN Append(out, notify_port_controller(0, vid, queue_id, flag(enable)))
    ELSE out

on_vring_state_changed(vid, queue_id, enable) ==
  /\ portmap' = set_queue_state(portmap, vid, queue_id, enable)
  /\ sock' = Reported(vid, queue_id, enable, sock)
  /\ Fits
  /\ UNCHANGED port_cntr_

(* Mutant: the port controller is not told. *)
on_destroy_device_silent(vid) ==
  /\ portmap' = clear_device(portmap, vid)
  /\ UNCHANGED <<port_cntr_, sock>>

on_destroy_device(vid) ==
  /\ sock' = Append(sock, notify_port_controller(1, vid, 0, 0))
  /\ Fits
  /\ portmap' = clear_device(portmap, vid)
  /\ UNCHANGED port_cntr_

-----------------------------------------------------------------------------
(* The library: when each callback is made.                                *)

(* new_device is called in the same message that made queues 0 and 1 both  *)
(* ready, before the thread takes another message.                         *)
Due(v) == dev[v] = "conn" /\ ring_up[v][0] /\ ring_up[v][1]

TakesMessage(v) == dev[v] # "free" /\ \A w \in Vids : ~Due(w)

Connect(v) ==
  /\ dev[v] = "free"
  /\ \A w \in Vids : ~Due(w) /\ (w < v => dev[w] # "free")
  /\ dev' = [dev EXCEPT ![v] = "conn"]
  /\ UNCHANGED <<ring_up, portmap, port_cntr_, sock>>

(* Drivers bring queues up in order unless Guest has "unordered". *)
QueueUp(v, q) ==
  /\ TakesMessage(v)
  /\ ~ring_up[v][q]
  /\ "unordered" \in Guest \/ \A p \in Queues : p < q => ring_up[v][p]
  /\ ring_up' = [ring_up EXCEPT ![v][q] = TRUE]
  /\ on_vring_state_changed(v, q, TRUE)
  /\ UNCHANGED dev

(* rte_vhost_get_vring_num() is one more than the highest queue the guest  *)
(* has mentioned so far, ready or not.                                     *)
NewDevice(v) ==
  /\ Due(v)
  /\ port_cntr_ < MaxPorts
  /\ \E vring_count \in 2 .. 2 * MaxPairs :
        /\ \A q \in Queues : ring_up[v][q] => q < vring_count
        /\ on_new_device(v, vring_count)
  /\ dev' = [dev EXCEPT ![v] = "running"]
  /\ UNCHANGED ring_up

(* The guest disables one queue; the device stays announced. *)
QueueDown(v, q) ==
  /\ "stops" \in Guest
  /\ TakesMessage(v)
  /\ ring_up[v][q]
  /\ ring_up' = [ring_up EXCEPT ![v][q] = FALSE]
  /\ on_vring_state_changed(v, q, FALSE)
  /\ UNCHANGED dev

(* The guest takes a queue of an announced device back: the device is      *)
(* retired, then the queue reported down.  Two callbacks of one message.   *)
StopDevice(v, q) ==
  /\ "stops" \in Guest
  /\ TakesMessage(v)
  /\ dev[v] = "running"
  /\ ring_up[v][q]
  /\ dev' = [dev EXCEPT ![v] = "conn"]
  /\ ring_up' = [ring_up EXCEPT ![v][q] = FALSE]
  /\ portmap' = set_queue_state(clear_device(portmap, v), v, q, FALSE)
  /\ sock' = Reported(v, q, FALSE, Append(sock, notify_port_controller(1, v, 0, 0)))
  /\ Fits
  /\ UNCHANGED port_cntr_

(* The connection closes.  The queues vanish without a callback, and a     *)
(* device that was not announced vanishes with none at all.                *)
Disconnect(v) ==
  /\ "closes" \in Guest
  /\ TakesMessage(v)
  /\ IF dev[v] = "running" THEN on_destroy_device(v)
                           ELSE UNCHANGED <<portmap, port_cntr_, sock>>
  /\ dev' = [dev EXCEPT ![v] = "free"]
  /\ ring_up' = [ring_up EXCEPT ![v] = NoRings]

VhostNext ==
  \E v \in Vids :
    \/ Connect(v)
    \/ NewDevice(v)
    \/ Disconnect(v)
    \/ \E q \in Queues : QueueUp(v, q) \/ QueueDown(v, q) \/ StopDevice(v, q)

-----------------------------------------------------------------------------
(* A port keeps its device and its number of pairs for as long as it is in *)
(* the map, and a port id that has been given out never comes back: each   *)
(* new_device takes the next port_cntr_, although everything else in the   *)
(* map is looked up by device id.                                          *)
PortBinding ==
  [][ /\ \A p \in DOMAIN portmap \cap DOMAIN portmap' :
           /\ portmap'[p].vid = portmap[p].vid
           /\ portmap'[p].nof_queue_pairs = portmap[p].nof_queue_pairs
      /\ \A p \in DOMAIN portmap' \ DOMAIN portmap : p >= port_cntr_ ]_vhostVars

(* The entry of a device whose port id happens to be its device id never   *)
(* shows a queue enabled that is down: the callbacks write it, the removal *)
(* of the device erases it, and no other device's callback reaches it.     *)
RecordedUpIsUp ==
  \A p \in DOMAIN portmap \cap Vids :
    portmap[p].vid = p => \A q \in Queues : portmap[p].enabled[q] => ring_up[p][q]

(* The two readers of the map agree, although only one of them looks at    *)
(* the number of pairs: a pair that is said to be ready is one the device  *)
(* has, and both of its queues are up if the port carries its device's id. *)
AnswersAgree ==
  \A p \in DOMAIN portmap : \A s \in Slots :
    is_queue_ready(portmap, p, s) =>
      LET qids == get_vhost_qids(portmap, p, s) IN
      /\ qids[1] \in Vids
      /\ qids[1] = p => ring_up[p][qids[2]] /\ ring_up[p][qids[3]]

(* "void set_queue_state(int port_id, ...)": what is recorded of a running *)
(* device, under the port that was given to it, is the state of its        *)
(* queues.  The controller passes the device id where a port id is meant.  *)
PortRecordsRing ==
  \A p \in DOMAIN portmap :
    LET entry == portmap[p] IN
    dev[entry.vid] = "running" =>
      \A q \in Covered(entry) : entry.enabled[q] = ring_up[entry.vid][q]

=============================================================================
