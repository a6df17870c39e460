------------------------------- MODULE PortMap ------------------------------
(***************************************************************************)
(* ConfigManager's map from a port id to the vhost device behind it, as    *)
(* operators on the value of the map.  Each one is the whole body of a     *)
(* method that runs under pmap_mutex_.                                     *)
(*                                                                         *)
(* An entry keeps the device's vid, its number of queue pairs and, for     *)
(* each pair, whether its rx and tx queues are enabled.  The rx and tx ids *)
(* of pair i are always 2i and 2i+1, so a queue's flag is kept under the   *)
(* queue's id.  The port-side descriptors (pd), which nothing in the       *)
(* program reads back, are left out.                                       *)
(***************************************************************************)
EXTENDS Common

PortEntry == [vid : Vids, nof_queue_pairs : Slots \cup {MaxPairs},
              enabled : [Queues -> BOOLEAN]]

(* Queues the entry's loop bound covers: set_queue_state and the readers   *)
(* look no further than nof_queue_pairs.                                   *)
Covered(entry) == {q \in Queues : q < 2 * entry.nof_queue_pairs}

EmptyMap == [p \in {} |-> {}]

(* pmap_[port_id] creates a zero-filled entry or reuses the one there; the *)
(* flags beyond nof_pairs are not touched.                                 *)
init_vhost_device(pm, port_id, vid, nof_pairs) ==
  LET old == IF port_id \in DOMAIN pm THEN pm[port_id].enabled
                                      ELSE [q \in Queues |-> FALSE]
      new == [vid |-> vid, nof_queue_pairs |-> nof_pairs,
              enabled |-> [q \in Queues |-> q >= 2 * nof_pairs /\ old[q]]]
  IN  [p \in DOMAIN pm \cup {port_id} |-> IF p = port_id THEN new ELSE pm[p]]

(* A port id that is not in the map, or a vring beyond the entry's pairs,  *)
(* is ignored without a word.                                              *)
set_queue_state(pm, port_id, vring_id, enable) ==
  IF port_id \in DOMAIN pm /\ vring_id \in Covered(pm[port_id])
    THEN [pm EXCEPT ![port_id].enabled[vring_id] = enable]
    ELSE pm

(* Mutant: the entry survives its device. *)
clear_device_kept(pm, vid) == pm

clear_device(pm, vid) == [p \in DOMAIN pm \ {vid} |-> pm[p]]

(* The device behind a port and the queues of one of its pairs; -1 for a   *)
(* port that is not there, or a pair it does not have.                     *)
get_vhost_qids(pm, port_id, q_num) ==
  IF port_id \in DOMAIN pm /\ q_num < pm[port_id].nof_queue_pairs
    THEN <<pm[port_id].vid, rxq(q_num), txq(q_num)>>
    ELSE <<-1, 0, 0>>

(* Mutant: one queue of the pair is enough. *)
is_queue_ready_either(pm, port_id, qpid) ==
  /\ port_id \in DOMAIN pm
  /\ pm[port_id].enabled[rxq(qpid)] \/ pm[port_id].enabled[txq(qpid)]

(* The argument is called vid and looked up as a port id; how many pairs   *)
(* the device has is not looked at.                                        *)
is_queue_ready(pm, port_id, qpid) ==
  /\ port_id \in DOMAIN pm
  /\ pm[port_id].enabled[rxq(qpid)] /\ pm[port_id].enabled[txq(qpid)]

=============================================================================
