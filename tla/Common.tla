------------------------------- MODULE Common -------------------------------
(***************************************************************************)
(* What inc/common.h declares for every component: how many queue pairs a  *)
(* device may have, the numbering of its queues, and the record the vhost  *)
(* side writes into the abstract socket.                                   *)
(*                                                                         *)
(* Queue ids come in pairs: rx is even, tx is odd, pair s is queues 2s and *)
(* 2s+1.  Port handlers sit in an array with one slot for each pair.       *)
(***************************************************************************)
EXTENDS Integers, Sequences, FiniteSets

CONSTANTS
  Vids,      \* device ids the vhost library hands out
  MaxPairs   \* MAX_QUEUE_PAIRS, and the length of the port_handler_ array

ASSUME VidsAssumption == Vids \subseteq Nat
ASSUME MaxPairsAssumption == MaxPairs \in Nat \ {0}

Slots == 0 .. (MaxPairs - 1)

Queues == 0 .. (2 * MaxPairs - 1)

is_even(n) == n % 2 = 0

rxq(s) == 2 * s
txq(s) == 2 * s + 1

(* The notification written for a queue change (meta 0) or for the removal *)
(* of a device (meta 1).                                                   *)
PortDeviceRingState ==
  [meta : {0, 1}, port_id : Nat, device_id : Vids, qid : Queues, enable : {0, 1}]

=============================================================================
