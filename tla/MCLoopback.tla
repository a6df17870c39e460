------------------------------ MODULE MCLoopback ------------------------------
(***************************************************************************)
(* Instances of Loopback for TLC.                                          *)
(*                                                                         *)
(* Two of the runs ask for all that guests can do: one for two devices     *)
(* with one pair each, which share a handler and get each other's entries  *)
(* in the port map, and one for one device with two pairs, so that there   *)
(* are queues (2 and 3) that are reported by their own callback.  The      *)
(* orderly run has two devices with two pairs, and guests that only come   *)
(* up.                                                                     *)
(***************************************************************************)
EXTENDS Loopback

MCOneDevice == {0}
MCTwoDevices == {0, 1}

MCAnyGuest == {"stops", "closes", "unordered"}
MCReturning == {"closes"}
MCUnordered == {"unordered"}
MCOrderly == {}

=============================================================================
