---------------------------- MODULE NotifySocket ----------------------------
(***************************************************************************)
(* The connected AF_UNIX stream between the vhost controller (writer) and  *)
(* the port controller (reader).  Every write and every read is one whole  *)
(* PortDeviceRingState, so the byte stream is a FIFO of records.  The      *)
(* kernel's send buffer is finite and the writer's descriptor is blocking: *)
(* a writer that finds no room waits, which is a guard here.               *)
(***************************************************************************)
EXTENDS Common

CONSTANT SockCap     \* records the kernel buffers before write() blocks

ASSUME SockCapAssumption == SockCap \in Nat \ {0}

VARIABLE
  sock               \* records written and not yet read

SockInit == sock = <<>>

(* The records this step writes have room: write() returns.  Used after    *)
(* sock' is given its value.                                               *)
Fits == Len(sock') <= SockCap

Receive == sock # <<>> /\ sock' = Tail(sock)

=============================================================================
