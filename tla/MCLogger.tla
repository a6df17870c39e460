------------------------------- MODULE MCLogger -------------------------------
(***************************************************************************)
(* Instances of Logger for TLC: the callback thread logs besides main, and *)
(* the user presses Ctrl+C while the service manager sends SIGTERM, so     *)
(* that one handler can be interrupted by the other.                       *)
(***************************************************************************)
EXTENDS Logger

MCOthers == {"vhost"}
MCBothSignals == {"SIGINT", "SIGTERM"}
MCOneSignal == {"SIGINT"}

=============================================================================
