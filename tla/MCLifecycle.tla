----------------------------- MODULE MCLifecycle -----------------------------
(***************************************************************************)
(* Instances of Lifecycle for TLC: one device, with one pair or two and so *)
(* as many handlers, whose guest comes, goes and comes back while the      *)
(* program ends.                                                           *)
(***************************************************************************)
EXTENDS Lifecycle

MCOneDevice == {0}
MCGuest == {"closes"}

=============================================================================
