----------------------------- MODULE PairService -----------------------------
(***************************************************************************)
(* What the program promises of a queue pair of a device id, whatever      *)
(* guests do and however its threads interleave: the pair gets one chance  *)
(* to be served in the life of the process, by one thread of each role,    *)
(* and what has ended does not come back.                                  *)
(*                                                                         *)
(* It promises no more: that a pair is served at all, and again when its   *)
(* device returns, is not promised here because the code does not do it.   *)
(***************************************************************************)
CONSTANTS Pairs, Workers

VARIABLES
  spent,     \* pairs that have had their chance
  alive      \* the roles at work for a pair

vars == <<spent, alive>>

Init ==
  /\ spent = {}
  /\ alive = [p \in Pairs |-> {}]

(* The pair's objects are made and its workers started, all of them. *)
Serve(p) ==
  /\ p \notin spent
  /\ spent' = spent \cup {p}
  /\ alive' = [alive EXCEPT ![p] = Workers]

(* Pairs lose their chance: only some of the objects of one could be made, *)
(* or what would serve them is taken away.                                 *)
GiveUp(ps) ==
  /\ spent' = spent \cup ps
  /\ UNCHANGED alive

Finish(p, w) ==
  /\ w \in alive[p]
  /\ alive' = [alive EXCEPT ![p] = @ \ {w}]
  /\ UNCHANGED spent

Next ==
  \/ \E ps \in SUBSET Pairs : GiveUp(ps)
  \/ \E p \in Pairs : Serve(p) \/ \E w \in Workers : Finish(p, w)

Spec == Init /\ [][Next]_vars

=============================================================================
