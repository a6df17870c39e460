----------------------------- MODULE LoopbackStop -----------------------------
(***************************************************************************)
(* Loopback with the memory of which handlers were told to stop since they *)
(* were last started.                                                      *)
(***************************************************************************)
EXTENDS MCLoopback

VARIABLE stopped

Restarted(h) ==
  \E t \in Vids \X Slots \X Roles : t[2] = h /\ created'[t] > created[t]

Removal == Len(sock') < Len(sock) /\ Head(sock).meta = 1

StopInit == Init /\ stopped = [h \in Slots |-> FALSE]

StopNext ==
  /\ Next
  /\ stopped' = [h \in Slots |-> (Removal \/ stopped[h]) /\ ~Restarted(h)]

StopSpec == StopInit /\ [][StopNext]_<<vars, stopped>>

(* "Signals both threads to stop": a handler told to stop, and not started *)
(* since, has its running flag low.                                        *)
StopHolds == \A h \in Slots : stopped[h] => ~is_running_[h]

=============================================================================
