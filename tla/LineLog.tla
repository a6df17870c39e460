------------------------------- MODULE LineLog -------------------------------
(***************************************************************************)
(* What the logger promises: the lines that are accepted are written once  *)
(* each, in the order they were accepted in, by whichever thread.  It does *)
(* not promise that every line comes to be written: a line that is         *)
(* accepted when the logger is going away is lost.                         *)
(***************************************************************************)
EXTENDS Integers, Sequences

CONSTANT Lines

VARIABLES
  accepted,   \* lines taken from a caller, in order
  written     \* lines that are out, in order

vars == <<accepted, written>>

Init == accepted = <<>> /\ written = <<>>

Accept(line) ==
  /\ \A i \in 1 .. Len(accepted) : accepted[i] # line
  /\ accepted' = Append(accepted, line)
  /\ UNCHANGED written

Write ==
  /\ \E n \in (Len(written) + 1) .. Len(accepted) : written' = SubSeq(accepted, 1, n)
  /\ UNCHANGED accepted

Next == Write \/ \E line \in Lines : Accept(line)

Spec == Init /\ [][Next]_vars

=============================================================================
