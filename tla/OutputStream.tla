---------------------------- MODULE OutputStream ----------------------------
(***************************************************************************)
(* What tcp/TcpConnection promises those who send over it: what has been   *)
(* accepted leaves in the order in which it was accepted, each unit once,  *)
(* until the connection closes; then nothing is accepted and nothing       *)
(* leaves any more.  Only what a file turned out not to hold is passed     *)
(* over.  The k-th unit accepted is the number k.                          *)
(***************************************************************************)
EXTENDS Naturals, Sequences

VARIABLES accepted,   \* how many units were accepted
          wire,       \* those that left
          missing,    \* how many were passed over
          open

vars == <<accepted, wire, missing, open>>

\* The last unit that left or was passed over.
Position == Len(wire) + missing

Pass ==
  /\ open /\ UNCHANGED open
  /\ accepted' \in Nat /\ accepted <= accepted'
  /\ \E n \in 0 .. accepted' - Position : wire' = wire \o [i \in 1 .. n |-> Position + i]
  /\ missing' \in Nat /\ missing <= missing' /\ Len(wire') + missing' <= accepted'

Close == open /\ open' = FALSE /\ UNCHANGED <<accepted, wire, missing>>

Init == accepted = 0 /\ wire = << >> /\ missing = 0 /\ open = TRUE
Spec == Init /\ [][Pass \/ Close]_vars
=============================================================================
