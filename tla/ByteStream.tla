----------------------------- MODULE ByteStream -----------------------------
(***************************************************************************)
(* What tcp/Buffer promises its users: the bytes come out in the order in  *)
(* which they went in, none lost, none twice.  The k-th byte that goes in  *)
(* is the number k.                                                        *)
(***************************************************************************)
EXTENDS Integers

VARIABLES in, out,   \* how many bytes have gone in and come out
          last       \* the bytes that came out last, a function on 0 .. n - 1

vars == <<in, out, last>>

Put == in' \in Nat /\ in < in' /\ UNCHANGED <<out, last>>

Take ==
  \E n \in 0 .. (in - out) :
    /\ last' = [i \in 0 .. n - 1 |-> out + 1 + i]
    /\ out' = out + n /\ UNCHANGED in

Init == in = 0 /\ out = 0 /\ last = [i \in {} |-> 0]
Spec == Init /\ [][Put \/ Take]_vars
=============================================================================
