------------------------------- MODULE Drivers --------------------------------
(* What the models of the device drivers share: threads in calls, and a panic. *)
CONSTANT NULL

VARIABLES
  c,              \* where a thread is in a call, and what it asks for
  halted          \* after debug_panic()

At(t, place) == ~halted /\ c[t].at = place
=============================================================================
