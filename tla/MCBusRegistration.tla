-------------------------- MODULE MCBusRegistration --------------------------
(* Three calls of the thread; four files, one of which is no description.  *)
EXTENDS BusRegistration
ThreeOfFour == {1, 3, 4}
==============================================================================
