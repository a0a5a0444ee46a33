--------------------------- MODULE MCTrafficLight -----------------------------
(* TrafficLight with the threads of main.c, three of them at one face.     *)
EXTENDS TrafficLight
CONSTANTS EAST, WEST, TH_EAST1, TH_EAST2, TH_EAST3, TH_WEST1
Directions == [t \in Threads |-> IF t = TH_WEST1 THEN WEST ELSE EAST]
===============================================================================
