----------------------------- MODULE MCCampaign -----------------------------
(* Instances of Campaign for TLC. *)
EXTENDS Campaign

(* A close pass that completes, one that ends stuck, a far completing      *)
(* flight in the zero-point tier, and a flake.                             *)
Close == [d |-> 25, t |-> 2, goal |-> TRUE]
Stuck == [d |-> 25, t |-> 2, goal |-> FALSE]
Far   == [d |-> 150, t |-> 2, goal |-> TRUE]
Lost  == [d |-> 600, t |-> 2, goal |-> FALSE]

AllFlights == {Close, Stuck, Far, Lost}

(* Local runs: what varies is how long they take. *)
LocalFlights == {Close, Stuck}

AlwaysLegal == [n \in Niche |-> {TRUE}]

(* A mission on which any draw may fail to find a legal layout. *)
BarrenMission == [n \in Niche |-> BOOLEAN]

BarrenFlights == {Close, Lost}
=============================================================================
