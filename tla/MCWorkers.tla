------------------------------ MODULE MCWorkers ------------------------------
(* The instance of Workers that TLC checks. *)
EXTENDS Workers

CONSTANTS w1, w2

MCWorker == {w1, w2}
=============================================================================
