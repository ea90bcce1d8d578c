----------------------------- MODULE MCWatchdog -----------------------------
(* The instance of Watchdog that TLC checks. *)
EXTENDS Watchdog

CONSTANTS px4, rosmaster

MCProc == {px4, rosmaster}
=============================================================================
