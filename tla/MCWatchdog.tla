----------------------------- MODULE MCWatchdog -----------------------------
(* Small instances of Watchdog for TLC. *)
EXTENDS Watchdog, TLC

CONSTANTS apiCheck, agent

\* The two callers of Reboot do the same.
Symmetry == Permutations(Callers)
============================================================================
