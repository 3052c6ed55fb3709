---------------------------- MODULE MC_CargoUpdate ----------------------------
(* Instances of CargoUpdate for TLC: a full-scope update against one that is *)
(* restricted to one lockfile.                                               *)
EXTENDS CargoUpdate

CONSTANTS full, restricted, l1

MCLocksOf == [u \in Updaters |-> IF u = full THEN Locks ELSE {l1}]
MCExplicitOf == [u \in Updaters |-> u # full]
===============================================================================
