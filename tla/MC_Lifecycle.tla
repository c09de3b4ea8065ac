---------------------------- MODULE MC_Lifecycle ----------------------------
(* Two processes, two keys, one value: instances of Lifecycle for TLC. *)
EXTENDS Lifecycle

CONSTANTS p1, p2, k1, k2, v1

MC_Procs == {p1, p2}
MC_Keys == {k1, k2}
MC_Vals == {v1}

====
