---------------------------- MODULE MCGetdSystem ----------------------------
(* GetdSystem on a small instance for TLC: two clients, two session ids, a *)
(* regular file and a FIFO, chunks of two bytes.                           *)
EXTENDS GetdSystem, TLC

CONSTANTS a, b, s1, s2, regular, fifo

Symmetry == Permutations(Clients) \cup Permutations(Sids)

MCKind == [p \in Paths |-> IF p = regular THEN "regular" ELSE "other"]
=============================================================================
