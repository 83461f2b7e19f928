------------------------------- MODULE MCGetd -------------------------------
(* Getd on a small instance for TLC: two session ids, a regular file, a    *)
(* directory and a missing file, chunks of two bytes.                      *)
EXTENDS Getd, TLC

CONSTANTS s1, s2, regular, directory, missing

Symmetry == Permutations(Sids)

MCKind == [p \in Paths |-> CASE p = regular   -> "regular"
                             [] p = directory -> "other"
                             [] p = missing   -> "absent"]
=============================================================================
