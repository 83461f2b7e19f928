---------------------------- MODULE MCGetdReplies ---------------------------
(* GetdReplies on the instance of MCGetd.                                  *)
EXTENDS GetdReplies

CONSTANTS s1, s2, regular, directory, missing

MCKind == [p \in Paths |-> CASE p = regular   -> "regular"
                             [] p = directory -> "other"
                             [] p = missing   -> "absent"]
=============================================================================
