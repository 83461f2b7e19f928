------------------------------ MODULE MCIpcConn ------------------------------
(* IpcConn on a small instance for TLC.  Connections are interchangeable    *)
(* for the safety properties: nothing but Init chooses between free ones.   *)
EXTENDS IpcConn

CONSTANTS c1, c2, c3

Symmetry == Permutations(Conn)
=============================================================================
