------------------------------ MODULE MCNnSock ------------------------------
(* NnSock with the three signals of main, so that a handleQuit may         *)
(* interrupt another one, and two peers, one after the other.              *)
EXTENDS NnSock

CONSTANTS p1, p2
=============================================================================
