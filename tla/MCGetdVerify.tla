---------------------------- MODULE MCGetdVerify ----------------------------
(* GetdVerify on arrays of at most three characters over two letters: every *)
(* message with every length field up to two more than fits.                *)
EXTENDS GetdVerify

CONSTANTS a, b
=============================================================================
