----------------------------- MODULE MCIpcListen -----------------------------
(* IpcListen with model values for its processes.                          *)
EXTENDS IpcListen, TLC

Symmetry == Permutations(Daemons)
=============================================================================
