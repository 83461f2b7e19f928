----------------------------- MODULE PairSocket -----------------------------
(***************************************************************************)
(* What the pair socket promises to the calls above it (nn_excl, xpair):   *)
(* one peer at a time, which is replaced only after it was lost, and for   *)
(* each direction whether a call would go through at once.  A direction    *)
(* that was used is offered again when the message is on its way or the    *)
(* next one is there; a peer that is lost takes both directions with it.   *)
(***************************************************************************)
CONSTANTS Peers, NoPeer

ASSUME PairAssumption == NoPeer \notin Peers

VARIABLES
    peer,   \* whose pipe excl has
    ready   \* ready[d]: does excl have it as its inpipe, outpipe?

pair == <<peer, ready>>

Dirs == {"in", "out"}

NoneReady == [d \in Dirs |-> FALSE]

PairInit == peer = NoPeer /\ ready = NoneReady

(* A second peer is refused.                                               *)
Add(p) ==
    /\ peer = NoPeer
    /\ peer' = p
    /\ UNCHANGED ready

Offer(d) ==
    /\ peer # NoPeer /\ ~ready[d]
    /\ ready' = [ready EXCEPT ![d] = TRUE]
    /\ UNCHANGED peer

(* nn_recv or nn_send.                                                     *)
Take(d) ==
    /\ ready[d]
    /\ ready' = [ready EXCEPT ![d] = FALSE]
    /\ UNCHANGED peer

Rm ==
    /\ peer # NoPeer
    /\ peer' = NoPeer
    /\ ready' = NoneReady

PairNext ==
    \/ \E p \in Peers : Add(p)
    \/ \E d \in Dirs : Offer(d) \/ Take(d)
    \/ Rm

PairSpec == PairInit /\ [][PairNext]_pair
=============================================================================
