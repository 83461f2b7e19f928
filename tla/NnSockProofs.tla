----------------------------- MODULE NnSockProofs -----------------------------
(***************************************************************************)
(* Proofs about module NnSock, for any number of signals: SockInv is       *)
(* inductive.  In it, the flags and the eventfds always agree, and agree   *)
(* with the pair socket when nobody is in the context; the locks are held  *)
(* where main's thread is, or, when one signal found it outside of them,   *)
(* where that handleQuit is.                                               *)
(***************************************************************************)
EXTENDS NnSock, TLAPS

Signalled == flag = efd /\ (ctx = "free" => flag = ready)

InGlobal == {"inSocket", "held", "released"}
InCtx == {"try", "check", "leave", "again"}

Undisturbed ==
    depth = 0 =>
        /\ fate = "running" /\ hpc = "none"
        /\ heap # "handler" /\ out # "freed"
        /\ global = "main" <=> pc \in InGlobal
        /\ ctx = "main" <=> pc \in InCtx

OneHandler ==
    depth = 1 /\ ~Inside =>
        /\ fate \in {"running", "exited"}
        /\ global = "main" <=> hpc \in {"hold", "released"}
        /\ ctx = "main" <=> hpc \in {"rm", "leave"}
        /\ heap = "handler" <=> hpc = "freeing"
        /\ hpc \in {"free", "freeing"} => out # "freed"

QuitInv ==
    /\ hpc = "freeing" => heap = "handler"
    /\ bound => pc # "start"
    /\ fate = "exited" => hpc = "exit"
    /\ hpc \in {"leave", "rele", "released", "exit"} /\ bound => ep # "active"

SockInv == TypeOK /\ Signalled /\ Undisturbed /\ OneHandler /\ QuitInv

(* Nothing is held and nothing signalled at first.                         *)
LEMMA InitSockInv == Init => SockInv
<1>1. SUFFICES ASSUME Init PROVE SockInv
  OBVIOUS
<1>2. TypeOK
  <2>1. flag \in [Dirs -> BOOLEAN] /\ efd \in [Dirs -> BOOLEAN]
    BY <1>1 DEF Init, NoneReady
  <2>2. ready \in [Dirs -> BOOLEAN] /\ peer = NoPeer /\ bound \in BOOLEAN
    BY <1>1 DEF Init, PairInit, NoneReady
  <2> QED
    BY <1>1, <2>1, <2>2, SockAssumption DEF Init, TypeOK
<1>3. Signalled
  BY <1>1 DEF Init, PairInit, Signalled
<1>4. Undisturbed /\ OneHandler /\ QuitInv
  BY <1>1 DEF Init, Undisturbed, OneHandler, QuitInv, InGlobal, InCtx
<1> QED
  BY <1>2, <1>3, <1>4 DEF SockInv

(* Leaving the context with flags and eventfds that agree never fails and  *)
(* makes them agree with the pair socket.                                  *)
LEMMA OnLeaveSignals ==
    ASSUME TypeOK, flag = efd, OnLeave
    PROVE  /\ ctx' = "free" /\ fate' = "running"
           /\ flag' = ready /\ efd' = ready
<1>1. \A d \in Dirs : flag[d] \in BOOLEAN /\ efd[d] = flag[d] /\ ready[d] \in BOOLEAN
  BY DEF TypeOK
<1>2. ~ \E d \in Dirs : Unsignals(d) /\ ~efd[d]
  BY <1>1 DEF Unsignals
<1>3. \A d \in Dirs : (ready[d] \/ (efd[d] /\ ~Unsignals(d))) = ready[d]
  BY <1>1, Zenon DEF Unsignals
<1>4. efd' = [d \in Dirs |-> ready[d]]
  BY <1>3, Zenon DEF OnLeave
<1>5. ready = [d \in Dirs |-> ready[d]]
  BY DEF TypeOK
<1> QED
  BY <1>2, <1>4, <1>5 DEF OnLeave

(* The second look at the eventfd finds the flag as it is.                 *)
LEMMA CheckKeepsFlag ==
    ASSUME TypeOK, flag = efd, MCheck
    PROVE  flag' = flag
<1>1. Dir \in Dirs /\ flag[Dir] \in BOOLEAN
  BY DEF TypeOK, Dir, Dirs
<1>2. (flag[Dir] \/ efd[Dir]) = flag[Dir]
  BY <1>1, Zenon
<1>3. flag' = [flag EXCEPT ![Dir] = flag[Dir]]
  BY <1>2, Zenon DEF MCheck
<1> QED
  BY <1>1, <1>3 DEF TypeOK

(* A step of main's thread, which takes none once a signal came.           *)
LEMMA MainKeepsSockInv == ASSUME SockInv, MainStep \/ MAllocates PROVE SockInv'
<1> USE DEF SockInv, Signalled, Undisturbed, OneHandler, QuitInv, Inside,
            InGlobal, InCtx, Main, call, locks, pair, fds, static, handler
<1>0. depth = 0 /\ depth' = 0 /\ hpc' = hpc
  BY DEF MainStep, MTakesGlobal, MGivesGlobal, MEnter, MBind, MTransfers,
         MFindsNothing, MEvent, MLeave, MPoll, MCheck, MAssignsBind,
         MAssignsOut, MNextCall, MAllocates
<1>1. CASE MTakesGlobal
  BY <1>0, <1>1 DEF MTakesGlobal, TypeOK
<1>2. CASE MGivesGlobal
  BY <1>0, <1>2 DEF MGivesGlobal, TypeOK
<1>3. CASE MEnter
  BY <1>0, <1>3 DEF MEnter, TypeOK
<1>4. CASE MBind
  BY <1>0, <1>4 DEF MBind, TypeOK
<1>5. CASE MTransfers
  BY <1>0, <1>5 DEF MTransfers, Take, TypeOK, Dir, Dirs
<1>6. CASE MFindsNothing
  BY <1>0, <1>6 DEF MFindsNothing, TypeOK
<1>7. CASE MEvent
  BY <1>0, <1>7, ZenonT(30) DEF MEvent, Offer, Rm, NoneReady, TypeOK, Dir, Dirs
<1>8. CASE MLeave
  <2>1. ctx' = "free" /\ fate' = "running" /\ flag' = ready /\ efd' = ready
    BY <1>8, OnLeaveSignals DEF MLeave
  <2> QED
    BY <1>0, <1>8, <2>1 DEF MLeave, TypeOK
<1>9. CASE MPoll
  BY <1>0, <1>9 DEF MPoll, TypeOK
<1>10. CASE MCheck
  <2>1. flag' = flag
    BY <1>10, CheckKeepsFlag
  <2> QED
    BY <1>0, <1>10, <2>1, ZenonT(30) DEF MCheck, TypeOK
<1>11. CASE MAssignsBind
  BY <1>0, <1>11 DEF MAssignsBind, TypeOK
<1>12. CASE MAssignsOut
  BY <1>0, <1>12 DEF MAssignsOut, TypeOK
<1>13. CASE MNextCall
  BY <1>0, <1>13 DEF MNextCall, TypeOK
<1>14. CASE MAllocates
  BY <1>0, <1>14 DEF MAllocates, TypeOK
<1> QED
  BY <1>1, <1>2, <1>3, <1>4, <1>5, <1>6, <1>7, <1>8, <1>9, <1>10, <1>11,
     <1>12, <1>13, <1>14 DEF MainStep

(* A step of the worker: it holds nothing but the context, and leaves it   *)
(* as the next one expects it.                                             *)
LEMMA WorkerKeepsSockInv ==
    ASSUME SockInv, WEnter \/ WEvent \/ WStops \/ WLeave
    PROVE  SockInv'
<1> USE DEF SockInv, Signalled, Undisturbed, OneHandler, QuitInv, Inside,
            InGlobal, InCtx, Worker, call, locks, pair, fds, static, handler
<1>1. CASE WEnter
  BY <1>1 DEF WEnter, TypeOK
<1>2. CASE WEvent
  <2>1. ready' \in [Dirs -> BOOLEAN] /\ peer' \in Peers \cup {NoPeer}
    BY <1>2 DEF WEvent, Add, Offer, Rm, NoneReady, TypeOK
  <2>2. TypeOK'
    BY <1>2, <2>1 DEF WEvent, TypeOK
  <2> QED
    BY <1>2, <2>2 DEF WEvent
<1>3. CASE WStops
  BY <1>3 DEF WStops, TypeOK
<1>4. CASE WLeave
  <2>1. ctx' = "free" /\ fate' = "running" /\ flag' = ready /\ efd' = ready
    BY <1>4, OnLeaveSignals DEF WLeave
  <2> QED
    BY <1>4, <2>1 DEF WLeave, TypeOK
<1> QED
  BY <1>1, <1>2, <1>3, <1>4

(* A signal, and a step of the handler it started.                         *)
LEMMA HandlerKeepsSockInv ==
    ASSUME SockInv, Signal \/ HandlerStep
    PROVE  SockInv'
<1> USE SockAssumption
    DEF SockInv, Signalled, Undisturbed, OneHandler, QuitInv, Inside,
        InGlobal, InCtx, H, HFails, call, locks, pair, fds, static, handler
<1>1. CASE Signal
  BY <1>1 DEF Signal, TypeOK
<1>2. CASE HFree
  BY <1>2 DEF HFree, TypeOK
<1>3. CASE HFreed
  <2>1. CASE /\ H("freeing", "global")
             /\ heap' = "free" /\ out' = "freed"
             /\ UNCHANGED <<ctx, global, fds, ep, fate>>
    <3>1. TypeOK' /\ Signalled' /\ Undisturbed' /\ QuitInv'
      BY <2>1 DEF TypeOK
    <3>2. OneHandler'
      BY <2>1 DEF TypeOK
    <3> QED
      BY <3>1, <3>2
  <2>2. CASE out = "freed" /\ HFails("freeing", "aborted")
    BY <2>2 DEF TypeOK
  <2> QED
    BY <1>3, <2>1, <2>2 DEF HFreed
<1>4. CASE HTakesGlobal
  BY <1>4 DEF HTakesGlobal, TypeOK
<1>5. CASE HGivesGlobal
  <2>1. depth # 0 /\ fate = "running" /\ fate' = fate /\ hpc # "none"
    BY <1>5 DEF HGivesGlobal, TypeOK
  <2>2. CASE hpc = "hold"
    <3>1. hpc' = IF pc = "start" THEN "exit" ELSE "enter"
      BY <1>5, <2>2 DEF HGivesGlobal
    <3> QED
      BY <1>5, <2>1, <2>2, <3>1 DEF HGivesGlobal, TypeOK
  <2>3. CASE hpc = "released"
    <3>1. hpc' = "exit"
      BY <1>5, <2>3 DEF HGivesGlobal
    <3> QED
      BY <1>5, <2>1, <2>3, <3>1 DEF HGivesGlobal, TypeOK
  <2> QED
    BY <1>5, <2>2, <2>3 DEF HGivesGlobal
<1>6. CASE HEnter
  BY <1>6 DEF HEnter, TypeOK
<1>7. CASE HRemoves
  BY <1>7 DEF HRemoves, TypeOK
<1>8. CASE HLeave
  <2>1. ctx' = "free" /\ fate' = "running" /\ flag' = ready /\ efd' = ready
    BY <1>8, OnLeaveSignals DEF HLeave
  <2> QED
    BY <1>8, <2>1 DEF HLeave, TypeOK
<1>9. CASE HExit
  BY <1>9 DEF HExit, TypeOK
<1> QED
  BY <1>1, <1>2, <1>3, <1>4, <1>5, <1>6, <1>7, <1>8, <1>9 DEF HandlerStep

(* The invariant holds of every reachable state.                           *)
LEMMA SockInvariant == Spec => []SockInv
<1>1. SockInv /\ UNCHANGED vars => SockInv'
  BY DEF SockInv, TypeOK, Signalled, Undisturbed, OneHandler, QuitInv, Inside,
         InGlobal, InCtx, vars, call, locks, pair, fds, static, handler
<1>2. SockInv /\ [Next]_vars => SockInv'
  BY <1>1, MainKeepsSockInv, WorkerKeepsSockInv, HandlerKeepsSockInv DEF Next
<1> QED BY InitSockInv, <1>2, PTL DEF Spec

(* The variables have their types, however many signals come.              *)
THEOREM SockTypeCorrect == Spec => []TypeOK
<1>1. SockInv => TypeOK
  BY DEF SockInv
<1> QED BY SockInvariant, <1>1, PTL

(* No eventfd is ever out of date when a thread waits for it.              *)
THEOREM EventfdsAreTrue == Spec => []ReadyIsSignalled
<1>1. SockInv => ReadyIsSignalled
  BY DEF SockInv, Signalled, ReadyIsSignalled
<1> QED BY SockInvariant, <1>1, PTL

(* One signal that finds main's thread outside of every lock ends in exit, *)
(* and without a signal nothing ends at all.                               *)
THEOREM OneSignalExits == Spec => []FailsOnlyInside
<1>1. SockInv => FailsOnlyInside
  BY SockAssumption
     DEF SockInv, TypeOK, Undisturbed, OneHandler, FailsOnlyInside
<1> QED BY SockInvariant, <1>1, PTL

(* The endpoint was asked to stop before the program exits.                *)
THEOREM ExitStopsEndpoint == Spec => []ExitEndsConnection
<1>1. SockInv => ExitEndsConnection
  BY DEF SockInv, QuitInv, ExitEndsConnection
<1> QED BY SockInvariant, <1>1, PTL
=============================================================================
