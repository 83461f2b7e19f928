--------------------------- MODULE IpcListenProofs ---------------------------
(***************************************************************************)
(* Proofs about module IpcListen, for any set of processes: ListenInv is   *)
(* inductive and implies AloneListens and ListenerHasFile.                 *)
(***************************************************************************)
EXTENDS IpcListen, TLAPS

Named == {"listen", "listening", "quitting"}

(* A process that is alone: what it has found so far.                      *)
AloneInv ==
    \A d \in Daemons : alone[d] =>
        /\ \A o \in Daemons \ {d} : pc[o] = "off"
        /\ pc[d] = "bind" => file = None
        /\ pc[d] \in Named => file = d
        /\ pc[d] # "deaf"

(* No two starts at once: a starter unlinks no file of a process that is   *)
(* there, and each one that bound the name still has it.                   *)
RaceInv ==
    ~raced => /\ \A d, e \in Daemons :
                     pc[d] \in Starting /\ pc[e] \in Starting => d = e
              /\ \A d \in Daemons : pc[d] = "unlink" => file \notin Daemons
              /\ \A d \in Daemons : pc[d] \in Named => file = d

ListenInv == TypeOK /\ AloneInv /\ RaceInv

(* Nothing has happened at first: the three parts hold.                    *)
LEMMA InitListenInv == Init => ListenInv
BY ListenAssumption
   DEF Init, ListenInv, TypeOK, AloneInv, RaceInv, Starting, Accepts, Named

(* Every system call of every process keeps the variables' types, and the  *)
(* file that is not stale the name of a process that bound it.             *)
LEMMA NextTypeOK == TypeOK /\ [Next]_vars => TypeOK'
<1>1. SUFFICES ASSUME TypeOK, [Next]_vars
               PROVE  TypeOK'
  OBVIOUS
<1>2. CASE UNCHANGED vars
  BY <1>1, <1>2 DEF TypeOK, vars
<1>3. ASSUME NEW d \in Daemons,
             \/ Begin(d) \/ Check(d) \/ Unlink(d) \/ Bind(d) \/ Listen(d)
             \/ Quit(d) \/ Unlinks(d) \/ Closes(d) \/ End(d)
      PROVE  TypeOK'
  <2>1. CASE Begin(d)
    BY <1>1, <2>1 DEF TypeOK, Begin, Goes, Starting, Accepts
  <2>2. CASE Check(d)
    BY <1>1, <2>2 DEF TypeOK, Check, Goes, Starting, Accepts
  <2>3. CASE Unlink(d)
    BY <1>1, <2>3, ListenAssumption DEF TypeOK, Unlink, Goes, Starting, Accepts
  <2>4. CASE Bind(d)
    BY <1>1, <2>4, ListenAssumption DEF TypeOK, Bind, Goes, Starting, Accepts
  <2>5. CASE Listen(d)
    BY <1>1, <2>5 DEF TypeOK, Listen, Goes, Starting, Accepts
  <2>6. CASE Quit(d)
    BY <1>1, <2>6 DEF TypeOK, Quit, Goes, Starting, Accepts
  <2>7. CASE Unlinks(d)
    BY <1>1, <2>7, ListenAssumption DEF TypeOK, Unlinks, Goes, Starting, Accepts
  <2>8. CASE Closes(d)
    BY <1>1, <2>8 DEF TypeOK, Closes, Goes, Starting, Accepts
  <2>9. CASE End(d)
    BY <1>1, <2>9, ListenAssumption DEF TypeOK, End, Goes, Starting, Accepts
  <2> QED BY <1>3, <2>1, <2>2, <2>3, <2>4, <2>5, <2>6, <2>7, <2>8, <2>9
<1> QED BY <1>1, <1>2, <1>3 DEF Next

(* A process that is alone finds the name free or stale, and takes it: no  *)
(* other one moves without taking its being alone.                         *)
LEMMA NextAloneInv == TypeOK /\ AloneInv /\ [Next]_vars => AloneInv'
<1>1. SUFFICES ASSUME TypeOK, AloneInv, [Next]_vars
               PROVE  AloneInv'
  OBVIOUS
<1>2. CASE UNCHANGED vars
  BY <1>1, <1>2 DEF AloneInv, vars
<1>3. ASSUME NEW d \in Daemons,
             \/ Begin(d) \/ Check(d) \/ Unlink(d) \/ Bind(d) \/ Listen(d)
             \/ Quit(d) \/ Unlinks(d) \/ Closes(d) \/ End(d)
      PROVE  AloneInv'
  <2>1. CASE Begin(d)
    BY <1>1, <2>1 DEF TypeOK, AloneInv, Begin, Goes, Starting, Accepts, Named
  <2>2. CASE Check(d)
    <3>1. alone[d] => file \notin Daemons
      BY <1>1, <2>2 DEF TypeOK, AloneInv, Check, Goes
    <3> QED
      BY <1>1, <2>2, <3>1
         DEF TypeOK, AloneInv, Check, Goes, Refused, Starting, Accepts, Named
  <2>3. CASE Unlink(d)
    BY <1>1, <2>3 DEF TypeOK, AloneInv, Unlink, Goes, Starting, Accepts, Named
  <2>4. CASE Bind(d)
    BY <1>1, <2>4 DEF TypeOK, AloneInv, Bind, Goes, Starting, Accepts, Named
  <2>5. CASE Listen(d)
    BY <1>1, <2>5 DEF TypeOK, AloneInv, Listen, Goes, Starting, Accepts, Named
  <2>6. CASE Quit(d)
    BY <1>1, <2>6 DEF TypeOK, AloneInv, Quit, Goes, Starting, Accepts, Named
  <2>7. CASE Unlinks(d)
    BY <1>1, <2>7 DEF TypeOK, AloneInv, Unlinks, Goes, Starting, Accepts, Named
  <2>8. CASE Closes(d)
    BY <1>1, <2>8 DEF TypeOK, AloneInv, Closes, Goes, Starting, Accepts, Named
  <2>9. CASE End(d)
    BY <1>1, <2>9 DEF TypeOK, AloneInv, End, Goes, Starting, Accepts, Named
  <2> QED BY <1>3, <2>1, <2>2, <2>3, <2>4, <2>5, <2>6, <2>7, <2>8, <2>9
<1> QED BY <1>1, <1>2, <1>3 DEF Next

(* While no two start at once: a name found refused stays nobody's until   *)
(* it is unlinked, and nobody else takes or unlinks the name of one that   *)
(* bound it.                                                               *)
LEMMA NextRaceInv == TypeOK /\ RaceInv /\ [Next]_vars => RaceInv'
<1>1. SUFFICES ASSUME TypeOK, RaceInv, [Next]_vars
               PROVE  RaceInv'
  OBVIOUS
<1>2. CASE UNCHANGED vars
  BY <1>1, <1>2 DEF RaceInv, vars
<1>3. ASSUME NEW d \in Daemons,
             \/ Begin(d) \/ Check(d) \/ Unlink(d) \/ Bind(d) \/ Listen(d)
             \/ Quit(d) \/ Unlinks(d) \/ Closes(d) \/ End(d)
      PROVE  RaceInv'
  <2>1. CASE Begin(d)
    BY <1>1, <2>1 DEF TypeOK, RaceInv, Begin, Goes, Starting, Accepts, Named
  <2>2. CASE Check(d)
    <3>1. ~raced /\ Refused => file \notin Daemons
      BY <1>1, <2>2, ListenAssumption
         DEF TypeOK, RaceInv, Check, Goes, Refused, Starting, Accepts, Named
    <3> QED
      BY <1>1, <2>2, <3>1
         DEF TypeOK, RaceInv, Check, Goes, Starting, Accepts, Named
  <2>3. CASE Unlink(d)
    BY <1>1, <2>3, ListenAssumption
       DEF TypeOK, RaceInv, Unlink, Goes, Starting, Accepts, Named
  <2>4. CASE Bind(d)
    BY <1>1, <2>4, ListenAssumption
       DEF TypeOK, RaceInv, Bind, Goes, Starting, Accepts, Named
  <2>5. CASE Listen(d)
    BY <1>1, <2>5 DEF TypeOK, RaceInv, Listen, Goes, Starting, Accepts, Named
  <2>6. CASE Quit(d)
    BY <1>1, <2>6 DEF TypeOK, RaceInv, Quit, Goes, Starting, Accepts, Named
  <2>7. CASE Unlinks(d)
    BY <1>1, <2>7, ListenAssumption
       DEF TypeOK, RaceInv, Unlinks, Goes, Starting, Accepts, Named
  <2>8. CASE Closes(d)
    BY <1>1, <2>8 DEF TypeOK, RaceInv, Closes, Goes, Starting, Accepts, Named
  <2>9. CASE End(d)
    BY <1>1, <2>9, ListenAssumption
       DEF TypeOK, RaceInv, End, Goes, Starting, Accepts, Named
  <2> QED BY <1>3, <2>1, <2>2, <2>3, <2>4, <2>5, <2>6, <2>7, <2>8, <2>9
<1> QED BY <1>1, <1>2, <1>3 DEF Next

(* The invariant holds of every reachable state.                           *)
LEMMA ListenInvariant == Spec => []ListenInv
<1>1. ListenInv /\ [Next]_vars => ListenInv'
  BY NextTypeOK, NextAloneInv, NextRaceInv DEF ListenInv
<1> QED BY InitListenInv, <1>1, PTL DEF Spec

(* Any number of getds on one file: the variables have their types, and a  *)
(* file that is not stale names the socket of a process that is there.     *)
THEOREM ListenTypeCorrect == Spec => []TypeOK
<1>1. ListenInv => TypeOK
  BY DEF ListenInv
<1> QED BY ListenInvariant, <1>1, PTL

(* A getd that starts alone listens on the name, whatever it finds.        *)
THEOREM StartsAlone == Spec => []AloneListens
<1>1. ListenInv => AloneListens
  BY DEF ListenInv, AloneInv, AloneListens, Named
<1> QED BY ListenInvariant, <1>1, PTL

(* Without two starts at once no listening getd ever loses its name.       *)
THEOREM KeepsItsFile == Spec => []ListenerHasFile
<1>1. ListenInv => ListenerHasFile
  BY DEF ListenInv, RaceInv, ListenerHasFile, Named
<1> QED BY ListenInvariant, <1>1, PTL
=============================================================================
