------------------------------ MODULE IpcListen ------------------------------
(***************************************************************************)
(* getds that start, quit and crash on one file, /tmp/getd.ipc: the file   *)
(* is the name of the socket getd listens on, outlives the process that    *)
(* created it, and keeps others from binding the name.                     *)
(*                                                                         *)
(* A starting getd (nn_bipc_listen) connects to the file to see whether it *)
(* is in use, unlinks it when nobody listens there, binds and listens;     *)
(* main ignores that nn_bind failed and waits for messages nobody can      *)
(* send.  A getd that is told to quit asks the listener to stop and exits; *)
(* the worker unlinks the file, closes the socket, or has no time to.      *)
(* Steps are the system calls.                                             *)
(***************************************************************************)

CONSTANTS Daemons, None, Stale  \* no file; the file of a process that ended

ASSUME ListenAssumption ==
    /\ None \notin Daemons /\ Stale \notin Daemons /\ None # Stale

VARIABLES
    pc,     \* pc[d]: where d is
    file,   \* whose socket the file names
    alone,  \* history: alone[d]: was no other process there since d began?
    raced   \* history: were two of them ever starting at the same time?

vars == <<pc, file, alone, raced>>

Starting == {"check", "unlink", "bind", "listen"}

(* A socket takes connections from listen to close.                        *)
Accepts == {"listening", "quitting", "unlinked"}

Init ==
    /\ pc = [d \in Daemons |-> "off"]
    /\ file \in {None, Stale}
    /\ alone = [d \in Daemons |-> FALSE]
    /\ raced = FALSE

-----------------------------------------------------------------------------
Goes(d, from, to) ==
    /\ pc[d] = from
    /\ pc' = [pc EXCEPT ![d] = to]

Begin(d) ==
    /\ Goes(d, "off", "check")
    /\ alone' = [e \in Daemons |->
                    IF e = d THEN \A o \in Daemons \ {d} : pc[o] = "off"
                             ELSE FALSE]
    /\ raced' = (raced \/ \E e \in Daemons : pc[e] \in Starting)
    /\ UNCHANGED file

(* connect: refused by a name nobody listens on, one bound but not yet     *)
(* listened on too.                                                        *)
Refused == file = Stale \/ (file \in Daemons /\ pc[file] \notin Accepts)

(* One that takes only a missing file for unused.                          *)
CheckExists(d) ==
    /\ Goes(d, "check", "bind")
    /\ UNCHANGED <<file, alone, raced>>

(* One that unlinks the file whatever connect says.                        *)
CheckNothing(d) ==
    /\ Goes(d, "check", "unlink")
    /\ UNCHANGED <<file, alone, raced>>

Check(d) ==
    /\ Goes(d, "check", IF Refused THEN "unlink" ELSE "bind")
    /\ UNCHANGED <<file, alone, raced>>

Unlink(d) ==
    /\ Goes(d, "unlink", "bind")
    /\ file' = None
    /\ UNCHANGED <<alone, raced>>

Bind(d) ==
    /\ \/ file = None /\ Goes(d, "bind", "listen") /\ file' = d
       \/ file # None /\ Goes(d, "bind", "deaf") /\ UNCHANGED file
    /\ UNCHANGED <<alone, raced>>

Listen(d) ==
    /\ Goes(d, "listen", "listening")
    /\ UNCHANGED <<file, alone, raced>>

(* handleQuit's nn_shutdown, and what is left to the worker.               *)
Quit(d) ==
    /\ Goes(d, "listening", "quitting")
    /\ UNCHANGED <<file, alone, raced>>

Unlinks(d) ==
    /\ Goes(d, "quitting", "unlinked")
    /\ file' = None
    /\ UNCHANGED <<alone, raced>>

(* The worker closes the socket.                                           *)
Closes(d) ==
    /\ Goes(d, "unlinked", "closed")
    /\ UNCHANGED <<file, alone, raced>>

(* A name that goes with the process.                                      *)
EndKeepsName(d) ==
    /\ pc[d] # "off" /\ Goes(d, pc[d], "off")
    /\ UNCHANGED <<file, alone, raced>>

(* The process exits or is killed, wherever it is.                         *)
End(d) ==
    /\ pc[d] # "off" /\ Goes(d, pc[d], "off")
    /\ file' = IF file = d THEN Stale ELSE file
    /\ UNCHANGED <<alone, raced>>

Next ==
    \E d \in Daemons :
        \/ Begin(d) \/ Check(d) \/ Unlink(d) \/ Bind(d) \/ Listen(d)
        \/ Quit(d) \/ Unlinks(d) \/ Closes(d) \/ End(d)

Spec == Init /\ [][Next]_vars

-----------------------------------------------------------------------------
(* Properties.                                                             *)

(* Every variable has a value of its type, and the file that is not stale  *)
(* names the socket of a process that bound it and is still there.         *)
TypeOK ==
    /\ pc \in [Daemons -> Starting \cup Accepts \cup {"off", "deaf", "closed"}]
    /\ file \in Daemons \cup {None, Stale}
    /\ file \in Daemons => pc[file] \in {"listen", "listening", "quitting"}
    /\ alone \in [Daemons -> BOOLEAN]
    /\ raced \in BOOLEAN

(* Whatever the processes before it left behind (bipc.c:296), a getd that  *)
(* starts when no other is there, and while no other starts, listens, on   *)
(* the name clients connect to; so one that is deaf was started before     *)
(* another one had ended.                                                  *)
AloneListens ==
    \A d \in Daemons :
        alone[d] => /\ pc[d] # "deaf"
                    /\ pc[d] = "listening" => file = d

(* As long as no two getds start at the same time, a listening getd keeps  *)
(* its name: a starting one unlinks nobody's file who listens, and a       *)
(* quitting one none but its own (bipc.c:305, bipc.c:176).                 *)
ListenerHasFile ==
    ~raced => \A d \in Daemons : pc[d] = "listening" => file = d
=============================================================================
