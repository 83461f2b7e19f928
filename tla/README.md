# A TLA+ development of getd

getd is a small file server.  A client (`get`, not part of the repository)
connects to `ipc:///tmp/getd.ipc` with a nanomsg PAIR socket, asks for a session
(type 0), is given a session id (type 1), names a file (type 3), receives it in
chunks (type 4), each of which it acknowledges (type 6), until getd announces the
end (type 5).  Whatever getd does not accept it answers with an error (type 2).

This directory holds TLA+ models of getd, the TLC configurations that check them
on small instances, and TLAPS proofs of their main properties for every value of
the constants.

## 1. Inventory

The program proper is about 480 lines of C in `src/`; the rest of the repository
is a vendored copy of nanomsg 1.1.5 (twice: `nanomsg-1.1.5/nanomsg-1.1.5` repeats
`nanomsg-1.1.5`), of which getd uses the PAIR protocol over the ipc transport.

| Component | State | Operations | What makes it correct |
|---|---|---|---|
| main loop (`main.c`) | receive buffer, `State`, one reply block `outMessage` | receive, dispatch on the type byte, send; end on a signal | a reply goes out for every request but a late acknowledgement; what is read from the buffer is what was received |
| handlers and builders (`requestHandlers.c`) | `State` (`lastSent`, `lastRecieved`, `sessionId`, `userName`), the static `sendFile`, the process's open files | one handler per message type, one builder per reply type | one session at a time, which only its owner uses; the whole file in order; stdio calls only on an open stream; streams are closed |
| verification (`requestVerify.c`) | none | `type0Ver`, `type3Ver`, `type6Ver` | a message is accepted exactly when its length fields and its id are right; the code says which error was found |
| socket core (`core/global.c`, `core/sock.c`, `utils/efd.c`, `utils/mutex.c`) | the global mutex, the socket's context, two eventfds and the flags that mirror them, the endpoint | create, bind, block in send and receive, shut down | a blocked call wakes up; a signal in the middle of a call ends the program |
| PAIR socket (`core/sock.c`, `core/pipe.c`, `protocols/pair`, `protocols/utils/excl.c`) | the active pipe, which of its directions is ready, two event file descriptors | attach and detach a pipe, send, receive, block | one peer at a time; a blocked call wakes up when it can go on; a lost peer makes room for the next |
| ipc connection (`transports/ipc/aipc.c`, `sipc.c`, `transports/utils/streamhdr.c`, `aio/usock_posix.inc`) | five nested state machines per connection, each owner of the next, an event queue, worker tasks | accept, exchange headers, receive and send messages, break, stop | no event reaches a machine in a state that does not expect it; a broken connection is always taken down |
| ipc listener (`transports/ipc/bipc.c`) | listening socket, list of connections, the file in `/tmp` | bind (connect, unlink, bind, listen), accept, shut down | two daemons never serve the same path; a stale file does not keep a daemon from starting |
| worker, poller, contexts (`aio/*`) | task queue, poll set, event queues, locks | execute a task, deliver a poll event, drain the events before the lock is released | events are handled in order and under the lock of their context |

How they interact.  `main` calls the handlers, which read the message from
`main`'s buffer, change `State` and `sendFile`, and call a builder to write the
reply into `outMessage`; `main` sends it.  The handlers share nothing with
another thread: all the interleaving in getd itself is that of clients' messages,
of signals, and of other processes changing the files it reads.  Below the
`nn_` calls, `main`'s thread and nanomsg's worker thread share the socket's
context, a lock whose holder drains the queue of events before it releases it.

What is hard about it: sessions are kept apart by a few tests of `lastSent` and
of the session id that every handler makes in its own way; a transfer spans many
messages, between which anything may arrive; the end of the file is found by
`feof` one message after the last byte was read; replies are built in a block
that earlier replies left their bytes in; a message may be shorter than the
structure it is read as, and then be completed by the bytes of others; a name may
fill its array to the last byte and be copied beyond the next one; the process may be stopped and started between any two
messages, and `handleQuit` runs in the middle of whatever `main`'s thread was doing;
replies go to whoever is connected, clients leave without a word; and the name in
`/tmp` outlives the process that made it.  `PROJECT.json` lists each of these at its line, with the properties
that cover it or the part of the plan that will.

## 2. The modules

### Getd: the server

`Getd.tla` models `main.c` and `requestHandlers.c`.

| Variable | In the code |
|---|---|
| `pc` | where `main` is: before `nn_recv`, before the `switch`, before `nn_send`; or the process has ended |
| `buffer` | `main`'s `buffer`: the type, whether `header.messageLength` is that of the type's structure, and what each handler finds in the bytes after the header |
| `lastSent`, `sessionId` | the fields of `State` that are read |
| `sendFile` | the stream `sendFile` points to: open, closed or null; its path, position and end-of-file flag |
| `openFiles` | file descriptors the process holds for files |
| `outMessage` | the reply last built in the block `outMessage` points to |
| `copied` | history: how many bytes of the file type 4 replies carried |
| `named` | history: whether a message that reached its body has left the session's id in `buffer` since the session was granted |
| `size` | the sizes of the regular files on disk |

A turn of the loop is three steps, `Recv`, one of the handler actions, `Send`.
A handler runs to its return in one step, with every builder it calls: nothing
else in the process runs meanwhile, and what other processes do to the file in
the middle of one `fread` is not told apart from doing it before or after.
`Quit` ends the process between any two steps, `Start` runs it again from
nothing but the files on disk, `Resize` is another process writing to a file.
`Reads` is `fread` and `getc` on the stream: all of what is left up to a chunk,
and, where reads may fail, any shorter read with or without the byte that `getc`
takes.

What clients send is not restricted: `Recv` takes any message of any type with
any session id, whole, cut anywhere, or nothing at all (an empty message, or an error
that `main` ignores).  What a message does not reach keeps the bytes of earlier ones.
The handlers do not know whose bytes they read, nor for which type they were sent:
the string at offset 12 is the name of type 0 and the session id of type 6, the
length before it belongs to both, and in type 3 there are `pathLength` and, at 16, the
session id.  So `buffer.body` is not a message of some type but the readings of one
row of bytes: what the name is (`name`), the string that type 6 compares (`sid`),
whether the lengths are right for type 6 and for type 3 (`ok6`, `ok3`), and, if they
are for type 3, its session id and path.  `Bodies` says which readings go together.
A message cut within its body or its header mixes two rows, of which any reading may
come.

A name of 33 characters without a `'\0'` passes `type0Ver`.  `strcpy` then goes on to
the next `'\0'`, over `lastSent`, `lastRecieved` and `main`'s stack, in which `buffer`
lies too (`Overrun`): the process ends, or goes on with any bytes in `buffer` and grants
the session, which sets `lastSent` and `sessionId` anew.  Nothing else that it may
run over is read before it is written, or the process ends of it.  Busy is tested
first, so a session under way is out of reach of such a name.

Abstracted: session ids are values; the verdict of the verification functions is that
of the header (`lenOK`) and of the readings, which `GetdVerify` justifies; file contents
are positions; `userName` and `lastRecieved`, which are written and never read, and the
text of log lines are left out.

`AnswersItsSession` and `EndedByOwnerOrType3` do not say that the last message was the
owner's.  They could not: a header-only or empty message of anybody, after the owner's,
is answered as the owner's own was.  What they say is that the id found in the
buffer came there after the session was granted (`named`), not with the bytes of an
earlier session or of another type.

### FileTransfer: what getd promises

`FileTransfer.tla` is the abstract specification: a phase, the session's owner,
the length of the file and how much of it was sent.  A transfer begins in a
granted session, goes on in full chunks but for the last, and finishes only when
all is sent; it may be given up at any moment.  `Getd` implements it under the
mapping at the end of `Getd.tla`: the phase is read off `lastSent` and the last
reply, the length is the size of the file `sendFile` is open on, and what was
sent is `copied`.

### GetdSystem: getd and its clients

`GetdSystem.tla` composes `Getd` with clients that follow the protocol and with the
pair socket between them.  `client[c]` is where a client is in its dialogue, what it
put together so far, and the replies on their way to it; `line` is the pair socket's
peer and whether it is still there; `toServer` what that peer sent; `mine` records
whether the reply in `outMessage` answers the present peer.  A reply on its way
(`Mail`) carries with it the file its bytes are from and whether it is its receiver's,
which only the properties look at.  The server's steps are
`Getd`'s actions: `SysRecv` takes the next message of the line, `SysSend` gives the
reply to whoever is the peer then.  `Detach` is `nn_excl_rm`, some time after the
peer left; what it sent and was not read is lost.  `Restart` is `Quit` and `Start`
in one; the clients that are there stay, connected again (`Attach`) by their own
nanomsg.  `Stuck` says that `fopen` waits for a FIFO's writer: the handler's step is
then possible, as a writer may come, but not sure to happen.

The client program is not in the repository: clients are translated from the types
of `requests.h`, the protocol in `README.md` and what the handlers of getd expect,
and are marked external.

### GetdReplies: the bytes of an error text

`GetdReplies.tla` extends `Getd` with where in the reply block's `errorMessage`
field a `'\0'` lies, and follows what each builder writes there.

### GetdVerify: the verification functions

`GetdVerify.tla` defines `strnlen`, `strncmp` and `strcmp` on arrays of
characters and, with them, `type0Ver`, `type3Ver` and `type6Ver` with their sums
of error codes, and says of each type exactly which messages are accepted
(`HasLength`).  A behaviour is one call.  The arrays' sizes (33, 129 and 4097 in
the code) are constants plus one.  A type 3 message is longer than `main`'s buffer:
`KNOWN` (3855 in the code) is how many characters of the path fit, and `Behind` what
else may lie behind the buffer.

### IpcMachines and IpcConn: the connections below getd's socket

`IpcMachines.tla` defines what the machines of one accepted connection do to each
other when one calls another; `IpcConn.tla` makes actions of it and adds the
listener, the pair socket, the queues, the worker and the peers.

| Variable | In the code |
|---|---|
| `conn[c]` | one `nn_aipc` with all it contains: the states of `aipc`, `sipc`, `streamhdr`, its timer and `usock`; who owns the usock; `in` and `out`, what its descriptor is polled for; `sipc`'s `instate` and `outstate`; the pipe's `state`, `instate` and `outstate`; and the peer: whether it is there and what it sent that was not read |
| `bipc` | `nn_bipc`: its state, the aipc that is accepting, the list of accepted ones |
| `listener`, `backlog` | bipc's usock (state, polled or not, the error it reported last) and the kernel's queue of connections |
| `excl` | the pair socket's `nn_excl`: its pipe and the pipe when it is ready to receive (`inpipe`) or to send (`outpipe`) |
| `events` | `nn_ctx`'s queue of events |
| `tasks`, `batch` | the worker's task queue, and the local copy of it that `nn_worker_routine` works off |

An operator of `IpcMachines` takes a *world*, the part of the state a call may
touch (a connection's record, listener, backlog, excl, the two queues), and gives
the world after the call, or the set of worlds where the system decides:
`nn_usock_send` becomes `UsockSend(w)`, `nn_sipc_stop` becomes `SipcStop(w)`.
So a handler reads as the code does, one call inside another.

A step of `IpcConn` begins when a thread has the context's lock: the worker with a
ready descriptor (`FdIn`, `FdOut`, `FdErr`, `ListenerIn`), an expired timer
(`TimerExpires`) or a task (`RunTask`), or `main`'s thread in `nn_send`, `nn_recv`
or `nn_shutdown`.  It may raise events; the steps of `Process` then hand them, one
by one and in order, to the handlers, which raise others, until the queue is
empty and `nn_ctx_leave` releases the lock: only then (`Unlocked`) can the next
first step be taken.  Peers connect, send and leave between any two steps, also
while the lock is held, because they are other processes.

Abstracted: what a peer sent is a number of parts (the connection's header, then
header and body of each message), of which a read takes one or waits; what a part
says (a header of another protocol, a size of zero, a size that is too large) is
chosen where the code looks at it.  The content of messages does not matter here,
only that of `Getd`, and peers are nanomsg's own.  `nn_usock_send` always reports
by an event, never from within the call, so `nn_pipe_send` and `nn_pipe_recv`
leave the pipe asynchronous every time.  Events and tasks of one context are
modelled; a wake-up of another thread's socket call is in `NnSock`.

### PairSocket: what the calls above a connection see

`PairSocket.tla` is the abstract specification of the pair socket, `nn_excl` as its
callers see it: `peer` is whose pipe it has, `ready` which directions would go through.
`IpcConn` implements it (`ImplementsPair`), with `excl.pipe` for `peer` and
`excl.inpipe # None`, `excl.outpipe # None` for `ready`; `NnSock` is built on its
actions.

### NnSock: the threads, the locks and the signal handler

`NnSock.tla` has `main`'s thread in its calls, nanomsg's worker and `handleQuit`.

| Variable | In the code |
|---|---|
| `pc`, `op` | where `main`'s thread is, or was when a signal came, and in which call |
| `ctx`, `global`, `heap` | who holds the socket's context, the global mutex, and the lock in `malloc` and `free` |
| `peer`, `ready` | `PairSocket`'s: whose pipe `excl` has, and is it the `inpipe`, `outpipe` |
| `flag`, `efd` | `NN_SOCK_FLAG_IN` and `_OUT`, and the eventfds |
| `ep`, `bound` | the endpoint, and whether `main`'s `bind` has its id |
| `out` | what `outMessage` points to |
| `hpc`, `depth` | where the last `handleQuit` started is, and how many were |
| `fate` | running, exited, aborted, hung |

A step lies between two operations on a lock.  A call holds the socket (`hold`,
`held`), enters the context, tries, leaves it, and, when there was nothing to do,
waits for the eventfd outside (`poll`) and looks again.  `OnLeave` is
`nn_sock_onleave`, run by whoever leaves.  The worker's steps on a connection are
those of `IpcConn`, of which only what `PairSocket` says of them is left:
`Add`, `Offer`, `Rm`.  A signal is taken between any two steps of `main`'s
thread; `main` goes no further then, because `handleQuit` does not return.  Signals of
the three numbers may interrupt each other's handlers, which is `MaxSignals`.  A
thread that takes a mutex of nanomsg that it has aborts (`utils/mutex.c:88`); the
heap's lock it would wait for forever.

### IpcListen: the file

`IpcListen.tla` has any number of getds on one file.  `pc[d]` is where process `d` is
between the system calls of `nn_bipc_listen`, listening, in what `nn_shutdown` left to
the worker, or gone; `file` is whose socket the name leads to, nobody's, or that of a
process that ended; `alone` and `raced` are history.

### Proofs

`GetdProofs.tla` extends `Getd`, `GetdVerifyProofs.tla` `GetdVerify`,
`GetdSystemProofs.tla` `GetdSystem` and `GetdProofs`, `NnSockProofs.tla` `NnSock`,
`IpcListenProofs.tla` `IpcListen`; `IpcMachinesProofs.tla` has the invariant of
`IpcConn` and a lemma for each operation of `IpcMachines`, `IpcConnProofs.tla`, on
top of it, a lemma for each action, and `IpcFlowProofs.tla`, on top of both, a second
invariant, about connections in use; see section 4.
Definitions marked "Faulty variant" next to a definition of the models are
plausible slips of the code; each property is known to fail when one of them takes
the definition's place (`mutants` in `PROJECT.json`).

## 3. What is checked

The runs of `Getd` use two session ids, one regular file, one directory and one missing
file, chunks of two bytes and one message type without a handler.  Two ids are
enough for "the session's" and "another one", and a new session's id differs from
the one before; they are interchangeable, so the run `getd` uses their symmetry; a chunk of two bytes tells an empty, a partial and a full chunk
apart, and files of no byte, one chunk and a chunk and a remainder, which others may
resize to one another at any moment, bring the boundaries.
Two open files (`FOPEN_MAX`) are enough to run out of them with one transfer under
way.  `copied` and positions are bounded by the files' sizes and need no bound of
their own.  All of Getd's counters are bounded by `FOPEN_MAX` and `Sizes`.

The runs of `GetdSystem` have two clients, one to disturb the other, and two session
ids.  A client sends only after the answer to what it sent last, so `toServer` and the
inboxes hold at most a few messages and need no bound; clients come again and again.
`system` has files of no byte, one chunk, a chunk and a remainder, and two chunks (`Sizes`),
and restarts, with at most one generation of clients of an earlier run; `system_live` has
the first three sizes, and no restarts.  `system` uses the symmetry of the clients and of
the ids: `getd` starts with no id on the stack there (`SysBegin`), and nothing else tells
two ids apart.

The safety run of `IpcConn` has three connections (`Conn`): one that accepts and
two that were accepted, in use, refused or being taken down, which is what one pipe,
a second client and the memory freed and used again need.  The connections are
interchangeable, as only the choice of a free one tells them apart, so this run
uses symmetry.  The liveness run has two, an accepting one and an accepted one,
and no symmetry; in it `accept` may fail, which with three connections takes TLC longer
than the run is worth.  `Connect` is bounded by the aipcs that are free to accept after
it; with `malloc` there is always one.  `MaxUnread` bounds what a peer has sent
ahead: 1 is enough, since a peer may send its next part between any two steps, so that
each read may find something or nothing.  `nn_shutdown` comes at any moment in the
liveness run; in the safety run it does not come, as it would bring the states from
half a million to more than two, and what that run checks of three connections is
proved with `nn_shutdown`, but for `OnlyTermFails` and `QueuedOnce`.

`sock` has three signals, one of each number the handler is installed for, and two
peers.  `listen`
has three processes, interchangeable: one that listens, one that starts, and one that
starts beside it.  No run has a state constraint.

| Run | Properties | What it shows |
|---|---|---|
| `getd` | `TypeOK`, `AnswersItsSession`, `SentInOrder`, `FileOpenWhileSending`, `EndedByOwnerOrType3`, `StarvedForGood` | any messages, files that shrink and grow between chunks, at most two of them open: data is sent only after a message of the session and in order; only a message with its id or one of type 3 ends a session; a name that overruns `lastSent` leaves no transfer behind; stdio is only called on an open stream; abandoned streams, once they fill the table, end file service until a restart |
| `verify` | `Accepted0Exactly`, `Accepted3Exactly`, `TruncationUnseen`, `Accepted6Exactly` | all messages over two letters, arrays of two or three characters, length fields up to two beyond: acceptance is what `Getd` takes it to be, of unterminated names too, and what lies behind `main`'s buffer changes the verdict only on a path that does not end in it |
| `conn` | `TypeOK`, `OnlyTermFails`, `QueuedOnce`, `ReadyDirections`, `NothingForgotten`, `FreedIsForgotten`, `OnlyItsOwnPipe`, `ImplementsPair` | three connections, peers that leave at any moment: no machine gets an event it has no case for, and no assertion fails; the pair socket offers only what its peer's machines are ready for and forgets neither direction; a refused client does not cut off the one in use; freed memory is not reached; and all this implements `PairSocket` |
| `conn_live` | `ActiveOnOpenSocket`, `OnlyTermFails`, `QueuedOnce`, `BrokenIsTakenDown`, `HandshakeEnds`, `BacklogServed`, `ShutdownCompletes` | with fair threads, accepts that fail, `nn_shutdown` at any moment, and peers that stay until headers were exchanged: no assertion fails but that of `nn_usock_term`, a silent peer is dropped after the timeout, a broken connection is taken down, the next client is accepted, and `nn_shutdown` ends with every connection freed and no pipe left |
| `system` | `CompleteCopy`, `ClientFile`, `AbandonedForGood`, `ImplementsTransfer` | files of every length around the chunk's, clients that come, go and are cut off: what one puts together is a prefix of its file, and the whole of it when it is told so; the replies implement `FileTransfer`; a session whose owner has gone blocks all later ones until a restart |
| `system_live` | `GetsItsFile`, `AnswerComes` | a client with a session gets its whole file whoever else comes and goes; every request is answered unless `fopen` waits for a FIFO's writer |
| `sock` | `TypeOK`, `ReadyIsSignalled`, `FailsOnlyInside`, `ExitEndsConnection`, `BlockedCallReturns`, `QuitEnds` | no wake-up is lost between the context and the wait; a signal always ends the program, by `exit` unless it came inside a lock or inside another signal's handler; once `main` has the endpoint's id, not without having asked it to stop |
| `listen` | `TypeOK`, `AloneListens`, `ListenerHasFile` | a getd that starts alone listens, whatever quits and crashes left; unless two start together, nobody takes a listening one's file |

`getd` covers files that stay as they are too, since no other process need write to
them; `CompleteCopy` and `ImplementsTransfer`, which need that, are checked in
`system` and proved for `Getd` alone.

These runs state what a document or a comment of the repository says and the code
does not do; TLC finds the violation:

| Run | What is said | What the code does |
|---|---|---|
| `read_errors` | `requestHandlers.c:180`: the file "has been successfully copied" | after a failed read `getc` may take a byte that is never sent (`requestHandlers.c:166`) |
| `error_text` | `requestHandlers.c:194`: the reply contains the error message | the terminator is written one byte late, after a byte of an earlier reply (`requestHandlers.c:207`) |
| `conn_dead_peer` | `streamhdr.c:294`: "It's safe to ignore usock event when we are stopping." | the ERROR of a peer that leaves while the timer is being stopped is one of the ignored events; `sipc` then goes on with a closed socket, whose calls have no effect, and the pair socket refuses every other client for good |
| `conn_task_left` | `queue.c:102` asserts that a task is not queued when it is freed | `nn_worker_cancel`, called just before (`usock_posix.inc:138`), looks in the worker's queue, not in the copy the worker is working off (`worker_posix.inc:204`); `nn_shutdown` can free a connection between two tasks of that copy |

`conn_live` has `LeavesEarly = FALSE` because of the one before the last: with peers
that leave earlier `BrokenIsTakenDown` is what `conn_dead_peer` violates.
`ShutdownCompletes` and `OnlyTermFails` name the last one's state
(`TermBeforeTask`) as the exception; the model stops there, as the process does,
and `OnlyTermFails` shows that it stops nowhere else.

Four more disagreements are seen in the states of passing runs:

| Where | What is said | What the code does |
|---|---|---|
| `requestVerify.c:24` | tests "if the message length is not what the header describes it as" | a field is compared with a constant; the number of bytes received is ignored (`main.c:63`), so a message of its header alone is accepted with the body an earlier one left (`Arrivals`, `Overlay`) |
| `src/README.md:33` | user names "have a null terminator" | 32 of the 33 characters are looked at (`requestVerify.c:18`), so a name without one is accepted (`Accepted0Exactly` says which are) and copied beyond `userName` (`requestHandlers.c:46`, `Overrun`) |
| `main.c:27` | `handleQuit` "ends the connection and exits the program" | it aborts when the signal came inside a lock of nanomsg, hangs when inside the heap, and may free twice when interrupted (`FailsOnlyInside` says when) |
| `bipc.c:297` | "check whether the file is still in use" | the check and the unlink are two steps, and a name that is bound but not yet listened on looks unused: of two daemons that start together one may lose its name (the states `raced` in `ListenerHasFile`) |

Differences that were noted while modelling and need no run to be seen:

| Where | What is said | What the code does |
|---|---|---|
| `README.md:25` | the State stores "which message type was last sent and received" | type 2 replies built at `requestHandlers.c:34`, `117` and `153` leave `lastSent` as it was; `lastRecieved` is assigned 6 or nothing |
| `README.md:37` | an unexpected message type gets an error message | a type 6 message after the type 5 reply gets no reply (`requestHandlers.c:145`) |
| `requestVerify.c:49` | the value "determines which errors are encountered" | one constant for two errors, and twice it is a third (`requestVerify.c:56`, `71`) |

Deadlock is checked in the runs of `Getd` and `GetdSystem`, whose loop can always go
on, and in `listen`.  It is switched off in `GetdVerify`'s run, since a call ends; in
the runs of `IpcConn`, since `bipc` ends in IDLE (and in `conn_dead_peer` the
connection that is never freed leaves too few of the two for anything else to
happen); and in `sock`, where the process ends.

No fairness is assumed of `Getd` alone.  `GetdSystem` assumes weak fairness of the
server's steps, of `Detach`, and of a client's sending and taking while it is there:
`main` is a loop, the worker reports a broken connection (`BrokenIsTakenDown`), and
replies reach who is connected.  It assumes nothing of clients coming or leaving, of a
handler that `fopen` blocks, or of `Attach`.
`NnSock` assumes that both threads go on (`Fairness`): strong fairness of `main`'s
thread and of the handler, which wait for a lock that the worker takes again and
again, and weak fairness of leaving the heap and, for the worker, the context.  It assumes
no event: nothing says that a message comes.
`IpcConn` assumes (`Fairness`) that a thread which holds the context's
lock goes on (weak fairness of `Process`: `nn_ctx_leave` loops until the queue is
empty), and that the worker gets its turn again and again: strong fairness of its
tasks, of readable and broken descriptors and of timers, because
`nn_worker_routine` serves everything that is ready after each `epoll_wait`, and
because `main`'s calls take the lock in between without end (each makes the
worker's step impossible for a moment, which weak fairness would not survive).
Nothing is assumed of `main`'s thread, of peers, or of `FD_OUT`.

## 4. What is proved

TLAPS proves the following for any set of session ids and paths, any file sizes,
any chunk size and any number of open files (`ConstantsAssumption`), for arrays of any
size over any alphabet (`VerifyAssumption`), for any number of clients
(`SystemAssumption`), for any finite number of connections and any number of parts of
messages sent ahead, whether peers leave early, `accept` fails and `nn_shutdown` is
called or not (`IpcAssumption`, `BoundsAssumption`), for any number of signals
(`SockAssumption`) and for any set of processes (`ListenAssumption`).

| Theorem | Module | Statement |
|---|---|---|
| `GetdTypeCorrect` | `GetdProofs` | `Spec => []TypeOK` |
| `StreamSafety` | `GetdProofs` | `Spec => []FileOpenWhileSending` |
| `SessionSafety` | `GetdProofs` | `Spec => EndedByOwnerOrType3` |
| `Starvation` | `GetdProofs` | `Spec => StarvedForGood` |
| `Order` | `GetdProofs` | `Spec => []SentInOrder`, if reads do not fail |
| `Completeness` | `GetdProofs` | `Spec => []CompleteCopy`, if reads do not fail and files do not change |
| `Refinement` | `GetdProofs` | `Spec => ImplementsTransfer`, under the same conditions |
| `Ownership` | `GetdProofs` | `Spec => []AnswersItsSession` |
| `Accepts0` | `GetdVerifyProofs` | `Spec => []Accepted0Exactly` |
| `Accepts3` | `GetdVerifyProofs` | `Spec => []Accepted3Exactly` |
| `Truncation` | `GetdVerifyProofs` | `Spec => []TruncationUnseen` |
| `Accepts6` | `GetdVerifyProofs` | `Spec => []Accepted6Exactly` |
| `ClientsFile` | `GetdSystemProofs` | `SysSpec => []ClientFile`, if reads do not fail |
| `SysCompleteness` | `GetdSystemProofs` | `SysSpec => []CompleteCopy`, if reads do not fail |
| `SysRefinement` | `GetdSystemProofs` | `SysSpec => ImplementsTransfer`, if reads do not fail |
| `Abandonment` | `GetdSystemProofs` | `SysSpec => AbandonedForGood` |
| `ConnTypes` | `IpcConnProofs` | `Spec => []TypeOK` |
| `Forgotten` | `IpcConnProofs` | `Spec => []FreedIsForgotten` |
| `Readiness` | `IpcConnProofs` | `Spec => []ReadyDirections` |
| `OwnPipe` | `IpcConnProofs` | `Spec => OnlyItsOwnPipe` |
| `PairRefinement` | `IpcConnProofs` | `Spec => ImplementsPair` |
| `NotForgotten` | `IpcFlowProofs` | `Spec => []NothingForgotten` |
| `ActiveIsOpen` | `IpcFlowProofs` | `Spec => []ActiveOnOpenSocket`, if peers stay until headers were exchanged |
| `SockTypeCorrect` | `NnSockProofs` | `Spec => []TypeOK` |
| `EventfdsAreTrue` | `NnSockProofs` | `Spec => []ReadyIsSignalled` |
| `OneSignalExits` | `NnSockProofs` | `Spec => []FailsOnlyInside` |
| `ExitStopsEndpoint` | `NnSockProofs` | `Spec => []ExitEndsConnection` |
| `ListenTypeCorrect` | `IpcListenProofs` | `Spec => []TypeOK` |
| `StartsAlone` | `IpcListenProofs` | `Spec => []AloneListens` |
| `KeepsItsFile` | `IpcListenProofs` | `Spec => []ListenerHasFile` |

### Getd

`StreamInv` (types, and an open stream of a regular file whenever `lastSent` is 4) is
inductive: only `MessageType3Handler` sets `lastSent` to 4 from another value, after
`fopen` and `fstat`, and only `MessegeType5Builder` closes the stream, and sets
`lastSent` to 5 with it.  Each handler has a lemma of its own; `ReadsLemma` says what
`fread` and `getc` return.  `SessionSafety` and `Ownership` rest on `NamedInv`: while a
session is under way, the id is one that `rand` can produce, and bytes in the buffer
that carry it came with a message since.  It is inductive because a grant takes an id
that is not the last one, leaves in the buffer the request it came with, whose name is
too short for an id (`GoodNamesNone`) or whatever the overrun left there (which
`named` then says), and because only `Recv` changes the buffer after it.  `SentInOrder` is inductive on top of it, because nothing
but `MessegeType4Builder` moves the stream.  `CompleteCopy` is not: that the
end-of-file flag means the end was reached has to be carried along (`CompleteInv`).
The refinement then goes action by action from `StepReply`, which sorts the steps of
`Getd` by the reply they build.  The conditions of `Order` and `Completeness` are
needed: without them the runs `read_errors` and, for `CompleteCopy`, a file truncated
in the middle of a transfer violate the statements.

### GetdVerify

A behaviour is one call, so there is no invariant to strengthen; the work is in what
`strnlen`, `strncmp` and `strcmp` return for arrays of any size.  They are defined
without recursion, by the first index at which they stop (`StrNLenIs` and the lemmas
after it say what that index is), and a first index exists because numbers have no
infinite descent (`LeastNatural`, from the library's well-founded relations); so no
induction over the arrays is needed.

### GetdSystem

`SysInv` keeps the present peer and getd in step.  A client that is there, and was not
there before a restart, is the pair socket's peer, and what an earlier peer sent is
gone (`LineInv`); but one reply that `main` owed to an earlier peer may still reach
the new one, which is what makes the invariant more than a table of states.  `InState`
says for each place in a client's dialogue where its request or its answer may be: in
`toServer`, in `main`'s buffer, in `outMessage` or in its inbox, and behind at most
one reply of somebody else (`Early`).  A client may take such a reply for its own: a
type 1 reply meant for another grants it a session it does not own.  It is then
`Doomed`: the answer to its own type 0 message is still to come and it gives up when
it does, before any byte has reached it.  Otherwise getd's `sessionId`, stream and
`copied` are the client's `sid`, path and `have` (`InStep`) or ahead by the one chunk
under way (`AnswerData`).  `SysSpec` has no writer of files, so only failing reads are
excluded.

### IpcConn

The invariant (`IInv`) says of each connection (`ConnInv`):

- the machines nest: an inner one runs only while its owner is in a state that expects
  it (`NestInv`);
- `excl` and the pipe agree, and what `excl` has as ready, or an event on its way to
  it is about to make ready, is ready in `sipc` and the pipe (`PipeInv`).  `sipc` may
  be done while its pipe is still active only as long as the event that tells aipc so
  is queued;
- nothing in the queue is left of an earlier use of the connection: the event that
  tells bipc of its end is the last, with the one exception of bipc's own event, which
  carries the name of the connection that was accepting (`PastInv`, `EndIsLast`);
- the connection that is accepting, and no other, has the listener, and there is one
  event about the next connection at a time (`AcceptInv`, `OneAcceptance`);

and of bipc that its list has no connection twice, none that was freed, and not the
one that is accepting (`BipcInv`), and of the worker that it has no task of a freed
connection (`TaskInv`).  The last rests on the assertion of `nn_usock_term`: the model,
like the process, goes no further where it fails (`conn_task_left`).

An operation on one connection does nothing to the others (`Apart`, `ApartKeeps`); so
each lemma of `IpcMachinesProofs` is about one record (`Good`), and the lemmas of
`IpcConnProofs`, one for each action, put it back into the state (`StepKeeps`).  Each
says as well how the step changes the pair socket (`ExclStep`), from which
`OnlyItsOwnPipe` and the refinement of `PairSocket` follow.  The loop in which
`nn_shutdown` stops the whole list in one step is a recursive function: `Steps` takes
the place of an induction over the list, `SomeStopped` is the loop's invariant.

`NothingForgotten` and `ActiveOnOpenSocket` are about moments when nobody holds the
lock, and say nothing of the steps in between, where a message is on its way from the
worker to `main` or back.  `UsesInv`, inductive together with `IInv`, says what the
steps keep:

- as long as sipc is active on an open usock, something is under way in each direction:
  `excl` offers it, the descriptor is polled for it, the worker was asked for it, or the
  event that ends it (RECEIVED, IN; SENT, OUT) is still queued (`FlowInv`, with `InFlow`
  and `OutFlow`).  An event is taken from the queue in one step and put to use in the
  same one, so each handler has to leave its direction with one of the others;
- sipc has usock from the end of the handshake on and, when peers stay until then, the
  socket is open while headers are exchanged; once active, sipc has an open socket, or an
  event that tells it of the loss is queued (`OpenInv`);
- streamhdr's STOPPED is queued only once streamhdr is idle, and what it raises before
  only after it gave usock back to sipc; and, when peers stay until headers were
  exchanged, usock's ACCEPTED comes of a peer that is still there (`NewsInv`).

An operation takes nothing from the queues and stops no polling (`Flows`, and `Within`
for one below sipc); this and what a handler adds give `UseInv` of the connection it is
about (`HandlerUse`), and the others keep theirs (`Around`).  Why `IInv` is needed:
without `NestInv` and `PastInv` an event left of an earlier use of the connection could
start sipc on a socket that is gone.

### NnSock and IpcListen

`NnSock`'s invariant (`SockInv`) adds to the types: flag and eventfd always agree,
inside the context too, and agree with the pair socket outside of it (`Signalled`), so
that emptying an eventfd never fails; while no signal came, `main`'s thread holds
exactly the locks of the place where it is (`Undisturbed`); a single handler that found
it outside of them holds those of its own place and meets no other (`OneHandler`); and
a handler past the hold has stopped the endpoint, or `main` never had its id
(`QuitInv`).  None of the four properties is inductive without them.

`IpcListen`'s (`ListenInv`) says of a process that is alone that no other is there, that
there is no file when it binds and that the file is its own from then on (`AloneInv`);
and, while no two started together, that at most one process is starting, that the
file it is about to unlink is that of no process that is there, and that whoever bound
the name still has it until it unlinks it itself (`RaceInv`).

### Only model-checked

- Liveness under fairness and `ENABLED` are out of TLAPS's reach: the liveness
  properties of `conn_live`, `system_live` and `sock`, and `OnlyTermFails`, stay with
  TLC.
- Of `IpcConn`, `QueuedOnce` has no proof.  `IInv` and `UsesInv` do not imply it: it
  needs, for each machine of a connection, which of its events and tasks may be queued in
  each of its states, and that an event of a machine is handled before the machine can
  raise it again.
- The text of error replies, whose property of interest is violated.

## 5. What is not modelled

- The client's program, which is not in the repository: `GetdSystem` has clients of
  the documented protocol, `Getd` any behaviour of them.
- The byte layout of messages beyond what `GetdVerify` needs.
- `rand`: the ids of a run repeat after a restart; `ClientFile` excepts the clients of
  an earlier run for that reason.
- Between the models: `NnSock` builds on `PairSocket`, which `IpcConn` is shown to
  implement; that `GetdSystem`'s `line` follows it too (a peer comes when there is none,
  and is lost) is said here and not checked, as `GetdSystem` also has the messages under
  way, which `PairSocket` leaves out.
- `nn_close`, `nn_term`, timeouts of send and receive, priorities, socket options and
  statistics of the socket core, none of which getd uses.
- usock's connecting side, which getd does not use; its gathered writes and batched
  reads, whose outcome is one event; epoll's own tables; events between contexts.
- Windows and other platforms' code, and the protocols, transports and devices getd
  does not use.  They are nearly all of the repository's lines: the library is there
  twice, file by file, and of one copy getd reaches the PAIR protocol, the accepting
  side of ipc, and the core.  The share of the repository that these models can cover
  is a few percent for that reason.

## 6. Plan

Done: `FileTransfer`, `Getd`, `GetdReplies`, `GetdVerify`, `IpcMachines`, `IpcConn`,
`GetdSystem`, `PairSocket`, `NnSock` and `IpcListen`, with the proofs of section 4.  Next:

1. Messages in `PairSocket`: what a peer sent and getd has not received, and the reply
   on its way, so that `GetdSystem`'s line implements it too.
2. A proof of `IpcConn`'s `QueuedOnce`: to `NestInv`, `PastInv` and `UsesInv` add, for
   each machine of a connection, which of its events and tasks its state allows to be
   queued.
3. The worker with its poller and timers (`worker_posix.inc`, `poller_epoll.inc`,
   `timerset.c`) as a module of its own: descriptors removed while their events are in
   the batch that epoll returned.
