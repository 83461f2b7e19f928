---------------------------- MODULE FileTransfer ----------------------------
(***************************************************************************)
(* What getd promises its clients, whatever messages reach it: one session *)
(* at a time; within a session at most one file; the file's bytes in       *)
(* order, in full chunks but for the last one; and an end of transfer that *)
(* is announced only when every byte was sent.  A session may be given up  *)
(* at any moment.                                                          *)
(***************************************************************************)
EXTENDS Integers

CONSTANTS Sids,      \* session ids
          NoSession, \* the owner when there is no session
          Lengths,   \* the lengths files may have
          CHUNK      \* the most one message carries

VARIABLES phase,     \* "idle", "granted" (a session without a file),
                     \* "sending", or "ended": the end was just announced
          owner,     \* the session's id
          length,    \* length of the file being sent
          sent       \* how much of it was sent

tvars == <<phase, owner, length, sent>>

TransferTypeOK ==
    /\ phase \in {"idle", "granted", "sending", "ended"}
    /\ owner \in Sids \cup {NoSession}
    /\ length \in Lengths \cup {0}
    /\ sent \in 0..length

TransferInit == phase = "idle" /\ owner = NoSession /\ length = 0 /\ sent = 0

Grant(sid) ==
    /\ phase \in {"idle", "ended"}
    /\ phase' = "granted"
    /\ owner' = sid
    /\ UNCHANGED <<length, sent>>

(* n more bytes: a full chunk, or all that is left.                        *)
Chunk(n, before, of) ==
    /\ n \in 0..CHUNK
    /\ before + n <= of
    /\ n = CHUNK \/ before + n = of
    /\ sent' = before + n

Begin(len) ==
    /\ phase = "granted"
    /\ phase' = "sending"
    /\ length' = len
    /\ \E n \in 0..CHUNK : Chunk(n, 0, len)
    /\ UNCHANGED owner

Continue ==
    /\ phase = "sending"
    /\ \E n \in 0..CHUNK : Chunk(n, sent, length)
    /\ UNCHANGED <<phase, owner, length>>

Leave(next) ==
    /\ phase' = next
    /\ owner' = NoSession
    /\ length' = 0
    /\ sent' = 0

Finish == phase = "sending" /\ sent = length /\ Leave("ended")

GiveUp == phase # "idle" /\ Leave("idle")

TransferNext ==
    \/ \E sid \in Sids : Grant(sid)
    \/ \E len \in Lengths : Begin(len)
    \/ Continue
    \/ Finish
    \/ GiveUp

TransferSpec == TransferInit /\ [][TransferNext]_tvars
=============================================================================
