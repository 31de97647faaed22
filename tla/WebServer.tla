------------------------------ MODULE WebServer ------------------------------
(***************************************************************************)
(* The HTTP tasks (src/main.rs, task) and what they do with a connection   *)
(* (src/web.rs, handle_connection), the TCP socket each of them owns, and  *)
(* the I2C bus they share with the rest of the firmware.                   *)
(*                                                                         *)
(* All tasks run on one executor: one that turns in a loop without ever    *)
(* yielding ("spin") stops every other, the network stack included.  The   *)
(* socket and the peer are not in the repository; the socket has the       *)
(* states of a TCP connection that has been listened for.                  *)
(*                                                                         *)
(* Bytes are counted in units: what a peer sends is a sequence of "part"   *)
(* (bytes that do not end in a blank line) and "blank" (bytes that do).    *)
(***************************************************************************)
EXTENDS Integers, Sequences

CONSTANTS
  Tasks,        \* the HTTP tasks (three)
  Others,       \* the other futures that lock the bus: the sink, the charger
  BufferLen,    \* the request buffer of handle_connection (1024 bytes)
  RxLen,        \* the socket's receive buffer (4096 bytes)
  TxLen,        \* the socket's transmit buffer (4096 bytes)
  ReplyLen,     \* the reply of the i2c handlers (34 bytes)
  PageLens      \* the static pages: one short, one longer than TxLen

ASSUME WebAssumption ==
  /\ "none" \notin Tasks \cup Others
  /\ Tasks \cap Others = {}
  /\ BufferLen \in Nat \ {0} /\ RxLen \in Nat \ {0} /\ TxLen \in Nat \ {0}
  /\ ReplyLen \in 1..TxLen
  /\ PageLens \subseteq Nat \ {0}

VARIABLES
  pc,       \* the await each task is suspended at
  sock,     \* the state of its TCP connection
  rx,       \* received and not read
  tx,       \* units written and not acknowledged
  offset,   \* units in the request buffer
  left,     \* units write_all has still to write
  holder    \* who has the guard of the bus

vars == <<pc, sock, rx, tx, offset, left, holder>>

Bus == INSTANCE BusLock WITH Users <- Tasks \cup Others

Pcs == {"link", "config", "accept", "read", "lock", "xfer", "reply", "page",
        "flush", "closing", "spin"}

Connected == {"established", "closewait", "finwait1", "finwait2", "closing",
              "lastack"}
SockStates == Connected \cup {"closed", "listen", "timewait"}

\* The states in which the peer may still send, and in which we may.
PeerOpen == {"established", "finwait1", "finwait2"}
CanSend == {"established", "closewait"}

TypeOK ==
  /\ pc \in [Tasks -> Pcs] /\ sock \in [Tasks -> SockStates]
  /\ rx \in [Tasks -> Seq({"part", "blank"})]
  /\ tx \in [Tasks -> 0..TxLen] /\ offset \in [Tasks -> 0..BufferLen]
  /\ left \in [Tasks -> Nat]
  /\ holder \in Tasks \cup Others \cup {"none"}

Init ==
  /\ pc = [t \in Tasks |-> "link"] /\ sock = [t \in Tasks |-> "closed"]
  /\ rx = [t \in Tasks |-> <<>>] /\ tx = [t \in Tasks |-> 0]
  /\ offset = [t \in Tasks |-> 0] /\ left = [t \in Tasks |-> 0]
  /\ Bus!Init

Running == \A t \in Tasks : pc[t] # "spin"

Goto(t, p) == pc' = [pc EXCEPT ![t] = p]

----------------------------------------------------------------------------
(* The socket's life in the task.                                          *)

\* Mutant: the buffers are those of the connection before, as it left them.
ListenAgain(t) ==
  /\ Goto(t, "accept")
  /\ sock' = [sock EXCEPT ![t] = "listen"]
  /\ UNCHANGED <<rx, tx, offset, left, holder>>

\* TcpSocket::new and accept: every connection has a socket of its own, with
\* empty buffers.
Listen(t) ==
  /\ Goto(t, "accept")
  /\ sock' = [sock EXCEPT ![t] = "listen"]
  /\ rx' = [rx EXCEPT ![t] = <<>>] /\ tx' = [tx EXCEPT ![t] = 0]
  /\ UNCHANGED <<offset, left, holder>>

\* The link is up.
LinkUp(t) ==
  /\ Running /\ pc[t] = "link" /\ Goto(t, "config")
  /\ UNCHANGED <<sock, rx, tx, offset, left, holder>>

\* The stack has an address.
Configured(t) == Running /\ pc[t] = "config" /\ Listen(t)

\* accept returns, with a connection or, the socket being closed, with an
\* error that is only logged: handle_connection runs in both cases.
Accept(t) ==
  /\ Running /\ pc[t] = "accept"
  /\ \/ sock[t] # "listen" /\ sock' = sock
     \/ sock[t] = "listen" /\ sock' = [sock EXCEPT ![t] = "closed"]
  /\ Goto(t, "read")
  /\ offset' = [offset EXCEPT ![t] = 0]
  /\ UNCHANGED <<rx, tx, left, holder>>

\* socket.close().
Closing(s) ==
  CASE s = "established" -> "finwait1"
    [] s = "closewait"   -> "lastack"
    [] s = "listen"      -> "closed"
    [] OTHER             -> s

\* handle_connection returns, with or without an error, and the socket is
\* closed.
Finish(t) ==
  /\ Goto(t, "closing")
  /\ sock' = [sock EXCEPT ![t] = Closing(@)]
  /\ left' = [left EXCEPT ![t] = 0]

\* Mutant: only an orderly end leaves the loop.
TimeWaitOnly == {"timewait"}

Ended == {"timewait", "closed"}

\* The loop that looks at the socket's state every 10 ms.
WaitClosed(t) ==
  Running /\ pc[t] = "closing" /\ sock[t] \in Ended /\ Listen(t)

----------------------------------------------------------------------------
(* handle_connection: reading the request.                                 *)

\* What becomes of a request whose headers are complete: it does not parse, or
\* its arguments do not, or more than 16 bytes are asked for (an error, before
\* the bus is locked); it is for the bus; or it is for a page.
Dispatch(t) ==
  \/ /\ Finish(t) /\ UNCHANGED <<tx, holder>>
  \/ /\ Goto(t, "lock") /\ UNCHANGED <<sock, tx, left, holder>>
  \/ /\ Goto(t, "page") /\ \E n \in PageLens : left' = [left EXCEPT ![t] = n]
     /\ UNCHANGED <<sock, tx, holder>>

\* Mutant: every read goes to the start of the buffer.
ReadToStart(t) ==
  /\ Running /\ pc[t] = "read"
  /\ \E n \in 1..Len(rx[t]) :
       /\ n <= BufferLen
       /\ offset' = [offset EXCEPT ![t] = @ + n]
       /\ rx' = [rx EXCEPT ![t] = SubSeq(@, n + 1, Len(@))]
       /\ IF rx[t][n] = "blank"
          THEN Dispatch(t)
          ELSE UNCHANGED <<pc, sock, tx, left, holder>>

\* A read that returns n units.  The loop ends when the whole buffer ends in a
\* blank line: what follows one in the same read hides it.
ReadData(t) ==
  /\ Running /\ pc[t] = "read"
  /\ \E n \in 1..Len(rx[t]) :
       /\ offset[t] + n <= BufferLen
       /\ offset' = [offset EXCEPT ![t] = @ + n]
       /\ rx' = [rx EXCEPT ![t] = SubSeq(@, n + 1, Len(@))]
       /\ IF rx[t][n] = "blank"
          THEN Dispatch(t)
          ELSE UNCHANGED <<pc, sock, tx, left, holder>>

\* The peer will send no more: read returns 0 for ever, and at once.
ReadEof(t) ==
  /\ Running /\ pc[t] = "read" /\ rx[t] = <<>>
  /\ sock[t] \in {"closewait", "closing", "lastack", "timewait"}
  /\ Goto(t, "spin")
  /\ UNCHANGED <<sock, rx, tx, offset, left, holder>>

\* The buffer is full: a read into an empty slice may return 0 at once (or
\* never return).
ReadFull(t) ==
  /\ Running /\ pc[t] = "read" /\ offset[t] = BufferLen /\ rx[t] # <<>>
  /\ Goto(t, "spin")
  /\ UNCHANGED <<sock, rx, tx, offset, left, holder>>

ReadReset(t) ==
  /\ Running /\ pc[t] = "read" /\ rx[t] = <<>> /\ sock[t] = "closed"
  /\ Finish(t) /\ UNCHANGED <<rx, tx, offset, holder>>

\* The loop of the read, turning.
Spin(t) == pc[t] = "spin" /\ UNCHANGED vars

Read(t) == ReadData(t) \/ ReadEof(t) \/ ReadReset(t)

----------------------------------------------------------------------------
(* handle_connection: the reply.                                           *)

LockBus(t) ==
  /\ Running /\ pc[t] = "lock"
  /\ Bus!Lock(t) /\ Goto(t, "xfer")
  /\ UNCHANGED <<sock, rx, tx, offset, left>>

\* The transfer is done, or has failed and the guard goes with the error.
Transfer(t) ==
  /\ Running /\ pc[t] = "xfer"
  /\ \/ /\ Goto(t, "reply") /\ left' = [left EXCEPT ![t] = ReplyLen]
        /\ UNCHANGED <<sock, holder>>
     \/ Finish(t) /\ Bus!Unlock(t)
  /\ UNCHANGED <<rx, tx, offset>>

\* The guard of an i2c handler lives until its reply is written.
DropGuard(t) == IF pc[t] = "reply" THEN Bus!Unlock(t) ELSE UNCHANGED holder

\* One write of write_all, of what fits.
WriteSome(t) ==
  /\ Running /\ pc[t] \in {"reply", "page"} /\ sock[t] \in CanSend
  /\ \E n \in 1..left[t] :
       /\ tx[t] + n <= TxLen
       /\ tx' = [tx EXCEPT ![t] = @ + n]
       /\ left' = [left EXCEPT ![t] = @ - n]
       /\ IF n = left[t] THEN Goto(t, "flush") /\ DropGuard(t)
                         ELSE UNCHANGED <<pc, holder>>
  /\ UNCHANGED <<sock, rx, offset>>

\* Mutant: only a reply that was written gives the guard back.
WriteFailsHolding(t) ==
  /\ Running /\ pc[t] \in {"reply", "page"} /\ sock[t] \notin CanSend
  /\ Finish(t)
  /\ UNCHANGED <<rx, tx, offset, holder>>

\* write_all fails, and the handler is left with the error.
WriteFails(t) ==
  /\ Running /\ pc[t] \in {"reply", "page"} /\ sock[t] \notin CanSend
  /\ Finish(t) /\ DropGuard(t)
  /\ UNCHANGED <<rx, tx, offset>>

\* flush waits until all is acknowledged or the connection is gone.
Flush(t) ==
  /\ Running /\ pc[t] = "flush"
  /\ tx[t] = 0 \/ sock[t] = "closed"
  /\ Finish(t) /\ UNCHANGED <<rx, tx, offset, holder>>

Reply(t) == Transfer(t) \/ WriteSome(t) \/ WriteFails(t) \/ Flush(t)

Task(t) ==
  \/ LinkUp(t) \/ Configured(t) \/ Accept(t) \/ Read(t) \/ ReadFull(t)
  \/ LockBus(t) \/ Reply(t) \/ WaitClosed(t) \/ Spin(t)

----------------------------------------------------------------------------
(* The network: packets are handled by the stack, a task like the others.  *)

Moves(t, from, to) ==
  /\ Running /\ sock[t] = from /\ sock' = [sock EXCEPT ![t] = to]
  /\ UNCHANGED <<pc, rx, tx, offset, left, holder>>

PeerConnects(t) == Moves(t, "listen", "established")

PeerSends(t) ==
  /\ Running /\ sock[t] \in PeerOpen /\ Len(rx[t]) < RxLen
  /\ \E u \in {"part", "blank"} : rx' = [rx EXCEPT ![t] = Append(@, u)]
  /\ UNCHANGED <<pc, sock, tx, offset, left, holder>>

PeerAcks(t) ==
  /\ Running /\ sock[t] \in Connected /\ tx[t] > 0
  /\ \E n \in 0..(tx[t] - 1) : tx' = [tx EXCEPT ![t] = n]
  /\ UNCHANGED <<pc, sock, rx, offset, left, holder>>

PeerAcksFin(t) ==
  /\ tx[t] = 0
  /\ \/ Moves(t, "finwait1", "finwait2") \/ Moves(t, "closing", "timewait")
     \/ Moves(t, "lastack", "closed")

PeerCloses(t) ==
  \/ Moves(t, "established", "closewait") \/ Moves(t, "finwait1", "closing")
  \/ Moves(t, "finwait2", "timewait")

PeerResets(t) == \E s \in Connected : Moves(t, s, "closed")

\* Mutant: the timeout is not set.
NoTimeout(t) == FALSE /\ UNCHANGED vars

\* set_timeout: a peer that leaves data unacknowledged for 10 s.
Timeout(t) == tx[t] > 0 /\ PeerResets(t)

Network(t) ==
  \/ PeerConnects(t) \/ PeerSends(t) \/ PeerAcks(t) \/ PeerAcksFin(t)
  \/ PeerCloses(t) \/ PeerResets(t) \/ Timeout(t)

\* The sink and the charger use the bus.
OtherUses(u) ==
  /\ Running
  /\ Bus!Lock(u) \/ Bus!Unlock(u)
  /\ UNCHANGED <<pc, sock, rx, tx, offset, left>>

Next ==
  \/ \E t \in Tasks : Task(t) \/ Network(t)
  \/ \E u \in Others : OtherUses(u)

Spec == Init /\ [][Next]_vars

(***************************************************************************)
(* A task goes on when what it awaits is there, and a transfer ends.  The  *)
(* peer owes nothing but what the timeout makes of it: neither data, nor   *)
(* acknowledgements, nor its end of the connection.                        *)
(***************************************************************************)
FairSpec ==
  /\ Spec
  /\ \A t \in Tasks :
       /\ WF_vars(Read(t)) /\ WF_vars(Reply(t))
       /\ WF_vars(WaitClosed(t)) /\ WF_vars(Timeout(t))

----------------------------------------------------------------------------
\* A task that has the guard of the bus never waits for its peer: the reply of
\* an i2c handler is the first thing written to its connection and fits into
\* the transmit buffer, whatever the peer reads or acknowledges.
GuardIndependentOfPeer ==
  \A t \in Tasks :
    holder = t => \/ pc[t] = "xfer"
                  \/ pc[t] = "reply" /\ tx[t] + left[t] <= TxLen

Spinning == ~Running

\* A web task gives the bus back, whatever its peer does and however its
\* handler ends; only a task that spins can keep it from doing so.
BusReturned ==
  \A t \in Tasks : holder = t ~> holder # t \/ Spinning

\* A reply ends, for a peer that stops reading too: after 10 s the connection
\* is given up (set_timeout).
ReplyEnds ==
  \A t \in Tasks : pc[t] \in {"reply", "page", "flush"}
                     ~> pc[t] \notin {"reply", "page", "flush"} \/ Spinning

\* After a failed accept, or a connection lost before a byte was read, the
\* task is back at accept.
FailedAcceptRecovers ==
  \A t \in Tasks : pc[t] = "read" /\ sock[t] = "closed" /\ rx[t] = <<>>
                     ~> pc[t] = "accept" \/ Spinning
=============================================================================
