--------------------------- MODULE WebServerProofs ---------------------------
(***************************************************************************)
(* Proofs about the HTTP tasks, for any number of tasks, any buffers and   *)
(* any pages.                                                              *)
(***************************************************************************)
EXTENDS WebServer, TLAPS

\* The guard is a task's exactly while it transfers or writes the reply.
GuardIsInUse == \A t \in Tasks : pc[t] \in {"xfer", "reply"} <=> holder = t

\* What makes GuardIndependentOfPeer inductive: nothing is written to a
\* connection before its reply.
NothingBeforeReply ==
  \A t \in Tasks :
    /\ pc[t] \in {"link", "config", "accept", "read", "lock", "xfer"}
         => tx[t] = 0
    /\ pc[t] = "reply" => tx[t] + left[t] <= TxLen

IInv == TypeOK /\ GuardIsInUse /\ NothingBeforeReply

LEMMA InitIInv == Init => IInv
<1> SUFFICES ASSUME Init PROVE IInv
    OBVIOUS
<1> USE WebAssumption DEF Init, Bus!Init
<1>1. TypeOK
      BY DEF TypeOK, Pcs, SockStates
<1>2. GuardIsInUse /\ NothingBeforeReply
      BY DEF GuardIsInUse, NothingBeforeReply
<1> QED BY <1>1, <1>2 DEF IInv

LEMMA ListenIInv == ASSUME IInv, NEW t \in Tasks, Listen(t),
                           pc[t] \notin {"xfer", "reply"}
                    PROVE  IInv'
<1> USE WebAssumption DEF IInv, Listen, Goto
<1>1. rx' \in [Tasks -> Seq({"part", "blank"})]
      BY DEF TypeOK
<1>2. tx' \in [Tasks -> 0..TxLen]
      BY DEF TypeOK
<1>3. TypeOK'
      BY <1>1, <1>2 DEF TypeOK, Pcs, SockStates
<1>4. GuardIsInUse' /\ NothingBeforeReply'
      BY DEF TypeOK, GuardIsInUse, NothingBeforeReply
<1> QED BY <1>3, <1>4

\* handle_connection returns; the guard, if it was held, is dropped.
LEMMA FinishIInv ==
  ASSUME IInv, NEW t \in Tasks, Finish(t), UNCHANGED tx,
         rx' \in [Tasks -> Seq({"part", "blank"})],
         offset' \in [Tasks -> 0..BufferLen],
         IF pc[t] \in {"xfer", "reply"} THEN holder' = "none"
                                        ELSE UNCHANGED holder
  PROVE  IInv'
<1> USE WebAssumption DEF IInv, Finish, Goto
<1>1. Closing(sock[t]) \in SockStates
      BY DEF TypeOK, SockStates, Connected, Closing
<1>2. TypeOK'
      BY <1>1 DEF TypeOK, Pcs
<1>3. GuardIsInUse'
      BY DEF TypeOK, GuardIsInUse, Pcs
<1>4. NothingBeforeReply'
      BY DEF TypeOK, NothingBeforeReply, Pcs
<1> QED BY <1>2, <1>3, <1>4

LEMMA ReadDataIInv == ASSUME IInv, NEW t \in Tasks, ReadData(t) PROVE IInv'
<1> USE WebAssumption DEF IInv
<1>1. pc[t] = "read" /\ tx[t] = 0 /\ holder # t
      BY DEF ReadData, GuardIsInUse, NothingBeforeReply
<1>2. PICK n \in 1..Len(rx[t]) :
        /\ offset[t] + n <= BufferLen
        /\ offset' = [offset EXCEPT ![t] = @ + n]
        /\ rx' = [rx EXCEPT ![t] = SubSeq(@, n + 1, Len(@))]
        /\ IF rx[t][n] = "blank"
           THEN Dispatch(t)
           ELSE UNCHANGED <<pc, sock, tx, left, holder>>
      BY DEF ReadData
<1>3. offset' \in [Tasks -> 0..BufferLen]
      BY <1>2 DEF TypeOK
<1>4. rx' \in [Tasks -> Seq({"part", "blank"})]
  <2>1. rx[t] \in Seq({"part", "blank"})
        BY DEF TypeOK
  <2>2. SubSeq(rx[t], n + 1, Len(rx[t])) \in Seq({"part", "blank"})
        BY <1>2, <2>1
  <2> QED BY <1>2, <2>2 DEF TypeOK
<1>5. CASE UNCHANGED <<pc, sock, tx, left, holder>>
      BY <1>3, <1>4, <1>5 DEF TypeOK, GuardIsInUse, NothingBeforeReply
<1>6. CASE Finish(t) /\ UNCHANGED <<tx, holder>>
      BY <1>1, <1>3, <1>4, <1>6, FinishIInv
<1>7. CASE Goto(t, "lock") /\ UNCHANGED <<sock, tx, left, holder>>
      BY <1>1, <1>3, <1>4, <1>7
      DEF TypeOK, GuardIsInUse, NothingBeforeReply, Goto, Pcs
<1>8. CASE /\ Goto(t, "page")
           /\ \E k \in PageLens : left' = [left EXCEPT ![t] = k]
           /\ UNCHANGED <<sock, tx, holder>>
      BY <1>1, <1>3, <1>4, <1>8
      DEF TypeOK, GuardIsInUse, NothingBeforeReply, Goto, Pcs
<1> QED BY <1>2, <1>5, <1>6, <1>7, <1>8 DEF Dispatch

LEMMA WriteSomeIInv == ASSUME IInv, NEW t \in Tasks, WriteSome(t) PROVE IInv'
<1> USE WebAssumption DEF IInv
<1>1. PICK n \in 1..left[t] :
        /\ tx[t] + n <= TxLen
        /\ tx' = [tx EXCEPT ![t] = @ + n]
        /\ left' = [left EXCEPT ![t] = @ - n]
        /\ IF n = left[t] THEN Goto(t, "flush") /\ DropGuard(t)
                          ELSE UNCHANGED <<pc, holder>>
      BY DEF WriteSome
<1>2. /\ tx' \in [Tasks -> 0..TxLen] /\ left' \in [Tasks -> Nat]
      /\ UNCHANGED <<sock, rx, offset>>
  <2>1. /\ tx \in [Tasks -> 0..TxLen] /\ left \in [Tasks -> Nat]
        BY DEF TypeOK
  <2>2. tx[t] + n \in 0..TxLen /\ left[t] - n \in Nat
        BY <1>1, <2>1
  <2>3. tx' \in [Tasks -> 0..TxLen]
        BY ONLY <1>1, <2>1, <2>2
  <2>4. left' \in [Tasks -> Nat]
        BY ONLY <1>1, <2>1, <2>2
  <2>5. UNCHANGED <<sock, rx, offset>>
        BY DEF WriteSome
  <2> QED BY <2>3, <2>4, <2>5
<1>3. pc[t] \in {"reply", "page"}
      BY DEF WriteSome
<1>4. tx[t]' + left[t]' = tx[t] + left[t]
      BY <1>1 DEF TypeOK
<1>5. CASE n # left[t]
  <2>1. UNCHANGED <<pc, holder>>
        BY <1>1, <1>5
  <2>2. TypeOK' /\ GuardIsInUse'
        BY <1>2, <2>1 DEF TypeOK, GuardIsInUse
  <2>3. NothingBeforeReply'
        BY <1>1, <1>3, <1>4, <2>1 DEF TypeOK, NothingBeforeReply
  <2> QED BY <2>2, <2>3
<1>6. CASE n = left[t]
  <2>1. Goto(t, "flush") /\ DropGuard(t)
        BY <1>1, <1>6
  <2>2. holder' = IF pc[t] = "reply" THEN "none" ELSE holder
        BY <2>1 DEF DropGuard, Bus!Unlock
  <2>3. TypeOK'
        BY <1>2, <2>1, <2>2 DEF TypeOK, Goto, Pcs
  <2>4. GuardIsInUse'
        BY <1>3, <2>1, <2>2 DEF TypeOK, GuardIsInUse, Goto
  <2>5. NothingBeforeReply'
        BY <1>1, <2>1 DEF TypeOK, NothingBeforeReply, Goto
  <2> QED BY <2>3, <2>4, <2>5
<1> QED BY <1>5, <1>6

LEMMA TaskIInv == ASSUME IInv, NEW t \in Tasks, Task(t) PROVE IInv'
<1> USE WebAssumption DEF IInv
<1>1. CASE LinkUp(t)
      BY <1>1 DEF LinkUp, TypeOK, GuardIsInUse, NothingBeforeReply, Goto, Pcs
<1>2. CASE Configured(t)
      BY <1>2, ListenIInv DEF Configured
<1>3. CASE Accept(t)
      BY <1>3 DEF Accept, TypeOK, GuardIsInUse, NothingBeforeReply, Goto, Pcs,
                  SockStates
<1>4. CASE ReadData(t)
      BY <1>4, ReadDataIInv
<1>5. CASE ReadEof(t) \/ ReadFull(t)
      BY <1>5 DEF ReadEof, ReadFull, TypeOK, GuardIsInUse, NothingBeforeReply,
                  Goto, Pcs
<1>6. CASE ReadReset(t)
      BY <1>6, FinishIInv DEF ReadReset, TypeOK
<1>7. CASE LockBus(t)
      BY <1>7 DEF LockBus, Bus!Lock, TypeOK, GuardIsInUse, NothingBeforeReply,
                  Goto, Pcs
<1>8. CASE Transfer(t)
  <2>1. pc[t] = "xfer" /\ UNCHANGED <<rx, tx, offset>>
        BY <1>8 DEF Transfer
  <2>2. CASE Finish(t) /\ Bus!Unlock(t)
        BY <2>1, <2>2, FinishIInv DEF Bus!Unlock, TypeOK
  <2>3. CASE /\ Goto(t, "reply") /\ left' = [left EXCEPT ![t] = ReplyLen]
             /\ UNCHANGED <<sock, holder>>
        BY <2>1, <2>3 DEF TypeOK, GuardIsInUse, NothingBeforeReply, Goto, Pcs
  <2> QED BY <1>8, <2>2, <2>3 DEF Transfer
<1>9. CASE WriteSome(t)
      BY <1>9, WriteSomeIInv
<1>10. CASE WriteFails(t)
       BY <1>10, FinishIInv DEF WriteFails, DropGuard, Bus!Unlock, TypeOK
<1>11. CASE Flush(t)
       BY <1>11, FinishIInv DEF Flush, TypeOK
<1>12. CASE WaitClosed(t)
       BY <1>12, ListenIInv DEF WaitClosed
<1>13. CASE Spin(t)
       BY <1>13 DEF Spin, vars, TypeOK, GuardIsInUse, NothingBeforeReply
<1> QED BY <1>1, <1>2, <1>3, <1>4, <1>5, <1>6, <1>7, <1>8, <1>9, <1>10,
           <1>11, <1>12, <1>13 DEF Task, Read, Reply

LEMMA MovesIInv == ASSUME IInv, NEW t \in Tasks, NEW from, NEW to \in SockStates,
                          Moves(t, from, to)
                   PROVE  IInv'
  BY DEF IInv, Moves, TypeOK, GuardIsInUse, NothingBeforeReply

LEMMA NetworkIInv == ASSUME IInv, NEW t \in Tasks, Network(t) PROVE IInv'
<1> USE DEF SockStates, Connected
<1>1. CASE PeerConnects(t)
      BY <1>1, MovesIInv DEF PeerConnects
<1>2. CASE PeerSends(t)
  <2>1. PICK u \in {"part", "blank"} : rx' = [rx EXCEPT ![t] = Append(@, u)]
        BY <1>2 DEF PeerSends
  <2>2. rx[t] \in Seq({"part", "blank"})
        BY DEF IInv, TypeOK
  <2>3. Append(rx[t], u) \in Seq({"part", "blank"})
        BY <2>2
  <2> QED BY <1>2, <2>1, <2>3
          DEF PeerSends, IInv, TypeOK, GuardIsInUse, NothingBeforeReply
<1>3. CASE PeerAcks(t)
  <2>1. PICK n \in 0..(tx[t] - 1) : tx' = [tx EXCEPT ![t] = n]
        BY <1>3 DEF PeerAcks
  <2>2. /\ UNCHANGED <<pc, sock, rx, offset, left, holder>>
        /\ tx \in [Tasks -> 0..TxLen] /\ left \in [Tasks -> Nat]
        BY <1>3 DEF PeerAcks, IInv, TypeOK
  <2>3. tx' \in [Tasks -> 0..TxLen] /\ \A u \in Tasks : tx[u]' <= tx[u]
        BY <2>1, <2>2, WebAssumption
  <2>4. \A u \in Tasks :
          tx[u] \in Nat /\ tx[u]' \in Nat /\ left[u] \in Nat
        BY <2>2, <2>3, WebAssumption
  <2>5. TypeOK' /\ GuardIsInUse'
        BY <2>2, <2>3 DEF IInv, TypeOK, GuardIsInUse
  <2>6. NothingBeforeReply'
    <3> SUFFICES ASSUME NEW u \in Tasks
                 PROVE  /\ pc[u]' \in {"link", "config", "accept", "read",
                                        "lock", "xfer"}
                             => tx[u]' = 0
                        /\ pc[u]' = "reply" => tx[u]' + left[u]' <= TxLen
        BY DEF NothingBeforeReply
    <3>1. tx[u]' <= tx[u]
          BY <2>3
    <3>2. tx[u]' = 0 \/ tx[u] # 0
          BY <2>4, <3>1
    <3>3. tx[u]' + left[u] <= tx[u] + left[u]
          BY <2>4, <3>1
    <3>4. tx[u] + left[u] <= TxLen => tx[u]' + left[u] <= TxLen
          BY <2>4, <3>3, WebAssumption
    <3> QED BY <2>2, <3>2, <3>4 DEF IInv, NothingBeforeReply
  <2> QED BY <2>5, <2>6 DEF IInv
<1>4. CASE PeerAcksFin(t)
      BY <1>4, MovesIInv DEF PeerAcksFin
<1>5. CASE PeerCloses(t)
      BY <1>5, MovesIInv DEF PeerCloses
<1>6. CASE PeerResets(t) \/ Timeout(t)
      BY <1>6, MovesIInv DEF PeerResets, Timeout
<1> QED BY <1>1, <1>2, <1>3, <1>4, <1>5, <1>6 DEF Network

LEMMA IInvInductive == IInv /\ [Next]_vars => IInv'
<1> SUFFICES ASSUME IInv, [Next]_vars PROVE IInv'
    OBVIOUS
<1>1. ASSUME NEW t \in Tasks, Task(t) \/ Network(t) PROVE IInv'
      BY <1>1, TaskIInv, NetworkIInv
<1>2. ASSUME NEW u \in Others, OtherUses(u) PROVE IInv'
      BY <1>2, WebAssumption
      DEF OtherUses, Bus!Lock, Bus!Unlock, IInv, TypeOK, GuardIsInUse,
          NothingBeforeReply
<1>3. CASE UNCHANGED vars
      BY <1>3 DEF vars, IInv, TypeOK, GuardIsInUse, NothingBeforeReply
<1> QED BY <1>1, <1>2, <1>3 DEF Next

LEMMA SpecIInv == Spec => []IInv
<1> QED BY InitIInv, IInvInductive, PTL DEF Spec

\* The request buffer, the socket's buffer and what is left to write stay
\* within their bounds, however the peer cuts its request into segments.
THEOREM WebTypeOK == Spec => []TypeOK
<1> QED BY SpecIInv, PTL DEF IInv

\* No peer can keep the bus from the PD sink by not reading its reply: the
\* reply of an i2c handler always fits into what the socket takes at once.
THEOREM WebGuardIndependentOfPeer == Spec => []GuardIndependentOfPeer
<1>1. IInv => GuardIndependentOfPeer
      BY DEF IInv, GuardIsInUse, NothingBeforeReply, GuardIndependentOfPeer
<1> QED BY <1>1, SpecIInv, PTL
=============================================================================
