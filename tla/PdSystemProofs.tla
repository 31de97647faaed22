--------------------------- MODULE PdSystemProofs ---------------------------
(***************************************************************************)
(* Proofs about the PD sink, its chip and its source: for any set of       *)
(* offers, any FIFO size, any number of failed transfers, lost packets and *)
(* restarts.                                                               *)
(***************************************************************************)
EXTENDS PdSystem, SequenceTheorems, TLAPS

(***************************************************************************)
(* What the chip operators return.                                         *)
(***************************************************************************)

\* The part of the chip only register writes change.
Config(c) == <<c.on, c.masked, c.meas, c.txcc, c.autoCrc>>

LEMMA ResetChipType == ResetChip \in ChipStates
  BY EmptySeq DEF ResetChip, ChipStates, Cc, CcLines

LEMMA FrameLenType == ASSUME NEW k PROVE FrameLen(k) \in Nat \ {0}
  BY DEF FrameLen, NumObjects

LEMMA FrameType ==
  ASSUME NEW k \in Kinds, NEW acked \in BOOLEAN
  PROVE  Frame(k, acked) \in Seq(Byte)
  <1>1. FrameLen(k) \in Nat
        BY FrameLenType
  <1>2. \A j \in 1..FrameLen(k) : [k |-> k, acked |-> acked, i |-> j] \in Byte
        BY <1>1 DEF Byte
  <1>3. Frame(k, acked) \in [1..FrameLen(k) -> Byte]
        BY <1>2 DEF Frame
  <1> QED BY <1>1, <1>3, SeqDef

LEMMA DropFirst ==
  ASSUME NEW S, NEW s \in Seq(S), NEW n \in Nat
  PROVE  SubSeq(s, n + 1, Len(s)) \in Seq(S)
  <1>1. Len(s) \in Nat /\ \A i \in 1..Len(s) : s[i] \in S
        BY LenProperties, ElementOfSeq
  <1>2. \A i \in n + 1..Len(s) : s[i] \in S
        BY <1>1
  <1>3. n + 1 \in Int /\ Len(s) \in Int
        BY <1>1
  <1> QED BY <1>2, <1>3, SubSeqProperties

LEMMA PopType ==
  ASSUME NEW c \in ChipStates, NEW n \in Nat
  PROVE  Pop(c, n) \in ChipStates
  <1>1. c.rx \in Seq(Byte)
        BY DEF ChipStates
  <1>2. SubSeq(c.rx, n + 1, Len(c.rx)) \in Seq(Byte)
        BY <1>1, DropFirst
  <1> QED BY <1>2 DEF Pop, ChipStates

LEMMA WriteRegType ==
  ASSUME NEW c \in ChipStates, NEW w \in RegWrites
  PROVE  WriteReg(c, w) \in ChipStates
  <1>1. w.cc \in Cc /\ w.reg \in {"SwReset", "PdReset", "TxFlush", "RxFlush",
          "Power", "Mask1", "MaskA", "MaskB", "Control0", "Control2",
          "Control3", "Measure", "Switches0", "Switches1"}
        BY DEF RegWrites
  <1>2. SoftReset(c) \in ChipStates
        BY ResetChipType DEF SoftReset, ChipStates
  <1>3. FlushRx(c) \in ChipStates
        BY EmptySeq DEF FlushRx, ChipStates
  <1>4. FlushTx(c) \in ChipStates
        BY EmptySeq DEF FlushTx, ChipStates
  <1>5. [c EXCEPT !.on = TRUE] \in ChipStates
        BY DEF ChipStates
  <1>6. [c EXCEPT !.masked = @ \ {w.reg}] \in ChipStates
        BY DEF ChipStates
  <1>7. [c EXCEPT !.meas = w.cc] \in ChipStates
        BY <1>1 DEF ChipStates
  <1>8. [c EXCEPT !.txcc = w.cc, !.autoCrc = TRUE] \in ChipStates
        BY <1>1 DEF ChipStates
  <1> QED BY <1>1, <1>2, <1>3, <1>4, <1>5, <1>6, <1>7, <1>8
          DEF WriteReg, Masks

LEMMA ClearType ==
  ASSUME NEW c \in ChipStates, NEW l \in SUBSET c.latch
  PROVE  [c EXCEPT !.latch = l] \in ChipStates /\ ClearFlags(c) \in ChipStates
  BY DEF ClearFlags, ChipStates

LEMMA WriteFifoType ==
  ASSUME NEW c \in ChipStates, NEW part \in {"sop", "data", "eop"},
         NEW r \in Requests
  PROVE  WriteFifo(c, part, r) \in ChipStates
  <1> DEFINE chunk  == [part |-> part, req |-> r]
             chunks == Append(c.tx, chunk)
             good   == r.good /\ WellFormed(chunks)
             packet == [r EXCEPT !.good = good]
  <1>1. chunk \in TxChunks
        BY DEF TxChunks
  <1>2. c.tx \in Seq(TxChunks) /\ c.out \in Seq(Requests)
        BY DEF ChipStates
  <1>3. chunks \in Seq(TxChunks)
        BY <1>1, <1>2, AppendProperties
  <1>4. good \in BOOLEAN
        OBVIOUS
  <1> HIDE DEF good
  <1>5. packet \in Requests
        BY <1>4 DEF Requests
  <1>6. Append(c.out, packet) \in Seq(Requests)
        BY <1>2, <1>5, AppendProperties
  <1>7. << >> \in Seq(TxChunks)
        BY EmptySeq
  <1> HIDE DEF packet, chunks
  <1>8. [c EXCEPT !.tx = chunks] \in ChipStates
        BY <1>3 DEF ChipStates
  <1>9. [c EXCEPT !.tx = <<>>, !.out = Append(@, packet)] \in ChipStates
        BY <1>6, <1>7 DEF ChipStates
  <1> QED BY <1>8, <1>9 DEF WriteFifo, packet, chunks, good

LEMMA LatchType ==
  ASSUME NEW c \in ChipStates, NEW s \in InterruptSources
  PROVE  Latch(c, s) \in ChipStates
  BY DEF Latch, ChipStates

LEMMA VbusChangeType ==
  ASSUME NEW c \in ChipStates
  PROVE  VbusChange(c) \in ChipStates
  BY LatchType DEF VbusChange, InterruptSources

LEMMA ReceiveType ==
  ASSUME NEW c \in ChipStates, NEW k \in Kinds, NEW p
  PROVE  Receive(c, k, p) \in ChipStates
  <1>1. c.autoCrc \in BOOLEAN /\ c.rx \in Seq(Byte)
        BY DEF ChipStates
  <1>2. Acks(c, k, p) \in BOOLEAN
        BY <1>1 DEF Acks
  <1>3. Frame(k, Acks(c, k, p)) \in Seq(Byte)
        BY <1>2, FrameType
  <1>4. c.rx \o Frame(k, Acks(c, k, p)) \in Seq(Byte)
        BY <1>1, <1>3, ConcatProperties
  <1> QED BY <1>4 DEF Receive, ChipStates, InterruptSources

\* Reads, packets and bus events leave the registers alone.
LEMMA ConfigKept ==
  ASSUME NEW c \in ChipStates
  PROVE  /\ \A n : Config(Pop(c, n)) = Config(c)
         /\ \A l : Config([c EXCEPT !.latch = l]) = Config(c)
         /\ Config(ClearFlags(c)) = Config(c)
         /\ \A part, r : Config(WriteFifo(c, part, r)) = Config(c)
         /\ \A s : Config(Latch(c, s)) = Config(c)
         /\ Config(VbusChange(c)) = Config(c)
         /\ \A k, p : Config(Receive(c, k, p)) = Config(c)
  BY DEF Config, Pop, ClearFlags, WriteFifo, Latch, VbusChange, Receive,
         ChipStates

\* What a register write changes, but for the software reset.
LEMMA WriteRegEffect ==
  ASSUME NEW c \in ChipStates, NEW w \in RegWrites, w.reg # "SwReset"
  PROVE  /\ c.on => WriteReg(c, w).on
         /\ WriteReg(c, w).masked \subseteq c.masked
         /\ w.reg = "Power" => WriteReg(c, w).on
         /\ w.reg \in Masks => w.reg \notin WriteReg(c, w).masked
         /\ WriteReg(c, w).meas =
              IF w.reg = "Switches0" THEN w.cc ELSE c.meas
         /\ WriteReg(c, w).txcc =
              IF w.reg = "Switches1" THEN w.cc ELSE c.txcc
         /\ WriteReg(c, w).autoCrc = (w.reg = "Switches1" \/ c.autoCrc)
         /\ WriteReg(c, w).rx = IF w.reg = "RxFlush" THEN <<>> ELSE c.rx
  BY DEF WriteReg, FlushRx, FlushTx, Masks, ChipStates, RegWrites

LEMMA WriteRegFifos ==
  ASSUME NEW c \in ChipStates, NEW w \in RegWrites
  PROVE  /\ WriteReg(c, w).rx \in {c.rx, <<>>}
         /\ WriteReg(c, w).tx \in {c.tx, <<>>}
         /\ WriteReg(c, w).out = c.out
         /\ w.reg # "SwReset" => WriteReg(c, w).latch = c.latch
         /\ w.reg = "SwReset" => /\ WriteReg(c, w).rx = <<>>
                                 /\ WriteReg(c, w).tx = <<>>
  BY DEF WriteReg, SoftReset, ResetChip, FlushRx, FlushTx, Masks, ChipStates,
         RegWrites

LEMMA WriteFifoEffect ==
  ASSUME NEW c \in ChipStates, NEW part \in {"sop", "data", "eop"},
         NEW r \in Requests
  PROVE  LET chunk  == [part |-> part, req |-> r]
             chunks == Append(c.tx, chunk)
             packet == [r EXCEPT !.good = @ /\ WellFormed(chunks)]
         IN  /\ WriteFifo(c, part, r).rx = c.rx
             /\ WriteFifo(c, part, r).latch = c.latch
             /\ part # "eop" => /\ WriteFifo(c, part, r).tx = chunks
                                /\ WriteFifo(c, part, r).out = c.out
             /\ part = "eop" => /\ WriteFifo(c, part, r).tx = <<>>
                                /\ WriteFifo(c, part, r).out
                                     = Append(c.out, packet)
  BY DEF WriteFifo, ChipStates

LEMMA PopRx ==
  ASSUME NEW c \in ChipStates, NEW n
  PROVE  /\ Pop(c, n).rx = SubSeq(c.rx, n + 1, Len(c.rx))
         /\ Pop(c, n).latch = c.latch
  BY DEF Pop, ChipStates

----------------------------------------------------------------------------

(***************************************************************************)
(* Types.                                                                  *)
(***************************************************************************)

LEMMA RunLengthPos == \A p : RunLength(p) \in Nat \ {0}
  BY DEF RunLength

LEMMA EntryType == \A s \in States : Entry[s] \in Pcs
  BY DEF Entry, States, Pcs

LEMMA NextIdType ==
  ASSUME NEW id \in 0..(MessageIds - 1)
  PROVE  NextMessageId(id) \in 0..(MessageIds - 1)
  BY FusbAssumption DEF NextMessageId

LEMMA BootType ==
  ASSUME SinkTypeOK, Boot, UNCHANGED <<errs, chip, plug>>
  PROVE  SinkTypeOK'
  <1>1. 0 \in 0..(MessageIds - 1) /\ IdRetries \in 0..IdRetries
        BY FusbAssumption, SinkAssumption
  <1>2. step' \in 1..RunLength(pc')
        BY RunLengthPos DEF Boot
  <1>3. cur' \in Message /\ req' \in Requests
        BY <1>1 DEF Boot, Message, Requests, Kinds
  <1>4. retries' \in 0..IdRetries /\ messageId' \in 0..(MessageIds - 1)
        BY <1>1 DEF Boot, FirstId
  <1>5. pc' \in Pcs /\ pc' # "read_id" /\ state' \in States
        BY DEF Boot, Pcs, States
  <1>6. vbusok' \in BOOLEAN /\ ret' \in {"loop", "wait"}
        BY DEF Boot
  <1>7. cc1Val' \in 0..1 /\ useCc' \in CcLines
        BY DEF Boot, CcLines
  <1> QED BY <1>2, <1>3, <1>4, <1>5, <1>6, <1>7 DEF SinkTypeOK

LEMMA AbortType ==
  ASSUME SinkTypeOK, plug' = plug,
         NEW after, Abort(after), after \subseteq ChipStates
  PROVE  SinkTypeOK'
  BY EntryType, RunLengthPos, SinkAssumption
  DEF SinkTypeOK, Abort, Entry, States, Pcs

LEMMA PollReturnsType ==
  ASSUME SinkTypeOK, NEW vbus \in BOOLEAN, PollReturns(vbus)
  PROVE  /\ pc' \in Pcs /\ state' \in States /\ ret' \in {"loop", "wait"}
  BY DEF SinkTypeOK, PollReturns, Entry, Pcs, States

\* A run of register writes: the step stays within the run it belongs to.
LEMMA WriteRunType ==
  ASSUME SinkTypeOK, plug' = plug,
         NEW at, NEW script \in Seq(RegWrites),
         NEW nxt \in Pcs \ {"read_id"}, NEW then \in States,
         RunLength(at) = Len(script), WriteRun(at, script, nxt, then)
  PROVE  SinkTypeOK'
  <1>1. pc = at /\ step \in 1..Len(script) /\ Len(script) \in Nat
        BY LenProperties DEF SinkTypeOK, WriteRun
  <1>2. script[step] \in RegWrites /\ chip \in ChipStates
        BY <1>1, ElementOfSeq DEF SinkTypeOK
  <1> DEFINE after == WriteReg(chip, script[step])
  <1>3. after \in ChipStates
        BY <1>2, WriteRegType
  <1>4. CASE Abort({chip, after})
        BY <1>2, <1>3, <1>4, AbortType
  <1>5. CASE /\ Ok(after)
             /\ IF step < Len(script)
                THEN step' = step + 1 /\ UNCHANGED <<pc, state>>
                ELSE step' = 1 /\ pc' = nxt /\ state' = then
             /\ UNCHANGED <<vbusok, ret, retries, cc1Val, useCc, cur, req,
                            messageId>>
        <2>1. step' \in 1..RunLength(pc') /\ pc' \in Pcs /\ state' \in States
              BY <1>1, <1>5, RunLengthPos DEF SinkTypeOK
        <2>2. chip' \in ChipStates /\ errs' = errs
              BY <1>3, <1>5 DEF Ok
        <2> HIDE DEF after
        <2> QED BY <1>5, <2>1, <2>2 DEF SinkTypeOK
  <1> QED BY <1>4, <1>5 DEF WriteRun

LEMMA RegType ==
  /\ \A r \in {"SwReset", "PdReset", "TxFlush", "RxFlush", "Power", "Mask1",
               "MaskA", "MaskB", "Control0", "Control2", "Control3",
               "Measure", "Switches0", "Switches1"} : Reg(r) \in RegWrites
  /\ \A cc \in Cc : RegCc("Switches0", cc) \in RegWrites
  /\ \A cc \in Cc : RegCc("Switches1", cc) \in RegWrites
  BY DEF Reg, RegCc, RegWrites, Cc

LEMMA ScriptType ==
  ASSUME SinkTypeOK
  PROVE  /\ SetupScript \in Seq(RegWrites) /\ Len(SetupScript) = 8
         /\ VbusScript \in Seq(RegWrites) /\ Len(VbusScript) = 2
         /\ EnableScript \in Seq(RegWrites) /\ Len(EnableScript) = 3
         /\ FusbResetScript \in Seq(RegWrites) /\ Len(FusbResetScript) = 3
         /\ \A cc \in CcLines :
              /\ <<RegCc("Switches0", cc)>> \in Seq(RegWrites)
              /\ <<Reg("Measure"), RegCc("Switches0", cc)>> \in Seq(RegWrites)
  <1>1. useCc \in Cc /\ "none" \in Cc /\ CcLines \subseteq Cc
        BY DEF SinkTypeOK, Cc
  <1>2. SetupScript \in Seq(RegWrites) /\ Len(SetupScript) = 8
        BY RegType DEF SetupScript
  <1>3. VbusScript \in Seq(RegWrites) /\ Len(VbusScript) = 2
        BY <1>1, RegType DEF VbusScript
  <1>4. EnableScript \in Seq(RegWrites) /\ Len(EnableScript) = 3
        BY <1>1, RegType DEF EnableScript
  <1>5. FusbResetScript \in Seq(RegWrites) /\ Len(FusbResetScript) = 3
        BY RegType DEF FusbResetScript
  <1>6. \A cc \in CcLines :
              /\ <<RegCc("Switches0", cc)>> \in Seq(RegWrites)
              /\ <<Reg("Measure"), RegCc("Switches0", cc)>> \in Seq(RegWrites)
        BY <1>1, RegType
  <1> QED BY <1>2, <1>3, <1>4, <1>5, <1>6

\* Every step of the sink, whether its transfer succeeds or fails.
LEMMA SinkStepType == SinkTypeOK /\ SinkStep => SinkTypeOK'
<1> SUFFICES ASSUME SinkTypeOK, SinkStep PROVE SinkTypeOK'
    OBVIOUS
<1> plug' = plug /\ chip \in ChipStates
    BY DEF SinkStep, SinkTypeOK
<1>1. CASE SwReset
      <2>1. WriteReg(chip, Reg("SwReset")) \in ChipStates
            BY WriteRegType, RegType
      <2>2. CASE Abort({chip, WriteReg(chip, Reg("SwReset"))})
            BY <2>1, <2>2, AbortType
      <2>3. CASE ~Abort({chip, WriteReg(chip, Reg("SwReset"))})
            BY <1>1, <2>1, <2>3, RunLengthPos, SinkAssumption
            DEF SwReset, Ok, SinkTypeOK, Pcs, RunLength
      <2> QED BY <2>2, <2>3
<1>2. CASE ReadId
      <2>1. step' \in 1..RunLength(pc') /\ pc' \in Pcs
            BY <1>2, RunLengthPos
            DEF ReadId, ReadIdFails, SinkTypeOK, RunLength, Entry, States, Pcs
      <2>2. /\ retries' \in 0..IdRetries /\ errs' \in 0..MaxErrs
            /\ pc' = "read_id" => retries' > 0
            <3>1. retries \in 1..IdRetries /\ errs \in 0..MaxErrs
                  BY <1>2, SinkAssumption DEF ReadId, SinkTypeOK
            <3>2. CASE ReadIdFails
                  BY <3>1, <3>2, SinkAssumption DEF ReadIdFails, Entry
            <3>3. CASE ~ReadIdFails
                  BY <1>2, <3>1, <3>3 DEF ReadId
            <3> QED BY <3>2, <3>3
      <2> QED BY <1>2, <2>1, <2>2 DEF ReadId, SinkTypeOK
<1>3. CASE FusbSetup
      BY <1>3, WriteRunType, ScriptType
      DEF FusbSetup, RunLength, Pcs, States
<1>4. CASE StartVbus
      <2> DEFINE after == WriteReg(chip, VbusScript[step])
      <2>1. step \in 1..2 /\ VbusScript[step] \in RegWrites
            BY <1>4, ScriptType, ElementOfSeq
            DEF StartVbus, SinkTypeOK, RunLength
      <2>2. after \in ChipStates
            BY <2>1, WriteRegType
      <2>3. CASE Abort({chip, after})
            BY <2>2, <2>3, AbortType
      <2>4. CASE ~Abort({chip, after})
            <3>0. \/ step < 2 /\ step' = step + 1 /\ UNCHANGED <<pc, ret>>
                  \/ step' = 1 /\ PollFirst
                  BY <1>4, <2>4, ScriptType DEF StartVbus
            <3>1. step' \in 1..RunLength(pc') /\ pc' \in Pcs \ {"read_id"}
                  /\ ret' \in {"loop", "wait"}
                  BY <1>4, <2>1, <3>0, RunLengthPos
                  DEF StartVbus, PollFirst, SinkTypeOK, Pcs, RunLength
            <3> QED BY <1>4, <2>2, <2>4, <3>1
                    DEF StartVbus, Ok, SinkTypeOK
      <2> QED BY <2>3, <2>4
<1>5. CASE WaitForLow
      BY <1>5, RunLengthPos DEF WaitForLow, SinkTypeOK, RunLength, Pcs
<1>6. CASE PollStatus
      <2> DEFINE after == {[chip EXCEPT !.latch = l] : l \in SUBSET chip.latch}
      <2>1. CASE Abort(after)
            BY <2>1, AbortType, ClearType
      <2>2. CASE ~Abort(after)
            <3>1. VbusOk(chip, plug) \in BOOLEAN
                  BY DEF VbusOk
            <3>2. pc' \in Pcs \ {"read_id"} /\ state' \in States
                  /\ ret' \in {"loop", "wait"}
                  BY <1>6, <2>2, <3>1, PollReturnsType
                  DEF PollStatus, SinkTypeOK, Pcs, PollReturns, Entry, States
            <3>3. chip' \in ChipStates /\ errs' = errs
                  BY <1>6, <2>2, ClearType DEF PollStatus, Ok
            <3>4. step' \in 1..RunLength(pc')
                  BY <1>6, <2>2, RunLengthPos
                  DEF PollStatus, SinkTypeOK, RunLength
            <3> QED BY <1>6, <2>2, <3>1, <3>2, <3>3, <3>4
                    DEF PollStatus, SinkTypeOK
      <2> QED BY <2>1, <2>2
<1>7. CASE RxStatus
      BY <1>7, AbortType, RunLengthPos
      DEF RxStatus, Ok, PollReturns, SinkTypeOK, RunLength, Entry, States, Pcs
<1>a. \A n \in Nat : Pop(chip, n) \in ChipStates
      BY PopType
<1>b. \A n \in {1, 2, 4} : PopUpTo(n) \subseteq ChipStates
      BY <1>a DEF PopUpTo
<1>8. CASE RxToken
      BY <1>8, <1>a, <1>b, AbortType, RunLengthPos
      DEF RxToken, Ok, SinkTypeOK, RunLength, Pcs
<1>9. CASE RxHeader
      <2>1. CASE Abort(PopUpTo(2))
            BY <2>1, <1>b, AbortType
      <2>2. CASE ~Abort(PopUpTo(2))
            <3>1. Header \subseteq Message
                  <4>1. CASE Aligned(2)
                        <5>1. Head(chip.rx) \in Byte
                              BY <4>1, HeadTailProperties
                              DEF Aligned, SinkTypeOK, ChipStates
                        <5> QED BY <4>1, <5>1 DEF Header, Message, Byte
                  <4>2. CASE ~Aligned(2)
                        BY <4>2 DEF Header, Message
                  <4> QED BY <4>1, <4>2
            <3> QED BY <1>9, <2>2, <3>1, <1>a, RunLengthPos
                    DEF RxHeader, Ok, SinkTypeOK, RunLength, Pcs
      <2> QED BY <2>1, <2>2
<1>10. CASE RxPayload
      <2>1. NumObjects(cur.k) \in 0..1
            BY DEF NumObjects
      <2>2. PopUpTo(4 * NumObjects(cur.k)) \subseteq ChipStates
            BY <2>1, <1>a DEF PopUpTo
      <2>3. CASE Abort(PopUpTo(4 * NumObjects(cur.k)))
            BY <2>2, <2>3, AbortType
      <2>4. CASE ~Abort(PopUpTo(4 * NumObjects(cur.k)))
            BY <1>10, <1>a, <2>1, <2>4, RunLengthPos
            DEF RxPayload, Ok, SinkTypeOK, RunLength, Pcs
      <2> QED BY <2>3, <2>4
<1>11. CASE RxCrc
      <2>1. CASE Abort(PopUpTo(4))
            BY <2>1, <1>b, AbortType
      <2>2. CASE ~Abort(PopUpTo(4))
            <3>1. chip' \in ChipStates /\ errs' = errs
                  BY <1>11, <2>2, <1>a DEF RxCrc, DropCrc, Ok
            <3>2. messageId' \in 0..(MessageIds - 1)
                  BY <1>11, <2>2, NextIdType DEF RxCrc, SinkTypeOK
            <3>3. req' \in Requests
                  <4>1. cur.k \in Kinds /\ cur.good \in BOOLEAN
                        BY DEF SinkTypeOK, Message
                  <4>2. [offer |-> cur.k, good |-> cur.good, id |-> messageId]
                          \in Requests
                        BY <4>1 DEF SinkTypeOK, Requests
                  <4> QED BY <1>11, <2>2, <4>2 DEF RxCrc, SinkTypeOK
            <3>4. pc' \in Pcs \ {"read_id"} /\ state' = state /\ ret' = ret
                  BY <1>11, <2>2 DEF RxCrc, NextMessage, Pcs
            <3>5. step' \in 1..RunLength(pc')
                  BY <1>11, <2>2, RunLengthPos DEF RxCrc, SinkTypeOK, RunLength
            <3> QED BY <1>11, <2>2, <3>1, <3>2, <3>3, <3>4, <3>5
                    DEF RxCrc, SinkTypeOK
      <2> QED BY <2>1, <2>2
<1>12. CASE Send
      <2> DEFINE after == WriteFifo(chip, SendParts[step], req)
      <2>1. step \in 1..3 /\ SendParts[step] \in {"sop", "data", "eop"}
            BY <1>12 DEF Send, SinkTypeOK, RunLength, SendParts
      <2>2. after \in ChipStates
            BY <2>1, WriteFifoType DEF SinkTypeOK
      <2>3. CASE Abort({chip, after})
            BY <2>2, <2>3, AbortType
      <2>4. CASE ~Abort({chip, after})
            <3>0. \/ step < 3 /\ step' = step + 1 /\ UNCHANGED <<pc, state, ret>>
                  \/ step' = 1 /\ NextMessage
                  BY <1>12, <2>4 DEF Send, SendParts
            <3>1. /\ step' \in 1..RunLength(pc') /\ pc' \in Pcs \ {"read_id"}
                  /\ state' = state /\ ret' = ret
                  BY <1>12, <2>1, <3>0, RunLengthPos
                  DEF Send, NextMessage, SinkTypeOK, Pcs, RunLength
            <3> QED BY <1>12, <2>2, <2>4, <3>1 DEF Send, Ok, SinkTypeOK
      <2> QED BY <2>3, <2>4
<1>13. CASE CcDelay
      BY <1>13, RunLengthPos DEF CcDelay, SinkTypeOK, RunLength, Pcs
<1>14. CASE ProbeCc1
      <2>1. "cc1" \in CcLines /\ state \in States
            BY DEF CcLines, SinkTypeOK
      <2> QED BY <1>14, <2>1, WriteRunType, ScriptType
              DEF ProbeCc1, RunLength, Pcs
<1>15. CASE SampleCc1
      <2>1. BcLvl(chip, plug) \in 0..1
            BY DEF BcLvl
      <2> QED BY <1>15, <2>1, AbortType, RunLengthPos
              DEF SampleCc1, Ok, SinkTypeOK, RunLength, Pcs
<1>16. CASE ProbeCc2
      <2>1. "cc2" \in CcLines /\ state \in States
            BY DEF CcLines, SinkTypeOK
      <2> QED BY <1>16, <2>1, WriteRunType, ScriptType
              DEF ProbeCc2, RunLength, Pcs
<1>17. CASE SampleCc2
      <2>1. \A a, b : UsedCc(a, b) \in CcLines
            BY DEF UsedCc, CcLines
      <2> QED BY <1>17, <2>1, AbortType, RunLengthPos, EntryType
              DEF SampleCc2, Ok, SinkTypeOK, RunLength, Pcs, Entry, States
<1>18. CASE EnableCc
      <2>1. state \in States
            BY DEF SinkTypeOK
      <2> QED BY <1>18, <2>1, WriteRunType, ScriptType
              DEF EnableCc, RunLength, Pcs
<1>19. CASE FusbReset
      BY <1>19, WriteRunType, ScriptType
      DEF FusbReset, RunLength, Pcs, States, Entry
<1> QED BY <1>1, <1>2, <1>3, <1>4, <1>5, <1>6, <1>7, <1>8, <1>9, <1>10,
           <1>11, <1>12, <1>13, <1>14, <1>15, <1>16, <1>17, <1>18, <1>19
        DEF SinkStep

LEMMA InitTypeOK == Init => TypeOK
<1> SUFFICES ASSUME Init PROVE TypeOK
    OBVIOUS
<1> USE DEF Init
<1>1. chip \in ChipStates
      BY ResetChipType
<1>2. 0 \in 0..(MessageIds - 1) /\ retries \in 0..IdRetries /\ retries > 0
      BY FusbAssumption, SinkAssumption DEF SinkInit
<1>3. cur \in Message /\ req \in Requests
      BY <1>2 DEF SinkInit, Message, Requests, Kinds
<1>4. step \in 1..RunLength(pc) /\ errs \in 0..MaxErrs
      BY RunLengthPos, SinkAssumption DEF SinkInit
<1>5. pc \in Pcs /\ state \in States /\ useCc \in CcLines
      BY DEF SinkInit, Pcs, States, CcLines
<1>6. vbusok \in BOOLEAN /\ moved \in BOOLEAN
      BY Zenon DEF SinkInit
<1>10. ret \in {"loop", "wait"} /\ cc1Val \in 0..1
      BY DEF SinkInit
<1>7. SinkTypeOK
      BY <1>1, <1>2, <1>3, <1>4, <1>5, <1>6, <1>10
      DEF SinkInit, SinkTypeOK, Cc
<1>8. noise \in 0..MaxNoise /\ boots \in 0..MaxBoots
      BY SystemAssumption
<1>9. /\ src \in {"absent", "advertise", "await", "contract"}
      /\ offer \in Offers \cup {"none"}
      /\ src = "absent" /\ plug = "none" /\ offer = "none"
      OBVIOUS
<1> HIDE DEF Init
<1> QED BY <1>6, <1>7, <1>8, <1>9 DEF TypeOK

\* The variables the sink keeps to itself.
LEMMA SinkUnchanged ==
  ASSUME SinkTypeOK, UNCHANGED <<sinkVars, errs>>,
         chip' \in ChipStates, plug' \in Cc
  PROVE  SinkTypeOK'
  BY DEF SinkTypeOK, sinkVars

LEMMA TakenType ==
  ASSUME chip \in ChipStates, chip.out # <<>>
  PROVE  Taken \in ChipStates
  <1>1. Tail(chip.out) \in Seq(Requests)
        BY HeadTailProperties DEF ChipStates
  <1>2. [chip EXCEPT !.out = Tail(@)] \in ChipStates
        BY <1>1 DEF ChipStates
  <1> QED BY <1>2, LatchType DEF Taken, InterruptSources

LEMMA NextTypeOK == TypeOK /\ [Next]_vars => TypeOK'
<1> SUFFICES ASSUME TypeOK, [Next]_vars PROVE TypeOK'
    OBVIOUS
<1> USE DEF TypeOK
<1> SinkTypeOK /\ chip \in ChipStates /\ plug \in Cc
    BY DEF SinkTypeOK
<1>1. CASE Sink
      BY <1>1, SinkStepType DEF Sink, SinkStep
<1>2. CASE Reboot
      BY <1>2, BootType, SystemAssumption DEF Reboot
<1>3. CASE Attach
      <2>1. chip' \in ChipStates /\ plug' \in Cc
            BY <1>3, VbusChangeType DEF Attach, Cc
      <2> QED BY <1>3, <2>1, SinkUnchanged, FusbAssumption
              DEF Attach, CcLines
<1>4. CASE Detach
      <2>1. [chip EXCEPT !.out = <<>>] \in ChipStates
            BY EmptySeq DEF ChipStates
      <2>2. chip' \in ChipStates /\ plug' \in Cc
            BY <1>4, <2>1, VbusChangeType DEF Detach, Cc
      <2> QED BY <1>4, <2>2, SinkUnchanged, FusbAssumption DEF Detach
<1>5. CASE Advertise
      <2>1. offer \in Kinds /\ plug # "none"
            BY <1>5, FusbAssumption DEF Advertise, Kinds
      <2>2. chip' \in ChipStates
            BY <1>5, <2>1, ReceiveType DEF Advertise
      <2> QED BY <1>5, <2>1, <2>2, SinkUnchanged, SystemAssumption
              DEF Advertise
<1>6. CASE Chatter
      <2>1. chip' \in ChipStates
            BY <1>6, ReceiveType DEF Chatter, Kinds
      <2> QED BY <1>6, <2>1, SinkUnchanged DEF Chatter, srcVars
<1>7. CASE Readvertise
      BY <1>7, SinkUnchanged, FusbAssumption DEF Readvertise
<1>8. chip.out # <<>> => Taken \in ChipStates
      BY TakenType
<1>9. CASE TakeRequest
      <2>1. chip' \in ChipStates
            BY <1>8, <1>9, ReceiveType DEF TakeRequest, Kinds
      <2> QED BY <1>9, <2>1, SinkUnchanged DEF TakeRequest
<1>10. CASE RetryFail
      <2>1. chip' \in ChipStates
            BY <1>8, <1>10 DEF RetryFail
      <2> QED BY <1>10, <2>1, SinkUnchanged, SystemAssumption DEF RetryFail
<1>11. CASE Spurious
      <2>1. chip' \in ChipStates
            BY <1>11, LatchType DEF Spurious, InterruptSources
      <2> QED BY <1>11, <2>1, SinkUnchanged DEF Spurious, srcVars
<1>12. CASE UNCHANGED vars
      BY <1>12, SinkUnchanged DEF vars, srcVars
<1> QED BY <1>1, <1>2, <1>3, <1>4, <1>5, <1>6, <1>7, <1>9, <1>10, <1>11, <1>12
        DEF Next, Environment, Wire

\* Every variable of the sink, the chip and the source keeps its type; a run
\* of writes is never left with a position outside it.
THEOREM PdTypeOK == Spec => []TypeOK
<1> QED BY InitTypeOK, NextTypeOK, PTL DEF Spec

(***************************************************************************)
(* What the registers hold at each await.                                  *)
(***************************************************************************)

ResetPcs == {"sw_res", "read_id", "setup"}
CcPcs == {"cc_delay", "probe1", "sample1", "probe2", "sample2", "enable",
          "fusb_reset"}

\* The await the sink is suspended at belongs to the state it is in.
PcInv ==
  /\ pc \in ResetPcs <=> state = "Reset"
  /\ pc \in CcPcs <=> state = "PollCC"
  /\ pc = "vbus" => state = "WaitForVbus"

\* The chip is powered and unmasked write by write, and stays so until the
\* sink goes back to Reset.
PowerInv ==
  /\ state # "Reset" => chip.on /\ chip.masked = {}
  /\ pc = "setup" =>
       /\ step > 1 => chip.on
       /\ step > 2 => "Mask1" \notin chip.masked
       /\ step > 3 => "MaskA" \notin chip.masked
       /\ step > 4 => "MaskB" \notin chip.masked
       /\ step > 5 => "Control0" \notin chip.masked

\* The receiver is on the line being sampled, then receiver and transmitter
\* on the line that was chosen.
CcInv ==
  /\ pc = "sample1" => chip.meas = "cc1"
  /\ pc = "sample2" => chip.meas = "cc2"
  /\ pc = "enable" /\ step > 1 => chip.meas = useCc
  /\ pc = "fusb_reset" \/ state = "Online" =>
       chip.meas = useCc /\ chip.txcc = useCc /\ chip.autoCrc

\* What the samples say of the plug, as long as VBUS has not gone away.
PlugInv ==
  ~moved =>
    /\ pc \in {"probe2", "sample2"} /\ cc1Val = 1 => plug = "cc1"
    /\ pc \in {"enable", "fusb_reset"} \/ state = "Online" => plug = useCc

AckedRx(c) ==
  \A j \in 1..Len(c.rx) : c.rx[j].acked \/ c.rx[j].k = "goodcrc"

\* After the last flush, only frames the chip acknowledges come in.
RxInv == state = "Online" \/ (pc = "fusb_reset" /\ step > 2) => AckedRx(chip)

IInv == TypeOK /\ PcInv /\ PowerInv /\ CcInv /\ PlugInv /\ RxInv

\* A step that is neither the sink's nor a restart: the cable and the source.
Outside == UNCHANGED sinkVars /\ Config(chip') = Config(chip)

LEMMA OutsideSteps ==
  ASSUME TypeOK, [Next]_vars
  PROVE  Sink \/ Reboot \/ Outside
  <1> chip \in ChipStates
      BY DEF TypeOK, SinkTypeOK
  <1>1. CASE Attach
        BY <1>1, ConfigKept DEF Attach, Outside
  <1>2. CASE Detach
        <2>1. [chip EXCEPT !.out = <<>>] \in ChipStates
              BY EmptySeq DEF ChipStates
        <2>2. Config([chip EXCEPT !.out = <<>>]) = Config(chip)
              BY DEF Config, ChipStates
        <2> QED BY <1>2, <2>1, <2>2, ConfigKept DEF Detach, Outside
  <1>3. CASE Advertise
        BY <1>3, ConfigKept DEF Advertise, Outside
  <1>4. CASE Chatter
        BY <1>4, ConfigKept DEF Chatter, Outside
  <1>5. CASE Readvertise
        BY <1>5 DEF Readvertise, Outside
  <1>6. Config(Taken) = Config(chip)
        BY DEF Taken, Latch, Config, ChipStates
  <1>7. CASE TakeRequest
        BY <1>6, <1>7 DEF TakeRequest, Outside, Receive, Config
  <1>8. CASE RetryFail
        BY <1>6, <1>8 DEF RetryFail, Outside
  <1>9. CASE Spurious
        BY <1>9, ConfigKept DEF Spurious, Outside
  <1>10. CASE UNCHANGED vars
        BY <1>10 DEF vars, Outside
  <1> QED BY <1>1, <1>2, <1>3, <1>4, <1>5, <1>7, <1>8, <1>9, <1>10
          DEF Next, Environment, Wire

LEMMA NextPcInv == TypeOK /\ PcInv /\ [Next]_vars => PcInv'
<1> SUFFICES ASSUME TypeOK, PcInv, [Next]_vars PROVE PcInv'
    OBVIOUS
<1> pc \in Pcs /\ state \in States
    BY DEF TypeOK, SinkTypeOK
<1> USE DEF PcInv, Pcs, States, ResetPcs, CcPcs, Entry
<1>1. CASE Outside
      BY <1>1 DEF Outside, sinkVars
<1>2. CASE Reboot
      BY <1>2 DEF Reboot, Boot
<1>3. ASSUME NEW after, Abort(after) PROVE PcInv'
      BY <1>3 DEF Abort
<1>4. CASE Sink
      <2>1. CASE SwReset
            BY <1>3, <2>1 DEF SwReset
      <2>2. CASE ReadId
            BY <2>2 DEF ReadId, ReadIdFails
      <2>3. CASE FusbSetup
            BY <1>3, <2>3 DEF FusbSetup, WriteRun
      <2>4. CASE StartVbus
            BY <1>3, <2>4 DEF StartVbus, PollFirst
      <2>5. CASE WaitForLow
            BY <2>5 DEF WaitForLow
      <2>6. CASE PollStatus
            BY <1>3, <2>6 DEF PollStatus, PollReturns
      <2>7. CASE RxStatus
            BY <1>3, <2>7 DEF RxStatus, PollReturns
      <2>8. CASE RxToken
            BY <1>3, <2>8 DEF RxToken
      <2>9. CASE RxHeader
            BY <1>3, <2>9 DEF RxHeader
      <2>10. CASE RxPayload
            BY <1>3, <2>10 DEF RxPayload
      <2>11. CASE RxCrc
            BY <1>3, <2>11 DEF RxCrc, NextMessage
      <2>12. CASE Send
            BY <1>3, <2>12 DEF Send, NextMessage
      <2>13. CASE CcDelay
            BY <2>13 DEF CcDelay
      <2>14. CASE ProbeCc1
            BY <1>3, <2>14 DEF ProbeCc1, WriteRun
      <2>15. CASE SampleCc1
            BY <1>3, <2>15 DEF SampleCc1
      <2>16. CASE ProbeCc2
            BY <1>3, <2>16 DEF ProbeCc2, WriteRun
      <2>17. CASE SampleCc2
            BY <1>3, <2>17 DEF SampleCc2
      <2>18. CASE EnableCc
            BY <1>3, <2>18 DEF EnableCc, WriteRun
      <2>19. CASE FusbReset
            BY <1>3, <2>19 DEF FusbReset, WriteRun
      <2> QED BY <1>4, <2>1, <2>2, <2>3, <2>4, <2>5, <2>6, <2>7, <2>8, <2>9,
                 <2>10, <2>11, <2>12, <2>13, <2>14, <2>15, <2>16, <2>17,
                 <2>18, <2>19
              DEF Sink, SinkStep
<1> QED BY <1>1, <1>2, <1>4, OutsideSteps

\* Out of Reset no step of the sink powers the chip down or masks an interrupt.
LEMMA PowerKept ==
  ASSUME TypeOK, PcInv, SinkStep, pc \notin ResetPcs,
         chip.on, chip.masked = {}
  PROVE  chip'.on /\ chip'.masked = {}
  <1> chip \in ChipStates /\ SinkTypeOK /\ state \in States
      BY DEF TypeOK, SinkTypeOK
  <1> USE DEF ResetPcs, Abort, Ok
  <1>1. ASSUME NEW w \in RegWrites, w.reg # "SwReset",
               chip' \in {chip, WriteReg(chip, w)}
        PROVE  chip'.on /\ chip'.masked = {}
        BY <1>1, WriteRegEffect
  <1>2. ASSUME Config(chip') = Config(chip)
        PROVE  chip'.on /\ chip'.masked = {}
        BY <1>2 DEF Config
  <1>3. CASE StartVbus
        <2>1. step \in 1..2
              BY <1>3 DEF StartVbus, SinkTypeOK, RunLength
        <2>2. VbusScript[step] \in RegWrites /\ VbusScript[step].reg # "SwReset"
              BY <2>1, RegType DEF VbusScript, Reg, RegCc, Cc
        <2> QED BY <1>1, <1>3, <2>2 DEF StartVbus
  <1>4. CASE PollStatus
        BY <1>2, <1>4, ConfigKept DEF PollStatus
  <1>5. CASE RxStatus \/ WaitForLow \/ CcDelay \/ SampleCc1 \/ SampleCc2
        BY <1>2, <1>5 DEF RxStatus, WaitForLow, CcDelay, SampleCc1, SampleCc2
  <1>6. CASE RxToken \/ RxHeader \/ RxPayload \/ RxCrc
        <2>1. \A n : Config(Pop(chip, n)) = Config(chip)
              BY ConfigKept
        <2>2. PICK n : chip' = Pop(chip, n)
              BY <1>6
              DEF RxToken, RxHeader, RxPayload, RxCrc, PopUpTo, DropCrc
        <2> QED BY <1>2, <2>1, <2>2
  <1>7. CASE Send
        BY <1>2, <1>7, ConfigKept DEF Send
  <1>8. CASE ProbeCc1
        <2>1. step \in 1..2
              BY <1>8 DEF ProbeCc1, WriteRun, SinkTypeOK, RunLength
        <2> DEFINE script == <<Reg("Measure"), RegCc("Switches0", "cc1")>>
        <2>2. script[step] \in RegWrites /\ script[step].reg # "SwReset"
              BY <2>1, RegType DEF Reg, RegCc, Cc, CcLines
        <2> QED BY <1>1, <1>8, <2>2 DEF ProbeCc1, WriteRun
  <1>9. CASE ProbeCc2
        <2>1. step = 1
              BY <1>9 DEF ProbeCc2, WriteRun, SinkTypeOK, RunLength
        <2> DEFINE script == <<RegCc("Switches0", "cc2")>>
        <2>2. script[step] \in RegWrites /\ script[step].reg # "SwReset"
              BY <2>1, RegType DEF Reg, RegCc, Cc, CcLines
        <2> QED BY <1>1, <1>9, <2>2 DEF ProbeCc2, WriteRun
  <1>10. CASE EnableCc
        <2>1. step \in 1..3 /\ useCc \in Cc
              BY <1>10 DEF EnableCc, WriteRun, SinkTypeOK, RunLength, Cc
        <2>2. /\ EnableScript[step] \in RegWrites
              /\ EnableScript[step].reg # "SwReset"
              BY <2>1, RegType DEF EnableScript, Reg, RegCc
        <2> QED BY <1>1, <1>10, <2>2 DEF EnableCc, WriteRun
  <1>11. CASE FusbReset
        <2>1. step \in 1..3
              BY <1>11 DEF FusbReset, WriteRun, SinkTypeOK, RunLength
        <2>2. /\ FusbResetScript[step] \in RegWrites
              /\ FusbResetScript[step].reg # "SwReset"
              BY <2>1, RegType DEF FusbResetScript, Reg
        <2> QED BY <1>1, <1>11, <2>2 DEF FusbReset, WriteRun
  <1> QED BY <1>3, <1>4, <1>5, <1>6, <1>7, <1>8, <1>9, <1>10, <1>11
          DEF SinkStep, SwReset, ReadId, FusbSetup, WriteRun

LEMMA NextPowerInv ==
  TypeOK /\ PcInv /\ PowerInv /\ [Next]_vars => PowerInv'
<1> SUFFICES ASSUME TypeOK, PcInv, PowerInv, [Next]_vars PROVE PowerInv'
    OBVIOUS
<1> chip \in ChipStates /\ SinkTypeOK /\ state \in States
    BY DEF TypeOK, SinkTypeOK
<1>1. CASE Outside
      BY <1>1 DEF Outside, sinkVars, Config, PowerInv
<1>2. CASE Reboot
      BY <1>2 DEF Reboot, Boot, PowerInv
<1>3. CASE Sink /\ pc \notin ResetPcs
      <2>1. state # "Reset" /\ chip'.on /\ chip'.masked = {}
            BY <1>3, PowerKept DEF Sink, PcInv, PowerInv
      <2>2. pc' # "setup"
            <3>1. ASSUME NEW after, Abort(after) PROVE pc' # "setup"
                  BY <3>1 DEF Abort, Entry, States
            <3>2. ASSUME NEW vbus, PollReturns(vbus) PROVE pc' # "setup"
                  BY <3>2 DEF PollReturns, Entry
            <3>3. CASE StartVbus \/ WaitForLow \/ PollStatus \/ RxStatus
                  BY <3>1, <3>2, <3>3
                  DEF StartVbus, WaitForLow, PollStatus, RxStatus, PollFirst
            <3>4. CASE RxToken \/ RxHeader \/ RxPayload \/ RxCrc \/ Send
                  BY <3>1, <3>4
                  DEF RxToken, RxHeader, RxPayload, RxCrc, Send, NextMessage
            <3>5. CASE CcDelay \/ SampleCc1 \/ SampleCc2
                  BY <3>1, <3>5
                  DEF CcDelay, SampleCc1, SampleCc2, Entry, States
            <3>6. CASE ProbeCc1 \/ ProbeCc2 \/ EnableCc \/ FusbReset
                  BY <3>1, <3>6
                  DEF ProbeCc1, ProbeCc2, EnableCc, FusbReset, WriteRun, Entry
            <3> QED BY <1>3, <3>3, <3>4, <3>5, <3>6
                    DEF Sink, SinkStep, ResetPcs, SwReset, ReadId, FusbSetup,
                        WriteRun
      <2> QED BY <2>1, <2>2 DEF PowerInv
<1>4. CASE SwReset
      BY <1>4 DEF SwReset, Abort, PowerInv, PcInv, ResetPcs, Entry
<1>5. CASE ReadId
      <2>1. step = 1 /\ step' = 1
            BY <1>5 DEF ReadId, SinkTypeOK, RunLength
      <2> QED BY <1>5, <2>1 DEF ReadId, PowerInv, PcInv, ResetPcs
<1>6. CASE FusbSetup
      <2> DEFINE w == SetupScript[step]
                 after == WriteReg(chip, w)
      <2>1. step \in 1..8 /\ pc = "setup" /\ state = "Reset"
            BY <1>6
            DEF FusbSetup, WriteRun, SinkTypeOK, RunLength, PcInv, ResetPcs
      <2>2. w \in RegWrites /\ w.reg # "SwReset"
            BY <2>1, RegType DEF SetupScript, Reg
      <2>3. /\ step > 0 => after.on
            /\ step > 1 => "Mask1" \notin after.masked
            /\ step > 2 => "MaskA" \notin after.masked
            /\ step > 3 => "MaskB" \notin after.masked
            /\ step > 4 => "Control0" \notin after.masked
            <3>1. w.reg = << "Power", "Mask1", "MaskA", "MaskB", "Control0",
                             "Control3", "Control2", "RxFlush" >>[step]
                  BY <2>1 DEF SetupScript, Reg
            <3> QED BY <2>1, <2>2, <3>1, WriteRegEffect DEF PowerInv, Masks
      <2>4. CASE Abort({chip, after})
            BY <2>1, <2>4 DEF Abort, PowerInv, Entry
      <2>5. CASE ~Abort({chip, after})
            <3>1. chip' = after
                  BY <1>6, <2>5 DEF FusbSetup, WriteRun, Ok
            <3>2. CASE step < 8
                  <4>1. step' = step + 1 /\ state' = "Reset"
                        BY <1>6, <2>1, <2>5, <3>2, ScriptType
                        DEF FusbSetup, WriteRun
                  <4> HIDE DEF after
                  <4> QED BY <2>1, <2>3, <3>1, <4>1 DEF PowerInv
            <3>3. CASE step = 8
                  <4>1. after.masked \subseteq Masks
                        BY <2>2, WriteRegType DEF ChipStates
                  <4>2. after.on /\ after.masked = {}
                        BY <2>3, <3>3, <4>1 DEF Masks
                  <4>3. pc' = "vbus"
                        <5>0. Len(SetupScript) = 8
                              BY ScriptType
                        <5>1. ~(step < Len(SetupScript))
                              BY <3>3, <5>0
                        <5> QED BY <1>6, <2>5, <5>1 DEF FusbSetup, WriteRun
                  <4> HIDE DEF after
                  <4> QED BY <3>1, <4>2, <4>3 DEF PowerInv
            <3> QED BY <2>1, <3>2, <3>3
      <2> QED BY <2>4, <2>5
<1>7. CASE Sink /\ pc \in ResetPcs
      <2>1. SwReset \/ ReadId \/ FusbSetup
            BY <1>7
            DEF Sink, SinkStep, ResetPcs, StartVbus, WaitForLow, PollStatus,
                RxStatus, RxToken, RxHeader, RxPayload, RxCrc, Send, CcDelay,
                ProbeCc1, SampleCc1, ProbeCc2, SampleCc2, EnableCc, FusbReset,
                WriteRun
      <2> QED BY <2>1, <1>4, <1>5, <1>6
<1> QED BY <1>1, <1>2, <1>3, <1>7, OutsideSteps

\* An Online sink only reads from its chip and fills the transmit FIFO.
LEMMA OnlineReads ==
  ASSUME TypeOK, PcInv, SinkStep, state = "Online"
  PROVE  /\ Config(chip') = Config(chip)
         /\ useCc' = useCc /\ cc1Val' = cc1Val
         /\ pc' \notin CcPcs
         /\ chip'.rx = chip.rx \/ \E n \in Nat : chip'.rx = Pop(chip, n).rx
  <1> chip \in ChipStates /\ pc \in Pcs /\ cur.k \in Kinds
      BY DEF TypeOK, SinkTypeOK, Message
  <1> pc \notin ResetPcs \cup CcPcs \cup {"vbus"}
      BY DEF PcInv
  <1> USE DEF ResetPcs, CcPcs, Entry
  <1>1. ASSUME NEW after, Abort(after)
        PROVE  useCc' = useCc /\ cc1Val' = cc1Val /\ pc' = "wait"
        BY <1>1 DEF Abort
  <1>2. ASSUME NEW vbus, PollReturns(vbus)
        PROVE  pc' \notin CcPcs
        BY <1>2 DEF PollReturns
  <1>3. CASE PollStatus
        <2>1. PICK l : chip' = [chip EXCEPT !.latch = l]
              BY <1>3 DEF PollStatus, Abort, Ok, ClearFlags
        <2>2. Config(chip') = Config(chip) /\ chip'.rx = chip.rx
              BY <2>1, ConfigKept DEF ChipStates
        <2> QED BY <1>1, <1>2, <1>3, <2>2 DEF PollStatus
  <1>4. CASE RxStatus \/ WaitForLow
        BY <1>1, <1>2, <1>4 DEF RxStatus, WaitForLow, Ok, Abort
  <1>5. CASE RxToken \/ RxHeader \/ RxPayload \/ RxCrc
        <2>1. \A n : Config(Pop(chip, n)) = Config(chip)
              BY ConfigKept
        <2>2. NumObjects(cur.k) \in 0..1
              BY DEF NumObjects
        <2>5. ASSUME NEW m \in Nat, Ok(Pop(chip, m)) \/ Abort(PopUpTo(m))
              PROVE  \E n \in Nat : chip' = Pop(chip, n)
              BY <2>5 DEF Ok, Abort, PopUpTo
        <2>6. \E m \in Nat : Ok(Pop(chip, m)) \/ Abort(PopUpTo(m))
              <3>1. CASE RxToken
                    BY <3>1 DEF RxToken
              <3>2. CASE RxHeader
                    BY <3>2 DEF RxHeader
              <3>3. CASE RxPayload
                    BY <2>2, <3>3 DEF RxPayload
              <3>4. CASE RxCrc
                    BY <3>4 DEF RxCrc, DropCrc
              <3> QED BY <1>5, <3>1, <3>2, <3>3, <3>4
        <2>3. PICK n \in Nat : chip' = Pop(chip, n)
              BY <2>5, <2>6
        <2>4. useCc' = useCc /\ cc1Val' = cc1Val /\ pc' \notin CcPcs
              BY <1>1, <1>5
              DEF RxToken, RxHeader, RxPayload, RxCrc, NextMessage
        <2> QED BY <2>1, <2>3, <2>4
  <1>6. CASE Send
        <2>1. \A part : WriteFifo(chip, part, req).rx = chip.rx
              BY DEF WriteFifo, ChipStates
        <2>2. Config(chip') = Config(chip) /\ chip'.rx = chip.rx
              BY <1>6, <2>1, ConfigKept DEF Send, Ok, Abort
        <2> QED BY <1>1, <1>6, <2>2 DEF Send, NextMessage
  <1> QED BY <1>3, <1>4, <1>5, <1>6
          DEF SinkStep, SwReset, ReadId, FusbSetup, StartVbus, CcDelay,
              ProbeCc1, SampleCc1, ProbeCc2, SampleCc2, EnableCc, FusbReset,
              WriteRun

\* Only the end of fusb_reset puts the sink Online.
LEMMA GoesOnline ==
  ASSUME TypeOK, PcInv, SinkStep, state # "Online", state' = "Online"
  PROVE  FusbReset /\ step = 3 /\ chip' = WriteReg(chip, Reg("PdReset"))
  <1> state \in States
      BY DEF TypeOK, SinkTypeOK
  <1> USE DEF Entry, States
  <1>1. ASSUME NEW after, Abort(after) PROVE FALSE
        BY <1>1 DEF Abort
  <1>2. ASSUME NEW vbus, PollReturns(vbus) PROVE FALSE
        BY <1>2 DEF PollReturns
  <1>3. CASE SwReset \/ ReadId \/ FusbSetup \/ StartVbus \/ WaitForLow
        BY <1>1, <1>3 DEF SwReset, ReadId, FusbSetup, WriteRun, StartVbus,
                          WaitForLow
  <1>4. CASE PollStatus \/ RxStatus
        BY <1>1, <1>2, <1>4 DEF PollStatus, RxStatus
  <1>5. CASE RxToken \/ RxHeader \/ RxPayload \/ RxCrc \/ Send
        BY <1>1, <1>5
        DEF RxToken, RxHeader, RxPayload, RxCrc, Send, NextMessage
  <1>6. CASE CcDelay \/ SampleCc1 \/ SampleCc2 \/ ProbeCc1 \/ ProbeCc2
             \/ EnableCc
        BY <1>1, <1>6 DEF CcDelay, SampleCc1, SampleCc2, ProbeCc1, ProbeCc2,
                          EnableCc, WriteRun
  <1>7. CASE FusbReset
        <2>1. step \in 1..3 /\ Len(FusbResetScript) = 3
              BY <1>7, ScriptType
              DEF FusbReset, WriteRun, TypeOK, SinkTypeOK, RunLength
        <2>2. step = 3
              BY <1>1, <1>7, <2>1 DEF FusbReset, WriteRun
        <2>3. chip' = WriteReg(chip, FusbResetScript[step])
              BY <1>1, <1>7 DEF FusbReset, WriteRun, Ok
        <2> QED BY <1>7, <2>2, <2>3 DEF FusbResetScript
  <1> QED BY <1>3, <1>4, <1>5, <1>6, <1>7 DEF SinkStep

LEMMA NextCcInv == TypeOK /\ PcInv /\ CcInv /\ [Next]_vars => CcInv'
<1> SUFFICES ASSUME TypeOK, PcInv, CcInv, [Next]_vars PROVE CcInv'
    OBVIOUS
<1> chip \in ChipStates /\ SinkTypeOK /\ state \in States /\ useCc \in Cc
    BY DEF TypeOK, SinkTypeOK, Cc
<1> PcInv'
    BY NextPcInv
<1>1. CASE Outside
      BY <1>1 DEF Outside, sinkVars, Config, CcInv
<1>2. CASE Reboot
      BY <1>2 DEF Reboot, Boot, CcInv
<1>3. CASE Sink /\ state = "Online"
      <2>1. Config(chip') = Config(chip) /\ useCc' = useCc /\ pc' \notin CcPcs
            BY <1>3, OnlineReads DEF Sink
      <2> QED BY <1>3, <2>1 DEF CcInv, Config, CcPcs
\* Back to the start of the handler, with nothing to show.
<1>4. ASSUME NEW after, Abort(after), state # "Online"
      PROVE  CcInv'
      BY <1>4 DEF Abort, CcInv, Entry, States
<1>5. CASE Sink /\ state # "Online" /\ state' = "Online"
      <2>1. /\ FusbReset /\ step = 3
            /\ chip' = WriteReg(chip, Reg("PdReset"))
            BY <1>5, GoesOnline DEF Sink
      <2>2. useCc' = useCc /\ pc' = "wait" /\ pc = "fusb_reset"
            BY <1>4, <1>5, <2>1, ScriptType
            DEF FusbReset, WriteRun, Abort, Entry
      <2>3. /\ chip'.meas = chip.meas /\ chip'.txcc = chip.txcc
            /\ chip'.autoCrc = chip.autoCrc
            BY <2>1 DEF WriteReg, Reg, ChipStates, Masks
      <2> QED BY <2>2, <2>3 DEF CcInv
<1>6. CASE Sink /\ state' # "Online"
           /\ pc' \notin {"sample1", "sample2", "enable", "fusb_reset"}
      BY <1>6 DEF CcInv
<1>7. CASE Sink /\ state' # "Online" /\ state # "Online"
           /\ pc' \in {"sample1", "sample2", "enable", "fusb_reset"}
      <2>1. ProbeCc1 \/ ProbeCc2 \/ SampleCc2 \/ EnableCc \/ FusbReset
            <3>1. ASSUME NEW after, Abort(after) PROVE FALSE
                  BY <1>7, <3>1 DEF Abort, Entry, States
            <3>2. ASSUME NEW vbus, PollReturns(vbus) PROVE FALSE
                  BY <1>7, <3>2 DEF PollReturns, Entry
            <3>3. ~(SwReset \/ ReadId \/ FusbSetup \/ StartVbus \/ WaitForLow)
                  BY <1>7, <3>1
                  DEF SwReset, ReadId, ReadIdFails, FusbSetup, WriteRun,
                      StartVbus, PollFirst, WaitForLow, Entry
            <3>4. ~(PollStatus \/ RxStatus)
                  BY <1>7, <3>1, <3>2 DEF PollStatus, RxStatus
            <3>5. ~(RxToken \/ RxHeader \/ RxPayload \/ RxCrc \/ Send)
                  BY <1>7, <3>1
                  DEF RxToken, RxHeader, RxPayload, RxCrc, Send, NextMessage
            <3>6. ~(CcDelay \/ SampleCc1)
                  BY <1>7, <3>1 DEF CcDelay, SampleCc1
            <3> QED BY <1>7, <3>3, <3>4, <3>5, <3>6 DEF Sink, SinkStep
      <2>2. CASE ProbeCc1
            <3>1. step \in 1..2 /\ pc = "probe1"
                  BY <2>2 DEF ProbeCc1, WriteRun, SinkTypeOK, RunLength
            <3>2. step = 2 /\ chip' = WriteReg(chip, RegCc("Switches0", "cc1"))
                  BY <1>4, <1>7, <2>2, <3>1
                  DEF ProbeCc1, WriteRun, Ok, Abort, Entry, States
            <3>3. chip'.meas = "cc1"
                  BY <3>2, WriteRegEffect, RegType DEF RegCc, Cc, CcLines
            <3>4. pc' = "sample1"
                  BY <1>7, <2>2, <3>1
                  DEF ProbeCc1, WriteRun, Abort, Entry, States
            <3> QED BY <1>7, <3>3, <3>4 DEF CcInv
      <2>3. CASE ProbeCc2
            <3>1. step = 1 /\ pc = "probe2"
                  BY <2>3 DEF ProbeCc2, WriteRun, SinkTypeOK, RunLength
            <3>2. chip' = WriteReg(chip, RegCc("Switches0", "cc2"))
                  BY <1>7, <2>3, <3>1
                  DEF ProbeCc2, WriteRun, Ok, Abort, Entry, States
            <3>3. chip'.meas = "cc2"
                  BY <3>2, WriteRegEffect, RegType DEF RegCc, Cc, CcLines
            <3>4. pc' = "sample2"
                  BY <1>7, <2>3, <3>1
                  DEF ProbeCc2, WriteRun, Abort, Entry, States
            <3> QED BY <1>7, <3>3, <3>4 DEF CcInv
      <2>4. CASE SampleCc2
            <3>1. step' = 1 /\ pc' = "enable"
                  BY <1>7, <2>4
                  DEF SampleCc2, SinkTypeOK, RunLength, Abort, Entry, States
            <3> QED BY <1>7, <3>1 DEF CcInv
      <2>5. CASE EnableCc
            <3>1. step \in 1..3 /\ pc = "enable" /\ Len(EnableScript) = 3
                  BY <2>5, ScriptType
                  DEF EnableCc, WriteRun, SinkTypeOK, RunLength
            <3> DEFINE w == EnableScript[step]
            <3>2. w \in RegWrites /\ w.reg # "SwReset" /\ w.cc \in Cc
                  BY <3>1, RegType DEF EnableScript, Reg, RegCc, RegWrites
            <3>3. ~Abort({chip, WriteReg(chip, w)})
                  BY <1>7 DEF Abort, Entry, States
            <3>4. /\ chip' = WriteReg(chip, w) /\ useCc' = useCc
                  /\ \/ step < 3 /\ step' = step + 1 /\ pc' = pc
                     \/ step = 3 /\ step' = 1 /\ pc' = "fusb_reset"
                  BY <2>5, <3>1, <3>3 DEF EnableCc, WriteRun, Ok
            <3>5. chip'.meas = useCc
                  BY <3>1, <3>2, <3>4, WriteRegEffect
                  DEF CcInv, EnableScript, Reg, RegCc
            <3>6. step = 3 => chip'.txcc = useCc /\ chip'.autoCrc
                  <4> SUFFICES ASSUME step = 3
                               PROVE  chip'.txcc = useCc /\ chip'.autoCrc
                      OBVIOUS
                  <4>1. chip' = WriteReg(chip, RegCc("Switches1", useCc))
                        BY <3>4 DEF EnableScript
                  <4>2. chip' = [chip EXCEPT !.txcc = useCc, !.autoCrc = TRUE]
                        BY <4>1 DEF WriteReg, RegCc, Masks
                  <4> QED BY <4>2 DEF ChipStates
            <3> QED BY <1>7, <3>1, <3>4, <3>5, <3>6 DEF CcInv
      <2>6. CASE FusbReset
            <3>1. step \in 1..3 /\ pc = "fusb_reset"
                  BY <2>6 DEF FusbReset, WriteRun, SinkTypeOK, RunLength
            <3> DEFINE w == FusbResetScript[step]
            <3>2. /\ w \in RegWrites /\ w.reg # "SwReset"
                  /\ w.reg # "Switches0" /\ w.reg # "Switches1"
                  BY <3>1, RegType DEF FusbResetScript, Reg
            <3>3. ~Abort({chip, WriteReg(chip, w)})
                  BY <1>7 DEF Abort, Entry, States
            <3>4. chip' = WriteReg(chip, w) /\ useCc' = useCc
                  BY <2>6, <3>3 DEF FusbReset, WriteRun, Ok
            <3>5. /\ chip'.meas = chip.meas /\ chip'.txcc = chip.txcc
                  /\ chip'.autoCrc = chip.autoCrc
                  BY <3>2, <3>4, WriteRegEffect DEF ChipStates
            <3>6. pc' = "fusb_reset"
                  BY <1>7, <2>6, <3>1, <3>3
                  DEF FusbReset, WriteRun, Entry
            <3> QED BY <1>7, <3>1, <3>4, <3>5, <3>6 DEF CcInv
      <2> QED BY <2>1, <2>2, <2>3, <2>4, <2>5, <2>6
<1> QED BY <1>1, <1>2, <1>3, <1>5, <1>6, <1>7, OutsideSteps

LEMMA NextPlugInv ==
  TypeOK /\ PcInv /\ CcInv /\ PlugInv /\ [Next]_vars => PlugInv'
<1> SUFFICES ASSUME TypeOK, PcInv, CcInv, PlugInv, [Next]_vars PROVE PlugInv'
    OBVIOUS
<1> chip \in ChipStates /\ SinkTypeOK /\ state \in States
    BY DEF TypeOK, SinkTypeOK
\* The cable: pulling it is what `moved` records, and nothing can be plugged
\* into a port that is taken.
<1>1. CASE Environment
      <2>1. CASE moved'
            BY <2>1 DEF PlugInv
      <2>2. CASE plug' = plug /\ moved' = moved /\ UNCHANGED sinkVars
            BY <2>2 DEF PlugInv, sinkVars
      <2>3. CASE Attach
            <3>1. plug = "none" /\ moved' = moved /\ UNCHANGED sinkVars
                  BY <2>3 DEF Attach
            <3>2. useCc # "none"
                  BY DEF SinkTypeOK, CcLines
            <3> QED BY <3>1, <3>2 DEF PlugInv, sinkVars
      <2> QED BY <1>1, <2>1, <2>2, <2>3
              DEF Environment, Wire, Detach, Advertise, Chatter, Readvertise,
                  TakeRequest, RetryFail, Spurious, srcVars
<1>2. CASE Reboot
      BY <1>2 DEF Reboot, Boot, PlugInv
<1>3. CASE UNCHANGED vars
      BY <1>3 DEF vars, sinkVars, srcVars, PlugInv
<1>4. ASSUME NEW after, Abort(after), Sink, state # "Online"
      PROVE  PlugInv'
      BY <1>4 DEF Abort, PlugInv, Entry, States
<1>5. CASE Sink
      <2>1. plug' = plug
            BY <1>5 DEF Sink, SinkStep
      <2>2. CASE state = "Online"
            <3>1. useCc' = useCc /\ pc' \notin CcPcs /\ pc # "sample1"
                  BY <1>5, <2>2, OnlineReads DEF Sink, PcInv, CcPcs
            <3> QED BY <1>5, <2>1, <2>2, <3>1 DEF Sink, PlugInv, CcPcs
      <2>3. CASE state # "Online" /\ state' = "Online"
            <3>1. FusbReset
                  BY <1>5, <2>3, GoesOnline DEF Sink
            <3>2. useCc' = useCc /\ pc = "fusb_reset" /\ pc' = "wait"
                  BY <1>4, <2>3, <3>1
                  DEF FusbReset, WriteRun, Abort, Entry
            <3> QED BY <1>5, <2>1, <3>2 DEF Sink, PlugInv
      <2>4. CASE state' # "Online"
                 /\ pc' \notin {"probe2", "sample2", "enable", "fusb_reset"}
            BY <2>4 DEF PlugInv
      <2>5. CASE state # "Online" /\ state' # "Online"
                 /\ pc' \in {"probe2", "sample2", "enable", "fusb_reset"}
            <3>1. ASSUME NEW after, Abort(after) PROVE FALSE
                  BY <2>5, <3>1 DEF Abort, Entry, States
            <3>2. ASSUME NEW vbus, PollReturns(vbus) PROVE FALSE
                  BY <2>5, <3>2 DEF PollReturns, Entry
            <3>3. ~(SwReset \/ ReadId \/ FusbSetup \/ StartVbus \/ WaitForLow)
                  BY <2>5, <3>1
                  DEF SwReset, ReadId, ReadIdFails, FusbSetup, WriteRun,
                      StartVbus, PollFirst, WaitForLow, Entry
            <3>4. ~(PollStatus \/ RxStatus)
                  BY <2>5, <3>1, <3>2 DEF PollStatus, RxStatus
            <3>5. ~(RxToken \/ RxHeader \/ RxPayload \/ RxCrc \/ Send)
                  BY <2>5, <3>1
                  DEF RxToken, RxHeader, RxPayload, RxCrc, Send, NextMessage
            <3>6. ~(CcDelay \/ ProbeCc1)
                  BY <2>5, <3>1 DEF CcDelay, ProbeCc1, WriteRun
            <3>7. CASE SampleCc1
                  <4>1. pc = "sample1" /\ pc' = "probe2"
                        /\ cc1Val' = BcLvl(chip, plug)
                        BY <3>1, <3>7 DEF SampleCc1
                  <4>2. cc1Val' = 1 => plug = "cc1"
                        BY <4>1 DEF BcLvl, CcInv
                  <4> QED BY <2>1, <2>5, <4>1, <4>2 DEF PlugInv
            <3>8. CASE ProbeCc2
                  <4>1. pc = "probe2" /\ pc' \in {"probe2", "sample2"}
                        /\ cc1Val' = cc1Val
                        BY <3>1, <3>8 DEF ProbeCc2, WriteRun
                  <4> QED BY <1>5, <2>1, <2>5, <4>1 DEF Sink, PlugInv
            <3>9. CASE SampleCc2
                  <4> DEFINE cc2Val == BcLvl(chip, plug)
                  <4>1. /\ pc = "sample2" /\ pc' = "enable"
                        /\ cc1Val # cc2Val
                        /\ useCc' = UsedCc(cc1Val, cc2Val)
                        BY <2>5, <3>1, <3>9 DEF SampleCc2, Entry, States
                  <4>2. cc2Val \in 0..1 /\ cc1Val \in 0..1
                        BY DEF BcLvl, SinkTypeOK
                  <4>3. cc2Val = 1 => plug = "cc2"
                        BY <4>1 DEF BcLvl, CcInv
                  <4> HIDE DEF cc2Val
                  <4>4. \/ cc1Val = 1 /\ useCc' = "cc1"
                        \/ cc2Val = 1 /\ useCc' = "cc2"
                        BY <4>1, <4>2 DEF UsedCc
                  <4> QED BY <1>5, <2>1, <2>5, <4>1, <4>3, <4>4
                          DEF Sink, PlugInv
            <3>10. CASE EnableCc \/ FusbReset
                  <4>1. pc \in {"enable", "fusb_reset"} /\ useCc' = useCc
                        /\ pc' \in {"enable", "fusb_reset"}
                        BY <2>5, <3>1, <3>10
                        DEF EnableCc, FusbReset, WriteRun
                  <4> QED BY <1>5, <2>1, <2>5, <4>1 DEF Sink, PlugInv
            <3> QED BY <1>5, <3>3, <3>4, <3>5, <3>6, <3>7, <3>8, <3>9, <3>10
                    DEF Sink, SinkStep
      <2> QED BY <2>2, <2>3, <2>4, <2>5
<1> QED BY <1>1, <1>2, <1>3, <1>5 DEF Next

LEMMA PopAcked ==
  ASSUME NEW c \in ChipStates, NEW n \in Nat, AckedRx(c)
  PROVE  AckedRx(Pop(c, n))
  <1> DEFINE s == c.rx
             t == SubSeq(s, n + 1, Len(s))
  <1>1. s \in Seq(Byte) /\ Len(s) \in Nat
        BY LenProperties DEF ChipStates
  <1>2. Pop(c, n).rx = t
        BY DEF Pop, ChipStates
  <1>3. \A i \in n + 1..Len(s) : s[i] \in Byte
        BY <1>1, ElementOfSeq
  <1>4. /\ Len(t) = IF n + 1 <= Len(s) THEN Len(s) - (n + 1) + 1 ELSE 0
        /\ \A i \in 1..Len(s) - (n + 1) + 1 : t[i] = s[n + 1 + i - 1]
        BY <1>1, <1>3, SubSeqProperties
  <1> HIDE DEF t
  <1>5. \A j \in 1..Len(t) : t[j] = s[n + j] /\ n + j \in 1..Len(s)
        BY <1>1, <1>4
  <1> QED BY <1>2, <1>5 DEF AckedRx

LEMMA ReceiveAcked ==
  ASSUME NEW c \in ChipStates, NEW k \in Kinds, NEW p, AckedRx(c),
         Acks(c, k, p) \/ k = "goodcrc"
  PROVE  AckedRx(Receive(c, k, p))
  <1> DEFINE a == Acks(c, k, p)
             f == Frame(k, a)
  <1>1. c.rx \in Seq(Byte) /\ Len(c.rx) \in Nat
        BY LenProperties DEF ChipStates
  <1>2. a \in BOOLEAN
        BY DEF Acks, ChipStates
  <1>3. f \in Seq(Byte) /\ Len(f) \in Nat
        BY <1>2, FrameType, LenProperties
  <1>4. Receive(c, k, p).rx = c.rx \o f
        BY DEF Receive, ChipStates
  <1>5. \A j \in 1..Len(f) : f[j].k = k /\ f[j].acked = a
        <2>1. DOMAIN f = 1..FrameLen(k)
              BY DEF Frame
        <2>2. Len(f) = FrameLen(k)
              BY <1>3, <2>1, FrameLenType, LenProperties
        <2>3. \A j \in 1..FrameLen(k) : f[j] = [k |-> k, acked |-> a, i |-> j]
              BY DEF Frame
        <2> QED BY <2>2, <2>3
  <1> HIDE DEF f, a
  <1>6. /\ Len(c.rx \o f) = Len(c.rx) + Len(f)
        /\ \A j \in 1..Len(c.rx) + Len(f) :
             (c.rx \o f)[j] = IF j <= Len(c.rx) THEN c.rx[j]
                              ELSE f[j - Len(c.rx)]
        BY <1>1, <1>3, ConcatProperties
  <1>7. \A j \in 1..Len(c.rx) + Len(f) :
          j > Len(c.rx) => j - Len(c.rx) \in 1..Len(f)
        BY <1>1, <1>3
  <1>8. \A j \in 1..Len(f) : f[j].acked \/ f[j].k = "goodcrc"
        BY <1>5 DEF a
  <1> QED BY <1>1, <1>3, <1>4, <1>6, <1>7, <1>8 DEF AckedRx

\* What comes in while receiver and transmitter are on one line and AutoCRC is
\* on is acknowledged.
LEMMA OutsideAcked ==
  ASSUME TypeOK, Environment, AckedRx(chip),
         chip.meas = chip.txcc, chip.autoCrc
  PROVE  AckedRx(chip')
  <1> chip \in ChipStates
      BY DEF TypeOK, SinkTypeOK
  <1>1. ASSUME NEW c \in ChipStates, c.rx = chip.rx PROVE AckedRx(c)
        BY <1>1 DEF AckedRx
  <1>2. \A k : Receives(chip, k, plug) /\ k # "goodcrc" => Acks(chip, k, plug)
        BY DEF Receives, Acks
  <1>3. CASE Attach
        BY <1>1, <1>3, VbusChangeType
        DEF Attach, VbusChange, Latch, ChipStates, AckedRx
  <1>4. CASE Detach
        BY <1>4 DEF Detach, VbusChange, Latch, ChipStates, AckedRx
  <1>5. CASE Advertise
        <2>1. offer \in Kinds /\ offer # "goodcrc"
              BY <1>5, FusbAssumption DEF Advertise, TypeOK, Kinds
        <2> QED BY <1>2, <1>5, <2>1, ReceiveAcked DEF Advertise
  <1>6. CASE Chatter
        BY <1>2, <1>6, ReceiveAcked DEF Chatter, Kinds
  <1>7. CASE Readvertise
        BY <1>7 DEF Readvertise
  <1>8. Taken.rx = chip.rx /\ AckedRx(Taken)
        BY DEF Taken, Latch, ChipStates, AckedRx
  <1>9. CASE TakeRequest
        <2>1. Taken \in ChipStates
              BY <1>9, TakenType DEF TakeRequest
        <2>2. "goodcrc" \in Kinds
              BY DEF Kinds
        <2>3. AckedRx(Receive(Taken, "goodcrc", plug))
              BY <1>8, <2>1, <2>2, ReceiveAcked
        <2> QED BY <1>8, <1>9, <2>3 DEF TakeRequest
  <1>10. CASE RetryFail
        BY <1>8, <1>10 DEF RetryFail
  <1>11. CASE Spurious
        BY <1>11 DEF Spurious, Latch, ChipStates, AckedRx
  <1> QED BY <1>3, <1>4, <1>5, <1>6, <1>7, <1>9, <1>10, <1>11
          DEF Environment, Wire

\* The second flush of fusb_reset empties the receive FIFO.
LEMMA FlushStep ==
  ASSUME TypeOK, PcInv, SinkStep, state # "Online",
         pc' = "fusb_reset", step' > 2
  PROVE  chip'.rx = <<>>
<1> SinkTypeOK /\ chip \in ChipStates /\ state \in States
    BY DEF TypeOK, SinkTypeOK
<1>1. ASSUME NEW after, Abort(after) PROVE FALSE
      BY <1>1 DEF Abort
<1>2. EnableCc \/ FusbReset
      <2>1. ASSUME NEW vbus, PollReturns(vbus) PROVE FALSE
            BY <2>1 DEF PollReturns, Entry
      <2>2. ~(SwReset \/ ReadId \/ FusbSetup \/ StartVbus)
            BY <1>1
            DEF SwReset, ReadId, ReadIdFails, FusbSetup, WriteRun,
                StartVbus, PollFirst, Entry
      <2>3. ~(WaitForLow \/ PollStatus \/ RxStatus)
            BY <1>1, <2>1
            DEF WaitForLow, PollStatus, RxStatus
      <2>4. ~(RxToken \/ RxHeader \/ RxPayload \/ RxCrc \/ Send)
            BY <1>1
            DEF RxToken, RxHeader, RxPayload, RxCrc, Send,
                NextMessage
      <2>5. ~(CcDelay \/ ProbeCc1 \/ SampleCc1 \/ ProbeCc2
                \/ SampleCc2)
            BY <1>1
            DEF CcDelay, ProbeCc1, SampleCc1, ProbeCc2, SampleCc2,
                WriteRun, Entry, States
      <2> QED BY <2>2, <2>3, <2>4, <2>5 DEF SinkStep
<1>3. CASE EnableCc
      <2>1. step \in 1..3 /\ Len(EnableScript) = 3 /\ pc = "enable"
            BY <1>3, ScriptType
            DEF EnableCc, WriteRun, SinkTypeOK, RunLength
      <2> QED BY <1>1, <1>3, <2>1 DEF EnableCc, WriteRun
<1>4. CASE FusbReset
      <2>1. /\ step \in 1..3 /\ Len(FusbResetScript) = 3
            BY <1>4, ScriptType
            DEF FusbReset, WriteRun, SinkTypeOK, RunLength
      <2>2. step = 2 /\ chip' = WriteReg(chip, FusbResetScript[step])
            BY <1>1, <1>4, <2>1 DEF FusbReset, WriteRun, Ok
      <2>3. chip' = WriteReg(chip, Reg("RxFlush"))
            BY <2>2 DEF FusbResetScript
      <2>4. chip'.rx = <<>>
            BY <2>3, RegType, WriteRegEffect DEF Reg
      <2> QED BY <2>4
<1> QED BY <1>2, <1>3, <1>4

LEMMA NextRxInv ==
  TypeOK /\ PcInv /\ CcInv /\ RxInv /\ [Next]_vars => RxInv'
<1> SUFFICES ASSUME TypeOK, PcInv, CcInv, RxInv, [Next]_vars PROVE RxInv'
    OBVIOUS
<1> chip \in ChipStates /\ SinkTypeOK /\ state \in States
    BY DEF TypeOK, SinkTypeOK
<1>1. CASE Environment
      <2>1. UNCHANGED sinkVars
            BY <1>1
            DEF Environment, Wire, Attach, Detach, Advertise, Chatter,
                Readvertise, TakeRequest, RetryFail, Spurious
      <2> QED BY <1>1, <2>1, OutsideAcked DEF sinkVars, CcInv, RxInv
<1>2. CASE Reboot
      BY <1>2 DEF Reboot, Boot, RxInv
<1>3. CASE UNCHANGED vars
      BY <1>3 DEF vars, sinkVars, RxInv, AckedRx
<1>4. CASE Sink
      <2>1. CASE state = "Online"
            <3>1. pc' # "fusb_reset"
                  BY <1>4, <2>1, OnlineReads DEF Sink, CcPcs
            <3>2. AckedRx(chip')
                  <4>1. CASE chip'.rx = chip.rx
                        BY <2>1, <4>1 DEF RxInv, AckedRx
                  <4>2. ASSUME NEW n \in Nat, chip'.rx = Pop(chip, n).rx
                        PROVE  AckedRx(chip')
                        BY <2>1, <4>2, PopAcked DEF RxInv, AckedRx
                  <4> QED BY <1>4, <2>1, <4>1, <4>2, OnlineReads DEF Sink
            <3> QED BY <3>2 DEF RxInv
      <2>2. CASE state # "Online" /\ state' = "Online"
            <3>1. /\ pc = "fusb_reset" /\ step = 3
                  /\ chip' = WriteReg(chip, Reg("PdReset"))
                  BY <1>4, <2>2, GoesOnline DEF Sink, FusbReset, WriteRun
            <3>2. chip'.rx = chip.rx
                  BY <3>1, RegType, WriteRegEffect DEF Reg
            <3> QED BY <3>1, <3>2 DEF RxInv, AckedRx
      <2>3. CASE ~(pc' = "fusb_reset" /\ step' > 2) /\ state' # "Online"
            BY <2>3 DEF RxInv
      <2>4. CASE pc' = "fusb_reset" /\ step' > 2 /\ state # "Online"
            <3>1. chip'.rx = <<>>
                  BY <1>4, <2>4, FlushStep DEF Sink
            <3> QED BY <3>1 DEF RxInv, AckedRx
      <2> QED BY <2>1, <2>2, <2>3, <2>4
<1> QED BY <1>1, <1>2, <1>3, <1>4 DEF Next

(***************************************************************************)
(* The invariant, and what it says of an Online sink.                      *)
(***************************************************************************)

LEMMA InitIInv == Init => IInv
  BY InitTypeOK
  DEF Init, SinkInit, IInv, PcInv, PowerInv, CcInv, PlugInv, RxInv, ResetPcs,
      CcPcs

LEMMA NextIInv == IInv /\ [Next]_vars => IInv'
  BY NextTypeOK, NextPcInv, NextPowerInv, NextCcInv, NextPlugInv, NextRxInv
  DEF IInv

LEMMA IInvHolds == Spec => []IInv
  BY InitIInv, NextIInv, PTL DEF Spec

\* Whatever transfers fail in fusb_setup, detect_cc_line or fusb_reset and
\* whenever the microcontroller restarts, an Online sink has powered and
\* unmasked its chip and listens and acknowledges on one CC line.
THEOREM PdOnlineConfigured == Spec => []OnlineConfigured
<1>1. IInv => OnlineConfigured
      BY DEF IInv, TypeOK, SinkTypeOK, PowerInv, CcInv, OnlineConfigured
<1> QED BY <1>1, IInvHolds, PTL

\* Unless VBUS went away after detect_cc_line took its first sample, an Online
\* sink listens on the CC line of the plug.
THEOREM PdRightCc == Spec => []RightCc
<1>1. IInv => RightCc
      BY DEF IInv, CcInv, PlugInv, RightCc
<1> QED BY <1>1, IInvHolds, PTL

\* fusb_reset leaves nothing in the receive FIFO that the chip did not
\* acknowledge, and nothing such comes in as long as the sink is Online.
THEOREM PdOnlyAckedOnline == Spec => []OnlyAckedOnline
<1>1. IInv => OnlyAckedOnline
      BY DEF IInv, RxInv, AckedRx, OnlyAckedOnline
<1> QED BY <1>1, IInvHolds, PTL
=============================================================================
