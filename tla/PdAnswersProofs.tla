-------------------------- MODULE PdAnswersProofs ---------------------------
(***************************************************************************)
(* The messages of the PD system: what reading and sending do to the       *)
(* FIFOs, and that the sink implements PdReply.                            *)
(***************************************************************************)
EXTENDS PdAnswers, PdSystemProofs, DataInduction

(***************************************************************************)
(* The receive FIFO as a row of frames.                                    *)
(***************************************************************************)

\* Every byte but the last of a frame is followed by the next byte of that
\* frame, and a frame by the first byte of another, or by nothing.
Linked(s) ==
  \A j \in 1..Len(s) :
    /\ s[j].i \in 1..FrameLen(s[j].k)
    /\ s[j].i < FrameLen(s[j].k) =>
         j < Len(s) /\ s[j + 1].k = s[j].k /\ s[j + 1].i = s[j].i + 1
    /\ s[j].i = FrameLen(s[j].k) /\ j < Len(s) => s[j + 1].i = 1

\* The first byte of the FIFO is the n-th of its frame.
HeadAt(s, n) == s # <<>> /\ s[1].i = n

AtStart(s) == s = <<>> \/ s[1].i = 1

LEMMA SubSeqFrom ==
  ASSUME NEW s \in Seq(Byte), NEW n \in Nat, n <= Len(s)
  PROVE  LET t == SubSeq(s, n + 1, Len(s))
         IN  /\ t \in Seq(Byte) /\ Len(t) = Len(s) - n
             /\ \A j \in 1..Len(t) : t[j] = s[n + j]
  <1>1. Len(s) \in Nat /\ \A i \in n + 1..Len(s) : s[i] \in Byte
        BY LenProperties, ElementOfSeq
  <1> QED BY <1>1, DropFirst, SubSeqProperties

LEMMA LinkedDrop ==
  ASSUME NEW s \in Seq(Byte), NEW n \in Nat, n <= Len(s), Linked(s)
  PROVE  Linked(SubSeq(s, n + 1, Len(s)))
  <1> DEFINE t == SubSeq(s, n + 1, Len(s))
  <1>1. /\ Len(s) \in Nat /\ Len(t) = Len(s) - n
        /\ \A j \in 1..Len(t) : t[j] = s[n + j]
        BY SubSeqFrom, LenProperties
  <1> HIDE DEF t
  <1> SUFFICES ASSUME NEW j \in 1..Len(t)
               PROVE  /\ t[j].i \in 1..FrameLen(t[j].k)
                      /\ t[j].i < FrameLen(t[j].k) =>
                           j < Len(t) /\ t[j + 1].k = t[j].k
                             /\ t[j + 1].i = t[j].i + 1
                      /\ t[j].i = FrameLen(t[j].k) /\ j < Len(t) =>
                           t[j + 1].i = 1
      BY DEF Linked, t
  <1>2. n + j \in 1..Len(s) /\ t[j] = s[n + j]
        BY <1>1
  <1>3. j < Len(t) <=> n + j < Len(s)
        BY <1>1
  <1>4. j < Len(t) => t[j + 1] = s[n + j + 1]
        <2>1. j < Len(t) => j + 1 \in 1..Len(t) /\ n + (j + 1) = n + j + 1
              BY <1>1
        <2> QED BY <1>1, <2>1
  <1> QED BY <1>2, <1>3, <1>4 DEF Linked

\* In a frame of kind k the byte m places behind byte i is byte i + m.
LEMMA LinkedStep ==
  ASSUME NEW s \in Seq(Byte), Linked(s), NEW j \in 1..Len(s),
         s[j].i < FrameLen(s[j].k)
  PROVE  /\ j + 1 \in 1..Len(s)
         /\ s[j + 1].k = s[j].k /\ s[j + 1].i = s[j].i + 1
  <1>1. Len(s) \in Nat
        BY LenProperties
  <1> QED BY <1>1 DEF Linked

\* What is left of the FIFO when n bytes of a frame have been taken off it.
LEMMA LinkedPop ==
  ASSUME NEW s \in Seq(Byte), Linked(s), NEW i \in Nat, HeadAt(s, i),
         NEW n \in {1, 2, 4}, i + n <= FrameLen(s[1].k) + 1
  PROVE  LET t == SubSeq(s, n + 1, Len(s))
         IN  /\ Linked(t)
             /\ i + n <= FrameLen(s[1].k) => HeadAt(t, i + n)
                                             /\ t[1].k = s[1].k
             /\ i + n = FrameLen(s[1].k) + 1 => AtStart(t)
  <1> DEFINE t == SubSeq(s, n + 1, Len(s))
             k == s[1].k
             F == FrameLen(k)
  <1>1. Len(s) \in Nat /\ 1 \in 1..Len(s) /\ s[1].i = i
        BY LenProperties, EmptySeq DEF HeadAt
  <1>2. F \in Nat
        BY FrameLenType
  <1> HIDE DEF k, F
  <1>3. i + 1 <= F => 2 \in 1..Len(s) /\ s[2].k = k /\ s[2].i = i + 1
        BY <1>1, <1>2, LinkedStep DEF k, F
  <1>4. i + 2 <= F => 3 \in 1..Len(s) /\ s[3].k = k /\ s[3].i = i + 2
        BY <1>2, <1>3, LinkedStep DEF F
  <1>5. i + 3 <= F => 4 \in 1..Len(s) /\ s[4].k = k /\ s[4].i = i + 3
        BY <1>2, <1>4, LinkedStep DEF F
  <1>6. i + 4 <= F => 5 \in 1..Len(s) /\ s[5].k = k /\ s[5].i = i + 4
        BY <1>2, <1>5, LinkedStep DEF F
  <1>7. i + n <= F + 1
        BY DEF k, F
  <1>8. n <= Len(s) /\ s[n].k = k /\ s[n].i = i + n - 1
        BY <1>1, <1>2, <1>3, <1>4, <1>5, <1>7 DEF k
  <1>9. i + n <= F => n + 1 \in 1..Len(s) /\ s[n + 1].k = k
                      /\ s[n + 1].i = i + n
        BY <1>2, <1>3, <1>4, <1>6
  <1>10. /\ t \in Seq(Byte) /\ Len(t) = Len(s) - n
         /\ \A j \in 1..Len(t) : t[j] = s[n + j]
         BY <1>8, SubSeqFrom
  <1>11. Linked(t)
         BY <1>8, LinkedDrop
  <1> HIDE DEF t
  <1>12. i + n <= F => HeadAt(t, i + n) /\ t[1].k = k
         <2> SUFFICES ASSUME i + n <= F PROVE HeadAt(t, i + n) /\ t[1].k = k
             OBVIOUS
         <2>1. 1 \in 1..Len(t) /\ t[1] = s[n + 1]
               BY <1>1, <1>9, <1>10
         <2>2. t # <<>>
               BY <2>1, <1>10, EmptySeq
         <2> QED BY <1>9, <2>1, <2>2 DEF HeadAt
  <1>13. i + n = F + 1 => AtStart(t)
         <2> SUFFICES ASSUME i + n = F + 1, t # <<>> PROVE t[1].i = 1
             BY DEF AtStart
         <2>1. Len(t) # 0
               BY <1>10, EmptySeq
         <2>2. n \in 1..Len(s) /\ n < Len(s) /\ 1 \in 1..Len(t)
               BY <1>1, <1>8, <1>10, <2>1
         <2>4. t[1] = s[n + 1]
               BY <1>10, <2>2
         <2>3. s[n].i = FrameLen(s[n].k)
               BY <1>1, <1>2, <1>8 DEF F
         <2> QED BY <2>2, <2>3, <2>4 DEF Linked
  <1> QED BY <1>11, <1>12, <1>13 DEF t, k, F

\* A frame that comes in goes behind the last one.
LEMMA LinkedAppend ==
  ASSUME NEW s \in Seq(Byte), Linked(s), NEW k \in Kinds, NEW a \in BOOLEAN
  PROVE  LET t == s \o Frame(k, a)
         IN  /\ Linked(t)
             /\ t # <<>> /\ (s # <<>> => t[1] = s[1])
             /\ s = <<>> => t[1].i = 1
  <1> DEFINE f == Frame(k, a)
             t == s \o f
             n == Len(s)
             F == FrameLen(k)
  <1>1. F \in Nat \ {0} /\ n \in Nat
        BY FrameLenType, LenProperties
  <1>2. f \in Seq(Byte) /\ Len(f) = F
        <2>1. f \in Seq(Byte) /\ DOMAIN f = 1..F
              BY FrameType DEF Frame
        <2> QED BY <1>1, <2>1, LenProperties
  <1>3. \A j \in 1..F : f[j].k = k /\ f[j].i = j
        BY DEF Frame
  <1>4. /\ t \in Seq(Byte) /\ Len(t) = n + F
        /\ \A j \in 1..(n + F) :
             t[j] = IF j <= n THEN s[j] ELSE f[j - n]
        BY <1>2, ConcatProperties
  <1> HIDE DEF f, t, n, F
  <1>5. \A j \in 1..n : j \in 1..(n + F) /\ t[j] = s[j]
        BY <1>1, <1>4
  <1>6. \A j \in 1..F : n + j \in 1..(n + F) /\ t[n + j].k = k
                        /\ t[n + j].i = j
        <2> SUFFICES ASSUME NEW j \in 1..F
                     PROVE  n + j \in 1..(n + F) /\ t[n + j].k = k
                            /\ t[n + j].i = j
            OBVIOUS
        <2>1. n + j \in 1..(n + F) /\ ~(n + j <= n) /\ n + j - n = j
              BY <1>1
        <2>2. t[n + j] = IF n + j <= n THEN s[n + j] ELSE f[(n + j) - n]
              BY <1>4, <2>1
        <2>3. t[n + j] = f[j]
              BY <1>1, <2>1, <2>2
        <2> QED BY <1>3, <2>1, <2>3
  <1>7. Linked(t)
        <2> SUFFICES ASSUME NEW j \in 1..(n + F)
                     PROVE  /\ t[j].i \in 1..FrameLen(t[j].k)
                            /\ t[j].i < FrameLen(t[j].k) =>
                                 j < n + F /\ t[j + 1].k = t[j].k
                                   /\ t[j + 1].i = t[j].i + 1
                            /\ t[j].i = FrameLen(t[j].k) /\ j < n + F =>
                                 t[j + 1].i = 1
            BY <1>4 DEF Linked
        <2>1. CASE j < n
              <3>1. /\ j \in 1..n /\ j + 1 \in 1..n /\ j < n + F
                    /\ t[j] = s[j] /\ t[j + 1] = s[j + 1]
                    BY <1>1, <1>5, <2>1
              <3> QED BY <2>1, <3>1 DEF Linked, n
        <2>2. CASE j = n
              <3>1. j \in 1..n /\ t[j] = s[j] /\ t[j + 1].i = 1
                    BY <1>1, <1>5, <1>6, <2>2
              <3>2. /\ s[j].i \in 1..FrameLen(s[j].k)
                    /\ ~(s[j].i < FrameLen(s[j].k))
                    BY <1>1, <2>2, <3>1 DEF Linked, n
              <3> QED BY <3>1, <3>2
        <2>3. CASE j > n
              <3> DEFINE m == j - n
              <3>1. m \in 1..F /\ n + m = j
                    BY <1>1, <2>3
              <3>2. t[j].k = k /\ t[j].i = m /\ FrameLen(t[j].k) = F
                    BY <1>6, <3>1 DEF F
              <3>3. m < F => m + 1 \in 1..F /\ n + (m + 1) = j + 1
                    BY <1>1, <3>1
              <3>4. m < F => t[j + 1].k = k /\ t[j + 1].i = m + 1
                    BY <1>6, <3>3
              <3>5. m < F <=> j < n + F
                    BY <1>1, <3>1
              <3> HIDE DEF m
              <3> QED BY <3>1, <3>2, <3>4, <3>5
        <2> QED BY <1>1, <2>1, <2>2, <2>3
  <1>8. t # <<>>
        BY <1>1, <1>4, EmptySeq
  <1>9. s # <<>> => t[1] = s[1]
        <2>1. s # <<>> => 1 \in 1..n
              BY <1>1, EmptySeq DEF n
        <2> QED BY <1>5, <2>1
  <1>10. s = <<>> => t[1].i = 1
         <2>1. s = <<>> => n = 0
               BY EmptySeq DEF n
         <2> QED BY <1>1, <1>6, <2>1
  <1> QED BY <1>7, <1>8, <1>9, <1>10 DEF t, f

LEMMA PopFrames ==
  ASSUME NEW c \in ChipStates, Linked(c.rx), NEW i \in Nat, HeadAt(c.rx, i),
         NEW n \in {1, 2, 4}, NEW j \in Nat, j = i + n,
         j <= FrameLen(c.rx[1].k) + 1
  PROVE  /\ Linked(Pop(c, n).rx)
         /\ j <= FrameLen(c.rx[1].k) => /\ HeadAt(Pop(c, n).rx, j)
                                        /\ Pop(c, n).rx[1].k = c.rx[1].k
         /\ j = FrameLen(c.rx[1].k) + 1 => AtStart(Pop(c, n).rx)
  <1>1. c.rx \in Seq(Byte)
        BY DEF ChipStates
  <1> DEFINE t == SubSeq(c.rx, n + 1, Len(c.rx))
  <1>2. Pop(c, n).rx = t
        BY PopRx
  <1>3. /\ Linked(t)
        /\ i + n <= FrameLen(c.rx[1].k) => HeadAt(t, i + n)
                                           /\ t[1].k = c.rx[1].k
        /\ i + n = FrameLen(c.rx[1].k) + 1 => AtStart(t)
        BY <1>1, LinkedPop
  <1> HIDE DEF t
  <1> QED BY <1>2, <1>3

(***************************************************************************)
(* What a step does to the FIFOs, the packets on the wire and the flags.   *)
(***************************************************************************)

\* The awaits of handle_new_data and of send.
MessagePcs == {"rx_status", "rx_token", "rx_header", "rx_payload", "rx_crc",
               "tx"}

LEMMA SinkCases ==
  ASSUME Sink
  PROVE  \/ SwReset \/ PollStatus \/ RxStatus \/ RxToken \/ RxHeader
         \/ RxPayload \/ RxCrc \/ Send
         \/ SinkStep /\ pc \notin MessagePcs \cup {"sw_res", "poll"}
  BY DEF Sink, SinkStep, MessagePcs, ReadId, FusbSetup, WriteRun, StartVbus,
         WaitForLow, CcDelay, ProbeCc1, SampleCc1, ProbeCc2, SampleCc2,
         EnableCc, FusbReset

\* The software reset empties both FIFOs.
LEMMA ResetStep ==
  ASSUME TypeOK, PcInv, SwReset
  PROVE  /\ pc = "sw_res" /\ errs' \in {errs, errs + 1}
         /\ chip'.out = chip.out
         /\ pc' # "sw_res" => /\ chip'.rx = <<>> /\ chip'.tx = <<>>
                              /\ errs' = errs /\ pc' = "read_id"
  <1>1. chip \in ChipStates /\ pc = "sw_res" /\ state = "Reset"
        BY DEF SwReset, PcInv, ResetPcs, TypeOK, SinkTypeOK
  <1> DEFINE after == WriteReg(chip, Reg("SwReset"))
  <1>2. after.rx = <<>> /\ after.tx = <<>> /\ after.out = chip.out
        BY <1>1, WriteRegFifos, RegType DEF Reg
  <1> HIDE DEF after
  <1>3. \/ chip' = after /\ errs' = errs /\ pc' = "read_id"
        \/ chip' \in {chip, after} /\ errs' = errs + 1 /\ pc' = "sw_res"
        BY <1>1 DEF SwReset, Ok, Abort, Entry, after
  <1> QED BY <1>1, <1>2, <1>3

\* The run of register writes each await belongs to has no software reset in
\* it but the first.
LEMMA RunWrites ==
  ASSUME SinkTypeOK,
         FusbSetup \/ StartVbus \/ ProbeCc1 \/ ProbeCc2 \/ EnableCc \/ FusbReset
  PROVE  \E w \in RegWrites : /\ w.reg # "SwReset"
                              /\ chip' \in {chip, WriteReg(chip, w)}
  <1> USE DEF Abort, Ok
  <1>1. CASE FusbSetup
        <2>1. step \in 1..8
              BY <1>1 DEF FusbSetup, WriteRun, SinkTypeOK, RunLength
        <2>2. /\ SetupScript[step] \in RegWrites
              /\ SetupScript[step].reg # "SwReset"
              BY <2>1, RegType DEF SetupScript, Reg
        <2> QED BY <1>1, <2>2 DEF FusbSetup, WriteRun
  <1>2. CASE StartVbus
        <2>1. step \in 1..2
              BY <1>2 DEF StartVbus, SinkTypeOK, RunLength
        <2>2. VbusScript[step] \in RegWrites /\ VbusScript[step].reg # "SwReset"
              BY <2>1, RegType DEF VbusScript, Reg, RegCc, Cc
        <2> QED BY <1>2, <2>2 DEF StartVbus
  <1>3. CASE ProbeCc1
        <2>1. step \in 1..2
              BY <1>3 DEF ProbeCc1, WriteRun, SinkTypeOK, RunLength
        <2> DEFINE script == <<Reg("Measure"), RegCc("Switches0", "cc1")>>
        <2>2. script[step] \in RegWrites /\ script[step].reg # "SwReset"
              BY <2>1, RegType DEF Reg, RegCc, Cc, CcLines
        <2> QED BY <1>3, <2>2 DEF ProbeCc1, WriteRun
  <1>4. CASE ProbeCc2
        <2>1. step = 1
              BY <1>4 DEF ProbeCc2, WriteRun, SinkTypeOK, RunLength
        <2> DEFINE script == <<RegCc("Switches0", "cc2")>>
        <2>2. script[step] \in RegWrites /\ script[step].reg # "SwReset"
              BY <2>1, RegType DEF Reg, RegCc, Cc, CcLines
        <2> QED BY <1>4, <2>2 DEF ProbeCc2, WriteRun
  <1>5. CASE EnableCc
        <2>1. step \in 1..3 /\ useCc \in Cc
              BY <1>5 DEF EnableCc, WriteRun, SinkTypeOK, RunLength, Cc
        <2>2. /\ EnableScript[step] \in RegWrites
              /\ EnableScript[step].reg # "SwReset"
              BY <2>1, RegType DEF EnableScript, Reg, RegCc
        <2> QED BY <1>5, <2>2 DEF EnableCc, WriteRun
  <1>6. CASE FusbReset
        <2>1. step \in 1..3
              BY <1>6 DEF FusbReset, WriteRun, SinkTypeOK, RunLength
        <2>2. /\ FusbResetScript[step] \in RegWrites
              /\ FusbResetScript[step].reg # "SwReset"
              BY <2>1, RegType DEF FusbResetScript, Reg
        <2> QED BY <1>6, <2>2 DEF FusbReset, WriteRun
  <1> QED BY <1>1, <1>2, <1>3, <1>4, <1>5, <1>6

\* The steps of the sink outside handle_new_data, send and the first write of
\* fusb_setup, whether they succeed or fail.
LEMMA PlainStep ==
  ASSUME TypeOK, SinkStep,
         pc \notin MessagePcs \cup {"sw_res", "poll"}
  PROVE  /\ chip'.rx \in {chip.rx, <<>>} /\ chip'.tx \in {chip.tx, <<>>}
         /\ chip'.out = chip.out /\ chip'.latch = chip.latch
         /\ pc' \notin MessagePcs
         /\ UNCHANGED <<cur, req>>
         /\ errs' \in {errs, errs + 1}
  <1> SinkTypeOK /\ chip \in ChipStates /\ state \in States
      BY DEF TypeOK, SinkTypeOK
  <1> USE DEF Abort, Ok, MessagePcs, Entry, States
  <1>1. \/ ReadId \/ FusbSetup \/ StartVbus \/ WaitForLow
        \/ CcDelay \/ ProbeCc1 \/ SampleCc1 \/ ProbeCc2 \/ SampleCc2
        \/ EnableCc \/ FusbReset
        BY DEF SinkStep, SwReset, PollStatus, RxStatus, RxToken, RxHeader,
               RxPayload, RxCrc, Send
  <1>2. CASE ReadId
        BY <1>2 DEF ReadId, ReadIdFails
  <1>3. CASE WaitForLow \/ CcDelay \/ SampleCc1 \/ SampleCc2
        BY <1>3 DEF WaitForLow, CcDelay, SampleCc1, SampleCc2
  <1>4. CASE FusbSetup \/ StartVbus \/ ProbeCc1 \/ ProbeCc2 \/ EnableCc
             \/ FusbReset
        <2>1. PICK w \in RegWrites : /\ w.reg # "SwReset"
                                     /\ chip' \in {chip, WriteReg(chip, w)}
              BY <1>4, RunWrites
        <2>2. /\ chip'.rx \in {chip.rx, <<>>} /\ chip'.tx \in {chip.tx, <<>>}
              /\ chip'.out = chip.out /\ chip'.latch = chip.latch
              BY <2>1, WriteRegFifos
        <2>3. pc' \notin MessagePcs /\ UNCHANGED <<cur, req>>
              /\ errs' \in {errs, errs + 1}
              BY <1>4
              DEF FusbSetup, StartVbus, ProbeCc1, ProbeCc2, EnableCc,
                  FusbReset, WriteRun, PollFirst
        <2> QED BY <2>2, <2>3
  <1> QED BY <1>1, <1>2, <1>3, <1>4

\* The cable and the source.
LEMMA EnvironmentEffect ==
  ASSUME TypeOK, Environment
  PROVE  /\ UNCHANGED sinkVars /\ errs' = errs
         /\ chip'.tx = chip.tx /\ chip.latch \subseteq chip'.latch
         /\ \/ chip'.out \in {chip.out, <<>>}
            \/ chip.out # <<>> /\ chip'.out = Tail(chip.out)
         /\ \/ chip'.rx = chip.rx
            \/ \E k \in Kinds, a \in BOOLEAN :
                 /\ chip'.rx = chip.rx \o Frame(k, a)
                 /\ a => "gcrcsent" \in chip'.latch
  <1> chip \in ChipStates
      BY DEF TypeOK, SinkTypeOK
  <1>1. ASSUME NEW c \in ChipStates, NEW k \in Kinds, chip' = Receive(c, k, plug)
        PROVE  /\ chip'.tx = c.tx /\ c.latch \subseteq chip'.latch
               /\ chip'.out = c.out
               /\ \E a \in BOOLEAN : /\ chip'.rx = c.rx \o Frame(k, a)
                                     /\ a => "gcrcsent" \in chip'.latch
        <2>1. Acks(c, k, plug) \in BOOLEAN
              BY DEF Acks, ChipStates
        <2>2. /\ chip'.rx = c.rx \o Frame(k, Acks(c, k, plug))
              /\ Acks(c, k, plug) => "gcrcsent" \in chip'.latch
              BY <1>1 DEF Receive, ChipStates
        <2> QED BY <1>1, <2>1, <2>2 DEF Receive, ChipStates
  <1>2. CASE Attach
        BY <1>2 DEF Attach, VbusChange, Latch, ChipStates
  <1>3. CASE Detach
        BY <1>3 DEF Detach, VbusChange, Latch, ChipStates
  <1>4. CASE Advertise
        <2>1. offer \in Kinds
              BY <1>4, FusbAssumption DEF Advertise, TypeOK, Kinds
        <2> QED BY <1>1, <1>4, <2>1 DEF Advertise
  <1>5. CASE Chatter
        <2>1. {"vdm", "ctrl"} \subseteq Kinds
              BY DEF Kinds
        <2> QED BY <1>1, <1>5, <2>1 DEF Chatter
  <1>6. CASE Readvertise
        BY <1>6 DEF Readvertise
  <1>7. /\ Taken.rx = chip.rx /\ Taken.tx = chip.tx
        /\ chip.latch \subseteq Taken.latch /\ Taken.out = Tail(chip.out)
        BY DEF Taken, Latch, ChipStates
  <1>8. CASE TakeRequest
        <2>1. Taken \in ChipStates /\ "goodcrc" \in Kinds
              BY <1>8, TakenType DEF TakeRequest, Kinds
        <2> QED BY <1>1, <1>7, <1>8, <2>1 DEF TakeRequest
  <1>9. CASE RetryFail
        BY <1>7, <1>9 DEF RetryFail
  <1>10. CASE Spurious
         BY <1>10 DEF Spurious, Latch, ChipStates
  <1> QED BY <1>2, <1>3, <1>4, <1>5, <1>6, <1>8, <1>9, <1>10
          DEF Environment, Wire

LEMMA NoError ==
  ASSUME TypeOK, errs' \in {errs, errs + 1}, errs' = 0
  PROVE  errs = 0
  <1>1. errs \in Nat
        BY DEF TypeOK, SinkTypeOK
  <1>2. errs + 1 # 0
        BY <1>1
  <1> QED BY <1>2, Zenon

\* Reading the receive FIFO, whether it succeeds or fails.
LEMMA ReadStep ==
  ASSUME TypeOK, PollStatus \/ RxStatus \/ RxToken \/ RxHeader \/ RxPayload
                   \/ RxCrc
  PROVE  /\ chip'.tx = chip.tx /\ chip'.out = chip.out
         /\ step' = 1 /\ pc # "sw_res" /\ pc # "tx"
         /\ errs' \in {errs, errs + 1}
  <1> chip \in ChipStates /\ SinkTypeOK
      BY DEF TypeOK, SinkTypeOK
  <1> USE DEF Abort, Ok
  <1>1. pc \in {"poll", "rx_status", "rx_token", "rx_header", "rx_payload",
                "rx_crc"}
        BY DEF PollStatus, RxStatus, RxToken, RxHeader, RxPayload, RxCrc
  <1>2. step = 1
        BY <1>1 DEF SinkTypeOK, RunLength
  <1>3. CASE PollStatus
        BY <1>1, <1>2, <1>3 DEF PollStatus, ClearFlags, ChipStates
  <1>4. CASE RxStatus
        BY <1>1, <1>2, <1>4 DEF RxStatus
  <1>5. CASE RxToken \/ RxHeader \/ RxPayload \/ RxCrc
        <2>1. \E n : chip' = Pop(chip, n)
              BY <1>5
              DEF RxToken, RxHeader, RxPayload, RxCrc, PopUpTo, DropCrc
        <2>2. chip'.tx = chip.tx /\ chip'.out = chip.out
              BY <2>1 DEF Pop, ChipStates
        <2>3. step' = 1 /\ errs' \in {errs, errs + 1}
              BY <1>2, <1>5 DEF RxToken, RxHeader, RxPayload, RxCrc
        <2> QED BY <1>1, <2>2, <2>3
  <1> QED BY <1>3, <1>4, <1>5

\* One of the three writes of send.
LEMMA SendStep ==
  ASSUME TypeOK, Send
  PROVE  /\ step \in 1..3 /\ pc = "tx"
         /\ \/ /\ errs' = errs + 1 /\ pc' # "tx"
               /\ chip' \in {chip, WriteFifo(chip, SendParts[step], req)}
            \/ /\ step < 3 /\ step' = step + 1 /\ pc' = "tx"
               /\ chip' = WriteFifo(chip, SendParts[step], req) /\ errs' = errs
            \/ /\ step = 3 /\ step' = 1 /\ pc' = "rx_status"
               /\ chip' = WriteFifo(chip, SendParts[step], req) /\ errs' = errs
  <1>1. step \in 1..3 /\ pc = "tx" /\ state \in States /\ Len(SendParts) = 3
        BY DEF Send, TypeOK, SinkTypeOK, RunLength, SendParts
  <1> DEFINE after == WriteFifo(chip, SendParts[step], req)
  <1> HIDE DEF after
  <1>2. \/ Abort({chip, after})
        \/ /\ Ok(after)
           /\ IF step < Len(SendParts)
              THEN step' = step + 1 /\ UNCHANGED <<pc, state, ret>>
              ELSE step' = 1 /\ NextMessage
        BY DEF Send, after
  <1> QED BY <1>1, <1>2 DEF Abort, Ok, NextMessage, Entry, States, after

LEMMA BacklogArith ==
  ASSUME NEW m \in Nat, NEW e \in Nat, NEW s \in Nat \ {0}, m <= 2 * e
  PROVE  m <= 2 * e + (s - 1) /\ m <= 2 * e + 0
  OBVIOUS

LEMMA BacklogHolds ==
  ASSUME NEW e \in Nat, e = errs', step' \in Nat \ {0},
         Len(chip'.tx) \in Nat, Len(chip'.tx) <= 2 * e
  PROVE  TxBacklog'
  <1>1. /\ Len(chip'.tx) <= 2 * errs' + (step' - 1)
        /\ Len(chip'.tx) <= 2 * errs' + 0
        BY BacklogArith, Zenon
  <1> QED BY <1>1, Zenon DEF TxBacklog

LEMMA NextTxBacklog ==
  TypeOK /\ PcInv /\ TxBacklog /\ [Next]_vars => TxBacklog'
<1> SUFFICES ASSUME TypeOK, PcInv, TxBacklog, [Next]_vars,
                    pc' # "sw_res"
             PROVE  TxBacklog'
    BY DEF TxBacklog
<1> DEFINE n == Len(chip.tx)
<1>0. /\ SinkTypeOK /\ chip \in ChipStates /\ state \in States
      /\ req \in Requests /\ errs \in Nat /\ step \in Nat \ {0}
    BY RunLengthPos, SinkAssumption DEF TypeOK, SinkTypeOK
<1>1. chip.tx \in Seq(TxChunks) /\ n \in Nat /\ Len(<<>>) = 0
      BY <1>0, LenProperties, EmptySeq DEF ChipStates
<1>a. step' \in Nat \ {0}
      <2>1. TypeOK'
            BY NextTypeOK
      <2> QED BY <2>1, RunLengthPos DEF TypeOK, SinkTypeOK
<1>2. ASSUME NEW e \in Nat, e = errs', NEW s, s = chip'.tx,
             Len(s) \in Nat, Len(s) <= 2 * e
      PROVE  TxBacklog'
      <2>1. Len(chip'.tx) \in Nat /\ Len(chip'.tx) <= 2 * e
            BY <1>2, Zenon
      <2> QED BY <1>2, <1>a, <2>1, BacklogHolds, Zenon
<1> HIDE DEF n
<1>3. CASE Environment \/ UNCHANGED vars
      <2>1. UNCHANGED sinkVars /\ errs' = errs /\ chip'.tx = chip.tx
            BY <1>3, EnvironmentEffect DEF vars
      <2>2. pc' = pc /\ step' = step
            BY <2>1 DEF sinkVars
      <2> QED BY <2>1, <2>2, Zenon DEF TxBacklog
<1>4. CASE Reboot
      BY <1>4 DEF Reboot, Boot
<1>5. CASE SwReset
      <2>1. chip'.tx = <<>> /\ errs' = errs
            BY <1>5, ResetStep
      <2>2. Len(<<>>) \in Nat /\ Len(<<>>) <= 2 * errs
            BY <1>0, <1>1
      <2> QED BY <1>0, <1>2, <2>1, <2>2, Zenon
<1>6. CASE \/ PollStatus \/ RxStatus \/ RxToken \/ RxHeader
           \/ RxPayload \/ RxCrc
           \/ SinkStep /\ pc \notin MessagePcs \cup {"sw_res", "poll"}
      <2>1. n <= 2 * errs + 0
            <3>1. pc # "sw_res" /\ pc # "tx"
                  BY <1>6, ReadStep DEF MessagePcs
            <3> QED BY <3>1, Zenon DEF TxBacklog, n
      <2>2. chip'.tx \in {chip.tx, <<>>} /\ errs' \in {errs, errs + 1}
            BY <1>6, ReadStep, PlainStep
      <2>3. \A e \in {errs, errs + 1} :
              /\ e \in Nat /\ n <= 2 * e /\ Len(<<>>) <= 2 * e
            BY <1>0, <1>1, <2>1
      <2> QED BY <1>1, <1>2, <2>2, <2>3, Zenon DEF n
<1>7. CASE Send
      <2> DEFINE part  == SendParts[step]
                 after == WriteFifo(chip, part, req)
                 k     == Len(after.tx)
      <2>2. step \in 1..3 /\ pc = "tx"
            BY <1>7, SendStep
      <2>3. n <= 2 * errs + (step - 1)
            BY <2>2, Zenon DEF TxBacklog, n
      <2>4. /\ step < 3 => part \in {"sop", "data", "eop"} /\ part # "eop"
            /\ step = 3 => part = "eop"
            BY <2>2 DEF SendParts
      <2>5. k \in Nat /\ (step < 3 => k = n + 1) /\ (step = 3 => k = 0)
            <3> DEFINE chunk == [part |-> part, req |-> req]
            <3>1. step < 3 => chunk \in TxChunks
                  BY <1>0, <2>4 DEF TxChunks
            <3>2. ASSUME NEW p \in {"sop", "data", "eop"}, p # "eop"
                  PROVE  WriteFifo(chip, p, req).tx
                           = Append(chip.tx, [part |-> p, req |-> req])
                  BY <1>0, <3>2, WriteFifoEffect
            <3>3. step = 3 => after.tx = <<>>
                  <4>1. WriteFifo(chip, "eop", req).tx = <<>>
                        BY <1>0, WriteFifoEffect
                  <4> QED BY <2>4, <4>1
            <3> HIDE DEF chunk, after, part
            <3>4. step < 3 => after.tx = Append(chip.tx, chunk)
                  BY <2>4, <3>2 DEF after, chunk
            <3>5. step < 3 => k = n + 1
                  BY <1>1, <3>1, <3>4, AppendProperties DEF n
            <3>6. step = 3 => k = 0
                  BY <1>1, <3>3
            <3> HIDE DEF k
            <3> QED BY <1>1, <2>2, <3>5, <3>6
      <2> HIDE DEF part, after, k
      <2>6. \/ /\ errs' = errs + 1 /\ chip' \in {chip, after}
            \/ /\ step < 3 /\ step' = step + 1 /\ pc' = "tx"
               /\ chip' = after /\ errs' = errs
            \/ step = 3 /\ chip' = after /\ errs' = errs
            BY <1>7, SendStep DEF after, part
      <2>7. CASE errs' = errs + 1 /\ chip' \in {chip, after}
            <3>1. /\ errs + 1 \in Nat
                  /\ n <= 2 * (errs + 1) /\ k <= 2 * (errs + 1)
                  BY <1>0, <1>1, <2>2, <2>3, <2>5
            <3> QED BY <1>1, <1>2, <2>5, <2>7, <3>1, Zenon DEF n, k
      <2>8. CASE /\ step < 3 /\ step' = step + 1 /\ pc' = "tx"
                 /\ chip' = after /\ errs' = errs
            <3>1. k <= 2 * errs + ((step + 1) - 1)
                  BY <1>0, <1>1, <2>2, <2>3, <2>5, <2>8
            <3> QED BY <2>8, <3>1, Zenon DEF TxBacklog, k
      <2>9. CASE step = 3 /\ chip' = after /\ errs' = errs
            <3>1. k \in Nat /\ k <= 2 * errs
                  BY <1>0, <2>5, <2>9
            <3> QED BY <1>0, <1>2, <2>9, <3>1, Zenon DEF k
      <2> QED BY <2>6, <2>7, <2>8, <2>9
<1> QED BY <1>3, <1>4, <1>5, <1>6, <1>7, SinkCases DEF Next

\* As long as no transfer has failed the sink reads its FIFO frame by frame,
\* and what it holds of a message is what the chip checked.
FrameInv ==
  errs = 0 /\ pc # "sw_res" =>
    /\ Linked(chip.rx)
    /\ pc \notin {"rx_header", "rx_payload", "rx_crc"} => AtStart(chip.rx)
    /\ pc = "rx_token" => chip.rx # <<>>
    /\ pc = "rx_header" => HeadAt(chip.rx, 2)
    /\ pc = "rx_payload" => NumObjects(cur.k) = 1 /\ HeadAt(chip.rx, 4)
    /\ pc = "rx_crc" => HeadAt(chip.rx, FrameLen(cur.k) - 3)
    /\ pc \in {"rx_payload", "rx_crc"} => chip.rx[1].k = cur.k /\ cur.good
    /\ pc = "tx" => req.good

\* What the sink does outside handle_new_data leaves the FIFO whole.
LEMMA OutsideFrames ==
  ASSUME TypeOK, FrameInv, errs = 0, pc # "sw_res", pc \notin MessagePcs,
         pc' \notin MessagePcs, chip'.rx \in {chip.rx, <<>>}
  PROVE  FrameInv'
  <1>1. Linked(chip.rx) /\ AtStart(chip.rx)
        BY DEF FrameInv, MessagePcs
  <1>2. Linked(<<>>) /\ AtStart(<<>>)
        BY EmptySeq DEF Linked, AtStart
  <1>3. Linked(chip'.rx) /\ AtStart(chip'.rx)
        BY <1>1, <1>2
  <1> QED BY <1>3 DEF FrameInv, MessagePcs

LEMMA ReadFrames ==
  ASSUME TypeOK, FrameInv, errs = 0, errs' = errs,
         RxToken \/ RxHeader \/ RxPayload \/ RxCrc
  PROVE  FrameInv'
  <1> DEFINE s == chip.rx
             k == s[1].k
  <1>0. s \in Seq(Byte) /\ chip \in ChipStates /\ cur \in Message
        BY DEF TypeOK, SinkTypeOK, ChipStates
  <1>1. \A f : ~Abort(f)
        BY <1>0 DEF Abort, TypeOK, SinkTypeOK
  <1>2. /\ Linked(s)
        /\ \A f : FrameLen(f) = 7 + 4 * NumObjects(f) /\ NumObjects(f) \in {0, 1}
        <2>1. pc # "sw_res"
              BY DEF RxToken, RxHeader, RxPayload, RxCrc
        <2> QED BY <2>1 DEF FrameInv, FrameLen, NumObjects
  <1>3. \A n : Aligned(n) <=> HeadAt(s, n)
        <2>1. s # <<>> => Head(s) = s[1]
              BY <1>0, HeadTailProperties
        <2> QED BY <2>1 DEF Aligned, HeadAt
  <1> HIDE DEF s
  <1>4. CASE RxToken
        <2>1. HeadAt(s, 1)
              BY <1>4 DEF RxToken, FrameInv, AtStart, HeadAt, s
        <2>2. pc' = "rx_header" /\ chip' = Pop(chip, 1)
              BY <1>1, <1>3, <1>4, <2>1 DEF RxToken, Ok
        <2>3. 2 = 1 + 1 /\ 2 <= FrameLen(k) + 1 /\ 2 <= FrameLen(k)
              BY <1>2
        <2>4. Linked(chip'.rx) /\ HeadAt(chip'.rx, 2)
              <3>1. 1 \in Nat /\ 2 \in Nat /\ 1 \in {1, 2, 4}
                    OBVIOUS
              <3> QED BY <1>0, <1>2, <2>1, <2>2, <2>3, <3>1, PopFrames, Zenon
                      DEF s
        <2> QED BY <2>2, <2>4 DEF FrameInv
  <1>5. CASE RxHeader
        <2>1. HeadAt(s, 2)
              BY <1>5 DEF RxHeader, FrameInv, s
        <2>2. /\ chip' = Pop(chip, 2) /\ cur' = [k |-> k, good |-> TRUE]
              /\ pc' = IF NumObjects(cur'.k) > 0 THEN "rx_payload" ELSE "rx_crc"
              <3>1. Header = {[k |-> k, good |-> TRUE]}
                    <4>1. Head(s) = s[1]
                          BY <1>0, <2>1, HeadTailProperties DEF HeadAt
                    <4> QED BY <1>3, <2>1, <4>1, Zenon DEF Header, s
              <3> QED BY <1>1, <1>5, <3>1 DEF RxHeader, Ok
        <2>5. 4 = 2 + 2 /\ 4 <= FrameLen(k) + 1 /\ 4 <= FrameLen(k)
              BY <1>2
        <2>3. Linked(chip'.rx) /\ HeadAt(chip'.rx, 4) /\ chip'.rx[1].k = k
              <3>1. 2 \in Nat /\ 4 \in Nat /\ 2 \in {1, 2, 4}
                    OBVIOUS
              <3> QED BY <1>0, <1>2, <2>1, <2>2, <2>5, <3>1, PopFrames, Zenon
                      DEF s
        <2>4. /\ cur'.k = k /\ cur'.good
              /\ pc' = "rx_payload" => NumObjects(k) = 1
              /\ pc' = "rx_crc" => FrameLen(k) - 3 = 4
              /\ pc' \in {"rx_payload", "rx_crc"}
              BY <1>2, <2>2
        <2> HIDE DEF k
        <2> QED BY <2>3, <2>4 DEF FrameInv
  <1>6. CASE RxPayload
        <2>1. NumObjects(cur.k) = 1 /\ HeadAt(s, 4) /\ k = cur.k /\ cur.good
              BY <1>6 DEF RxPayload, FrameInv, s
        <2>2. chip' = Pop(chip, 4) /\ pc' = "rx_crc" /\ cur' = cur
              BY <1>1, <1>6, <2>1 DEF RxPayload, Ok
        <2>3. FrameLen(k) = 11
              BY <1>2, <2>1
        <2>6. 8 = 4 + 4 /\ 8 <= FrameLen(k) + 1 /\ 8 <= FrameLen(k)
              BY <2>3
        <2>4. Linked(chip'.rx) /\ HeadAt(chip'.rx, 8) /\ chip'.rx[1].k = k
              <3>1. 8 \in Nat /\ 4 \in Nat /\ 4 \in {1, 2, 4}
                    OBVIOUS
              <3> QED BY <1>0, <1>2, <2>1, <2>2, <2>6, <3>1, PopFrames, Zenon
                      DEF s
        <2>5. FrameLen(cur'.k) - 3 = 8
              BY <2>1, <2>2, <2>3
        <2> HIDE DEF k
        <2> QED BY <2>1, <2>2, <2>4, <2>5 DEF FrameInv
  <1>7. CASE RxCrc
        <2>1. HeadAt(s, FrameLen(cur.k) - 3) /\ k = cur.k /\ cur.good
              BY <1>7 DEF RxCrc, FrameInv, s
        <2>2. /\ chip' = Pop(chip, 4)
              /\ \/ pc' = "tx" /\ req'.good = cur.good
                 \/ pc' = "rx_status"
              BY <1>1, <1>7 DEF RxCrc, Ok, DropCrc, NextMessage
        <2>3. /\ FrameLen(k) - 3 \in Nat /\ FrameLen(k) + 1 \in Nat
              /\ FrameLen(k) + 1 = (FrameLen(k) - 3) + 4
              /\ FrameLen(k) + 1 <= FrameLen(k) + 1
              BY <1>2
        <2>4. Linked(chip'.rx) /\ AtStart(chip'.rx)
              <3>1. 4 \in {1, 2, 4}
                    OBVIOUS
              <3> QED BY <1>0, <1>2, <2>1, <2>2, <2>3, <3>1, PopFrames, Zenon
                      DEF s
        <2> QED BY <2>1, <2>2, <2>4 DEF FrameInv
  <1> QED BY <1>4, <1>5, <1>6, <1>7

LEMMA NextFrameInv ==
  TypeOK /\ PcInv /\ FrameInv /\ [Next]_vars => FrameInv'
<1> SUFFICES ASSUME TypeOK, PcInv, FrameInv, [Next]_vars, errs' = 0,
                    pc' # "sw_res"
             PROVE  FrameInv'
    BY DEF FrameInv
<1>0. SinkTypeOK /\ chip \in ChipStates /\ state \in States /\ req \in Requests
      /\ chip.rx \in Seq(Byte)
    BY DEF TypeOK, SinkTypeOK, ChipStates
<1>1. CASE Environment \/ UNCHANGED vars
      <2>1. /\ UNCHANGED sinkVars /\ errs' = errs
            /\ \/ chip'.rx = chip.rx
               \/ \E k \in Kinds, a \in BOOLEAN :
                    chip'.rx = chip.rx \o Frame(k, a)
            BY <1>1, EnvironmentEffect DEF vars
      <2>2. pc' = pc /\ cur' = cur /\ req' = req
            BY <2>1 DEF sinkVars
      <2>3. Linked(chip.rx)
            BY <2>1, <2>2 DEF FrameInv
      <2>4. /\ Linked(chip'.rx)
            /\ AtStart(chip.rx) => AtStart(chip'.rx)
            /\ chip.rx # <<>> => chip'.rx # <<>> /\ chip'.rx[1] = chip.rx[1]
            <3>1. CASE chip'.rx = chip.rx
                  BY <2>3, <3>1
            <3>2. ASSUME NEW k \in Kinds, NEW a \in BOOLEAN,
                         chip'.rx = chip.rx \o Frame(k, a)
                  PROVE  /\ Linked(chip'.rx)
                         /\ chip'.rx # <<>>
                         /\ chip.rx # <<>> => chip'.rx[1] = chip.rx[1]
                         /\ chip.rx = <<>> => AtStart(chip'.rx)
                  <4> DEFINE t == chip.rx \o Frame(k, a)
                  <4>1. /\ Linked(t) /\ t # <<>>
                        /\ chip.rx # <<>> => t[1] = chip.rx[1]
                        /\ chip.rx = <<>> => t[1].i = 1
                        BY <1>0, <2>3, LinkedAppend
                  <4> HIDE DEF t
                  <4>2. chip'.rx = t
                        BY <3>2 DEF t
                  <4> QED BY <4>1, <4>2, Zenon DEF AtStart
            <3> QED BY <2>1, <3>1, <3>2 DEF AtStart
      <2> QED BY <2>1, <2>2, <2>4 DEF FrameInv, HeadAt
<1>2. CASE Reboot
      BY <1>2 DEF Reboot, Boot
<1>3. CASE SwReset
      <2>1. chip'.rx = <<>> /\ pc' = "read_id"
            BY <1>3, ResetStep
      <2>2. Linked(<<>>) /\ AtStart(<<>>)
            BY EmptySeq DEF Linked, AtStart
      <2> QED BY <2>1, <2>2 DEF FrameInv
<1>4. CASE SinkStep /\ pc \notin MessagePcs \cup {"sw_res", "poll"}
      <2>1. /\ chip'.rx \in {chip.rx, <<>>} /\ pc' \notin MessagePcs
            /\ errs' \in {errs, errs + 1}
            BY <1>4, PlainStep
      <2> QED BY <1>4, <2>1, NoError, OutsideFrames
<1>5. CASE Send
      <2>2. /\ chip' = WriteFifo(chip, SendParts[step], req)
            /\ pc' \in {"tx", "rx_status"} /\ req' = req /\ errs = 0
            <3>1. \A f : ~Abort(f)
                  BY <1>0 DEF Abort, SinkTypeOK
            <3> QED BY <1>5, <3>1, NoError, SendStep
                    DEF Send, Ok, NextMessage
      <2>3. SendParts[step] \in {"sop", "data", "eop"}
            BY <1>5, SendStep DEF SendParts
      <2>4. chip'.rx = chip.rx
            BY <1>0, <2>2, <2>3, WriteFifoEffect
      <2> QED BY <1>5, <2>2, <2>4 DEF FrameInv, Send
<1>6. CASE PollStatus \/ RxStatus
      <2>1. errs = 0 /\ \A f : ~Abort(f)
            BY <1>0, <1>6, NoError, ReadStep DEF Abort, SinkTypeOK
      <2>2. chip'.rx = chip.rx
            BY <1>0, <1>6, <2>1
            DEF PollStatus, RxStatus, Ok, ClearFlags, ChipStates
      <2>3. /\ pc \in {"poll", "rx_status"}
            /\ \/ pc' = "rx_status"
               \/ pc' = "rx_token" /\ chip.rx # <<>>
               \/ pc' \notin MessagePcs
            BY <1>0, <1>6, <2>1
            DEF PollStatus, RxStatus, PollReturns, Entry, MessagePcs
      <2> QED BY <2>1, <2>2, <2>3 DEF FrameInv, MessagePcs
<1>7. CASE RxToken \/ RxHeader \/ RxPayload \/ RxCrc
      <2>1. errs = 0
            BY <1>7, NoError, ReadStep
      <2> QED BY <1>7, <2>1, ReadFrames
<1> QED BY <1>1, <1>2, <1>3, <1>4, <1>5, <1>6, <1>7, SinkCases DEF Next

\* As long as no transfer has failed the transmit FIFO holds what send has
\* written of the message it is sending, and nothing else: the first write of
\* fusb_setup has dropped what a restart left.
FramedTx ==
  IF pc = "tx"
  THEN /\ Len(chip.tx) = step - 1
       /\ \A j \in 1..(step - 1) : chip.tx[j].part = Parts[j]
  ELSE chip.tx = <<>>

TxInv ==
  errs = 0 =>
    /\ pc # "sw_res" => FramedTx
    /\ \A j \in 1..Len(chip.out) : chip.out[j].good

LEMMA SendFramed ==
  ASSUME TypeOK, FramedTx, Send, errs = 0, errs' = errs, req.good,
         \A j \in 1..Len(chip.out) : chip.out[j].good
  PROVE  FramedTx' /\ \A j \in 1..Len(chip'.out) : chip'.out[j].good
  <1> DEFINE n == Len(chip.tx)
  <1>0. /\ chip \in ChipStates /\ req \in Requests
        /\ chip.tx \in Seq(TxChunks) /\ chip.out \in Seq(Requests)
        /\ n \in Nat /\ \A f : ~Abort(f)
        BY LenProperties DEF TypeOK, SinkTypeOK, ChipStates, Abort
  <1>1. /\ pc = "tx" /\ step \in 1..3 /\ n = step - 1
        /\ \A j \in 1..(step - 1) : chip.tx[j].part = Parts[j]
        BY SendStep DEF FramedTx
  <1>2. /\ chip' = WriteFifo(chip, SendParts[step], req)
        /\ step < 3 => pc' = "tx" /\ step' = step + 1
        /\ step = 3 => pc' = "rx_status"
        BY <1>0, <1>1 DEF Send, Ok, NextMessage, SendParts
  <1>3. SendParts[step] \in {"sop", "data", "eop"} /\ SendParts = Parts
        /\ (step < 3 <=> SendParts[step] # "eop")
        BY <1>1 DEF SendParts, Parts
  <1> DEFINE p      == SendParts[step]
             chunk  == [part |-> p, req |-> req]
             chunks == Append(chip.tx, chunk)
  <1>4. /\ chunk \in TxChunks /\ chunk.part = Parts[step]
        BY <1>0, <1>3 DEF TxChunks
  <1> HIDE DEF n, chunk
  <1>5. /\ Len(chunks) = step
        /\ \A j \in 1..step : chunks[j].part = Parts[j]
        <2>1. /\ Len(chunks) = n + 1
              /\ \A j \in 1..n : chunks[j] = chip.tx[j]
              /\ chunks[n + 1] = chunk
              BY <1>0, <1>4, AppendProperties DEF n
        <2>2. n + 1 = step /\ \A j \in 1..step : j \in 1..n \/ j = step
              BY <1>0, <1>1
        <2> HIDE DEF chunks
        <2> QED BY <1>1, <1>4, <2>1, <2>2
  <1> DEFINE packet == [req EXCEPT !.good = @ /\ WellFormed(chunks)]
  <1>6. /\ p # "eop" => chip'.tx = chunks /\ chip'.out = chip.out
        /\ p = "eop" => chip'.tx = <<>> /\ chip'.out = Append(chip.out, packet)
        BY <1>0, <1>2, <1>3, WriteFifoEffect DEF chunk
  <1>7. CASE step < 3
        <2>1. /\ pc' = "tx" /\ step' - 1 = step /\ chip'.out = chip.out
              /\ chip'.tx = chunks
              BY <1>1, <1>2, <1>3, <1>6, <1>7
        <2> HIDE DEF chunks
        <2> QED BY <1>5, <2>1, Zenon DEF FramedTx
  <1>8. CASE step = 3
        <2>1. WellFormed(chunks)
              BY <1>5, <1>8 DEF WellFormed
        <2>2. packet \in Requests /\ packet.good
              BY <1>0, <2>1 DEF Requests
        <2>3. chip'.tx = <<>> /\ chip'.out = Append(chip.out, packet)
              /\ pc' # "tx"
              BY <1>2, <1>3, <1>6, <1>8
        <2> HIDE DEF packet
        <2>4. ASSUME NEW o, o = Append(chip.out, packet)
              PROVE  \A j \in 1..Len(o) : o[j].good
              <3>1. /\ Len(chip.out) \in Nat /\ Len(o) = Len(chip.out) + 1
                    /\ \A j \in 1..Len(chip.out) : o[j] = chip.out[j]
                    /\ o[Len(chip.out) + 1] = packet
                    BY <1>0, <2>2, <2>4, LenProperties, AppendProperties
              <3>2. \A j \in 1..Len(o) : \/ j \in 1..Len(chip.out)
                                         \/ j = Len(chip.out) + 1
                    BY <3>1
              <3> QED BY <2>2, <3>1, <3>2
        <2> QED BY <2>3, <2>4, Zenon DEF FramedTx
  <1> QED BY <1>1, <1>7, <1>8

LEMMA NextTxInv ==
  TypeOK /\ PcInv /\ FrameInv /\ TxInv /\ [Next]_vars => TxInv'
<1> SUFFICES ASSUME TypeOK, PcInv, FrameInv, TxInv, [Next]_vars, errs' = 0
             PROVE  /\ pc' # "sw_res" => FramedTx'
                    /\ \A j \in 1..Len(chip'.out) : chip'.out[j].good
    BY DEF TxInv
<1>0. /\ SinkTypeOK /\ chip \in ChipStates /\ chip.out \in Seq(Requests)
      /\ Len(<<>>) = 0 /\ 1..0 = {}
    BY EmptySeq DEF TypeOK, SinkTypeOK, ChipStates
<1>1. CASE Environment \/ UNCHANGED vars
      <2>1. /\ UNCHANGED sinkVars /\ errs' = errs /\ chip'.tx = chip.tx
            /\ \/ chip'.out \in {chip.out, <<>>}
               \/ chip.out # <<>> /\ chip'.out = Tail(chip.out)
            BY <1>1, EnvironmentEffect DEF vars
      <2>2. pc' = pc /\ step' = step
            BY <2>1 DEF sinkVars
      <2>3. pc' # "sw_res" => FramedTx'
            BY <2>1, <2>2, Zenon DEF TxInv, FramedTx
      <2>4. \A j \in 1..Len(chip.out) : chip.out[j].good
            BY <2>1 DEF TxInv
      <2>5. chip.out # <<>> =>
              \A j \in 1..Len(Tail(chip.out)) : Tail(chip.out)[j].good
            <3> SUFFICES ASSUME chip.out # <<>>,
                                NEW j \in 1..Len(Tail(chip.out))
                         PROVE  Tail(chip.out)[j].good
                OBVIOUS
            <3>1. /\ Len(chip.out) \in Nat
                  /\ Len(Tail(chip.out)) = Len(chip.out) - 1
                  /\ \A i \in 1..Len(Tail(chip.out)) :
                       Tail(chip.out)[i] = chip.out[i + 1]
                  BY <1>0, HeadTailProperties, LenProperties
            <3>2. j + 1 \in 1..Len(chip.out) /\ Tail(chip.out)[j] = chip.out[j + 1]
                  BY <3>1
            <3> QED BY <2>4, <3>2
      <2> QED BY <1>0, <2>1, <2>3, <2>4, <2>5
<1>2. CASE Reboot
      BY <1>2 DEF Reboot, Boot, TxInv
<1>3. CASE SwReset
      <2>1. errs = 0 /\ chip'.out = chip.out
            BY <1>3, NoError, ResetStep
      <2>2. pc' # "sw_res" => chip'.tx = <<>> /\ pc' # "tx"
            BY <1>3, ResetStep
      <2> QED BY <2>1, <2>2 DEF TxInv, FramedTx
<1>4. CASE SinkStep /\ pc \notin MessagePcs \cup {"sw_res", "poll"}
      <2>1. /\ chip'.tx \in {chip.tx, <<>>} /\ chip'.out = chip.out
            /\ pc' # "tx" /\ pc # "tx" /\ errs' \in {errs, errs + 1}
            BY <1>4, PlainStep DEF MessagePcs
      <2>2. errs = 0
            BY <2>1, NoError
      <2> QED BY <1>4, <2>1, <2>2 DEF TxInv, FramedTx
<1>5. CASE Send
      <2>2. errs = 0
            BY <1>5, NoError, SendStep
      <2> QED BY <1>5, <2>2, SendFramed DEF TxInv, FrameInv, Send
<1>6. CASE PollStatus \/ RxStatus \/ RxToken \/ RxHeader \/ RxPayload
      <2>1. /\ chip'.tx = chip.tx /\ chip'.out = chip.out
            /\ pc # "sw_res" /\ pc # "tx" /\ errs = 0
            BY <1>6, NoError, ReadStep
      <2>2. \A f : ~Abort(f)
            BY <2>1 DEF Abort
      <2>3. pc' # "tx"
            BY <1>0, <1>6, <2>1, <2>2
            DEF PollStatus, RxStatus, RxToken, RxHeader, RxPayload,
                PollReturns, Entry, SinkTypeOK
      <2> QED BY <2>1, <2>3 DEF TxInv, FramedTx
<1>7. CASE RxCrc
      <2>1. /\ chip'.tx = chip.tx /\ chip'.out = chip.out /\ step' = 1
            /\ pc # "sw_res" /\ pc # "tx" /\ errs = 0
            BY <1>7, NoError, ReadStep
      <2>2. step' - 1 = 0 /\ chip'.tx = <<>>
            BY <2>1 DEF TxInv, FramedTx
      <2> QED BY <1>0, <2>1, <2>2 DEF TxInv, FramedTx
<1> QED BY <1>1, <1>2, <1>3, <1>4, <1>5, <1>6, <1>7, SinkCases DEF Next

----------------------------------------------------------------------------
\* As long as no transfer has failed the flag of an acknowledged message stays
\* latched until poll_status reads it, and then the FIFO is drained.
LatchInv ==
  errs = 0 /\ pc \notin MessagePcs \cup {"sw_res"} =>
    (Acked => "gcrcsent" \in chip.latch)

LEMMA NextLatchInv ==
  TypeOK /\ PcInv /\ LatchInv /\ [Next]_vars => LatchInv'
<1> SUFFICES ASSUME TypeOK, PcInv, LatchInv, [Next]_vars, errs' = 0,
                    pc' \notin MessagePcs \cup {"sw_res"}, Acked'
             PROVE  "gcrcsent" \in chip'.latch
    BY DEF LatchInv
<1>0. /\ SinkTypeOK /\ chip \in ChipStates /\ chip.rx \in Seq(Byte)
      /\ state \in States
    BY DEF TypeOK, SinkTypeOK, ChipStates
<1>1. chip'.rx # <<>>
      BY EmptySeq DEF Acked
<1>2. CASE Environment \/ UNCHANGED vars
      <2>1. /\ UNCHANGED sinkVars /\ errs' = errs
            /\ chip.latch \subseteq chip'.latch
            /\ \/ chip'.rx = chip.rx
               \/ \E k \in Kinds, a \in BOOLEAN :
                    /\ chip'.rx = chip.rx \o Frame(k, a)
                    /\ a => "gcrcsent" \in chip'.latch
            BY <1>2, EnvironmentEffect DEF vars
      <2>2. Acked => "gcrcsent" \in chip'.latch
            BY <2>1 DEF LatchInv, sinkVars
      <2>3. CASE chip'.rx = chip.rx
            BY <2>2, <2>3 DEF Acked
      <2>4. ASSUME NEW k \in Kinds, NEW a \in BOOLEAN,
                   chip'.rx = chip.rx \o Frame(k, a),
                   a => "gcrcsent" \in chip'.latch
            PROVE  "gcrcsent" \in chip'.latch
            <3> DEFINE f == Frame(k, a)
                       t == chip.rx \o f
            <3>1. /\ f \in Seq(Byte) /\ Len(f) \in Nat /\ Len(chip.rx) \in Nat
                  /\ \A j \in 1..Len(f) : f[j].acked = a
                  <4>1. f \in Seq(Byte) /\ DOMAIN f = 1..FrameLen(k)
                        BY FrameType DEF Frame
                  <4>2. DOMAIN f = 1..Len(f)
                        BY <4>1, LenProperties
                  <4> QED BY <1>0, <4>1, <4>2, LenProperties DEF Frame
            <3> HIDE DEF f
            <3>2. /\ Len(t) = Len(chip.rx) + Len(f)
                  /\ \A j \in 1..(Len(chip.rx) + Len(f)) :
                       t[j] = IF j <= Len(chip.rx) THEN chip.rx[j]
                                                   ELSE f[j - Len(chip.rx)]
                  BY <1>0, <3>1, ConcatProperties
            <3> HIDE DEF t
            <3>3. PICK j \in 1..Len(t) : t[j].acked
                  BY <2>4 DEF Acked, t, f
            <3>4. CASE j <= Len(chip.rx)
                  <4>1. j \in 1..Len(chip.rx) /\ chip.rx[j].acked
                        BY <3>1, <3>2, <3>3, <3>4
                  <4> QED BY <2>2, <4>1 DEF Acked
            <3>5. CASE ~(j <= Len(chip.rx))
                  <4>1. /\ j - Len(chip.rx) \in 1..Len(f)
                        /\ f[j - Len(chip.rx)].acked
                        BY <3>1, <3>2, <3>3, <3>5
                  <4> QED BY <2>4, <3>1, <4>1
            <3> QED BY <3>4, <3>5
      <2> QED BY <2>1, <2>3, <2>4
<1>3. CASE Reboot
      BY <1>3 DEF Reboot, Boot
<1>4. CASE SwReset
      BY <1>1, <1>4, ResetStep
<1>5. CASE SinkStep /\ pc \notin MessagePcs \cup {"sw_res", "poll"}
      <2>1. /\ chip'.rx = chip.rx /\ chip'.latch = chip.latch
            /\ errs' \in {errs, errs + 1}
            BY <1>1, <1>5, PlainStep
      <2>2. errs = 0
            BY <2>1, NoError
      <2> QED BY <1>5, <2>1, <2>2 DEF LatchInv, Acked
<1>6. CASE PollStatus
      <2>1. errs = 0 /\ pc = "poll"
            BY <1>6, NoError, ReadStep DEF PollStatus
      <2>2. chip' = ClearFlags(chip) /\ "gcrcsent" \notin chip.latch
            BY <1>0, <1>6, <2>1
            DEF PollStatus, Ok, Abort, SinkTypeOK, MessagePcs
      <2>3. chip'.rx = chip.rx /\ ~Acked
            BY <1>0, <2>1, <2>2
            DEF ClearFlags, ChipStates, LatchInv, MessagePcs
      <2> QED BY <2>3 DEF Acked
<1>7. CASE RxStatus
      <2>1. errs = 0
            BY <1>7, NoError, ReadStep
      <2> QED BY <1>0, <1>1, <1>7, <2>1
              DEF RxStatus, Ok, Abort, SinkTypeOK, MessagePcs
<1>8. CASE RxToken \/ RxHeader \/ RxPayload \/ RxCrc \/ Send
      <2>1. errs = 0
            BY <1>8, NoError, ReadStep, SendStep
      <2>2. \A f : ~Abort(f)
            BY <2>1 DEF Abort
      <2> QED BY <1>0, <1>8, <2>1, <2>2
              DEF RxToken, RxHeader, RxPayload, RxCrc, Send, NextMessage, Ok,
                  SinkTypeOK, MessagePcs
<1> QED BY <1>2, <1>3, <1>4, <1>5, <1>6, <1>7, <1>8, SinkCases DEF Next

----------------------------------------------------------------------------
CleanInv == TxBacklog /\ FrameInv /\ TxInv /\ LatchInv

LEMMA InitCleanInv == Init => CleanInv
<1> SUFFICES ASSUME Init PROVE CleanInv
    OBVIOUS
<1>1. pc = "sw_res" /\ chip.out = <<>>
      BY DEF Init, SinkInit, ResetChip
<1>2. \A j \in 1..Len(chip.out) : chip.out[j].good
      BY <1>1, EmptySeq
<1> QED BY <1>1, <1>2
        DEF CleanInv, TxBacklog, FrameInv, TxInv, LatchInv

LEMMA NextCleanInv == IInv /\ CleanInv /\ [Next]_vars => CleanInv'
  BY NextTxBacklog, NextFrameInv, NextTxInv, NextLatchInv DEF IInv, CleanInv

LEMMA CleanInvHolds == Spec => [](IInv /\ CleanInv)
<1>1. Init => IInv /\ CleanInv
      BY InitIInv, InitCleanInv
<1>2. (IInv /\ CleanInv) /\ [Next]_vars => (IInv /\ CleanInv)'
      BY NextIInv, NextCleanInv
<1> QED BY <1>1, <1>2, PTL DEF Spec

\* However many transfers of send fail, the transmit FIFO never holds more
\* than two writes of each failed send besides those of the present one.
THEOREM PdTxBacklog == Spec => []TxBacklog
<1>1. IInv /\ CleanInv => TxBacklog
      BY DEF CleanInv
<1> QED BY <1>1, CleanInvHolds, PTL

\* As long as no transfer has failed, what the sink answers is an offer it has
\* read whole and in place: handle_new_data never loses its place in the FIFO,
\* however messages and restarts fall between its reads.
THEOREM PdHandledGenuine == Spec => [](errs = 0 => HandledGenuine)
<1>1. IInv /\ CleanInv => (errs = 0 => HandledGenuine)
      BY DEF CleanInv, FrameInv, HandledGenuine
<1> QED BY <1>1, CleanInvHolds, PTL

\* As long as no transfer has failed, a packet on the wire is one framed
\* message, whenever the microcontroller restarted within a send.
THEOREM PdWireWellFormed == Spec => []WireWellFormed
<1>1. IInv /\ CleanInv => WireWellFormed
      BY DEF CleanInv, TxInv, WireWellFormed
<1> QED BY <1>1, CleanInvHolds, PTL

\* As long as no transfer has failed, a sink that waits for the interrupt pin
\* with an acknowledged message in its FIFO finds the pin low.
THEOREM PdNoLostWakeup == Spec => [](errs = 0 => NoLostWakeup)
<1>1. IInv /\ CleanInv => (errs = 0 => NoLostWakeup)
      <2> SUFFICES ASSUME IInv, CleanInv, errs = 0, pc = "wait", Acked
                   PROVE  IntLow(chip)
          BY DEF NoLostWakeup
      <2>1. "gcrcsent" \in chip.latch
            BY DEF CleanInv, LatchInv, MessagePcs
      <2>2. state # "Reset"
            BY DEF IInv, PcInv, ResetPcs
      <2>3. chip.masked = {}
            BY <2>2 DEF IInv, PowerInv
      <2> QED BY <2>1, <2>3 DEF IntLow, MaskOf
<1> QED BY <1>1, CleanInvHolds, PTL

(***************************************************************************)
(* The offers in the FIFO.                                                 *)
(***************************************************************************)

LEMMA WithOfferType ==
  ASSUME NEW offers \in Seq(Offers), NEW b
  PROVE  WithOffer(offers, b) \in Seq(Offers)
  BY AppendProperties DEF WithOffer

Finds(f, s) ==
  /\ f \in [0..Len(s) -> Seq(Offers)] /\ f[0] = <<>>
  /\ \A j \in 1..Len(s) : f[j] = WithOffer(f[j - 1], s[j])

\* OffersIn as a fold over the bytes of the FIFO.
LEMMA OffersFold ==
  ASSUME NEW s \in Seq(Byte)
  PROVE  \E f : Finds(f, s) /\ OffersIn(s) = f[Len(s)]
<1> DEFINE n == Len(s)
           next == [a \in (1..n) \X Seq(Offers) |-> WithOffer(a[2], s[a[1]])]
           Def(f) == [j \in 0..n |-> IF j = 0 THEN <<>>
                                     ELSE WithOffer(f[j - 1], s[j])]
           P(f) == f = Def(f)
           found == CHOOSE f : P(f)
<1>0. n \in Nat
      BY LenProperties
<1>1. next \in [(1..n) \X Seq(Offers) -> Seq(Offers)]
      BY WithOfferType
<1>2. <<>> \in Seq(Offers)
      BY EmptySeq
<1>3. \A j \in 1..n, v \in Seq(Offers) : next[<<j, v>>] = WithOffer(v, s[j])
      OBVIOUS
<1>5. OffersIn(s) = found[n]
      BY Zenon DEF OffersIn
<1> HIDE DEF next, n
<1>4. PICK f \in [0..n -> Seq(Offers)] : Follows(f, n, <<>>, next)
      BY <1>0, <1>1, <1>2, Recursion
<1>6. ASSUME NEW j \in 1..n PROVE f[j] = WithOffer(f[j - 1], s[j])
  <2>1. j - 1 \in 0..n
        BY <1>0
  <2> QED BY <1>3, <1>4, <2>1 DEF Follows
<1>7. P(f)
      BY <1>4, <1>6 DEF Follows
<1> HIDE DEF P
<1>8. P(found)
      BY <1>7, Zenon
<1> HIDE DEF found
<1> USE DEF P
<1>9. /\ DOMAIN found = 0..n /\ found = [j \in 0..n |-> found[j]]
      /\ found[0] = <<>>
      BY <1>0, <1>8
<1>10. ASSUME NEW j \in 1..n PROVE found[j] = WithOffer(found[j - 1], s[j])
  <2>1. j \in 0..n /\ j # 0
        BY <1>0
  <2> QED BY <1>8, <2>1
<1>11. \A j \in 0..n : found[j] \in Seq(Offers)
  <2> DEFINE S == {j \in 0..n : found[j] \in Seq(Offers)}
  <2>1. 0 \in S
    <3>1. 0 \in 0..n
          BY <1>0
    <3>2. found[0] \in Seq(Offers)
          BY <1>2, <1>9, Zenon
    <3> QED BY <3>1, <3>2
  <2>2. ASSUME NEW j \in 0..(n - 1), j \in S PROVE j + 1 \in S
    <3>1. j + 1 \in 1..n /\ (j + 1) - 1 = j /\ j + 1 \in 0..n
          BY <1>0
    <3>2. found[j + 1] = WithOffer(found[j], s[j + 1])
          BY <1>10, <3>1
    <3> QED BY <2>2, <3>1, <3>2, WithOfferType
  <2> HIDE DEF S
  <2>3. 0..n \subseteq S
        BY <1>0, <2>1, <2>2, UpTo
  <2> QED BY <2>3 DEF S
<1>12. Finds(found, s)
       BY <1>9, <1>10, <1>11 DEF Finds, n
<1> QED BY <1>5, <1>12 DEF n

\* The first bytes of the FIFO do not depend on what is behind them.
LEMMA FindsUnique ==
  ASSUME NEW s \in Seq(Byte), NEW t \in Seq(Byte), NEW f, NEW g,
         Finds(f, s), Finds(g, t), NEW n \in Nat, n <= Len(s), n <= Len(t),
         \A j \in 1..n : s[j] = t[j]
  PROVE  f[n] = g[n]
<1>0. Len(s) \in Nat /\ Len(t) \in Nat
      BY LenProperties
<1> DEFINE S == {j \in 0..n : f[j] = g[j]}
<1>1. 0 \in S
      BY DEF Finds
<1>2. ASSUME NEW j \in 0..(n - 1), j \in S PROVE j + 1 \in S
  <2>1. /\ j + 1 \in 1..Len(s) /\ j + 1 \in 1..Len(t) /\ (j + 1) - 1 = j
        /\ j + 1 \in 0..n /\ s[j + 1] = t[j + 1]
        BY <1>0
  <2>2. /\ f[j + 1] = WithOffer(f[j], s[j + 1])
        /\ g[j + 1] = WithOffer(g[j], t[j + 1])
        BY <2>1 DEF Finds
  <2> QED BY <1>2, <2>1, <2>2
<1> HIDE DEF S
<1>3. 0..n \subseteq S
      BY <1>1, <1>2, UpTo
<1> QED BY <1>3 DEF S

LEMMA OffersType ==
  ASSUME NEW s \in Seq(Byte)
  PROVE  OffersIn(s) \in Seq(Offers)
  BY OffersFold, LenProperties DEF Finds

LEMMA OffersNone ==
  ASSUME NEW s \in Seq(Byte), \A j \in 1..Len(s) : s[j].i # 2
  PROVE  OffersIn(s) = <<>>
<1>0. Len(s) \in Nat
      BY LenProperties
<1>1. PICK f : Finds(f, s) /\ OffersIn(s) = f[Len(s)]
      BY OffersFold
<1> DEFINE S == {j \in 0..Len(s) : f[j] = <<>>}
<1>2. 0 \in S
      BY <1>0, <1>1 DEF Finds
<1>3. ASSUME NEW j \in 0..(Len(s) - 1), j \in S PROVE j + 1 \in S
  <2>1. j + 1 \in 1..Len(s) /\ (j + 1) - 1 = j /\ j + 1 \in 0..Len(s)
        BY <1>0
  <2> QED BY <1>1, <1>3, <2>1 DEF Finds, WithOffer
<1> HIDE DEF S
<1>4. 0..Len(s) \subseteq S
      BY <1>0, <1>2, <1>3, UpTo
<1> QED BY <1>0, <1>1, <1>4 DEF S

\* One header among the bytes, at place m.
LEMMA OffersOnce ==
  ASSUME NEW s \in Seq(Byte), NEW m \in 1..Len(s), s[m].i = 2,
         \A j \in 1..Len(s) : j # m => s[j].i # 2
  PROVE  OffersIn(s) = IF s[m].k \in Offers THEN <<s[m].k>> ELSE <<>>
<1> DEFINE one == IF s[m].k \in Offers THEN <<s[m].k>> ELSE <<>>
<1>0. Len(s) \in Nat
      BY LenProperties
<1>1. PICK f : Finds(f, s) /\ OffersIn(s) = f[Len(s)]
      BY OffersFold
<1>2. WithOffer(<<>>, s[m]) = one
      BY DEF WithOffer
<1> HIDE DEF one
<1> DEFINE S == {j \in 0..Len(s) : f[j] = IF j < m THEN <<>> ELSE one}
<1>3. 0 \in S
      BY <1>0, <1>1 DEF Finds
<1>4. ASSUME NEW j \in 0..(Len(s) - 1), j \in S PROVE j + 1 \in S
  <2>1. j + 1 \in 1..Len(s) /\ (j + 1) - 1 = j /\ j + 1 \in 0..Len(s)
        BY <1>0
  <2>2. f[j + 1] = WithOffer(f[j], s[j + 1])
        BY <1>1, <2>1 DEF Finds
  <2>3. CASE j + 1 = m
        BY <1>2, <1>4, <2>1, <2>2, <2>3
  <2>4. CASE j + 1 # m
    <3>1. WithOffer(f[j], s[j + 1]) = f[j]
          BY <2>1, <2>4 DEF WithOffer
    <3>2. j < m <=> j + 1 < m
          BY <2>4
    <3> QED BY <1>4, <2>1, <2>2, <3>1, <3>2
  <2> QED BY <2>3, <2>4
<1> HIDE DEF S
<1>5. 0..Len(s) \subseteq S
      BY <1>0, <1>3, <1>4, UpTo
<1>6. f[Len(s)] = one
      BY <1>0, <1>5 DEF S
<1> QED BY <1>1, <1>6 DEF one

LEMMA AppendConcat ==
  ASSUME NEW s \in Seq(Offers), NEW t \in Seq(Offers), NEW e \in Offers
  PROVE  Append(s \o t, e) = s \o Append(t, e)
<1> DEFINE a == Append(s \o t, e)
           b == s \o Append(t, e)
<1>0. Len(s) \in Nat /\ Len(t) \in Nat
      BY LenProperties
<1>1. /\ s \o t \in Seq(Offers) /\ Len(s \o t) = Len(s) + Len(t)
      /\ \A j \in 1..(Len(s) + Len(t)) :
           (s \o t)[j] = IF j <= Len(s) THEN s[j] ELSE t[j - Len(s)]
      BY ConcatProperties
<1>2. /\ Append(t, e) \in Seq(Offers) /\ Len(Append(t, e)) = Len(t) + 1
      /\ \A j \in 1..Len(t) : Append(t, e)[j] = t[j]
      /\ Append(t, e)[Len(t) + 1] = e
      BY AppendProperties
<1>3. /\ a \in Seq(Offers) /\ Len(a) = Len(s) + Len(t) + 1
      /\ \A j \in 1..(Len(s) + Len(t)) : a[j] = (s \o t)[j]
      /\ a[Len(s) + Len(t) + 1] = e
      BY <1>0, <1>1, AppendProperties
<1>4. /\ b \in Seq(Offers) /\ Len(b) = Len(s) + (Len(t) + 1)
      /\ \A j \in 1..(Len(s) + (Len(t) + 1)) :
           b[j] = IF j <= Len(s) THEN s[j] ELSE Append(t, e)[j - Len(s)]
      BY <1>2, ConcatProperties
<1> HIDE DEF a, b
<1>5. ASSUME NEW j \in 1..Len(a) PROVE a[j] = b[j]
  <2>1. CASE j = Len(s) + Len(t) + 1
    <3>1. b[j] = Append(t, e)[j - Len(s)] /\ j - Len(s) = Len(t) + 1
          BY <1>0, <1>4, <2>1
    <3> QED BY <1>2, <1>3, <2>1, <3>1
  <2>2. CASE j <= Len(s)
    <3>1. j \in 1..(Len(s) + Len(t)) /\ j \in 1..(Len(s) + (Len(t) + 1))
          BY <1>0, <2>2
    <3> QED BY <1>1, <1>3, <1>4, <2>2, <3>1
  <2>3. CASE ~ (j <= Len(s)) /\ j # Len(s) + Len(t) + 1
    <3>0. Len(a) = Len(s) + Len(t) + 1
          BY <1>3
    <3>1. /\ j \in 1..(Len(s) + Len(t)) /\ j \in 1..(Len(s) + (Len(t) + 1))
          /\ j - Len(s) \in 1..Len(t)
          BY <1>0, <2>3, <3>0
    <3> QED BY <1>1, <1>2, <1>3, <1>4, <2>3, <3>1
  <2> QED BY <2>1, <2>2, <2>3
<1>6. Len(a) = Len(b)
      BY <1>0, <1>3, <1>4
<1>7. a = b
      BY <1>3, <1>4, <1>5, <1>6, SeqEqual
<1> QED BY <1>7 DEF a, b

LEMMA WithOfferConcat ==
  ASSUME NEW u \in Seq(Offers), NEW v \in Seq(Offers), NEW b
  PROVE  WithOffer(u \o v, b) = u \o WithOffer(v, b)
<1>1. CASE b.i = 2 /\ b.k \in Offers
  <2>1. Append(u \o v, b.k) = u \o Append(v, b.k)
        BY <1>1, AppendConcat
  <2> QED BY <1>1, <2>1 DEF WithOffer
<1>2. CASE ~ (b.i = 2 /\ b.k \in Offers)
      BY <1>2 DEF WithOffer
<1> QED BY <1>1, <1>2

LEMMA OffersConcat ==
  ASSUME NEW s \in Seq(Byte), NEW t \in Seq(Byte)
  PROVE  OffersIn(s \o t) = OffersIn(s) \o OffersIn(t)
<1> DEFINE u == s \o t
           n == Len(s)
<1>0. n \in Nat /\ Len(t) \in Nat
      BY LenProperties
<1>1. /\ u \in Seq(Byte) /\ Len(u) = n + Len(t)
      /\ \A j \in 1..(n + Len(t)) :
           u[j] = IF j <= n THEN s[j] ELSE t[j - n]
      BY ConcatProperties
<1> HIDE DEF u, n
<1>2. PICK f : Finds(f, s) /\ OffersIn(s) = f[Len(s)]
      BY OffersFold
<1>3. PICK g : Finds(g, t) /\ OffersIn(t) = g[Len(t)]
      BY OffersFold
<1>4. PICK h : Finds(h, u) /\ OffersIn(u) = h[Len(u)]
      BY <1>1, OffersFold
<1>5. h[n] = f[n] /\ f[n] \in Seq(Offers)
  <2>1. n <= Len(s) /\ n <= Len(u) /\ \A j \in 1..n : s[j] = u[j]
        BY <1>0, <1>1 DEF n
  <2>2. f[n] = h[n]
    <3>1. u \in Seq(Byte) /\ Finds(f, s) /\ Finds(h, u)
          BY <1>1, <1>2, <1>4, Zenon
    <3> QED BY <1>0, <2>1, <3>1, FindsUnique
  <2>3. n \in 0..Len(s)
        BY <1>0 DEF n
  <2> QED BY <1>2, <2>2, <2>3 DEF Finds
<1> DEFINE S == {j \in 0..Len(t) : h[n + j] = f[n] \o g[j]}
<1>6. 0 \in S
  <2>1. g[0] = <<>> /\ f[n] \o <<>> = f[n] /\ n + 0 = n /\ 0 \in 0..Len(t)
        BY <1>0, <1>3, <1>5, ConcatEmptySeq DEF Finds
  <2>2. h[n + 0] = f[n] \o g[0]
        BY <1>5, <2>1, Zenon
  <2> QED BY <2>1, <2>2
<1>7. ASSUME NEW j \in 0..(Len(t) - 1), j \in S PROVE j + 1 \in S
  <2>1. /\ j + 1 \in 1..Len(t) /\ j \in 0..Len(t) /\ (j + 1) - 1 = j
        /\ n + (j + 1) \in 1..Len(u) /\ (n + (j + 1)) - 1 = n + j
        /\ ~ (n + (j + 1) <= n) /\ (n + (j + 1)) - n = j + 1
        /\ n + (j + 1) \in 1..(n + Len(t))
        BY <1>0, <1>1
  <2>2. u[n + (j + 1)] = t[j + 1]
        BY <1>1, <2>1
  <2>3. h[n + (j + 1)] = WithOffer(h[n + j], t[j + 1])
        BY <1>4, <2>1, <2>2 DEF Finds
  <2>4. g[j + 1] = WithOffer(g[j], t[j + 1]) /\ g[j] \in Seq(Offers)
        BY <1>3, <2>1 DEF Finds
  <2>5. WithOffer(f[n] \o g[j], t[j + 1]) = f[n] \o WithOffer(g[j], t[j + 1])
        BY <1>5, <2>4, WithOfferConcat
  <2>6. h[n + (j + 1)] = f[n] \o g[j + 1]
        BY <1>7, <2>3, <2>4, <2>5
  <2>7. j + 1 \in 0..Len(t)
        BY <2>1
  <2> QED BY <2>6, <2>7
<1> HIDE DEF S
<1>8. 0..Len(t) \subseteq S
      BY <1>0, <1>6, <1>7, UpTo
<1>9. h[n + Len(t)] = f[n] \o g[Len(t)]
  <2>1. Len(t) \in 0..Len(t)
        BY <1>0
  <2>2. Len(t) \in S
        BY <1>8, <2>1
  <2> QED BY <2>2 DEF S
<1> QED BY <1>1, <1>2, <1>3, <1>4, <1>9 DEF u, n

\* A frame brings its offer in.
LEMMA OffersFrame ==
  ASSUME NEW k \in Kinds, NEW a \in BOOLEAN
  PROVE  OffersIn(Frame(k, a)) = IF k \in Offers THEN <<k>> ELSE <<>>
<1> DEFINE f == Frame(k, a)
<1>1. FrameLen(k) \in Nat /\ FrameLen(k) >= 7
      BY DEF FrameLen, NumObjects
<1>2. f \in Seq(Byte) /\ Len(f) = FrameLen(k)
  <2>1. f \in Seq(Byte) /\ DOMAIN f = 1..FrameLen(k)
        BY FrameType DEF Frame
  <2> QED BY <1>1, <2>1, LenProperties
<1>3. \A j \in 1..Len(f) : f[j].k = k /\ f[j].i = j
      BY <1>2 DEF Frame
<1> HIDE DEF f
<1>4. 2 \in 1..Len(f)
      BY <1>1, <1>2
<1>5. OffersIn(f) = IF f[2].k \in Offers THEN <<f[2].k>> ELSE <<>>
      BY <1>2, <1>3, <1>4, OffersOnce
<1>6. f[2].k = k
      BY <1>3, <1>4
<1> QED BY <1>5, <1>6 DEF f

\* The first bytes of the FIFO are those of one frame.
LEMMA LinkedRun ==
  ASSUME NEW s \in Seq(Byte), Linked(s), NEW i \in Nat, HeadAt(s, i),
         NEW n \in {1, 2, 4}, i + n <= FrameLen(s[1].k) + 1
  PROVE  n <= Len(s) /\ \A m \in 1..n : s[m].i = i + m - 1
<1> DEFINE F == FrameLen(s[1].k)
<1>1. Len(s) \in Nat /\ 1 \in 1..Len(s) /\ s[1].i = i
      BY LenProperties, EmptySeq DEF HeadAt
<1>2. F \in Nat
      BY FrameLenType
<1> HIDE DEF F
<1>3. i + 1 <= F => 2 \in 1..Len(s) /\ s[2].k = s[1].k /\ s[2].i = i + 1
      BY <1>1, <1>2, LinkedStep DEF F
<1>4. i + 2 <= F => 3 \in 1..Len(s) /\ s[3].k = s[1].k /\ s[3].i = i + 2
      BY <1>2, <1>3, LinkedStep DEF F
<1>5. i + 3 <= F => 4 \in 1..Len(s) /\ s[4].k = s[1].k /\ s[4].i = i + 3
      BY <1>2, <1>4, LinkedStep DEF F
<1>6. i + n <= F + 1
      BY DEF F
<1>7. CASE n = 1
      BY <1>1, <1>7
<1>8. CASE n = 2
  <2>1. 2 \in 1..Len(s) /\ s[2].i = i + 1
        BY <1>2, <1>3, <1>6, <1>8
  <2> QED BY <1>1, <1>8, <2>1
<1>9. CASE n = 4
  <2>1. /\ 2 \in 1..Len(s) /\ s[2].i = i + 1
        /\ 3 \in 1..Len(s) /\ s[3].i = i + 2
        /\ 4 \in 1..Len(s) /\ s[4].i = i + 3
        BY <1>2, <1>3, <1>4, <1>5, <1>6, <1>9
  <2> QED BY <1>1, <1>9, <2>1
<1> QED BY <1>7, <1>8, <1>9

\* What taking n bytes off the FIFO does to the offers in it.
LEMMA OffersPop ==
  ASSUME NEW c \in ChipStates, Linked(c.rx), NEW i \in Nat, HeadAt(c.rx, i),
         NEW n \in {1, 2, 4}, i + n <= FrameLen(c.rx[1].k) + 1
  PROVE  LET k == c.rx[1].k
         IN  /\ i = 2 => OffersIn(c.rx) =
                           (IF k \in Offers THEN <<k>> ELSE <<>>)
                             \o OffersIn(Pop(c, n).rx)
             /\ i > 2 \/ i + n <= 2 => OffersIn(c.rx) = OffersIn(Pop(c, n).rx)
<1> DEFINE s == c.rx
           h == SubSeq(s, 1, n)
           t == SubSeq(s, n + 1, Len(s))
           one == IF s[1].k \in Offers THEN <<s[1].k>> ELSE <<>>
<1>0. s \in Seq(Byte) /\ Len(s) \in Nat /\ Pop(c, n).rx = t
      BY PopRx, LenProperties DEF ChipStates
<1>1. n <= Len(s) /\ \A m \in 1..n : s[m].i = i + m - 1
      BY <1>0, LinkedRun
<1>2. t \in Seq(Byte)
      BY <1>0, <1>1, SubSeqFrom
<1>3. h \in Seq(Byte) /\ Len(h) = n /\ \A m \in 1..n : h[m] = s[m]
  <2>1. \A m \in 1..n : s[m] \in Byte
        BY <1>0, <1>1, ElementOfSeq
  <2>2. 1 \in Int /\ n \in Int /\ n - 1 + 1 = n /\ 1 <= n
        OBVIOUS
  <2>3. /\ h \in Seq(Byte) /\ Len(h) = n
        /\ \A m \in 1..n : h[m] = s[1 + m - 1]
        BY <2>1, <2>2, SubSeqProperties
  <2> QED BY <2>3
<1>4. h \o t = s
  <2>0. /\ 1 \in 1..(Len(s) + 1) /\ n \in (1 - 1)..Len(s)
        /\ Len(s) \in n..Len(s)
        BY <1>0, <1>1
  <2>1. SubSeq(s, 1, n) \o SubSeq(s, n + 1, Len(s)) = SubSeq(s, 1, Len(s))
        BY <1>0, <2>0, ConcatAdjacentSubSeq
  <2>2. SubSeq(s, 1, Len(s)) = s
        BY <1>0, SubSeqFull
  <2> QED BY <2>1, <2>2
<1> HIDE DEF h, t, s
<1>5. OffersIn(s) = OffersIn(h) \o OffersIn(t)
      BY <1>2, <1>3, <1>4, OffersConcat
<1>6. \A m \in 1..Len(h) : h[m].i = i + m - 1
      BY <1>1, <1>3
<1>7. CASE i = 2
  <2>1. 1 \in 1..Len(h) /\ h[1].i = 2 /\ h[1] = s[1]
        BY <1>3, <1>6, <1>7
  <2>2. \A m \in 1..Len(h) : m # 1 => h[m].i # 2
        BY <1>3, <1>6, <1>7
  <2>3. OffersIn(h) = one
        BY <1>3, <2>1, <2>2, OffersOnce
  <2> QED BY <1>0, <1>5, <1>7, <2>3 DEF s
<1>8. CASE i > 2 \/ i + n <= 2
  <2>1. \A m \in 1..Len(h) : h[m].i # 2
        BY <1>3, <1>6, <1>8
  <2>2. OffersIn(h) = <<>>
        BY <1>3, <2>1, OffersNone
  <2>3. OffersIn(t) \in Seq(Offers)
        BY <1>2, OffersType
  <2>4. OffersIn(s) = OffersIn(t)
        BY <1>5, <2>2, <2>3, ConcatEmptySeq
  <2> QED BY <1>0, <1>8, <2>4 DEF s
<1> QED BY <1>7, <1>8 DEF s

LEMMA TailOfOne ==
  ASSUME NEW o \in Offers, NEW u \in Seq(Offers)
  PROVE  /\ <<o>> \o u # <<>> /\ Head(<<o>> \o u) = o
         /\ Tail(<<o>> \o u) = u
<1> DEFINE one == <<o>>
           s == one \o u
<1>1. one \in Seq(Offers) /\ Len(one) = 1 /\ one[1] = o
      OBVIOUS
<1>2. Len(u) \in Nat
      BY LenProperties
<1> HIDE DEF one
<1>3. /\ s \in Seq(Offers) /\ Len(s) = 1 + Len(u)
      /\ \A j \in 1..(1 + Len(u)) : s[j] = IF j <= 1 THEN one[j] ELSE u[j - 1]
  <2>1. /\ s \in Seq(Offers) /\ Len(s) = Len(one) + Len(u)
        /\ \A j \in 1..(Len(one) + Len(u)) :
             s[j] = IF j <= Len(one) THEN one[j] ELSE u[j - Len(one)]
        BY <1>1, ConcatProperties
  <2> HIDE DEF s
  <2> QED BY <1>1, <2>1
<1> HIDE DEF s
<1>4. s # <<>> /\ s[1] = o
  <2>1. 1 \in 1..(1 + Len(u))
        BY <1>2
  <2> QED BY <1>1, <1>2, <1>3, <2>1, EmptySeq
<1>5. /\ Head(s) = s[1] /\ Tail(s) \in Seq(Offers)
      /\ Len(Tail(s)) = Len(s) - 1
      /\ \A j \in 1..Len(Tail(s)) : Tail(s)[j] = s[j + 1]
      BY <1>3, <1>4, HeadTailProperties
<1>6. \A j \in 1..Len(Tail(s)) : Tail(s)[j] = u[j]
  <2> TAKE j \in 1..Len(Tail(s))
  <2>1. /\ j + 1 \in 1..(1 + Len(u)) /\ ~ (j + 1 <= 1) /\ (j + 1) - 1 = j
        BY <1>2, <1>3, <1>5
  <2> QED BY <1>3, <1>5, <2>1
<1>7. Len(Tail(s)) = Len(u)
      BY <1>2, <1>3, <1>5
<1>8. Tail(s) = u
      BY <1>5, <1>6, <1>7, SeqEqual
<1> QED BY <1>4, <1>5, <1>8 DEF s, one

(***************************************************************************)
(* Only an Online sink has a message in its hands.                         *)
(***************************************************************************)

\* Before VBUS is found AutoCRC is off and no message has been acknowledged,
\* so that poll_status does not read one; the id of the Request that is being
\* sent is the last one spent.
AnswerInv ==
  /\ state = "WaitForVbus" \/ pc \in {"read_id", "setup"} =>
       ~chip.autoCrc /\ "gcrcsent" \notin chip.latch
  /\ pc \in MessagePcs => state = "Online"
  /\ pc = "tx" => /\ req.offer \in Offers
                  /\ messageId = NextMessageId(req.id)

LEMMA QuietEnvironment ==
  ASSUME TypeOK, Environment, ~chip.autoCrc, "gcrcsent" \notin chip.latch
  PROVE  ~chip'.autoCrc /\ "gcrcsent" \notin chip'.latch
  <1> chip \in ChipStates
      BY DEF TypeOK, SinkTypeOK
  <1>1. ASSUME NEW c \in ChipStates, ~c.autoCrc, "gcrcsent" \notin c.latch
        PROVE  /\ \A k, p : /\ ~Receive(c, k, p).autoCrc
                            /\ "gcrcsent" \notin Receive(c, k, p).latch
               /\ ~VbusChange(c).autoCrc
               /\ "gcrcsent" \notin VbusChange(c).latch
               /\ ~Latch(c, "other").autoCrc
               /\ "gcrcsent" \notin Latch(c, "other").latch
        BY <1>1 DEF Receive, Acks, VbusChange, Latch, ChipStates
  <1>2. CASE Attach \/ Advertise \/ Chatter \/ Readvertise \/ Spurious
        BY <1>1, <1>2
        DEF Attach, Advertise, Chatter, Readvertise, Spurious
  <1>3. CASE Detach
    <2> DEFINE c == [chip EXCEPT !.out = <<>>]
    <2>1. c \in ChipStates /\ ~c.autoCrc /\ "gcrcsent" \notin c.latch
          BY EmptySeq DEF ChipStates
    <2>2. chip' = VbusChange(c)
          BY <1>3 DEF Detach
    <2> HIDE DEF c
    <2> QED BY <1>1, <2>1, <2>2
  <1>4. CASE TakeRequest \/ RetryFail
    <2>1. Taken \in ChipStates
          BY <1>4, TakenType DEF TakeRequest, RetryFail
    <2>2. ~Taken.autoCrc /\ "gcrcsent" \notin Taken.latch
          BY DEF Taken, Latch, ChipStates
    <2> QED BY <1>1, <1>4, <2>1, <2>2 DEF TakeRequest, RetryFail
  <1> QED BY <1>2, <1>3, <1>4 DEF Environment, Wire

LEMMA QuietPlain ==
  ASSUME TypeOK, PcInv, AnswerInv, SinkStep,
         pc \notin MessagePcs \cup {"sw_res", "poll"},
         state' = "WaitForVbus" \/ pc' \in {"read_id", "setup"}
  PROVE  ~chip'.autoCrc /\ "gcrcsent" \notin chip'.latch
  <1> SinkTypeOK /\ chip \in ChipStates /\ state \in States
      BY DEF TypeOK, SinkTypeOK
  <1> USE DEF Abort, Ok, Entry, States
  <1>1. \/ ReadId \/ FusbSetup \/ StartVbus \/ WaitForLow
        \/ CcDelay \/ ProbeCc1 \/ SampleCc1 \/ ProbeCc2 \/ SampleCc2
        \/ EnableCc \/ FusbReset
        BY DEF SinkStep, SwReset, PollStatus, RxStatus, RxToken, RxHeader,
               RxPayload, RxCrc, Send, MessagePcs
  <1>2. ASSUME NEW w \in RegWrites, w.reg \notin {"SwReset", "Switches1"},
               chip' \in {chip, WriteReg(chip, w)},
               state = "WaitForVbus" \/ pc \in {"read_id", "setup"}
        PROVE  ~chip'.autoCrc /\ "gcrcsent" \notin chip'.latch
    <2>1. /\ WriteReg(chip, w).autoCrc = chip.autoCrc
          /\ WriteReg(chip, w).latch = chip.latch
          BY <1>2 DEF WriteReg, FlushRx, FlushTx, Masks, ChipStates, RegWrites
    <2>2. ~chip.autoCrc /\ "gcrcsent" \notin chip.latch
          BY <1>2 DEF AnswerInv
    <2> QED BY <1>2, <2>1, <2>2
  <1>3. CASE ReadId
        BY <1>3 DEF ReadId, AnswerInv
  <1>4. CASE WaitForLow
        BY <1>4 DEF WaitForLow, AnswerInv
  <1>5. CASE FusbSetup
    <2>1. step \in 1..8 /\ pc = "setup"
          BY <1>5 DEF FusbSetup, WriteRun, SinkTypeOK, RunLength
    <2>2. /\ SetupScript[step] \in RegWrites
          /\ SetupScript[step].reg \notin {"SwReset", "Switches1"}
          BY <2>1, RegType DEF SetupScript, Reg
    <2>3. chip' \in {chip, WriteReg(chip, SetupScript[step])}
          BY <1>5 DEF FusbSetup, WriteRun
    <2> QED BY <1>2, <2>1, <2>2, <2>3
  <1>6. CASE StartVbus
    <2>1. step \in 1..2 /\ state = "WaitForVbus"
          BY <1>6 DEF StartVbus, SinkTypeOK, RunLength, PcInv
    <2>2. /\ VbusScript[step] \in RegWrites
          /\ VbusScript[step].reg \notin {"SwReset", "Switches1"}
          BY <2>1, RegType DEF VbusScript, Reg, RegCc, Cc
    <2>3. chip' \in {chip, WriteReg(chip, VbusScript[step])}
          BY <1>6 DEF StartVbus
    <2> QED BY <1>2, <2>1, <2>2, <2>3
  <1>7. CASE CcDelay \/ ProbeCc1 \/ SampleCc1 \/ ProbeCc2 \/ SampleCc2
             \/ EnableCc \/ FusbReset
    <2>1. state = "PollCC"
          BY <1>7 DEF CcDelay, ProbeCc1, SampleCc1, ProbeCc2, SampleCc2,
                      EnableCc, FusbReset, WriteRun, PcInv, CcPcs
    <2>2. /\ state' # "WaitForVbus"
          /\ pc' \notin {"read_id", "setup"}
          BY <1>7, <2>1
          DEF CcDelay, ProbeCc1, SampleCc1, ProbeCc2, SampleCc2,
              EnableCc, FusbReset, WriteRun
    <2> QED BY <2>2
  <1> QED BY <1>1, <1>3, <1>4, <1>5, <1>6, <1>7

LEMMA NextAnswerInv ==
  TypeOK /\ PcInv /\ AnswerInv /\ [Next]_vars => AnswerInv'
<1> SUFFICES ASSUME TypeOK, PcInv, AnswerInv, [Next]_vars PROVE AnswerInv'
    OBVIOUS
<1>0. /\ SinkTypeOK /\ chip \in ChipStates /\ state \in States
      /\ cur \in Message
    BY DEF TypeOK, SinkTypeOK
<1> USE DEF Abort, Ok, Entry, States
<1>1. CASE Environment
  <2>1. UNCHANGED sinkVars
        BY <1>1, EnvironmentEffect
  <2>2. /\ state = "WaitForVbus" \/ pc \in {"read_id", "setup"} =>
             ~chip'.autoCrc /\ "gcrcsent" \notin chip'.latch
        BY <1>1, QuietEnvironment DEF AnswerInv
  <2> QED BY <2>1, <2>2 DEF AnswerInv, sinkVars
<1>2. CASE UNCHANGED vars
      BY <1>2 DEF vars, sinkVars, AnswerInv
<1>3. CASE Reboot
      BY <1>3 DEF Reboot, Boot, AnswerInv, MessagePcs
<1>4. CASE SwReset
  <2>1. /\ pc = "sw_res" /\ state = "Reset" /\ state' = state
        /\ \/ pc' = "sw_res"
           \/ pc' = "read_id" /\ chip' = WriteReg(chip, Reg("SwReset"))
        BY <1>4 DEF SwReset, PcInv, ResetPcs
  <2>2. LET after == WriteReg(chip, Reg("SwReset"))
        IN  ~after.autoCrc /\ after.latch = {}
    <3>0. \A w : w.reg = "SwReset" => WriteReg(chip, w) = SoftReset(chip)
          BY DEF WriteReg, Masks
    <3>1. WriteReg(chip, Reg("SwReset")) = SoftReset(chip)
          BY <3>0 DEF Reg
    <3>2. ~SoftReset(chip).autoCrc /\ SoftReset(chip).latch = {}
          BY DEF SoftReset, ResetChip
    <3> QED BY <3>1, <3>2
  <2> QED BY <2>1, <2>2 DEF AnswerInv, MessagePcs
<1>5. CASE SinkStep /\ pc \notin MessagePcs \cup {"sw_res", "poll"}
  <2>1. pc' \notin MessagePcs
        BY <1>5, PlainStep
  <2> QED BY <1>5, <2>1, QuietPlain DEF AnswerInv, MessagePcs
<1>6. CASE PollStatus
  <2>1. pc = "poll" /\ state # "Reset" /\ state # "PollCC"
        BY <1>6 DEF PollStatus, PcInv, ResetPcs, CcPcs
  <2>2. chip'.autoCrc = chip.autoCrc /\ chip'.latch \subseteq chip.latch
        BY <1>0, <1>6 DEF PollStatus, ClearFlags, ChipStates
  <2>3. \/ pc' = "rx_status" /\ state' = state /\ "gcrcsent" \in chip.latch
        \/ pc' \notin MessagePcs \cup {"read_id", "setup"} /\ state' = state
        \/ /\ pc' \notin MessagePcs \cup {"read_id", "setup"}
           /\ state' \in {"PollCC", "Reset"}
    <3>1. CASE Abort({[chip EXCEPT !.latch = l] : l \in SUBSET chip.latch})
          BY <1>0, <2>1, <3>1 DEF MessagePcs
    <3>2. CASE PollReturns(VbusOk(chip, plug))
          BY <1>0, <2>1, <3>2 DEF PollReturns, MessagePcs
    <3>3. CASE /\ "gcrcsent" \in chip.latch
               /\ pc' = "rx_status" /\ UNCHANGED <<state, ret>>
          BY <3>3
    <3> HIDE DEF Abort
    <3> QED BY <1>6, <3>1, <3>2, <3>3 DEF PollStatus
  <2> QED BY <1>0, <2>1, <2>2, <2>3 DEF AnswerInv, MessagePcs
<1>7. CASE RxStatus \/ RxToken \/ RxHeader \/ RxPayload \/ RxCrc \/ Send
  <2>1. state = "Online" /\ state' \in {"Online", "Reset"}
        BY <1>7 DEF RxStatus, RxToken, RxHeader, RxPayload, RxCrc, Send,
                    PollReturns, NextMessage, AnswerInv, MessagePcs
  <2>2. /\ pc' \notin {"read_id", "setup"}
        /\ pc' \in MessagePcs => state' = "Online"
        BY <1>7, <2>1 DEF RxStatus, RxToken, RxHeader, RxPayload, RxCrc, Send,
                    PollReturns, NextMessage, MessagePcs
  <2>3. pc' = "tx" => /\ req'.offer \in Offers
                      /\ messageId' = NextMessageId(req'.id)
        BY <1>7, <2>1 DEF RxStatus, RxToken, RxHeader, RxPayload, RxCrc, Send,
                    PollReturns, NextMessage, AnswerInv
  <2> QED BY <2>1, <2>2, <2>3 DEF AnswerInv
<1> QED BY <1>1, <1>2, <1>3, <1>4, <1>5, <1>6, <1>7, SinkCases DEF Next

(***************************************************************************)
(* The steps of the system as steps of PdReply.                            *)
(***************************************************************************)

LEMMA PendingType ==
  ASSUME TypeOK, AnswerInv
  PROVE  InHand \in Seq(Offers) /\ Unread \in Seq(Offers)
<1>1. chip.rx \in Seq(Byte)
      BY DEF TypeOK, SinkTypeOK, ChipStates
<1>2. Unread \in Seq(Offers)
      BY <1>1, OffersType DEF Unread
<1>3. \A o \in Offers : <<o>> \in Seq(Offers)
      OBVIOUS
<1>4. <<>> \in Seq(Offers)
      OBVIOUS
<1>5. pc = "tx" => req.offer \in Offers
      BY DEF AnswerInv
<1> QED BY <1>2, <1>3, <1>4, <1>5 DEF InHand

\* With nothing in hand, what is pending is what is in the FIFO.
LEMMA PendingUnread ==
  ASSUME TypeOK, AnswerInv, pc \notin {"rx_payload", "rx_crc", "tx"}
  PROVE  InHand = <<>> /\ Pending = Unread
<1>1. InHand = <<>>
      BY DEF InHand
<1> QED BY <1>1, PendingType, ConcatEmptySeq DEF Pending

LEMMA PendingUnreadNext ==
  ASSUME TypeOK', pc' \notin {"rx_payload", "rx_crc", "tx"}
  PROVE  InHand' = <<>> /\ Pending' = Unread'
<1>1. InHand' = <<>>
      BY DEF InHand
<1>2. chip'.rx \in Seq(Byte)
      BY DEF TypeOK, SinkTypeOK, ChipStates
<1>3. Unread' \in Seq(Offers)
      BY <1>2, OffersType DEF Unread
<1> QED BY <1>1, <1>3, ConcatEmptySeq DEF Pending

\* Going online or offline is a step of its own.
LEMMA TurnOrStutter ==
  ASSUME Pending' = Pending, NextId' = NextId, chip'.out = chip.out,
         boots' = boots
  PROVE  [Reply!Next]_(Reply!vars)
<1>1. CASE Online' = Online
      BY <1>1 DEF Reply!vars
<1>2. CASE Online' # Online
  <2>1. Online' = ~Online
        BY <1>2 DEF Online
  <2>2. Reply!Turn
        BY <2>1 DEF Reply!Turn
  <2> QED BY <2>2 DEF Reply!Next
<1> QED BY <1>1, <1>2

LEMMA RestartStep ==
  ASSUME TypeOK, AnswerInv, TypeOK', Reboot
  PROVE  [Reply!Next]_(Reply!vars)
<1>1. /\ boots' = boots + 1 /\ chip' = chip /\ pc' = "sw_res"
      /\ state' = "Reset" /\ messageId' = 0
      BY DEF Reboot, Boot, FirstId
<1>2. Pending' = Unread'
      BY <1>1, PendingUnreadNext
<1>3. Unread' = Unread
      BY <1>1 DEF Unread
<1>4. ~Online' /\ NextId' = 0
      BY <1>1 DEF Online, NextId
<1>5. \/ Pending' = Pending
      \/ Pending # <<>> /\ Pending' = Tail(Pending)
  <2>1. CASE InHand = <<>>
    <3>1. Pending = Unread
          BY <2>1, PendingType, ConcatEmptySeq DEF Pending
    <3> QED BY <1>2, <1>3, <3>1, Zenon
  <2>2. CASE InHand # <<>>
    <3>1. PICK o \in Offers : InHand = <<o>>
          BY <2>2 DEF InHand, AnswerInv
    <3>2. Pending # <<>> /\ Tail(Pending) = Unread
          BY <3>1, PendingType, TailOfOne DEF Pending
    <3> QED BY <1>2, <1>3, <3>2
  <2> QED BY <2>1, <2>2
<1>6. Reply!Restart
      BY <1>1, <1>4, <1>5 DEF Reply!Restart
<1> QED BY <1>6 DEF Reply!Next

LEMMA TakeInStep ==
  ASSUME TypeOK, AnswerInv, NEW k \in Offers, NEW a \in BOOLEAN,
         chip'.rx = chip.rx \o Frame(k, a), InHand' = InHand,
         chip'.out = chip.out, Online' = Online, NextId' = NextId,
         boots' = boots
  PROVE  [Reply!Next]_(Reply!vars)
<1>1. chip.rx \in Seq(Byte) /\ k \in Kinds
      BY DEF TypeOK, SinkTypeOK, ChipStates, Kinds
<1>2. Frame(k, a) \in Seq(Byte) /\ OffersIn(Frame(k, a)) = <<k>>
      BY <1>1, FrameType, OffersFrame
<1>3. Unread' = Unread \o <<k>>
  <2>1. OffersIn(chip.rx \o Frame(k, a)) = OffersIn(chip.rx) \o <<k>>
        BY <1>1, <1>2, OffersConcat
  <2> QED BY <2>1 DEF Unread
<1>4. InHand \in Seq(Offers) /\ Unread \in Seq(Offers)
      BY PendingType
<1>5. Unread \o <<k>> = Append(Unread, k)
      BY <1>4, AppendIsConcat
<1>6. Pending' = Append(Pending, k)
  <2>1. InHand \o Append(Unread, k) = Append(InHand \o Unread, k)
        BY <1>4, AppendConcat
  <2> QED BY <1>3, <1>5, <2>1 DEF Pending
<1>7. Reply!TakeIn(k)
      BY <1>6 DEF Reply!TakeIn
<1> QED BY <1>7 DEF Reply!Next

\* The cable and the source: a frame comes in, or a packet leaves the wire, or
\* neither; only a frame that is no offer comes in as a packet leaves.
LEMMA EnvironmentFrames ==
  ASSUME TypeOK, Environment
  PROVE  /\ boots' = boots
         /\ \/ chip'.out = chip.out
            \/ chip.out # <<>> /\ chip'.out \in {Tail(chip.out), <<>>}
         /\ \/ chip'.rx = chip.rx
            \/ \E k \in {"vdm", "ctrl", "goodcrc"}, a \in BOOLEAN :
                 chip'.rx = chip.rx \o Frame(k, a)
            \/ /\ chip'.out = chip.out
               /\ \E k \in Offers, a \in BOOLEAN :
                    chip'.rx = chip.rx \o Frame(k, a)
  <1> chip \in ChipStates
      BY DEF TypeOK, SinkTypeOK
  <1>1. ASSUME NEW c \in ChipStates, NEW k, NEW p
        PROVE  /\ Acks(c, k, p) \in BOOLEAN
               /\ Receive(c, k, p).out = c.out
               /\ Receive(c, k, p).rx = c.rx \o Frame(k, Acks(c, k, p))
        BY DEF Receive, Acks, ChipStates
  <1>2. CASE Attach
        BY <1>2 DEF Attach, VbusChange, Latch, ChipStates, srcVars
  <1>3. CASE Detach
        BY <1>3 DEF Detach, VbusChange, Latch, ChipStates, srcVars
  <1>4. CASE Advertise
    <2>1. offer \in Offers /\ chip' = Receive(chip, offer, plug)
          BY <1>4 DEF Advertise, TypeOK
    <2>2. boots' = boots
          BY <1>4 DEF Advertise
    <2>3. /\ chip'.out = chip.out
          /\ chip'.rx = chip.rx \o Frame(offer, Acks(chip, offer, plug))
          /\ Acks(chip, offer, plug) \in BOOLEAN
          BY <1>1, <2>1
    <2> QED BY <2>1, <2>2, <2>3, Zenon
  <1>5. CASE Chatter
    <2>1. PICK k \in {"vdm", "ctrl"} : chip' = Receive(chip, k, plug)
          BY <1>5 DEF Chatter
    <2>2. boots' = boots
          BY <1>5 DEF Chatter, srcVars
    <2>3. /\ chip'.out = chip.out
          /\ chip'.rx = chip.rx \o Frame(k, Acks(chip, k, plug))
          /\ Acks(chip, k, plug) \in BOOLEAN
          BY <1>1, <2>1
    <2>4. k \in {"vdm", "ctrl", "goodcrc"}
          OBVIOUS
    <2> QED BY <2>2, <2>3, <2>4, Zenon
  <1>6. CASE Readvertise
        BY <1>6 DEF Readvertise
  <1>7. /\ Taken.rx = chip.rx /\ Taken.out = Tail(chip.out)
        BY DEF Taken, Latch, ChipStates
  <1>8. CASE TakeRequest
    <2>1. Taken \in ChipStates
          BY <1>8, TakenType DEF TakeRequest
    <2>2. chip' = Taken \/ chip' = Receive(Taken, "goodcrc", plug)
          BY <1>8 DEF TakeRequest
    <2>3. chip.out # <<>> /\ boots' = boots
          BY <1>8 DEF TakeRequest
    <2>4. CASE chip' = Taken
          BY <1>7, <2>3, <2>4
    <2>5. CASE chip' = Receive(Taken, "goodcrc", plug)
      <3>1. /\ chip'.out = Tail(chip.out)
            /\ chip'.rx = chip.rx \o Frame("goodcrc", Acks(Taken, "goodcrc", plug))
            /\ Acks(Taken, "goodcrc", plug) \in BOOLEAN
        <4>1. /\ Acks(Taken, "goodcrc", plug) \in BOOLEAN
              /\ Receive(Taken, "goodcrc", plug).out = Taken.out
              /\ Receive(Taken, "goodcrc", plug).rx
                   = Taken.rx \o Frame("goodcrc", Acks(Taken, "goodcrc", plug))
              BY <1>1, <2>1, Zenon
        <4> QED BY <1>7, <2>5, <4>1, Zenon
      <3>2. "goodcrc" \in {"vdm", "ctrl", "goodcrc"}
            OBVIOUS
      <3>3. chip'.out \in {Tail(chip.out), <<>>}
            BY <3>1
      <3> QED BY <2>3, <3>1, <3>2, <3>3, Zenon
    <2> QED BY <2>2, <2>4, <2>5
  <1>9. CASE RetryFail
        BY <1>7, <1>9 DEF RetryFail
  <1>10. CASE Spurious
         BY <1>10 DEF Spurious, Latch, ChipStates, srcVars
  <1> QED BY <1>2, <1>3, <1>4, <1>5, <1>6, <1>8, <1>9, <1>10
          DEF Environment, Wire

LEMMA EnvironmentStep ==
  ASSUME TypeOK, AnswerInv, Environment
  PROVE  [Reply!Next]_(Reply!vars)
<1>1. pc' = pc /\ cur' = cur /\ req' = req /\ state' = state
      /\ messageId' = messageId
      BY EnvironmentEffect DEF sinkVars
<1>2. InHand' = InHand /\ NextId' = NextId /\ Online' = Online
      BY <1>1 DEF InHand, NextId, Online
<1>3. boots' = boots
      BY EnvironmentFrames
<1>4. CASE /\ chip'.out = chip.out
           /\ \E k \in Offers, a \in BOOLEAN :
                chip'.rx = chip.rx \o Frame(k, a)
      BY <1>2, <1>3, <1>4, TakeInStep
<1>5. CASE \/ chip'.rx = chip.rx
           \/ \E k \in {"vdm", "ctrl", "goodcrc"}, a \in BOOLEAN :
                chip'.rx = chip.rx \o Frame(k, a)
  <2>1. chip.rx \in Seq(Byte)
        BY DEF TypeOK, SinkTypeOK, ChipStates
  <2>2. OffersIn(chip'.rx) = OffersIn(chip.rx)
    <3>1. ASSUME NEW k \in {"vdm", "ctrl", "goodcrc"}, NEW a \in BOOLEAN,
                 chip'.rx = chip.rx \o Frame(k, a)
          PROVE  OffersIn(chip'.rx) = OffersIn(chip.rx)
      <4>1. k \in Kinds /\ k \notin Offers
            BY FusbAssumption DEF Kinds
      <4>2. Frame(k, a) \in Seq(Byte) /\ OffersIn(Frame(k, a)) = <<>>
            BY <4>1, FrameType, OffersFrame
      <4>3. OffersIn(chip.rx \o Frame(k, a)) = OffersIn(chip.rx) \o <<>>
            BY <2>1, <4>2, OffersConcat
      <4>4. OffersIn(chip.rx) \o <<>> = OffersIn(chip.rx)
            BY <2>1, OffersType, ConcatEmptySeq
      <4> QED BY <3>1, <4>3, <4>4
    <3> QED BY <1>5, <3>1
  <2>3. Pending' = Pending
        BY <1>2, <2>2 DEF Pending, Unread
  <2>4. CASE chip'.out = chip.out
        BY <1>2, <1>3, <2>3, <2>4, TurnOrStutter
  <2>5. CASE chip.out # <<>> /\ chip'.out \in {Tail(chip.out), <<>>}
    <3>1. Reply!Leaves
          BY <1>2, <1>3, <2>3, <2>5 DEF Reply!Leaves
    <3> QED BY <3>1 DEF Reply!Next
  <2> QED BY <2>4, <2>5, EnvironmentFrames
<1> QED BY <1>4, <1>5, EnvironmentFrames

\* A write that flushes the receive FIFO, or one that does not.
LEMMA ForgetOrStutter ==
  ASSUME TypeOK, AnswerInv, TypeOK',
         pc \notin {"rx_payload", "rx_crc", "tx"},
         pc' \notin {"rx_payload", "rx_crc", "tx"},
         chip'.rx = chip.rx \/ (chip'.rx = <<>> /\ ~Online /\ ~Online'),
         chip'.out = chip.out, messageId' = messageId, boots' = boots
  PROVE  [Reply!Next]_(Reply!vars)
<1>1. Pending = Unread /\ Pending' = Unread'
      BY PendingUnread, PendingUnreadNext
<1>2. NextId' = NextId
      BY DEF NextId
<1>3. CASE chip'.rx = chip.rx
  <2>1. Pending' = Pending
        BY <1>1, <1>3 DEF Unread
  <2> QED BY <1>2, <2>1, TurnOrStutter
<1>4. CASE chip'.rx = <<>> /\ ~Online /\ ~Online'
  <2>1. OffersIn(<<>>) = <<>>
    <3>1. <<>> \in Seq(Byte) /\ Len(<<>>) = 0 /\ 1..0 = {}
          BY EmptySeq
    <3> QED BY <3>1, OffersNone
  <2>2. Pending' = <<>>
        BY <1>1, <1>4, <2>1 DEF Unread
  <2>3. Online' = Online
        BY <1>4 DEF Online
  <2>4. Reply!Forget
        BY <1>2, <1>4, <2>2, <2>3 DEF Reply!Forget
  <2> QED BY <2>4 DEF Reply!Next
<1> QED BY <1>3, <1>4

LEMMA PlainReply ==
  ASSUME TypeOK, PcInv, AnswerInv, TypeOK', Sink,
         pc \notin MessagePcs \cup {"sw_res", "poll"}
  PROVE  [Reply!Next]_(Reply!vars)
  <1> SinkTypeOK /\ chip \in ChipStates /\ state \in States
      BY DEF TypeOK, SinkTypeOK
  <1>0. SinkStep /\ boots' = boots
        BY DEF Sink
  <1>1. /\ chip'.rx \in {chip.rx, <<>>} /\ chip'.out = chip.out
        /\ pc' \notin MessagePcs
        BY <1>0, PlainStep
  <1>2. \/ ReadId \/ FusbSetup \/ StartVbus \/ WaitForLow
        \/ CcDelay \/ ProbeCc1 \/ SampleCc1 \/ ProbeCc2 \/ SampleCc2
        \/ EnableCc \/ FusbReset
        BY <1>0 DEF SinkStep, SwReset, PollStatus, RxStatus, RxToken, RxHeader,
               RxPayload, RxCrc, Send, MessagePcs
  <1>3. messageId' = messageId
        BY <1>2 DEF ReadId, FusbSetup, StartVbus, WaitForLow, CcDelay,
                    ProbeCc1, SampleCc1, ProbeCc2, SampleCc2, EnableCc,
                    FusbReset, WriteRun, Abort
  <1>4. chip'.rx = chip.rx \/ (~Online /\ ~Online')
    <2>1. CASE WaitForLow
          BY <2>1 DEF WaitForLow
    <2>2. CASE ReadId \/ FusbSetup \/ StartVbus
      <3>1. state \in {"Reset", "WaitForVbus"}
            BY <2>2 DEF ReadId, FusbSetup, StartVbus, WriteRun, PcInv, ResetPcs
      <3>2. state' \in {state, "WaitForVbus"}
            BY <2>2 DEF ReadId, FusbSetup, StartVbus, WriteRun, Abort
      <3> QED BY <3>1, <3>2 DEF Online
    <2>3. CASE CcDelay \/ ProbeCc1 \/ SampleCc1 \/ ProbeCc2 \/ SampleCc2
               \/ EnableCc
      <3>1. state = "PollCC" /\ state' = state
            BY <2>3 DEF CcDelay, ProbeCc1, SampleCc1, ProbeCc2, SampleCc2,
                        EnableCc, WriteRun, Abort, PcInv, CcPcs
      <3> QED BY <3>1 DEF Online
    <2>4. CASE FusbReset
      <3>1. state = "PollCC" /\ step \in 1..3
            BY <2>4 DEF FusbReset, WriteRun, PcInv, CcPcs, SinkTypeOK, RunLength
      <3>2. CASE state' = "PollCC"
            BY <3>1, <3>2 DEF Online
      <3>3. CASE state' # "PollCC"
        <4>1. step = 3 /\ chip' = WriteReg(chip, FusbResetScript[3])
              BY <2>4, <3>1, <3>3
              DEF FusbReset, WriteRun, Abort, Ok, FusbResetScript
        <4>2. /\ FusbResetScript[3] = Reg("PdReset")
              /\ Reg("PdReset").reg = "PdReset"
              /\ Reg("PdReset") \in RegWrites
              BY RegType DEF FusbResetScript, Reg
        <4>3. chip'.rx = chip.rx
              BY <4>1, <4>2, WriteRegEffect
        <4> QED BY <4>3
      <3> QED BY <3>2, <3>3
    <2> QED BY <1>2, <2>1, <2>2, <2>3, <2>4
  <1>5. chip'.rx = chip.rx \/ (chip'.rx = <<>> /\ ~Online /\ ~Online')
        BY <1>1, <1>4
  <1> QED BY <1>0, <1>1, <1>3, <1>5, ForgetOrStutter DEF MessagePcs

LEMMA SwResetReply ==
  ASSUME TypeOK, PcInv, AnswerInv, TypeOK', SwReset, errs' = errs,
         boots' = boots
  PROVE  [Reply!Next]_(Reply!vars)
<1>1. pc = "sw_res" /\ pc' = "read_id" /\ messageId' = messageId
      /\ state' = state /\ state = "Reset"
  <2>1. errs \in Nat
        BY DEF TypeOK, SinkTypeOK
  <2>2. \A f : ~Abort(f)
        BY <2>1 DEF Abort
  <2> QED BY <2>2 DEF SwReset, PcInv, ResetPcs
<1>2. chip'.rx = <<>> /\ chip'.out = chip.out
      BY <1>1, ResetStep
<1>3. ~Online /\ ~Online'
      BY <1>1 DEF Online
<1> QED BY <1>1, <1>2, <1>3, ForgetOrStutter

LEMMA PollReply ==
  ASSUME TypeOK, PcInv, AnswerInv, TypeOK', PollStatus \/ RxStatus,
         boots' = boots
  PROVE  [Reply!Next]_(Reply!vars)
<1>0. chip \in ChipStates /\ state \in States
      BY DEF TypeOK, SinkTypeOK
<1>1. chip'.rx = chip.rx /\ messageId' = messageId
      BY <1>0 DEF PollStatus, RxStatus, Abort, Ok, ClearFlags, ChipStates
<1>2. chip'.out = chip.out
      BY ReadStep
<1>3. pc \in {"poll", "rx_status"}
      BY DEF PollStatus, RxStatus
<1>4. pc' \notin {"rx_payload", "rx_crc", "tx"}
      BY <1>0 DEF PollStatus, RxStatus, PollReturns, Abort, Entry, States
<1> QED BY <1>1, <1>2, <1>3, <1>4, ForgetOrStutter

\* The reads of handle_new_data take an offer from the FIFO into the hands of
\* the sink, byte by byte.
LEMMA ReadReply ==
  ASSUME TypeOK, FrameInv, AnswerInv, TypeOK', errs = 0, errs' = errs,
         RxToken \/ RxHeader \/ RxPayload \/ RxCrc, boots' = boots
  PROVE  [Reply!Next]_(Reply!vars)
<1> DEFINE k == chip.rx[1].k
<1>0. /\ chip \in ChipStates /\ cur \in Message /\ chip.rx \in Seq(Byte)
      /\ \A f : ~Abort(f)
      BY DEF TypeOK, SinkTypeOK, ChipStates, Abort
<1>1. /\ Linked(chip.rx) /\ pc # "sw_res" /\ pc # "tx"
      /\ \A f : FrameLen(f) = 7 + 4 * NumObjects(f) /\ NumObjects(f) \in {0, 1}
  <2>1. pc # "sw_res" /\ pc # "tx"
        BY DEF RxToken, RxHeader, RxPayload, RxCrc
  <2> QED BY <2>1 DEF FrameInv, FrameLen, NumObjects
<1>2. \A n : Aligned(n) <=> HeadAt(chip.rx, n)
  <2>1. chip.rx # <<>> => Head(chip.rx) = chip.rx[1]
        BY <1>0, HeadTailProperties
  <2> QED BY <2>1 DEF Aligned, HeadAt
<1>3. chip'.out = chip.out
      BY ReadStep
<1>4. ASSUME InHand' \o Unread' = Pending, NextId' = NextId
      PROVE  [Reply!Next]_(Reply!vars)
  <2>1. Pending' = Pending
        BY <1>4 DEF Pending
  <2> QED BY <1>3, <1>4, <2>1, TurnOrStutter
<1>5. Unread \in Seq(Offers) /\ Unread' \in Seq(Offers)
  <2>1. chip'.rx \in Seq(Byte)
        BY DEF TypeOK, SinkTypeOK, ChipStates
  <2> QED BY <1>0, <2>1, OffersType DEF Unread
<1> DEFINE one == IF k \in Offers THEN <<k>> ELSE <<>>
<1>6. ASSUME NEW i \in Nat, HeadAt(chip.rx, i), NEW n \in {1, 2, 4},
             i + n <= FrameLen(k) + 1, chip' = Pop(chip, n)
      PROVE  /\ i = 2 => Unread = one \o Unread'
             /\ i > 2 \/ i + n <= 2 => Unread = Unread'
  <2>1. Unread' = OffersIn(Pop(chip, n).rx)
        BY <1>6 DEF Unread
  <2> QED BY <1>0, <1>1, <1>6, <2>1, OffersPop DEF Unread
<1>7. CASE RxToken
  <2>1. HeadAt(chip.rx, 1) /\ pc = "rx_token"
        BY <1>7 DEF RxToken, FrameInv, AtStart, HeadAt
  <2>2. /\ pc' = "rx_header" /\ chip' = Pop(chip, 1)
        /\ messageId' = messageId
        BY <1>0, <1>2, <1>7, <2>1 DEF RxToken, Ok
  <2>3. 1 + 1 <= FrameLen(k) + 1
        BY <1>1
  <2> HIDE DEF k
  <2>4. Unread = Unread'
        BY <1>6, <2>1, <2>2, <2>3
  <2>5. InHand = <<>> /\ InHand' = <<>> /\ NextId' = NextId
        BY <2>1, <2>2 DEF InHand, NextId
  <2>6. InHand' \o Unread' = Pending
        BY <2>4, <2>5 DEF Pending
  <2> QED BY <1>4, <2>5, <2>6
<1>8. CASE RxHeader
  <2>1. HeadAt(chip.rx, 2) /\ pc = "rx_header"
        BY <1>8 DEF RxHeader, FrameInv
  <2>2. /\ chip' = Pop(chip, 2) /\ cur'.k = k /\ messageId' = messageId
        /\ pc' \in {"rx_payload", "rx_crc"}
    <3>1. Header = {[k |-> k, good |-> TRUE]}
      <4>1. Head(chip.rx) = chip.rx[1]
            BY <1>0, <2>1, HeadTailProperties DEF HeadAt
      <4> QED BY <1>2, <2>1, <4>1, Zenon DEF Header
    <3> QED BY <1>0, <1>8, <3>1 DEF RxHeader, Ok
  <2>3. 2 + 2 <= FrameLen(k) + 1
        BY <1>1
  <2> HIDE DEF k
  <2>4. Unread = one \o Unread'
        BY <1>6, <2>1, <2>2, <2>3
  <2>5. InHand = <<>> /\ InHand' = one /\ NextId' = NextId
        BY <2>1, <2>2 DEF InHand, NextId
  <2> HIDE DEF one
  <2>6. Pending = Unread
        BY <1>5, <2>5, ConcatEmptySeq DEF Pending
  <2>7. InHand' \o Unread' = Pending
        BY <2>4, <2>5, <2>6
  <2> QED BY <1>4, <2>5, <2>7
<1>9. CASE RxPayload
  <2>1. /\ NumObjects(cur.k) = 1 /\ HeadAt(chip.rx, 4) /\ k = cur.k
        /\ pc = "rx_payload"
        BY <1>9 DEF RxPayload, FrameInv
  <2>2. /\ chip' = Pop(chip, 4) /\ pc' = "rx_crc" /\ cur' = cur
        /\ messageId' = messageId
        BY <1>0, <1>9, <2>1 DEF RxPayload, Ok
  <2>3. 4 + 4 <= FrameLen(k) + 1
        BY <1>1, <2>1
  <2> HIDE DEF k
  <2>4. Unread = Unread'
        BY <1>6, <2>1, <2>2, <2>3
  <2>5. InHand' = InHand /\ NextId' = NextId
        BY <2>1, <2>2 DEF InHand, NextId
  <2>6. InHand' \o Unread' = Pending
        BY <2>4, <2>5 DEF Pending
  <2> QED BY <1>4, <2>5, <2>6
<1>10. CASE RxCrc
  <2>1. /\ HeadAt(chip.rx, FrameLen(cur.k) - 3) /\ k = cur.k
        /\ pc = "rx_crc"
        BY <1>10 DEF RxCrc, FrameInv
  <2>2. /\ chip' = Pop(chip, 4) /\ cur' = cur
        /\ IF cur.k \in Offers
           THEN pc' = "tx" /\ req'.offer = cur.k /\ req'.id = messageId
           ELSE pc' = "rx_status" /\ messageId' = messageId
        BY <1>0, <1>10 DEF RxCrc, Ok, DropCrc, NextMessage
  <2>3. /\ FrameLen(k) - 3 \in Nat /\ FrameLen(k) - 3 > 2
        /\ (FrameLen(k) - 3) + 4 <= FrameLen(k) + 1
        BY <1>1
  <2> HIDE DEF k
  <2>4. Unread = Unread'
    <3>1. 4 \in {1, 2, 4} /\ HeadAt(chip.rx, FrameLen(k) - 3)
          BY <2>1
    <3> QED BY <1>6, <2>2, <2>3, <3>1
  <2>5. InHand' = InHand /\ NextId' = NextId
        BY <2>1, <2>2 DEF InHand, NextId
  <2>6. InHand' \o Unread' = Pending
        BY <2>4, <2>5 DEF Pending
  <2> QED BY <1>4, <2>5, <2>6
<1> QED BY <1>7, <1>8, <1>9, <1>10

\* The third write of send is the answer.
LEMMA SendReply ==
  ASSUME TypeOK, FrameInv, TxInv, AnswerInv, TypeOK', errs = 0, errs' = errs,
         Send, boots' = boots
  PROVE  [Reply!Next]_(Reply!vars)
<1>0. /\ chip \in ChipStates /\ req \in Requests /\ chip.out \in Seq(Requests)
      /\ chip.tx \in Seq(TxChunks) /\ \A f : ~Abort(f)
      BY DEF TypeOK, SinkTypeOK, ChipStates, Abort
<1>1. /\ pc = "tx" /\ step \in 1..3 /\ state = "Online" /\ state' = state
      /\ chip' = WriteFifo(chip, SendParts[step], req)
      /\ step < 3 => pc' = "tx" /\ step' = step + 1
      /\ step = 3 => pc' = "rx_status"
      /\ messageId' = messageId /\ cur' = cur /\ req' = req
  <2>1. pc = "tx" /\ step \in 1..3
        BY SendStep
  <2> QED BY <1>0, <2>1 DEF Send, Ok, NextMessage, SendParts, AnswerInv,
                            MessagePcs
<1>2. /\ SendParts[step] \in {"sop", "data", "eop"}
      /\ step < 3 <=> SendParts[step] # "eop"
      BY <1>1 DEF SendParts
<1>3. chip'.rx = chip.rx
      BY <1>0, <1>1, <1>2, WriteFifoEffect
<1>4. Unread' = Unread
      BY <1>3 DEF Unread
<1>5. InHand = <<req.offer>> /\ NextId = req.id /\ Online
      BY <1>1 DEF InHand, NextId, Online
<1>6. CASE step < 3
  <2>1. InHand' = InHand /\ NextId' = NextId
        BY <1>1, <1>5, <1>6 DEF InHand, NextId
  <2>2. chip'.out = chip.out
        BY <1>0, <1>1, <1>2, <1>6, WriteFifoEffect
  <2>3. Pending' = Pending
        BY <1>4, <2>1 DEF Pending
  <2> QED BY <2>1, <2>2, <2>3, TurnOrStutter
<1>7. CASE step = 3
  <2> DEFINE packet == [offer |-> req.offer, good |-> TRUE, id |-> req.id]
  <2>1. chip'.out = Append(chip.out, packet)
    <3>1. req.good /\ FramedTx
          BY <1>1 DEF FrameInv, TxInv
    <3> DEFINE chunk  == [part |-> "eop", req |-> req]
               chunks == Append(chip.tx, chunk)
    <3>2. chunk \in TxChunks
          BY <1>0 DEF TxChunks
    <3>3. WellFormed(chunks)
      <4>1. /\ Len(chip.tx) = 2
            /\ \A j \in 1..2 : chip.tx[j].part = Parts[j]
            BY <1>1, <1>7, <3>1 DEF FramedTx
      <4> HIDE DEF chunk
      <4>2. /\ Len(chunks) = 3 /\ chunks[3] = chunk
            /\ \A j \in 1..2 : chunks[j] = chip.tx[j]
        <5>1. /\ Len(chunks) = Len(chip.tx) + 1
              /\ chunks[Len(chip.tx) + 1] = chunk
              /\ \A j \in 1..Len(chip.tx) : chunks[j] = chip.tx[j]
              BY <1>0, <3>2, AppendProperties
        <5> HIDE DEF chunks
        <5> QED BY <4>1, <5>1
      <4>3. chunk.part = Parts[3]
            BY DEF chunk, Parts
      <4> HIDE DEF chunks
      <4>4. ASSUME NEW j \in 1..3 PROVE chunks[j].part = Parts[j]
        <5>1. j \in 1..2 \/ j = 3
              OBVIOUS
        <5> QED BY <4>1, <4>2, <4>3, <5>1
      <4> QED BY <4>2, <4>4 DEF WellFormed
    <3>4. SendParts[step] = "eop"
          BY <1>7 DEF SendParts
    <3>5. chip'.out = Append(chip.out, [req EXCEPT !.good =
                                          @ /\ WellFormed(chunks)])
          BY <1>0, <1>1, <3>4, WriteFifoEffect
    <3> HIDE DEF chunks
    <3>6. [req EXCEPT !.good = @ /\ WellFormed(chunks)] = packet
          BY <1>0, <3>1, <3>3 DEF Requests
    <3> QED BY <3>5, <3>6
  <2>2. Pending # <<>> /\ Head(Pending) = req.offer /\ Tail(Pending) = Unread
    <3>1. req.offer \in Offers /\ Unread \in Seq(Offers)
          BY <1>1, PendingType DEF AnswerInv
    <3> QED BY <1>5, <3>1, TailOfOne DEF Pending
  <2>3. Pending' = Unread'
        BY <1>1, <1>7, PendingUnreadNext
  <2>4. NextId' = NextMessageId(NextId) /\ Online' = Online
        BY <1>1, <1>5, <1>7 DEF NextId, Online, AnswerInv
  <2>5. Reply!Answer
        BY <1>4, <1>5, <2>1, <2>2, <2>3, <2>4
        DEF Reply!Answer, NextMessageId
  <2> QED BY <2>5 DEF Reply!Next
<1> QED BY <1>1, <1>6, <1>7

LEMMA SinkReply ==
  ASSUME IInv, CleanInv, AnswerInv, TypeOK', errs = 0, errs' = 0, Sink
  PROVE  [Reply!Next]_(Reply!vars)
<1>1. /\ TypeOK /\ PcInv /\ FrameInv /\ TxInv /\ errs' = errs
      /\ boots' = boots
      BY DEF IInv, CleanInv, Sink
<1>2. CASE SwReset
      BY <1>1, <1>2, SwResetReply
<1>3. CASE PollStatus \/ RxStatus
      BY <1>1, <1>3, PollReply
<1>4. CASE RxToken \/ RxHeader \/ RxPayload \/ RxCrc
      BY <1>1, <1>4, ReadReply
<1>5. CASE Send
      BY <1>1, <1>5, SendReply
<1>6. CASE SinkStep /\ pc \notin MessagePcs \cup {"sw_res", "poll"}
      BY <1>1, <1>6, PlainReply
<1> QED BY <1>2, <1>3, <1>4, <1>5, <1>6, SinkCases

\* As long as no transfer fails, the sink implements PdReply, whatever the
\* source sends and when, however many packets are lost and wherever in its
\* reads and writes the firmware restarts.
THEOREM PdImplementsReply == Spec /\ [](errs = 0) => ImplementsReply
<1>1. Init => Reply!Init
  <2> SUFFICES ASSUME Init PROVE Reply!Init
      OBVIOUS
  <2>1. /\ pc = "sw_res" /\ state = "Reset" /\ messageId = 0 /\ boots = 0
        /\ chip.rx = <<>> /\ chip.out = <<>>
        BY DEF Init, SinkInit, ResetChip
  <2>2. InHand = <<>> /\ NextId = 0 /\ Online = FALSE
        BY <2>1 DEF InHand, NextId, Online
  <2>3. <<>> \in Seq(Byte) /\ Len(<<>>) = 0 /\ 1..0 = {}
        BY EmptySeq
  <2>4. Unread = <<>>
        BY <2>1, <2>3, OffersNone DEF Unread
  <2>5. Pending = <<>>
    <3>1. <<>> \in Seq(Offers)
          BY EmptySeq
    <3> QED BY <2>2, <2>4, <3>1, ConcatEmptySeq DEF Pending
  <2> QED BY <2>1, <2>2, <2>5 DEF Reply!Init
<1>2. IInv /\ CleanInv /\ AnswerInv /\ IInv' /\ errs = 0 /\ errs' = 0
        /\ [Next]_vars => [Reply!Next]_(Reply!vars)
  <2> SUFFICES ASSUME IInv, CleanInv, AnswerInv, IInv', errs = 0, errs' = 0,
                      [Next]_vars
               PROVE  [Reply!Next]_(Reply!vars)
      OBVIOUS
  <2>1. TypeOK /\ TypeOK'
        BY DEF IInv
  <2>2. CASE Sink
        BY <2>1, <2>2, SinkReply
  <2>3. CASE Reboot
        BY <2>1, <2>3, RestartStep
  <2>4. CASE Environment
        BY <2>1, <2>4, EnvironmentStep
  <2>5. CASE UNCHANGED vars
    <3>1. /\ InHand' = InHand /\ Unread' = Unread /\ NextId' = NextId
          /\ chip' = chip /\ boots' = boots
          BY <2>5 DEF vars, srcVars, sinkVars, InHand, Unread, NextId
    <3>2. Pending' = Pending
          BY <3>1 DEF Pending
    <3> QED BY <3>1, <3>2, TurnOrStutter
  <2> QED BY <2>2, <2>3, <2>4, <2>5 DEF Next
<1>3. Init => AnswerInv
      BY DEF Init, SinkInit, AnswerInv, MessagePcs
<1>4. IInv /\ AnswerInv /\ [Next]_vars => AnswerInv'
      BY NextAnswerInv DEF IInv
<1>5. Spec => [](IInv /\ CleanInv /\ AnswerInv)
      BY <1>3, <1>4, CleanInvHolds, PTL DEF Spec
<1>6. Spec /\ [](errs = 0) => [][Reply!Next]_(Reply!vars)
  <2> DEFINE NoErr == errs = 0
             Inv == IInv /\ CleanInv /\ AnswerInv
             Does == [Reply!Next]_(Reply!vars)
  <2>1. Inv /\ Inv' /\ NoErr /\ NoErr' /\ [Next]_vars => Does
        BY <1>2
  <2>2. Spec => []Inv
        BY <1>5
  <2> HIDE DEF NoErr, Inv
  <2>3. Spec /\ []NoErr => [][Reply!Next]_(Reply!vars)
        BY <2>1, <2>2, PTL DEF Spec
  <2> QED BY <2>3 DEF NoErr
<1>7. Spec => Reply!Init
      BY <1>1 DEF Spec
<1>8. Spec /\ [](errs = 0) => Reply!Spec
      BY <1>6, <1>7, PTL DEF Reply!Spec
<1> QED BY <1>8 DEF ImplementsReply

(***************************************************************************)
(* What a sleeping sink has not missed.                                    *)
(***************************************************************************)

\* The flag of a VBUS that came, or went, after the status was read stays
\* latched while the sink goes to sleep.
VbusInv ==
  /\ state = "WaitForVbus" /\ pc = "wait" /\ plug # "none" =>
       "vbusok" \in chip.latch
  /\ errs = 0 /\ state \in {"PollCC", "Online"} /\ plug = "none" =>
       "vbusok" \in chip.latch \/ (pc \in MessagePcs /\ ~vbusok)

\* VBUS does not come or go without its flag.
LEMMA VbusFlagged ==
  ASSUME TypeOK, Environment, chip.on
  PROVE  plug' = plug \/ "vbusok" \in chip'.latch
  <1> chip \in ChipStates
      BY DEF TypeOK, SinkTypeOK
  <1>1. CASE Attach
        BY <1>1 DEF Attach, VbusChange, Latch, ChipStates
  <1>2. CASE Detach
        BY <1>2 DEF Detach, VbusChange, Latch, ChipStates
  <1> QED BY <1>1, <1>2
          DEF Environment, Wire, Advertise, Chatter, Readvertise, TakeRequest,
              RetryFail, Spurious

LEMMA NextVbusInv ==
  TypeOK /\ PcInv /\ PowerInv /\ AnswerInv /\ VbusInv /\ [Next]_vars => VbusInv'
<1> SUFFICES ASSUME TypeOK, PcInv, PowerInv, AnswerInv, VbusInv, [Next]_vars
             PROVE  VbusInv'
    OBVIOUS
<1>0. /\ SinkTypeOK /\ chip \in ChipStates /\ state \in States
      /\ vbusok \in BOOLEAN
    BY DEF TypeOK, SinkTypeOK
<1> USE DEF Abort, Ok, Entry, States
<1>1. CASE Environment
  <2>1. /\ UNCHANGED sinkVars /\ errs' = errs
        /\ chip.latch \subseteq chip'.latch
        BY <1>1, EnvironmentEffect
  <2>2. state # "Reset" => plug' = plug \/ "vbusok" \in chip'.latch
        BY <1>1, VbusFlagged DEF PowerInv
  <2> QED BY <2>1, <2>2 DEF VbusInv, sinkVars
<1>2. CASE UNCHANGED vars
      BY <1>2 DEF vars, sinkVars, VbusInv
<1>3. CASE Reboot
      BY <1>3 DEF Reboot, Boot, VbusInv
<1>s. Sink => plug' = plug
      BY DEF Sink, SinkStep
<1>4. CASE SwReset
      BY <1>4 DEF SwReset, PcInv, ResetPcs, VbusInv
<1>5. CASE SinkStep /\ pc \notin MessagePcs \cup {"sw_res", "poll"}
  <2>1. /\ chip'.latch = chip.latch /\ errs' \in {errs, errs + 1}
        BY <1>5, PlainStep
  <2>2. errs' = 0 => errs = 0
        BY <2>1, NoError
  <2>3. /\ state' \in {"PollCC", "Online"} => state \in {"PollCC", "Online"}
        /\ ~(state' = "WaitForVbus" /\ pc' = "wait")
    <3>1. \/ ReadId \/ FusbSetup \/ StartVbus \/ WaitForLow
          \/ CcDelay \/ ProbeCc1 \/ SampleCc1 \/ ProbeCc2 \/ SampleCc2
          \/ EnableCc \/ FusbReset
          BY <1>5 DEF SinkStep, SwReset, PollStatus, RxStatus, RxToken,
                 RxHeader, RxPayload, RxCrc, Send, MessagePcs
    <3>2. CASE ReadId \/ FusbSetup
          BY <1>0, <3>2 DEF ReadId, ReadIdFails, FusbSetup, WriteRun, PcInv,
                            ResetPcs
    <3>3. CASE StartVbus \/ WaitForLow
          BY <1>0, <3>3 DEF StartVbus, WaitForLow, PollFirst, PcInv
    <3>4. CASE CcDelay \/ ProbeCc1 \/ SampleCc1 \/ ProbeCc2 \/ SampleCc2
               \/ EnableCc \/ FusbReset
          BY <1>0, <3>4
          DEF CcDelay, ProbeCc1, SampleCc1, ProbeCc2, SampleCc2, EnableCc,
              FusbReset, WriteRun, PcInv, CcPcs
    <3> QED BY <3>1, <3>2, <3>3, <3>4
  <2>4. plug' = plug /\ pc \notin MessagePcs
        BY <1>5 DEF SinkStep
  <2> QED BY <2>1, <2>2, <2>3, <2>4 DEF VbusInv
<1>6. CASE PollStatus /\ plug' = plug
  <2>1. pc = "poll" /\ state \in {"WaitForVbus", "Online"}
        BY <1>0, <1>6 DEF PollStatus, PcInv, ResetPcs, CcPcs
  <2>2. CASE Abort({[chip EXCEPT !.latch = l] : l \in SUBSET chip.latch})
    <3>1. pc' = Entry[state] /\ state' = state /\ errs' # 0
          BY <1>0, <2>2 DEF SinkTypeOK
    <3> QED BY <2>1, <3>1 DEF VbusInv
  <2>3. CASE /\ vbusok' = VbusOk(chip, plug)
             /\ "gcrcsent" \in chip.latch
             /\ pc' = "rx_status" /\ UNCHANGED <<state, ret>>
    <3>1. state = "Online"
          BY <2>1, <2>3 DEF AnswerInv
    <3>2. plug = "none" => ~vbusok'
          BY <2>3 DEF VbusOk
    <3> QED BY <1>6, <2>3, <3>1, <3>2 DEF VbusInv, MessagePcs
  <2>4. CASE PollReturns(VbusOk(chip, plug))
    <3>1. VbusOk(chip, plug) <=> plug # "none"
          BY <2>1 DEF VbusOk, PowerInv
    <3> QED BY <1>6, <2>1, <2>4, <3>1 DEF PollReturns, VbusInv
  <2> HIDE DEF Abort
  <2> QED BY <1>6, <2>2, <2>3, <2>4 DEF PollStatus
<1>7. CASE (RxStatus \/ RxToken \/ RxHeader \/ RxPayload \/ RxCrc \/ Send)
             /\ plug' = plug
  <2>1. state = "Online" /\ pc \in MessagePcs
        BY <1>7 DEF RxStatus, RxToken, RxHeader, RxPayload, RxCrc, Send,
                    AnswerInv, MessagePcs
  <2>2. state' \in {"Online", "Reset"}
        BY <1>7, <2>1 DEF RxStatus, RxToken, RxHeader, RxPayload, RxCrc, Send,
                          PollReturns, NextMessage
  <2> SUFFICES ASSUME errs' = 0, state' = "Online", plug = "none"
               PROVE  "vbusok" \in chip'.latch
                        \/ (pc' \in MessagePcs /\ ~vbusok')
      BY <1>7, <2>2 DEF VbusInv
  <2>3. errs = 0 /\ \A f : ~Abort(f)
        BY <1>0, <1>7, NoError, ReadStep, SendStep DEF SinkTypeOK
  <2>4. "vbusok" \in chip.latch \/ ~vbusok
        BY <2>1, <2>3 DEF VbusInv
  <2> HIDE DEF Abort
  <2>5. chip'.latch = chip.latch
    <3>1. CASE RxStatus
          BY <2>3, <3>1 DEF RxStatus
    <3>2. CASE RxToken \/ RxHeader \/ RxPayload \/ RxCrc
          BY <1>0, <2>3, <3>2, PopRx DEF RxToken, RxHeader, RxPayload, RxCrc,
                                         DropCrc
    <3>3. CASE Send
      <4>1. /\ SendParts[step] \in {"sop", "data", "eop"} /\ req \in Requests
            /\ chip' = WriteFifo(chip, SendParts[step], req)
            BY <1>0, <2>3, <3>3, SendStep DEF SendParts, Send, SinkTypeOK
      <4> QED BY <1>0, <4>1, WriteFifoEffect
    <3> QED BY <1>7, <3>1, <3>2, <3>3
  <2>6. /\ vbusok' = vbusok
        /\ pc' \notin MessagePcs => vbusok
    <3>1. CASE RxStatus
          BY <1>0, <2>1, <2>3, <3>1 DEF RxStatus, PollReturns, MessagePcs
    <3>2. CASE RxToken \/ RxHeader \/ RxPayload \/ RxCrc \/ Send
          BY <2>3, <3>2 DEF RxToken, RxHeader, RxPayload, RxCrc, Send,
                            NextMessage, MessagePcs
    <3> QED BY <1>7, <3>1, <3>2
  <2> QED BY <2>4, <2>5, <2>6
<1> QED BY <1>1, <1>2, <1>3, <1>4, <1>5, <1>6, <1>7, <1>s, SinkCases DEF Next

----------------------------------------------------------------------------
(* How much a sleeping sink has in its FIFO.                               *)

\* The bytes of the message being read or answered that are off the FIFO.
Taking ==
  CASE pc = "rx_header"  -> 1
    [] pc = "rx_payload" -> 3
    [] pc = "rx_crc"     -> 3 + 4 * NumObjects(cur.k)
    [] pc = "tx"         -> 11
    [] OTHER             -> 0

\* A packet on the wire stands for the eleven bytes of the offer it answers.
\* No offer comes in while a packet is on the wire.
WorkInv ==
  errs = 0 =>
    Len(chip.rx) + Taking + 11 * Len(chip.out) <= RxCapacity + 11

\* Once the FIFO has been drained only GoodCRCs come in without a flag, one
\* of seven bytes for each packet that was on the wire.
RestInv ==
  errs = 0 /\ pc \notin MessagePcs /\ "gcrcsent" \notin chip.latch
    /\ (state = "Online" \/ (pc = "fusb_reset" /\ step = 3)) =>
      11 * (Len(chip.rx) + 7 * Len(chip.out)) <= 7 * (RxCapacity + 11)

LEMMA LengthTypes ==
  ASSUME TypeOK
  PROVE  /\ Len(chip.rx) \in Nat /\ Len(chip.out) \in Nat
         /\ RxCapacity \in Nat /\ Taking \in 0..11
         /\ pc \notin {"rx_header", "rx_payload", "rx_crc", "tx"} => Taking = 0
  <1>1. chip.rx \in Seq(Byte) /\ chip.out \in Seq(Requests)
        BY DEF TypeOK, SinkTypeOK, ChipStates
  <1>2. Len(chip.rx) \in Nat /\ Len(chip.out) \in Nat
        BY <1>1, LenProperties
  <1>3. NumObjects(cur.k) \in 0..1
        BY DEF NumObjects
  <1> QED BY <1>2, <1>3, FusbAssumption DEF Taking

LEMMA PopLength ==
  ASSUME NEW c \in ChipStates, NEW n \in Nat, n <= Len(c.rx)
  PROVE  Len(Pop(c, n).rx) = Len(c.rx) - n /\ Pop(c, n).out = c.out
  <1>1. c.rx \in Seq(Byte)
        BY DEF ChipStates
  <1>2. Pop(c, n).rx = SubSeq(c.rx, n + 1, Len(c.rx)) /\ Pop(c, n).out = c.out
        BY PopRx DEF Pop, ChipStates
  <1> QED BY <1>1, <1>2, SubSeqFrom

\* The rest of a frame follows its byte.
LEMMA FrameAhead ==
  ASSUME NEW s \in Seq(Byte), Linked(s), NEW i \in Nat, HeadAt(s, i),
         NEW l \in Nat, l = FrameLen(s[1].k)
  PROVE  /\ Len(s) \in Nat /\ Len(s) >= 1
         /\ i + 1 <= l => Len(s) >= 2
         /\ i + 3 <= l => Len(s) >= 4
  <1>1. Len(s) \in Nat /\ Len(s) >= 1 /\ s[1].i = i
        BY EmptySeq, LenProperties DEF HeadAt
  <1>2. i + 1 <= l => /\ 2 \in 1..Len(s) /\ s[2].i = i + 1 /\ s[2].k = s[1].k
    <2>1. 1 \in 1..Len(s) /\ 1 + 1 = 2
          BY <1>1
    <2> QED BY <1>1, <2>1, LinkedStep
  <1>3. i + 2 <= l => /\ 3 \in 1..Len(s) /\ s[3].i = i + 2 /\ s[3].k = s[1].k
    <2> SUFFICES ASSUME i + 2 <= l
                 PROVE  3 \in 1..Len(s) /\ s[3].i = i + 2 /\ s[3].k = s[1].k
        OBVIOUS
    <2>1. 2 \in 1..Len(s) /\ s[2].i < FrameLen(s[2].k) /\ 2 + 1 = 3
          BY <1>2
    <2>2. 3 \in 1..Len(s) /\ s[3].k = s[2].k /\ s[3].i = s[2].i + 1
          BY <2>1, LinkedStep
    <2> QED BY <1>2, <2>2
  <1>4. i + 3 <= l => 4 \in 1..Len(s)
    <2> SUFFICES ASSUME i + 3 <= l PROVE 4 \in 1..Len(s)
        OBVIOUS
    <2>1. 3 \in 1..Len(s) /\ s[3].i < FrameLen(s[3].k) /\ 3 + 1 = 4
          BY <1>3
    <2> QED BY <2>1, LinkedStep
  <1> QED BY <1>1, <1>2, <1>4

\* A message comes in when nothing is on the wire, with its flag if the chip
\* acknowledges it; a packet on the wire is taken, with a GoodCRC or without.
LEMMA EnvironmentLengths ==
  ASSUME TypeOK, Environment
  PROVE  \/ chip'.rx = chip.rx /\ Len(chip'.out) <= Len(chip.out)
         \/ /\ Len(chip'.rx) <= RxCapacity /\ Len(chip'.out) = 0
            /\ chip.autoCrc /\ chip.txcc = chip.meas =>
                 "gcrcsent" \in chip'.latch
         \/ /\ Len(chip'.rx) = Len(chip.rx) + 7
            /\ Len(chip'.out) = Len(chip.out) - 1
  <1>0. /\ chip \in ChipStates /\ chip.rx \in Seq(Byte)
        /\ chip.out \in Seq(Requests) /\ RxCapacity \in Nat
        /\ Len(chip.out) \in Nat /\ Len(<<>>) = 0
        BY LengthTypes DEF TypeOK, SinkTypeOK, ChipStates
  <1>1. ASSUME NEW c \in ChipStates, NEW k \in Kinds, Receives(c, k, plug)
        PROVE  LET d == Receive(c, k, plug)
               IN  /\ Len(d.rx) = Len(c.rx) + FrameLen(k)
                   /\ Len(d.rx) <= RxCapacity /\ d.out = c.out
                   /\ c.autoCrc /\ c.txcc = c.meas /\ k # "goodcrc" =>
                        "gcrcsent" \in d.latch
    <2> DEFINE d == Receive(c, k, plug)
               a == Acks(c, k, plug)
    <2>1. a \in BOOLEAN /\ c.rx \in Seq(Byte)
          BY DEF Acks, ChipStates
    <2>2. d.rx = c.rx \o Frame(k, a) /\ d.out = c.out
          BY DEF Receive, ChipStates
    <2>3. Frame(k, a) \in Seq(Byte) /\ Len(Frame(k, a)) = FrameLen(k)
      <3> DEFINE f == Frame(k, a)
                 n == FrameLen(k)
      <3>1. f \in Seq(Byte) /\ n \in Nat
            BY <2>1, FrameType, FrameLenType
      <3>2. DOMAIN f = 1..n
            BY DEF Frame
      <3> HIDE DEF f, n
      <3>3. Len(f) = n
            BY <3>1, <3>2, LenProperties
      <3> QED BY <3>1, <3>3 DEF f, n
    <2>4. Len(c.rx \o Frame(k, a)) = Len(c.rx) + FrameLen(k)
      <3> DEFINE f == Frame(k, a)
                 n == FrameLen(k)
                 s == c.rx
      <3>1. f \in Seq(Byte) /\ Len(f) = n /\ s \in Seq(Byte)
            BY <2>1, <2>3
      <3> HIDE DEF f, n, s
      <3>2. Len(s \o f) = Len(s) + n
            BY <3>1, ConcatProperties
      <3> QED BY <3>2 DEF f, n, s
    <2>5. c.autoCrc /\ c.txcc = c.meas /\ k # "goodcrc" =>
            "gcrcsent" \in d.latch
          BY <1>1 DEF Receives, Receive, Acks, ChipStates
    <2>6. Len(c.rx) + FrameLen(k) <= RxCapacity
          BY <1>1 DEF Receives
    <2> HIDE DEF d, a
    <2>7. /\ Len(d.rx) = Len(c.rx) + FrameLen(k) /\ Len(d.rx) <= RxCapacity
          /\ d.out = c.out
          BY <2>2, <2>4, <2>6
    <2> QED BY <2>5, <2>7 DEF d
  <1>2. CASE Attach
        BY <1>0, <1>2 DEF Attach, VbusChange, Latch, ChipStates
  <1>3. CASE Detach
    <2>1. chip'.rx = chip.rx /\ chip'.out = <<>>
          BY <1>0, <1>3 DEF Detach, VbusChange, Latch, ChipStates
    <2> QED BY <1>0, <2>1
  <1>4. CASE Advertise
    <2>1. /\ offer \in Kinds /\ offer # "goodcrc"
          /\ Receives(chip, offer, plug) /\ chip' = Receive(chip, offer, plug)
          /\ chip.out = <<>>
      <3>1. /\ Receives(chip, offer, plug) /\ chip' = Receive(chip, offer, plug)
            /\ chip.out = <<>> /\ src = "advertise"
            BY <1>4 DEF Advertise
      <3>2. offer \in Offers
            BY <3>1 DEF TypeOK
      <3> QED BY <3>1, <3>2, FusbAssumption DEF Kinds
    <2> QED BY <1>0, <1>1, <2>1
  <1>5. CASE Chatter
    <2>1. PICK k \in {"vdm", "ctrl"} :
            Receives(chip, k, plug) /\ chip' = Receive(chip, k, plug)
          BY <1>5 DEF Chatter
    <2>2. k \in Kinds /\ k # "goodcrc" /\ chip.out = <<>>
          BY <1>5 DEF Chatter, Kinds
    <2> QED BY <1>0, <1>1, <2>1, <2>2
  <1>6. CASE Readvertise
        BY <1>0, <1>6 DEF Readvertise
  <1>7. /\ Taken.rx = chip.rx /\ Taken.out = Tail(chip.out)
        BY <1>0 DEF Taken, Latch, ChipStates
  <1>8. chip.out # <<>> => Len(Tail(chip.out)) = Len(chip.out) - 1
        BY <1>0, HeadTailProperties
  <1>9. ASSUME chip' = Taken, chip.out # <<>>
        PROVE  chip'.rx = chip.rx /\ Len(chip'.out) <= Len(chip.out)
    <2>1. chip'.rx = chip.rx /\ Len(chip'.out) = Len(chip.out) - 1
          BY <1>7, <1>8, <1>9
    <2>2. Len(chip.out) - 1 <= Len(chip.out)
          BY <1>0
    <2> QED BY <2>1, <2>2
  <1>10. CASE TakeRequest
    <2>1. chip.out # <<>> /\ "goodcrc" \in Kinds
          BY <1>10 DEF TakeRequest, Kinds
    <2>2. Taken \in ChipStates
          BY <1>0, <2>1, TakenType
    <2>3. FrameLen("goodcrc") = 7
          BY FusbAssumption DEF FrameLen, NumObjects
    <2>4. CASE chip' = Taken
          BY <1>9, <2>1, <2>4
    <2>5. CASE Receives(Taken, "goodcrc", plug)
                 /\ chip' = Receive(Taken, "goodcrc", plug)
      <3>1. /\ Len(chip'.rx) = Len(Taken.rx) + FrameLen("goodcrc")
            /\ chip'.out = Taken.out
            BY <1>1, <2>1, <2>2, <2>5
      <3> QED BY <1>7, <1>8, <2>1, <2>3, <3>1
    <2> QED BY <1>10, <2>4, <2>5 DEF TakeRequest
  <1>11. CASE RetryFail
         BY <1>9, <1>11 DEF RetryFail
  <1>12. CASE Spurious
    <2>1. chip'.rx = chip.rx /\ chip'.out = chip.out
          BY <1>0, <1>12 DEF Spurious, Latch, ChipStates
    <2> QED BY <1>0, <2>1
  <1> QED BY <1>2, <1>3, <1>4, <1>5, <1>6, <1>10, <1>11, <1>12
          DEF Environment, Wire

\* What a step takes off the FIFO it holds, or puts on the wire.
LEMMA NextWorkInv ==
  IInv /\ FrameInv /\ WorkInv /\ [Next]_vars => WorkInv'
<1> DEFINE L == Len(chip.rx)
           O == Len(chip.out)
           T == Taking
           L2 == Len(chip'.rx)
           O2 == Len(chip'.out)
           T2 == Taking'
<1> SUFFICES ASSUME IInv, FrameInv, WorkInv, [Next]_vars, errs' = 0
             PROVE  L2 + T2 + 11 * O2 <= RxCapacity + 11
    BY DEF WorkInv
<1>0. /\ TypeOK /\ PcInv /\ TypeOK' /\ chip \in ChipStates
      /\ chip.rx \in Seq(Byte) /\ chip.out \in Seq(Requests)
      /\ errs \in Nat /\ Len(<<>>) = 0 /\ state \in States
  <2>1. TypeOK /\ PcInv
        BY DEF IInv
  <2>2. TypeOK'
        BY <2>1, NextTypeOK
  <2>3. chip \in ChipStates /\ errs \in Nat /\ state \in States
        BY <2>1 DEF TypeOK, SinkTypeOK
  <2>4. chip.rx \in Seq(Byte) /\ chip.out \in Seq(Requests)
        BY <2>3 DEF ChipStates
  <2> QED BY <2>1, <2>2, <2>3, <2>4, EmptySeq
<1>1. /\ L \in Nat /\ O \in Nat /\ RxCapacity \in Nat
      /\ T \in 0..11
      /\ pc \notin {"rx_header", "rx_payload", "rx_crc", "tx"} => T = 0
      BY <1>0, LengthTypes
<1>2. /\ L2 \in Nat /\ O2 \in Nat
      /\ pc' \notin {"rx_header", "rx_payload", "rx_crc", "tx"} => T2 = 0
  <2>1. /\ chip'.rx \in Seq(Byte) /\ chip'.out \in Seq(Requests)
        BY <1>0 DEF TypeOK, SinkTypeOK, ChipStates
  <2>2. L2 \in Nat /\ O2 \in Nat
        BY <2>1, LenProperties
  <2> QED BY <2>2 DEF Taking
<1>3. errs = 0 => L + T + 11 * O <= RxCapacity + 11
      BY DEF WorkInv
<1> HIDE DEF L, O, T, L2, O2, T2
<1>4. ASSUME errs = 0, L2 <= L, chip'.out = chip.out, T2 = 0
      PROVE  L2 + T2 + 11 * O2 <= RxCapacity + 11
  <2>1. O2 = O
        BY <1>4 DEF O, O2
  <2> QED BY <1>1, <1>2, <1>3, <1>4, <2>1
<1>5. CASE Environment
  <2>1. UNCHANGED sinkVars /\ errs' = errs
        BY <1>0, <1>5, EnvironmentEffect
  <2>2. T2 = T
        BY <2>1 DEF sinkVars, Taking, T, T2
  <2>3. \/ L2 = L /\ O2 <= O
        \/ L2 <= RxCapacity /\ O2 = 0
        \/ /\ L2 = L + 7
           /\ O2 = O - 1
        BY <1>0, <1>5, EnvironmentLengths DEF L, L2, O, O2
  <2> QED BY <1>1, <1>2, <1>3, <2>1, <2>2, <2>3
<1>6. CASE UNCHANGED vars
  <2>1. chip' = chip /\ errs' = errs /\ T2 = T
        BY <1>6 DEF vars, sinkVars, Taking, T, T2
  <2>2. L2 = L /\ O2 = O /\ T2 = T
        BY <2>1 DEF L, L2, O, O2
  <2> QED BY <1>3, <2>1, <2>2
<1>7. CASE Reboot
  <2>1. chip' = chip /\ errs' = errs /\ pc' = "sw_res"
        BY <1>7 DEF Reboot, Boot
  <2>2. L2 = L
        BY <2>1 DEF Reboot, L, L2
  <2>3. chip'.out = chip.out /\ T2 = 0
        BY <1>2, <2>1
  <2> QED BY <1>1, <1>4, <2>1, <2>2, <2>3
<1>8. CASE SwReset
  <2>1. /\ pc' \in {"sw_res", "read_id"} /\ errs' \in {errs, errs + 1}
        /\ chip'.out = chip.out
        BY <1>0, <1>8, ResetStep
  <2>2. errs = 0
        BY <1>0, <2>1, NoError
  <2>3. chip'.rx \in {chip.rx, <<>>}
    <3>1. \A f : ~Abort(f)
          BY <2>2 DEF Abort
    <3>2. pc' # "sw_res"
          BY <1>8, <3>1 DEF SwReset
    <3> QED BY <1>0, <1>8, <3>2, ResetStep
  <2>4. L2 <= L
        BY <1>0, <1>1, <2>3 DEF L, L2
  <2>5. T2 = 0
        BY <1>2, <2>1
  <2> QED BY <1>4, <2>1, <2>2, <2>4, <2>5
<1>9. CASE SinkStep /\ pc \notin MessagePcs \cup {"sw_res", "poll"}
  <2>1. /\ chip'.rx \in {chip.rx, <<>>} /\ chip'.out = chip.out
        /\ pc' \notin MessagePcs /\ errs' \in {errs, errs + 1}
        BY <1>0, <1>9, PlainStep
  <2>2. L2 <= L /\ T2 = 0
        BY <1>0, <1>1, <1>2, <2>1 DEF MessagePcs, L, L2
  <2> QED BY <1>0, <1>4, <2>1, <2>2, NoError
<1>10. CASE PollStatus \/ RxStatus
  <2>1. /\ chip'.out = chip.out /\ errs' \in {errs, errs + 1}
        BY <1>0, <1>10, ReadStep
  <2>2. chip'.rx = chip.rx
        BY <1>0, <1>10
        DEF PollStatus, RxStatus, Ok, Abort, ClearFlags, ChipStates
  <2>3. pc' \notin {"rx_header", "rx_payload", "rx_crc", "tx"}
        BY <1>0, <1>10
        DEF PollStatus, RxStatus, PollReturns, Abort, Entry, States
  <2>4. L2 <= L /\ T2 = 0
        BY <1>1, <1>2, <2>2, <2>3 DEF L, L2
  <2>5. errs = 0
        BY <1>0, <2>1, NoError
  <2> QED BY <1>4, <2>1, <2>4, <2>5
<1>11. CASE RxToken \/ RxHeader \/ RxPayload \/ RxCrc
  <2>1. /\ errs = 0 /\ pc # "sw_res" /\ cur \in Message
        BY <1>0, <1>11, NoError, ReadStep DEF TypeOK, SinkTypeOK
  <2>2. /\ Linked(chip.rx) /\ \A f : ~Abort(f)
        /\ \A f : /\ FrameLen(f) = 7 + 4 * NumObjects(f)
                  /\ NumObjects(f) \in {0, 1}
        BY <2>1 DEF FrameInv, Abort, FrameLen, NumObjects
  <2> DEFINE k == chip.rx[1].k
             F == FrameLen(k)
  <2>3. F \in Nat /\ F >= 7
        BY <2>2
  <2>4. ASSUME NEW i \in Nat, HeadAt(chip.rx, i), NEW n \in {1, 2, 4},
               n = 1 \/ (n = 2 /\ i + 1 <= F) \/ i + 3 <= F
        PROVE  n <= L
    <3> HIDE DEF F
    <3>1. /\ L >= 1
          /\ i + 1 <= F => L >= 2
          /\ i + 3 <= F => L >= 4
          BY <1>0, <2>2, <2>3, <2>4, FrameAhead DEF F, L
    <3> QED BY <1>1, <2>4, <3>1
  <2>5. ASSUME NEW n \in {1, 2, 4}, n <= L, chip' = Pop(chip, n),
               T2 <= T + n, T2 \in Nat
        PROVE  L2 + T2 + 11 * O2 <= RxCapacity + 11
    <3>1. L2 = L - n /\ O2 = O
          BY <1>0, <2>5, PopLength DEF L, L2, O, O2
    <3> QED BY <1>1, <1>2, <1>3, <2>1, <2>5, <3>1
  <2>6. CASE RxToken
    <3>1. HeadAt(chip.rx, 1) /\ T = 0
          BY <1>1, <2>1, <2>6 DEF RxToken, FrameInv, AtStart, HeadAt
    <3>2. chip' = Pop(chip, 1) /\ pc' \in {"rx_header", "rx_status"}
          BY <2>2, <2>6 DEF RxToken, Ok
    <3>3. T2 \in 0..1
          BY <3>2 DEF Taking, T, T2
    <3> QED BY <2>4, <2>5, <3>1, <3>2, <3>3
  <2>7. CASE RxHeader
    <3>1. HeadAt(chip.rx, 2) /\ T = 1
          BY <2>1, <2>7 DEF RxHeader, FrameInv, Taking, T
    <3>2. /\ chip' = Pop(chip, 2)
          /\ pc' = IF NumObjects(cur'.k) > 0 THEN "rx_payload" ELSE "rx_crc"
          BY <2>2, <2>7 DEF RxHeader, Ok
    <3>3. T2 = 3
          BY <2>2, <3>2 DEF Taking, T, T2
    <3>4. 2 + 1 <= F
          BY <2>3
    <3> QED BY <2>4, <2>5, <3>1, <3>2, <3>3, <3>4
  <2>8. CASE RxPayload
    <3>1. /\ HeadAt(chip.rx, 4) /\ T = 3 /\ NumObjects(cur.k) = 1
          /\ k = cur.k
          BY <2>1, <2>8 DEF RxPayload, FrameInv, Taking, T
    <3>2. chip' = Pop(chip, 4) /\ pc' = "rx_crc" /\ cur' = cur
          BY <2>2, <2>8, <3>1 DEF RxPayload, Ok
    <3>3. T2 = 7
          BY <3>1, <3>2 DEF Taking, T, T2
    <3>4. 4 + 3 <= F
          BY <2>2, <3>1
    <3> QED BY <2>4, <2>5, <3>1, <3>2, <3>3, <3>4
  <2>9. CASE RxCrc
    <3>1. /\ HeadAt(chip.rx, F - 3) /\ k = cur.k
          /\ T = 3 + 4 * NumObjects(cur.k)
          BY <2>1, <2>9 DEF RxCrc, FrameInv, Taking, T
    <3>2. /\ chip' = Pop(chip, 4)
          /\ IF cur.k \in Offers THEN pc' = "tx" ELSE pc' = "rx_status"
          BY <2>2, <2>9 DEF RxCrc, Ok, DropCrc, NextMessage
    <3>3. T2 = IF cur.k \in Offers THEN 11 ELSE 0
          BY <3>2 DEF Taking, T, T2
    <3>4. cur.k \in Offers => NumObjects(cur.k) = 1
          BY DEF NumObjects
    <3>5. F - 3 \in Nat /\ (F - 3) + 3 <= F
          BY <2>3
    <3>6. 4 <= L
      <4> HIDE DEF F
      <4> QED BY <2>4, <3>1, <3>5
    <3>7. T2 <= T + 4 /\ T2 \in Nat
          BY <2>2, <3>1, <3>3, <3>4
    <3> QED BY <2>5, <3>2, <3>6, <3>7
  <2> QED BY <1>11, <2>6, <2>7, <2>8, <2>9
<1>12. CASE Send
  <2>1. /\ step \in 1..3 /\ pc = "tx" /\ errs = 0 /\ req \in Requests
        BY <1>0, <1>12, SendStep, NoError DEF TypeOK, SinkTypeOK
  <2>2. /\ chip' = WriteFifo(chip, SendParts[step], req)
        /\ step < 3 => pc' = "tx"
        /\ step = 3 => pc' = "rx_status"
        BY <1>0, <1>12, <2>1, SendStep
  <2>3. /\ SendParts[step] \in {"sop", "data", "eop"}
        /\ step < 3 <=> SendParts[step] # "eop"
        BY <2>1 DEF SendParts
  <2>4. T = 11
        BY <2>1 DEF Taking, T, T2
  <2>5. L2 = L
        BY <1>0, <2>1, <2>2, <2>3, WriteFifoEffect DEF L, L2
  <2>6. CASE step < 3
    <3>1. O2 = O /\ T2 = 11
          BY <1>0, <2>1, <2>2, <2>3, <2>6, WriteFifoEffect
          DEF Taking, T2, O, O2
    <3> QED BY <1>3, <2>1, <2>4, <2>5, <3>1
  <2>7. CASE step = 3
    <3>1. PICK p \in Requests : chip'.out = Append(chip.out, p)
      <4> DEFINE p == [req EXCEPT !.good = @ /\ WellFormed(Append(chip.tx,
                         [part |-> "eop", req |-> req]))]
      <4>1. SendParts[step] = "eop"
            BY <2>7 DEF SendParts
      <4>2. chip'.out = Append(chip.out, p)
            BY <1>0, <2>1, <2>2, <4>1, WriteFifoEffect
      <4>3. p \in Requests
            BY <2>1 DEF Requests, WellFormed
      <4> QED BY <4>2, <4>3
    <3>2. O2 = O + 1
          BY <1>0, <3>1, AppendProperties DEF O, O2
    <3>3. T2 = 0
          BY <1>2, <2>2, <2>7
    <3> QED BY <1>1, <1>3, <2>1, <2>4, <2>5, <3>2, <3>3
  <2> QED BY <2>1, <2>6, <2>7
<1> QED BY <1>5, <1>6, <1>7, <1>8, <1>9, <1>10, <1>11, <1>12, SinkCases
        DEF Next

LEMMA RestArith ==
  ASSUME NEW l \in Nat, NEW o \in Nat, NEW l2 \in Nat, NEW o2 \in Nat,
         NEW c \in Nat, 11 * (l + 7 * o) <= 7 * (c + 11),
         \/ l2 = l /\ o2 <= o
         \/ l2 = 0 /\ o2 = o
         \/ l2 = l + 7 /\ o2 = o - 1
  PROVE  11 * (l2 + 7 * o2) <= 7 * (c + 11)
  OBVIOUS

LEMMA NextRestInv ==
  IInv /\ WorkInv /\ RestInv /\ [Next]_vars => RestInv'
<1> DEFINE L == Len(chip.rx)
           O == Len(chip.out)
           L2 == Len(chip'.rx)
           O2 == Len(chip'.out)
           Rest == state = "Online" \/ (pc = "fusb_reset" /\ step = 3)
           C == RxCapacity
<1> SUFFICES ASSUME IInv, WorkInv, RestInv, [Next]_vars, errs' = 0,
                    pc' \notin MessagePcs, "gcrcsent" \notin chip'.latch,
                    Rest'
             PROVE  11 * (L2 + 7 * O2) <= 7 * (C + 11)
    BY DEF RestInv
<1>0. /\ TypeOK /\ PcInv /\ CcInv /\ TypeOK' /\ PcInv' /\ SinkTypeOK
      /\ chip \in ChipStates /\ chip.out \in Seq(Requests)
      /\ state \in States /\ Len(<<>>) = 0 /\ C \in Nat /\ errs \in Nat
  <2>1. TypeOK /\ PcInv /\ CcInv
        BY DEF IInv
  <2>2. TypeOK' /\ PcInv'
        BY <2>1, NextTypeOK, NextPcInv
  <2> QED BY <2>1, <2>2, EmptySeq, FusbAssumption
          DEF TypeOK, SinkTypeOK, ChipStates
<1>1. L \in Nat /\ O \in Nat
      BY <1>0, LengthTypes
<1>2. L2 \in Nat /\ O2 \in Nat
  <2>1. chip'.rx \in Seq(Byte) /\ chip'.out \in Seq(Requests)
        BY <1>0 DEF TypeOK, SinkTypeOK, ChipStates
  <2> QED BY <2>1, LenProperties
<1>3. errs = 0 /\ pc \notin MessagePcs /\ "gcrcsent" \notin chip.latch /\ Rest
        => 11 * (L + 7 * O) <= 7 * (C + 11)
      BY DEF RestInv
<1>4. errs = 0 => 11 * O <= C + 11
  <2> DEFINE T == Taking
  <2>1. errs = 0 => L + T + 11 * O <= C + 11
        BY DEF WorkInv
  <2>2. T \in Nat
        BY <1>0, LengthTypes
  <2> HIDE DEF L, O, C, T
  <2> QED BY <1>0, <1>1, <2>1, <2>2
<1> HIDE DEF L, O, L2, O2, C
<1>5. CASE Environment
  <2>1. /\ UNCHANGED sinkVars /\ errs' = errs
        /\ chip.latch \subseteq chip'.latch
        BY <1>0, <1>5, EnvironmentEffect
  <2>2. errs = 0 /\ pc \notin MessagePcs /\ "gcrcsent" \notin chip.latch /\ Rest
        BY <2>1 DEF sinkVars
  <2>3. chip.autoCrc /\ chip.txcc = chip.meas
        BY <1>0, <2>2 DEF CcInv
  <2>4. \/ L2 = L /\ O2 <= O
        \/ L2 = L + 7 /\ O2 = O - 1
        BY <1>0, <1>5, <2>3, EnvironmentLengths DEF L, L2, O, O2
  <2> QED BY <1>0, <1>1, <1>2, <1>3, <2>2, <2>4, RestArith
<1>6. CASE UNCHANGED vars
  <2>1. /\ L2 = L /\ O2 = O /\ errs = 0
        /\ pc \notin MessagePcs /\ "gcrcsent" \notin chip.latch /\ Rest
        BY <1>6 DEF vars, sinkVars, L, L2, O, O2
  <2> QED BY <1>3, <2>1
<1>7. CASE Reboot
      BY <1>7 DEF Reboot, Boot
<1>8. CASE SwReset
      BY <1>0, <1>8 DEF SwReset, PcInv, ResetPcs, Abort, Entry
<1>9. CASE SinkStep /\ pc \notin MessagePcs \cup {"sw_res", "poll"}
  <2>1. /\ chip'.rx \in {chip.rx, <<>>} /\ chip'.out = chip.out
        /\ chip'.latch = chip.latch /\ errs' \in {errs, errs + 1}
        BY <1>0, <1>9, PlainStep
  <2>2. errs = 0 /\ O2 = O /\ (L2 = L \/ L2 = 0)
        BY <1>0, <2>1, NoError DEF L, L2, O, O2
  <2>3. CASE Rest
    <3>1. 11 * (L + 7 * O) <= 7 * (C + 11)
          BY <1>3, <1>9, <2>1, <2>2, <2>3
    <3>2. O2 <= O
          BY <1>1, <2>2
    <3> QED BY <1>0, <1>1, <1>2, <2>2, <3>1, <3>2, RestArith
  <2>4. CASE ~Rest
    <3>1. state # "Online"
          BY <2>4
    <3>2. state' # "Online"
          BY <1>0, <1>9, <2>4, GoesOnline DEF FusbReset, WriteRun
    <3>3. chip'.rx = <<>>
          BY <1>0, <1>9, <3>1, <3>2, FlushStep
    <3>4. L2 = 0
          BY <1>0, <3>3 DEF L2
    <3> QED BY <1>0, <1>1, <1>4, <2>2, <3>4
  <2> QED BY <2>3, <2>4
<1>10. CASE PollStatus
  <2>1. errs = 0 /\ pc = "poll" /\ \A f : ~Abort(f)
    <3>1. errs = 0 /\ pc = "poll"
          BY <1>0, <1>10, NoError, ReadStep DEF PollStatus
    <3> QED BY <3>1 DEF Abort
  <2>2. /\ chip' = ClearFlags(chip) /\ "gcrcsent" \notin chip.latch
        /\ PollReturns(VbusOk(chip, plug))
        BY <1>10, <2>1 DEF PollStatus, Ok, MessagePcs
  <2>3. state = "Online"
    <3>1. pc' # "fusb_reset"
          BY <2>2 DEF PollReturns, Entry
    <3> QED BY <2>2, <3>1 DEF PollReturns
  <2>4. L2 = L /\ O2 = O
        BY <1>0, <2>2 DEF ClearFlags, ChipStates, L, L2, O, O2
  <2> QED BY <1>3, <2>1, <2>2, <2>3, <2>4 DEF MessagePcs
<1>11. CASE RxStatus
  <2>1. errs = 0 /\ \A f : ~Abort(f)
    <3>1. errs = 0
          BY <1>0, <1>11, NoError, ReadStep
    <3> QED BY <3>1 DEF Abort
  <2>2. chip' = chip /\ chip.rx = <<>>
        BY <1>11, <2>1 DEF RxStatus, Ok, MessagePcs
  <2>3. L2 = 0 /\ O2 = O
        BY <1>0, <2>2 DEF L2, O, O2
  <2> QED BY <1>0, <1>1, <1>4, <2>1, <2>3
<1>12. CASE RxToken \/ RxHeader \/ RxPayload \/ RxCrc \/ Send
  <2>1. errs = 0
        BY <1>0, <1>12, NoError, ReadStep, SendStep
  <2>2. \A f : ~Abort(f)
        BY <2>1 DEF Abort
  <2> QED BY <1>0, <1>12, <2>1, <2>2
          DEF RxToken, RxHeader, RxPayload, RxCrc, Send, NextMessage, Ok,
              SinkTypeOK, MessagePcs
<1> QED BY <1>5, <1>6, <1>7, <1>8, <1>9, <1>10, <1>11, <1>12, SinkCases
        DEF Next

\* What holds of the sink whether it sleeps or not.
SleepInv ==
  IInv /\ CleanInv /\ AnswerInv /\ VbusInv /\ WorkInv /\ RestInv

LEMMA SleepInvHolds == Spec => []SleepInv
<1>1. Init => SleepInv
  <2> SUFFICES ASSUME Init PROVE SleepInv
      OBVIOUS
  <2>1. /\ pc = "sw_res" /\ state = "Reset" /\ chip.rx = <<>> /\ chip.out = <<>>
        BY DEF Init, SinkInit, ResetChip
  <2>2. Len(chip.rx) + Taking + 11 * Len(chip.out) <= RxCapacity + 11
    <3>1. Len(chip.rx) = 0 /\ Len(chip.out) = 0 /\ Taking = 0
          BY <2>1, EmptySeq DEF Taking
    <3> QED BY <3>1, FusbAssumption
  <2>3. AnswerInv /\ VbusInv /\ RestInv
        BY <2>1 DEF AnswerInv, VbusInv, RestInv, MessagePcs
  <2> QED BY <2>2, <2>3, InitIInv, InitCleanInv DEF SleepInv, WorkInv
<1>2. SleepInv /\ [Next]_vars => SleepInv'
  <2> SUFFICES ASSUME SleepInv, [Next]_vars PROVE SleepInv'
      OBVIOUS
  <2>1. /\ IInv /\ CleanInv /\ AnswerInv /\ VbusInv /\ WorkInv /\ RestInv
        /\ FrameInv
        BY DEF SleepInv, CleanInv
  <2>2. IInv' /\ CleanInv'
        BY <2>1, NextIInv, NextCleanInv
  <2>3. AnswerInv' /\ VbusInv'
        BY <2>1, NextAnswerInv, NextVbusInv DEF IInv
  <2>4. WorkInv' /\ RestInv'
        BY <2>1, NextWorkInv, NextRestInv
  <2> QED BY <2>2, <2>3, <2>4 DEF SleepInv
<1> QED BY <1>1, <1>2, PTL DEF Spec

LEMMA RoomArith ==
  ASSUME NEW l \in Nat, NEW o \in Nat, NEW c \in Nat, c >= 50,
         11 * (l + 7 * o) <= 7 * (c + 11)
  PROVE  l + 11 <= c
  OBVIOUS

\* An unmasked flag holds the pin of the sink that waits for it low.
LEMMA VbusFlagWakes ==
  ASSUME SleepInv, pc = "wait", "vbusok" \in chip.latch
  PROVE  IntLow(chip)
<1>1. state # "Reset"
      BY DEF SleepInv, IInv, PcInv, ResetPcs
<1>2. chip.masked = {}
      BY <1>1 DEF SleepInv, IInv, PowerInv
<1> QED BY <1>2 DEF IntLow

\* A sink that waits for a source never sleeps on one that is there, whatever
\* transfer failed, whatever restarted and whenever VBUS came.
THEOREM PdSourceNotSlept == Spec => []SourceNotSlept
<1>1. SleepInv => SourceNotSlept
      BY VbusFlagWakes DEF SleepInv, VbusInv, SourceNotSlept
<1> QED BY <1>1, SleepInvHolds, PTL

\* As long as no transfer has failed an Online sink never sleeps on a VBUS
\* that is gone, however its going falls between the reads of a poll.
THEOREM PdVbusLossNotSlept == Spec => []VbusLossNotSlept
<1>1. SleepInv => VbusLossNotSlept
      BY VbusFlagWakes
      DEF SleepInv, VbusInv, VbusLossNotSlept, MessagePcs
<1> QED BY <1>1, SleepInvHolds, PTL

\* As long as no transfer has failed, and with a FIFO of fifty bytes or more
\* (the chip has eighty), a sleeping Online sink has room for the next offer.
\* Each GoodCRC left in the FIFO stands for an offer that was read off it.
THEOREM PdRoomForNext ==
  ASSUME RxCapacity >= 50
  PROVE  Spec => []RoomForNext
<1>1. SleepInv => RoomForNext
  <2> SUFFICES ASSUME SleepInv, errs = 0, pc = "wait", state = "Online",
                      ~IntLow(chip), NEW o \in Offers
               PROVE  Len(chip.rx) + FrameLen(o) <= RxCapacity
      BY DEF RoomForNext
  <2>1. IInv /\ TypeOK /\ PowerInv /\ RestInv
        BY DEF SleepInv, IInv
  <2>2. chip.masked = {} /\ chip \in ChipStates
        BY <2>1 DEF PowerInv, TypeOK, SinkTypeOK
  <2>3. "gcrcsent" \notin chip.latch
        BY <2>2 DEF IntLow
  <2>4. 11 * (Len(chip.rx) + 7 * Len(chip.out)) <= 7 * (RxCapacity + 11)
        BY <2>1, <2>3 DEF RestInv, MessagePcs
  <2>5. FrameLen(o) = 11
        BY DEF FrameLen, NumObjects
  <2> DEFINE L == Len(chip.rx)
             O == Len(chip.out)
  <2>6. L \in Nat /\ O \in Nat /\ RxCapacity \in Nat
        BY <2>1, LengthTypes
  <2>7. 11 * (L + 7 * O) <= 7 * (RxCapacity + 11)
        BY <2>4
  <2> HIDE DEF L, O
  <2>8. L + 11 <= RxCapacity
        BY <2>6, <2>7, RoomArith
  <2> QED BY <2>5, <2>8 DEF L
<1> QED BY <1>1, SleepInvHolds, PTL
=============================================================================
