----------------------------- MODULE NodeProofs -----------------------------
(***************************************************************************)
(* Proofs about the Art-Net node: its task, for any datagrams, any queues  *)
(* and any strip whose length is a multiple of ten; the cursors, for       *)
(* slices, integers and arrays of any length; and the LED buffer, for a    *)
(* strip of any length, a reset of any length and every level.             *)
(***************************************************************************)
EXTENDS MCArtNet, DataInduction

----------------------------------------------------------------------------
(* The task.                                                               *)

\* In its loop the task has an address.
AddressKnown == pc # "config" => address \in Addresses

GotDatagram == pc \in {"reply", "spi"} => got \in Numbered

TaskInv == TypeOK /\ PanicsOnlyOnShortFrame /\ FrameWithinDatagram
               /\ AddressKnown /\ GotDatagram

\* The LEDs take their colours from the thirty channels from 32 on.
LEMMA ChannelBound ==
  ASSUME NEW i \in 0..(NumLeds - 1), NEW c \in 0..2
  PROVE  Channel(i, c) \in 32..61
<1>1. PICK m \in Nat : m = NumLeds \div 10 /\ NumLeds = 10 * m /\ m # 0
      BY ArtNetAssumption
<1>2. PICK q : q = i \div m
      OBVIOUS
<1>3. q \in Nat /\ i >= m * q
      BY <1>1, <1>2
<1>4. q < 10
  <2> SUFFICES ASSUME q >= 10 PROVE FALSE
      BY <1>3
  <2>1. m * q >= m * 10
        BY <1>1, <1>3
  <2> QED BY <1>1, <1>3, <2>1
<1> QED BY <1>1, <1>2, <1>3, <1>4 DEF Channel

\* A frame that panics is short.
LEMMA TooShortBound ==
  ASSUME NEW d \in Datagrams, TooShort(d) PROVE d.claimed < 62
<1>1. PICK i \in 0..(NumLeds - 1), c \in 0..2 : Channel(i, c) >= d.claimed
      BY DEF TooShort
<1>2. d.claimed \in Nat
      BY ArtNetAssumption
<1> QED BY <1>1, <1>2, ChannelBound

\* A frame that is accepted and long enough has its channels in its datagram.
LEMMA LongEnough ==
  ASSUME NEW d \in Datagrams, Parse(d) = "output", ~TooShort(d),
         NEW i \in 0..(NumLeds - 1), NEW c \in 0..2
  PROVE  OutputHead + Channel(i, c) < d.len
<1>1. d.claimed \in Nat /\ d.len \in Nat
      BY ArtNetAssumption
<1>2. d.kind = "output" /\ OutputHead + d.claimed <= d.len
      BY ArtNetAssumption DEF Parse
<1>3. Channel(i, c) < d.claimed
      BY <1>1, ChannelBound DEF TooShort
<1> QED BY <1>1, <1>2, <1>3, ChannelBound DEF OutputHead, HeaderLen

LEMMA ParsedOutput ==
  \A d \in Datagrams : Parse(d) = "output" => d.kind = "output"
  BY ArtNetAssumption DEF Parse

LEMMA TaskInit == Init => TaskInv
<1> SUFFICES ASSUME Init PROVE TaskInv
    OBVIOUS
<1>0. inbox = <<>> /\ tx = <<>> /\ Len(<<>>) = 0
      BY DEF Init
<1>1. TypeOK
  <2>1. <<>> \in Seq(Numbered)
        OBVIOUS
  <2>2. <<>> \in Seq([n : 1..MaxArrivals, address : Addresses])
        OBVIOUS
  <2>3. 0 \in 0..MaxArrivals /\ 0 <= RxSlots /\ 0 <= TxSlots
        BY ArtNetAssumption
  <2> QED BY <1>0, <2>1, <2>2, <2>3 DEF Init, TypeOK
<1>2. /\ PanicsOnlyOnShortFrame /\ FrameWithinDatagram
      /\ AddressKnown /\ GotDatagram
      BY <1>0 DEF GotDatagram, Init, PanicsOnlyOnShortFrame, FrameWithinDatagram,
                  AddressKnown
<1> QED BY <1>1, <1>2 DEF TaskInv

LEMMA HeadOfInbox ==
  ASSUME TypeOK, inbox # <<>>
  PROVE  /\ Head(inbox) \in Numbered /\ Head(inbox).d \in Datagrams
         /\ Head(inbox).n \in 1..MaxArrivals
         /\ Tail(inbox) \in Seq(Numbered) /\ Len(Tail(inbox)) <= RxSlots
<1>1. inbox \in Seq(Numbered) /\ Len(inbox) <= RxSlots
      BY DEF TypeOK
<1>2. Head(inbox) \in Numbered /\ Tail(inbox) \in Seq(Numbered)
      BY <1>1
<1>3. Len(Tail(inbox)) <= RxSlots
      BY <1>1, ArtNetAssumption
<1> QED BY <1>2, <1>3 DEF Numbered

LEMMA RecvTaskInv == ASSUME TaskInv, Recv PROVE TaskInv'
<1> USE DEF TaskInv
<1>d. PICK d : d = Head(inbox).d
      OBVIOUS
<1>1. /\ pc = "recv" /\ got' = Head(inbox) /\ inbox' = Tail(inbox)
      /\ Head(inbox) \in Numbered /\ d \in Datagrams
      /\ Head(inbox).n \in 1..MaxArrivals
      /\ Tail(inbox) \in Seq(Numbered) /\ Len(Tail(inbox)) <= RxSlots
      /\ UNCHANGED <<lease, address, arrived, tx, answered, strip>>
      BY <1>d, HeadOfInbox DEF Recv
<1>2. /\ pc' \in {"recv", "reply", "spi", "panicked"}
      /\ leds' \in 0..MaxArrivals
      BY <1>1 DEF Recv, Goto, TypeOK
<1>3. TypeOK'
      BY <1>1, <1>2 DEF TypeOK
<1>4. PanicsOnlyOnShortFrame'
  <2> SUFFICES ASSUME pc' = "panicked"
               PROVE  d.kind = "output" /\ d.sub = 0 /\ d.claimed < 62
      BY <1>1, <1>d DEF PanicsOnlyOnShortFrame
  <2>1. Parse(d) = "output" /\ d.sub = 0 /\ TooShort(d)
        BY <1>1, <1>d DEF Recv, Goto
  <2> QED BY <1>1, <2>1, TooShortBound, ParsedOutput
<1>5. FrameWithinDatagram'
  <2> SUFFICES ASSUME pc' = "spi", NEW i \in 0..(NumLeds - 1), NEW c \in 0..2
               PROVE  OutputHead + Channel(i, c) < d.len
      BY <1>1, <1>d DEF FrameWithinDatagram
  <2>1. Parse(d) = "output" /\ ~TooShort(d)
        BY <1>1, <1>d DEF Recv, Goto
  <2> QED BY <1>1, <2>1, LongEnough
<1>6. AddressKnown' /\ GotDatagram'
      BY <1>1, <1>2 DEF AddressKnown, GotDatagram
<1> QED BY <1>3, <1>4, <1>5, <1>6

LEMMA ReplyTaskInv == ASSUME TaskInv, Reply PROVE TaskInv'
<1> USE DEF TaskInv, Reply, Goto
<1>p. PICK e : e = [n |-> got.n, address |-> address]
      OBVIOUS
<1>1. address \in Addresses
      BY DEF AddressKnown
<1>2. got.n \in 1..MaxArrivals
      BY DEF GotDatagram, Numbered
<1>3. e \in [n : 1..MaxArrivals, address : Addresses]
      BY <1>1, <1>2, <1>p
<1>4. tx \in Seq([n : 1..MaxArrivals, address : Addresses])
      BY DEF TypeOK
<1>5. /\ tx' = Append(tx, e) /\ Len(tx') = Len(tx) + 1 /\ Len(tx) \in Nat
      /\ tx' \in Seq([n : 1..MaxArrivals, address : Addresses])
      BY <1>p, <1>3, <1>4
<1>6. TypeOK'
  <2>1. answered' \subseteq 1..MaxArrivals
        BY <1>2 DEF TypeOK
  <2>3. Len(tx') <= TxSlots
        BY <1>5, ArtNetAssumption
  <2>2. pc' = "recv" /\ UNCHANGED <<lease, address, inbox, arrived,
                                    got, leds, strip>>
        OBVIOUS
  <2> QED BY <1>5, <2>1, <2>2, <2>3 DEF TypeOK
<1>7. PanicsOnlyOnShortFrame' /\ FrameWithinDatagram' /\ AddressKnown'
      /\ GotDatagram'
      BY DEF PanicsOnlyOnShortFrame, FrameWithinDatagram, AddressKnown,
             GotDatagram
<1> QED BY <1>6, <1>7

LEMMA TaskInductive == TaskInv /\ [Next]_vars => TaskInv'
<1> SUFFICES ASSUME TaskInv, [Next]_vars PROVE TaskInv'
    OBVIOUS
<1> USE ArtNetAssumption DEF TaskInv, Goto
<1>1. CASE Configured
  <2>1. lease \in Addresses
        BY <1>1 DEF Configured, TypeOK
  <2>2. TypeOK'
        BY <1>1, <2>1 DEF Configured, TypeOK
  <2>3. pc' = "recv" /\ address' = lease
        BY <1>1 DEF Configured
  <2>4. AddressKnown'
        BY <2>1, <2>3 DEF AddressKnown
  <2> QED BY <2>2, <2>3, <2>4
          DEF PanicsOnlyOnShortFrame, FrameWithinDatagram, GotDatagram
<1>2. CASE Recv
      BY <1>2, RecvTaskInv
<1>3. CASE Reply
      BY <1>3, ReplyTaskInv
<1>4. CASE Show
      BY <1>4 DEF Show, TypeOK, PanicsOnlyOnShortFrame, FrameWithinDatagram,
                  AddressKnown, GotDatagram
<1>5. CASE Lease
      BY <1>5 DEF Lease, TypeOK, PanicsOnlyOnShortFrame, FrameWithinDatagram,
                  AddressKnown, GotDatagram
<1>6. CASE Arrive
  <2>1. PICK d \in Datagrams : inbox' = Append(inbox, [n |-> arrived + 1, d |-> d])
        BY <1>6 DEF Arrive
  <2>2. arrived + 1 \in 1..MaxArrivals
        BY <1>6 DEF Arrive, TypeOK
  <2>3. [n |-> arrived + 1, d |-> d] \in Numbered
        BY <2>2 DEF Numbered
  <2>4. inbox \in Seq(Numbered) /\ Len(inbox) < RxSlots
        BY <1>6 DEF Arrive, TypeOK
  <2>5. inbox' \in Seq(Numbered) /\ Len(inbox') <= RxSlots
        BY <2>1, <2>3, <2>4
  <2>6. TypeOK'
        BY <1>6, <2>2, <2>5 DEF Arrive, TypeOK
  <2> QED BY <1>6, <2>6 DEF Arrive, PanicsOnlyOnShortFrame,
            FrameWithinDatagram, AddressKnown, GotDatagram
<1>7. CASE Sent
  <2>1. tx \in Seq([n : 1..MaxArrivals, address : Addresses]) /\ tx # <<>>
        BY <1>7 DEF Sent, TypeOK
  <2>2. /\ tx' \in Seq([n : 1..MaxArrivals, address : Addresses])
        /\ Len(tx') = Len(tx) - 1 /\ Len(tx) \in Nat
        BY <1>7, <2>1 DEF Sent
  <2>3. TypeOK'
        BY <1>7, <2>2 DEF Sent, TypeOK
  <2> QED BY <1>7, <2>1, <2>3 DEF Sent, PanicsOnlyOnShortFrame,
            FrameWithinDatagram, AddressKnown, GotDatagram
<1>8. CASE UNCHANGED vars
      BY <1>8 DEF vars, TypeOK, PanicsOnlyOnShortFrame, FrameWithinDatagram,
                  AddressKnown, GotDatagram
<1> QED BY <1>1, <1>2, <1>3, <1>4, <1>5, <1>6, <1>7, <1>8 DEF Next, Task

LEMMA TaskAlways == Spec => []TaskInv
<1> QED BY TaskInit, TaskInductive, PTL DEF Spec

\* The queues stay within their slots, and every reply carries an address that
\* the node was leased.
THEOREM ArtNetTypeOK == Spec => []TypeOK
<1> QED BY TaskAlways, PTL DEF TaskInv

\* Whatever arrives, only a frame of fewer than 62 channels stops the firmware.
THEOREM ArtNetPanicsOnlyOnShortFrame == Spec => []PanicsOnlyOnShortFrame
<1> QED BY TaskAlways, PTL DEF TaskInv

\* Whatever arrives, the LEDs are never given bytes from beyond the datagram.
THEOREM ArtNetFrameWithinDatagram == Spec => []FrameWithinDatagram
<1> QED BY TaskAlways, PTL DEF TaskInv

----------------------------------------------------------------------------
(* The offsets of a PollReply.                                             *)

\* Where the fields end, one after the other.
LEMMA EndsStep ==
  ASSUME NEW fields, NEW n \in Nat, Len(fields) = n,
         \A k \in 1..n : fields[k][2] \in Nat, NEW start \in Nat
  PROVE  /\ Ends(fields, start) \in [0..n -> Nat]
         /\ Ends(fields, start)[0] = start
         /\ \A k \in 1..n :
              Ends(fields, start)[k] = Ends(fields, start)[k - 1] + fields[k][2]
<1> DEFINE next == [a \in (1..n) \X Nat |-> a[2] + fields[a[1]][2]]
           Def(f) == [k \in 0..n |-> IF k = 0 THEN start
                                     ELSE f[k - 1] + fields[k][2]]
           P(f) == f = Def(f)
           end == Ends(fields, start)
<1>2. next \in [(1..n) \X Nat -> Nat]
      OBVIOUS
<1>3. \A k \in 1..n, v \in Nat : next[<<k, v>>] = v + fields[k][2]
      OBVIOUS
<1> HIDE DEF next
<1>4. PICK f \in [0..n -> Nat] : Follows(f, n, start, next)
      BY <1>2, Recursion
<1>5. ASSUME NEW k \in 1..n PROVE f[k] = f[k - 1] + fields[k][2]
  <2>1. k - 1 \in 0..n
        OBVIOUS
  <2> QED BY <1>3, <1>4, <2>1 DEF Follows
<1>6. P(f)
      BY <1>4, <1>5 DEF Follows
<1> HIDE DEF P
<1>7. P(CHOOSE g : P(g))
      BY <1>6, Zenon
<1>8. end = CHOOSE g : P(g)
      BY Zenon DEF Ends, P
<1>9. end = Def(end)
      BY <1>7, <1>8, Zenon DEF P
<1> HIDE DEF end
<1>10. end = [k \in 0..n |-> end[k]] /\ end[0] = start
      BY <1>9
<1>11. \A k \in 1..n : end[k] = end[k - 1] + fields[k][2]
  <2> TAKE k \in 1..n
  <2>1. k \in 0..n /\ k # 0
        OBVIOUS
  <2> QED BY <1>9, <2>1
<1>12. \A k \in 0..n : end[k] \in Nat
  <2> DEFINE S == {k \in 0..n : end[k] \in Nat}
  <2>1. 0 \in S
        BY <1>10
  <2>2. ASSUME NEW k \in 0..(n - 1), k \in S PROVE k + 1 \in S
    <3>1. k + 1 \in 1..n /\ (k + 1) - 1 = k
          OBVIOUS
    <3>2. end[k + 1] = end[k] + fields[k + 1][2]
          BY <1>11, <3>1
    <3>3. end[k] \in Nat /\ fields[k + 1][2] \in Nat
          BY <2>2, <3>1
    <3> QED BY <3>1, <3>2, <3>3
  <2> HIDE DEF S
  <2>3. 0..n \subseteq S
        BY <2>1, <2>2, UpTo
  <2> QED BY <2>3 DEF S
<1> QED BY <1>10, <1>11, <1>12 DEF end

\* The two lists: what is read first is written second, and so on.
LEMMA ReplyFields ==
  /\ Len(ReplyRead) = 30 /\ Len(ReplyWritten) = 32
  /\ \A k \in 1..30 : ReplyRead[k][2] \in Nat /\ ReplyWritten[k + 1] = ReplyRead[k]
  /\ ReplyWritten[1][2] = 2 /\ ReplyWritten[32][2] = 15
<1>1. Len(ReplyRead) = 30
      BY DEF ReplyRead
<1>2. Len(ReplyWritten) = 32
      BY DEF ReplyWritten
<1>3. ReplyWritten[1][2] = 2 /\ ReplyWritten[32][2] = 15
      BY DEF ReplyWritten
<1>4. \A k \in 1..30 : ReplyRead[k][2] \in Nat
      BY DEF ReplyRead
<1>5. /\ ReplyWritten[2] = ReplyRead[1] /\ ReplyWritten[3] = ReplyRead[2]
      /\ ReplyWritten[4] = ReplyRead[3] /\ ReplyWritten[5] = ReplyRead[4]
      /\ ReplyWritten[6] = ReplyRead[5] /\ ReplyWritten[7] = ReplyRead[6]
      /\ ReplyWritten[8] = ReplyRead[7] /\ ReplyWritten[9] = ReplyRead[8]
      /\ ReplyWritten[10] = ReplyRead[9] /\ ReplyWritten[11] = ReplyRead[10]
      /\ ReplyWritten[12] = ReplyRead[11] /\ ReplyWritten[13] = ReplyRead[12]
      /\ ReplyWritten[14] = ReplyRead[13] /\ ReplyWritten[15] = ReplyRead[14]
      /\ ReplyWritten[16] = ReplyRead[15] /\ ReplyWritten[17] = ReplyRead[16]
      /\ ReplyWritten[18] = ReplyRead[17] /\ ReplyWritten[19] = ReplyRead[18]
      /\ ReplyWritten[20] = ReplyRead[19] /\ ReplyWritten[21] = ReplyRead[20]
      /\ ReplyWritten[22] = ReplyRead[21] /\ ReplyWritten[23] = ReplyRead[22]
      /\ ReplyWritten[24] = ReplyRead[23] /\ ReplyWritten[25] = ReplyRead[24]
      /\ ReplyWritten[26] = ReplyRead[25] /\ ReplyWritten[27] = ReplyRead[26]
      /\ ReplyWritten[28] = ReplyRead[27] /\ ReplyWritten[29] = ReplyRead[28]
      /\ ReplyWritten[30] = ReplyRead[29] /\ ReplyWritten[31] = ReplyRead[30]
      BY DEF ReplyRead, ReplyWritten
<1>6. ASSUME NEW k \in 1..30 PROVE ReplyWritten[k + 1] = ReplyRead[k]
  <2>1. CASE k \in 1..10
        BY <1>5, <2>1
  <2>2. CASE k \in 11..20
        BY <1>5, <2>2
  <2>3. CASE k \in 21..30
        BY <1>5, <2>3
  <2> QED BY <2>1, <2>2, <2>3
<1> QED BY <1>1, <1>2, <1>3, <1>4, <1>6

\* Each field is read where it was written.
LEMMA Understood == ReplyUnderstood
<1> DEFINE r == Ends(ReplyRead, HeaderLen)
           w == Ends(ReplyWritten, 8)
<1>1. /\ r[0] = 10 /\ r \in [0..30 -> Nat]
      /\ \A k \in 1..30 : r[k] = r[k - 1] + ReplyRead[k][2]
  <2>1. Len(ReplyRead) = 30 /\ \A k \in 1..30 : ReplyRead[k][2] \in Nat
        BY ReplyFields
  <2>2. 30 \in Nat /\ HeaderLen \in Nat /\ HeaderLen = 10
        BY DEF HeaderLen
  <2>3. /\ Ends(ReplyRead, HeaderLen) \in [0..30 -> Nat]
        /\ Ends(ReplyRead, HeaderLen)[0] = HeaderLen
        /\ \A k \in 1..30 : Ends(ReplyRead, HeaderLen)[k]
              = Ends(ReplyRead, HeaderLen)[k - 1] + ReplyRead[k][2]
        BY <2>1, <2>2, EndsStep
  <2> QED BY <2>2, <2>3
<1>2. \A k \in 1..32 : ReplyWritten[k][2] \in Nat
  <2> TAKE k \in 1..32
  <2>1. CASE k \in 2..31
    <3>1. k - 1 \in 1..30 /\ (k - 1) + 1 = k
          BY <2>1
    <3> QED BY <3>1, ReplyFields
  <2>2. CASE k = 1 \/ k = 32
        BY <2>2, ReplyFields
  <2> QED BY <2>1, <2>2
<1>3. /\ w[0] = 8 /\ w \in [0..32 -> Nat]
      /\ \A k \in 1..32 : w[k] = w[k - 1] + ReplyWritten[k][2]
  <2>1. Len(ReplyWritten) = 32 /\ 32 \in Nat /\ 8 \in Nat
        BY ReplyFields
  <2>2. /\ Ends(ReplyWritten, 8) \in [0..32 -> Nat]
        /\ Ends(ReplyWritten, 8)[0] = 8
        /\ \A k \in 1..32 : Ends(ReplyWritten, 8)[k]
              = Ends(ReplyWritten, 8)[k - 1] + ReplyWritten[k][2]
        BY <1>2, <2>1, EndsStep
  <2> QED BY <2>2
<1> HIDE DEF r, w
<1>4. w[1] = 10
  <2>1. 1 \in 1..32 /\ 1 - 1 = 0
        OBVIOUS
  <2> QED BY <1>3, <2>1, ReplyFields
<1> DEFINE S == {k \in 0..30 : w[k + 1] = r[k]}
<1>5. 0 \in S
      BY <1>1, <1>4
<1>6. ASSUME NEW k \in 0..29, k \in S PROVE k + 1 \in S
  <2>1. /\ k + 1 \in 1..30 /\ k + 2 \in 1..32 /\ (k + 1) - 1 = k
        /\ (k + 2) - 1 = k + 1 /\ (k + 1) + 1 = k + 2
        OBVIOUS
  <2>2. r[k + 1] = r[k] + ReplyRead[k + 1][2]
        BY <1>1, <2>1
  <2>3. w[k + 2] = w[k + 1] + ReplyWritten[k + 2][2]
        BY <1>3, <2>1
  <2>4. ReplyWritten[k + 2] = ReplyRead[k + 1]
        BY <2>1, ReplyFields
  <2>5. w[(k + 1) + 1] = r[k + 1]
        BY <1>6, <2>1, <2>2, <2>3, <2>4
  <2>6. k + 1 \in 0..30
        OBVIOUS
  <2> QED BY <2>5, <2>6
<1> HIDE DEF S
<1>7. 0..30 \subseteq S
  <2>1. 30 \in Nat /\ 30 - 1 = 29
        OBVIOUS
  <2> QED BY <1>5, <1>6, <2>1, UpTo
<1>8. \A k \in 0..30 : w[k + 1] = r[k]
      BY <1>7 DEF S
<1>9. End(ReplyRead, HeaderLen) <= End(ReplyWritten, 8)
  <2>1. End(ReplyRead, HeaderLen) = r[30] /\ End(ReplyWritten, 8) = w[32]
        BY ReplyFields DEF End, r, w
  <2>2. w[32] = w[31] + 15
    <3>1. 32 \in 1..32 /\ 32 - 1 = 31
          OBVIOUS
    <3> QED BY <1>3, <3>1, ReplyFields
  <2>3. w[31] = r[30] /\ r[30] \in Nat
    <3>1. 30 \in 0..30 /\ 30 + 1 = 31
          OBVIOUS
    <3> QED BY <1>1, <1>8, <3>1
  <2> QED BY <2>1, <2>2, <2>3
<1>10. ASSUME NEW k \in 1..Len(ReplyRead)
       PROVE  \E j \in 1..Len(ReplyWritten) :
                /\ ReplyWritten[j] = ReplyRead[k]
                /\ Offset(ReplyWritten, 8, j) = Offset(ReplyRead, HeaderLen, k)
  <2>1. k \in 1..30 /\ k + 1 \in 1..32 /\ k - 1 \in 0..30 /\ (k - 1) + 1 = k
        /\ (k + 1) - 1 = k
        BY ReplyFields
  <2>2. Offset(ReplyWritten, 8, k + 1) = w[k] /\ Offset(ReplyRead, HeaderLen, k) = r[k - 1]
        BY <2>1 DEF Offset, r, w
  <2>3. w[k] = r[k - 1]
        BY <1>8, <2>1
  <2> QED BY <2>1, <2>2, <2>3, ReplyFields
<1> QED BY <1>9, <1>10 DEF ReplyUnderstood

\* What a node writes into a PollReply a node finds again, field by field.
THEOREM ArtNetReplyUnderstood == Spec => []ReplyUnderstood
<1> QED BY Understood, PTL

----------------------------------------------------------------------------
(* Integers and their bytes.                                               *)

LEMMA PlaceStep ==
  /\ Place \in [Nat -> Nat \ {0}] /\ Place[0] = 1
  /\ \A n \in Nat : Place[n + 1] = Place[n] * Base
<1> DEFINE next == [a \in (Nat \ {0}) \X (Nat \ {0}) |-> a[2] * Base]
           Def(f) == [n \in Nat |-> IF n = 0 THEN 1 ELSE f[n - 1] * Base]
           P(f) == f = Def(f)
<1>1. Base \in Nat \ {0}
      BY BufferAssumption
<1>2. ASSUME NEW v \in Nat \ {0} PROVE v * Base \in Nat \ {0}
      BY <1>1
<1>3. next \in [(Nat \ {0}) \X (Nat \ {0}) -> Nat \ {0}]
      BY <1>2
<1>4. \A n, v \in Nat \ {0} : next[<<n, v>>] = v * Base
      OBVIOUS
<1> HIDE DEF next
<1>5. 1 \in Nat \ {0}
      OBVIOUS
<1>6. PICK f \in [Nat -> Nat \ {0}] : \A n \in Nat : Follows(f, n, 1, next)
      BY <1>3, <1>5, RecursionNat
<1>7. f[0] = 1 /\ \A n \in Nat \ {0} : f[n] = f[n - 1] * Base
  <2>1. f[0] = 1
        BY <1>6 DEF Follows
  <2>2. ASSUME NEW n \in Nat \ {0} PROVE f[n] = f[n - 1] * Base
    <3>1. n \in 1..n /\ n \in Nat /\ n - 1 \in Nat
          OBVIOUS
    <3>2. f[n] = next[<<n, f[n - 1]>>]
          BY <1>6, <3>1 DEF Follows
    <3> QED BY <1>4, <1>6, <3>1, <3>2
  <2> QED BY <2>1, <2>2
<1>8. P(f)
      BY <1>6, <1>7
<1> HIDE DEF P
<1>9. P(CHOOSE g : P(g))
      BY <1>8, Zenon
<1>10. Place = Def(Place)
      BY <1>9, Zenon DEF Place, P
<1>11. Place = [n \in Nat |-> Place[n]] /\ Place[0] = 1
      BY <1>10
<1>12. \A n \in Nat : Place[n + 1] = Place[n] * Base
  <2> TAKE n \in Nat
  <2>1. n + 1 \in Nat /\ n + 1 # 0 /\ (n + 1) - 1 = n
        OBVIOUS
  <2> QED BY <1>10, <2>1
<1>13. ASSUME NEW n \in Nat PROVE Place[n] \in Nat \ {0}
  <2> DEFINE S == {i \in Nat : Place[i] \in Nat \ {0}}
  <2>1. 0 \in S
        BY <1>11
  <2>2. \A i \in 0..(n - 1) : i \in S => i + 1 \in S
        BY <1>2, <1>12
  <2> HIDE DEF S
  <2>3. 0..n \subseteq S
        BY <2>1, <2>2, UpTo
  <2> QED BY <2>3 DEF S
<1> QED BY <1>11, <1>12, <1>13

\* The value of the first i bytes of bs.
LEMMA BytesFold ==
  ASSUME NEW n \in Nat, NEW bs \in [1..n -> Byte]
  PROVE  \E value \in [0..n -> Nat] :
           /\ value[0] = 0 /\ FromBytes(bs) = value[n]
           /\ \A i \in 1..n : value[i] = value[i - 1] + bs[i] * Place[i - 1]
<1> DEFINE next == [a \in (1..n) \X Nat |-> a[2] + bs[a[1]] * Place[a[1] - 1]]
           Def(f) == [i \in 0..n |-> IF i = 0 THEN 0
                                     ELSE f[i - 1] + bs[i] * Place[i - 1]]
           P(f) == f = Def(f)
           value == CHOOSE f : P(f)
<1>1. ASSUME NEW i \in 1..n PROVE bs[i] * Place[i - 1] \in Nat
  <2>1. bs[i] \in Nat /\ i - 1 \in Nat
        BY BufferAssumption DEF Byte
  <2>2. Place[i - 1] \in Nat
        BY <2>1, PlaceStep
  <2> QED BY <2>1, <2>2
<1>2. next \in [(1..n) \X Nat -> Nat]
      BY <1>1
<1>3. \A i \in 1..n, v \in Nat : next[<<i, v>>] = v + bs[i] * Place[i - 1]
      OBVIOUS
<1> HIDE DEF next
<1>4. PICK f \in [0..n -> Nat] : Follows(f, n, 0, next)
      BY <1>2, Recursion
<1>5. ASSUME NEW i \in 1..n PROVE f[i] = f[i - 1] + bs[i] * Place[i - 1]
  <2>1. i - 1 \in 0..n
        OBVIOUS
  <2> QED BY <1>3, <1>4, <2>1 DEF Follows
<1>6. P(f)
      BY <1>4, <1>5 DEF Follows
<1> HIDE DEF P
<1>7. P(value)
      BY <1>6, Zenon
<1>8. value = Def(value)
      BY <1>7, Zenon DEF P
<1>9. Len(bs) = n
      OBVIOUS
<1>10. FromBytes(bs) = value[n]
      BY <1>9 DEF FromBytes, P
<1> HIDE DEF value
<1>11. value = [i \in 0..n |-> value[i]] /\ value[0] = 0
      BY <1>8
<1>12. \A i \in 1..n : value[i] = value[i - 1] + bs[i] * Place[i - 1]
  <2> TAKE i \in 1..n
  <2>1. i \in 0..n /\ i # 0
        OBVIOUS
  <2> QED BY <1>8, <2>1
<1>13. \A i \in 0..n : value[i] \in Nat
  <2> DEFINE S == {i \in 0..n : value[i] \in Nat}
  <2>1. 0 \in S
        BY <1>11
  <2>2. ASSUME NEW i \in 0..(n - 1), i \in S PROVE i + 1 \in S
    <3>1. i + 1 \in 1..n /\ (i + 1) - 1 = i
          OBVIOUS
    <3>2. value[i + 1] = value[i] + bs[i + 1] * Place[i]
          BY <1>12, <3>1
    <3>3. bs[i + 1] * Place[i] \in Nat /\ value[i] \in Nat
          BY <1>1, <2>2, <3>1
    <3> QED BY <3>1, <3>2, <3>3
  <2> HIDE DEF S
  <2>3. 0..n \subseteq S
        BY <2>1, <2>2, UpTo
  <2> QED BY <2>3 DEF S
<1> QED BY <1>10, <1>11, <1>12, <1>13

\* Division: the quotient and the remainder are the only ones.
LEMMA Quotient ==
  ASSUME NEW v \in Nat, NEW p \in Nat \ {0}
  PROVE  \E q \in Nat, r \in 0..(p - 1) :
           q = v \div p /\ r = v % p /\ v = q * p + r
<1>1. PICK q, r : q = v \div p /\ r = v % p
      OBVIOUS
<1>2. q \in Nat /\ r \in 0..(p - 1)
      BY <1>1
<1>3. v = q * p + r
      BY <1>1
<1> QED BY <1>1, <1>2, <1>3

LEMMA QuotientUnique ==
  ASSUME NEW p \in Nat \ {0}, NEW q \in Nat, NEW r \in 0..(p - 1)
  PROVE  (q * p + r) \div p = q /\ (q * p + r) % p = r
<1> DEFINE v == q * p + r
<1>0. q * p \in Nat
      OBVIOUS
<1>1. v \in Nat
      BY <1>0
<1> DEFINE d == v \div p
           m == v % p
<1>2. d \in Nat /\ m \in 0..(p - 1) /\ v = d * p + m
      BY <1>1, Quotient
<1> HIDE DEF d, m
<1>3. (d - q) * p = r - m
  <2>1. d * p \in Int /\ q * p \in Int /\ (d - q) * p = d * p - q * p
        BY <1>2
  <2> QED BY <1>2, <2>1
<1>4. d = q
  <2>1. r - m < p /\ m - r < p
        BY <1>2
  <2>2. CASE d >= q + 1
    <3>1. d - q >= 1 /\ d - q \in Int
          BY <1>2, <2>2
    <3>2. (d - q) * p >= p
          BY <3>1
    <3> QED BY <1>2, <1>3, <2>1, <3>2
  <2>3. CASE d <= q - 1
    <3>1. d - q <= -1 /\ d - q \in Int
          BY <1>2, <2>3
    <3>2. (d - q) * p <= -p
          BY <3>1
    <3> QED BY <1>2, <1>3, <2>1, <3>2
  <2> QED BY <1>2, <2>2, <2>3
<1>5. m = r
      BY <1>2, <1>4, <1>0
<1> QED BY <1>4, <1>5 DEF d, m

\* Two divisions in a row.
LEMMA NextDigit ==
  ASSUME NEW v \in Nat, NEW p \in Nat \ {0}, NEW b \in Nat \ {0}
  PROVE  /\ p * b \in Nat \ {0}
         /\ v % (p * b) = (v % p) + ((v \div p) % b) * p
<1>1. PICK q \in Nat, r \in 0..(p - 1) :
        q = v \div p /\ r = v % p /\ v = q * p + r
      BY Quotient
<1>2. PICK q2 \in Nat, r2 \in 0..(b - 1) :
        q2 = q \div b /\ r2 = q % b /\ q = q2 * b + r2
      BY Quotient
<1>4. p * b \in Nat \ {0}
      OBVIOUS
<1>5. v = q2 * (p * b) + (r + r2 * p)
  <2>1. p * b \in Nat /\ q2 * b \in Nat /\ r2 \in Nat
        OBVIOUS
  <2>2. q2 * (p * b) \in Nat /\ r2 * p \in Nat
        BY <2>1
  <2>3. (q2 * b + r2) * p = (q2 * b) * p + r2 * p
        BY <2>1
  <2>4. (q2 * b) * p = q2 * (p * b)
        OBVIOUS
  <2>5. q * p = q2 * (p * b) + r2 * p
        BY <1>2, <2>3, <2>4
  <2> QED BY <1>1, <2>2, <2>5
<1>6. r + r2 * p \in 0..(p * b - 1)
  <2>1. r2 * p \in Nat /\ r2 * p <= (b - 1) * p
        BY <1>2
  <2>2. (b - 1) * p = p * b - p /\ p * b \in Nat
        OBVIOUS
  <2> QED BY <1>2, <2>1, <2>2
<1>7. v % (p * b) = r + r2 * p
      BY <1>4, <1>5, <1>6, QuotientUnique
<1> QED BY <1>1, <1>2, <1>4, <1>7

\* read after write: the first i bytes are worth the remainder by Place[i].
LEMMA FromTo ==
  ASSUME NEW n \in Nat, NEW v \in 0..(Place[n] - 1)
  PROVE  ToBytes(v, n) \in [1..n -> Byte] /\ FromBytes(ToBytes(v, n)) = v
<1>0. v \in Nat /\ Place[n] \in Nat \ {0} /\ Base \in Nat \ {0}
      BY PlaceStep, BufferAssumption
<1> DEFINE bs == ToBytes(v, n)
<1>1. ASSUME NEW i \in 1..n
      PROVE  bs[i] = (v \div Place[i - 1]) % Base /\ bs[i] \in Byte
  <2>1. i - 1 \in Nat
        OBVIOUS
  <2>2. Place[i - 1] \in Nat \ {0}
        BY <2>1, PlaceStep
  <2>3. PICK q \in Nat : q = v \div Place[i - 1]
        BY <1>0, <2>2, Quotient
  <2>4. q % Base \in 0..(Base - 1)
        BY <1>0, Quotient
  <2> QED BY <2>3, <2>4 DEF ToBytes, Byte
<1>2. bs = [i \in 1..n |-> bs[i]]
      BY DEF ToBytes
<1> HIDE DEF bs
<1>3. bs \in [1..n -> Byte]
      BY <1>1, <1>2
<1>4. PICK value \in [0..n -> Nat] :
        /\ value[0] = 0 /\ FromBytes(bs) = value[n]
        /\ \A i \in 1..n : value[i] = value[i - 1] + bs[i] * Place[i - 1]
      BY <1>3, BytesFold
<1> DEFINE S == {i \in 0..n : value[i] = v % Place[i]}
<1>5. 0 \in S
  <2>1. v % 1 = 0
        BY <1>0
  <2> QED BY <1>4, <2>1, PlaceStep
<1>6. ASSUME NEW i \in 0..(n - 1), i \in S PROVE i + 1 \in S
  <2>1. i + 1 \in 1..n /\ (i + 1) - 1 = i /\ i \in Nat /\ value[i] = v % Place[i]
        BY <1>6
  <2>2. Place[i] \in Nat \ {0} /\ Place[i + 1] = Place[i] * Base
        BY <2>1, PlaceStep
  <2>3. v % Place[i + 1] = (v % Place[i]) + ((v \div Place[i]) % Base) * Place[i]
    <3>1. PICK p : p = Place[i]
          OBVIOUS
    <3>2. v % (p * Base) = (v % p) + ((v \div p) % Base) * p
          BY <1>0, <2>2, <3>1, NextDigit
    <3> QED BY <2>2, <3>1, <3>2, Zenon
  <2>4. value[i + 1] = value[i] + bs[i + 1] * Place[i]
        BY <1>4, <2>1
  <2>5. bs[i + 1] = (v \div Place[i]) % Base
        BY <1>1, <2>1
  <2>6. value[i + 1] = v % Place[i + 1]
        BY <2>1, <2>3, <2>4, <2>5
  <2> QED BY <2>1, <2>6
<1> HIDE DEF S
<1>7. 0..n \subseteq S
      BY <1>5, <1>6, UpTo
<1>8. value[n] = v % Place[n]
  <2>1. n \in 0..n
        OBVIOUS
  <2> QED BY <1>7, <2>1 DEF S
<1>9. v % Place[n] = v
  <2>1. v = 0 * Place[n] + v
        BY <1>0
  <2> QED BY <1>0, <2>1, QuotientUnique
<1> QED BY <1>3, <1>4, <1>8, <1>9 DEF bs

\* write after read.
LEMMA ToFrom ==
  ASSUME NEW n \in Nat, NEW bs \in [1..n -> Byte]
  PROVE  /\ FromBytes(bs) \in 0..(Place[n] - 1)
         /\ ToBytes(FromBytes(bs), n) = bs
<1>0. Base \in Nat \ {0} /\ \A i \in 1..n : bs[i] \in 0..(Base - 1)
      BY BufferAssumption DEF Byte
<1>1. PICK value \in [0..n -> Nat] :
        /\ value[0] = 0 /\ FromBytes(bs) = value[n]
        /\ \A i \in 1..n : value[i] = value[i - 1] + bs[i] * Place[i - 1]
      BY BytesFold
<1>2. ASSUME NEW i \in 0..(n - 1)
      PROVE  /\ i + 1 \in 1..n /\ i \in 0..n /\ i + 1 \in 0..n
             /\ Place[i] \in Nat \ {0} /\ Place[i + 1] = Place[i] * Base
             /\ value[i + 1] = value[i] + bs[i + 1] * Place[i]
             /\ bs[i + 1] \in 0..(Base - 1) /\ value[i] \in Nat
  <2>1. i + 1 \in 1..n /\ (i + 1) - 1 = i /\ i \in Nat /\ i \in 0..n /\ i + 1 \in 0..n
        OBVIOUS
  <2>2. Place[i] \in Nat \ {0} /\ Place[i + 1] = Place[i] * Base
        BY <2>1, PlaceStep
  <2>3. value[i + 1] = value[i] + bs[i + 1] * Place[i]
        BY <1>1, <2>1
  <2> QED BY <1>0, <2>1, <2>2, <2>3
\* The value of the first i bytes is less than Place[i].
<1>3. \A i \in 0..n : value[i] < Place[i]
  <2> DEFINE S == {i \in 0..n : value[i] < Place[i]}
  <2>1. 0 \in S
        BY <1>1, PlaceStep
  <2>2. ASSUME NEW i \in 0..(n - 1), i \in S PROVE i + 1 \in S
    <3>1. PICK p, b, w : p = Place[i] /\ b = bs[i + 1] /\ w = value[i]
          OBVIOUS
    <3>2. p \in Nat \ {0} /\ b \in 0..(Base - 1) /\ w \in Nat /\ w < p
          BY <1>2, <2>2, <3>1
    <3>3. b * p \in Nat /\ b * p <= (Base - 1) * p
          BY <1>0, <3>2
    <3>4. (Base - 1) * p = p * Base - p /\ p * Base \in Nat
          BY <1>0, <3>2
    <3>5. w + b * p < p * Base
          BY <3>2, <3>3, <3>4
    <3>6. value[i + 1] < Place[i + 1]
          BY <1>2, <3>1, <3>5
    <3> QED BY <1>2, <3>6
  <2> HIDE DEF S
  <2>3. 0..n \subseteq S
        BY <2>1, <2>2, UpTo
  <2> QED BY <2>3 DEF S
\* The bytes from i + 1 on are worth a multiple of Place[i].
<1>4. ASSUME NEW i \in 1..n
      PROVE  \E k \in Nat : value[n] = value[i] + k * Place[i]
  <2> DEFINE Above(j) == \E k \in Nat, m \in Nat :
               value[j] = value[i] + k * Place[i] /\ Place[j] = m * Place[i]
             S == {j \in 0..n : j >= i => Above(j)}
  <2>0. Place[i] \in Nat \ {0} /\ value[i] \in Nat
    <3>1. i \in Nat /\ i \in 0..n
          OBVIOUS
    <3> QED BY <3>1, PlaceStep
  <2>1. 0 \in S
        OBVIOUS
  <2>2. ASSUME NEW j \in 0..(n - 1), j \in S PROVE j + 1 \in S
    <3>1. CASE j + 1 < i
          BY <1>2, <3>1
    <3>2. CASE j + 1 = i
      <4>1. value[j + 1] = value[i] + 0 * Place[i] /\ Place[j + 1] = 1 * Place[i]
            BY <2>0, <3>2
      <4>2. Above(j + 1)
            BY <4>1
      <4> QED BY <1>2, <4>2
    <3>3. CASE j + 1 > i
      <4>1. Above(j)
            BY <2>2, <3>3
      <4>2. PICK k \in Nat, m \in Nat :
              value[j] = value[i] + k * Place[i] /\ Place[j] = m * Place[i]
            BY <4>1
      <4>3. PICK p, b : p = Place[i] /\ b = bs[j + 1]
            OBVIOUS
      <4>4. p \in Nat \ {0} /\ b \in Nat
            BY <1>0, <1>2, <2>0, <4>3
      <4>5. b * m \in Nat /\ (k + b * m) * p = k * p + b * (m * p)
            BY <4>4
      <4>6. m * Base \in Nat /\ (m * p) * Base = (m * Base) * p
            BY <1>0, <4>4
      <4>7. k + b * m \in Nat
            BY <4>5
      <4>8. value[j + 1] = value[i] + (k + b * m) * Place[i]
        <5>1. value[j + 1] = (value[i] + k * p) + b * (m * p)
              BY <1>2, <4>2, <4>3
        <5>2. k * p \in Nat /\ b * (m * p) \in Nat
              BY <4>4
        <5> QED BY <2>0, <4>3, <4>5, <5>1, <5>2
      <4>9. Place[j + 1] = (m * Base) * Place[i]
            BY <1>2, <4>2, <4>3, <4>6
      <4>10. Above(j + 1)
            BY <4>6, <4>7, <4>8, <4>9
      <4> QED BY <1>2, <4>10
    <3> QED BY <3>1, <3>2, <3>3
  <2> HIDE DEF S
  <2>3. 0..n \subseteq S
        BY <2>1, <2>2, UpTo
  <2>4. n \in S /\ n >= i
        BY <2>3
  <2> QED BY <2>4 DEF S
<1>5. ASSUME NEW i \in 1..n
      PROVE  (value[n] \div Place[i - 1]) % Base = bs[i]
  <2>0. i - 1 \in 0..(n - 1) /\ (i - 1) + 1 = i
        OBVIOUS
  <2>1. PICK p, b, w : p = Place[i - 1] /\ b = bs[i] /\ w = value[i - 1]
        OBVIOUS
  <2>2. /\ p \in Nat \ {0} /\ Place[i] = p * Base /\ value[i] = w + b * p
        /\ b \in 0..(Base - 1) /\ w \in Nat
        BY <1>2, <2>0, <2>1
  <2>3. w \in 0..(p - 1)
    <3>1. i - 1 \in 0..n
          OBVIOUS
    <3> QED BY <1>3, <2>1, <2>2, <3>1
  <2>4. PICK k \in Nat : value[n] = value[i] + k * Place[i]
        BY <1>4
  <2>5. value[n] = (k * Base + b) * p + w
    <3>1. (k * Base + b) * p = k * (p * Base) + b * p
      <4>1. b \in Nat /\ k * Base \in Nat
            BY <1>0, <2>2
      <4>2. (k * Base + b) * p = (k * Base) * p + b * p
            BY <2>2, <4>1
      <4>3. (k * Base) * p = k * (p * Base)
            BY <1>0, <2>2
      <4> QED BY <4>2, <4>3
    <3>2. p * Base \in Nat /\ b * p \in Nat
          BY <1>0, <2>2
    <3>3. k * (p * Base) \in Nat
          BY <3>2
    <3> QED BY <2>2, <2>4, <3>1, <3>2, <3>3
  <2>6. k * Base + b \in Nat
    <3>1. k * Base \in Nat /\ b \in Nat
          BY <1>0, <2>2
    <3> QED BY <3>1
  <2>7. value[n] \div p = k * Base + b
        BY <2>2, <2>3, <2>5, <2>6, QuotientUnique
  <2>8. (k * Base + b) % Base = b
        BY <1>0, <2>2, QuotientUnique
  <2> QED BY <2>1, <2>7, <2>8
<1>6. value[n] \in 0..(Place[n] - 1)
  <2>1. n \in 0..n /\ Place[n] \in Nat
        BY PlaceStep
  <2> QED BY <1>3, <2>1
<1>7. ToBytes(value[n], n) = bs
      BY <1>5 DEF ToBytes
<1> QED BY <1>1, <1>6, <1>7

\* ENDIAN's read and write functions are each other's inverse, for integers of
\* any width: nothing is lost on the way, and every value has one encoding.
THEOREM ConversionsInvert ==
  \A n \in Nat :
    /\ \A v \in 0..(Place[n] - 1) :
         /\ ToBytes(v, n) \in [1..n -> Byte]
         /\ FromBytes(ToBytes(v, n)) = v
    /\ \A bs \in [1..n -> Byte] :
         /\ FromBytes(bs) \in 0..(Place[n] - 1)
         /\ ToBytes(FromBytes(bs), n) = bs
<1> QED BY FromTo, ToFrom

----------------------------------------------------------------------------
(* The cursors.                                                            *)

\* A reader has the items it has read behind it, and no more.
ReaderBehind ==
  /\ rpos = EndOf(Len(back)) /\ Len(back) <= Len(log)
  /\ limit = -1 => back = <<>>
  /\ limit # -1 => limit = pos

\* What was read is a part of what was written.
GotIsLog == \A k \in 1..Len(back) : back[k] = log[k]

\* No item reaches past the cursor, where the next one is put.
ItemsBelow == \A k \in 1..Len(log) : EndOf(k) <= pos

CursorInv == CursorTypeOK /\ Layout /\ GotIsLog /\ ReaderBehind /\ ItemsBelow

LEMMA ElementOfSeq ==
  ASSUME NEW S, NEW s \in Seq(S), NEW k \in 1..Len(s)
  PROVE  s[k] \in S
  OBVIOUS

LEMMA ItemFacts ==
  ASSUME NEW it \in Items
  PROVE  /\ it.width \in Nat
         /\ Encode(it) \in [1..it.width -> Byte]
         /\ Decode(it, Encode(it)) = it
<1>1. CASE it \in Uints
  <2>1. PICK n \in Widths :
          it \in [kind : {"uint"}, width : {n}, num : 0..(Place[n] - 1)]
        BY <1>1 DEF Uints
  <2>2. it.kind = "uint" /\ it.width = n /\ it.num \in 0..(Place[n] - 1)
        BY <2>1
  <2>3. it = [kind |-> "uint", width |-> n, num |-> it.num]
        BY <2>1
  <2> QED BY <2>2, <2>3, ConversionsInvert, BufferAssumption DEF Encode, Decode
<1>2. CASE it \in ByteArrays
  <2>1. PICK n \in Arrays :
          it \in [kind : {"array"}, width : {n}, bytes : [1..n -> Byte]]
        BY <1>2 DEF ByteArrays
  <2>2. it.kind = "array" /\ it.width = n /\ it.bytes \in [1..n -> Byte]
        BY <2>1
  <2>3. it = [kind |-> "array", width |-> n, bytes |-> it.bytes]
        BY <2>1
  <2> QED BY <2>2, <2>3, BufferAssumption DEF Encode, Decode
<1> QED BY <1>1, <1>2 DEF Items

\* What is decoded from the bytes that are there encodes to these bytes.
LEMMA DecodedEncodes ==
  ASSUME NEW it \in Items, NEW bs \in [1..it.width -> Byte],
         it = Decode(it, bs)
  PROVE  Encode(it) = bs
<1>1. CASE it \in Uints
  <2>1. PICK n \in Widths :
          it \in [kind : {"uint"}, width : {n}, num : 0..(Place[n] - 1)]
        BY <1>1 DEF Uints
  <2>2. it.kind = "uint" /\ it.width = n
        BY <2>1
  <2>3. it.num = FromBytes(bs)
        BY <2>2 DEF Decode
  <2> QED BY <2>2, <2>3, ConversionsInvert, BufferAssumption DEF Encode
<1>2. CASE it \in ByteArrays
  <2>1. it.kind = "array"
        BY <1>2 DEF ByteArrays
  <2> QED BY <2>1 DEF Encode, Decode
<1> QED BY <1>1, <1>2 DEF Items

LEMMA CursorInit == BufferInit => CursorInv
<1> SUFFICES ASSUME BufferInit PROVE CursorInv
    OBVIOUS
<1> USE BufferAssumption DEF BufferInit
<1>1. log = <<>> /\ back = <<>> /\ Len(log) = 0 /\ Len(back) = 0
      OBVIOUS
<1>2. CursorTypeOK
      BY DEF CursorTypeOK
<1>3. Layout /\ GotIsLog /\ ReaderBehind /\ ItemsBelow
      BY <1>1 DEF Layout, GotIsLog, ReaderBehind, ItemsBelow, EndOf
<1> QED BY <1>2, <1>3 DEF CursorInv

\* One more item, whether it is written or was there: the items before it are
\* left alone, and it follows them.
LEMMA OneMore ==
  ASSUME CursorInv, NEW it \in Items, limit = -1,
         Fits(pos, it.width, BufLen),
         pos' = pos + it.width,
         log' = Append(log, [at |-> pos, item |-> it]),
         data' \in [1..BufLen -> Byte],
         \A i \in 1..pos : data'[i] = data[i],
         \A i \in 1..it.width : data'[pos + i] = Encode(it)[i],
         UNCHANGED <<limit, rpos, back>>
  PROVE  CursorInv'
<1> USE BufferAssumption DEF CursorInv
<1>p. PICK p, n : p = pos /\ n = Len(log)
      OBVIOUS
<1> DEFINE e == [at |-> p, item |-> it]
<1>1. it.width \in Nat /\ Encode(it) \in [1..it.width -> Byte]
      BY ItemFacts
<1>2. p \in 0..BufLen /\ pos' \in 0..BufLen /\ n \in Nat
      BY <1>1, <1>p DEF CursorTypeOK, Fits
<1>3. log \in Seq([at : 0..BufLen, item : Items])
      BY DEF CursorTypeOK
<1>4. e \in [at : 0..BufLen, item : Items]
      BY <1>2
<1>5. /\ log' \in Seq([at : 0..BufLen, item : Items])
      /\ Len(log') = n + 1
      /\ \A k \in 1..n : log'[k] = log[k]
      /\ log'[n + 1] = e
      BY <1>3, <1>4, <1>p
<1>6. CursorTypeOK'
      BY <1>2, <1>5 DEF CursorTypeOK
<1>7. \A k \in 1..n :
        log[k].at \in Nat /\ log[k].item \in Items /\ log[k].item.width \in Nat
  <2> TAKE k \in 1..n
  <2>1. log[k] \in [at : 0..BufLen, item : Items]
        BY <1>3, <1>p, ElementOfSeq
  <2> QED BY <2>1, ItemFacts
<1>8. \A k \in 0..n : EndOf(k)' = EndOf(k)
      BY <1>2, <1>5 DEF EndOf
<1>9. EndOf(n + 1)' = p + it.width
      BY <1>2, <1>5 DEF EndOf
<1>10. ASSUME NEW k \in 1..n
       PROVE  Slice(log[k].at, log[k].item.width)'
                = Slice(log[k].at, log[k].item.width)
  <2>1. log[k].at + log[k].item.width <= p
        BY <1>2, <1>p DEF EndOf, ItemsBelow
  <2>2. log[k].at \in Nat /\ log[k].item.width \in Nat /\ log'[k] = log[k]
        BY <1>5, <1>7
  <2>3. \A i \in 1..log[k].item.width : log[k].at + i \in 1..p
    <3>1. \A a, w, i \in Nat : a + w <= p /\ i \in 1..w => a + i \in 1..p
          BY <1>2
    <3> TAKE i \in 1..log[k].item.width
    <3>2. i \in Nat
          BY <2>2
    <3>3. log[k].at + i \in 1..p
          BY ONLY <2>1, <2>2, <3>1, <3>2, i \in 1..log[k].item.width
    <3> QED BY <3>3
  <2> QED BY <1>p, <2>2, <2>3 DEF Slice
<1>11. ASSUME NEW k, k = n + 1
       PROVE  Slice(log[k].at, log[k].item.width)' = Encode(it)
  <2>1. \A i \in 1..it.width : data'[p + i] = Encode(it)[i]
        BY <1>p
  <2>2. log'[k].at = p /\ log'[k].item.width = it.width
        BY <1>5, <1>11
  <2>3. Slice(log[k].at, log[k].item.width)'
          = [i \in 1..it.width |-> data'[p + i]]
        BY <2>2 DEF Slice
  <2> QED BY <1>1, <2>1, <2>3
<1>12. Layout'
  <2>1. pos' = EndOf(Len(log))'
        BY <1>5, <1>9, <1>p
  <2>2. ASSUME NEW k \in 1..n
        PROVE  /\ log'[k].at = EndOf(k - 1)'
               /\ Slice(log[k].at, log[k].item.width)' = Encode(log'[k].item)
    <3>1. k - 1 \in 0..n /\ log'[k] = log[k]
          BY <1>2, <1>5
    <3> QED BY <1>8, <1>10, <1>p, <3>1 DEF Layout
  <2>3. log'[n + 1].at = EndOf(n)' /\ log'[n + 1].item = it
        BY <1>2, <1>5, <1>8, <1>p DEF Layout
  <2>4. \A k : k = n + 1
                => Slice(log[k].at, log[k].item.width)' = Encode(it)
        BY <1>11
  <2> QED BY <1>2, <1>5, <2>1, <2>2, <2>3, <2>4 DEF Layout
<1>13. GotIsLog'
      BY <1>p DEF GotIsLog, ReaderBehind
<1>14. ReaderBehind'
      BY <1>2, <1>5, <1>8, <1>p DEF ReaderBehind
<1>15. ItemsBelow'
  <2>1. \A k \in 1..n : EndOf(k)' <= p + it.width
    <3> TAKE k \in 1..n
    <3>1. EndOf(k) <= p /\ EndOf(k) \in Nat
          BY <1>2, <1>7, <1>p DEF ItemsBelow, EndOf
    <3> QED BY <1>1, <1>2, <1>8, <3>1
  <2> QED BY <1>1, <1>2, <1>5, <1>9, <1>p, <2>1 DEF ItemsBelow
<1> QED BY <1>6, <1>12, <1>13, <1>14, <1>15

LEMMA WriteCursorInv ==
  ASSUME CursorInv, NEW it \in Items, Write(it) PROVE CursorInv'
<1> USE BufferAssumption DEF Write
<1>1. it.width \in Nat /\ Encode(it) \in [1..it.width -> Byte]
      BY ItemFacts
<1>2. pos \in Nat /\ pos + it.width <= BufLen /\ data \in [1..BufLen -> Byte]
      BY <1>1 DEF CursorInv, CursorTypeOK, Fits
<1>3. data' \in [1..BufLen -> Byte]
  <2>1. \A i \in (pos + 1)..(pos + it.width) : i - pos \in 1..it.width
        BY <1>1, <1>2
  <2> QED BY <1>1, <1>2, <2>1
<1>4. \A i \in 1..pos : data'[i] = data[i]
      BY <1>1, <1>2
<1>5. \A i \in 1..it.width : data'[pos + i] = Encode(it)[i]
  <2> TAKE i \in 1..it.width
  <2>1. pos + i \in (pos + 1)..(pos + it.width) /\ (pos + i) - pos = i
        BY <1>1, <1>2
  <2>2. pos + i \in 1..BufLen
        BY <1>1, <1>2, <2>1
  <2> QED BY <2>1, <2>2
<1> QED BY <1>3, <1>4, <1>5, OneMore

LEMMA PassCursorInv ==
  ASSUME CursorInv, NEW it \in Items, Pass(it) PROVE CursorInv'
<1> USE BufferAssumption DEF Pass
<1>1. it.width \in Nat
      BY ItemFacts
<1>2. pos \in Nat /\ pos + it.width <= BufLen /\ data \in [1..BufLen -> Byte]
      BY <1>1 DEF CursorInv, CursorTypeOK, Fits
<1>3. Slice(pos, it.width) \in [1..it.width -> Byte]
      BY <1>1, <1>2 DEF Slice
<1>4. Encode(it) = Slice(pos, it.width)
      BY <1>3, DecodedEncodes
<1>5. \A i \in 1..it.width : data'[pos + i] = Encode(it)[i]
      BY <1>4 DEF Slice
<1> QED BY <1>2, <1>5, OneMore

LEMMA OpenCursorInv == ASSUME CursorInv, Open PROVE CursorInv'
<1> USE BufferAssumption DEF CursorInv, Open
<1>1. CursorTypeOK' /\ ItemsBelow' /\ GotIsLog'
      BY DEF CursorTypeOK, ItemsBelow, EndOf, GotIsLog
<1>2. Layout'
      BY DEF Layout, EndOf, Slice
<1>3. ReaderBehind'
      BY DEF CursorTypeOK, ReaderBehind, EndOf
<1> QED BY <1>1, <1>2, <1>3

\* The item the reader is at, and where it ends.
LEMMA AtItem ==
  ASSUME CursorInv, Len(back) < Len(log),
         NEW e, e = log[Len(back) + 1]
  PROVE  /\ e \in [at : 0..BufLen, item : Items] /\ e.item.width \in Nat
         /\ e.at = rpos /\ rpos + e.item.width <= pos
         /\ Slice(rpos, e.item.width) = Encode(e.item)
         /\ EndOf(Len(back) + 1) = rpos + e.item.width
<1> USE DEF CursorInv
<1>1. Len(back) \in Nat /\ Len(log) \in Nat /\ Len(back) + 1 \in 1..Len(log)
      BY DEF CursorTypeOK
<1>2. e \in [at : 0..BufLen, item : Items]
      BY <1>1, ElementOfSeq DEF CursorTypeOK
<1>3. e.item.width \in Nat
      BY <1>2, ItemFacts
<1>4. e.at = rpos /\ Slice(e.at, e.item.width) = Encode(e.item)
      BY <1>1 DEF Layout, ReaderBehind
<1>5. EndOf(Len(back) + 1) = e.at + e.item.width
      BY <1>1 DEF EndOf
<1>6. EndOf(Len(back) + 1) <= pos
      BY <1>1 DEF ItemsBelow
<1> QED BY <1>2, <1>3, <1>4, <1>5, <1>6

LEMMA CursorInvReadBack == CursorInv => ReadBack
<1> SUFFICES ASSUME CursorInv PROVE ReadBack
    OBVIOUS
<1>1. limit # -1 /\ Len(back) < Len(log)
        => Fits(rpos, log[Len(back) + 1].item.width, limit)
      BY AtItem DEF CursorInv, ReaderBehind, Fits
<1>2. limit # -1 /\ Len(back) = Len(log) => rpos = limit
      BY DEF CursorInv, ReaderBehind, Layout
<1> QED BY <1>1, <1>2 DEF CursorInv, GotIsLog, ReadBack

LEMMA ReadCursorInv == ASSUME CursorInv, Read PROVE CursorInv'
<1> USE BufferAssumption DEF CursorInv
<1>p. PICK n, e : n = Len(back) /\ e = log[n + 1]
      OBVIOUS
<1>1. /\ e \in [at : 0..BufLen, item : Items] /\ e.item.width \in Nat
      /\ e.at = rpos /\ rpos + e.item.width <= pos
      /\ Slice(rpos, e.item.width) = Encode(e.item)
      /\ EndOf(n + 1) = rpos + e.item.width
      BY <1>p, AtItem DEF Read
<1>2. e = [at |-> rpos, item |-> Decode(e.item, Slice(rpos, e.item.width))]
  <2>1. e.item \in Items
        BY <1>1
  <2>2. Decode(e.item, Slice(rpos, e.item.width)) = e.item
        BY <1>1, <2>1, ItemFacts
  <2>3. e = [at |-> e.at, item |-> e.item]
        BY <1>1
  <2> QED BY <1>1, <2>2, <2>3
<1>3. back' = Append(back, e) /\ rpos' = rpos + e.item.width
      BY <1>p, <1>2 DEF Read
<1>4. /\ back \in Seq([at : 0..BufLen, item : Items]) /\ n \in Nat
      /\ n + 1 <= Len(log) /\ Len(log) \in Nat
      BY <1>p DEF CursorTypeOK, Read
<1>5. /\ back' \in Seq([at : 0..BufLen, item : Items])
      /\ Len(back') = n + 1 /\ back'[n + 1] = e
      /\ \A k \in 1..n : back'[k] = back[k]
      BY <1>1, <1>3, <1>4, <1>p
<1>6. CursorTypeOK'
  <2>1. rpos' \in 0..BufLen
        BY <1>1, <1>3 DEF CursorTypeOK
  <2>2. UNCHANGED <<data, pos, log, limit>>
        BY DEF Read
  <2> QED BY <1>5, <2>1, <2>2 DEF CursorTypeOK
<1>7. Layout' /\ ItemsBelow'
      BY DEF Read, Layout, ItemsBelow, EndOf, Slice
<1>8. GotIsLog'
      BY <1>4, <1>5, <1>p DEF GotIsLog, Read
<1>9. ReaderBehind'
  <2>1. \A k \in 0..(n + 1) : EndOf(k)' = EndOf(k)
        BY DEF EndOf, Read
  <2>2. rpos' = EndOf(Len(back))'
        BY <1>1, <1>3, <1>4, <1>5, <2>1
  <2> QED BY <1>4, <1>5, <2>2 DEF ReaderBehind, Read
<1> QED BY <1>6, <1>7, <1>8, <1>9

LEMMA CursorInductive ==
  CursorInv /\ [BufferNext]_bufferVars => CursorInv'
<1>1. CASE UNCHANGED bufferVars
      BY <1>1 DEF bufferVars, CursorInv, CursorTypeOK, Layout, GotIsLog,
                  ReaderBehind, ItemsBelow, EndOf, Slice
<1> QED BY <1>1, WriteCursorInv, PassCursorInv, OpenCursorInv, ReadCursorInv DEF BufferNext

LEMMA CursorAlways == BufferSpec => []CursorInv
<1> QED BY CursorInit, CursorInductive, PTL DEF BufferSpec

\* The cursors stay within the slice and every byte is a byte.
THEOREM BufferTypeOK == BufferSpec => []CursorTypeOK
<1> QED BY CursorAlways, PTL DEF CursorInv

\* A packet lies in the slice as its write function spells it out, whatever
\* the slice held before.
THEOREM BufferLayout == BufferSpec => []Layout
<1> QED BY CursorAlways, PTL DEF CursorInv

\* What is read with the kinds and widths it was written with is what was
\* written, and no read of it meets the end of the slice.
THEOREM BufferReadBack == BufferSpec => []ReadBack
<1> QED BY CursorAlways, CursorInvReadBack, PTL

----------------------------------------------------------------------------
(* The LED buffer.                                                         *)

----------------------------------------------------------------------------
(* One component: its 24 bits can be written, and give the component back. *)

LEMMA BitIsBit == \A x, w \in Nat : w # 0 => Bit(x, w) \in 0..1
  BY SMT DEF Bit

LEMMA Halving ==
  ASSUME NEW b1 \in Int, NEW b2 \in Int, NEW b4 \in Int, NEW b8 \in Int,
         NEW b16 \in Int, NEW b32 \in Int, NEW b64 \in Int, NEW b128 \in Int
  PROVE  ((((((b128 * 2 + b64) * 2 + b32) * 2 + b16) * 2 + b8) * 2 + b4) * 2
            + b2) * 2 + b1
         = b1 + b2 * 2 + b4 * 4 + b8 * 8 + b16 * 16 + b32 * 32 + b64 * 64
           + b128 * 128
  BY SMT

\* A byte is the sum of its bits.
LEMMA SumOfBits ==
  ASSUME NEW x \in 0..255
  PROVE  x =   Bit(x, 1)       + Bit(x, 2) * 2   + Bit(x, 4) * 4
             + Bit(x, 8) * 8   + Bit(x, 16) * 16 + Bit(x, 32) * 32
             + Bit(x, 64) * 64 + Bit(x, 128) * 128
<1>0. PICK h2, h4, h8, h16, h32, h64, h128 :
        /\ h2 = x \div 2 /\ h4 = x \div 4 /\ h8 = x \div 8 /\ h16 = x \div 16
        /\ h32 = x \div 32 /\ h64 = x \div 64 /\ h128 = x \div 128
      OBVIOUS
<1>1. /\ h2 \in Int /\ h4 \in Int /\ h8 \in Int /\ h16 \in Int /\ h32 \in Int
      /\ h64 \in Int /\ h128 \in 0..1
      BY <1>0, SMT
<1>2. x = h2 * 2 + Bit(x, 1)
      BY <1>0, SMT DEF Bit
<1>3. h2 = h4 * 2 + Bit(x, 2)
      BY <1>0, SMT DEF Bit
<1>4. h4 = h8 * 2 + Bit(x, 4)
      BY <1>0, SMT DEF Bit
<1>5. h8 = h16 * 2 + Bit(x, 8)
      BY <1>0, SMT DEF Bit
<1>6. h16 = h32 * 2 + Bit(x, 16)
      BY <1>0, SMT DEF Bit
<1>7. h32 = h64 * 2 + Bit(x, 32)
      BY <1>0, SMT DEF Bit
<1>8. h64 = h128 * 2 + Bit(x, 64)
      BY <1>0, SMT DEF Bit
<1>9. h128 = Bit(x, 128)
      BY <1>0, <1>1, SMT DEF Bit
<1>10. /\ Bit(x, 1) \in 0..1 /\ Bit(x, 2) \in 0..1 /\ Bit(x, 4) \in 0..1
       /\ Bit(x, 8) \in 0..1 /\ Bit(x, 16) \in 0..1 /\ Bit(x, 32) \in 0..1
       /\ Bit(x, 64) \in 0..1 /\ Bit(x, 128) \in 0..1
       BY BitIsBit, SMT
<1>11. x = ((((((Bit(x, 128) * 2 + Bit(x, 64)) * 2 + Bit(x, 32)) * 2
                + Bit(x, 16)) * 2 + Bit(x, 8)) * 2 + Bit(x, 4)) * 2
              + Bit(x, 2)) * 2 + Bit(x, 1)
       BY ONLY <1>2, <1>3, <1>4, <1>5, <1>6, <1>7, <1>8, <1>9
<1>12. /\ Bit(x, 1) \in Int /\ Bit(x, 2) \in Int /\ Bit(x, 4) \in Int
       /\ Bit(x, 8) \in Int /\ Bit(x, 16) \in Int /\ Bit(x, 32) \in Int
       /\ Bit(x, 64) \in Int /\ Bit(x, 128) \in Int
       BY <1>10
<1> QED BY ONLY <1>11, <1>12, Halving

\* One turn of the loop of set_byte, in the terms of its pulse.
Turn(e, b) == e * 8 + (4 + 2 * b)

LEMMA PulseIsTurn ==
  ASSUME NEW x \in Nat, NEW w \in Nat \ {0}, NEW e \in Nat
  PROVE  e * 8 + Pulse(x, w) = Turn(e, Bit(x, w))
<1>1. Bit(x, w) \in 0..1
      BY BitIsBit
<1> QED BY <1>1, SMT DEF Pulse, Turn

\* The last turn can be undone.
LEMMA TurnBack ==
  ASSUME NEW e \in Nat, NEW b \in 0..1
  PROVE  /\ Turn(e, b) \in Nat
         /\ Turn(e, b) \div 8 = e
         /\ Bit(Turn(e, b), 2) = b
  BY SMT DEF Turn, Bit

LEMMA TurnBound ==
  ASSUME NEW e \in Nat, NEW b \in 0..1
  PROVE  /\ e < 1 => Turn(e, b) < 8
         /\ e < 8 => Turn(e, b) < 64
         /\ e < 64 => Turn(e, b) < 512
         /\ e < 512 => Turn(e, b) < 4096
         /\ e < 4096 => Turn(e, b) < 32768
         /\ e < 32768 => Turn(e, b) < 262144
         /\ e < 262144 => Turn(e, b) < 2097152
         /\ e < 2097152 => Turn(e, b) < 16777216
  BY SMT DEF Turn

LEMMA EncodedDecodes ==
  ASSUME NEW x \in 0..255
  PROVE  /\ Encoded(x) \in Nat /\ Encoded(x) < 16777216
         /\ Decoded(Encoded(x)) = x
<1> DEFINE b(w) == Bit(x, w)
<1>0. PICK e1, e2, e3, e4, e5, e6, e7, e8 :
        /\ e1 = Turn(0, b(128)) /\ e2 = Turn(e1, b(64))
        /\ e3 = Turn(e2, b(32)) /\ e4 = Turn(e3, b(16))
        /\ e5 = Turn(e4, b(8))  /\ e6 = Turn(e5, b(4))
        /\ e7 = Turn(e6, b(2))  /\ e8 = Turn(e7, b(1))
      OBVIOUS
<1>1. /\ b(128) \in 0..1 /\ b(64) \in 0..1 /\ b(32) \in 0..1 /\ b(16) \in 0..1
      /\ b(8) \in 0..1 /\ b(4) \in 0..1 /\ b(2) \in 0..1 /\ b(1) \in 0..1
      BY BitIsBit, SMT
<1>2. x =   b(1)      + b(2) * 2   + b(4) * 4   + b(8) * 8
          + b(16) * 16 + b(32) * 32 + b(64) * 64 + b(128) * 128
      BY SumOfBits, SMT
<1>3. /\ e1 \in Nat /\ e2 \in Nat /\ e3 \in Nat /\ e4 \in Nat
      /\ e5 \in Nat /\ e6 \in Nat /\ e7 \in Nat /\ e8 \in Nat
  <2> HIDE DEF b
  <2>1. \A e \in Nat, d \in 0..1 : Turn(e, d) \in Nat
        BY TurnBack
  <2> QED BY <1>0, <1>1, <2>1, SMT
<1>4. Encoded(x) = e8
  <2>0. x \in Nat
        BY SMT
  <2>1. 0 * 8 + Pulse(x, 128) = e1
    <3>1. 128 \in Nat \ {0}
          BY SMT
    <3> QED BY ONLY <1>0, <1>3, <2>0, <3>1, PulseIsTurn, SMT
  <2>2. e1 * 8 + Pulse(x, 64) = e2
    <3>1. 64 \in Nat \ {0}
          BY SMT
    <3> QED BY ONLY <1>0, <1>3, <2>0, <3>1, PulseIsTurn, SMT
  <2>3. e2 * 8 + Pulse(x, 32) = e3
    <3>1. 32 \in Nat \ {0}
          BY SMT
    <3> QED BY ONLY <1>0, <1>3, <2>0, <3>1, PulseIsTurn, SMT
  <2>4. e3 * 8 + Pulse(x, 16) = e4
    <3>1. 16 \in Nat \ {0}
          BY SMT
    <3> QED BY ONLY <1>0, <1>3, <2>0, <3>1, PulseIsTurn, SMT
  <2>5. e4 * 8 + Pulse(x, 8) = e5
    <3>1. 8 \in Nat \ {0}
          BY SMT
    <3> QED BY ONLY <1>0, <1>3, <2>0, <3>1, PulseIsTurn, SMT
  <2>6. e5 * 8 + Pulse(x, 4) = e6
    <3>1. 4 \in Nat \ {0}
          BY SMT
    <3> QED BY ONLY <1>0, <1>3, <2>0, <3>1, PulseIsTurn, SMT
  <2>7. e6 * 8 + Pulse(x, 2) = e7
    <3>1. 2 \in Nat \ {0}
          BY SMT
    <3> QED BY ONLY <1>0, <1>3, <2>0, <3>1, PulseIsTurn, SMT
  <2>8. e7 * 8 + Pulse(x, 1) = e8
    <3>1. 1 \in Nat \ {0}
          BY SMT
    <3> QED BY ONLY <1>0, <1>3, <2>0, <3>1, PulseIsTurn, SMT
  <2> QED BY <2>1, <2>2, <2>3, <2>4, <2>5, <2>6, <2>7, <2>8, SMT DEF Encoded
<1> HIDE DEF b
<1>5. e8 < 16777216
  <2>1. e1 < 8
        BY <1>0, <1>1, <1>3, TurnBound, SMT
  <2>2. e2 < 64
        BY <1>0, <1>1, <1>3, <2>1, TurnBound, SMT
  <2>3. e3 < 512
        BY <1>0, <1>1, <1>3, <2>2, TurnBound, SMT
  <2>4. e4 < 4096
        BY <1>0, <1>1, <1>3, <2>3, TurnBound, SMT
  <2>5. e5 < 32768
        BY <1>0, <1>1, <1>3, <2>4, TurnBound, SMT
  <2>6. e6 < 262144
        BY <1>0, <1>1, <1>3, <2>5, TurnBound, SMT
  <2>7. e7 < 2097152
        BY <1>0, <1>1, <1>3, <2>6, TurnBound, SMT
  <2>8. e8 < 16777216
        BY <1>0, <1>1, <1>3, <2>7, TurnBound, SMT
  <2> QED BY <2>8
<1>6. /\ e8 \div 8 = e7 /\ e7 \div 8 = e6 /\ e6 \div 8 = e5 /\ e5 \div 8 = e4
      /\ e4 \div 8 = e3 /\ e3 \div 8 = e2 /\ e2 \div 8 = e1
      /\ Bit(e1, 2) = b(128) /\ Bit(e2, 2) = b(64) /\ Bit(e3, 2) = b(32)
      /\ Bit(e4, 2) = b(16) /\ Bit(e5, 2) = b(8) /\ Bit(e6, 2) = b(4)
      /\ Bit(e7, 2) = b(2) /\ Bit(e8, 2) = b(1)
  <2>1. \A e \in Nat, d \in 0..1 :
          Turn(e, d) \div 8 = e /\ Bit(Turn(e, d), 2) = d
        BY TurnBack
  <2>2. Bit(e1, 2) = b(128)
        BY <1>0, <1>1, <2>1, SMT
  <2>3. e2 \div 8 = e1 /\ Bit(e2, 2) = b(64)
        BY <1>0, <1>1, <1>3, <2>1, SMT
  <2>4. e3 \div 8 = e2 /\ Bit(e3, 2) = b(32)
        BY <1>0, <1>1, <1>3, <2>1, SMT
  <2>5. e4 \div 8 = e3 /\ Bit(e4, 2) = b(16)
        BY <1>0, <1>1, <1>3, <2>1, SMT
  <2>6. e5 \div 8 = e4 /\ Bit(e5, 2) = b(8)
        BY <1>0, <1>1, <1>3, <2>1, SMT
  <2>7. e6 \div 8 = e5 /\ Bit(e6, 2) = b(4)
        BY <1>0, <1>1, <1>3, <2>1, SMT
  <2>8. e7 \div 8 = e6 /\ Bit(e7, 2) = b(2)
        BY <1>0, <1>1, <1>3, <2>1, SMT
  <2>9. e8 \div 8 = e7 /\ Bit(e8, 2) = b(1)
        BY <1>0, <1>1, <1>3, <2>1, SMT
  <2> QED BY <2>2, <2>3, <2>4, <2>5, <2>6, <2>7, <2>8, <2>9
<1>7. Decoded(e8) =   b(1)       + b(2) * 2   + b(4) * 4   + b(8) * 8
                    + b(16) * 16 + b(32) * 32 + b(64) * 64 + b(128) * 128
      BY <1>6 DEF Decoded
<1> QED BY <1>2, <1>3, <1>4, <1>5, <1>7, SMT

\* The three bytes of 24 bits are put together to these bits.
LEMMA ThreeBytes ==
  ASSUME NEW w \in Nat, w < 16777216
  PROVE  w = ((((w \div 256) \div 256) % 256) * 256 + ((w \div 256) % 256)) * 256
             + (w % 256)
<1>1. (w \div 256) \div 256 \in Nat /\ (w \div 256) \div 256 < 256
      BY SMT
<1>2. ((w \div 256) \div 256) % 256 = (w \div 256) \div 256
      BY <1>1, SMT
<1>3. w = (((w \div 256) \div 256) * 256 + ((w \div 256) % 256)) * 256
          + (w % 256)
      BY SMT
<1> QED BY <1>2, <1>3

LEMMA BytesDecode ==
  ASSUME NEW x \in 0..255
  PROVE  /\ \A k \in 0..2 : EncodedByte(x, k) \in 0..255
         /\ Decoded((EncodedByte(x, 0) * 256 + EncodedByte(x, 1)) * 256
                    + EncodedByte(x, 2)) = x
<1>1. Encoded(x) \in Nat /\ Encoded(x) < 16777216
      BY EncodedDecodes
<1>2. \A k \in 0..2 : EncodedByte(x, k) \in 0..255
      BY <1>1, SMT DEF EncodedByte
<1>3. (EncodedByte(x, 0) * 256 + EncodedByte(x, 1)) * 256 + EncodedByte(x, 2)
        = Encoded(x)
      BY <1>1, ThreeBytes DEF EncodedByte
<1> QED BY <1>2, <1>3, EncodedDecodes

----------------------------------------------------------------------------
(* The buffer.                                                             *)

LedsInv == StripTypeOK /\ ResetKept

LEMMA LedsInit == StripInit => LedsInv
  BY StripAssumption
  DEF StripInit, LedsInv, StripTypeOK, ResetKept, Indices, BufferLen

\* The nine bytes of a call are its LED's, between the two resets.
LEMMA Places ==
  ASSUME NEW i \in 0..(StripLeds - 1)
  PROVE  /\ Start(i) \in Nat /\ Start(i) >= ResetLen
         /\ Start(i) + 8 < ResetLen + StripLeds * 9
         /\ \A m \in 0..8 : Start(i) + m \in Indices
<1>1. StripLeds \in Nat /\ ResetLen \in Nat /\ i \in Nat /\ i <= StripLeds - 1
      BY StripAssumption
<1>2. Start(i) \in Nat /\ Start(i) >= ResetLen
      BY <1>1 DEF Start
<1>3. Start(i) + 8 < ResetLen + StripLeds * 9
      BY <1>1 DEF Start
<1> QED BY <1>1, <1>2, <1>3 DEF Indices, BufferLen

\* What a call writes.
LEMMA Written ==
  ASSUME NEW i \in 0..(StripLeds - 1), NEW c \in Colours, SetLed(i, c),
         NEW m \in 0..8
  PROVE  ledBuf'[Start(i) + m] = EncodedByte(Component(c, m), m % 3)
<1>1. Start(i) \in Nat /\ Start(i) + m \in Indices
      BY Places
<1>2. Start(i) + m \in Start(i)..(Start(i) + 8) /\ (Start(i) + m) - Start(i) = m
      BY <1>1
<1> QED BY <1>1, <1>2 DEF SetLed

LEMMA ComponentLevel ==
  ASSUME NEW c \in Colours, NEW m
  PROVE  Component(c, m) \in 0..255
  BY StripAssumption DEF Colours, Component

LEMMA SetLedLedsInv ==
  ASSUME LedsInv, NEW i \in 0..(StripLeds - 1), NEW c \in Colours, SetLed(i, c)
  PROVE  LedsInv'
<1> USE DEF LedsInv
<1>1. \A p \in Indices : ledBuf'[p] \in 0..255
  <2> TAKE p \in Indices
  <2>1. CASE p \in Start(i)..(Start(i) + 8)
    <3>1. PICK m \in 0..8 : p = Start(i) + m
      <4>1. p - Start(i) \in 0..8 /\ p = Start(i) + (p - Start(i))
            BY <2>1, Places
      <4> QED BY <4>1
    <3>2. m % 3 \in 0..2
          BY SMT
    <3>3. EncodedByte(Component(c, m), m % 3) \in 0..255
          BY <3>2, ComponentLevel, BytesDecode
    <3> QED BY <3>1, <3>3, Written
  <2>2. CASE p \notin Start(i)..(Start(i) + 8)
        BY <2>2 DEF SetLed, StripTypeOK
  <2> QED BY <2>1, <2>2
<1>2. ledBuf' = [p \in Indices |-> ledBuf'[p]]
      BY DEF SetLed
<1>3. ledBuf' \in [Indices -> 0..255]
      BY <1>1, <1>2
<1>4. call' \in [led : 0..StripLeds, colour : Colours \cup {Black}]
  <2>1. i \in 0..StripLeds
        BY StripAssumption
  <2> QED BY <2>1 DEF SetLed
<1>5. ResetKept'
  <2> SUFFICES ASSUME NEW p \in Indices,
                      p < ResetLen \/ p >= ResetLen + StripLeds * 9
               PROVE  ledBuf'[p] = 0
      BY DEF ResetKept
  <2>1. p \notin Start(i)..(Start(i) + 8)
        BY Places, StripAssumption DEF Indices
  <2> QED BY <2>1 DEF SetLed, ResetKept
<1> QED BY <1>3, <1>4, <1>5 DEF StripTypeOK

LEMMA LedsInductive == LedsInv /\ [StripNext]_stripVars => LedsInv'
<1> SUFFICES ASSUME LedsInv, [StripNext]_stripVars PROVE LedsInv'
    OBVIOUS
<1>1. CASE StripNext
      BY <1>1, SetLedLedsInv DEF StripNext
<1>2. CASE UNCHANGED stripVars
      BY <1>2 DEF stripVars, LedsInv, StripTypeOK, ResetKept
<1> QED BY <1>1, <1>2

LEMMA LedsAlways == StripSpec => []LedsInv
<1> QED BY LedsInit, LedsInductive, PTL DEF StripSpec

----------------------------------------------------------------------------
(* The strip.                                                              *)

\* The LED of the call shows the colour of the call.
LEMMA ShownSet ==
  ASSUME NEW i \in 0..(StripLeds - 1), NEW c \in Colours, SetLed(i, c)
  PROVE  Shown(i)' = c
<1> DEFINE B(x, k) == EncodedByte(x, k)
           p == ResetLen + i * 9
<1>0. p = Start(i) /\ p \in Nat
      BY Places DEF Start
<1>1. /\ ledBuf'[p] = B(c.g, 0) /\ ledBuf'[p + 1] = B(c.g, 1)
      /\ ledBuf'[p + 2] = B(c.g, 2)
  <2>1. ledBuf'[p + 0] = B(c.g, 0)
        BY <1>0, Written DEF Component
  <2> QED BY <1>0, <2>1, Written DEF Component
<1>2. /\ ledBuf'[p + 3] = B(c.r, 0) /\ ledBuf'[p + 3 + 1] = B(c.r, 1)
      /\ ledBuf'[p + 3 + 2] = B(c.r, 2)
      BY <1>0, Written DEF Component
<1>3. /\ ledBuf'[p + 6] = B(c.b, 0) /\ ledBuf'[p + 6 + 1] = B(c.b, 1)
      /\ ledBuf'[p + 6 + 2] = B(c.b, 2)
      BY <1>0, Written DEF Component
<1>4. c.g \in 0..255 /\ c.r \in 0..255 /\ c.b \in 0..255
      BY StripAssumption DEF Colours
<1>5. c = [g |-> c.g, r |-> c.r, b |-> c.b]
      BY DEF Colours
<1>6. Decoded(Word(p)') = c.g
      BY <1>1, <1>4, BytesDecode DEF Word
<1>7. Decoded(Word(p + 3)') = c.r
      BY <1>2, <1>4, BytesDecode DEF Word
<1>8. Decoded(Word(p + 6)') = c.b
      BY <1>3, <1>4, BytesDecode DEF Word
<1> QED BY <1>5, <1>6, <1>7, <1>8 DEF Shown

\* Every other LED shows what it showed.
LEMMA ShownKept ==
  ASSUME NEW i \in 0..(StripLeds - 1), NEW c \in Colours, SetLed(i, c),
         NEW j \in 0..(StripLeds - 1), j # i
  PROVE  Shown(j)' = Shown(j)
<1> DEFINE p == ResetLen + j * 9
<1>1. \A m \in 0..8 : ledBuf'[p + m] = ledBuf[p + m]
  <2> TAKE m \in 0..8
  <2>1. p = Start(j) /\ p \in Nat /\ p + m \in Indices
        BY Places DEF Start
  <2>2. p + m \notin Start(i)..(Start(i) + 8)
        BY StripAssumption DEF Start
  <2> QED BY <2>1, <2>2 DEF SetLed
<1>2. p \in Nat
      BY StripAssumption
<1>3. /\ p = p + 0 /\ p + 3 + 1 = p + 4 /\ p + 3 + 2 = p + 5
      /\ p + 6 + 1 = p + 7 /\ p + 6 + 2 = p + 8
      BY <1>2
<1>4. Word(p)' = Word(p) /\ Word(p + 3)' = Word(p + 3)
      /\ Word(p + 6)' = Word(p + 6)
      BY <1>1, <1>2, <1>3 DEF Word
<1> QED BY <1>4 DEF Shown

LEMMA BlackAtFirst ==
  ASSUME StripInit, NEW i \in 0..(StripLeds - 1) PROVE Shown(i) = Black
<1> DEFINE p == ResetLen + i * 9
<1>1. p = Start(i) /\ p \in Nat
      BY Places DEF Start
<1>2. \A m \in 0..8 : ledBuf[p + m] = 0
      BY <1>1, Places DEF StripInit
<1>3. /\ p = p + 0 /\ p + 3 + 1 = p + 4 /\ p + 3 + 2 = p + 5
      /\ p + 6 + 1 = p + 7 /\ p + 6 + 2 = p + 8
      BY <1>1
<1>4. Word(p) = 0 /\ Word(p + 3) = 0 /\ Word(p + 6) = 0
      BY <1>2, <1>3 DEF Word
<1>5. Decoded(0) = 0
      BY SMT DEF Decoded, Bit
<1> QED BY <1>4, <1>5 DEF Shown, Black

\* The buffer of set_led implements a strip of LEDs that are set one by one:
\* every one shows the colour of the last call for it.
THEOREM StripImplemented == StripSpec => ImplementsStrip
<1>1. StripInit => Strip!Init
      BY BlackAtFirst DEF StripInit, Black, Strip!Init, Strip!Black
<1>2. [StripNext]_stripVars => [Strip!Next]_Strip!vars
  <2>1. ASSUME NEW i \in 0..(StripLeds - 1), NEW c \in Colours, SetLed(i, c)
        PROVE  Strip!Next
    <3>1. \A j \in 0..(StripLeds - 1) : Shown(j)' = IF j = i THEN c ELSE Shown(j)
          BY <2>1, ShownSet, ShownKept
    <3>2. Strip!SetLed(i, c)
          BY <2>1, <3>1 DEF SetLed, Strip!SetLed
    <3> QED BY <2>1, <3>2 DEF Colours, Strip!Next
  <2>2. CASE UNCHANGED stripVars
        BY <2>2 DEF stripVars, Strip!vars, Shown, Word
  <2> QED BY <2>1, <2>2 DEF StripNext
<1> QED BY <1>1, <1>2, PTL DEF StripSpec, ImplementsStrip, Strip!Spec

\* No call of set_led, for an LED of the strip, leaves the buffer or puts more
\* than a byte into a place of it.
THEOREM StripBytes == StripSpec => []StripTypeOK
<1> QED BY LedsAlways, PTL DEF LedsInv

\* The resets before and after the pulses are never written.
THEOREM StripResetKept == StripSpec => []ResetKept
<1> QED BY LedsAlways, PTL DEF LedsInv

----------------------------------------------------------------------------
(* The three together.                                                     *)

\* A behaviour of the whole is one of each of its parts.
THEOREM PartsOfNode == MCSpec => Spec /\ BufferSpec /\ StripSpec
<1>1. MCInit => Init /\ BufferInit /\ StripInit
      BY DEF MCInit
<1>2. [MCNext]_<<vars, bufferVars, stripVars, part>>
        => [Next]_vars /\ [BufferNext]_bufferVars /\ [StripNext]_stripVars
      BY DEF MCNext
<1> QED BY <1>1, <1>2, PTL DEF MCSpec, Spec, BufferSpec, StripSpec

\* PartsTypeOK: the queues of the task keep to their slots, the cursors to the
\* slice, and what is shifted out are bytes.
THEOREM NodeTypeOK == MCSpec => []PartsTypeOK
<1>1. TypeOK /\ CursorTypeOK /\ StripTypeOK => PartsTypeOK
      BY DEF PartsTypeOK
<1> QED BY <1>1, PartsOfNode, ArtNetTypeOK, BufferTypeOK, StripBytes, PTL
=============================================================================
