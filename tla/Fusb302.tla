------------------------------ MODULE Fusb302 ------------------------------
(***************************************************************************)
(* The FUSB302 USB Power Delivery PHY as the driver in src/pd/fusb302.rs   *)
(* sees it: the registers the driver writes, the two FIFOs behind register *)
(* 0x43, and the interrupt flags that the block read of Status0A..Interrupt *)
(* clears.  The chip itself is not in the repository; what it does is      *)
(* modelled from how the driver relies on it.                              *)
(*                                                                         *)
(* A chip state is a record c.  This module has no variables: each operator *)
(* maps a chip state to the one after a register access or a bus event.    *)
(***************************************************************************)
EXTENDS Integers, Sequences

CONSTANTS
  Offers,       \* distinct Source_Capabilities payloads a source may send
  RxCapacity,   \* bytes the receive FIFO holds (80 in the chip)
  MessageIds    \* size of the message id space (8: a 3 bit field)

ASSUME FusbAssumption ==
  /\ RxCapacity \in Nat
  /\ MessageIds \in Nat \ {0}
  /\ Offers \cap {"vdm", "ctrl", "goodcrc", "none"} = {}

CcLines == {"cc1", "cc2"}
Cc == CcLines \cup {"none"}

(***************************************************************************)
(* Messages.  "vdm" is any data message the sink does not handle, "ctrl"   *)
(* any control message, "goodcrc" the acknowledgement of the sink's own    *)
(* transmission.  Every data message carries one object.                   *)
(***************************************************************************)
Kinds == Offers \cup {"vdm", "ctrl", "goodcrc"}

NumObjects(k) == IF k \in Offers \cup {"vdm"} THEN 1 ELSE 0

\* SOP token, 16 bit header, 32 bit objects, CRC.
FrameLen(k) == 1 + 2 + 4 * NumObjects(k) + 4

\* The i-th byte of a received frame of kind k; acked: the chip answered the
\* frame with a GoodCRC.
Byte == [k : Kinds, acked : BOOLEAN, i : Nat \ {0}]

Frame(k, acked) ==
  [j \in 1..FrameLen(k) |-> [k |-> k, acked |-> acked, i |-> j]]

\* A Request for one object of an offer.  good: it answers a payload that was
\* read whole and in place from a frame the chip has CRC-checked.
Requests == [offer : Kinds, good : BOOLEAN, id : 0..(MessageIds - 1)]

\* The three FIFO writes that make up a transmission.
TxChunks == [part : {"sop", "data", "eop"}, req : Requests]

InterruptSources == {"gcrcsent", "vbusok", "other"}
MaskOf == [gcrcsent |-> "MaskB", vbusok |-> "Mask1", other |-> "MaskA"]
Masks == {"Mask1", "MaskA", "MaskB", "Control0"}

ChipStates ==
  [on : BOOLEAN,                      \* Power written since reset
   masked : SUBSET Masks,             \* mask registers still at reset value
   meas : Cc,                         \* Switches0.meas_cc1/2: the receiver
   txcc : Cc, autoCrc : BOOLEAN,      \* Switches1: the transmitter, AutoCRC
   latch : SUBSET InterruptSources,   \* latched interrupt flags
   rx : Seq(Byte), tx : Seq(TxChunks),
   out : Seq(Requests)]               \* packets on their way to the source

ResetChip ==
  [on |-> FALSE, masked |-> Masks, meas |-> "none", txcc |-> "none",
   autoCrc |-> FALSE, latch |-> {}, rx |-> <<>>, tx |-> <<>>, out |-> <<>>]

----------------------------------------------------------------------------
(* Register writes.                                                        *)

Reg(r) == [reg |-> r, cc |-> "none"]
RegCc(r, cc) == [reg |-> r, cc |-> cc]

RegWrites ==
  [reg : {"SwReset", "PdReset", "TxFlush", "RxFlush", "Power", "Mask1",
          "MaskA", "MaskB", "Control0", "Control2", "Control3", "Measure",
          "Switches0", "Switches1"},
   cc : Cc]

\* sw_res puts every register back to its reset value and empties the FIFOs;
\* a packet already on the wire is not called back.
SoftReset(c) == [ResetChip EXCEPT !.out = c.out]

FlushRx(c) == [c EXCEPT !.rx = <<>>]

\* The TxFlush write is one of Control0, so it also clears int_mask.
FlushTx(c) == [c EXCEPT !.tx = <<>>, !.masked = @ \ {"Control0"}]

WriteReg(c, w) ==
  CASE w.reg = "SwReset"   -> SoftReset(c)
    [] w.reg = "RxFlush"   -> FlushRx(c)
    [] w.reg = "TxFlush"   -> FlushTx(c)
    [] w.reg = "Power"     -> [c EXCEPT !.on = TRUE]
    [] w.reg \in Masks     -> [c EXCEPT !.masked = @ \ {w.reg}]
    [] w.reg = "Switches0" -> [c EXCEPT !.meas = w.cc]
    [] w.reg = "Switches1" -> [c EXCEPT !.txcc = w.cc, !.autoCrc = TRUE]
    [] OTHER               -> c

----------------------------------------------------------------------------
(* Register reads.                                                         *)

\* INT_N is driven low by any latched flag that is not masked.
IntLow(c) ==
  /\ "Control0" \notin c.masked
  /\ \E s \in c.latch : MaskOf[s] \notin c.masked

VbusOk(c, plug) == c.on /\ plug # "none"

\* The source's pull-up shows on the CC wire of the plug only.
BcLvl(c, plug) == IF c.on /\ plug # "none" /\ c.meas = plug THEN 1 ELSE 0

\* Reading InterruptA, InterruptB and Interrupt clears the flags.
ClearFlags(c) == [c EXCEPT !.latch = {}]

\* A burst read that takes n bytes off the receive FIFO.
Pop(c, n) == [c EXCEPT !.rx = SubSeq(@, n + 1, Len(@))]

----------------------------------------------------------------------------
(* FIFO writes.  The last chunk ends with TxOn, which starts the           *)
(* transmitter on whatever the FIFO holds.                                 *)

Parts == <<"sop", "data", "eop">>

WellFormed(chunks) ==
  /\ Len(chunks) = 3
  /\ \A j \in 1..3 : chunks[j].part = Parts[j]

WriteFifo(c, part, req) ==
  LET chunks == Append(c.tx, [part |-> part, req |-> req])
  IN  IF part # "eop"
      THEN [c EXCEPT !.tx = chunks]
      ELSE [c EXCEPT !.tx = <<>>,
                     !.out = Append(@, [req EXCEPT !.good =
                                          @ /\ WellFormed(chunks)])]

----------------------------------------------------------------------------
(* Events on the CC wire and on VBUS.                                      *)

Latch(c, s) == [c EXCEPT !.latch = @ \cup {s}]

\* The receiver listens on the CC line that is being measured.
Receives(c, k, plug) ==
  /\ c.on /\ plug # "none" /\ c.meas = plug
  /\ Len(c.rx) + FrameLen(k) <= RxCapacity

\* AutoCRC answers on the line the transmitter is connected to.  A GoodCRC is
\* itself never answered.
Acks(c, k, plug) == c.autoCrc /\ c.txcc = plug /\ k # "goodcrc"

Receive(c, k, plug) ==
  LET acked == Acks(c, k, plug)
  IN  [c EXCEPT !.rx = @ \o Frame(k, acked),
                !.latch = IF acked THEN @ \cup {"gcrcsent"} ELSE @]

VbusChange(c) == IF c.on THEN Latch(c, "vbusok") ELSE c
=============================================================================
