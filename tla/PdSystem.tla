------------------------------ MODULE PdSystem ------------------------------
(***************************************************************************)
(* The PD sink, its FUSB302 and a USB-PD source at the other end of the    *)
(* cable.  The source is not in the repository: it does what the comments  *)
(* of src/pd/mod.rs expect of it.  It repeats its capabilities until one   *)
(* of them is acknowledged, then waits for a Request, and disconnects if   *)
(* none comes ("the peer will likely disconnect").                         *)
(***************************************************************************)
EXTENDS PdSink

CONSTANTS
  MaxNoise,     \* bound: packets or acknowledgements lost on the wire
  MaxBoots      \* bound: restarts of the microcontroller

ASSUME SystemAssumption == MaxNoise \in Nat /\ MaxBoots \in Nat

VARIABLES
  src,      \* what the source is doing
  offer,    \* the capabilities it advertises
  moved,    \* history: VBUS went away since detect_cc_line sampled CC1
  noise,    \* number of packets lost so far
  boots     \* number of restarts so far

srcVars == <<src, offer, moved, noise, boots>>
vars == <<sinkVars, errs, chip, plug, srcVars>>

TypeOK ==
  /\ SinkTypeOK
  /\ src \in {"absent", "advertise", "await", "contract"}
  /\ offer \in Offers \cup {"none"}
  /\ src = "absent" <=> plug = "none"
  /\ offer = "none" <=> plug = "none"
  /\ moved \in BOOLEAN
  /\ noise \in 0..MaxNoise /\ boots \in 0..MaxBoots

Init ==
  /\ SinkInit
  /\ chip = ResetChip
  /\ plug = "none" /\ src = "absent" /\ offer = "none"
  /\ moved = FALSE /\ noise = 0 /\ boots = 0

----------------------------------------------------------------------------
\* The sampling of CC1 starts a new period for `moved`.
Sink ==
  /\ SinkStep
  /\ moved' = IF pc = "sample1" /\ pc' = "probe2" THEN FALSE ELSE moved
  /\ UNCHANGED <<src, offer, noise, boots>>

\* A restart of the microcontroller alone: the chip keeps its registers and
\* FIFOs, the firmware starts from Pd::new.
Reboot ==
  /\ boots < MaxBoots /\ boots' = boots + 1
  /\ Boot
  /\ UNCHANGED <<errs, chip, plug, src, offer, moved, noise>>

----------------------------------------------------------------------------
(* The cable and the source.                                               *)

Attach ==
  /\ plug = "none"
  /\ plug' \in CcLines /\ offer' \in Offers /\ src' = "advertise"
  /\ chip' = VbusChange(chip)
  /\ UNCHANGED <<sinkVars, errs, moved, noise, boots>>

\* The cable is pulled, or the source gives up and drops VBUS.
Detach ==
  /\ plug # "none"
  /\ plug' = "none" /\ offer' = "none" /\ src' = "absent"
  /\ moved' = TRUE
  /\ chip' = VbusChange([chip EXCEPT !.out = <<>>])
  /\ UNCHANGED <<sinkVars, errs, noise, boots>>

\* One Source_Capabilities message.  The source knows that it arrived when it
\* hears the GoodCRC.
Advertise ==
  /\ src = "advertise" /\ chip.out = <<>>
  /\ Receives(chip, offer, plug)
  /\ chip' = Receive(chip, offer, plug)
  /\ \/ /\ src' = IF Acks(chip, offer, plug) THEN "await" ELSE src
        /\ noise' = noise
     \/ /\ Acks(chip, offer, plug)
        /\ noise < MaxNoise /\ noise' = noise + 1
        /\ src' = src
  /\ UNCHANGED <<sinkVars, errs, plug, offer, moved, boots>>

\* The other messages of a source with a contract: Accept, PS_RDY, VDMs.
Chatter ==
  /\ src = "contract" /\ chip.out = <<>>
  /\ \E k \in {"vdm", "ctrl"} :
       /\ Receives(chip, k, plug)
       /\ chip' = Receive(chip, k, plug)
  /\ UNCHANGED <<sinkVars, errs, plug, srcVars>>

\* A source with a contract changes its capabilities.
Readvertise ==
  /\ src = "contract"
  /\ src' = "advertise" /\ offer' \in Offers
  /\ UNCHANGED <<sinkVars, errs, chip, plug, moved, noise, boots>>

\* The packet at the head of chip.out leaves the wire.
Taken == Latch([chip EXCEPT !.out = Tail(@)], "other")

\* The source takes a packet and acknowledges it; the GoodCRC goes into the
\* sink's receive FIFO but raises no i_gcrcsent.
TakeRequest ==
  /\ chip.out # <<>> /\ plug # "none" /\ chip.txcc = plug
  /\ chip' = IF Receives(Taken, "goodcrc", plug)
             THEN Receive(Taken, "goodcrc", plug) ELSE Taken
  /\ src' = IF /\ src = "await"
               /\ Head(chip.out).good /\ Head(chip.out).offer = offer
            THEN "contract" ELSE src
  /\ UNCHANGED <<sinkVars, errs, plug, offer, moved, noise, boots>>

\* The retries of the transmitter run out (i_retryfail).
RetryFail ==
  /\ chip.out # <<>>
  /\ \/ plug # chip.txcc /\ noise' = noise
     \/ noise < MaxNoise /\ noise' = noise + 1
  /\ chip' = Taken
  /\ UNCHANGED <<sinkVars, errs, plug, src, offer, moved, boots>>

\* Any of the interrupts the sink only logs or ignores.
Spurious ==
  /\ chip.on
  /\ chip' = Latch(chip, "other")
  /\ UNCHANGED <<sinkVars, errs, plug, srcVars>>

Wire == TakeRequest \/ RetryFail

Environment ==
  Attach \/ Detach \/ Advertise \/ Chatter \/ Readvertise \/ Wire \/ Spurious

Next == Sink \/ Reboot \/ Environment

Spec == Init /\ [][Next]_vars

----------------------------------------------------------------------------
(* Safety.                                                                 *)

\* An Online sink has powered and unmasked its chip, listens and transmits on
\* one and the same CC line and acknowledges what it hears, whatever transfer
\* failed and whenever the firmware restarted (fusb_setup, detect_cc_line).
OnlineConfigured ==
  state = "Online" =>
    /\ chip.on /\ chip.masked = {}
    /\ chip.autoCrc
    /\ chip.meas = chip.txcc /\ chip.meas \in CcLines

\* The line detect_cc_line decides for is the line of the plug, also when the
\* source comes between the two samples; only a source that went away since
\* the first sample makes an Online sink listen on the wrong line.
RightCc ==
  state = "Online" /\ ~moved => chip.meas = plug

Acked == \E j \in 1..Len(chip.rx) : chip.rx[j].acked

\* The sink never sleeps on an acknowledged message: when it waits for the
\* interrupt pin and one is in the FIFO, the pin is low.  The flags are
\* cleared by the read in poll_status, the FIFO is drained afterwards, and
\* messages keep coming in between.
NoLostWakeup ==
  pc = "wait" /\ Acked => IntLow(chip)

\* An Online sink finds nothing in its FIFO that its chip did not acknowledge:
\* what came in while detect_cc_line had the receiver on and AutoCRC off is
\* flushed by fusb_reset.  (It would answer a message the source believes
\* lost, and will send again.)
OnlyAckedOnline ==
  state = "Online" =>
    \A j \in 1..Len(chip.rx) : chip.rx[j].acked \/ chip.rx[j].k = "goodcrc"

\* What the sink answers is a message the chip has checked, read whole and in
\* place: "The FUSB302 has already verified the crc" (handle_new_data).
HandledGenuine ==
  pc = "tx" => req.good

\* As long as no transfer has failed a packet on the wire is one framed
\* message: the three writes of send leave nothing of a send that a restart
\* interrupted in the transmit FIFO.  (A write that fails does: send returns,
\* and nothing is flushed before the next one.)
WireWellFormed ==
  errs = 0 => \A j \in 1..Len(chip.out) : chip.out[j].good

\* What failed sends leave in the transmit FIFO does not pile up: at most two
\* writes each, until the next TxOn takes them all or a reset drops them.
TxBacklog ==
  pc # "sw_res" =>
    Len(chip.tx) <= 2 * errs + (IF pc = "tx" THEN step - 1 ELSE 0)

\* The Request for the present offer is in the sink's hands: the offer is in
\* the FIFO, being read, being answered, or the answer is on the wire.
AnswerPending ==
  \/ \E j \in 1..Len(chip.rx) : chip.rx[j].k = offer
  \/ pc \in {"rx_payload", "rx_crc"} /\ cur.k = offer
  \/ pc = "tx" /\ req.offer = offer
  \/ \E j \in 1..Len(chip.out) : chip.out[j].offer = offer

\* AutoCRC commits the sink: a source that saw its capabilities acknowledged
\* waits for an answer, so an answer must be on its way.  "If we don't respond
\* the messages in time, the peer will likely disconnect" (detect_cc_line).
AckedIsPending ==
  src = "await" => AnswerPending

\* A sink that waits for a source never sleeps on one that is there: VBUS may
\* come between the read of the status, which clears the flag, and the wait
\* for the pin (handle_wait_for_vbus_state), whatever transfer failed before.
SourceNotSlept ==
  pc = "wait" /\ state = "WaitForVbus" /\ plug # "none" => IntLow(chip)

\* As long as no transfer has failed an Online sink never sleeps on a VBUS that
\* is gone: it may go while the status is polled and the FIFO drained, after
\* which handle_online_state looks at the status that was read first.  (A poll
\* that fails after its block read has cleared the flag, and loses the notice.)
VbusLossNotSlept ==
  errs = 0 /\ pc = "wait" /\ state = "Online" /\ plug = "none" => IntLow(chip)

\* As long as no transfer has failed a sleeping Online sink has room for the
\* next offer in its FIFO.  The GoodCRCs of its Requests collect there, raise
\* no interrupt, and are read only with the next message: had they filled the
\* FIFO, no message would be received any more and the sink would sleep for
\* ever (handle_new_data).
RoomForNext ==
  errs = 0 /\ pc = "wait" /\ state = "Online" /\ ~IntLow(chip) =>
    \A o \in Offers : Len(chip.rx) + FrameLen(o) <= RxCapacity
=============================================================================
