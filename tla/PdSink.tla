------------------------------- MODULE PdSink -------------------------------
(***************************************************************************)
(* The USB-PD sink of src/pd/mod.rs: the future handle_pd, which runs      *)
(* Pd::tick for ever.  Every step is one await of the code: one I2C        *)
(* transfer (the bus mutex is held for the transfer only), one wait for    *)
(* the interrupt pin, or one timer.  What the code does between two awaits *)
(* belongs to the step that precedes it.                                   *)
(*                                                                         *)
(* Any transfer may fail.  The error returns through every `?` to          *)
(* handle_pd, which calls tick again: the sink restarts the handler of the *)
(* state it is in (Abort).  A failed transfer may have reached the chip.   *)
(***************************************************************************)
EXTENDS Fusb302

CONSTANTS
  IdRetries,    \* attempts to read the device id after a reset (5)
  MaxErrs       \* bound: I2C transfers that fail

ASSUME SinkAssumption ==
  /\ IdRetries \in Nat \ {0}
  /\ MaxErrs \in Nat

VARIABLES
  pc,         \* the await handle_pd is suspended at
  step,       \* position in the current run of register or FIFO writes
  state,      \* Pd.state
  vbusok,     \* Pd.status.status_0.vbusok, from the last block read
  ret,        \* where poll_status returns to: "loop" or "wait"
  retries,    \* fusb_setup: attempts left
  cc1Val,     \* detect_cc_line: cc1_val
  useCc,      \* detect_cc_line: the line use_cc1 / use_cc2 selects
  cur,        \* handle_new_data: the message being read
  req,        \* handle_source_capabilities: the message being sent
  messageId,  \* Pd.message_id
  errs,       \* number of failed transfers so far
  chip,       \* the FUSB302
  plug        \* the CC line of the attached source, or "none"; a source that
              \* is attached supplies VBUS

sinkVars == <<pc, step, state, vbusok, ret, retries, cc1Val, useCc, cur, req,
              messageId>>

States == {"Reset", "WaitForVbus", "PollCC", "Online"}

\* The first await of the handler that tick runs in each state.
Entry == [Reset |-> "sw_res", WaitForVbus |-> "vbus", PollCC |-> "cc_delay",
          Online |-> "wait"]

Pcs == {"sw_res", "read_id", "setup", "vbus", "poll", "wait", "cc_delay",
        "probe1", "sample1", "probe2", "sample2", "enable", "fusb_reset",
        "rx_status", "rx_token", "rx_header", "rx_payload", "rx_crc", "tx"}

Message == [k : Kinds, good : BOOLEAN]

\* The number of transfers in the run of writes at place p.
RunLength(p) ==
  CASE p = "setup"                             -> 8
    [] p \in {"enable", "fusb_reset", "tx"}    -> 3
    [] p \in {"vbus", "probe1"}                -> 2
    [] OTHER                                   -> 1

SinkTypeOK ==
  /\ pc \in Pcs /\ step \in 1..RunLength(pc) /\ state \in States
  /\ vbusok \in BOOLEAN /\ ret \in {"loop", "wait"}
  /\ retries \in 0..IdRetries /\ (pc = "read_id" => retries > 0)
  /\ cc1Val \in 0..1 /\ useCc \in CcLines
  /\ cur \in Message /\ req \in Requests
  /\ messageId \in 0..(MessageIds - 1)
  /\ errs \in 0..MaxErrs
  /\ chip \in ChipStates /\ plug \in Cc

\* Mutant: the ids go on after a restart.
IdKept == messageId' = messageId

FirstId == messageId' = 0

\* Pd::new.  The locals of the handlers have no value yet; any will do.
Boot ==
  /\ pc' = "sw_res" /\ step' = 1 /\ state' = "Reset"
  /\ vbusok' = FALSE /\ ret' = "loop" /\ retries' = IdRetries
  /\ cc1Val' = 0 /\ useCc' = "cc1"
  /\ cur' = [k |-> "ctrl", good |-> TRUE]
  /\ req' = [offer |-> "ctrl", good |-> TRUE, id |-> 0]
  /\ FirstId

SinkInit ==
  /\ pc = "sw_res" /\ step = 1 /\ state = "Reset"
  /\ vbusok = FALSE /\ ret = "loop" /\ retries = IdRetries
  /\ cc1Val = 0 /\ useCc = "cc1"
  /\ cur = [k |-> "ctrl", good |-> TRUE]
  /\ req = [offer |-> "ctrl", good |-> TRUE, id |-> 0]
  /\ messageId = 0
  /\ errs = 0

----------------------------------------------------------------------------
(* Transfers.                                                              *)

Ok(after) == chip' = after /\ errs' = errs

\* The transfer fails, leaving the chip in one of the given states, and the
\* error ends the handler.
Abort(after) ==
  /\ errs < MaxErrs /\ errs' = errs + 1
  /\ chip' \in after
  /\ pc' = Entry[state] /\ step' = 1
  /\ UNCHANGED <<state, vbusok, ret, retries, cc1Val, useCc, cur, req,
                 messageId>>

\* A run of register writes at place `at`, one transfer per step, which goes
\* on to `next` in state `then`.
WriteRun(at, script, next, then) ==
  /\ pc = at
  /\ LET after == WriteReg(chip, script[step])
     IN  \/ /\ Ok(after)
            /\ IF step < Len(script)
               THEN step' = step + 1 /\ UNCHANGED <<pc, state>>
               ELSE step' = 1 /\ pc' = next /\ state' = then
            /\ UNCHANGED <<vbusok, ret, retries, cc1Val, useCc, cur, req,
                           messageId>>
         \/ Abort({chip, after})

----------------------------------------------------------------------------
(* handle_reset_state: fusb_setup.                                         *)

SwReset ==
  /\ pc = "sw_res"
  /\ \/ /\ Ok(WriteReg(chip, Reg("SwReset")))
        /\ pc' = "read_id" /\ retries' = IdRetries
        /\ UNCHANGED <<step, state, vbusok, ret, cc1Val, useCc, cur, req,
                       messageId>>
     \/ Abort({chip, WriteReg(chip, Reg("SwReset"))})

\* The id read fails, or returns 0x00 or 0xff.
ReadIdFails ==
  /\ errs < MaxErrs /\ errs' = errs + 1
  /\ retries' = retries - 1
  /\ pc' = IF retries' = 0 THEN Entry["Reset"] ELSE "read_id"

ReadId ==
  /\ pc = "read_id"
  /\ \/ pc' = "setup" /\ UNCHANGED <<retries, errs>>
     \/ ReadIdFails
  /\ UNCHANGED <<step, state, vbusok, ret, cc1Val, useCc, cur, req,
                 messageId, chip>>

\* Mutants: an unmasking write is forgotten.
SetupWithoutMaskB ==
  <<Reg("Power"), Reg("Mask1"), Reg("MaskA"), Reg("Measure"), Reg("Control0"),
    Reg("Control3"), Reg("Control2"), Reg("RxFlush")>>

SetupWithoutMask1 ==
  <<Reg("Power"), Reg("Measure"), Reg("MaskA"), Reg("MaskB"), Reg("Control0"),
    Reg("Control3"), Reg("Control2"), Reg("RxFlush")>>

SetupScript ==
  <<Reg("Power"), Reg("Mask1"), Reg("MaskA"), Reg("MaskB"), Reg("Control0"),
    Reg("Control3"), Reg("Control2"), Reg("RxFlush")>>

FusbSetup == WriteRun("setup", SetupScript, "vbus", "WaitForVbus")

----------------------------------------------------------------------------
(* handle_wait_for_vbus_state and handle_online_state: the interrupt loop. *)

VbusScript == <<Reg("Measure"), RegCc("Switches0", "none")>>

\* Mutant: the loop waits for an interrupt before it looks at VBUS.
WaitFirst == pc' = "wait" /\ ret' = ret

PollFirst == pc' = "poll" /\ ret' = "loop"

StartVbus ==
  /\ pc = "vbus"
  /\ LET after == WriteReg(chip, VbusScript[step])
     IN  \/ /\ Ok(after)
            /\ IF step < Len(VbusScript)
               THEN step' = step + 1 /\ UNCHANGED <<pc, ret>>
               ELSE step' = 1 /\ PollFirst
            /\ UNCHANGED <<state, vbusok, retries, cc1Val, useCc, cur, req,
                           messageId>>
         \/ Abort({chip, after})

\* poll_status returns, the status it read having VBUS as given, to the loop
\* of handle_wait_for_vbus_state or to handle_online_state.
PollReturns(vbus) ==
  CASE state = "WaitForVbus" /\ ret = "loop" /\ vbus ->
         pc' = Entry["PollCC"] /\ state' = "PollCC" /\ ret' = ret
    [] state = "WaitForVbus" /\ ret = "loop" /\ ~vbus ->
         pc' = "wait" /\ state' = state /\ ret' = ret
    [] state = "WaitForVbus" /\ ret = "wait" ->
         pc' = "poll" /\ state' = state /\ ret' = "loop"
    [] state = "Online" /\ vbus ->
         pc' = Entry["Online"] /\ state' = state /\ ret' = ret
    [] OTHER ->
         pc' = Entry["Reset"] /\ state' = "Reset" /\ ret' = ret

\* wait_for_interrupt: the pin is level sensitive.
WaitForLow ==
  /\ pc = "wait" /\ IntLow(chip)
  /\ pc' = "poll" /\ ret' = "wait"
  /\ UNCHANGED <<step, state, vbusok, retries, cc1Val, useCc, cur, req,
                 messageId, errs, chip>>

\* poll_status up to handle_new_data; the other handlers only log.
PollStatus ==
  /\ pc = "poll"
  /\ \/ /\ Ok(ClearFlags(chip))
        /\ vbusok' = VbusOk(chip, plug)
        /\ IF "gcrcsent" \in chip.latch
           THEN pc' = "rx_status" /\ UNCHANGED <<state, ret>>
           ELSE PollReturns(VbusOk(chip, plug))
        /\ UNCHANGED <<step, retries, cc1Val, useCc, cur, req, messageId>>
     \/ Abort({[chip EXCEPT !.latch = l] : l \in SUBSET chip.latch})

----------------------------------------------------------------------------
(* handle_new_data and handle_message.                                     *)

RxStatus ==
  /\ pc = "rx_status"
  /\ \/ /\ Ok(chip)
        /\ IF chip.rx = <<>>
           THEN PollReturns(vbusok)
           ELSE pc' = "rx_token" /\ UNCHANGED <<state, ret>>
        /\ UNCHANGED <<step, vbusok, retries, cc1Val, useCc, cur, req,
                       messageId>>
     \/ Abort({chip})

\* The next byte of the FIFO is the n-th of its frame.
Aligned(n) == chip.rx # <<>> /\ Head(chip.rx).i = n

\* A burst read from the FIFO that fails has taken some of the bytes off it.
PopUpTo(n) == {Pop(chip, j) : j \in 0..n}

\* A byte that is not a token may still look like an SOP token.
RxToken ==
  /\ pc = "rx_token"
  /\ \/ /\ Ok(Pop(chip, 1))
        /\ \E sop \in (IF Aligned(1) THEN {TRUE} ELSE BOOLEAN) :
             pc' = IF sop THEN "rx_header" ELSE "rx_status"
        /\ UNCHANGED <<step, state, vbusok, ret, retries, cc1Val, useCc, cur,
                       req, messageId>>
     \/ Abort(PopUpTo(1))

\* Bytes that are not a header may read as any header.
Header ==
  IF Aligned(2) THEN {[k |-> Head(chip.rx).k, good |-> TRUE]}
                ELSE [k : Kinds \ {"goodcrc"}, good : {FALSE}]

RxHeader ==
  /\ pc = "rx_header"
  /\ \/ /\ Ok(Pop(chip, 2))
        /\ cur' \in Header
        /\ pc' = IF NumObjects(cur'.k) > 0 THEN "rx_payload" ELSE "rx_crc"
        /\ UNCHANGED <<step, state, vbusok, ret, retries, cc1Val, useCc, req,
                       messageId>>
     \/ Abort(PopUpTo(2))

RxPayload ==
  /\ pc = "rx_payload"
  /\ LET n == 4 * NumObjects(cur.k)
     IN  \/ /\ Ok(Pop(chip, n))
            /\ pc' = "rx_crc"
            /\ UNCHANGED <<step, state, vbusok, ret, retries, cc1Val, useCc,
                           cur, req, messageId>>
         \/ Abort(PopUpTo(n))

\* Mutant: the id is not reduced to its field.
IdWithoutWrap(id) == id + 1

NextMessageId(id) == (id + 1) % MessageIds

\* Mutant: `if` in place of `while`.
OneMessage == PollReturns(vbusok)

\* The end of the body of the `while` of handle_new_data.
NextMessage == pc' = "rx_status" /\ UNCHANGED <<state, ret>>

\* Mutants: the CRC is read as a u16; the rest of the FIFO is flushed.
DropHalfCrc(c) == Pop(c, 2)
DropAll(c) == FlushRx(c)

DropCrc(c) == Pop(c, 4)

\* handle_message: a Source_Capabilities message is answered, any other is
\* dropped.  The message id is spent before the Request is sent.
RxCrc ==
  /\ pc = "rx_crc"
  /\ \/ /\ Ok(DropCrc(chip))
        /\ IF cur.k \in Offers
           THEN /\ pc' = "tx" /\ UNCHANGED <<state, ret>>
                /\ req' = [offer |-> cur.k, good |-> cur.good,
                           id |-> messageId]
                /\ messageId' = NextMessageId(messageId)
           ELSE /\ NextMessage
                /\ UNCHANGED <<req, messageId>>
        /\ UNCHANGED <<step, vbusok, retries, cc1Val, useCc, cur>>
     \/ Abort(PopUpTo(4))

\* Mutant: the message goes into the FIFO before its SOP sequence.
DataFirst == <<"data", "sop", "eop">>

\* Mutant: the third write does not end with TxOn.
WithoutTxOn == <<"sop", "data", "data">>

SendParts == <<"sop", "data", "eop">>

\* Fusb302MessageBuffer::send, under one lock of the bus.
Send ==
  /\ pc = "tx"
  /\ LET after == WriteFifo(chip, SendParts[step], req)
     IN  \/ /\ Ok(after)
            /\ IF step < Len(SendParts)
               THEN step' = step + 1 /\ UNCHANGED <<pc, state, ret>>
               ELSE step' = 1 /\ NextMessage
            /\ UNCHANGED <<vbusok, retries, cc1Val, useCc, cur, req,
                           messageId>>
         \/ Abort({chip, after})

----------------------------------------------------------------------------
(* handle_poll_cc_state: detect_cc_line and fusb_reset.                    *)

CcDelay ==
  /\ pc = "cc_delay"
  /\ pc' = "probe1"
  /\ UNCHANGED <<step, state, vbusok, ret, retries, cc1Val, useCc, cur, req,
                 messageId, errs, chip>>

ProbeCc1 ==
  WriteRun("probe1", <<Reg("Measure"), RegCc("Switches0", "cc1")>>,
           "sample1", state)

SampleCc1 ==
  /\ pc = "sample1"
  /\ \/ /\ Ok(chip)
        /\ cc1Val' = BcLvl(chip, plug)
        /\ pc' = "probe2"
        /\ UNCHANGED <<step, state, vbusok, ret, retries, useCc, cur, req,
                       messageId>>
     \/ Abort({chip})

ProbeCc2 ==
  WriteRun("probe2", <<RegCc("Switches0", "cc2")>>, "sample2", state)

\* Mutant: the comparison is the wrong way round.
OtherCc(cc1, cc2) == IF cc2 > cc1 THEN "cc1" ELSE "cc2"

UsedCc(cc1, cc2) == IF cc1 > cc2 THEN "cc1" ELSE "cc2"

\* Equal levels: NoCcDetected, and tick starts over with the delay.
SampleCc2 ==
  /\ pc = "sample2"
  /\ \/ /\ Ok(chip)
        /\ LET cc2Val == BcLvl(chip, plug)
           IN  IF cc1Val = cc2Val
               THEN pc' = Entry[state] /\ useCc' = useCc
               ELSE /\ pc' = "enable"
                    /\ useCc' = UsedCc(cc1Val, cc2Val)
        /\ UNCHANGED <<step, state, vbusok, ret, retries, cc1Val, cur, req,
                       messageId>>
     \/ Abort({chip})

EnableScript ==
  <<RegCc("Switches0", useCc), Reg("RxFlush"), RegCc("Switches1", useCc)>>

EnableCc == WriteRun("enable", EnableScript, "fusb_reset", state)

\* Mutant: the receive FIFO is not flushed.
ResetWithoutRxFlush == <<Reg("TxFlush"), Reg("PdReset"), Reg("PdReset")>>

FusbResetScript == <<Reg("TxFlush"), Reg("RxFlush"), Reg("PdReset")>>

FusbReset == WriteRun("fusb_reset", FusbResetScript, Entry["Online"], "Online")

----------------------------------------------------------------------------
SinkStep ==
  /\ \/ SwReset \/ ReadId \/ FusbSetup
     \/ StartVbus \/ WaitForLow \/ PollStatus
     \/ RxStatus \/ RxToken \/ RxHeader \/ RxPayload \/ RxCrc \/ Send
     \/ CcDelay \/ ProbeCc1 \/ SampleCc1 \/ ProbeCc2 \/ SampleCc2
     \/ EnableCc \/ FusbReset
  /\ plug' = plug
=============================================================================
