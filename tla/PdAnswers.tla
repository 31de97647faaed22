----------------------------- MODULE PdAnswers ------------------------------
(***************************************************************************)
(* The PD system implements PdReply.  An offer is pending from the moment  *)
(* its frame is in the receive FIFO until the last of the three FIFO       *)
(* writes of send puts the Request on the wire: handle_new_data drains the *)
(* FIFO byte by byte, while messages keep coming in behind.                *)
(***************************************************************************)
EXTENDS PdSystem

\* The offers found so far, and that of the byte b if it begins a header.
WithOffer(offers, b) ==
  IF b.i = 2 /\ b.k \in Offers THEN Append(offers, b.k) ELSE offers

\* The offers whose header is among the bytes of s.
OffersIn(s) ==
  LET found[j \in 0..Len(s)] ==
        IF j = 0 THEN <<>> ELSE WithOffer(found[j - 1], s[j])
  IN  found[Len(s)]

\* The offers whose header is still to be read.
Unread == OffersIn(chip.rx)

\* The offer that is being read, or answered.
InHand ==
  CASE pc \in {"rx_payload", "rx_crc"} /\ cur.k \in Offers -> <<cur.k>>
    [] pc = "tx" -> <<req.offer>>
    [] OTHER     -> <<>>

Pending == InHand \o Unread

NextId == IF pc = "tx" THEN req.id ELSE messageId

Online == state = "Online"

Reply == INSTANCE PdReply WITH
  online   <- Online,
  pending  <- Pending,
  nextId   <- NextId,
  wire     <- chip.out,
  restarts <- boots

\* Every offer an online sink has taken in is answered once, in order, with
\* the next message id; nothing else is answered.  A restart costs at most the
\* offer in hand.
ImplementsReply == Reply!Spec
=============================================================================
