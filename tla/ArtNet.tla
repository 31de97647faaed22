------------------------------- MODULE ArtNet -------------------------------
(***************************************************************************)
(* The Art-Net task of src/artnet.rs: it answers polls and shows Output    *)
(* frames on the LED strip, one datagram at a time.                        *)
(*                                                                         *)
(* The UDP socket, the stack and the SPI bus are not in the repository: a  *)
(* bounded queue in, a bounded queue out, and a write that ends.  A        *)
(* datagram has the fields that parse looks at; its number is the order of *)
(* its arrival in the socket.                                              *)
(***************************************************************************)
EXTENDS Integers, Sequences

CONSTANTS
  Datagrams,    \* what may arrive: records [kind, len, targeted, claimed, sub]
  Addresses,    \* the addresses the node may be leased
  NumLeds,      \* NUM_LEDS (120)
  RxSlots,      \* datagrams the socket keeps (16)
  TxSlots,      \* replies the socket keeps (16)
  MaxArrivals   \* bound: datagrams that arrive

ASSUME ArtNetAssumption ==
  /\ "none" \notin Addresses
  /\ NumLeds \in Nat \ {0} /\ NumLeds % 10 = 0
  /\ RxSlots \in Nat \ {0} /\ TxSlots \in Nat \ {0} /\ MaxArrivals \in Nat
  /\ \A d \in Datagrams :
       /\ d.kind \in {"poll", "reply", "output", "other", "alien"}
       /\ d.len \in Nat /\ d.claimed \in Nat /\ d.sub \in Nat
       /\ d.targeted \in BOOLEAN

VARIABLES
  pc,         \* the await the task is suspended at, or "panicked"
  lease,      \* the address the stack has, or "none"
  address,    \* my_address
  inbox,      \* the datagrams in the socket: [n, d]
  arrived,    \* how many have arrived
  got,        \* the datagram in buf
  tx,         \* the replies in the socket: [n, address]
  answered,   \* history: the polls that were answered
  leds,       \* the frame in led_buf, by its number, 0 at first
  strip       \* the frame the strip has been sent

vars == <<pc, lease, address, inbox, arrived, got, tx, answered, leds, strip>>

Numbered == [n : 1..MaxArrivals, d : Datagrams]
Nothing == [n |-> 0]

TypeOK ==
  /\ pc \in {"config", "recv", "reply", "spi", "panicked"}
  /\ lease \in Addresses \cup {"none"}
  /\ address \in Addresses \cup {"none"}
  /\ inbox \in Seq(Numbered) /\ Len(inbox) <= RxSlots
  /\ arrived \in 0..MaxArrivals
  /\ got \in Numbered \cup {Nothing}
  /\ tx \in Seq([n : 1..MaxArrivals, address : Addresses])
  /\ Len(tx) <= TxSlots
  /\ answered \subseteq 1..MaxArrivals
  /\ leds \in 0..MaxArrivals /\ strip \in 0..MaxArrivals

Init ==
  /\ pc = "config" /\ lease = "none" /\ address = "none"
  /\ inbox = <<>> /\ arrived = 0 /\ got = Nothing
  /\ tx = <<>> /\ answered = {} /\ leds = 0 /\ strip = 0

----------------------------------------------------------------------------
(* The packets.  A parse fails if one of its fields does not fit, and the  *)
(* fields follow each other (ByteBuffer), so it is their sum that counts.  *)

\* ARTNET_ID and the opcode.
HeaderLen == 8 + 2

\* prot_ver, flags, diag_priority; with bit 5 of the flags two addresses.
PollLen(d) == HeaderLen + 2 + 1 + 1 + (IF d.targeted THEN 2 + 2 ELSE 0)

\* The fields of a PollReply as PollReply::parse reads them.
ReplyRead ==
  << <<"ip_address", 4>>, <<"port", 2>>, <<"vers_info", 2>>,
     <<"net_switch", 1>>, <<"sub_switch", 1>>, <<"oem", 2>>,
     <<"ubea_version", 1>>, <<"status_1", 1>>, <<"esta_man", 2>>,
     <<"short_name", 18>>, <<"long_name", 64>>, <<"node_report", 64>>,
     <<"num_ports", 2>>, <<"port_types", 4>>, <<"good_input", 4>>,
     <<"good_output", 4>>, <<"sw_in", 4>>, <<"sw_out", 4>>,
     <<"acn_priority", 1>>, <<"sw_macro", 1>>, <<"sw_remote", 1>>,
     <<"spare", 3>>, <<"style", 1>>, <<"mac", 6>>, <<"bind_ip", 4>>,
     <<"bind_index", 1>>, <<"status_2", 1>>, <<"good_output_b", 4>>,
     <<"status_3", 1>>, <<"default_resp_uid", 6>> >>

\* Mutant: the spare bytes are not written.
SpareForgotten ==
  << <<"opcode", 2>>, <<"ip_address", 4>>, <<"port", 2>>, <<"vers_info", 2>>,
     <<"net_switch", 1>>, <<"sub_switch", 1>>, <<"oem", 2>>,
     <<"ubea_version", 1>>, <<"status_1", 1>>, <<"esta_man", 2>>,
     <<"short_name", 18>>, <<"long_name", 64>>, <<"node_report", 64>>,
     <<"num_ports", 2>>, <<"port_types", 4>>, <<"good_input", 4>>,
     <<"good_output", 4>>, <<"sw_in", 4>>, <<"sw_out", 4>>,
     <<"acn_priority", 1>>, <<"sw_macro", 1>>, <<"sw_remote", 1>>,
     <<"style", 1>>, <<"mac", 6>>, <<"bind_ip", 4>>, <<"bind_index", 1>>,
     <<"status_2", 1>>, <<"good_output_b", 4>>, <<"status_3", 1>>,
     <<"default_resp_uid", 6>>, <<"padding", 15>> >>

\* The opcode and the fields as PollReply::write writes them.
ReplyWritten ==
  << <<"opcode", 2>>, <<"ip_address", 4>>, <<"port", 2>>, <<"vers_info", 2>>,
     <<"net_switch", 1>>, <<"sub_switch", 1>>, <<"oem", 2>>,
     <<"ubea_version", 1>>, <<"status_1", 1>>, <<"esta_man", 2>>,
     <<"short_name", 18>>, <<"long_name", 64>>, <<"node_report", 64>>,
     <<"num_ports", 2>>, <<"port_types", 4>>, <<"good_input", 4>>,
     <<"good_output", 4>>, <<"sw_in", 4>>, <<"sw_out", 4>>,
     <<"acn_priority", 1>>, <<"sw_macro", 1>>, <<"sw_remote", 1>>,
     <<"spare", 3>>, <<"style", 1>>, <<"mac", 6>>, <<"bind_ip", 4>>,
     <<"bind_index", 1>>, <<"status_2", 1>>, <<"good_output_b", 4>>,
     <<"status_3", 1>>, <<"default_resp_uid", 6>>, <<"padding", 15>> >>

\* Where the first k fields of a packet end that has its first field at start.
Ends(fields, start) ==
  LET end[k \in 0..Len(fields)] ==
        IF k = 0 THEN start ELSE end[k - 1] + fields[k][2]
  IN  end

Offset(fields, start, k) == Ends(fields, start)[k - 1]

End(fields, start) == Ends(fields, start)[Len(fields)]

\* prot_ver, sequence, physical, sub_uni, net and the length of the data.
OutputHead == HeaderLen + 2 + 1 + 1 + 1 + 1 + 2

\* Mutant: the length an Output claims is not compared with what is there.
UncheckedParse(d) ==
  IF d.kind = "alien" \/ d.len < HeaderLen
  THEN "error"
  ELSE CASE d.kind = "poll"   -> IF PollLen(d) <= d.len THEN "poll" ELSE "error"
         [] d.kind = "reply"  -> IF End(ReplyRead, HeaderLen) <= d.len
                                 THEN "reply" ELSE "error"
         [] d.kind = "output" -> IF OutputHead <= d.len
                                 THEN "output" ELSE "error"
         [] OTHER             -> "unknown"

\* Packet::parse.
Parse(d) ==
  IF d.kind = "alien" \/ d.len < HeaderLen
  THEN "error"
  ELSE CASE d.kind = "poll"   -> IF PollLen(d) <= d.len THEN "poll" ELSE "error"
         [] d.kind = "reply"  -> IF End(ReplyRead, HeaderLen) <= d.len
                                 THEN "reply" ELSE "error"
         [] d.kind = "output" -> IF OutputHead + d.claimed <= d.len
                                 THEN "output" ELSE "error"
         [] OTHER             -> "unknown"

\* Mutant: from one.
ChannelFromOne(i, c) == 33 + (i \div (NumLeds \div 10)) * 3 + c

\* The byte of the data that component c of LED i is taken from.
Channel(i, c) == 32 + (i \div (NumLeds \div 10)) * 3 + c

\* A LED wants a byte the data does not have.
TooShort(d) ==
  \E i \in 0..(NumLeds - 1), c \in 0..2 : Channel(i, c) >= d.claimed

----------------------------------------------------------------------------
(* The task.                                                               *)

Goto(p) == pc' = p

\* The loop that looks for an address every 500 ms finds one; the socket is
\* bound.
Configured ==
  /\ pc = "config" /\ lease # "none" /\ Goto("recv")
  /\ address' = lease
  /\ UNCHANGED <<lease, inbox, arrived, got, tx, answered, leds, strip>>

\* recv_from, parse, and the loop over the LEDs, up to the next await.  An
\* index beyond the data panics, and stops the firmware.
Recv ==
  /\ pc = "recv" /\ inbox # <<>>
  /\ got' = Head(inbox) /\ inbox' = Tail(inbox)
  /\ LET d == Head(inbox).d IN
       \/ /\ Parse(d) \in {"error", "unknown", "reply"}
          /\ UNCHANGED <<pc, leds>>
       \/ Parse(d) = "poll" /\ Goto("reply") /\ UNCHANGED leds
       \/ Parse(d) = "output" /\ d.sub # 0 /\ UNCHANGED <<pc, leds>>
       \/ /\ Parse(d) = "output" /\ d.sub = 0 /\ TooShort(d)
          /\ Goto("panicked") /\ UNCHANGED leds
       \/ /\ Parse(d) = "output" /\ d.sub = 0 /\ ~TooShort(d)
          /\ Goto("spi") /\ leds' = Head(inbox).n
  /\ UNCHANGED <<lease, address, arrived, tx, answered, strip>>

\* Mutant: a socket that is full ends the reply.
ReplyOrNot ==
  /\ pc = "reply"
  /\ IF Len(tx) < TxSlots
     THEN tx' = Append(tx, [n |-> got.n, address |-> address])
          /\ answered' = answered \cup {got.n}
     ELSE UNCHANGED <<tx, answered>>
  /\ Goto("recv")
  /\ UNCHANGED <<lease, address, inbox, arrived, got, leds, strip>>

\* send_poll_reply: send_to waits for room in the socket.
Reply ==
  /\ pc = "reply" /\ Len(tx) < TxSlots
  /\ tx' = Append(tx, [n |-> got.n, address |-> address])
  /\ answered' = answered \cup {got.n}
  /\ Goto("recv")
  /\ UNCHANGED <<lease, address, inbox, arrived, got, leds, strip>>

\* Mutant: what led_buf held before goes out.
ShowPrevious ==
  /\ pc = "spi" /\ Goto("recv")
  /\ strip' = leds - 1
  /\ UNCHANGED <<lease, address, inbox, arrived, got, tx, answered, leds>>

\* spi.write is through.
Show ==
  /\ pc = "spi" /\ Goto("recv")
  /\ strip' = leds
  /\ UNCHANGED <<lease, address, inbox, arrived, got, tx, answered, leds>>

Task == Configured \/ Recv \/ Reply \/ Show

----------------------------------------------------------------------------
(* The stack and the network.                                              *)

Running == pc # "panicked"

\* A lease is obtained, renewed with another address, or lost; the task, which
\* has read its address once, does not look again.
Lease ==
  /\ Running
  /\ \E a \in (Addresses \cup {"none"}) \ {lease} : lease' = a
  /\ UNCHANGED <<pc, address, inbox, arrived, got, tx, answered, leds, strip>>

\* A datagram for which the socket has no room is dropped by the stack.
Arrive ==
  /\ Running /\ pc # "config"
  /\ arrived < MaxArrivals /\ Len(inbox) < RxSlots
  /\ \E d \in Datagrams : inbox' = Append(inbox, [n |-> arrived + 1, d |-> d])
  /\ arrived' = arrived + 1
  /\ UNCHANGED <<pc, lease, address, got, tx, answered, leds, strip>>

Sent ==
  /\ Running /\ tx # <<>> /\ tx' = Tail(tx)
  /\ UNCHANGED <<pc, lease, address, inbox, arrived, got, answered,
                 leds, strip>>

Next == Task \/ Lease \/ Arrive \/ Sent

Spec == Init /\ [][Next]_vars

(***************************************************************************)
(* The executor polls the task when what it awaits is there, the SPI bus   *)
(* ends its writes and the stack sends what it is given.  Nobody need send *)
(* the node anything.                                                      *)
(***************************************************************************)
Fairness ==
  WF_vars(Recv) /\ WF_vars(Reply) /\ WF_vars(Show) /\ WF_vars(Sent)

FairSpec == Spec /\ Fairness

----------------------------------------------------------------------------
\* The one thing that stops the firmware here is an Output frame for the strip
\* that carries fewer than 62 channels, as Art-Net allows; no other datagram
\* does, however it is cut short and whatever length it claims.
PanicsOnlyOnShortFrame ==
  pc = "panicked" =>
    /\ got.d.kind = "output" /\ got.d.sub = 0
    /\ got.d.claimed < 32 + 10 * 3

\* A frame on its way to the strip is made of bytes of its own datagram: none
\* of its channels lies beyond what was received, in what buf holds of an
\* earlier datagram or reply.
FrameWithinDatagram ==
  pc = "spi" =>
    \A i \in 0..(NumLeds - 1), c \in 0..2 :
      OutputHead + Channel(i, c) < got.d.len

\* A node that receives a reply, as this code does, finds every field of it
\* where the reply was given it.
ReplyUnderstood ==
  tx # <<>> =>
    /\ End(ReplyRead, HeaderLen) <= End(ReplyWritten, 8)
    /\ \A k \in 1..Len(ReplyRead) :
         \E j \in 1..Len(ReplyWritten) :
           /\ ReplyWritten[j] = ReplyRead[k]
           /\ Offset(ReplyWritten, 8, j) = Offset(ReplyRead, HeaderLen, k)

\* A poll that is in the socket is answered.
PollAnswered ==
  \A n \in 1..MaxArrivals :
    (\E k \in 1..Len(inbox) : inbox[k].n = n /\ Parse(inbox[k].d) = "poll")
      ~> n \in answered \/ ~Running

\* A frame for the strip that is in the socket is shown.
FrameShown ==
  \A n \in 1..MaxArrivals :
    (\E k \in 1..Len(inbox) :
       inbox[k].n = n /\ Parse(inbox[k].d) = "output" /\ inbox[k].d.sub = 0)
      ~> strip = n \/ ~Running
=============================================================================
