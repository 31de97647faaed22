------------------------------ MODULE PdReply -------------------------------
(***************************************************************************)
(* What the sink promises a source, without its FIFOs, its registers and   *)
(* its reads: while it is online it answers every offer the chip has taken *)
(* in, once, in the order they came, with a Request for that very offer    *)
(* and with consecutive message ids.                                       *)
(***************************************************************************)
EXTENDS Naturals, Sequences

CONSTANTS Offers, MessageIds

VARIABLES
  online,
  pending,  \* the offers taken in and not answered
  nextId,   \* the id of the next answer
  wire,     \* the answers on their way
  restarts  \* how often the sink has restarted

vars == <<online, pending, nextId, wire, restarts>>

Init ==
  /\ online = FALSE /\ pending = <<>> /\ nextId = 0 /\ wire = <<>>
  /\ restarts = 0

TakeIn(offer) ==
  /\ pending' = Append(pending, offer)
  /\ UNCHANGED <<online, nextId, wire, restarts>>

Answer ==
  /\ online /\ pending # <<>>
  /\ wire' = Append(wire, [offer |-> Head(pending), good |-> TRUE, id |-> nextId])
  /\ pending' = Tail(pending)
  /\ nextId' = (nextId + 1) % MessageIds
  /\ UNCHANGED <<online, restarts>>

\* An answer arrives or is lost; all are lost when the cable is pulled.
Leaves ==
  /\ wire # <<>> /\ wire' \in {Tail(wire), <<>>}
  /\ UNCHANGED <<online, pending, nextId, restarts>>

\* Only a sink that is not online forgets what it was told.
Forget ==
  ~online /\ pending' = <<>> /\ UNCHANGED <<online, nextId, wire, restarts>>

Turn == online' = ~online /\ UNCHANGED <<pending, nextId, wire, restarts>>

\* A restart costs the sink at most the offer it was reading or answering; what
\* it had not begun to read is still pending.  Its ids start over.
Restart ==
  /\ restarts' = restarts + 1
  /\ online' = FALSE /\ nextId' = 0
  /\ \/ pending' = pending
     \/ pending # <<>> /\ pending' = Tail(pending)
  /\ UNCHANGED wire

Next ==
  \/ \E o \in Offers : TakeIn(o)
  \/ Answer \/ Leaves \/ Forget \/ Turn \/ Restart

Spec == Init /\ [][Next]_vars
=============================================================================
