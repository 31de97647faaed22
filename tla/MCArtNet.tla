------------------------------ MODULE MCArtNet ------------------------------
(***************************************************************************)
(* The Art-Net node: its task, and the two encodings below it, of packets  *)
(* (ByteBuffer) and of LEDs (Ws2812).  The encodings are pure, and what    *)
(* the task needs to know of them, the lengths of the fields and that an   *)
(* LED shows what it was given, is what their properties say; so nothing   *)
(* is gained by running them against each other, and a behaviour moves one *)
(* of the three and leaves the others at rest.                             *)
(***************************************************************************)
EXTENDS ArtNet, ByteBuffer, Ws2812

VARIABLE part     \* what moves

MCInit ==
  /\ Init /\ BufferInit /\ StripInit
  /\ part \in {"task", "cursor", "strip"}
  /\ part # "cursor" => data = [i \in 1..BufLen |-> 0]

MCNext ==
  \/ part = "task" /\ Next /\ UNCHANGED <<bufferVars, stripVars, part>>
  \/ part = "cursor" /\ BufferNext /\ UNCHANGED <<vars, stripVars, part>>
  \/ part = "strip" /\ StripNext /\ UNCHANGED <<vars, bufferVars, part>>

MCSpec ==
  MCInit /\ [][MCNext]_<<vars, bufferVars, stripVars, part>> /\ Fairness

\* The type invariants of the three: the cursors of buffer.rs stay within the
\* slice, the bytes of ws2812.rs within a byte.
PartsTypeOK == TypeOK /\ CursorTypeOK /\ StripTypeOK

----------------------------------------------------------------------------
(* The datagrams around each boundary of the parser and of the LED loop.   *)

Datagram(kind, len, targeted, claimed, sub) ==
  [kind |-> kind, len |-> len, targeted |-> targeted, claimed |-> claimed,
   sub |-> sub]

Polls == {Datagram("poll", 14, FALSE, 0, 0), Datagram("poll", 17, TRUE, 0, 0),
          Datagram("poll", 18, TRUE, 0, 0)}

\* Complete, cut short by a byte, too short for the LEDs by a byte, for
\* another universe.
Frames == {Datagram("output", 80, FALSE, 62, 0),
           Datagram("output", 79, FALSE, 62, 0),
           Datagram("output", 79, FALSE, 61, 0),
           Datagram("output", 18, FALSE, 0, 1)}

Rest == {Datagram("reply", 239, FALSE, 0, 0),
         Datagram("alien", 9, FALSE, 0, 0)}

MCDatagrams == Polls \cup Frames \cup Rest
=============================================================================
