----------------------------- MODULE ByteBuffer -----------------------------
(***************************************************************************)
(* The cursors of src/buffer.rs over a slice of bytes: a MutBuffer, with   *)
(* which a packet is written, and then an OldBuffer over the part that was *)
(* written, with which it is read (Packet::write and Packet::parse).       *)
(*                                                                         *)
(* A byte is a digit in base Base (256).  An item is what one call writes  *)
(* or reads: an unsigned integer of some width, the least significant byte *)
(* first (ENDIAN is LittleEndian everywhere), or an array of bytes.        *)
(* log and back record the items, with the cursor they were found at.      *)
(***************************************************************************)
EXTENDS Integers, Sequences

CONSTANTS
  Base,       \* the number of values of a byte
  BufLen,     \* the length of the slice
  Widths,     \* the widths of the integers (1, 2, 4, 8, 16)
  Arrays,     \* the lengths of the arrays
  MaxItems    \* bound: items written

ASSUME BufferAssumption ==
  /\ Base \in Nat \ {0, 1} /\ BufLen \in Nat /\ MaxItems \in Nat
  /\ Widths \subseteq Nat \ {0} /\ Arrays \subseteq Nat

VARIABLES
  data,     \* the bytes of the slice
  pos,      \* MutBuffer.pos
  log,      \* the items written
  limit,    \* the length of the slice that is read, or -1 before that
  rpos,     \* OldBuffer.pos
  back      \* the items read

bufferVars == <<data, pos, log, limit, rpos, back>>

Byte == 0..(Base - 1)

\* Base^n: what byte n + 1 of an integer counts.
Place[n \in Nat] == IF n = 0 THEN 1 ELSE Place[n - 1] * Base

Uints == UNION {[kind : {"uint"}, width : {n}, num : 0..(Place[n] - 1)] :
                n \in Widths}
ByteArrays == UNION {[kind : {"array"}, width : {n}, bytes : [1..n -> Byte]] :
                     n \in Arrays}
Items == Uints \cup ByteArrays

\* Mutant: the most significant byte first.
BigEndian(v, n) == [i \in 1..n |-> (v \div Place[n - i]) % Base]

\* ENDIAN::write_u16 and the like, and ENDIAN::read_u16.
ToBytes(v, n) == [i \in 1..n |-> (v \div Place[i - 1]) % Base]
FromBytes(bs) ==
  LET value[i \in 0..Len(bs)] ==
        IF i = 0 THEN 0 ELSE value[i - 1] + bs[i] * Place[i - 1]
  IN  value[Len(bs)]

Encode(it) == IF it.kind = "uint" THEN ToBytes(it.num, it.width) ELSE it.bytes

\* The item of the kind and width of it that the bytes bs are.
Decode(it, bs) ==
  IF it.kind = "uint"
  THEN [kind |-> "uint", width |-> it.width, num |-> FromBytes(bs)]
  ELSE [kind |-> "array", width |-> it.width, bytes |-> bs]

CursorTypeOK ==
  /\ data \in [1..BufLen -> Byte]
  /\ pos \in 0..BufLen /\ limit \in -1..BufLen /\ rpos \in 0..BufLen
  /\ log \in Seq([at : 0..BufLen, item : Items])
  /\ back \in Seq([at : 0..BufLen, item : Items])

\* The buffer still holds the datagram before.
BufferInit ==
  /\ data \in [1..BufLen -> Byte] /\ pos = 0 /\ log = <<>>
  /\ limit = -1 /\ rpos = 0 /\ back = <<>>

\* Mutant: the last byte of the slice is one too far.
FitsOneMore(p, n, len) == p + n <= len + 1

\* ensure_space; every operation fails with Eof, and has no effect, if not.
Fits(p, n, len) == p + n <= len

\* The n bytes after the cursor p: take.
Slice(p, n) == [i \in 1..n |-> data[p + i]]

\* Mutant: the bytes are copied to the start of the slice.
WriteAtStart(it) ==
  /\ limit = -1 /\ Len(log) < MaxItems /\ Fits(pos, it.width, BufLen)
  /\ data' = [i \in 1..BufLen |-> IF i \in 1..it.width
                                  THEN Encode(it)[i] ELSE data[i]]
  /\ pos' = pos + it.width
  /\ log' = Append(log, [at |-> pos, item |-> it])
  /\ UNCHANGED <<limit, rpos, back>>

\* write_u8 to write_u128 and write: take_mut, and the bytes are filled in.
Write(it) ==
  /\ limit = -1 /\ Len(log) < MaxItems /\ Fits(pos, it.width, BufLen)
  /\ data' = [i \in 1..BufLen |-> IF i \in (pos + 1)..(pos + it.width)
                                  THEN Encode(it)[i - pos] ELSE data[i]]
  /\ pos' = pos + it.width
  /\ log' = Append(log, [at |-> pos, item |-> it])
  /\ UNCHANGED <<limit, rpos, back>>

\* take, read_u8 to read_u128, read_buf and read of MutBuffer: the item that
\* is there is left as it is.
Pass(it) ==
  /\ limit = -1 /\ Len(log) < MaxItems /\ Fits(pos, it.width, BufLen)
  /\ it = Decode(it, Slice(pos, it.width))
  /\ pos' = pos + it.width
  /\ log' = Append(log, [at |-> pos, item |-> it])
  /\ UNCHANGED <<data, limit, rpos, back>>

\* The reader is given the slice up to the writer's pos().
Open ==
  /\ limit = -1 /\ limit' = pos
  /\ UNCHANGED <<data, pos, log, rpos, back>>

\* read_u8 to read_u128, read and read_buf of OldBuffer, by a reader that
\* expects the kinds and widths the writer wrote.
Read ==
  /\ limit # -1 /\ Len(back) < Len(log)
  /\ LET it == log[Len(back) + 1].item IN
       /\ Fits(rpos, it.width, limit)
       /\ back' = Append(back, [at |-> rpos,
                               item |-> Decode(it, Slice(rpos, it.width))])
       /\ rpos' = rpos + it.width
  /\ UNCHANGED <<data, pos, log, limit>>

BufferNext == (\E it \in Items : Write(it) \/ Pass(it)) \/ Open \/ Read

BufferSpec == BufferInit /\ [][BufferNext]_bufferVars

----------------------------------------------------------------------------
\* The end of the first k items.
EndOf(k) == IF k = 0 THEN 0 ELSE log[k].at + log[k].item.width

\* What was written lies in the slice item after item, without gaps, and no
\* later write has touched it: a packet has the layout its write function
\* spells out.
Layout ==
  /\ pos = EndOf(Len(log))
  /\ \A k \in 1..Len(log) :
       /\ log[k].at = EndOf(k - 1)
       /\ Slice(log[k].at, log[k].item.width) = Encode(log[k].item)

\* A reader that expects the kinds that were written gets the values that were
\* written, every one of them, and then finds the end of the slice.
ReadBack ==
  /\ \A k \in 1..Len(back) : back[k] = log[k]
  /\ limit # -1 /\ Len(back) < Len(log)
       => Fits(rpos, log[Len(back) + 1].item.width, limit)
  /\ limit # -1 /\ Len(back) = Len(log) => rpos = limit
=============================================================================
