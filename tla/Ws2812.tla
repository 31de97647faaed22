------------------------------- MODULE Ws2812 -------------------------------
(***************************************************************************)
(* The buffer of src/ws2812.rs: what the SPI bus shifts out to a strip of  *)
(* LEDs.  A component of a colour takes three bytes, eight pulses of three *)
(* bits, 110 for a one and 100 for a zero; a strip is framed by zeros that *)
(* reset it.  A LED takes the middle of each pulse for its bit.            *)
(***************************************************************************)
EXTENDS Integers

CONSTANTS
  StripLeds,  \* the LEDs the buffer is for (120)
  ResetLen,   \* RESET_LEN (200)
  Levels      \* the levels that are set

ASSUME StripAssumption ==
  StripLeds \in Nat /\ ResetLen \in Nat /\ Levels \subseteq 0..255

VARIABLES
  ledBuf,   \* the buffer
  call      \* the last call of set_led: its LED and its colour

stripVars == <<ledBuf, call>>

\* buffer_len.
BufferLen == ResetLen * 2 + StripLeds * 9

Indices == 0..(BufferLen - 1)

Colours == [r : Levels, g : Levels, b : Levels]
Black == [r |-> 0, g |-> 0, b |-> 0]

StripTypeOK ==
  /\ ledBuf \in [Indices -> 0..255]
  /\ call \in [led : 0..StripLeds, colour : Colours \cup {Black}]

StripInit ==
  /\ ledBuf = [p \in Indices |-> 0]
  /\ call = [led |-> 0, colour |-> Black]

\* The bit of x of weight w.
Bit(x, w) == (x \div w) % 2

\* Mutant: the pulses of zero and one are swapped.
InvertedPulse(x, w) == IF Bit(x, w) = 0 THEN 6 ELSE 4

Pulse(x, w) == IF Bit(x, w) = 0 THEN 4 ELSE 6

\* The 24 bits of a component: the pulses of its bits, the highest first.
Encoded(x) ==
  LET Shift(e, w) == e * 8 + Pulse(x, w)
  IN  Shift(Shift(Shift(Shift(Shift(Shift(Shift(Shift(
        0, 128), 64), 32), 16), 8), 4), 2), 1)

\* The byte that set_byte puts k places after the start of its slice.
EncodedByte(x, k) ==
  CASE k = 0 -> ((Encoded(x) \div 256) \div 256) % 256
    [] k = 1 -> (Encoded(x) \div 256) % 256
    [] k = 2 -> Encoded(x) % 256

\* Mutant: the reset in front is forgotten.
StartWithoutReset(i) == i * 9

\* Where the bytes of LED i begin.
Start(i) == ResetLen + i * 9

\* Mutant: in the order of the arguments.
ArgumentOrder(c, k) == IF k < 3 THEN c.r ELSE IF k < 6 THEN c.g ELSE c.b

\* The component of which the byte k places after Start(i) is a part.
Component(c, k) == IF k < 3 THEN c.g ELSE IF k < 6 THEN c.r ELSE c.b

\* set_led, for an index of the strip: three calls of set_byte, each on what
\* the one before has left of the slice.
SetLed(i, c) ==
  /\ ledBuf' = [p \in Indices |->
                  IF p \in Start(i)..(Start(i) + 8)
                  THEN EncodedByte(Component(c, p - Start(i)),
                                   (p - Start(i)) % 3)
                  ELSE ledBuf[p]]
  /\ call' = [led |-> i, colour |-> c]

StripNext == \E i \in 0..(StripLeds - 1), c \in Colours : SetLed(i, c)

StripSpec == StripInit /\ [][StripNext]_stripVars

----------------------------------------------------------------------------
(* The strip: what the LEDs make of the buffer.                            *)

\* The 24 bits that begin with byte p.
Word(p) == (ledBuf[p] * 256 + ledBuf[p + 1]) * 256 + ledBuf[p + 2]

\* The middles of the eight pulses, the last pulse first.
Decoded(w0) ==
  LET w1 == w0 \div 8
      w2 == w1 \div 8
      w3 == w2 \div 8
      w4 == w3 \div 8
      w5 == w4 \div 8
      w6 == w5 \div 8
      w7 == w6 \div 8
  IN    Bit(w0, 2)      + Bit(w1, 2) * 2  + Bit(w2, 2) * 4  + Bit(w3, 2) * 8
      + Bit(w4, 2) * 16 + Bit(w5, 2) * 32 + Bit(w6, 2) * 64 + Bit(w7, 2) * 128

\* LED i takes its green, red and blue off the front of what the LEDs before
\* it have left.
Shown(i) ==
  LET p == ResetLen + i * 9
  IN  [g |-> Decoded(Word(p)), r |-> Decoded(Word(p + 3)),
       b |-> Decoded(Word(p + 6))]

Strip == INSTANCE LedStrip
           WITH NumLeds <- StripLeds,
                colour  <- [i \in 0..(StripLeds - 1) |-> Shown(i)]

\* The buffer implements the strip: after any calls of set_led, in any order,
\* each LED shows the colour it was last given and no call has changed
\* another.
ImplementsStrip == Strip!Spec

\* The zeros around the pulses stay zeros: a strip that did not see its reset
\* would append the frame to the one before.
ResetKept ==
  \A p \in Indices :
    p < ResetLen \/ p >= ResetLen + StripLeds * 9 => ledBuf[p] = 0
=============================================================================
