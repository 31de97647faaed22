------------------------------ MODULE LedStrip ------------------------------
(***************************************************************************)
(* What the encoding of src/ws2812.rs promises: a strip of LEDs, each with *)
(* the colour it was last given.                                           *)
(***************************************************************************)
EXTENDS Integers

CONSTANTS
  NumLeds,    \* the number of LEDs
  Levels      \* the levels of a component

VARIABLES
  colour,   \* of each LED
  call      \* the last call of set_led: its LED and its colour

vars == <<colour, call>>

Black == [r |-> 0, g |-> 0, b |-> 0]

Init ==
  /\ colour = [i \in 0..(NumLeds - 1) |-> Black]
  /\ call = [led |-> 0, colour |-> Black]

SetLed(i, c) ==
  /\ call' = [led |-> i, colour |-> c]
  /\ colour' = [colour EXCEPT ![i] = c]

Next == \E i \in 0..(NumLeds - 1), c \in [r : Levels, g : Levels, b : Levels] :
          SetLed(i, c)

Spec == Init /\ [][Next]_vars
=============================================================================
