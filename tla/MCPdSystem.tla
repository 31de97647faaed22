----------------------------- MODULE MCPdSystem -----------------------------
(***************************************************************************)
(* The sink under failed transfers.  As long as none has failed, the FIFO  *)
(* is long enough for what RoomForNext is about; from then on it is kept   *)
(* short, since a failed read multiplies the rows of bytes it may hold.    *)
(***************************************************************************)
EXTENDS PdSystem

\* Bound: once a transfer has failed, the FIFO holds one offer at most.
ShortFifo == errs > 0 => Len(chip.rx) <= 11
=============================================================================
