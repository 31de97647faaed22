----------------------------- MODULE MCPdSelect -----------------------------
(***************************************************************************)
(* Objects at the edges: no current, 18 V and one step above, two that     *)
(* offer the same power, and the largest fields.                           *)
(***************************************************************************)
EXTENDS PdSelect

Object(v, c) == [raw_voltage |-> v, raw_max_current |-> c]

MCObjects ==
  {Object(100, 0), Object(100, 300), Object(300, 300), Object(360, 250),
   Object(361, 300), Object(400, 500), Object(1023, 1023)}
=============================================================================
