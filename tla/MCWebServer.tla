----------------------------- MODULE MCWebServer -----------------------------
(***************************************************************************)
(* The property that fails.                                                *)
(***************************************************************************)
EXTENDS WebServer

\* The read loop ends: a peer that closes its side before its headers are
\* complete has its connection ended with an error ("read all headers",
\* "incomplete headers", handle_connection).
ReadEnds ==
  \A t \in Tasks : pc[t] = "read" /\ sock[t] = "closewait"
                     ~> pc[t] \notin {"read", "spin"}
=============================================================================
