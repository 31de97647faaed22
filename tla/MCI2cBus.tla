------------------------------ MODULE MCI2cBus ------------------------------
(***************************************************************************)
(* The clients of the firmware: pd::task polls the PD sink and then the    *)
(* charger; two HTTP tasks.  PdOnly is pd::task alone.                     *)
(***************************************************************************)
EXTENDS I2cBus

MCTasks == {"pd_task", "http1", "http2"}
MCClients == {"pd", "bq", "web1", "web2"}
MCTaskOf == [pd |-> "pd_task", bq |-> "pd_task", web1 |-> "http1",
             web2 |-> "http2"]
MCFutures == [pd_task |-> <<"pd", "bq">>, http1 |-> <<"web1">>,
              http2 |-> <<"web2">>]

PdOnlyTasks == {"pd_task"}
PdOnlyClients == {"pd", "bq"}
PdOnlyTaskOf == [pd |-> "pd_task", bq |-> "pd_task"]
PdOnlyFutures == [pd_task |-> <<"pd", "bq">>]

\* The PD sink gets the bus whenever it wants it: "It is important that we
\* reply quickly otherwise the remote side will possibly give up"
\* (handle_source_capabilities).
PdGranted == pos["pd"] = "want" ~> locked = "pd"
=============================================================================
