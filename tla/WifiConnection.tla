--------------------------- MODULE WifiConnection ---------------------------
(***************************************************************************)
(* The Wi-Fi connection task of src/main.rs, the network stack that        *)
(* net_task runs, and the tasks that wait for the link and for an address  *)
(* before they serve.                                                      *)
(*                                                                         *)
(* The Wi-Fi driver is not in the repository.  It runs from an interrupt,  *)
(* so that it may report an event between any two statements of the task.  *)
(* It latches one flag per event; wait_for_event and connect clear the     *)
(* flags they are going to wait for.                                       *)
(***************************************************************************)

CONSTANTS
  Services,    \* the Art-Net task and the HTTP tasks
  LinkFirst    \* those that look for the link before they look for an
               \* address (the HTTP tasks)

ASSUME WifiAssumption == LinkFirst \subseteq Services

VARIABLES
  pc,        \* the await the task is suspended at; "wait" is the place between
             \* the look at the state and the wait for the event
  sta,       \* get_wifi_state()
  trying,    \* the driver is connecting
  events,    \* the events the driver has latched
  missed,    \* history: a disconnect fell between the look and the wait
  linkUp,    \* Stack::is_link_up()
  config,    \* Stack::config() is Some
  service    \* how far each of the serving tasks is

taskVars  == <<pc, sta, trying, events, missed>>
stackVars == <<linkUp, config>>
vars == <<taskVars, stackVars, service>>

Pcs == {"check", "wait", "waiting", "pause_lost", "starting", "connecting",
        "pause_failed", "panicked"}

Events == {"start", "connected", "disconnected"}

\* The types, and that the driver works on a request only while the task
\* awaits its answer.
TypeOK ==
  /\ pc \in Pcs /\ sta \in {"off", "started", "connected", "disconnected"}
  /\ trying \in BOOLEAN /\ events \in SUBSET Events /\ missed \in BOOLEAN
  /\ linkUp \in BOOLEAN /\ config \in BOOLEAN
  /\ service \in [Services -> {"link", "config", "serving", "ended"}]
  /\ trying => pc = "connecting" /\ sta # "connected"

Init ==
  /\ pc = "check" /\ sta = "off" /\ trying = FALSE /\ events = {}
  /\ missed = FALSE
  /\ linkUp = FALSE /\ config = FALSE
  /\ service = [s \in Services |-> IF s \in LinkFirst THEN "link" ELSE "config"]

----------------------------------------------------------------------------
(* connection.                                                             *)

Connect ==
  /\ trying' = TRUE /\ events' = events \ {"connected", "disconnected"}
  /\ pc' = "connecting"

\* From is_started to the await of start or of connect.
StartOrConnect ==
  /\ IF sta = "off"
     THEN pc' = "starting" /\ events' = events \ {"start"} /\ trying' = trying
     ELSE Connect
  /\ UNCHANGED <<sta, missed>>

Wait == pc' = "wait" /\ UNCHANGED <<sta, trying, events, missed>>

\* Mutants: the task waits in every state but the first; it never waits.
WaitUnlessOff ==
  pc = "check" /\ IF sta # "off" THEN Wait ELSE StartOrConnect
NeverWait == pc = "check" /\ StartOrConnect

\* The top of the loop.
Check == pc = "check" /\ IF sta = "connected" THEN Wait ELSE StartOrConnect

\* wait_for_event clears what it waits for, then waits.
WaitForEvent ==
  /\ pc = "wait" /\ pc' = "waiting" /\ events' = events \ {"disconnected"}
  /\ UNCHANGED <<sta, trying, missed>>

Lost ==
  /\ pc = "waiting" /\ "disconnected" \in events
  /\ pc' = "pause_lost" /\ events' = events \ {"disconnected"}
  /\ UNCHANGED <<sta, trying, missed>>

\* Five seconds after the link was lost.
Restart == pc = "pause_lost" /\ StartOrConnect

Started ==
  /\ pc = "starting" /\ "start" \in events
  /\ Connect /\ UNCHANGED <<sta, missed>>

\* connect is Ok if both events came before the task ran.
Connected ==
  /\ pc = "connecting" /\ "connected" \in events
  /\ pc' = "check" /\ events' = events \ {"connected"}
  /\ UNCHANGED <<sta, trying, missed>>

\* Mutant: after a failure the task waits for the next disconnect.
FailedWaits ==
  /\ pc = "connecting"
  /\ "disconnected" \in events /\ "connected" \notin events
  /\ pc' = "wait" /\ events' = events \ {"disconnected"}
  /\ UNCHANGED <<sta, trying, missed>>

Failed ==
  /\ pc = "connecting"
  /\ "disconnected" \in events /\ "connected" \notin events
  /\ pc' = "pause_failed" /\ events' = events \ {"disconnected"}
  /\ UNCHANGED <<sta, trying, missed>>

\* Five seconds after a failure.
Again ==
  /\ pc = "pause_failed" /\ pc' = "check"
  /\ UNCHANGED <<sta, trying, events, missed>>

Task ==
  /\ Check \/ WaitForEvent \/ Lost \/ Restart \/ Started \/ Connected
       \/ Failed \/ Again
  /\ UNCHANGED <<stackVars, service>>

----------------------------------------------------------------------------
(* The driver.                                                             *)

Reports(event, after) ==
  /\ sta' = after /\ events' = events \cup {event}
  /\ trying' = FALSE /\ pc' = pc

DriverStarts ==
  /\ pc = "starting" /\ sta = "off" /\ Reports("start", "started")
  /\ missed' = missed

\* start or set_configuration is an Err, which the task unwraps.
StartFails ==
  /\ pc = "starting" /\ sta = "off" /\ pc' = "panicked"
  /\ UNCHANGED <<sta, trying, events, missed>>

Associates ==
  trying /\ Reports("connected", "connected") /\ missed' = missed

Refuses ==
  trying /\ Reports("disconnected", "disconnected") /\ missed' = missed

LinkLost ==
  /\ sta = "connected" /\ Reports("disconnected", "disconnected")
  /\ missed' = (missed \/ pc = "wait")

Answers == DriverStarts \/ StartFails \/ Associates \/ Refuses

Driver ==
  (Answers \/ LinkLost) /\ UNCHANGED <<stackVars, service>>

----------------------------------------------------------------------------
(* The network stack and the tasks that wait for it.                       *)

\* One poll of Stack::run: the address goes with the link, and comes from DHCP.
NetTask ==
  /\ linkUp' = (sta = "connected")
  /\ config' \in (IF linkUp /\ linkUp' THEN {config, TRUE} ELSE {FALSE})
  /\ UNCHANGED <<taskVars, service>>

\* Mutant: the task ends when it finds no link.
LinkUpOrEnd(s) ==
  /\ service[s] = "link"
  /\ service' = [service EXCEPT ![s] = IF linkUp THEN "config" ELSE "ended"]

\* The first loop of the HTTP tasks, every 500 ms.
LinkUp(s) ==
  /\ service[s] = "link" /\ linkUp
  /\ service' = [service EXCEPT ![s] = "config"]

\* The second loop of the HTTP tasks, the only one of the Art-Net task.
Configured(s) ==
  /\ service[s] = "config" /\ config
  /\ service' = [service EXCEPT ![s] = "serving"]

Service(s) ==
  (LinkUp(s) \/ Configured(s)) /\ UNCHANGED <<taskVars, stackVars>>

Next ==
  /\ pc # "panicked"
  /\ Task \/ Driver \/ NetTask \/ \E s \in Services : Service(s)

Spec == Init /\ [][Next]_vars

Running(A) == pc # "panicked" /\ A

\* DHCP answers in the end.
Lease == NetTask /\ (linkUp /\ linkUp' => config')

(***************************************************************************)
(* The executor polls what was woken, the driver answers every request, and*)
(* DHCP answers while the link is up.  Nobody is obliged to keep the link. *)
(***************************************************************************)
FairSpec ==
  /\ Spec
  /\ WF_vars(Running(Task))
  /\ WF_vars(Running(Answers /\ UNCHANGED <<stackVars, service>>))
  /\ WF_vars(Running(Lease))
  /\ \A s \in Services : WF_vars(Running(Service(s)))

----------------------------------------------------------------------------
\* The task sleeps on a link that is gone only if the link went between the
\* look at the state and the wait: "wait until we're no longer connected".
SleepsOnLiveLink ==
  pc = "waiting" /\ sta # "connected" => "disconnected" \in events \/ missed

\* A new attempt is made only when the link is down and no other attempt is
\* under way.
ConnectsWhenDown ==
  [][trying' /\ (~trying \/ pc # "connecting") =>
       ~trying /\ sta # "connected"]_vars

\* From every await of the task but one, a link that is down is asked for
\* again, unless the driver fails to start, which the task unwraps.  The one
\* is the wait for a disconnect that has already been cleared (WaitEnds).
Reconnects ==
  (/\ sta # "connected" /\ pc # "wait"
   /\ pc = "waiting" => "disconnected" \in events)
    ~> trying \/ pc = "panicked"

\* "Wait until we're no longer connected": the wait ends once the link is gone.
WaitEnds ==
  pc = "waiting" /\ sta # "connected" ~> pc # "waiting"

\* The serving tasks start once the link stays, however often it was lost
\* while they waited for it or for an address.
ServicesStart ==
  <>[](sta = "connected") => <>(\A s \in Services : service[s] = "serving")
=============================================================================
