------------------------ MODULE WifiConnectionProofs ------------------------
(***************************************************************************)
(* For any number of serving tasks: what the states of the connection task *)
(* know of the link.  The flag the task waits for was cleared when it went *)
(* to sleep on a link that was up, and only the task asks for a new one.   *)
(***************************************************************************)
EXTENDS WifiConnection, TLAPS

LinkKnown ==
  /\ pc = "wait" => sta = "connected" \/ missed
  /\ pc = "waiting" /\ "disconnected" \in events => sta # "connected"
  /\ pc = "pause_lost" => sta # "connected"
  /\ pc = "starting" => sta # "connected"
  /\ trying => "connected" \notin events /\ "disconnected" \notin events

IInv == TypeOK /\ SleepsOnLiveLink /\ LinkKnown

\* Connect keeps the types when the link is down.
LEMMA ConnectKeeps ==
  ASSUME IInv, Connect, sta' = sta, missed' = missed, sta # "connected",
         UNCHANGED <<stackVars, service>>
  PROVE  IInv'
  BY DEF IInv, TypeOK, SleepsOnLiveLink, LinkKnown, Connect, Pcs, Events,
         stackVars

LEMMA StartKeeps ==
  ASSUME IInv, StartOrConnect, sta # "connected", ~trying,
         UNCHANGED <<stackVars, service>>
  PROVE  IInv'
<1>1. CASE sta = "off"
  BY <1>1 DEF StartOrConnect, IInv, TypeOK, SleepsOnLiveLink, LinkKnown, Pcs,
              Events, stackVars
<1>2. CASE sta # "off"
  BY <1>2, ConnectKeeps DEF StartOrConnect
<1> QED BY <1>1, <1>2

\* One step per action of the task.
LEMMA TaskKeeps ==
  ASSUME IInv, Task
  PROVE  IInv'
<1> USE DEF Task
<1>1. CASE Check /\ sta = "connected"
  BY <1>1 DEF Check, Wait, IInv, TypeOK, SleepsOnLiveLink, LinkKnown, Pcs,
              stackVars
<1>2. CASE Check /\ sta # "connected"
  BY <1>2, StartKeeps DEF Check, IInv, TypeOK
<1>3. CASE WaitForEvent
  BY <1>3 DEF WaitForEvent, IInv, TypeOK, SleepsOnLiveLink, LinkKnown, Pcs,
              Events, stackVars
<1>4. CASE Lost
  BY <1>4 DEF Lost, IInv, TypeOK, SleepsOnLiveLink, LinkKnown, Pcs, Events,
              stackVars
<1>5. CASE Restart
  BY <1>5, StartKeeps DEF Restart, IInv, TypeOK, LinkKnown
<1>6. CASE Started
  BY <1>6, ConnectKeeps DEF Started, IInv, LinkKnown
<1>7. CASE Connected
  BY <1>7 DEF Connected, IInv, TypeOK, SleepsOnLiveLink, LinkKnown, Pcs,
              Events, stackVars
<1>8. CASE Failed
  BY <1>8 DEF Failed, IInv, TypeOK, SleepsOnLiveLink, LinkKnown, Pcs, Events,
              stackVars
<1>9. CASE Again
  BY <1>9 DEF Again, IInv, TypeOK, SleepsOnLiveLink, LinkKnown, Pcs, Events,
              stackVars
<1> QED BY <1>1, <1>2, <1>3, <1>4, <1>5, <1>6, <1>7, <1>8, <1>9

LEMMA OthersKeep ==
  ASSUME IInv, Driver \/ NetTask \/ \E s \in Services : Service(s)
  PROVE  IInv'
<1>1. CASE Driver
  <2> USE DEF IInv, TypeOK, SleepsOnLiveLink, LinkKnown, Pcs, Events, stackVars
  <2>1. CASE DriverStarts
    BY <1>1, <2>1 DEF Driver, DriverStarts, Reports
  <2>2. CASE StartFails
    BY <1>1, <2>2 DEF Driver, StartFails
  <2>3. CASE Associates
    BY <1>1, <2>3 DEF Driver, Associates, Reports
  <2>4. CASE Refuses
    BY <1>1, <2>4 DEF Driver, Refuses, Reports
  <2>5. CASE LinkLost
    BY <1>1, <2>5 DEF Driver, LinkLost, Reports
  <2> QED BY <1>1, <2>1, <2>2, <2>3, <2>4, <2>5 DEF Driver, Answers
<1>2. CASE NetTask
  BY <1>2 DEF NetTask, IInv, TypeOK, SleepsOnLiveLink, LinkKnown, taskVars
<1>3. CASE \E s \in Services : Service(s)
  BY <1>3 DEF Service, LinkUp, Configured, IInv, TypeOK, SleepsOnLiveLink,
              LinkKnown, taskVars, stackVars
<1> QED BY <1>1, <1>2, <1>3

THEOREM WifiInvariant == Spec => []IInv
<1>1. Init => IInv
  BY DEF Init, IInv, TypeOK, SleepsOnLiveLink, LinkKnown, Pcs, Events
<1>2. IInv /\ [Next]_vars => IInv'
  <2>1. IInv /\ UNCHANGED vars => IInv'
    BY DEF IInv, TypeOK, SleepsOnLiveLink, LinkKnown, vars, taskVars, stackVars
  <2> QED BY <2>1, TaskKeeps, OthersKeep DEF Next
<1> QED BY <1>1, <1>2, PTL DEF Spec

\* The driver works on a request only while the task awaits its answer.
THEOREM WifiTypeOK == Spec => []TypeOK
BY WifiInvariant, PTL DEF IInv

\* A sleeping task has a live link, a wake-up under way, or has missed the
\* loss between its look at the state and its wait.
THEOREM WifiSleepsOnLiveLink == Spec => []SleepsOnLiveLink
BY WifiInvariant, PTL DEF IInv

\* A new attempt is made only on a link that is down, one at a time.
THEOREM WifiConnectsWhenDown == Spec => ConnectsWhenDown
<1> DEFINE Asks == trying' /\ (~trying \/ pc # "connecting")
                     => ~trying /\ sta # "connected"
<1>1. IInv /\ [Next]_vars => Asks
  <2> SUFFICES ASSUME IInv, [Next]_vars, trying', ~trying \/ pc # "connecting"
               PROVE  ~trying /\ sta # "connected"
    OBVIOUS
  <2>1. ~trying
    BY DEF IInv, TypeOK
  <2>2. ~UNCHANGED vars
    BY <2>1 DEF vars, taskVars
  <2>3. Task
    BY <2>1, <2>2 DEF Next, Driver, Answers, DriverStarts, StartFails,
       Associates, Refuses, LinkLost, Reports, NetTask, Service, taskVars
  <2>4. CASE Check
    BY <2>1, <2>4 DEF Check, Wait
  <2>5. CASE Restart \/ Started
    BY <2>1, <2>5 DEF Restart, Started, IInv, LinkKnown
  <2>6. CASE WaitForEvent \/ Lost \/ Connected \/ Failed \/ Again
    BY <2>1, <2>6 DEF WaitForEvent, Lost, Connected, Failed, Again
  <2> QED BY <2>1, <2>3, <2>4, <2>5, <2>6 DEF Task
<1>2. [][Asks]_vars <=> ConnectsWhenDown
  BY PTL DEF ConnectsWhenDown
<1> QED BY <1>1, <1>2, WifiInvariant, PTL DEF Spec
=============================================================================
