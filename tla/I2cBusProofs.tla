---------------------------- MODULE I2cBusProofs ----------------------------
(***************************************************************************)
(* Proofs about the I2C bus, for any number of tasks and clients.          *)
(***************************************************************************)
EXTENDS I2cBus, TLAPS

\* What makes WaiterKnown inductive: the waker slot is only ever filled while
\* the bus is held, so the release that empties it is still to come.
WakerNeedsHolder == waker # "none" => locked # "none"

IInv == TypeOK /\ GuardHeld /\ WaiterKnown /\ WakerNeedsHolder

\* The assumptions on the constants, in the pieces the steps need.
LEMMA Constants ==
  /\ MaxHold \in Nat /\ MaxHold > 0
  /\ "none" \notin Tasks /\ "none" \notin Clients
  /\ \A c \in Clients : TaskOf[c] \in Tasks
  BY BusAssumption

LEMMA FutureOfTask ==
  ASSUME TypeOK, NEW c \in Clients, Polled(c)
  PROVE  run \in Tasks /\ TaskOf[c] = run /\ next \in next..Len(Futures[run])
  <1>1. run \in Tasks /\ next \in Nat \ {0}
        BY DEF TypeOK, Polled
  <1>2. Len(Futures[run]) \in Nat
        BY <1>1, BusAssumption
  <1>3. next \in 1..Len(Futures[run])
        BY <1>1, <1>2 DEF Polled
  <1>4. TaskOf[c] = run
        BY <1>1, <1>3, BusAssumption DEF Polled
  <1> QED BY <1>1, <1>2, <1>3, <1>4

LEMMA InitIInv == Init => IInv
<1> SUFFICES ASSUME Init PROVE IInv
    OBVIOUS
<1> USE BusAssumption DEF Init
<1>1. TypeOK
      BY DEF TypeOK, Positions
<1>2. GuardHeld
      BY DEF GuardHeld
<1>3. WaiterKnown
      BY DEF WaiterKnown
<1>4. WakerNeedsHolder
      BY DEF WakerNeedsHolder
<1> QED BY <1>1, <1>2, <1>3, <1>4 DEF IInv

\* The types, whatever the step.
LEMMA NextTypeOK == TypeOK /\ [Next]_vars => TypeOK'
<1> SUFFICES ASSUME TypeOK, [Next]_vars PROVE TypeOK'
    OBVIOUS
<1> USE Constants DEF TypeOK, Positions
<1>1. ASSUME NEW t \in Tasks, StartPoll(t) PROVE TypeOK'
      BY <1>1 DEF StartPoll
<1>2. CASE EndPoll
      BY <1>2 DEF EndPoll
<1>3. ASSUME NEW c \in Clients, StillPending(c) PROVE TypeOK'
      BY <1>3 DEF StillPending
<1>4. ASSUME NEW c \in Clients, Acquire(c) PROVE TypeOK'
      BY <1>4 DEF Acquire
<1>5. ASSUME NEW c \in Clients, Register(c) PROVE TypeOK'
      BY <1>5 DEF Register, Polled
<1>6. ASSUME NEW c \in Clients, Continue(c) PROVE TypeOK'
      BY <1>6 DEF Continue
<1>7. ASSUME NEW c \in Clients, Release(c) PROVE TypeOK'
      BY <1>7 DEF Release
<1>8. ASSUME NEW c \in Clients, TransferDone(c) PROVE TypeOK'
      BY <1>8 DEF TransferDone
<1>10. ASSUME NEW c \in Clients, Event(c) PROVE TypeOK'
      BY <1>10 DEF Event
<1>9. CASE UNCHANGED vars
      BY <1>9 DEF vars
<1> QED BY <1>1, <1>2, <1>3, <1>4, <1>5, <1>6, <1>7, <1>8, <1>9,
        <1>10         DEF Next, Executor, PollFuture

LEMMA NextGuardHeld == TypeOK /\ GuardHeld /\ [Next]_vars => GuardHeld'
<1> SUFFICES ASSUME TypeOK, GuardHeld, [Next]_vars PROVE GuardHeld'
    OBVIOUS
<1> USE Constants DEF TypeOK, Positions, GuardHeld
<1>1. ASSUME NEW t \in Tasks, StartPoll(t) PROVE GuardHeld'
      BY <1>1 DEF StartPoll
<1>2. CASE EndPoll
      BY <1>2 DEF EndPoll
<1>3. ASSUME NEW c \in Clients, StillPending(c) PROVE GuardHeld'
      BY <1>3 DEF StillPending
<1>4. ASSUME NEW c \in Clients, Acquire(c) PROVE GuardHeld'
      BY <1>4 DEF Acquire
<1>5. ASSUME NEW c \in Clients, Register(c) PROVE GuardHeld'
      BY <1>5 DEF Register
<1>6. ASSUME NEW c \in Clients, Continue(c) PROVE GuardHeld'
      BY <1>6 DEF Continue
<1>7. ASSUME NEW c \in Clients, Release(c) PROVE GuardHeld'
      BY <1>7 DEF Release
<1>8. ASSUME NEW c \in Clients, TransferDone(c) PROVE GuardHeld'
      BY <1>8 DEF TransferDone
<1>10. ASSUME NEW c \in Clients, Event(c) PROVE GuardHeld'
      BY <1>10 DEF Event
<1>9. CASE UNCHANGED vars
      BY <1>9 DEF vars
<1> QED BY <1>1, <1>2, <1>3, <1>4, <1>5, <1>6, <1>7, <1>8, <1>9,
        <1>10         DEF Next, Executor, PollFuture

LEMMA NextWakerNeedsHolder ==
  TypeOK /\ WakerNeedsHolder /\ [Next]_vars => WakerNeedsHolder'
  BY BusAssumption
  DEF TypeOK, WakerNeedsHolder, Next, Executor, PollFuture, vars, StartPoll,
      EndPoll, StillPending, Acquire, Register, Continue, Release,
      TransferDone, Event

\* Every step that takes a client out of the futures still to be polled, or
\* its task out of the run queue or the waker slot, puts it elsewhere.
LEMMA NextWaiterKnown == IInv /\ [Next]_vars => WaiterKnown'
<1> SUFFICES ASSUME IInv, [Next]_vars, NEW d \in Clients, pos'[d] = "want"
             PROVE  \/ TaskOf[d] \in woken' \/ ToBePolled(d)'
                    \/ waker' = TaskOf[d] /\ locked' # "none"
    BY DEF WaiterKnown
<1> USE Constants DEF IInv, TypeOK, Positions, WaiterKnown, ToBePolled
<1> DEFINE Known == \/ TaskOf[d] \in woken' \/ ToBePolled(d)'
                    \/ waker' = TaskOf[d] /\ locked' # "none"
\* In a poll that goes past the future c, every other one is still to come.
<1>0. ASSUME NEW c \in Clients, Polled(c), next' = next + 1, run' = run,
             ToBePolled(d), d # c
      PROVE  ToBePolled(d)'
      <2>1. PICK j \in next..Len(Futures[run]) : Futures[run][j] = d
            BY <1>0
      <2>2. j # next /\ j \in Int /\ Len(Futures[run]) \in Int
            BY <1>0, <2>1, FutureOfTask DEF Polled
      <2>3. j \in next + 1..Len(Futures[run])
            BY <2>2
      <2> QED BY <1>0, <2>1, <2>3
<1>1. ASSUME NEW t \in Tasks, StartPoll(t) PROVE Known
      <2>1. CASE TaskOf[d] = t
            <3>1. PICK j \in 1..Len(Futures[t]) : Futures[t][j] = d
                  BY <2>1, BusAssumption
            <3> QED BY <1>1, <2>1, <3>1 DEF StartPoll
      <2>2. CASE TaskOf[d] # t
            BY <1>1, <2>2 DEF StartPoll
      <2> QED BY <2>1, <2>2
<1>2. CASE EndPoll
      <2>1. ~ToBePolled(d)
            BY <1>2 DEF EndPoll
      <2> QED BY <1>2, <2>1 DEF EndPoll
<1>3. ASSUME NEW c \in Clients, StillPending(c) PROVE Known
      BY <1>0, <1>3 DEF StillPending
<1>4. ASSUME NEW c \in Clients, Acquire(c) PROVE Known
      BY <1>0, <1>4 DEF Acquire
<1>5. ASSUME NEW c \in Clients, Register(c) PROVE Known
      <2>1. TaskOf[c] = run /\ run \in Tasks
            BY <1>5, FutureOfTask DEF Register
      <2>2. CASE d = c
            BY <1>5, <2>1, <2>2 DEF Register
      <2>3. CASE d # c
            BY <1>0, <1>5, <2>1, <2>3 DEF Register
      <2> QED BY <2>2, <2>3
<1>6. ASSUME NEW c \in Clients, Continue(c) PROVE Known
      BY <1>0, <1>6 DEF Continue
<1>7. ASSUME NEW c \in Clients, Release(c) PROVE Known
      <2>1. CASE d = c
            <3>1. TaskOf[c] = run /\ next \in next..Len(Futures[run])
                  BY <1>7, FutureOfTask DEF Release
            <3> QED BY <1>7, <2>1, <3>1 DEF Release, Polled
      <2>2. CASE d # c
            BY <1>7, <2>2 DEF Release
      <2> QED BY <2>1, <2>2
<1>8. ASSUME NEW c \in Clients, TransferDone(c) PROVE Known
      BY <1>8 DEF TransferDone
<1>10. ASSUME NEW c \in Clients, Event(c) PROVE Known
      BY <1>10 DEF Event
<1>9. CASE UNCHANGED vars
      BY <1>9 DEF vars
<1> QED BY <1>1, <1>2, <1>3, <1>4, <1>5, <1>6, <1>7, <1>8, <1>9,
        <1>10         DEF Next, Executor, PollFuture

LEMMA IInvInductive == IInv /\ [Next]_vars => IInv'
  BY NextTypeOK, NextGuardHeld, NextWakerNeedsHolder, NextWaiterKnown DEF IInv

LEMMA SpecIInv == Spec => []IInv
<1> QED BY InitIInv, IInvInductive, PTL DEF Spec

\* The variables of the mutex and the executor keep their types.
THEOREM BusTypeOK == Spec => []TypeOK
<1> QED BY SpecIInv, PTL DEF IInv

\* Mutual exclusion on the bus, over every transfer of a multi-write guard
\* such as that of Fusb302MessageBuffer::send.
THEOREM BusGuardHeld == Spec => []GuardHeld
<1> QED BY SpecIInv, PTL DEF IInv

\* With its single waker slot the embassy mutex forgets no waiter, however
\* many tasks compete for it.
THEOREM BusWaiterKnown == Spec => []WaiterKnown
<1> QED BY SpecIInv, PTL DEF IInv

\* The bus, its waker slot and its executor implement the lock that WebServer
\* is written against: taking the guard and dropping it are its two operations,
\* and every other step is a stutter.
THEOREM BusImplementsLock == Spec => ImplementsLock
<1>1. Init => Lock!Init
      BY DEF Init, Lock!Init
<1>2. IInv /\ [Next]_vars => [Lock!Next]_locked
  <2> SUFFICES ASSUME IInv, Next, locked' # locked PROVE Lock!Next
      BY DEF vars
  <2> USE DEF Lock!Next, Lock!Lock, Lock!Unlock
  <2>1. ASSUME NEW c \in Clients, Acquire(c) PROVE Lock!Next
        BY <2>1 DEF Acquire
  <2>2. ASSUME NEW c \in Clients, Release(c) PROVE Lock!Next
    <3>1. locked = c
          BY <2>2 DEF Release, IInv, GuardHeld
    <3> QED BY <2>2, <3>1 DEF Release
  <2> QED BY <2>1, <2>2
          DEF Next, Executor, PollFuture, StartPoll, EndPoll, StillPending,
              Register, Continue, TransferDone, Event
<1> QED BY <1>1, <1>2, SpecIInv, PTL DEF Spec, ImplementsLock, Lock!Spec

\* A client that awaits nothing but the bus, as handle_bq does, keeps it for
\* ever once it has it: between its release and its next lock nobody else is
\* polled.
THEOREM BusLoopingKeeps == Spec => LoopingKeepsBus
<1>1. IInv /\ [Next]_vars
        => [\A c \in Looping : Keeps(c) => Keeps(c)']_vars
  <2> SUFFICES ASSUME IInv, Next, NEW c \in Looping, Keeps(c) PROVE Keeps(c)'
      OBVIOUS
  <2> c \in Clients
      BY BusAssumption
  <2> USE Constants DEF IInv, TypeOK, Positions, Keeps, GuardHeld
  <2>1. ASSUME NEW t \in Tasks, StartPoll(t) PROVE Keeps(c)'
        BY <2>1 DEF StartPoll
  <2>2. CASE EndPoll
        BY <2>2 DEF EndPoll
  <2>3. ASSUME NEW d \in Clients, StillPending(d) PROVE Keeps(c)'
        BY <2>3 DEF StillPending, Polled
  <2>4. ASSUME NEW d \in Clients, Acquire(d) PROVE Keeps(c)'
        BY <2>4 DEF Acquire, Polled
  <2>5. ASSUME NEW d \in Clients, Register(d) PROVE Keeps(c)'
        BY <2>5 DEF Register, Polled
  <2>6. ASSUME NEW d \in Clients, Continue(d) PROVE Keeps(c)'
        BY <2>6 DEF Continue, Polled
  <2>7. ASSUME NEW d \in Clients, Release(d) PROVE Keeps(c)'
        BY <2>7, FutureOfTask DEF Release, Polled
  <2>8. ASSUME NEW d \in Clients, TransferDone(d) PROVE Keeps(c)'
        BY <2>8 DEF TransferDone
  <2>9. ASSUME NEW d \in Clients, Event(d) PROVE Keeps(c)'
        BY <2>9 DEF Event
  <2> QED BY <2>1, <2>2, <2>3, <2>4, <2>5, <2>6, <2>7, <2>8, <2>9
          DEF Next, Executor, PollFuture
<1> QED BY <1>1, SpecIInv, PTL DEF Spec, LoopingKeepsBus
=============================================================================
