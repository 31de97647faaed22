------------------------------- MODULE I2cBus -------------------------------
(***************************************************************************)
(* The I2C bus, the embassy mutex around it and the executor that runs its *)
(* clients: the PD sink and the charger, two futures joined in one task    *)
(* (pd::task), and one client per HTTP task (src/web.rs).                  *)
(*                                                                         *)
(* The executor polls one woken task at a time; a poll runs the futures of *)
(* the task in order, each until it cannot go on.  The mutex keeps a flag  *)
(* and ONE waker: a task that registers displaces the one before it and    *)
(* wakes it, so that it can come back.  A release wakes the registered     *)
(* task; whoever is polled while the flag is clear takes the bus.          *)
(* Interrupts come at any time, in the middle of a poll too.               *)
(***************************************************************************)
EXTENDS Integers, Sequences

CONSTANTS
  Tasks,      \* the tasks that hold a reference to the bus
  Clients,    \* the futures that lock it
  TaskOf,     \* the task a client is polled by
  Futures,    \* the clients of a task, in the order of polling
  Eager,      \* clients whose first await is the bus: the sink, the charger
  Looping,    \* clients that want the bus again as soon as they release it
  MaxHold     \* transfers under one guard: three in send, one elsewhere

ASSUME BusAssumption ==
  /\ TaskOf \in [Clients -> Tasks]
  /\ Futures \in [Tasks -> Seq(Clients)]
  /\ \A c \in Clients :
       \E j \in 1..Len(Futures[TaskOf[c]]) : Futures[TaskOf[c]][j] = c
  /\ \A t \in Tasks : \A j \in 1..Len(Futures[t]) : TaskOf[Futures[t][j]] = t
  /\ Eager \subseteq Clients /\ Looping \subseteq Eager
  /\ MaxHold \in Nat \ {0}
  /\ "none" \notin Tasks \cup Clients

VARIABLES
  run,      \* the task being polled, or "none"
  next,     \* which of its futures is polled
  woken,    \* the tasks in the run queue
  locked,   \* the client that holds the guard, or "none"
  waker,    \* the task in the mutex's waker registration, or "none"
  pos,      \* where each client is suspended
  hold      \* transfers left under the guard, the current one included

vars == <<run, next, woken, locked, waker, pos, hold>>

Lock == INSTANCE BusLock WITH Users <- Clients, holder <- locked

Positions == {"idle", "want", "xfer", "done"}

TypeOK ==
  /\ run \in Tasks \cup {"none"} /\ next \in Nat \ {0}
  /\ woken \subseteq Tasks
  /\ locked \in Clients \cup {"none"}
  /\ waker \in Tasks \cup {"none"}
  /\ pos \in [Clients -> Positions]
  /\ hold \in [Clients -> 0..MaxHold]

\* A task that was spawned is in the run queue.
Init ==
  /\ run = "none" /\ next = 1 /\ woken = Tasks
  /\ locked = "none" /\ waker = "none"
  /\ pos = [c \in Clients |-> IF c \in Eager THEN "want" ELSE "idle"]
  /\ hold = [c \in Clients |-> 0]

----------------------------------------------------------------------------
(* One poll of a task.                                                     *)

StartPoll(t) ==
  /\ run = "none" /\ t \in woken
  /\ run' = t /\ next' = 1 /\ woken' = woken \ {t}
  /\ UNCHANGED <<locked, waker, pos, hold>>

EndPoll ==
  /\ run # "none" /\ next > Len(Futures[run])
  /\ run' = "none" /\ next' = 1
  /\ UNCHANGED <<woken, locked, waker, pos, hold>>

Polled(c) ==
  /\ run # "none" /\ next <= Len(Futures[run])
  /\ c = Futures[run][next]

\* The event the client waits for has not come.
StillPending(c) ==
  /\ Polled(c) /\ pos[c] \in {"idle", "xfer"}
  /\ next' = next + 1
  /\ UNCHANGED <<run, woken, locked, waker, pos, hold>>

\* Mutant: one transfer too many.
AcquireLonger(c) ==
  /\ Polled(c) /\ pos[c] = "want" /\ locked = "none"
  /\ locked' = c
  /\ pos' = [pos EXCEPT ![c] = "xfer"]
  /\ hold' = [hold EXCEPT ![c] = MaxHold + 1]
  /\ next' = next + 1
  /\ UNCHANGED <<run, woken, waker>>

\* Mutant: a client that was waiting takes the bus when it is polled, without
\* a look at the flag.
AcquireUnchecked(c) ==
  /\ Polled(c) /\ pos[c] = "want" /\ (locked = "none" \/ waker = run)
  /\ locked' = c
  /\ pos' = [pos EXCEPT ![c] = "xfer"]
  /\ \E n \in 1..MaxHold : hold' = [hold EXCEPT ![c] = n]
  /\ next' = next + 1
  /\ UNCHANGED <<run, woken, waker>>

\* Mutex::lock finds the flag clear; the transfer is started.
Acquire(c) ==
  /\ Polled(c) /\ pos[c] = "want" /\ locked = "none"
  /\ locked' = c
  /\ pos' = [pos EXCEPT ![c] = "xfer"]
  /\ \E n \in 1..MaxHold : hold' = [hold EXCEPT ![c] = n]
  /\ next' = next + 1
  /\ UNCHANGED <<run, woken, waker>>

\* Mutant: the displaced waker is dropped.
RegisterSilently(c) ==
  /\ Polled(c) /\ pos[c] = "want" /\ locked # "none"
  /\ waker' = run
  /\ next' = next + 1
  /\ UNCHANGED <<run, woken, locked, pos, hold>>

\* Mutex::lock finds the flag set.
Register(c) ==
  /\ Polled(c) /\ pos[c] = "want" /\ locked # "none"
  /\ waker' = run
  /\ woken' = IF waker \in {"none", run} THEN woken ELSE woken \cup {waker}
  /\ next' = next + 1
  /\ UNCHANGED <<run, locked, pos, hold>>

\* Mutant: each write takes the lock for itself.
ContinueUnlocked(c) ==
  /\ Polled(c) /\ pos[c] = "done" /\ hold[c] > 1
  /\ pos' = [pos EXCEPT ![c] = "want"]
  /\ hold' = [hold EXCEPT ![c] = @ - 1]
  /\ locked' = "none" /\ waker' = "none"
  /\ woken' = IF waker = "none" THEN woken ELSE woken \cup {waker}
  /\ UNCHANGED <<run, next>>

\* The next write under the same guard.
Continue(c) ==
  /\ Polled(c) /\ pos[c] = "done" /\ hold[c] > 1
  /\ pos' = [pos EXCEPT ![c] = "xfer"]
  /\ hold' = [hold EXCEPT ![c] = @ - 1]
  /\ next' = next + 1
  /\ UNCHANGED <<run, woken, locked, waker>>

\* Mutant: the guard is dropped without a wake.
ReleaseSilently(c) ==
  /\ Polled(c) /\ pos[c] = "done"
  /\ locked' = "none" /\ waker' = "none"
  /\ hold' = [hold EXCEPT ![c] = 0]
  /\ \E p \in (IF c \in Looping THEN {"want"} ELSE {"want", "idle"}) :
       pos' = [pos EXCEPT ![c] = p]
  /\ UNCHANGED <<run, next, woken>>

\* Mutant: a looping client pauses between two uses of the bus.
ReleaseAndPause(c) ==
  /\ Polled(c) /\ pos[c] = "done"
  /\ locked' = "none" /\ waker' = "none"
  /\ woken' = IF waker = "none" THEN woken ELSE woken \cup {waker}
  /\ hold' = [hold EXCEPT ![c] = 0]
  /\ \E p \in {"want", "idle"} : pos' = [pos EXCEPT ![c] = p]
  /\ UNCHANGED <<run, next>>

\* The guard is dropped: after the last transfer, or after any that failed.
\* The client goes on in the same poll, to the lock again or to another await.
Release(c) ==
  /\ Polled(c) /\ pos[c] = "done"
  /\ locked' = "none" /\ waker' = "none"
  /\ woken' = IF waker = "none" THEN woken ELSE woken \cup {waker}
  /\ hold' = [hold EXCEPT ![c] = 0]
  /\ \E p \in (IF c \in Looping THEN {"want"} ELSE {"want", "idle"}) :
       pos' = [pos EXCEPT ![c] = p]
  /\ UNCHANGED <<run, next>>

PollFuture(c) ==
  StillPending(c) \/ Acquire(c) \/ Register(c) \/ Continue(c) \/ Release(c)

----------------------------------------------------------------------------
(* Interrupts.                                                             *)

\* The transfer is over and its interrupt wakes the task.
TransferDone(c) ==
  /\ pos[c] = "xfer"
  /\ pos' = [pos EXCEPT ![c] = "done"]
  /\ woken' = woken \cup {TaskOf[c]}
  /\ UNCHANGED <<run, next, locked, waker, hold>>

\* What an idle client waits for happens: the interrupt pin, a timer, or a
\* request on a socket.
Event(c) ==
  /\ pos[c] = "idle"
  /\ pos' = [pos EXCEPT ![c] = "want"]
  /\ woken' = woken \cup {TaskOf[c]}
  /\ UNCHANGED <<run, next, locked, waker, hold>>

Executor == (\E t \in Tasks : StartPoll(t)) \/ EndPoll
            \/ (\E c \in Clients : PollFuture(c))

Next == Executor \/ \E c \in Clients : TransferDone(c) \/ Event(c)

Spec == Init /\ [][Next]_vars

\* The executor polls every task that was woken and ends each poll; the bus
\* ends every transfer.
FairSpec ==
  /\ Spec
  /\ \A t \in Tasks : WF_vars(StartPoll(t))
  /\ WF_vars(EndPoll \/ \E c \in Clients : PollFuture(c))
  /\ \A c \in Clients : WF_vars(TransferDone(c))

----------------------------------------------------------------------------
\* The future of client c is still to be polled in the poll that runs.
ToBePolled(c) ==
  /\ run = TaskOf[c]
  /\ \E j \in next..Len(Futures[run]) : Futures[run][j] = c

\* Only the holder of the guard has a transfer on the bus: the three writes of
\* send are not interleaved with a transfer of another client.
GuardHeld ==
  \A c \in Clients :
    (pos[c] \in {"xfer", "done"} \/ hold[c] > 0) <=> locked = c

\* What the clients see of the mutex, its waker and the executor is the lock of
\* BusLock: a guard is given when there is none, and given back by its holder.
ImplementsLock == Lock!Spec

\* No client waits for the bus forgotten by everyone: its task is going to be
\* polled, or it is the one in the single waker slot of the mutex and the bus
\* is held by a client whose release wakes it.
WaiterKnown ==
  \A c \in Clients :
    pos[c] = "want" =>
      \/ TaskOf[c] \in woken \/ ToBePolled(c)
      \/ waker = TaskOf[c] /\ locked # "none"

\* A bus that is free does not stay free while a client wants it.
BusNotIdle ==
  locked = "none" /\ (\E c \in Clients : pos[c] = "want") ~> locked # "none"

\* c holds the bus, or has released it and is about to lock it again before
\* anyone else is polled.
Keeps(c) ==
  \/ locked = c
  \/ /\ locked = "none" /\ pos[c] = "want"
     /\ run = TaskOf[c] /\ next <= Len(Futures[run]) /\ Futures[run][next] = c

\* A client that awaits nothing but the bus never lets go of it once it has
\* it: what handle_bq does to every other client.
LoopingKeepsBus ==
  [][\A c \in Looping : Keeps(c) => Keeps(c)']_vars
=============================================================================
