------------------------------- MODULE BusLock -------------------------------
(***************************************************************************)
(* What the mutex around the I2C bus promises to those who lock it         *)
(* (src/main.rs:126): one guard at a time.  I2cBus, with its waker, its    *)
(* executor and its transfers, implements it; WebServer locks through it.  *)
(***************************************************************************)
CONSTANT Users      \* the futures that lock the bus

VARIABLE holder     \* the one that has the guard, or "none"

Init == holder = "none"

Lock(u) == holder = "none" /\ holder' = u

Unlock(u) == holder = u /\ holder' = "none"

Next == \E u \in Users : Lock(u) \/ Unlock(u)

Spec == Init /\ [][Next]_holder
=============================================================================
