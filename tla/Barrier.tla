------------------------------- MODULE Barrier -------------------------------
(***************************************************************************)
(* What a barrier promises: a thread leaves its n-th wait only when every  *)
(* thread has arrived at its own n-th wait.  thread_barrier_wait           *)
(* (ThreadBarrier) and barrier (SenseBarrier) implement it.                *)
(***************************************************************************)
EXTENDS Naturals

CONSTANT Threads

VARIABLES
  arrived,      \* how many waits each thread has begun
  left          \* how many waits each thread has come back from

barrierVars == <<arrived, left>>

BarrierInit ==
  /\ arrived = [t \in Threads |-> 0]
  /\ left = [t \in Threads |-> 0]

Arrive(t) ==
  /\ arrived[t] = left[t]
  /\ arrived' = [arrived EXCEPT ![t] = @ + 1]
  /\ left' = left

Leave(t) ==
  /\ arrived[t] = left[t] + 1
  /\ \A u \in Threads : arrived[u] >= arrived[t]
  /\ left' = [left EXCEPT ![t] = @ + 1]
  /\ arrived' = arrived

BarrierNext == \E t \in Threads : Arrive(t) \/ Leave(t)

BarrierSpec == BarrierInit /\ [][BarrierNext]_barrierVars
=============================================================================
