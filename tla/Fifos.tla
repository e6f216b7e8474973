------------------------------- MODULE Fifos -------------------------------
(***************************************************************************)
(* What ListBuffer promises: a number of first-in first-out queues that    *)
(* share one store of a fixed number of entries.  In one clock cycle one   *)
(* element can be pushed and one popped, of the same queue or of two.      *)
(***************************************************************************)
EXTENDS Naturals, Sequences

CONSTANTS Queues, Data, Capacity

VARIABLES
  fifo,   \* queue -> its elements, oldest first
  count   \* the elements in all queues

vars == <<fifo, count>>

Init ==
  /\ fifo = [q \in Queues |-> <<>>]
  /\ count = 0

Push(q, d) ==
  /\ count < Capacity
  /\ count' = count + 1
  /\ fifo' = [fifo EXCEPT ![q] = Append(@, d)]

Pop(p) ==
  /\ fifo[p] # <<>>
  /\ fifo' = [fifo EXCEPT ![p] = Tail(@)]
  /\ count' = count - 1

\* A push and a pop in the same cycle: the push may not use the room the pop makes.
PushPop(q, d, p) ==
  /\ fifo[p] # <<>>
  /\ count < Capacity
  /\ fifo' = IF p = q THEN [fifo EXCEPT ![p] = Append(Tail(@), d)]
             ELSE [fifo EXCEPT ![p] = Tail(@), ![q] = Append(@, d)]
  /\ count' = count

Next ==
  \/ \E q \in Queues, d \in Data : Push(q, d)
  \/ \E p \in Queues : Pop(p)
  \/ \E q, p \in Queues, d \in Data : PushPop(q, d, p)

Spec == Init /\ [][Next]_vars
=============================================================================
