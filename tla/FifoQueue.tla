------------------------------ MODULE FifoQueue ------------------------------
(***************************************************************************)
(* What ck_ring.h promises its callers: a first-in first-out queue of at   *)
(* most Capacity entries.  An entry comes in at one instant; it goes out   *)
(* at one instant, to one caller, and is then the oldest.                  *)
(***************************************************************************)
EXTENDS Naturals, Sequences

CONSTANTS Callers,   \* the threads that use the queue
          Entries,   \* what they put into it
          Capacity,  \* how many entries fit
          None       \* what a caller holds before its first dequeue

VARIABLES items,     \* the entries in the queue, oldest first
          taken      \* what each caller took out last

fifoVars == <<items, taken>>

FifoInit == items = <<>> /\ taken = [t \in Callers |-> None]

Put(e) ==
  /\ Len(items) < Capacity
  /\ items' = Append(items, e)
  /\ UNCHANGED taken

Take(t) ==
  /\ items # <<>>
  /\ taken' = [taken EXCEPT ![t] = Head(items)]
  /\ items' = Tail(items)

FifoNext == (\E e \in Entries : Put(e)) \/ (\E t \in Callers : Take(t))

FifoSpec == FifoInit /\ [][FifoNext]_fifoVars
=============================================================================
