----------------------------- MODULE AtomicQueue -----------------------------
(***************************************************************************)
(* What queue_simple.h promises the callers of queue_try_enqueue and       *)
(* queue_try_dequeue: the queue of FifoQueue, and an answer that is right  *)
(* at the instant the queue gives it.  A call is answered once: its entry  *)
(* is in, or the queue was full; it has the oldest entry, or the queue was *)
(* empty.                                                                  *)
(***************************************************************************)
EXTENDS FifoQueue

VARIABLE talk   \* caller -> its last call, the entry it offers and what it was answered

atomicVars == <<fifoVars, talk>>

Asked(f, e) == [fn |-> f, offers |-> e, answer |-> "none"]

AtomicInit == FifoInit /\ talk = [t \in Callers |-> Asked("none", None)]

\* A caller that is not waiting for an answer makes a call, or turns to something else.
Asks(t) ==
  /\ talk[t].fn = "none" \/ talk[t].answer # "none"
  /\ UNCHANGED fifoVars
  /\ \/ \E f \in {"none", "dequeue"} : talk' = [talk EXCEPT ![t] = Asked(f, None)]
     \/ \E e \in Entries : talk' = [talk EXCEPT ![t] = Asked("enqueue", e)]

Answers(t, f, a) ==
  /\ talk[t].fn = f /\ talk[t].answer = "none"
  /\ talk' = [talk EXCEPT ![t] = [fn |-> f, offers |-> None, answer |-> a]]

Enqueued(t) == Answers(t, "enqueue", "put") /\ Put(talk[t].offers)
Dequeued(t) == Answers(t, "dequeue", "taken") /\ Take(t)
FullNow(t) == Answers(t, "enqueue", "full") /\ Len(items) = Capacity /\ UNCHANGED fifoVars
EmptyNow(t) == Answers(t, "dequeue", "empty") /\ items = <<>> /\ UNCHANGED fifoVars

AtomicNext ==
  \E t \in Callers : Asks(t) \/ Enqueued(t) \/ Dequeued(t) \/ FullNow(t) \/ EmptyNow(t)

AtomicSpec == AtomicInit /\ [][AtomicNext]_atomicVars
=============================================================================
