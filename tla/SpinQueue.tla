------------------------------ MODULE SpinQueue ------------------------------
(***************************************************************************)
(* The queue of riscv-tests/common/workqueue/queue_simple.h: a ring of     *)
(* QUEUE_SIZE entries under one spinlock, which a thread takes with the    *)
(* atomic instruction the build selects (sq_kind): it is free at INITVAL,  *)
(* and an attempt applies the instruction to it whether it succeeds or     *)
(* not.  head and tail are indexes of data.                                *)
(***************************************************************************)
EXTENDS Integers, Sequences

CONSTANTS Users,        \* the threads
          Jobs,         \* what can be enqueued
          NoJob,        \* what a slot holds before it is written
          QUEUE_SIZE,   \* 8 in the code
          LRSC_TRIES    \* attempts of lrsc_swap before it aborts, 769 in the code

ASSUME SpinAssumption == QUEUE_SIZE \in Nat /\ QUEUE_SIZE > 1 /\ LRSC_TRIES \in Nat \ {0}

VARIABLES sq_kind,      \* the instruction the build has selected
          sq_lock, sq_head, sq_tail, sq_data,
          sq_call,      \* thread -> function, step, locals and result of its call
          sq_resv       \* the threads that hold a reservation on the lock

sqVars == <<sq_kind, sq_lock, sq_head, sq_tail, sq_data, sq_call, sq_resv>>

AmoKinds == {"amomax", "amomin", "amoand", "amoor", "amoadd", "amoswap"}
Kinds == AmoKinds \cup {"lrsc_swap"}

INITVAL(k) ==
  CASE k \in {"amomin", "amoand"} -> 1
    [] k = "amoadd" -> 2
    [] OTHER -> 0

LOCKVAL(k) ==
  CASE k \in {"amomin", "amoand"} -> 0
    [] k = "amoadd" -> 3
    [] k = "amoswap" -> 678
    [] OTHER -> 1

\* What the instruction leaves in a lock that holds v.  On the values a lock can hold
\* the unsigned forms do as the signed ones, and AND and OR as minimum and maximum.
LockAmo(k, v) ==
  LET op == LOCKVAL(k) IN
  CASE k \in {"amomax", "amoor"} -> IF v > op THEN v ELSE op
    [] k \in {"amomin", "amoand"} -> IF v < op THEN v ELSE op
    [] k = "amoadd" -> v + op
    [] OTHER -> op

\* The call of function f at step pc with entry w; result r; k was dequeued last.
Frame(f, pc, w, r, k) ==
  [fn |-> f, at |-> pc, word |-> w, old |-> 0, tries |-> 0, ret |-> r, taken |-> k]

NoOp == Frame("none", "idle", NoJob, 0, NoJob)

\* queue_init
sqInit(k) ==
  /\ sq_kind = k
  /\ sq_lock = INITVAL(k)
  /\ sq_head = 0 /\ sq_tail = 0
  /\ sq_data = [i \in 0 .. QUEUE_SIZE - 1 |-> NoJob]
  /\ sq_call = [t \in Users |-> NoOp]
  /\ sq_resv = {}

sqIdle(t) == sq_call[t].at = "idle"

\* queue_try_enqueue, queue_try_dequeue and queue_isempty begin.
sqCall(t, f, w) ==
  /\ sqIdle(t)
  /\ sq_call' = [sq_call EXCEPT ![t] =
       Frame(f, IF f = "queue_isempty" THEN "read_head" ELSE "lock", w, 0, sq_call[t].taken)]
  /\ UNCHANGED <<sq_kind, sq_lock, sq_head, sq_tail, sq_data, sq_resv>>

sqGoto(t, pc) == sq_call' = [sq_call EXCEPT ![t].at = pc]

-----------------------------------------------------------------------------
(* The lock *)

\* Mutant: the plain load and store of SPINLOCK_SWAP, the version the header calls broken.
TryWait_Swap(t) ==
  /\ sq_kind \in AmoKinds
  /\ \/ /\ sq_call[t].at = "lock"
        /\ sq_call' = [sq_call EXCEPT ![t].at = "store", ![t].old = sq_lock]
        /\ UNCHANGED sq_lock
     \/ /\ sq_call[t].at = "store"
        /\ sq_lock' = LOCKVAL(sq_kind)
        /\ sqGoto(t, IF sq_call[t].old = INITVAL(sq_kind) THEN "enter" ELSE "lock")
  /\ UNCHANGED <<sq_kind, sq_head, sq_tail, sq_data, sq_resv>>

\* One atomic instruction: the lock is ours if it was free before.
TryWait(t) ==
  /\ sq_kind \in AmoKinds
  /\ sq_call[t].at = "lock"
  /\ sq_lock' = LockAmo(sq_kind, sq_lock)
  /\ sqGoto(t, IF sq_lock = INITVAL(sq_kind) THEN "enter" ELSE "lock")
  /\ UNCHANGED <<sq_kind, sq_head, sq_tail, sq_data, sq_resv>>

\* lrsc_swap: the load takes a reservation, which the next store to the lock by anyone
\* takes away; the store succeeds only with it.  After too many failures: abort().
LoadReserved(t) ==
  /\ sq_kind = "lrsc_swap" /\ sq_call[t].at = "lock"
  /\ sq_call' = [sq_call EXCEPT ![t].at = "sc", ![t].old = sq_lock]
  /\ sq_resv' = sq_resv \cup {t}
  /\ UNCHANGED <<sq_kind, sq_lock, sq_head, sq_tail, sq_data>>

StoreConditional(t) ==
  /\ sq_call[t].at = "sc"
  /\ \/ /\ t \in sq_resv
        /\ sq_lock' = LOCKVAL(sq_kind)
        /\ sq_resv' = {}
        /\ sq_call' = [sq_call EXCEPT
             ![t].at = IF sq_call[t].old = INITVAL(sq_kind) THEN "enter" ELSE "lock",
             ![t].tries = 0]
     \/ /\ t \notin sq_resv
        /\ sq_call' = [sq_call EXCEPT
             ![t].at = IF sq_call[t].tries + 1 < LRSC_TRIES THEN "lock" ELSE "abort",
             ![t].tries = @ + 1]
        /\ UNCHANGED <<sq_lock, sq_resv>>
  /\ UNCHANGED <<sq_kind, sq_head, sq_tail, sq_data>>

spinlock_wait(t) == TryWait(t) \/ LoadReserved(t) \/ StoreConditional(t)

\* spinlock_release, and the return of the function with the result it has.
spinlock_release(t) ==
  /\ sq_call[t].at = "release"
  /\ sq_lock' = INITVAL(sq_kind)
  /\ sq_resv' = {}
  /\ sq_call' = [sq_call EXCEPT ![t] =
       Frame(sq_call[t].fn, "idle", NoJob, sq_call[t].ret, sq_call[t].taken)]
  /\ UNCHANGED <<sq_kind, sq_head, sq_tail, sq_data>>

-----------------------------------------------------------------------------
(* The queue *)

\* One slot stays free.
Full(h, t) == (h - t + QUEUE_SIZE + 1) % QUEUE_SIZE = 0

\* if(++p >= queue->data + QUEUE_SIZE) p = queue->data;
Wrap(p) == IF p + 1 >= QUEUE_SIZE THEN 0 ELSE p + 1

queue_try_enqueue(t) ==
  /\ sq_call[t].fn = "queue_try_enqueue"
  /\ \/ /\ sq_call[t].at = "enter"
        /\ sqGoto(t, IF Full(sq_head, sq_tail) THEN "release" ELSE "copy")
        /\ UNCHANGED <<sq_head, sq_data>>
     \/ /\ sq_call[t].at = "copy"
        /\ sq_data' = [sq_data EXCEPT ![sq_head] = sq_call[t].word]
        /\ sqGoto(t, "advance")
        /\ UNCHANGED sq_head
     \/ /\ sq_call[t].at = "advance"
        /\ sq_head' = Wrap(sq_head)
        /\ sq_call' = [sq_call EXCEPT ![t].at = "release", ![t].ret = 1]
        /\ UNCHANGED sq_data
  /\ UNCHANGED <<sq_kind, sq_lock, sq_tail, sq_resv>>

queue_try_dequeue(t) ==
  /\ sq_call[t].fn = "queue_try_dequeue"
  /\ \/ /\ sq_call[t].at = "enter"
        /\ sqGoto(t, IF sq_head = sq_tail THEN "release" ELSE "copy")
        /\ UNCHANGED sq_tail
     \/ /\ sq_call[t].at = "copy"
        /\ sq_call' = [sq_call EXCEPT ![t].at = "advance", ![t].word = sq_data[sq_tail]]
        /\ UNCHANGED sq_tail
     \/ /\ sq_call[t].at = "advance"
        /\ sq_tail' = Wrap(sq_tail)
        /\ sq_call' = [sq_call EXCEPT ![t].at = "release", ![t].ret = 1,
                                      ![t].taken = sq_call[t].word]
  /\ UNCHANGED <<sq_kind, sq_lock, sq_head, sq_data, sq_resv>>

\* Two loads, without the lock.
queue_isempty(t) ==
  /\ \/ /\ sq_call[t].at = "read_head"
        /\ sq_call' = [sq_call EXCEPT ![t].at = "read_tail", ![t].old = sq_head]
     \/ /\ sq_call[t].at = "read_tail"
        /\ sq_call' = [sq_call EXCEPT ![t] =
             Frame("queue_isempty", "idle", NoJob, IF sq_call[t].old = sq_tail THEN 1 ELSE 0,
                   sq_call[t].taken)]
  /\ UNCHANGED <<sq_kind, sq_lock, sq_head, sq_tail, sq_data, sq_resv>>

sqStep(t) ==
  \/ spinlock_wait(t) \/ spinlock_release(t)
  \/ queue_try_enqueue(t) \/ queue_try_dequeue(t) \/ queue_isempty(t)

sqNext ==
  \E t \in Users :
     \/ \E w \in Jobs : sqCall(t, "queue_try_enqueue", w)
     \/ sqCall(t, "queue_try_dequeue", NoJob) \/ sqCall(t, "queue_isempty", NoJob)
     \/ sqStep(t)

sqSpec == (\E k \in Kinds : sqInit(k)) /\ [][sqNext]_sqVars

-----------------------------------------------------------------------------
(* Properties *)

Inside == {"enter", "copy", "advance", "release"}

Calls ==
  [fn : {"none", "queue_try_enqueue", "queue_try_dequeue", "queue_isempty"},
   at : {"idle", "lock", "sc", "abort", "read_head", "read_tail"} \cup Inside,
   word : Jobs \cup {NoJob}, old : Int, tries : Nat, ret : {0, 1}, taken : Jobs \cup {NoJob}]

sqTypeOK ==
  /\ sq_kind \in Kinds /\ sq_lock \in Int
  /\ sq_head \in 0 .. QUEUE_SIZE - 1 /\ sq_tail \in 0 .. QUEUE_SIZE - 1
  /\ sq_data \in [0 .. QUEUE_SIZE - 1 -> Jobs \cup {NoJob}]
  /\ sq_resv \in SUBSET Users
  /\ sq_call \in [Users -> Calls]

\* The spinlock excludes, whichever instruction it is built from: at most one thread is
\* between spinlock_wait and the end of spinlock_release.
LockExcludes == \A t, u \in Users : sq_call[t].at \in Inside /\ sq_call[u].at \in Inside => t = u

\* A call as its caller knows it: what it offers until it is answered, and the answer.
sqTalk(c) ==
  LET fn == CASE c.fn = "queue_try_enqueue" -> "enqueue" [] c.fn = "queue_try_dequeue" -> "dequeue"
              [] OTHER -> "none"
      open == c.at \notin {"release", "idle"}
  IN [fn |-> fn,
      offers |-> IF open /\ fn = "enqueue" THEN c.word ELSE NoJob,
      answer |-> IF open \/ fn = "none" THEN "none"
                 ELSE IF fn = "enqueue" THEN IF c.ret = 1 THEN "put" ELSE "full"
                 ELSE IF c.ret = 1 THEN "taken" ELSE "empty"]

\* The queue under the lock is a first-in first-out queue of QUEUE_SIZE - 1 entries: an
\* enqueue puts its own entry at the end at one instant, a dequeue takes the oldest, and one
\* that returns 0 met a full (an empty) queue.  queue_isempty, which does not take the lock,
\* leaves the queue as it is; nothing is said of its answer.
sqContent ==
  [i \in 1 .. (sq_head - sq_tail + QUEUE_SIZE) % QUEUE_SIZE |->
     sq_data[(sq_tail + i - 1) % QUEUE_SIZE]]
SQ == INSTANCE AtomicQueue WITH Callers <- Users, Entries <- Jobs, Capacity <- QUEUE_SIZE - 1,
        None <- NoJob, items <- sqContent, taken <- [t \in Users |-> sq_call[t].taken],
        talk <- [t \in Users |-> sqTalk(sq_call[t])]
SpinIsQueue == SQ!AtomicSpec

-----------------------------------------------------------------------------
(* The inductive invariant *)

\* The values of a lock that is taken.
Locked(k, v) ==
  CASE k \in {"amomin", "amoand"} -> v = 0
    [] k = "amoadd" -> v > 2
    [] k = "amoswap" -> v = 678
    [] OTHER -> v = 1

\* The lock is not free while a thread is inside.
HeldLocked == \A t \in Users : sq_call[t].at \in Inside => Locked(sq_kind, sq_lock)

\* A thread that still has its reservation has read the value the lock has now.
ResvFresh ==
  /\ \A t \in sq_resv : sq_call[t].at = "sc" /\ sq_call[t].old = sq_lock
  /\ \A t \in Users : sq_call[t].at = "sc" => sq_kind = "lrsc_swap"

sqInv == sqTypeOK /\ LockExcludes /\ HeldLocked /\ ResvFresh

\* What call c has found out about a queue with indexes h and t and slots d: an enqueue that
\* copies has room, a dequeue that copies has an entry, and their copies are in place; the
\* result is 0 until then.
Found(c, h, t, d) ==
  /\ c.fn \in {"queue_try_enqueue", "queue_try_dequeue"} /\ c.at \notin {"release", "idle"} =>
       c.ret = 0
  /\ c.at \in {"read_head", "read_tail"} => c.fn = "queue_isempty"
  /\ c.fn = "queue_try_enqueue" => c.at = "idle" \/ c.word \in Jobs
  /\ c.fn = "queue_try_enqueue" /\ c.at \in {"copy", "advance"} => Wrap(h) # t
  /\ c.fn = "queue_try_enqueue" /\ c.at = "advance" => d[h] = c.word
  /\ c.fn = "queue_try_dequeue" /\ c.at \in {"copy", "advance"} => h # t
  /\ c.fn = "queue_try_dequeue" /\ c.at = "advance" => d[t] = c.word

\* What it has found out still holds when it goes on.
StillTrue == \A t \in Users : Found(sq_call[t], sq_head, sq_tail, sq_data)
=============================================================================
