------------------------------ MODULE WorkQueue ------------------------------
(***************************************************************************)
(* The queue test of riscv-tests/common/workqueue/workqueue.h over the     *)
(* ring of queue_ck.h and the barrier of torture_util.h.  Threads 0 to     *)
(* PRODUCERS - 1 each add 1 to items of the work area and enqueue the job  *)
(* of adding CHUNK to the same item; the others do the jobs.  At the end   *)
(* thread 0 checks every item.  The test is run RUNS times on the same     *)
(* barrier and the same ring.  An entry is the index of a work item.       *)
(***************************************************************************)
EXTENDS CkRing, ThreadBarrier, Functions

CONSTANTS PRODUCERS, ITERATIONS, RUNS,
          CHUNK                        \* 100000 in the code

WorkItems == Words

ASSUME WorkQueueAssumption ==
  /\ Threads = 0 .. nthreads - 1 /\ Procs = Threads
  /\ PRODUCERS \in 1 .. nthreads - 1
  /\ ITERATIONS \in Nat /\ RUNS \in Nat /\ CHUNK > PRODUCERS * ITERATIONS * RUNS

VARIABLES wq_at,           \* thread -> where it is in workqueue_test
          wq_i,            \* thread -> iterations done
          wq_run,          \* thread -> runs done
          wq_p,            \* thread -> the item it works on
          work_area,
          producers_done

wqOwn == <<wq_at, wq_i, wq_run, wq_p, work_area, producers_done>>
wqVars == <<ckVars, tbVars, wqOwn>>

wqInit ==
  /\ ckInit /\ thread_barrier_init
  /\ wq_at = [t \in Threads |-> "barrier1"]
  /\ wq_i = [t \in Threads |-> 0] /\ wq_run = [t \in Threads |-> 0]
  /\ wq_p = [t \in Threads |-> NoWord]
  /\ work_area = [d \in WorkItems |-> 0]
  /\ producers_done = 0

Go(t, pc) == wq_at' = [wq_at EXCEPT ![t] = pc]

IsProducer(t) == t < PRODUCERS

\* Where a thread goes from each barrier.
Past(t, b) ==
  CASE b = "barrier1" -> "barrier2"
    [] b = "barrier2" -> IF t = 0 THEN "reset_done" ELSE "barrier3"
    [] b = "barrier3" -> IF IsProducer(t) THEN "produce" ELSE "more"
    [] b = "barrier4" -> IF t = 0 THEN "check" ELSE "return"

\* The four thread_barrier_wait calls.
Barriers(t) ==
  /\ wq_at[t] \in {"barrier1", "barrier2", "barrier3", "barrier4"}
  /\ thread_barrier_wait(t)
  /\ wq_at' = [wq_at EXCEPT ![t] = IF bar_at'[t] = "out" THEN Past(t, @) ELSE @]
  /\ UNCHANGED <<ckVars, wq_i, wq_run, wq_p, work_area, producers_done>>

\* Thread 0 resets the counters, the work area and the ring, in this order.
Reset(t) ==
  /\ \/ /\ wq_at[t] = "reset_done" /\ Go(t, "reset_area")
        /\ producers_done' = 0 /\ UNCHANGED <<work_area, ring>>
     \/ /\ wq_at[t] = "reset_area" /\ Go(t, "queue_init")
        /\ work_area' = [d \in WorkItems |-> 0] /\ UNCHANGED <<producers_done, ring>>
     \/ /\ wq_at[t] = "queue_init" /\ Go(t, "barrier3")
        /\ ring' = [ck_ring_init(0) EXCEPT !.buffer = ring.buffer]
        /\ UNCHANGED <<producers_done, work_area>>
  /\ wq_i' = [wq_i EXCEPT ![t] = 0]
  /\ UNCHANGED <<call, tbVars, wq_run, wq_p>>

\* AMOADD(*p, 1) on some item, then the job is enqueued, again and again while it is full.
Produce(t) ==
  \/ /\ wq_at[t] = "produce" /\ wq_i[t] < ITERATIONS
     /\ \E d \in WorkItems : /\ work_area' = [work_area EXCEPT ![d] = @ + 1]
                             /\ wq_p' = [wq_p EXCEPT ![t] = d]
     /\ Go(t, "enqueue")
     /\ UNCHANGED <<ckVars, tbVars, wq_i, wq_run, producers_done>>
  \/ /\ wq_at[t] = "enqueue"
     /\ ckCall(t, "enqueue_mp", wq_p[t])
     /\ Go(t, "enqueued")
     /\ UNCHANGED <<tbVars, wq_i, wq_run, wq_p, work_area, producers_done>>
  \/ /\ wq_at[t] = "enqueued" /\ Idle(t)
     /\ Go(t, IF call[t].ret = 1 THEN "produce" ELSE "enqueue")
     /\ wq_i' = [wq_i EXCEPT ![t] = @ + call[t].ret]
     /\ UNCHANGED <<ckVars, tbVars, wq_run, wq_p, work_area, producers_done>>

\* A producer that is done says so and waits until the ring looks empty.
Drain(t) ==
  \/ /\ wq_at[t] = "produce" /\ wq_i[t] = ITERATIONS
     /\ producers_done' = producers_done + 1
     /\ Go(t, "drain")
     /\ UNCHANGED <<ckVars, tbVars, wq_i, wq_run, wq_p, work_area>>
  \/ /\ wq_at[t] = "drain"
     /\ ckCall(t, "ck_ring_size", NoWord)
     /\ Go(t, "draining")
     /\ UNCHANGED <<tbVars, wq_i, wq_run, wq_p, work_area, producers_done>>
  \/ /\ wq_at[t] = "draining" /\ Idle(t)
     /\ Go(t, IF call[t].ret = 0 THEN "barrier4" ELSE "drain")
     /\ UNCHANGED <<ckVars, tbVars, wq_i, wq_run, wq_p, work_area, producers_done>>

\* Mutant: the ring is looked at before producers_done.
MoreWork_SizeFirst(t) ==
  \/ /\ wq_at[t] = "more"
     /\ ckCall(t, "ck_ring_size", NoWord)
     /\ Go(t, "isempty")
     /\ UNCHANGED <<tbVars, wq_i, wq_run, wq_p, work_area, producers_done>>
  \/ /\ wq_at[t] = "isempty" /\ Idle(t)
     /\ Go(t, IF call[t].ret = 0 /\ producers_done = PRODUCERS THEN "barrier4" ELSE "try")
     /\ UNCHANGED <<ckVars, tbVars, wq_i, wq_run, wq_p, work_area, producers_done>>

\* (producers_done < PRODUCERS) || !queue_isempty(&queue), from left to right.
MoreWork(t) ==
  \/ /\ wq_at[t] = "more" /\ producers_done < PRODUCERS
     /\ Go(t, "try")
     /\ UNCHANGED <<ckVars, tbVars, wq_i, wq_run, wq_p, work_area, producers_done>>
  \/ /\ wq_at[t] = "more" /\ producers_done >= PRODUCERS
     /\ ckCall(t, "ck_ring_size", NoWord)
     /\ Go(t, "isempty")
     /\ UNCHANGED <<tbVars, wq_i, wq_run, wq_p, work_area, producers_done>>
  \/ /\ wq_at[t] = "isempty" /\ Idle(t)
     /\ Go(t, IF call[t].ret = 0 THEN "barrier4" ELSE "try")
     /\ UNCHANGED <<ckVars, tbVars, wq_i, wq_run, wq_p, work_area, producers_done>>

\* A consumer tries to dequeue a job and does it: AMOADD(*p, 100000).
Consume(t) ==
  \/ /\ wq_at[t] = "try"
     /\ ckCall(t, "trydequeue_mc", NoWord)
     /\ Go(t, "tried")
     /\ UNCHANGED <<tbVars, wq_i, wq_run, wq_p, work_area, producers_done>>
  \/ /\ wq_at[t] = "tried" /\ Idle(t)
     /\ IF call[t].ret = 1
        THEN work_area' = [work_area EXCEPT ![call[t].taken] = @ + CHUNK]
        ELSE UNCHANGED work_area
     /\ Go(t, "more")
     /\ UNCHANGED <<ckVars, tbVars, wq_i, wq_run, wq_p, producers_done>>

ItemsOK ==
  /\ \A d \in WorkItems : work_area[d] % (CHUNK + 1) = 0
  /\ FoldFunction(LAMBDA x, y : x + y, 0, work_area) = (CHUNK + 1) * PRODUCERS * ITERATIONS

\* The check of thread 0, which aborts the program; the others just leave.
Check(t) ==
  \/ /\ wq_at[t] = "check"
     /\ Go(t, IF ItemsOK THEN "return" ELSE "abort")
     /\ UNCHANGED <<ckVars, tbVars, wq_i, wq_run, wq_p, work_area, producers_done>>
  \/ /\ wq_at[t] = "return"
     /\ wq_run' = [wq_run EXCEPT ![t] = @ + 1]
     /\ wq_i' = [wq_i EXCEPT ![t] = 0]
     /\ Go(t, IF wq_run[t] + 1 = RUNS THEN "done" ELSE "barrier1")
     /\ UNCHANGED <<ckVars, tbVars, wq_p, work_area, producers_done>>

\* A step of a thread inside a call of the ring.
InRing(t) == ckStep(t) /\ UNCHANGED <<tbVars, wqOwn>>

workqueue_test(t) ==
  \/ Barriers(t) \/ Reset(t) \/ Produce(t) \/ Drain(t) \/ MoreWork(t) \/ Consume(t)
  \/ Check(t) \/ InRing(t)

wqDone == \A t \in Threads : wq_at[t] = "done"

wqNext == \E t \in Threads : workqueue_test(t)

-----------------------------------------------------------------------------
(* Properties *)

\* The test never fails on a correct memory: every job that a producer has enqueued is
\* done exactly once before the barrier lets thread 0 check, in every run.
TestPasses == \A t \in Threads : wq_at[t] # "abort"

\* Nobody touches the ring or the work area while thread 0 resets them or checks them.
ResetAlone ==
  \A t, u \in Threads :
     wq_at[t] \in {"reset_done", "reset_area", "queue_init", "check"} /\ u # t =>
       wq_at[u] \in {"barrier1", "barrier2", "barrier3", "barrier4", "return", "done"}

\* A test that has begun comes to its end: no thread waits for ever at a barrier, in front
\* of a full or an empty ring, or for a producer that is done.
WorkEnds == []<>(wqInit \/ wqDone)

\* The test passes and ends, on a ring and a barrier that are used again and again.
WorkCorrect == [](TestPasses /\ ResetAlone) /\ WorkEnds
=============================================================================
