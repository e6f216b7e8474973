---------------------------- MODULE ThreadBarrier ----------------------------
(***************************************************************************)
(* struct thread_barrier of riscv-tests/common/torture_util.h, one step of *)
(* a thread per access to the structure.  The counters seq and signal are  *)
(* 64 bits wide and do not wrap within a test.                             *)
(*                                                                         *)
(* bar_at[t] is where a thread is in thread_barrier_wait:                  *)
(*   "out"     not in it                                                   *)
(*   "add"     it has loaded seq                                           *)
(*   "spin"    it was not the last and watches signal                      *)
(*   "reset", "seq", "signal"   it was the last and makes the three stores *)
(***************************************************************************)
EXTENDS Naturals, FiniteSets

CONSTANT Threads

ASSUME ThreadsAssumption == IsFiniteSet(Threads) /\ Threads # {}

VARIABLES
  bar_seq, bar_c, bar_signal,   \* the structure; nthreads is the number of threads
  bar_at, bar_t,       \* of each thread: its place and its local variable t
  arrived, left     \* ghosts: the waits it has begun and come back from

tbVars == <<bar_seq, bar_c, bar_signal, bar_at, bar_t, arrived, left>>

nthreads == Cardinality(Threads)

thread_barrier_init ==
  /\ bar_seq = 0 /\ bar_c = 0 /\ bar_signal = 0
  /\ bar_at = [t \in Threads |-> "out"]
  /\ bar_t = [t \in Threads |-> 0]
  /\ arrived = [t \in Threads |-> 0]
  /\ left = [t \in Threads |-> 0]

Goto(t, place) == bar_at' = [bar_at EXCEPT ![t] = place]

\* uint64_t t = b->seq;
LoadSeq(t) ==
  /\ bar_at[t] = "out"
  /\ bar_t' = [bar_t EXCEPT ![t] = bar_seq]
  /\ arrived' = [arrived EXCEPT ![t] = @ + 1]
  /\ Goto(t, "add")
  /\ UNCHANGED <<bar_seq, bar_c, bar_signal, left>>

\* if (__sync_fetch_and_add(&b->c, 1) == b->nthreads-1)
FetchAndAdd(t) ==
  /\ bar_at[t] = "add"
  /\ bar_c' = bar_c + 1
  /\ Goto(t, IF bar_c = nthreads - 1 THEN "reset" ELSE "spin")
  /\ UNCHANGED <<bar_seq, bar_signal, bar_t, arrived, left>>

\* b->c = 0;
ResetCount(t) ==
  /\ bar_at[t] = "reset"
  /\ bar_c' = 0
  /\ Goto(t, "seq")
  /\ UNCHANGED <<bar_seq, bar_signal, bar_t, arrived, left>>

\* Mutant: bar_signal is set before bar_seq.
StoreSeq_Late(t) ==
  /\ bar_at[t] = "seq"
  /\ bar_signal' = bar_t[t] + 1
  /\ Goto(t, "signal")
  /\ UNCHANGED <<bar_seq, bar_c, bar_t, arrived, left>>

\* b->seq = t+1;
StoreSeq(t) ==
  /\ bar_at[t] = "seq"
  /\ bar_seq' = bar_t[t] + 1
  /\ Goto(t, "signal")
  /\ UNCHANGED <<bar_c, bar_signal, bar_t, arrived, left>>

\* b->signal = t+1;
StoreSignal(t) ==
  /\ bar_at[t] = "signal"
  /\ bar_signal' = bar_t[t] + 1
  /\ left' = [left EXCEPT ![t] = @ + 1]
  /\ Goto(t, "out")
  /\ UNCHANGED <<bar_seq, bar_c, bar_t, arrived>>

\* while(b->signal == t);
Spin(t) ==
  /\ bar_at[t] = "spin"
  /\ bar_signal # bar_t[t]
  /\ left' = [left EXCEPT ![t] = @ + 1]
  /\ Goto(t, "out")
  /\ UNCHANGED <<bar_seq, bar_c, bar_signal, bar_t, arrived>>

\* One step of a call of thread_barrier_wait.
thread_barrier_wait(t) ==
  \/ LoadSeq(t) \/ FetchAndAdd(t) \/ ResetCount(t) \/ StoreSeq(t) \/ StoreSignal(t) \/ Spin(t)

tbNext == \E t \in Threads : thread_barrier_wait(t)

tbSpec == thread_barrier_init /\ [][tbNext]_tbVars
-----------------------------------------------------------------------------
tbTypeOK ==
  /\ bar_seq \in Nat /\ bar_c \in Nat /\ bar_signal \in Nat
  /\ bar_at \in [Threads -> {"out", "add", "spin", "reset", "seq", "signal"}]
  /\ bar_t \in [Threads -> Nat]
  /\ arrived \in [Threads -> Nat] /\ left \in [Threads -> Nat]

\* No thread comes back from a wait before every thread has begun that wait,
\* and none is a whole round behind.
BarrierHolds == \A t, u \in Threads : left[t] <= arrived[u]

\* The structure implements the barrier.
B == INSTANCE Barrier
tbRefines == B!BarrierSpec

-----------------------------------------------------------------------------
(* The inductive invariant.                                                *)

\* The threads that have been counted in the round that is going on.
Counted == {t \in Threads : bar_at[t] = "spin" /\ bar_t[t] = bar_signal}
Storing == {"reset", "seq", "signal"}

\* What the place of a thread says of its local variable and of its progress:
\* bar_signal is the number of rounds that are over.
InRound(t) ==
  bar_t[t] = bar_signal /\ left[t] = bar_signal /\ arrived[t] = bar_signal + 1
Released(t) ==
  bar_t[t] + 1 = bar_signal /\ left[t] + 1 = bar_signal /\ arrived[t] = bar_signal
Placed(t) ==
  /\ bar_at[t] = "out" => left[t] = bar_signal /\ arrived[t] = bar_signal
  /\ bar_at[t] \in {"add"} \cup Storing => InRound(t)
  /\ bar_at[t] = "spin" => InRound(t) \/ Released(t)

\* While a thread makes its three stores all the others wait for it.
StoringAlone == \A t \in Threads : bar_at[t] \in Storing => Counted = Threads \ {t}

\* bar_seq runs ahead of bar_signal only between the last two stores.
SeqTracks ==
  /\ \A t \in Threads : bar_at[t] = "signal" => bar_seq = bar_signal + 1
  /\ (\A t \in Threads : bar_at[t] # "signal") => bar_seq = bar_signal

\* bar_c is the number of threads counted until the last one resets it.
CountTracks ==
  /\ \A t \in Threads : bar_at[t] \in {"seq", "signal"} => bar_c = 0
  /\ (\A t \in Threads : bar_at[t] \notin Storing) => bar_c = Cardinality(Counted)

tbInv ==
  /\ tbTypeOK
  /\ \A t \in Threads : Placed(t)
  /\ StoringAlone
  /\ SeqTracks
  /\ CountTracks
=============================================================================
