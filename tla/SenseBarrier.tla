----------------------------- MODULE SenseBarrier -----------------------------
(***************************************************************************)
(* barrier(ncores) of riscv-tests/common/util.h, which the multi-threaded  *)
(* programs under riscv-tests/mt and benchmarks/mt-* use: a sense-reversing*)
(* barrier without a generation number.  One step per access to the shared *)
(* words sense and count.                                                  *)
(***************************************************************************)
EXTENDS Naturals, FiniteSets

CONSTANT Team                   \* the threads; ncores is their number

ASSUME TeamAssumption == IsFiniteSet(Team) /\ Team # {}

VARIABLES
  sense, count,                 \* shared
  threadsense,                  \* of each thread
  sb_at,                        \* its place: "out", "add", "spin", "reset", "flip"
  sb_arrived, sb_left           \* ghosts: the calls it has begun and come back from

sbVars == <<sense, count, threadsense, sb_at, sb_arrived, sb_left>>

ncores == Cardinality(Team)

sbInit ==
  /\ sense = 0 /\ count = 0
  /\ threadsense = [t \in Team |-> 0]
  /\ sb_at = [t \in Team |-> "out"]
  /\ sb_arrived = [t \in Team |-> 0] /\ sb_left = [t \in Team |-> 0]

sbGoto(t, place) == sb_at' = [sb_at EXCEPT ![t] = place]

\* threadsense = !threadsense;
ReverseSense(t) ==
  /\ sb_at[t] = "out"
  /\ threadsense' = [threadsense EXCEPT ![t] = 1 - @]
  /\ sb_arrived' = [sb_arrived EXCEPT ![t] = @ + 1]
  /\ sbGoto(t, "add")
  /\ UNCHANGED <<sense, count, sb_left>>

\* if (__sync_fetch_and_add(&count, 1) == ncores-1)
sbAdd(t) ==
  /\ sb_at[t] = "add"
  /\ count' = count + 1
  /\ sbGoto(t, IF count = ncores - 1 THEN "reset" ELSE "spin")
  /\ UNCHANGED <<sense, threadsense, sb_arrived, sb_left>>

\* count = 0; sense = threadsense;
sbReset(t) ==
  \/ /\ sb_at[t] = "reset"
     /\ count' = 0
     /\ sbGoto(t, "flip")
     /\ UNCHANGED <<sense, threadsense, sb_arrived, sb_left>>
  \/ /\ sb_at[t] = "flip"
     /\ sense' = threadsense[t]
     /\ sb_left' = [sb_left EXCEPT ![t] = @ + 1]
     /\ sbGoto(t, "out")
     /\ UNCHANGED <<count, threadsense, sb_arrived>>

\* Mutant: the thread compares with the sense of the last round.
sbSpin_Stale(t) ==
  /\ sb_at[t] = "spin"
  /\ sense # threadsense[t]
  /\ sb_left' = [sb_left EXCEPT ![t] = @ + 1]
  /\ sbGoto(t, "out")
  /\ UNCHANGED <<sense, count, threadsense, sb_arrived>>

\* else while(sense != threadsense);
sbSpin(t) ==
  /\ sb_at[t] = "spin"
  /\ sense = threadsense[t]
  /\ sb_left' = [sb_left EXCEPT ![t] = @ + 1]
  /\ sbGoto(t, "out")
  /\ UNCHANGED <<sense, count, threadsense, sb_arrived>>

barrier(t) == ReverseSense(t) \/ sbAdd(t) \/ sbReset(t) \/ sbSpin(t)

sbNext == \E t \in Team : barrier(t)
sbSpec == sbInit /\ [][sbNext]_sbVars
-----------------------------------------------------------------------------
sbPlaces == {"out", "add", "spin", "reset", "flip"}

sbTypeOK ==
  /\ sense \in {0, 1} /\ count \in Nat
  /\ threadsense \in [Team -> {0, 1}]
  /\ sb_at \in [Team -> sbPlaces]
  /\ sb_arrived \in [Team -> Nat] /\ sb_left \in [Team -> Nat]

\* barrier implements the barrier: one bit of sense is enough to tell the rounds apart.
SB == INSTANCE Barrier WITH Threads <- Team, arrived <- sb_arrived, left <- sb_left
sbRefines == SB!BarrierSpec

-----------------------------------------------------------------------------
(* The inductive invariant.  Every thread is in the round that is going on,*)
(* or has been released from the one before and has not left the spin.     *)

\* The threads counted in the round that is going on.
sbCounted == {t \in Team : sb_at[t] = "spin" /\ threadsense[t] # sense}
Closing == {"reset", "flip"}

\* Two threads as far as they can be apart: the number of calls they have left differs by
\* at most one, and then one of them is released and still at its spin.
Behind(t) == sb_at[t] = "spin" /\ threadsense[t] = sense

\* Calls a thread has come back from, or may come back from.
Rounds(t) == IF Behind(t) THEN sb_left[t] + 1 ELSE sb_left[t]

sbPlaced(t) ==
  /\ sb_at[t] = "out" => threadsense[t] = sense /\ sb_arrived[t] = sb_left[t]
  /\ sb_at[t] # "out" => sb_arrived[t] = sb_left[t] + 1
  /\ sb_at[t] \in {"add", "reset", "flip"} => threadsense[t] # sense

sbInv ==
  /\ sbTypeOK
  /\ \A t \in Team : sbPlaced(t)
  /\ \A t, u \in Team : Rounds(t) = Rounds(u)
  /\ \A t \in Team : sb_at[t] \in Closing => sbCounted = Team \ {t}
  /\ \A t \in Team : sb_at[t] = "flip" => count = 0
  /\ (\A t \in Team : sb_at[t] \notin Closing) => count = Cardinality(sbCounted)
=============================================================================
