--------------------------- MODULE CountProofs ---------------------------
(***************************************************************************)
(* What counts: the tokens of the dividers and the threads at a barrier,   *)
(* each against the size of a set.                                         *)
(***************************************************************************)
EXTENDS UnitTokens, ThreadBarrier, SenseBarrier, Integers, FiniteSetTheorems, TLAPS

-----------------------------------------------------------------------------
(***************************************************************************)
(* Proofs about UnitTokens, for every number of dividers.  The argument is *)
(* one inductive invariant, IInv: the counter is exact and never exceeds   *)
(* NUM_DIV, a DIV in IDC means that a token was free when it was issued    *)
(* (and only one DIV can be in IDC), and a divider whose verdict is still  *)
(* on its way sees its own instruction in the matching pipeline stage.     *)
(***************************************************************************)

\* A divider that waits for its verdict follows its instruction down the pipeline;
\* one that has it holds the right one; none answers without it.
VerdictTracked ==
  \A i \in Dividers :
    /\ age[i] \in 1 .. 3 => div[i] # "ready" /\ pipe[age[i] + 1] = fate[i]
    /\ age[i] = 4 => (isRealD3[i] <=> fate[i] = "real")

\* The inductive invariant.
IInv ==
  /\ utTypeOK
  /\ TokensExact
  /\ divCntr_reg <= NUM_DIV
  /\ isDivEarly_reg => ~disableDiv_reg
  /\ VerdictTracked

\* A non-empty set of dividers has a lowest member: the chain of sel wires and the
\* arbiter always select one.
LEMMA LowestExists ==
  ASSUME NEW T \in SUBSET Dividers, T # {}
  PROVE  \E i \in T : \A k \in T : ~(k < i)
<1>1. T \subseteq Nat
  BY UnitAssumption DEF Dividers
<1>2. \E i \in T : \A k \in T : ~(<<k, i>> \in OpToRel(<, Nat))
  BY <1>1, NatLessThanWellFounded, WFMin
<1> QED
  BY <1>1, <1>2, Zenon DEF OpToRel

\* The dividers in use form a finite set of at most NUM_DIV members.
LEMMA OccupiedFinite ==
  /\ IsFiniteSet(Occupied)
  /\ Cardinality(Occupied) \in 0 .. NUM_DIV
  /\ Cardinality(Occupied) < NUM_DIV => \E i \in Dividers : div[i] = "ready"
<1>1. IsFiniteSet(Dividers) /\ Cardinality(Dividers) = NUM_DIV
  BY UnitAssumption, FS_Interval DEF Dividers
<1>2. Occupied \in SUBSET Dividers
  BY DEF Occupied
<1>3. /\ IsFiniteSet(Occupied)
      /\ Cardinality(Occupied) <= NUM_DIV
      /\ Cardinality(Dividers) = Cardinality(Occupied) => Dividers = Occupied
  BY <1>1, <1>2, FS_Subset
<1>4. Cardinality(Occupied) \in Nat
  BY <1>3, FS_CardinalityType
<1>5. ASSUME Cardinality(Occupied) < NUM_DIV
      PROVE  \E i \in Dividers : div[i] = "ready"
  <2>1. Occupied # Dividers
    BY <1>1, <1>4, <1>5, UnitAssumption
  <2> QED
    BY <2>1 DEF Occupied
<1> QED
  BY <1>3, <1>4, <1>5, UnitAssumption

\* A DIV in EX1 finds a ready divider in every state of the inductive invariant.
LEMMA EX1FindsUnit == IInv => UnitIsReady
<1> SUFFICES ASSUME IInv, pipe[EX1] # "none"
             PROVE  \E i \in Dividers : div[i] = "ready"
  BY DEF UnitIsReady
<1>1. divCntr_reg = Cardinality(Occupied) + 1 /\ divCntr_reg <= NUM_DIV
  BY DEF IInv, TokensExact
<1>2. Cardinality(Occupied) < NUM_DIV
  BY <1>1, OccupiedFinite, UnitAssumption
<1> QED
  BY <1>2, OccupiedFinite

\* The initial state satisfies the inductive invariant.
LEMMA InitIInv == utInit => IInv
<1> SUFFICES ASSUME utInit PROVE IInv
  OBVIOUS
<1>1. utTypeOK
  <2>1. isRealD3 \in [Dividers -> BOOLEAN]
    BY Zenon DEF utInit
  <2>2. isDivEarly_reg \in BOOLEAN /\ disableDiv_reg \in BOOLEAN
    BY Zenon DEF utInit
  <2>3. pipe \in [EX1 .. WB -> Fates \cup {"none"}]
    BY DEF utInit, Fates
  <2>4. /\ divCntr_reg \in 0 .. CntrMax
        /\ div \in [Dividers -> {"ready", "busy", "done"}]
        /\ age \in [Dividers -> 0 .. 4]
        /\ fate \in [Dividers -> Fates]
    BY UnitAssumption DEF utInit, Fates
  <2> QED
    BY <2>1, <2>2, <2>3, <2>4 DEF utTypeOK
<1>2. Occupied = {}
  BY DEF utInit, Occupied
<1>3. TokensExact
  BY <1>2, FS_EmptySet, UnitAssumption DEF utInit, TokensExact, EX1, WB
<1>4. VerdictTracked
  BY DEF utInit, VerdictTracked, Dividers
<1> QED
  BY <1>1, <1>3, <1>4, UnitAssumption DEF IInv, utInit

\* Every clock cycle preserves type correctness.
LEMMA ClockTypeOK ==
  ASSUME utTypeOK, NEW issue \in BOOLEAN, NEW f \in Fates,
         NEW finished \in SUBSET Busy, NEW rfReady \in BOOLEAN,
         utClock(issue, f, finished, rfReady)
  PROVE  utTypeOK'
<1>1. isDivEarly_reg' \in BOOLEAN
  BY DEF utClock
<1>2. pipe' \in [EX1 .. WB -> Fates \cup {"none"}]
  BY DEF utClock, utTypeOK, EX1, WB
<1>3. divCntr_reg' \in 0 .. CntrMax
  BY UnitAssumption DEF utClock, CountTokens, utTypeOK, Inc, Dec
<1>4. disableDiv_reg' \in BOOLEAN
  BY Zenon DEF utClock, CountTokens, utTypeOK
<1>5. div' \in [Dividers -> {"ready", "busy", "done"}]
  BY DEF utClock, StepPool, utTypeOK
<1>6. age' \in [Dividers -> 0 .. 4]
  BY DEF utClock, StepPool, utTypeOK, NextAge
<1>7. isRealD3' \in [Dividers -> BOOLEAN]
  <2>1. \A i \in Dividers : (IF Accepts(i) THEN TRUE
                              ELSE IF age[i] = 3 THEN pipe[WB] = "real"
                              ELSE isRealD3[i]) \in BOOLEAN
    BY Zenon DEF utTypeOK
  <2> QED
    BY <2>1, Zenon DEF utClock, StepPool
<1>8. fate' \in [Dividers -> Fates]
  BY DEF utClock, StepPool, utTypeOK, Accepts, EX1, WB
<1> QED
  BY <1>1, <1>2, <1>3, <1>4, <1>5, <1>6, <1>7, <1>8 DEF utTypeOK

\* One cycle adds the divider that accepts a request to the occupied ones and
\* takes away the one whose result is written; each is at most one divider.
LEMMA OccupiedStep ==
  ASSUME IInv, NEW issue \in BOOLEAN, NEW f \in Fates,
         NEW finished \in SUBSET Busy, NEW rfReady \in BOOLEAN,
         utClock(issue, f, finished, rfReady)
  PROVE  Cardinality(Occupied') =
           Cardinality(Occupied)
             + (IF pipe[EX1] = "none" THEN 0 ELSE 1)
             - (IF \E i \in Dividers : rfReady /\ Granted(i) THEN 1 ELSE 0)
<1> DEFINE fired == {i \in Dividers : rfReady /\ Granted(i)}
<1> DEFINE accepting == {i \in Dividers : Accepts(i)}
<1>1. Occupied' = (Occupied \ fired) \cup accepting
  BY DEF utClock, StepPool, Occupied, Granted, RespValid, Accepts, Busy
<1>2. IsFiniteSet(Occupied) /\ Cardinality(Occupied) \in Nat
  BY OccupiedFinite
<1>3. Cardinality(Occupied \ fired) =
        Cardinality(Occupied) - (IF fired = {} THEN 0 ELSE 1)
      /\ IsFiniteSet(Occupied \ fired)
      /\ Cardinality(Occupied \ fired) \in Nat
  <2>1. CASE fired = {}
    <3> HIDE DEF fired
    <3>1. Occupied \ fired = Occupied
      BY <2>1
    <3>2. (IF fired = {} THEN 0 ELSE 1) = 0
      BY <2>1
    <3>3. Cardinality(Occupied) = Cardinality(Occupied) - 0
      BY <1>2
    <3> QED
      BY <3>1, <3>2, <3>3, <1>2, Zenon
  <2>2. CASE fired # {}
    <3>1. PICK i \in fired : TRUE
      BY <2>2
    <3>2. fired = {i} /\ i \in Occupied
      BY <3>1, UnitAssumption DEF Granted, Occupied, RespValid, Dividers
    <3>3. Cardinality(Occupied \ {i}) = Cardinality(Occupied) - 1
          /\ IsFiniteSet(Occupied \ {i})
      BY <3>2, <1>2, FS_RemoveElement
    <3>4. Cardinality(Occupied \ {i}) \in Nat
      BY <3>3, FS_CardinalityType
    <3> QED
      BY <3>2, <3>3, <3>4, <2>2
  <2> QED
    BY <2>1, <2>2
<1>4. CASE pipe[EX1] = "none"
  <2>1. Occupied' = Occupied \ fired
    BY <1>1, <1>4 DEF Accepts
  <2> QED
    BY <2>1, <1>3, <1>2, <1>4
<1>5. CASE pipe[EX1] # "none"
  <2>1. {i \in Dividers : div[i] = "ready"} # {}
    BY <1>5, EX1FindsUnit DEF UnitIsReady
  <2>2. PICK i \in {j \in Dividers : div[j] = "ready"} :
          \A k \in {j \in Dividers : div[j] = "ready"} : ~(k < i)
    BY <2>1, LowestExists, Zenon
  <2>3. accepting = {i}
    BY <2>2, <1>5, UnitAssumption DEF Accepts, Dividers
  <2>4. i \notin Occupied \ fired
    BY <2>2 DEF Occupied
  <2>5. Cardinality((Occupied \ fired) \cup {i}) = Cardinality(Occupied \ fired) + 1
    BY <2>4, <1>3, FS_AddElement, Zenon
  <2>6. Occupied' = (Occupied \ fired) \cup {i}
    BY <2>3, <1>1
  <2>7. fired = {} <=> ~\E j \in Dividers : rfReady /\ Granted(j)
    OBVIOUS
  <2> HIDE DEF fired, accepting
  <2> QED
    BY <2>5, <2>6, <2>7, <1>2, <1>3, <1>5
<1> QED
  BY <1>4, <1>5

\* Every clock cycle keeps the token counter exact and within its bound.
LEMMA ClockTokens ==
  ASSUME IInv, NEW issue \in BOOLEAN, NEW f \in Fates,
         NEW finished \in SUBSET Busy, NEW rfReady \in BOOLEAN,
         utClock(issue, f, finished, rfReady)
  PROVE  /\ TokensExact'
         /\ (divCntr_reg <= NUM_DIV)'
         /\ (isDivEarly_reg => ~disableDiv_reg)'
<1> DEFINE used == Cardinality(Occupied)
<1> DEFINE ex1 == IF pipe[EX1] = "none" THEN 0 ELSE 1
<1> DEFINE safe == \E i \in Dividers : rfReady /\ Granted(i)
<1>1. /\ divCntr_reg = used + ex1
      /\ divCntr_reg <= NUM_DIV
      /\ disableDiv_reg <=> divCntr_reg = NUM_DIV
      /\ isDivEarly_reg => ~disableDiv_reg
  BY DEF IInv, TokensExact
<1>2. used \in Nat /\ ex1 \in {0, 1} /\ used' = used + ex1 - (IF safe THEN 1 ELSE 0)
  BY OccupiedFinite, OccupiedStep
<1>3. ex1' = IF isDivEarly_reg THEN 1 ELSE 0
  BY DEF utClock, EX1, WB, Fates
<1>4. safe => divCntr_reg > 0
  <2> SUFFICES ASSUME safe PROVE divCntr_reg > 0
    OBVIOUS
  <2>1. Occupied # {}
    BY DEF Granted, RespValid, Occupied
  <2>2. used # 0
    BY <2>1, OccupiedFinite, FS_EmptySet
  <2> QED
    BY <2>2, <1>1, <1>2
<1>5. /\ isDivEarly_reg \in BOOLEAN
      /\ isDivEarly_reg' = issue
      /\ issue => ~disableDiv_reg /\ ~isDivEarly_reg
      /\ divCntr_reg \in 0 .. CntrMax
  BY DEF IInv, utTypeOK, utClock, MayIssue
<1>6. CountTokens(safe)
  BY Zenon DEF utClock
<1> HIDE DEF used, ex1, safe
<1>7. /\ divCntr_reg' = used' + ex1'
      /\ divCntr_reg' <= NUM_DIV
      /\ disableDiv_reg' <=> divCntr_reg' = NUM_DIV
      /\ isDivEarly_reg' => ~disableDiv_reg'
  <2>1. CASE isDivEarly_reg /\ ~safe
    <3>1. /\ divCntr_reg' = Inc(divCntr_reg)
          /\ disableDiv_reg' <=> disableDiv_reg \/ divCntr_reg = NUM_DIV - 1
      BY <2>1, <1>6, Zenon DEF CountTokens
    <3>2. divCntr_reg' = divCntr_reg + 1
      BY <2>1, <3>1, <1>1, <1>5, UnitAssumption DEF Inc
    <3> QED
      BY <2>1, <3>1, <3>2, <1>1, <1>2, <1>3, <1>5, UnitAssumption
  <2>2. CASE ~isDivEarly_reg /\ safe
    <3>1. divCntr_reg' = divCntr_reg - 1 /\ ~disableDiv_reg'
      BY <2>2, <1>4, <1>5, <1>6 DEF CountTokens, Dec
    <3> QED
      BY <2>2, <3>1, <1>1, <1>2, <1>3, <1>5, UnitAssumption
  <2>3. CASE isDivEarly_reg <=> safe
    <3>1. divCntr_reg' = divCntr_reg /\ disableDiv_reg' = disableDiv_reg
      BY <2>3, <1>6 DEF CountTokens
    <3> QED
      BY <2>3, <3>1, <1>1, <1>2, <1>3, <1>5, UnitAssumption
  <2> QED
    BY <2>1, <2>2, <2>3
<1> QED
  BY <1>7 DEF TokensExact, used, ex1

\* Every clock cycle keeps the verdicts in step with their instructions.
LEMMA ClockVerdict ==
  ASSUME IInv, NEW issue \in BOOLEAN, NEW f \in Fates,
         NEW finished \in SUBSET Busy, NEW rfReady \in BOOLEAN,
         utClock(issue, f, finished, rfReady)
  PROVE  VerdictTracked'
<1> SUFFICES ASSUME NEW i \in Dividers
             PROVE  /\ age'[i] \in 1 .. 3 => div'[i] # "ready" /\ pipe'[age'[i] + 1] = fate'[i]
                    /\ age'[i] = 4 => (isRealD3'[i] <=> fate'[i] = "real")
  BY DEF VerdictTracked
<1>1. /\ age[i] \in 0 .. 4
      /\ age[i] \in 1 .. 3 => div[i] # "ready" /\ pipe[age[i] + 1] = fate[i]
      /\ age[i] = 4 => (isRealD3[i] <=> fate[i] = "real")
  BY DEF IInv, VerdictTracked, utTypeOK
<1>2. \A s \in 2 .. 4 : pipe'[s] = pipe[s - 1]
  BY DEF utClock, EX1, WB
<1>3. CASE Accepts(i)
  <2>1. age'[i] = 1 /\ div'[i] = "busy" /\ fate'[i] = pipe[1]
    BY <1>3 DEF utClock, StepPool, EX1
  <2> QED
    BY <2>1, <1>2
<1>4. CASE ~Accepts(i)
  <2>1. age'[i] = NextAge(age[i]) /\ fate'[i] = fate[i]
    BY <1>4 DEF utClock, StepPool
  <2>2. age[i] \in 1 .. 3 => div'[i] # "ready"
    BY <1>1, <1>4 DEF utClock, StepPool, Granted, RespValid
  <2>3. isRealD3'[i] <=> IF age[i] = 3 THEN pipe[4] = "real" ELSE isRealD3[i]
    BY <1>4, Zenon DEF utClock, StepPool, WB
  <2> QED
    BY <2>1, <2>2, <2>3, <1>1, <1>2 DEF NextAge
<1> QED
  BY <1>3, <1>4

\* The inductive invariant holds in every reachable state, for every NUM_DIV.
THEOREM Invariance == utSpec => []IInv
<1>1. IInv /\ [utNext]_utVars => IInv'
  <2> SUFFICES ASSUME IInv, [utNext]_utVars PROVE IInv'
    OBVIOUS
  <2>1. CASE utNext
    <3>1. PICK issue \in BOOLEAN, rfReady \in BOOLEAN, f \in Fates, finished \in SUBSET Busy :
            utClock(issue, f, finished, rfReady)
      BY <2>1 DEF utNext
    <3>2. utTypeOK
      BY DEF IInv
    <3>3. utTypeOK'
      BY <3>1, <3>2, ClockTypeOK
    <3>4. /\ TokensExact'
          /\ (divCntr_reg <= NUM_DIV)'
          /\ (isDivEarly_reg => ~disableDiv_reg)'
      BY <3>1, ClockTokens
    <3>5. VerdictTracked'
      BY <3>1, ClockVerdict
    <3> QED
      BY <3>3, <3>4, <3>5 DEF IInv
  <2>2. CASE UNCHANGED utVars
    BY <2>2 DEF utVars, IInv, utTypeOK, TokensExact, VerdictTracked, Occupied
  <2> QED
    BY <2>1, <2>2
<1> QED
  BY <1>1, InitIInv, PTL DEF utSpec

\* The registers always hold values of their types.
THEOREM TypeCorrect == utSpec => []utTypeOK
BY Invariance, PTL DEF IInv

\* No DIV is ever offered to a full pool: "MUL/DIV is not ready." never fires.
THEOREM UnitAlwaysReady == utSpec => []UnitIsReady
BY Invariance, EX1FindsUnit, PTL

\* Tokens are neither lost nor duplicated, whatever the latencies.
THEOREM TokensConserved == utSpec => []TokensExact
BY Invariance, PTL DEF IInv

\* The two assertions of CtxtUnit on divCntr_reg never fire.
THEOREM AssertsHold == utSpec => []CounterAsserts
<1>1. IInv => CounterAsserts
  <2> SUFFICES ASSUME IInv PROVE CounterAsserts
    OBVIOUS
  <2>1. isDivEarly_reg => divCntr_reg < NUM_DIV
    BY UnitAssumption DEF IInv, TokensExact, utTypeOK
  <2>2. ASSUME NEW i \in Dividers, RespValid(i) PROVE divCntr_reg > 0
    <3>1. Occupied # {}
      BY <2>2 DEF RespValid, Occupied
    <3>2. Cardinality(Occupied) \in Nat /\ Cardinality(Occupied) # 0
      BY <3>1, OccupiedFinite, FS_EmptySet
    <3> QED
      BY <3>2 DEF IInv, TokensExact
  <2> QED
    BY <2>1, <2>2 DEF CounterAsserts
<1> QED
  BY <1>1, Invariance, PTL

\* A muted DIV never writes the register file and a real one always does.
THEOREM FateAlwaysRespected == utSpec => []FateRespected
<1>1. IInv => FateRespected
  BY DEF IInv, VerdictTracked, FateRespected, RespValid
<1> QED
  BY <1>1, Invariance, PTL

\* Everything the run checks of the divider pool, for any number of dividers.
THEOREM UnitCorrect == utSpec => []UnitSafe
BY TypeCorrect, UnitAlwaysReady, TokensConserved, AssertsHold, FateAlwaysRespected, PTL
   DEF UnitSafe
-----------------------------------------------------------------------------

-----------------------------------------------------------------------------
(***************************************************************************)
(* thread_barrier_wait is a barrier for any number of threads.  The        *)
(* inductive invariant tbInv says that bar_signal is the number of rounds  *)
(* that are over, that every thread is in the round after it or has just   *)
(* been released from it, and that the thread that makes the three stores  *)
(* is alone: all others have been counted.                                 *)
(***************************************************************************)

\* Threads that have been counted are finitely many.
LEMMA CountedFinite ==
  /\ IsFiniteSet(Counted) /\ Cardinality(Counted) \in Nat
  /\ nthreads \in Nat \ {0}
  /\ \A t \in Threads : /\ Counted \subseteq Threads \ {t}
                        /\ Cardinality(Counted) = nthreads - 1
                        => Counted = Threads \ {t}
<1>1. Counted \in SUBSET Threads
  BY DEF Counted
<1>2. IsFiniteSet(Counted) /\ Cardinality(Counted) \in Nat
  BY <1>1, ThreadsAssumption, FS_Subset, FS_CardinalityType
<1>3. nthreads \in Nat \ {0}
  BY ThreadsAssumption, FS_CardinalityType, FS_EmptySet DEF nthreads
<1>4. ASSUME NEW t \in Threads, Counted \subseteq Threads \ {t},
             Cardinality(Counted) = nthreads - 1
      PROVE  Counted = Threads \ {t}
  <2>1. IsFiniteSet(Threads \ {t}) /\ Cardinality(Threads \ {t}) = nthreads - 1
    BY ThreadsAssumption, FS_RemoveElement DEF nthreads
  <2> QED
    BY <1>4, <2>1, FS_Subset
<1> QED
  BY <1>2, <1>3, <1>4

\* A thread that is neither counted nor the last shows that there is no last.
LEMMA NoLast ==
  ASSUME StoringAlone, NEW t \in Threads, t \notin Counted, bar_at[t] \notin Storing
  PROVE  \A u \in Threads : bar_at[u] \notin Storing
BY DEF StoringAlone

\* The last thread is the only one.
LEMMA OneLast ==
  ASSUME StoringAlone, NEW t \in Threads, bar_at[t] \in Storing
  PROVE  \A u \in Threads : u # t => bar_at[u] = "spin" /\ bar_t[u] = bar_signal
BY DEF StoringAlone, Counted

\* The initial state satisfies the invariant.
LEMMA InitInv == thread_barrier_init => tbInv
<1> SUFFICES ASSUME thread_barrier_init PROVE tbInv
  OBVIOUS
<1> USE DEF thread_barrier_init
<1>1. tbTypeOK
  BY DEF tbTypeOK
<1>2. \A t \in Threads : Placed(t)
  BY DEF Placed, InRound, Released, Storing
<1>3. Counted = {}
  BY DEF Counted
<1>4. StoringAlone /\ SeqTracks
  BY DEF StoringAlone, SeqTracks, Storing
<1>5. CountTracks
  BY <1>3, FS_EmptySet DEF CountTracks
<1> QED
  BY <1>1, <1>2, <1>4, <1>5 DEF tbInv

\* Every step keeps the types.
LEMMA StepType == tbTypeOK /\ [tbNext]_tbVars => tbTypeOK'
<1> SUFFICES ASSUME tbTypeOK, [tbNext]_tbVars PROVE tbTypeOK'
  OBVIOUS
<1> USE DEF tbTypeOK, Goto
<1>1. ASSUME NEW t \in Threads, LoadSeq(t) PROVE tbTypeOK'
  BY <1>1 DEF LoadSeq
<1>2. ASSUME NEW t \in Threads, FetchAndAdd(t) PROVE tbTypeOK'
  BY <1>2 DEF FetchAndAdd
<1>3. ASSUME NEW t \in Threads, ResetCount(t) PROVE tbTypeOK'
  BY <1>3 DEF ResetCount
<1>4. ASSUME NEW t \in Threads, StoreSeq(t) PROVE tbTypeOK'
  BY <1>4 DEF StoreSeq
<1>5. ASSUME NEW t \in Threads, StoreSignal(t) PROVE tbTypeOK'
  BY <1>5 DEF StoreSignal
<1>6. ASSUME NEW t \in Threads, Spin(t) PROVE tbTypeOK'
  BY <1>6 DEF Spin
<1>7. CASE UNCHANGED tbVars
  BY <1>7 DEF tbVars
<1> QED
  BY <1>1, <1>2, <1>3, <1>4, <1>5, <1>6, <1>7 DEF tbNext, thread_barrier_wait

\* A thread that enters loads the number of the round that is going on.
LEMMA LoadInv ==
  ASSUME tbInv, NEW t \in Threads, LoadSeq(t), tbTypeOK'
  PROVE  tbInv'
<1> USE DEF tbInv, LoadSeq, Goto
<1>1. t \notin Counted /\ bar_at[t] \notin Storing
  BY DEF Counted, Storing
<1>2. \A u \in Threads : bar_at[u] \notin Storing
  BY <1>1, NoLast
<1>3. bar_seq = bar_signal
  BY <1>2 DEF SeqTracks, Storing
<1>4. \A u \in Threads : bar_at'[u] = IF u = t THEN "add" ELSE bar_at[u]
  BY DEF tbTypeOK
<1>5. \A u \in Threads : bar_t'[u] = IF u = t THEN bar_signal ELSE bar_t[u]
  BY <1>3 DEF tbTypeOK
<1>6. \A u \in Threads : arrived'[u] = IF u = t THEN arrived[t] + 1 ELSE arrived[u]
  BY DEF tbTypeOK
<1>7. Counted' = Counted
  BY <1>4, <1>5 DEF Counted
<1>8. \A u \in Threads : Placed(u)'
  BY <1>4, <1>5, <1>6 DEF Placed, InRound, Released, Storing
<1>9. \A u \in Threads : bar_at'[u] \notin Storing
  BY <1>2, <1>4 DEF Storing
<1>10. StoringAlone' /\ SeqTracks' /\ CountTracks'
  BY <1>2, <1>3, <1>7, <1>9 DEF StoringAlone, SeqTracks, CountTracks, Storing
<1> QED
  BY <1>8, <1>10

\* A thread that is counted joins the waiting ones, or finds that all others wait.
LEMMA AddInv ==
  ASSUME tbInv, NEW t \in Threads, FetchAndAdd(t), tbTypeOK'
  PROVE  tbInv'
<1> USE DEF tbInv, FetchAndAdd, Goto
<1>1. t \notin Counted /\ bar_at[t] \notin Storing
  BY DEF Counted, Storing
<1>2. \A u \in Threads : bar_at[u] \notin Storing
  BY <1>1, NoLast
<1>3. bar_c = Cardinality(Counted) /\ bar_seq = bar_signal
  BY <1>2 DEF CountTracks, SeqTracks, Storing
<1>4. InRound(t)
  BY DEF Placed
<1>5. CASE bar_c = nthreads - 1
  <2>1. \A u \in Threads : bar_at'[u] = IF u = t THEN "reset" ELSE bar_at[u]
    BY <1>5 DEF tbTypeOK
  <2>2. Counted' = Counted
    BY <2>1 DEF Counted
  <2>3. Counted \subseteq Threads \ {t}
    BY <1>1 DEF Counted
  <2>4. Counted = Threads \ {t}
    BY <1>3, <1>5, <2>3, CountedFinite
  <2>5. \A u \in Threads : Placed(u)'
    BY <1>4, <2>1 DEF Placed, InRound, Released, Storing
  <2>6. StoringAlone'
    BY <1>2, <2>1, <2>2, <2>4 DEF StoringAlone
  <2>7. SeqTracks'
    BY <1>2, <1>3, <2>1 DEF SeqTracks, Storing
  <2>8. CountTracks'
    BY <1>2, <2>1 DEF CountTracks, Storing
  <2> QED
    BY <2>5, <2>6, <2>7, <2>8
<1>6. CASE bar_c # nthreads - 1
  <2>1. \A u \in Threads : bar_at'[u] = IF u = t THEN "spin" ELSE bar_at[u]
    BY <1>6 DEF tbTypeOK
  <2>2. Counted' = Counted \cup {t}
    BY <1>4, <2>1 DEF Counted, InRound
  <2>3. Cardinality(Counted') = bar_c + 1
    BY <1>1, <1>3, <2>2, CountedFinite, FS_AddElement, Zenon
  <2>4. \A u \in Threads : bar_at'[u] \notin Storing
    BY <1>2, <2>1 DEF Storing
  <2>5. \A u \in Threads : Placed(u)'
    BY <1>4, <2>1 DEF Placed, InRound, Released, Storing
  <2>6. StoringAlone' /\ SeqTracks'
    BY <1>3, <2>4 DEF StoringAlone, SeqTracks, Storing
  <2>7. CountTracks'
    BY <2>3, <2>4 DEF CountTracks, Storing
  <2> QED
    BY <2>5, <2>6, <2>7
<1> QED
  BY <1>5, <1>6

\* The last thread resets the counter.
LEMMA ResetInv ==
  ASSUME tbInv, NEW t \in Threads, ResetCount(t), tbTypeOK'
  PROVE  tbInv'
<1> USE DEF tbInv, ResetCount, Goto
<1>1. bar_at[t] \in Storing
  BY DEF Storing
<1>2. \A u \in Threads : u # t => bar_at[u] = "spin" /\ bar_t[u] = bar_signal
  BY <1>1, OneLast
<1>3. \A u \in Threads : bar_at'[u] = IF u = t THEN "seq" ELSE bar_at[u]
  BY DEF tbTypeOK
<1>4. Counted' = Counted
  BY <1>3 DEF Counted
<1>5. \A u \in Threads : Placed(u)'
  BY <1>3 DEF Placed, InRound, Released, Storing
<1>6. StoringAlone'
  BY <1>1, <1>2, <1>3, <1>4 DEF StoringAlone, Storing
<1>7. SeqTracks'
  BY <1>2, <1>3 DEF SeqTracks
<1>8. CountTracks'
  BY <1>3 DEF CountTracks, Storing
<1> QED
  BY <1>5, <1>6, <1>7, <1>8

\* The last thread advances seq.
LEMMA SeqInv ==
  ASSUME tbInv, NEW t \in Threads, StoreSeq(t), tbTypeOK'
  PROVE  tbInv'
<1> USE DEF tbInv, StoreSeq, Goto
<1>1. bar_at[t] \in Storing
  BY DEF Storing
<1>2. \A u \in Threads : u # t => bar_at[u] = "spin" /\ bar_t[u] = bar_signal
  BY <1>1, OneLast
<1>3. \A u \in Threads : bar_at'[u] = IF u = t THEN "signal" ELSE bar_at[u]
  BY DEF tbTypeOK
<1>4. Counted' = Counted
  BY <1>3 DEF Counted
<1>5. InRound(t)
  BY <1>1 DEF Placed
<1>6. \A u \in Threads : Placed(u)'
  BY <1>3 DEF Placed, InRound, Released, Storing
<1>7. StoringAlone'
  BY <1>1, <1>2, <1>3, <1>4 DEF StoringAlone, Storing
<1>8. SeqTracks'
  BY <1>3, <1>5 DEF SeqTracks, InRound
<1>9. CountTracks'
  BY <1>2, <1>3 DEF CountTracks, Storing
<1> QED
  BY <1>6, <1>7, <1>8, <1>9

\* The last thread ends the round: all others are released.
LEMMA SignalInv ==
  ASSUME tbInv, NEW t \in Threads, StoreSignal(t), tbTypeOK'
  PROVE  tbInv'
<1> USE DEF tbInv, StoreSignal, Goto
<1>1. bar_at[t] \in Storing
  BY DEF Storing
<1>2. \A u \in Threads : u # t => bar_at[u] = "spin" /\ bar_t[u] = bar_signal
  BY <1>1, OneLast
<1>3. \A u \in Threads : bar_at'[u] = IF u = t THEN "out" ELSE "spin"
  BY <1>2 DEF tbTypeOK
<1>4. InRound(t)
  BY <1>1 DEF Placed
<1>5. bar_signal' = bar_signal + 1 /\ bar_signal \in Nat
  BY <1>4 DEF InRound, tbTypeOK
<1>6. \A u \in Threads : u # t => InRound(u)
  BY <1>2, <1>5 DEF Placed, InRound, Released, tbTypeOK
<1>7. \A u \in Threads : left'[u] = IF u = t THEN left[t] + 1 ELSE left[u]
  BY DEF tbTypeOK
<1>8. Counted' = {}
  BY <1>2, <1>3, <1>5 DEF Counted
<1>9. \A u \in Threads : u # t => Released(u)'
  BY <1>5, <1>6, <1>7 DEF InRound, Released
<1>10. \A u \in Threads : Placed(u)'
  BY <1>3, <1>4, <1>5, <1>7, <1>9 DEF Placed, InRound, Storing
<1>11. \A u \in Threads : bar_at'[u] \notin Storing
  BY <1>3 DEF Storing
<1>12. bar_seq = bar_signal + 1 /\ bar_c = 0
  BY DEF SeqTracks, CountTracks
<1>13. StoringAlone' /\ SeqTracks'
  BY <1>5, <1>11, <1>12 DEF StoringAlone, SeqTracks, Storing
<1>14. CountTracks'
  BY <1>8, <1>11, <1>12, FS_EmptySet DEF CountTracks, Storing
<1> QED
  BY <1>10, <1>13, <1>14

\* A released thread leaves.
LEMMA SpinInv ==
  ASSUME tbInv, NEW t \in Threads, Spin(t), tbTypeOK'
  PROVE  tbInv'
<1> USE DEF tbInv, Spin, Goto
<1>1. Released(t) /\ t \notin Counted /\ bar_at[t] \notin Storing
  BY DEF Placed, InRound, Counted, Storing
<1>2. \A u \in Threads : bar_at[u] \notin Storing
  BY <1>1, NoLast
<1>3. \A u \in Threads : bar_at'[u] = IF u = t THEN "out" ELSE bar_at[u]
  BY DEF tbTypeOK
<1>4. \A u \in Threads : left'[u] = IF u = t THEN left[t] + 1 ELSE left[u]
  BY DEF tbTypeOK
<1>5. Counted' = Counted
  BY <1>1, <1>3 DEF Counted
<1>6. \A u \in Threads : Placed(u)'
  BY <1>1, <1>3, <1>4 DEF Placed, InRound, Released, Storing
<1>7. \A u \in Threads : bar_at'[u] \notin Storing
  BY <1>2, <1>3 DEF Storing
<1>8. StoringAlone' /\ SeqTracks' /\ CountTracks'
  BY <1>2, <1>5, <1>7 DEF StoringAlone, SeqTracks, CountTracks, Storing
<1> QED
  BY <1>6, <1>8

\* tbInv is preserved by every step of every thread.
LEMMA StepInv == tbInv /\ [tbNext]_tbVars => tbInv'
<1> SUFFICES ASSUME tbInv, [tbNext]_tbVars PROVE tbInv'
  OBVIOUS
<1>1. tbTypeOK'
  BY StepType DEF tbInv
<1>2. CASE UNCHANGED tbVars
  BY <1>2 DEF tbVars, tbInv, tbTypeOK, Placed, InRound, Released, StoringAlone, SeqTracks,
              CountTracks, Counted
<1>3. CASE tbNext
  BY <1>1, <1>3, LoadInv, AddInv, ResetInv, SeqInv, SignalInv, SpinInv
     DEF tbNext, thread_barrier_wait
<1> QED
  BY <1>2, <1>3

\* For any number of threads: no thread comes back from a thread_barrier_wait before
\* every thread has begun the same wait.
THEOREM BarrierCorrect == tbSpec => []BarrierHolds
<1>1. tbInv => BarrierHolds
  <2> SUFFICES ASSUME tbInv, NEW t \in Threads, NEW u \in Threads
               PROVE  left[t] <= arrived[u]
    BY DEF BarrierHolds
  <2>1. bar_signal \in Nat /\ left[t] \in Nat /\ arrived[u] \in Nat
    BY DEF tbInv, tbTypeOK
  <2>2. left[t] <= bar_signal
    BY <2>1 DEF tbInv, tbTypeOK, Placed, InRound, Released, Storing
  <2>3. bar_signal <= arrived[u]
    BY <2>1 DEF tbInv, tbTypeOK, Placed, InRound, Released, Storing
  <2> QED
    BY <2>1, <2>2, <2>3
<1> QED
  BY <1>1, InitInv, StepInv, PTL DEF tbSpec

\* For any number of threads: thread_barrier_wait implements the abstract barrier.
THEOREM BarrierRefined == tbSpec => tbRefines
<1>1. thread_barrier_init => B!BarrierInit
  BY DEF thread_barrier_init, B!BarrierInit
<1>2. tbInv /\ [tbNext]_tbVars => [B!BarrierNext]_(B!barrierVars)
  <2> SUFFICES ASSUME tbInv, [tbNext]_tbVars
               PROVE  [B!BarrierNext]_(B!barrierVars)
    OBVIOUS
  <2>1. ASSUME NEW t \in Threads, LoadSeq(t) PROVE B!Arrive(t)
    BY <2>1 DEF tbInv, LoadSeq, Placed, B!Arrive
  <2>2. ASSUME NEW t \in Threads, StoreSignal(t) PROVE B!Leave(t)
    <3>1. bar_at[t] \in Storing
      BY <2>2 DEF StoreSignal, Storing
    <3>2. InRound(t)
      BY <3>1 DEF tbInv, Placed
    <3>3. \A u \in Threads : u # t => bar_at[u] = "spin" /\ bar_t[u] = bar_signal
      BY <3>1, OneLast DEF tbInv
    <3>4. \A u \in Threads : arrived[u] = bar_signal + 1
      BY <3>2, <3>3 DEF tbInv, Placed, InRound, Released, tbTypeOK
    <3>5. arrived[t] = left[t] + 1 /\ \A u \in Threads : arrived[u] >= arrived[t]
      BY <3>2, <3>4 DEF InRound, tbInv, tbTypeOK
    <3> QED
      BY <2>2, <3>5 DEF StoreSignal, B!Leave
  <2>3. ASSUME NEW t \in Threads, Spin(t) PROVE B!Leave(t)
    <3>1. Released(t)
      BY <2>3 DEF Spin, tbInv, Placed, InRound
    <3>2. \A u \in Threads : arrived[u] >= bar_signal
      BY DEF tbInv, tbTypeOK, Placed, InRound, Released, Storing
    <3>3. arrived[t] = left[t] + 1 /\ \A u \in Threads : arrived[u] >= arrived[t]
      BY <3>1, <3>2 DEF Released
    <3> QED
      BY <2>3, <3>3 DEF Spin, B!Leave
  <2>4. ASSUME NEW t \in Threads, FetchAndAdd(t) \/ ResetCount(t) \/ StoreSeq(t)
        PROVE  UNCHANGED B!barrierVars
    BY <2>4 DEF FetchAndAdd, ResetCount, StoreSeq, B!barrierVars
  <2>5. CASE UNCHANGED tbVars
    BY <2>5 DEF tbVars, B!barrierVars
  <2> QED
    BY <2>1, <2>2, <2>3, <2>4, <2>5
       DEF tbNext, thread_barrier_wait, B!BarrierNext
<1> QED
  BY <1>1, <1>2, InitInv, StepInv, PTL DEF tbSpec, tbRefines, B!BarrierSpec

-----------------------------------------------------------------------------
(***************************************************************************)
(* barrier(ncores) is a barrier for any number of threads.  The inductive  *)
(* invariant sbInv says that all threads have been through the same number *)
(* of rounds, a thread released and still at its spin counted as through,  *)
(* and that the thread that resets count and sense is alone: all others    *)
(* have been counted.                                                      *)
(***************************************************************************)

\* Threads that have been counted are finitely many.
LEMMA sbCountedFinite ==
  /\ IsFiniteSet(sbCounted) /\ Cardinality(sbCounted) \in Nat
  /\ ncores \in Nat \ {0}
  /\ \A t \in Team : /\ sbCounted \subseteq Team \ {t}
                     /\ Cardinality(sbCounted) = ncores - 1
                     => sbCounted = Team \ {t}
<1>1. sbCounted \in SUBSET Team
  BY DEF sbCounted
<1>2. IsFiniteSet(sbCounted) /\ Cardinality(sbCounted) \in Nat
  BY <1>1, TeamAssumption, FS_Subset, FS_CardinalityType
<1>3. ncores \in Nat \ {0}
  BY TeamAssumption, FS_CardinalityType, FS_EmptySet DEF ncores
<1>4. ASSUME NEW t \in Team, sbCounted \subseteq Team \ {t},
             Cardinality(sbCounted) = ncores - 1
      PROVE  sbCounted = Team \ {t}
  <2>1. IsFiniteSet(Team \ {t}) /\ Cardinality(Team \ {t}) = ncores - 1
    BY TeamAssumption, FS_RemoveElement DEF ncores
  <2> QED
    BY <1>4, <2>1, FS_Subset
<1> QED
  BY <1>2, <1>3, <1>4

\* A thread that is neither counted nor closing the round shows that none is.
LEMMA NoneCloses ==
  ASSUME sbInv, NEW t \in Team, t \notin sbCounted, sb_at[t] \notin Closing
  PROVE  /\ \A u \in Team : sb_at[u] \notin Closing
         /\ count = Cardinality(sbCounted)
BY DEF sbInv

\* While a thread closes the round every other one is counted.
LEMMA CloserAlone ==
  ASSUME sbInv, NEW t \in Team, sb_at[t] \in Closing
  PROVE  \A u \in Team : u # t => sb_at[u] = "spin" /\ threadsense[u] # sense
BY DEF sbInv, sbCounted

\* The initial state satisfies the invariant.
LEMMA sbInitInv == sbInit => sbInv
<1> SUFFICES ASSUME sbInit PROVE sbInv
  OBVIOUS
<1> USE DEF sbInit
<1>1. sbTypeOK
  BY DEF sbTypeOK, sbPlaces
<1>2. sbCounted = {}
  BY DEF sbCounted
<1>3. count = Cardinality(sbCounted)
  BY <1>2, FS_EmptySet
<1> QED
  BY <1>1, <1>3 DEF sbInv, sbPlaced, Rounds, Behind, Closing

\* Every step keeps the types.
LEMMA sbStepType == sbTypeOK /\ [sbNext]_sbVars => sbTypeOK'
<1> SUFFICES ASSUME sbTypeOK, [sbNext]_sbVars PROVE sbTypeOK'
  OBVIOUS
<1> USE DEF sbTypeOK, sbGoto, sbPlaces
<1>1. ASSUME NEW t \in Team, ReverseSense(t) PROVE sbTypeOK'
  BY <1>1 DEF ReverseSense
<1>2. ASSUME NEW t \in Team, sbAdd(t) PROVE sbTypeOK'
  BY <1>2 DEF sbAdd
<1>3. ASSUME NEW t \in Team, sbReset(t) PROVE sbTypeOK'
  BY <1>3 DEF sbReset
<1>4. ASSUME NEW t \in Team, sbSpin(t) PROVE sbTypeOK'
  BY <1>4 DEF sbSpin
<1>5. CASE UNCHANGED sbVars
  BY <1>5 DEF sbVars
<1> QED
  BY <1>1, <1>2, <1>3, <1>4, <1>5 DEF sbNext, barrier

\* A thread that enters turns its sense away from that of the last round.
LEMMA ReverseInv ==
  ASSUME sbInv, NEW t \in Team, ReverseSense(t), sbTypeOK'
  PROVE  sbInv'
<1> USE DEF ReverseSense, sbGoto
<1>0. sbTypeOK /\ \A u \in Team : sbPlaced(u)
  BY DEF sbInv
<1>1. t \notin sbCounted /\ sb_at[t] \notin Closing
  BY DEF sbCounted, Closing
<1>2. /\ \A u \in Team : sb_at[u] \notin Closing
      /\ count = Cardinality(sbCounted)
  BY <1>1, NoneCloses
<1>3. \A u \in Team : sb_at'[u] = IF u = t THEN "add" ELSE sb_at[u]
  BY <1>0 DEF sbTypeOK
<1>4. \A u \in Team : threadsense'[u] = IF u = t THEN 1 - threadsense[t] ELSE threadsense[u]
  BY <1>0 DEF sbTypeOK
<1>5. \A u \in Team : sb_arrived'[u] = IF u = t THEN sb_arrived[t] + 1 ELSE sb_arrived[u]
  BY <1>0 DEF sbTypeOK
<1>6. sbCounted' = sbCounted
  BY <1>3, <1>4 DEF sbCounted
<1>7. \A u \in Team : sbPlaced(u)'
  BY <1>0, <1>3, <1>4, <1>5 DEF sbPlaced, sbTypeOK
<1>8. \A u \in Team : Rounds(u)' = Rounds(u)
  BY <1>3, <1>4 DEF Rounds, Behind
<1>9. \A u \in Team : sb_at'[u] \notin Closing
  BY <1>2, <1>3 DEF Closing
<1>10. count' = Cardinality(sbCounted')
  BY <1>2, <1>6
<1> QED
  BY <1>7, <1>8, <1>9, <1>10 DEF sbInv, Closing

\* A thread that is counted joins the waiting ones, or finds that all others wait.
LEMMA sbAddInv ==
  ASSUME sbInv, NEW t \in Team, sbAdd(t), sbTypeOK'
  PROVE  sbInv'
<1> USE DEF sbAdd, sbGoto
<1>0. sbTypeOK /\ \A u \in Team : sbPlaced(u)
  BY DEF sbInv
<1>1. t \notin sbCounted /\ sb_at[t] \notin Closing
  BY DEF sbCounted, Closing
<1>2. /\ \A u \in Team : sb_at[u] \notin Closing
      /\ count = Cardinality(sbCounted)
  BY <1>1, NoneCloses
<1>3. threadsense[t] # sense
  BY <1>0 DEF sbPlaced
<1>4. CASE count = ncores - 1
  <2>1. \A u \in Team : sb_at'[u] = IF u = t THEN "reset" ELSE sb_at[u]
    BY <1>0, <1>4 DEF sbTypeOK
  <2>2. sbCounted' = sbCounted
    BY <2>1 DEF sbCounted
  <2>3. sbCounted = Team \ {t}
    <3>1. sbCounted \subseteq Team \ {t}
      BY <1>1 DEF sbCounted
    <3> QED
      BY <1>2, <1>4, <3>1, sbCountedFinite
  <2>4. \A u \in Team : sbPlaced(u)'
    BY <1>0, <2>1 DEF sbPlaced
  <2>5. \A u \in Team : Rounds(u)' = Rounds(u)
    BY <2>1 DEF Rounds, Behind
  <2>6. sb_at'[t] \in Closing /\ sb_at'[t] = "reset"
    BY <2>1 DEF Closing
  <2>7. \A u \in Team : sb_at'[u] \in Closing => u = t
    BY <1>2, <2>1
  <2>8. \A u \in Team : sb_at'[u] # "flip"
    BY <2>6, <2>7 DEF Closing
  <2> QED
    BY <2>2, <2>3, <2>4, <2>5, <2>6, <2>7, <2>8 DEF sbInv
<1>5. CASE count # ncores - 1
  <2>1. \A u \in Team : sb_at'[u] = IF u = t THEN "spin" ELSE sb_at[u]
    BY <1>0, <1>5 DEF sbTypeOK
  <2>2. sbCounted' = sbCounted \cup {t}
    BY <1>3, <2>1 DEF sbCounted
  <2>3. Cardinality(sbCounted') = count + 1
    BY <1>1, <1>2, <2>2, sbCountedFinite, FS_AddElement, Zenon
  <2>4. \A u \in Team : sb_at'[u] \notin Closing
    BY <1>2, <2>1 DEF Closing
  <2>5. \A u \in Team : sbPlaced(u)'
    BY <1>0, <2>1 DEF sbPlaced
  <2>6. \A u \in Team : Rounds(u)' = Rounds(u)
    BY <1>3, <2>1 DEF Rounds, Behind
  <2> QED
    BY <2>3, <2>4, <2>5, <2>6 DEF sbInv, Closing
<1> QED
  BY <1>4, <1>5

\* The last thread resets the count, then flips the sense, which releases all others.
LEMMA sbResetInv ==
  ASSUME sbInv, NEW t \in Team, sbReset(t), sbTypeOK'
  PROVE  sbInv'
<1> USE DEF sbReset, sbGoto
<1>0. sbTypeOK /\ \A u \in Team : sbPlaced(u)
  BY DEF sbInv
<1>1. sb_at[t] \in Closing /\ sbCounted = Team \ {t}
  BY DEF Closing, sbInv
<1>2. \A u \in Team : u # t => sb_at[u] = "spin" /\ threadsense[u] # sense
  BY <1>1, CloserAlone
<1>3. CASE sb_at[t] = "reset"
  <2>1. \A u \in Team : sb_at'[u] = IF u = t THEN "flip" ELSE sb_at[u]
    BY <1>0, <1>3 DEF sbTypeOK
  <2>2. sbCounted' = sbCounted
    BY <1>3, <2>1 DEF sbCounted
  <2>3. \A u \in Team : sbPlaced(u)'
    BY <1>0, <1>3, <2>1 DEF sbPlaced
  <2>4. \A u \in Team : Rounds(u)' = Rounds(u)
    BY <1>3, <2>1 DEF Rounds, Behind
  <2>5. \A u \in Team : sb_at'[u] \in Closing => u = t
    BY <1>2, <2>1 DEF Closing
  <2>6. sb_at'[t] \in Closing /\ count' = 0
    BY <1>3, <2>1 DEF Closing
  <2> QED
    BY <1>1, <2>2, <2>3, <2>4, <2>5, <2>6 DEF sbInv
<1>4. CASE sb_at[t] = "flip"
  <2>1. \A u \in Team : sb_at'[u] = IF u = t THEN "out" ELSE "spin"
    BY <1>0, <1>2, <1>4 DEF sbTypeOK
  <2>2. threadsense[t] # sense /\ sense' = threadsense[t] /\ threadsense' = threadsense
    BY <1>0, <1>4 DEF sbPlaced
  <2>3. \A u \in Team : threadsense'[u] = sense'
    BY <1>0, <1>2, <2>2 DEF sbTypeOK
  <2>4. \A u \in Team : sb_left'[u] = IF u = t THEN sb_left[t] + 1 ELSE sb_left[u]
    BY <1>0, <1>4 DEF sbTypeOK
  <2>5. \A u \in Team : Rounds(u) = sb_left[u]
    BY <1>2, <1>4 DEF Rounds, Behind
  <2>6. \A u \in Team : Rounds(u)' = Rounds(u) + 1
    BY <2>1, <2>3, <2>4, <2>5 DEF Rounds, Behind
  <2>7. \A u, v \in Team : Rounds(u)' = Rounds(v)'
    BY <2>6 DEF sbInv
  <2>8. \A u \in Team : sbPlaced(u)'
    BY <1>0, <1>2, <1>4, <2>1, <2>3, <2>4 DEF sbPlaced, sbTypeOK
  <2>9. \A u \in Team : sb_at'[u] \notin Closing
    BY <2>1 DEF Closing
  <2>10. sbCounted' = {}
    BY <2>3 DEF sbCounted
  <2>11. count' = Cardinality(sbCounted')
    BY <1>4, <2>10, FS_EmptySet DEF sbInv
  <2> QED
    BY <2>7, <2>8, <2>9, <2>11 DEF sbInv, Closing
<1> QED
  BY <1>3, <1>4

\* A released thread leaves.
LEMMA sbSpinInv ==
  ASSUME sbInv, NEW t \in Team, sbSpin(t), sbTypeOK'
  PROVE  sbInv'
<1> USE DEF sbSpin, sbGoto
<1>0. sbTypeOK /\ \A u \in Team : sbPlaced(u)
  BY DEF sbInv
<1>1. t \notin sbCounted /\ sb_at[t] \notin Closing
  BY DEF sbCounted, Closing
<1>2. /\ \A u \in Team : sb_at[u] \notin Closing
      /\ count = Cardinality(sbCounted)
  BY <1>1, NoneCloses
<1>3. \A u \in Team : sb_at'[u] = IF u = t THEN "out" ELSE sb_at[u]
  BY <1>0 DEF sbTypeOK
<1>4. \A u \in Team : sb_left'[u] = IF u = t THEN sb_left[t] + 1 ELSE sb_left[u]
  BY <1>0 DEF sbTypeOK
<1>5. sbCounted' = sbCounted
  BY <1>3 DEF sbCounted
<1>6. \A u \in Team : sbPlaced(u)'
  BY <1>0, <1>3, <1>4 DEF sbPlaced, sbTypeOK
<1>7. \A u \in Team : Rounds(u)' = Rounds(u)
  BY <1>3, <1>4 DEF Rounds, Behind
<1>8. \A u \in Team : sb_at'[u] \notin Closing
  BY <1>2, <1>3 DEF Closing
<1>9. count' = Cardinality(sbCounted')
  BY <1>2, <1>5
<1> QED
  BY <1>6, <1>7, <1>8, <1>9 DEF sbInv, Closing

\* sbInv is preserved by every step of every thread.
LEMMA sbStepInv == sbInv /\ [sbNext]_sbVars => sbInv'
<1> SUFFICES ASSUME sbInv, [sbNext]_sbVars PROVE sbInv'
  OBVIOUS
<1>1. sbTypeOK'
  BY sbStepType DEF sbInv
<1>2. CASE UNCHANGED sbVars
  BY <1>2 DEF sbVars, sbInv, sbTypeOK, sbPlaced, Rounds, Behind, sbCounted
<1>3. CASE sbNext
  BY <1>1, <1>3, ReverseInv, sbAddInv, sbResetInv, sbSpinInv DEF sbNext, barrier
<1> QED
  BY <1>2, <1>3

\* For any number of threads: barrier implements the abstract barrier, so no thread comes
\* back from a call before every thread has begun the same call.
THEOREM SenseBarrierRefined == sbSpec => sbRefines
<1>1. sbInit => SB!BarrierInit
  BY DEF sbInit, SB!BarrierInit
<1>2. sbInv /\ [sbNext]_sbVars => [SB!BarrierNext]_(SB!barrierVars)
  <2> SUFFICES ASSUME sbInv, [sbNext]_sbVars
               PROVE  [SB!BarrierNext]_(SB!barrierVars)
    OBVIOUS
  <2>0. /\ \A u \in Team : sb_left[u] \in Nat /\ sb_arrived[u] \in Nat
        /\ \A u \in Team : sbPlaced(u)
        /\ \A u, v \in Team : Rounds(u) = Rounds(v)
    BY DEF sbInv, sbTypeOK
  <2>1. ASSUME NEW t \in Team, ReverseSense(t) PROVE SB!Arrive(t)
    BY <2>0, <2>1 DEF ReverseSense, sbPlaced, SB!Arrive
  <2>2. ASSUME NEW t \in Team, sbReset(t), sb_at[t] = "flip" PROVE SB!Leave(t)
    <3>1. \A u \in Team : u # t => sb_at[u] = "spin" /\ threadsense[u] # sense
      BY <2>2, CloserAlone DEF Closing
    <3>2. \A u \in Team : Rounds(u) = sb_left[u]
      BY <2>2, <3>1 DEF Rounds, Behind
    <3>3. \A u \in Team : sb_arrived[u] = sb_left[u] + 1
      BY <2>0, <2>2, <3>1 DEF sbPlaced
    <3>4. \A u \in Team : sb_arrived[u] >= sb_arrived[t]
      BY <2>0, <3>2, <3>3
    <3> QED
      BY <2>2, <3>3, <3>4 DEF sbReset, SB!Leave
  <2>3. ASSUME NEW t \in Team, sbSpin(t) PROVE SB!Leave(t)
    <3>1. sb_arrived[t] = sb_left[t] + 1 /\ Rounds(t) = sb_left[t] + 1
      BY <2>0, <2>3 DEF sbSpin, sbPlaced, Rounds, Behind
    <3>2. \A u \in Team : sb_arrived[u] >= Rounds(u)
      BY <2>0 DEF sbPlaced, Rounds, Behind
    <3>3. \A u \in Team : sb_arrived[u] >= sb_arrived[t]
      BY <2>0, <3>1, <3>2
    <3> QED
      BY <2>3, <3>1, <3>3 DEF sbSpin, SB!Leave
  <2>4. ASSUME NEW t \in Team, sbAdd(t) \/ (sbReset(t) /\ sb_at[t] # "flip")
        PROVE  UNCHANGED SB!barrierVars
    BY <2>4 DEF sbAdd, sbReset, SB!barrierVars
  <2>5. CASE UNCHANGED sbVars
    BY <2>5 DEF sbVars, SB!barrierVars
  <2> QED
    BY <2>1, <2>2, <2>3, <2>4, <2>5 DEF sbNext, barrier, SB!BarrierNext
<1> QED
  BY <1>1, <1>2, sbInitInv, sbStepInv, PTL DEF sbSpec, sbRefines, SB!BarrierSpec
=============================================================================
