---------------------------- MODULE QueueProofs ----------------------------
(***************************************************************************)
(* Queues: the one under the spinlock of queue_simple.h and the one of the *)
(* L2's eviction port.                                                     *)
(*                                                                         *)
(* The spinlock excludes, for any number of threads and for each of the    *)
(* instructions it can be built from.  A lock that is held has a value that *)
(* no failed attempt of another thread turns into the free one, and a      *)
(* store-conditional that succeeds has seen the value the lock has.        *)
(***************************************************************************)
EXTENDS SpinQueue, SourceC, SequenceTheorems, TLAPS

\* The values each kind of lock goes through: taken after a first attempt, and still
\* taken after any further one.
LEMMA LockValues ==
  ASSUME NEW k \in Kinds
  PROVE  /\ INITVAL(k) \in Int /\ LOCKVAL(k) \in Int
         /\ \A v \in Int : LockAmo(k, v) \in Int
         /\ Locked(k, LockAmo(k, INITVAL(k)))
         /\ \A v \in Int : Locked(k, v) => v # INITVAL(k) /\ Locked(k, LockAmo(k, v))
         /\ k = "lrsc_swap" => Locked(k, LOCKVAL(k))
<1>1. CASE k \in {"amomin", "amoand"}
  BY <1>1 DEF INITVAL, LOCKVAL, LockAmo, Locked
<1>2. CASE k \in {"amomax", "amoor"}
  BY <1>2 DEF INITVAL, LOCKVAL, LockAmo, Locked
<1>3. CASE k = "amoadd"
  BY <1>3 DEF INITVAL, LOCKVAL, LockAmo, Locked
<1>4. CASE k = "amoswap"
  BY <1>4 DEF INITVAL, LOCKVAL, LockAmo, Locked
<1>5. CASE k = "lrsc_swap"
  BY <1>5 DEF INITVAL, LOCKVAL, LockAmo, Locked
<1> QED
  BY <1>1, <1>2, <1>3, <1>4, <1>5 DEF Kinds, AmoKinds

\* An index of data stays one.
LEMMA WrapIndex == \A p \in 0 .. QUEUE_SIZE - 1 : Wrap(p) \in 0 .. QUEUE_SIZE - 1
BY SpinAssumption DEF Wrap

\* The queue starts empty and unlocked, whatever the kind of lock.
LEMMA InitInv == (\E k \in Kinds : sqInit(k)) => sqInv
<1> SUFFICES ASSUME NEW k \in Kinds, sqInit(k) PROVE sqInv
  OBVIOUS
<1>1. NoOp \in Calls
  BY DEF NoOp, Frame, Calls, Inside
<1>2. INITVAL(k) \in Int
  BY LockValues
<1>3. sqTypeOK
  BY <1>1, <1>2, SpinAssumption DEF sqInit, sqTypeOK
<1>4. \A t \in Users : sq_call[t].at = "idle"
  BY DEF sqInit, NoOp, Frame
<1> QED
  BY <1>3, <1>4 DEF sqInv, LockExcludes, HeldLocked, ResvFresh, Inside, sqInit

\* A step of thread t touches only the record of its own call; c is what it becomes.
LEMMA CallTyped ==
  ASSUME sqTypeOK, NEW t \in Users, NEW c \in Calls,
         sq_call' = [sq_call EXCEPT ![t] = c]
  PROVE  /\ sq_call' \in [Users -> Calls]
         /\ \A u \in Users : sq_call'[u] = IF u = t THEN c ELSE sq_call[u]
BY DEF sqTypeOK

\* Nobody else comes inside and the lock is left alone: the invariant stays.
LEMMA QuietStep ==
  ASSUME sqInv, NEW t \in Users, NEW c \in Calls,
         sq_call' = [sq_call EXCEPT ![t] = c],
         c.at \in Inside => sq_call[t].at \in Inside,
         c.at # "sc", t \notin sq_resv,
         UNCHANGED <<sq_kind, sq_lock, sq_resv>>
  PROVE  LockExcludes' /\ HeldLocked' /\ ResvFresh'
<1>1. \A u \in Users : sq_call'[u] = IF u = t THEN c ELSE sq_call[u]
  BY CallTyped, Zenon DEF sqInv
<1>2. LockExcludes'
  BY <1>1 DEF sqInv, LockExcludes
<1>3. HeldLocked'
  BY <1>1 DEF sqInv, HeldLocked
<1>4. ResvFresh'
  BY <1>1 DEF sqInv, ResvFresh, sqTypeOK
<1> QED
  BY <1>2, <1>3, <1>4

\* A call.
LEMMA CallInv ==
  ASSUME sqInv, NEW t \in Users, NEW f, NEW w, sqCall(t, f, w),
         f \in {"queue_try_enqueue", "queue_try_dequeue", "queue_isempty"},
         w \in Jobs \cup {NoJob}
  PROVE  sqInv'
<1> DEFINE c == Frame(f, IF f = "queue_isempty" THEN "read_head" ELSE "lock", w, 0,
                      sq_call[t].taken)
<1>1. sq_call[t] \in Calls
  BY DEF sqInv, sqTypeOK
<1>2. c \in Calls /\ c.at \notin Inside /\ c.at # "sc"
  BY <1>1 DEF Calls, Inside, Frame
<1>3. sq_call' = [sq_call EXCEPT ![t] = c]
  BY DEF sqCall
<1>4. t \notin sq_resv
  BY DEF sqCall, sqIdle, sqInv, ResvFresh
<1> HIDE DEF c
<1>5. LockExcludes' /\ HeldLocked' /\ ResvFresh'
  BY <1>2, <1>3, <1>4, QuietStep, Zenon DEF sqCall
<1>6. sqTypeOK'
  BY <1>2, <1>3, CallTyped DEF sqInv, sqTypeOK, sqCall
<1> QED
  BY <1>5, <1>6 DEF sqInv

\* An atomic instruction on the lock.
LEMMA TryInv == ASSUME sqInv, NEW t \in Users, TryWait(t) PROVE sqInv'
<1> DEFINE c == [sq_call[t] EXCEPT !.at = IF sq_lock = INITVAL(sq_kind) THEN "enter" ELSE "lock"]
<1>1. sq_call[t] \in Calls /\ sq_kind \in Kinds /\ sq_lock \in Int
  BY DEF sqInv, sqTypeOK
<1>2. c \in Calls /\ c.at = IF sq_lock = INITVAL(sq_kind) THEN "enter" ELSE "lock"
  BY <1>1 DEF Calls, Inside
<1>3. sq_call' = [sq_call EXCEPT ![t] = c]
  BY DEF TryWait, sqGoto
<1> HIDE DEF c
<1>4. \A u \in Users : sq_call'[u] = IF u = t THEN c ELSE sq_call[u]
  BY <1>2, <1>3, CallTyped, Zenon DEF sqInv
<1>5. sq_kind' = sq_kind /\ sq_lock' = LockAmo(sq_kind, sq_lock) /\ sq_lock' \in Int
  BY <1>1, LockValues DEF TryWait
<1>6. sqTypeOK'
  BY <1>2, <1>3, <1>5, CallTyped DEF sqInv, sqTypeOK, TryWait
<1>7. \A u \in Users : sq_call[u].at # "sc"
  BY DEF TryWait, sqInv, ResvFresh, AmoKinds
<1>8. ResvFresh'
  <2>1. \A u \in Users : sq_call'[u].at # "sc"
    BY <1>2, <1>4, <1>7
  <2>2. sq_resv = {}
    BY <1>7 DEF sqInv, ResvFresh, sqTypeOK
  <2> QED
    BY <2>1, <2>2 DEF ResvFresh, TryWait
<1>9. CASE sq_lock = INITVAL(sq_kind)
  <2>1. \A u \in Users : sq_call[u].at \notin Inside
    BY <1>1, <1>9, LockValues DEF sqInv, HeldLocked
  <2>2. Locked(sq_kind', sq_lock')
    BY <1>1, <1>5, <1>9, LockValues
  <2> QED
    BY <1>2, <1>4, <1>6, <1>8, <2>1, <2>2 DEF sqInv, LockExcludes, HeldLocked
<1>10. CASE sq_lock # INITVAL(sq_kind)
  <2>1. c.at \notin Inside
    BY <1>2, <1>10 DEF Inside
  <2>2. LockExcludes'
    BY <1>4, <2>1 DEF sqInv, LockExcludes
  <2>3. HeldLocked'
    BY <1>1, <1>4, <1>5, <2>1, LockValues DEF sqInv, HeldLocked
  <2> QED
    BY <1>6, <1>8, <2>2, <2>3 DEF sqInv
<1> QED
  BY <1>9, <1>10

\* The load-reserved of the lock.
LEMMA LoadReservedInv == ASSUME sqInv, NEW t \in Users, LoadReserved(t) PROVE sqInv'
<1> DEFINE c == [sq_call[t] EXCEPT !.at = "sc", !.old = sq_lock]
<1>1. sq_call[t] \in Calls /\ sq_lock \in Int
  BY DEF sqInv, sqTypeOK
<1>2. c \in Calls /\ c.at = "sc" /\ c.old = sq_lock
  BY <1>1, Zenon DEF Calls
<1>3. sq_call' = [sq_call EXCEPT ![t] = c]
  BY Zenon DEF LoadReserved
<1> HIDE DEF c
<1>4. \A u \in Users : sq_call'[u] = IF u = t THEN c ELSE sq_call[u]
  BY <1>2, <1>3, CallTyped, Zenon DEF sqInv
<1>5. sqTypeOK'
  BY <1>2, <1>3, CallTyped DEF sqInv, sqTypeOK, LoadReserved
<1>6. LockExcludes' /\ HeldLocked'
  BY <1>2, <1>4, Zenon DEF sqInv, LockExcludes, HeldLocked, LoadReserved, Inside
<1>7. ResvFresh'
  BY <1>2, <1>4 DEF sqInv, ResvFresh, LoadReserved, sqTypeOK
<1> QED
  BY <1>5, <1>6, <1>7 DEF sqInv

\* The store-conditional, failed or not.
LEMMA StoreConditionalInv ==
  ASSUME sqInv, NEW t \in Users, StoreConditional(t) PROVE sqInv'
<1>1. sq_call[t] \in Calls /\ sq_kind = "lrsc_swap" /\ sq_lock \in Int
  BY DEF sqInv, sqTypeOK, ResvFresh, StoreConditional
<1>2. sq_kind \in Kinds /\ sq_kind' = sq_kind
  BY <1>1 DEF Kinds, StoreConditional
<1>3. CASE t \in sq_resv
  <2> DEFINE c == [sq_call[t] EXCEPT !.at = IF sq_call[t].old = INITVAL(sq_kind)
                                            THEN "enter" ELSE "lock",
                                     !.tries = 0]
  <2>1. c \in Calls /\ c.at = IF sq_call[t].old = INITVAL(sq_kind) THEN "enter" ELSE "lock"
    BY <1>1, Zenon DEF Calls, Inside
  <2>2. sq_call' = [sq_call EXCEPT ![t] = c] /\ sq_lock' = LOCKVAL(sq_kind) /\ sq_resv' = {}
    BY <1>3, Zenon DEF StoreConditional
  <2> HIDE DEF c
  <2>3. \A u \in Users : sq_call'[u] = IF u = t THEN c ELSE sq_call[u]
    BY <2>1, <2>2, CallTyped, Zenon DEF sqInv
  <2>4. sq_lock' \in Int /\ Locked(sq_kind, sq_lock')
    BY <1>1, <1>2, <2>2, LockValues
  <2>5. sqTypeOK'
    BY <2>1, <2>2, <2>4, CallTyped DEF sqInv, sqTypeOK, StoreConditional
  <2>6. HeldLocked'
    BY <1>2, <2>4 DEF HeldLocked
  <2>7. ResvFresh'
    BY <1>1, <1>2, <2>1, <2>2, <2>3 DEF sqInv, ResvFresh
  <2>8. sq_call[t].old = sq_lock
    BY <1>3 DEF sqInv, ResvFresh
  <2>9. LockExcludes'
    <3>1. CASE sq_lock = INITVAL(sq_kind)
      <4>1. \A u \in Users : sq_call[u].at \notin Inside
        BY <1>1, <1>2, <3>1, LockValues DEF sqInv, HeldLocked
      <4> QED
        BY <2>3, <4>1 DEF LockExcludes
    <3>2. CASE sq_lock # INITVAL(sq_kind)
      <4>1. c.at \notin Inside
        BY <2>1, <2>8, <3>2 DEF Inside
      <4> QED
        BY <2>3, <4>1 DEF sqInv, LockExcludes
    <3> QED
      BY <3>1, <3>2
  <2> QED
    BY <2>5, <2>6, <2>7, <2>9 DEF sqInv
<1>4. CASE t \notin sq_resv
  <2> DEFINE c == [sq_call[t] EXCEPT !.at = IF sq_call[t].tries + 1 < LRSC_TRIES
                                            THEN "lock" ELSE "abort",
                                     !.tries = sq_call[t].tries + 1]
  <2>1. c \in Calls /\ c.at \notin Inside /\ c.at # "sc"
    <3>1. sq_call[t].tries + 1 \in Nat
      BY <1>1 DEF Calls
    <3>2. c \in Calls
      BY <1>1, <3>1, Zenon DEF Calls
    <3>3. c.at \in {"lock", "abort"}
      BY <1>1 DEF Calls
    <3> QED
      BY <3>2, <3>3 DEF Inside
  <2>2. /\ sq_call' = [sq_call EXCEPT ![t] = c]
        /\ UNCHANGED <<sq_kind, sq_lock, sq_resv>>
    BY <1>4, Zenon DEF StoreConditional
  <2> HIDE DEF c
  <2>3. LockExcludes' /\ HeldLocked' /\ ResvFresh'
    BY <1>4, <2>1, <2>2, QuietStep, Zenon
  <2>4. sqTypeOK'
    BY <2>1, <2>2, CallTyped DEF sqInv, sqTypeOK, StoreConditional
  <2> QED
    BY <2>3, <2>4 DEF sqInv
<1> QED
  BY <1>3, <1>4

\* The release of the lock.
LEMMA ReleaseInv == ASSUME sqInv, NEW t \in Users, spinlock_release(t) PROVE sqInv'
<1> DEFINE c == Frame(sq_call[t].fn, "idle", NoJob, sq_call[t].ret, sq_call[t].taken)
<1>1. sq_call[t] \in Calls /\ sq_kind \in Kinds
  BY DEF sqInv, sqTypeOK
<1>2. c \in Calls /\ c.at = "idle"
  BY <1>1 DEF Calls, Frame
<1>3. sq_call' = [sq_call EXCEPT ![t] = c]
  BY DEF spinlock_release
<1> HIDE DEF c
<1>4. \A u \in Users : sq_call'[u] = IF u = t THEN c ELSE sq_call[u]
  BY <1>2, <1>3, CallTyped, Zenon DEF sqInv
<1>5. sq_lock' \in Int
  BY <1>1, LockValues DEF spinlock_release
<1>6. sqTypeOK'
  BY <1>2, <1>3, <1>5, CallTyped DEF sqInv, sqTypeOK, spinlock_release
<1>7. \A u \in Users : sq_call'[u].at \notin Inside
  BY <1>2, <1>4 DEF sqInv, LockExcludes, Inside, spinlock_release
<1>8. LockExcludes' /\ HeldLocked'
  BY <1>7 DEF LockExcludes, HeldLocked
<1>9. ResvFresh'
  BY <1>2, <1>4 DEF sqInv, ResvFresh, spinlock_release
<1> QED
  BY <1>6, <1>8, <1>9 DEF sqInv

\* The body of queue_try_enqueue.
LEMMA EnqueueInv == ASSUME sqInv, NEW t \in Users, queue_try_enqueue(t) PROVE sqInv'
<1>1. sq_call[t] \in Calls /\ t \notin sq_resv
  BY DEF sqInv, sqTypeOK, ResvFresh, queue_try_enqueue
<1>2. UNCHANGED <<sq_kind, sq_lock, sq_tail, sq_resv>>
  BY DEF queue_try_enqueue
<1>3. PICK c \in Calls : /\ sq_call' = [sq_call EXCEPT ![t] = c]
                         /\ c.at \in Inside /\ sq_call[t].at \in Inside
  <2>1. CASE sq_call[t].at = "enter"
    <3> DEFINE c == [sq_call[t] EXCEPT !.at = IF Full(sq_head, sq_tail) THEN "release" ELSE "copy"]
    <3>1. c \in Calls /\ c.at \in Inside
      BY <1>1 DEF Calls, Inside
    <3>2. sq_call' = [sq_call EXCEPT ![t] = c]
      BY <2>1 DEF queue_try_enqueue, sqGoto
    <3> QED
      BY <2>1, <3>1, <3>2, Zenon DEF Inside
  <2>2. CASE sq_call[t].at = "copy"
    <3> DEFINE c == [sq_call[t] EXCEPT !.at = "advance"]
    <3>1. c \in Calls /\ c.at \in Inside
      BY <1>1 DEF Calls, Inside
    <3>2. sq_call' = [sq_call EXCEPT ![t] = c]
      BY <2>2 DEF queue_try_enqueue, sqGoto
    <3> QED
      BY <2>2, <3>1, <3>2, Zenon DEF Inside
  <2>3. CASE sq_call[t].at = "advance"
    <3> DEFINE c == [sq_call[t] EXCEPT !.at = "release", !.ret = 1]
    <3>1. c \in Calls /\ c.at \in Inside
      BY <1>1, Zenon DEF Calls, Inside
    <3>2. sq_call' = [sq_call EXCEPT ![t] = c]
      BY <2>3, Zenon DEF queue_try_enqueue
    <3> QED
      BY <2>3, <3>1, <3>2, Zenon DEF Inside
  <2> QED
    BY <2>1, <2>2, <2>3 DEF queue_try_enqueue
<1>4. c.at # "sc"
  BY <1>3 DEF Inside
<1>5. LockExcludes' /\ HeldLocked' /\ ResvFresh'
  BY <1>1, <1>2, <1>3, <1>4, QuietStep, Zenon
<1>6. sq_head' \in 0 .. QUEUE_SIZE - 1
  BY WrapIndex DEF sqInv, sqTypeOK, queue_try_enqueue
<1>7. sq_data' \in [0 .. QUEUE_SIZE - 1 -> Jobs \cup {NoJob}]
  BY <1>1 DEF sqInv, sqTypeOK, queue_try_enqueue, Calls
<1>8. sqTypeOK'
  BY <1>2, <1>3, <1>6, <1>7, CallTyped DEF sqInv, sqTypeOK
<1> QED
  BY <1>5, <1>8 DEF sqInv

\* The body of queue_try_dequeue.
LEMMA DequeueInv == ASSUME sqInv, NEW t \in Users, queue_try_dequeue(t) PROVE sqInv'
<1>1. sq_call[t] \in Calls /\ t \notin sq_resv
  BY DEF sqInv, sqTypeOK, ResvFresh, queue_try_dequeue
<1>2. UNCHANGED <<sq_kind, sq_lock, sq_head, sq_data, sq_resv>>
  BY DEF queue_try_dequeue
<1>3. PICK c \in Calls : /\ sq_call' = [sq_call EXCEPT ![t] = c]
                         /\ c.at \in Inside /\ sq_call[t].at \in Inside
  <2>1. CASE sq_call[t].at = "enter"
    <3> DEFINE c == [sq_call[t] EXCEPT !.at = IF sq_head = sq_tail THEN "release" ELSE "copy"]
    <3>1. c \in Calls /\ c.at \in Inside
      BY <1>1 DEF Calls, Inside
    <3>2. sq_call' = [sq_call EXCEPT ![t] = c]
      BY <2>1 DEF queue_try_dequeue, sqGoto
    <3> QED
      BY <2>1, <3>1, <3>2, Zenon DEF Inside
  <2>2. CASE sq_call[t].at = "copy"
    <3> DEFINE c == [sq_call[t] EXCEPT !.at = "advance", !.word = sq_data[sq_tail]]
    <3>1. sq_data[sq_tail] \in Jobs \cup {NoJob}
      BY DEF sqInv, sqTypeOK
    <3>2. c \in Calls /\ c.at \in Inside
      BY <1>1, <3>1, Zenon DEF Calls, Inside
    <3>3. sq_call' = [sq_call EXCEPT ![t] = c]
      BY <2>2, Zenon DEF queue_try_dequeue
    <3> QED
      BY <2>2, <3>2, <3>3, Zenon DEF Inside
  <2>3. CASE sq_call[t].at = "advance"
    <3> DEFINE c == [sq_call[t] EXCEPT !.at = "release", !.ret = 1, !.taken = sq_call[t].word]
    <3>1. c \in Calls /\ c.at \in Inside
      BY <1>1, Zenon DEF Calls, Inside
    <3>2. sq_call' = [sq_call EXCEPT ![t] = c]
      BY <2>3, Zenon DEF queue_try_dequeue
    <3> QED
      BY <2>3, <3>1, <3>2, Zenon DEF Inside
  <2> QED
    BY <2>1, <2>2, <2>3 DEF queue_try_dequeue
<1>4. c.at # "sc"
  BY <1>3 DEF Inside
<1>5. LockExcludes' /\ HeldLocked' /\ ResvFresh'
  BY <1>1, <1>2, <1>3, <1>4, QuietStep, Zenon
<1>6. sq_tail' \in 0 .. QUEUE_SIZE - 1
  BY WrapIndex DEF sqInv, sqTypeOK, queue_try_dequeue
<1>7. sqTypeOK'
  BY <1>2, <1>3, <1>6, CallTyped DEF sqInv, sqTypeOK
<1> QED
  BY <1>5, <1>7 DEF sqInv

\* The body of queue_isempty.
LEMMA IsEmptyInv == ASSUME sqInv, NEW t \in Users, queue_isempty(t) PROVE sqInv'
<1>1. sq_call[t] \in Calls /\ t \notin sq_resv
  BY DEF sqInv, sqTypeOK, ResvFresh, queue_isempty
<1>2. UNCHANGED <<sq_kind, sq_lock, sq_head, sq_tail, sq_data, sq_resv>>
  BY DEF queue_isempty
<1>3. PICK c \in Calls : /\ sq_call' = [sq_call EXCEPT ![t] = c]
                         /\ c.at \notin Inside /\ c.at # "sc"
  <2>1. CASE sq_call[t].at = "read_head"
    <3> DEFINE c == [sq_call[t] EXCEPT !.at = "read_tail", !.old = sq_head]
    <3>1. sq_head \in Int
      BY SpinAssumption DEF sqInv, sqTypeOK
    <3>2. c \in Calls /\ c.at = "read_tail"
      BY <1>1, <3>1, Zenon DEF Calls
    <3>3. sq_call' = [sq_call EXCEPT ![t] = c]
      BY <2>1, Zenon DEF queue_isempty
    <3> QED
      BY <3>2, <3>3, Zenon DEF Inside
  <2>2. CASE sq_call[t].at = "read_tail"
    <3> DEFINE c == Frame("queue_isempty", "idle", NoJob,
                          IF sq_call[t].old = sq_tail THEN 1 ELSE 0, sq_call[t].taken)
    <3>1. c \in Calls /\ c.at = "idle"
      BY <1>1 DEF Calls, Frame
    <3>2. sq_call' = [sq_call EXCEPT ![t] = c]
      BY <2>2 DEF queue_isempty
    <3> QED
      BY <3>1, <3>2, Zenon DEF Inside
  <2> QED
    BY <2>1, <2>2 DEF queue_isempty
<1>4. LockExcludes' /\ HeldLocked' /\ ResvFresh'
  BY <1>1, <1>2, <1>3, QuietStep, Zenon
<1>5. sqTypeOK'
  BY <1>2, <1>3, CallTyped DEF sqInv, sqTypeOK
<1> QED
  BY <1>4, <1>5 DEF sqInv

\* Every step keeps the invariant.
LEMMA StepInv == sqInv /\ [sqNext]_sqVars => sqInv'
<1> SUFFICES ASSUME sqInv, [sqNext]_sqVars PROVE sqInv'
  OBVIOUS
<1>1. CASE UNCHANGED sqVars
  BY <1>1 DEF sqVars, sqInv, sqTypeOK, LockExcludes, HeldLocked, ResvFresh
<1>2. ASSUME NEW t \in Users, sqStep(t) PROVE sqInv'
  BY <1>2, TryInv, LoadReservedInv, StoreConditionalInv, ReleaseInv, EnqueueInv, DequeueInv,
     IsEmptyInv DEF sqStep, spinlock_wait
<1>3. ASSUME NEW t \in Users, NEW w \in Jobs, sqCall(t, "queue_try_enqueue", w) PROVE sqInv'
  BY <1>3, CallInv
<1>4. ASSUME NEW t \in Users, sqCall(t, "queue_try_dequeue", NoJob) PROVE sqInv'
  BY <1>4, CallInv
<1>5. ASSUME NEW t \in Users, sqCall(t, "queue_isempty", NoJob) PROVE sqInv'
  BY <1>5, CallInv
<1> QED
  BY <1>1, <1>2, <1>3, <1>4, <1>5 DEF sqNext

\* Types, for any number of threads, any queue size and every instruction.
THEOREM SpinTypeCorrect == sqSpec => []sqTypeOK
<1>1. sqInv => sqTypeOK
  BY DEF sqInv
<1> QED
  BY <1>1, InitInv, StepInv, PTL DEF sqSpec

\* For any number of threads, whichever instruction spinlock_trywait is built from: at
\* most one thread is between spinlock_wait and the end of spinlock_release.
THEOREM SpinlockExcludes == sqSpec => []LockExcludes
<1>1. sqInv => LockExcludes
  BY DEF sqInv
<1> QED
  BY <1>1, InitInv, StepInv, PTL DEF sqSpec

-----------------------------------------------------------------------------
(* The queue under the lock is a FIFO queue *)

\* Remainders of what is less than twice the divisor.
LEMMA ModOnce ==
  ASSUME NEW q \in Nat, q > 1, NEW x \in 0 .. q + q - 1
  PROVE  x % q = IF x < q THEN x ELSE x - q
<1>1. CASE x < q
  BY <1>1
<1>2. CASE x >= q
  <2>1. PICK y \in 0 .. q - 1 : x = y + q
    <3>1. x - q \in 0 .. q - 1 /\ x = (x - q) + q
      BY <1>2
    <3> QED
      BY <3>1
  <2>2. (y + q) % q = y
    OBVIOUS
  <2> QED
    BY <1>2, <2>1, <2>2
<1> QED
  BY <1>1, <1>2

\* A function on 1 .. n is a sequence of length n.
LEMMA FunctionIsSeq ==
  ASSUME NEW S, NEW n \in Nat, NEW f \in [1 .. n -> S]
  PROVE  f \in Seq(S) /\ Len(f) = n
OBVIOUS

\* How many entries there are between the indexes, and the slot of the i-th.
Size(h, t) == IF h >= t THEN h - t ELSE h - t + QUEUE_SIZE
Slot(t, i) == IF t + i - 1 < QUEUE_SIZE THEN t + i - 1 ELSE t + i - 1 - QUEUE_SIZE
Queued(h, t, d) == [i \in 1 .. Size(h, t) |-> d[Slot(t, i)]]

Indexes == 0 .. QUEUE_SIZE - 1

\* Slots are taken modulo the size.
LEMMA SizeSlot ==
  ASSUME NEW h \in Indexes, NEW t \in Indexes
  PROVE  /\ (h - t + QUEUE_SIZE) % QUEUE_SIZE = Size(h, t)
         /\ Size(h, t) \in Indexes
         /\ \A i \in 1 .. Size(h, t) : /\ (t + i - 1) % QUEUE_SIZE = Slot(t, i)
                                       /\ Slot(t, i) \in Indexes /\ Slot(t, i) # h
         /\ Full(h, t) <=> Wrap(h) = t
         /\ Wrap(h) = t <=> Size(h, t) = QUEUE_SIZE - 1
         /\ h = t <=> Size(h, t) = 0
         /\ Slot(t, Size(h, t) + 1) = h
         /\ Slot(t, 1) = t
<1>1. h - t + QUEUE_SIZE \in 0 .. QUEUE_SIZE + QUEUE_SIZE - 1
  BY SpinAssumption DEF Indexes
<1>2. (h - t + QUEUE_SIZE) % QUEUE_SIZE = Size(h, t)
  <2> DEFINE x == h - t + QUEUE_SIZE
  <2>1. x \in 0 .. QUEUE_SIZE + QUEUE_SIZE - 1
    BY <1>1
  <2>2. Size(h, t) = IF x < QUEUE_SIZE THEN x ELSE x - QUEUE_SIZE
    BY SpinAssumption DEF Indexes, Size
  <2> HIDE DEF x
  <2>3. x % QUEUE_SIZE = IF x < QUEUE_SIZE THEN x ELSE x - QUEUE_SIZE
    BY <2>1, ModOnce, SpinAssumption, Zenon
  <2> QED
    BY <2>2, <2>3 DEF x
<1>3. Size(h, t) \in Indexes
  BY SpinAssumption DEF Indexes, Size
<1>4. ASSUME NEW i \in 1 .. Size(h, t)
      PROVE  /\ (t + i - 1) % QUEUE_SIZE = Slot(t, i)
             /\ Slot(t, i) \in Indexes /\ Slot(t, i) # h
  <2>1. t + i - 1 \in 0 .. QUEUE_SIZE + QUEUE_SIZE - 1
    BY <1>3, SpinAssumption DEF Indexes
  <2>2. (t + i - 1) % QUEUE_SIZE = Slot(t, i)
    <3> DEFINE x == t + i - 1
    <3>1. x \in 0 .. QUEUE_SIZE + QUEUE_SIZE - 1
      BY <2>1
    <3> HIDE DEF x
    <3>2. x % QUEUE_SIZE = IF x < QUEUE_SIZE THEN x ELSE x - QUEUE_SIZE
      BY <3>1, ModOnce, SpinAssumption, Zenon
    <3>3. x = t + i - 1
      BY DEF x
    <3>4. Slot(t, i) = IF x < QUEUE_SIZE THEN x ELSE x - QUEUE_SIZE
      BY <1>3, <3>3, SpinAssumption DEF Slot, Indexes
    <3> QED
      BY <3>2, <3>3, <3>4
  <2>3. Slot(t, i) \in Indexes /\ Slot(t, i) # h
    BY <1>3, SpinAssumption DEF Indexes, Slot, Size
  <2> QED
    BY <2>2, <2>3
<1>5. Full(h, t) <=> Wrap(h) = t
  <2>1. CASE h - t + QUEUE_SIZE + 1 \in 0 .. QUEUE_SIZE + QUEUE_SIZE - 1
    <3> DEFINE x == h - t + QUEUE_SIZE + 1
    <3>1. x \in 0 .. QUEUE_SIZE + QUEUE_SIZE - 1
      BY <2>1
    <3> HIDE DEF x
    <3>2. x % QUEUE_SIZE = IF x < QUEUE_SIZE THEN x ELSE x - QUEUE_SIZE
      BY <3>1, ModOnce, SpinAssumption, Zenon
    <3>3. Full(h, t) <=> (IF x < QUEUE_SIZE THEN x ELSE x - QUEUE_SIZE) = 0
      BY <3>2 DEF Full, x
    <3>4. (IF x < QUEUE_SIZE THEN x ELSE x - QUEUE_SIZE) = 0 <=> Wrap(h) = t
      BY <2>1, SpinAssumption DEF Wrap, Indexes, x
    <3> QED
      BY <3>3, <3>4
  <2>2. CASE h = QUEUE_SIZE - 1 /\ t = 0
    <3>1. h - t + QUEUE_SIZE + 1 = QUEUE_SIZE + QUEUE_SIZE
      BY <2>2, SpinAssumption
    <3>2. (QUEUE_SIZE + QUEUE_SIZE) % QUEUE_SIZE = 0
      BY SpinAssumption
    <3>3. Full(h, t)
      BY <3>1, <3>2 DEF Full
    <3>4. Wrap(h) = t
      BY <2>2, SpinAssumption DEF Wrap
    <3> QED
      BY <3>3, <3>4
  <2>3. h - t + QUEUE_SIZE + 1 \in 0 .. QUEUE_SIZE + QUEUE_SIZE - 1 \/ (h = QUEUE_SIZE - 1 /\ t = 0)
    BY SpinAssumption DEF Indexes
  <2> QED
    BY <2>1, <2>2, <2>3
<1>6. Wrap(h) = t <=> Size(h, t) = QUEUE_SIZE - 1
  BY SpinAssumption DEF Indexes, Wrap, Size
<1>7. /\ h = t <=> Size(h, t) = 0
      /\ Slot(t, Size(h, t) + 1) = h
      /\ Slot(t, 1) = t
  BY SpinAssumption DEF Indexes, Size, Slot
<1> QED
  BY <1>2, <1>3, <1>4, <1>5, <1>6, <1>7

\* The refinement mapping without remainders.
LEMMA ContentOf ==
  ASSUME NEW h \in Indexes, NEW t \in Indexes, NEW d
  PROVE  [i \in 1 .. (h - t + QUEUE_SIZE) % QUEUE_SIZE |-> d[(t + i - 1) % QUEUE_SIZE]]
           = Queued(h, t, d)
<1>1. \A i \in 1 .. Size(h, t) : (t + i - 1) % QUEUE_SIZE = Slot(t, i)
  BY SizeSlot
<1>2. (h - t + QUEUE_SIZE) % QUEUE_SIZE = Size(h, t)
  BY SizeSlot
<1> QED
  BY <1>1, <1>2 DEF Queued

\* The content of the queue, entry by entry.
LEMMA ContentIs ==
  ASSUME sqTypeOK
  PROVE  sqContent = Queued(sq_head, sq_tail, sq_data)
<1>1. sq_head \in Indexes /\ sq_tail \in Indexes
  BY DEF sqTypeOK, Indexes
<1> QED
  BY <1>1, ContentOf DEF sqContent

\* The content after a step.
LEMMA ContentBecomes ==
  ASSUME sqTypeOK'
  PROVE  sqContent' = Queued(sq_head', sq_tail', sq_data')
<1>1. sq_head' \in Indexes /\ sq_tail' \in Indexes
  BY DEF sqTypeOK, Indexes
<1> QED
  BY <1>1, ContentOf DEF sqContent

\* An entry in the slot at head, which then moves on, is at the end of the queue.
LEMMA QueuePut ==
  ASSUME NEW h \in Indexes, NEW t \in Indexes, NEW d \in [Indexes -> Jobs \cup {NoJob}],
         Wrap(h) # t
  PROVE  /\ Queued(Wrap(h), t, d) = Append(Queued(h, t, d), d[h])
         /\ Len(Queued(h, t, d)) < QUEUE_SIZE - 1
<1> DEFINE n == Size(h, t)
           s == Queued(h, t, d)
<1>1. n \in Nat /\ n < QUEUE_SIZE - 1
  <2>1. n \in Indexes /\ n # QUEUE_SIZE - 1
    BY SizeSlot
  <2> HIDE DEF n
  <2> QED
    BY <2>1, SpinAssumption DEF Indexes
<1>2. s \in [1 .. n -> Jobs \cup {NoJob}]
  BY SizeSlot DEF Queued
<1>3. s \in Seq(Jobs \cup {NoJob}) /\ Len(s) = n
  BY <1>1, <1>2, FunctionIsSeq
<1>4. Size(Wrap(h), t) = n + 1
  BY SpinAssumption DEF Indexes, Wrap, Size
<1>5. Slot(t, n + 1) = h
  BY SizeSlot
<1>6. d[h] \in Jobs \cup {NoJob}
  OBVIOUS
<1>7. Queued(Wrap(h), t, d) = [i \in 1 .. n + 1 |-> d[Slot(t, i)]]
  BY <1>4 DEF Queued
<1>8. s = [i \in 1 .. n |-> d[Slot(t, i)]]
  BY DEF Queued
<1> HIDE DEF n, s
<1>9. [i \in 1 .. n + 1 |-> d[Slot(t, i)]] = Append(s, d[h])
  BY <1>1, <1>3, <1>5, <1>6, <1>8
<1> QED
  BY <1>1, <1>3, <1>7, <1>9, Zenon DEF s

\* Tail moves on: the oldest entry is gone.
LEMMA QueueTake ==
  ASSUME NEW h \in Indexes, NEW t \in Indexes, NEW d \in [Indexes -> Jobs \cup {NoJob}],
         h # t
  PROVE  /\ Queued(h, t, d) # <<>>
         /\ Head(Queued(h, t, d)) = d[t]
         /\ Queued(h, Wrap(t), d) = Tail(Queued(h, t, d))
<1> DEFINE n == Size(h, t)
           s == Queued(h, t, d)
<1>1. n \in Nat /\ n > 0
  <2>1. n \in Indexes /\ n # 0
    BY SizeSlot
  <2> HIDE DEF n
  <2> QED
    BY <2>1, SpinAssumption DEF Indexes
<1>2. s \in [1 .. n -> Jobs \cup {NoJob}]
  BY SizeSlot DEF Queued
<1>3. s \in Seq(Jobs \cup {NoJob}) /\ Len(s) = n
  BY <1>1, <1>2, FunctionIsSeq
<1>4. Size(h, Wrap(t)) = n - 1
  BY SpinAssumption DEF Indexes, Wrap, Size
<1>5. \A i \in 1 .. n - 1 : Slot(Wrap(t), i) = Slot(t, i + 1)
  <2>1. n \in Indexes
    BY SizeSlot
  <2> HIDE DEF n
  <2> QED
    BY <1>1, <2>1, SpinAssumption DEF Indexes, Wrap, Slot
<1>6. s[1] = d[t]
  BY <1>1, SizeSlot DEF Queued
<1>7. Queued(h, Wrap(t), d) = [i \in 1 .. n - 1 |-> d[Slot(Wrap(t), i)]]
  BY <1>4 DEF Queued
<1>8. s = [i \in 1 .. n |-> d[Slot(t, i)]]
  BY DEF Queued
<1> HIDE DEF n, s
<1>9. [i \in 1 .. n - 1 |-> d[Slot(Wrap(t), i)]] = Tail(s)
  BY <1>1, <1>3, <1>5, <1>8
<1>10. s # <<>> /\ Head(s) = d[t]
  BY <1>1, <1>3, <1>6
<1> QED
  BY <1>7, <1>9, <1>10 DEF s

\* The length of the queue, full and empty.
LEMMA QueueLen ==
  ASSUME NEW h \in Indexes, NEW t \in Indexes, NEW d \in [Indexes -> Jobs \cup {NoJob}]
  PROVE  /\ Wrap(h) = t => Len(Queued(h, t, d)) = QUEUE_SIZE - 1
         /\ h = t => Queued(h, t, d) = <<>>
<1>0. Size(h, t) \in Indexes
  BY SizeSlot
<1>1. Size(h, t) \in Nat
  BY <1>0, SpinAssumption DEF Indexes
<1>2. Queued(h, t, d) \in [1 .. Size(h, t) -> Jobs \cup {NoJob}]
  BY SizeSlot DEF Queued
<1>3. Len(Queued(h, t, d)) = Size(h, t)
  BY <1>1, <1>2, FunctionIsSeq
<1>4. /\ Wrap(h) = t <=> Size(h, t) = QUEUE_SIZE - 1
      /\ h = t <=> Size(h, t) = 0
  BY SizeSlot
<1>5. h = t => Queued(h, t, d) = <<>>
  BY <1>4 DEF Queued
<1> QED
  BY <1>3, <1>4, <1>5

\* Changing a function at one point.
LEMMA ChangedAt ==
  ASSUME NEW S, NEW f, NEW g, NEW x \in S, NEW v,
         f = [u \in S |-> f[u]], g = [u \in S |-> g[u]],
         \A u \in S : g[u] = IF u = x THEN v ELSE f[u]
  PROVE  g = [f EXCEPT ![x] = v]
OBVIOUS

\* What the callers know.
Talks == [u \in Users |-> sqTalk(sq_call[u])]

\* A call that is open, and one that has been answered.
LEMMA TalkOf ==
  ASSUME NEW c
  PROVE  /\ c.at \notin {"release", "idle"} =>
              /\ c.fn = "queue_try_enqueue" => sqTalk(c) = SQ!Asked("enqueue", c.word)
              /\ c.fn = "queue_try_dequeue" => sqTalk(c) = SQ!Asked("dequeue", NoJob)
         /\ c.at \in {"release", "idle"} =>
              /\ c.fn = "queue_try_enqueue" =>
                   sqTalk(c) = [fn |-> "enqueue", offers |-> NoJob,
                                answer |-> IF c.ret = 1 THEN "put" ELSE "full"]
              /\ c.fn = "queue_try_dequeue" =>
                   sqTalk(c) = [fn |-> "dequeue", offers |-> NoJob,
                                answer |-> IF c.ret = 1 THEN "taken" ELSE "empty"]
         /\ c.fn \notin {"queue_try_enqueue", "queue_try_dequeue"} =>
              sqTalk(c) = SQ!Asked("none", NoJob)
BY Zenon DEF sqTalk, SQ!Asked

\* The step of a thread changes what this thread knows.
LEMMA TalkBecomes ==
  ASSUME sqTypeOK, NEW t \in Users, NEW c \in Calls, sq_call' = [sq_call EXCEPT ![t] = c]
  PROVE  /\ Talks' = [Talks EXCEPT ![t] = sqTalk(c)]
         /\ Talks[t] = sqTalk(sq_call[t])
         /\ sqTalk(c) = sqTalk(sq_call[t]) => Talks' = Talks
<1>1. \A u \in Users : sq_call'[u] = IF u = t THEN c ELSE sq_call[u]
  BY CallTyped, Zenon
<1>2. Talks' = [u \in Users |-> sqTalk(sq_call'[u])]
  BY Zenon DEF Talks
<1>3. Talks' = [Talks EXCEPT ![t] = sqTalk(c)]
  <2>1. \A u \in Users : Talks'[u] = IF u = t THEN sqTalk(c) ELSE Talks[u]
    BY <1>1, <1>2 DEF Talks
  <2>2. Talks = [u \in Users |-> Talks[u]] /\ Talks' = [u \in Users |-> Talks'[u]]
    BY <1>2 DEF Talks
  <2> HIDE DEF Talks
  <2> QED
    BY <2>1, <2>2, ChangedAt, Zenon
<1>4. sqTalk(c) = sqTalk(sq_call[t]) => Talks' = Talks
  BY <1>1, <1>2 DEF Talks
<1> QED
  BY <1>3, <1>4, Zenon DEF Talks

\* The inductive invariant of the refinement.
QueueInv == sqInv /\ StillTrue

\* A step that leaves the queue alone and whose call knows what it needs.
LEMMA QuietQueue ==
  ASSUME QueueInv, NEW t \in Users, NEW c \in Calls,
         sq_call' = [sq_call EXCEPT ![t] = c], c.taken = sq_call[t].taken,
         Found(c, sq_head, sq_tail, sq_data),
         UNCHANGED <<sq_head, sq_tail, sq_data>>
  PROVE  /\ StillTrue' /\ UNCHANGED SQ!fifoVars
         /\ sqTalk(c) = sqTalk(sq_call[t]) => [SQ!AtomicNext]_SQ!atomicVars
<1>1. \A u \in Users : sq_call'[u] = IF u = t THEN c ELSE sq_call[u]
  BY CallTyped, Zenon DEF QueueInv, sqInv
<1>2. \A u \in Users : Found(sq_call'[u], sq_head, sq_tail, sq_data)
  BY <1>1 DEF QueueInv, StillTrue
<1>3. StillTrue'
  BY <1>2 DEF StillTrue
<1>4. sqContent' = sqContent
  BY DEF sqContent
<1>5. [u \in Users |-> sq_call[u].taken]' = [u \in Users |-> sq_call[u].taken]
  BY <1>1
<1>6. UNCHANGED SQ!fifoVars
  BY <1>4, <1>5 DEF SQ!fifoVars
<1>7. sqTalk(c) = sqTalk(sq_call[t]) => Talks' = Talks
  BY TalkBecomes, Zenon DEF QueueInv, sqInv
<1>8. sqTalk(c) = sqTalk(sq_call[t]) => UNCHANGED SQ!atomicVars
  BY <1>6, <1>7, Zenon DEF SQ!atomicVars, Talks
<1> QED
  BY <1>3, <1>6, <1>8, Zenon

\* The calls begin, the lock is taken and given back, and queue_isempty reads: nothing
\* happens to the queue.
LEMMA OutsideQueue ==
  ASSUME QueueInv, NEW t \in Users,
         \/ \E w \in Jobs : sqCall(t, "queue_try_enqueue", w)
         \/ sqCall(t, "queue_try_dequeue", NoJob) \/ sqCall(t, "queue_isempty", NoJob)
         \/ spinlock_wait(t) \/ spinlock_release(t) \/ queue_isempty(t)
  PROVE  StillTrue' /\ [SQ!AtomicNext]_SQ!atomicVars
<1>1. sq_call[t] \in Calls /\ sq_head \in Int /\ sq_lock \in Int
  BY SpinAssumption DEF QueueInv, sqInv, sqTypeOK
<1>2. Found(sq_call[t], sq_head, sq_tail, sq_data)
  BY DEF QueueInv, StillTrue
<1>3. UNCHANGED <<sq_head, sq_tail, sq_data>>
  BY DEF sqCall, spinlock_wait, TryWait, LoadReserved, StoreConditional, spinlock_release,
         queue_isempty
<1>4. ASSUME NEW c \in Calls, sq_call' = [sq_call EXCEPT ![t] = c], c.taken = sq_call[t].taken,
             c.fn = sq_call[t].fn, c.word = sq_call[t].word, c.ret = sq_call[t].ret,
             \/ c.at \in {"enter", "lock", "sc", "abort"}
             \/ c.at = "read_tail" /\ sq_call[t].at = "read_head",
             sq_call[t].at \notin {"release", "idle"}
      PROVE  StillTrue' /\ [SQ!AtomicNext]_SQ!atomicVars
  <2>1. Found(c, sq_head, sq_tail, sq_data)
    BY <1>2, <1>4 DEF Found
  <2>2. sqTalk(c) = sqTalk(sq_call[t])
    BY <1>4, TalkOf, Zenon
  <2> QED
    BY <1>3, <1>4, <2>1, <2>2, QuietQueue, Zenon
<1>5. ASSUME NEW c \in Calls, sq_call' = [sq_call EXCEPT ![t] = c], c.taken = sq_call[t].taken,
             c.at = "idle", sqTalk(c) = sqTalk(sq_call[t])
      PROVE  StillTrue' /\ [SQ!AtomicNext]_SQ!atomicVars
  <2>1. Found(c, sq_head, sq_tail, sq_data)
    BY <1>5 DEF Found
  <2> QED
    BY <1>3, <1>5, <2>1, QuietQueue, Zenon
<1>6. ASSUME NEW f \in {"queue_try_enqueue", "queue_try_dequeue", "queue_isempty"},
             NEW w \in Jobs \cup {NoJob}, f = "queue_try_enqueue" => w \in Jobs,
             sqCall(t, f, w)
      PROVE  StillTrue' /\ [SQ!AtomicNext]_SQ!atomicVars
  <2> DEFINE c == Frame(f, IF f = "queue_isempty" THEN "read_head" ELSE "lock", w, 0,
                        sq_call[t].taken)
  <2>1. c \in Calls /\ c.taken = sq_call[t].taken
    BY <1>1 DEF Calls, Inside, Frame
  <2>2. Found(c, sq_head, sq_tail, sq_data)
    BY <1>6 DEF Found, Frame
  <2>3. sq_call' = [sq_call EXCEPT ![t] = c]
    BY <1>6 DEF sqCall
  <2>4. /\ c.fn = f /\ c.word = w /\ c.at \notin {"release", "idle"}
        /\ sq_call[t].at = "idle"
    BY <1>6 DEF Frame, sqCall, sqIdle
  <2> HIDE DEF c
  <2>5. StillTrue' /\ UNCHANGED SQ!fifoVars
    BY <1>3, <2>1, <2>2, <2>3, QuietQueue, Zenon
  <2>6. Talks[t].fn = "none" \/ Talks[t].answer # "none"
    <3>1. Talks[t] = sqTalk(sq_call[t])
      BY DEF Talks
    <3>2. sqTalk(sq_call[t]).fn = "none" \/ sqTalk(sq_call[t]).answer # "none"
      BY <2>4 DEF sqTalk
    <3> QED
      BY <3>1, <3>2
  <2>7. Talks' = [Talks EXCEPT ![t] = sqTalk(c)]
    BY <2>1, <2>3, TalkBecomes, Zenon DEF QueueInv, sqInv
  <2>8. \/ sqTalk(c) \in {SQ!Asked("none", NoJob), SQ!Asked("dequeue", NoJob)}
        \/ w \in Jobs /\ sqTalk(c) = SQ!Asked("enqueue", w)
    BY <1>6, <2>4, TalkOf, Zenon
  <2>9. SQ!Asks(t)
    BY <2>5, <2>6, <2>7, <2>8, Zenon DEF SQ!Asks, Talks
  <2> QED
    BY <2>5, <2>9, Zenon DEF SQ!AtomicNext
<1>7. CASE TryWait(t)
  <2> DEFINE c == [sq_call[t] EXCEPT !.at = IF sq_lock = INITVAL(sq_kind) THEN "enter" ELSE "lock"]
  <2>1. /\ c \in Calls /\ c.taken = sq_call[t].taken /\ c.fn = sq_call[t].fn
        /\ c.word = sq_call[t].word /\ c.ret = sq_call[t].ret
        /\ c.at \in {"enter", "lock", "sc", "abort"}
    BY <1>1 DEF Calls, Inside
  <2>2. sq_call' = [sq_call EXCEPT ![t] = c] /\ sq_call[t].at \notin {"release", "idle"}
    BY <1>7 DEF TryWait, sqGoto
  <2> QED
    BY <1>4, <2>1, <2>2, Zenon
<1>8. CASE LoadReserved(t)
  <2> DEFINE c == [sq_call[t] EXCEPT !.at = "sc", !.old = sq_lock]
  <2>1. /\ c \in Calls /\ c.taken = sq_call[t].taken /\ c.fn = sq_call[t].fn
        /\ c.word = sq_call[t].word /\ c.ret = sq_call[t].ret
        /\ c.at \in {"enter", "lock", "sc", "abort"}
    BY <1>1, Zenon DEF Calls, Inside
  <2>2. sq_call' = [sq_call EXCEPT ![t] = c] /\ sq_call[t].at \notin {"release", "idle"}
    BY <1>8, Zenon DEF LoadReserved
  <2> QED
    BY <1>4, <2>1, <2>2, Zenon
<1>9. CASE StoreConditional(t)
  <2>1. PICK a \in {"enter", "lock", "abort"}, n \in Nat :
          sq_call' = [sq_call EXCEPT ![t] = [sq_call[t] EXCEPT !.at = a, !.tries = n]]
    <3>0. sq_call[t].tries \in Nat
      BY <1>1, Zenon DEF Calls
    <3>1. sq_call[t].tries + 1 \in Nat
      BY <3>0
    <3>2. CASE t \in sq_resv
      <4> DEFINE a == IF sq_call[t].old = INITVAL(sq_kind) THEN "enter" ELSE "lock"
      <4>1. sq_call' = [sq_call EXCEPT ![t] = [sq_call[t] EXCEPT !.at = a, !.tries = 0]]
        BY <1>9, <3>2, Zenon DEF StoreConditional
      <4>2. a \in {"enter", "lock", "abort"} /\ 0 \in Nat
        BY Zenon
      <4> HIDE DEF a
      <4> QED
        BY <4>1, <4>2, Zenon
    <3>3. CASE t \notin sq_resv
      <4> DEFINE a == IF sq_call[t].tries + 1 < LRSC_TRIES THEN "lock" ELSE "abort"
                 n == sq_call[t].tries + 1
      <4>1. sq_call' = [sq_call EXCEPT ![t] = [sq_call[t] EXCEPT !.at = a, !.tries = n]]
        BY <1>9, <3>3, Zenon DEF StoreConditional
      <4>2. a \in {"enter", "lock", "abort"} /\ n \in Nat
        BY <3>1
      <4> HIDE DEF a, n
      <4> QED
        BY <4>1, <4>2, Zenon
    <3> QED
      BY <3>2, <3>3, Zenon
  <2> DEFINE c == [sq_call[t] EXCEPT !.at = a, !.tries = n]
  <2>2. /\ c \in Calls /\ c.taken = sq_call[t].taken /\ c.fn = sq_call[t].fn
        /\ c.word = sq_call[t].word /\ c.ret = sq_call[t].ret
        /\ c.at \in {"enter", "lock", "sc", "abort"}
    BY <1>1, Zenon DEF Calls, Inside
  <2>3. sq_call' = [sq_call EXCEPT ![t] = c] /\ sq_call[t].at \notin {"release", "idle"}
    BY <1>9, <2>1 DEF StoreConditional
  <2> QED
    BY <1>4, <2>2, <2>3, Zenon
<1>10. CASE spinlock_release(t)
  <2> DEFINE c == Frame(sq_call[t].fn, "idle", NoJob, sq_call[t].ret, sq_call[t].taken)
  <2>1. /\ c \in Calls /\ c.taken = sq_call[t].taken /\ c.at = "idle"
        /\ c.fn = sq_call[t].fn /\ c.ret = sq_call[t].ret
    BY <1>1 DEF Calls, Frame
  <2>2. sq_call' = [sq_call EXCEPT ![t] = c] /\ sq_call[t].at = "release"
    BY <1>10 DEF spinlock_release
  <2> HIDE DEF c
  <2>3. sqTalk(c) = sqTalk(sq_call[t])
    BY <2>1, <2>2, TalkOf, Zenon
  <2> QED
    BY <1>5, <2>1, <2>2, <2>3, Zenon
<1>11. CASE queue_isempty(t) /\ sq_call[t].at = "read_head"
  <2> DEFINE c == [sq_call[t] EXCEPT !.at = "read_tail", !.old = sq_head]
  <2>1. /\ c \in Calls /\ c.taken = sq_call[t].taken /\ c.fn = sq_call[t].fn
        /\ c.word = sq_call[t].word /\ c.ret = sq_call[t].ret
        /\ c.at = "read_tail"
    BY <1>1, Zenon DEF Calls, Inside
  <2>2. sq_call' = [sq_call EXCEPT ![t] = c] /\ sq_call[t].at \notin {"release", "idle"}
    BY <1>11, Zenon DEF queue_isempty
  <2> HIDE DEF c
  <2> QED
    BY <1>4, <1>11, <2>1, <2>2, Zenon
<1>12. CASE queue_isempty(t) /\ sq_call[t].at = "read_tail"
  <2> DEFINE c == Frame("queue_isempty", "idle", NoJob,
                        IF sq_call[t].old = sq_tail THEN 1 ELSE 0, sq_call[t].taken)
  <2>1. /\ c \in Calls /\ c.taken = sq_call[t].taken /\ c.at = "idle"
        /\ c.fn = "queue_isempty"
    BY <1>1 DEF Calls, Frame
  <2>2. sq_call' = [sq_call EXCEPT ![t] = c]
    BY <1>12 DEF queue_isempty
  <2> HIDE DEF c
  <2>3. sq_call[t].fn = "queue_isempty"
    BY <1>2, <1>12 DEF Found
  <2>4. sqTalk(c) = sqTalk(sq_call[t])
    BY <1>12, <2>1, <2>3, TalkOf, Zenon
  <2> QED
    BY <1>5, <2>1, <2>2, <2>4, ZenonT(60)
<1>13. queue_isempty(t) => sq_call[t].at \in {"read_head", "read_tail"}
  BY DEF queue_isempty
<1> QED
  BY <1>6, <1>7, <1>8, <1>9, <1>10, <1>11, <1>12, <1>13 DEF spinlock_wait

\* While t is inside, what the others have found out is only the word they bring.
LEMMA OthersOutside ==
  ASSUME QueueInv, NEW t \in Users, sq_call[t].at \in Inside, NEW u \in Users, u # t,
         NEW h, NEW k, NEW d
  PROVE  Found(sq_call[u], h, k, d)
<1>1. sq_call[u].at \notin Inside
  BY DEF QueueInv, sqInv, LockExcludes
<1>2. sq_call[u].at \notin {"copy", "advance"}
  BY <1>1 DEF Inside
<1>3. Found(sq_call[u], sq_head, sq_tail, sq_data)
  BY DEF QueueInv, StillTrue
<1> QED
  BY <1>2, <1>3 DEF Found

\* queue_try_enqueue: the entry comes in when head moves on.
LEMMA EnqueueQueue ==
  ASSUME QueueInv, NEW t \in Users, queue_try_enqueue(t)
  PROVE  StillTrue' /\ [SQ!AtomicNext]_SQ!atomicVars
<1>0. sq_call[t] \in Calls
  BY DEF QueueInv, sqInv, sqTypeOK
<1>1. /\ sq_head \in Indexes /\ sq_tail \in Indexes
      /\ sq_data \in [Indexes -> Jobs \cup {NoJob}]
  BY DEF QueueInv, sqInv, sqTypeOK, Indexes
<1>2. Found(sq_call[t], sq_head, sq_tail, sq_data) /\ sq_call[t].fn = "queue_try_enqueue"
  BY DEF QueueInv, StillTrue, queue_try_enqueue
<1>3. Talks[t].fn = "enqueue" /\ Talks[t].offers = sq_call[t].word /\ Talks[t].answer = "none"
  <2>1. sq_call[t].at \notin {"release", "idle"}
    BY DEF queue_try_enqueue
  <2>2. Talks[t] = SQ!Asked("enqueue", sq_call[t].word)
    BY <1>2, <2>1, TalkOf, Zenon DEF Talks
  <2> QED
    BY <2>2 DEF SQ!Asked
<1>4. CASE sq_call[t].at = "enter"
  <2> DEFINE c == [sq_call[t] EXCEPT !.at = IF Full(sq_head, sq_tail) THEN "release" ELSE "copy"]
  <2>1. /\ c \in Calls /\ c.taken = sq_call[t].taken /\ c.fn = sq_call[t].fn
        /\ c.word = sq_call[t].word /\ c.ret = sq_call[t].ret
        /\ c.at = IF Full(sq_head, sq_tail) THEN "release" ELSE "copy"
    BY <1>0 DEF Calls, Inside
  <2>2. sq_call' = [sq_call EXCEPT ![t] = c] /\ UNCHANGED <<sq_head, sq_tail, sq_data>>
    BY <1>4 DEF queue_try_enqueue, sqGoto
  <2>3. Full(sq_head, sq_tail) <=> Wrap(sq_head) = sq_tail
    BY <1>1, SizeSlot
  <2> HIDE DEF c
  <2>4. Found(c, sq_head, sq_tail, sq_data)
    BY <1>2, <1>4, <2>1, <2>3 DEF Found
  <2>5. StillTrue' /\ UNCHANGED SQ!fifoVars
    BY <2>1, <2>2, <2>4, QuietQueue, Zenon
  <2>6. CASE ~Full(sq_head, sq_tail)
    <3>1. sqTalk(c) = sqTalk(sq_call[t])
      BY <1>2, <1>4, <2>1, <2>6, TalkOf, Zenon
    <3> QED
      BY <2>1, <2>2, <2>4, <3>1, QuietQueue, Zenon
  <2>7. CASE Full(sq_head, sq_tail)
    <3>1. c.ret # 1 /\ c.at = "release" /\ c.fn = "queue_try_enqueue"
      BY <1>2, <1>4, <2>1, <2>7 DEF Found
    <3>2. sqTalk(c) = [fn |-> "enqueue", offers |-> NoJob, answer |-> "full"]
      BY <3>1, TalkOf, Zenon
    <3>3. Len(sqContent) = QUEUE_SIZE - 1
      <4>1. sqContent = Queued(sq_head, sq_tail, sq_data)
        BY ContentIs DEF QueueInv, sqInv
      <4> QED
        BY <1>1, <2>3, <2>7, <4>1, QueueLen
    <3>4. SQ!Answers(t, "enqueue", "full")
      BY <1>3, <2>1, <2>2, <3>2, TalkBecomes, ZenonT(60) DEF SQ!Answers, Talks, QueueInv, sqInv
    <3>5. SQ!FullNow(t)
      BY <2>5, <3>3, <3>4, Zenon DEF SQ!FullNow
    <3> QED
      BY <2>5, <3>5, Zenon DEF SQ!AtomicNext
  <2> QED
    BY <2>6, <2>7
<1>5. CASE sq_call[t].at = "copy"
  <2> DEFINE c == [sq_call[t] EXCEPT !.at = "advance"]
             d == [sq_data EXCEPT ![sq_head] = sq_call[t].word]
  <2>1. /\ c \in Calls /\ c.taken = sq_call[t].taken /\ c.fn = sq_call[t].fn
        /\ c.word = sq_call[t].word /\ c.ret = sq_call[t].ret /\ c.at = "advance"
    BY <1>0 DEF Calls, Inside
  <2>2. sq_call' = [sq_call EXCEPT ![t] = c] /\ UNCHANGED <<sq_head, sq_tail>> /\ sq_data' = d
    BY <1>5 DEF queue_try_enqueue, sqGoto
  <2>3. d \in [Indexes -> Jobs \cup {NoJob}] /\ d[sq_head] = sq_call[t].word
    BY <1>0, <1>1 DEF Calls
  <2>4. \A i \in Indexes : i # sq_head => d[i] = sq_data[i]
    BY <1>1
  <2> HIDE DEF c, d
  <2>5. \A u \in Users : sq_call'[u] = IF u = t THEN c ELSE sq_call[u]
    BY <2>1, <2>2, CallTyped, Zenon DEF QueueInv, sqInv
  <2>6. Found(c, sq_head, sq_tail, d)
    BY <1>2, <1>5, <2>1, <2>3 DEF Found
  <2>7. \A u \in Users : Found(sq_call'[u], sq_head, sq_tail, d)
    BY <1>5, <2>5, <2>6, OthersOutside DEF Inside
  <2>8. StillTrue'
    BY <2>2, <2>7 DEF StillTrue
  <2>9. Queued(sq_head, sq_tail, d) = Queued(sq_head, sq_tail, sq_data)
    <3>1. \A i \in 1 .. Size(sq_head, sq_tail) :
            Slot(sq_tail, i) \in Indexes /\ Slot(sq_tail, i) # sq_head
      BY <1>1, SizeSlot
    <3> QED
      BY <2>4, <3>1 DEF Queued
  <2>10. sqTypeOK /\ sqTypeOK'
    BY EnqueueInv DEF QueueInv, sqInv
  <2>11. sqContent' = sqContent
    <3>1. sqContent = Queued(sq_head, sq_tail, sq_data)
      BY <2>10, ContentIs
    <3>2. sqContent' = Queued(sq_head', sq_tail', sq_data')
      BY <2>10, ContentBecomes
    <3> QED
      BY <2>2, <2>9, <3>1, <3>2
  <2>12. [u \in Users |-> sq_call[u].taken]' = [u \in Users |-> sq_call[u].taken]
    BY <2>1, <2>5
  <2>13. UNCHANGED SQ!fifoVars
    BY <2>11, <2>12 DEF SQ!fifoVars
  <2>14. sqTalk(c) = sqTalk(sq_call[t])
    BY <1>2, <1>5, <2>1, TalkOf, Zenon
  <2>15. Talks' = Talks
    BY <2>1, <2>2, <2>14, TalkBecomes, Zenon DEF QueueInv, sqInv
  <2> QED
    BY <2>8, <2>13, <2>15, Zenon DEF SQ!atomicVars, Talks
<1>6. CASE sq_call[t].at = "advance"
  <2> DEFINE c == [sq_call[t] EXCEPT !.at = "release", !.ret = 1]
  <2>1. /\ c \in Calls /\ c.taken = sq_call[t].taken /\ c.fn = sq_call[t].fn
        /\ c.word = sq_call[t].word /\ c.ret = 1 /\ c.at = "release"
    BY <1>0, Zenon DEF Calls, Inside
  <2>2. /\ sq_call' = [sq_call EXCEPT ![t] = c] /\ UNCHANGED <<sq_tail, sq_data>>
        /\ sq_head' = Wrap(sq_head)
    BY <1>6, Zenon DEF queue_try_enqueue
  <2> HIDE DEF c
  <2>3. \A u \in Users : sq_call'[u] = IF u = t THEN c ELSE sq_call[u]
    BY <2>1, <2>2, CallTyped, Zenon DEF QueueInv, sqInv
  <2>4. Found(c, Wrap(sq_head), sq_tail, sq_data)
    BY <1>2, <1>6, <2>1 DEF Found
  <2>5. \A u \in Users : Found(sq_call'[u], Wrap(sq_head), sq_tail, sq_data)
    BY <1>6, <2>3, <2>4, OthersOutside DEF Inside
  <2>6. StillTrue'
    BY <2>2, <2>5 DEF StillTrue
  <2>7. /\ Wrap(sq_head) # sq_tail /\ sq_data[sq_head] = sq_call[t].word
        /\ sq_call[t].word \in Jobs
    BY <1>2, <1>6 DEF Found
  <2>8. /\ Queued(Wrap(sq_head), sq_tail, sq_data)
            = Append(Queued(sq_head, sq_tail, sq_data), sq_call[t].word)
        /\ Len(Queued(sq_head, sq_tail, sq_data)) < QUEUE_SIZE - 1
    BY <1>1, <2>7, QueuePut
  <2>9. sqTypeOK /\ sqTypeOK'
    BY EnqueueInv DEF QueueInv, sqInv
  <2>10. sqContent = Queued(sq_head, sq_tail, sq_data)
    BY <2>9, ContentIs
  <2>11. sqContent' = Queued(sq_head', sq_tail', sq_data')
    BY <2>9, ContentBecomes
  <2>12. [u \in Users |-> sq_call[u].taken]' = [u \in Users |-> sq_call[u].taken]
    BY <2>1, <2>3
  <2>13. sqContent' = Append(sqContent, sq_call[t].word) /\ Len(sqContent) < QUEUE_SIZE - 1
    BY <2>2, <2>8, <2>10, <2>11
  <2>14. SQ!Put(sq_call[t].word)
    BY <2>12, <2>13 DEF SQ!Put
  <2>15. sqTalk(c) = [fn |-> "enqueue", offers |-> NoJob, answer |-> "put"]
    BY <1>2, <2>1, TalkOf, Zenon
  <2>16. SQ!Answers(t, "enqueue", "put")
    BY <1>3, <2>1, <2>2, <2>15, TalkBecomes, Zenon DEF SQ!Answers, Talks, QueueInv, sqInv
  <2>17. SQ!Enqueued(t)
    BY <1>3, <2>14, <2>16, Zenon DEF SQ!Enqueued, Talks
  <2> QED
    BY <2>6, <2>17, Zenon DEF SQ!AtomicNext
<1> QED
  BY <1>4, <1>5, <1>6 DEF queue_try_enqueue

\* queue_try_dequeue: the oldest entry goes out, to this thread, when tail moves on.
LEMMA DequeueQueue ==
  ASSUME QueueInv, NEW t \in Users, queue_try_dequeue(t)
  PROVE  StillTrue' /\ [SQ!AtomicNext]_SQ!atomicVars
<1>0. sq_call[t] \in Calls
  BY DEF QueueInv, sqInv, sqTypeOK
<1>1. /\ sq_head \in Indexes /\ sq_tail \in Indexes
      /\ sq_data \in [Indexes -> Jobs \cup {NoJob}]
  BY DEF QueueInv, sqInv, sqTypeOK, Indexes
<1>2. Found(sq_call[t], sq_head, sq_tail, sq_data) /\ sq_call[t].fn = "queue_try_dequeue"
  BY DEF QueueInv, StillTrue, queue_try_dequeue
<1>3. Talks[t].fn = "dequeue" /\ Talks[t].answer = "none"
  <2>1. sq_call[t].at \notin {"release", "idle"}
    BY DEF queue_try_dequeue
  <2>2. Talks[t] = SQ!Asked("dequeue", NoJob)
    BY <1>2, <2>1, TalkOf, Zenon DEF Talks
  <2> QED
    BY <2>2 DEF SQ!Asked
<1>4. CASE sq_call[t].at = "enter"
  <2> DEFINE c == [sq_call[t] EXCEPT !.at = IF sq_head = sq_tail THEN "release" ELSE "copy"]
  <2>1. /\ c \in Calls /\ c.taken = sq_call[t].taken /\ c.fn = sq_call[t].fn
        /\ c.ret = sq_call[t].ret
        /\ c.at = IF sq_head = sq_tail THEN "release" ELSE "copy"
    BY <1>0 DEF Calls, Inside
  <2>2. sq_call' = [sq_call EXCEPT ![t] = c] /\ UNCHANGED <<sq_head, sq_tail, sq_data>>
    BY <1>4 DEF queue_try_dequeue, sqGoto
  <2> HIDE DEF c
  <2>3. Found(c, sq_head, sq_tail, sq_data)
    BY <1>2, <1>4, <2>1 DEF Found
  <2>4. StillTrue' /\ UNCHANGED SQ!fifoVars
    BY <2>1, <2>2, <2>3, QuietQueue, Zenon
  <2>5. CASE sq_head # sq_tail
    <3>1. sqTalk(c) = sqTalk(sq_call[t])
      BY <1>2, <1>4, <2>1, <2>5, TalkOf, Zenon
    <3> QED
      BY <2>1, <2>2, <2>3, <3>1, QuietQueue, Zenon
  <2>6. CASE sq_head = sq_tail
    <3>1. c.ret # 1 /\ c.at = "release" /\ c.fn = "queue_try_dequeue"
      BY <1>2, <1>4, <2>1, <2>6 DEF Found
    <3>2. sqTalk(c) = [fn |-> "dequeue", offers |-> NoJob, answer |-> "empty"]
      BY <3>1, TalkOf, Zenon
    <3>3. sqContent = <<>>
      <4>1. sqContent = Queued(sq_head, sq_tail, sq_data)
        BY ContentIs DEF QueueInv, sqInv
      <4> QED
        BY <1>1, <2>6, <4>1, QueueLen
    <3>4. SQ!Answers(t, "dequeue", "empty")
      BY <1>3, <2>1, <2>2, <3>2, TalkBecomes, ZenonT(60) DEF SQ!Answers, Talks, QueueInv, sqInv
    <3>5. SQ!EmptyNow(t)
      BY <2>4, <3>3, <3>4, Zenon DEF SQ!EmptyNow
    <3> QED
      BY <2>4, <3>5, Zenon DEF SQ!AtomicNext
  <2> QED
    BY <2>5, <2>6
<1>5. CASE sq_call[t].at = "copy"
  <2> DEFINE c == [sq_call[t] EXCEPT !.at = "advance", !.word = sq_data[sq_tail]]
  <2>1. sq_data[sq_tail] \in Jobs \cup {NoJob}
    BY <1>1
  <2>2. /\ c \in Calls /\ c.taken = sq_call[t].taken /\ c.fn = sq_call[t].fn
        /\ c.word = sq_data[sq_tail] /\ c.ret = sq_call[t].ret /\ c.at = "advance"
    BY <1>0, <2>1, Zenon DEF Calls, Inside
  <2>3. sq_call' = [sq_call EXCEPT ![t] = c] /\ UNCHANGED <<sq_head, sq_tail, sq_data>>
    BY <1>5, Zenon DEF queue_try_dequeue
  <2> HIDE DEF c
  <2>4. Found(c, sq_head, sq_tail, sq_data)
    BY <1>2, <1>5, <2>2 DEF Found
  <2>5. sqTalk(c) = sqTalk(sq_call[t])
    BY <1>2, <1>5, <2>2, TalkOf, Zenon
  <2> QED
    BY <2>2, <2>3, <2>4, <2>5, QuietQueue, Zenon
<1>6. CASE sq_call[t].at = "advance"
  <2> DEFINE c == [sq_call[t] EXCEPT !.at = "release", !.ret = 1, !.taken = sq_call[t].word]
  <2>1. /\ c \in Calls /\ c.taken = sq_call[t].word /\ c.fn = sq_call[t].fn /\ c.at = "release"
        /\ c.ret = 1
    BY <1>0, Zenon DEF Calls, Inside
  <2>2. /\ sq_call' = [sq_call EXCEPT ![t] = c] /\ UNCHANGED <<sq_head, sq_data>>
        /\ sq_tail' = Wrap(sq_tail)
    BY <1>6, Zenon DEF queue_try_dequeue
  <2> HIDE DEF c
  <2>3. \A u \in Users : sq_call'[u] = IF u = t THEN c ELSE sq_call[u]
    BY <2>1, <2>2, CallTyped, Zenon DEF QueueInv, sqInv
  <2>4. Found(c, sq_head, Wrap(sq_tail), sq_data)
    BY <1>2, <1>6, <2>1 DEF Found
  <2>5. \A u \in Users : Found(sq_call'[u], sq_head, Wrap(sq_tail), sq_data)
    BY <1>6, <2>3, <2>4, OthersOutside DEF Inside
  <2>6. StillTrue'
    BY <2>2, <2>5 DEF StillTrue
  <2>7. sq_head # sq_tail /\ sq_data[sq_tail] = sq_call[t].word
    BY <1>2, <1>6 DEF Found
  <2>8. /\ Queued(sq_head, sq_tail, sq_data) # <<>>
        /\ Head(Queued(sq_head, sq_tail, sq_data)) = sq_call[t].word
        /\ Queued(sq_head, Wrap(sq_tail), sq_data) = Tail(Queued(sq_head, sq_tail, sq_data))
    BY <1>1, <2>7, QueueTake
  <2>9. sqTypeOK /\ sqTypeOK'
    BY DequeueInv DEF QueueInv, sqInv
  <2>10. sqContent = Queued(sq_head, sq_tail, sq_data)
    BY <2>9, ContentIs
  <2>11. sqContent' = Queued(sq_head', sq_tail', sq_data')
    BY <2>9, ContentBecomes
  <2>12. [u \in Users |-> sq_call[u].taken]'
           = [[u \in Users |-> sq_call[u].taken] EXCEPT ![t] = sq_call[t].word]
    BY <2>1, <2>3, Zenon
  <2>13. sqContent # <<>> /\ Head(sqContent) = sq_call[t].word /\ sqContent' = Tail(sqContent)
    BY <2>2, <2>8, <2>10, <2>11
  <2>14. SQ!Take(t)
    BY <2>12, <2>13, Zenon DEF SQ!Take
  <2>15. sqTalk(c) = [fn |-> "dequeue", offers |-> NoJob, answer |-> "taken"]
    BY <1>2, <2>1, TalkOf, Zenon
  <2>16. SQ!Answers(t, "dequeue", "taken")
    BY <1>3, <2>1, <2>2, <2>15, TalkBecomes, ZenonT(60) DEF SQ!Answers, Talks, QueueInv, sqInv
  <2>17. SQ!Dequeued(t)
    BY <2>14, <2>16, Zenon DEF SQ!Dequeued
  <2> QED
    BY <2>6, <2>17, Zenon DEF SQ!AtomicNext
<1> QED
  BY <1>4, <1>5, <1>6 DEF queue_try_dequeue

\* The initial states are empty queues.
LEMMA QueueStarts == (\E k \in Kinds : sqInit(k)) => StillTrue /\ SQ!AtomicInit
<1> SUFFICES ASSUME NEW k \in Kinds, sqInit(k) PROVE StillTrue /\ SQ!AtomicInit
  OBVIOUS
<1>1. sqTypeOK
  BY InitInv DEF sqInv
<1>2. sqContent = Queued(sq_head, sq_tail, sq_data)
  BY <1>1, ContentIs
<1>3. Size(sq_head, sq_tail) = 0
  BY DEF sqInit, Size
<1>4. sqContent = <<>>
  BY <1>2, <1>3 DEF Queued
<1>5. \A t \in Users : sq_call[t] = NoOp
  BY DEF sqInit
<1>6. StillTrue
  <2>1. NoOp.fn = "none" /\ NoOp.at = "idle"
    BY DEF NoOp, Frame
  <2>2. \A t \in Users : Found(sq_call[t], sq_head, sq_tail, sq_data)
    BY <1>5, <2>1 DEF Found
  <2> QED
    BY <2>2 DEF StillTrue
<1>7. [t \in Users |-> sq_call[t].taken] = [t \in Users |-> NoJob]
  BY <1>5 DEF NoOp, Frame
<1>8. [t \in Users |-> sqTalk(sq_call[t])] = [t \in Users |-> SQ!Asked("none", NoJob)]
  <2>1. sqTalk(NoOp) = SQ!Asked("none", NoJob)
    <3>1. NoOp.fn = "none"
      BY DEF NoOp, Frame
    <3> QED
      BY <3>1, TalkOf
  <2> QED
    BY <1>5, <2>1
<1> QED
  BY <1>4, <1>6, <1>7, <1>8 DEF SQ!AtomicInit, SQ!FifoInit

\* Every step is a step of the queue or a stutter.
LEMMA QueueSteps ==
  QueueInv /\ [sqNext]_sqVars => StillTrue' /\ [SQ!AtomicNext]_SQ!atomicVars
<1> SUFFICES ASSUME QueueInv, [sqNext]_sqVars PROVE StillTrue' /\ [SQ!AtomicNext]_SQ!atomicVars
  OBVIOUS
<1>1. CASE UNCHANGED sqVars
  BY <1>1 DEF sqVars, QueueInv, StillTrue, Found, sqContent, sqTalk, SQ!fifoVars, SQ!atomicVars
<1>2. ASSUME NEW t \in Users, sqStep(t) PROVE StillTrue' /\ [SQ!AtomicNext]_SQ!atomicVars
  BY <1>2, OutsideQueue, EnqueueQueue, DequeueQueue DEF sqStep
<1>3. ASSUME NEW t \in Users,
             \/ \E w \in Jobs : sqCall(t, "queue_try_enqueue", w)
             \/ sqCall(t, "queue_try_dequeue", NoJob) \/ sqCall(t, "queue_isempty", NoJob)
      PROVE  StillTrue' /\ [SQ!AtomicNext]_SQ!atomicVars
  BY <1>3, OutsideQueue
<1> QED
  BY <1>1, <1>2, <1>3 DEF sqNext

\* For any number of threads, any queue size and every instruction: what the threads do
\* under the spinlock is a first-in first-out queue of QUEUE_SIZE - 1 entries.  Every enqueue
\* and dequeue is answered once: with its own entry in the queue, or a queue that is full at
\* that instant; with the oldest entry, taken by this thread alone, or a queue that is empty.
THEOREM SpinQueueRefined == sqSpec => SpinIsQueue
<1>1. (\E k \in Kinds : sqInit(k)) => QueueInv /\ SQ!AtomicInit
  BY InitInv, QueueStarts DEF QueueInv
<1>2. QueueInv /\ [sqNext]_sqVars => QueueInv' /\ [SQ!AtomicNext]_SQ!atomicVars
  BY StepInv, QueueSteps DEF QueueInv
<1> QED
  BY <1>1, <1>2, PTL DEF sqSpec, SpinIsQueue, SQ!AtomicSpec

-----------------------------------------------------------------------------
(***************************************************************************)
(* The eviction port never loses a message and its credit register is      *)
(* exact, for every block size and both kinds of output queue.             *)
(***************************************************************************)

\* What a pipeline register can hold.
Latches == {<< >>} \cup {<<m>> : m \in scMessages}

USE SourceCAssumption

\* A pipeline register holds at most one message.
LEMMA LatchLength ==
  ASSUME NEW l \in Latches
  PROVE  /\ l \in Seq(scMessages)
         /\ Len(l) \in {0, 1}
         /\ l = << >> <=> Len(l) = 0
<1>1. CASE l = << >>
  BY <1>1
<1>2. ASSUME NEW m \in scMessages, l = <<m>>
      PROVE  l \in Seq(scMessages) /\ Len(l) = 1 /\ l # << >>
  BY <1>2
<1> QED BY <1>1, <1>2 DEF Latches

\* While room is granted at most three messages are under way.
LEMMA FewInFlight ==
  ASSUME NEW q \in Nat, NEW m \in {0, 1}, NEW n \in {0, 1}, q <= 1
  PROVE  /\ q + m + n <= 3
         /\ q + m + n + (Beats - 0) <= Beats + 3
  OBVIOUS

\* Every beat of a block is a message.
LEMMA BeatsAreMessages ==
  /\ Header \in scMessages
  /\ \A b \in 0 .. Beats - 1 : BeatOf(b) \in scMessages
  BY DEF scMessages

\* One cycle of queue and pipeline: the queue and s3 hold what they held and
\* s2 moves up; the credit stays exact as long as the queue cannot be full
\* when s3 holds a message.
LEMMA ShiftKeeps ==
  ASSUME scInv, NEW latched \in Latches, NEW c_ready \in BOOLEAN,
         Shift(latched, c_ready)
  PROVE  /\ sc_queue' \in Seq(scMessages)
         /\ Len(sc_queue') \in Nat
         /\ Len(sc_queue') <= Len(sc_queue) + Len(sc_s3)
         /\ Len(sc_queue') <= scEntries
         /\ fill' = Len(sc_queue')
         /\ room' = (Len(sc_queue') <= 1)
         /\ room' \in BOOLEAN
         /\ sc_lost' = FALSE
         /\ sc_s3' = sc_s2
         /\ sc_s2' = latched
         /\ LET q == sc_queue \o sc_s3
            IN  sc_queue' = q \/ (q # << >> /\ sc_queue' = Tail(q))
<1> DEFINE enq == EnqFires
           deq == DeqFires(c_ready)
           grown == IF enq THEN sc_queue \o sc_s3 ELSE sc_queue
<1>1. /\ sc_queue \in Seq(scMessages) /\ Len(sc_queue) \in Nat
      /\ sc_s3 \in Latches /\ sc_s2 \in Latches
      /\ fill = Len(sc_queue)
      /\ room = (Len(sc_queue) <= 1)
      /\ sc_lost = FALSE
  BY DEF scInv, scTypeOK, Latches, RoomIsCredit, NothingLost
<1>2. /\ Len(sc_s3) \in {0, 1} /\ Len(sc_s2) \in {0, 1}
      /\ sc_s3 \in Seq(scMessages)
      /\ sc_s3 = << >> <=> Len(sc_s3) = 0
  BY <1>1, LatchLength
<1>3. Len(sc_queue) + Len(sc_s3) <= Beats + 3
  <2>1. Len(sc_queue) + Len(sc_s2) + Len(sc_s3) + (IF sc_busy THEN Beats - sc_beat ELSE 0)
          <= Beats + 3
    BY DEF scInv
  <2>2. sc_busy \in BOOLEAN /\ sc_beat \in 0 .. Beats - 1
    BY DEF scInv, scTypeOK
  <2> QED BY <1>1, <1>2, <2>1, <2>2
<1>4. scEntries \in Nat /\ scEntries >= Beats + 3
  BY DEF scEntries
<1>5. enq <=> sc_s3 # << >>
  BY <1>1, <1>2, <1>3, <1>4 DEF EnqFires
<1>6. /\ grown \in Seq(scMessages)
      /\ Len(grown) = Len(sc_queue) + Len(sc_s3)
  <2>1. CASE enq
    BY <2>1, <1>1, <1>2, ConcatProperties
  <2>2. CASE ~enq
    BY <2>2, <1>1, <1>2, <1>5
  <2> QED BY <2>1, <2>2
<1>7. deq => grown # << >>
  BY <1>1, <1>2, <1>5, <1>6, SMTT(60) DEF DeqFires
<1>8. /\ sc_queue' = IF deq THEN Tail(grown) ELSE grown
      /\ TrackFill(enq, deq)
      /\ sc_lost' = (sc_lost \/ (sc_s3 # << >> /\ ~enq))
      /\ sc_s3' = sc_s2
      /\ sc_s2' = latched
  BY DEF Shift
<1>9. /\ sc_queue' \in Seq(scMessages)
      /\ Len(sc_queue') = Len(grown) - (IF deq THEN 1 ELSE 0)
      /\ Len(sc_queue') \in Nat
  <2>1. CASE deq
    <3>1. Tail(grown) \in Seq(scMessages) /\ Len(Tail(grown)) = Len(grown) - 1
      BY <2>1, <1>6, <1>7, HeadTailProperties
    <3>2. sc_queue' = Tail(grown)
      BY <2>1, <1>8
    <3> QED BY <2>1, <3>1, <3>2, LenProperties
  <2>2. CASE ~deq
    BY <2>2, <1>6, <1>8, LenProperties
  <2> QED BY <2>1, <2>2
<1>15. grown = sc_queue \o sc_s3
  BY <1>1, <1>5, ConcatEmptySeq
<1>16. sc_queue' = grown \/ (grown # << >> /\ sc_queue' = Tail(grown))
  BY <1>7, <1>8
<1> HIDE DEF enq, deq, grown
<1>10. enq \in BOOLEAN /\ deq \in BOOLEAN
  BY DEF enq, deq, EnqFires, DeqFires
<1>11. Len(sc_s3) = IF enq THEN 1 ELSE 0
  BY <1>2, <1>5
<1>12. sc_lost' = FALSE
  BY <1>1, <1>5, <1>8, Zenon
<1>13. /\ fill' = Len(sc_queue')
       /\ room' = (Len(sc_queue') <= 1)
       /\ room' \in BOOLEAN
  <2>1. CASE enq /\ ~deq
    <3>1. Len(sc_queue') = Len(sc_queue) + 1
      BY <2>1, <1>1, <1>6, <1>9, <1>11
    <3>2. /\ fill' = (fill + 1) % FillMod
          /\ room' = RoomAfter(TRUE)
      BY <2>1, <1>8, Zenon DEF TrackFill, RoomAfter
    <3>3. fill + 1 < FillMod
      BY <1>1, <1>3, <1>11, <2>1
    <3> QED BY <3>1, <3>2, <3>3, <1>1 DEF RoomAfter
  <2>2. CASE ~enq /\ deq
    <3>1. Len(sc_queue') = Len(sc_queue) - 1 /\ Len(sc_queue) > 0
      BY <2>2, <1>1, <1>6, <1>9, <1>11
    <3>2. /\ fill' = (fill + (FillMod - 1)) % FillMod
          /\ room' = RoomAfter(FALSE)
      BY <2>2, <1>8, Zenon DEF TrackFill, RoomAfter
    <3>3. fill > 0 /\ fill < FillMod
      BY <1>1, <1>3, <1>2, <3>1
    <3>4. (fill + (FillMod - 1)) % FillMod = fill - 1
      BY <3>3, <1>1
    <3> QED BY <3>1, <3>2, <3>4, <1>1 DEF RoomAfter
  <2>3. CASE enq = deq
    <3>1. Len(sc_queue') = Len(sc_queue)
      BY <2>3, <1>1, <1>6, <1>9, <1>10, <1>11
    <3>2. fill' = fill /\ room' = room
      BY <2>3, <1>8 DEF TrackFill
    <3> QED BY <3>1, <3>2, <1>1
  <2> QED BY <2>1, <2>2, <2>3, <1>10
<1>14. /\ Len(sc_queue') <= Len(sc_queue) + Len(sc_s3)
       /\ Len(sc_queue') <= scEntries
  BY <1>1, <1>2, <1>3, <1>4, <1>6, <1>9
<1> QED BY <1>8, <1>9, <1>12, <1>13, <1>14, <1>15, <1>16

\* The credit invariant is inductive.
LEMMA CreditInductive ==
  ASSUME scInv, [scNext]_scVars
  PROVE  scInv'
<1>1. CASE UNCHANGED scVars
  BY <1>1 DEF scVars, scInv, scTypeOK, RoomIsCredit, NothingLost
<1>2. ASSUME NEW c_ready \in BOOLEAN,
             \/ AcceptHeader(c_ready)
             \/ \E evict_safe, bs_ready \in BOOLEAN :
                  ReadBeat(evict_safe, bs_ready, c_ready)
             \/ scIdle(c_ready)
      PROVE  scInv'
  <2>1. /\ sc_busy \in BOOLEAN /\ sc_beat \in 0 .. Beats - 1
        /\ ~sc_busy => sc_beat = 0
        /\ sc_s3 \in Latches /\ sc_s2 \in Latches
        /\ Len(sc_queue) \in Nat
        /\ room = (Len(sc_queue) <= 1)
        /\ Len(sc_queue) + Len(sc_s2) + Len(sc_s3)
             + (IF sc_busy THEN Beats - sc_beat ELSE 0) <= Beats + 3
    BY DEF scInv, scTypeOK, Latches, RoomIsCredit
  <2>2. Len(sc_s3) \in {0, 1} /\ Len(sc_s2) \in {0, 1}
    BY <2>1, LatchLength
  <2>3. ASSUME NEW latched \in Latches, Shift(latched, c_ready),
               sc_busy' \in BOOLEAN, sc_beat' \in 0 .. Beats - 1,
               ~sc_busy' => sc_beat' = 0,
               Len(sc_queue) + Len(sc_s3) + Len(sc_s2) + Len(latched)
                 + (IF sc_busy' THEN Beats - sc_beat' ELSE 0) <= Beats + 3
        PROVE  scInv'
    <3>1. /\ sc_queue' \in Seq(scMessages)
          /\ Len(sc_queue') \in Nat
          /\ Len(sc_queue') <= Len(sc_queue) + Len(sc_s3)
          /\ Len(sc_queue') <= scEntries
          /\ fill' = Len(sc_queue')
          /\ room' = (Len(sc_queue') <= 1)
          /\ room' \in BOOLEAN
          /\ sc_lost' = FALSE
          /\ sc_s3' = sc_s2
          /\ sc_s2' = latched
      BY <2>3, ShiftKeeps, Zenon
    <3>2. Len(latched) \in {0, 1} /\ Len(sc_s2') \in {0, 1} /\ Len(sc_s3') \in {0, 1}
      BY <3>1, <2>1, LatchLength
    <3>3. Len(sc_queue') + Len(sc_s2') + Len(sc_s3')
            + (IF sc_busy' THEN Beats - sc_beat' ELSE 0) <= Beats + 3
      BY <2>3, <3>1, <3>2, <2>1, <2>2
    <3>4. fill' \in 0 .. FillMod - 1
      BY <3>1, <3>2, <3>3, <2>3, SMTT(60)
    <3>5. sc_s3' \in Latches /\ sc_s2' \in Latches
      BY <3>1, <2>1
    <3>6. scTypeOK'
      BY <3>1, <3>4, <3>5, <2>3, Zenon DEF scTypeOK, Latches, scMessages, scEntries
    <3> QED BY <3>1, <3>3, <3>6, <2>3 DEF scInv, RoomIsCredit, NothingLost
  <2>4. << >> \in Latches /\ <<Header>> \in Latches
        /\ Len(<< >>) = 0 /\ Len(<<Header>>) = 1
    BY BeatsAreMessages DEF Latches
  <2>5. CASE AcceptHeader(c_ready)
    <3>1. ~sc_busy /\ room /\ sc_busy' = sc_busy /\ sc_beat' = sc_beat
          /\ Shift(<<Header>>, c_ready)
      BY <2>5 DEF AcceptHeader
    <3>2. Len(sc_queue) + Len(sc_s3) + Len(sc_s2) + 1
            + (IF sc_busy' THEN Beats - sc_beat' ELSE 0) <= Beats + 3
      <4>1. Len(sc_queue) <= 1 /\ ~sc_busy'
        BY <3>1, <2>1
      <4>2. Len(sc_queue) + Len(sc_s2) + Len(sc_s3) <= 3
        BY <4>1, <2>1, <2>2, FewInFlight, Zenon
      <4> QED BY <4>1, <4>2, <2>1, <2>2
    <3> QED BY <2>1, <2>3, <2>4, <3>1, <3>2, Zenon
  <2>6. CASE scIdle(c_ready)
    <3>1. ~sc_busy /\ sc_busy' = sc_busy /\ sc_beat' = sc_beat
          /\ Shift(<< >>, c_ready)
      BY <2>6 DEF scIdle
    <3>2. Len(sc_queue) + Len(sc_s3) + Len(sc_s2) + 0
            + (IF sc_busy' THEN Beats - sc_beat' ELSE 0) <= Beats + 3
      BY <3>1, <2>1, <2>2
    <3> QED BY <2>1, <2>3, <2>4, <3>1, <3>2
  <2>7. ASSUME NEW evict_safe \in BOOLEAN, NEW bs_ready \in BOOLEAN,
               ReadBeat(evict_safe, bs_ready, c_ready)
        PROVE  scInv'
    <3> DEFINE fires == (sc_beat # 0 \/ evict_safe) /\ bs_ready
    <3>1. sc_busy \/ room
      BY <2>7 DEF ReadBeat
    <3>2. Len(sc_queue) + Len(sc_s2) + Len(sc_s3) + (Beats - sc_beat) <= Beats + 3
      <4>1. CASE sc_busy
        BY <4>1, <2>1
      <4>2. CASE ~sc_busy
        <5>1. sc_beat = 0 /\ Len(sc_queue) <= 1
          BY <4>2, <3>1, <2>1
        <5> QED BY <5>1, <2>2, FewInFlight, <2>1, Zenon
      <4> QED BY <4>1, <4>2
    <3>3. CASE fires
      <4>1. /\ Shift(<<BeatOf(sc_beat)>>, c_ready)
            /\ sc_beat' = (sc_beat + 1) % Beats
            /\ sc_busy' = ~(sc_beat = Beats - 1)
        BY <2>7, <3>3 DEF ReadBeat
      <4>2. <<BeatOf(sc_beat)>> \in Latches /\ Len(<<BeatOf(sc_beat)>>) = 1
        BY <2>1, BeatsAreMessages DEF Latches
      <4>3. CASE sc_beat = Beats - 1
        <5>1. sc_beat' = 0 /\ sc_busy' = FALSE
          <6>1. (Beats - 1) + 1 = Beats /\ Beats % Beats = 0
            OBVIOUS
          <6> QED BY <4>1, <4>3, <6>1, Zenon
        <5>2. Len(sc_queue) + Len(sc_s3) + Len(sc_s2) + 1 + 0 <= Beats + 3
          BY <3>2, <4>3, <2>1, <2>2
        <5>3. sc_beat' \in 0 .. Beats - 1
          BY <5>1
        <5> QED BY <2>3, <4>1, <4>2, <5>1, <5>2, <5>3, Zenon
      <4>4. CASE sc_beat # Beats - 1
        <5>1. sc_beat' = sc_beat + 1 /\ sc_busy' = TRUE
          <6>1. sc_beat + 1 \in 0 .. Beats - 1
            BY <4>4, <2>1
          <6>2. (sc_beat + 1) % Beats = sc_beat + 1
            BY <6>1
          <6> QED BY <4>1, <4>4, <6>2, Zenon
        <5>2. Len(sc_queue) + Len(sc_s3) + Len(sc_s2) + 1 + (Beats - sc_beat')
                <= Beats + 3
          BY <3>2, <5>1, <2>1, <2>2
        <5>3. sc_beat' \in 0 .. Beats - 1
          BY <5>1, <4>4, <2>1
        <5> QED BY <2>3, <4>1, <4>2, <5>1, <5>2, <5>3, Zenon
      <4> QED BY <4>3, <4>4
    <3>4. CASE ~fires
      <4>1. Shift(<< >>, c_ready) /\ sc_busy' = TRUE /\ sc_beat' = sc_beat
        BY <2>7, <3>4 DEF ReadBeat
      <4>2. Len(sc_queue) + Len(sc_s3) + Len(sc_s2) + 0 + (Beats - sc_beat')
              <= Beats + 3
        BY <3>2, <4>1, <2>1, <2>2
      <4> QED BY <2>1, <2>3, <2>4, <4>1, <4>2
    <3> QED BY <3>3, <3>4
  <2> QED BY <1>2, <2>5, <2>6, <2>7
<1> QED BY <1>1, <1>2 DEF scNext

\* The port starts empty.
LEMMA CreditStarts == scInit => scInv
<1> SUFFICES ASSUME scInit PROVE scInv
  OBVIOUS
<1>1. << >> \in Seq(scMessages) /\ Len(<< >>) = 0
  OBVIOUS
<1>2. scEntries \in Nat
  BY DEF scEntries
<1>3. scTypeOK
  <2>1. sc_queue \in Seq(scMessages) /\ Len(sc_queue) <= scEntries
    BY <1>1, <1>2 DEF scInit
  <2>2. fill \in 0 .. FillMod - 1 /\ sc_beat \in 0 .. Beats - 1
    BY DEF scInit
  <2> QED BY <2>1, <2>2, Zenon DEF scInit, scTypeOK
<1>4. RoomIsCredit /\ NothingLost
  <2>1. Len(sc_queue) <= 1
    BY <1>1 DEF scInit
  <2> QED BY <2>1, Zenon DEF scInit, RoomIsCredit, NothingLost
<1>5. Len(sc_queue) = 0 /\ Len(sc_s2) = 0 /\ Len(sc_s3) = 0
  BY <1>1 DEF scInit
<1> QED BY <1>3, <1>4, <1>5 DEF scInit, scInv

\* The eviction port never meets a full queue (the assertion of line 115) and
\* its registered credit is exact (line 65), whatever the block size, the kind
\* of queue and the stalls of its neighbours.
THEOREM NeverOverflows == scSpec => [](NothingLost /\ RoomIsCredit)
<1>1. scInit => scInv
  BY CreditStarts
<1>2. scInv /\ [scNext]_scVars => scInv'
  BY CreditInductive
<1>3. scInv => NothingLost /\ RoomIsCredit
  BY DEF scInv
<1> QED BY <1>1, <1>2, <1>3, PTL DEF scSpec
-----------------------------------------------------------------------------
(* The beats of a block stay together *)

\* What BeatsTogether says of the messages f that are in flight.
Chain(f, busy, beat) ==
  \A i \in 1 .. Len(f) :
    f[i].data /\ f[i].beat < Beats - 1 =>
      IF i < Len(f) THEN f[i + 1] = BeatOf(f[i].beat + 1)
                    ELSE busy /\ beat = f[i].beat + 1

\* The tail of a concatenation.
LEMMA TailConcat ==
  ASSUME NEW s \in Seq(scMessages), NEW t \in Seq(scMessages), s # << >>
  PROVE  Tail(s) \o t = Tail(s \o t) /\ s \o t # << >>
<1>1. /\ Len(s) \in Nat \ {0} /\ Len(t) \in Nat
      /\ s \o t \in Seq(scMessages) /\ Len(s \o t) = Len(s) + Len(t)
  BY EmptySeq, ConcatProperties, LenProperties
<1>2. s \o t # << >>
  BY <1>1
<1>3. /\ Tail(s) \in Seq(scMessages) /\ Len(Tail(s)) = Len(s) - 1
      /\ \A i \in 1 .. Len(Tail(s)) : Tail(s)[i] = s[i + 1]
  BY HeadTailProperties
<1>4. /\ Tail(s \o t) \in Seq(scMessages) /\ Len(Tail(s \o t)) = Len(s) + Len(t) - 1
      /\ \A i \in 1 .. Len(Tail(s \o t)) : Tail(s \o t)[i] = (s \o t)[i + 1]
  BY <1>1, <1>2, HeadTailProperties
<1>5. /\ Tail(s) \o t \in Seq(scMessages) /\ Len(Tail(s) \o t) = Len(s) - 1 + Len(t)
      /\ \A i \in 1 .. Len(s) - 1 + Len(t) :
           (Tail(s) \o t)[i] = IF i <= Len(s) - 1 THEN Tail(s)[i] ELSE t[i - (Len(s) - 1)]
  BY <1>3, ConcatProperties
<1>6. \A i \in 1 .. Len(s) + Len(t) : (s \o t)[i] = IF i <= Len(s) THEN s[i] ELSE t[i - Len(s)]
  BY ConcatProperties
<1>7. ASSUME NEW i \in 1 .. Len(s) - 1 + Len(t) PROVE (Tail(s) \o t)[i] = Tail(s \o t)[i]
  <2>1. CASE i <= Len(s) - 1
    BY <2>1, <1>1, <1>3, <1>4, <1>5, <1>6
  <2>2. CASE i > Len(s) - 1
    <3>1. i - (Len(s) - 1) = (i + 1) - Len(s)
      BY <1>1
    <3> QED BY <2>2, <3>1, <1>1, <1>4, <1>5, <1>6
  <2> QED BY <2>1, <2>2, <1>1
<1>8. Len(Tail(s) \o t) = Len(Tail(s \o t))
  BY <1>1, <1>4, <1>5
<1> QED BY <1>2, <1>4, <1>5, <1>7, <1>8, SeqEqual

\* A chain without its first beat is one.
LEMMA ChainTail ==
  ASSUME NEW f \in Seq(scMessages), f # << >>, NEW busy, NEW beat, Chain(f, busy, beat)
  PROVE  Chain(Tail(f), busy, beat)
<1>1. /\ Len(f) \in Nat \ {0} /\ Len(Tail(f)) = Len(f) - 1
      /\ \A i \in 1 .. Len(Tail(f)) : Tail(f)[i] = f[i + 1]
  BY HeadTailProperties, EmptySeq
<1> SUFFICES ASSUME NEW i \in 1 .. Len(Tail(f)), Tail(f)[i].data, Tail(f)[i].beat < Beats - 1
             PROVE  IF i < Len(Tail(f)) THEN Tail(f)[i + 1] = BeatOf(Tail(f)[i].beat + 1)
                                        ELSE busy /\ beat = Tail(f)[i].beat + 1
  BY DEF Chain
<1>2. i + 1 \in 1 .. Len(f) /\ Tail(f)[i] = f[i + 1]
  BY <1>1
<1>3. IF i + 1 < Len(f) THEN f[(i + 1) + 1] = BeatOf(f[i + 1].beat + 1)
                        ELSE busy /\ beat = f[i + 1].beat + 1
  BY <1>2 DEF Chain
<1>4. CASE i < Len(Tail(f))
  BY <1>1, <1>2, <1>3, <1>4
<1>5. CASE ~(i < Len(Tail(f)))
  BY <1>1, <1>2, <1>3, <1>5
<1> QED BY <1>4, <1>5

\* A chain that goes on with the beat it is due to.
LEMMA ChainOne ==
  ASSUME NEW f \in Seq(scMessages), NEW m \in scMessages,
         NEW busy, NEW beat, NEW nbusy, NEW nbeat, Chain(f, busy, beat),
         busy /\ beat \in 1 .. Beats - 1 => m = BeatOf(beat),
         m.data /\ m.beat < Beats - 1 => nbusy /\ nbeat = m.beat + 1
  PROVE  Chain(f \o <<m>>, nbusy, nbeat)
<1> DEFINE g == f \o <<m>>
<1>1. /\ Len(f) \in Nat /\ Len(g) = Len(f) + 1 /\ g[Len(f) + 1] = m
      /\ \A i \in 1 .. Len(f) : g[i] = f[i]
  BY AppendProperties, AppendIsConcat, LenProperties
<1>2. \A i \in 1 .. Len(f) : f[i].beat \in 0 .. Beats - 1
  <2>1. \A x \in scMessages : x.beat \in 0 .. Beats - 1
    BY DEF scMessages, Header, BeatOf
  <2> QED BY <2>1, ElementOfSeq
<1> SUFFICES ASSUME NEW i \in 1 .. Len(g), g[i].data, g[i].beat < Beats - 1
             PROVE  IF i < Len(g) THEN g[i + 1] = BeatOf(g[i].beat + 1)
                                  ELSE nbusy /\ nbeat = g[i].beat + 1
  BY DEF Chain
<1> HIDE DEF g
<1>3. CASE i = Len(g)
  BY <1>1, <1>3
<1>4. CASE i < Len(f)
  <2>1. f[i + 1] = BeatOf(f[i].beat + 1)
    BY <1>1, <1>4 DEF Chain
  <2> QED BY <1>1, <1>4, <2>1
<1>5. CASE i = Len(f)
  <2>1. f[i].data /\ f[i].beat < Beats - 1 /\ i \in 1 .. Len(f)
    BY <1>1, <1>5
  <2>2. busy /\ beat = f[i].beat + 1
    BY <2>1, <1>5 DEF Chain
  <2>3. beat \in 1 .. Beats - 1
    BY <1>2, <2>1, <2>2
  <2> QED BY <1>1, <1>5, <2>2, <2>3
<1> QED BY <1>1, <1>3, <1>4, <1>5
\* Messages concatenate to messages.
LEMMA MessagesConcat ==
  \A s, t \in Seq(scMessages) : s \o t \in Seq(scMessages)
  BY ConcatProperties

\* Concatenation of messages is associative.
LEMMA MessagesAssociate ==
  ASSUME NEW s \in Seq(scMessages), NEW t \in Seq(scMessages), NEW u \in Seq(scMessages)
  PROVE  (s \o t) \o u = s \o (t \o u)
  BY ConcatAssociative

\* A cycle of queue and pipeline: what is latched joins the messages in flight, and the oldest
\* of them may leave.
LEMMA FlightShifts ==
  ASSUME scInv, NEW latched \in Latches, NEW c_ready \in BOOLEAN, Shift(latched, c_ready)
  PROVE  LET flight == sc_queue \o sc_s3 \o sc_s2
             next == flight \o latched
         IN  /\ flight \in Seq(scMessages) /\ next \in Seq(scMessages)
             /\ flight' = next \/ (next # << >> /\ flight' = Tail(next))
<1> DEFINE q == sc_queue \o sc_s3
           rest == sc_s2 \o latched
<1>1. /\ sc_queue \in Seq(scMessages) /\ sc_s2 \in Seq(scMessages)
      /\ sc_s3 \in Seq(scMessages) /\ latched \in Seq(scMessages)
  BY LatchLength DEF scInv, scTypeOK, Latches
<1>2. q \in Seq(scMessages) /\ rest \in Seq(scMessages) /\ q \o sc_s2 \in Seq(scMessages)
  BY <1>1, MessagesConcat
<1> HIDE DEF q
<1>3. (q \o sc_s2) \o latched = q \o rest /\ q \o rest \in Seq(scMessages)
  <2>1. q \o rest \in Seq(scMessages)
    BY <1>2, MessagesConcat, Zenon
  <2>2. \A s \in Seq(scMessages) : (s \o sc_s2) \o latched = s \o (sc_s2 \o latched)
    BY <1>1, MessagesAssociate, ZenonT(60)
  <2>3. (q \o sc_s2) \o latched = q \o (sc_s2 \o latched)
    BY <1>2, <2>2, Zenon
  <2> QED BY <2>1, <2>3
<1>4. /\ sc_s3' = sc_s2 /\ sc_s2' = latched
      /\ sc_queue' = q \/ (q # << >> /\ sc_queue' = Tail(q))
      /\ sc_queue' \in Seq(scMessages)
  BY ShiftKeeps, Zenon DEF q
<1>5. (sc_queue' \o sc_s3') \o sc_s2' = sc_queue' \o rest
  <2>1. \A s \in Seq(scMessages) : (s \o sc_s2) \o latched = s \o (sc_s2 \o latched)
    BY <1>1, MessagesAssociate, ZenonT(60)
  <2>2. (sc_queue' \o sc_s2) \o latched = sc_queue' \o (sc_s2 \o latched)
    BY <1>4, <2>1
  <2> QED BY <2>2, <1>4
<1>6. sc_queue' \o rest = q \o rest \/ (q \o rest # << >> /\ sc_queue' \o rest = Tail(q \o rest))
  <2>1. CASE sc_queue' = q
    BY <2>1
  <2>2. CASE q # << >> /\ sc_queue' = Tail(q)
    BY <1>2, <2>2, TailConcat, SMTT(60)
  <2> QED BY <1>4, <2>1, <2>2, Zenon
<1> QED BY <1>2, <1>3, <1>5, <1>6, Zenon DEF q

\* Every step keeps the beats of a message together.
LEMMA BeatsInductive ==
  ASSUME scInv, BeatsTogether, [scNext]_scVars
  PROVE  BeatsTogether'
<1> DEFINE flight == sc_queue \o sc_s3 \o sc_s2
<1>0. Chain(flight, sc_busy, sc_beat)
  BY DEF BeatsTogether, Chain
<1>a. Chain(flight', sc_busy', sc_beat') => BeatsTogether'
  BY Zenon DEF BeatsTogether, Chain
<1> HIDE DEF flight
<1>1. CASE UNCHANGED scVars
  BY <1>1, <1>0, <1>a DEF scVars, flight
<1>2. ASSUME NEW latched \in Latches, NEW c_ready \in BOOLEAN, Shift(latched, c_ready),
             Chain(flight \o latched, sc_busy', sc_beat')
      PROVE  BeatsTogether'
  <2>1. /\ flight \o latched \in Seq(scMessages)
        /\ \/ flight' = flight \o latched
           \/ flight \o latched # << >> /\ flight' = Tail(flight \o latched)
    BY <1>2, FlightShifts, Zenon DEF flight
  <2>2. Chain(flight', sc_busy', sc_beat')
    BY <1>2, <2>1, ChainTail, Zenon
  <2> QED BY <2>2, <1>a
<1>3. sc_queue \in Seq(scMessages) /\ sc_s2 \in Seq(scMessages) /\ sc_s3 \in Seq(scMessages)
  BY LatchLength DEF scInv, scTypeOK, Latches
<1>4. flight \in Seq(scMessages) /\ flight \o << >> = flight
  BY <1>3, ConcatProperties, ConcatEmptySeq DEF flight
<1>5. /\ sc_beat \in 0 .. Beats - 1
      /\ ~sc_busy => sc_beat = 0
      /\ << >> \in Latches /\ <<Header>> \in Latches
  BY BeatsAreMessages DEF scInv, scTypeOK, Latches
<1>6. ASSUME NEW c_ready \in BOOLEAN, AcceptHeader(c_ready)
      PROVE  BeatsTogether'
  <2>1. ~sc_busy /\ Shift(<<Header>>, c_ready) /\ UNCHANGED <<sc_busy, sc_beat>>
    BY <1>6 DEF AcceptHeader
  <2>2. Header \in scMessages /\ ~Header.data
    BY BeatsAreMessages DEF Header
  <2>3. Chain(flight \o <<Header>>, sc_busy', sc_beat')
    BY <1>0, <1>4, <2>1, <2>2, ChainOne
  <2> QED BY <1>2, <1>5, <1>6, <2>1, <2>3
<1>7. ASSUME NEW c_ready \in BOOLEAN, scIdle(c_ready)
      PROVE  BeatsTogether'
  <2>1. Shift(<< >>, c_ready) /\ UNCHANGED <<sc_busy, sc_beat>>
    BY <1>7 DEF scIdle
  <2>2. Chain(flight \o << >>, sc_busy', sc_beat')
    BY <1>0, <1>4, <2>1
  <2> QED BY <1>2, <1>5, <1>7, <2>1, <2>2, Zenon
<1>8. ASSUME NEW c_ready \in BOOLEAN, NEW evict_safe \in BOOLEAN, NEW bs_ready \in BOOLEAN,
             ReadBeat(evict_safe, bs_ready, c_ready)
      PROVE  BeatsTogether'
  <2> DEFINE fires == (sc_beat # 0 \/ evict_safe) /\ bs_ready
  <2>1. CASE ~fires
    <3>1. Shift(<< >>, c_ready) /\ sc_busy' = TRUE /\ sc_beat' = sc_beat
      BY <1>8, <2>1 DEF ReadBeat
    <3>2. Chain(flight, TRUE, sc_beat)
      BY <1>0 DEF Chain
    <3>3. Chain(flight \o << >>, sc_busy', sc_beat')
      BY <1>4, <3>1, <3>2, Zenon
    <3> QED BY <1>2, <1>5, <3>1, <3>3, Zenon
  <2>2. CASE fires
    <3>1. /\ Shift(<<BeatOf(sc_beat)>>, c_ready)
          /\ sc_beat' = (sc_beat + 1) % Beats
          /\ sc_busy' = ~(sc_beat = Beats - 1)
      BY <1>8, <2>2 DEF ReadBeat
    <3>2. BeatOf(sc_beat) \in scMessages /\ BeatOf(sc_beat).beat = sc_beat
      BY <1>5, BeatsAreMessages DEF BeatOf
    <3>3. <<BeatOf(sc_beat)>> \in Latches
      BY <3>2 DEF Latches
    <3>4. sc_beat < Beats - 1 => sc_busy' /\ sc_beat' = sc_beat + 1
      <4> SUFFICES ASSUME sc_beat < Beats - 1 PROVE sc_busy' /\ sc_beat' = sc_beat + 1
        OBVIOUS
      <4>1. sc_beat + 1 \in 0 .. Beats - 1
        BY <1>5
      <4>2. (sc_beat + 1) % Beats = sc_beat + 1
        BY <4>1
      <4>3. sc_beat # Beats - 1
        BY <1>5
      <4> QED BY <3>1, <4>2, <4>3, Zenon
    <3>5. BeatOf(sc_beat).data /\ BeatOf(sc_beat).beat < Beats - 1
            => sc_busy' /\ sc_beat' = BeatOf(sc_beat).beat + 1
      BY <3>2, <3>4
    <3>6. Chain(flight \o <<BeatOf(sc_beat)>>, sc_busy', sc_beat')
      BY <1>0, <1>4, <3>2, <3>5, ChainOne
    <3> QED BY <1>2, <3>1, <3>3, <3>6
  <2> QED BY <2>1, <2>2
<1> QED BY <1>1, <1>6, <1>7, <1>8 DEF scNext

\* Everything the run checks of the eviction port, for every block size and both kinds of
\* queue: nothing is lost, the credit is exact, and no other message gets between the beats of
\* a block.
THEOREM EvictionsCorrect == scSpec => []EvictionsIntact
<1>1. scInit => scInv /\ BeatsTogether
  <2> SUFFICES ASSUME scInit PROVE BeatsTogether
    BY CreditStarts
  <2>1. sc_queue \o sc_s3 \o sc_s2 = << >>
    BY ConcatEmptySeq DEF scInit
  <2> QED BY <2>1 DEF BeatsTogether
<1>2. scInv /\ BeatsTogether /\ [scNext]_scVars => (scInv /\ BeatsTogether)'
  BY CreditInductive, BeatsInductive
<1>3. scInv /\ BeatsTogether => EvictionsIntact
  BY DEF scInv, EvictionsIntact
<1> QED BY <1>1, <1>2, <1>3, PTL DEF scSpec
=============================================================================
