---------------------------- MODULE MCSoftware -----------------------------
(***************************************************************************)
(* The shared-memory library and the test programs, for TLC: a run chooses *)
(* one of them in its initial state.  The two queues have no program of    *)
(* their own here, so that their threads make any calls their role allows, *)
(* a bounded number of them; an entry is the number of the call that       *)
(* enqueues it.                                                            *)
(***************************************************************************)
EXTENDS CkRing, SpinQueue, ThreadBarrier, SenseBarrier, Megazord, CohChecker, TinyMalloc,
        CommitLog

CONSTANTS
  BarrierCalls,  \* how often a thread comes to a barrier
  LockMax        \* the amoadd spinlock counts up to this

VARIABLES
  program,   \* what runs
  calls,     \* thread -> calls of a queue so far
  roles      \* which functions of a queue the threads call, and how often

Programs == {"ck_ring", "queue_simple", "thread_barrier", "barrier", "megazord",
             "coh_checker", "tiny_malloc", "comlog"}

swVars == <<program, calls, roles, ckVars, sqVars, tbVars, sbVars, mzVars, chVars, tmVars,
            clVars>>

\* The others stand still.
Only(p) ==
  /\ UNCHANGED program
  /\ p \notin {"ck_ring", "queue_simple"} => UNCHANGED <<calls, roles>>
  /\ p # "ck_ring" => UNCHANGED ckVars
  /\ p # "queue_simple" => UNCHANGED sqVars
  /\ p # "thread_barrier" => UNCHANGED tbVars
  /\ p # "barrier" => UNCHANGED sbVars
  /\ p # "megazord" => UNCHANGED mzVars
  /\ p # "coh_checker" => UNCHANGED chVars
  /\ p # "tiny_malloc" => UNCHANGED tmVars
  /\ p # "comlog" => UNCHANGED clVars

SwInit ==
  /\ program \in Programs
  /\ calls = [t \in 0 .. 2 |-> 0] /\ roles = << >>
  /\ \E k \in Kinds : (program # "queue_simple" => k = "amoadd") /\ sqInit(k)
  /\ ckInit /\ thread_barrier_init /\ sbInit /\ mzInit /\ chInit /\ tmInit /\ clInit

\* Who may call what, and how often: the flavours of ck_ring for one or several producers
\* and consumers.  The slots of the ring are used again while others are still looking.
Role(f0, n0, f1, n1, f2, n2) == [of |-> <<f0, f1, f2>>, max |-> <<n0, n1, n2>>]

RingRoles ==
  {Role({"enqueue_mp"}, 2, {"enqueue_mp", "dequeue_mc"}, 2, {"trydequeue_mc", "dequeue_mc"}, 2),
   Role({"enqueue_mp"}, 5, {"dequeue_mc"}, 2, {"dequeue_mc"}, 2),
   Role({"enqueue_sp"}, 5, {"trydequeue_mc"}, 2, {"trydequeue_mc"}, 2),
   Role({"dequeue_sc"}, 3, {"enqueue_mp"}, 3, {"enqueue_mp"}, 2),
   Role({"dequeue_sc"}, 3, {"enqueue_sp"}, 5, {"ck_ring_size"}, 1)}

SpinRoles ==
  LET any == {"queue_try_enqueue", "queue_try_dequeue", "queue_isempty"}
  IN {Role(any, 2, any, 2, {"queue_try_dequeue"}, 1),
      Role({"queue_try_enqueue"}, 4, {"queue_try_dequeue"}, 3, {"queue_isempty"}, 1)}

\* Thread t may make one more call, of function fn; its number is the entry it brings.
MayCall(t, fn) == fn \in roles.of[t + 1] /\ calls[t] < roles.max[t + 1]
CountCall(t) == calls' = [calls EXCEPT ![t] = @ + 1] /\ UNCHANGED roles
Numbered(t) == 10 * t + calls[t] + 1
Numbers == {10 * t + n : t \in 0 .. 2, n \in 1 .. 5}
SpinNumbers == (1 .. 4) \cup {11, 12}

\* The counters start at 0, or so that they wrap.
RingSetUp ==
  /\ roles = << >> /\ roles' \in RingRoles
  /\ \E base \in {0, UINT - 1} : ring' = ck_ring_init(base)
  /\ UNCHANGED <<calls, call>>

RingCall(t) ==
  /\ CountCall(t)
  /\ \E fn \in DOMAIN Begin :
       /\ MayCall(t, fn)
       /\ ckCall(t, fn, IF fn \in {"enqueue_mp", "enqueue_sp"} THEN Numbered(t) ELSE NoWord)

RingNext ==
  \/ RingSetUp
  \/ \E t \in Procs : roles # << >> /\ (RingCall(t) \/ (ckStep(t) /\ UNCHANGED <<calls, roles>>))

SpinSetUp == roles = << >> /\ roles' \in SpinRoles /\ UNCHANGED <<calls, sqVars>>

SpinCall(t) ==
  /\ CountCall(t)
  /\ \/ MayCall(t, "queue_try_enqueue") /\ sqCall(t, "queue_try_enqueue", Numbered(t))
     \/ MayCall(t, "queue_try_dequeue") /\ sqCall(t, "queue_try_dequeue", NoJob)
     \/ MayCall(t, "queue_isempty") /\ sqCall(t, "queue_isempty", NoJob)

SpinStep(t) ==
  /\ sqStep(t)
  /\ sq_kind = "amoadd" => sq_lock' <= LockMax
  /\ UNCHANGED <<calls, roles>>

SpinNext ==
  SpinSetUp \/ \E t \in Users : roles # << >> /\ (SpinCall(t) \/ SpinStep(t))

\* The program is over, or the bound is reached, or a thread waits for ever in a call.
Over ==
  /\ \/ program \in {"ck_ring", "queue_simple"}
     \/ program = "thread_barrier" /\ \A t \in Threads : left[t] = BarrierCalls
     \/ program = "barrier" /\ \A t \in Team : sb_left[t] = BarrierCalls
     \/ program = "megazord" /\ mzDone
     \/ program = "coh_checker" /\ chDone
     \/ program = "comlog"
  /\ UNCHANGED swVars

SwNext ==
  \/ program = "ck_ring" /\ RingNext /\ Only("ck_ring")
  \/ program = "queue_simple" /\ SpinNext /\ Only("queue_simple")
  \/ /\ program = "thread_barrier"
     /\ \E t \in Threads : thread_barrier_wait(t) /\ arrived'[t] <= BarrierCalls
     /\ Only("thread_barrier")
  \/ /\ program = "barrier"
     /\ \E t \in Team : barrier(t) /\ sb_arrived'[t] <= BarrierCalls
     /\ Only("barrier")
  \/ program = "megazord" /\ mzNext /\ Only("megazord")
  \/ program = "coh_checker" /\ chNext /\ Only("coh_checker")
  \/ program = "tiny_malloc" /\ tmNext /\ Only("tiny_malloc")
  \/ program = "comlog" /\ clNext /\ Only("comlog")
  \/ Over

\* The two ways to pair two harts.
MCPairings == {[h \in Harts |-> h], [h \in Harts |-> 1 - h]}
=============================================================================
