-------------------------------- MODULE CkRing --------------------------------
(***************************************************************************)
(* The ring buffer of riscv-tests/common/ck/ck_ring.h, which the torture   *)
(* tests use as their work queue: every load, store and compare-and-swap   *)
(* of a shared word is a step of the thread that makes it.  The fences of  *)
(* the code (CK_MD_RMO is defined) make the steps sequentially consistent. *)
(* A thread is in one function at a time; call[t].at is its next step and  *)
(* the other fields are the function's locals.  Counters wrap at UINT.     *)
(***************************************************************************)
EXTENDS Naturals, Sequences

CONSTANTS Procs,     \* the threads
          Words,     \* what can be enqueued
          NoWord,    \* what a slot holds before it is written
          size,      \* slots of the ring, a power of 2
          UINT       \* 2^64 in the code

ASSUME RingAssumption ==
  /\ size \in Nat /\ \E k \in 1 .. size : size = 2 ^ k
  /\ UINT \in Nat /\ UINT % size = 0 /\ UINT > 2 * size

VARIABLES ring,      \* struct ck_ring and its buffer
          call       \* thread -> the call it is in

ckVars == <<ring, call>>

mask == size - 1
Slot(n) == n % size
UInc(n) == (n + 1) % UINT
Sub(m, n) == ((m + UINT) - n) % UINT

\* The ring of ck_ring_init, for base = 0; any base is the ring after that many entries.
ck_ring_init(base) == [p_head |-> base, p_tail |-> base, c_head |-> base,
                       buffer |-> [i \in 0 .. mask |-> NoWord]]

\* fn and at: function and step; word: the entry; ret: the result; taken: what the last
\* successful dequeue copied; sure: was the ring full (empty) at the instant the thread
\* looked, whatever it has concluded from what it saw.
NoCall == [fn |-> "none", at |-> "idle", producer |-> 0, consumer |-> 0,
           word |-> NoWord, ret |-> 0, taken |-> NoWord, sure |-> FALSE]

\* The locals of a call are gone when it returns r.
Returned(l, r) == [NoCall EXCEPT !.fn = l.fn, !.ret = r, !.taken = l.taken, !.sure = l.sure]

ckInit == ring = ck_ring_init(0) /\ call = [t \in Procs |-> NoCall]

Begin == [enqueue_mp |-> "mp_head", enqueue_sp |-> "sp_head", dequeue_mc |-> "mc_head",
          trydequeue_mc |-> "mc_head", dequeue_sc |-> "mc_head", ck_ring_size |-> "size_c"]

Idle(t) == call[t].at = "idle"

\* Thread t calls function f with entry w.
ckCall(t, f, w) ==
  /\ Idle(t)
  /\ call' = [call EXCEPT ![t].fn = f, ![t].at = Begin[f], ![t].word = w, ![t].sure = FALSE]
  /\ UNCHANGED ring

-----------------------------------------------------------------------------
(* Producers *)

\* (producer - consumer) < mask on unsigned words: a producer count that is older than
\* the consumer count is far above.
HasRoom(p, c) == Sub(p, c) < mask

LoadPHead(t) ==
  /\ call[t].at = "mp_head"
  /\ call' = [call EXCEPT ![t].producer = ring.p_head, ![t].at = "mp_room"]
  /\ UNCHANGED ring

LoadCHead(t) ==
  /\ call[t].at = "mp_room"
  /\ call' = [call EXCEPT ![t].consumer = ring.c_head,
                          ![t].sure = ~HasRoom(ring.p_head, ring.c_head),
                          ![t].at = IF HasRoom(call[t].producer, ring.c_head)
                                    THEN "mp_cas" ELSE "mp_again"]
  /\ UNCHANGED ring

\* The compare-and-swap of p_head takes the slot, or brings the p_head it found.
CasPHead(t) ==
  /\ call[t].at = "mp_cas"
  /\ IF ring.p_head = call[t].producer
     THEN /\ ring' = [ring EXCEPT !.p_head = UInc(@)]
          /\ call' = [call EXCEPT ![t].at = "mp_copy"]
     ELSE /\ call' = [call EXCEPT ![t].producer = ring.p_head, ![t].at = "mp_room"]
          /\ UNCHANGED ring

\* The slow path: full only if p_head has not moved since it was read.
ReloadPHead(t) ==
  /\ call[t].at = "mp_again"
  /\ IF ring.p_head = call[t].producer
     THEN call' = [call EXCEPT ![t] = Returned(@, 0)]
     ELSE call' = [call EXCEPT ![t].producer = ring.p_head, ![t].at = "mp_room"]
  /\ UNCHANGED ring

ck_ring_enqueue_reserve_mp(t) ==
  LoadPHead(t) \/ LoadCHead(t) \/ CasPHead(t) \/ ReloadPHead(t)

\* memcpy of the entry into the reserved slot.
CopyIn(t, from, to) ==
  /\ call[t].at = from
  /\ ring' = [ring EXCEPT !.buffer[Slot(call[t].producer)] = call[t].word]
  /\ call' = [call EXCEPT ![t].at = to]

\* Mutant: a producer does not wait for those before it.
WaitTurn_Not(t) ==
  /\ call[t].at = "mp_wait"
  /\ call' = [call EXCEPT ![t].at = "mp_tail"]
  /\ UNCHANGED ring

\* Producers publish in the order of their reservations.
WaitTurn(t) ==
  /\ call[t].at = "mp_wait" /\ ring.p_tail = call[t].producer
  /\ call' = [call EXCEPT ![t].at = "mp_tail"]
  /\ UNCHANGED ring

StorePTail(t) ==
  /\ call[t].at = "mp_tail"
  /\ ring' = [ring EXCEPT !.p_tail = UInc(call[t].producer)]
  /\ call' = [call EXCEPT ![t] = Returned(@, 1)]

ck_ring_enqueue_commit_mp(t) == WaitTurn(t) \/ StorePTail(t)

ck_ring_enqueue_mp(t) ==
  \/ ck_ring_enqueue_reserve_mp(t)
  \/ CopyIn(t, "mp_copy", "mp_wait")
  \/ ck_ring_enqueue_commit_mp(t)

\* p_tail is the single producer's own: c_head is the one shared word it reads.
ck_ring_enqueue_reserve_sp(t) ==
  /\ call[t].at = "sp_head"
  /\ LET seen == [call[t] EXCEPT !.consumer = ring.c_head, !.producer = ring.p_tail,
                                 !.sure = ~HasRoom(ring.p_tail, ring.c_head),
                                 !.at = "sp_copy"]
     IN call' = [call EXCEPT ![t] = IF Slot(UInc(ring.p_tail)) = Slot(ring.c_head)
                                    THEN Returned(seen, 0) ELSE seen]
  /\ UNCHANGED ring

ck_ring_enqueue_commit_sp(t) ==
  /\ call[t].at = "sp_tail"
  /\ ring' = [ring EXCEPT !.p_tail = UInc(@)]
  /\ call' = [call EXCEPT ![t] = Returned(@, 1)]

ck_ring_enqueue_sp(t) ==
  \/ ck_ring_enqueue_reserve_sp(t)
  \/ CopyIn(t, "sp_copy", "sp_tail")
  \/ ck_ring_enqueue_commit_sp(t)

-----------------------------------------------------------------------------
(* Consumers *)

\* The consumer count the thread works from.
LoadHead(t) ==
  /\ call[t].at = "mc_head"
  /\ call' = [call EXCEPT ![t].consumer = ring.c_head, ![t].at = "mc_tail"]
  /\ UNCHANGED ring

\* Empty if that count is the tail.
LoadPTail(t) ==
  /\ call[t].at = "mc_tail"
  /\ LET seen == [call[t] EXCEPT !.producer = ring.p_tail,
                                 !.sure = ring.c_head = ring.p_tail, !.at = "mc_copy"]
     IN call' = [call EXCEPT ![t] = IF call[t].consumer = ring.p_tail
                                    THEN Returned(seen, 0) ELSE seen]
  /\ UNCHANGED ring

\* memcpy out of the slot, before the slot is this thread's.
CopyOut(t) ==
  /\ call[t].at = "mc_copy"
  /\ call' = [call EXCEPT ![t].word = ring.buffer[Slot(call[t].consumer)],
                          ![t].at = "mc_claim"]
  /\ UNCHANGED ring

Claim(t) ==
  /\ ring' = [ring EXCEPT !.c_head = UInc(call[t].consumer)]
  /\ call' = [call EXCEPT ![t] = Returned([@ EXCEPT !.taken = call[t].word], 1)]

ck_ring_dequeue_sc(t) == call[t].at = "mc_claim" /\ call[t].fn = "dequeue_sc" /\ Claim(t)

\* The single compare-and-swap of the try: it gives up when another consumer was faster.
ck_ring_trydequeue_mc(t) ==
  /\ call[t].at = "mc_claim" /\ call[t].fn = "trydequeue_mc"
  /\ \/ ring.c_head = call[t].consumer /\ Claim(t)
     \/ /\ ring.c_head # call[t].consumer
        /\ call' = [call EXCEPT ![t] = Returned([@ EXCEPT !.sure = TRUE], 0)]
        /\ UNCHANGED ring

\* A failed compare-and-swap brings the c_head it found and the loop goes on.
ck_ring_dequeue_mc(t) ==
  /\ call[t].at = "mc_claim" /\ call[t].fn = "dequeue_mc"
  /\ \/ ring.c_head = call[t].consumer /\ Claim(t)
     \/ /\ ring.c_head # call[t].consumer
        /\ call' = [call EXCEPT ![t].consumer = ring.c_head, ![t].at = "mc_tail"]
        /\ UNCHANGED ring

\* Two loads, c_head first; the difference is taken modulo the ring's size.
ck_ring_size(t) ==
  \/ /\ call[t].at = "size_c"
     /\ call' = [call EXCEPT ![t].consumer = ring.c_head, ![t].at = "size_p"]
     /\ UNCHANGED ring
  \/ /\ call[t].at = "size_p"
     /\ call' = [call EXCEPT ![t] = Returned(@, Slot(Sub(ring.p_tail, call[t].consumer)))]
     /\ UNCHANGED ring

\* A step of the call that thread t is in.
ckStep(t) ==
  \/ ck_ring_enqueue_mp(t)
  \/ ck_ring_enqueue_sp(t)
  \/ LoadHead(t) \/ LoadPTail(t) \/ CopyOut(t)
  \/ ck_ring_dequeue_sc(t) \/ ck_ring_trydequeue_mc(t) \/ ck_ring_dequeue_mc(t)
  \/ ck_ring_size(t)

-----------------------------------------------------------------------------
(* Properties *)

\* What is in the ring: the published slots, oldest first.
Content == [i \in 1 .. Sub(ring.p_tail, ring.c_head) |-> ring.buffer[Slot(ring.c_head + i - 1)]]

\* An enqueue that says full, and a dequeue that says empty, tell the truth about one
\* instant of the call (a try may also lose its slot to another consumer).
RefusalTrue ==
  \A t \in Procs : Idle(t) /\ call[t].fn # "none" /\ call[t].fn # "ck_ring_size"
                   /\ call[t].ret = 0 => call[t].sure

\* A ring is a queue: every enqueue that succeeds puts its entry at the end at one
\* instant (the store of p_tail), every dequeue that succeeds takes the oldest entry at
\* one instant (the write of c_head) although it has copied it earlier, and no entry is
\* lost, doubled or overwritten whatever the interleaving and wherever the counters wrap.
F == INSTANCE FifoQueue WITH Callers <- Procs, Entries <- Words, Capacity <- mask,
       None <- NoWord, items <- Content, taken <- [t \in Procs |-> call[t].taken]
RingIsQueue == F!FifoSpec /\ []RefusalTrue
=============================================================================
