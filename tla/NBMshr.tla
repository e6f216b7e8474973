------------------------------- MODULE NBMshr -------------------------------
(***************************************************************************)
(* The miss handlers of the non-blocking L1 data cache                     *)
(* (rocket/NBDcache.scala, NB_MSHR and the allocation part of MSHRFile).   *)
(* A primary miss takes a free handler; later misses on the same block     *)
(* join it.  Each is pushed on the handler's replay queue and, once the    *)
(* block has arrived, replayed through the cache pipeline.                 *)
(*                                                                         *)
(* Everything is decided a cycle before it is used: readiness is computed  *)
(* for the request that will arrive in the next cycle (reqE), the request  *)
(* is accepted on the registered answer, and it is pushed a cycle later    *)
(* still.  The code relies on there being no two accepted requests in a    *)
(* row for the same set (noSuccSameSet_reg).                               *)
(*                                                                         *)
(* One step is one clock cycle.  Requests carry a set and a command class; *)
(* tags, ways, data and the probe interlock are left out.  A reply of the  *)
(* memory arrives at any time after the request it answers; channel E may  *)
(* refuse a GrantAck for any number of cycles.                             *)
(***************************************************************************)
EXTENDS Integers, FiniteSetsExt, TLC

CONSTANTS
  Shapes,       \* pairs: number of miss handlers, number of cache sets
  nRPQ,         \* entries of a replay queue
  FinishStall,  \* refusals of a GrantAck by channel E that the handler survives
  NoReq         \* no request in this cycle

ASSUME MshrAssumption ==
  /\ Shapes \subseteq (Nat \ {0}) \X (Nat \ {0})
  /\ nRPQ \in Nat \ {0, 1} /\ FinishStall \in Nat

VARIABLES
  shape,         \* the configuration: nMSHRs and the number of sets
  mshr,          \* mshr[i]: the registers of handler i
  reqE,          \* the request computed on in the previous cycle
  noSucc,        \* noSuccSameSet_reg
  idxMatch,      \* Reg(next = idx_matchE): some handler held the set
  pri_rdy_reg,   \* some handler was free
  mshrTwoFree,   \* two handlers were free
  reqValidD1,       \* a request was valid in the previous cycle
  dropped        \* ghost: an accepted miss found no handler

nbVars == <<shape, mshr, reqE, noSucc, idxMatch, pri_rdy_reg, mshrTwoFree, reqValidD1, dropped>>

nMSHRs == shape[1]

Handlers == 0 .. nMSHRs - 1

MissSets == 0 .. shape[2] - 1

Commands == {"read", "write", "lrsc"}

Misses == [set : MissSets, cmd : Commands]

\* How a primary miss finds the cache: a hit that needs the dirty bit, a block
\* with too few permissions, a clean victim or a dirty one.
Lookups == {"hit", "upgrade", "clean", "dirty"}

Idle == [state |-> "invalid", start |-> "invalid", set |-> 0,
         cmd |-> "read", ackq |-> FALSE, reset |-> FALSE, wbOld |-> FALSE,
         grantOld |-> FALSE, finishEna |-> FALSE, ackPre |-> FALSE,
         s0 |-> FALSE, s1 |-> FALSE, s2 |-> FALSE, s3 |-> FALSE,
         count |-> 0, enq |-> FALSE, deqReady |-> FALSE, secRdy |-> FALSE,
         tagWr |-> FALSE, tagged |-> TRUE, stalled |-> 0]

nbInit ==
  /\ shape \in Shapes
  /\ mshr = [i \in Handlers |-> Idle]
  /\ reqE = NoReq
  /\ noSucc = FALSE
  /\ idxMatch = FALSE
  /\ pri_rdy_reg = FALSE
  /\ mshrTwoFree = FALSE
  /\ reqValidD1 = FALSE
  /\ dropped = FALSE

Vacant(m) == m.state = "invalid"

idx_matchE(m, e) == e # NoReq /\ m.set = e.set

\* sec_rdyE and the room in the replay queue, for the request of the next cycle.
req_sec_rdyE(m, e) ==
  /\ idx_matchE(m, e) /\ e.cmd # "lrsc" /\ m.cmd # "lrsc"
  /\ m.state \notin {"invalid", "drain_rpq"}
  /\ m.cmd = "write" \/ e.cmd = "read"
  /\ m.count < nRPQ /\ ~(m.enq /\ m.count = nRPQ - 1)

Drained(m, deq) == m.count = 0 \/ (deq /\ m.count = 1)

\* After the block has arrived the victim's tag must have been reset first.
Filled(m) == IF m.reset THEN "waitReset_rpq" ELSE "drain_rpq"

\* A beat of the Grant: the first one queues the GrantAck and offers it.
Beat(m) == [m EXCEPT !.finishEna = TRUE, !.ackq = @ \/ ~m.finishEna]

\* The registers of the state machine after a cycle without a new primary
\* miss; deq says that the replay queue is popped.
Control(m, deq) ==
  CASE m.state = "drain_rpq" ->
         {IF Drained(m, deq)
          THEN [m EXCEPT !.state = "invalid", !.finishEna = FALSE] ELSE m}
    [] m.state = "wait_prev_finish" ->
         {IF ~m.ackq
          THEN [m EXCEPT !.state = IF m.start = "drainWait_rpq" THEN "drain_rpq" ELSE m.start]
          ELSE m}
    [] m.state = "drainWait_rpq" -> {[m EXCEPT !.state = "drain_rpq"]}
    [] m.state = "waitReset_rpq" ->
         {IF ~m.reset THEN [m EXCEPT !.state = "drain_rpq"] ELSE m}
    [] m.state = "wb_req" -> {m, [m EXCEPT !.state = "wb_resp"]}
    [] m.state = "wb_resp" ->
         {[m EXCEPT !.wbOld = @ \/ done, !.grantOld = @ \/ grant,
                    !.reset = @ /\ ~done,
                    !.state = IF (m.wbOld \/ done) /\ (m.grantOld \/ grant)
                              THEN "refill_req" ELSE @] :
            <<done, grant>> \in {b \in BOOLEAN \X BOOLEAN :
                                   ~(b[1] /\ m.wbOld) /\ ~(b[2] /\ m.grantOld)}}
         \* <<done, grant>>: io.wbDone and the ReleaseAck, once each
    [] m.state = "refill_req" ->
         {m} \cup {[n EXCEPT !.state = "refill_resp"] : n \in {x \in {m} : ~x.ackq}}
    [] m.state = "refill_resp" ->
         {m, Beat(m), [Beat(m) EXCEPT !.state = Filled(m)]}
         \cup {[Beat(m) EXCEPT !.state = "wait_write_ack", !.ackPre = p] : p \in BOOLEAN}
    [] m.state = "wait_write_ack" ->
         {m, [m EXCEPT !.ackPre = TRUE]}
         \cup {[n EXCEPT !.state = Filled(m)] : n \in {x \in {m} : x.ackPre}}
    [] OTHER -> {[m EXCEPT !.wbOld = FALSE, !.grantOld = FALSE]}

\* io.replay.valid
ReplayValid(m) ==
  /\ m.reset \/ (m.state = "drain_rpq" /\ m.count > 0)
  /\ ~(m.s0 \/ m.s1 \/ m.s2 \/ m.s3)

\* The replay of the last miss, or the reset of the victim, writes the tags.
TagWrEna(m) == (m.state = "drain_rpq" /\ m.count = 1) \/ m.reset

\* The replay pipeline and the queue: fire is the arbiter's grant, bus and bank
\* the readiness of the replay bus and of the data banks.
Pipeline(old, m, fire, bus, bank, deq) ==
  LET repFire == old.s0 /\ bus
  IN [m EXCEPT !.s0 = fire,
               !.tagWr = IF fire THEN TagWrEna(old) ELSE old.tagWr,
               !.reset = @ /\ ~(repFire /\ old.reset),
               !.s1 = repFire /\ ~old.reset,
               !.s2 = old.s1,
               !.s3 = old.s2,
               !.deqReady = old.s2 /\ bank /\ old.state = "drain_rpq",
               !.count = @ + (IF old.enq /\ old.count < nRPQ THEN 1 ELSE 0)
                           - (IF deq THEN 1 ELSE 0),
               !.tagged = IF deq THEN old.tagWr ELSE @]

\* mem_finish: offered while finishEna_reg is set.  (Ghost: stalled counts the refusals of
\* the GrantAck, up to FinishStall + 1.)
MemFinish(old, m, ready) ==
  IF old.ackq /\ old.finishEna
  THEN IF ready THEN [m EXCEPT !.ackq = FALSE, !.stalled = 0]
       ELSE [m EXCEPT !.stalled = IF @ <= FinishStall THEN @ + 1 ELSE @]
  ELSE m

\* Mutant: a hit starts draining before the replay queue holds it.
FirstState_NoWait(lookup) ==
  CASE lookup = "hit" -> "drain_rpq"
    [] lookup = "dirty" -> "wb_req"
    [] OTHER -> "refill_req"

\* stateX of a primary miss.
FirstState(lookup) ==
  CASE lookup = "hit" -> "drainWait_rpq"
    [] lookup = "dirty" -> "wb_req"
    [] OTHER -> "refill_req"

\* A primary miss takes the handler.
Allot(m, r, lookup) ==
  [m EXCEPT !.state = IF m.ackq THEN "wait_prev_finish" ELSE FirstState(lookup),
            !.start = FirstState(lookup),
            !.set = r.set, !.cmd = r.cmd,
            !.reset = (lookup = "clean"),
            !.tagged = FALSE]

\* A secondary miss before the refill may turn the handler's command into a
\* store (dirtier_cmd).
JoinMiss(m, r) ==
  [m EXCEPT !.cmd = IF m.state \in {"wait_prev_finish", "wb_req", "wb_resp"} /\ r.cmd = "write"
                    THEN "write" ELSE @,
            !.tagged = FALSE]

\* A readiness matters only when something waits for it.
Flags(relevant) == IF relevant THEN BOOLEAN ELSE {FALSE}

\* All registers of one handler after one cycle.  pri and sec say that the
\* request of this cycle is accepted by it; e is the early request.
Cycle(m, r, lookup, pri, sec, e) ==
  LET deq == m.deqReady /\ m.count > 0
      accept(f) == IF pri THEN Allot(f, r, lookup) ELSE IF sec THEN JoinMiss(f, r) ELSE f
  IN {[g EXCEPT !.enq = pri \/ sec, !.secRdy = req_sec_rdyE(m, e)] :
        g \in {accept(f) :
          f \in {MemFinish(m, c, ready) :
            ready \in Flags(m.ackq /\ m.finishEna),
            c \in {Pipeline(m, n, fire, bus, bank, deq) :
                     n \in Control(m, deq), fire \in Flags(ReplayValid(m)),
                     bus \in Flags(m.s0), bank \in Flags(m.s2 /\ m.state = "drain_rpq")}}}}

\* noSuccSameSet_reg after a cycle.
NoSuccSameSet(fire, r, e) == ~(fire /\ e # NoReq /\ e.set = r.set)

pri_rdy == pri_rdy_reg /\ (mshrTwoFree \/ ~reqValidD1)

\* One clock cycle of the file: e is the early request, valid whether the
\* request of the previous cycle's e arrives, welcome whether the store data
\* queue has room and the handler of the set, if there is one, the same tag.
nbCycle(e, valid, welcome, lookup) ==
  LET sdq_rdy == welcome /\ noSucc
      pri(i) == /\ valid /\ ~idxMatch /\ sdq_rdy /\ pri_rdy
                /\ Vacant(mshr[i])
                /\ \A k \in Handlers : k < i => ~Vacant(mshr[k])
      sec(i) == valid /\ sdq_rdy /\ mshr[i].secRdy
      fire == /\ valid /\ sdq_rdy
              /\ IF idxMatch THEN \E i \in Handlers : mshr[i].secRdy
                 ELSE pri_rdy
      choices == [i \in Handlers |-> Cycle(mshr[i], reqE, lookup, pri(i), sec(i), e)]
  IN /\ mshr' \in FoldSet(LAMBDA i, fs : {f @@ (i :> m) : f \in fs, m \in choices[i]},
                          {<< >>}, Handlers)
     /\ reqE' = e
     /\ UNCHANGED shape
     /\ noSucc' = NoSuccSameSet(fire, reqE, e)
     /\ idxMatch' = \E i \in Handlers : ~Vacant(mshr[i]) /\ idx_matchE(mshr[i], e)
     /\ pri_rdy_reg' = \E i \in Handlers : Vacant(mshr[i])
     /\ mshrTwoFree' = \E i, k \in Handlers : i # k /\ Vacant(mshr[i]) /\ Vacant(mshr[k])
     /\ reqValidD1' = valid
     /\ dropped' = (dropped \/ (fire /\ ~\E i \in Handlers : pri(i) \/ sec(i)))

\* A cycle with no request; with one that is refused, for want of room for its
\* data or in the handlers; with one that joins the handler its set had a cycle
\* ago; with one that takes a free handler.
nbIdle(e) == nbCycle(e, FALSE, TRUE, "hit")

nbRefused(e) == reqE # NoReq /\ nbCycle(e, TRUE, FALSE, "hit")

nbSecondary(e) ==
  /\ reqE # NoReq /\ idxMatch /\ noSucc
  /\ \E i \in Handlers : mshr[i].secRdy
  /\ nbCycle(e, TRUE, TRUE, "hit")

nbPrimary(e) ==
  /\ reqE # NoReq /\ ~idxMatch /\ noSucc /\ pri_rdy
  /\ \E lookup \in Lookups : nbCycle(e, TRUE, TRUE, lookup)

nbNext ==
  \E e \in {NoReq} \cup Misses : nbIdle(e) \/ nbRefused(e) \/ nbSecondary(e) \/ nbPrimary(e)

-----------------------------------------------------------------------------
\* "Here we depend that there is no successive inputs can be received" (line
\* 415) and the assertion below it: a push never meets a full replay queue.
ReplayQueueHolds == \A i \in Handlers : mshr[i].enq => mshr[i].count < nRPQ

\* A handler is never freed while it holds an accepted miss, neither in its
\* replay queue nor on the way into it.
NoneStranded ==
  \A i \in Handlers : Vacant(mshr[i]) => mshr[i].count = 0 /\ ~mshr[i].enq

\* Two handlers never work on the same set: they would refill and evict the
\* same way.
OneHandlerPerSet ==
  \A i, k \in Handlers :
    i # k /\ ~Vacant(mshr[i]) /\ ~Vacant(mshr[k]) => mshr[i].set # mshr[k].set

\* A miss that was acknowledged to the pipeline is in some handler, although
\* readiness was computed a cycle earlier.
NoMissDropped == ~dropped

\* When a handler is freed, the replay it finished with wrote the tags: the
\* accepted late miss of line 404 did not leave the block without its state.
TagsWritten == \A i \in Handlers : Vacant(mshr[i]) => mshr[i].tagged

\* "Make sure that we finish all previous transactions" (line 537): a GrantAck that is owed
\* stays on offer until channel E takes it, if channel E refuses it at most FinishStall times
\* before.  (One more refusal, and the handler may be freed first; finishEna_reg is then
\* cleared with the GrantAck in the queue, and the next miss of the handler waits for good.)
FinishOffered ==
  \A i \in Handlers : mshr[i].ackq /\ mshr[i].stalled <= FinishStall => mshr[i].finishEna

\* Every miss the pipeline was told is accepted stays with one handler, alone in its set,
\* until its replay is done and its tags are written, however long channel E refuses its
\* GrantAck; the GrantAck survives FinishStall refusals.
MissesSafe ==
  /\ ReplayQueueHolds /\ NoneStranded /\ OneHandlerPerSet
  /\ NoMissDropped /\ TagsWritten /\ FinishOffered
=============================================================================
