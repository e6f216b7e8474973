------------------------------ MODULE QueueRow ------------------------------
(***************************************************************************)
(* The memory operations of one context on their way to the data cache     *)
(* (rocket/HellaCache.scala, QueueRow, and what QueueCmd does for a row).  *)
(* An operation is queued before its address is translated: two cycles     *)
(* later it turns out real or not, and an operation that was alone may     *)
(* have left for the cache by then.  The cache answers two cycles after it *)
(* took an operation: accepted, or nacked, and then the row goes back to   *)
(* it although it may have sent the next one.                              *)
(*                                                                         *)
(* One step is one clock cycle.  Operations are numbers; each goes to one  *)
(* half of the cache, and a cycle belongs to one half (rocket/NBDcache,    *)
(* halfSel): the selector of the other one is held.  The selector is open  *)
(* except that it never picks a row twice in a row, and passes a ready row *)
(* over a bounded number of times (SelPrio); the other rows, what the      *)
(* cache does with an operation, and the events that end the wait of a     *)
(* nacked one, are open too.                                               *)
(***************************************************************************)
EXTENDS Integers, Sequences

CONSTANTS
  quDepth,   \* entries of a row, DU_QUEUE_DEPTH
  quIds,     \* operations are numbered modulo this
  quWait,    \* how often the selector passes over a ready row, SelPrio's BoundedWait
  NoOp       \* no operation

ASSUME QueueRowAssumption == 
  quDepth \in Nat \ {0, 1} /\ quIds \in Nat \ {0} /\ quWait \in Nat \ {0}

VARIABLES
  qram, ramD1,            \* the operations; their addresses and data
  wrAddr, rdAddr, rdAddrPrev1, rdAddrPrev2, mayFull,
  validFD1, validD1, validD2, validD3,
  enqD1, enqD2,           \* the operations queued one and two cycles ago
  forwardD1, forwardD2,
  nackCause,              \* nackCause1 .. 3: waits for the cache
  cleared,                \* the event that nackCause waits for is here in this cycle
  nackCause4,             \* waits one cycle
  isReal_reg, isNackedD1,
  transInfo,              \* the operation on offer
  picked,                 \* the selector's choice: operation and address, or NoOp
  halfSel,                \* the half of the cache that owns the cycle
  passed,                 \* for how many cycles in a row of its half the ready row was passed over
  s1_op, s2_op, s3_nack,  \* the cache pipeline, as far as this row is in it
  deqD1, deqD2, deqD3,    \* deqValidD1 .. D3 for this row
  nextId,       \* the number of the next operation
  credit,       \* ldStCntrEarly_reg: operations issued and not reported back
  muted,        \* an older operation of the context was not real
  crowded,      \* ghost: the other half had more non-empty paths a cycle ago
  owed,         \* ghost: the real operations the cache has not accepted, in order
  s3_accepted   \* ghost: the operation in s3 was accepted

quVars == <<qram, ramD1, wrAddr, rdAddr, rdAddrPrev1, rdAddrPrev2, mayFull, validFD1,
            validD1, validD2, validD3, enqD1, enqD2, forwardD1, forwardD2, nackCause,
            cleared, nackCause4, isReal_reg, isNackedD1, transInfo, picked, halfSel, passed,
            s1_op, s2_op, s3_nack, deqD1, deqD2, deqD3, nextId, credit, muted, crowded, owed,
            s3_accepted>>

incCntr(a) == IF a = quDepth - 1 THEN 0 ELSE a + 1

quInit ==
  /\ qram = [a \in 0 .. quDepth - 1 |-> 0] /\ ramD1 = qram
  /\ wrAddr = 0 /\ rdAddr = 0 /\ rdAddrPrev1 = 0 /\ rdAddrPrev2 = 0 /\ mayFull = FALSE
  /\ validFD1 = FALSE /\ validD1 = FALSE /\ validD2 = FALSE /\ validD3 = FALSE
  /\ enqD1 = NoOp /\ enqD2 = NoOp /\ forwardD1 = FALSE /\ forwardD2 = FALSE
  /\ nackCause = FALSE /\ cleared = FALSE /\ nackCause4 = FALSE
  /\ isReal_reg = FALSE /\ isNackedD1 = FALSE
  /\ transInfo = 0 /\ picked = NoOp /\ halfSel = 0 /\ passed = 0 /\ crowded = FALSE
  /\ s1_op = NoOp /\ s2_op = NoOp /\ s3_nack = FALSE
  /\ deqD1 = FALSE /\ deqD2 = FALSE /\ deqD3 = FALSE
  /\ nextId = 0 /\ credit = 0 /\ muted = FALSE
  /\ owed = << >> /\ s3_accepted = FALSE

\* io.deq.valid
deqValid ==
  /\ rdAddr # wrAddr \/ mayFull
  /\ ~nackCause /\ ~nackCause4 /\ ~isNackedD1

\* The half of the cache that an operation goes to, an address bit.
Half(op) == (op \div 2) % 2

\* The selector of the row's half is held (holdOn).
holdOn == halfSel # Half(transInfo)

\* Where a nack goes back to: one further if an operation left a cycle ago.
rdAddrPrev == IF validFD1 THEN rdAddrPrev2 ELSE rdAddrPrev1

\* Mutant: only a nack seen two cycles after the operation kills the next.
NackBefore_One(s2_nack) == s2_nack /\ deqD2

\* nackBefore1 and nackBefore2: an operation of this row that left two or three
\* cycles ago is nacked.
NackBefore(s2_nack) == (s2_nack /\ deqD2) \/ (s3_nack /\ deqD3)

\* An operation that has left awaits an answer unless it turned out not to be
\* real or an older one is nacked.
ValidD1(fire, dropped, isNacked) ==
  fire /\ ~(dropped /\ wrAddr = rdAddr) /\ ~isNacked /\ ~isNackedD1

\* nackCause1 .. 3: latched with the nack, gone with the event it names.
NackCause(isNacked, wait, clear) ==
  (IF isNacked THEN wait ELSE nackCause) /\ ~clear

\* Mutant: a half that is as busy as the other does not give the cycle up.
HalfSelect_Stays(busier) ==
  halfSel' \in IF busier = {} THEN {halfSel} ELSE busier

\* The next cycle goes to the half with more non-empty paths (a path leads from a pipeline
\* to a half of the cache), to the other half in turn when they have as many.
HalfSelect(busier) ==
  halfSel' \in IF busier = {} THEN {1 - halfSel} ELSE busier

\* One clock cycle.  enq: an operation is queued; real: the verdict on the one
\* queued two cycles ago; pick: the selector chooses the row; ready: the cache
\* takes the operation chosen in the previous cycle; nack: the cache's answer to
\* the operation in s2; wait, rand: the nack's cause.
quCycle(enq, real, pick, ready, nack, wait, rand) ==
  LET wrInc == incCntr(wrAddr)
      dropped == enqD2 # NoOp /\ ~real
      s2_nack == s2_op # NoOp /\ nack
      fire == picked # NoOp /\ ready /\ deqValid
      sent == picked # NoOp /\ ready
      rdNxt == IF dropped /\ wrAddr = rdAddr THEN wrAddr
               ELSE IF fire THEN incCntr(rdAddr) ELSE rdAddr
      isNacked == validD3 /\ s3_nack
      forward == enq /\ rdNxt = IF enqD2 # NoOp THEN wrInc ELSE wrAddr
      opReal == (IF forwardD2 THEN real ELSE isReal_reg) /\ ~NackBefore(s2_nack)
      safe == validD3 /\ ~s3_nack
  IN /\ qram' = IF enq THEN [qram EXCEPT ![IF enqD2 # NoOp /\ real THEN wrInc ELSE wrAddr] = nextId]
                ELSE qram
     /\ ramD1' = IF enqD1 # NoOp THEN [ramD1 EXCEPT ![wrAddr] = enqD1] ELSE ramD1
     /\ wrAddr' = IF enqD2 # NoOp /\ real THEN wrInc ELSE wrAddr
     /\ rdAddr' = IF isNacked THEN rdAddrPrev
                  ELSE IF (fire \/ (dropped /\ wrAddr = rdAddr)) /\ ~isNackedD1 THEN rdNxt
                  ELSE rdAddr
     /\ rdAddrPrev1' = IF fire THEN rdAddr ELSE rdAddrPrev1
     /\ rdAddrPrev2' = IF fire THEN rdAddrPrev1 ELSE rdAddrPrev2
     /\ mayFull' = IF isNacked THEN TRUE
                   ELSE IF dropped /\ wrAddr = rdNxt THEN FALSE
                   ELSE IF enq THEN TRUE
                   ELSE IF fire /\ ~(enqD1 # NoOp /\ ~forwardD1) /\ ~(enqD2 # NoOp /\ ~forwardD2)
                   THEN FALSE ELSE mayFull
     /\ validFD1' = fire
     /\ validD1' = ValidD1(fire, dropped, isNacked)
     /\ validD2' = (validD1 /\ ~isNacked)
     /\ validD3' = validD2
     /\ enqD1' = IF enq THEN nextId ELSE NoOp
     /\ enqD2' = enqD1
     /\ forwardD1' = (forward /\ ~isNacked)
     /\ forwardD2' = (forwardD1 /\ ~isNacked)
     /\ transInfo' = IF forward THEN nextId
                     ELSE IF isNackedD1 THEN qram[rdAddr]
                     ELSE IF fire THEN qram[incCntr(rdAddr)] ELSE transInfo
     /\ isReal_reg' = (~(dropped /\ wrAddr = rdAddr) /\ ~isNacked)
     /\ isNackedD1' = isNacked
     /\ nackCause' = NackCause(isNacked, wait, cleared)
     /\ nackCause4' = (isNacked /\ rand)
     /\ picked' = IF pick THEN [op |-> transInfo,
                                addr |-> IF forwardD1 THEN enqD1 ELSE ramD1[rdAddr]]
                  ELSE NoOp
     /\ passed' = IF holdOn THEN passed ELSE IF deqValid /\ ~pick THEN passed + 1 ELSE 0
     /\ s1_op' = IF sent THEN [op |-> picked.op, addr |-> picked.addr, data |-> ramD1[rdAddr],
                               real |-> opReal]
                 ELSE NoOp
     /\ s2_op' = IF s1_op # NoOp /\ s1_op.real /\ ~(s3_nack /\ deqD3) THEN s1_op ELSE NoOp
     /\ s3_nack' = s2_nack
     /\ s3_accepted' = (s2_op # NoOp /\ ~nack)
     /\ deqD1' = sent /\ deqD2' = deqD1 /\ deqD3' = deqD2
     /\ nextId' = IF enq THEN (nextId + 1) % quIds ELSE nextId
     /\ owed' = LET rest == IF s2_op # NoOp /\ ~nack /\ owed # << >> THEN Tail(owed) ELSE owed
                IN IF enqD2 # NoOp /\ real THEN Append(rest, enqD2) ELSE rest
     /\ credit' = credit + (IF enq THEN 1 ELSE 0) - (IF safe THEN 1 ELSE 0)
                         - (IF dropped THEN 1 ELSE 0)
     /\ muted' = IF enq THEN dropped ELSE IF enqD1 = NoOp THEN FALSE ELSE muted

\* The issue side leaves two cycles between two operations of a context and has
\* a credit for each; an operation behind one that turned out not to be real is
\* not real either.
quNext ==
  /\ \E enq \in {e \in BOOLEAN : e => enqD1 = NoOp /\ credit < quDepth},
        real \in {v \in BOOLEAN : v => enqD2 # NoOp /\ ~muted},
        pick \in {v \in BOOLEAN : IF v THEN deqValid /\ ~holdOn /\ picked = NoOp
                                      ELSE passed = quWait => holdOn \/ ~deqValid},
        ready \in {v \in BOOLEAN : v => picked # NoOp},
        nack \in {v \in BOOLEAN : v => s2_op # NoOp},
        wait, rand \in {v \in BOOLEAN : v => validD3 /\ s3_nack} :
       quCycle(enq, real, pick, ready, nack, wait, rand)
  /\ cleared' \in {v \in BOOLEAN : v => nackCause' \/ (validD3' /\ s3_nack')}
  /\ \E busier \in {{}, {0}, {1}} :
       HalfSelect(busier) /\ crowded' = (1 - Half(transInfo) \in busier)

\* What the cache owes: it takes and accepts operations again and again.
Takes == picked # NoOp /\ deqValid /\ quNext /\ s1_op' # NoOp
CacheAccepts == s2_op # NoOp /\ quNext /\ s3_accepted'

-----------------------------------------------------------------------------
\* An operation that reaches the cache's s2 is the oldest one the cache has not
\* accepted, with its own address and data: whatever is nacked, cancelled or
\* forwarded on the way, a context's operations are performed once, in order.
OldestFirst ==
  s2_op # NoOp =>
    /\ owed # << >> /\ s2_op.op = Head(owed)
    /\ s2_op.addr = s2_op.op /\ s2_op.data = s2_op.op

\* Every answer of the cache finds the row waiting for it, and the row waits for
\* no other: a nack is never missed, and the entry an operation held is reported
\* free exactly when the cache accepted it (ldStSafeEarly).
AnswerHeard ==
  /\ validD3 <=> s3_accepted \/ s3_nack
  /\ credit \in 0 .. quDepth

\* With nothing on the way, the row shows the oldest operation owed, and shows
\* none when none is owed.
ShowsOldest ==
  (/\ enqD1 = NoOp /\ enqD2 = NoOp /\ picked = NoOp /\ s1_op = NoOp /\ s2_op = NoOp
   /\ ~s3_nack /\ ~isNackedD1) =>
    /\ owed # << >> <=> rdAddr # wrAddr \/ mayFull
    /\ owed # << >> => transInfo = Head(owed)

\* The queue of a context performs its operations once and in order, whatever is nacked.
RowInOrder == OldestFirst /\ AnswerHeard /\ ShowsOldest

\* A context's operations wait for ever only for a cause outside the queue: the other
\* half of the cache is the busier one in every cycle, or the event that a nacked
\* operation waits for does not come.  Neither the way back after a nack, nor a verdict in
\* the cycle of another operation, nor the turns of the two halves leave the row silent.
\* (Nothing but an acceptance takes an operation out of owed.)
OpsPerformed ==
  []<>(owed = << >> \/ s3_accepted) \/ <>[]crowded \/ <>[](nackCause /\ ~cleared)
=============================================================================
