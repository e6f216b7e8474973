---------------------------- MODULE FlushControl ----------------------------
(***************************************************************************)
(* The flush registers of the L2 (cache/InclusiveCache.scala): a write to  *)
(* Flush64 or Flush32 names a physical address, the bank that holds it     *)
(* flushes the block, and the write is acknowledged when it has.  The bank *)
(* is found from flushInAddress by a wire, again in every cycle, so both   *)
(* the request and the response rely on the register not moving on before  *)
(* the answer.  The register map (regmapper/RegMapper.scala) sees to that: *)
(* it offers a write only while its queue of `concurrency = 1` is empty.   *)
(*                                                                         *)
(* One step is one clock cycle.                                            *)
(***************************************************************************)
EXTENDS Integers, Sequences

CONSTANTS
  Banks,       \* the L2 banks
  BankOf,      \* BankOf[a]: the bank an address belongs to, if any
  NoBank,      \* no bank holds the address
  FlushData,   \* values software writes
  NoFlush      \* nothing is offered

VARIABLES
  flushInValid, flushInAddress, flushOutValid,   \* the registers
  back,        \* the register map's queue: the write that waits for its answer
  bank,        \* bank[b]: the flushes inside a bank, oldest first
  finished     \* ghost: addresses flushed since the write was accepted

flVars == <<flushInValid, flushInAddress, flushOutValid, back, bank, finished>>

FlushWrites == [reg : {"Flush64", "Flush32"}, data : FlushData]

\* What the two registers are documented to flush.
Meant(w) == IF w.reg = "Flush64" THEN w.data ELSE w.data * 16

flInit ==
  /\ flushInValid = FALSE
  /\ flushInAddress = 0
  /\ flushOutValid = FALSE
  /\ back = << >>
  /\ bank = [b \in Banks |-> << >>]
  /\ finished = {}

flushSelect(b) == BankOf[flushInAddress] = b

flushNoMatch == \A b \in Banks : ~flushSelect(b)

\* Mutant: the register map pipelines a second write.
FrontReady_Two == Len(back) < 2

\* Queue(front, concurrency), concurrency = 1.
FrontReady == Len(back) < 1

\* flushInAddress := data or data << 4.
Capture(w) == IF w.reg = "Flush32" THEN w.data * 16 ELSE w.data

\* The two places that raise flushOutValid.
SetOut ==
  \/ flushNoMatch /\ flushInValid
  \/ \E b \in Banks : bank[b] # << >> /\ Head(bank[b]).done

\* A bank: its queue takes the request, the MSHR works on the oldest one, and
\* its response leaves when the flush register can take it.
BankStep(b, ready, finish) ==
  LET taken == IF flushInValid /\ flushSelect(b) /\ ready
               THEN <<[addr |-> flushInAddress, done |-> FALSE]>> ELSE << >>
      old == bank[b]
  IN IF old = << >> THEN taken
     ELSE IF Head(old).done
          THEN (IF flushOutValid THEN old ELSE Tail(old)) \o taken
          ELSE <<[Head(old) EXCEPT !.done = finish]>> \o Tail(old) \o taken

\* One cycle: `in` is the write on the bus, out_ready the bus's readiness for
\* an acknowledgement, ready the banks that can take a request (a bank holds
\* at most two), finish the banks whose flush ends.
flCycle(in, out_ready, ready, finish) ==
  LET ivalid == in # NoFlush /\ FrontReady
      ifire == ivalid /\ ~flushInValid
      oready == back # << >> /\ out_ready
      ofire == oready /\ flushOutValid
      flushInReady == \/ flushNoMatch /\ flushInValid
                      \/ \E b \in ready : flushSelect(b)
      rest == IF ofire THEN Tail(back) ELSE back
  IN /\ flushInValid' = (ivalid \/ (flushInValid /\ ~flushInReady))
     /\ flushInAddress' = IF ifire THEN Capture(in) ELSE flushInAddress
     /\ flushOutValid' = (SetOut \/ (flushOutValid /\ ~oready))
     /\ back' = IF ifire THEN Append(rest, in) ELSE rest
     /\ bank' = [b \in Banks |-> BankStep(b, b \in ready, b \in finish)]
     /\ finished' = (IF ifire THEN {} ELSE finished)
                      \cup {Head(bank[b]).addr :
                              b \in {c \in finish : bank[c] # << >>}}

flNext ==
  \E in \in {NoFlush} \cup FlushWrites, out_ready \in BOOLEAN,
     ready \in SUBSET {b \in Banks : Len(bank[b]) < 2}, finish \in SUBSET Banks :
    flCycle(in, out_ready, ready, finish)

\* What the neighbours owe: a bank that is asked takes the request, a bank at
\* work finishes, and the bus takes an acknowledgement that is ready.
BankTakes ==
  \E in \in {NoFlush} \cup FlushWrites, out_ready \in BOOLEAN, finish \in SUBSET Banks :
    \E b \in Banks :
      /\ flushInValid /\ flushSelect(b) /\ Len(bank[b]) < 2
      /\ flCycle(in, out_ready, {b}, finish)

BankFinishes ==
  \E in \in {NoFlush} \cup FlushWrites, out_ready \in BOOLEAN :
    \E b \in Banks :
      /\ bank[b] # << >> /\ ~Head(bank[b]).done
      /\ flCycle(in, out_ready, {}, {b})

BusTakes ==
  \E in \in {NoFlush} \cup FlushWrites, finish \in SUBSET Banks :
    /\ flushOutValid /\ back # << >>
    /\ flCycle(in, TRUE, {}, finish)

-----------------------------------------------------------------------------
\* "Only one flush at a time (else need to track who answers)" and the
\* assertion of line 197: a response always comes from the bank that
\* flushInAddress selects, and at most one flush is under way.
ResponseSelected ==
  /\ \A b \in Banks : bank[b] # << >> => flushSelect(b) /\ Len(bank[b]) = 1
  /\ \A b \in Banks : bank[b] # << >> => ~flushInValid /\ ~flushOutValid

\* An acknowledgement waits for a write, and the address that write means has
\* been flushed by then unless no bank holds it.
AckMeansFlushed ==
  flushOutValid =>
    /\ Len(back) = 1
    /\ BankOf[Meant(back[1])] # NoBank => Meant(back[1]) \in finished

\* Every write to a flush register is answered, with or without a bank.
FlushAnswered == []<>(back = << >>)

\* A flush is answered, after it has been done and by the bank that did it.
FlushCorrect == [](ResponseSelected /\ AckMeansFlushed) /\ FlushAnswered
=============================================================================
