------------------------------- MODULE CommitLog -------------------------------
(***************************************************************************)
(* The commit-log filter src/main/resources/csrc/comlog.cc.  The processor *)
(* writes a line per committed instruction, partial if its result comes    *)
(* later, and then a line with the result, in any order; the filter puts   *)
(* the results in their place and keeps program order.  An instruction is  *)
(* its number, its result is right if it carries the same number.  The     *)
(* processor (external) has one instruction outstanding per destination.   *)
(***************************************************************************)
EXTENDS Naturals, Sequences

CONSTANTS kMaxPdst, LINES        \* LINES bounds the instructions of a log

Pdsts == 0 .. kMaxPdst - 1

VARIABLES
  rob,              \* entries [id, ready, result]
  pdst_to_rob,      \* pdst -> the entry waiting for it, 0 for nullptr
  cout,             \* lines written
  cl_issued,        \* instructions the processor has committed
  cl_pending,       \* pdst -> the instruction whose result is outstanding, 0 if none
  cl_assert         \* an assertion of the filter failed

clVars == <<rob, pdst_to_rob, cout, cl_issued, cl_pending, cl_assert>>

clInit ==
  /\ rob = <<>> /\ cout = <<>>
  /\ pdst_to_rob = [p \in Pdsts |-> 0] /\ cl_pending = [p \in Pdsts |-> 0]
  /\ cl_issued = 0 /\ cl_assert = FALSE

\* The first n entries are ready, and no more.
ReadyHead(q, n) == (\A i \in 1 .. n : q[i].ready) /\ (n < Len(q) => ~q[n + 1].ready)

\* Mutant: an entry that waits for its result does not hold the others.
Commit_Eager(q) == rob' = <<>> /\ cout' = cout \o q

\* commit: the ready entries at the head are written and removed.
Commit(q) ==
  \E n \in 0 .. Len(q) :
    ReadyHead(q, n) /\ rob' = SubSeq(q, n + 1, Len(q)) /\ cout' = cout \o SubSeq(q, 1, n)

\* push of a complete line
Push(id) ==
  /\ Commit(Append(rob, [id |-> id, ready |-> TRUE, result |-> id]))
  /\ UNCHANGED <<pdst_to_rob, cl_pending, cl_assert>>

\* push of a partial line
PushPartial(id, p) ==
  /\ cl_pending[p] = 0
  /\ Commit(Append(rob, [id |-> id, ready |-> FALSE, result |-> 0]))
  /\ cl_assert' = (cl_assert \/ pdst_to_rob[p] # 0)
  /\ pdst_to_rob' = [pdst_to_rob EXCEPT ![p] = id]
  /\ cl_pending' = [cl_pending EXCEPT ![p] = id]

Instruction ==
  /\ cl_issued < LINES
  /\ cl_issued' = cl_issued + 1
  /\ Push(cl_issued + 1) \/ \E p \in Pdsts : PushPartial(cl_issued + 1, p)

\* The entry that waits for p gets the result and is ready.
Fill(p, r) ==
  [i \in DOMAIN rob |-> IF rob[i].id = pdst_to_rob[p]
                        THEN [rob[i] EXCEPT !.ready = TRUE, !.result = r] ELSE rob[i]]

\* A result line
writeback(p) ==
  /\ cl_pending[p] # 0
  /\ cl_assert' = (cl_assert \/ pdst_to_rob[p] = 0)
  /\ pdst_to_rob' = [pdst_to_rob EXCEPT ![p] = 0]
  /\ Commit(Fill(p, cl_pending[p]))
  /\ cl_pending' = [cl_pending EXCEPT ![p] = 0]
  /\ UNCHANGED cl_issued

clNext == Instruction \/ \E p \in Pdsts : writeback(p)
clSpec == clInit /\ [][clNext]_clVars
-----------------------------------------------------------------------------
(* Properties *)

\* The filter's assertions never fail on a log of such a processor.
LogAssertsHold == ~cl_assert

\* The output is the program in order, each instruction with its own result, however the
\* results were shuffled.
LogInOrder == \A i \in DOMAIN cout : cout[i].id = i /\ cout[i].result = i

\* Nothing is held back: an instruction is missing from the output only if it or an older
\* one has no result yet.
LogUpToDate ==
  \A n \in Len(cout) + 1 .. cl_issued : \E p \in Pdsts : cl_pending[p] \in 1 .. n

\* The filter turns the processor's log into the program's.
LogRight == LogAssertsHold /\ LogInOrder /\ LogUpToDate
-----------------------------------------------------------------------------
(* The inductive invariant *)

LogEntries == [id : Nat, ready : BOOLEAN, result : Nat]

\* With lines out written, the queue q holds the rest of the n instructions in order; an
\* entry is not ready exactly when a destination of pend waits for it.
Consistent(q, out, pend, n) ==
  /\ n = Len(out) + Len(q)
  /\ \A i \in 1 .. Len(out) : out[i].id = i /\ out[i].result = i
  /\ \A i \in 1 .. Len(q) : q[i].id = Len(out) + i
  /\ \A i \in 1 .. Len(q) : q[i].ready => q[i].result = q[i].id
  /\ \A i \in 1 .. Len(q) : ~q[i].ready => \E p \in Pdsts : pend[p] = q[i].id
  /\ \A p \in Pdsts : pend[p] # 0 => pend[p] \in Len(out) + 1 .. n
  /\ \A p \in Pdsts : pend[p] # 0 => ~q[pend[p] - Len(out)].ready
  /\ \A p, r \in Pdsts : pend[p] = pend[r] /\ pend[p] # 0 => p = r

clInv ==
  /\ rob \in Seq(LogEntries) /\ cout \in Seq(LogEntries)
  /\ cl_issued \in Nat /\ cl_pending \in [Pdsts -> Nat]
  /\ pdst_to_rob = cl_pending /\ ~cl_assert
  /\ Consistent(rob, cout, cl_pending, cl_issued)
  /\ rob # <<>> => ~rob[1].ready
=============================================================================
