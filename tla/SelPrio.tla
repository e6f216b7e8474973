------------------------------ MODULE SelPrio ------------------------------
(***************************************************************************)
(* The priority selector of rocket/ctxtUnit.scala (class SelPrio): the     *)
(* round-robin search, built as a binary tree of OR and multiplexer nodes, *)
(* that picks the context row to issue (one selector per pipeline for      *)
(* integer, floating-point and memory instructions), the row to fetch for, *)
(* and the command queue to serve in the data unit (HellaCache, QueueCmd). *)
(*                                                                         *)
(* One step is one clock cycle, in which the environment chooses the ready *)
(* flags and holdOn freely: a row may withdraw its flag (a fetch request   *)
(* is visible only in the cycles of its half of the instruction cache).    *)
(***************************************************************************)
EXTENDS Integers, FiniteSets, FiniteSetsExt

CONSTANTS
  NUM_CTXT,      \* number of rows
  CTXT_ID_LEN    \* depth of the tree: log2Up(NUM_CTXT)

ASSUME SelPrioAssumption ==
  /\ NUM_CTXT \in Nat \ {0}
  /\ CTXT_ID_LEN \in Nat
  /\ NUM_CTXT <= 2 ^ CTXT_ID_LEN

VARIABLES
  prevSel_reg,   \* the rows (at most one) picked in the last cycle without holdOn
  prevSelC_reg,  \* the row of the last valid pick
  watched,       \* ghost: one row, chosen at reset
  waited         \* ghost: for how many cycles without holdOn in a row the watched
                 \* row has been ready and passed over

spVars == <<prevSel_reg, prevSelC_reg, watched, waited>>

Rows == 0 .. NUM_CTXT - 1

\* Leaves past NUM_CTXT are never ready.
Leaf(ready, n) ==
  [new   |-> n \in ready \ prevSel_reg,
   old   |-> n \in prevSelC_reg,
   found |-> FALSE,
   selId |-> IF n < NUM_CTXT THEN n ELSE 0]

\* Go right if the left has no ready row, or if the first ready row after the
\* previous pick is on the right.
SelRight(l, r) == (r.new /\ l.old /\ ~l.found) \/ ~l.new \/ r.found

Join(l, r) ==
  [new   |-> l.new \/ r.new,
   old   |-> l.old \/ r.old,
   found |-> l.found \/ r.found \/ (r.new /\ l.old),
   selId |-> IF SelRight(l, r) THEN r.selId ELSE l.selId]

\* The nodes of every level, bottom up.
Tree(ready) ==
  LET level[k \in 0 .. CTXT_ID_LEN] ==
        IF k = 0 THEN [n \in 0 .. 2 ^ CTXT_ID_LEN - 1 |-> Leaf(ready, n)]
        ELSE LET below == level[k - 1] IN
             [n \in 0 .. 2 ^ (CTXT_ID_LEN - k) - 1 |-> Join(below[2 * n], below[2 * n + 1])]
  IN level

Root(ready) == Tree(ready)[CTXT_ID_LEN][0]

\* io.rowSel: the selected row as a bit vector.
RowSel(ready) ==
  LET root == Root(ready) IN {row \in Rows : root.selId = row /\ root.new}
-----------------------------------------------------------------------------
spInit ==
  /\ prevSel_reg = {}
  /\ prevSelC_reg = {}
  /\ watched \in Rows
  /\ waited = 0

\* Mutant: the sweep always starts at row 0.
UpdatePrev_Forget(rowSel) ==
  /\ prevSel_reg' = rowSel
  /\ prevSelC_reg' = {}

\* The two registers, in a cycle without holdOn.
UpdatePrev(rowSel) ==
  /\ prevSel_reg' = rowSel
  /\ prevSelC_reg' = IF rowSel # {} THEN rowSel ELSE prevSelC_reg

\* One cycle: holdOn freezes the registers; otherwise the picked row is served.
spClock(holdOn, isReady) ==
  LET rowSel == RowSel(isReady) IN
  /\ IF holdOn
     THEN UNCHANGED <<prevSel_reg, prevSelC_reg, waited>>
     ELSE /\ UpdatePrev(rowSel)
          /\ waited' = IF watched \in isReady \ rowSel THEN waited + 1 ELSE 0
  /\ UNCHANGED watched

spNext == \E holdOn \in BOOLEAN, isReady \in SUBSET Rows : spClock(holdOn, isReady)

spSpec == spInit /\ [][spNext]_spVars
-----------------------------------------------------------------------------
spTypeOK ==
  /\ prevSelC_reg \in SUBSET Rows
  /\ Cardinality(prevSelC_reg) <= 1
  /\ prevSel_reg \in SUBSET prevSelC_reg
  /\ watched \in Rows
  /\ waited \in Nat

\* The sweep the comments describe: from the row after the last pick, upwards and
\* around, the first row that is ready and was not picked in the last cycle.
Sweep(ready) ==
  LET candidates == ready \ prevSel_reg
      later      == {row \in candidates : \A p \in prevSelC_reg : row > p}
  IN  IF later # {} THEN {Min(later)}
      ELSE IF candidates # {} THEN {Min(candidates)} ELSE {}

\* The tree search picks exactly the row the sequential sweep would ("A tree search
\* is used to do this round robin search functionality"), whatever rows are ready:
\* at most one row, only a ready one that was not picked in the last cycle, and one
\* whenever there is a candidate.
TreeIsSweep == \A ready \in SUBSET Rows : RowSel(ready) = Sweep(ready)

\* No starvation, with a bound: a row that stays ready is passed over in at most
\* NUM_CTXT cycles without holdOn, whatever the other rows do (one more than the other
\* rows, because its own last pick masks it for a cycle).
BoundedWait == waited <= NUM_CTXT
=============================================================================
