---------------------------- MODULE MCHardware -----------------------------
(***************************************************************************)
(* The hardware blocks that are checked on their own, for TLC: a run       *)
(* chooses one of them in its initial state and clocks it.  A register     *)
(* without reset value is open only in the block that is chosen.           *)
(***************************************************************************)
EXTENDS ListBuffer, SelPrio, SourceC, Directory, NBMshr, SourceD

VARIABLE unit   \* the block that is clocked

Units == {"ListBuffer", "SelPrio", "SourceC", "Directory", "NBMshr", "SourceD"}

\* The block u is clocked; the others stand still.
Clocked(u) ==
  /\ UNCHANGED unit
  /\ u # "ListBuffer" => UNCHANGED vars
  /\ u # "SelPrio" => UNCHANGED spVars
  /\ u # "SourceC" => UNCHANGED scVars
  /\ u # "Directory" => UNCHANGED dirVars
  /\ u # "NBMshr" => UNCHANGED nbVars
  /\ u # "SourceD" => UNCHANGED sdVars

HwInit ==
  /\ unit \in Units
  /\ unit # "ListBuffer" =>
       /\ head = [q \in Queues |-> 0] /\ tail = head
       /\ next = [e \in Entries |-> 0] /\ data = next
  /\ unit # "SelPrio" => watched = 0
  /\ unit # "Directory" => dirReg = FALSE
  /\ unit # "NBMshr" => shape = <<1, 2>>
  /\ Init /\ spInit /\ scInit /\ dirInit /\ nbInit /\ sdInit

HwNext ==
  \/ unit = "ListBuffer" /\ Next /\ Clocked("ListBuffer")
  \/ unit = "SelPrio" /\ spNext /\ Clocked("SelPrio")
  \/ unit = "SourceC" /\ scNext /\ Clocked("SourceC")
  \/ unit = "Directory" /\ dirNext /\ Clocked("Directory")
  \/ unit = "NBMshr" /\ nbNext /\ Clocked("NBMshr")
  \/ unit = "SourceD" /\ sdNext /\ Clocked("SourceD")

\* The tree search of SelPrio (ctxtUnit.scala) picks the row the sweep of its comments would,
\* and so passes over nobody for long; evaluated only where the selector is clocked, since
\* it ranges over all sets of rows.
SelectorFair == unit = "SelPrio" => spTypeOK /\ TreeIsSweep /\ BoundedWait

\* One handler and two sets, two handlers and one set.
MCShapes == {<<1, 2>>, <<2, 1>>}

\* A read, a whole and a partial write of a beat, a request without data, and a read and a
\* write of a whole block.
MCKinds ==
  LET A == {0, 1}
  IN {<<"read", A, {}, FALSE>>, <<"put", {0}, {0}, FALSE>>,
      <<"partial", A, {1}, FALSE>>, <<"single", A, {}, FALSE>>,
      <<"read", A, {}, TRUE>>, <<"release", A, A, TRUE>>}
=============================================================================
