---------------------------- MODULE MCProgress -----------------------------
(***************************************************************************)
(* The blocks and programs that owe somebody an answer, for TLC: a run     *)
(* chooses one of them in its initial state.  Each is checked for safety   *)
(* and, under the fairness its module names, for progress.                 *)
(***************************************************************************)
EXTENDS UnitTokens, QueueRow, FlushControl, HostIf, VmKernel, WorkQueue

VARIABLE unit   \* the block or program that runs

Units == {"UnitTokens", "QueueRow", "FlushControl", "HostIf", "VmKernel", "WorkQueue"}

prVars == <<unit, utVars, quVars, flVars, hiVars, vmVars, wqVars>>

\* The others stand still.
Only(u) ==
  /\ UNCHANGED unit
  /\ u # "UnitTokens" => UNCHANGED utVars
  /\ u # "QueueRow" => UNCHANGED quVars
  /\ u # "FlushControl" => UNCHANGED flVars
  /\ u # "HostIf" => UNCHANGED hiVars
  /\ u # "VmKernel" => UNCHANGED vmVars
  /\ u # "WorkQueue" => UNCHANGED wqVars

PrInit ==
  /\ unit \in Units
  /\ utInit /\ quInit /\ flInit /\ hiInit /\ vmInit /\ wqInit

\* The program is over and its last state lasts, or a core polls the host or its partners.
Over ==
  /\ \/ unit = "HostIf"
     \/ unit = "VmKernel" /\ vmDone
     \/ unit = "WorkQueue" /\ wqDone
  /\ UNCHANGED prVars

PrNext ==
  \/ unit = "UnitTokens" /\ utNext /\ Only("UnitTokens")
  \/ unit = "QueueRow" /\ quNext /\ Only("QueueRow")
  \/ unit = "FlushControl" /\ flNext /\ Only("FlushControl")
  \/ unit = "HostIf" /\ hiNext /\ Only("HostIf")
  \/ unit = "VmKernel" /\ vmNext /\ Only("VmKernel")
  \/ unit = "WorkQueue" /\ wqNext /\ Only("WorkQueue")
  \/ Over

\* What goes on in any case: the clock of a block, the host.
Runs ==
  \/ unit = "UnitTokens" /\ utNext /\ Only("UnitTokens")
  \/ unit = "QueueRow" /\ quNext /\ Only("QueueRow")
  \/ unit = "FlushControl" /\ flNext /\ Only("FlushControl")
  \/ unit = "HostIf" /\ (hiStart \/ HostPolls) /\ Only("HostIf")

\* The duties of a block's neighbours, and of the cores that have an instruction.  A
\* behaviour runs one unit, so weak fairness of duty i is weak fairness of the i-th duty of
\* every unit.
Duty(i) ==
  \/ /\ unit = "UnitTokens"
     /\ (i \in Dividers /\ Finishes(i)) \/ (i = NUM_DIV /\ WriteBack)
     /\ Only("UnitTokens")
  \/ /\ unit = "FlushControl"
     /\ (i = 0 /\ BankTakes) \/ (i = 1 /\ BankFinishes) \/ (i = 2 /\ BusTakes)
     /\ Only("FlushControl")
  \/ /\ unit = "HostIf"
     /\ (i \in Cores /\ hiStep(i)) \/ (i = NHARTS /\ HostAnswers)
     /\ Only("HostIf")
  \/ unit = "VmKernel" /\ i \in Ctx /\ vmStep(i) /\ Only("VmKernel")
  \/ unit = "WorkQueue" /\ i \in Threads /\ workqueue_test(i) /\ Only("WorkQueue")

Duties == (0 .. 2) \cup (0 .. NUM_DIV) \cup (0 .. NHARTS) \cup Ctx \cup Threads

PrSpec ==
  /\ PrInit /\ [][PrNext]_prVars
  /\ WF_prVars(Runs)
  /\ \A i \in Duties : WF_prVars(Duty(i))
  /\ SF_prVars(unit = "QueueRow" /\ Takes /\ Only("QueueRow"))
  /\ SF_prVars(unit = "QueueRow" /\ CacheAccepts /\ Only("QueueRow"))

\* Exit codes: 0, 1 and a negative int.
MCCodes == {{}, {0}, {1, INT - 1}}

\* Two banks of sixteen bytes; every other address belongs to none.
MCBankOf ==
  [a \in 0 .. 600 |-> IF a \in 16 .. 31 THEN "b0" ELSE IF a \in 32 .. 47 THEN "b1" ELSE "none"]
=============================================================================
