------------------------------- MODULE Megazord -------------------------------
(***************************************************************************)
(* riscv-tests/torture/amo-megazord/amo-megazord.c: in every run hart 0    *)
(* draws a permutation that pairs the harts and a test for each pair; all  *)
(* harts run their test and report to hart 0, which lets them go on.  The  *)
(* phases are kept apart by run_signals alone, which hart 0 counts up      *)
(* twice in a run and the others once.                                     *)
(***************************************************************************)
EXTENDS PairedTest

CONSTANTS MEGAZORD_RUNS,
          Pairings,          \* the permutations that are drawn
          Drawn              \* the tests that are drawn

ASSUME MegazordAssumption ==
  /\ \A p \in Pairings : p \in [Harts -> Harts] /\ \A i \in Harts : \E h \in Harts : p[h] = i
  /\ Drawn \subseteq Tests

VARIABLES hart_pairs,        \* hart -> its index in this run
          test_to_run,       \* pair -> its test
          run_signals,
          signal_counter,    \* hart -> signals it has consumed
          mz                 \* hart -> its place in thread_entry and its run

mzOwn == <<hart_pairs, test_to_run, run_signals, signal_counter, mz>>
mzVars == <<ptVars, mzOwn>>

mzInit ==
  /\ ptInit
  /\ hart_pairs = [h \in Harts |-> 0]
  /\ test_to_run = [n \in DOMAIN mem |-> "none"]
  /\ run_signals = [h \in Harts |-> 0]
  /\ signal_counter = [h \in Harts |-> 0]
  /\ mz = [h \in Harts |-> [at |-> IF h = 0 THEN "permute" ELSE "wait", run |-> 0]]

mzGoto(h, pc) == mz' = [mz EXCEPT ![h].at = pc]

\* Hart 0: permute, choose the tests, signal.
HartZeroSetsUp ==
  \/ /\ mz[0].at = "permute"
     /\ hart_pairs' \in Pairings
     /\ mzGoto(0, "choose")
     /\ UNCHANGED <<ptVars, test_to_run, run_signals, signal_counter>>
  \/ /\ mz[0].at = "choose"
     /\ test_to_run' \in [DOMAIN mem -> Drawn]
     /\ mzGoto(0, "start")
     /\ UNCHANGED <<ptVars, hart_pairs, run_signals, signal_counter>>

SignalRun(h, from, to) ==
  /\ mz[h].at = from
  /\ run_signals' = [run_signals EXCEPT ![h] = @ + 1]
  /\ mzGoto(h, to)
  /\ UNCHANGED <<ptVars, hart_pairs, test_to_run, signal_counter>>

\* while(run_signals[0] == signal_counter); signal_counter++;
AwaitHartZero(h, from, to) ==
  /\ h # 0 /\ mz[h].at = from
  /\ run_signals[0] # signal_counter[h]
  /\ signal_counter' = [signal_counter EXCEPT ![h] = @ + 1]
  /\ mzGoto(h, to)
  /\ UNCHANGED <<ptVars, hart_pairs, test_to_run, run_signals>>

\* Mutant: hart 0 does not wait for the last hart.
AwaitAll_ButLast(h) ==
  /\ h = 0 /\ mz[0].at = "collect"
  /\ \A g \in Harts \ {0, TOTAL_HARTS - 1} : run_signals[g] # signal_counter[0]
  /\ signal_counter' = [signal_counter EXCEPT ![0] = @ + 1]
  /\ mzGoto(0, "release")
  /\ UNCHANGED <<ptVars, hart_pairs, test_to_run, run_signals>>

\* Hart 0 waits for every other hart in turn; their signals only grow.
AwaitAll(h) ==
  /\ h = 0 /\ mz[0].at = "collect"
  /\ \A g \in Harts \ {0} : run_signals[g] # signal_counter[0]
  /\ signal_counter' = [signal_counter EXCEPT ![0] = @ + 1]
  /\ mzGoto(0, "release")
  /\ UNCHANGED <<ptVars, hart_pairs, test_to_run, run_signals>>

\* The test hart_pairs and test_to_run name, until it is over.
RunTest(h) ==
  \/ /\ mz[h].at = "test" /\ pt[h].at = "out"
     /\ Enter(h, test_to_run[hart_pairs[h] \div 2], hart_pairs[h])
     /\ UNCHANGED mzOwn
  \/ paired_test(h) /\ UNCHANGED mzOwn
  \/ /\ mz[h].at = "test" /\ pt[h].at = "over"
     /\ ptGoto(h, "out")
     /\ mzGoto(h, IF h = 0 THEN "collect" ELSE "report")
     /\ UNCHANGED <<signals, partner_last_signal, operands, mem, resv, hart_pairs, test_to_run,
                    run_signals, signal_counter>>

NextRun(h) ==
  /\ mz[h].at = "next"
  /\ mz' = [mz EXCEPT ![h] = [run |-> @.run + 1,
               at |-> IF mz[h].run + 1 = MEGAZORD_RUNS THEN "done"
                      ELSE IF h = 0 THEN "permute" ELSE "wait"]]
  /\ UNCHANGED <<ptVars, hart_pairs, test_to_run, run_signals, signal_counter>>

mz_thread_entry(h) ==
  \/ h = 0 /\ HartZeroSetsUp
  \/ SignalRun(h, "start", "test") \/ AwaitHartZero(h, "wait", "test")
  \/ RunTest(h)
  \/ SignalRun(h, "report", "again") \/ AwaitAll(h)
  \/ SignalRun(h, "release", "next") \/ AwaitHartZero(h, "again", "next")
  \/ NextRun(h)

mzNext == \E h \in Harts : mz_thread_entry(h)
mzDone == \A h \in Harts : mz[h].at = "done"

-----------------------------------------------------------------------------
(* Properties *)

\* Hart 0 draws new pairs only when no hart is in a test or about to look up its pair,
\* though the others wait for it on a counter it may count up again before they look.
SetupUnshared ==
  mz[0].at \in {"permute", "choose", "start"} =>
    \A h \in Harts \ {0} : /\ pt[h].at = "out"
                           /\ mz[h].at \in {"wait", "again", "next", "done"}
                           /\ mz[h].at = "wait" => run_signals[0] = signal_counter[h]
                                                   \/ mz[h].run < mz[0].run

\* Two harts that are in a test at the same time are in the same run, and each index is
\* taken once.
PairsDisjoint ==
  \A h, g \in Harts : h # g /\ pt[h].at # "out" /\ pt[g].at # "out" =>
     /\ mz[h].run = mz[g].run /\ pt[h].idx # pt[g].idx
     /\ pt[h].idx = Partner(pt[g].idx) => pt[h].test = pt[g].test

\* Pairs of harts meet only in their own test, and a test of atomic operations never
\* raises the alarm.
TestsSound == NoFalseAlarm /\ Settled /\ SetupUnshared /\ PairsDisjoint
=============================================================================
