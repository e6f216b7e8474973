------------------------------ MODULE PairedTest ------------------------------
(***************************************************************************)
(* The pair-wise tests of atomics of riscv-tests/common/torture_util.h.    *)
(* The harts at indexes 2n and 2n+1 share the word mem[n]: the left one    *)
(* sets it up, both apply an atomic operation to it, and the left one      *)
(* checks the outcome.  Between these phases they meet in                  *)
(* sync_with_partner.  Words have two bits; a signed word is two's         *)
(* complement.  A hart's place is its index, which its test gives it.      *)
(***************************************************************************)
EXTENDS Integers, FiniteSets

CONSTANTS TOTAL_HARTS,
          PAIRED_TEST_ITERATIONS,
          Operands          \* the words a hart draws its operand from

Harts == 0 .. TOTAL_HARTS - 1
Partner(i) == IF i % 2 = 0 THEN i + 1 ELSE i - 1      \* hartidx ^ 1
Word == 0 .. 3

ASSUME PairedAssumption ==
  TOTAL_HARTS \in Nat /\ TOTAL_HARTS % 2 = 0 /\ Operands \subseteq Word

VARIABLES signals,              \* index -> times its hart has signalled
          partner_last_signal,  \* hart -> signals of partners it has consumed
          operands,             \* index -> paired_test_operands
          mem,                  \* pair -> the word it works on
          resv,                 \* harts that hold a reservation on their word
          pt                    \* hart -> its place in the test and its locals

ptVars == <<signals, partner_last_signal, operands, mem, resv, pt>>

ptInit ==
  /\ signals = [i \in Harts |-> 0]
  /\ partner_last_signal = [h \in Harts |-> 0]
  /\ operands = [i \in Harts |-> 0]
  /\ mem = [n \in 0 .. TOTAL_HARTS \div 2 - 1 |-> 0]
  /\ resv = {}
  /\ pt = [h \in Harts |-> [at |-> "out", test |-> "none", idx |-> 0, iter |-> 0,
                            operand |-> 0, temp |-> 0]]

-----------------------------------------------------------------------------
(* The operations: what the instruction leaves, and the plain C version    *)
(* that the check uses.                                                    *)

Signed(a) == IF a >= 2 THEN a - 4 ELSE a
Greater(a, b) == IF a > b THEN a ELSE b
MaxS(a, b) == IF Signed(a) > Signed(b) THEN a ELSE b
MinS(a, b) == IF Signed(a) < Signed(b) THEN a ELSE b
PerBit(Op(_, _), a, b) == Op(a % 2, b % 2) + 2 * Op(a \div 2, b \div 2)
And(a, b) == PerBit(LAMBDA x, y : x * y, a, b)
Or(a, b) == PerBit(Greater, a, b)
Xor(a, b) == PerBit(LAMBDA x, y : (x + y) % 2, a, b)

PairedTests == {"add", "xor", "and", "or", "max", "maxu", "min", "minu", "lrsc"}
Tests == PairedTests \cup {"swap"}

\* add_func, xor_func, ...
Crude(test, a, b) ==
  CASE test = "add" -> (a + b) % 4
    [] test = "xor" -> Xor(a, b)
    [] test \in {"and", "lrsc"} -> And(a, b)
    [] test = "or" -> Or(a, b)
    [] test = "max" -> MaxS(a, b)
    [] test = "maxu" -> Greater(a, b)
    [] test = "min" -> MinS(a, b)
    [] test = "minu" -> IF a < b THEN a ELSE b

\* The value the word is given first: the neutral one of the operation.
InitVal(test) ==
  CASE test \in {"and", "lrsc", "minu"} -> 3
    [] test = "max" -> 2
    [] test = "min" -> 1
    [] test = "swap" -> 2
    [] OTHER -> 0

-----------------------------------------------------------------------------
(* The steps of a hart *)

Idx(h) == pt[h].idx
Line(h) == pt[h].idx \div 2
RightSide(h) == pt[h].idx % 2 = 1
ptGoto(h, pc) == pt' = [pt EXCEPT ![h].at = pc]
Forget(n) == resv' = {h \in resv : Line(h) # n}

\* Hart h begins a test at index i.
Enter(h, test, i) ==
  /\ pt[h].at = "out"
  /\ pt' = [pt EXCEPT ![h] = [@ EXCEPT !.at = "setup", !.test = test, !.idx = i, !.iter = 0]]
  /\ UNCHANGED <<signals, partner_last_signal, operands, mem, resv>>

\* The left side initialises the word; each draws an operand (amoswap: its own mark).
PairSetup(h) ==
  /\ pt[h].at = "setup"
  /\ IF RightSide(h) THEN UNCHANGED <<mem, resv>>
     ELSE mem' = [mem EXCEPT ![Line(h)] = InitVal(pt[h].test)] /\ Forget(Line(h))
  /\ \E w \in IF pt[h].test = "swap" THEN {Idx(h) % 2} ELSE Operands :
        /\ operands' = [operands EXCEPT ![Idx(h)] = w]
        /\ pt' = [pt EXCEPT ![h].at = "signal1", ![h].operand = w]
  /\ UNCHANGED <<signals, partner_last_signal>>

\* signals[hartidx]++ ...
Signal(h, from, to) ==
  /\ pt[h].at = from
  /\ signals' = [signals EXCEPT ![Idx(h)] = @ + 1]
  /\ ptGoto(h, to)
  /\ UNCHANGED <<partner_last_signal, operands, mem, resv>>

\* ... while(signals[hartidx^1] == partner_last_signal); partner_last_signal++;
Await(h, from, to) ==
  /\ pt[h].at = from
  /\ signals[Partner(Idx(h))] # partner_last_signal[h]
  /\ partner_last_signal' = [partner_last_signal EXCEPT ![h] = @ + 1]
  /\ pt' = [pt EXCEPT ![h].at = to]
  /\ UNCHANGED <<signals, operands, mem, resv>>

\* The three meetings of an iteration.
sync_with_partner(h) ==
  \/ Signal(h, "signal1", "await1") \/ Await(h, "await1", "run")
  \/ Signal(h, "signal2", "await2") \/ Await(h, "await2", "check")
  \/ Signal(h, "signal3", "await3") \/ Await(h, "await3", "next")

\* amo_add_func, amo_xor_func, ...: one instruction.
PairedAmo(h) ==
  /\ pt[h].at = "run" /\ pt[h].test \in PairedTests \ {"lrsc"}
  /\ mem' = [mem EXCEPT ![Line(h)] = Crude(pt[h].test, @, pt[h].operand)]
  /\ ptGoto(h, "signal2")
  /\ UNCHANGED <<signals, partner_last_signal, operands, resv>>

\* AMOSWAP(*dest, operand); paired_test_operands[hartidx] = operand;
AmoSwap(h) ==
  \/ /\ pt[h].at = "run" /\ pt[h].test = "swap"
     /\ mem' = [mem EXCEPT ![Line(h)] = pt[h].operand]
     /\ pt' = [pt EXCEPT ![h].at = "publish", ![h].operand = mem[Line(h)]]
     /\ UNCHANGED <<signals, partner_last_signal, operands, resv>>
  \/ /\ pt[h].at = "publish"
     /\ operands' = [operands EXCEPT ![Idx(h)] = pt[h].operand]
     /\ ptGoto(h, "signal2")
     /\ UNCHANGED <<signals, partner_last_signal, mem, resv>>

\* lr.d, and, sc.d until the store has kept its reservation.
amo_lrsc_func_and(h) ==
  \/ /\ pt[h].at = "run" /\ pt[h].test = "lrsc"
     /\ pt' = [pt EXCEPT ![h].at = "sc", ![h].temp = And(mem[Line(h)], pt[h].operand)]
     /\ resv' = resv \cup {h}
     /\ UNCHANGED <<signals, partner_last_signal, operands, mem>>
  \/ /\ pt[h].at = "sc"
     /\ IF h \in resv
        THEN /\ mem' = [mem EXCEPT ![Line(h)] = pt[h].temp]
             /\ Forget(Line(h))
             /\ pt' = [pt EXCEPT ![h].at = "signal2", ![h].temp = 0]
        ELSE ptGoto(h, "run") /\ UNCHANGED <<mem, resv>>
     /\ UNCHANGED <<signals, partner_last_signal, operands>>

\* What the left side accepts: the word the plain operation gives for both operands;
\* for amoswap, three different values none of which is where it started.
Accepts(test, mine, theirs, word) ==
  IF test = "swap"
  THEN /\ theirs # 1 /\ mine # 0 /\ word # 2
       /\ word # mine /\ word # theirs /\ mine # theirs
  ELSE word = Crude(test, mine, theirs)

LeftChecks(h) ==
  /\ pt[h].at = "check"
  /\ ptGoto(h, IF RightSide(h) \/ Accepts(pt[h].test, pt[h].operand, operands[Partner(Idx(h))],
                                          mem[Line(h)])
               THEN "signal3" ELSE "abort")
  /\ UNCHANGED <<signals, partner_last_signal, operands, mem, resv>>

\* The loop: another iteration, or the test is over.
Again(h) ==
  /\ pt[h].at = "next"
  /\ pt' = [pt EXCEPT ![h].iter = @ + 1, ![h].temp = 0,
              ![h].at = IF pt[h].iter + 1 < PAIRED_TEST_ITERATIONS THEN "setup" ELSE "over"]
  /\ UNCHANGED <<signals, partner_last_signal, operands, mem, resv>>

paired_test(h) ==
  PairSetup(h) \/ sync_with_partner(h) \/ PairedAmo(h) \/ AmoSwap(h) \/ amo_lrsc_func_and(h)
  \/ LeftChecks(h) \/ Again(h)

-----------------------------------------------------------------------------
(* Properties *)

\* The test has no false alarm: if the operation is atomic, no interleaving of a pair
\* makes the left side abort.
NoFalseAlarm == \A h \in Harts : pt[h].at # "abort"

\* While the left side checks, its partner has applied its operation of the same
\* iteration and does not yet draw its next operand.
Settled ==
  \A h, g \in Harts :
     pt[h].at = "check" /\ ~RightSide(h) /\ pt[g].at # "out" /\ pt[g].idx = Partner(Idx(h))
       => /\ pt[g].at \in {"await2", "check", "signal3", "await3"}
          /\ pt[g].iter = pt[h].iter /\ pt[g].test = pt[h].test
=============================================================================
