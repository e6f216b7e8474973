------------------------------ MODULE CohChecker ------------------------------
(***************************************************************************)
(* The coherency checker of riscv-tests/common/coh_checker.h.  Every hart  *)
(* owns a row; a row goes from hart to hart by its RecipientID, each one   *)
(* scribbles over its data, restores it and counts the hop, until the row  *)
(* has made its hops and its owner checks it.  Random numbers are free     *)
(* choices; the data words of a row are one value, "own", "noise" while a  *)
(* hart scribbles, or "bad".  Corrupt is the fault the test looks for: a   *)
(* memory that loses the data or the payload of a row.                     *)
(***************************************************************************)
EXTENDS Naturals

CONSTANTS COH_CHECKER_ROWS, MAX_HOPS, TOTAL_CIRCUITS,
          Payloads,        \* the random payloads
          MaxFaults        \* how often the memory may fail

Rows == 0 .. COH_CHECKER_ROWS - 1
ASSUME CohAssumption ==
  /\ COH_CHECKER_ROWS \in Nat \ {0} /\ MAX_HOPS \in Nat \ {0} /\ TOTAL_CIRCUITS \in Nat
  /\ Payloads \subseteq Nat

VARIABLES CohArr,          \* row -> its cache line
          priv,            \* hart -> private payload
          init_ready, harts_done,
          failed, circuits_done, stop,
          coh,             \* hart -> its place, the row it is at and its locals
          coh_verdict,     \* what hart 0 prints
          coh_faults,      \* faults so far
          coh_found        \* history: who found an error in a circuit that was not the last

chOwn == <<init_ready, harts_done, failed, circuits_done, stop, coh_verdict, coh_faults, coh_found>>
chVars == <<CohArr, priv, coh, chOwn>>

chInit ==
  /\ CohArr = [r \in Rows |-> [to |-> 0, hops |-> 0, max |-> 0, orig |-> 0, payload |-> 0,
                               data |-> "bad"]]
  /\ priv = [h \in Rows |-> 0]
  /\ init_ready = {} /\ harts_done = {}
  /\ failed = 0 /\ circuits_done = 0 /\ stop = 0
  /\ coh = [h \in Rows |-> [at |-> "init", row |-> 0, tmp |-> "own", errors |-> 0]]
  /\ coh_verdict = "none" /\ coh_faults = 0 /\ coh_found = {}

chGoto(h, pc) == coh' = [coh EXCEPT ![h].at = pc]
Mine(h) == coh[h].row

\* Initialisation of the hart's own row; init_ready tells the others.
InitRow(h) ==
  \/ /\ coh[h].at = "init"
     /\ \E m \in 0 .. MAX_HOPS - 1, v \in Payloads :
          /\ CohArr' = [CohArr EXCEPT ![h] = [to |-> h, hops |-> 0, max |-> m, orig |-> h,
                                              payload |-> v, data |-> "own"]]
          /\ priv' = [priv EXCEPT ![h] = v]
     /\ chGoto(h, "ready")
     /\ UNCHANGED chOwn
  \/ /\ coh[h].at = "ready"
     /\ init_ready' = init_ready \cup {h}
     /\ chGoto(h, "roll_call")
     /\ UNCHANGED <<CohArr, priv, harts_done, failed, circuits_done, stop, coh_verdict, coh_faults,
                    coh_found>>
  \/ /\ coh[h].at = "roll_call" /\ init_ready = Rows
     /\ chGoto(h, "loop")
     /\ UNCHANGED <<CohArr, priv, chOwn>>

\* while(!stop): another pass over the rows, with no errors counted yet.
Loop(h) ==
  /\ coh[h].at = "loop"
  /\ coh' = [coh EXCEPT ![h] = IF stop = 1 THEN [@ EXCEPT !.at = "finish"]
                               ELSE [at |-> "scan", row |-> 0, tmp |-> "own", errors |-> 0]]
  /\ UNCHANGED <<CohArr, priv, chOwn>>

\* A copy of c that is at the next row, or at the end of the pass.
NextRow(c) == IF c.row + 1 < COH_CHECKER_ROWS
              THEN [c EXCEPT !.row = @ + 1, !.at = "scan", !.tmp = "own"]
              ELSE [c EXCEPT !.row = 0, !.at = "loop", !.tmp = "own"]

\* Is the row for this hart?
Scan(h) ==
  /\ coh[h].at = "scan"
  /\ coh' = [coh EXCEPT ![h] = IF CohArr[@.row].to = h
                               THEN [@ EXCEPT !.at = "read"] ELSE NextRow(@)]
  /\ UNCHANGED <<CohArr, priv, chOwn>>

\* tmp = OtherData; OtherData = noise; OtherData = tmp; AMOADD(numHops); AMOADD(payload)
Scribble(h) ==
  /\ \/ /\ coh[h].at = "read"
        /\ coh' = [coh EXCEPT ![h].at = "noise", ![h].tmp = CohArr[Mine(h)].data]
        /\ UNCHANGED CohArr
     \/ /\ coh[h].at = "noise"
        /\ CohArr' = [CohArr EXCEPT ![Mine(h)].data = "noise"]
        /\ chGoto(h, "restore")
     \/ /\ coh[h].at = "restore"
        /\ CohArr' = [CohArr EXCEPT ![Mine(h)].data = coh[h].tmp]
        /\ chGoto(h, "hop")
     \/ /\ coh[h].at = "hop"
        /\ CohArr' = [CohArr EXCEPT ![Mine(h)].hops = @ + 1]
        /\ chGoto(h, "pay")
     \/ /\ coh[h].at = "pay"
        /\ CohArr' = [CohArr EXCEPT ![Mine(h)].payload = @ + 1]
        /\ chGoto(h, "judge")
  /\ UNCHANGED <<priv, chOwn>>

\* The row goes on to any hart, or back to its owner when it has made its hops.
Pass(h) ==
  /\ coh[h].at = "judge"
  /\ LET row == CohArr[Mine(h)] IN
       ~(row.hops > row.max /\ row.orig = h)
       /\ \E next \in IF row.hops > row.max THEN {row.orig} ELSE Rows :
            CohArr' = [CohArr EXCEPT ![Mine(h)].to = next]
  /\ coh' = [coh EXCEPT ![h] = NextRow(@)]
  /\ UNCHANGED <<priv, chOwn>>

\* The errors the owner counts: data words, and the payload against the hops.
Errors(h) ==
  (IF coh[h].tmp = "own" THEN 0 ELSE 1)
  + (IF CohArr[Mine(h)].payload = priv[h] + CohArr[Mine(h)].hops THEN 0 ELSE 1)

\* The owner checks its row before it counts the circuit.
OwnerChecks(h) ==
  /\ coh[h].at = "judge"
  /\ CohArr[Mine(h)].hops > CohArr[Mine(h)].max /\ CohArr[Mine(h)].orig = h
  /\ coh' = [coh EXCEPT ![h].at = "count", ![h].errors = @ + Errors(h)]
  /\ coh_found' = IF Errors(h) > 0 THEN coh_found \cup {h} ELSE coh_found
  /\ UNCHANGED <<CohArr, priv, init_ready, harts_done, failed, circuits_done, stop, coh_verdict,
                 coh_faults>>

\* AMOADD(circuits_done, 1), then the comparison, which ends the test: the owner returns, and
\* what it found in this circuit is not reported.
CountCircuit(h) ==
  \/ /\ coh[h].at = "count"
     /\ circuits_done' = circuits_done + 1
     /\ chGoto(h, "enough")
     /\ UNCHANGED <<CohArr, priv, init_ready, harts_done, failed, stop, coh_verdict, coh_faults,
                    coh_found>>
  \/ /\ coh[h].at = "enough"
     /\ IF circuits_done >= TOTAL_CIRCUITS
        THEN stop' = 1 /\ chGoto(h, "loop") /\ coh_found' = coh_found \ {h}
        ELSE chGoto(h, "reset") /\ UNCHANGED <<stop, coh_found>>
     /\ UNCHANGED <<CohArr, priv, init_ready, harts_done, failed, circuits_done, coh_verdict,
                    coh_faults>>

\* Mutant: the owner goes on to the next row whatever it found.
AfterSend_Silent(c) == NextRow(c)

\* The owner goes on to the next row, or to report its errors.
AfterSend(c) == IF c.errors > 0 THEN [c EXCEPT !.at = "fail"] ELSE NextRow(c)

\* A new circuit: hops, payload and at last the recipient.
Restart(h) ==
  \/ /\ coh[h].at = "reset"
     /\ \E m \in 0 .. MAX_HOPS - 1, v \in Payloads :
          /\ CohArr' = [CohArr EXCEPT ![Mine(h)].hops = 0, ![Mine(h)].max = m,
                                      ![Mine(h)].payload = v]
          /\ priv' = [priv EXCEPT ![h] = v]
     /\ chGoto(h, "resend")
     /\ UNCHANGED chOwn
  \/ /\ coh[h].at = "resend"
     /\ \E next \in Rows : CohArr' = [CohArr EXCEPT ![Mine(h)].to = next]
     /\ coh' = [coh EXCEPT ![h] = AfterSend(@)]
     /\ UNCHANGED <<priv, chOwn>>

\* The owner records the failure and ends the test.
Report(h) ==
  \/ /\ coh[h].at = "fail"
     /\ failed' = 1 /\ chGoto(h, "stop")
     /\ UNCHANGED <<CohArr, priv, init_ready, harts_done, circuits_done, stop, coh_verdict,
                    coh_faults, coh_found>>
  \/ /\ coh[h].at = "stop"
     /\ stop' = 1 /\ chGoto(h, "loop")
     /\ UNCHANGED <<CohArr, priv, init_ready, harts_done, failed, circuits_done, coh_verdict,
                    coh_faults, coh_found>>

\* The end: every hart says it is done, hart 0 waits for all and gives the verdict.
Finish(h) ==
  \/ /\ coh[h].at = "finish"
     /\ harts_done' = harts_done \cup {h}
     /\ chGoto(h, IF h = 0 THEN "verdict" ELSE "done")
     /\ UNCHANGED <<CohArr, priv, init_ready, failed, circuits_done, stop, coh_verdict, coh_faults,
                    coh_found>>
  \/ /\ coh[h].at = "verdict" /\ harts_done = Rows
     /\ coh_verdict' = IF failed = 1 THEN "FAILED" ELSE "SUCCESS"
     /\ chGoto(h, "done")
     /\ UNCHANGED <<CohArr, priv, init_ready, harts_done, failed, circuits_done, stop, coh_faults,
                    coh_found>>

coh_checker_iteration(h) ==
  Scan(h) \/ Scribble(h) \/ Pass(h) \/ OwnerChecks(h) \/ CountCircuit(h) \/ Restart(h) \/ Report(h)

coh_checker_main(h) == InitRow(h) \/ Loop(h) \/ coh_checker_iteration(h) \/ Finish(h)

\* The memory loses what a row holds.
Corrupt ==
  /\ coh_faults < MaxFaults /\ init_ready = Rows /\ stop = 0
  /\ \E r \in Rows : \/ CohArr' = [CohArr EXCEPT ![r].data = "bad"]
                     \/ CohArr' = [CohArr EXCEPT ![r].payload = @ + 2]
  /\ coh_faults' = coh_faults + 1
  /\ UNCHANGED <<priv, coh, init_ready, harts_done, failed, circuits_done, stop, coh_verdict,
                 coh_found>>

chNext == (\E h \in Rows : coh_checker_main(h)) \/ Corrupt
chSpec == chInit /\ [][chNext]_chVars
chDone == \A h \in Rows : coh[h].at = "done"

-----------------------------------------------------------------------------
(* Properties *)

chTypeOK ==
  /\ \A r \in Rows : CohArr[r].to \in Rows /\ CohArr[r].hops <= MAX_HOPS + 1
  /\ \A h \in Rows : coh[h].row \in Rows /\ coh[h].errors \in 0 .. 255

\* The test ends: once TOTAL_CIRCUITS circuits are counted, a hart counts at most one more.
CircuitsEnd == circuits_done <= TOTAL_CIRCUITS + COH_CHECKER_ROWS

Working == {"read", "noise", "restore", "hop", "pay", "judge", "count", "enough", "reset", "resend"}

\* A row is only ever in one hart's hands: between finding its id in RecipientID and
\* writing another's, no other hart works on the row.
RowExclusive ==
  \A h, g \in Rows : coh[h].at \in Working /\ coh[g].at \in Working /\ coh[h].row = coh[g].row
                     => h = g

\* A memory that keeps what is written never fails the test.
NoFalseFailure == coh_faults = 0 => failed = 0 /\ \A h \in Rows : coh[h].errors = 0

\* A wrong row that an owner has seen is in the verdict, whoever ends the test and however
\* many circuits are counted since, unless the owner's own circuit ended the test.
FoundIsReported == coh_verdict = "SUCCESS" => coh_found = {}

\* The checker can be trusted: rows are handed over whole, a good memory passes, and what
\* is found is told.
RowsSound == chTypeOK /\ RowExclusive /\ NoFalseFailure /\ FoundIsReported
CheckerSound == RowsSound /\ CircuitsEnd
-----------------------------------------------------------------------------
(* The inductive invariant *)

RowData == {"own", "noise", "bad"}
CohPlaces == Working \cup {"init", "ready", "roll_call", "loop", "scan", "fail", "stop", "finish",
                          "verdict", "done"}

chTypes ==
  /\ CohArr \in [Rows -> [to : Rows, hops : Nat, max : 0 .. MAX_HOPS - 1, orig : Rows,
                           payload : Nat, data : RowData]]
  /\ priv \in [Rows -> Nat]
  /\ coh \in [Rows -> [at : CohPlaces, row : Rows, tmp : RowData, errors : Nat]]
  /\ init_ready \subseteq Rows /\ harts_done \subseteq Rows
  /\ failed \in {0, 1} /\ stop \in {0, 1} /\ circuits_done \in Nat /\ coh_faults \in Nat

\* Nobody looks at the rows before all harts have set up theirs.
AllSetUp ==
  \A h \in Rows :
    /\ h \in init_ready <=> coh[h].at \notin {"init", "ready"}
    /\ coh[h].at \notin {"init", "ready", "roll_call"} => init_ready = Rows
    /\ coh[h].at # "init" => CohArr[h].orig = h

\* A hart works only on a row that is addressed to it, and counts only its own.
Addressed ==
  \A h \in Rows :
    /\ coh[h].at \in Working => CohArr[coh[h].row].to = h
    /\ coh[h].at \in {"count", "enough", "reset", "resend"} => coh[h].row = h

\* Hart h is at one of the places with row r.
WorksOn(h, r, places) == coh[h].at \in places /\ coh[h].row = r

\* A row with enough hops is on its way to its owner, and makes one more hop there; a row
\* that is sent out again has none.
HopsBounded ==
  /\ \A r \in Rows : LET x == CohArr[r] IN
       /\ x.hops > x.max => x.to = x.orig \/ WorksOn(x.to, r, {"pay", "judge"})
       /\ x.hops > x.max + 1 =>
            /\ x.hops = x.max + 2 /\ x.to = x.orig
            /\ \/ WorksOn(x.to, r, {"pay", "judge", "count", "enough", "reset"})
               \/ stop = 1 /\ coh[x.to].at \in {"loop", "finish", "verdict", "done"}
  /\ \A h \in Rows : coh[h].at = "resend" => CohArr[coh[h].row].hops = 0

\* A hart counts the errors of one circuit in a pass.
ErrorsBounded ==
  \A h \in Rows :
    /\ coh[h].errors <= 2
    /\ WorksOn(h, coh[h].row, {"scan", "read", "noise", "restore", "hop", "pay", "judge"})
       /\ coh[h].row <= h => coh[h].errors = 0

\* In a memory without faults a row has its data, but for the hart that scribbles over it and
\* keeps a copy, and its payload counts its hops, but for the hart between the two AMOs.
Faithful ==
  coh_faults = 0 =>
    /\ failed = 0
    /\ \A h \in Rows : coh[h].errors = 0 /\ coh[h].tmp = "own"
    /\ \A r \in Rows : LET x == CohArr[r] IN
         coh[r].at # "init" =>
           /\ x.data = "own" \/ WorksOn(x.to, r, {"restore"})
           /\ x.payload + (IF WorksOn(x.to, r, {"pay"}) THEN 1 ELSE 0) = priv[r] + x.hops

\* An owner with a wrong row still has the errors in hand, or they are in the verdict.
FoundKept ==
  \A h \in coh_found : \/ failed = 1
                       \/ /\ h \in Rows /\ coh[h].errors > 0
                          /\ coh[h].at \in {"count", "enough", "reset", "resend", "fail"}

\* What fails the test, and the verdict, which waits for all.
Reporting ==
  /\ \A h \in Rows :
       /\ coh[h].at \in {"fail", "stop"} => coh[h].errors > 0
       /\ h \in harts_done => coh[h].at \in {"verdict", "done"}
  /\ coh_verdict # "none" => harts_done = Rows
  /\ coh_verdict = "SUCCESS" => failed = 0

\* The harts that will not count another circuit, once the last one is counted.
Retired == {h \in Rows : \/ coh[h].at = "enough"
                         \/ stop = 1 /\ coh[h].at \in {"loop", "finish", "verdict", "done"}}

\* The step behind CircuitsEnd: once the last circuit is counted a retired hart stays
\* retired, and each further circuit retires a hart.
CircuitsRetire ==
  /\ circuits_done' \in {circuits_done, circuits_done + 1}
  /\ circuits_done >= TOTAL_CIRCUITS =>
       /\ Retired \subseteq Retired'
       /\ circuits_done' # circuits_done => Retired' \ Retired # {}

chInv == chTypes /\ AllSetUp /\ Addressed /\ HopsBounded /\ ErrorsBounded /\ Faithful
         /\ Reporting /\ FoundKept
=============================================================================
