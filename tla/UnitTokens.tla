----------------------------- MODULE UnitTokens -----------------------------
(***************************************************************************)
(* The issue tokens that protect the shared dividers of a pipeline         *)
(* (rocket/ctxtUnit.scala, CtxtUnit) together with the pool of dividers    *)
(* they protect (rocket/pipeUnit.scala, rocket/Div.scala).                 *)
(*                                                                         *)
(* A DIV leaves its context row as soon as the row selector picks it; two  *)
(* cycles later it is offered to the dividers, which cannot stall the      *)
(* pipeline, and three cycles after that the pipeline tells the divider    *)
(* whether the instruction was real or muted.  Only divCntr_reg and        *)
(* disableDiv_reg keep a fifth DIV from arriving at four busy dividers.    *)
(* MULH (NUM_MUL_H = 1 unit) and MUL (a collapsing pipeline of             *)
(* NUM_MUL_L = 5 stages) are protected by copies of the same logic.        *)
(*                                                                         *)
(* One step is one clock cycle.  The number of cycles a division takes is  *)
(* left open.                                                              *)
(***************************************************************************)
EXTENDS Integers, FiniteSets

CONSTANTS
  NUM_DIV,    \* number of dividers of the pipeline
  CntrMax     \* largest value of divCntr_reg: 2^log2Up(NUM_DIV+1) - 1

ASSUME UnitAssumption ==
  /\ NUM_DIV \in Nat \ {0}
  /\ CntrMax \in Nat
  /\ CntrMax >= NUM_DIV

VARIABLES
  isDivEarly_reg,  \* a DIV was selected in the previous cycle (IDC stage)
  pipe,            \* the DIV in each of EX1, EX2, MEM, WB, with its fate
  divCntr_reg,     \* tokens in use
  disableDiv_reg,  \* rows may not issue a DIV
  div,             \* Div.state_reg: "ready", "busy" (all computing states), "done"
  age,             \* k \in 1..3: validDkP_reg is high; 4: isRecReal_reg is high
  isRealD3,        \* Div.req_reg.isRealD3
  fate             \* ghost: whether the DIV held by the divider is real

utVars == <<isDivEarly_reg, pipe, divCntr_reg, disableDiv_reg, div, age, isRealD3, fate>>

Dividers == 0 .. NUM_DIV - 1

EX1 == 1
WB  == 4

Fates == {"real", "mute"}

utInit ==
  /\ isDivEarly_reg = FALSE
  /\ pipe = [s \in EX1 .. WB |-> "none"]
  /\ divCntr_reg = 0
  /\ disableDiv_reg = FALSE
  /\ div = [i \in Dividers |-> "ready"]
  /\ age = [i \in Dividers |-> 0]
  /\ isRealD3 = [i \in Dividers |-> FALSE]
  /\ fate = [i \in Dividers |-> "mute"]

\* A row whose next instruction is a DIV may raise instrReady.
MayIssue == ~(disableDiv_reg \/ isDivEarly_reg)

\* The chain of `sel` wires: the lowest ready divider takes the request.  When
\* none is ready no req.fire happens and the DIV is dropped.
Accepts(i) ==
  /\ pipe[EX1] # "none"
  /\ div[i] = "ready"
  /\ \A k \in Dividers : k < i => div[k] # "ready"

RespValid(i) == div[i] = "done" /\ age[i] = 4

\* ArbiterTree: the lowest divider with a result gets the register-file port.
Granted(i) ==
  /\ RespValid(i)
  /\ \A k \in Dividers : k < i => ~RespValid(k)

Inc(c) == IF c = CntrMax THEN 0 ELSE c + 1

Dec(c) == IF c = 0 THEN CntrMax ELSE c - 1

\* Mutant: an issue in the cycle of a write-back is counted as one more token.
CountTokens_NoCancel(divSafe) ==
  \/ /\ isDivEarly_reg
     /\ divCntr_reg' = Inc(divCntr_reg)
     /\ disableDiv_reg' = (disableDiv_reg \/ divCntr_reg = NUM_DIV - 1)
  \/ /\ ~isDivEarly_reg /\ divSafe
     /\ divCntr_reg' = Dec(divCntr_reg)
     /\ disableDiv_reg' = FALSE
  \/ /\ ~isDivEarly_reg /\ ~divSafe
     /\ UNCHANGED <<divCntr_reg, disableDiv_reg>>

\* Mutant: a returned token does not enable the rows.
CountTokens_NoClear(divSafe) ==
  \/ /\ isDivEarly_reg /\ ~divSafe
     /\ divCntr_reg' = Inc(divCntr_reg)
     /\ disableDiv_reg' = (disableDiv_reg \/ divCntr_reg = NUM_DIV - 1)
  \/ /\ ~isDivEarly_reg /\ divSafe
     /\ divCntr_reg' = Dec(divCntr_reg)
     /\ UNCHANGED disableDiv_reg
  \/ /\ (isDivEarly_reg <=> divSafe)
     /\ UNCHANGED <<divCntr_reg, disableDiv_reg>>

\* The token counter of CtxtUnit; divSafe is the OR of the dividers' resp.fire.
CountTokens(divSafe) ==
  \/ /\ isDivEarly_reg /\ ~divSafe
     /\ divCntr_reg' = Inc(divCntr_reg)
     /\ disableDiv_reg' = (disableDiv_reg \/ divCntr_reg = NUM_DIV - 1)
  \/ /\ ~isDivEarly_reg /\ divSafe
     /\ divCntr_reg' = Dec(divCntr_reg)
     /\ disableDiv_reg' = FALSE
  \/ /\ (isDivEarly_reg <=> divSafe)
     /\ UNCHANGED <<divCntr_reg, disableDiv_reg>>

\* The delay line validD1P_reg .. validD3P_reg and isRecReal_reg behind it.
NextAge(a) == IF a \in 1 .. 3 THEN a + 1 ELSE a

\* The dividers: fired ones become ready, finished ones done, and each captures
\* isRealD3 from the WB stage three cycles after it took its request.
StepPool(fired, finished) ==
  /\ div' = [i \in Dividers |->
               IF Accepts(i) THEN "busy"
               ELSE IF i \in fired THEN "ready"
               ELSE IF i \in finished THEN "done"
               ELSE div[i]]
  /\ age' = [i \in Dividers |->
               IF Accepts(i) THEN 1 ELSE NextAge(age[i])]
  /\ isRealD3' = [i \in Dividers |->
               IF Accepts(i) THEN TRUE
               ELSE IF age[i] = 3 THEN pipe[WB] = "real"
               ELSE isRealD3[i]]
  /\ fate' = [i \in Dividers |-> IF Accepts(i) THEN pipe[EX1] ELSE fate[i]]

\* One clock cycle.  issue: the row selector picks a DIV; f: whether the DIV in
\* IDC will be real when it reaches WB; finished: the busy dividers whose last
\* computing cycle this is; rfReady: the register file takes a result of the
\* multiply/divide port.
utClock(issue, f, finished, rfReady) ==
  LET fired == {i \in Dividers : rfReady /\ Granted(i)} IN
  /\ issue => MayIssue
  /\ isDivEarly_reg' = issue
  /\ pipe' = [s \in EX1 .. WB |->
                IF s > EX1 THEN pipe[s - 1]
                ELSE IF isDivEarly_reg THEN f ELSE "none"]
  /\ CountTokens(fired # {})
  /\ StepPool(fired, finished)

Busy == {i \in Dividers : div[i] = "busy"}

utNext ==
  \E issue, rfReady \in BOOLEAN, f \in Fates, finished \in SUBSET Busy :
    utClock(issue, f, finished, rfReady)

utSpec == utInit /\ [][utNext]_utVars

\* Every busy divider finishes, since count_reg only grows, and the register file
\* does not refuse the port for ever.
Finishes(i) == \E issue, rfReady \in BOOLEAN, f \in Fates, finished \in SUBSET Busy :
               i \in finished /\ utClock(issue, f, finished, rfReady)

WriteBack == \E issue \in BOOLEAN, f \in Fates, finished \in SUBSET Busy :
               (\E i \in Dividers : Granted(i)) /\ utClock(issue, f, finished, TRUE)

utFairSpec ==
  /\ utSpec
  /\ WF_utVars(utNext)
  /\ \A i \in Dividers : WF_utVars(Finishes(i))
  /\ WF_utVars(WriteBack)
-----------------------------------------------------------------------------
utTypeOK ==
  /\ isDivEarly_reg \in BOOLEAN
  /\ pipe \in [EX1 .. WB -> Fates \cup {"none"}]
  /\ divCntr_reg \in 0 .. CntrMax
  /\ disableDiv_reg \in BOOLEAN
  /\ div \in [Dividers -> {"ready", "busy", "done"}]
  /\ age \in [Dividers -> 0 .. 4]
  /\ isRealD3 \in [Dividers -> BOOLEAN]
  /\ fate \in [Dividers -> Fates]

\* A DIV that reaches EX1 always finds a ready divider: the pipeUnit assertion
\* "MUL/DIV is not ready." never fires and no division is dropped.
UnitIsReady == pipe[EX1] # "none" => \E i \in Dividers : div[i] = "ready"

Occupied == {i \in Dividers : div[i] # "ready"}

\* divCntr_reg counts exactly the dividers in use and the DIV on its way to one,
\* and rows are disabled exactly when every token is taken: a token is neither
\* lost (the pipeline would run with fewer dividers for ever) nor duplicated.
TokensExact ==
  /\ divCntr_reg = Cardinality(Occupied) + (IF pipe[EX1] = "none" THEN 0 ELSE 1)
  /\ disableDiv_reg <=> divCntr_reg = NUM_DIV

\* The assertions "CTXT: disableDiv_reg has a problem 1." and "... problem 2.":
\* no token is taken from an empty pool and none returned to a full one.
CounterAsserts ==
  /\ isDivEarly_reg => divCntr_reg < NUM_DIV
  /\ (\E i \in Dividers : RespValid(i)) => divCntr_reg > 0

\* A result offered to the register file carries the verdict of its own
\* instruction: a muted DIV never writes its register and a real one always does,
\* although the verdict arrives three cycles after the request.
FateRespected ==
  \A i \in Dividers : RespValid(i) => (isRealD3[i] <=> fate[i] = "real")

\* A DIV is issued only to a divider that is free, and its result is kept or dropped as its
\* own instruction says.
UnitSafe == utTypeOK /\ UnitIsReady /\ TokensExact /\ CounterAsserts /\ FateRespected

\* Rows barred from issuing a DIV are not barred for ever.
PoolDrains == []<>~disableDiv_reg
=============================================================================
