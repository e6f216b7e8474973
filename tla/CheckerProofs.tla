---------------------------- MODULE CheckerProofs -----------------------------
(***************************************************************************)
(* Proofs about the coherency checker coh_checker.h, for any number of     *)
(* harts, hops, circuits and faults: chInv is inductive, and once the last *)
(* circuit is counted each further one has a hart of its own.              *)
(***************************************************************************)
EXTENDS CheckerSteps, FiniteSetTheorems

\* Faithful for one row, of any state: its data, and its payload.
RowWhole(c, arr, r) ==
  c[r].at # "init" => arr[r].data = "own" \/ (c[arr[r].to].at = "restore" /\ c[arr[r].to].row = r)
RowCounted(c, arr, pv, r) ==
  c[r].at # "init" =>
    IF c[arr[r].to].at = "pay" /\ c[arr[r].to].row = r
    THEN arr[r].payload + 1 = pv[r] + arr[r].hops
    ELSE arr[r].payload = pv[r] + arr[r].hops

\* The state of a memory without faults, as hart h sees it.
LEMMA FaithfulFacts ==
  ASSUME chTypes, AllSetUp, Addressed, Faithful, Reporting, coh_faults = 0, NEW h \in Rows
  PROVE  /\ coh[h].row \in Rows
         /\ failed = 0 /\ coh[h].at # "fail"
         /\ \A g \in Rows : coh[g].errors = 0 /\ coh[g].tmp = "own"
         /\ \A r \in Rows : RowWhole(coh, CohArr, r) /\ RowCounted(coh, CohArr, priv, r)
         /\ coh[h].at \in Working =>
              /\ CohArr[coh[h].row].to = h /\ coh[coh[h].row].at # "init"
              /\ CohArr[coh[h].row].orig = h => coh[h].row = h
              /\ coh[h].at # "restore" => CohArr[coh[h].row].data = "own"
              /\ coh[h].at # "pay" =>
                   CohArr[coh[h].row].payload = priv[coh[h].row] + CohArr[coh[h].row].hops
         /\ coh[h].at \in {"count", "enough", "reset", "resend"} => coh[h].row = h
<1>1. coh[h].row \in Rows
  BY HandFields, Zenon
<1>2. failed = 0 /\ \A g \in Rows : coh[g].errors = 0 /\ coh[g].tmp = "own"
  BY DEF Faithful
<1>3. coh[h].at # "fail"
  BY <1>2 DEF Reporting
<1>4. \A r \in Rows : RowWhole(coh, CohArr, r) /\ RowCounted(coh, CohArr, priv, r)
  <2> SUFFICES ASSUME NEW r \in Rows
               PROVE  RowWhole(coh, CohArr, r) /\ RowCounted(coh, CohArr, priv, r)
    OBVIOUS
  <2>1. priv[r] \in Nat /\ CohArr[r].hops \in Nat /\ CohArr[r].payload \in Nat
    BY LineFields DEF chTypes
  <2> QED
    BY <2>1 DEF Faithful, WorksOn, RowWhole, RowCounted
<1>5. coh[h].at \in Working => init_ready = Rows
  BY DEF AllSetUp, Working
<1>6. coh[h].at \in Working =>
        /\ CohArr[coh[h].row].to = h /\ coh[coh[h].row].at # "init"
        /\ CohArr[coh[h].row].orig = h => coh[h].row = h
  BY <1>1, <1>5 DEF AllSetUp, Addressed
<1>7. coh[h].at \in Working =>
        /\ coh[h].at # "restore" => CohArr[coh[h].row].data = "own"
        /\ coh[h].at # "pay" =>
             CohArr[coh[h].row].payload = priv[coh[h].row] + CohArr[coh[h].row].hops
  BY <1>1, <1>4, <1>6 DEF RowWhole, RowCounted
<1>8. coh[h].at \in {"count", "enough", "reset", "resend"} => coh[h].row = h
  BY DEF Addressed
<1> QED
  BY <1>1, <1>2, <1>3, <1>4, <1>6, <1>7, <1>8

\* A row that the step does not write.
LEMMA RowStays ==
  ASSUME chTypes, NEW h \in Rows, NEW r \in Rows, HartStep(h),
         CohArr'[r] = CohArr[r], priv'[r] = priv[r], coh[h].at # "init" /\ coh'[h].at # "init",
         coh[h].row = r => coh[h].at \notin {"restore", "pay"},
         coh'[h].row = r => coh'[h].at \notin {"restore", "pay"},
         RowWhole(coh, CohArr, r), RowCounted(coh, CohArr, priv, r)
  PROVE  RowWhole(coh', CohArr', r) /\ RowCounted(coh', CohArr', priv', r)
<1>1. CohArr[r].to \in Rows
  BY LineFields, Zenon
<1>2. coh'[r].at # "init" => coh[r].at # "init"
  BY OthersStay
<1>3. CASE CohArr[r].to = h
  BY <1>2, <1>3 DEF RowWhole, RowCounted
<1>4. CASE CohArr[r].to # h
  <2>1. coh'[CohArr[r].to] = coh[CohArr[r].to]
    BY <1>1, <1>4, OthersStay
  <2> QED
    BY <1>2, <2>1 DEF RowWhole, RowCounted
<1> QED
  BY <1>3, <1>4

\* The row that the step writes.
LEMMA RowWritten ==
  ASSUME chTypes, AllSetUp, Addressed, Faithful, Reporting, coh_faults = 0,
         NEW h \in Rows, HartStep(h),
         coh[h].at \in {"noise", "restore", "hop", "pay", "judge", "reset", "resend"}
  PROVE  /\ RowWhole(coh', CohArr', coh[h].row)
         /\ RowCounted(coh', CohArr', priv', coh[h].row)
<1> DEFINE r == coh[h].row
<1>0. /\ r \in Rows /\ CohArr[r].to = h /\ coh[r].at # "init"
      /\ coh[h].at \in Working
      /\ CohArr[r].orig = h => r = h
      /\ coh[h].at # "restore" => CohArr[r].data = "own"
      /\ coh[h].at # "pay" => CohArr[r].payload = priv[r] + CohArr[r].hops
      /\ coh[h].at \in {"reset", "resend"} => r = h
      /\ coh[h].tmp = "own"
      /\ RowCounted(coh, CohArr, priv, r)
  <2>1. coh[h].at \in Working
    BY DEF Working
  <2> QED
    BY <2>1, FaithfulFacts
<1>a. priv \in [Rows -> Nat] /\ CohArr[r].payload \in Nat /\ CohArr[r].hops \in Nat
  BY <1>0, LineFields, ZenonT(60) DEF chTypes
<1> HIDE DEF r
<1>1. CASE Spoils(h)
  BY <1>0, <1>1, SMTT(60) DEF Spoils, Goes, Hand, DataBecomes, Line, RowWhole, RowCounted, r
<1>2. CASE Restores(h)
  BY <1>0, <1>2, SMTT(60) DEF Restores, Goes, Hand, DataBecomes, Line, RowWhole, RowCounted, r
<1>3. CASE CountsHop(h)
  <2>1. /\ coh'[h].at = "pay" /\ coh'[h].row = r /\ CohArr'[r].to = h
        /\ CohArr'[r].hops = CohArr[r].hops + 1 /\ CohArr'[r].payload = CohArr[r].payload
        /\ CohArr'[r].data = "own" /\ priv' = priv
        /\ CohArr[r].payload = priv[r] + CohArr[r].hops
    BY <1>0, <1>3, Zenon DEF CountsHop, Goes, Hand, HopsBecome, Line, r
  <2> QED
    BY <1>0, <1>a, <2>1 DEF RowWhole, RowCounted, r
<1>4. CASE Pays(h)
  <2>1. /\ coh'[h].at = "judge" /\ CohArr'[r].to = h
        /\ CohArr'[r].hops = CohArr[r].hops /\ CohArr'[r].payload = CohArr[r].payload + 1
        /\ CohArr'[r].data = "own" /\ priv' = priv
    BY <1>0, <1>4, Zenon DEF Pays, Goes, Hand, PayloadBecomes, Line, r
  <2>2. CohArr[r].payload + 1 = priv[r] + CohArr[r].hops
    BY <1>0, <1>4, ZenonT(60) DEF Pays, RowCounted, r
  <2> QED
    BY <1>0, <1>a, <2>1, <2>2 DEF RowWhole, RowCounted, r
<1>5. CASE Checks(h)
  BY <1>0, <1>5, SMTT(60) DEF Checks, Hand, Quiet, RowWhole, RowCounted, r
<1>6. CASE Resets(h)
  BY <1>0, <1>a, <1>6 DEF Resets, Goes, Hand, Line, RowWhole, RowCounted, r
<1>7. CASE PassesOn(h) \/ SendsBad(h) \/ SendsGood(h)
  <2>1. PICK n \in Rows : ToBecomes(r, n)
    BY <1>7, SMTT(60) DEF PassesOn, SendsBad, SendsGood, r
  <2>2. /\ CohArr'[r].data = "own" /\ CohArr'[r].payload = priv[r] + CohArr[r].hops
        /\ CohArr'[r].hops = CohArr[r].hops /\ CohArr'[r].to = n /\ priv' = priv
        /\ coh'[h].at \notin {"pay", "restore"}
    BY <1>0, <1>7, <2>1, Zenon DEF ToBecomes, Line, PassesOn, SendsBad, SendsGood, Goes, Leaves,
       Hand, NextPlace
  <2>3. ~(coh'[n].at = "pay" /\ coh'[n].row = r)
    <3>1. CASE n = h
      BY <2>2, <3>1
    <3>2. CASE n # h
      <4>1. coh'[n] = coh[n]
        BY <3>2, OthersStay
      <4>2. coh[n].at \in Working => CohArr[coh[n].row].to = n
        BY DEF Addressed
      <4> QED
        BY <1>0, <3>2, <4>1, <4>2 DEF Working
    <3> QED
      BY <3>1, <3>2, SMTT(60)
  <2> QED
    BY <2>2, <2>3 DEF RowWhole, RowCounted, r
<1> QED
  <2>1. \/ Spoils(h) \/ Restores(h) \/ CountsHop(h) \/ Pays(h) \/ Checks(h) \/ Resets(h)
        \/ PassesOn(h) \/ SendsBad(h) \/ SendsGood(h)
    BY Zenon DEF HartStep, SetsUp, Announces, Begins, Ends, StartsPass, Takes, Skips, Copies,
       Counts,
       IsLast, IsNotLast, Fails, Stops, IsDone, Decides
  <2> QED
    BY <1>1, <1>2, <1>3, <1>4, <1>5, <1>6, <1>7, <2>1 DEF r

\* Harts pass the rows on as they should be.
LEMMA FaithfulKeeps ==
  ASSUME chTypes, AllSetUp, Addressed, Faithful, Reporting, NEW h \in Rows, HartStep(h)
  PROVE  Faithful'
<1>1. coh_faults' = coh_faults
  BY Zenon DEF HartStep, SetsUp, Announces, Begins, Ends, StartsPass, Takes, Skips, Copies, Spoils,
     Restores, CountsHop, Pays, PassesOn, Checks, Counts, IsLast, IsNotLast, Resets, SendsBad,
     SendsGood, Fails, Stops, IsDone, Decides, Quiet, CalmFlags
<1> SUFFICES ASSUME coh_faults = 0 PROVE Faithful'
  BY <1>1 DEF Faithful
<1>2. failed' = 0
  <2>1. ~Fails(h)
    BY FaithfulFacts DEF Fails
  <2>2. failed' = failed
    BY <2>1, Zenon DEF HartStep, SetsUp, Announces, Begins, Ends, StartsPass, Takes, Skips, Copies,
       Spoils, Restores, CountsHop, Pays, PassesOn, Checks, Counts, IsLast, IsNotLast, Resets,
       SendsBad, SendsGood, Stops, IsDone, Decides, Quiet, CalmFlags
  <2> QED
    BY <2>2, FaithfulFacts
<1>3. coh'[h].errors = 0 /\ coh'[h].tmp = "own"
  <2>0. coh[h].errors = 0 /\ coh[h].tmp = "own"
    BY FaithfulFacts
  <2>1. CASE Copies(h)
    <3>1. CohArr[coh[h].row].data = "own"
      BY <2>1, FaithfulFacts DEF Copies, Working
    <3> QED
      BY <2>0, <2>1, <3>1 DEF Copies, Hand
  <2>2. CASE Checks(h)
    <3>1. /\ coh[h].row = h
          /\ CohArr[coh[h].row].payload = priv[coh[h].row] + CohArr[coh[h].row].hops
      BY <2>2, FaithfulFacts DEF Checks, Working
    <3>2. Errors(h) = 0
      BY <2>0, <3>1 DEF Errors, Mine
    <3> QED
      BY <2>0, <2>2, <3>2, SMTT(60) DEF Checks, Hand
  <2>3. CASE ~Copies(h) /\ ~Checks(h)
    BY <2>0, <2>3, ZenonT(60) DEF HartStep, SetsUp, Announces, Begins, Ends, StartsPass, Takes, Skips,
       Spoils,
       Restores, CountsHop, Pays, PassesOn, Counts, IsLast, IsNotLast, Resets, SendsBad,
       SendsGood, Fails, Stops, IsDone, Decides, Goes, Leaves, Hand
  <2> QED
    BY <2>1, <2>2, <2>3
<1>4. \A g \in Rows : coh'[g].errors = 0 /\ coh'[g].tmp = "own"
  BY <1>3, OthersStay, FaithfulFacts
<1>5. ASSUME NEW r \in Rows
      PROVE  RowWhole(coh', CohArr', r) /\ RowCounted(coh', CohArr', priv', r)
  <2>0. RowWhole(coh, CohArr, r) /\ RowCounted(coh, CohArr, priv, r)
    BY FaithfulFacts
  <2>1. CASE SetsUp(h)
    <3>1. CASE r = h
      BY <2>1, <3>1 DEF SetsUp, Goes, Hand, RowWhole, RowCounted
    <3>2. CASE r # h
      <4>1. /\ CohArr'[r] = CohArr[r] /\ priv'[r] = priv[r] /\ coh'[r] = coh[r]
            /\ coh[h].at = "init" /\ coh'[h].at = "ready" /\ CohArr[r].to \in Rows
        BY <2>1, <3>2, LineFields, Zenon DEF SetsUp, Goes, Hand
      <4>2. CohArr[r].to # h => coh'[CohArr[r].to] = coh[CohArr[r].to]
        BY <4>1, OthersStay
      <4> QED
        BY <2>0, <4>1, <4>2 DEF RowWhole, RowCounted
    <3> QED
      BY <3>1, <3>2
  <2>2. CASE coh[h].at \in {"noise", "restore", "hop", "pay", "judge", "reset", "resend"}
    <3>1. CASE r = coh[h].row
      BY <2>2, <3>1, RowWritten
    <3>2. CASE r # coh[h].row
      <4>1. coh[h].at \in {"reset"} => coh[h].row = h
        BY FaithfulFacts
      <4>2. CohArr'[r] = CohArr[r]
        BY <2>2, <3>2, LineSteps DEF chTypes
      <4>3. priv'[r] = priv[r]
        <5>1. CASE r # h
          BY <2>2, <5>1, LineSteps DEF chTypes
        <5>2. CASE r = h
          <6>1. ~Resets(h) /\ ~SetsUp(h)
            BY <2>2, <3>2, <4>1, <5>2 DEF Resets, SetsUp
          <6> QED
            BY <6>1, Zenon DEF HartStep, Announces, Begins, Ends, StartsPass, Takes, Skips, Copies,
               Spoils, Restores, CountsHop, Pays, PassesOn, Checks, Counts, IsLast, IsNotLast,
               SendsBad, SendsGood, Fails, Stops, IsDone, Decides, Quiet
        <5> QED
          BY <5>1, <5>2
      <4>4. /\ coh'[h].at # "init"
            /\ coh'[h].at \in {"restore", "pay"} => coh'[h].row = coh[h].row
        BY <2>2, LineSteps DEF chTypes
      <4> QED
        BY <2>0, <2>2, <3>2, <4>2, <4>3, <4>4, RowStays, SMTT(60)
    <3> QED
      BY <3>1, <3>2
  <2>3. CASE coh[h].at \notin {"init", "noise", "restore", "hop", "pay", "judge", "reset", "resend"}
    <3>1. CohArr' = CohArr /\ priv' = priv /\ coh'[h].at \notin {"init", "restore", "pay"}
      BY <2>3, StillSteps
    <3> QED
      BY <2>0, <2>3, <3>1, RowStays
  <2>4. CASE coh[h].at = "init"
    <3>1. SetsUp(h)
      BY <2>4, Zenon DEF HartStep, Announces, Begins, Ends, StartsPass, Takes, Skips, Copies,
         Spoils,
         Restores, CountsHop, Pays, PassesOn, Checks, Counts, IsLast, IsNotLast, Resets, SendsBad,
         SendsGood, Fails, Stops, IsDone, Decides
    <3> QED
      BY <2>1, <3>1
  <2> QED
    BY <2>2, <2>3, <2>4
<1>6. \A r \in Rows : CohArr'[r].payload \in Nat
  BY TypesKeep DEF chTypes
<1>7. ASSUME NEW r \in Rows, coh'[r].at # "init"
      PROVE  /\ CohArr'[r].data = "own" \/ WorksOn(CohArr[r].to, r, {"restore"})'
             /\ CohArr'[r].payload + (IF WorksOn(CohArr[r].to, r, {"pay"})' THEN 1 ELSE 0)
                  = priv'[r] + CohArr'[r].hops
  BY <1>5, <1>6, <1>7, SMTT(60) DEF WorksOn, RowWhole, RowCounted
<1> QED
  BY <1>2, <1>4, <1>7 DEF Faithful

\* What is found is told.
LEMMA ReportingKeeps ==
  ASSUME chTypes, Reporting, NEW h \in Rows, HartStep(h)
  PROVE  Reporting'
<1> SUFFICES ASSUME NEW g \in Rows
             PROVE  /\ coh'[g].at \in {"fail", "stop"} => coh'[g].errors > 0
                    /\ g \in harts_done' => coh'[g].at \in {"verdict", "done"}
                    /\ coh_verdict' # "none" => harts_done' = Rows
                    /\ coh_verdict' = "SUCCESS" => failed' = 0
  BY DEF Reporting
<1>0. /\ failed \in {0, 1} /\ circuits_done \in Nat
      /\ \A f \in {g, h} :
           /\ coh[f].errors \in Nat
           /\ coh[f].at \in {"fail", "stop"} => coh[f].errors > 0
           /\ f \in harts_done => coh[f].at \in {"verdict", "done"}
      /\ coh_verdict # "none" => harts_done = Rows
      /\ coh_verdict = "SUCCESS" => failed = 0
  BY HandFields DEF chTypes, Reporting
<1>a. TOTAL_CIRCUITS \in Nat
  BY CohAssumption
<1>1. CASE SetsUp(h)
  BY <1>1, <1>0, <1>a DEF SetsUp, Goes, Hand, CalmFlags
<1>2. CASE Announces(h) \/ Begins(h) \/ Ends(h) \/ Takes(h)
  BY <1>2, <1>0, <1>a DEF Announces, Goes, Hand, Begins, Quiet, CalmFlags, Ends, Takes
<1>3. CASE Counts(h) \/ IsLast(h) \/ IsNotLast(h)
  BY <1>3, <1>0, <1>a DEF Counts, Goes, Hand, IsLast, IsNotLast, Quiet, CalmFlags
<1>4. CASE Fails(h) \/ Stops(h) \/ IsDone(h) \/ Decides(h)
  BY <1>4, <1>0, <1>a, SMTT(60) DEF Fails, Goes, Hand, Stops, IsDone, Decides
<1>5. CASE StartsPass(h) \/ Skips(h)
  BY <1>5, <1>0, <1>a, SMTT(60) DEF StartsPass, Hand, Quiet, CalmFlags, Skips, Leaves, NextPlace
<1>6. CASE Copies(h)
  BY <1>6, <1>0, <1>a DEF Copies, Hand, Quiet, CalmFlags
<1>7. CASE Checks(h)
  BY <1>7, <1>0, <1>a, SMTT(60) DEF Checks, Hand, Quiet, CalmFlags
<1>8. CASE Spoils(h) \/ Restores(h) \/ CountsHop(h) \/ Pays(h)
  BY <1>8, <1>0, <1>a, SMTT(60) DEF Spoils, Goes, Hand, CalmFlags, Restores, CountsHop, Pays
<1>9. CASE PassesOn(h)
  BY <1>9, <1>0, <1>a DEF PassesOn, Leaves, Hand, CalmFlags, NextPlace
<1>10. CASE SendsBad(h) \/ SendsGood(h)
  BY <1>10, <1>0, <1>a DEF SendsBad, Goes, Hand, CalmFlags, SendsGood, Leaves, NextPlace
<1>11. CASE Resets(h)
  BY <1>11, <1>0, <1>a DEF Resets, Goes, Hand, CalmFlags
<1> QED
  BY <1>1, <1>2, <1>3, <1>4, <1>5, <1>6, <1>7, <1>8, <1>9, <1>10, <1>11, ZenonT(60) DEF HartStep

\* A wrong row that its owner has seen stays with the owner until failed is set.
LEMMA FoundKeeps ==
  ASSUME chTypes, FoundKept, NEW h \in Rows, HartStep(h), FoundStep(h)
  PROVE  FoundKept'
<1> DEFINE Kept(f) == /\ f \in Rows /\ coh[f].errors > 0
                      /\ coh[f].at \in {"count", "enough", "reset", "resend", "fail"}
<1> SUFFICES ASSUME NEW g \in coh_found', failed' # 1
             PROVE  Kept(g)'
  BY DEF FoundKept
<1>1. failed # 1
  BY Zenon DEF HartStep, SetsUp, Announces, Begins, Ends, StartsPass, Takes, Skips, Copies,
     Spoils, Restores, CountsHop, Pays, PassesOn, Checks, Counts, IsLast, IsNotLast, Resets,
     SendsBad, SendsGood, Fails, Stops, IsDone, Decides, Quiet, CalmFlags
<1>2. CASE g # h
  <2>1. g \in coh_found
    BY <1>2 DEF FoundStep
  <2> QED
    BY <1>1, <1>2, <2>1, OthersStay DEF FoundKept
<1>3. CASE g = h /\ Checks(h) /\ Errors(h) > 0
  <2>1. coh[h].errors \in Nat
    BY HandFields, Zenon
  <2>2. coh'[h].errors = coh[h].errors + Errors(h) /\ coh'[h].at = "count"
    BY <1>3 DEF Checks, Hand
  <2>3. Errors(h) \in {0, 1, 2}
    BY DEF Errors
  <2> QED
    BY <1>3, <2>1, <2>2, <2>3
<1>4. CASE g = h /\ h \in coh_found /\ ~IsLast(h)
  <2>1. Kept(h)
    BY <1>1, <1>4 DEF FoundKept
  <2>2. CASE Counts(h) \/ IsNotLast(h)
    BY <1>4, <2>1, <2>2 DEF Counts, IsNotLast, Goes, Hand
  <2>3. CASE Resets(h) \/ SendsBad(h)
    BY <1>4, <2>1, <2>3 DEF Resets, SendsBad, Goes, Hand
  <2>4. CASE SendsGood(h) \/ Fails(h)
    BY <2>1, <2>4 DEF SendsGood, Fails
  <2> QED
    BY <1>4, <2>1, <2>2, <2>3, <2>4, ZenonT(60) DEF HartStep, SetsUp, Announces, Begins, Ends,
       StartsPass, Takes, Skips, Copies, Spoils, Restores, CountsHop, Pays, PassesOn, Checks,
       Stops, IsDone, Decides
<1> QED
  BY <1>2, <1>3, <1>4 DEF FoundStep

\* A fault of the memory is a fault: the rest of the invariant does not look at the data.
LEMMA BreaksKeeps ==
  ASSUME chInv, Breaks
  PROVE  chInv'
<1>1. PICK r \in Rows : DataBecomes(r, "bad") \/ PayloadBecomes(r, CohArr[r].payload + 2)
  BY DEF Breaks
<1>2. /\ CohArr' \in [Rows -> LineType]
      /\ \A q \in Rows : /\ CohArr'[q].to = CohArr[q].to /\ CohArr'[q].hops = CohArr[q].hops
                         /\ CohArr'[q].max = CohArr[q].max /\ CohArr'[q].orig = CohArr[q].orig
  BY <1>1 DEF DataBecomes, PayloadBecomes, Line
<1>3. coh_faults \in Nat
  BY Zenon DEF chInv, chTypes
<1>a. chTypes /\ AllSetUp /\ Addressed /\ HopsBounded /\ ErrorsBounded /\ Reporting /\ FoundKept
  BY Zenon DEF chInv
<1>b. /\ coh' = coh /\ priv' = priv /\ init_ready' = init_ready /\ harts_done' = harts_done
      /\ failed' = failed /\ circuits_done' = circuits_done /\ stop' = stop
      /\ coh_verdict' = coh_verdict /\ coh_found' = coh_found
  BY Zenon DEF Breaks
<1>4. chTypes'
  <2>1. coh_faults' \in Nat
    BY <1>3 DEF Breaks
  <2> QED
    BY <1>2, <1>a, <1>b, <2>1, Zenon DEF chTypes, LineType
<1>5. AllSetUp'
  BY <1>2, <1>a, <1>b DEF AllSetUp
<1>6. Addressed'
  <2>1. \A h \in Rows : coh[h].row \in Rows
    BY HandFields, ZenonT(60) DEF chInv
  <2> QED
    BY <1>2, <1>a, <1>b, <2>1 DEF Addressed
<1>7. HopsBounded'
  <2>1. \A h \in Rows : coh[h].row \in Rows
    BY HandFields, Zenon DEF chInv
  <2> QED
    BY <1>2, <1>a, <1>b, <2>1 DEF HopsBounded, WorksOn
<1>8. ErrorsBounded' /\ Reporting'
  BY <1>a, <1>b DEF ErrorsBounded, WorksOn, Reporting
<1>10. FoundKept'
  BY <1>a, <1>b DEF FoundKept
<1>9. Faithful'
  BY <1>3 DEF Breaks, Faithful
<1> QED
  BY <1>4, <1>5, <1>6, <1>7, <1>8, <1>9, <1>10, SMTT(60) DEF chInv

\* Only a hart that has found that circuits are missing counts again.
LEMMA CircuitsStep ==
  ASSUME chTypes, NEW h \in Rows, HartStep(h)
  PROVE  CircuitsRetire
<1>0. circuits_done \in Nat /\ TOTAL_CIRCUITS \in Nat
  BY CohAssumption DEF chTypes
<1>1. CASE Counts(h)
  <2>1. Retired' = Retired \cup {h} /\ h \notin Retired
    BY <1>1 DEF Counts, Goes, Hand, Retired
  <2> QED
    BY <1>1, <2>1 DEF CircuitsRetire, Counts
<1>2. CASE IsNotLast(h)
  BY <1>0, <1>2 DEF IsNotLast, Quiet, CalmFlags, CircuitsRetire
<1>3. CASE ~Counts(h) /\ ~IsNotLast(h)
  <2>1. circuits_done' = circuits_done /\ (stop = 1 => stop' = 1)
    BY <1>3, Zenon DEF HartStep, SetsUp, Announces, Begins, Ends, StartsPass, Takes, Skips,
       Copies, Spoils,
       Restores, CountsHop, Pays, PassesOn, Checks, IsLast, Resets, SendsBad, SendsGood, Fails,
       Stops, IsDone, Decides, Quiet, CalmFlags
  <2>2. \A g \in Rows : g # h => coh'[g] = coh[g]
    BY OthersStay, Zenon
  <2>3. h \in Retired => h \in Retired'
    BY <1>3, ZenonT(60) DEF HartStep, SetsUp, Announces, Begins, Ends, StartsPass, Takes, Skips,
       Copies, Spoils,
       Restores, CountsHop, Pays, PassesOn, Checks, IsLast, Resets, SendsBad, SendsGood, Fails,
       Stops, IsDone, Decides, Goes, Leaves, Hand, NextPlace, Quiet, CalmFlags, Retired
  <2>4. Retired \subseteq Retired'
    BY <2>1, <2>2, <2>3 DEF Retired
  <2> QED
    BY <2>1, <2>4, Zenon DEF CircuitsRetire
<1> QED
  BY <1>1, <1>2, <1>3

\* The initial state.
LEMMA CheckerStarts ==
  ASSUME chInit
  PROVE  chInv
<1>1. chTypes
  BY CohAssumption, RowsNat DEF chInit, chTypes, CohPlaces, RowData
<1>2. \A h \in Rows : /\ coh[h].at = "init" /\ coh[h].errors = 0 /\ coh[h].tmp = "own"
                      /\ CohArr[h].hops = 0 /\ CohArr[h].max = 0
  BY SMTT(60) DEF chInit
<1>3. AllSetUp /\ Addressed /\ Reporting
  BY <1>2, SMTT(60) DEF chInit, AllSetUp, Addressed, Reporting, Working
<1>5. FoundKept
  BY DEF chInit, FoundKept
<1>4. HopsBounded /\ ErrorsBounded /\ Faithful
  BY <1>2 DEF chInit, HopsBounded, ErrorsBounded, Faithful, WorksOn
<1> QED
  BY <1>1, <1>3, <1>4, <1>5 DEF chInv

\* Every step of the program and of the memory keeps the invariant.
LEMMA CheckerInvariant == chSpec => []chInv
<1>1. chInit => chInv
  BY CheckerStarts
<1>2. chInv /\ [chNext]_chVars => chInv'
  <2> SUFFICES ASSUME chInv, [chNext]_chVars PROVE chInv'
    OBVIOUS
  <2>1. ASSUME NEW h \in Rows, coh_checker_main(h) PROVE chInv'
    <3>1. HartStep(h) /\ FoundStep(h)
      BY <2>1, HartStepIs, FoundIs DEF chInv
    <3> QED
      BY <3>1, TypesKeep, SetUpKeeps, AddressedKeeps, HopsKeep, ErrorsKeep, FaithfulKeeps,
         ReportingKeeps, FoundKeeps DEF chInv
  <2>2. CASE Corrupt
    BY <2>2, CorruptIs, BreaksKeeps, SMTT(60) DEF chInv
  <2>3. CASE UNCHANGED chVars
    <3>1. chTypes' /\ AllSetUp' /\ Addressed'
      BY <2>3, SMTT(60) DEF chVars, chOwn, chInv, chTypes, AllSetUp, Addressed
    <3>2. HopsBounded' /\ ErrorsBounded'
      BY <2>3 DEF chVars, chOwn, chInv, HopsBounded, ErrorsBounded, WorksOn
    <3>3. Faithful' /\ Reporting'
      BY <2>3 DEF chVars, chOwn, chInv, Faithful, Reporting, WorksOn
    <3>4. FoundKept'
      BY <2>3 DEF chVars, chOwn, chInv, FoundKept
    <3> QED
      BY <3>1, <3>2, <3>3, <3>4 DEF chInv
  <2> QED
    BY <2>1, <2>2, <2>3 DEF chNext
<1> QED
  BY <1>1, <1>2, PTL DEF chSpec

\* The coherency checker can be trusted whatever the number of harts, hops, circuits and
\* faults: no two harts hold a row, rows make a bounded number of hops, a memory without
\* faults is never blamed, and hart 0 does not report success when an owner has seen a wrong
\* row, unless the owner's own circuit ended the test.
THEOREM RowsCorrect == chSpec => []RowsSound
<1>1. chInv => RowsSound
  <2> SUFFICES ASSUME chInv PROVE RowsSound
    OBVIOUS
  <2>1. \A r \in Rows : CohArr[r].to \in Rows /\ CohArr[r].hops <= MAX_HOPS + 1
    <3> SUFFICES ASSUME NEW r \in Rows PROVE CohArr[r].to \in Rows /\ CohArr[r].hops <= MAX_HOPS + 1
      OBVIOUS
    <3>1. CohArr[r].to \in Rows /\ CohArr[r].hops \in Nat /\ CohArr[r].max \in 0 .. MAX_HOPS - 1
      BY LineFields, Zenon DEF chInv
    <3>2. CohArr[r].hops > CohArr[r].max + 1 => CohArr[r].hops = CohArr[r].max + 2
      BY DEF chInv, HopsBounded
    <3> QED
      BY <3>1, <3>2, CohAssumption
  <2>2. \A h \in Rows : coh[h].row \in Rows /\ coh[h].errors \in 0 .. 255
    <3> SUFFICES ASSUME NEW h \in Rows PROVE coh[h].row \in Rows /\ coh[h].errors \in 0 .. 255
      OBVIOUS
    <3>1. coh[h].row \in Rows /\ coh[h].errors \in Nat
      BY HandFields, Zenon DEF chInv
    <3>2. coh[h].errors <= 2
      BY DEF chInv, ErrorsBounded
    <3> QED
      BY <3>1, <3>2
  <2>4. RowExclusive
    BY DEF chInv, Addressed, RowExclusive
  <2>5. NoFalseFailure
    BY DEF chInv, Faithful, NoFalseFailure
  <2>6. FoundIsReported
    <3> SUFFICES ASSUME coh_verdict = "SUCCESS", NEW h \in coh_found
                 PROVE  FALSE
      BY DEF FoundIsReported
    <3>1. failed = 0 /\ \A g \in Rows : coh[g].at \in {"verdict", "done"}
      BY DEF chInv, Reporting
    <3> QED
      BY <3>1 DEF chInv, FoundKept
  <2> QED
    BY <2>1, <2>2, <2>4, <2>5, <2>6 DEF RowsSound, chTypeOK
<1> QED
  BY <1>1, CheckerInvariant, PTL

\* The test ends as the code means it to, whatever the number of harts and circuits: after
\* the last circuit is counted each further one takes a hart that never counts again.
THEOREM CircuitsCorrect == chSpec => [][CircuitsRetire]_chVars
<1>1. chInv /\ [chNext]_chVars => [CircuitsRetire]_chVars
  <2> SUFFICES ASSUME chInv, chNext PROVE CircuitsRetire
    BY Zenon
  <2>1. ASSUME NEW h \in Rows, coh_checker_main(h) PROVE CircuitsRetire
    <3>1. HartStep(h)
      BY <2>1, HartStepIs DEF chInv
    <3> QED
      BY <3>1, CircuitsStep DEF chInv
  <2>2. CASE Corrupt
    BY <2>2 DEF Corrupt, CircuitsRetire, Retired
  <2> QED
    BY <2>1, <2>2 DEF chNext
<1> QED
  BY <1>1, CheckerInvariant, PTL DEF chSpec

-----------------------------------------------------------------------------
\* The count that CircuitsRetire keeps: a circuit beyond the last has its hart.
CircuitsBounded == circuits_done <= TOTAL_CIRCUITS + Cardinality(Retired)

\* The harts are finitely many, and so are those that count no more.
LEMMA RetiredFinite ==
  /\ Retired \subseteq Rows /\ IsFiniteSet(Retired)
  /\ Cardinality(Retired) \in 0 .. COH_CHECKER_ROWS
<1> DEFINE n == COH_CHECKER_ROWS - 1
<1>1. 0 \in Int /\ n \in Int /\ ~(0 > n) /\ n - 0 + 1 = COH_CHECKER_ROWS
  BY CohAssumption
<1> HIDE DEF n
<1>2. IsFiniteSet(0 .. n) /\ Cardinality(0 .. n) = n - 0 + 1
  BY <1>1, FS_Interval
<1>3. IsFiniteSet(Rows) /\ Cardinality(Rows) = COH_CHECKER_ROWS
  BY <1>1, <1>2 DEF Rows, n
<1>4. Retired \subseteq Rows
  BY DEF Retired
<1> QED
  BY <1>3, <1>4, FS_Subset, FS_CardinalityType, CohAssumption

\* A further circuit takes a further hart.
LEMMA CircuitsCounted ==
  ASSUME circuits_done \in Nat, CircuitsBounded, [CircuitsRetire]_chVars
  PROVE  CircuitsBounded'
<1>1. /\ IsFiniteSet(Retired) /\ IsFiniteSet(Retired')
      /\ Cardinality(Retired) \in Nat /\ Cardinality(Retired') \in Nat
      /\ TOTAL_CIRCUITS \in Nat
  <2>1. IsFiniteSet(Retired)' /\ (Cardinality(Retired) \in 0 .. COH_CHECKER_ROWS)'
    BY RetiredFinite, PTL
  <2> QED
    BY <2>1, RetiredFinite, CohAssumption
<1>2. CASE UNCHANGED chVars
  BY <1>2 DEF chVars, chOwn, CircuitsBounded, Retired
<1>3. CASE CircuitsRetire /\ circuits_done < TOTAL_CIRCUITS
  BY <1>1, <1>3 DEF CircuitsRetire, CircuitsBounded
<1>4. CASE CircuitsRetire /\ circuits_done >= TOTAL_CIRCUITS
  <2>1. Retired \subseteq Retired' /\ Cardinality(Retired) <= Cardinality(Retired')
    BY <1>1, <1>4, FS_Subset DEF CircuitsRetire
  <2>2. CASE circuits_done' # circuits_done
    <3>1. circuits_done' = circuits_done + 1 /\ Retired # Retired'
      BY <1>4, <2>2 DEF CircuitsRetire
    <3>2. Cardinality(Retired) < Cardinality(Retired')
      BY <1>1, <2>1, <3>1, FS_Subset
    <3> QED
      BY <1>1, <3>1, <3>2 DEF CircuitsBounded
  <2> QED
    BY <1>1, <2>1, <2>2 DEF CircuitsBounded
<1> QED
  BY <1>1, <1>2, <1>3, <1>4

\* The coherency checker can be trusted whatever the number of harts, hops, circuits and
\* faults: no two harts hold a row, rows make a bounded number of hops, the test ends with at
\* most one circuit more per hart, a memory without faults is never blamed, and hart 0 does
\* not report success when an owner has seen a wrong row, unless the owner's own circuit ended
\* the test.
THEOREM CheckerCorrect == chSpec => []CheckerSound
<1>1. chInit => CircuitsBounded
  BY RetiredFinite, CohAssumption DEF chInit, CircuitsBounded
<1>2. chInv /\ CircuitsBounded /\ [CircuitsRetire]_chVars => CircuitsBounded'
  BY CircuitsCounted DEF chInv, chTypes
<1>3. chInv /\ CircuitsBounded /\ RowsSound => CheckerSound
  BY RetiredFinite, CohAssumption DEF chInv, chTypes, CircuitsBounded, CircuitsEnd, CheckerSound
<1> QED
  BY <1>1, <1>2, <1>3, CheckerInvariant, RowsCorrect, CircuitsCorrect, PTL DEF chSpec

=============================================================================
