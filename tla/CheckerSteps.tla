----------------------------- MODULE CheckerSteps -----------------------------
(***************************************************************************)
(* The steps of the coherency checker coh_checker.h, field by field: what a *)
(* step of a hart does to its own record and to one line of the array.     *)
(* Then the first parts of chInv, which these steps keep.                  *)
(***************************************************************************)
EXTENDS CohChecker, Integers, TLAPS

HandType == [at : CohPlaces, row : Rows, tmp : RowData, errors : Nat]
LineType == [to : Rows, hops : Nat, max : 0 .. MAX_HOPS - 1, orig : Rows, payload : Nat,
             data : RowData]

\* The step leaves hart h at place a and row r with copy t and e errors, and the others alone.
Hand(h, a, r, t, e) ==
  /\ coh' \in [Rows -> HandType]
  /\ coh'[h].at = a /\ coh'[h].row = r /\ coh'[h].tmp = t /\ coh'[h].errors = e
  /\ \A g \in Rows : g # h => coh'[g] = coh[g]

\* Hart h only goes to place a.
Goes(h, a) == Hand(h, a, coh[h].row, coh[h].tmp, coh[h].errors)

\* The step writes line r, and leaves its origin and the other lines alone.
Line(r, to, hops, max, payload, data) ==
  /\ CohArr' \in [Rows -> LineType]
  /\ CohArr'[r].to = to /\ CohArr'[r].hops = hops /\ CohArr'[r].max = max
  /\ CohArr'[r].orig = CohArr[r].orig /\ CohArr'[r].payload = payload /\ CohArr'[r].data = data
  /\ \A q \in Rows : q # r => CohArr'[q] = CohArr[q]

\* There is a hart 0.
LEMMA RowsNat == Rows \subseteq Nat /\ 0 \in Rows
BY CohAssumption DEF Rows

\* What a hart's locals hold.
LEMMA HandFields ==
  ASSUME chTypes, NEW h \in Rows
  PROVE  /\ coh[h] = [at |-> coh[h].at, row |-> coh[h].row, tmp |-> coh[h].tmp,
                      errors |-> coh[h].errors]
         /\ coh[h].at \in CohPlaces /\ coh[h].row \in Rows /\ coh[h].tmp \in RowData
         /\ coh[h].errors \in Nat
BY DEF chTypes

\* What a line of the table holds.
LEMMA LineFields ==
  ASSUME chTypes, NEW r \in Rows
  PROVE  /\ CohArr[r] = [to |-> CohArr[r].to, hops |-> CohArr[r].hops, max |-> CohArr[r].max,
                         orig |-> CohArr[r].orig, payload |-> CohArr[r].payload,
                         data |-> CohArr[r].data]
         /\ CohArr[r].to \in Rows /\ CohArr[r].hops \in Nat /\ CohArr[r].max \in 0 .. MAX_HOPS - 1
         /\ CohArr[r].orig \in Rows /\ CohArr[r].payload \in Nat /\ CohArr[r].data \in RowData
BY DEF chTypes

\* A step that gives hart h new locals, field by field.
LEMMA HandMoves ==
  ASSUME chTypes, NEW h \in Rows, NEW a \in CohPlaces, NEW r \in Rows, NEW t \in RowData,
         NEW e \in Nat,
         coh' = [coh EXCEPT ![h] = [at |-> a, row |-> r, tmp |-> t, errors |-> e]]
  PROVE  Hand(h, a, r, t, e)
BY DEF chTypes, Hand, HandType

\* Updates of some of the fields.
LEMMA HandUpdates ==
  ASSUME chTypes, NEW h \in Rows
  PROVE  /\ \A a : [coh[h] EXCEPT !.at = a]
              = [at |-> a, row |-> coh[h].row, tmp |-> coh[h].tmp, errors |-> coh[h].errors]
         /\ \A a, t : [coh[h] EXCEPT !.at = a, !.tmp = t]
              = [at |-> a, row |-> coh[h].row, tmp |-> t, errors |-> coh[h].errors]
         /\ \A a, e : [coh[h] EXCEPT !.at = a, !.errors = e]
              = [at |-> a, row |-> coh[h].row, tmp |-> coh[h].tmp, errors |-> e]
<1>1. coh[h] = [at |-> coh[h].at, row |-> coh[h].row, tmp |-> coh[h].tmp, errors |-> coh[h].errors]
  BY HandFields
<1> DEFINE c == coh[h]
           p == c.at
           r == c.row
           u == c.tmp
           x == c.errors
<1>2. c = [at |-> p, row |-> r, tmp |-> u, errors |-> x]
  BY <1>1
<1> HIDE DEF c, p, r, u, x
<1>3. ASSUME NEW a
      PROVE  [c EXCEPT !.at = a] = [at |-> a, row |-> r, tmp |-> u, errors |-> x]
  BY <1>2
<1>4. ASSUME NEW a, NEW t
      PROVE  [c EXCEPT !.at = a, !.tmp = t] = [at |-> a, row |-> r, tmp |-> t, errors |-> x]
  <2> DEFINE d == [at |-> a, row |-> r, tmp |-> u, errors |-> x]
  <2>1. /\ [c EXCEPT !.at = a] = d
        /\ [d EXCEPT !.tmp = t] = [at |-> a, row |-> r, tmp |-> t, errors |-> x]
    BY <1>3
  <2> HIDE DEF d
  <2> QED
    BY <2>1, Zenon
<1>5. ASSUME NEW a, NEW e
      PROVE  [c EXCEPT !.at = a, !.errors = e] = [at |-> a, row |-> r, tmp |-> u, errors |-> e]
  <2> DEFINE d == [at |-> a, row |-> r, tmp |-> u, errors |-> x]
  <2>1. /\ [c EXCEPT !.at = a] = d
        /\ [d EXCEPT !.errors = e] = [at |-> a, row |-> r, tmp |-> u, errors |-> e]
    BY <1>3
  <2> HIDE DEF d
  <2> QED
    BY <2>1, Zenon
<1> QED
  BY <1>3, <1>4, <1>5, Zenon DEF c, p, r, u, x

\* A jump changes nothing but the place.
LEMMA GotoMoves ==
  ASSUME chTypes, NEW h \in Rows, NEW a \in CohPlaces, chGoto(h, a)
  PROVE  Goes(h, a)
<1>1. coh' = [coh EXCEPT ![h] = [coh[h] EXCEPT !.at = a]]
  BY DEF chGoto
<1>2. coh' = [coh EXCEPT ![h] = [at |-> a, row |-> coh[h].row, tmp |-> coh[h].tmp,
                                 errors |-> coh[h].errors]]
  BY <1>1, HandUpdates, Zenon
<1> QED
  BY <1>2, HandFields, HandMoves, Zenon DEF Goes

\* A step that writes line r, field by field.
LEMMA LineMoves ==
  ASSUME chTypes, NEW r \in Rows, NEW to \in Rows, NEW hops \in Nat, NEW max \in 0 .. MAX_HOPS - 1,
         NEW payload \in Nat, NEW data \in RowData,
         CohArr' = [CohArr EXCEPT ![r] = [to |-> to, hops |-> hops, max |-> max,
                                          orig |-> CohArr[r].orig, payload |-> payload,
                                          data |-> data]]
  PROVE  Line(r, to, hops, max, payload, data)
<1>1. CohArr[r].orig \in Rows
  BY LineFields, Zenon
<1> DEFINE x == [to |-> to, hops |-> hops, max |-> max, orig |-> CohArr[r].orig,
                 payload |-> payload, data |-> data]
<1>2. x \in LineType
  BY <1>1 DEF LineType
<1>3. /\ x.to = to /\ x.hops = hops /\ x.max = max /\ x.orig = CohArr[r].orig
      /\ x.payload = payload /\ x.data = data
  OBVIOUS
<1>4. CohArr' = [CohArr EXCEPT ![r] = x]
  OBVIOUS
<1> HIDE DEF x
<1>5. CohArr \in [Rows -> LineType]
  BY DEF chTypes, LineType
<1>6. /\ CohArr' \in [Rows -> LineType] /\ CohArr'[r] = x
      /\ \A q \in Rows : q # r => CohArr'[q] = CohArr[q]
  BY <1>2, <1>4, <1>5
<1> QED
  BY <1>3, <1>6 DEF Line

\* Updates of some of the fields of a line.
LEMMA LineUpdates ==
  ASSUME chTypes, NEW r \in Rows
  PROVE  /\ \A v : [CohArr[r] EXCEPT !.data = v]
              = [to |-> CohArr[r].to, hops |-> CohArr[r].hops, max |-> CohArr[r].max,
                 orig |-> CohArr[r].orig, payload |-> CohArr[r].payload, data |-> v]
         /\ \A v : [CohArr[r] EXCEPT !.hops = v]
              = [to |-> CohArr[r].to, hops |-> v, max |-> CohArr[r].max,
                 orig |-> CohArr[r].orig, payload |-> CohArr[r].payload, data |-> CohArr[r].data]
         /\ \A v : [CohArr[r] EXCEPT !.payload = v]
              = [to |-> CohArr[r].to, hops |-> CohArr[r].hops, max |-> CohArr[r].max,
                 orig |-> CohArr[r].orig, payload |-> v, data |-> CohArr[r].data]
         /\ \A v : [CohArr[r] EXCEPT !.to = v]
              = [to |-> v, hops |-> CohArr[r].hops, max |-> CohArr[r].max,
                 orig |-> CohArr[r].orig, payload |-> CohArr[r].payload, data |-> CohArr[r].data]
         /\ \A v, m, p : [CohArr[r] EXCEPT !.hops = v, !.max = m, !.payload = p]
              = [to |-> CohArr[r].to, hops |-> v, max |-> m,
                 orig |-> CohArr[r].orig, payload |-> p, data |-> CohArr[r].data]
<1> DEFINE x == CohArr[r]
<1>1. x = [to |-> x.to, hops |-> x.hops, max |-> x.max, orig |-> x.orig, payload |-> x.payload,
           data |-> x.data]
  BY LineFields
<1> DEFINE t == x.to
           h == x.hops
           k == x.max
           o == x.orig
           l == x.payload
           d == x.data
<1>2. x = [to |-> t, hops |-> h, max |-> k, orig |-> o, payload |-> l, data |-> d]
  BY <1>1
<1> HIDE DEF x, t, h, k, o, l, d
<1>3. ASSUME NEW v
      PROVE  [x EXCEPT !.data = v]
               = [to |-> t, hops |-> h, max |-> k, orig |-> o, payload |-> l, data |-> v]
  BY <1>2
<1>4. ASSUME NEW v
      PROVE  [x EXCEPT !.payload = v]
               = [to |-> t, hops |-> h, max |-> k, orig |-> o, payload |-> v, data |-> d]
  BY <1>2
<1>5. ASSUME NEW v
      PROVE  [x EXCEPT !.to = v]
               = [to |-> v, hops |-> h, max |-> k, orig |-> o, payload |-> l, data |-> d]
  BY <1>2
<1>6. ASSUME NEW v
      PROVE  [x EXCEPT !.hops = v]
               = [to |-> t, hops |-> v, max |-> k, orig |-> o, payload |-> l, data |-> d]
  BY <1>2
<1>7. ASSUME NEW v, NEW m, NEW p
      PROVE  [x EXCEPT !.hops = v, !.max = m, !.payload = p]
               = [to |-> t, hops |-> v, max |-> m, orig |-> o, payload |-> p, data |-> d]
  <2> DEFINE y1 == [to |-> t, hops |-> v, max |-> k, orig |-> o, payload |-> l, data |-> d]
             y2 == [to |-> t, hops |-> v, max |-> m, orig |-> o, payload |-> l, data |-> d]
  <2>1. [x EXCEPT !.hops = v] = y1
    BY <1>6
  <2>2. /\ [y1 EXCEPT !.max = m] = y2
        /\ [y2 EXCEPT !.payload = p] = [to |-> t, hops |-> v, max |-> m, orig |-> o,
                                        payload |-> p, data |-> d]
    OBVIOUS
  <2> HIDE DEF y1, y2
  <2> QED
    BY <2>1, <2>2, Zenon
<1> QED
  BY <1>3, <1>4, <1>5, <1>6, <1>7, Zenon DEF x, t, h, k, o, l, d

\* Where a hart goes from row r: to the next one, or to the end of the pass.
NextPlace(r) == IF r + 1 < COH_CHECKER_ROWS THEN "scan" ELSE "loop"
NextIndex(r) == IF r + 1 < COH_CHECKER_ROWS THEN r + 1 ELSE 0

\* NextRow, field by field.
LEMMA NextRowIs ==
  ASSUME chTypes, NEW h \in Rows
  PROVE  /\ NextRow(coh[h]) = [at |-> NextPlace(coh[h].row), row |-> NextIndex(coh[h].row),
                               tmp |-> "own", errors |-> coh[h].errors]
         /\ NextPlace(coh[h].row) \in {"scan", "loop"} /\ NextIndex(coh[h].row) \in Rows
         /\ NextPlace(coh[h].row) = "scan" => NextIndex(coh[h].row) = coh[h].row + 1
<1> DEFINE c == coh[h]
<1>1. /\ c = [at |-> c.at, row |-> c.row, tmp |-> c.tmp, errors |-> c.errors]
      /\ c.row \in Rows
  BY HandFields
<1> HIDE DEF c
<1>2. NextRow(c) = [at |-> NextPlace(c.row), row |-> NextIndex(c.row), tmp |-> "own",
                    errors |-> c.errors]
  BY <1>1, Zenon DEF NextRow, NextPlace, NextIndex
<1>3. NextPlace(c.row) \in {"scan", "loop"} /\ NextIndex(c.row) \in Rows
  BY <1>1, CohAssumption DEF NextPlace, NextIndex, Rows
<1>4. NextPlace(c.row) = "scan" => NextIndex(c.row) = c.row + 1
  BY DEF NextPlace, NextIndex
<1> QED
  BY <1>2, <1>3, <1>4 DEF c

\* Hart h goes on from its row.
Leaves(h) == Hand(h, NextPlace(coh[h].row), NextIndex(coh[h].row), "own", coh[h].errors)

\* A hart that is through with its row leaves it.
LEMMA LeaveMoves ==
  ASSUME chTypes, NEW h \in Rows, coh' = [coh EXCEPT ![h] = NextRow(coh[h])]
  PROVE  Leaves(h)
<1>1. /\ NextPlace(coh[h].row) \in CohPlaces /\ NextIndex(coh[h].row) \in Rows /\ "own" \in RowData
      /\ coh[h].errors \in Nat
  BY NextRowIs, HandFields, Zenon DEF CohPlaces, RowData
<1>2. coh' = [coh EXCEPT ![h] = [at |-> NextPlace(coh[h].row), row |-> NextIndex(coh[h].row),
                                 tmp |-> "own", errors |-> coh[h].errors]]
  BY NextRowIs, Zenon
<1> QED
  BY <1>1, <1>2, HandMoves, Zenon DEF Leaves

\* The shared words of the test keep their values; so does the array as well.
CalmFlags == /\ init_ready' = init_ready /\ harts_done' = harts_done /\ failed' = failed
             /\ circuits_done' = circuits_done /\ stop' = stop /\ coh_verdict' = coh_verdict
             /\ coh_faults' = coh_faults
Quiet == CalmFlags /\ CohArr' = CohArr /\ priv' = priv

\* The row that hart h is at, with one field changed.
DataBecomes(r, v) == Line(r, CohArr[r].to, CohArr[r].hops, CohArr[r].max, CohArr[r].payload, v)
HopsBecome(r, v) == Line(r, CohArr[r].to, v, CohArr[r].max, CohArr[r].payload, CohArr[r].data)
PayloadBecomes(r, v) == Line(r, CohArr[r].to, CohArr[r].hops, CohArr[r].max, v, CohArr[r].data)
ToBecomes(r, v) == Line(r, v, CohArr[r].hops, CohArr[r].max, CohArr[r].payload, CohArr[r].data)

\* The steps of a hart, field by field.
SetsUp(h) ==
  /\ coh[h].at = "init" /\ Goes(h, "ready") /\ CalmFlags
  /\ CohArr' \in [Rows -> LineType] /\ priv' \in [Rows -> Nat]
  /\ CohArr'[h].to = h /\ CohArr'[h].orig = h /\ CohArr'[h].hops = 0 /\ CohArr'[h].data = "own"
  /\ CohArr'[h].payload = priv'[h]
  /\ \A g \in Rows : g # h => CohArr'[g] = CohArr[g] /\ priv'[g] = priv[g]
Announces(h) ==
  /\ coh[h].at = "ready" /\ Goes(h, "roll_call") /\ init_ready' = init_ready \cup {h}
  /\ CohArr' = CohArr /\ priv' = priv /\ harts_done' = harts_done /\ failed' = failed
  /\ circuits_done' = circuits_done /\ stop' = stop /\ coh_verdict' = coh_verdict
  /\ coh_faults' = coh_faults
Begins(h) == coh[h].at = "roll_call" /\ init_ready = Rows /\ Goes(h, "loop") /\ Quiet
Ends(h) == coh[h].at = "loop" /\ stop = 1 /\ Goes(h, "finish") /\ Quiet
StartsPass(h) == coh[h].at = "loop" /\ stop # 1 /\ Hand(h, "scan", 0, "own", 0) /\ Quiet
Takes(h) == coh[h].at = "scan" /\ CohArr[coh[h].row].to = h /\ Goes(h, "read") /\ Quiet
Skips(h) == coh[h].at = "scan" /\ CohArr[coh[h].row].to # h /\ Leaves(h) /\ Quiet
Copies(h) ==
  /\ coh[h].at = "read" /\ Quiet
  /\ Hand(h, "noise", coh[h].row, CohArr[coh[h].row].data, coh[h].errors)
Spoils(h) ==
  /\ coh[h].at = "noise" /\ Goes(h, "restore") /\ DataBecomes(coh[h].row, "noise")
  /\ priv' = priv /\ CalmFlags
Restores(h) ==
  /\ coh[h].at = "restore" /\ Goes(h, "hop") /\ DataBecomes(coh[h].row, coh[h].tmp)
  /\ priv' = priv /\ CalmFlags
CountsHop(h) ==
  /\ coh[h].at = "hop" /\ Goes(h, "pay") /\ HopsBecome(coh[h].row, CohArr[coh[h].row].hops + 1)
  /\ priv' = priv /\ CalmFlags
Pays(h) ==
  /\ coh[h].at = "pay" /\ Goes(h, "judge")
  /\ PayloadBecomes(coh[h].row, CohArr[coh[h].row].payload + 1)
  /\ priv' = priv /\ CalmFlags
PassesOn(h) ==
  /\ coh[h].at = "judge" /\ Leaves(h) /\ priv' = priv /\ CalmFlags
  /\ ~(CohArr[coh[h].row].hops > CohArr[coh[h].row].max /\ CohArr[coh[h].row].orig = h)
  /\ \E n \in Rows : /\ ToBecomes(coh[h].row, n)
                     /\ CohArr[coh[h].row].hops > CohArr[coh[h].row].max
                          => n = CohArr[coh[h].row].orig
Checks(h) ==
  /\ coh[h].at = "judge" /\ Quiet
  /\ CohArr[coh[h].row].hops > CohArr[coh[h].row].max /\ CohArr[coh[h].row].orig = h
  /\ Hand(h, "count", coh[h].row, coh[h].tmp, coh[h].errors + Errors(h))
Counts(h) ==
  /\ coh[h].at = "count" /\ Goes(h, "enough") /\ circuits_done' = circuits_done + 1
  /\ CohArr' = CohArr /\ priv' = priv /\ init_ready' = init_ready /\ harts_done' = harts_done
  /\ failed' = failed /\ stop' = stop /\ coh_verdict' = coh_verdict /\ coh_faults' = coh_faults
IsLast(h) ==
  /\ coh[h].at = "enough" /\ circuits_done >= TOTAL_CIRCUITS /\ Goes(h, "loop") /\ stop' = 1
  /\ CohArr' = CohArr /\ priv' = priv /\ init_ready' = init_ready /\ harts_done' = harts_done
  /\ failed' = failed /\ circuits_done' = circuits_done /\ coh_verdict' = coh_verdict
  /\ coh_faults' = coh_faults
IsNotLast(h) ==
  coh[h].at = "enough" /\ ~(circuits_done >= TOTAL_CIRCUITS) /\ Goes(h, "reset") /\ Quiet
Resets(h) ==
  /\ coh[h].at = "reset" /\ Goes(h, "resend") /\ CalmFlags
  /\ \E m \in 0 .. MAX_HOPS - 1, v \in Nat :
       /\ Line(coh[h].row, CohArr[coh[h].row].to, 0, m, v, CohArr[coh[h].row].data)
       /\ priv' = [priv EXCEPT ![h] = v]
SendsBad(h) ==
  /\ coh[h].at = "resend" /\ coh[h].errors > 0 /\ Goes(h, "fail")
  /\ priv' = priv /\ CalmFlags /\ \E n \in Rows : ToBecomes(coh[h].row, n)
SendsGood(h) ==
  /\ coh[h].at = "resend" /\ ~(coh[h].errors > 0) /\ Leaves(h)
  /\ priv' = priv /\ CalmFlags /\ \E n \in Rows : ToBecomes(coh[h].row, n)
Fails(h) ==
  /\ coh[h].at = "fail" /\ Goes(h, "stop") /\ failed' = 1
  /\ CohArr' = CohArr /\ priv' = priv /\ init_ready' = init_ready /\ harts_done' = harts_done
  /\ circuits_done' = circuits_done /\ stop' = stop /\ coh_verdict' = coh_verdict
  /\ coh_faults' = coh_faults
Stops(h) ==
  /\ coh[h].at = "stop" /\ Goes(h, "loop") /\ stop' = 1
  /\ CohArr' = CohArr /\ priv' = priv /\ init_ready' = init_ready /\ harts_done' = harts_done
  /\ failed' = failed /\ circuits_done' = circuits_done /\ coh_verdict' = coh_verdict
  /\ coh_faults' = coh_faults
IsDone(h) ==
  /\ coh[h].at = "finish" /\ harts_done' = harts_done \cup {h}
  /\ Goes(h, IF h = 0 THEN "verdict" ELSE "done")
  /\ CohArr' = CohArr /\ priv' = priv /\ init_ready' = init_ready /\ failed' = failed
  /\ circuits_done' = circuits_done /\ stop' = stop /\ coh_verdict' = coh_verdict
  /\ coh_faults' = coh_faults
Decides(h) ==
  /\ coh[h].at = "verdict" /\ harts_done = Rows /\ Goes(h, "done")
  /\ coh_verdict' = IF failed = 1 THEN "FAILED" ELSE "SUCCESS"
  /\ CohArr' = CohArr /\ priv' = priv /\ init_ready' = init_ready /\ harts_done' = harts_done
  /\ failed' = failed /\ circuits_done' = circuits_done /\ stop' = stop
  /\ coh_faults' = coh_faults
\* A fault changes the data or the payload of a row.
Breaks ==
  /\ coh' = coh /\ priv' = priv /\ init_ready' = init_ready /\ harts_done' = harts_done
  /\ failed' = failed /\ circuits_done' = circuits_done /\ stop' = stop
  /\ coh_verdict' = coh_verdict /\ coh_faults' = coh_faults + 1 /\ init_ready = Rows
  /\ coh_found' = coh_found
  /\ \E r \in Rows : \/ DataBecomes(r, "bad")
                     \/ PayloadBecomes(r, CohArr[r].payload + 2)

HartStep(h) ==
  \/ SetsUp(h) \/ Announces(h) \/ Begins(h) \/ Ends(h) \/ StartsPass(h) \/ Takes(h) \/ Skips(h)
  \/ Copies(h) \/ Spoils(h) \/ Restores(h) \/ CountsHop(h) \/ Pays(h) \/ PassesOn(h) \/ Checks(h)
  \/ Counts(h) \/ IsLast(h) \/ IsNotLast(h) \/ Resets(h) \/ SendsBad(h) \/ SendsGood(h)
  \/ Fails(h) \/ Stops(h) \/ IsDone(h) \/ Decides(h)

\* The stores to a line that the program makes.
LEMMA FieldWrites ==
  ASSUME chTypes, NEW r \in Rows
  PROVE  /\ \A v \in RowData : CohArr' = [CohArr EXCEPT ![r].data = v] => DataBecomes(r, v)
         /\ \A v \in Nat : CohArr' = [CohArr EXCEPT ![r].hops = v] => HopsBecome(r, v)
         /\ \A v \in Nat : CohArr' = [CohArr EXCEPT ![r].payload = v] => PayloadBecomes(r, v)
         /\ \A v \in Rows : CohArr' = [CohArr EXCEPT ![r].to = v] => ToBecomes(r, v)
         /\ \A m \in 0 .. MAX_HOPS - 1, v \in Nat :
              CohArr' = [CohArr EXCEPT ![r].hops = 0, ![r].max = m, ![r].payload = v]
              => Line(r, CohArr[r].to, 0, m, v, CohArr[r].data)
<1>1. /\ CohArr[r].to \in Rows /\ CohArr[r].hops \in Nat /\ CohArr[r].max \in 0 .. MAX_HOPS - 1
      /\ CohArr[r].payload \in Nat /\ CohArr[r].data \in RowData
  BY LineFields, Zenon
<1>2. ASSUME NEW v \in RowData, CohArr' = [CohArr EXCEPT ![r].data = v]
      PROVE  DataBecomes(r, v)
  <2>1. CohArr' = [CohArr EXCEPT ![r] = [CohArr[r] EXCEPT !.data = v]]
    BY <1>2
  <2>2. CohArr' = [CohArr EXCEPT ![r] = [to |-> CohArr[r].to, hops |-> CohArr[r].hops,
                     max |-> CohArr[r].max, orig |-> CohArr[r].orig,
                     payload |-> CohArr[r].payload, data |-> v]]
    BY <2>1, LineUpdates, Zenon
  <2> QED
    BY <1>1, <2>2, LineMoves, Zenon DEF DataBecomes
<1>3. ASSUME NEW v \in Nat, CohArr' = [CohArr EXCEPT ![r].hops = v]
      PROVE  HopsBecome(r, v)
  <2>1. CohArr' = [CohArr EXCEPT ![r] = [CohArr[r] EXCEPT !.hops = v]]
    BY <1>3
  <2>2. CohArr' = [CohArr EXCEPT ![r] = [to |-> CohArr[r].to, hops |-> v,
                     max |-> CohArr[r].max, orig |-> CohArr[r].orig,
                     payload |-> CohArr[r].payload, data |-> CohArr[r].data]]
    BY <2>1, LineUpdates, Zenon
  <2> QED
    BY <1>1, <2>2, LineMoves, Zenon DEF HopsBecome
<1>4. ASSUME NEW v \in Nat, CohArr' = [CohArr EXCEPT ![r].payload = v]
      PROVE  PayloadBecomes(r, v)
  <2>1. CohArr' = [CohArr EXCEPT ![r] = [CohArr[r] EXCEPT !.payload = v]]
    BY <1>4
  <2>2. CohArr' = [CohArr EXCEPT ![r] = [to |-> CohArr[r].to, hops |-> CohArr[r].hops,
                     max |-> CohArr[r].max, orig |-> CohArr[r].orig,
                     payload |-> v, data |-> CohArr[r].data]]
    BY <2>1, LineUpdates, Zenon
  <2> QED
    BY <1>1, <2>2, LineMoves, Zenon DEF PayloadBecomes
<1>5. ASSUME NEW v \in Rows, CohArr' = [CohArr EXCEPT ![r].to = v]
      PROVE  ToBecomes(r, v)
  <2>1. CohArr' = [CohArr EXCEPT ![r] = [CohArr[r] EXCEPT !.to = v]]
    BY <1>5
  <2>2. CohArr' = [CohArr EXCEPT ![r] = [to |-> v, hops |-> CohArr[r].hops,
                     max |-> CohArr[r].max, orig |-> CohArr[r].orig,
                     payload |-> CohArr[r].payload, data |-> CohArr[r].data]]
    BY <2>1, LineUpdates, Zenon
  <2> QED
    BY <1>1, <2>2, LineMoves, Zenon DEF ToBecomes
<1>6. ASSUME NEW m \in 0 .. MAX_HOPS - 1, NEW v \in Nat,
             CohArr' = [CohArr EXCEPT ![r].hops = 0, ![r].max = m, ![r].payload = v]
      PROVE  Line(r, CohArr[r].to, 0, m, v, CohArr[r].data)
  <2>1. CohArr' = [CohArr EXCEPT ![r] = [CohArr[r] EXCEPT !.hops = 0, !.max = m, !.payload = v]]
    BY <1>6, Zenon
  <2>5. \A a, b, c : [CohArr[r] EXCEPT !.hops = a, !.max = b, !.payload = c]
          = [to |-> CohArr[r].to, hops |-> a, max |-> b, orig |-> CohArr[r].orig,
             payload |-> c, data |-> CohArr[r].data]
    BY LineUpdates, Zenon
  <2> DEFINE z == 0
  <2> HIDE DEF z
  <2>4. [CohArr[r] EXCEPT !.hops = z, !.max = m, !.payload = v]
          = [to |-> CohArr[r].to, hops |-> z, max |-> m, orig |-> CohArr[r].orig,
             payload |-> v, data |-> CohArr[r].data]
    BY <2>5, Zenon
  <2>2. CohArr' = [CohArr EXCEPT ![r] = [to |-> CohArr[r].to, hops |-> 0,
                     max |-> m, orig |-> CohArr[r].orig,
                     payload |-> v, data |-> CohArr[r].data]]
    BY <2>1, <2>4, Zenon DEF z
  <2>3. 0 \in Nat
    OBVIOUS
  <2> QED
    BY <1>1, <2>2, <2>3, LineMoves, Zenon
<1> QED
  BY <1>2, <1>3, <1>4, <1>5, <1>6, Zenon

\* What coh_checker_row_init does.
LEMMA InitRowIs ==
  ASSUME chTypes, NEW h \in Rows, InitRow(h)
  PROVE  SetsUp(h) \/ Announces(h) \/ Begins(h)
<1>1. CASE coh[h].at = "init"
  <2>1. PICK m \in 0 .. MAX_HOPS - 1, v \in Payloads :
          /\ CohArr' = [CohArr EXCEPT ![h] = [to |-> h, hops |-> 0, max |-> m, orig |-> h,
                                              payload |-> v, data |-> "own"]]
          /\ priv' = [priv EXCEPT ![h] = v] /\ chGoto(h, "ready") /\ UNCHANGED chOwn
    BY <1>1 DEF InitRow
  <2>2. Goes(h, "ready")
    BY <2>1, GotoMoves DEF CohPlaces
  <2>3. v \in Nat
    BY CohAssumption
  <2> DEFINE x == [to |-> h, hops |-> 0, max |-> m, orig |-> h, payload |-> v, data |-> "own"]
  <2>4. /\ x \in LineType /\ x.to = h /\ x.orig = h /\ x.hops = 0 /\ x.data = "own"
        /\ x.payload = v
    BY <2>3 DEF LineType, RowData
  <2>5. CohArr' = [CohArr EXCEPT ![h] = x]
    BY <2>1
  <2> HIDE DEF x
  <2>6. /\ CohArr' \in [Rows -> LineType] /\ CohArr'[h] = x
        /\ \A g \in Rows : g # h => CohArr'[g] = CohArr[g]
    BY <2>4, <2>5 DEF chTypes, LineType
  <2>7. /\ priv' \in [Rows -> Nat] /\ priv'[h] = v
        /\ \A g \in Rows : g # h => priv'[g] = priv[g]
    BY <2>1, <2>3 DEF chTypes
  <2> QED
    BY <1>1, <2>1, <2>2, <2>4, <2>6, <2>7 DEF SetsUp, CalmFlags, chOwn
<1>2. CASE coh[h].at = "ready"
  <2>1. Goes(h, "roll_call")
    BY <1>2, GotoMoves DEF InitRow, CohPlaces
  <2> QED
    BY <1>2, <2>1 DEF InitRow, Announces
<1>3. CASE coh[h].at = "roll_call"
  <2>1. Goes(h, "loop")
    BY <1>3, GotoMoves DEF InitRow, CohPlaces
  <2> QED
    BY <1>3, <2>1 DEF InitRow, Begins, Quiet, CalmFlags, chOwn
<1> QED
  BY <1>1, <1>2, <1>3 DEF InitRow

\* What the head of the loop does.
LEMMA LoopIs ==
  ASSUME chTypes, NEW h \in Rows, Loop(h)
  PROVE  Ends(h) \/ StartsPass(h)
<1>1. coh[h].at = "loop" /\ Quiet
  BY DEF Loop, Quiet, CalmFlags, chOwn
<1>2. CASE stop = 1
  <2>1. chGoto(h, "finish")
    BY <1>2 DEF Loop, chGoto
  <2> QED
    BY <1>1, <1>2, <2>1, GotoMoves DEF Ends, CohPlaces
<1>3. CASE stop # 1
  <2>1. coh' = [coh EXCEPT ![h] = [at |-> "scan", row |-> 0, tmp |-> "own", errors |-> 0]]
    BY <1>3 DEF Loop
  <2> QED
    BY <1>1, <1>3, <2>1, HandMoves, RowsNat, Zenon DEF StartsPass, CohPlaces, RowData
<1> QED
  BY <1>2, <1>3

\* A hart takes the rows that are addressed to it.
LEMMA ScanIs ==
  ASSUME chTypes, NEW h \in Rows, Scan(h)
  PROVE  Takes(h) \/ Skips(h)
<1>1. coh[h].at = "scan" /\ Quiet
  BY DEF Scan, Quiet, CalmFlags, chOwn
<1>2. CASE CohArr[coh[h].row].to = h
  <2>1. chGoto(h, "read")
    BY <1>2 DEF Scan, chGoto
  <2> QED
    BY <1>1, <1>2, <2>1, GotoMoves DEF Takes, CohPlaces, Working
<1>3. CASE CohArr[coh[h].row].to # h
  <2>1. coh' = [coh EXCEPT ![h] = NextRow(coh[h])]
    BY <1>3 DEF Scan
  <2> QED
    BY <1>1, <1>3, <2>1, LeaveMoves, Zenon DEF Skips
<1> QED
  BY <1>2, <1>3

\* What a hart does to a row it holds.
LEMMA ScribbleIs ==
  ASSUME chTypes, NEW h \in Rows, Scribble(h)
  PROVE  Copies(h) \/ Spoils(h) \/ Restores(h) \/ CountsHop(h) \/ Pays(h)
<1>1. priv' = priv /\ CalmFlags
  BY DEF Scribble, CalmFlags, chOwn
<1>2. /\ coh[h].row \in Rows /\ coh[h].tmp \in RowData /\ coh[h].errors \in Nat
      /\ CohArr[coh[h].row].hops \in Nat /\ CohArr[coh[h].row].payload \in Nat
      /\ CohArr[coh[h].row].data \in RowData
  BY HandFields, LineFields, Zenon
<1>3. {"noise", "restore", "hop", "pay", "judge"} \subseteq CohPlaces /\ "noise" \in RowData
  BY DEF CohPlaces, Working, RowData
<1>4. CASE coh[h].at = "read"
  <2>1. CohArr' = CohArr
    BY <1>4 DEF Scribble
  <2>2. coh' = [coh EXCEPT ![h] = [coh[h] EXCEPT !.at = "noise", !.tmp = CohArr[coh[h].row].data]]
    BY <1>4, Zenon DEF Scribble, Mine
  <2>3. coh' = [coh EXCEPT ![h] = [at |-> "noise", row |-> coh[h].row,
                                   tmp |-> CohArr[coh[h].row].data, errors |-> coh[h].errors]]
    BY <2>2, HandUpdates, Zenon
  <2>4. Hand(h, "noise", coh[h].row, CohArr[coh[h].row].data, coh[h].errors)
    BY <1>2, <1>3, <2>3, HandMoves, Zenon
  <2> QED
    BY <1>1, <1>4, <2>1, <2>4 DEF Copies, Quiet
<1>5. CASE coh[h].at = "noise"
  <2>1. Goes(h, "restore")
    BY <1>3, <1>5, GotoMoves DEF Scribble
  <2>2. DataBecomes(coh[h].row, "noise")
    BY <1>2, <1>3, <1>5, FieldWrites, Zenon DEF Scribble, Mine
  <2> QED
    BY <1>1, <1>5, <2>1, <2>2 DEF Spoils
<1>6. CASE coh[h].at = "restore"
  <2>1. Goes(h, "hop")
    BY <1>3, <1>6, GotoMoves, SMTT(60) DEF Scribble
  <2>2. DataBecomes(coh[h].row, coh[h].tmp)
    BY <1>2, <1>6, FieldWrites, Zenon DEF Scribble, Mine
  <2> QED
    BY <1>1, <1>6, <2>1, <2>2 DEF Restores
<1>7. CASE coh[h].at = "hop"
  <2>1. Goes(h, "pay")
    BY <1>3, <1>7, GotoMoves DEF Scribble
  <2>2. CohArr' = [CohArr EXCEPT ![coh[h].row].hops = CohArr[coh[h].row].hops + 1]
    BY <1>2, <1>7 DEF Scribble, Mine
  <2>4. CohArr[coh[h].row].hops + 1 \in Nat
    BY <1>2
  <2>3. HopsBecome(coh[h].row, CohArr[coh[h].row].hops + 1)
    BY <1>2, <2>2, <2>4, FieldWrites, Zenon
  <2> QED
    BY <1>1, <1>7, <2>1, <2>3 DEF CountsHop
<1>8. CASE coh[h].at = "pay"
  <2>1. Goes(h, "judge")
    BY <1>3, <1>8, GotoMoves DEF Scribble
  <2>2. CohArr' = [CohArr EXCEPT ![coh[h].row].payload = CohArr[coh[h].row].payload + 1]
    BY <1>2, <1>8 DEF Scribble, Mine
  <2>4. CohArr[coh[h].row].payload + 1 \in Nat
    BY <1>2
  <2>3. PayloadBecomes(coh[h].row, CohArr[coh[h].row].payload + 1)
    BY <1>2, <2>2, <2>4, FieldWrites, Zenon
  <2> QED
    BY <1>1, <1>8, <2>1, <2>3 DEF Pays
<1> QED
  BY <1>4, <1>5, <1>6, <1>7, <1>8 DEF Scribble

\* The row goes to another hart, or home when it has made its hops.
LEMMA PassIs ==
  ASSUME chTypes, NEW h \in Rows, Pass(h)
  PROVE  PassesOn(h)
<1>1. coh[h].at = "judge" /\ priv' = priv /\ CalmFlags
  BY DEF Pass, CalmFlags, chOwn
<1>2. coh' = [coh EXCEPT ![h] = NextRow(coh[h])]
  BY DEF Pass
<1>3. coh[h].row \in Rows /\ CohArr[coh[h].row].orig \in Rows
  BY HandFields, LineFields, Zenon
<1>4. ~(CohArr[coh[h].row].hops > CohArr[coh[h].row].max /\ CohArr[coh[h].row].orig = h)
  BY DEF Pass, Mine
<1>5. PICK n \in IF CohArr[coh[h].row].hops > CohArr[coh[h].row].max
                 THEN {CohArr[coh[h].row].orig} ELSE Rows :
        CohArr' = [CohArr EXCEPT ![coh[h].row].to = n]
  BY Zenon DEF Pass, Mine
<1>6. /\ n \in Rows
      /\ CohArr[coh[h].row].hops > CohArr[coh[h].row].max => n = CohArr[coh[h].row].orig
  BY <1>3, <1>5
<1>7. ToBecomes(coh[h].row, n)
  BY <1>3, <1>5, <1>6, FieldWrites, Zenon
<1> QED
  BY <1>1, <1>2, <1>4, <1>6, <1>7, LeaveMoves, Zenon DEF PassesOn

\* What the owner's comparison does.
LEMMA OwnerChecksIs ==
  ASSUME chTypes, NEW h \in Rows, OwnerChecks(h)
  PROVE  Checks(h)
<1>1. /\ coh[h].at = "judge" /\ Quiet
      /\ CohArr[coh[h].row].hops > CohArr[coh[h].row].max /\ CohArr[coh[h].row].orig = h
  BY DEF OwnerChecks, Mine, Quiet, CalmFlags
<1> DEFINE e == coh[h].errors + Errors(h)
<1>2. e \in Nat
  <2>1. Errors(h) \in {0, 1, 2}
    BY DEF Errors
  <2>2. coh[h].errors \in Nat
    BY HandFields, Zenon
  <2> QED
    BY <2>1, <2>2
<1>3. coh' = [coh EXCEPT ![h] = [coh[h] EXCEPT !.at = "count", !.errors = e]]
  BY Zenon DEF OwnerChecks
<1> HIDE DEF e
<1>7. \A a, x : [coh[h] EXCEPT !.at = a, !.errors = x]
                 = [at |-> a, row |-> coh[h].row, tmp |-> coh[h].tmp, errors |-> x]
  BY HandUpdates, Zenon
<1>6. [coh[h] EXCEPT !.at = "count", !.errors = e]
        = [at |-> "count", row |-> coh[h].row, tmp |-> coh[h].tmp, errors |-> e]
  BY <1>7, Zenon
<1>4. coh' = [coh EXCEPT ![h] = [at |-> "count", row |-> coh[h].row, tmp |-> coh[h].tmp,
                                 errors |-> e]]
  BY <1>3, <1>6, Zenon
<1>5. Hand(h, "count", coh[h].row, coh[h].tmp, e)
  <2>1. "count" \in CohPlaces /\ coh[h].row \in Rows /\ coh[h].tmp \in RowData
    BY HandFields, Zenon DEF CohPlaces, Working
  <2> QED
    BY <1>2, <1>4, <2>1, HandMoves, Zenon
<1> QED
  BY <1>1, <1>5 DEF Checks, e

\* What the owner does with circuits_done.
LEMMA CountCircuitIs ==
  ASSUME chTypes, NEW h \in Rows, CountCircuit(h)
  PROVE  Counts(h) \/ IsLast(h) \/ IsNotLast(h)
<1>1. {"enough", "loop", "reset"} \subseteq CohPlaces
  BY DEF CohPlaces, Working
<1>2. CASE coh[h].at = "count"
  <2>1. Goes(h, "enough")
    BY <1>1, <1>2, GotoMoves DEF CountCircuit
  <2> QED
    BY <1>2, <2>1 DEF CountCircuit, Counts
<1>3. CASE coh[h].at = "enough" /\ circuits_done >= TOTAL_CIRCUITS
  <2>1. Goes(h, "loop")
    BY <1>1, <1>3, GotoMoves DEF CountCircuit
  <2> QED
    BY <1>3, <2>1 DEF CountCircuit, IsLast
<1>4. CASE coh[h].at = "enough" /\ ~(circuits_done >= TOTAL_CIRCUITS)
  <2>1. Goes(h, "reset")
    BY <1>1, <1>4, GotoMoves DEF CountCircuit
  <2> QED
    BY <1>4, <2>1 DEF CountCircuit, IsNotLast, Quiet, CalmFlags
<1> QED
  BY <1>2, <1>3, <1>4 DEF CountCircuit

\* How the owner sends its row out again.
LEMMA RestartIs ==
  ASSUME chTypes, NEW h \in Rows, Restart(h)
  PROVE  Resets(h) \/ SendsBad(h) \/ SendsGood(h)
<1>1. coh[h].row \in Rows
  BY HandFields, Zenon
<1>2. CASE coh[h].at = "reset"
  <2>1. Goes(h, "resend") /\ CalmFlags
    BY <1>2, GotoMoves, Zenon DEF Restart, CohPlaces, Working, CalmFlags, chOwn
  <2>2. PICK m \in 0 .. MAX_HOPS - 1, v \in Payloads :
          /\ CohArr' = [CohArr EXCEPT ![coh[h].row].hops = 0, ![coh[h].row].max = m,
                                      ![coh[h].row].payload = v]
          /\ priv' = [priv EXCEPT ![h] = v]
    BY <1>2, ZenonT(60) DEF Restart, Mine
  <2>3. v \in Nat
    BY CohAssumption
  <2>4. Line(coh[h].row, CohArr[coh[h].row].to, 0, m, v, CohArr[coh[h].row].data)
    BY <1>1, <2>2, <2>3, FieldWrites, Zenon
  <2> QED
    BY <1>2, <2>1, <2>2, <2>3, <2>4, ZenonT(60) DEF Resets
<1>3. CASE coh[h].at = "resend"
  <2>1. priv' = priv /\ CalmFlags
    BY <1>3 DEF Restart, CalmFlags, chOwn
  <2>2. PICK n \in Rows : CohArr' = [CohArr EXCEPT ![coh[h].row].to = n]
    BY <1>3, Zenon DEF Restart, Mine
  <2>3. ToBecomes(coh[h].row, n)
    BY <1>1, <2>2, FieldWrites, Zenon
  <2>4. CASE coh[h].errors > 0
    <3>1. chGoto(h, "fail")
      BY <1>3, <2>4 DEF Restart, AfterSend, chGoto
    <3> QED
      BY <1>3, <2>1, <2>3, <2>4, <3>1, GotoMoves DEF SendsBad, CohPlaces
  <2>5. CASE ~(coh[h].errors > 0)
    <3>1. coh' = [coh EXCEPT ![h] = NextRow(coh[h])]
      BY <1>3, <2>5 DEF Restart, AfterSend
    <3> QED
      BY <1>3, <2>1, <2>3, <2>5, <3>1, LeaveMoves, Zenon DEF SendsGood
  <2> QED
    BY <2>4, <2>5
<1> QED
  BY <1>2, <1>3, Zenon DEF Restart

\* How errors are reported.
LEMMA ReportIs ==
  ASSUME chTypes, NEW h \in Rows, Report(h)
  PROVE  Fails(h) \/ Stops(h)
<1>1. CASE coh[h].at = "fail"
  BY <1>1, GotoMoves DEF Report, Fails, CohPlaces
<1>2. CASE coh[h].at = "stop"
  BY <1>2, GotoMoves DEF Report, Stops, CohPlaces
<1> QED
  BY <1>1, <1>2 DEF Report

\* The end of the test.
LEMMA FinishIs ==
  ASSUME chTypes, NEW h \in Rows, Finish(h)
  PROVE  IsDone(h) \/ Decides(h)
<1>1. CASE coh[h].at = "finish"
  BY <1>1, GotoMoves DEF Finish, IsDone, CohPlaces
<1>2. CASE coh[h].at = "verdict"
  BY <1>2, GotoMoves DEF Finish, Decides, CohPlaces
<1> QED
  BY <1>1, <1>2 DEF Finish

\* Every step of a hart is one of the steps above.
LEMMA HartStepIs ==
  ASSUME chTypes, NEW h \in Rows, coh_checker_main(h)
  PROVE  HartStep(h)
BY InitRowIs, LoopIs, ScanIs, ScribbleIs, PassIs, OwnerChecksIs, CountCircuitIs, RestartIs,
   ReportIs, FinishIs DEF coh_checker_main, coh_checker_iteration, HartStep

\* A hart enters its circuit in coh_found when it has seen an error, and takes it out when
\* the circuit is the last.
FoundStep(h) ==
  \/ coh_found' = coh_found /\ ~IsLast(h)
  \/ coh_found' \subseteq coh_found \cup {h} /\ Checks(h) /\ Errors(h) > 0
  \/ coh_found' = coh_found \ {h}

\* What the steps of a hart do to coh_found.
LEMMA FoundIs ==
  ASSUME chTypes, NEW h \in Rows, coh_checker_main(h)
  PROVE  FoundStep(h)
<1>1. CASE OwnerChecks(h)
  <2>1. Checks(h)
    BY <1>1, OwnerChecksIs
  <2>2. ~IsLast(h)
    BY <2>1 DEF Checks, IsLast
  <2> QED
    BY <1>1, <2>1, <2>2 DEF OwnerChecks, FoundStep
<1>2. CASE CountCircuit(h)
  BY <1>2 DEF CountCircuit, FoundStep, IsLast
<1>3. CASE Finish(h) \/ Report(h) \/ Loop(h)
  BY <1>3, SMTT(60) DEF Finish, Report, Loop, FoundStep, IsLast, chOwn
<1>4. CASE Scan(h) \/ Scribble(h) \/ Pass(h)
  BY <1>4, SMTT(60) DEF Scan, Scribble, Pass, FoundStep, IsLast, chOwn
<1>5. CASE InitRow(h) \/ Restart(h)
  BY <1>5, ZenonT(60) DEF InitRow, Restart, FoundStep, IsLast, chOwn
<1> QED
  BY <1>1, <1>2, <1>3, <1>4, <1>5 DEF coh_checker_main, coh_checker_iteration

\* What a fault of the memory does.
LEMMA CorruptIs ==
  ASSUME chTypes, Corrupt
  PROVE  Breaks
<1>1. PICK r \in Rows : \/ CohArr' = [CohArr EXCEPT ![r].data = "bad"]
                        \/ CohArr' = [CohArr EXCEPT ![r].payload = @ + 2]
  BY DEF Corrupt
<1>2. CASE CohArr' = [CohArr EXCEPT ![r].data = "bad"]
  <2>1. DataBecomes(r, "bad")
    BY <1>2, FieldWrites, Zenon DEF RowData
  <2> QED
    BY <2>1 DEF Corrupt, Breaks
<1>3. CASE CohArr' = [CohArr EXCEPT ![r].payload = @ + 2]
  <2>1. CohArr[r].payload \in Nat
    BY LineFields, Zenon
  <2>2. CohArr[r].payload + 2 \in Nat
    BY <2>1
  <2>3. CohArr' = [CohArr EXCEPT ![r].payload = CohArr[r].payload + 2]
    BY <1>3
  <2>4. PayloadBecomes(r, CohArr[r].payload + 2)
    BY <2>2, <2>3, FieldWrites, Zenon
  <2> QED
    BY <2>4 DEF Corrupt, Breaks
<1> QED
  BY <1>1, <1>2, <1>3

\* A step of hart h moves no other hart.
LEMMA OthersStay ==
  ASSUME NEW h \in Rows, HartStep(h)
  PROVE  \A g \in Rows : g # h => coh'[g] = coh[g]
BY Zenon DEF HartStep, SetsUp, Announces, Begins, Ends, StartsPass, Takes, Skips, Copies, Spoils,
   Restores, CountsHop, Pays, PassesOn, Checks, Counts, IsLast, IsNotLast, Resets, SendsBad,
   SendsGood, Fails, Stops, IsDone, Decides, Goes, Leaves, Hand

\* Steps that write no line.
LEMMA StillSteps ==
  ASSUME NEW h \in Rows, HartStep(h),
         coh[h].at \notin {"init", "noise", "restore", "hop", "pay", "judge", "reset", "resend"}
  PROVE  /\ CohArr' = CohArr /\ priv' = priv
         /\ coh'[h].at \notin {"init", "restore", "pay"}
BY Zenon DEF HartStep, SetsUp, Announces, Begins, Ends, StartsPass, Takes, Skips, Copies, Spoils,
   Restores, CountsHop, Pays, PassesOn, Checks, Counts, IsLast, IsNotLast, Resets, SendsBad,
   SendsGood, Fails, Stops, IsDone, Decides, Goes, Leaves, Hand, NextPlace, Quiet

\* The others write the line of the row that the hart is at, and no other.
LEMMA LineSteps ==
  ASSUME NEW h \in Rows, HartStep(h), priv \in [Rows -> Nat],
         coh[h].at \in {"noise", "restore", "hop", "pay", "judge", "reset", "resend"}
  PROVE  /\ \A q \in Rows : q # coh[h].row => CohArr'[q] = CohArr[q]
         /\ \A q \in Rows : q # h => priv'[q] = priv[q]
         /\ coh'[h].at # "init"
         /\ coh'[h].at \in {"restore", "pay"} => coh'[h].row = coh[h].row
<1>1. /\ \A q \in Rows : q # coh[h].row => CohArr'[q] = CohArr[q]
      /\ \A q \in Rows : q # h => priv'[q] = priv[q]
  BY ZenonT(60) DEF HartStep, SetsUp, Announces, Begins, Ends, StartsPass, Takes, Skips, Copies,
     Spoils,
     Restores, CountsHop, Pays, PassesOn, Checks, Counts, IsLast, IsNotLast, Resets, SendsBad,
     SendsGood, Fails, Stops, IsDone, Decides, Quiet, DataBecomes, HopsBecome, PayloadBecomes,
     ToBecomes, Line
<1>2. /\ coh'[h].at # "init"
      /\ coh'[h].at \in {"restore", "pay"} => coh'[h].row = coh[h].row
  BY ZenonT(60) DEF HartStep, SetsUp, Announces, Begins, Ends, StartsPass, Takes, Skips, Copies,
     Spoils,
     Restores, CountsHop, Pays, PassesOn, Checks, Counts, IsLast, IsNotLast, Resets, SendsBad,
     SendsGood, Fails, Stops, IsDone, Decides, Goes, Leaves, Hand, NextPlace
<1> QED
  BY <1>1, <1>2

-----------------------------------------------------------------------------
\* Every step keeps the types.
LEMMA TypesKeep ==
  ASSUME chTypes, NEW h \in Rows, HartStep(h)
  PROVE  chTypes'
<1>1. CASE SetsUp(h)
  BY <1>1 DEF SetsUp, Goes, Hand, CalmFlags, HandType, LineType, chTypes
<1>2. CASE Announces(h) \/ Begins(h) \/ Ends(h) \/ Takes(h)
  BY <1>2 DEF Announces, Goes, Hand, Begins, Quiet, CalmFlags, Ends, Takes, HandType, LineType,
     chTypes
<1>3. CASE Counts(h) \/ IsLast(h) \/ IsNotLast(h)
  BY <1>3 DEF Counts, Goes, Hand, IsLast, IsNotLast, Quiet, CalmFlags, HandType, LineType,
     chTypes
<1>4. CASE Fails(h) \/ Stops(h) \/ IsDone(h) \/ Decides(h)
  BY <1>4 DEF Fails, Goes, Hand, Stops, IsDone, Decides, HandType, LineType, chTypes
<1>5. CASE StartsPass(h) \/ Skips(h)
  BY <1>5 DEF StartsPass, Hand, Quiet, CalmFlags, Skips, Leaves, HandType, LineType, chTypes
<1>6. CASE Copies(h) \/ Checks(h)
  BY <1>6 DEF Copies, Hand, Quiet, CalmFlags, Checks, HandType, LineType, chTypes
<1>7. CASE Spoils(h)
  BY <1>7 DEF Spoils, Goes, Hand, DataBecomes, Line, CalmFlags, HandType, LineType, chTypes
<1>8. CASE Restores(h)
  BY <1>8 DEF Restores, Goes, Hand, DataBecomes, Line, CalmFlags, HandType, LineType, chTypes
<1>9. CASE CountsHop(h)
  BY <1>9 DEF CountsHop, Goes, Hand, HopsBecome, Line, CalmFlags, HandType, LineType, chTypes
<1>10. CASE Pays(h)
  BY <1>10 DEF Pays, Goes, Hand, PayloadBecomes, Line, CalmFlags, HandType, LineType, chTypes
<1>11. CASE PassesOn(h)
  BY <1>11 DEF PassesOn, Leaves, Hand, ToBecomes, Line, CalmFlags, HandType, LineType, chTypes
<1>12. CASE SendsBad(h)
  BY <1>12 DEF SendsBad, Goes, Hand, ToBecomes, Line, CalmFlags, HandType, LineType, chTypes
<1>13. CASE SendsGood(h)
  BY <1>13 DEF SendsGood, Leaves, Hand, ToBecomes, Line, CalmFlags, HandType, LineType, chTypes
<1>14. CASE Resets(h)
  BY <1>14 DEF Resets, Goes, Hand, Line, CalmFlags, HandType, LineType, chTypes
<1> QED
  BY <1>1, <1>2, <1>3, <1>4, <1>5, <1>6, <1>7, <1>8, <1>9, <1>10, <1>11, <1>12, <1>13,
     <1>14 DEF HartStep

\* Nobody looks at the rows before all are set up.
LEMMA SetUpKeeps ==
  ASSUME chTypes, AllSetUp, NEW h \in Rows, HartStep(h)
  PROVE  AllSetUp'
<1> SUFFICES ASSUME NEW g \in Rows
             PROVE  /\ g \in init_ready' <=> coh'[g].at \notin {"init", "ready"}
                    /\ coh'[g].at \notin {"init", "ready", "roll_call"} => init_ready' = Rows
                    /\ coh'[g].at # "init" => CohArr'[g].orig = g
  BY DEF AllSetUp
<1>0. /\ coh[h].row \in Rows
      /\ \A f \in {g, h} : /\ f \in init_ready <=> coh[f].at \notin {"init", "ready"}
                           /\ coh[f].at \notin {"init", "ready", "roll_call"} => init_ready = Rows
                           /\ coh[f].at # "init" => CohArr[f].orig = f
      /\ init_ready \subseteq Rows
  BY HandFields DEF AllSetUp, chTypes
<1>1. CASE SetsUp(h)
  BY <1>1, <1>0 DEF SetsUp, Goes, Hand, CalmFlags
<1>2. CASE Announces(h) \/ Begins(h) \/ Ends(h) \/ Takes(h)
  BY <1>2, <1>0 DEF Announces, Goes, Hand, Begins, Quiet, CalmFlags, Ends, Takes
<1>3. CASE Counts(h) \/ IsLast(h) \/ IsNotLast(h)
  BY <1>3, <1>0 DEF Counts, Goes, Hand, IsLast, IsNotLast, Quiet, CalmFlags
<1>4. CASE Fails(h) \/ Stops(h) \/ IsDone(h) \/ Decides(h)
  BY <1>4, <1>0 DEF Fails, Goes, Hand, Stops, IsDone, Decides
<1>5. CASE StartsPass(h) \/ Skips(h)
  BY <1>5, <1>0 DEF StartsPass, Hand, Quiet, CalmFlags, Skips, Leaves, NextPlace
<1>6. CASE Copies(h) \/ Checks(h)
  BY <1>6, <1>0 DEF Copies, Hand, Quiet, CalmFlags, Checks
<1>7. CASE Spoils(h)
  BY <1>7, <1>0 DEF Spoils, Goes, Hand, DataBecomes, Line, CalmFlags
<1>8. CASE Restores(h)
  BY <1>8, <1>0 DEF Restores, Goes, Hand, DataBecomes, Line, CalmFlags
<1>9. CASE CountsHop(h)
  BY <1>9, <1>0 DEF CountsHop, Goes, Hand, HopsBecome, Line, CalmFlags
<1>10. CASE Pays(h)
  BY <1>10, <1>0 DEF Pays, Goes, Hand, PayloadBecomes, Line, CalmFlags
<1>11. CASE PassesOn(h)
  BY <1>11, <1>0 DEF PassesOn, Leaves, Hand, ToBecomes, Line, CalmFlags, NextPlace
<1>12. CASE SendsBad(h)
  BY <1>12, <1>0 DEF SendsBad, Goes, Hand, ToBecomes, Line, CalmFlags
<1>13. CASE SendsGood(h)
  BY <1>13, <1>0 DEF SendsGood, Leaves, Hand, ToBecomes, Line, CalmFlags, NextPlace
<1>14. CASE Resets(h)
  BY <1>14, <1>0 DEF Resets, Goes, Hand, Line, CalmFlags
<1> QED
  BY <1>1, <1>2, <1>3, <1>4, <1>5, <1>6, <1>7, <1>8, <1>9, <1>10, <1>11, <1>12, <1>13, <1>14,
     Zenon DEF HartStep

\* A hart works on a row that is addressed to it.
LEMMA AddressedKeeps ==
  ASSUME chTypes, AllSetUp, Addressed, NEW h \in Rows, HartStep(h)
  PROVE  Addressed'
<1> SUFFICES ASSUME NEW g \in Rows
             PROVE  /\ coh'[g].at \in Working => CohArr'[coh'[g].row].to = g
                    /\ coh'[g].at \in {"count", "enough", "reset", "resend"} => coh'[g].row = g
  BY DEF Addressed
<1>0. /\ coh[h].row \in Rows /\ coh[g].row \in Rows
      /\ \A f \in {g, h} :
           /\ coh[f].at \in Working => CohArr[coh[f].row].to = f
           /\ coh[f].at \in {"count", "enough", "reset", "resend"} => coh[f].row = f
           /\ f \in init_ready <=> coh[f].at \notin {"init", "ready"}
           /\ coh[f].at \notin {"init", "ready", "roll_call"} => init_ready = Rows
           /\ coh[f].at # "init" => CohArr[f].orig = f
      /\ \A r \in Rows : h \in Rows /\ CohArr[r].orig = h /\ init_ready = Rows => r = h
  BY HandFields, ZenonT(60) DEF AllSetUp, Addressed
<1>1. CASE SetsUp(h)
  BY <1>1, <1>0 DEF SetsUp, Goes, Hand, CalmFlags, Working
<1>2. CASE Announces(h) \/ Begins(h) \/ Ends(h) \/ Takes(h)
  BY <1>2, <1>0 DEF Announces, Goes, Hand, Begins, Quiet, CalmFlags, Ends, Takes, Working
<1>3. CASE Counts(h) \/ IsLast(h) \/ IsNotLast(h)
  BY <1>3, <1>0 DEF Counts, Goes, Hand, IsLast, IsNotLast, Quiet, CalmFlags, Working
<1>4. CASE Fails(h) \/ Stops(h) \/ IsDone(h) \/ Decides(h)
  BY <1>4, <1>0 DEF Fails, Goes, Hand, Stops, IsDone, Decides, Working
<1>5. CASE StartsPass(h) \/ Skips(h)
  BY <1>5, <1>0 DEF StartsPass, Hand, Quiet, CalmFlags, Skips, Leaves, Working, NextPlace
<1>6. CASE Copies(h) \/ Checks(h)
  BY <1>6, <1>0 DEF Copies, Hand, Quiet, CalmFlags, Checks, Working
<1>7. CASE Spoils(h)
  BY <1>7, <1>0 DEF Spoils, Goes, Hand, DataBecomes, Line, CalmFlags, Working
<1>8. CASE Restores(h)
  BY <1>8, <1>0 DEF Restores, Goes, Hand, DataBecomes, Line, CalmFlags, Working
<1>9. CASE CountsHop(h)
  BY <1>9, <1>0, SMTT(60) DEF CountsHop, Goes, Hand, HopsBecome, Line, CalmFlags, Working
<1>10. CASE Pays(h)
  BY <1>10, <1>0, SMTT(60) DEF Pays, Goes, Hand, PayloadBecomes, Line, CalmFlags, Working
<1>11. CASE PassesOn(h)
  BY <1>11, <1>0, SMTT(60) DEF PassesOn, Leaves, Hand, ToBecomes, Line, CalmFlags, Working, NextPlace
<1>12. CASE SendsBad(h)
  BY <1>12, <1>0 DEF SendsBad, Goes, Hand, ToBecomes, Line, CalmFlags, Working
<1>13. CASE SendsGood(h)
  BY <1>13, <1>0 DEF SendsGood, Leaves, Hand, ToBecomes, Line, CalmFlags, Working, NextPlace
<1>14. CASE Resets(h)
  BY <1>14, <1>0 DEF Resets, Goes, Hand, Line, CalmFlags, Working
<1> QED
  BY <1>1, <1>2, <1>3, <1>4, <1>5, <1>6, <1>7, <1>8, <1>9, <1>10, <1>11, <1>12, <1>13, <1>14,
     Zenon DEF HartStep

\* HopsBounded for one row, of any state.
HopsFine(c, arr, st, r) ==
  /\ arr[r].hops > arr[r].max =>
       arr[r].to = arr[r].orig \/ (c[arr[r].to].at \in {"pay", "judge"} /\ c[arr[r].to].row = r)
  /\ arr[r].hops > arr[r].max + 1 =>
       /\ arr[r].hops = arr[r].max + 2 /\ arr[r].to = arr[r].orig
       /\ \/ /\ c[arr[r].to].at \in {"pay", "judge", "count", "enough", "reset"}
             /\ c[arr[r].to].row = r
          \/ st = 1 /\ c[arr[r].to].at \in {"loop", "finish", "verdict", "done"}

\* A row goes home after its hops.
LEMMA HopsKeep ==
  ASSUME chTypes, AllSetUp, Addressed, HopsBounded, NEW h \in Rows, HartStep(h)
  PROVE  HopsBounded'
<1> SUFFICES ASSUME NEW r \in Rows, NEW g \in Rows
             PROVE  /\ HopsFine(coh', CohArr', stop', r)
                    /\ coh'[g].at = "resend" => CohArr'[coh'[g].row].hops = 0
  BY DEF HopsBounded, WorksOn, HopsFine
<1>0. /\ coh[h].row \in Rows /\ coh[g].row \in Rows
      /\ CohArr[r].to \in Rows /\ CohArr[r].hops \in Nat /\ CohArr[r].max \in Nat
      /\ \A f \in {g, h} :
           /\ coh[f].at \in Working => CohArr[coh[f].row].to = f
           /\ coh[f].at = "resend" => CohArr[coh[f].row].hops = 0
      /\ HopsFine(coh, CohArr, stop, r)
  <2>1. coh[h].row \in Rows /\ coh[g].row \in Rows
    BY HandFields, Zenon
  <2>2. CohArr[r].to \in Rows /\ CohArr[r].hops \in Nat /\ CohArr[r].max \in Nat
    <3>1. /\ CohArr[r].to \in Rows /\ CohArr[r].hops \in Nat
          /\ CohArr[r].max \in 0 .. MAX_HOPS - 1
      BY LineFields, Zenon
    <3> QED
      BY <3>1, CohAssumption
  <2>3. HopsFine(coh, CohArr, stop, r)
    BY DEF HopsBounded, WorksOn, HopsFine
  <2> QED
    BY <2>1, <2>2, <2>3 DEF Addressed, HopsBounded
<1>1. CASE SetsUp(h)
  BY <1>1, <1>0, SMTT(60) DEF SetsUp, Goes, Hand, CalmFlags, Working, HopsFine, LineType
<1>2. CASE Announces(h) \/ Begins(h) \/ Ends(h) \/ Takes(h)
  BY <1>2, <1>0, SMTT(60) DEF Announces, Goes, Hand, Begins, Quiet, CalmFlags, Ends, Takes, Working,
     HopsFine, LineType
<1>3. CASE Counts(h) \/ IsLast(h) \/ IsNotLast(h)
  BY <1>3, <1>0, SMTT(60) DEF Counts, Goes, Hand, IsLast, IsNotLast, Quiet, CalmFlags, Working, HopsFine,
     LineType
<1>4. CASE Fails(h) \/ Stops(h) \/ IsDone(h) \/ Decides(h)
  BY <1>4, <1>0, SMTT(60) DEF Fails, Goes, Hand, Stops, IsDone, Decides, Working, HopsFine, LineType
<1>5. CASE StartsPass(h) \/ Skips(h)
  BY <1>5, <1>0, SMTT(60) DEF StartsPass, Hand, Quiet, CalmFlags, Skips, Leaves, Working, NextPlace,
     HopsFine, LineType
<1>6. CASE Copies(h) \/ Checks(h)
  BY <1>6, <1>0, SMTT(60) DEF Copies, Hand, Quiet, CalmFlags, Checks, Working, HopsFine, LineType
<1>7. CASE Spoils(h)
  <2>1. /\ coh[h].at = "noise" /\ coh'[h].at = "restore" /\ coh'[h].row = coh[h].row /\ stop' = stop
        /\ \A f \in Rows : f # h => coh'[f] = coh[f]
    BY <1>7, Zenon DEF Spoils, Goes, Hand, CalmFlags
  <2>2. \A q \in Rows : /\ CohArr'[q].to = CohArr[q].to /\ CohArr'[q].hops = CohArr[q].hops
                        /\ CohArr'[q].max = CohArr[q].max /\ CohArr'[q].orig = CohArr[q].orig
    BY <1>7, Zenon DEF Spoils, DataBecomes, Line
  <2> QED
    BY <1>0, <2>1, <2>2 DEF HopsFine
<1>8. CASE Restores(h)
  <2>1. /\ coh[h].at = "restore" /\ coh'[h].at = "hop" /\ coh'[h].row = coh[h].row /\ stop' = stop
        /\ \A f \in Rows : f # h => coh'[f] = coh[f]
    BY <1>8, Zenon DEF Restores, Goes, Hand, CalmFlags
  <2>2. \A q \in Rows : /\ CohArr'[q].to = CohArr[q].to /\ CohArr'[q].hops = CohArr[q].hops
                        /\ CohArr'[q].max = CohArr[q].max /\ CohArr'[q].orig = CohArr[q].orig
    BY <1>8, Zenon DEF Restores, DataBecomes, Line
  <2> QED
    BY <1>0, <2>1, <2>2 DEF HopsFine
<1>9. CASE CountsHop(h)
  <2>1. /\ coh[h].at = "hop" /\ coh'[h].at = "pay" /\ coh'[h].row = coh[h].row /\ stop' = stop
        /\ \A f \in Rows : f # h => coh'[f] = coh[f]
    BY <1>9, Zenon DEF CountsHop, Goes, Hand, CalmFlags
  <2>2. /\ CohArr'[coh[h].row].hops = CohArr[coh[h].row].hops + 1
        /\ CohArr'[coh[h].row].to = CohArr[coh[h].row].to
        /\ CohArr'[coh[h].row].max = CohArr[coh[h].row].max
        /\ CohArr'[coh[h].row].orig = CohArr[coh[h].row].orig
        /\ \A q \in Rows : q # coh[h].row => CohArr'[q] = CohArr[q]
    BY <1>9, Zenon DEF CountsHop, HopsBecome, Line
  <2> QED
    BY <1>0, <2>1, <2>2, SMTT(60) DEF HopsFine, Working
<1>10. CASE Pays(h)
  <2>1. /\ coh[h].at = "pay" /\ coh'[h].at = "judge" /\ coh'[h].row = coh[h].row /\ stop' = stop
        /\ \A f \in Rows : f # h => coh'[f] = coh[f]
    BY <1>10, Zenon DEF Pays, Goes, Hand, CalmFlags
  <2>2. \A q \in Rows : /\ CohArr'[q].to = CohArr[q].to /\ CohArr'[q].hops = CohArr[q].hops
                        /\ CohArr'[q].max = CohArr[q].max /\ CohArr'[q].orig = CohArr[q].orig
    BY <1>10, ZenonT(60) DEF Pays, PayloadBecomes, Line
  <2> QED
    BY <1>0, <2>1, <2>2 DEF HopsFine
<1>11. CASE PassesOn(h)
  <2>1. /\ coh[h].at = "judge" /\ coh'[h].at \in {"scan", "loop"} /\ stop' = stop
        /\ ~(CohArr[coh[h].row].hops > CohArr[coh[h].row].max /\ CohArr[coh[h].row].orig = h)
        /\ \A f \in Rows : f # h => coh'[f] = coh[f]
    BY <1>11 DEF PassesOn, Leaves, NextPlace, Hand, CalmFlags
  <2>2. PICK n \in Rows : /\ CohArr'[coh[h].row].to = n
                          /\ CohArr'[coh[h].row].hops = CohArr[coh[h].row].hops
                          /\ CohArr'[coh[h].row].max = CohArr[coh[h].row].max
                          /\ CohArr'[coh[h].row].orig = CohArr[coh[h].row].orig
                          /\ \A q \in Rows : q # coh[h].row => CohArr'[q] = CohArr[q]
                          /\ CohArr[coh[h].row].hops > CohArr[coh[h].row].max
                               => n = CohArr[coh[h].row].orig
    BY <1>11, ZenonT(60) DEF PassesOn, ToBecomes, Line
  <2> QED
    BY <1>0, <2>1, <2>2 DEF HopsFine, Working
<1>12. CASE SendsBad(h)
  <2>1. /\ coh[h].at = "resend" /\ coh'[h].at \in {"fail"} /\ stop' = stop
        /\ \A f \in Rows : f # h => coh'[f] = coh[f]
    BY <1>12 DEF SendsBad, Goes, Hand, CalmFlags
  <2>2. PICK n \in Rows : /\ CohArr'[coh[h].row].to = n
                          /\ CohArr'[coh[h].row].hops = CohArr[coh[h].row].hops
                          /\ CohArr'[coh[h].row].max = CohArr[coh[h].row].max
                          /\ CohArr'[coh[h].row].orig = CohArr[coh[h].row].orig
                          /\ \A q \in Rows : q # coh[h].row => CohArr'[q] = CohArr[q]
    BY <1>12, Zenon DEF SendsBad, ToBecomes, Line
  <2> QED
    BY <1>0, <2>1, <2>2, SMTT(60) DEF HopsFine, Working
<1>13. CASE SendsGood(h)
  <2>1. /\ coh[h].at = "resend" /\ coh'[h].at \in {"scan", "loop"} /\ stop' = stop
        /\ \A f \in Rows : f # h => coh'[f] = coh[f]
    BY <1>13 DEF SendsGood, Leaves, NextPlace, Hand, CalmFlags
  <2>2. PICK n \in Rows : /\ CohArr'[coh[h].row].to = n
                          /\ CohArr'[coh[h].row].hops = CohArr[coh[h].row].hops
                          /\ CohArr'[coh[h].row].max = CohArr[coh[h].row].max
                          /\ CohArr'[coh[h].row].orig = CohArr[coh[h].row].orig
                          /\ \A q \in Rows : q # coh[h].row => CohArr'[q] = CohArr[q]
    BY <1>13, ZenonT(60) DEF SendsGood, ToBecomes, Line
  <2> QED
    BY <1>0, <2>1, <2>2 DEF HopsFine, Working
<1>14. CASE Resets(h)
  BY <1>14, <1>0 DEF Resets, Goes, Hand, Line, CalmFlags, Working, HopsFine, LineType
<1> QED
  BY <1>1, <1>2, <1>3, <1>4, <1>5, <1>6, <1>7, <1>8, <1>9, <1>10, <1>11, <1>12, <1>13, <1>14,
     ZenonT(60) DEF HartStep

\* The places where a hart that has not come to its own row is.
Early(a) == a \in {"scan", "read", "noise", "restore", "hop", "pay", "judge"}

\* An owner checks its row once in a pass.
LEMMA ErrorsKeep ==
  ASSUME chTypes, AllSetUp, Addressed, ErrorsBounded, NEW h \in Rows, HartStep(h)
  PROVE  ErrorsBounded'
<1>0. /\ coh[h].row \in Nat /\ coh[h].errors \in Nat /\ h \in Nat
      /\ coh[h].errors <= 2
      /\ Early(coh[h].at) /\ coh[h].row <= h => coh[h].errors = 0
      /\ coh[h].at \in {"count", "enough", "reset", "resend"} => coh[h].row = h
      /\ CohArr[coh[h].row].orig = h /\ coh[h].at = "judge" => coh[h].row = h
      /\ Errors(h) \in {0, 1, 2}
  <2>1. coh[h].row \in Rows /\ coh[h].errors \in Nat /\ h \in Nat /\ coh[h].row \in Nat
    BY HandFields, RowsNat, Zenon
  <2>2. Errors(h) \in {0, 1, 2}
    BY DEF Errors
  <2>3. coh[h].at = "judge" /\ CohArr[coh[h].row].orig = h => coh[h].row = h
    BY <2>1 DEF AllSetUp
  <2> QED
    BY <2>1, <2>2, <2>3 DEF ErrorsBounded, WorksOn, Addressed, Early
<1> SUFFICES coh'[h].errors <= 2 /\ (Early(coh'[h].at) /\ coh'[h].row <= h => coh'[h].errors = 0)
  BY OthersStay DEF ErrorsBounded, WorksOn, Early
<1>1. CASE SetsUp(h)
  BY <1>1, <1>0 DEF SetsUp, Goes, Hand, Early
<1>2. CASE Announces(h) \/ Begins(h) \/ Ends(h) \/ Takes(h)
  BY <1>2, <1>0 DEF Announces, Goes, Hand, Begins, Ends, Takes, Early
<1>3. CASE Counts(h) \/ IsLast(h) \/ IsNotLast(h)
  BY <1>3, <1>0 DEF Counts, Goes, Hand, IsLast, IsNotLast, Early
<1>4. CASE Fails(h) \/ Stops(h) \/ IsDone(h) \/ Decides(h)
  BY <1>4, <1>0 DEF Fails, Goes, Hand, Stops, IsDone, Decides, Early
<1>5. CASE StartsPass(h) \/ Skips(h)
  BY <1>5, <1>0 DEF StartsPass, Hand, Skips, Leaves, NextPlace, NextIndex, Early
<1>6. CASE Copies(h)
  BY <1>6, <1>0 DEF Copies, Hand, Early
<1>7. CASE Checks(h)
  BY <1>7, <1>0, SMTT(60) DEF Checks, Hand, Early
<1>8. CASE Spoils(h) \/ Restores(h) \/ CountsHop(h) \/ Pays(h)
  BY <1>8, <1>0 DEF Spoils, Goes, Hand, Restores, CountsHop, Pays, Early
<1>9. CASE PassesOn(h)
  BY <1>9, <1>0 DEF PassesOn, Leaves, Hand, NextPlace, NextIndex, Early
<1>10. CASE SendsBad(h) \/ SendsGood(h)
  BY <1>10, <1>0 DEF SendsBad, Goes, Hand, SendsGood, Leaves, NextPlace, NextIndex, Early
<1>11. CASE Resets(h)
  BY <1>11, <1>0 DEF Resets, Goes, Hand, Early
<1> QED
  BY <1>1, <1>2, <1>3, <1>4, <1>5, <1>6, <1>7, <1>8, <1>9, <1>10, <1>11, Zenon DEF HartStep
=============================================================================
