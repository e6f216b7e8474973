------------------------ MODULE CacheProofs ------------------------
(***************************************************************************)
(* Every operation of the L2's scheduler keeps icInv, the invariant from   *)
(* which UniqueWay and BcAlone follow.                                     *)
(***************************************************************************)
EXTENDS CacheSteps

\* What MSHR.scala's initial plan holds for a request and the meta-data the directory read.
LEMMA PlanFacts ==
  ASSUME NEW r \in AnyReqs, NEW meta \in Metas
  PROVE  /\ Plan(r, meta).s \in SUBSET Steps /\ Plan(r, meta).w \in SUBSET Waits
         /\ r.ch = "C" => Plan(r, meta).w = {}
         /\ "release" \in Plan(r, meta).s => "releaseack" \in Plan(r, meta).w
         /\ r.ch = "X" => "execute" \notin Plan(r, meta).s
         /\ "rprobe" \in Plan(r, meta).s => meta.clients # {}
<1>1. r.ch \in {"A", "C", "X"}
  BY RequestKinds DEF AnyReqs
<1>2. CASE r.ch = "C"
  <2>1. Plan(r, meta) = PlanRelease(r, meta)
    BY <1>2 DEF Plan
  <2> QED
    BY <1>2, <2>1 DEF PlanRelease, Steps, Waits
<1>3. CASE r.ch = "X"
  <2>1. Plan(r, meta) = PlanFlush(meta)
    BY <1>3, SMTT(60) DEF Plan
  <2>2. /\ PlanFlush(meta).s \subseteq {"flush", "release", "rprobe"}
        /\ PlanFlush(meta).w \subseteq {"releaseack", "rprobeackfirst", "rprobeacklast"}
        /\ "release" \in PlanFlush(meta).s => "releaseack" \in PlanFlush(meta).w
        /\ "rprobe" \in PlanFlush(meta).s => meta.clients # {}
    BY DEF PlanFlush, EvictS, EvictW
  <2> QED
    BY <1>3, <2>1, <2>2 DEF Steps, Waits, AllWaits
<1>4. CASE r.ch = "A"
  <2>1. Plan(r, meta) = PlanA(r, meta)
    BY <1>4 DEF Plan
  <2>2. EvictS(meta) \subseteq Steps /\ EvictW(meta) \subseteq Waits /\ "releaseack" \in EvictW(meta)
        /\ ("rprobe" \in EvictS(meta) => meta.clients # {})
    BY SMTT(60) DEF EvictS, EvictW, Steps, Waits, AllWaits
  <2>3. PlanA(r, meta).s \in SUBSET Steps
    BY <2>2, SMTT(60) DEF PlanA, Steps
  <2>4. PlanA(r, meta).w \in SUBSET Waits
    BY <2>2, SMTT(60) DEF PlanA, Waits, AllWaits
  <2>5. "release" \in PlanA(r, meta).s => "releaseack" \in PlanA(r, meta).w
    BY <2>2, ZenonT(60) DEF PlanA
  <2>6. "rprobe" \in PlanA(r, meta).s => meta.clients # {}
    BY <2>2, SMTT(60) DEF PlanA
  <2> QED
    BY <1>4, <2>1, <2>3, <2>4, <2>5, <2>6
<1> QED
  BY <1>1, <1>2, <1>3, <1>4

\* An MSHR with a plan.
LEMMA PlannedWorks ==
  ASSUME NEW r \in AnyReqs, NEW meta \in Metas
  PROVE  LET N == WithPlan(r, meta) IN
         /\ N \in WorkingMSHRs /\ N.valid /\ N.metaValid /\ N.req = r /\ N.meta = meta
         /\ N.s = Plan(r, meta).s /\ N.w = Plan(r, meta).w
<1> DEFINE s == Plan(r, meta).s
           w == Plan(r, meta).w
<1>1. s \in SUBSET Steps /\ w \in SUBSET Waits
  BY PlanFacts, Zenon
<1>2. WithPlan(r, meta) = [valid |-> TRUE, req |-> r, metaValid |-> TRUE, meta |-> meta,
         s |-> s, w |-> w, gotT |-> FALSE, probesDone |-> {}, probesToN |-> {}]
  BY SMTT(60) DEF WithPlan
<1> HIDE DEF s, w
<1>3. WithPlan(r, meta) \in WorkingMSHRs /\ WithPlan(r, meta).s = s /\ WithPlan(r, meta).w = w
  BY <1>1, <1>2, SMTT(60) DEF WorkingMSHRs
<1> QED
  BY <1>2, <1>3, SMTT(60) DEF s, w

\* The meta-data an MSHR leaves: the way is the same, and the line in it is the one of the
\* request or the one that was there.
LEMMA FinalMetaFacts ==
  ASSUME NEW M \in WorkingMSHRs
  PROVE  LET F == FinalMeta(M) IN
         /\ F \in Metas /\ F.way = M.meta.way
         /\ F.state # "INVALID" => \/ F.tag = M.req.tag
                                   \/ F.tag = M.meta.tag /\ M.meta.state # "INVALID"
         /\ M.req.ch = "C" => /\ F.tag = M.meta.tag
                              /\ F.state = "INVALID" <=> M.meta.state = "INVALID"
         /\ F.clients # {} => F.tag \in Tags \/ (F.tag = M.meta.tag /\ M.meta.clients # {})
<1> DEFINE r == M.req
           meta == M.meta
<1>1. /\ r \in AnyReqs /\ meta \in Metas /\ r.tag \in Tags
      /\ M.probesToN \in SUBSET Clients /\ M.gotT \in BOOLEAN
  BY WorkingFields, RequestFields, Zenon
<1>2. CASE r.ch = "C"
  <2> DEFINE d == meta.dirty \/ r.op = "ReleaseData"
             st == IF r.param # "TtoT" /\ meta.state = "TRUNK" THEN "TIP" ELSE meta.state
             cl == meta.clients \ (IF isToN(r.param) THEN {r.client} ELSE {})
  <2>1. FinalMeta(M) = [meta EXCEPT !.dirty = d, !.state = st, !.clients = cl, !.hit = TRUE]
    BY <1>1, <1>2, Zenon DEF FinalMeta
  <2>2. /\ d \in BOOLEAN /\ st \in {"INVALID", "BRANCH", "TRUNK", "TIP"} /\ cl \in SUBSET Clients
        /\ cl \subseteq meta.clients /\ (st = "INVALID" <=> meta.state = "INVALID")
    BY <1>1 DEF Metas
  <2> HIDE DEF d, st, cl
  <2>3. /\ FinalMeta(M) \in Metas /\ FinalMeta(M).way = meta.way /\ FinalMeta(M).tag = meta.tag
        /\ FinalMeta(M).state = st /\ FinalMeta(M).clients = cl
    BY <1>1, <2>1, <2>2, Zenon DEF Metas
  <2> QED
    BY <2>2, <2>3
<1>3. CASE r.ch = "X"
  <2>1. CASE meta.hit
    <3> DEFINE cl == meta.clients \ M.probesToN
    <3>1. FinalMeta(M) = [meta EXCEPT !.dirty = FALSE, !.state = "INVALID", !.clients = cl,
                                      !.hit = FALSE]
      BY <1>3, <2>1 DEF FinalMeta
    <3>2. cl \in SUBSET Clients /\ cl \subseteq meta.clients
      BY <1>1 DEF Metas
    <3> HIDE DEF cl
    <3>3. /\ FinalMeta(M) \in Metas /\ FinalMeta(M).way = meta.way /\ FinalMeta(M).tag = meta.tag
          /\ FinalMeta(M).state = "INVALID" /\ FinalMeta(M).clients = cl
      BY <1>1, <3>1, <3>2, Zenon DEF Metas
    <3> QED
      BY <1>3, <3>2, <3>3
  <2>2. CASE ~meta.hit
    <3>1. FinalMeta(M) = meta
      BY <1>3, <2>2 DEF FinalMeta
    <3> QED
      BY <1>1, <1>3, <3>1
  <2> QED
    BY <2>1, <2>2
<1>4. CASE r.ch = "A"
  <2> DEFINE d == (meta.hit /\ meta.dirty) \/ r.op = "Put"
             st == FinalState(M)
             cl == (IF meta.hit THEN meta.clients \ M.probesToN ELSE {})
                   \cup (IF r.op = "Acquire" THEN {r.client} ELSE {})
  <2>1. FinalMeta(M) = [meta EXCEPT !.dirty = d, !.state = st, !.clients = cl, !.tag = r.tag,
                                    !.hit = TRUE]
    BY <1>1, <1>4 DEF FinalMeta
  <2>2. r.op = "Acquire" => r.client \in Clients
    BY <1>1, <1>4, RequestKinds DEF AnyReqs
  <2>3. d \in BOOLEAN /\ cl \in SUBSET Clients
    BY <1>1, <2>2 DEF Metas
  <2>4. st \in {"INVALID", "BRANCH", "TRUNK", "TIP"}
    BY <1>1 DEF FinalState, Metas
  <2> HIDE DEF d, st, cl
  <2>5. /\ FinalMeta(M) \in Metas /\ FinalMeta(M).way = meta.way /\ FinalMeta(M).tag = r.tag
    BY <1>1, <2>1, <2>3, <2>4, Zenon DEF Metas
  <2> QED
    BY <1>1, <1>4, <2>5
<1> QED
  BY <1>1, <1>2, <1>3, <1>4, RequestKinds, ZenonT(60) DEF AnyReqs

-----------------------------------------------------------------------------
(* Steps of one MSHR *)

\* MSHR m takes state N and queues Q and writes entry E into way w of its set; the others
\* keep their requests and ways.
Changes(m, N, Q, w, E) ==
  /\ mshr[m].valid /\ mshr' \in [MSHRs -> MshrStates] /\ mshr'[m] = N
  /\ \A n \in MSHRs \ {m} : /\ Kept(mshr[n], mshr'[n]) /\ outer'[n] = outer[n]
                            /\ Active(n) => mshr'[n].w = mshr[n].w
  /\ requests' = [requests EXCEPT ![m] = Q]
  /\ dir' = [dir EXCEPT ![mshr[m].req.set][w] = E]
  /\ \A n \in MSHRs : m < n /\ mshr[n].valid => mshr[n].req.set # mshr[m].req.set

\* What the other MSHRs keep.
LEMMA OthersKept ==
  ASSUME NEW m \in MSHRs, NEW N, NEW Q, NEW w, NEW E, Changes(m, N, Q, w, E)
  PROVE  /\ \A n \in MSHRs \ {m} :
              /\ mshr'[n].valid <=> mshr[n].valid
              /\ mshr[n].valid => mshr'[n].req = mshr[n].req
              /\ Active(n)' <=> Active(n)
         /\ \A n \in MSHRs \ {m} : Active(n) =>
              /\ mshr'[n].s = mshr[n].s /\ mshr'[n].w = mshr[n].w
              /\ mshr'[n].meta.tag = mshr[n].meta.tag /\ mshr'[n].meta.way = mshr[n].meta.way
              /\ mshr'[n].meta.state = mshr[n].meta.state
              /\ mshr'[n].meta.clients = mshr[n].meta.clients
              /\ mshr'[n].req = mshr[n].req
BY Zenon DEF Changes, Kept, Active

\* The MSHRs and the owners of the sets.
LEMMA ChangedMshrs ==
  ASSUME icStructure, NEW m \in MSHRs, NEW N, NEW Q, NEW w, NEW E, Changes(m, N, Q, w, E),
         N.valid => /\ N.req.set = mshr[m].req.set
                    /\ m \notin AbcMSHRs => N.req \in CReqs,
         Q \in [A : Seq(AReqs \cup XReqs), C : Seq(CReqs)],
         Q.A \in Seq(QueueA(m)), Q.C \in Seq(QueueC(m)),
         ~N.valid => Q.A = <<>> /\ Q.C = <<>>
  PROVE  icMshrs' /\ OneOwner'
<1>1. /\ requests \in [MSHRs -> [A : Seq(AReqs \cup XReqs), C : Seq(CReqs)]]
      /\ \A n \in MSHRs : /\ mshr[n].valid /\ n \notin AbcMSHRs => mshr[n].req \in CReqs
                          /\ requests[n].A \in Seq(QueueA(n)) /\ requests[n].C \in Seq(QueueC(n))
  BY DEF icStructure, icMshrs
<1>2. /\ mshr[m].valid /\ mshr' \in [MSHRs -> MshrStates] /\ mshr'[m] = N
      /\ requests' = [requests EXCEPT ![m] = Q]
      /\ \A n \in MSHRs : m < n /\ mshr[n].valid => mshr[n].req.set # mshr[m].req.set
  BY SMTT(60) DEF Changes
<1>3. requests' \in [MSHRs -> [A : Seq(AReqs \cup XReqs), C : Seq(CReqs)]]
  BY <1>1, <1>2, Zenon
<1>4. \A n \in MSHRs : requests'[n] = IF n = m THEN Q ELSE requests[n]
  BY <1>1, <1>2, SMTT(60)
<1>5. ASSUME NEW n \in MSHRs
      PROVE  /\ mshr'[n].valid /\ n \notin AbcMSHRs => mshr'[n].req \in CReqs
             /\ (requests[n].A \in Seq(QueueA(n)) /\ requests[n].C \in Seq(QueueC(n)))'
  <2>1. CASE n # m
    <3>1. (mshr'[n].valid <=> mshr[n].valid) /\ (mshr[n].valid => mshr'[n].req = mshr[n].req)
      BY <2>1, OthersKept, SMTT(60)
    <3>2. QueueA(n)' = QueueA(n) /\ QueueC(n)' = QueueC(n)
      BY <3>1, SMTT(60) DEF QueueA, QueueC
    <3> QED
      BY <1>1, <1>4, <2>1, <3>1, <3>2, SMTT(60)
  <2>2. CASE n = m /\ N.valid
    <3>1. QueueA(n)' = QueueA(n) /\ QueueC(n)' = QueueC(n)
      BY <1>2, <2>2, SMTT(60) DEF QueueA, QueueC
    <3> QED
      BY <1>2, <1>4, <2>2, <3>1, SMTT(60)
  <2>3. CASE n = m /\ ~N.valid
    <3>1. \A S : <<>> \in Seq(S)
      BY SMTT(60)
    <3> QED
      BY <1>2, <1>4, <2>3, <3>1, SMTT(60)
  <2> QED
    BY <2>1, <2>2, <2>3, SMTT(60)
<1>6. icMshrs'
  BY <1>2, <1>3, <1>5, Zenon DEF icMshrs, MshrStates
<1>7. OneOwner'
  <2> SUFFICES ASSUME NEW k \in MSHRs, NEW n \in MSHRs, k < n, mshr'[k].valid, mshr'[n].valid,
                      mshr'[k].req.set = mshr'[n].req.set
               PROVE  n = c_mshr /\ Active(k)' /\ mshr'[k].req.ch # "C"
    BY SMTT(60) DEF OneOwner
  <2>1. k # m
    <3>1. ASSUME k = m PROVE FALSE
      <4>1. n # m
        BY <3>1, Numbers, SMTT(60)
      <4>2. mshr[n].valid /\ mshr[n].req.set = mshr[m].req.set
        BY <1>2, <3>1, <4>1, OthersKept, ZenonT(60)
      <4> QED
        BY <1>2, <3>1, <4>2, SMTT(60)
    <3> QED
      BY <3>1, SMTT(60)
  <2>2. mshr[k].valid /\ mshr'[k].req = mshr[k].req /\ (Active(k)' <=> Active(k))
    BY <2>1, OthersKept, ZenonT(60)
  <2>3. mshr[n].valid /\ mshr[n].req.set = mshr'[n].req.set
    BY <1>2, OthersKept, ZenonT(60)
  <2> QED
    BY <2>2, <2>3, SMTT(60) DEF icStructure, OneOwner
<1> QED
  BY <1>6, <1>7

\* The plans.
LEMMA ChangedPlans ==
  ASSUME icStructure, NEW m \in MSHRs, NEW N, NEW Q, NEW w, NEW E, Changes(m, N, Q, w, E),
         N.valid /\ N.metaValid => /\ N.req.ch = "C" => N.w = {}
                                   /\ "release" \in N.s => "releaseack" \in N.w
                                   /\ N.req.ch = "X" => "execute" \notin N.s
                                   /\ "rprobe" \in N.s => N.meta.tag \in Tags,
         outer'[m] # None => /\ N.valid /\ N.metaValid
                             /\ "release" \notin N.s /\ "releaseack" \in N.w
  PROVE  icPlans'
<1>1. mshr'[m] = N /\ \A n \in MSHRs \ {m} : outer'[n] = outer[n]
  BY SMTT(60) DEF Changes
<1>2. Active(m)' <=> N.valid /\ N.metaValid
  BY <1>1, ZenonT(60) DEF Active
<1>3. ASSUME NEW n \in MSHRs, n # m
      PROVE  (/\ Active(n) => /\ mshr[n].req.ch = "C" => mshr[n].w = {}
                              /\ "release" \in mshr[n].s => "releaseack" \in mshr[n].w
                              /\ mshr[n].req.ch = "X" => "execute" \notin mshr[n].s
                              /\ "rprobe" \in mshr[n].s => mshr[n].meta.tag \in Tags
              /\ outer[n] # None => Active(n) /\ "release" \notin mshr[n].s
                                              /\ "releaseack" \in mshr[n].w)'
  BY <1>1, <1>3, OthersKept, SMTT(60) DEF icStructure, icPlans
<1> QED
  BY <1>1, <1>2, <1>3, Zenon DEF icPlans

\* What OthersDiffer looks at of a set: the tags and whether they are valid.
LEMMA SameDiffer ==
  ASSUME NEW n, NEW s, OthersDiffer(mshr[n], dir[s]),
         mshr'[n].meta.tag = mshr[n].meta.tag, mshr'[n].meta.way = mshr[n].meta.way,
         mshr'[n].meta.state = mshr[n].meta.state, mshr'[n].req = mshr[n].req,
         \A v \in Ways : /\ dir'[s][v].tag = dir[s][v].tag
                         /\ dir'[s][v].state = "INVALID" <=> dir[s][v].state = "INVALID"
  PROVE  OthersDiffer(mshr'[n], dir'[s])
BY ZenonT(60) DEF OthersDiffer

\* The ways.
LEMMA ChangedWays ==
  ASSUME icStructure, NEW m \in MSHRs, NEW N, NEW Q, NEW w \in Ways, NEW E \in Entries,
         Changes(m, N, Q, w, E), mshr[m].req.set \in Sets, dir \in [Sets -> [Ways -> Entries]],
         E.clients # {} => E.tag \in Tags,
         E.state # "INVALID" =>
           \A v \in Ways \ {w} : dir[mshr[m].req.set][v].state # "INVALID" =>
             dir[mshr[m].req.set][v].tag # E.tag,
         m = c_mshr => /\ E.tag = dir[mshr[m].req.set][w].tag
                       /\ E.state = "INVALID" <=> dir[mshr[m].req.set][w].state = "INVALID",
         N.valid /\ N.metaValid => /\ N.req.set = mshr[m].req.set
                                   /\ OthersDiffer(N, dir'[mshr[m].req.set])
                                   /\ m = c_mshr => SameLine(N, dir'[mshr[m].req.set])
                                   /\ N.meta.clients # {} => N.meta.tag \in Tags
  PROVE  icWays' /\ UniqueWay'
<1> DEFINE s == mshr[m].req.set
<1>1. /\ mshr[m].valid /\ mshr'[m] = N /\ dir' = [dir EXCEPT ![s][w] = E]
      /\ \A n \in MSHRs : m < n /\ mshr[n].valid => mshr[n].req.set # s
  BY ZenonT(60) DEF Changes
<1>2. s \in Sets
  BY ZenonT(60)
<1> HIDE DEF s
<1>3. /\ \A t \in Sets \ {s} : dir'[t] = dir[t]
      /\ \A v \in Ways \ {w} : dir'[s][v] = dir[s][v]
      /\ dir'[s][w] = E
  BY <1>1, <1>2, ZenonT(60)
<1>4. Active(m)' <=> N.valid /\ N.metaValid
  BY <1>1, ZenonT(60) DEF Active
<1>5. UniqueWay'
  <2> SUFFICES ASSUME NEW t \in Sets, NEW u \in Ways, NEW v \in Ways,
                      dir'[t][u].state # "INVALID", dir'[t][v].state # "INVALID",
                      dir'[t][u].tag = dir'[t][v].tag
               PROVE  u = v
    BY ZenonT(60) DEF UniqueWay
  <2>1. CASE t # s \/ (u # w /\ v # w)
    <3>1. dir'[t][u] = dir[t][u] /\ dir'[t][v] = dir[t][v]
      BY <1>3, <2>1, Zenon
    <3> QED
      BY <3>1, SMTT(60) DEF icStructure, UniqueWay
  <2>2. CASE t = s /\ (u = w \/ v = w)
    BY <1>3, <2>2, ZenonT(60) DEF s
  <2> QED
    BY <2>1, <2>2, ZenonT(60)
<1>6. \A t \in Sets : \A v \in Ways : dir'[t][v].clients # {} => dir'[t][v].tag \in Tags
  BY <1>3, ZenonT(60) DEF icStructure, icWays
<1>7. \A n \in MSHRs : Active(n)' /\ mshr'[n].meta.clients # {} => mshr'[n].meta.tag \in Tags
  BY <1>1, <1>4, OthersKept, ZenonT(60) DEF icStructure, icWays
<1>8. ASSUME NEW n \in MSHRs, Active(n)'
      PROVE  OthersDiffer(mshr'[n], dir'[mshr'[n].req.set])
  <2>1. CASE n = m
    BY <1>1, <1>4, <1>8, <2>1, ZenonT(60)
  <2>2. CASE n # m
    <3>1. Active(n) /\ OthersDiffer(mshr[n], dir[mshr[n].req.set])
      BY <1>8, <2>2, OthersKept, ZenonT(60) DEF icStructure, icWays
    <3>2. /\ mshr'[n].meta.tag = mshr[n].meta.tag /\ mshr'[n].meta.way = mshr[n].meta.way
          /\ mshr'[n].meta.state = mshr[n].meta.state /\ mshr'[n].req = mshr[n].req
      BY <2>2, <3>1, OthersKept, ZenonT(60)
    <3>3. mshr[n].valid /\ mshr[n] \in WorkingMSHRs
      BY <3>1, OneMshr, ZenonT(60) DEF Active
    <3>4. mshr[n].req.set \in Sets
      BY <3>3, WorkingFields, RequestFields, ZenonT(60)
    <3>5. CASE mshr[n].req.set # s
      <4>1. dir'[mshr'[n].req.set] = dir[mshr[n].req.set]
        BY <1>3, <3>2, <3>4, <3>5, ZenonT(60)
      <4> QED
        BY <3>1, <3>2, <4>1, ZenonT(60) DEF OthersDiffer
    <3>6. CASE mshr[n].req.set = s
      <4>1. m = c_mshr
        <5>1. n < m \/ m < n
          BY <2>2, Numbers, SMTT(60)
        <5> QED
          BY <1>1, <3>3, <3>6, <5>1, ZenonT(60) DEF icStructure, OneOwner, s
      <4>2. \A v \in Ways : /\ dir'[s][v].tag = dir[s][v].tag
                            /\ dir'[s][v].state = "INVALID" <=> dir[s][v].state = "INVALID"
        BY <1>3, <4>1, Zenon DEF s
      <4>3. mshr'[n].req.set = s
        BY <3>2, <3>6, Zenon
      <4>4. OthersDiffer(mshr[n], dir[s])
        BY <3>1, <3>6, Zenon
      <4>5. OthersDiffer(mshr'[n], dir'[s])
        BY <3>2, <4>2, <4>4, SameDiffer, ZenonT(60)
      <4> QED
        BY <4>3, <4>5, Zenon
    <3> QED
      BY <3>5, <3>6, ZenonT(60)
  <2> QED
    BY <2>1, <2>2, Zenon
<1>9. ASSUME Active(c_mshr)'
      PROVE  SameLine(mshr'[c_mshr], dir'[mshr'[c_mshr].req.set])
  <2>1. CASE m = c_mshr
    BY <1>1, <1>4, <1>9, <2>1, ZenonT(60)
  <2>2. CASE m # c_mshr
    <3>1. c_mshr \in MSHRs /\ m < c_mshr
      BY <2>2, Numbers, ZenonT(60)
    <3>2. Active(c_mshr) /\ SameLine(mshr[c_mshr], dir[mshr[c_mshr].req.set])
      BY <1>9, <2>2, <3>1, OthersKept, ZenonT(60) DEF icStructure, icWays
    <3>3. /\ mshr'[c_mshr].meta.tag = mshr[c_mshr].meta.tag
          /\ mshr'[c_mshr].meta.way = mshr[c_mshr].meta.way
          /\ mshr'[c_mshr].meta.state = mshr[c_mshr].meta.state
          /\ mshr'[c_mshr].req = mshr[c_mshr].req
      BY <2>2, <3>1, <3>2, OthersKept, ZenonT(60)
    <3>4. mshr[c_mshr].valid /\ mshr[c_mshr] \in WorkingMSHRs
      BY <3>1, <3>2, OneMshr, ZenonT(60) DEF Active
    <3>5. mshr[c_mshr].req.set \in Sets /\ mshr[c_mshr].req.set # s
      BY <1>1, <3>1, <3>4, WorkingFields, RequestFields, ZenonT(60)
    <3>6. dir'[mshr'[c_mshr].req.set] = dir[mshr[c_mshr].req.set]
      BY <1>3, <3>3, <3>5, Zenon
    <3> QED
      BY <3>2, <3>3, <3>6, ZenonT(60) DEF SameLine
  <2> QED
    BY <2>1, <2>2, ZenonT(60)
<1> QED
  BY <1>5, <1>6, <1>7, <1>8, <1>9, Numbers, Zenon DEF icWays

-----------------------------------------------------------------------------
(* The directory *)

\* The directory answers MSHR m.
LEMMA DirectoryKeeps ==
  ASSUME icTypes, icStructure, NEW m \in MSHRs, DirectoryResult(m)
  PROVE  icTypes' /\ icStructure'
<1> DEFINE r == mshr[m].req
           hits == {w \in Ways : dir[r.set][w].state # "INVALID" /\ dir[r.set][w].tag = r.tag}
           meta(w) == [state |-> dir[r.set][w].state, dirty |-> dir[r.set][w].dirty,
                       clients |-> dir[r.set][w].clients, tag |-> dir[r.set][w].tag,
                       way |-> w, hit |-> hits # {}]
<1>1. icTypes'
  BY ZenonT(60) DEF DirectoryResult, icTypes, l1vars, reqvars, memvars
<1>2. mshr[m].valid /\ ~mshr[m].metaValid /\ ~Active(m) /\ r \in AnyReqs /\ r.set \in Sets
  <2>1. mshr[m].valid /\ ~mshr[m].metaValid
    BY ZenonT(60) DEF DirectoryResult
  <2> QED
    BY <2>1, OneMshr, MshrCases, RequestFields, ZenonT(60) DEF Active
<1>3. PICK w \in Ways : /\ mshr' = [mshr EXCEPT ![m] = WithPlan(r, meta(w))]
                        /\ hits # {} => w \in hits
  BY ZenonT(60) DEF DirectoryResult
<1>4. /\ requests' = requests /\ dir' = dir /\ outer' = outer
  BY ZenonT(60) DEF DirectoryResult, memvars
<1> DEFINE e == dir[r.set][w]
           mt == meta(w)
           N == WithPlan(r, mt)
           Q == requests[m]
<1>5. e \in Entries
  BY <1>2, ZenonT(60) DEF icTypes
<1>6. /\ mt \in Metas /\ mt.way = w /\ mt.tag = e.tag /\ mt.state = e.state /\ mt.clients = e.clients
  <2>1. (hits # {}) \in BOOLEAN
    BY SMTT(60)
  <2> HIDE DEF hits
  <2> QED
    BY <1>5, <2>1, Zenon DEF Metas, Entries
<1>7. \A v \in Ways \ {w} : dir[r.set][v].state # "INVALID" =>
        dir[r.set][v].tag # r.tag /\ (e.state # "INVALID" => dir[r.set][v].tag # e.tag)
  BY <1>2, <1>3, Zenon DEF icStructure, UniqueWay
<1>8. e.clients # {} => e.tag \in Tags
  BY <1>2, SMTT(60) DEF icStructure, icWays
<1> HIDE DEF mt, e, hits, meta
<1>9. /\ N \in WorkingMSHRs /\ N.valid /\ N.metaValid /\ N.req = r /\ N.meta = mt
      /\ N.s = Plan(r, mt).s /\ N.w = Plan(r, mt).w
  BY <1>2, <1>6, PlannedWorks, Zenon
<1>10. mshr' = [mshr EXCEPT ![m] = N]
  BY <1>3, SMTT(60) DEF mt
<1> HIDE DEF N, Q
<1>11. Changes(m, N, Q, w, e)
  <2>1. mshr' \in [MSHRs -> MshrStates] /\ \A n \in MSHRs : mshr'[n] = IF n = m THEN N ELSE mshr[n]
    BY <1>9, <1>10, OneMshr DEF MshrStates
  <2>2. \A n \in MSHRs : m < n /\ mshr[n].valid => mshr[n].req.set # mshr[m].req.set
    BY <1>2 DEF icStructure, OneOwner
  <2>3. requests' = [requests EXCEPT ![m] = Q]
    BY <1>4, SMTT(60) DEF Q, icStructure, icMshrs
  <2>4. dir' = [dir EXCEPT ![mshr[m].req.set][w] = e]
    BY <1>2, <1>4, ZenonT(60) DEF e, icTypes
  <2> QED
    BY <1>2, <1>4, <2>1, <2>2, <2>3, <2>4, KeptSame, Zenon DEF Changes
<1>12. icMshrs' /\ OneOwner'
  <2>1. /\ m \notin AbcMSHRs => r \in CReqs
        /\ Q \in [A : Seq(AReqs \cup XReqs), C : Seq(CReqs)]
        /\ Q.A \in Seq(QueueA(m)) /\ Q.C \in Seq(QueueC(m))
    BY <1>2, SMTT(60) DEF icStructure, icMshrs, Q
  <2> QED
    BY <1>9, <1>11, <2>1, ChangedMshrs, Zenon
<1>13. icPlans'
  <2>1. /\ r.ch = "C" => N.w = {}
        /\ "release" \in N.s => "releaseack" \in N.w
        /\ N.req.ch = "X" => "execute" \notin N.s
        /\ "rprobe" \in N.s => N.meta.tag \in Tags
    BY <1>2, <1>6, <1>8, <1>9, PlanFacts, SMTT(60)
  <2>2. outer'[m] = None
    BY <1>2, <1>4, SMTT(60) DEF icStructure, icPlans
  <2> QED
    BY <1>9, <1>11, <2>1, <2>2, ChangedPlans, ZenonT(60)
<1>14. icWays' /\ UniqueWay'
  <2>1. OthersDiffer(N, dir[r.set])
    BY <1>6, <1>7, <1>9, ZenonT(60) DEF OthersDiffer
  <2>2. SameLine(N, dir[r.set])
    BY <1>6, <1>9, ZenonT(60) DEF SameLine, e
  <2>3. dir \in [Sets -> [Ways -> Entries]]
    BY ZenonT(60) DEF icTypes
  <2>4. N.meta.clients # {} => N.meta.tag \in Tags
    BY <1>6, <1>8, <1>9, Zenon
  <2>5. dir'[r.set] = dir[r.set]
    BY <1>4, SMTT(60)
  <2>6. \A v \in Ways \ {w} : e.state # "INVALID" /\ dir[r.set][v].state # "INVALID" =>
          dir[r.set][v].tag # e.tag
    BY <1>7, Zenon
  <2>7. e.tag = dir[r.set][w].tag /\ e.state = dir[r.set][w].state
    BY SMTT(60) DEF e
  <2> QED
    BY <1>2, <1>5, <1>8, <1>9, <1>11, <2>1, <2>2, <2>3, <2>4, <2>5, <2>6, <2>7, ChangedWays, Zenon
<1> QED
  BY <1>1, <1>12, <1>13, <1>14, SMTT(60) DEF icStructure

-----------------------------------------------------------------------------
(* The scheduler *)

\* An MSHR that completes takes the next request of its queues, or none when they are empty.
LEMMA ReloadFacts ==
  ASSUME icStructure, NEW m \in MSHRs, mshr[m].valid
  PROVE  /\ \/ /\ Reload(m) = Idle
               /\ Pop(requests[m]).A = <<>> /\ Pop(requests[m]).C = <<>>
            \/ \E q \in AnyReqs :
                 /\ q.set = mshr[m].req.set
                 /\ m \notin AbcMSHRs => q \in CReqs
                 /\ \/ Reload(m) = Allocated(q)
                    \/ q.tag = mshr[m].req.tag /\ Reload(m) = WithPlan(q, FinalMeta(mshr[m]))
         /\ Pop(requests[m]) \in [A : Seq(AReqs \cup XReqs), C : Seq(CReqs)]
         /\ Pop(requests[m]).A \in Seq(QueueA(m)) /\ Pop(requests[m]).C \in Seq(QueueC(m))
<1> DEFINE Q == requests[m]
<1>1. /\ Q \in [A : Seq(AReqs \cup XReqs), C : Seq(CReqs)]
      /\ Q.A \in Seq(QueueA(m)) /\ Q.C \in Seq(QueueC(m))
  BY Zenon DEF icStructure, icMshrs
<1>2. Q.A \in Seq(AReqs \cup XReqs) /\ Q.C \in Seq(CReqs)
  BY <1>1, SMTT(60)
<1>3. CASE Q.C # <<>>
  <2> DEFINE q == Head(Q.C)
             t == Tail(Q.C)
  <2>1. q \in QueueC(m) /\ t \in Seq(QueueC(m)) /\ t \in Seq(CReqs)
    BY <1>1, <1>2, <1>3, Channel, SMTT(60)
  <2>2. q \in CReqs /\ q \in AnyReqs /\ q.set = mshr[m].req.set
    BY <2>1 DEF QueueC, AnyReqs
  <2>3. Reload(m) = IF q.tag = mshr[m].req.tag THEN WithPlan(q, FinalMeta(mshr[m]))
                    ELSE Allocated(q)
    BY <1>3 DEF Reload
  <2>4. Pop(Q) = [Q EXCEPT !.C = t]
    BY <1>3 DEF Pop
  <2> HIDE DEF q, t, Q
  <2>5. /\ Pop(Q) \in [A : Seq(AReqs \cup XReqs), C : Seq(CReqs)]
        /\ Pop(Q).A = Q.A /\ Pop(Q).C = t
    BY <1>1, <2>1, <2>4, SMTT(60)
  <2> QED
    BY <1>1, <2>1, <2>2, <2>3, <2>5, ZenonT(60) DEF Q
<1>4. CASE Q.C = <<>> /\ Q.A # <<>>
  <2> DEFINE q == Head(Q.A)
             t == Tail(Q.A)
  <2>1. q \in QueueA(m) /\ t \in Seq(QueueA(m)) /\ t \in Seq(AReqs \cup XReqs)
    BY <1>1, <1>2, <1>4, Channel
  <2>2. m \in AbcMSHRs /\ q \in AnyReqs /\ q.set = mshr[m].req.set
    BY <2>1 DEF QueueA, AnyReqs
  <2>3. Reload(m) = IF q.tag = mshr[m].req.tag THEN WithPlan(q, FinalMeta(mshr[m]))
                    ELSE Allocated(q)
    BY <1>4 DEF Reload
  <2>4. Pop(Q) = [Q EXCEPT !.A = t]
    BY <1>4 DEF Pop
  <2> HIDE DEF q, t, Q
  <2>5. /\ Pop(Q) \in [A : Seq(AReqs \cup XReqs), C : Seq(CReqs)]
        /\ Pop(Q).A = t /\ Pop(Q).C = Q.C
    BY <1>1, <2>1, <2>4, SMTT(60)
  <2> QED
    BY <1>1, <2>1, <2>2, <2>3, <2>5 DEF Q
<1>5. CASE Q.C = <<>> /\ Q.A = <<>>
  <2>1. Reload(m) = Idle /\ Pop(Q) = Q
    BY <1>5, SMTT(60) DEF Reload, Pop
  <2> QED
    BY <1>1, <1>5, <2>1
<1> QED
  BY <1>3, <1>4, <1>5, ZenonT(60)

\* The entry an MSHR writes.
LEMMA DirWriteFacts ==
  ASSUME NEW M \in WorkingMSHRs, M.meta.clients # {} => M.meta.tag \in Tags
  PROVE  LET E == DirWrite(M) IN
         /\ E \in Entries
         /\ E.clients # {} => E.tag \in Tags
         /\ E.state # "INVALID" => \/ E.tag = M.req.tag
                                   \/ E.tag = M.meta.tag /\ M.meta.state # "INVALID"
         /\ "release" \notin M.s => E = EntryOf(FinalMeta(M))
<1> DEFINE F == FinalMeta(M)
<1>1. /\ F \in Metas
      /\ F.state # "INVALID" => F.tag = M.req.tag \/ (F.tag = M.meta.tag /\ M.meta.state # "INVALID")
      /\ F.clients # {} => F.tag \in Tags
  BY FinalMetaFacts
<1>2. Invalid \in Entries /\ Invalid.clients = {} /\ Invalid.state = "INVALID"
  BY DEF Invalid, Entries
<1> HIDE DEF F
<1>3. /\ EntryOf(F) \in Entries /\ EntryOf(F).state = F.state /\ EntryOf(F).tag = F.tag
      /\ EntryOf(F).clients = F.clients
  BY <1>1 DEF EntryOf, Entries, Metas
<1>4. DirWrite(M) = IF "release" \in M.s THEN Invalid ELSE EntryOf(F)
  BY DEF DirWrite, F
<1> QED
  BY <1>1, <1>2, <1>3, <1>4 DEF F

\* A nested Release changes of another MSHR only whether its line is dirty.
LEMMA DirtiedKept ==
  ASSUME NEW M \in WorkingMSHRs
  PROVE  LET N == NestedSetDirty(M) IN N \in WorkingMSHRs /\ Kept(M, N) /\ N.w = M.w
<1> DEFINE e == [M.meta EXCEPT !.dirty = TRUE]
<1>1. e \in Metas /\ e.tag = M.meta.tag /\ e.way = M.meta.way /\ e.state = M.meta.state
      /\ e.clients = M.meta.clients
  BY WorkingFields, Zenon DEF Metas
<1>2. NestedSetDirty(M) = M \/ NestedSetDirty(M) = [M EXCEPT !.meta = e]
  BY DEF NestedSetDirty, WorkingMSHRs
<1> HIDE DEF e
<1> DEFINE N == [M EXCEPT !.meta = e]
<1>3. /\ N \in WorkingMSHRs /\ N.valid = M.valid /\ N.metaValid = M.metaValid /\ N.req = M.req
      /\ N.s = M.s /\ N.w = M.w /\ N.meta = e
  BY <1>1, Zenon DEF WorkingMSHRs
<1> HIDE DEF N
<1>4. Kept(M, N)
  BY <1>1, <1>3 DEF Kept
<1> QED
  BY <1>2, <1>3, <1>4, KeptSame, Zenon DEF N

\* The state of MSHR m after it was scheduled.
Scheduled(m) ==
  IF NoWait(mshr[m]) THEN Reload(m) ELSE [mshr[m] EXCEPT !.s = AfterSchedule(mshr[m])]

\* The entry of its way then.
Written(m) ==
  IF dirValid(mshr[m]) THEN DirWrite(mshr[m]) ELSE dir[mshr[m].req.set][mshr[m].meta.way]

\* Its queues then.
Left(m) == IF NoWait(mshr[m]) THEN Pop(requests[m]) ELSE requests[m]

\* What the invariant says of an MSHR that works.
LEMMA ActiveFacts ==
  ASSUME icTypes, icStructure, NEW m \in MSHRs, Active(m)
  PROVE  /\ mshr[m] \in WorkingMSHRs /\ mshr[m].valid /\ mshr[m].metaValid
         /\ mshr[m].req \in AnyReqs /\ mshr[m].req.set \in Sets /\ mshr[m].req.tag \in Tags
         /\ mshr[m].meta.way \in Ways /\ mshr[m].meta \in Metas
         /\ mshr[m].meta.clients # {} => mshr[m].meta.tag \in Tags
         /\ m \notin AbcMSHRs => mshr[m].req \in CReqs
         /\ OthersDiffer(mshr[m], dir[mshr[m].req.set])
         /\ m = c_mshr => SameLine(mshr[m], dir[mshr[m].req.set])
         /\ mshr[m].req.ch = "C" => mshr[m].w = {}
         /\ "release" \in mshr[m].s => "releaseack" \in mshr[m].w /\ ~NoWait(mshr[m])
         /\ mshr[m].req.ch = "X" => "execute" \notin mshr[m].s
         /\ "rprobe" \in mshr[m].s => mshr[m].meta.tag \in Tags
         /\ outer[m] # None => /\ "release" \notin mshr[m].s /\ "releaseack" \in mshr[m].w
                               /\ ~NoWait(mshr[m])
<1>1. mshr[m] \in WorkingMSHRs
  BY OneMshr, SMTT(60)
<1>2. /\ mshr[m].valid /\ mshr[m].metaValid /\ mshr[m].req \in AnyReqs
      /\ mshr[m].req.set \in Sets /\ mshr[m].req.tag \in Tags
      /\ mshr[m].meta.way \in Ways /\ mshr[m].meta \in Metas
  BY <1>1, WorkingFields, RequestFields, Zenon
<1>3. /\ mshr[m].meta.clients # {} => mshr[m].meta.tag \in Tags
      /\ OthersDiffer(mshr[m], dir[mshr[m].req.set])
      /\ m = c_mshr => SameLine(mshr[m], dir[mshr[m].req.set])
  BY DEF icStructure, icWays
<1>4. /\ mshr[m].req.ch = "C" => mshr[m].w = {}
      /\ "release" \in mshr[m].s => "releaseack" \in mshr[m].w
      /\ mshr[m].req.ch = "X" => "execute" \notin mshr[m].s
      /\ "rprobe" \in mshr[m].s => mshr[m].meta.tag \in Tags
      /\ outer[m] # None => "release" \notin mshr[m].s /\ "releaseack" \in mshr[m].w
  BY DEF icStructure, icPlans
<1>5. "releaseack" \in mshr[m].w => ~NoWait(mshr[m])
  BY DEF NoWait, AllWaits
<1>6. m \notin AbcMSHRs => mshr[m].req \in CReqs
  BY <1>2, SMTT(60) DEF icStructure, icMshrs
<1> QED
  BY <1>1, <1>2, <1>3, <1>4, <1>5, <1>6, Zenon

\* The entry written.
LEMMA WrittenFacts ==
  ASSUME icTypes, icStructure, NEW m \in MSHRs, Active(m)
  PROVE  LET D == dir[mshr[m].req.set]
             w == mshr[m].meta.way
             E == Written(m)
         IN /\ E \in Entries
            /\ E.clients # {} => E.tag \in Tags
            /\ E.state # "INVALID" =>
                 \A v \in Ways \ {w} : D[v].state # "INVALID" => D[v].tag # E.tag
            /\ m = c_mshr => E.tag = D[w].tag /\ (E.state = "INVALID" <=> D[w].state = "INVALID")
<1> DEFINE M == mshr[m]
           D == dir[M.req.set]
           w == M.meta.way
           E == Written(m)
<1>1. /\ M \in WorkingMSHRs /\ M.req.set \in Sets /\ w \in Ways /\ OthersDiffer(M, D)
      /\ M.meta.clients # {} => M.meta.tag \in Tags
  BY ActiveFacts, ZenonT(60)
<1>2. CASE ~dirValid(M)
  <2>1. E = D[w]
    BY <1>2, SMTT(60) DEF Written
  <2>2. D[w] \in Entries
    BY <1>1, ZenonT(60) DEF icTypes
  <2>3. D[w].clients # {} => D[w].tag \in Tags
    BY <1>1, ZenonT(60) DEF icStructure, icWays
  <2>4. D[w].state # "INVALID" =>
          \A v \in Ways \ {w} : D[v].state # "INVALID" => D[v].tag # D[w].tag
    BY <1>1, ZenonT(60) DEF icStructure, UniqueWay
  <2> QED
    BY <2>1, <2>2, <2>3, <2>4, Zenon
<1>3. CASE dirValid(M)
  <2>1. E = DirWrite(M)
    BY <1>3, SMTT(60) DEF Written
  <2>2. /\ E \in Entries /\ (E.clients # {} => E.tag \in Tags)
        /\ E.state # "INVALID" => E.tag = M.req.tag \/ (E.tag = M.meta.tag /\ M.meta.state # "INVALID")
        /\ "release" \notin M.s => E = EntryOf(FinalMeta(M))
    BY <1>1, <2>1, DirWriteFacts, SMTT(60)
  <2>3. E.state # "INVALID" =>
          \A v \in Ways \ {w} : D[v].state # "INVALID" => D[v].tag # E.tag
    BY <1>1, <2>2, SMTT(60) DEF OthersDiffer
  <2>4. ASSUME m = c_mshr
        PROVE  E.tag = D[w].tag /\ (E.state = "INVALID" <=> D[w].state = "INVALID")
    <3>1. M.req.ch = "C"
      BY <2>4, ActiveFacts, Numbers, RequestKinds, SMTT(60)
    <3>2. "release" \notin M.s
      BY <3>1, ActiveFacts, SMTT(60)
    <3>3. E.tag = FinalMeta(M).tag /\ E.state = FinalMeta(M).state
      BY <2>2, <3>2, SMTT(60) DEF EntryOf
    <3>4. /\ FinalMeta(M).tag = M.meta.tag
          /\ FinalMeta(M).state = "INVALID" <=> M.meta.state = "INVALID"
      BY <1>1, <3>1, FinalMetaFacts, ZenonT(60)
    <3>5. SameLine(M, D)
      BY <2>4, ActiveFacts, ZenonT(60)
    <3> QED
      BY <3>3, <3>4, <3>5, Zenon DEF SameLine
  <2> QED
    BY <2>2, <2>3, <2>4, Zenon
<1> QED
  BY <1>2, <1>3, ZenonT(60)

\* The four forms of the state of an MSHR after it was scheduled.
LEMMA ScheduledCases ==
  ASSUME icTypes, icStructure, NEW m \in MSHRs, Active(m)
  PROVE  LET M == mshr[m]
             N == Scheduled(m)
         IN \/ /\ ~NoWait(M) /\ N \in WorkingMSHRs /\ N.req = M.req /\ N.meta = M.meta
               /\ N.w = M.w /\ N.s \subseteq M.s /\ (cValid(M) => "release" \notin N.s)
            \/ NoWait(M) /\ N = Idle /\ Left(m).A = <<>> /\ Left(m).C = <<>>
            \/ \E q \in AnyReqs :
                 /\ NoWait(M) /\ q.set = M.req.set /\ (m \notin AbcMSHRs => q \in CReqs)
                 /\ \/ N = Allocated(q)
                    \/ q.tag = M.req.tag /\ N = WithPlan(q, FinalMeta(M))
<1>1. CASE NoWait(mshr[m])
  BY <1>1, ReloadFacts, SMTT(60) DEF Scheduled, Left, Active
<1>2. CASE ~NoWait(mshr[m])
  <2> DEFINE M == mshr[m]
             A == AfterSchedule(M)
  <2>1. M \in WorkingMSHRs
    BY OneMshr, SMTT(60)
  <2>2. A \subseteq M.s /\ (cValid(M) => "release" \notin A)
    BY DEF AfterSchedule
  <2>3. Scheduled(m) = [M EXCEPT !.s = A]
    BY <1>2 DEF Scheduled
  <2> HIDE DEF A, M
  <2>4. /\ Scheduled(m) \in WorkingMSHRs /\ Scheduled(m).req = M.req /\ Scheduled(m).meta = M.meta
        /\ Scheduled(m).w = M.w /\ Scheduled(m).s = A
    BY <2>1, <2>2, <2>3, ZenonT(60) DEF WorkingMSHRs
  <2> QED
    BY <1>2, <2>2, <2>4 DEF M
<1> QED
  BY <1>1, <1>2, Zenon

\* The state of a scheduled MSHR satisfies what the invariant asks of one.
LEMMA ScheduledFacts ==
  ASSUME icTypes, icStructure, NEW m \in MSHRs, Active(m), NEW D,
         D = [dir[mshr[m].req.set] EXCEPT ![mshr[m].meta.way] = Written(m)]
  PROVE  LET N == Scheduled(m) IN
         /\ N \in MshrStates
         /\ N.valid => /\ N.req.set = mshr[m].req.set
                       /\ m \notin AbcMSHRs => N.req \in CReqs
         /\ ~N.valid => Left(m).A = <<>> /\ Left(m).C = <<>>
         /\ N.valid /\ N.metaValid => /\ N.req.ch = "C" => N.w = {}
                                      /\ "release" \in N.s => "releaseack" \in N.w
                                      /\ N.req.ch = "X" => "execute" \notin N.s
                                      /\ "rprobe" \in N.s => N.meta.tag \in Tags
                                      /\ OthersDiffer(N, D)
                                      /\ m = c_mshr => SameLine(N, D)
                                      /\ N.meta.clients # {} => N.meta.tag \in Tags
<1> DEFINE M == mshr[m]
           N == Scheduled(m)
           s == M.req.set
           w == M.meta.way
           E == Written(m)
<1>1. /\ M \in WorkingMSHRs /\ s \in Sets /\ w \in Ways /\ M.meta \in Metas
      /\ M.req \in AnyReqs /\ OthersDiffer(M, dir[s])
      /\ m = c_mshr => SameLine(M, dir[s])
      /\ M.meta.clients # {} => M.meta.tag \in Tags
      /\ m \notin AbcMSHRs => M.req \in CReqs
      /\ M.req.ch = "C" => M.w = {}
      /\ "release" \in M.s => "releaseack" \in M.w
      /\ M.req.ch = "X" => "execute" \notin M.s
      /\ "rprobe" \in M.s => M.meta.tag \in Tags
  BY ActiveFacts, Zenon
<1>2. D[w] = E /\ \A v \in Ways \ {w} : D[v] = dir[s][v]
  BY <1>1, ZenonT(60) DEF icTypes
<1>3. m = c_mshr => /\ E.tag = dir[s][w].tag
                    /\ E.state = "INVALID" <=> dir[s][w].state = "INVALID"
  BY WrittenFacts, ZenonT(60)
<1> HIDE DEF M, N, s, w, E
<1>4. ASSUME ~NoWait(M), N \in WorkingMSHRs, N.req = M.req, N.meta = M.meta, N.w = M.w,
             N.s \subseteq M.s
      PROVE  /\ N \in MshrStates /\ N.valid /\ N.req.set = s /\ (m \notin AbcMSHRs => N.req \in CReqs)
             /\ N.req.ch = "C" => N.w = {}
             /\ "release" \in N.s => "releaseack" \in N.w
             /\ N.req.ch = "X" => "execute" \notin N.s
             /\ "rprobe" \in N.s => N.meta.tag \in Tags
             /\ OthersDiffer(N, D)
             /\ m = c_mshr => SameLine(N, D)
             /\ N.meta.clients # {} => N.meta.tag \in Tags
  <2>1. N \in MshrStates /\ N.valid
    BY <1>4, WorkingFields, SMTT(60) DEF MshrStates
  <2>2. OthersDiffer(N, D)
    BY <1>1, <1>2, <1>4, ZenonT(60) DEF OthersDiffer, s, w
  <2>3. m = c_mshr => SameLine(N, D)
    BY <1>1, <1>2, <1>3, <1>4, ZenonT(60) DEF SameLine, s, w
  <2> QED
    BY <1>1, <1>4, <2>1, <2>2, <2>3, Zenon DEF s
<1>5. ASSUME N = Idle, Left(m).A = <<>>, Left(m).C = <<>>
      PROVE  N \in MshrStates /\ ~N.valid
  BY <1>5, ZenonT(60) DEF MshrStates, Idle
<1>6. ASSUME NEW q \in AnyReqs, N = Allocated(q)
      PROVE  N \in MshrStates /\ N.valid /\ ~N.metaValid /\ N.req = q
  BY <1>6, AllocatedWaits, ZenonT(60) DEF MshrStates
<1>7. ASSUME NEW q \in AnyReqs, q.set = s, q.tag = M.req.tag, N = WithPlan(q, FinalMeta(M))
      PROVE  /\ N \in MshrStates /\ N.valid /\ N.req = q
             /\ N.req.ch = "C" => N.w = {}
             /\ "release" \in N.s => "releaseack" \in N.w
             /\ N.req.ch = "X" => "execute" \notin N.s
             /\ "rprobe" \in N.s => N.meta.tag \in Tags
             /\ OthersDiffer(N, D)
             /\ m = c_mshr => SameLine(N, D)
             /\ N.meta.clients # {} => N.meta.tag \in Tags
  <2> DEFINE F == FinalMeta(M)
  <2>1. /\ F \in Metas /\ F.way = w
        /\ F.state # "INVALID" => F.tag = M.req.tag \/ (F.tag = M.meta.tag /\ M.meta.state # "INVALID")
        /\ M.req.ch = "C" => /\ F.tag = M.meta.tag
                             /\ F.state = "INVALID" <=> M.meta.state = "INVALID"
        /\ F.clients # {} => F.tag \in Tags
    BY <1>1, FinalMetaFacts, ZenonT(60) DEF w
  <2> HIDE DEF F
  <2>2. /\ N \in WorkingMSHRs /\ N.valid /\ N.req = q /\ N.meta = F
        /\ N.s = Plan(q, F).s /\ N.w = Plan(q, F).w
    BY <1>7, <2>1, PlannedWorks, ZenonT(60) DEF F
  <2>3. /\ N.req.ch = "C" => N.w = {}
        /\ "release" \in N.s => "releaseack" \in N.w
        /\ N.req.ch = "X" => "execute" \notin N.s
        /\ "rprobe" \in N.s => N.meta.tag \in Tags
    BY <1>7, <2>1, <2>2, PlanFacts, ZenonT(60)
  <2>4. OthersDiffer(N, D)
    <3>1. OthersDiffer(M, dir[s]) /\ \A v \in Ways \ {M.meta.way} : D[v] = dir[s][v]
      BY <1>1, <1>2, Zenon DEF w
    <3>2. N.req.tag = M.req.tag /\ N.meta.way = M.meta.way
      BY <1>7, <2>1, <2>2, Zenon DEF w
    <3>3. N.meta.state # "INVALID" =>
            N.meta.tag = M.req.tag \/ (N.meta.tag = M.meta.tag /\ M.meta.state # "INVALID")
      BY <2>1, <2>2, Zenon
    <3>4. ASSUME NEW v \in Ways \ {N.meta.way}, D[v].state # "INVALID"
          PROVE  D[v].tag # N.req.tag /\ (N.meta.state # "INVALID" => D[v].tag # N.meta.tag)
      <4>1. D[v].tag # M.req.tag /\ (M.meta.state # "INVALID" => D[v].tag # M.meta.tag)
        BY <3>1, <3>2, <3>4, Zenon DEF OthersDiffer
      <4> QED
        BY <3>2, <3>3, <4>1, Zenon
    <3> QED
      BY <3>4, Zenon DEF OthersDiffer
  <2>5. ASSUME m = c_mshr PROVE SameLine(N, D)
    <3>1. M.req.ch = "C"
      BY <1>1, <2>5, Numbers, RequestKinds, ZenonT(60)
    <3> QED
      BY <1>1, <1>2, <1>3, <2>1, <2>2, <2>5, <3>1, Zenon DEF SameLine, w
  <2> QED
    BY <2>1, <2>2, <2>3, <2>4, <2>5, ZenonT(60) DEF MshrStates
<1>8. \/ /\ ~NoWait(M) /\ N \in WorkingMSHRs /\ N.req = M.req /\ N.meta = M.meta
         /\ N.w = M.w /\ N.s \subseteq M.s
      \/ N = Idle /\ Left(m).A = <<>> /\ Left(m).C = <<>>
      \/ \E q \in AnyReqs :
           /\ q.set = s /\ (m \notin AbcMSHRs => q \in CReqs)
           /\ \/ N = Allocated(q)
              \/ q.tag = M.req.tag /\ N = WithPlan(q, FinalMeta(M))
  BY ScheduledCases, ZenonT(60) DEF M, N, s
<1>9. CASE \E q \in AnyReqs :
             /\ q.set = s /\ (m \notin AbcMSHRs => q \in CReqs)
             /\ \/ N = Allocated(q)
                \/ q.tag = M.req.tag /\ N = WithPlan(q, FinalMeta(M))
  <2>1. PICK q \in AnyReqs :
             /\ q.set = s /\ (m \notin AbcMSHRs => q \in CReqs)
             /\ \/ N = Allocated(q)
                \/ q.tag = M.req.tag /\ N = WithPlan(q, FinalMeta(M))
    BY <1>9, Zenon
  <2>2. CASE N = Allocated(q)
    BY <1>6, <2>1, <2>2, Zenon DEF N, M, s
  <2>3. CASE q.tag = M.req.tag /\ N = WithPlan(q, FinalMeta(M))
    BY <1>7, <2>1, <2>3, Zenon DEF N, M, s
  <2> QED
    BY <2>1, <2>2, <2>3, ZenonT(60)
<1> QED
  BY <1>4, <1>5, <1>8, <1>9, Zenon DEF N, M, s

\* MSHR m is scheduled.
LEMMA ScheduleKeeps ==
  ASSUME icTypes, icStructure, NEW m \in MSHRs, Schedule(m)
  PROVE  icStructure'
<1> DEFINE M == mshr[m]
           N == Scheduled(m)
           s == M.req.set
           w == M.meta.way
           E == Written(m)
           Q == Left(m)
           dirtied(n) == /\ m = c_mshr /\ n # m
                         /\ dirValid(M) /\ DirWrite(M).dirty
                         /\ Active(n) /\ mshr[n].req.set = s /\ mshr[n].meta.tag = M.req.tag
<1>1. /\ Active(m) /\ ~Stalled(m)
      /\ outer' = IF ~cValid(M) THEN outer
                  ELSE [outer EXCEPT ![m] = [line |-> [set |-> s, tag |-> M.meta.tag],
                                             dirty |-> M.meta.dirty,
                                             val |-> IF M.meta.dirty THEN bs[s][w] ELSE 0]]
      /\ dir' = IF dirValid(M) THEN [dir EXCEPT ![s][w] = DirWrite(M)] ELSE dir
      /\ mshr' = [n \in MSHRs |-> IF n = m THEN N
                                  ELSE IF dirtied(n) THEN NestedSetDirty(mshr[n]) ELSE mshr[n]]
      /\ requests' = IF NoWait(M) THEN [requests EXCEPT ![m] = Pop(requests[m])] ELSE requests
  BY SMTT(60) DEF Schedule, Scheduled
<1>2. /\ M \in WorkingMSHRs /\ M.valid /\ s \in Sets /\ w \in Ways
      /\ "release" \in M.s => "releaseack" \in M.w /\ ~NoWait(M)
      /\ M.req.ch = "X" => "execute" \notin M.s
      /\ outer[m] # None => "release" \notin M.s /\ "releaseack" \in M.w /\ ~NoWait(M)
  BY <1>1, ActiveFacts, ZenonT(60)
<1>3. dir' = [dir EXCEPT ![s][w] = E]
  BY <1>1, <1>2, ZenonT(60) DEF Written, icTypes
<1>4. requests' = [requests EXCEPT ![m] = Q]
  BY <1>1, ZenonT(60) DEF Left, icStructure, icMshrs
<1>5. \A n \in MSHRs : m < n /\ mshr[n].valid => mshr[n].req.set # s
  BY <1>1, <1>2 DEF icStructure, OneOwner, Stalled
<1> DEFINE D == [dir[s] EXCEPT ![w] = E]
<1>6. dir'[s] = D
  BY <1>2, <1>3, Zenon DEF icTypes
<1>7. /\ N \in MshrStates
      /\ N.valid => N.req.set = s /\ (m \notin AbcMSHRs => N.req \in CReqs)
      /\ ~N.valid => Q.A = <<>> /\ Q.C = <<>>
      /\ N.valid /\ N.metaValid => /\ N.req.ch = "C" => N.w = {}
                                   /\ "release" \in N.s => "releaseack" \in N.w
                                   /\ N.req.ch = "X" => "execute" \notin N.s
                                   /\ "rprobe" \in N.s => N.meta.tag \in Tags
                                   /\ OthersDiffer(N, dir'[s])
                                   /\ m = c_mshr => SameLine(N, dir'[s])
                                   /\ N.meta.clients # {} => N.meta.tag \in Tags
  BY <1>1, <1>6, ScheduledFacts, Zenon
<1>8. \A n \in MSHRs \ {m} : outer'[n] = outer[n]
  BY <1>1, ZenonT(60) DEF icTypes
<1> HIDE DEF N, Q, E, D
<1>9. \A n \in MSHRs \ {m} : /\ mshr'[n] \in MshrStates /\ Kept(mshr[n], mshr'[n])
                             /\ Active(n) => mshr'[n].w = mshr[n].w
  <2> SUFFICES ASSUME NEW n \in MSHRs \ {m}
               PROVE  /\ mshr'[n] \in MshrStates /\ Kept(mshr[n], mshr'[n])
                      /\ Active(n) => mshr'[n].w = mshr[n].w
    OBVIOUS
  <2>1. CASE dirtied(n)
    <3>1. mshr[n] \in WorkingMSHRs /\ mshr'[n] = NestedSetDirty(mshr[n])
      BY <1>1, <2>1, OneMshr, SMTT(60)
    <3> QED
      BY <3>1, DirtiedKept, SMTT(60) DEF MshrStates
  <2>2. CASE ~dirtied(n)
    <3>1. mshr'[n] = mshr[n]
      BY <1>1, <2>2, SMTT(60)
    <3> QED
      BY <3>1, OneMshr, KeptSame, SMTT(60)
  <2> QED
    BY <2>1, <2>2, Zenon
<1>10. mshr' \in [MSHRs -> MshrStates] /\ mshr'[m] = N
  BY <1>1, <1>7, <1>9, Zenon
<1>11. Changes(m, N, Q, w, E)
  BY <1>2, <1>3, <1>4, <1>5, <1>8, <1>9, <1>10, SMTT(60) DEF Changes
<1>12. icMshrs' /\ OneOwner'
  <2>1. /\ Q \in [A : Seq(AReqs \cup XReqs), C : Seq(CReqs)]
        /\ Q.A \in Seq(QueueA(m)) /\ Q.C \in Seq(QueueC(m))
    <3>1. CASE NoWait(M)
      BY <1>2, <3>1, ReloadFacts, SMTT(60) DEF Q, Left
    <3>2. CASE ~NoWait(M)
      BY <3>2, ZenonT(60) DEF Q, Left, icStructure, icMshrs
    <3> QED
      BY <3>1, <3>2, SMTT(60)
  <2> QED
    BY <1>7, <1>11, <2>1, ChangedMshrs, Zenon
<1>13. icPlans'
  <2>1. ASSUME outer'[m] # None
        PROVE  N.valid /\ N.metaValid /\ "release" \notin N.s /\ "releaseack" \in N.w
    <3>1. ~NoWait(M) /\ "releaseack" \in M.w /\ (cValid(M) \/ "release" \notin M.s)
      BY <1>1, <1>2, <2>1, ZenonT(60) DEF cValid
    <3>2. /\ N \in WorkingMSHRs /\ N.w = M.w /\ N.s \subseteq M.s
          /\ cValid(M) => "release" \notin N.s
      BY <1>1, <3>1, ScheduledCases, SMTT(60) DEF N
    <3> QED
      BY <3>1, <3>2, WorkingFields, SMTT(60)
  <2> QED
    BY <1>7, <1>11, <2>1, ChangedPlans, ZenonT(60)
<1>14. icWays' /\ UniqueWay'
  <2>1. /\ E \in Entries
        /\ E.clients # {} => E.tag \in Tags
        /\ E.state # "INVALID" =>
             \A v \in Ways \ {w} : dir[s][v].state # "INVALID" => dir[s][v].tag # E.tag
        /\ m = c_mshr => /\ E.tag = dir[s][w].tag
                         /\ E.state = "INVALID" <=> dir[s][w].state = "INVALID"
    BY <1>1, WrittenFacts, Zenon DEF E
  <2>2. dir \in [Sets -> [Ways -> Entries]]
    BY ZenonT(60) DEF icTypes
  <2> QED
    BY <1>2, <1>7, <1>11, <2>1, <2>2, ChangedWays, Zenon
<1> QED
  BY <1>12, <1>13, <1>14 DEF icStructure

\* What SourceD does for a request.
LEMMA ExecuteTypes ==
  ASSUME icTypes, icStructure, NEW m \in MSHRs, Active(m), dValid(mshr[m]), Execute(m)
  PROVE  /\ chanD' \in [Clients -> Seq(Grants \cup ReleaseAcks)]
         /\ bs' \in [Sets -> [Ways -> Values]] /\ ver' \in [Lines -> Values]
<1> DEFINE M == mshr[m]
           r == M.req
           a == [set |-> r.set, tag |-> r.tag]
           w == M.meta.way
<1>1. r \in AnyReqs /\ w \in Ways /\ r.set \in Sets /\ a \in Lines /\ r.val \in Values
  <2>1. r \in AnyReqs /\ w \in Ways
    BY ActiveFacts
  <2>2. r \in AnyReqs \cup Acks
    BY <2>1
  <2> HIDE DEF r
  <2>3. r.set \in Sets /\ r.val \in Values /\ [set |-> r.set, tag |-> r.tag] \in Lines
    BY <2>2, RequestFields, Zenon
  <2> QED
    BY <2>1, <2>3, ZenonT(60)
<1>2. /\ chanD \in [Clients -> Seq(Grants \cup ReleaseAcks)] /\ bs \in [Sets -> [Ways -> Values]]
      /\ ver \in [Lines -> Values] /\ bs[r.set][w] \in Values /\ 0 \in Values
  <2>1. /\ chanD \in [Clients -> Seq(Grants \cup ReleaseAcks)]
        /\ bs \in [Sets -> [Ways -> Values]] /\ ver \in [Lines -> Values]
    BY Zenon DEF icTypes
  <2>2. 0 \in Values
    BY ParamAssumption
  <2> HIDE DEF r, w
  <2>3. bs[r.set][w] \in Values
    BY <1>1, <2>1, Zenon
  <2> QED
    BY <2>1, <2>2, <2>3
<1> HIDE DEF a, w
<1>3. CASE r.op = "Acquire"
  <2> DEFINE msg == [op |-> "Grant", line |-> a, param |-> GrantParam(M), sink |-> m,
                     val |-> IF GrantParam(M) = "BtoT" THEN 0 ELSE bs[r.set][w]]
  <2>1. r.client \in Clients /\ r.param \in {"NtoB", "NtoT", "BtoT"}
    BY <1>1, <1>3, RequestKinds DEF AnyReqs
  <2>2. GrantParam(M) \in {"NtoB", "NtoT", "BtoT"}
    BY <2>1, SMTT(60) DEF GrantParam
  <2>3. msg \in Grants
    BY <1>1, <1>2, <2>2, ZenonT(60) DEF Grants
  <2>4. chanD' = [chanD EXCEPT ![r.client] = Append(@, msg)] /\ bs' = bs /\ ver' = ver
    BY <1>3 DEF Execute, a, w
  <2> HIDE DEF msg
  <2>5. Append(chanD[r.client], msg) \in Seq(Grants \cup ReleaseAcks)
    BY <1>2, <2>1, <2>3, Channel
  <2> QED
    BY <1>2, <2>4, <2>5, Zenon
<1>4. CASE r.op = "Get"
  BY <1>2, <1>4, SMTT(60) DEF Execute
<1>5. CASE r.op = "Put"
  <2>1. /\ bs' = [bs EXCEPT ![r.set][w] = r.val] /\ ver' = [ver EXCEPT ![a] = r.val]
        /\ chanD' = chanD
    BY <1>5, SMTT(60) DEF Execute, a, w
  <2> QED
    BY <1>1, <1>2, <2>1, BankWrite, Zenon
<1>6. CASE r.op = "ReleaseData"
  <2> DEFINE msg == [op |-> "ReleaseAck", line |-> a]
  <2>1. r.client \in Clients
    BY <1>1, <1>6, RequestKinds DEF AnyReqs
  <2>2. msg \in ReleaseAcks
    BY <1>1, SMTT(60) DEF ReleaseAcks
  <2>3. /\ chanD' = [chanD EXCEPT ![r.client] = Append(@, msg)]
        /\ bs' = [bs EXCEPT ![r.set][w] = r.val] /\ ver' = ver
    BY <1>6 DEF Execute, a, w
  <2> HIDE DEF msg
  <2>4. Append(chanD[r.client], msg) \in Seq(Grants \cup ReleaseAcks)
    BY <1>2, <2>1, <2>2, Channel, SMTT(60)
  <2> QED
    BY <1>1, <1>2, <2>3, <2>4, BankWrite, Zenon
<1>7. r.op # "Flush"
  BY <1>1, ActiveFacts, RequestKinds, ZenonT(60) DEF dValid, AnyReqs
<1> QED
  BY <1>1, <1>3, <1>4, <1>5, <1>6, <1>7, RequestKinds, ZenonT(60) DEF AnyReqs

\* Scheduling keeps the types.
LEMMA ScheduleTypes ==
  ASSUME icTypes, icStructure, NEW m \in MSHRs, Schedule(m)
  PROVE  icTypes'
<1> DEFINE M == mshr[m]
           s == M.req.set
           w == M.meta.way
           E == Written(m)
           b == [remain |-> ProbeClients(M), param |-> ProbeParam(M),
                 line |-> [set |-> s, tag |-> ProbeTag(M)]]
           o == [line |-> [set |-> s, tag |-> M.meta.tag], dirty |-> M.meta.dirty,
                 val |-> IF M.meta.dirty THEN bs[s][w] ELSE 0]
<1>1. /\ Active(m)
      /\ sourceB' = IF ~bValid(M) THEN sourceB ELSE b
      /\ outer' = IF ~cValid(M) THEN outer ELSE [outer EXCEPT ![m] = o]
      /\ IF dValid(M) THEN Execute(m) ELSE chanD' = chanD /\ bs' = bs /\ ver' = ver
      /\ dir' = IF dirValid(M) THEN [dir EXCEPT ![s][w] = DirWrite(M)] ELSE dir
  BY SMTT(60) DEF Schedule
<1>2. /\ M \in WorkingMSHRs /\ s \in Sets /\ w \in Ways /\ M.meta \in Metas /\ M.req.tag \in Tags
      /\ "rprobe" \in M.s => M.meta.tag \in Tags
  BY <1>1, ActiveFacts, ZenonT(60)
<1>3. sourceB' \in [remain : SUBSET Clients, line : Lines, param : {"toN", "toB"}] \cup {None}
  <2>1. ProbeClients(M) \in SUBSET Clients
    BY <1>2, SMTT(60) DEF ProbeClients, Metas
  <2>2. ProbeParam(M) \in {"toN", "toB"} /\ ProbeTag(M) \in Tags
    BY <1>2, SMTT(60) DEF ProbeParam, ProbeTag
  <2>3. b \in [remain : SUBSET Clients, line : Lines, param : {"toN", "toB"}]
    BY <1>2, <2>1, <2>2, SMTT(60) DEF Lines
  <2> HIDE DEF b
  <2> QED
    BY <1>1, <2>3, ZenonT(60) DEF icTypes
<1>4. outer' \in [MSHRs -> [line : [set : Sets, tag : Tags \cup {"none"}], dirty : BOOLEAN,
                             val : Values] \cup {None}]
  <2>1. bs[s][w] \in Values /\ 0 \in Values
    BY <1>2, ParamAssumption, SMTT(60) DEF icTypes
  <2>2. M.meta.dirty \in BOOLEAN /\ M.meta.tag \in Tags \cup {"none"}
    BY <1>2, Zenon DEF Metas
  <2>3. o \in [line : [set : Sets, tag : Tags \cup {"none"}], dirty : BOOLEAN, val : Values]
    BY <1>2, <2>1, <2>2, ZenonT(60)
  <2> HIDE DEF o
  <2> QED
    BY <1>1, <2>3, ZenonT(60) DEF icTypes
<1>5. dir' \in [Sets -> [Ways -> Entries]]
  <2>1. E \in Entries
    BY <1>1, WrittenFacts, ZenonT(60)
  <2>2. dirValid(M) => E = DirWrite(M)
    BY Zenon DEF Written
  <2> HIDE DEF E
  <2> QED
    BY <1>1, <1>2, <2>1, <2>2, ZenonT(60) DEF icTypes
<1>6. /\ chanD' \in [Clients -> Seq(Grants \cup ReleaseAcks)]
      /\ bs' \in [Sets -> [Ways -> Values]] /\ ver' \in [Lines -> Values]
  <2>1. CASE dValid(M)
    BY <1>1, <2>1, ExecuteTypes, SMTT(60)
  <2>2. CASE ~dValid(M)
    BY <1>1, <2>2, ZenonT(60) DEF icTypes
  <2> QED
    BY <2>1, <2>2, SMTT(60)
<1>7. /\ l1' = l1 /\ probe' = probe /\ chanA' = chanA /\ sinkA' = sinkA /\ chanX' = chanX
      /\ chanC' = chanC /\ sinkC' = sinkC /\ chanE' = chanE /\ mem' = mem
  BY SMTT(60) DEF Schedule, reqvars
<1> QED
  BY <1>3, <1>4, <1>5, <1>6, <1>7, ZenonT(60) DEF icTypes

-----------------------------------------------------------------------------
(* The invariant *)

\* A step that changes neither MSHRs nor directory.
LEMMA StructureSame ==
  ASSUME icStructure, mshr' = mshr, requests' = requests, dir' = dir, outer' = outer
  PROVE  icStructure'
<1>1. \A m \in MSHRs : Kept(mshr[m], mshr'[m])
  BY KeptSame
<1>2. mshr' \in [MSHRs -> MshrStates]
  BY DEF icStructure, icMshrs, MshrStates
<1> QED
  BY <1>1, <1>2, AnswersKeep, Zenon

\* It holds at reset.
LEMMA InitHolds == Init => icInv
<1> SUFFICES ASSUME Init PROVE icInv
  OBVIOUS
<1>1. \A S : <<>> \in Seq(S)
  BY SMTT(60)
<1>2. NoCopy \in Copies /\ Invalid \in Entries /\ 0 \in Values
  BY ParamAssumption, SMTT(60) DEF NoCopy, Copies, Invalid, Entries
<1>3. icTypes
  BY <1>1, <1>2, Zenon DEF Init, icTypes
<1>4. \A m \in MSHRs : mshr[m] = Idle /\ ~mshr[m].valid /\ ~Active(m) /\ outer[m] = None
  BY DEF Init, Idle, Active
<1>5. icMshrs
  <2>1. mshr \in [MSHRs -> {Idle} \cup WaitingMSHRs \cup WorkingMSHRs]
    BY DEF Init
  <2>2. \A m \in MSHRs : requests[m].A = <<>> /\ requests[m].C = <<>>
    BY DEF Init
  <2>3. [A |-> <<>>, C |-> <<>>] \in [A : Seq(AReqs \cup XReqs), C : Seq(CReqs)]
    BY <1>1, SMTT(60)
  <2>4. requests \in [MSHRs -> [A : Seq(AReqs \cup XReqs), C : Seq(CReqs)]]
    BY <2>3, SMTT(60) DEF Init
  <2> QED
    BY <1>1, <1>4, <2>1, <2>2, <2>4 DEF icMshrs
<1>6. icPlans /\ OneOwner
  BY <1>4 DEF icPlans, OneOwner
<1>7. \A s \in Sets : \A w \in Ways : dir[s][w].state = "INVALID" /\ dir[s][w].clients = {}
  BY SMTT(60) DEF Init, Invalid
<1>8. icWays /\ UniqueWay
  BY <1>4, <1>7, Numbers DEF icWays, UniqueWay
<1> QED
  BY <1>3, <1>5, <1>6, <1>8 DEF icInv

\* Every step keeps it.
LEMMA NextKeeps == icInv /\ [Next]_vars => icInv'
<1> SUFFICES ASSUME icInv, [Next]_vars PROVE icInv'
  OBVIOUS
<1>1. icTypes /\ icStructure
  BY DEF icInv, icStructure
<1>2. SUFFICES icTypes' /\ icStructure'
  BY DEF icInv, icStructure
<1>3. ASSUME mshr' = mshr, requests' = requests, dir' = dir, outer' = outer
      PROVE  icStructure'
  BY <1>1, <1>3, StructureSame
<1>4. CASE Spontaneous
  <2>1. mshr' = mshr /\ requests' = requests /\ dir' = dir /\ outer' = outer
    BY <1>4, ZenonT(60) DEF Spontaneous, ClientAcquire, ClientStore, ClientDrop, ClientRelease,
                UncachedRequest, FlushRequest, l2vars, memvars
  <2>2. icTypes'
    BY <1>1, <1>4, ClientTypes, ArriveTypes DEF Spontaneous
  <2> QED
    BY <1>3, <2>1, <2>2, SMTT(60)
<1>5. ASSUME NEW c \in Clients,
             ClientProbed(c) \/ ClientProbeAck(c) \/ ClientD(c) \/ ArriveC(c)
      PROVE  icTypes' /\ icStructure'
  <2>1. mshr' = mshr /\ requests' = requests /\ dir' = dir /\ outer' = outer
    BY <1>5, Zenon DEF ClientProbed, ClientProbeAck, ClientD, ArriveC, l2vars, memvars
  <2>2. icTypes'
    BY <1>1, <1>5, ProbeTypes, AnswerTypes, ArriveTypes
  <2> QED
    BY <1>3, <2>1, <2>2
<1>6. ASSUME NEW q \in Requesters, ArriveA(q) PROVE icTypes' /\ icStructure'
  <2>1. mshr' = mshr /\ requests' = requests /\ dir' = dir /\ outer' = outer
    BY <1>6 DEF ArriveA, l2vars, memvars
  <2>2. icTypes'
    BY <1>1, <1>6, ArriveTypes
  <2> QED
    BY <1>3, <2>1, <2>2
<1>7. CASE AcceptA \/ AcceptX \/ AcceptC
  <2>1. icTypes'
    BY <1>1, <1>7, ArriveTypes, ZenonT(60)
  <2>2. dir' = dir /\ outer' = outer
    BY <1>7 DEF AcceptA, AcceptX, AcceptC, memvars
  <2>3. \E r \in AnyReqs : Accept(r)
    <3>1. CASE AcceptA
      BY <1>1, <3>1, ZenonT(60) DEF AcceptA, icTypes, AnyReqs
    <3>2. CASE AcceptX
      BY <1>1, <3>2, Zenon DEF AcceptX, icTypes, AnyReqs
    <3>3. CASE AcceptC
      <4>1. sinkC \in [msg : CReqs \cup Acks, first : BOOLEAN] /\ sinkC.msg.op = "ReleaseData"
        BY <1>1, <3>3, Zenon DEF AcceptC, ReleaseAtSinkC, icTypes
      <4>2. sinkC.msg \in CReqs
        BY <4>1, RequestKinds
      <4> QED
        BY <3>3, <4>2, SMTT(60) DEF AcceptC, AnyReqs
    <3> QED
      BY <1>7, <3>1, <3>2, <3>3, SMTT(60)
  <2> QED
    BY <1>1, <2>1, <2>2, <2>3, AcceptKeeps
<1>8. ASSUME NEW m \in MSHRs,
             DirectoryResult(m) \/ Schedule(m) \/ SinkDFirst(m) \/ SinkDLast(m) \/ OuterRelease(m)
      PROVE  icTypes' /\ icStructure'
  BY <1>1, <1>8, DirectoryKeeps, ScheduleTypes, ScheduleKeeps, SinkDKeeps, OuterReleaseKeeps, Zenon
<1>9. CASE SinkCResp
  BY <1>1, <1>9, SinkCKeeps
<1>10. ASSUME NEW m \in chanE, SinkE(m) PROVE icTypes' /\ icStructure'
  <2>1. m \in MSHRs
    BY <1>1, Zenon DEF icTypes
  <2> QED
    BY <1>1, <1>10, <2>1, SinkEKeeps, SMTT(60)
<1>11. CASE UNCHANGED vars
  <2>1. icTypes'
    BY <1>1, <1>11, Zenon DEF icTypes, vars, l1vars, l2vars, reqvars, memvars
  <2> QED
    BY <1>3, <1>11, <2>1, SMTT(60) DEF vars, l2vars, memvars
<1> QED
  BY <1>4, <1>5, <1>6, <1>7, <1>8, <1>9, <1>10, <1>11, Zenon DEF Next, Progress

\* What the invariant says of the BC MSHR.
LEMMA BcAloneHolds == icInv => BcAlone
<1> SUFFICES ASSUME icInv, mshr[bc_mshr].valid, NEW m \in MSHRs \ {bc_mshr}, mshr[m].valid,
                    mshr[m].req.set = mshr[bc_mshr].req.set
             PROVE  FALSE
  BY DEF BcAlone
<1>1. bc_mshr \in MSHRs \ AbcMSHRs /\ bc_mshr # c_mshr
  BY Numbers, SMTT(60)
<1>2. mshr[bc_mshr].req.ch = "C"
  BY <1>1, RequestKinds DEF icInv, icMshrs
<1>3. m < bc_mshr \/ bc_mshr < m
  BY <1>1, Numbers
<1> QED
  BY <1>1, <1>2, <1>3 DEF icInv, OneOwner

\* The MSHRs own their sets and ways as the controller assumes: in all reachable states of
\* the L2 the inductive invariant holds.
THEOREM OwnersCorrect == Spec => []icInv
<1>1. Init => icInv
  BY InitHolds
<1>2. icInv /\ [Next]_vars => icInv'
  BY NextKeeps
<1> QED
  BY <1>1, <1>2, PTL DEF Spec

\* For any number of clients, sets, ways, tags and MSHRs, and whatever requests, evictions,
\* flushes and nested Releases meet in a set, a line is in at most one way of the directory:
\* a lookup never finds two (hits of Directory.scala is one-hot).
THEOREM WaysUnique == Spec => []UniqueWay
<1>1. icInv => UniqueWay
  BY DEF icInv
<1> QED
  BY <1>1, OwnersCorrect, PTL

\* A Release in the BC MSHR is alone in its set, for any number of MSHRs.
THEOREM BcAlwaysAlone == Spec => []BcAlone
<1>1. icInv => BcAlone
  BY BcAloneHolds
<1> QED
  BY <1>1, OwnersCorrect, PTL
=============================================================================
