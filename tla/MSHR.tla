-------------------------------- MODULE MSHR --------------------------------
(***************************************************************************)
(* The transaction state machine of the L2 (cache/MSHR.scala), as          *)
(* operators on the state of one MSHR (miss status holding register).  The *)
(* module InclusiveCache holds the MSHRs and drives them.                  *)
(*                                                                         *)
(* The s_* flags (steps still to be scheduled) are the set s, the w_*      *)
(* flags (responses still awaited) the set w: a name is in the set while   *)
(* the flag of the code is false.  The L2 is the last level (lastLevel)    *)
(* and not the first, so outer probes, s_probeack and nestB do not occur;  *)
(* outer grants are never denied (bad_grant).                              *)
(***************************************************************************)
EXTENDS Integers, FiniteSets

CONSTANTS
  Clients,   \* the caching clients: the L1 data caches
  Tags,
  Ways

\* A request: ch is the channel it came by ("A", "C", or "X" for a flush), op
\* "Acquire", "Get", "Put" (every opcode with opcode(2) = 0), "Release",
\* "ReleaseData" or "Flush".  client is a caching client or "none"; offset0: the
\* request starts at the first beat of the line.

needT(r) == r.op = "Put" \/ (r.op = "Acquire" /\ r.param # "NtoB")

\* Does the request prove that its client need not be probed?
skipProbe(r) == IF r.op \in {"Acquire", "Get"} THEN {r.client} \cap Clients ELSE {}

isToN(param) == param \in {"TtoN", "BtoN", "NtoN"}

\* The entry of an empty way; the tag the code gives it, 0, is never looked at.
Invalid == [state |-> "INVALID", dirty |-> FALSE, clients |-> {}, tag |-> "none"]

\* The directory entry held by a meta record.
EntryOf(meta) ==
  [state |-> meta.state, dirty |-> meta.dirty, clients |-> meta.clients, tag |-> meta.tag]

\* The responses awaited before an MSHR can be reused (no_wait).
AllWaits == {"rprobeacklast", "releaseack", "grantlast", "pprobeacklast", "grantack"}
-----------------------------------------------------------------------------
\* The execution plan for request r on meta-data meta.

EvictS(meta) ==
  {"release"} \cup (IF meta.clients # {} THEN {"rprobe"} ELSE {})

EvictW(meta) ==
  {"releaseack"} \cup
  (IF meta.clients # {} THEN {"rprobeackfirst", "rprobeacklast"} ELSE {})

PlanRelease(r, meta) ==
  [s |-> {"execute"} \cup
         (IF \/ r.op = "ReleaseData" /\ ~meta.dirty
             \/ r.param \in {"TtoB", "BtoB"} /\ meta.state = "TRUNK"
             \/ isToN(r.param) /\ r.client \in meta.clients
          THEN {"writeback"} ELSE {}),
   w |-> {}]

PlanFlush(meta) ==
  [s |-> {"flush"} \cup (IF meta.hit THEN EvictS(meta) ELSE {}),
   w |-> IF meta.hit THEN EvictW(meta) ELSE {}]

NeedsEviction(meta) == ~meta.hit /\ meta.state # "INVALID"

NeedsAcquire(r, meta) == ~meta.hit \/ (meta.state = "BRANCH" /\ needT(r))

NeedsProbe(r, meta) ==
  /\ meta.hit
  /\ needT(r) \/ meta.state = "TRUNK"
  /\ meta.clients \ skipProbe(r) # {}

PlanA(r, meta) ==
  LET evict   == NeedsEviction(meta)
      acquire == NeedsAcquire(r, meta)
      probe   == NeedsProbe(r, meta)
      isAcq   == r.op = "Acquire"
  IN [s |-> {"execute"}
            \cup (IF evict THEN EvictS(meta) ELSE {})
            \cup (IF acquire THEN {"acquire", "grantack"} ELSE {})
            \cup (IF probe THEN {"pprobe"} ELSE {})
            \cup (IF acquire \/ probe \/ isAcq \/ (r.op = "Put" /\ meta.hit /\ ~meta.dirty)
                  THEN {"writeback"} ELSE {}),
      w |-> (IF evict THEN EvictW(meta) ELSE {})
            \cup (IF acquire THEN {"grantfirst", "grantlast", "grant"} ELSE {})
            \cup (IF probe THEN {"pprobeackfirst", "pprobeacklast", "pprobeack"} ELSE {})
            \cup (IF isAcq THEN {"grantack"} ELSE {})]

Plan(r, meta) ==
  CASE r.ch = "C" -> PlanRelease(r, meta)
    [] r.ch = "X" -> PlanFlush(meta)
    [] r.ch = "A" -> PlanA(r, meta)

\* An MSHR that has just received its meta-data.
WithPlan(r, meta) ==
  [valid |-> TRUE, req |-> r, metaValid |-> TRUE, meta |-> meta,
   s |-> Plan(r, meta).s, w |-> Plan(r, meta).w,
   gotT |-> FALSE, probesDone |-> {}, probesToN |-> {}]
-----------------------------------------------------------------------------
\* What the MSHR M asks of the scheduler.

NoWait(M) == M.w \cap AllWaits = {}

aValid(M) == "acquire" \in M.s /\ M.s \cap {"release", "pprobe"} = {}

bValid(M) == M.s \cap {"rprobe", "pprobe"} # {}

\* Mutant: the victim is released before its clients have answered the probes.
cValid_Early(M) == "release" \in M.s /\ "rprobe" \notin M.s

cValid(M) == "release" \in M.s /\ "rprobeackfirst" \notin M.w

\* Mutant: the request executes without waiting for the probed data.
dValid_NoProbe(M) == "execute" \in M.s /\ "grant" \notin M.w

dValid(M) == "execute" \in M.s /\ M.w \cap {"pprobeack", "grant"} = {}

eValid(M) == "grantack" \in M.s /\ "grantfirst" \notin M.w

xValid(M) == "flush" \in M.s /\ "releaseack" \notin M.w

dirValid(M) == cValid(M) \/ ("writeback" \in M.s /\ NoWait(M))

ScheduleValid(M) ==
  aValid(M) \/ bValid(M) \/ cValid(M) \/ dValid(M) \/ eValid(M) \/ xValid(M) \/ dirValid(M)

\* The steps still to be scheduled once M has been.
AfterSchedule(M) ==
  M.s \ ({"rprobe", "pprobe"}
         \cup (IF cValid(M) THEN {"release"} ELSE {})
         \cup (IF aValid(M) THEN {"acquire"} ELSE {})
         \cup (IF xValid(M) THEN {"flush"} ELSE {})
         \cup (IF eValid(M) THEN {"grantack"} ELSE {})
         \cup (IF dValid(M) THEN {"execute"} ELSE {})
         \cup (IF NoWait(M) THEN {"writeback"} ELSE {}))

blockC(M) == ~M.metaValid

\* Mutants: a Release is queued behind an MSHR that waits for the probe of its line.
nestC_NoPprobe(M) == M.metaValid /\ M.w \cap {"rprobeackfirst", "grantfirst"} # {}

nestC_OnlyPprobe(M) == M.metaValid /\ "pprobeackfirst" \in M.w

nestC(M) == M.metaValid /\ M.w \cap {"rprobeackfirst", "pprobeackfirst", "grantfirst"} # {}
-----------------------------------------------------------------------------
\* Mutant: the requesting client is not probed for the victim of its miss either.
excluded_client_NoHit(M) == IF M.req.ch = "A" THEN skipProbe(M.req) ELSE {}

\* The clients that are not probed for M.
excluded_client(M) ==
  IF M.meta.hit /\ M.req.ch = "A" THEN skipProbe(M.req) ELSE {}

ProbeClients(M) == M.meta.clients \ excluded_client(M)

\* Mutant: a client that wants to write leaves the readers their copies.
ProbeParam_ToB(M) == IF "rprobe" \in M.s THEN "toN" ELSE "toB"

ProbeParam(M) == IF "rprobe" \in M.s \/ needT(M.req) THEN "toN" ELSE "toB"

ProbeTag(M) == IF "rprobe" \in M.s THEN M.meta.tag ELSE M.req.tag

honour_BtoT(M) == M.meta.hit /\ M.req.client \in M.meta.clients

\* Mutant: a reader is promoted to writer beside other readers.
req_promoteT_Shared(M) == IF M.meta.hit THEN M.meta.state = "TIP" ELSE M.gotT

req_promoteT(M) ==
  IF M.meta.hit THEN M.meta.clients = {} /\ M.meta.state = "TIP" ELSE M.gotT

\* The permission granted to an Acquire.
GrantParam(M) ==
  CASE M.req.param = "NtoB" -> IF req_promoteT(M) THEN "NtoT" ELSE "NtoB"
    [] M.req.param = "BtoT" -> IF honour_BtoT(M) THEN "BtoT" ELSE "NtoT"
    [] M.req.param = "NtoT" -> "NtoT"

\* The state of the line after the A-channel request of M.
FinalState(M) ==
  LET isAcq == M.req.op = "Acquire" IN
  IF needT(M.req) THEN IF isAcq THEN "TRUNK" ELSE "TIP"
  ELSE IF ~M.meta.hit THEN IF ~M.gotT THEN "BRANCH" ELSE IF isAcq THEN "TRUNK" ELSE "TIP"
  ELSE CASE M.meta.state \in {"INVALID", "BRANCH"} -> "BRANCH"
         [] M.meta.state = "TRUNK" -> "TIP"
         [] M.meta.state = "TIP" -> IF M.meta.clients = {} /\ isAcq THEN "TRUNK" ELSE "TIP"

\* final_meta_writeback: the meta-data when M completes.
FinalMeta(M) ==
  LET r == M.req
      meta == M.meta
  IN CASE r.ch = "C" ->
            [meta EXCEPT !.dirty = @ \/ r.op = "ReleaseData",
                         !.state = IF r.param # "TtoT" /\ @ = "TRUNK" THEN "TIP" ELSE @,
                         !.clients = @ \ (IF isToN(r.param) THEN {r.client} ELSE {}),
                         !.hit = TRUE]
       [] r.ch = "X" /\ meta.hit ->
            [meta EXCEPT !.dirty = FALSE, !.state = "INVALID",
                         !.clients = @ \ M.probesToN, !.hit = FALSE]
       [] r.ch = "X" /\ ~meta.hit -> meta
       [] r.ch = "A" ->
            [meta EXCEPT !.dirty = (meta.hit /\ @) \/ r.op = "Put",
                         !.state = FinalState(M),
                         !.clients = (IF meta.hit THEN @ \ M.probesToN ELSE {})
                                     \cup (IF r.op = "Acquire" THEN {r.client} ELSE {}),
                         !.tag = r.tag,
                         !.hit = TRUE]

\* The state of a directory entry as the coverage assertions name it: _C with clients,
\* _D dirty.
cacheState(e, hit) ==
  IF ~hit \/ e.state = "INVALID" THEN "INVALID"
  ELSE CASE e.state = "BRANCH" -> IF e.clients # {} THEN "BRANCH_C" ELSE "BRANCH"
         [] e.state = "TRUNK" -> IF e.dirty THEN "TRUNK_CD" ELSE "TRUNK_C"
         [] e.state = "TIP" /\ e.clients # {} -> IF e.dirty THEN "TIP_CD" ELSE "TIP_C"
         [] e.state = "TIP" /\ e.clients = {} -> IF e.dirty THEN "TIP_D" ELSE "TIP"

\* transition(from, to, cover) with cover true for p = r = b = false, c = m = true.
PossibleTransitions ==
  ({"INVALID"}  \X {"TIP", "TIP_D", "TRUNK_C"}) \cup
  ({"TIP"}      \X {"TIP_D", "TRUNK_C"}) \cup
  ({"TIP_C"}    \X {"TIP", "TIP_D", "TRUNK_C"}) \cup
  ({"TIP_D"}    \X {"TRUNK_CD"}) \cup
  ({"TIP_CD"}   \X {"TIP_D", "TRUNK_CD"}) \cup
  ({"TRUNK_C"}  \X {"TIP", "TIP_C", "TIP_D", "TIP_CD", "TRUNK_CD"}) \cup
  ({"TRUNK_CD"} \X {"TIP_D", "TIP_CD"})
-----------------------------------------------------------------------------
\* ProbeAck: a response of client c for the line of tag t reaches M (which it
\* matches in the set only); last: its last beat; data: it carries data.
SinkCResponse(M, c, t, param, data, last) ==
  LET lastProbe == M.probesDone \cup {c} = ProbeClients(M)
  IN [M EXCEPT
        !.probesDone = @ \cup {c},
        !.probesToN = @ \cup (IF isToN(param) THEN {c} ELSE {}),
        !.w = @ \ (IF ~lastProbe THEN {}
                   ELSE {"rprobeackfirst", "pprobeackfirst"}
                        \cup (IF last THEN {"rprobeacklast", "pprobeacklast"} ELSE {})
                        \cup (IF last \/ M.req.offset0 THEN {"pprobeack"} ELSE {})),
        !.meta.dirty = @ \/ (M.metaValid /\ M.meta.state # "INVALID" /\ t = M.meta.tag /\ data)]

\* GrantData from the outer memory: its first beat, with permission toT or toB,
\* and its last beat.
SinkDGrant(M, toT, last) ==
  [M EXCEPT
     !.w = @ \ ({"grantfirst"} \cup (IF last THEN {"grantlast"} ELSE {})
                               \cup (IF last \/ M.req.offset0 THEN {"grant"} ELSE {})),
     !.gotT = toT]

SinkDReleaseAck(M) == [M EXCEPT !.w = @ \ {"releaseack"}]

SinkEGrantAck(M) == [M EXCEPT !.w = @ \ {"grantack"}]

\* Mutant: the MSHR misses that a nested Release made its line dirty.
NestedSetDirty_Lost(M) == M

\* A nested Release made the line of M dirty.
NestedSetDirty(M) ==
  IF M.metaValid /\ M.meta.state # "INVALID" THEN [M EXCEPT !.meta.dirty = TRUE] ELSE M
=============================================================================
