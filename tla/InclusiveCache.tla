--------------------------- MODULE InclusiveCache ---------------------------
(***************************************************************************)
(* The coherence engine of the L2 (cache/Scheduler.scala with the MSHRs,   *)
(* the directory, the request buffer and the sinks and sources of the      *)
(* channels) between the L1 data caches above it and the memory below it.  *)
(*                                                                         *)
(* The L1 side is an environment with the behaviour of                     *)
(* rocket/NBDcache.scala as the channels show it: an L1 has NumL1MSHR      *)
(* misses and evictions under way, one for each of its sets; clean lines   *)
(* are dropped silently and dirty ones released; a probe waits for an      *)
(* outstanding Release of its L1 set; the line of an outstanding Acquire   *)
(* is not evicted.  The L1 index is a hash of the address, so it says      *)
(* nothing of the L2 set; SameL1Set makes all lines meet in one L1 set.    *)
(* Besides the clients there is one uncached requester (instruction        *)
(* caches, page walks, the front bus) and the flush control register.  The *)
(* outer side is memory behind TLCacheCork.                                *)
(*                                                                         *)
(* Data is one value per line.  ver[a] is a ghost: the value of the last   *)
(* store to a.                                                             *)
(***************************************************************************)
EXTENDS MSHR, Sequences

CONSTANTS
  Sets,
  Values,        \* the values of a line
  NumL1MSHR,     \* misses and evictions an L1 has under way (nMSHRs)
  SameL1Set,     \* whether all the lines share a set of the L1
  NumABC,        \* MSHRs for requests of any channel (mshrs - 2)
  Secondary,     \* capacity of the request buffer
  RelLists,      \* Releases whose data SinkC can hold (relLists)
  UncachedOps,   \* what the uncached requester does: a subset of {"Get", "Put"}
  Flushes        \* whether the flush register is used

ASSUME ParamAssumption ==
  /\ NumABC \in Nat \ {0}
  /\ NumL1MSHR \in Nat \ {0} /\ SameL1Set \in BOOLEAN
  /\ Secondary \in Nat \ {0} /\ RelLists \in Nat \ {0}
  /\ Clients # {} /\ Tags # {} /\ Ways # {} /\ Sets # {}
  /\ 0 \in Values /\ "none" \notin Clients
  /\ UncachedOps \subseteq {"Get", "Put"}
  /\ Flushes \in BOOLEAN

VARIABLES
  l1,       \* client -> line -> its permission (N, B, T), dirty bit and value
  acq,      \* client -> the lines of its outstanding Acquires
  rel,      \* client -> the lines of its outstanding Releases
  probe,    \* client -> the probe it has received and not answered
  uncached, \* the uncached requester waits for an answer
  chanA,    \* requester -> its requests on channel A, in order
  sinkA,    \* the request at the head of SinkA
  chanX,    \* the flush offered to SinkX
  chanC,    \* client -> its messages on channel C, in order
  sinkC,    \* the message at the head of SinkC, with the beats still to come
  chanD,    \* client -> its messages on channel D, in order
  chanE,    \* the MSHRs for which a GrantAck is on channel E
  sourceB,  \* the probes SourceB has still to send
  mshr,     \* MSHR number -> its state
  requests, \* MSHR number -> the queued requests of priority A and C
  dir,      \* set -> way -> directory entry
  bs,       \* set -> way -> value in the BankedStore
  outer,    \* MSHR number -> the Release it has sent to memory
  mem,      \* line -> value in memory
  ver       \* ghost: line -> value of the last store

l1vars == <<l1, acq, rel, probe, uncached>>
reqvars == <<chanA, sinkA, chanX>>
l2vars == <<mshr, requests, dir, bs>>
memvars == <<outer, mem, ver>>
vars == <<l1vars, reqvars, chanC, sinkC, chanD, chanE, sourceB, l2vars, memvars>>

Lines == [set : Sets, tag : Tags]

None == [none |-> TRUE]

Requesters == Clients \cup {"none"}

bc_mshr == NumABC + 1
c_mshr  == NumABC + 2
MSHRs   == 1 .. NumABC + 2
AbcMSHRs == 1 .. NumABC

Idle == [valid |-> FALSE]

NoCopy == [perm |-> "N", dirty |-> FALSE, val |-> 0]

Init ==
  /\ l1 = [c \in Clients |-> [a \in Lines |-> NoCopy]]
  /\ acq = [c \in Clients |-> {}]
  /\ rel = [c \in Clients |-> {}]
  /\ probe = [c \in Clients |-> None]
  /\ uncached = FALSE
  /\ chanA = [q \in Requesters |-> <<>>]
  /\ sinkA = None
  /\ chanX = None
  /\ chanC = [c \in Clients |-> <<>>]
  /\ sinkC = None
  /\ chanD = [c \in Clients |-> <<>>]
  /\ chanE = {}
  /\ sourceB = None
  /\ mshr = [m \in MSHRs |-> Idle]
  /\ requests = [m \in MSHRs |-> [A |-> <<>>, C |-> <<>>]]
  /\ dir = [s \in Sets |-> [w \in Ways |-> Invalid]]
  /\ bs = [s \in Sets |-> [w \in Ways |-> 0]]
  /\ outer = [m \in MSHRs |-> None]
  /\ mem = [a \in Lines |-> 0]
  /\ ver = [a \in Lines |-> 0]
-----------------------------------------------------------------------------
\* The L1 clients.

Request(ch, op, a, c, param, val, offset0) ==
  [ch |-> ch, op |-> op, set |-> a.set, tag |-> a.tag, client |-> c,
   param |-> param, val |-> val, offset0 |-> offset0]

idx_match(a, b) == a = b \/ SameL1Set

\* A miss or an eviction of line a finds a free MSHR and no other one for its L1 set.
MSHRReady(c, a) ==
  /\ Cardinality(acq[c] \cup rel[c]) < NumL1MSHR
  /\ \A b \in acq[c] \cup rel[c] : ~idx_match(a, b)

ClientAcquire(c, a, param) ==
  /\ MSHRReady(c, a)
  /\ param \in CASE l1[c][a].perm = "N" -> {"NtoB", "NtoT"}
                 [] l1[c][a].perm = "B" -> {"BtoT"}
                 [] l1[c][a].perm = "T" -> {}
  /\ acq' = [acq EXCEPT ![c] = @ \cup {a}]
  /\ chanA' = [chanA EXCEPT ![c] = Append(@, Request("A", "Acquire", a, c, param, 0, TRUE))]
  /\ UNCHANGED <<l1, rel, probe, uncached, sinkA, chanX, chanC, sinkC, chanD, chanE,
                 sourceB, l2vars, memvars>>

ClientStore(c, a, v) ==
  /\ l1[c][a].perm = "T"
  /\ l1' = [l1 EXCEPT ![c][a] = [perm |-> "T", dirty |-> TRUE, val |-> v]]
  /\ ver' = [ver EXCEPT ![a] = v]
  /\ UNCHANGED <<acq, rel, probe, uncached, reqvars, chanC, sinkC, chanD, chanE, sourceB,
                 l2vars, outer, mem>>

\* A clean line is evicted without a message.
ClientDrop(c, a) ==
  /\ l1[c][a].perm # "N"
  /\ ~l1[c][a].dirty
  /\ a \notin acq[c]
  /\ l1' = [l1 EXCEPT ![c][a] = NoCopy]
  /\ UNCHANGED <<acq, rel, probe, uncached, reqvars, chanC, sinkC, chanD, chanE, sourceB,
                 l2vars, memvars>>

\* A dirty line is evicted with a Release.
ClientRelease(c, a) ==
  /\ l1[c][a].dirty
  /\ MSHRReady(c, a)
  /\ chanC' = [chanC EXCEPT ![c] = Append(@,
                 Request("C", "ReleaseData", a, c, "TtoN", l1[c][a].val, TRUE))]
  /\ rel' = [rel EXCEPT ![c] = @ \cup {a}]
  /\ l1' = [l1 EXCEPT ![c][a] = NoCopy]
  /\ UNCHANGED <<acq, probe, uncached, reqvars, sinkC, chanD, chanE, sourceB, l2vars,
                 memvars>>

\* The probe unit accepts one probe at a time.
ClientProbed(c) ==
  /\ sourceB # None
  /\ c \in sourceB.remain
  /\ probe[c] = None
  /\ probe' = [probe EXCEPT ![c] = [line |-> sourceB.line, param |-> sourceB.param]]
  /\ sourceB' = IF sourceB.remain = {c} THEN None
                ELSE [sourceB EXCEPT !.remain = @ \ {c}]
  /\ UNCHANGED <<l1, acq, rel, uncached, reqvars, chanC, sinkC, chanD, chanE, l2vars,
                 memvars>>

ProbeAckParam(perm, param) ==
  CASE perm = "T" -> IF param = "toN" THEN "TtoN" ELSE "TtoB"
    [] perm = "B" -> IF param = "toN" THEN "BtoN" ELSE "BtoB"
    [] perm = "N" -> "NtoN"

ClientProbeAck(c) ==
  /\ probe[c] # None
  /\ \A b \in rel[c] : ~idx_match(probe[c].line, b)
  /\ LET a     == probe[c].line
         copy  == l1[c][a]
         param == ProbeAckParam(copy.perm, probe[c].param)
         ack   == IF copy.dirty
                  THEN Request("C", "ProbeAckData", a, c, param, copy.val, TRUE)
                  ELSE Request("C", "ProbeAck", a, c, param, 0, TRUE)
     IN /\ chanC' = [chanC EXCEPT ![c] = Append(@, ack)]
        /\ l1' = [l1 EXCEPT ![c][a] = IF isToN(param) THEN NoCopy
                                      ELSE [@ EXCEPT !.perm = "B", !.dirty = FALSE]]
  /\ probe' = [probe EXCEPT ![c] = None]
  /\ UNCHANGED <<acq, rel, uncached, reqvars, sinkC, chanD, chanE, sourceB, l2vars,
                 memvars>>

\* The client takes the next message of channel D.
ClientD(c) ==
  /\ chanD[c] # <<>>
  /\ LET msg == Head(chanD[c]) IN
     \/ /\ msg.op = "ReleaseAck"
        /\ rel' = [rel EXCEPT ![c] = @ \ {msg.line}]
        /\ UNCHANGED <<l1, acq, chanE>>
     \/ /\ msg.op = "Grant"
        /\ l1' = [l1 EXCEPT ![c][msg.line] =
                    CASE msg.param = "NtoB" -> [perm |-> "B", dirty |-> FALSE, val |-> msg.val]
                      [] msg.param = "NtoT" -> [perm |-> "T", dirty |-> FALSE, val |-> msg.val]
                      [] msg.param = "BtoT" -> [@ EXCEPT !.perm = "T"]]
        /\ acq' = [acq EXCEPT ![c] = @ \ {msg.line}]
        /\ chanE' = chanE \cup {msg.sink}
        /\ UNCHANGED rel
  /\ chanD' = [chanD EXCEPT ![c] = Tail(@)]
  /\ UNCHANGED <<probe, uncached, reqvars, chanC, sinkC, sourceB, l2vars, memvars>>

UncachedRequest(op, a, v, offset0) ==
  /\ ~uncached
  /\ uncached' = TRUE
  /\ chanA' = [chanA EXCEPT !["none"] =
                 Append(@, Request("A", op, a, "none", "none", v, offset0))]
  /\ UNCHANGED <<l1, acq, rel, probe, sinkA, chanX, chanC, sinkC, chanD, chanE, sourceB,
                 l2vars, memvars>>

\* Software writes the flush register; SinkX holds one request.
FlushRequest(a) ==
  /\ chanX = None
  /\ chanX' = Request("X", "Flush", a, "none", "none", 0, TRUE)
  /\ UNCHANGED <<l1vars, chanA, sinkA, chanC, sinkC, chanD, chanE, sourceB, l2vars,
                 memvars>>
-----------------------------------------------------------------------------
\* Accepting requests: Scheduler picks C before X before A and sends the request to
\* a free MSHR (alloc), to the C MSHR ahead of a transaction that needs it (nestC),
\* or to the request buffer of the MSHR that owns the set (queue).

SetMatches(r) == {m \in MSHRs : mshr[m].valid /\ mshr[m].req.set = r.set}

\* Mutant: a Release has no MSHR of its own.
prioFilter_AbcOnly(r) == AbcMSHRs

prioFilter(r) == IF r.ch = "C" THEN MSHRs ELSE AbcMSHRs

Free(r) == {m \in prioFilter(r) : ~mshr[m].valid}

Queued ==
  Cardinality(UNION {{m} \X {q} \X DOMAIN requests[m][q] : m \in MSHRs, q \in {"A", "C"}})

\* The request waits in the MSHR for the directory.
Allocated(r) == [valid |-> TRUE, req |-> r, metaValid |-> FALSE, w |-> {}, s |-> {}]

\* Mutant: only MSHRs of the level of the request count as matches of its set.
Allocate_OwnLevel(r) ==
  /\ SetMatches(r) \cap prioFilter(r) = {}
  /\ \E m \in Free(r) : /\ \A n \in Free(r) : m <= n
                        /\ mshr' = [mshr EXCEPT ![m] = Allocated(r)]
  /\ UNCHANGED requests

\* The free MSHR of the lowest number takes the request.
Allocate(r) ==
  /\ SetMatches(r) = {}
  /\ \E m \in Free(r) : /\ \A n \in Free(r) : m <= n
                        /\ mshr' = [mshr EXCEPT ![m] = Allocated(r)]
  /\ UNCHANGED requests

Nest(r) ==
  /\ r.ch = "C"
  /\ \E m \in SetMatches(r) : nestC(mshr[m])
  /\ ~mshr[c_mshr].valid
  /\ mshr' = [mshr EXCEPT ![c_mshr] = Allocated(r)]
  /\ UNCHANGED requests

\* The matching MSHR of the highest priority not beyond that of the request.
lowerMatches1(r) ==
  LET lowerMatches == SetMatches(r) \cap prioFilter(r) IN
  IF c_mshr \in lowerMatches THEN {c_mshr}
  ELSE IF bc_mshr \in lowerMatches THEN {bc_mshr} ELSE lowerMatches

Queue(r) ==
  /\ r.ch = "C" => \A m \in SetMatches(r) : ~nestC(mshr[m]) /\ ~blockC(mshr[m])
  /\ Queued < Secondary
  /\ \E m \in lowerMatches1(r) :
       requests' = IF r.ch = "C" THEN [requests EXCEPT ![m].C = Append(@, r)]
                   ELSE [requests EXCEPT ![m].A = Append(@, r)]
  /\ UNCHANGED mshr

Accept(r) == Allocate(r) \/ Nest(r) \/ Queue(r)

ReleaseAtSinkC == sinkC # None /\ sinkC.msg.op = "ReleaseData"

\* The crossbar picks a requester for SinkA; none overtakes its request while it waits.
ArriveA(q) ==
  /\ sinkA = None
  /\ chanA[q] # <<>>
  /\ sinkA' = Head(chanA[q])
  /\ chanA' = [chanA EXCEPT ![q] = Tail(@)]
  /\ UNCHANGED <<l1vars, chanX, chanC, sinkC, chanD, chanE, sourceB, l2vars, memvars>>

\* A Put also claims a list of SinkA's put buffer (putLists), which one requester never fills.
AcceptA ==
  /\ sinkA # None
  /\ ~ReleaseAtSinkC
  /\ chanX = None
  /\ Accept(sinkA)
  /\ sinkA' = None
  /\ UNCHANGED <<l1vars, chanA, chanX, chanC, sinkC, chanD, chanE, sourceB, dir, bs,
                 memvars>>

AcceptX ==
  /\ ~ReleaseAtSinkC
  /\ chanX # None
  /\ Accept(chanX)
  /\ chanX' = None
  /\ UNCHANGED <<l1vars, chanA, sinkA, chanC, sinkC, chanD, chanE, sourceB, dir, bs,
                 memvars>>

\* The lists of SinkC's put buffer in use: Releases that SourceD has still to execute.
RelHeld ==
  LET unread == {m \in MSHRs : /\ mshr[m].valid /\ mshr[m].req.ch = "C"
                               /\ mshr[m].metaValid => "execute" \in mshr[m].s}
  IN Cardinality(unread) + Cardinality(UNION {{m} \X DOMAIN requests[m].C : m \in MSHRs})

\* A Release claims a list of the put buffer; without one it blocks channel C.
AcceptC ==
  /\ ReleaseAtSinkC
  /\ RelHeld < RelLists
  /\ Accept(sinkC.msg)
  /\ sinkC' = None
  /\ UNCHANGED <<l1vars, reqvars, chanC, chanD, chanE, sourceB, dir, bs, memvars>>

\* The crossbar offers the next message of a client to SinkC, which is shared: while
\* its head is blocked no client gets through.
ArriveC(c) ==
  /\ sinkC = None
  /\ chanC[c] # <<>>
  /\ sinkC' = [msg |-> Head(chanC[c]), first |-> TRUE]
  /\ chanC' = [chanC EXCEPT ![c] = Tail(@)]
  /\ UNCHANGED <<l1vars, reqvars, chanD, chanE, sourceB, l2vars, memvars>>
-----------------------------------------------------------------------------
\* The MSHRs.

\* The directory answers: the way that hits, or a victim way.
DirectoryResult(m) ==
  /\ mshr[m].valid /\ ~mshr[m].metaValid
  /\ LET r == mshr[m].req
         hits == {w \in Ways : dir[r.set][w].state # "INVALID" /\ dir[r.set][w].tag = r.tag}
     IN \E w \in IF hits # {} THEN hits ELSE Ways :
          LET e == dir[r.set][w] IN
          mshr' = [mshr EXCEPT ![m] = WithPlan(r,
                    [state |-> e.state, dirty |-> e.dirty, clients |-> e.clients,
                     tag |-> e.tag, way |-> w, hit |-> hits # {}])]
  /\ UNCHANGED <<l1vars, reqvars, chanC, sinkC, chanD, chanE, sourceB, requests, dir, bs,
                 memvars>>

Active(m) == mshr[m].valid /\ mshr[m].metaValid

\* The BC and C MSHRs interlock the MSHR of the set they pre-empt.
Stalled(m) ==
  \E n \in {bc_mshr, c_mshr} :
    n > m /\ mshr[n].valid /\ mshr[n].req.set = mshr[m].req.set

\* SourceD executes request r of MSHR m on the line in way w.
Execute(m) ==
  LET M == mshr[m]
      r == M.req
      a == [set |-> r.set, tag |-> r.tag]
      w == M.meta.way
      Answer(msg) == chanD' = [chanD EXCEPT ![r.client] = Append(@, msg)]
  IN CASE r.op = "Acquire" ->
            /\ Answer([op |-> "Grant", line |-> a, param |-> GrantParam(M), sink |-> m,
                       val |-> IF GrantParam(M) = "BtoT" THEN 0 ELSE bs[r.set][w]])
            /\ UNCHANGED <<bs, ver, uncached>>
       [] r.op = "Get" ->
            /\ uncached' = FALSE
            /\ UNCHANGED <<bs, ver, chanD>>
       [] r.op = "Put" ->
            /\ bs' = [bs EXCEPT ![r.set][w] = r.val]
            /\ ver' = [ver EXCEPT ![a] = r.val]
            /\ uncached' = FALSE
            /\ UNCHANGED chanD
       [] r.op = "ReleaseData" ->
            /\ Answer([op |-> "ReleaseAck", line |-> a])
            /\ bs' = [bs EXCEPT ![r.set][w] = r.val]
            /\ UNCHANGED <<ver, uncached>>

\* Mutant: the next request takes over the meta-data whatever its line.
Reload_AnyTag(m) ==
  CASE requests[m].C # <<>> -> WithPlan(Head(requests[m].C), FinalMeta(mshr[m]))
    [] requests[m].C = <<>> /\ requests[m].A # <<>> ->
         WithPlan(Head(requests[m].A), FinalMeta(mshr[m]))
    [] OTHER -> Idle

\* The next request of an MSHR that completes: C before A, and without a directory
\* read if it is for the same line (repeat).
Reload(m) ==
  LET M == mshr[m]
      Next1(r) == IF r.tag = M.req.tag THEN WithPlan(r, FinalMeta(M)) ELSE Allocated(r)
  IN CASE requests[m].C # <<>> -> Next1(Head(requests[m].C))
       [] requests[m].C = <<>> /\ requests[m].A # <<>> -> Next1(Head(requests[m].A))
       [] OTHER -> Idle

Pop(q) == IF q.C # <<>> THEN [q EXCEPT !.C = Tail(@)]
          ELSE IF q.A # <<>> THEN [q EXCEPT !.A = Tail(@)] ELSE q

\* The directory entry the MSHR writes when it is scheduled.
DirWrite(M) == IF "release" \in M.s THEN Invalid ELSE EntryOf(FinalMeta(M))

\* The scheduler serves MSHR m: all the messages it asks for, or none.
Schedule(m) ==
  LET M == mshr[m]
      r == M.req
      w == M.meta.way
  IN /\ Active(m)
     /\ ScheduleValid(M)
     /\ ~Stalled(m)
     /\ bValid(M) => sourceB = None
     /\ sourceB' = IF ~bValid(M) THEN sourceB
                   ELSE [remain |-> ProbeClients(M), param |-> ProbeParam(M),
                         line |-> [set |-> r.set, tag |-> ProbeTag(M)]]
     /\ outer' = IF ~cValid(M) THEN outer
                 ELSE [outer EXCEPT ![m] = [line |-> [set |-> r.set, tag |-> M.meta.tag],
                                            dirty |-> M.meta.dirty,
                                            val |-> IF M.meta.dirty THEN bs[r.set][w] ELSE 0]]
     /\ IF dValid(M) THEN Execute(m) ELSE UNCHANGED <<chanD, bs, ver, uncached>>
     /\ dir' = IF dirValid(M) THEN [dir EXCEPT ![r.set][w] = DirWrite(M)] ELSE dir
     /\ LET after == IF NoWait(M) THEN Reload(m) ELSE [M EXCEPT !.s = AfterSchedule(M)]
            dirtied(n) == /\ m = c_mshr /\ n # m
                          /\ dirValid(M) /\ DirWrite(M).dirty
                          /\ Active(n) /\ mshr[n].req.set = r.set /\ mshr[n].meta.tag = r.tag
        IN mshr' = [n \in MSHRs |-> IF n = m THEN after
                                    ELSE IF dirtied(n) THEN NestedSetDirty(mshr[n])
                                    ELSE mshr[n]]
     /\ requests' = IF NoWait(M) THEN [requests EXCEPT ![m] = Pop(@)] ELSE requests
     /\ UNCHANGED <<l1, acq, rel, probe, reqvars, chanC, sinkC, chanE, mem>>
-----------------------------------------------------------------------------
\* Responses.

\* The MSHR whose way receives the data of a ProbeAck.
RespMSHR(s) ==
  IF mshr[bc_mshr].valid /\ mshr[bc_mshr].req.set = s THEN bc_mshr
  ELSE CHOOSE m \in AbcMSHRs : mshr[m].valid /\ mshr[m].req.set = s

\* One beat of a ProbeAck goes to every MSHR of its set; ProbeAckData has two.
SinkCResp ==
  /\ sinkC # None
  /\ ~ReleaseAtSinkC
  /\ LET msg  == sinkC.msg
         data == msg.op = "ProbeAckData"
         last == ~data \/ ~sinkC.first
     IN /\ mshr' = [m \in MSHRs |->
                      IF Active(m) /\ mshr[m].req.set = msg.set
                      THEN SinkCResponse(mshr[m], msg.client, msg.tag, msg.param, data, last)
                      ELSE mshr[m]]
        /\ bs' = IF data /\ sinkC.first
                 THEN [bs EXCEPT ![msg.set][mshr[RespMSHR(msg.set)].meta.way] = msg.val]
                 ELSE bs
        /\ sinkC' = IF last THEN None ELSE [sinkC EXCEPT !.first = FALSE]
  /\ UNCHANGED <<l1vars, reqvars, chanC, chanD, chanE, sourceB, requests, dir, memvars>>

SinkE(m) ==
  /\ chanE' = chanE \ {m}
  /\ mshr' = [mshr EXCEPT ![m] = SinkEGrantAck(@)]
  /\ UNCHANGED <<l1vars, reqvars, chanC, sinkC, chanD, sourceB, requests, dir, bs, memvars>>

\* Memory answers the Acquire of m: first beat, with the data, and last beat.
SinkDFirst(m) ==
  LET r == mshr[m].req IN
  /\ Active(m)
  /\ "grantfirst" \in mshr[m].w
  /\ "acquire" \notin mshr[m].s
  /\ mshr' = [mshr EXCEPT ![m] = SinkDGrant(@, TRUE, FALSE)]
  /\ bs' = [bs EXCEPT ![r.set][mshr[m].meta.way] = mem[[set |-> r.set, tag |-> r.tag]]]
  /\ UNCHANGED <<l1vars, reqvars, chanC, sinkC, chanD, chanE, sourceB, requests, dir,
                 memvars>>

SinkDLast(m) ==
  /\ Active(m)
  /\ "grantlast" \in mshr[m].w
  /\ "grantfirst" \notin mshr[m].w
  /\ mshr' = [mshr EXCEPT ![m] = SinkDGrant(@, TRUE, TRUE)]
  /\ UNCHANGED <<l1vars, reqvars, chanC, sinkC, chanD, chanE, sourceB, requests, dir, bs,
                 memvars>>

\* Memory takes the Release of m and acknowledges it.  SourceC reads no beat that SinkC
\* has still to write: SinkC claims its bank first.
OuterRelease(m) ==
  /\ outer[m] # None
  /\ "rprobeacklast" \notin mshr[m].w
  /\ mem' = IF outer[m].dirty THEN [mem EXCEPT ![outer[m].line] = outer[m].val] ELSE mem
  /\ outer' = [outer EXCEPT ![m] = None]
  /\ mshr' = [mshr EXCEPT ![m] = SinkDReleaseAck(@)]
  /\ UNCHANGED <<l1vars, reqvars, chanC, sinkC, chanD, chanE, sourceB, requests, dir, bs,
                 ver>>
-----------------------------------------------------------------------------
Spontaneous ==
  \/ \E c \in Clients, a \in Lines :
       \/ \E param \in {"NtoB", "NtoT", "BtoT"} : ClientAcquire(c, a, param)
       \/ \E v \in Values : ClientStore(c, a, v)
       \/ ClientDrop(c, a)
       \/ ClientRelease(c, a)
  \/ \E op \in UncachedOps, a \in Lines, v \in Values, offset0 \in BOOLEAN :
       /\ op = "Get" => v = 0
       /\ UncachedRequest(op, a, v, offset0)
  \/ Flushes /\ \E a \in Lines : FlushRequest(a)

Progress ==
  \/ \E c \in Clients : ClientProbed(c) \/ ClientProbeAck(c) \/ ClientD(c) \/ ArriveC(c)
  \/ \E q \in Requesters : ArriveA(q)
  \/ AcceptA \/ AcceptX \/ AcceptC
  \/ \E m \in MSHRs :
       DirectoryResult(m) \/ Schedule(m) \/ SinkDFirst(m) \/ SinkDLast(m) \/ OuterRelease(m)
  \/ SinkCResp
  \/ \E m \in chanE : SinkE(m)

Next == Spontaneous \/ Progress

Spec == Init /\ [][Next]_vars

\* The round-robin arbiters in front of SinkA and SinkC and the one between the MSHRs
\* serve everybody who asks again and again; everything else proceeds once it can.
Fairness ==
  /\ \A q \in Requesters : SF_vars(ArriveA(q))
  /\ \A c \in Clients :
       /\ SF_vars(ArriveC(c))
       /\ WF_vars(ClientProbed(c))
       /\ WF_vars(ClientProbeAck(c))
       /\ WF_vars(ClientD(c))
  /\ WF_vars(AcceptA) /\ WF_vars(AcceptX) /\ WF_vars(AcceptC) /\ WF_vars(SinkCResp)
  /\ \A m \in MSHRs :
       /\ WF_vars(DirectoryResult(m))
       /\ SF_vars(Schedule(m))
       /\ WF_vars(SinkDFirst(m)) /\ WF_vars(SinkDLast(m))
       /\ WF_vars(OuterRelease(m))
       /\ WF_vars(m \in chanE /\ SinkE(m))

FairSpec == Spec /\ Fairness
-----------------------------------------------------------------------------
Copies == [perm : {"N", "B", "T"}, dirty : BOOLEAN, val : Values]

Entries ==
  [state : {"INVALID", "BRANCH", "TRUNK", "TIP"}, dirty : BOOLEAN,
   clients : SUBSET Clients, tag : Tags \cup {"none"}]

Requests ==
  [ch : {"A", "C", "X"}, op : {"Acquire", "Get", "Put", "Flush", "ReleaseData",
                               "ProbeAck", "ProbeAckData"},
   set : Sets, tag : Tags, client : Clients \cup {"none"},
   param : {"NtoB", "NtoT", "BtoT", "TtoN", "TtoB", "BtoN", "BtoB", "NtoN", "none"},
   val : Values, offset0 : BOOLEAN]

TypeOK ==
  /\ l1 \in [Clients -> [Lines -> Copies]]
  /\ acq \in [Clients -> SUBSET Lines]
  /\ rel \in [Clients -> SUBSET Lines]
  /\ \A c \in Clients : Len(chanC[c]) <= NumL1MSHR + 1 /\ Len(chanD[c]) <= NumL1MSHR
  /\ chanA \in [Requesters -> Seq(Requests)]
  /\ chanX \in Requests \cup {None}
  /\ sinkA \in Requests \cup {None}
  /\ chanE \subseteq MSHRs
  /\ \A m \in MSHRs : mshr[m].valid => mshr[m].req \in Requests
  /\ Queued <= Secondary
  /\ dir \in [Sets -> [Ways -> Entries]]
  /\ bs \in [Sets -> [Ways -> Values]]
  /\ mem \in [Lines -> Values]
  /\ ver \in [Lines -> Values]

\* Coherence: while one client may write a line, no other client has a copy of it,
\* whatever probes, grants and releases are in flight between them and the L2.
SingleWriter ==
  \A a \in Lines, c, d \in Clients :
    c # d /\ l1[c][a].perm = "T" => l1[d][a].perm = "N"

\* A client that may read a line reads the last value stored to it by any client or
\* by the uncached requester.
ReadersFresh ==
  \A a \in Lines, c \in Clients : l1[c][a].perm # "N" => l1[c][a].val = ver[a]

\* Coherence as software relies on it: one writer at a time, and every copy is the last
\* value stored.
Coherent == SingleWriter /\ ReadersFresh

\* MSHR m has granted line a to client c and has not yet written the directory.
Granting(m, a, c) ==
  /\ Active(m)
  /\ mshr[m].req.op = "Acquire" /\ mshr[m].req.client = c
  /\ [set |-> mshr[m].req.set, tag |-> mshr[m].req.tag] = a
  /\ "execute" \notin mshr[m].s

\* The L2 is inclusive and precise about owners: a line some client holds is in the
\* directory with that client, as a TRUNK owned by it alone if it may write, except
\* while the MSHR that granted the line waits for the GrantAck.
Inclusion ==
  \A a \in Lines, c \in Clients :
    l1[c][a].perm # "N" =>
      \/ \E m \in MSHRs : Granting(m, a, c)
      \/ \E w \in Ways :
           LET e == dir[a.set][w] IN
           /\ e.state # "INVALID" /\ e.tag = a.tag /\ c \in e.clients
           /\ l1[c][a].perm = "T" => e.state = "TRUNK" /\ e.clients = {c}

\* The data SourceD reads for an uncached Get is the last value stored, also when the
\* line was dirty in an L1 and its ProbeAckData is still arriving.
GetsFresh ==
  \A m \in MSHRs :
    LET M == mshr[m] IN
    Active(m) /\ M.req.op = "Get" /\ dValid(M) /\ ~Stalled(m) =>
      bs[M.req.set][M.meta.way] = ver[[set |-> M.req.set, tag |-> M.req.tag]]

\* No store is lost by an eviction or a flush: a line that is in no way of the L2, that
\* no MSHR is filling and that is not on its way to memory has its last value there.
MemFresh ==
  \A a \in Lines :
    \/ mem[a] = ver[a]
    \/ \E w \in Ways : dir[a.set][w].state # "INVALID" /\ dir[a.set][w].tag = a.tag
    \/ \E m \in MSHRs :
         \/ outer[m] # None /\ outer[m].line = a
         \/ /\ Active(m) /\ "writeback" \in mshr[m].s
            /\ [set |-> mshr[m].req.set, tag |-> mshr[m].req.tag] = a
            /\ "grantfirst" \notin mshr[m].w

\* The assertions of MSHR.scala and SourceB.scala on the meta-data: an invalid line has
\* no clients and is clean, a trunk has exactly one client, a Release hits, and a probe
\* has somebody to go to.
MetaAsserts ==
  \A m \in MSHRs :
    LET M == mshr[m] IN
    Active(m) =>
      /\ M.meta.state = "INVALID" => M.meta.clients = {} /\ ~M.meta.dirty
      /\ M.meta.state = "BRANCH" => ~M.meta.dirty
      /\ M.meta.state = "TRUNK" => Cardinality(M.meta.clients) = 1
      /\ M.req.ch = "C" => M.meta.hit
      /\ bValid(M) => ProbeClients(M) # {}

\* The coverage assertions of MSHR.scala: a transaction that writes the directory makes
\* one of the state transitions the code declares possible for a last-level cache over
\* writable memory, or none.
TransitionAsserts ==
  \A m \in MSHRs :
    LET M == mshr[m]
        before == cacheState(M.meta, M.meta.hit)
        after  == cacheState(FinalMeta(M), TRUE)
    IN Active(m) /\ "writeback" \in M.s /\ NoWait(M) /\ ~Stalled(m) =>
         before = after \/ <<before, after>> \in PossibleTransitions

\* No assertion of the L2's controller fires, and its buffers and channels stay within the
\* sizes the code gives them.
SourceAsserts == TypeOK /\ MetaAsserts /\ TransitionAsserts

\* A line is in at most one way, so that a lookup never finds two.
UniqueWay ==
  \A s \in Sets : \A v, w \in Ways :
    /\ dir[s][v].state # "INVALID" /\ dir[s][w].state # "INVALID"
    /\ dir[s][v].tag = dir[s][w].tag
    => v = w

\* A Release that takes the BC MSHR because the others are busy is alone in its set: the
\* b_clr_dirty and b_toN it raises towards the other MSHRs reach none of them.
BcAlone ==
  mshr[bc_mshr].valid =>
    \A m \in MSHRs \ {bc_mshr} :
      mshr[m].valid => mshr[m].req.set # mshr[bc_mshr].req.set

\* While a request of anybody is outstanding the system itself can take a step: probes,
\* releases and full MSHRs never wait for each other in a circle.
NoDeadlock ==
  \/ uncached \/ chanX # None
  \/ \E c \in Clients : acq[c] # {} \/ rel[c] # {}
  \/ \E m \in MSHRs : mshr[m].valid
  => ENABLED Progress

\* The caches implement the coherent memory of CoherentMemory: permissions are gained only
\* beside compatible ones and with the last value, and an uncached Put takes effect when
\* no client has a copy.
CM == INSTANCE CoherentMemory WITH
  InitialValue <- 0,
  perm <- [c \in Clients |-> [a \in Lines |-> l1[c][a].perm]],
  val <- [c \in Clients |-> [a \in Lines |-> l1[c][a].val]],
  ver <- ver

Refines == CM!Spec

\* Every Acquire is granted, every Release acknowledged and every uncached request
\* answered: releases and probes that meet in a set never wait for each other forever.
Served ==
  /\ \A c \in Clients :
       \A a \in Lines :
         []<>(a \notin acq[c]) /\ []<>(a \notin rel[c])
  /\ []<>~uncached
-----------------------------------------------------------------------------
(* The inductive invariant behind UniqueWay and BcAlone *)

AReqs == {r \in Requests : /\ r.ch = "A" /\ r.op \in {"Acquire", "Get", "Put"}
                           /\ r.op = "Acquire" => /\ r.client \in Clients
                                                  /\ r.param \in {"NtoB", "NtoT", "BtoT"}}
XReqs == {r \in Requests : r.ch = "X" /\ r.op = "Flush"}
CReqs == {r \in Requests : r.ch = "C" /\ r.op = "ReleaseData" /\ r.client \in Clients}
Acks == {r \in Requests : r.op \in {"ProbeAck", "ProbeAckData"} /\ r.client \in Clients}
Grants == [op : {"Grant"}, line : Lines, param : {"NtoB", "NtoT", "BtoT"}, sink : MSHRs,
           val : Values]
ReleaseAcks == [op : {"ReleaseAck"}, line : Lines]

Metas == [state : {"INVALID", "BRANCH", "TRUNK", "TIP"}, dirty : BOOLEAN,
          clients : SUBSET Clients, tag : Tags \cup {"none"}, way : Ways, hit : BOOLEAN]
Waits == AllWaits \cup {"rprobeackfirst", "pprobeackfirst", "pprobeack", "grantfirst", "grant"}
Steps == {"execute", "release", "rprobe", "pprobe", "acquire", "grantack", "writeback", "flush"}

AnyReqs == AReqs \cup XReqs \cup CReqs

WaitingMSHRs == [valid : {TRUE}, req : AnyReqs, metaValid : {FALSE}, w : {{}}, s : {{}}]
WorkingMSHRs == [valid : {TRUE}, req : AnyReqs, metaValid : {TRUE}, meta : Metas,
                 s : SUBSET Steps, w : SUBSET Waits, gotT : BOOLEAN,
                 probesDone : SUBSET Clients, probesToN : SUBSET Clients]

\* The requests queued at m are for the set of m; only the ordinary MSHRs have requests of
\* priority A.
QueueA(m) == {r \in AReqs \cup XReqs : /\ m \in AbcMSHRs /\ mshr[m].valid
                                       /\ r.set = mshr[m].req.set}
QueueC(m) == {r \in CReqs : mshr[m].valid /\ r.set = mshr[m].req.set}

icTypes ==
  /\ l1 \in [Clients -> [Lines -> Copies]]
  /\ probe \in [Clients -> [line : Lines, param : {"toN", "toB"}] \cup {None}]
  /\ sourceB \in [remain : SUBSET Clients, line : Lines, param : {"toN", "toB"}] \cup {None}
  /\ chanA \in [Requesters -> Seq(AReqs)] /\ sinkA \in AReqs \cup {None}
  /\ chanX \in XReqs \cup {None}
  /\ chanC \in [Clients -> Seq(CReqs \cup Acks)]
  /\ sinkC \in [msg : CReqs \cup Acks, first : BOOLEAN] \cup {None}
  /\ chanD \in [Clients -> Seq(Grants \cup ReleaseAcks)] /\ chanE \subseteq MSHRs
  /\ dir \in [Sets -> [Ways -> Entries]]
  /\ bs \in [Sets -> [Ways -> Values]]
  /\ mem \in [Lines -> Values] /\ ver \in [Lines -> Values]
  /\ outer \in [MSHRs -> [line : [set : Sets, tag : Tags \cup {"none"}], dirty : BOOLEAN,
                          val : Values] \cup {None}]

\* The MSHRs and their requests; the last two take Releases only.
icMshrs ==
  /\ mshr \in [MSHRs -> {Idle} \cup WaitingMSHRs \cup WorkingMSHRs]
  /\ requests \in [MSHRs -> [A : Seq(AReqs \cup XReqs), C : Seq(CReqs)]]
  /\ \A m \in MSHRs : /\ mshr[m].valid /\ m \notin AbcMSHRs => mshr[m].req \in CReqs
                      /\ requests[m].A \in Seq(QueueA(m)) /\ requests[m].C \in Seq(QueueC(m))

\* A Release waits for nothing, a flush has nothing to execute, and an eviction is not
\* acknowledged before it is sent.
icPlans ==
  \A m \in MSHRs :
    /\ Active(m) => /\ mshr[m].req.ch = "C" => mshr[m].w = {}
                    /\ mshr[m].req.ch = "X" => "execute" \notin mshr[m].s
                    /\ "release" \in mshr[m].s => "releaseack" \in mshr[m].w
                    /\ "rprobe" \in mshr[m].s => mshr[m].meta.tag \in Tags
    /\ outer[m] # None => Active(m) /\ "release" \notin mshr[m].s /\ "releaseack" \in mshr[m].w

\* A set belongs to one MSHR.  The C MSHR may join it, for a Release that the MSHR it
\* stalls has to let by.
OneOwner ==
  \A m, n \in MSHRs :
    m < n /\ mshr[m].valid /\ mshr[n].valid /\ mshr[m].req.set = mshr[n].req.set
      => n = c_mshr /\ Active(m) /\ mshr[m].req.ch # "C"

\* The other ways of its set hold neither the line that an MSHR works on nor the one that
\* was in its way.
OthersDiffer(M, D) ==
  \A v \in Ways \ {M.meta.way} :
    D[v].state # "INVALID" =>
      D[v].tag # M.req.tag /\ (M.meta.state # "INVALID" => D[v].tag # M.meta.tag)

\* The C MSHR changes neither what line is in its way nor whether one is.
SameLine(M, D) ==
  /\ D[M.meta.way].tag = M.meta.tag
  /\ D[M.meta.way].state = "INVALID" <=> M.meta.state = "INVALID"

icWays ==
  /\ \A m \in MSHRs : Active(m) => OthersDiffer(mshr[m], dir[mshr[m].req.set])
  /\ Active(c_mshr) => SameLine(mshr[c_mshr], dir[mshr[c_mshr].req.set])
  /\ \A s \in Sets : \A w \in Ways : dir[s][w].clients # {} => dir[s][w].tag \in Tags
  /\ \A m \in MSHRs : Active(m) /\ mshr[m].meta.clients # {} => mshr[m].meta.tag \in Tags

icInv == icTypes /\ icMshrs /\ icPlans /\ OneOwner /\ icWays /\ UniqueWay
=============================================================================
