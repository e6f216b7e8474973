------------------------ MODULE CacheSteps ------------------------
(***************************************************************************)
(* The steps of the L2's MSHRs and what each leaves of an MSHR, for any    *)
(* number of clients, lines, ways and MSHRs; CacheProofs has the theorems. *)
(***************************************************************************)
EXTENDS InclusiveCache, TLAPS

\* The MSHR numbers.
LEMMA Numbers ==
  /\ MSHRs \subseteq Nat /\ AbcMSHRs \subseteq MSHRs
  /\ bc_mshr \in MSHRs \ AbcMSHRs /\ c_mshr \in MSHRs \ AbcMSHRs /\ bc_mshr # c_mshr
  /\ \A m \in MSHRs \ {c_mshr} : m < c_mshr
  /\ \A m \in MSHRs \ {c_mshr, bc_mshr} : m \in AbcMSHRs /\ m < bc_mshr
BY ParamAssumption DEF MSHRs, AbcMSHRs, bc_mshr, c_mshr

-----------------------------------------------------------------------------
(* Requests *)

\* The fields of a request.
LEMMA RequestFields ==
  ASSUME NEW r \in AnyReqs \cup Acks
  PROVE  /\ r.set \in Sets /\ r.tag \in Tags /\ r.val \in Values /\ r.offset0 \in BOOLEAN
         /\ [set |-> r.set, tag |-> r.tag] \in Lines
BY DEF AnyReqs, AReqs, XReqs, CReqs, Acks, Requests, Lines

\* The channel of a request tells its kind.
LEMMA RequestKinds ==
  /\ \A r \in AReqs : /\ r.ch = "A" /\ r.op \in {"Acquire", "Get", "Put"}
                      /\ r.op = "Acquire" => /\ r.client \in Clients
                                             /\ r.param \in {"NtoB", "NtoT", "BtoT"}
  /\ \A r \in XReqs : r.ch = "X" /\ r.op = "Flush"
  /\ \A r \in CReqs : r.ch = "C" /\ r.op = "ReleaseData" /\ r.client \in Clients
  /\ \A r \in Acks : r.op \in {"ProbeAck", "ProbeAckData"} /\ r.client \in Clients
BY DEF AReqs, XReqs, CReqs, Acks

\* The requests the clients make.
LEMMA RequestsMade ==
  ASSUME NEW a \in Lines, NEW v \in Values, NEW o \in BOOLEAN
  PROVE  /\ \A c \in Clients, p \in {"NtoB", "NtoT", "BtoT"} :
              Request("A", "Acquire", a, c, p, v, o) \in AReqs
         /\ \A op \in {"Get", "Put"} : Request("A", op, a, "none", "none", v, o) \in AReqs
         /\ Request("X", "Flush", a, "none", "none", v, o) \in XReqs
         /\ \A c \in Clients : Request("C", "ReleaseData", a, c, "TtoN", v, o) \in CReqs
         /\ \A c \in Clients, p \in {"TtoN", "TtoB", "BtoN", "BtoB", "NtoN"},
               op \in {"ProbeAck", "ProbeAckData"} :
              Request("C", op, a, c, p, v, o) \in Acks
<1>1. a.set \in Sets /\ a.tag \in Tags
  BY DEF Lines
<1>2. \A c \in Clients, p \in {"NtoB", "NtoT", "BtoT"} :
        Request("A", "Acquire", a, c, p, v, o) \in AReqs
  BY <1>1 DEF Request, AReqs, Requests
<1>3. \A op \in {"Get", "Put"} : Request("A", op, a, "none", "none", v, o) \in AReqs
  BY <1>1 DEF Request, AReqs, Requests
<1>4. Request("X", "Flush", a, "none", "none", v, o) \in XReqs
  BY <1>1 DEF Request, XReqs, Requests
<1>5. \A c \in Clients : Request("C", "ReleaseData", a, c, "TtoN", v, o) \in CReqs
  BY <1>1 DEF Request, CReqs, Requests
<1>6. \A c \in Clients, p \in {"TtoN", "TtoB", "BtoN", "BtoB", "NtoN"},
         op \in {"ProbeAck", "ProbeAckData"} : Request("C", op, a, c, p, v, o) \in Acks
  BY <1>1 DEF Request, Acks, Requests
<1> QED
  BY <1>2, <1>3, <1>4, <1>5, <1>6

\* Sequences of messages, as the channels use them.
LEMMA Channel ==
  ASSUME NEW S, NEW q \in Seq(S)
  PROVE  /\ \A e \in S : Append(q, e) \in Seq(S)
         /\ q # <<>> => Head(q) \in S /\ Tail(q) \in Seq(S)
OBVIOUS

-----------------------------------------------------------------------------
(* The types *)

\* The L1 clients keep the types.
LEMMA ClientTypes ==
  ASSUME icTypes, NEW c \in Clients, NEW a \in Lines,
         \/ \E p \in {"NtoB", "NtoT", "BtoT"} : ClientAcquire(c, a, p)
         \/ \E v \in Values : ClientStore(c, a, v)
         \/ ClientDrop(c, a) \/ ClientRelease(c, a)
  PROVE  icTypes'
<1>0. 0 \in Values /\ c \in Requesters /\ NoCopy \in Copies
  BY ParamAssumption DEF Requesters, NoCopy, Copies
<1>1. ASSUME NEW p \in {"NtoB", "NtoT", "BtoT"}, ClientAcquire(c, a, p) PROVE icTypes'
  <2>1. Request("A", "Acquire", a, c, p, 0, TRUE) \in AReqs
    BY <1>0, RequestsMade, Zenon
  <2>2. chanA' \in [Requesters -> Seq(AReqs)]
    BY <1>0, <1>1, <2>1, Channel, Zenon DEF ClientAcquire, icTypes
  <2> QED
    BY <1>1, <2>2, Zenon DEF ClientAcquire, icTypes, l2vars, memvars
<1>2. ASSUME NEW v \in Values, ClientStore(c, a, v) PROVE icTypes'
  <2>1. l1' \in [Clients -> [Lines -> Copies]] /\ ver' \in [Lines -> Values]
    BY <1>2 DEF ClientStore, icTypes, Copies
  <2> QED
    BY <1>2, <2>1 DEF ClientStore, icTypes, l2vars, reqvars
<1>3. CASE ClientDrop(c, a)
  <2>1. l1' \in [Clients -> [Lines -> Copies]]
    BY <1>0, <1>3 DEF ClientDrop, icTypes
  <2> QED
    BY <1>3, <2>1 DEF ClientDrop, icTypes, l2vars, reqvars, memvars
<1>4. CASE ClientRelease(c, a)
  <2>1. l1[c][a].val \in Values
    BY DEF icTypes, Copies
  <2>2. Request("C", "ReleaseData", a, c, "TtoN", l1[c][a].val, TRUE) \in CReqs
    BY <2>1, RequestsMade, Zenon
  <2>3. chanC' \in [Clients -> Seq(CReqs \cup Acks)]
    BY <1>4, <2>2, Channel, Zenon DEF ClientRelease, icTypes
  <2>4. l1' \in [Clients -> [Lines -> Copies]]
    BY <1>0, <1>4 DEF ClientRelease, icTypes
  <2> QED
    BY <1>4, <2>3, <2>4, Zenon DEF ClientRelease, icTypes, l2vars, reqvars, memvars
<1> QED
  BY <1>1, <1>2, <1>3, <1>4

\* Probes and their answers keep the types.
LEMMA ProbeTypes ==
  ASSUME icTypes, NEW c \in Clients, ClientProbed(c) \/ ClientProbeAck(c)
  PROVE  icTypes'
<1>1. CASE ClientProbed(c)
  <2>1. sourceB \in [remain : SUBSET Clients, line : Lines, param : {"toN", "toB"}]
    BY <1>1 DEF ClientProbed, icTypes
  <2>2. probe' \in [Clients -> [line : Lines, param : {"toN", "toB"}] \cup {None}]
    BY <1>1, <2>1 DEF ClientProbed, icTypes
  <2>3. sourceB' \in [remain : SUBSET Clients, line : Lines, param : {"toN", "toB"}] \cup {None}
    BY <1>1, <2>1, SMTT(60) DEF ClientProbed
  <2> QED
    BY <1>1, <2>2, <2>3 DEF ClientProbed, icTypes, l2vars, reqvars, memvars
<1>2. CASE ClientProbeAck(c)
  <2> DEFINE a == probe[c].line
             copy == l1[c][a]
             param == ProbeAckParam(copy.perm, probe[c].param)
             ack == IF copy.dirty THEN Request("C", "ProbeAckData", a, c, param, copy.val, TRUE)
                    ELSE Request("C", "ProbeAck", a, c, param, 0, TRUE)
             new == IF isToN(param) THEN NoCopy ELSE [copy EXCEPT !.perm = "B", !.dirty = FALSE]
  <2>1. a \in Lines /\ probe[c].param \in {"toN", "toB"}
    BY <1>2 DEF ClientProbeAck, icTypes
  <2>2. copy \in Copies
    BY <2>1 DEF icTypes
  <2>3. /\ chanC' = [chanC EXCEPT ![c] = Append(@, ack)]
        /\ l1' = [l1 EXCEPT ![c][a] = new] /\ probe' = [probe EXCEPT ![c] = None]
    BY <1>2 DEF ClientProbeAck
  <2> HIDE DEF a, copy
  <2>4. param \in {"TtoN", "TtoB", "BtoN", "BtoB", "NtoN"}
    BY <2>1, <2>2 DEF ProbeAckParam, Copies
  <2> HIDE DEF param
  <2>5. copy.val \in Values /\ 0 \in Values
    BY <2>2, ParamAssumption DEF Copies
  <2>6. ack \in Acks
    BY <2>1, <2>4, <2>5, RequestsMade, Zenon
  <2>7. new \in Copies
    BY <2>2, <2>5, Zenon DEF Copies, NoCopy
  <2> HIDE DEF ack, new
  <2>8. chanC' \in [Clients -> Seq(CReqs \cup Acks)]
    BY <2>3, <2>6, Channel DEF icTypes
  <2>9. l1' \in [Clients -> [Lines -> Copies]]
    BY <2>1, <2>3, <2>7 DEF icTypes
  <2>10. probe' \in [Clients -> [line : Lines, param : {"toN", "toB"}] \cup {None}]
    BY <2>3, SMTT(60) DEF icTypes
  <2> QED
    BY <1>2, <2>8, <2>9, <2>10, Zenon DEF ClientProbeAck, icTypes, l2vars, reqvars, memvars
<1> QED
  BY <1>1, <1>2

\* So does the client's end of channel D.
LEMMA AnswerTypes ==
  ASSUME icTypes, NEW c \in Clients, ClientD(c)
  PROVE  icTypes'
<1> DEFINE msg == Head(chanD[c])
<1>1. msg \in Grants \cup ReleaseAcks /\ Tail(chanD[c]) \in Seq(Grants \cup ReleaseAcks)
  BY Channel DEF ClientD, icTypes
<1>2. chanD' \in [Clients -> Seq(Grants \cup ReleaseAcks)]
  BY <1>1 DEF ClientD, icTypes
<1>3. CASE msg.op = "ReleaseAck"
  BY <1>2, <1>3 DEF ClientD, icTypes, l2vars, reqvars, memvars
<1>4. CASE msg.op = "Grant"
  <2> DEFINE new == CASE msg.param = "NtoB" -> [perm |-> "B", dirty |-> FALSE, val |-> msg.val]
                      [] msg.param = "NtoT" -> [perm |-> "T", dirty |-> FALSE, val |-> msg.val]
                      [] msg.param = "BtoT" -> [l1[c][msg.line] EXCEPT !.perm = "T"]
  <2>1. msg \in Grants
    BY <1>1, <1>4 DEF ReleaseAcks
  <2>2. /\ msg.line \in Lines /\ msg.sink \in MSHRs /\ msg.val \in Values
        /\ msg.param \in {"NtoB", "NtoT", "BtoT"}
    BY <2>1, SMTT(60) DEF Grants
  <2>3. l1' = [l1 EXCEPT ![c][msg.line] = new] /\ chanE' = chanE \cup {msg.sink}
    BY <1>4, Zenon DEF ClientD
  <2> HIDE DEF msg
  <2>4. l1[c][msg.line] \in Copies
    BY <2>2 DEF icTypes
  <2>5. new \in Copies
    BY <2>2, <2>4 DEF Copies
  <2> HIDE DEF new
  <2>6. l1' \in [Clients -> [Lines -> Copies]]
    BY <2>2, <2>3, <2>5 DEF icTypes
  <2>7. chanE' \subseteq MSHRs
    BY <2>2, <2>3 DEF icTypes
  <2> QED
    BY <1>2, <2>6, <2>7 DEF ClientD, icTypes, l2vars, reqvars, memvars
<1> QED
  BY <1>3, <1>4 DEF ClientD

\* SinkA takes a request.
LEMMA ArriveATypes ==
  ASSUME icTypes, NEW q \in Requesters, ArriveA(q)
  PROVE  icTypes'
<1>1. /\ chanA \in [Requesters -> Seq(AReqs)] /\ chanA[q] # <<>>
      /\ chanA' = [chanA EXCEPT ![q] = Tail(@)] /\ sinkA' = Head(chanA[q])
  BY Zenon DEF ArriveA, icTypes
<1>2. Head(chanA[q]) \in AReqs /\ Tail(chanA[q]) \in Seq(AReqs)
  BY <1>1, Channel, Zenon
<1>3. chanA' \in [Requesters -> Seq(AReqs)] /\ sinkA' \in AReqs
  BY <1>1, <1>2
<1> QED
  BY <1>3, Zenon DEF ArriveA, icTypes, l1vars, l2vars, memvars

\* SinkC takes a message of a client.
LEMMA ArriveCTypes ==
  ASSUME icTypes, NEW c \in Clients, ArriveC(c)
  PROVE  icTypes'
<1> DEFINE msgs == CReqs \cup Acks
<1>1. /\ chanC \in [Clients -> Seq(msgs)] /\ chanC[c] # <<>>
      /\ chanC' = [chanC EXCEPT ![c] = Tail(@)]
      /\ sinkC' = [msg |-> Head(chanC[c]), first |-> TRUE]
  BY Zenon DEF ArriveC, icTypes
<1> HIDE DEF msgs
<1>2. Head(chanC[c]) \in msgs /\ Tail(chanC[c]) \in Seq(msgs)
  BY <1>1, Channel, Zenon
<1>3. chanC' \in [Clients -> Seq(msgs)] /\ sinkC' \in [msg : msgs, first : BOOLEAN]
  BY <1>1, <1>2
<1> QED
  BY <1>3, Zenon DEF msgs, ArriveC, icTypes, l1vars, l2vars, reqvars, memvars

\* The scheduler takes a request of a sink.
LEMMA AcceptTypes ==
  ASSUME icTypes, AcceptA \/ AcceptX \/ AcceptC
  PROVE  icTypes'
<1>1. CASE AcceptA
  BY <1>1, Zenon DEF AcceptA, icTypes, l1vars, memvars
<1>2. CASE AcceptX
  BY <1>2, Zenon DEF AcceptX, icTypes, l1vars, memvars
<1>3. CASE AcceptC
  BY <1>3, Zenon DEF AcceptC, icTypes, l1vars, reqvars, memvars
<1> QED
  BY <1>1, <1>2, <1>3, Zenon

\* Requests on their way to the MSHRs keep the types.
LEMMA ArriveTypes ==
  ASSUME icTypes,
         \/ \E op \in UncachedOps, a \in Lines, v \in Values, o \in BOOLEAN :
              UncachedRequest(op, a, v, o)
         \/ \E a \in Lines : FlushRequest(a)
         \/ \E q \in Requesters : ArriveA(q)
         \/ \E c \in Clients : ArriveC(c)
         \/ AcceptA \/ AcceptX \/ AcceptC
  PROVE  icTypes'
<1>1. ASSUME NEW op \in UncachedOps, NEW a \in Lines, NEW v \in Values, NEW o \in BOOLEAN,
             UncachedRequest(op, a, v, o)
      PROVE  icTypes'
  <2>1. op \in {"Get", "Put"} /\ "none" \in Requesters
    BY ParamAssumption DEF Requesters
  <2>2. Request("A", op, a, "none", "none", v, o) \in AReqs
    BY <2>1, RequestsMade
  <2>3. chanA' \in [Requesters -> Seq(AReqs)]
    BY <1>1, <2>1, <2>2, Channel, SMTT(60) DEF UncachedRequest, icTypes
  <2> QED
    BY <1>1, <2>3 DEF UncachedRequest, icTypes, l2vars, memvars
<1>2. ASSUME NEW a \in Lines, FlushRequest(a) PROVE icTypes'
  <2>1. 0 \in Values
    BY ParamAssumption
  <2>2. chanX' \in XReqs
    BY <1>2, <2>1, RequestsMade, Zenon DEF FlushRequest
  <2> QED
    BY <1>2, <2>2, Zenon DEF FlushRequest, icTypes, l1vars, l2vars, memvars
<1>3. ASSUME NEW q \in Requesters, ArriveA(q) PROVE icTypes'
  BY <1>3, ArriveATypes, Zenon
<1>4. ASSUME NEW c \in Clients, ArriveC(c) PROVE icTypes'
  BY <1>4, ArriveCTypes, Zenon
<1>5. CASE AcceptA \/ AcceptX \/ AcceptC
  BY <1>5, AcceptTypes, Zenon
<1> QED
  BY <1>1, <1>2, <1>3, <1>4, <1>5, Zenon

-----------------------------------------------------------------------------
(* Answers change neither the request of an MSHR nor its way *)

\* What an answer leaves of MSHR M.
Kept(M, N) ==
  /\ N.valid <=> M.valid
  /\ M.valid => N.req = M.req /\ (N.metaValid <=> M.metaValid)
  /\ M.valid /\ M.metaValid =>
       /\ N.s = M.s /\ N.w \subseteq M.w
       /\ N.meta.tag = M.meta.tag /\ N.meta.way = M.meta.way /\ N.meta.state = M.meta.state
       /\ N.meta.clients = M.meta.clients

\* The states of an MSHR.
MshrStates == {Idle} \cup WaitingMSHRs \cup WorkingMSHRs

\* An MSHR is idle, waits for the directory, or works.
LEMMA MshrCases ==
  ASSUME NEW M \in MshrStates
  PROVE  /\ M = Idle \/ M \in WaitingMSHRs \/ M \in WorkingMSHRs
         /\ M = Idle => ~M.valid
         /\ M \in WaitingMSHRs => M.valid /\ ~M.metaValid /\ M.w = {} /\ M.s = {}
         /\ M \in WorkingMSHRs => M.valid /\ M.metaValid
         /\ M.valid => M.req \in AnyReqs
         /\ M.valid /\ M.metaValid => M \in WorkingMSHRs
         /\ M.valid /\ ~M.metaValid => M \in WaitingMSHRs
         /\ ~M.valid => M = Idle
<1>1. ~Idle.valid
  BY DEF Idle
<1>2. \A N \in WaitingMSHRs : N.valid /\ ~N.metaValid /\ N.w = {} /\ N.s = {} /\ N.req \in AnyReqs
  BY Zenon DEF WaitingMSHRs
<1>3. \A N \in WorkingMSHRs : N.valid /\ N.metaValid /\ N.req \in AnyReqs
  BY Zenon DEF WorkingMSHRs
<1>4. M = Idle \/ M \in WaitingMSHRs \/ M \in WorkingMSHRs
  BY DEF MshrStates
<1> QED
  BY <1>1, <1>2, <1>3, <1>4, Zenon

\* The fields of an MSHR that works.
LEMMA WorkingFields ==
  ASSUME NEW M \in WorkingMSHRs
  PROVE  /\ M.valid /\ M.metaValid /\ M.req \in AnyReqs /\ M.meta \in Metas
         /\ M.s \in SUBSET Steps /\ M.w \in SUBSET Waits /\ M.gotT \in BOOLEAN
         /\ M.probesDone \in SUBSET Clients /\ M.probesToN \in SUBSET Clients
         /\ M.meta.way \in Ways /\ M.meta.clients \in SUBSET Clients
         /\ M.meta.tag \in Tags \cup {"none"} /\ M.meta.dirty \in BOOLEAN
         /\ M.meta.hit \in BOOLEAN /\ M.meta.state \in {"INVALID", "BRANCH", "TRUNK", "TIP"}
BY Zenon DEF WorkingMSHRs, Metas

\* The answers.
LEMMA AckKeeps ==
  ASSUME NEW M \in MshrStates
  PROVE  SinkEGrantAck(M) \in MshrStates /\ Kept(M, SinkEGrantAck(M))
<1>1. CASE M = Idle
  <2>1. SinkEGrantAck(M) = Idle
    BY <1>1 DEF SinkEGrantAck, Idle
  <2> QED
    BY <1>1, <2>1 DEF Kept, MshrStates, Idle
<1>2. CASE M \in WaitingMSHRs
  BY <1>2, Zenon DEF SinkEGrantAck, Kept, MshrStates, WaitingMSHRs
<1>3. CASE M \in WorkingMSHRs
  BY <1>3, Zenon DEF SinkEGrantAck, Kept, MshrStates, WorkingMSHRs
<1> QED
  BY <1>1, <1>2, <1>3 DEF MshrStates

\* A ReleaseAck from memory (sinkD) ends a wait and touches nothing else of its MSHR.
LEMMA ReleaseAckKeeps ==
  ASSUME NEW M \in WorkingMSHRs
  PROVE  SinkDReleaseAck(M) \in WorkingMSHRs /\ Kept(M, SinkDReleaseAck(M))
BY Zenon DEF SinkDReleaseAck, Kept, WorkingMSHRs

\* A Grant from memory (sinkD) ends the wait for the line.
LEMMA GrantKeeps ==
  ASSUME NEW M \in WorkingMSHRs, NEW last \in BOOLEAN
  PROVE  /\ SinkDGrant(M, TRUE, last) \in WorkingMSHRs /\ Kept(M, SinkDGrant(M, TRUE, last))
         /\ "releaseack" \in M.w => "releaseack" \in SinkDGrant(M, TRUE, last).w
BY Zenon DEF SinkDGrant, Kept, WorkingMSHRs

\* A client's ProbeAck (sinkC) is counted by the MSHR that probed.
LEMMA ProbeAckKeeps ==
  ASSUME NEW M \in WorkingMSHRs, NEW c \in Clients, NEW t, NEW p, NEW data \in BOOLEAN,
         NEW last \in BOOLEAN
  PROVE  LET N == SinkCResponse(M, c, t, p, data, last) IN
         /\ N \in WorkingMSHRs /\ Kept(M, N)
         /\ "releaseack" \in M.w => "releaseack" \in N.w
<1> DEFINE gone == IF ~(M.probesDone \cup {c} = ProbeClients(M)) THEN {}
                   ELSE {"rprobeackfirst", "pprobeackfirst"}
                        \cup (IF last THEN {"rprobeacklast", "pprobeacklast"} ELSE {})
                        \cup (IF last \/ M.req.offset0 THEN {"pprobeack"} ELSE {})
           d == M.meta.dirty \/ (M.metaValid /\ M.meta.state # "INVALID" /\ t = M.meta.tag /\ data)
           n == M.probesToN \cup (IF isToN(p) THEN {c} ELSE {})
           X == [M EXCEPT !.probesDone = M.probesDone \cup {c}]
           Y == [X EXCEPT !.probesToN = n]
           Z == [Y EXCEPT !.w = M.w \ gone]
           N == [Z EXCEPT !.meta = [M.meta EXCEPT !.dirty = d]]
<1>1. SinkCResponse(M, c, t, p, data, last) = N
  BY DEF SinkCResponse, WorkingMSHRs
<1>2. "releaseack" \notin gone /\ d \in BOOLEAN /\ n \in SUBSET Clients
  BY WorkingFields
<1> HIDE DEF gone, d, n
<1>3. /\ [M.meta EXCEPT !.dirty = d] \in Metas
      /\ [M.meta EXCEPT !.dirty = d].tag = M.meta.tag /\ [M.meta EXCEPT !.dirty = d].way = M.meta.way
      /\ [M.meta EXCEPT !.dirty = d].state = M.meta.state
      /\ [M.meta EXCEPT !.dirty = d].clients = M.meta.clients
  BY <1>2, WorkingFields DEF Metas
<1> DEFINE e == [M.meta EXCEPT !.dirty = d]
<1> HIDE DEF e
<1>4. N = [Z EXCEPT !.meta = e]
  BY DEF e
<1>5. /\ N \in WorkingMSHRs /\ N.valid = M.valid /\ N.metaValid = M.metaValid /\ N.req = M.req
      /\ N.s = M.s /\ N.w = M.w \ gone /\ N.meta = e
  BY <1>2, <1>3, <1>4, Zenon DEF WorkingMSHRs, e
<1> HIDE DEF N
<1> QED
  BY <1>1, <1>2, <1>3, <1>5 DEF Kept, e

\* The invariant but for the types.
icStructure == icMshrs /\ icPlans /\ OneOwner /\ icWays /\ UniqueWay

\* The answers of memory and of the clients keep the types and the plans of the MSHRs.
LEMMA AnswersKeep ==
  ASSUME icStructure, requests' = requests, dir' = dir,
         mshr' \in [MSHRs -> MshrStates], \A m \in MSHRs : Kept(mshr[m], mshr'[m]),
         \A m \in MSHRs : outer'[m] # None => outer'[m] = outer[m],
         \A m \in MSHRs : Active(m) /\ "releaseack" \in mshr[m].w =>
           "releaseack" \in mshr'[m].w \/ (outer[m] # None /\ outer'[m] = None)
  PROVE  icStructure'
<1>1. \A m \in MSHRs : /\ mshr'[m].valid <=> mshr[m].valid
                       /\ mshr[m].valid => mshr'[m].req = mshr[m].req
                       /\ Active(m)' <=> Active(m)
  BY Zenon DEF Kept, Active
<1>2. \A m \in MSHRs : Active(m) =>
        /\ mshr'[m].s = mshr[m].s /\ mshr'[m].w \subseteq mshr[m].w
        /\ mshr'[m].meta.tag = mshr[m].meta.tag /\ mshr'[m].meta.way = mshr[m].meta.way
        /\ mshr'[m].meta.state = mshr[m].meta.state
        /\ mshr'[m].meta.clients = mshr[m].meta.clients
        /\ mshr'[m].req = mshr[m].req
  BY Zenon DEF Kept, Active
<1>3. icMshrs'
  <2>1. \A m \in MSHRs : QueueA(m)' = QueueA(m) /\ QueueC(m)' = QueueC(m)
    BY <1>1 DEF QueueA, QueueC
  <2>2. mshr' \in [MSHRs -> {Idle} \cup WaitingMSHRs \cup WorkingMSHRs]
    BY Zenon DEF MshrStates
  <2>3. icMshrs
    BY DEF icStructure
  <2>4. \A m \in MSHRs : mshr'[m].valid /\ m \notin AbcMSHRs => mshr'[m].req \in CReqs
    BY <1>1, <2>3, Zenon DEF icMshrs
  <2>5. \A m \in MSHRs : /\ requests'[m].A \in Seq(QueueA(m))'
                         /\ requests'[m].C \in Seq(QueueC(m))'
    BY <2>1, <2>3, Zenon DEF icMshrs
  <2> QED
    BY <2>2, <2>3, <2>4, <2>5, Zenon DEF icMshrs
<1>4. icPlans'
  BY <1>1, <1>2 DEF icStructure, icPlans
<1>5. OneOwner'
  BY <1>1, <1>2, SMTT(60) DEF icStructure, OneOwner
<1>6. icWays'
  <2>1. \A m \in MSHRs : Active(m)' => OthersDiffer(mshr[m], dir[mshr[m].req.set])'
    <3> SUFFICES ASSUME NEW m \in MSHRs, Active(m)'
                 PROVE  OthersDiffer(mshr[m], dir[mshr[m].req.set])'
      OBVIOUS
    <3>1. Active(m)
      BY <1>1, Zenon
    <3>2. OthersDiffer(mshr[m], dir[mshr[m].req.set])
      BY <3>1, Zenon DEF icStructure, icWays
    <3>3. /\ mshr'[m].req = mshr[m].req /\ mshr'[m].meta.way = mshr[m].meta.way
          /\ mshr'[m].meta.tag = mshr[m].meta.tag /\ mshr'[m].meta.state = mshr[m].meta.state
      BY <1>2, <3>1, Zenon
    <3> QED
      BY <3>2, <3>3, Zenon DEF OthersDiffer
  <2>2. Active(c_mshr)' => SameLine(mshr[c_mshr], dir[mshr[c_mshr].req.set])'
    BY <1>1, <1>2, Numbers, Zenon DEF icStructure, icWays, SameLine
  <2>3. \A m \in MSHRs : Active(m)' /\ mshr'[m].meta.clients # {} => mshr'[m].meta.tag \in Tags
    BY <1>1, <1>2, Zenon DEF icStructure, icWays
  <2>4. \A s \in Sets : \A w \in Ways : dir'[s][w].clients # {} => dir'[s][w].tag \in Tags
    BY Zenon DEF icStructure, icWays
  <2> QED
    BY <2>1, <2>2, <2>3, <2>4, Zenon DEF icWays
<1> QED
  BY <1>3, <1>4, <1>5, <1>6 DEF icStructure, UniqueWay

-----------------------------------------------------------------------------
(* Requests reach the MSHRs *)

\* A request for an MSHR waits there for the directory.
LEMMA AllocatedWaits ==
  ASSUME NEW r \in AnyReqs
  PROVE  /\ Allocated(r) \in WaitingMSHRs /\ Allocated(r).valid /\ ~Allocated(r).metaValid
         /\ Allocated(r).req = r
BY DEF Allocated, WaitingMSHRs

\* The queues of an MSHR that is not in use are empty.
LEMMA QueuesEmpty ==
  ASSUME icMshrs, NEW m \in MSHRs, ~mshr[m].valid
  PROVE  requests[m].A = <<>> /\ requests[m].C = <<>>
<1>1. QueueA(m) = {} /\ QueueC(m) = {}
  BY DEF QueueA, QueueC
<1>2. requests[m].A \in Seq({}) /\ requests[m].C \in Seq({})
  BY <1>1 DEF icMshrs
<1>3. \A q \in Seq({}) : q = <<>>
  OBVIOUS
<1> QED
  BY <1>2, <1>3, Zenon

\* A request takes an MSHR that is not in use.
LEMMA NewRequest ==
  ASSUME icStructure, NEW n \in MSHRs, NEW r \in AnyReqs, ~mshr[n].valid,
         n \notin AbcMSHRs => r \in CReqs,
         \A m \in MSHRs : mshr[m].valid /\ mshr[m].req.set = r.set =>
           n = c_mshr /\ Active(m) /\ mshr[m].req.ch # "C",
         mshr' = [mshr EXCEPT ![n] = Allocated(r)],
         requests' = requests, dir' = dir, outer' = outer
  PROVE  icStructure'
<1>1. /\ mshr'[n] \in WaitingMSHRs /\ mshr'[n].valid /\ ~mshr'[n].metaValid /\ mshr'[n].req = r
      /\ \A m \in MSHRs \ {n} : mshr'[m] = mshr[m]
  BY AllocatedWaits DEF icStructure, icMshrs
<1>2. /\ ~Active(n) /\ ~Active(n)' /\ \A m \in MSHRs \ {n} : Active(m)' <=> Active(m)
      /\ \A m \in MSHRs : Active(m)' => m # n /\ Active(m) /\ mshr'[m] = mshr[m]
  BY <1>1 DEF Active
<1>3. icMshrs'
  <2>1. mshr' \in [MSHRs -> {Idle} \cup WaitingMSHRs \cup WorkingMSHRs]
    BY <1>1 DEF icStructure, icMshrs
  <2>2. requests' \in [MSHRs -> [A : Seq(AReqs \cup XReqs), C : Seq(CReqs)]]
    BY DEF icStructure, icMshrs
  <2>3. \A m \in MSHRs : mshr'[m].valid /\ m \notin AbcMSHRs => mshr'[m].req \in CReqs
    BY <1>1 DEF icStructure, icMshrs
  <2>4. ASSUME NEW m \in MSHRs
        PROVE  (requests[m].A \in Seq(QueueA(m)) /\ requests[m].C \in Seq(QueueC(m)))'
    <3>1. CASE m = n
      <4>1. requests'[n].A = <<>> /\ requests'[n].C = <<>>
        BY QueuesEmpty DEF icStructure
      <4>2. \A S : <<>> \in Seq(S)
        OBVIOUS
      <4> QED
        BY <3>1, <4>1, <4>2, Zenon
    <3>2. CASE m # n
      <4>1. QueueA(m)' = QueueA(m) /\ QueueC(m)' = QueueC(m)
        BY <1>1, <3>2, SMTT(60) DEF QueueA, QueueC
      <4> QED
        BY <4>1 DEF icStructure, icMshrs
    <3> QED
      BY <3>1, <3>2
  <2> QED
    BY <2>1, <2>2, <2>3, <2>4 DEF icMshrs
<1>4. icPlans'
  BY <1>1, <1>2 DEF icStructure, icPlans
<1>5. OneOwner'
  <2> SUFFICES ASSUME NEW k \in MSHRs, NEW m \in MSHRs, k < m, mshr'[k].valid, mshr'[m].valid,
                      mshr'[k].req.set = mshr'[m].req.set
               PROVE  m = c_mshr /\ Active(k)' /\ mshr'[k].req.ch # "C"
    BY DEF OneOwner
  <2>1. CASE k # n /\ m # n
    BY <1>1, <1>2, <2>1, SMTT(60) DEF icStructure, OneOwner
  <2>2. CASE m = n
    <3>1. k # n
      BY <2>2, Numbers
    <3> QED
      BY <1>1, <1>2, <2>2, <3>1
  <2>3. CASE k = n
    <3>1. m # n
      BY <2>3, Numbers
    <3>2. n = c_mshr
      BY <1>1, <2>3, <3>1, ZenonT(60)
    <3> QED
      BY <2>3, <3>1, <3>2, Numbers
  <2> QED
    BY <2>1, <2>2, <2>3
<1>6. icWays'
  BY <1>1, <1>2, Numbers DEF icStructure, icWays
<1> QED
  BY <1>3, <1>4, <1>5, <1>6, SMTT(60) DEF icStructure, UniqueWay

\* A request is queued behind the MSHR that owns its set.
LEMMA QueuedRequest ==
  ASSUME icStructure, NEW n \in MSHRs, NEW r \in AnyReqs, mshr[n].valid,
         mshr[n].req.set = r.set, r.ch # "C" => n \in AbcMSHRs,
         requests' = IF r.ch = "C" THEN [requests EXCEPT ![n].C = Append(@, r)]
                     ELSE [requests EXCEPT ![n].A = Append(@, r)],
         mshr' = mshr, dir' = dir, outer' = outer
  PROVE  icStructure'
<1>1. (r.ch = "C" => r \in CReqs) /\ (r.ch # "C" => r \in AReqs \cup XReqs)
  BY RequestKinds DEF AnyReqs
<1>2. \A m \in MSHRs : /\ QueueA(m)' = QueueA(m) /\ QueueC(m)' = QueueC(m)
                       /\ Active(m)' <=> Active(m)
  BY DEF QueueA, QueueC, Active
<1>3. /\ r.ch = "C" => r \in QueueC(n)
      /\ r.ch # "C" => r \in QueueA(n)
  BY <1>1 DEF QueueA, QueueC
<1>4. icMshrs'
  <2>1. /\ requests \in [MSHRs -> [A : Seq(AReqs \cup XReqs), C : Seq(CReqs)]]
        /\ \A m \in MSHRs : /\ requests[m].A \in Seq(QueueA(m))
                            /\ requests[m].C \in Seq(QueueC(m))
        /\ requests[n] \in [A : Seq(AReqs \cup XReqs), C : Seq(CReqs)]
    BY Zenon DEF icStructure, icMshrs
  <2>4. requests[n].A \in Seq(AReqs \cup XReqs) /\ requests[n].C \in Seq(CReqs)
    BY <2>1
  <2>2. CASE r.ch = "C"
    <3> DEFINE q == Append(requests[n].C, r)
    <3>1. q \in Seq(CReqs) /\ q \in Seq(QueueC(n))
      BY <1>1, <1>3, <2>1, <2>2, <2>4, Channel
    <3>2. requests' = [requests EXCEPT ![n].C = q]
      BY <2>2
    <3> HIDE DEF q
    <3>5. [requests[n] EXCEPT !.C = q] \in [A : Seq(AReqs \cup XReqs), C : Seq(CReqs)]
      BY <2>1, <3>1, Zenon
    <3>3. requests' \in [MSHRs -> [A : Seq(AReqs \cup XReqs), C : Seq(CReqs)]]
      BY <2>1, <3>2, <3>5, Zenon
    <3>4. \A m \in MSHRs : /\ requests'[m].A \in Seq(QueueA(m))
                           /\ requests'[m].C \in Seq(QueueC(m))
      BY <2>1, <3>1, <3>2
    <3> QED
      BY <1>2, <3>3, <3>4 DEF icStructure, icMshrs
  <2>3. CASE r.ch # "C"
    <3> DEFINE q == Append(requests[n].A, r)
    <3>1. q \in Seq(AReqs \cup XReqs) /\ q \in Seq(QueueA(n))
      BY <1>1, <1>3, <2>1, <2>3, <2>4, Channel
    <3>2. requests' = [requests EXCEPT ![n].A = q]
      BY <2>3
    <3> HIDE DEF q
    <3>5. [requests[n] EXCEPT !.A = q] \in [A : Seq(AReqs \cup XReqs), C : Seq(CReqs)]
      BY <2>1, <3>1, Zenon
    <3>3. requests' \in [MSHRs -> [A : Seq(AReqs \cup XReqs), C : Seq(CReqs)]]
      BY <2>1, <3>2, <3>5, Zenon
    <3>4. \A m \in MSHRs : /\ requests'[m].A \in Seq(QueueA(m))
                           /\ requests'[m].C \in Seq(QueueC(m))
      BY <2>1, <3>1, <3>2
    <3> QED
      BY <1>2, <3>3, <3>4 DEF icStructure, icMshrs
  <2> QED
    BY <2>2, <2>3
<1>5. icPlans' /\ OneOwner'
  BY <1>2 DEF icStructure, icPlans, OneOwner
<1>6. icWays'
  BY <1>2, Numbers DEF icStructure, icWays
<1> QED
  BY <1>4, <1>5, <1>6 DEF icStructure, UniqueWay

\* The scheduler accepts a request.
LEMMA AcceptKeeps ==
  ASSUME icStructure, NEW r \in AnyReqs, Accept(r), dir' = dir, outer' = outer
  PROVE  icStructure'
<1>0. (r.ch = "C" <=> r \in CReqs) /\ r.set \in Sets
  BY RequestKinds, RequestFields, Zenon DEF AnyReqs
<1>1. CASE Allocate(r)
  <2>1. PICK n \in Free(r) : mshr' = [mshr EXCEPT ![n] = Allocated(r)]
    BY <1>1, Zenon DEF Allocate
  <2>2. n \in MSHRs /\ ~mshr[n].valid /\ (n \notin AbcMSHRs => r \in CReqs)
    BY <1>0, <2>1, Numbers, Zenon DEF Free, prioFilter
  <2>3. \A m \in MSHRs : ~(mshr[m].valid /\ mshr[m].req.set = r.set)
    BY <1>1 DEF Allocate, SetMatches
  <2>4. mshr' = [mshr EXCEPT ![n] = Allocated(r)] /\ requests' = requests
    BY <1>1, <2>1, Zenon DEF Allocate
  <2> QED
    BY <2>2, <2>3, <2>4, NewRequest, Zenon
<1>2. CASE Nest(r)
  <2>1. PICK k \in MSHRs : mshr[k].valid /\ mshr[k].req.set = r.set /\ nestC(mshr[k])
    BY <1>2 DEF Nest, SetMatches
  <2>2. Active(k) /\ mshr[k].w # {}
    BY <2>1 DEF nestC, Active
  <2>3. mshr[k].req.ch # "C"
    BY <2>2 DEF icStructure, icPlans
  <2>4. ~mshr[c_mshr].valid /\ r \in CReqs /\ c_mshr \in MSHRs
    BY <1>0, <1>2, Numbers DEF Nest
  <2>5. ASSUME NEW m \in MSHRs, mshr[m].valid, mshr[m].req.set = r.set
        PROVE  Active(m) /\ mshr[m].req.ch # "C"
    <3>1. m # c_mshr /\ k # c_mshr
      BY <2>1, <2>4, <2>5
    <3>2. m = k \/ m < k \/ k < m
      BY Numbers
    <3>3. m = k
      BY <2>1, <2>5, <3>1, <3>2 DEF icStructure, OneOwner
    <3> QED
      BY <2>2, <2>3, <3>3
  <2>6. mshr' = [mshr EXCEPT ![c_mshr] = Allocated(r)] /\ requests' = requests
    BY <1>2 DEF Nest
  <2> QED
    BY <2>4, <2>5, <2>6, NewRequest, Zenon
<1>3. CASE Queue(r)
  <2>1. PICK n \in lowerMatches1(r) :
          requests' = IF r.ch = "C" THEN [requests EXCEPT ![n].C = Append(@, r)]
                      ELSE [requests EXCEPT ![n].A = Append(@, r)]
    BY <1>3, Zenon DEF Queue
  <2>2. n \in SetMatches(r) \cap prioFilter(r)
    BY <2>1, Zenon DEF lowerMatches1
  <2>3. /\ n \in MSHRs /\ mshr[n].valid /\ mshr[n].req.set = r.set
        /\ r.ch # "C" => n \in AbcMSHRs
    BY <2>2 DEF SetMatches, prioFilter
  <2>4. mshr' = mshr
    BY <1>3, Zenon DEF Queue
  <2> QED
    BY <2>1, <2>3, <2>4, QueuedRequest, Zenon
<1> QED
  BY <1>1, <1>2, <1>3 DEF Accept

-----------------------------------------------------------------------------
(* Responses *)

\* What the invariant says of one MSHR.
LEMMA OneMshr ==
  ASSUME icStructure, NEW m \in MSHRs
  PROVE  /\ mshr \in [MSHRs -> MshrStates] /\ mshr[m] \in MshrStates
         /\ Active(m) => mshr[m] \in WorkingMSHRs
         /\ outer[m] # None => mshr[m] \in WorkingMSHRs
<1>1. mshr \in [MSHRs -> MshrStates] /\ mshr[m] \in MshrStates
  BY DEF icStructure, icMshrs, MshrStates
<1>2. outer[m] # None => Active(m)
  BY DEF icStructure, icPlans
<1> QED
  BY <1>1, <1>2, MshrCases DEF Active

\* An MSHR that does not change is kept.
LEMMA KeptSame == \A M : Kept(M, M)
BY DEF Kept

\* One MSHR is answered.
LEMMA AnswerKeeps ==
  ASSUME icStructure, NEW m \in MSHRs, NEW N \in MshrStates, Kept(mshr[m], N),
         mshr' = [mshr EXCEPT ![m] = N], requests' = requests, dir' = dir,
         \A n \in MSHRs : outer'[n] # None => outer'[n] = outer[n],
         Active(m) /\ "releaseack" \in mshr[m].w =>
           "releaseack" \in N.w \/ (outer[m] # None /\ outer'[m] = None)
  PROVE  icStructure'
<1>1. mshr' \in [MSHRs -> MshrStates] /\ \A n \in MSHRs : mshr'[n] = IF n = m THEN N ELSE mshr[n]
  BY OneMshr
<1>2. \A n \in MSHRs : Kept(mshr[n], mshr'[n])
  BY <1>1, KeptSame
<1>3. \A n \in MSHRs : Active(n) /\ "releaseack" \in mshr[n].w =>
         "releaseack" \in mshr'[n].w \/ (outer[n] # None /\ outer'[n] = None)
  BY <1>1
<1> QED
  BY <1>1, <1>2, <1>3, AnswersKeep

\* A write to the banked store, whatever the way, leaves values there.
LEMMA BankWrite ==
  ASSUME NEW B \in [Sets -> [Ways -> Values]], NEW s, NEW w, NEW v \in Values
  PROVE  [B EXCEPT ![s][w] = v] \in [Sets -> [Ways -> Values]]
BY Zenon

\* A GrantAck.
LEMMA SinkEKeeps ==
  ASSUME icTypes, icStructure, NEW m \in MSHRs, SinkE(m)
  PROVE  icTypes' /\ icStructure'
<1>1. icTypes'
  BY Zenon DEF SinkE, icTypes, l1vars, reqvars, memvars
<1>2. mshr[m] \in MshrStates /\ (Active(m) => mshr[m] \in WorkingMSHRs)
  BY OneMshr
<1>3. SinkEGrantAck(mshr[m]) \in MshrStates /\ Kept(mshr[m], SinkEGrantAck(mshr[m]))
  BY <1>2, AckKeeps
<1>4. ASSUME Active(m), "releaseack" \in mshr[m].w
      PROVE  "releaseack" \in SinkEGrantAck(mshr[m]).w
  <2>1. mshr[m] \in WorkingMSHRs
    BY <1>2, <1>4
  <2>2. SinkEGrantAck(mshr[m]).w = mshr[m].w \ {"grantack"}
    BY <2>1 DEF SinkEGrantAck, WorkingMSHRs
  <2> QED
    BY <1>4, <2>2
<1>5. /\ mshr' = [mshr EXCEPT ![m] = SinkEGrantAck(mshr[m])] /\ requests' = requests
      /\ dir' = dir /\ outer' = outer
  BY DEF SinkE, memvars
<1>6. icStructure'
  BY <1>3, <1>4, <1>5, AnswerKeeps, Zenon
<1> QED
  BY <1>1, <1>6

\* The two beats of a grant of the memory.
LEMMA SinkDKeeps ==
  ASSUME icTypes, icStructure, NEW m \in MSHRs, SinkDFirst(m) \/ SinkDLast(m)
  PROVE  icTypes' /\ icStructure'
<1>1. mshr[m] \in WorkingMSHRs
  BY OneMshr, Zenon DEF SinkDFirst, SinkDLast
<1>2. /\ requests' = requests /\ dir' = dir /\ outer' = outer
      /\ \E last \in BOOLEAN : mshr' = [mshr EXCEPT ![m] = SinkDGrant(mshr[m], TRUE, last)]
  BY Zenon DEF SinkDFirst, SinkDLast, memvars
<1>3. PICK last \in BOOLEAN : mshr' = [mshr EXCEPT ![m] = SinkDGrant(mshr[m], TRUE, last)]
  BY <1>2, Zenon
<1>4. /\ SinkDGrant(mshr[m], TRUE, last) \in MshrStates
      /\ Kept(mshr[m], SinkDGrant(mshr[m], TRUE, last))
      /\ "releaseack" \in mshr[m].w => "releaseack" \in SinkDGrant(mshr[m], TRUE, last).w
  BY <1>1, GrantKeeps, Zenon DEF MshrStates
<1>5. icStructure'
  BY <1>2, <1>3, <1>4, AnswerKeeps, Zenon
<1>6. CASE SinkDFirst(m)
  <2> DEFINE r == mshr[m].req
  <2>1. r \in AnyReqs
    BY <1>1, WorkingFields, SMTT(60)
  <2>2. mem[[set |-> r.set, tag |-> r.tag]] \in Values
    BY <2>1, RequestFields, ZenonT(60) DEF icTypes
  <2>3. bs' = [bs EXCEPT ![r.set][mshr[m].meta.way] = mem[[set |-> r.set, tag |-> r.tag]]]
    BY <1>6, SMTT(60) DEF SinkDFirst
  <2>4. bs' \in [Sets -> [Ways -> Values]]
    BY <2>2, <2>3, BankWrite, ZenonT(60) DEF icTypes
  <2> QED
    BY <1>5, <1>6, <2>4, Zenon DEF SinkDFirst, icTypes, l1vars, reqvars, memvars
<1>7. CASE SinkDLast(m)
  BY <1>5, <1>7, ZenonT(60) DEF SinkDLast, icTypes, l1vars, reqvars, memvars
<1> QED
  BY <1>6, <1>7

\* The memory takes a Release.
LEMMA OuterReleaseKeeps ==
  ASSUME icTypes, icStructure, NEW m \in MSHRs, OuterRelease(m)
  PROVE  icTypes' /\ icStructure'
<1>1. mshr[m] \in WorkingMSHRs /\ outer[m] # None
  BY OneMshr, Zenon DEF OuterRelease
<1>2. /\ requests' = requests /\ dir' = dir /\ outer' = [outer EXCEPT ![m] = None]
      /\ mshr' = [mshr EXCEPT ![m] = SinkDReleaseAck(mshr[m])]
  BY SMTT(60) DEF OuterRelease
<1>3. /\ \A n \in MSHRs : outer'[n] # None => outer'[n] = outer[n]
      /\ outer'[m] = None
  BY <1>2 DEF icTypes
<1>4. SinkDReleaseAck(mshr[m]) \in MshrStates /\ Kept(mshr[m], SinkDReleaseAck(mshr[m]))
  BY <1>1, ReleaseAckKeeps DEF MshrStates
<1>5. icStructure'
  BY <1>1, <1>2, <1>3, <1>4, AnswerKeeps, ZenonT(60)
<1>6. outer[m].val \in Values
  BY <1>1, Zenon DEF icTypes
<1>7. mem' \in [Lines -> Values]
  BY <1>6, ZenonT(60) DEF OuterRelease, icTypes
<1>8. outer' \in [MSHRs -> [line : [set : Sets, tag : Tags \cup {"none"}], dirty : BOOLEAN,
                             val : Values] \cup {None}]
  BY <1>2, Zenon DEF icTypes
<1> QED
  BY <1>5, <1>7, <1>8, ZenonT(60) DEF OuterRelease, icTypes, l1vars, reqvars

\* A beat of a ProbeAck.
LEMMA SinkCKeeps ==
  ASSUME icTypes, icStructure, SinkCResp
  PROVE  icTypes' /\ icStructure'
<1> DEFINE msg == sinkC.msg
           data == msg.op = "ProbeAckData"
           last == ~data \/ ~sinkC.first
           N(m) == SinkCResponse(mshr[m], msg.client, msg.tag, msg.param, data, last)
<1>1. sinkC \in [msg : CReqs \cup Acks, first : BOOLEAN]
  BY DEF SinkCResp, icTypes
<1>2. msg \in CReqs \cup Acks /\ sinkC.first \in BOOLEAN
  BY <1>1
<1>3. msg \in Acks
  BY <1>2, RequestKinds, SMTT(60) DEF SinkCResp, ReleaseAtSinkC
<1>4. msg.client \in Clients /\ msg.set \in Sets /\ msg.val \in Values
  BY <1>3, RequestKinds, RequestFields, Zenon
<1>5. /\ mshr' = [m \in MSHRs |-> IF Active(m) /\ mshr[m].req.set = msg.set THEN N(m) ELSE mshr[m]]
      /\ bs' = IF data /\ sinkC.first
               THEN [bs EXCEPT ![msg.set][mshr[RespMSHR(msg.set)].meta.way] = msg.val] ELSE bs
      /\ sinkC' = IF last THEN None ELSE [sinkC EXCEPT !.first = FALSE]
  BY DEF SinkCResp
<1>6. sinkC' \in [msg : CReqs \cup Acks, first : BOOLEAN] \cup {None}
  BY <1>1, <1>5, Zenon
<1>7. data \in BOOLEAN /\ last \in BOOLEAN
  OBVIOUS
<1> HIDE DEF msg, data, last
<1>8. bs' \in [Sets -> [Ways -> Values]]
  BY <1>4, <1>5, BankWrite, ZenonT(60) DEF icTypes
<1>9. icTypes'
  BY <1>6, <1>8 DEF SinkCResp, icTypes, l1vars, reqvars, memvars
<1>10. ASSUME NEW m \in MSHRs, Active(m)
       PROVE  /\ N(m) \in WorkingMSHRs /\ Kept(mshr[m], N(m))
              /\ "releaseack" \in mshr[m].w => "releaseack" \in N(m).w
  BY <1>4, <1>7, <1>10, OneMshr, ProbeAckKeeps
<1> HIDE DEF N
<1>11. \A m \in MSHRs : /\ mshr'[m] \in MshrStates /\ Kept(mshr[m], mshr'[m])
                        /\ Active(m) /\ "releaseack" \in mshr[m].w => "releaseack" \in mshr'[m].w
  BY <1>5, <1>10, OneMshr, KeptSame DEF MshrStates
<1>12. mshr' \in [MSHRs -> MshrStates]
  BY <1>5, <1>11
<1>13. icStructure'
  BY <1>11, <1>12, AnswersKeep, SMTT(60) DEF SinkCResp, memvars
<1> QED
  BY <1>9, <1>13

-----------------------------------------------------------------------------
(* Plans and final meta-data *)

\* The plan of a request.
=============================================================================
