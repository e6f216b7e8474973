------------------------------ MODULE SourceD ------------------------------
(***************************************************************************)
(* The data pipeline of an L2 bank (cache/SourceD.scala) with the two      *)
(* ports of the banked store it races with: SinkD (cache/SinkD.scala),     *)
(* which writes the beats of a Grant, and SourceC, which reads a victim.   *)
(*                                                                         *)
(* A request passes s1 (read the store), s2 (fetch the Put or Release      *)
(* beat), s3 (answer) and s4 (write the store).  The store is not read for *)
(* chunks that a beat ahead in the pipeline covers: those are taken from   *)
(* s4 or from the last three retired beats when the beat reaches s3.       *)
(*                                                                         *)
(* One step is one clock cycle.  A chunk holds the number of the request   *)
(* that wrote it, so data is right exactly when its numbers are.  Arbitra- *)
(* tion of the banks is open except where two ports want the same beat of  *)
(* the same way.  No Grant is denied (`bad` is never set).                 *)
(***************************************************************************)
EXTENDS Integers, Sequences

CONSTANTS
  sdWays,     \* ways of the one set
  sdBeats,    \* beats of a block
  sdChunks,   \* separately written parts of a beat
  sdKinds,    \* <<op, region, mask, block>>: the requests there are
  MaxReqs,    \* requests in a behaviour
  NoBeat      \* no request, no data, no refill

VARIABLES
  cc_banks,    \* the store: way, beat, chunk
  sd_busy, s1_req_reg, s1_counter, s1_block_r,
  s1_latch,    \* s1_latch_bypass
  s1_held,     \* the bypass mask held during a stall of s1
  s2, s3, s4, s5, s6, s7_dat,
  rdat,        \* read data on its way: one cycle old, two cycles old
  skid,        \* the queue behind the store
  refill,      \* the Grant being received: its way and next beat
  issued,      \* requests so far
  line         \* ghost: the store as the requests in order leave it

sdVars == <<cc_banks, sd_busy, s1_req_reg, s1_counter, s1_block_r, s1_latch, s1_held,
            s2, s3, s4, s5, s6, s7_dat, rdat, skid, refill, issued, line>>

Blank == [c \in sdChunks |-> 0]

Store(d) == [w \in sdWays |-> [b \in 0 .. sdBeats - 1 |-> d]]

sdRequests ==
  {[op |-> k[1], region |-> k[2], mask |-> k[3], block |-> k[4], way |-> w, beat |-> b] :
     k \in sdKinds, w \in sdWays, b \in 0 .. sdBeats - 1}

\* PutFullData of whole chunks (put) and ReleaseData need no old data; a
\* PutPartial, a Put below a chunk and an atomic (modify) do.
ReadsStore(r) == r.op \in {"read", "partial", "modify"}

HasData(r) == r.op \in {"put", "partial", "modify", "release"}

\* s1_single: Hint, Grant without data and Release; they do not retire.
Retires(r) == r.op # "single"

sdInit ==
  /\ cc_banks = Store(Blank)
  /\ line = Store(Blank)
  /\ sd_busy = FALSE /\ s1_req_reg = NoBeat /\ s1_counter = 0
  /\ s1_block_r = FALSE /\ s1_latch = TRUE /\ s1_held = {}
  /\ s2 = NoBeat /\ s3 = NoBeat /\ s4 = NoBeat /\ s5 = NoBeat /\ s6 = NoBeat
  /\ s7_dat = Blank
  /\ rdat = <<NoBeat, NoBeat>>
  /\ skid = << >>
  /\ refill = NoBeat
  /\ issued = 0

\* Two beats of the same place.
SameBeat(x, y) == x.req.way = y.req.way /\ x.beat = y.beat

\* atomics.io.data_out in s4.
DataOut(s) == [c \in sdChunks |-> IF HasData(s.req) /\ c \in s.req.mask THEN s.id ELSE s.rdata[c]]

\* s3_bypass_data: from s4, else from the youngest retired beat that matches.
BypassData(s) ==
  [c \in sdChunks |->
     IF s4 # NoBeat /\ SameBeat(s, s4) /\ c \in s4.req.region THEN DataOut(s4)[c]
     ELSE IF s5 # NoBeat /\ SameBeat(s, s5) /\ c \in s5.req.region THEN s5.rdata[c]
     ELSE IF s6 # NoBeat /\ SameBeat(s, s6) /\ c \in s6.req.region THEN s6.rdata[c]
     ELSE s7_dat[c]]

\* Entries of the queue behind the store.
SkidPad == 3

\* queue.io.deq of the flow-through queue.
SkidValid == skid # << >> \/ rdat[2] # NoBeat

SkidFront ==
  IF skid # << >> THEN skid[1] ELSE IF rdat[2] # NoBeat THEN rdat[2] ELSE Blank

\* s3_rdata.
Rdata(s) ==
  [c \in sdChunks |-> IF c \in s.bypass THEN BypassData(s)[c] ELSE SkidFront[c]]

\* s1_x_bypass: the chunks that beats ahead in s2, s3 and s4 cover.
Bypassed(x) ==
  UNION {s.req.region : s \in {t \in {s2, s3, s4} \ {NoBeat} : Retires(t.req) /\ SameBeat(x, t)}}

\* Mutant: the check forgets the last stage.
Safe_NotS4(w) ==
  /\ sd_busy => s1_req_reg.way # w
  /\ \A s \in {s2, s3} \ {NoBeat} : s.req.way # w

\* io.evict_safe and io.grant_safe: no beat of the way is in the pipeline.
Safe(w) ==
  /\ sd_busy => s1_req_reg.way # w
  /\ \A s \in {s2, s3, s4} \ {NoBeat} : s.req.way # w

\* Mutant: between its beats a refill does not claim the bank.
SinkClaims_Valid(w, b, sink) == sink = w /\ IF refill = NoBeat THEN b = 0 ELSE b = refill.next

\* SinkD's bs_adr: after the first beat it claims the bank of the next one,
\* as a noop until that beat is there.
SinkClaims(w, b, sink) ==
  IF refill = NoBeat THEN sink = w /\ b = 0 ELSE refill.way = w /\ refill.next = b

FillId == MaxReqs + 1

\* A request the scheduler may issue: blocks start at beat 0, and until its last
\* beat is there a refilled way is used only by the MSHR that asked for it, for
\* a request whose first beat is the block's first.
Allowed(r) ==
  /\ r.block => r.beat = 0
  /\ refill # NoBeat /\ refill.way = r.way => r.beat = 0 /\ ~refill.used

\* The Grant after a cycle in which SinkD takes a beat of it for way sink (or
\* none, NoBeat) and the scheduler issues req (or none).
SinkD(sink, req) ==
  LET own == req # NoBeat /\ refill # NoBeat /\ refill.way = req.way
      b == IF refill = NoBeat THEN 0 ELSE refill.next
  IN refill' = IF sink = NoBeat
               THEN IF own THEN [refill EXCEPT !.used = TRUE] ELSE refill
               ELSE IF b = sdBeats - 1 THEN NoBeat
               ELSE [way |-> sink, next |-> b + 1,
                     used |-> own \/ (refill # NoBeat /\ refill.used)]

\* One clock cycle: req is offered by the scheduler when ~busy (or NoBeat), the
\* flags are the readiness of channel D, of the put buffers and of the banks
\* for a write and for a read.
sdCycle(req, dReady, pbReady, wFree, rFree, sink) ==
  LET active == sd_busy \/ req # NoBeat
      r == IF sd_busy THEN s1_req_reg ELSE req
      x == [req |-> r, beat |-> r.beat + s1_counter]
      s4_done == s4 = NoBeat \/ ~HasData(s4.req)
                   \/ (wFree /\ ~SinkClaims(s4.req.way, s4.beat, sink))
      s4_ready == s3 = NoBeat \/ ~Retires(s3.req) \/ s4_done
      s3_done == s3 # NoBeat /\ (~s3.d \/ dReady) /\ s4_ready
      s3_ready == s3 = NoBeat \/ s3_done
      s2_done == s2 # NoBeat /\ (~s2.pb \/ pbReady) /\ s3_ready
      s2_ready == s2 = NoBeat \/ s2_done
      bypass == IF ~active THEN {} ELSE IF s1_latch THEN Bypassed(x) ELSE s1_held
      mask == r.region \ bypass
      need_r == active /\ ReadsStore(r) /\ mask # {}
      radr_ready == /\ rFree
                    /\ ~SinkClaims(r.way, x.beat, sink)
                    /\ ~(s4 # NoBeat /\ HasData(s4.req) /\ SameBeat(x, s4)
                           /\ s4.req.mask \cap mask # {})
      fire_r == need_r /\ ~s1_block_r /\ radr_ready
      s2_latch == active /\ (need_r /\ ~s1_block_r => radr_ready) /\ s2_ready
      last == s1_counter = IF r.block THEN sdBeats - 1 ELSE 0
      retire == s4 # NoBeat /\ s4_done
      deq == s3_done /\ s3.need_r
      queue == IF rdat[2] # NoBeat THEN Append(skid, rdat[2]) ELSE skid
      fillBeat == IF refill = NoBeat THEN 0 ELSE refill.next
      written == IF retire /\ HasData(s4.req)
                 THEN [cc_banks EXCEPT ![s4.req.way][s4.beat] =
                         [c \in sdChunks |-> IF c \in s4.req.mask THEN DataOut(s4)[c] ELSE @[c]]]
                 ELSE cc_banks
      filled == IF sink # NoBeat /\ refill = NoBeat
                THEN [line EXCEPT ![sink] = [b \in 0 .. sdBeats - 1 |->
                                               [c \in sdChunks |-> FillId]]]
                ELSE line
  IN /\ cc_banks' = IF sink = NoBeat THEN written
                    ELSE [written EXCEPT ![sink][fillBeat] = [c \in sdChunks |-> FillId]]
     /\ sd_busy' = (active /\ ~(s2_latch /\ last))
     /\ s1_req_reg' = IF active /\ ~(s2_latch /\ last) THEN r ELSE NoBeat
     /\ s1_counter' = IF ~s2_latch THEN s1_counter ELSE IF last THEN 0 ELSE s1_counter + 1
     /\ s1_block_r' = (~s2_latch /\ (s1_block_r \/ fire_r))
     /\ s1_latch' = (~active \/ s2_ready)
     /\ s1_held' = IF active /\ ~s2_ready THEN bypass ELSE {}
     /\ s2' = IF s2_latch
              THEN [req |-> r, beat |-> x.beat, bypass |-> bypass, need_r |-> need_r,
                    pb |-> HasData(r), d |-> ~HasData(r) \/ s1_counter = 0,
                    id |-> IF sd_busy THEN issued ELSE issued + 1,
                    want |-> line[r.way][x.beat]]
              ELSE IF s2_done \/ s2 = NoBeat THEN NoBeat
              ELSE [s2 EXCEPT !.pb = @ /\ ~pbReady]
     /\ s3' = IF s2_done THEN s2
              ELSE IF s3_done \/ s3 = NoBeat THEN NoBeat
              ELSE [s3 EXCEPT !.d = @ /\ ~dReady]
     /\ s4' = IF s3_done /\ Retires(s3.req)
              THEN [req |-> s3.req, beat |-> s3.beat, id |-> s3.id, rdata |-> Rdata(s3)]
              ELSE IF s4_done THEN NoBeat ELSE s4
     /\ s5' = IF retire THEN [s4 EXCEPT !.rdata = DataOut(s4)] ELSE s5
     /\ s6' = IF retire THEN s5 ELSE s6
     /\ s7_dat' = IF retire /\ s6 # NoBeat THEN s6.rdata ELSE s7_dat
     /\ rdat' = <<IF fire_r
                  THEN [c \in sdChunks |-> IF c \in mask THEN cc_banks[r.way][x.beat][c] ELSE 0]
                  ELSE NoBeat,
                  rdat[1]>>
     /\ skid' = IF deq /\ queue # << >> THEN Tail(queue) ELSE queue
     /\ SinkD(sink, req)
     /\ issued' = IF req # NoBeat THEN issued + 1 ELSE issued
     /\ line' = IF s2_latch /\ HasData(r)
                THEN [filled EXCEPT ![r.way][x.beat] =
                        [c \in sdChunks |-> IF c \in r.mask
                                            THEN (IF sd_busy THEN issued ELSE issued + 1)
                                            ELSE @[c]]]
                ELSE filled

\* Offers of the scheduler.
Offers ==
  {NoBeat} \cup
  (IF sd_busy \/ issued = MaxReqs THEN {} ELSE {r \in sdRequests : Allowed(r)})

\* The ways SinkD may take a beat for: the one being refilled, or for a first
\* beat one that is safe (one refill of a way in a behaviour).
Arrivals(req) ==
  {NoBeat} \cup
  IF refill # NoBeat THEN {refill.way}
  ELSE {w \in sdWays : /\ Safe(w)
                       /\ req # NoBeat => req.way # w
                       /\ line[w][0] = cc_banks[w][0] => \A c \in sdChunks : line[w][0][c] # FillId}

\* A readiness matters only when something waits for it.
sdFlags(relevant) == IF relevant THEN BOOLEAN ELSE {TRUE}

sdNext ==
  \E req \in Offers,
     dReady \in sdFlags(s3 # NoBeat /\ s3.d), pbReady \in sdFlags(s2 # NoBeat /\ s2.pb),
     wFree \in sdFlags(s4 # NoBeat /\ HasData(s4.req)) :
    \E rFree \in sdFlags(sd_busy \/ req # NoBeat), sink \in Arrivals(req) :
      sdCycle(req, dReady, pbReady, wFree, rFree, sink)

-----------------------------------------------------------------------------
\* Whatever stalls and bypasses happen, the data a beat answers or modifies is
\* what the beats before it left, each chunk from the store, from s4 or from a
\* retired beat ("We need 3 slots to collect what was in s2, s3, s4 when the
\* request was in s1").
ResponseFresh ==
  s3 # NoBeat /\ ReadsStore(s3.req) =>
    \A c \in s3.req.region : Rdata(s3)[c] = s3.want[c]

\* The two assertions on the queue behind the store: read data never meets a
\* full queue, and a beat that needs read data finds it in s3.
SkidPadHolds ==
  /\ rdat[2] # NoBeat => Len(skid) < SkidPad
  /\ s3 # NoBeat /\ s3.need_r => SkidValid

\* Read data is neither lost nor late, and never stale.
DataInTime == SkidPadHolds /\ ResponseFresh

\* When SourceC may start reading a victim, or SinkD writing a refill, the way
\* holds everything SourceD was asked to put there, although SourceD runs on
\* after the MSHR has given up the set.
WaySettled ==
  \A w \in sdWays :
    Safe(w) /\ (refill # NoBeat => refill.way # w) => cc_banks[w] = line[w]
=============================================================================
