------------------------------ MODULE SourceC ------------------------------
(***************************************************************************)
(* The eviction port of an L2 bank (cache/SourceC.scala).  A request is    *)
(* either a single header (a clean eviction or a probe answer) or Beats    *)
(* beats read from the banked store.  Two pipeline registers, s2 and s3,   *)
(* stand between the front end and the output queue and cannot stall, so a *)
(* request is accepted only while `room` says that everything in flight    *)
(* plus one whole block still fits.  `room` comes from `fill`, a register  *)
(* kept beside the queue because the queue's own count is too slow.        *)
(*                                                                         *)
(* One step is one clock cycle.  The inputs of a cycle are the request the *)
(* scheduler offers, whether SourceD lets the way be read (evict_safe),    *)
(* whether the banked store has a port free, and whether channel C drains. *)
(***************************************************************************)
EXTENDS Integers, Sequences

CONSTANTS
  Beats,      \* beats of a block: blockBytes / beatBytes, a power of two
  FillMod,    \* 2 ^ log2Up(Beats + 4): fill counts modulo this
  Flow        \* micro.outerBuf.c.flow

ASSUME SourceCAssumption ==
  /\ Beats \in Nat \ {0}
  /\ FillMod \in Nat
  /\ FillMod >= Beats + 4
  /\ Flow \in BOOLEAN

VARIABLES
  sc_queue,   \* the output queue, oldest first
  fill,       \* number of messages in it, modulo FillMod
  room,       \* RegInit(true): a request may be accepted
  sc_busy,    \* a block is being read
  sc_beat,    \* the beat to read next
  sc_s2,      \* the message in s2, << >> when s2_valid is low
  sc_s3,      \* the message in s3
  sc_lost     \* ghost: a message met a full queue

scVars == <<sc_queue, fill, room, sc_busy, sc_beat, sc_s2, sc_s3, sc_lost>>

\* A message of channel C: a header alone, or one beat of a block.
Header == [data |-> FALSE, beat |-> 0]

BeatOf(b) == [data |-> TRUE, beat |-> b]

scMessages == {Header} \cup {BeatOf(b) : b \in 0 .. Beats - 1}

\* The output queue holds one block, the two pipeline registers and the message
\* room still tolerates.
scEntries == Beats + 3 + (IF Flow THEN 0 ELSE 1)

scInit ==
  /\ sc_queue = << >>
  /\ fill = 0
  /\ room = TRUE
  /\ sc_busy = FALSE
  /\ sc_beat = 0
  /\ sc_s2 = << >>
  /\ sc_s3 = << >>
  /\ sc_lost = FALSE

\* Chisel's Queue: ready unless full; a flow queue passes a message straight
\* through when it is empty and the reader is ready.
EnqFires == sc_s3 # << >> /\ Len(sc_queue) < scEntries

DeqFires(c_ready) ==
  c_ready /\ (sc_queue # << >> \/ (Flow /\ sc_s3 # << >>))

\* Mutant: room is still granted when the second message has been queued.
RoomAfter_OneMore(enq) == fill \in {0, 1} \/ (fill = 2 /\ ~enq)

\* room after a cycle in which the queue grew (enq) or shrank (~enq).
RoomAfter(enq) == fill = 0 \/ (fill \in {1, 2} /\ ~enq)

TrackFill(enq, deq) ==
  IF enq # deq
  THEN /\ fill' = (fill + (IF enq THEN 1 ELSE FillMod - 1)) % FillMod
       /\ room' = RoomAfter(enq)
  ELSE UNCHANGED <<fill, room>>

\* Queue and pipeline: s3 enters the queue, s2 moves to s3, the front end to s2.
Shift(latched, c_ready) ==
  LET enq == EnqFires
      deq == DeqFires(c_ready)
      grown == IF enq THEN sc_queue \o sc_s3 ELSE sc_queue
  IN /\ sc_queue' = IF deq THEN Tail(grown) ELSE grown
     /\ TrackFill(enq, deq)
     /\ sc_lost' = (sc_lost \/ (sc_s3 # << >> /\ ~enq))
     /\ sc_s3' = sc_s2
     /\ sc_s2' = latched

\* A request without data: one cycle, no banked store.
AcceptHeader(c_ready) ==
  /\ ~sc_busy /\ room
  /\ Shift(<<Header>>, c_ready)
  /\ UNCHANGED <<sc_busy, sc_beat>>

\* want_data: a dirty request is offered, or a block is under way.  evict_safe
\* is asked for the first beat only.
ReadBeat(evict_safe, bs_ready, c_ready) ==
  /\ sc_busy \/ room
  /\ LET fires == (sc_beat # 0 \/ evict_safe) /\ bs_ready
         last == sc_beat = Beats - 1
     IN IF fires
        THEN /\ Shift(<<BeatOf(sc_beat)>>, c_ready)
             /\ sc_beat' = (sc_beat + 1) % Beats
             /\ sc_busy' = ~last
        ELSE /\ Shift(<< >>, c_ready)
             /\ sc_busy' = TRUE
             /\ UNCHANGED sc_beat

\* No request, or one refused because room is low.
scIdle(c_ready) ==
  /\ ~sc_busy
  /\ Shift(<< >>, c_ready)
  /\ UNCHANGED <<sc_busy, sc_beat>>

scNext ==
  \E c_ready \in BOOLEAN :
    \/ AcceptHeader(c_ready)
    \/ \E evict_safe, bs_ready \in BOOLEAN : ReadBeat(evict_safe, bs_ready, c_ready)
    \/ scIdle(c_ready)

scSpec == scInit /\ [][scNext]_scVars

-----------------------------------------------------------------------------
\* Types of the registers.
scTypeOK ==
  /\ sc_queue \in Seq(scMessages) /\ Len(sc_queue) <= scEntries
  /\ fill \in 0 .. FillMod - 1
  /\ room \in BOOLEAN /\ sc_busy \in BOOLEAN /\ sc_lost \in BOOLEAN
  /\ sc_beat \in 0 .. Beats - 1
  /\ sc_s2 \in {<< >>} \cup {<<m>> : m \in scMessages}
  /\ sc_s3 \in {<< >>} \cup {<<m>> : m \in scMessages}

\* "We never accept at the front-end unless we're sure things will fit" (line
\* 114): a message never arrives at a full queue, so none is lost.
NothingLost == ~sc_lost

\* The assertion of line 65: the registered credit always agrees with the
\* queue it stands for.
RoomIsCredit == room = (Len(sc_queue) <= 1)

\* The beats of a block leave in order and nothing comes between them: once a
\* beat other than the last is in flight, its successor follows directly, or
\* is still to be read.
BeatsTogether ==
  LET flight == sc_queue \o sc_s3 \o sc_s2
  IN \A i \in 1 .. Len(flight) :
       flight[i].data /\ flight[i].beat < Beats - 1 =>
         IF i < Len(flight)
         THEN flight[i + 1] = BeatOf(flight[i].beat + 1)
         ELSE sc_busy /\ sc_beat = flight[i].beat + 1

\* The invariant the credit scheme rests on: behind a granted request there is
\* always space for what the pipeline holds and the rest of the block.
scInv ==
  /\ scTypeOK
  /\ fill = Len(sc_queue)
  /\ RoomIsCredit
  /\ NothingLost
  /\ ~sc_busy => sc_beat = 0
  /\ Len(sc_queue) + Len(sc_s2) + Len(sc_s3) + (IF sc_busy THEN Beats - sc_beat ELSE 0)
       <= Beats + 3

\* What leaves the port is what was asked for: no message is lost, the credit is exact,
\* and no block is broken up.
EvictionsIntact == NothingLost /\ RoomIsCredit /\ BeatsTogether
=============================================================================
