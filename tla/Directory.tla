----------------------------- MODULE Directory -----------------------------
(***************************************************************************)
(* The directory of an L2 bank (cache/Directory.scala): a single-ported    *)
(* RAM whose writes wait in a queue of one entry while lookups use the     *)
(* port.  A lookup reads the RAM in one cycle and compares tags in the     *)
(* next (in the one after when dirReg adds a register), and must behave as *)
(* if every write accepted up to its own cycle had reached the RAM.        *)
(*                                                                         *)
(* One step is one clock cycle.  The scheduler looks up no set before the  *)
(* wipe is over (cache/Scheduler.scala:153) and never writes a tag that is *)
(* valid in another way of the same set.                                   *)
(***************************************************************************)
EXTENDS Integers

CONSTANTS
  dSets,     \* number of sets
  dWays,     \* number of ways
  dTags,     \* tags
  NoWrite,   \* no write is queued
  NoLookup   \* no lookup is in this stage

VARIABLES
  dirReg,       \* micro.dirReg: one more register before the comparison
  cc_dir,       \* the RAM
  dir_write,    \* the write queue: NoWrite, or the write it holds
  wipeCount,    \* sets wiped since reset; dSets when done
  wipeOff,      \* high in the first cycle after reset
  stage1,       \* the lookup between RAM and comparison (ren1), or NoLookup
  stage2,       \* the registered lookup (ren2 when dirReg), or NoLookup
  logical       \* ghost: the directory as the scheduler has written it

dirVars == <<dirReg, cc_dir, dir_write, wipeCount, wipeOff, stage1, stage2, logical>>

dSet == 0 .. dSets - 1

dWay == 0 .. dWays - 1

\* DirectoryEntry; valid stands for state =/= INVALID.
DirectoryEntry == [tag : dTags, valid : BOOLEAN]

DirWrites == [set : dSet, way : dWay, data : DirectoryEntry]

\* A lookup in the pipeline: the set as the RAM gave it, the write it sees, and
\* for the properties the set as written so far.
Pending == [set : dSet, tag : dTags, ram : [dWay -> DirectoryEntry],
            byp : DirWrites \cup {NoWrite}, seen : [dWay -> DirectoryEntry]]

ASSUME DirectoryAssumption ==
  /\ dSets \in Nat \ {0} /\ dWays \in Nat \ {0} /\ dTags # {}
  /\ NoWrite \notin DirWrites /\ NoLookup \notin Pending

wipeDone == wipeCount = dSets

\* Wiping writes zeroes: every tag the same, every state INVALID.
Wiped == [tag |-> CHOOSE t \in dTags : TRUE, valid |-> FALSE]

Garbage == [tag |-> CHOOSE t \in dTags : TRUE, valid |-> TRUE]

dirInit ==
  /\ dirReg \in BOOLEAN
  /\ cc_dir = [s \in dSet |-> [w \in dWay |-> Garbage]]
  /\ dir_write = NoWrite
  /\ wipeCount = 0
  /\ wipeOff = TRUE
  /\ stage1 = NoLookup
  /\ stage2 = NoLookup
  /\ logical = [s \in dSet |-> [w \in dWay |-> Wiped]]

\* Mutant: the way a queued write is about to replace still counts.
Hits_Stale(ram, byp, set, tag) ==
  {w \in dWay : ram[w].valid /\ ram[w].tag = tag}

\* `hits`: the ways of the RAM that match, without the one being replaced.
Hits(ram, byp, set, tag) ==
  {w \in dWay : /\ ram[w].valid /\ ram[w].tag = tag
                /\ ~(byp # NoWrite /\ byp.set = set /\ byp.way = w)}

\* io.result for a lookup of `tag` in `set`: ram is the set as the RAM gave it,
\* byp the write queue's entry, victim the way the LFSR picks.
Compare(ram, byp, set, tag, victim) ==
  LET hits == Hits(ram, byp, set, tag)
      setQuash == byp # NoWrite /\ byp.set = set
      tagMatch == setQuash /\ byp.data.tag = tag
      wayMatch == setQuash /\ byp.way = victim
  IN [hit |-> hits # {} \/ (tagMatch /\ byp.data.valid),
      way |-> IF hits # {} THEN CHOOSE w \in hits : TRUE
              ELSE IF tagMatch THEN byp.way ELSE victim,
      entry |-> IF hits # {} THEN ram[CHOOSE w \in hits : TRUE]
                ELSE IF tagMatch \/ wayMatch THEN byp.data ELSE ram[victim]]

\* The one port of the RAM: the wipe, then a lookup, then the queued write.
Port(read) ==
  IF wipeDone
  THEN IF ~read /\ dir_write # NoWrite
       THEN cc_dir' = [cc_dir EXCEPT ![dir_write.set][dir_write.way] = dir_write.data]
       ELSE UNCHANGED cc_dir
  ELSE IF wipeOff
       THEN UNCHANGED cc_dir
       ELSE cc_dir' = [cc_dir EXCEPT ![wipeCount] = [w \in dWay |-> Wiped]]

\* Queue(io.write, 1): ready when empty, emptied when the port is free.
Accept(read, new) ==
  /\ new # NoWrite => dir_write = NoWrite
  /\ dir_write' = IF new # NoWrite THEN new
                  ELSE IF read \/ ~wipeDone THEN dir_write ELSE NoWrite
  /\ logical' = IF new # NoWrite
                THEN [logical EXCEPT ![new.set][new.way] = new.data]
                ELSE logical

\* A write the scheduler may issue: its tag is valid in no other way.
Sensible(new) ==
  \A w \in dWay \ {new.way} :
    ~(logical[new.set][w].valid /\ logical[new.set][w].tag = new.data.tag)

\* regout, tag, set and bypass move to the extra register.
Advance ==
  stage2' = IF dirReg /\ stage1 # NoLookup
            THEN [stage1 EXCEPT !.byp = dir_write]
            ELSE NoLookup

\* A cycle with a lookup of tag in set; `seen` records, for the properties,
\* the set as written so far, the write of this very cycle included.
Lookup(set, tag, new) ==
  /\ wipeDone
  /\ Port(TRUE)
  /\ Accept(TRUE, new)
  /\ Advance
  /\ stage1' = [set |-> set, tag |-> tag, ram |-> cc_dir[set], byp |-> NoWrite,
                seen |-> logical'[set]]
  /\ UNCHANGED <<dirReg, wipeCount, wipeOff>>

\* A cycle without one.
NoRead(new) ==
  /\ new # NoWrite => wipeDone
  /\ Port(FALSE)
  /\ Accept(FALSE, new)
  /\ Advance
  /\ stage1' = NoLookup
  /\ wipeOff' = FALSE
  /\ UNCHANGED dirReg
  /\ wipeCount' = IF wipeDone \/ wipeOff THEN wipeCount ELSE wipeCount + 1

dirNext ==
  \E new \in {NoWrite} \cup DirWrites :
    /\ new # NoWrite => Sensible(new)
    /\ \/ \E set \in dSet, tag \in dTags : Lookup(set, tag, new)
       \/ NoRead(new)

dirSpec == dirInit /\ [][dirNext]_dirVars

\* The lookup whose result is on the wires now, with the write it sees.
Answering ==
  IF dirReg THEN stage2
  ELSE IF stage1 = NoLookup THEN NoLookup ELSE [stage1 EXCEPT !.byp = dir_write]

-----------------------------------------------------------------------------
\* Every lookup answers as if all writes accepted up to its cycle, the
\* same-cycle one included, were in the RAM ("sees same-cycle write", line 58):
\* it hits exactly when the tag is valid in the set, and way and entry belong
\* together whether it hits or names a victim.  At most one way of the RAM
\* matches, so the one-hot multiplexer of line 133 never merges two entries.
LookupSeesWrites ==
  Answering # NoLookup =>
    \A victim \in dWay :
      LET a == Answering
          r == Compare(a.ram, a.byp, a.set, a.tag, victim)
      IN /\ r.hit = \E w \in dWay : a.seen[w].valid /\ a.seen[w].tag = a.tag
         /\ r.entry = a.seen[r.way]
         /\ r.hit => r.entry.valid /\ r.entry.tag = a.tag
         /\ \A v, w \in Hits(a.ram, a.byp, a.set, a.tag) : v = w

\* What the RAM and the queued write hold together is the directory as
\* written, once every set has been wiped.
RamAndQueue ==
  wipeDone =>
    logical = IF dir_write = NoWrite THEN cc_dir
              ELSE [cc_dir EXCEPT ![dir_write.set][dir_write.way] = dir_write.data]

\* The single-ported RAM with its queued write is a directory with immediate writes.
DirectoryExact == LookupSeesWrites /\ RamAndQueue

-----------------------------------------------------------------------------
(* Why: the inductive invariant.                                           *)

\* A set as the RAM gave it, with the queued write in place.
Overlay(ram, byp, set) ==
  IF byp # NoWrite /\ byp.set = set THEN [ram EXCEPT ![byp.way] = byp.data] ELSE ram

\* No tag is valid in two ways of a set.
OneWay(ways) ==
  \A v, w \in dWay :
    ways[v].valid /\ ways[w].valid /\ ways[v].tag = ways[w].tag => v = w

dirTypes ==
  /\ dirReg \in BOOLEAN /\ wipeOff \in BOOLEAN
  /\ wipeCount \in 0 .. dSets
  /\ cc_dir \in [dSet -> [dWay -> DirectoryEntry]]
  /\ logical \in [dSet -> [dWay -> DirectoryEntry]]
  /\ dir_write \in DirWrites \cup {NoWrite}
  /\ stage1 \in Pending \cup {NoLookup} /\ stage2 \in Pending \cup {NoLookup}

\* Until the wipe is over nothing is looked up or written.
Wiping ==
  /\ \A s \in dSet : s < wipeCount /\ ~wipeDone => cc_dir[s] = [w \in dWay |-> Wiped]
  /\ ~wipeDone => /\ dir_write = NoWrite /\ stage1 = NoLookup
                  /\ logical = [s \in dSet |-> [w \in dWay |-> Wiped]]

\* A lookup has what the RAM holds and what has been written; a registered one has
\* what they were, with the write that was queued then.
InFlight ==
  /\ stage1 # NoLookup => stage1.ram = cc_dir[stage1.set] /\ stage1.seen = logical[stage1.set]
  /\ stage2 # NoLookup => /\ stage2.seen = Overlay(stage2.ram, stage2.byp, stage2.set)
                          /\ OneWay(stage2.seen)

dirInv ==
  /\ dirTypes /\ Wiping /\ RamAndQueue /\ InFlight
  /\ \A s \in dSet : OneWay(logical[s])
=============================================================================
