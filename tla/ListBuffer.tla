----------------------------- MODULE ListBuffer -----------------------------
(***************************************************************************)
(* cache/ListBuffer.scala: several queues as linked lists in one memory.   *)
(* The L2 keeps the requests that wait for an MSHR in one (Scheduler) and  *)
(* the beats of Puts and Releases in two others (SinkA, SinkC), all with   *)
(* bypass = false.                                                         *)
(*                                                                         *)
(* One step is one clock cycle, with a push, a pop, both or neither.  The  *)
(* memories head, tail, next and data have no reset value, so they start   *)
(* as any value: an entry that no list reaches is as good as any other.    *)
(***************************************************************************)
EXTENDS Integers, Sequences, FiniteSets

CONSTANTS
  queues,    \* number of queues
  entries,   \* number of entries
  Data

ASSUME ParamAssumption == queues \in Nat \ {0} /\ entries \in Nat \ {0}

VARIABLES
  valid,   \* the queues that are not empty
  head,    \* queue -> its oldest entry
  tail,    \* queue -> its youngest entry
  used,    \* the entries in use
  next,    \* entry -> the entry behind it in its queue
  data,    \* entry -> its element
  list     \* ghost: queue -> its entries, oldest first

vars == <<valid, head, tail, used, next, data, list>>

Queues == 0 .. queues - 1

Entries == 0 .. entries - 1

Init ==
  /\ valid = {}
  /\ used = {}
  /\ head \in [Queues -> Entries]
  /\ tail \in [Queues -> Entries]
  /\ next \in [Entries -> Entries]
  /\ data \in [Entries -> Data]
  /\ list = [q \in Queues |-> <<>>]

\* io.push.ready
PushReady == used # Entries

\* freeIdx: the lowest free entry.
freeIdx == CHOOSE e \in Entries \ used : \A f \in Entries \ used : e <= f

\* Mutant: the entry pushed in the same cycle is not forwarded.
PopHead_NoForward(push, q, p) == next[head[p]]

\* The head of queue p after a pop, with a push to queue q in the same cycle or not.
PopHead(push, q, p) ==
  IF push /\ q \in valid /\ tail[q] = head[p] THEN freeIdx ELSE next[head[p]]

\* A push to a queue outweighs the pop of its last element.
NextValid(push, q, pop, p) ==
  (valid \ (IF pop /\ head[p] = tail[p] THEN {p} ELSE {})) \cup (IF push THEN {q} ELSE {})

NextData(push, d) == IF push THEN [data EXCEPT ![freeIdx] = d] ELSE data

\* One clock cycle: push with element d for queue q fires, and queue p is popped.
Clock(push, q, d, pop, p) ==
  /\ push => PushReady
  /\ pop => p \in valid
  /\ valid' = NextValid(push, q, pop, p)
  /\ used' = (used \ (IF pop THEN {head[p]} ELSE {})) \cup (IF push THEN {freeIdx} ELSE {})
  /\ data' = NextData(push, d)
  /\ next' = IF push /\ q \in valid THEN [next EXCEPT ![tail[q]] = freeIdx] ELSE next
  /\ tail' = IF push THEN [tail EXCEPT ![q] = freeIdx] ELSE tail
  /\ head' = [r \in Queues |->
                IF pop /\ r = p THEN PopHead(push, q, p)
                ELSE IF push /\ r = q /\ q \notin valid THEN freeIdx
                ELSE head[r]]
  /\ list' = [r \in Queues |->
                LET rest == IF pop /\ r = p THEN Tail(list[r]) ELSE list[r]
                IN IF push /\ r = q THEN Append(rest, freeIdx) ELSE rest]

Next ==
  \E push, pop \in BOOLEAN, q, p \in Queues, d \in Data : Clock(push, q, d, pop, p)

Spec == Init /\ [][Next]_vars
-----------------------------------------------------------------------------
\* The type invariant.
TypeOK ==
  /\ valid \subseteq Queues
  /\ used \subseteq Entries
  /\ head \in [Queues -> Entries]
  /\ tail \in [Queues -> Entries]
  /\ next \in [Entries -> Entries]
  /\ data \in [Entries -> Data]
  /\ list \in [Queues -> Seq(Entries)]

\* The memory holds the lists: from head along next to tail every valid queue runs
\* through its own entries in order, and a queue is valid exactly when it has some.
Linked ==
  \A q \in Queues :
    /\ q \in valid <=> list[q] # <<>>
    /\ list[q] # <<>> => /\ head[q] = list[q][1]
                         /\ tail[q] = list[q][Len(list[q])]
    /\ \A i \in 1 .. Len(list[q]) - 1 : next[list[q][i]] = list[q][i + 1]

\* No entry is lost and none is in two places: the used entries are exactly those of the
\* lists, each at one position of one list.
NoLeak ==
  /\ \A e \in Entries :
       e \in used <=> \E q \in Queues : \E i \in 1 .. Len(list[q]) : list[q][i] = e
  /\ \A q, r \in Queues : \A i \in 1 .. Len(list[q]), j \in 1 .. Len(list[r]) :
       list[q][i] = list[r][j] => q = r /\ i = j

\* What the queues hold, as a reader walking the lists finds it.
Contents == [q \in Queues |-> [i \in 1 .. Len(list[q]) |-> data[list[q][i]]]]

F == INSTANCE Fifos WITH Capacity <- entries, fifo <- Contents, count <- Cardinality(used)

\* The linked lists implement independent FIFOs that share the entries: a cycle appends the
\* pushed element to its queue and removes the oldest of the popped one, whatever the two
\* queues are and however short, and the other queues keep their elements.
Refines == F!Spec
=============================================================================
