-------------------------- MODULE MCInclusiveCache --------------------------
(***************************************************************************)
(* The instances of InclusiveCache that TLC checks.  Clients, tags, ways   *)
(* and sets are model values; no definition tells them apart, so their     *)
(* permutations are symmetries of the specification and of the invariants. *)
(***************************************************************************)
EXTENDS InclusiveCache, TLC

CONSTANTS c1, c2, t1, t2, w1, w2, s1, s2

Symmetry ==
  Permutations(Clients) \cup Permutations(Tags) \cup Permutations(Ways) \cup
  Permutations(Sets)

\* A flush is on its way to an MSHR, waits there or is being done.
FlushUnderWay ==
  \/ chanX # None
  \/ \E m \in MSHRs :
       \/ mshr[m].valid /\ mshr[m].req.ch = "X"
       \/ \E i \in DOMAIN requests[m].A : requests[m].A[i].ch = "X"

\* The bound of L2Sets: software that flushes does not make an uncached request meanwhile.
OneRequester == ~(FlushUnderWay /\ uncached)
=============================================================================
