------------------------------- MODULE MCWays -------------------------------
(***************************************************************************)
(* The level-2 cache with two ways for the two lines of one client, under  *)
(* two loads: every kind of Acquire and no flush, or flushes of lines that *)
(* the client acquires to write.  Tags and ways are not told apart.        *)
(***************************************************************************)
EXTENDS InclusiveCache, TLC

CONSTANTS c1, t1, t2, w1, w2, s1

VARIABLE load   \* what the agents ask for

\* The requests a load is made of.
Asks ==
  /\ load = "acquires" => chanX = None
  /\ load = "flushes" =>
       \A c \in Clients : \A i \in DOMAIN chanA[c] : chanA[c][i].param = "NtoT"

WaysSpec ==
  /\ Init /\ load \in {"acquires", "flushes"}
  /\ [][Next /\ UNCHANGED load /\ Asks']_<<vars, load>>

Symmetry == Permutations(Tags) \cup Permutations(Ways)
=============================================================================
