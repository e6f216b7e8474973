------------------------------ MODULE MCServed ------------------------------
(***************************************************************************)
(* Progress of the level-2 cache for one client under three loads: misses  *)
(* and evictions of two lines that compete for a way; those of two lines   *)
(* of different sets, both of which the client may release at once; or one *)
(* line that is also read and written by an uncached agent.                *)
(***************************************************************************)
EXTENDS InclusiveCache

CONSTANTS c1, t1, t2, w1, s1, s2

VARIABLE load   \* what the agents ask for

\* The requests a load is made of.
Asks ==
  LET asked == UNION {acq[c] \cup rel[c] : c \in Clients} IN
  /\ load = "ways" => ~uncached /\ \A a \in asked : a.set = s1
  /\ load = "sets" => ~uncached /\ \A a \in asked : a.tag = t1
  /\ load = "uncached" =>
       /\ \A a \in asked : a = [set |-> s1, tag |-> t1]
       /\ \A i \in DOMAIN chanA["none"] : chanA["none"][i].tag = t1 /\ chanA["none"][i].set = s1

ServedSpec ==
  /\ Init /\ load \in {"ways", "sets", "uncached"}
  /\ [][Next /\ UNCHANGED load /\ Asks']_<<vars, load>>
  /\ Fairness
=============================================================================
