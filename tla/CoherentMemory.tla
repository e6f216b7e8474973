---------------------------- MODULE CoherentMemory ----------------------------
(***************************************************************************)
(* What the L2 and the L1 data caches promise together: every client holds *)
(* a permission on every line (N none, B read, T read and write), with the *)
(* value it sees, and ver[a] is the value of the last store to line a by a *)
(* client or by a requester without a cache.  InclusiveCache implements    *)
(* this specification with its probes, grants, releases and evictions.     *)
(***************************************************************************)
CONSTANTS Clients, Lines, Values, InitialValue

VARIABLES perm, val, ver

vars == <<perm, val, ver>>

Init ==
  /\ perm = [c \in Clients |-> [a \in Lines |-> "N"]]
  /\ val = [c \in Clients |-> [a \in Lines |-> InitialValue]]
  /\ ver = [a \in Lines |-> InitialValue]

\* What the other clients may hold beside a client with permission p.
Compatible(p, q) == q = "N" \/ (p = "B" /\ q = "B")

\* A client receives permission p on a line and with it the last value.
Gain(c, a, p) ==
  /\ \A d \in Clients \ {c} : Compatible(p, perm[d][a])
  /\ perm' = [perm EXCEPT ![c][a] = p]
  /\ val' = [val EXCEPT ![c][a] = ver[a]]
  /\ UNCHANGED ver

\* A client is left with read permission only, or with none.
Downgrade(c, a) ==
  /\ perm[c][a] = "T"
  /\ perm' = [perm EXCEPT ![c][a] = "B"]
  /\ UNCHANGED <<val, ver>>

Lose(c, a) ==
  /\ perm[c][a] # "N"
  /\ perm' = [perm EXCEPT ![c][a] = "N"]
  /\ val' = [val EXCEPT ![c][a] = InitialValue]
  /\ UNCHANGED ver

Store(c, a, v) ==
  /\ perm[c][a] = "T"
  /\ val' = [val EXCEPT ![c][a] = v]
  /\ ver' = [ver EXCEPT ![a] = v]
  /\ UNCHANGED perm

\* A store of a requester without a cache: nobody holds a copy of the line.
UncachedStore(a, v) ==
  /\ \A c \in Clients : perm[c][a] = "N"
  /\ ver' = [ver EXCEPT ![a] = v]
  /\ UNCHANGED <<perm, val>>

Next ==
  \E a \in Lines :
    \/ \E c \in Clients :
         \/ \E p \in {"B", "T"} : Gain(c, a, p)
         \/ Downgrade(c, a)
         \/ Lose(c, a)
         \/ \E v \in Values : Store(c, a, v)
    \/ \E v \in Values : UncachedStore(a, v)

Spec == Init /\ [][Next]_vars
=============================================================================
