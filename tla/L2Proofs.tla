------------------------------ MODULE L2Proofs ------------------------------
(***************************************************************************)
(* The stores inside the L2, for every size of them: the linked lists of   *)
(* ListBuffer implement queues, and the directory's lookups see every write. *)
(*                                                                         *)
(* Linked and NoLeak of ListBuffer are inductive together: the links of one *)
(* list survive a write to another because no entry is in two places, and no *)
(* entry is in two places because a push takes one that no list holds.     *)
(***************************************************************************)
EXTENDS ListBuffer, Directory, FiniteSetTheorems, SequenceTheorems, NaturalsInduction,
        WellFoundedInduction, TLAPS

\* The inductive invariant.
IInv == TypeOK /\ Linked /\ NoLeak

\* 1 when the cycle takes an entry from the front of list r, or puts one at its back.
Dropped(pop, p, r) == IF pop /\ r = p THEN 1 ELSE 0

Added(push, q, r) == IF push /\ r = q THEN 1 ELSE 0

\* A non-empty set of entries has a lowest one.
LEMMA LowestEntry ==
  ASSUME NEW T \in SUBSET Entries, T # {}
  PROVE  \E e \in T : \A f \in T : e <= f
<1>1. T \subseteq Nat
  BY ParamAssumption DEF Entries
<1>2. \E e \in T : \A f \in T : ~(<<f, e>> \in OpToRel(<, Nat))
  BY <1>1, NatLessThanWellFounded, WFMin
<1>3. \E e \in T : \A f \in T : ~(f < e)
  BY <1>1, <1>2, Zenon DEF OpToRel
<1> QED
  BY <1>1, <1>3

\* While push is ready, the lowest free entry is a free entry.
LEMMA FreeIdxIsFree ==
  ASSUME used \subseteq Entries, PushReady
  PROVE  freeIdx \in Entries /\ freeIdx \notin used
<1>1. Entries \ used \in SUBSET Entries /\ Entries \ used # {}
  BY DEF PushReady
<1>2. \E e \in Entries \ used : \A f \in Entries \ used : e <= f
  BY <1>1, LowestEntry, Zenon
<1> QED
  BY <1>2 DEF freeIdx

\* The lists after a cycle, position by position: the front entry leaves, freeIdx is put at
\* the back.
LEMMA ListStep ==
  ASSUME IInv,
         NEW push \in BOOLEAN, NEW pop \in BOOLEAN,
         NEW q \in Queues, NEW p \in Queues, NEW d \in Data,
         Clock(push, q, d, pop, p),
         NEW r \in Queues
  PROVE  /\ list'[r] \in Seq(Entries)
         /\ Len(list[r]) >= Dropped(pop, p, r)
         /\ Len(list'[r]) = Len(list[r]) - Dropped(pop, p, r) + Added(push, q, r)
         /\ \A i \in 1 .. Len(list[r]) - Dropped(pop, p, r) :
              list'[r][i] = list[r][i + Dropped(pop, p, r)]
         /\ Added(push, q, r) = 1 => list'[r][Len(list'[r])] = freeIdx
<1> DEFINE rest == IF pop /\ r = p THEN Tail(list[r]) ELSE list[r]
<1>1. list'[r] = IF push /\ r = q THEN Append(rest, freeIdx) ELSE rest
  BY DEF Clock
<1>2. list[r] \in Seq(Entries) /\ Len(list[r]) \in Nat
  BY DEF IInv, TypeOK
<1>3. pop /\ r = p => list[r] # <<>>
  BY DEF Clock, IInv, Linked
<1>4. /\ rest \in Seq(Entries)
      /\ Len(list[r]) >= Dropped(pop, p, r)
      /\ Len(rest) = Len(list[r]) - Dropped(pop, p, r)
      /\ \A i \in 1 .. Len(rest) : rest[i] = list[r][i + Dropped(pop, p, r)]
  BY <1>2, <1>3 DEF Dropped
<1>5. push => freeIdx \in Entries
  BY FreeIdxIsFree DEF Clock, IInv, TypeOK
<1> HIDE DEF rest
<1>6. CASE push /\ r = q
  <2>1. list'[r] = Append(rest, freeIdx)
    BY <1>1, <1>6
  <2>2. /\ list'[r] \in Seq(Entries)
        /\ Len(list'[r]) = Len(rest) + 1
        /\ \A i \in 1 .. Len(rest) : list'[r][i] = rest[i]
        /\ list'[r][Len(rest) + 1] = freeIdx
    BY <2>1, <1>4, <1>5, <1>6
  <2> QED
    BY <2>2, <1>4, <1>6 DEF Added
<1>7. CASE ~(push /\ r = q)
  BY <1>1, <1>4, <1>7 DEF Added
<1> QED
  BY <1>6, <1>7

\* A cycle keeps the types.
LEMMA TypeStep ==
  ASSUME IInv,
         NEW push \in BOOLEAN, NEW pop \in BOOLEAN,
         NEW q \in Queues, NEW p \in Queues, NEW d \in Data,
         Clock(push, q, d, pop, p)
  PROVE  TypeOK'
<1>1. push => freeIdx \in Entries
  BY FreeIdxIsFree DEF Clock, IInv, TypeOK
<1>2. list' \in [Queues -> Seq(Entries)]
  <2>1. \A r \in Queues : list'[r] \in Seq(Entries)
    BY ListStep
  <2>2. list' = [r \in Queues |-> list'[r]]
    BY DEF Clock
  <2> QED
    BY <2>1, <2>2
<1>3. valid' \subseteq Queues /\ used' \subseteq Entries
  BY <1>1 DEF Clock, NextValid, IInv, TypeOK
<1>4. data' \in [Entries -> Data] /\ tail' \in [Queues -> Entries]
  BY <1>1 DEF Clock, NextData, IInv, TypeOK
<1>5. next' \in [Entries -> Entries]
  BY <1>1 DEF Clock, IInv, TypeOK
<1>6. head' \in [Queues -> Entries]
  <2>1. pop => PopHead(push, q, p) \in Entries
    BY <1>1 DEF PopHead, IInv, TypeOK
  <2> QED
    BY <1>1, <2>1 DEF Clock, IInv, TypeOK
<1> QED
  BY <1>2, <1>3, <1>4, <1>5, <1>6 DEF TypeOK

\* A cycle keeps every used entry at one place and every placed entry used.
LEMMA NoLeakStep ==
  ASSUME IInv,
         NEW push \in BOOLEAN, NEW pop \in BOOLEAN,
         NEW q \in Queues, NEW p \in Queues, NEW d \in Data,
         Clock(push, q, d, pop, p)
  PROVE  NoLeak'
<1> DEFINE dr(r) == Dropped(pop, p, r)
           ad(r) == Added(push, q, r)
<1>1. \A r \in Queues : Len(list[r]) \in Nat /\ Len(list'[r]) \in Nat
  BY ListStep DEF IInv, TypeOK
<1>2. \A r \in Queues : dr(r) \in {0, 1} /\ ad(r) \in {0, 1}
  BY DEF Dropped, Added
<1>3. push => freeIdx \in Entries /\ freeIdx \notin used
  BY FreeIdxIsFree DEF Clock, IInv, TypeOK
<1>4. ASSUME NEW r \in Queues, NEW i \in 1 .. Len(list'[r])
      PROVE  \/ /\ i + dr(r) \in 1 .. Len(list[r])
                /\ list'[r][i] = list[r][i + dr(r)]
             \/ /\ push /\ r = q
                /\ i = Len(list'[r])
                /\ list'[r][i] = freeIdx
  <2>1. Len(list'[r]) = Len(list[r]) - dr(r) + ad(r) /\ Len(list[r]) >= dr(r)
    BY ListStep
  <2>2. CASE i <= Len(list[r]) - dr(r)
    BY <1>1, <1>2, <2>2, ListStep
  <2>3. CASE i > Len(list[r]) - dr(r)
    <3>1. ad(r) = 1 /\ i = Len(list'[r])
      BY <1>1, <1>2, <2>1, <2>3
    <3> QED
      BY <3>1, ListStep DEF Added
  <2> QED
    BY <1>1, <1>2, <2>2, <2>3
<1>5. \A r \in Queues : \A i \in 1 .. Len(list[r]) : list[r][i] \in used /\ list[r][i] \in Entries
  BY DEF IInv, NoLeak, TypeOK
<1>6. \A r, s \in Queues : \A i \in 1 .. Len(list[r]), j \in 1 .. Len(list[s]) :
        list[r][i] = list[s][j] => r = s /\ i = j
  BY DEF IInv, NoLeak
<1>7. ASSUME NEW r \in Queues, NEW s \in Queues,
             NEW i \in 1 .. Len(list'[r]), NEW j \in 1 .. Len(list'[s]),
             list'[r][i] = list'[s][j]
      PROVE  r = s /\ i = j
  <2> HIDE DEF dr, ad
  <2>1. CASE i + dr(r) \in 1 .. Len(list[r]) /\ list'[r][i] = list[r][i + dr(r)]
    <3>1. PICK k \in 1 .. Len(list[r]) : k = i + dr(r) /\ list'[r][i] = list[r][k]
      BY <2>1
    <3>2. push => list'[s][j] # freeIdx
      BY <1>3, <1>5, <1>7, <3>1
    <3>3. j + dr(s) \in 1 .. Len(list[s]) /\ list'[s][j] = list[s][j + dr(s)]
      BY <1>4, <3>2, Zenon
    <3>4. PICK l \in 1 .. Len(list[s]) : l = j + dr(s) /\ list'[s][j] = list[s][l]
      BY <3>3
    <3>5. r = s /\ k = l
      <4>1. list[r][k] = list[s][l]
        BY <1>7, <3>1, <3>4, Zenon
      <4> QED
        BY <1>6, <4>1, Zenon
    <3> QED
      BY <1>1, <1>2, <3>1, <3>4, <3>5
  <2>2. CASE push /\ r = q /\ i = Len(list'[r]) /\ list'[r][i] = freeIdx
    <3>1. CASE j + dr(s) \in 1 .. Len(list[s]) /\ list'[s][j] = list[s][j + dr(s)]
      <4>1. PICK l \in 1 .. Len(list[s]) : list'[s][j] = list[s][l]
        BY <3>1
      <4>2. list'[s][j] \in used
        BY <1>5, <4>1, Zenon
      <4> QED
        BY <1>3, <1>7, <2>2, <4>2, Zenon
    <3>2. CASE push /\ s = q /\ j = Len(list'[s]) /\ list'[s][j] = freeIdx
      BY <2>2, <3>2, Zenon
    <3> QED
      BY <1>4, <3>1, <3>2, Zenon
  <2> QED
    BY <1>4, <2>1, <2>2
<1>8. pop => /\ p \in Queues /\ 1 \in 1 .. Len(list[p])
             /\ head[p] = list[p][1]
  BY <1>1 DEF Clock, IInv, Linked, TypeOK
<1>9. used' = (used \ (IF pop THEN {head[p]} ELSE {})) \cup (IF push THEN {freeIdx} ELSE {})
  BY DEF Clock
<1>10. ASSUME NEW e \in Entries, e \in used'
       PROVE  \E r \in Queues : \E i \in 1 .. Len(list'[r]) : list'[r][i] = e
  <2>1. CASE push /\ e = freeIdx
    <3>1. /\ Len(list'[q]) = Len(list[q]) - dr(q) + ad(q)
          /\ Len(list[q]) >= dr(q)
      BY ListStep
    <3>2. ad(q) = 1
      BY <2>1 DEF Added
    <3>3. Len(list'[q]) \in 1 .. Len(list'[q])
      BY <1>1, <1>2, <3>1, <3>2
    <3>4. list'[q][Len(list'[q])] = freeIdx
      BY <3>2, ListStep
    <3> QED
      BY <2>1, <3>3, <3>4
  <2>2. CASE e \in used /\ ~(pop /\ e = head[p])
    <3>1. PICK r \in Queues : \E k \in 1 .. Len(list[r]) : list[r][k] = e
      BY <2>2 DEF IInv, NoLeak
    <3>2. PICK k \in 1 .. Len(list[r]) : list[r][k] = e
      BY <3>1
    <3>3. k - dr(r) \in 1 .. Len(list[r]) - dr(r)
      BY <1>1, <1>8, <2>2, <3>2 DEF Dropped
    <3>4. list'[r][k - dr(r)] = list[r][k]
      BY <1>1, <1>2, <3>3, ListStep
    <3>5. k - dr(r) \in 1 .. Len(list'[r])
      <4>1. Len(list'[r]) = Len(list[r]) - dr(r) + ad(r)
        BY ListStep
      <4> QED
        BY <1>1, <1>2, <3>3, <4>1
    <3> QED
      BY <3>2, <3>4, <3>5
  <2> QED
    BY <1>9, <1>10, <2>1, <2>2
<1>11. ASSUME NEW r \in Queues, NEW i \in 1 .. Len(list'[r])
       PROVE  list'[r][i] \in used'
  <2>1. CASE i + dr(r) \in 1 .. Len(list[r]) /\ list'[r][i] = list[r][i + dr(r)]
    <3>1. list[r][i + dr(r)] \in used
      BY <1>5, <2>1
    <3>2. pop => list[r][i + dr(r)] # head[p]
      BY <1>1, <1>6, <1>8, <2>1 DEF Dropped
    <3> QED
      BY <1>9, <2>1, <3>1, <3>2
  <2>2. CASE push /\ list'[r][i] = freeIdx
    BY <1>9, <2>2
  <2> QED
    BY <1>4, <2>1, <2>2
<1> QED
  BY <1>7, <1>10, <1>11 DEF NoLeak

\* A cycle keeps head, tail and next in step with the lists.
LEMMA LinkedStep ==
  ASSUME IInv,
         NEW push \in BOOLEAN, NEW pop \in BOOLEAN,
         NEW q \in Queues, NEW p \in Queues, NEW d \in Data,
         Clock(push, q, d, pop, p)
  PROVE  Linked'
<1> SUFFICES ASSUME NEW r \in Queues
             PROVE  /\ r \in valid' <=> list'[r] # <<>>
                    /\ list'[r] # <<>> => /\ head'[r] = list'[r][1]
                                          /\ tail'[r] = list'[r][Len(list'[r])]
                    /\ \A i \in 1 .. Len(list'[r]) - 1 : next'[list'[r][i]] = list'[r][i + 1]
  BY DEF Linked
<1> DEFINE dr == Dropped(pop, p, r)
           ad == Added(push, q, r)
           n == Len(list[r])
           m == Len(list'[r])
<1>1. /\ n \in Nat /\ m \in Nat
      /\ list[r] \in Seq(Entries) /\ list'[r] \in Seq(Entries)
  BY ListStep DEF IInv, TypeOK
<1>2. dr \in {0, 1} /\ ad \in {0, 1}
  BY DEF Dropped, Added
<1>3. n >= dr /\ m = n - dr + ad
  BY ListStep
<1>4. \A i \in 1 .. n - dr : list'[r][i] = list[r][i + dr]
  BY ListStep
<1>5. ad = 1 => list'[r][m] = freeIdx
  BY ListStep
<1>6. (dr = 1 <=> pop /\ r = p) /\ (ad = 1 <=> push /\ r = q)
  BY DEF Dropped, Added
<1>7. (n = 0 <=> list[r] = <<>>) /\ (m = 0 <=> list'[r] = <<>>)
  BY <1>1
<1>8. /\ r \in valid <=> n # 0
      /\ n # 0 => head[r] = list[r][1] /\ tail[r] = list[r][n]
      /\ \A i \in 1 .. n - 1 : next[list[r][i]] = list[r][i + 1]
  BY <1>7 DEF IInv, Linked
<1>9. \A s \in Queues : \A i \in 1 .. n, j \in 1 .. Len(list[s]) :
        list[r][i] = list[s][j] => r = s /\ i = j
  BY DEF IInv, NoLeak
<1>10. push /\ q \in valid => /\ Len(list[q]) \in 1 .. Len(list[q])
                              /\ tail[q] = list[q][Len(list[q])]
  BY DEF IInv, Linked, TypeOK
<1>11. \A i \in 1 .. n : list[r][i] \in Entries
  BY <1>1
<1> HIDE DEF dr, ad, n, m
<1>12. dr = 1 => (head[p] = tail[p] <=> n = 1)
  <2>1. ASSUME dr = 1, head[p] = tail[p]
        PROVE  n = 1
    <3>1. n # 0 /\ 1 \in 1 .. n /\ n \in 1 .. n
      BY <1>1, <1>3, <2>1
    <3>2. list[r][1] = list[r][n]
      BY <1>6, <1>8, <2>1, <3>1
    <3>3. \A i, j \in 1 .. n : list[r][i] = list[r][j] => i = j
      BY <1>9 DEF n
    <3> QED
      BY <3>1, <3>2, <3>3
  <2>2. ASSUME dr = 1, n = 1
        PROVE  head[p] = tail[p]
    BY <1>6, <1>8, <2>2
  <2> QED
    BY <2>1, <2>2
<1>13. r \in valid' <=> m # 0
  <2>1. r \in valid' <=> (r \in valid /\ ~(pop /\ head[p] = tail[p] /\ r = p)) \/ (push /\ r = q)
    BY DEF Clock, NextValid
  <2>2. r \in valid' <=> (n # 0 /\ ~(dr = 1 /\ n = 1)) \/ ad = 1
    BY <1>6, <1>8, <1>12, <2>1
  <2> QED
    BY <1>1, <1>2, <1>3, <2>2
<1>14. ASSUME m # 0
       PROVE  tail'[r] = list'[r][m]
  <2>1. CASE ad = 1
    BY <1>5, <1>6, <2>1, Zenon DEF Clock, IInv, TypeOK
  <2>2. CASE ad = 0
    <3>1. tail'[r] = tail[r]
      BY <1>6, <2>2 DEF Clock, IInv, TypeOK
    <3>2. m \in 1 .. n - dr /\ m + dr = n /\ n # 0
      BY <1>1, <1>2, <1>3, <1>14, <2>2
    <3> QED
      BY <1>4, <1>8, <3>1, <3>2
  <2> QED
    BY <1>2, <2>1, <2>2
<1>15. ASSUME m # 0
       PROVE  head'[r] = list'[r][1]
  <2>1. CASE dr = 1 /\ n = 1
    <3>1. ad = 1 /\ m = 1
      BY <1>1, <1>2, <1>3, <1>15, <2>1
    <3>2. PopHead(push, q, p) = freeIdx
      BY <1>6, <1>8, <1>12, <2>1, <3>1 DEF PopHead
    <3>3. head'[r] = PopHead(push, q, p)
      BY <1>6, <2>1 DEF Clock
    <3> QED
      BY <1>5, <3>1, <3>2, <3>3
  <2>2. CASE dr = 1 /\ n # 1
    <3>1. n >= 2 /\ 1 \in 1 .. n /\ 1 \in 1 .. n - dr /\ 1 \in 1 .. n - 1
      BY <1>1, <1>3, <2>2
    <3>2. ~(push /\ q \in valid /\ tail[q] = head[p])
      <4>1. r = p /\ head[p] = list[r][1]
        BY <1>6, <1>8, <2>2, <3>1
      <4>2. ASSUME push /\ q \in valid, tail[q] = head[p]
            PROVE  FALSE
        <5>1. PICK k \in 1 .. Len(list[q]) : k = Len(list[q]) /\ list[r][1] = list[q][k]
          BY <1>10, <4>1, <4>2
        <5>2. r = q /\ 1 = k
          BY <1>9, <3>1, <5>1, Zenon
        <5> QED
          BY <5>1, <5>2, <2>2 DEF n
      <4> QED
        BY <4>2
    <3>3. head'[r] = next[head[p]]
      BY <1>6, <2>2, <3>2 DEF Clock, PopHead
    <3>4. r = p /\ head[p] = list[r][1] /\ next[list[r][1]] = list[r][2]
      BY <1>6, <1>8, <2>2, <3>1
    <3>5. list'[r][1] = list[r][2]
      BY <1>4, <2>2, <3>1
    <3> QED
      BY <3>3, <3>4, <3>5
  <2>3. CASE dr = 0 /\ n = 0
    <3>1. ad = 1 /\ m = 1 /\ r \notin valid
      BY <1>1, <1>2, <1>3, <1>8, <1>15, <2>3
    <3>2. head'[r] = freeIdx
      BY <1>6, <2>3, <3>1, Zenon DEF Clock
    <3> QED
      BY <1>5, <3>1, <3>2
  <2>4. CASE dr = 0 /\ n # 0
    <3>1. head'[r] = head[r]
      BY <1>6, <1>8, <2>4 DEF Clock
    <3>2. 1 \in 1 .. n - dr
      BY <1>1, <2>4
    <3> QED
      BY <1>4, <1>8, <2>4, <3>1, <3>2
  <2> QED
    BY <1>2, <2>1, <2>2, <2>3, <2>4
<1>16. ASSUME NEW i \in 1 .. m - 1
       PROVE  next'[list'[r][i]] = list'[r][i + 1]
  <2>1. i \in 1 .. n - dr /\ i + dr \in 1 .. n
    BY <1>1, <1>2, <1>3
  <2>2. PICK k \in 1 .. n : k = i + dr /\ list'[r][i] = list[r][k]
    BY <1>4, <2>1
  <2>3. next' = IF push /\ q \in valid THEN [next EXCEPT ![tail[q]] = freeIdx] ELSE next
    BY DEF Clock
  <2>4. next \in [Entries -> Entries] /\ list[r][k] \in Entries
    BY <1>11 DEF IInv, TypeOK
  <2>5. CASE k < n
    <3>1. k \in 1 .. n - 1 /\ i + 1 \in 1 .. n - dr /\ (i + 1) + dr = k + 1
      BY <1>1, <1>2, <2>1, <2>2, <2>5
    <3>2. list'[r][i + 1] = list[r][k + 1] /\ next[list[r][k]] = list[r][k + 1]
      BY <1>4, <1>8, <3>1
    <3>3. push /\ q \in valid => list[r][k] # tail[q]
      <4>1. ASSUME push /\ q \in valid, list[r][k] = tail[q]
            PROVE  FALSE
        <5>1. r = q /\ k = Len(list[q])
          BY <1>9, <1>10, <4>1
        <5> QED
          BY <1>1, <5>1, <2>5 DEF n
      <4> QED
        BY <4>1
    <3>4. next'[list[r][k]] = next[list[r][k]]
      BY <2>3, <2>4, <3>3
    <3> QED
      BY <2>2, <3>2, <3>4
  <2>6. CASE k = n
    <3>1. ad = 1 /\ i + 1 = m /\ n # 0
      BY <1>1, <1>2, <1>3, <2>2, <2>6
    <3>2. push /\ r = q /\ q \in valid /\ list[r][k] = tail[q]
      BY <1>6, <1>8, <2>6, <3>1
    <3>3. next'[list[r][k]] = freeIdx
      BY <2>3, <2>4, <3>2
    <3> QED
      BY <1>5, <2>2, <3>1, <3>3
  <2> QED
    BY <1>1, <2>2, <2>5, <2>6
<1> QED
  BY <1>7, <1>13, <1>14, <1>15, <1>16 DEF m, n

\* In every reachable state the memory holds the lists and no entry is lost or shared: the
\* updates of head, tail, next, used and valid agree in every combination of push and pop.
THEOREM Invariance == Spec => []IInv
<1>1. Init => IInv
  BY DEF Init, IInv, TypeOK, Linked, NoLeak
<1>2. IInv /\ [Next]_vars => IInv'
  <2> SUFFICES ASSUME IInv, [Next]_vars
               PROVE  IInv'
    OBVIOUS
  <2>1. CASE Next
    BY <2>1, TypeStep, LinkedStep, NoLeakStep DEF Next, IInv
  <2>2. CASE UNCHANGED vars
    BY <2>2 DEF vars, IInv, TypeOK, Linked, NoLeak
  <2> QED
    BY <2>1, <2>2
<1> QED
  BY <1>1, <1>2, PTL DEF Spec

\* The linked structure of the buffer, for every number of queues and entries.
THEOREM AlwaysLinked == Spec => []Linked
  BY Invariance, PTL DEF IInv

\* No entry is ever lost or shared, for every number of queues and entries.
THEOREM NeverLeaks == Spec => []NoLeak
  BY Invariance, PTL DEF IInv
-----------------------------------------------------------------------------
\* Reading the elements of a list of entries gives a sequence of elements of its length.
LEMMA ReadList ==
  ASSUME NEW l \in Seq(Entries), NEW f \in [Entries -> Data]
  PROVE  LET s == [i \in 1 .. Len(l) |-> f[l[i]]]
         IN  s \in Seq(Data) /\ Len(s) = Len(l) /\ \A i \in 1 .. Len(l) : s[i] = f[l[i]]
<1>1. Len(l) \in Nat /\ \A i \in 1 .. Len(l) : f[l[i]] \in Data
  OBVIOUS
<1> QED
  BY <1>1

\* What a cycle does to the contents of queue r: its oldest element leaves, d is put last.
LEMMA ContentsStep ==
  ASSUME IInv,
         NEW push \in BOOLEAN, NEW pop \in BOOLEAN,
         NEW q \in Queues, NEW p \in Queues, NEW d \in Data,
         Clock(push, q, d, pop, p),
         NEW r \in Queues
  PROVE  LET rest == IF pop /\ r = p THEN Tail(Contents[r]) ELSE Contents[r]
         IN  /\ Contents'[r] = IF push /\ r = q THEN Append(rest, d) ELSE rest
             /\ pop /\ r = p => Contents[r] # <<>>
<1> DEFINE rest == IF pop /\ r = p THEN Tail(Contents[r]) ELSE Contents[r]
           dr == Dropped(pop, p, r)
           ad == Added(push, q, r)
           n == Len(list[r])
           m == Len(list'[r])
<1>1. TypeOK /\ TypeOK'
  BY TypeStep DEF IInv
<1>2. /\ Contents[r] \in Seq(Data) /\ Len(Contents[r]) = n
      /\ \A i \in 1 .. n : Contents[r][i] = data[list[r][i]]
  BY <1>1, ReadList DEF Contents, TypeOK
<1>3. /\ Contents'[r] \in Seq(Data) /\ Len(Contents'[r]) = m
      /\ \A i \in 1 .. m : Contents'[r][i] = data'[list'[r][i]]
  BY <1>1, ReadList DEF Contents, TypeOK
<1>4. n \in Nat /\ m \in Nat /\ dr \in {0, 1} /\ ad \in {0, 1}
  BY <1>1 DEF TypeOK, Dropped, Added
<1>5. /\ n >= dr /\ m = n - dr + ad
      /\ \A i \in 1 .. n - dr : list'[r][i] = list[r][i + dr]
      /\ ad = 1 => list'[r][m] = freeIdx
  BY ListStep
<1>6. (dr = 1 <=> pop /\ r = p) /\ (ad = 1 <=> push /\ r = q)
  BY DEF Dropped, Added
<1>7. push => freeIdx \in Entries /\ freeIdx \notin used
  BY <1>1, FreeIdxIsFree DEF Clock, TypeOK
<1>8. \A i \in 1 .. n : data'[list[r][i]] = data[list[r][i]]
  <2>1. \A i \in 1 .. n : list[r][i] \in used /\ list[r][i] \in Entries
    BY <1>1 DEF IInv, NoLeak, TypeOK
  <2> QED
    BY <1>1, <1>7, <2>1 DEF Clock, NextData, TypeOK
<1>9. ad = 1 => data'[freeIdx] = d
  BY <1>1, <1>6, <1>7 DEF Clock, NextData, TypeOK
<1> HIDE DEF dr, ad, n, m
<1>10. dr = 1 => Contents[r] # <<>>
  BY <1>2, <1>4, <1>5
<1>11. /\ rest \in Seq(Data) /\ Len(rest) = n - dr
       /\ \A i \in 1 .. n - dr : rest[i] = Contents[r][i + dr]
  <2>1. CASE dr = 1
    <3>1. rest = Tail(Contents[r])
      BY <1>6, <2>1
    <3>2. /\ Tail(Contents[r]) \in Seq(Data)
          /\ Len(Tail(Contents[r])) = Len(Contents[r]) - 1
          /\ \A i \in 1 .. Len(Tail(Contents[r])) : Tail(Contents[r])[i] = Contents[r][i + 1]
      BY <1>2, <1>10, <2>1, HeadTailProperties
    <3> HIDE DEF rest
    <3> QED
      BY <1>2, <2>1, <3>1, <3>2
  <2>2. CASE dr = 0
    <3>1. rest = Contents[r]
      BY <1>6, <2>2
    <3> HIDE DEF rest
    <3> QED
      BY <1>2, <1>4, <2>2, <3>1
  <2> QED
    BY <1>4, <2>1, <2>2
<1> HIDE DEF rest
<1>12. \A i \in 1 .. n - dr : Contents'[r][i] = rest[i]
  <2> SUFFICES ASSUME NEW i \in 1 .. n - dr
               PROVE  Contents'[r][i] = rest[i]
    OBVIOUS
  <2>1. i \in 1 .. m /\ i + dr \in 1 .. n
    BY <1>4, <1>5
  <2>2. Contents'[r][i] = data'[list[r][i + dr]]
    BY <1>3, <1>5, <2>1
  <2>3. rest[i] = data[list[r][i + dr]]
    BY <1>2, <1>11, <2>1
  <2> QED
    BY <1>8, <2>1, <2>2, <2>3
<1>13. CASE ad = 1
  <2>1. m = (n - dr) + 1 /\ n - dr \in Nat
    BY <1>4, <1>5, <1>13
  <2>2. Contents'[r][m] = d
    BY <1>3, <1>4, <1>5, <1>9, <1>13, <2>1
  <2>3. /\ Append(rest, d) \in Seq(Data) /\ Len(Append(rest, d)) = m
        /\ \A i \in 1 .. n - dr : Append(rest, d)[i] = rest[i]
        /\ Append(rest, d)[m] = d
    BY <1>11, <2>1, AppendProperties
  <2>4. \A i \in 1 .. m : Contents'[r][i] = Append(rest, d)[i]
    BY <1>12, <2>1, <2>2, <2>3
  <2>5. Contents'[r] = Append(rest, d)
    BY <1>3, <2>3, <2>4, SeqEqual
  <2> QED
    BY <1>6, <1>10, <1>13, <2>5 DEF rest
<1>14. CASE ad = 0
  <2>1. m = n - dr
    BY <1>4, <1>5, <1>14
  <2>2. Contents'[r] = rest
    BY <1>3, <1>11, <1>12, <2>1, SeqEqual
  <2> QED
    BY <1>6, <1>10, <1>14, <2>2 DEF rest
<1> QED
  BY <1>4, <1>13, <1>14

\* The entries in use are counted exactly.
LEMMA CountStep ==
  ASSUME IInv,
         NEW push \in BOOLEAN, NEW pop \in BOOLEAN,
         NEW q \in Queues, NEW p \in Queues, NEW d \in Data,
         Clock(push, q, d, pop, p)
  PROVE  /\ Cardinality(used) \in Nat
         /\ push => Cardinality(used) < entries
         /\ Cardinality(used') = Cardinality(used) + (IF push THEN 1 ELSE 0) - (IF pop THEN 1 ELSE 0)
<1>1. IsFiniteSet(Entries) /\ Cardinality(Entries) = entries
  BY ParamAssumption, FS_Interval DEF Entries
<1>2. used \in SUBSET Entries
  BY DEF IInv, TypeOK
<1>3. /\ IsFiniteSet(used) /\ Cardinality(used) <= entries
      /\ Cardinality(Entries) = Cardinality(used) => Entries = used
  BY <1>1, <1>2, FS_Subset
<1>4. Cardinality(used) \in Nat
  BY <1>3, FS_CardinalityType
<1>5. push => Cardinality(used) < entries
  BY <1>1, <1>3, <1>4, ParamAssumption DEF Clock, PushReady
<1>6. push => freeIdx \notin used
  BY <1>2, FreeIdxIsFree DEF Clock
<1>7. pop => head[p] \in used
  <2>1. pop => /\ list[p] # <<>> /\ head[p] = list[p][1] /\ list[p] \in Seq(Entries)
    BY DEF Clock, IInv, Linked, TypeOK
  <2>2. pop => 1 \in 1 .. Len(list[p]) /\ list[p][1] \in Entries
    BY <2>1
  <2> QED
    BY <2>1, <2>2 DEF IInv, NoLeak
<1> DEFINE kept == used \ (IF pop THEN {head[p]} ELSE {})
<1>8. IsFiniteSet(kept) /\ Cardinality(kept) = Cardinality(used) - (IF pop THEN 1 ELSE 0)
  <2>1. CASE pop
    <3>1. kept = used \ {head[p]}
      BY <2>1
    <3> QED
      BY <1>3, <1>7, <2>1, <3>1, FS_RemoveElement, Zenon
  <2>2. CASE ~pop
    <3>1. kept = used
      BY <2>2
    <3> QED
      BY <1>3, <1>4, <2>2, <3>1
  <2> QED
    BY <2>1, <2>2
<1>9. used' = kept \cup (IF push THEN {freeIdx} ELSE {})
  BY DEF Clock
<1>10. Cardinality(used') = Cardinality(kept) + (IF push THEN 1 ELSE 0)
  <2>1. CASE push
    <3>1. used' = kept \cup {freeIdx} /\ freeIdx \notin kept
      BY <1>6, <1>9, <2>1
    <3> HIDE DEF kept
    <3> QED
      BY <1>8, <2>1, <3>1, FS_AddElement, Zenon
  <2>2. CASE ~push
    <3>1. used' = kept
      BY <1>9, <2>2
    <3>2. Cardinality(kept) \in Nat
      BY <1>8, FS_CardinalityType
    <3> QED
      BY <2>2, <3>1, <3>2
  <2> QED
    BY <2>1, <2>2
<1> QED
  BY <1>4, <1>5, <1>8, <1>10

\* Every cycle is a push, a pop or both of the abstract queues, or leaves them alone.
LEMMA RefineStep ==
  ASSUME IInv, Next
  PROVE  [F!Next]_(F!vars)
<1>1. PICK push, pop \in BOOLEAN, q, p \in Queues, d \in Data : Clock(push, q, d, pop, p)
  BY DEF Next
<1>2. ASSUME NEW r \in Queues
      PROVE  /\ Contents'[r] =
                  LET rest == IF pop /\ r = p THEN Tail(Contents[r]) ELSE Contents[r]
                  IN  IF push /\ r = q THEN Append(rest, d) ELSE rest
             /\ pop /\ r = p => Contents[r] # <<>>
  BY <1>1, ContentsStep
<1>3. Contents = [r \in Queues |-> Contents[r]] /\ Contents' = [r \in Queues |-> Contents'[r]]
  BY DEF Contents
<1>4. /\ Cardinality(used) \in Nat
      /\ push => Cardinality(used) < entries
      /\ Cardinality(used') = Cardinality(used) + (IF push THEN 1 ELSE 0) - (IF pop THEN 1 ELSE 0)
  BY <1>1, CountStep
<1>5. CASE push /\ ~pop
  <2>1. Contents' = [Contents EXCEPT ![q] = Append(@, d)]
    BY <1>2, <1>3, <1>5
  <2>2. F!Push(q, d)
    BY <1>4, <1>5, <2>1 DEF F!Push
  <2> QED
    BY <2>2 DEF F!Next
<1>6. CASE ~push /\ pop
  <2>1. Contents' = [Contents EXCEPT ![p] = Tail(@)] /\ Contents[p] # <<>>
    BY <1>2, <1>3, <1>6
  <2>2. F!Pop(p)
    BY <1>4, <1>6, <2>1 DEF F!Pop
  <2> QED
    BY <2>2 DEF F!Next
<1>7. CASE push /\ pop
  <2>1. Contents[p] # <<>>
    BY <1>2, <1>7
  <2>2. Contents' = IF p = q THEN [Contents EXCEPT ![p] = Append(Tail(@), d)]
                    ELSE [Contents EXCEPT ![p] = Tail(@), ![q] = Append(@, d)]
    BY <1>2, <1>3, <1>7
  <2>3. F!PushPop(q, d, p)
    BY <1>4, <1>7, <2>1, <2>2 DEF F!PushPop
  <2> QED
    BY <2>3 DEF F!Next
<1>8. CASE ~push /\ ~pop
  <2>1. Contents' = Contents
    BY <1>2, <1>3, <1>8
  <2>2. Cardinality(used') = Cardinality(used)
    BY <1>4, <1>8
  <2> QED
    BY <2>1, <2>2 DEF F!vars
<1> QED
  BY <1>5, <1>6, <1>7, <1>8

\* ListBuffer implements the FIFOs, for every number of queues and entries: what is pushed
\* comes out of its queue once, in order, and pushes are refused only when all entries hold
\* an element.
THEOREM Implements == Spec => Refines
<1>1. Init => F!Init
  <2> SUFFICES ASSUME Init
               PROVE  F!Init
    OBVIOUS
  <2>1. \A q \in Queues : Len(list[q]) = 0
    BY DEF Init
  <2>2. \A q \in Queues : Contents[q] = <<>>
    BY <2>1 DEF Contents
  <2>3. Contents = [q \in Queues |-> <<>>]
    BY <2>2 DEF Contents
  <2>4. Cardinality(used) = 0
    BY FS_EmptySet DEF Init
  <2> QED
    BY <2>3, <2>4 DEF F!Init
<1>2. IInv /\ [Next]_vars => [F!Next]_(F!vars)
  <2>1. IInv /\ Next => [F!Next]_(F!vars)
    BY RefineStep
  <2>2. UNCHANGED vars => UNCHANGED F!vars
    BY DEF vars, F!vars, Contents
  <2> QED
    BY <2>1, <2>2
<1> QED
  BY <1>1, <1>2, Invariance, PTL DEF Spec, Refines, F!Spec
-----------------------------------------------------------------------------
(***************************************************************************)
(* The directory's lookups see every write, for any number of sets, ways   *)
(* and tags.                                                               *)
(***************************************************************************)

\* What wiping writes, and what the RAM holds before it, are entries.
LEMMA WipedIsEntry ==
  /\ Wiped \in DirectoryEntry /\ Garbage \in DirectoryEntry
  /\ [w \in dWay |-> Wiped] \in [dWay -> DirectoryEntry]
  /\ ~Wiped.valid
<1>1. (CHOOSE t \in dTags : TRUE) \in dTags
  BY DirectoryAssumption
<1> QED
  BY <1>1 DEF Wiped, Garbage, DirectoryEntry

\* What the RAM and the queue hold together, set by set.
LEMMA QueuedOverlay ==
  ASSUME dirTypes, RamAndQueue, wipeDone, NEW s \in dSet
  PROVE  logical[s] = Overlay(cc_dir[s], dir_write, s)
<1>1. CASE dir_write = NoWrite
  BY <1>1 DEF RamAndQueue, Overlay
<1>2. CASE dir_write # NoWrite
  <2>1. dir_write \in DirWrites
    BY <1>2 DEF dirTypes
  <2>2. /\ dir_write.set \in dSet /\ dir_write.way \in dWay
        /\ logical = [cc_dir EXCEPT ![dir_write.set] =
                         [cc_dir[dir_write.set] EXCEPT ![dir_write.way] = dir_write.data]]
    BY <1>2, <2>1 DEF RamAndQueue, DirWrites
  <2> QED
    BY <1>2, <2>2 DEF Overlay, dirTypes
<1> QED
  BY <1>1, <1>2

\* A lookup that has the RAM's answer, the queued write and a set without doubles is right.
LEMMA CompareRight ==
  ASSUME NEW ram \in [dWay -> DirectoryEntry], NEW byp \in DirWrites \cup {NoWrite},
         NEW set \in dSet, NEW tag \in dTags, NEW seen, NEW victim \in dWay,
         seen = Overlay(ram, byp, set), OneWay(seen)
  PROVE  LET r == Compare(ram, byp, set, tag, victim)
         IN /\ r.hit = \E w \in dWay : seen[w].valid /\ seen[w].tag = tag
            /\ r.entry = seen[r.way]
            /\ r.hit => r.entry.valid /\ r.entry.tag = tag
            /\ \A v, w \in Hits(ram, byp, set, tag) : v = w
<1> DEFINE hits == Hits(ram, byp, set, tag)
           quash == byp # NoWrite /\ byp.set = set
           first == CHOOSE w \in hits : TRUE
<1>1. /\ quash => /\ byp.way \in dWay /\ byp.data \in DirectoryEntry
                  /\ seen[byp.way] = byp.data
      /\ \A w \in dWay : ~(quash /\ byp.way = w) => seen[w] = ram[w]
  BY DEF Overlay, DirWrites
<1>2. \A w \in dWay : w \in hits <=>
        seen[w].valid /\ seen[w].tag = tag /\ ~(quash /\ byp.way = w)
  BY <1>1 DEF Hits
<1>3. hits \subseteq dWay
  BY DEF Hits
<1>4. \A v, w \in hits : v = w
  BY <1>2, <1>3 DEF OneWay
<1>5. hits # {} => first \in hits
  OBVIOUS
<1> DEFINE tagMatch == quash /\ byp.data.tag = tag
           wayMatch == quash /\ byp.way = victim
           r == Compare(ram, byp, set, tag, victim)
<1>6. /\ r.hit = (hits # {} \/ (tagMatch /\ byp.data.valid))
      /\ r.way = IF hits # {} THEN first ELSE IF tagMatch THEN byp.way ELSE victim
      /\ r.entry = IF hits # {} THEN ram[first]
                   ELSE IF tagMatch \/ wayMatch THEN byp.data ELSE ram[victim]
  BY DEF Compare
<1> HIDE DEF hits, first, r
<1>7. CASE hits # {}
  <2>1. /\ first \in dWay /\ seen[first] = ram[first]
        /\ seen[first].valid /\ seen[first].tag = tag
    BY <1>7, <1>1, <1>2, <1>3, <1>5, ZenonT(60)
  <2> QED
    BY <1>7, <2>1, <1>4, <1>6, Zenon DEF hits, r
<1>8. CASE hits = {}
  <2>1. \A w \in dWay : seen[w].valid /\ seen[w].tag = tag => quash /\ byp.way = w
    BY <1>8, <1>2
  <2>2. (\E w \in dWay : seen[w].valid /\ seen[w].tag = tag) <=> tagMatch /\ byp.data.valid
    BY <2>1, <1>1
  <2>3. byp.data.valid \in BOOLEAN \/ ~quash
    BY <1>1 DEF DirectoryEntry
  <2>4. r.hit = \E w \in dWay : seen[w].valid /\ seen[w].tag = tag
    BY <1>6, <1>8, <2>2, <2>3, ZenonT(60)
  <2>5. r.entry = seen[r.way]
    BY <1>6, <1>8, <1>1
  <2>6. r.hit => r.entry.valid /\ r.entry.tag = tag
    BY <1>6, <1>8, Zenon
  <2> QED
    BY <2>4, <2>5, <2>6, <1>4, ZenonT(60) DEF hits, r
<1> QED
  BY <1>7, <1>8, Zenon

\* The invariant says what the properties say.
LEMMA dirInvSound == dirInv => DirectoryExact
<1> SUFFICES ASSUME dirInv, Answering # NoLookup, NEW victim \in dWay
             PROVE  LET a == Answering
                        r == Compare(a.ram, a.byp, a.set, a.tag, victim)
                    IN /\ r.hit = \E w \in dWay : a.seen[w].valid /\ a.seen[w].tag = a.tag
                       /\ r.entry = a.seen[r.way]
                       /\ r.hit => r.entry.valid /\ r.entry.tag = a.tag
                       /\ \A v, w \in Hits(a.ram, a.byp, a.set, a.tag) : v = w
  BY Zenon DEF DirectoryExact, LookupSeesWrites, dirInv
<1> DEFINE a == Answering
<1>1. /\ a \in Pending /\ a.seen = Overlay(a.ram, a.byp, a.set) /\ OneWay(a.seen)
  <2>1. CASE dirReg
    BY <2>1 DEF Answering, dirInv, dirTypes, InFlight
  <2>2. CASE ~dirReg
    <3>1. stage1 \in Pending /\ a = [stage1 EXCEPT !.byp = dir_write]
      BY <2>2 DEF Answering, dirInv, dirTypes
    <3>2. wipeDone
      BY <3>1, DirectoryAssumption DEF dirInv, Wiping
    <3>3. /\ a.set = stage1.set /\ a.ram = stage1.ram /\ a.seen = stage1.seen
          /\ a.byp = dir_write /\ a.set \in dSet /\ a \in Pending
      BY <3>1 DEF Pending, dirInv, dirTypes
    <3>4. a.seen = logical[a.set] /\ a.ram = cc_dir[a.set]
      BY <3>1, <3>3, DirectoryAssumption DEF dirInv, InFlight
    <3> QED
      BY <3>2, <3>3, <3>4, QueuedOverlay DEF dirInv
  <2> QED
    BY <2>1, <2>2
<1> HIDE DEF a
<1>2. /\ a.ram \in [dWay -> DirectoryEntry] /\ a.byp \in DirWrites \cup {NoWrite}
      /\ a.set \in dSet /\ a.tag \in dTags
  BY <1>1 DEF Pending
<1> QED
  BY <1>1, <1>2, CompareRight, Zenon DEF a

\* After reset the RAM is not looked at, and nothing has been written.
LEMMA dirInitInv == dirInit => dirInv
<1> SUFFICES ASSUME dirInit PROVE dirInv
  OBVIOUS
<1>1. dirTypes
  BY WipedIsEntry, DirectoryAssumption DEF dirInit, dirTypes
<1>2. Wiping /\ InFlight
  BY DirectoryAssumption DEF dirInit, Wiping, InFlight, dSet
<1>3. RamAndQueue
  BY DirectoryAssumption DEF dirInit, RamAndQueue, wipeDone
<1>4. \A s \in dSet : OneWay(logical[s])
  BY WipedIsEntry DEF dirInit, OneWay
<1> QED
  BY <1>1, <1>2, <1>3, <1>4 DEF dirInv

\* A write is put into the directory as the scheduler sees it when it enters the queue, and
\* leaves every tag in one way.
LEMMA AcceptKeeps ==
  ASSUME dirInv, NEW read \in BOOLEAN, NEW new \in {NoWrite} \cup DirWrites,
         new # NoWrite => Sensible(new), Accept(read, new)
  PROVE  /\ dir_write' \in DirWrites \cup {NoWrite}
         /\ logical' \in [dSet -> [dWay -> DirectoryEntry]]
         /\ \A s \in dSet : OneWay(logical'[s])
<1>1. dir_write' \in DirWrites \cup {NoWrite}
  BY DEF Accept, dirInv, dirTypes
<1>2. CASE new = NoWrite
  BY <1>1, <1>2 DEF Accept, dirInv, dirTypes
<1>3. CASE new # NoWrite
  <2>1. /\ new.set \in dSet /\ new.way \in dWay /\ new.data \in DirectoryEntry
        /\ logical' = [logical EXCEPT ![new.set] =
                          [logical[new.set] EXCEPT ![new.way] = new.data]]
    BY <1>3 DEF Accept, DirWrites
  <2>2. logical' \in [dSet -> [dWay -> DirectoryEntry]]
    BY <2>1 DEF dirInv, dirTypes
  <2>3. ASSUME NEW s \in dSet PROVE OneWay(logical'[s])
    <3>1. CASE s = new.set
      <4>1. /\ \A w \in dWay \ {new.way} : logical'[s][w] = logical[s][w]
            /\ logical'[s][new.way] = new.data
        BY <2>1, <3>1 DEF dirInv, dirTypes
      <4> QED
        BY <4>1, <1>3, <3>1 DEF OneWay, dirInv, Sensible
    <3>2. CASE s # new.set
      BY <2>1, <3>2 DEF OneWay, dirInv, dirTypes
    <3> QED
      BY <3>1, <3>2
  <2> QED
    BY <1>1, <2>2, <2>3
<1> QED
  BY <1>2, <1>3

\* The RAM and the queue stay together what has been written, whether the port takes the
\* queued write or a lookup holds it back.
LEMMA PortKeeps ==
  ASSUME dirInv, wipeDone, NEW read \in BOOLEAN, NEW new \in {NoWrite} \cup DirWrites,
         Port(read), Accept(read, new), UNCHANGED wipeCount
  PROVE  /\ cc_dir' \in [dSet -> [dWay -> DirectoryEntry]]
         /\ RamAndQueue'
         /\ read => cc_dir' = cc_dir
<1> DEFINE With(q) == [cc_dir EXCEPT ![q.set] = [cc_dir[q.set] EXCEPT ![q.way] = q.data]]
<1>1. \A q \in DirWrites : /\ q.set \in dSet /\ q.way \in dWay /\ q.data \in DirectoryEntry
                           /\ With(q) \in [dSet -> [dWay -> DirectoryEntry]]
  BY DEF DirWrites, dirInv, dirTypes
<1>2. wipeDone'
  BY DEF wipeDone
<1>3. CASE new # NoWrite
  <2>1. dir_write = NoWrite /\ dir_write' = new /\ cc_dir' = cc_dir /\ logical = cc_dir
    BY <1>3 DEF Accept, Port, dirInv, RamAndQueue
  <2>2. logical' = With(new)
    BY <1>3, <2>1 DEF Accept
  <2> QED
    BY <1>2, <1>3, <2>1, <2>2 DEF RamAndQueue, dirInv, dirTypes
<1>4. CASE new = NoWrite /\ dir_write = NoWrite
  BY <1>2, <1>4 DEF Accept, Port, dirInv, dirTypes, RamAndQueue
<1>5. CASE new = NoWrite /\ dir_write # NoWrite /\ read
  BY <1>2, <1>5 DEF Accept, Port, dirInv, dirTypes, RamAndQueue
<1>6. CASE new = NoWrite /\ dir_write # NoWrite /\ ~read
  <2>1. dir_write \in DirWrites /\ logical = With(dir_write)
    BY <1>6 DEF dirInv, dirTypes, RamAndQueue
  <2>2. cc_dir' = With(dir_write) /\ dir_write' = NoWrite /\ logical' = logical
    BY <1>6 DEF Port, Accept
  <2> QED
    BY <1>1, <1>6, <2>1, <2>2 DEF RamAndQueue
<1> QED
  BY <1>3, <1>4, <1>5, <1>6

\* A lookup that moves on takes the queued write along.
LEMMA AdvanceKeeps ==
  ASSUME dirInv, Advance
  PROVE  /\ stage2' \in Pending \cup {NoLookup}
         /\ stage2' # NoLookup => /\ stage2'.seen = Overlay(stage2'.ram, stage2'.byp, stage2'.set)
                                  /\ OneWay(stage2'.seen)
<1>1. CASE dirReg /\ stage1 # NoLookup
  <2>1. stage1 \in Pending /\ stage2' = [stage1 EXCEPT !.byp = dir_write] /\ wipeDone
    BY <1>1 DEF Advance, dirInv, dirTypes, Wiping
  <2>2. /\ stage2'.set = stage1.set /\ stage2'.ram = stage1.ram /\ stage2'.seen = stage1.seen
        /\ stage2'.byp = dir_write /\ stage1.set \in dSet /\ stage2' \in Pending
    BY <2>1, SMTT(60) DEF Pending, dirInv, dirTypes
  <2>3. stage1.ram = cc_dir[stage1.set] /\ stage1.seen = logical[stage1.set]
    BY <1>1 DEF dirInv, InFlight
  <2> QED
    BY <2>1, <2>2, <2>3, QueuedOverlay DEF dirInv
<1>2. CASE ~(dirReg /\ stage1 # NoLookup)
  BY <1>2 DEF Advance
<1> QED
  BY <1>1, <1>2

\* A cycle with a lookup.
LEMMA LookupKeeps ==
  ASSUME dirInv, NEW set \in dSet, NEW tag \in dTags, NEW new \in {NoWrite} \cup DirWrites,
         new # NoWrite => Sensible(new), Lookup(set, tag, new)
  PROVE  dirInv'
<1>1. /\ wipeDone /\ Port(TRUE) /\ Accept(TRUE, new) /\ Advance
      /\ UNCHANGED <<dirReg, wipeCount, wipeOff>>
      /\ stage1' = [set |-> set, tag |-> tag, ram |-> cc_dir[set], byp |-> NoWrite,
                    seen |-> logical'[set]]
  BY Zenon DEF Lookup
<1>2. /\ dir_write' \in DirWrites \cup {NoWrite}
      /\ logical' \in [dSet -> [dWay -> DirectoryEntry]]
      /\ \A s \in dSet : OneWay(logical'[s])
  BY <1>1, AcceptKeeps, Zenon
<1>3. cc_dir' \in [dSet -> [dWay -> DirectoryEntry]] /\ RamAndQueue' /\ cc_dir' = cc_dir
  BY <1>1, PortKeeps, ZenonT(60)
<1>4. /\ stage2' \in Pending \cup {NoLookup}
      /\ stage2' # NoLookup => /\ stage2'.seen = Overlay(stage2'.ram, stage2'.byp, stage2'.set)
                               /\ OneWay(stage2'.seen)
  BY <1>1, AdvanceKeeps, ZenonT(60)
<1>5. stage1' \in Pending
  BY <1>1, <1>2, SMTT(60) DEF Pending, dirInv, dirTypes
<1>6. stage1'.set = set /\ stage1'.ram = cc_dir'[set] /\ stage1'.seen = logical'[set]
  BY <1>1, <1>3
<1>7. dirTypes'
  BY <1>1, <1>2, <1>3, <1>4, <1>5, ZenonT(60) DEF dirInv, dirTypes
<1>8. Wiping'
  BY <1>1, SMTT(60) DEF Wiping, wipeDone
<1>9. InFlight'
  BY <1>4, <1>6 DEF InFlight, Overlay, OneWay
<1> QED
  BY <1>2, <1>3, <1>7, <1>8, <1>9 DEF dirInv, OneWay

\* A cycle of the wipe.
LEMMA WipeKeeps ==
  ASSUME dirInv, ~wipeDone, NoRead(NoWrite)
  PROVE  dirInv'
<1>1. /\ dir_write = NoWrite /\ stage1 = NoLookup /\ wipeCount \in dSet
      /\ logical = [s \in dSet |-> [w \in dWay |-> Wiped]]
  BY DirectoryAssumption DEF dirInv, Wiping, dirTypes, wipeDone, dSet
<1>2. /\ dir_write' = NoWrite /\ logical' = logical /\ stage1' = NoLookup /\ stage2' = NoLookup
      /\ dirReg' = dirReg /\ wipeOff' = FALSE
  BY <1>1 DEF NoRead, Accept, Advance
<1>3. CASE wipeOff
  <2>1. cc_dir' = cc_dir /\ wipeCount' = wipeCount
    BY <1>3 DEF NoRead, Port
  <2>2. dirTypes' /\ Wiping' /\ RamAndQueue' /\ InFlight'
    BY <1>1, <1>2, <2>1, ZenonT(60)
    DEF dirInv, dirTypes, Wiping, RamAndQueue, InFlight, wipeDone
  <2> QED
    BY <1>2, <2>2 DEF dirInv, OneWay
<1>4. CASE ~wipeOff
  <2>1. /\ cc_dir' = [cc_dir EXCEPT ![wipeCount] = [w \in dWay |-> Wiped]]
        /\ wipeCount' = wipeCount + 1
    BY <1>4 DEF NoRead, Port
  <2>2. /\ cc_dir' \in [dSet -> [dWay -> DirectoryEntry]]
        /\ \A s \in dSet : s < wipeCount' => cc_dir'[s] = [w \in dWay |-> Wiped]
    <3>1. \A s \in dSet : s < wipeCount + 1 => s < wipeCount \/ s = wipeCount
      BY <1>1, SMTT(60) DEF dSet
    <3>2. \A s \in dSet : s < wipeCount => cc_dir[s] = [w \in dWay |-> Wiped]
      BY DEF dirInv, Wiping
    <3> QED
      BY <1>1, <2>1, <3>1, <3>2, WipedIsEntry DEF dirInv, dirTypes
  <2>3. dirTypes'
    <3>1. wipeCount + 1 \in 0 .. dSets
      BY <1>1, DirectoryAssumption DEF dSet
    <3> QED
      BY <1>2, <2>1, <2>2, <3>1, Zenon DEF dirInv, dirTypes
  <2>4. wipeDone' => cc_dir' = logical'
    <3> SUFFICES ASSUME wipeDone' PROVE cc_dir' = logical'
      OBVIOUS
    <3>1. \A s \in dSet : s < wipeCount'
      BY DirectoryAssumption, SMTT(60) DEF wipeDone, dSet
    <3> QED
      BY <3>1, <2>2, <1>1, <1>2
  <2>5. Wiping' /\ RamAndQueue' /\ InFlight'
    BY <1>1, <1>2, <2>2, <2>4 DEF Wiping, RamAndQueue, InFlight
  <2> QED
    BY <1>2, <2>3, <2>5 DEF dirInv, OneWay
<1> QED
  BY <1>3, <1>4 DEF dirInv, dirTypes

\* A cycle without a lookup once the wipe is over.
LEMMA IdleKeeps ==
  ASSUME dirInv, wipeDone, NEW new \in {NoWrite} \cup DirWrites,
         new # NoWrite => Sensible(new), NoRead(new)
  PROVE  dirInv'
<1>1. /\ Port(FALSE) /\ Accept(FALSE, new) /\ Advance /\ stage1' = NoLookup
      /\ wipeOff' = FALSE /\ UNCHANGED <<dirReg, wipeCount>>
  BY Zenon DEF NoRead
<1>2. /\ dir_write' \in DirWrites \cup {NoWrite}
      /\ logical' \in [dSet -> [dWay -> DirectoryEntry]]
      /\ \A s \in dSet : OneWay(logical'[s])
  BY <1>1, AcceptKeeps, Zenon
<1>3. cc_dir' \in [dSet -> [dWay -> DirectoryEntry]] /\ RamAndQueue'
  BY <1>1, PortKeeps, Zenon
<1>4. /\ stage2' \in Pending \cup {NoLookup}
      /\ stage2' # NoLookup => /\ stage2'.seen = Overlay(stage2'.ram, stage2'.byp, stage2'.set)
                               /\ OneWay(stage2'.seen)
  BY <1>1, AdvanceKeeps
<1>5. dirTypes'
  BY <1>1, <1>2, <1>3, <1>4, ZenonT(60) DEF dirInv, dirTypes
<1>6. Wiping' /\ InFlight'
  BY <1>1, <1>4 DEF Wiping, wipeDone, InFlight, Overlay, OneWay
<1> QED
  BY <1>2, <1>3, <1>5, <1>6 DEF dirInv, OneWay

\* Every cycle keeps the invariant.
LEMMA dirStep == dirInv /\ [dirNext]_dirVars => dirInv'
<1> SUFFICES ASSUME dirInv, [dirNext]_dirVars PROVE dirInv'
  OBVIOUS
<1>1. CASE UNCHANGED dirVars
  BY <1>1 DEF dirVars, dirInv, dirTypes, Wiping, wipeDone, RamAndQueue, InFlight, Overlay,
             OneWay
<1>2. ASSUME NEW new \in {NoWrite} \cup DirWrites, new # NoWrite => Sensible(new),
             NEW set \in dSet, NEW tag \in dTags, Lookup(set, tag, new)
      PROVE  dirInv'
  BY <1>2, LookupKeeps
<1>3. ASSUME NEW new \in {NoWrite} \cup DirWrites, new # NoWrite => Sensible(new), NoRead(new)
      PROVE  dirInv'
  <2>1. CASE wipeDone
    BY <1>3, <2>1, IdleKeeps
  <2>2. CASE ~wipeDone
    <3>1. new = NoWrite
      BY <1>3, <2>2 DEF NoRead
    <3> QED
      BY <1>3, <2>2, <3>1, WipeKeeps
  <2> QED
    BY <2>1, <2>2
<1> QED
  BY <1>1, <1>2, <1>3, SMTT(60) DEF dirNext

\* The directory of an L2 bank (cache/Directory.scala), with its single-ported RAM, its write
\* queue and the optional register, answers every lookup as a directory whose writes take
\* effect at once, for any number of sets, ways and tags.
THEOREM DirectoryCorrect == dirSpec => []DirectoryExact
<1> QED
  BY dirInitInv, dirStep, dirInvSound, PTL DEF dirSpec
=============================================================================
