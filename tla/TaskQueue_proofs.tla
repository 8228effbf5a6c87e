-------------------------- MODULE TaskQueue_proofs --------------------------
(***************************************************************************)
(* The heap of TaskQueue is a priority queue: for any tasks, times,        *)
(* priorities and ties.  The loops of heapq are handled by RepeatInvariant *)
(* with a family of sets, one for every turn of the loop; each set holds   *)
(* the lists in which all entries but the one that moves are in place, and *)
(* in which the loop has at least so many turns behind it or has stopped.  *)
(***************************************************************************)
EXTENDS TaskQueue, Filtering_proofs

-----------------------------------------------------------------------------
(* Loops.                                                                  *)

(* What the entry m of the function F in Repeat has to be. *)
Turn(step, s, F, m) == IF m = 0 THEN s ELSE step[F[m - 1]]

(* There is such a function: it is built turn by turn. *)
LEMMA RepeatExists ==
    ASSUME NEW step, NEW s, NEW n \in Nat
    PROVE  \E F : F = [m \in 0 .. n |-> Turn(step, s, F, m)]
<1> DEFINE H == {k \in 0 .. n : \E F : F = [m \in 0 .. k |-> Turn(step, s, F, m)]}
<1>1. 0 \in H
  <2> DEFINE F == [m \in 0 .. 0 |-> s]
  <2>1. \A m \in 0 .. 0 : Turn(step, s, F, m) = s
    BY DEF Turn
  <2>2. F = [m \in 0 .. 0 |-> Turn(step, s, F, m)]
    BY <2>1
  <2>3. QED
    BY <2>2
<1>2. ASSUME NEW k \in 0 .. n - 1, k \in H PROVE k + 1 \in H
  <2>1. PICK F : F = [m \in 0 .. k |-> Turn(step, s, F, m)]
    BY <1>2
  <2> DEFINE G == [m \in 0 .. k + 1 |-> IF m = k + 1 THEN Turn(step, s, F, m) ELSE F[m]]
  <2>2. \A m \in 0 .. k + 1 : m # 0 => G[m - 1] = F[m - 1]
    OBVIOUS
  <2>3. ASSUME NEW m \in 0 .. k + 1 PROVE G[m] = Turn(step, s, G, m)
    <3>1. Turn(step, s, G, m) = Turn(step, s, F, m)
      BY <2>2 DEF Turn
    <3>2. m # k + 1 => m \in 0 .. k
      OBVIOUS
    <3> HIDE DEF Turn
    <3>3. m # k + 1 => F[m] = Turn(step, s, F, m)
      BY <2>1, <3>2
    <3>4. QED
      BY <3>1, <3>3
  <2>4. G = [m \in 0 .. k + 1 |-> G[m]]
    OBVIOUS
  <2>5. G = [m \in 0 .. k + 1 |-> Turn(step, s, G, m)]
    <3> HIDE DEF G
    <3>1. QED
      BY <2>3, <2>4
  <2>6. k + 1 \in 0 .. n
    OBVIOUS
  <2>7. QED
    BY <2>5, <2>6
<1>3. n \in 0 .. n
  OBVIOUS
<1>4. n \in H
  <2> HIDE DEF H
  <2>1. QED
    BY <1>1, <1>2, <1>3, NatSetInduction
<1>5. QED
  BY <1>4

(* A loop that starts in the first of the sets and goes with every turn *)
(* from one of them to the next ends in the last.                       *)
LEMMA RepeatInvariant ==
    ASSUME NEW step, NEW s, NEW n \in Nat, NEW S,
           s \in S[0],
           \A m \in 0 .. n - 1 : \A x \in S[m] : step[x] \in S[m + 1]
    PROVE  Repeat(step, s, n) \in S[n]
<1>1. PICK F : F = [m \in 0 .. n |-> Turn(step, s, F, m)]
  BY RepeatExists
<1> DEFINE G == CHOOSE f : f = [m \in 0 .. n |-> Turn(step, s, f, m)]
<1>2. G = [m \in 0 .. n |-> Turn(step, s, G, m)]
  BY <1>1
<1>3. Repeat(step, s, n) = G[n]
  BY DEF Repeat, Turn
<1> HIDE DEF G
<1> DEFINE H == {m \in 0 .. n : G[m] \in S[m]}
<1>4. 0 \in H
  BY <1>2 DEF Turn
<1>5. ASSUME NEW m \in 0 .. n - 1, m \in H PROVE m + 1 \in H
  <2>1. m + 1 \in 0 .. n /\ m + 1 # 0 /\ (m + 1) - 1 = m
    OBVIOUS
  <2>2. G[m + 1] = step[G[m]]
    BY <1>2, <2>1 DEF Turn
  <2>3. QED
    BY <1>5, <2>1, <2>2
<1>6. n \in H
  <2> HIDE DEF H
  <2>1. n \in 0 .. n
    OBVIOUS
  <2>2. QED
    BY <1>4, <1>5, <2>1, NatSetInduction
<1>7. QED
  BY <1>3, <1>6

-----------------------------------------------------------------------------
(* The order of the keys.                                                  *)

(* Task t comes no later than u. *)
AtMost(k, t, u) == ~ KeyLess(k[u], k[t])

(* The keys are compared as pairs of numbers. *)
LEMMA KeyOrder ==
    ASSUME NEW a \in Nat \X Nat, NEW b \in Nat \X Nat, NEW c \in Nat \X Nat
    PROVE  /\ ~ KeyLess(a, a)
           /\ KeyLess(a, b) => ~ KeyLess(b, a)
           /\ ~ KeyLess(a, b) /\ ~ KeyLess(b, a) => a = b
           /\ ~ KeyLess(b, a) /\ ~ KeyLess(c, b) => ~ KeyLess(c, a)
           /\ ~ KeyLess(b, a) => a[1] <= b[1]
  BY DEF KeyLess

(* So AtMost is a total order of the tasks, up to ties. *)
LEMMA TaskOrder ==
    ASSUME NEW T, NEW k, \A t \in T : k[t] \in Nat \X Nat,
           NEW t \in T, NEW u \in T, NEW v \in T
    PROVE  /\ AtMost(k, t, t)
           /\ AtMost(k, t, u) \/ AtMost(k, u, t)
           /\ AtMost(k, t, u) /\ AtMost(k, u, v) => AtMost(k, t, v)
           /\ AtMost(k, t, u) => k[t][1] <= k[u][1]
<1>1. k[t] \in Nat \X Nat /\ k[u] \in Nat \X Nat /\ k[v] \in Nat \X Nat
  OBVIOUS
<1>2. QED
  BY <1>1, KeyOrder DEF AtMost

(* What a comparison of two tuples says about their tasks. *)
LEMMA CompareFacts ==
    ASSUME NEW T, NEW k, \A t \in T : k[t] \in Nat \X Nat,
           NEW t \in T, NEW u \in T
    PROVE  /\ Compare(k, t, u) \in {"less", "notless", "TypeError"}
           /\ Compare(k, t, u) = "less" => AtMost(k, t, u)
           /\ Compare(k, t, u) = "notless" => AtMost(k, u, t)
           /\ Compare(k, t, u) = "TypeError" =>
                  /\ k[t] = k[u] /\ ~ {t, u} \subseteq Comparable
                  /\ AtMost(k, t, u) /\ AtMost(k, u, t)
<1>1. k[t] \in Nat \X Nat /\ k[u] \in Nat \X Nat
  OBVIOUS
<1>2. CASE KeyLess(k[t], k[u])
  <2>1. Compare(k, t, u) = "less" /\ ~ KeyLess(k[u], k[t])
    BY <1>1, <1>2, KeyOrder DEF Compare
  <2>2. QED
    BY <2>1 DEF AtMost
<1>3. CASE KeyLess(k[u], k[t])
  <2>1. Compare(k, t, u) = "notless" /\ ~ KeyLess(k[t], k[u])
    BY <1>1, <1>3, KeyOrder DEF Compare
  <2>2. QED
    BY <2>1 DEF AtMost
<1>4. CASE ~ KeyLess(k[t], k[u]) /\ ~ KeyLess(k[u], k[t])
  <2>1. k[t] = k[u]
    BY <1>1, <1>4, KeyOrder
  <2>2. Compare(k, t, u) = IF {t, u} \subseteq Comparable
                           THEN IF t < u THEN "less" ELSE "notless"
                           ELSE "TypeError"
    BY <1>4 DEF Compare
  <2>3. QED
    BY <1>4, <2>1, <2>2 DEF AtMost
<1>5. QED
  BY <1>2, <1>3, <1>4

-----------------------------------------------------------------------------
(* Lists.                                                                  *)

(* The list h has n entries, each task of R once. *)
Lists(h, n, R) == h \in Seq(R) /\ Len(h) = n /\ IsInjective(h) /\ Range(h) = R

(* The places of a binary heap. *)
LEMMA ParentFacts ==
    ASSUME NEW i \in Nat, i >= 2
    PROVE  /\ Parent(i) \in Nat /\ 1 <= Parent(i) /\ Parent(i) < i
           /\ \A p \in Nat : Parent(i) = p <=> i = 2 * p \/ i = 2 * p + 1
  BY DEF Parent

(* Exchanging two entries loses none. *)
LEMMA SwapFacts ==
    ASSUME NEW n \in Nat, NEW R, NEW h, Lists(h, n, R),
           NEW i \in 1 .. n, NEW j \in 1 .. n
    PROVE  /\ Lists(Swap(h, i, j), n, R)
           /\ Swap(h, i, j)[i] = h[j] /\ Swap(h, i, j)[j] = h[i]
           /\ \A m \in 1 .. n : m # i /\ m # j => Swap(h, i, j)[m] = h[m]
<1> DEFINE g == Swap(h, i, j)
<1>0. h \in [1 .. n -> R] /\ DOMAIN h = 1 .. n
  BY DEF Lists
<1>1. /\ g \in [1 .. n -> R] /\ DOMAIN g = 1 .. n
      /\ g[i] = h[j] /\ g[j] = h[i]
      /\ \A m \in 1 .. n : m # i /\ m # j => g[m] = h[m]
  BY <1>0 DEF Swap
<1> HIDE DEF g
<1>2. g \in Seq(R) /\ Len(g) = n
  BY <1>1, IsASeq, LenProperties
<1>3. IsInjective(g)
  BY <1>0, <1>1 DEF IsInjective, Lists
<1>4. Range(g) = R
  <2>1. \A r \in R : \E m \in 1 .. n : h[m] = r
    BY <1>0 DEF Lists, Range
  <2>2. \A m \in 1 .. n : \E l \in 1 .. n : g[l] = h[m]
    <3> SUFFICES ASSUME NEW m \in 1 .. n PROVE \E l \in 1 .. n : g[l] = h[m]
      OBVIOUS
    <3>1. CASE m = i
      BY <1>1, <3>1
    <3>2. CASE m = j
      BY <1>1, <3>2
    <3>3. CASE m # i /\ m # j
      BY <1>1, <3>3
    <3>4. QED
      BY <3>1, <3>2, <3>3
  <2>3. \A r \in R : \E l \in 1 .. n : g[l] = r
    BY <2>1, <2>2
  <2>4. \A l \in 1 .. n : g[l] \in R
    BY <1>1
  <2>5. QED
    BY <1>1, <2>3, <2>4 DEF Range
<1>5. Lists(g, n, R)
  BY <1>2, <1>3, <1>4 DEF Lists
<1>6. QED
  BY <1>1, <1>5 DEF g

(* heappush puts the new entry at the end first. *)
LEMMA ListAppend ==
    ASSUME NEW n \in Nat, NEW R, NEW h, Lists(h, n, R), NEW t, t \notin R
    PROVE  /\ Lists(Append(h, t), n + 1, R \cup {t})
           /\ Append(h, t)[n + 1] = t
           /\ \A m \in 1 .. n : Append(h, t)[m] = h[m]
<1> DEFINE g == Append(h, t)
<1>0. h \in Seq(R \cup {t}) /\ t \in R \cup {t} /\ Len(h) = n /\ DOMAIN h = 1 .. n
  BY SeqMonotonic DEF Lists
<1>1. /\ g \in Seq(R \cup {t}) /\ Len(g) = n + 1 /\ DOMAIN g = 1 .. n + 1
      /\ g[n + 1] = t /\ \A m \in 1 .. n : g[m] = h[m]
  BY <1>0
<1>2. Range(g) = R \cup {t}
  <2>1. Range(g) = Range(h) \cup {t}
    BY <1>0, AppendRange
  <2>2. QED
    BY <2>1 DEF Lists
<1> HIDE DEF g
<1>3. IsInjective(g)
  <2>1. \A m \in 1 .. n : h[m] \in R
    BY <1>0 DEF Lists, Range
  <2>2. \A a, b \in 1 .. n : h[a] = h[b] => a = b
    BY <1>0 DEF Lists, IsInjective
  <2>3. \A a \in 1 .. n + 1 : a \in 1 .. n \/ a = n + 1
    OBVIOUS
  <2>4. QED
    BY <1>1, <2>1, <2>2, <2>3 DEF IsInjective
<1>4. Lists(g, n + 1, R \cup {t})
  BY <1>1, <1>2, <1>3 DEF Lists
<1>5. QED
  BY <1>1, <1>4 DEF g

(* heappop puts the last entry in the place of the first. *)
LEMMA ListDrop ==
    ASSUME NEW n \in Nat, n > 1, NEW R, NEW h, Lists(h, n, R)
    PROVE  LET g == SubSeq([h EXCEPT ![1] = h[n]], 1, n - 1)
           IN  /\ Lists(g, n - 1, R \ {h[1]})
               /\ \A m \in 2 .. n - 1 : g[m] = h[m]
<1> DEFINE f == [h EXCEPT ![1] = h[n]]
           g == SubSeq(f, 1, n - 1)
<1>0. h \in [1 .. n -> R] /\ DOMAIN h = 1 .. n
  BY DEF Lists
<1>1. f \in [1 .. n -> R] /\ f[1] = h[n] /\ \A m \in 2 .. n : f[m] = h[m]
  BY <1>0
<1> HIDE DEF f
<1>2. f \in Seq(R) /\ Len(f) = n
  BY <1>1, IsASeq, LenProperties
<1>3. /\ g \in Seq(R) /\ Len(g) = n - 1 /\ DOMAIN g = 1 .. n - 1
      /\ \A m \in 1 .. n - 1 : g[m] = f[m]
  BY <1>2
<1> HIDE DEF g
<1>4. g[1] = h[n] /\ \A m \in 2 .. n - 1 : g[m] = h[m]
  BY <1>1, <1>3
<1>5. \A a, b \in 1 .. n : h[a] = h[b] => a = b
  BY <1>0 DEF Lists, IsInjective
<1>6. \A m \in 1 .. n - 1 : g[m] \in R \ {h[1]}
  <2> SUFFICES ASSUME NEW m \in 1 .. n - 1 PROVE g[m] \in R \ {h[1]}
    OBVIOUS
  <2>1. g[m] \in R
    BY <1>3
  <2>2. g[m] # h[1]
    BY <1>4, <1>5
  <2>3. QED
    BY <2>1, <2>2
<1>7. IsInjective(g)
  <2>1. \A a, b \in 1 .. n - 1 : g[a] = g[b] => a = b
    BY <1>4, <1>5
  <2>2. QED
    BY <1>3, <2>1 DEF IsInjective
<1>8. Range(g) = R \ {h[1]}
  <2>1. \A r \in R : \E m \in 1 .. n : h[m] = r
    BY <1>0 DEF Lists, Range
  <2>2. \A m \in 2 .. n : \E l \in 1 .. n - 1 : g[l] = h[m]
    <3> SUFFICES ASSUME NEW m \in 2 .. n PROVE \E l \in 1 .. n - 1 : g[l] = h[m]
      OBVIOUS
    <3>1. CASE m = n
      BY <1>4, <3>1
    <3>2. CASE m # n
      <4>1. m \in 2 .. n - 1 /\ m \in 1 .. n - 1
        BY <3>2
      <4>2. QED
        BY <1>4, <4>1
    <3>3. QED
      BY <3>1, <3>2
  <2>3. \A m \in 1 .. n : m = 1 \/ m \in 2 .. n
    OBVIOUS
  <2>4. \A r \in R \ {h[1]} : \E l \in 1 .. n - 1 : g[l] = r
    BY <2>1, <2>2, <2>3
  <2>5. QED
    BY <1>3, <1>6, <2>4 DEF Range
<1>9. g \in Seq(R \ {h[1]})
  <2>1. g \in [1 .. n - 1 -> R \ {h[1]}]
    BY <1>3, <1>6
  <2>2. n - 1 \in Nat
    OBVIOUS
  <2>3. QED
    BY <2>1, <2>2, IsASeq
<1>10. Lists(g, n - 1, R \ {h[1]})
  BY <1>3, <1>7, <1>8, <1>9 DEF Lists
<1>11. QED
  BY <1>4, <1>10 DEF g, f

-----------------------------------------------------------------------------
(* Heaps.                                                                  *)

Ordered(k, h) == \A i \in 2 .. Len(h) : AtMost(k, h[Parent(i)], h[i])

(* The entries below place p fit the one above p. *)
Bridged(k, h, p) ==
    p > 1 => \A i \in 2 .. Len(h) : Parent(i) = p => AtMost(k, h[Parent(p)], h[i])

(* All is in order but for the entry at p, which may have to rise. *)
Rising(k, h, p) ==
    /\ \A i \in 2 .. Len(h) : i # p => AtMost(k, h[Parent(i)], h[i])
    /\ Bridged(k, h, p)

(* All is in order but for the entry at p, which may belong anywhere. *)
Sinking(k, h, p) ==
    /\ \A i \in 2 .. Len(h) : i # p /\ Parent(i) # p => AtMost(k, h[Parent(i)], h[i])
    /\ Bridged(k, h, p)

(* The tasks of R have keys. *)
Keyed(k, R) == \A t \in R : k[t] \in Nat \X Nat

(* An entry that is smaller than the one above changes places with it. *)
LEMMA RiseStep ==
    ASSUME NEW n \in Nat, NEW R, NEW k, Keyed(k, R), NEW h, Lists(h, n, R),
           NEW p \in 2 .. n, Rising(k, h, p), AtMost(k, h[p], h[Parent(p)])
    PROVE  Rising(k, Swap(h, p, Parent(p)), Parent(p))
<1> DEFINE q == Parent(p)
           g == Swap(h, p, q)
<1>0. q \in 1 .. n /\ q < p /\ p \in 1 .. n
  BY ParentFacts
<1> HIDE DEF q
<1>1. /\ Lists(g, n, R) /\ g[p] = h[q] /\ g[q] = h[p]
      /\ \A m \in 1 .. n : m # p /\ m # q => g[m] = h[m]
  BY <1>0, SwapFacts
<1>2. Len(g) = n /\ Len(h) = n /\ \A m \in 1 .. n : h[m] \in R
  BY <1>1 DEF Lists
<1>3. \A t, u, v \in R : AtMost(k, t, u) /\ AtMost(k, u, v) => AtMost(k, t, v)
  BY TaskOrder DEF Keyed
<1>4. /\ \A i \in 2 .. n : i # p => AtMost(k, h[Parent(i)], h[i])
      /\ \A i \in 2 .. n : Parent(i) = p => AtMost(k, h[q], h[i])
      /\ AtMost(k, h[p], h[q])
  BY <1>2 DEF Rising, Bridged, q
<1>5. \A i \in 2 .. n : Parent(i) \in 1 .. n /\ Parent(i) < i /\ i \in 1 .. n
  BY ParentFacts
<1> HIDE DEF g
<1>6. ASSUME NEW i \in 2 .. n, i # q PROVE AtMost(k, g[Parent(i)], g[i])
  <2>1. CASE i = p
    BY <1>1, <1>4, <2>1 DEF q
  <2>2. CASE i # p /\ Parent(i) = p
    BY <1>0, <1>1, <1>4, <1>5, <1>6, <2>2
  <2>3. CASE i # p /\ Parent(i) = q
    <3>1. g[i] = h[i] /\ g[Parent(i)] = h[p] /\ AtMost(k, h[q], h[i])
      BY <1>1, <1>4, <1>5, <1>6, <2>3
    <3>2. QED
      BY <1>0, <1>2, <1>3, <1>4, <1>5, <3>1
  <2>4. CASE i # p /\ Parent(i) # p /\ Parent(i) # q
    BY <1>1, <1>4, <1>5, <1>6, <2>4
  <2>5. QED
    BY <2>1, <2>2, <2>3, <2>4
<1>7. ASSUME q > 1, NEW i \in 2 .. n, Parent(i) = q
      PROVE  AtMost(k, g[Parent(q)], g[i])
  <2>0. q \in 2 .. n /\ q # p
    BY <1>0, <1>7
  <2>1. Parent(q) \in 1 .. n /\ Parent(q) # q /\ Parent(q) # p
    BY <1>0, <1>5, <2>0
  <2>2. g[Parent(q)] = h[Parent(q)] /\ AtMost(k, h[Parent(q)], h[q])
    BY <1>1, <1>4, <2>0, <2>1
  <2>3. CASE i = p
    BY <1>1, <2>2, <2>3
  <2>4. CASE i # p
    <3>1. i # q /\ i \in 1 .. n
      BY <1>5, <1>7
    <3>2. g[i] = h[i] /\ AtMost(k, h[q], h[i])
      BY <1>1, <1>4, <1>7, <2>4, <3>1
    <3>3. QED
      BY <1>0, <1>2, <1>3, <2>1, <2>2, <3>1, <3>2
  <2>5. QED
    BY <2>3, <2>4
<1>8. QED
  BY <1>2, <1>6, <1>7 DEF Rising, Bridged, g, q

(* The smaller entry below p changes places with the one at p. *)
LEMMA SinkStep ==
    ASSUME NEW n \in Nat, NEW R, NEW k, Keyed(k, R), NEW h, Lists(h, n, R),
           NEW p \in 1 .. n, NEW c \in 2 .. n, Parent(c) = p, Sinking(k, h, p),
           \A i \in 2 .. n : Parent(i) = p => AtMost(k, h[c], h[i])
    PROVE  Sinking(k, Swap(h, p, c), c)
<1> DEFINE g == Swap(h, p, c)
<1>0. c \in 1 .. n /\ p < c
  BY ParentFacts
<1>1. /\ Lists(g, n, R) /\ g[p] = h[c] /\ g[c] = h[p]
      /\ \A m \in 1 .. n : m # p /\ m # c => g[m] = h[m]
  BY <1>0, SwapFacts
<1>2. Len(g) = n /\ Len(h) = n
  BY <1>1 DEF Lists
<1>3. /\ \A i \in 2 .. n : i # p /\ Parent(i) # p => AtMost(k, h[Parent(i)], h[i])
      /\ p > 1 => \A i \in 2 .. n : Parent(i) = p => AtMost(k, h[Parent(p)], h[i])
  BY <1>2 DEF Sinking, Bridged
<1>4. \A i \in 2 .. n : Parent(i) \in 1 .. n /\ Parent(i) < i /\ i \in 1 .. n
  BY ParentFacts
<1> HIDE DEF g
<1>5. ASSUME NEW i \in 2 .. n, i # c, Parent(i) # c PROVE AtMost(k, g[Parent(i)], g[i])
  <2>1. CASE i = p
    <3>1. p > 1 /\ Parent(p) # p /\ Parent(p) \in 1 .. n
      BY <1>4, <2>1
    <3>2. g[Parent(p)] = h[Parent(p)]
      BY <1>1, <1>5, <2>1, <3>1
    <3>3. QED
      BY <1>1, <1>3, <2>1, <3>1, <3>2
  <2>2. CASE i # p /\ Parent(i) = p
    BY <1>1, <1>4, <1>5, <2>2
  <2>3. CASE i # p /\ Parent(i) # p
    BY <1>1, <1>3, <1>4, <1>5, <2>3
  <2>4. QED
    BY <2>1, <2>2, <2>3
<1>6. ASSUME NEW i \in 2 .. n, Parent(i) = c PROVE AtMost(k, g[Parent(c)], g[i])
  <2>1. i # p /\ i # c /\ Parent(i) # p /\ i \in 1 .. n
    BY <1>0, <1>4, <1>6
  <2>2. g[i] = h[i] /\ g[p] = h[c] /\ AtMost(k, h[c], h[i])
    BY <1>1, <1>3, <1>6, <2>1
  <2>3. QED
    BY <2>2
<1>7. QED
  BY <1>2, <1>5, <1>6 DEF Sinking, Bridged, g

(* Nothing comes before the first entry of a heap. *)
LEMMA RootIsLeast ==
    ASSUME NEW n \in Nat, NEW R, NEW k, Keyed(k, R), NEW h, Lists(h, n, R),
           Ordered(k, h), NEW t \in R
    PROVE  n > 0 /\ h[1] \in R /\ AtMost(k, h[1], t)
<1>1. DOMAIN h = 1 .. n /\ Len(h) = n /\ \A m \in 1 .. n : h[m] \in R
  BY DEF Lists
<1>2. PICK j \in 1 .. n : h[j] = t
  BY <1>1 DEF Lists, Range
<1>3. 1 \in 1 .. n
  BY <1>2
<1> DEFINE Bad == {m \in 1 .. n : ~ AtMost(k, h[1], h[m])}
<1>4. ASSUME Bad # {} PROVE FALSE
  <2>1. PICK m \in Bad : \A i \in Bad : m <= i
    <3>1. Bad \subseteq Nat
      OBVIOUS
    <3> HIDE DEF Bad
    <3>2. QED
      BY <1>4, <3>1, LeastNumber
  <2>2. m # 1
    BY <1>1, <1>3, TaskOrder DEF Keyed
  <2>3. m \in 2 .. n /\ Parent(m) \in 1 .. n /\ Parent(m) < m
    BY <2>1, <2>2, ParentFacts
  <2>4. AtMost(k, h[Parent(m)], h[m])
    BY <1>1, <2>3 DEF Ordered
  <2>5. Parent(m) \notin Bad
    BY <2>1, <2>3
  <2>6. AtMost(k, h[1], h[Parent(m)])
    BY <2>3, <2>5
  <2>7. h[1] \in R /\ h[m] \in R /\ h[Parent(m)] \in R
    BY <1>1, <1>3, <2>3
  <2>8. AtMost(k, h[1], h[m])
    BY <2>4, <2>6, <2>7, TaskOrder DEF Keyed
  <2>9. QED
    BY <2>1, <2>8
<1>5. QED
  BY <1>1, <1>2, <1>3, <1>4

(* Two tasks of R share a key, and no comparison tells them apart. *)
Tied(k, R) == \E t, u \in R : t # u /\ k[t] = k[u] /\ ~ {t, u} \subseteq Comparable

(* The comparison of a task with the one above it. *)
LEMMA AboveFacts ==
    ASSUME NEW n \in Nat, NEW R, NEW k, Keyed(k, R),
           NEW s, Lists(s.heap, n, R), s.at \in 2 .. n
    PROVE  /\ OrderAbove(k, s) \in {"less", "notless", "TypeError"}
           /\ OrderAbove(k, s) = "less" => AtMost(k, s.heap[s.at], s.heap[Parent(s.at)])
           /\ OrderAbove(k, s) # "less" => AtMost(k, s.heap[Parent(s.at)], s.heap[s.at])
           /\ OrderAbove(k, s) = "TypeError" => Tied(k, R)
<1>1. PICK t, u : t = s.heap[s.at] /\ u = s.heap[Parent(s.at)]
  OBVIOUS
<1>2. Parent(s.at) \in 1 .. n /\ Parent(s.at) # s.at /\ s.at \in 1 .. n
  BY ParentFacts
<1>3. t \in R /\ u \in R /\ t # u
  <2>1. DOMAIN s.heap = 1 .. n /\ \A m \in 1 .. n : s.heap[m] \in R
    BY DEF Lists
  <2>2. \A a, b \in 1 .. n : s.heap[a] = s.heap[b] => a = b
    BY <2>1 DEF Lists, IsInjective
  <2>3. QED
    BY <1>1, <1>2, <2>1, <2>2
<1>4. OrderAbove(k, s) = Compare(k, t, u)
  BY <1>1 DEF OrderAbove
<1>5. /\ Compare(k, t, u) \in {"less", "notless", "TypeError"}
      /\ Compare(k, t, u) = "less" => AtMost(k, t, u)
      /\ Compare(k, t, u) # "less" => AtMost(k, u, t)
      /\ Compare(k, t, u) = "TypeError" => k[t] = k[u] /\ ~ {t, u} \subseteq Comparable
  BY <1>3, CompareFacts DEF Keyed
<1>6. QED
  BY <1>1, <1>3, <1>4, <1>5 DEF Tied

(* Numbered tasks make a list that the siftings are defined for. *)
LEMMA SiftingType ==
    ASSUME NEW n \in Nat, NEW R \in SUBSET Nat, NEW h, Lists(h, n, R), NEW p \in 1 .. n
    PROVE  h \in Seq(Nat) /\ [heap |-> h, at |-> p] \in Sifting
<1>1. h \in Seq(R) /\ p \in Nat
  BY DEF Lists
<1>2. h \in Seq(Nat)
  BY <1>1, SeqMonotonic
<1>3. QED
  BY <1>1, <1>2 DEF Sifting

(* A list in which the entry at its place rises, after m turns. *)
RisingAfter(k, n, R, m) ==
    {s \in Sifting : /\ Lists(s.heap, n, R) /\ s.at \in 1 .. n
                     /\ Rising(k, s.heap, s.at)
                     /\ s.at > 1 /\ OrderAbove(k, s) = "less" => s.at <= n - m}

(* _siftdown makes a heap of the list, also when a comparison raises. *)
LEMMA SiftDownFacts ==
    ASSUME NEW n \in Nat, NEW R \in SUBSET Nat, NEW k, Keyed(k, R),
           NEW h, Lists(h, n, R), NEW p \in 1 .. n, Rising(k, h, p)
    PROVE  /\ Lists(SiftDown(k, h, p).heap, n, R)
           /\ Ordered(k, SiftDown(k, h, p).heap)
           /\ SiftDown(k, h, p).ok \in BOOLEAN
           /\ ~ SiftDown(k, h, p).ok => Tied(k, R)
<1> DEFINE start == [heap |-> h, at |-> p]
           S == [m \in 0 .. n |-> RisingAfter(k, n, R, m)]
           step == SiftDownStep(k)
<1>1. start \in S[0]
  <2>1. start \in Sifting
    BY SiftingType
  <2>2. QED
    BY <2>1 DEF RisingAfter
<1>2. ASSUME NEW m \in 0 .. n - 1, NEW s \in S[m] PROVE step[s] \in S[m + 1]
  <2>0. /\ s \in Sifting /\ Lists(s.heap, n, R) /\ s.at \in 1 .. n
        /\ Rising(k, s.heap, s.at)
        /\ s.at > 1 /\ OrderAbove(k, s) = "less" => s.at <= n - m
    BY <1>2 DEF RisingAfter
  <2>1. CASE s.at > 1 /\ OrderAbove(k, s) = "less"
    <3>1. s.at \in 2 .. n /\ s.at <= n - m
      BY <2>0, <2>1
    <3>2. PICK p1 : p1 = Parent(s.at)
      OBVIOUS
    <3>3. p1 \in 1 .. n /\ p1 < s.at
      BY <3>1, <3>2, ParentFacts
    <3>4. PICK g : g = Swap(s.heap, s.at, p1)
      OBVIOUS
    <3>5. Lists(g, n, R)
      BY <2>0, <3>3, <3>4, SwapFacts
    <3>6. Rising(k, g, p1)
      BY <2>0, <2>1, <3>1, <3>2, <3>4, RiseStep, AboveFacts
    <3>7. step[s] = [heap |-> g, at |-> p1]
      BY <2>0, <2>1, <3>2, <3>4 DEF SiftDownStep
    <3>8. [heap |-> g, at |-> p1] \in Sifting
      BY <3>3, <3>5, SiftingType
    <3>9. p1 <= n - (m + 1) /\ m + 1 \in 0 .. n
      BY <3>1, <3>3
    <3>10. QED
      BY <3>3, <3>5, <3>6, <3>7, <3>8, <3>9 DEF RisingAfter
  <2>2. CASE ~ (s.at > 1 /\ OrderAbove(k, s) = "less")
    <3>1. step[s] = s
      BY <2>0, <2>2 DEF SiftDownStep
    <3>2. m + 1 \in 0 .. n
      OBVIOUS
    <3>3. QED
      BY <2>0, <2>2, <3>1, <3>2 DEF RisingAfter
  <2>3. QED
    BY <2>1, <2>2
<1>3. Repeat(step, start, n) \in S[n]
  <2> HIDE DEF S, step, start
  <2>1. QED
    BY <1>1, <1>2, RepeatInvariant
<1>4. PICK s : s = Repeat(step, start, n)
  OBVIOUS
<1>5. /\ Lists(s.heap, n, R) /\ s.at \in 1 .. n /\ Rising(k, s.heap, s.at)
      /\ s.at > 1 => OrderAbove(k, s) # "less"
  <2>1. s \in RisingAfter(k, n, R, n)
    BY <1>3, <1>4
  <2>2. QED
    BY <2>1 DEF RisingAfter
<1>6. Len(h) = n /\ SiftDown(k, h, p).heap = s.heap
      /\ SiftDown(k, h, p).ok = (s.at = 1 \/ OrderAbove(k, s) = "notless")
  BY <1>4 DEF SiftDown, Lists
<1>7. Ordered(k, s.heap)
  <2>1. Len(s.heap) = n
    BY <1>5 DEF Lists
  <2>2. s.at > 1 => AtMost(k, s.heap[Parent(s.at)], s.heap[s.at])
    <3>1. s.at > 1 => s.at \in 2 .. n
      BY <1>5
    <3>2. QED
      BY <1>5, <3>1, AboveFacts
  <2>3. \A i \in 2 .. n : i # s.at => AtMost(k, s.heap[Parent(i)], s.heap[i])
    BY <1>5, <2>1 DEF Rising
  <2>4. QED
    BY <2>1, <2>2, <2>3 DEF Ordered
<1>8. ~ (s.at = 1 \/ OrderAbove(k, s) = "notless") => Tied(k, R)
  <2>1. s.at # 1 => s.at > 1 /\ s.at \in 2 .. n
    BY <1>5
  <2>2. QED
    BY <1>5, <2>1, AboveFacts
<1>9. QED
  BY <1>5, <1>6, <1>7, <1>8

(* The choice of the smaller entry below a place. *)
LEMMA BelowFacts ==
    ASSUME NEW n \in Nat, NEW R, NEW k, Keyed(k, R),
           NEW s, Lists(s.heap, n, R), s.at \in 1 .. n, 2 * s.at <= n
    PROVE  /\ OrderBelow(k, s) = "TypeError" => Tied(k, R)
           /\ OrderBelow(k, s) # "TypeError" =>
                  /\ SmallerChild(k, s) \in 2 .. n
                  /\ Parent(SmallerChild(k, s)) = s.at
                  /\ \A i \in 2 .. n : Parent(i) = s.at =>
                         AtMost(k, s.heap[SmallerChild(k, s)], s.heap[i])
<1>1. PICK l : l = 2 * s.at
  OBVIOUS
<1>2. l \in 2 .. n /\ \A i \in 2 .. n : Parent(i) = s.at <=> i = l \/ i = l + 1
  BY <1>1, ParentFacts
<1>3. Len(s.heap) = n /\ DOMAIN s.heap = 1 .. n /\ \A m \in 1 .. n : s.heap[m] \in R
  BY DEF Lists
<1>4. \A t \in R : AtMost(k, t, t)
  BY TaskOrder DEF Keyed
<1>5. CASE l = n
  <2>1. OrderBelow(k, s) = "less" /\ SmallerChild(k, s) = l
    BY <1>1, <1>3, <1>5 DEF OrderBelow, SmallerChild
  <2>2. \A i \in 2 .. n : Parent(i) = s.at => i = l
    BY <1>2, <1>5
  <2>3. s.heap[l] \in R
    BY <1>2, <1>3
  <2>4. QED
    BY <1>2, <1>4, <2>1, <2>2, <2>3
<1>6. CASE l # n
  <2>0. l + 1 \in 2 .. n /\ l \in 1 .. n /\ l + 1 \in 1 .. n /\ l # l + 1
    BY <1>2, <1>6
  <2>1. PICK t, u : t = s.heap[l] /\ u = s.heap[l + 1]
    OBVIOUS
  <2>2. t \in R /\ u \in R /\ t # u
    <3>1. \A a, b \in 1 .. n : s.heap[a] = s.heap[b] => a = b
      BY <1>3 DEF Lists, IsInjective
    <3>2. QED
      BY <1>3, <2>0, <2>1, <3>1
  <2>3. /\ OrderBelow(k, s) = Compare(k, t, u)
        /\ SmallerChild(k, s) = IF Compare(k, t, u) = "less" THEN l ELSE l + 1
    BY <1>1, <1>3, <1>6, <2>1 DEF OrderBelow, SmallerChild
  <2>4. /\ Compare(k, t, u) \in {"less", "notless", "TypeError"}
        /\ Compare(k, t, u) = "less" => AtMost(k, t, u)
        /\ Compare(k, t, u) = "notless" => AtMost(k, u, t)
        /\ Compare(k, t, u) = "TypeError" => k[t] = k[u] /\ ~ {t, u} \subseteq Comparable
    BY <2>2, CompareFacts DEF Keyed
  <2>5. CASE Compare(k, t, u) = "less"
    BY <1>2, <1>4, <2>1, <2>2, <2>3, <2>4, <2>5
  <2>6. CASE Compare(k, t, u) = "notless"
    BY <1>2, <1>4, <2>0, <2>1, <2>2, <2>3, <2>4, <2>6
  <2>7. CASE Compare(k, t, u) = "TypeError"
    BY <2>2, <2>3, <2>4, <2>7 DEF Tied
  <2>8. QED
    BY <2>4, <2>5, <2>6, <2>7
<1>7. QED
  BY <1>5, <1>6

(* A list in which the entry at its place sinks, after m turns. *)
SinkingAfter(k, n, R, m) ==
    {s \in Sifting :
         /\ Lists(s.heap, n, R) /\ s.at \in 1 .. n
         /\ Sinking(k, s.heap, s.at)
         /\ 2 * s.at <= n /\ OrderBelow(k, s) # "TypeError" => s.at > m}

(* _siftup makes a heap of the list, unless a comparison raises. *)
LEMMA SiftUpFacts ==
    ASSUME NEW n \in Nat, n > 0, NEW R \in SUBSET Nat, NEW k, Keyed(k, R),
           NEW h, Lists(h, n, R), Sinking(k, h, 1)
    PROVE  /\ Lists(SiftUp(k, h, 1).heap, n, R)
           /\ SiftUp(k, h, 1).ok \in BOOLEAN
           /\ SiftUp(k, h, 1).ok => Ordered(k, SiftUp(k, h, 1).heap)
           /\ ~ SiftUp(k, h, 1).ok => Tied(k, R)
<1> DEFINE start == [heap |-> h, at |-> 1]
           S == [m \in 0 .. n |-> SinkingAfter(k, n, R, m)]
           step == SiftUpStep(k)
<1>1. start \in S[0]
  <2>1. start \in Sifting /\ 1 \in 1 .. n
    BY SiftingType
  <2>2. QED
    BY <2>1 DEF SinkingAfter
<1>2. ASSUME NEW m \in 0 .. n - 1, NEW s \in S[m] PROVE step[s] \in S[m + 1]
  <2>0. /\ s \in Sifting /\ Lists(s.heap, n, R) /\ s.at \in 1 .. n
        /\ Sinking(k, s.heap, s.at)
        /\ 2 * s.at <= n /\ OrderBelow(k, s) # "TypeError" => s.at > m
    BY <1>2 DEF SinkingAfter
  <2>1. Len(s.heap) = n /\ m + 1 \in 0 .. n
    BY <2>0 DEF Lists
  <2>2. CASE 2 * s.at <= n /\ OrderBelow(k, s) # "TypeError"
    <3>1. PICK c : c = SmallerChild(k, s)
      OBVIOUS
    <3>2. /\ c \in 2 .. n /\ Parent(c) = s.at
          /\ \A i \in 2 .. n : Parent(i) = s.at => AtMost(k, s.heap[c], s.heap[i])
      BY <2>0, <2>2, <3>1, BelowFacts
    <3>3. c \in 1 .. n /\ s.at < c /\ c > m + 1
      BY <2>0, <2>2, <3>2, ParentFacts
    <3>4. PICK g : g = Swap(s.heap, s.at, c)
      OBVIOUS
    <3>5. Lists(g, n, R)
      BY <2>0, <3>3, <3>4, SwapFacts
    <3>6. Sinking(k, g, c)
      BY <2>0, <3>2, <3>4, SinkStep
    <3>7. step[s] = [heap |-> g, at |-> c]
      BY <2>0, <2>1, <2>2, <3>1, <3>4 DEF SiftUpStep
    <3>8. [heap |-> g, at |-> c] \in Sifting
      BY <3>3, <3>5, SiftingType
    <3>9. QED
      BY <2>1, <3>3, <3>5, <3>6, <3>7, <3>8 DEF SinkingAfter
  <2>3. CASE ~ (2 * s.at <= n /\ OrderBelow(k, s) # "TypeError")
    <3>1. step[s] = s
      BY <2>0, <2>1, <2>3 DEF SiftUpStep
    <3>2. QED
      BY <2>0, <2>1, <2>3, <3>1 DEF SinkingAfter
  <2>4. QED
    BY <2>2, <2>3
<1>3. Repeat(step, start, n) \in S[n]
  <2> HIDE DEF S, step, start
  <2>1. QED
    BY <1>1, <1>2, RepeatInvariant
<1>4. PICK s : s = Repeat(step, start, n)
  OBVIOUS
<1>5. /\ Lists(s.heap, n, R) /\ s.at \in 1 .. n /\ Sinking(k, s.heap, s.at)
      /\ 2 * s.at <= n => OrderBelow(k, s) = "TypeError"
  <2>1. s \in SinkingAfter(k, n, R, n)
    BY <1>3, <1>4
  <2>2. QED
    BY <2>1 DEF SinkingAfter
<1>6. /\ Len(h) = n /\ Len(s.heap) = n
      /\ SiftUp(k, h, 1) = IF 2 * s.at > n THEN SiftDown(k, s.heap, s.at)
                           ELSE [heap |-> s.heap, ok |-> FALSE]
  BY <1>4, <1>5 DEF SiftUp, Lists
<1>7. CASE 2 * s.at > n
  <2>1. \A i \in 2 .. n : Parent(i) # s.at
    BY <1>5, <1>7, ParentFacts
  <2>2. Rising(k, s.heap, s.at)
    BY <1>5, <1>6, <2>1 DEF Sinking, Rising
  <2>3. QED
    BY <1>5, <1>6, <1>7, <2>2, SiftDownFacts
<1>8. CASE ~ (2 * s.at > n)
  <2>1. 2 * s.at <= n
    BY <1>5, <1>8
  <2>2. Tied(k, R)
    BY <1>5, <2>1, BelowFacts
  <2>3. SiftUp(k, h, 1).heap = s.heap /\ SiftUp(k, h, 1).ok = FALSE
    BY <1>6, <1>8
  <2>4. QED
    BY <1>5, <2>2, <2>3
<1>9. QED
  BY <1>7, <1>8

(* heappush, also one that raises, leaves a heap with the new entry. *)
LEMMA HeapPushFacts ==
    ASSUME NEW n \in Nat, NEW R, NEW t, R \cup {t} \in SUBSET Nat, t \notin R,
           NEW k, Keyed(k, R \cup {t}), NEW h, Lists(h, n, R), Ordered(k, h)
    PROVE  /\ Lists(HeapPush(k, h, t).heap, n + 1, R \cup {t})
           /\ Ordered(k, HeapPush(k, h, t).heap)
           /\ HeapPush(k, h, t).ok \in BOOLEAN
<1>0. n + 1 \in 1 .. n + 1 /\ n + 1 \in Nat
  OBVIOUS
<1> DEFINE g == Append(h, t)
<1>1. Lists(g, n + 1, R \cup {t})
  BY ListAppend
<1>2. \A m \in 1 .. n : g[m] = h[m]
  BY DEF Lists
<1> HIDE DEF g
<1>3. Len(g) = n + 1 /\ Len(h) = n
  BY <1>1 DEF Lists
<1>4. Rising(k, g, n + 1)
  <2>1. ASSUME NEW i \in 2 .. n + 1, i # n + 1 PROVE AtMost(k, g[Parent(i)], g[i])
    <3>1. i \in 2 .. n /\ i \in 1 .. n /\ Parent(i) \in 1 .. n
      BY <2>1, ParentFacts
    <3>2. AtMost(k, h[Parent(i)], h[i])
      BY <1>3, <3>1 DEF Ordered
    <3>3. QED
      BY <1>2, <3>1, <3>2
  <2>2. \A i \in 2 .. n + 1 : Parent(i) # n + 1
    BY ParentFacts
  <2>3. QED
    BY <1>3, <2>1, <2>2 DEF Rising, Bridged
<1>5. HeapPush(k, h, t) = SiftDown(k, g, n + 1)
  BY <1>3 DEF HeapPush, g
<1>6. QED
  BY <1>0, <1>1, <1>4, <1>5, SiftDownFacts

(* heappop removes the first entry and leaves a heap; it raises only if *)
(* two entries tie.                                                     *)
LEMMA HeapPopFacts ==
    ASSUME NEW n \in Nat, n > 0, NEW R \in SUBSET Nat, NEW k, Keyed(k, R),
           NEW h, Lists(h, n, R), Ordered(k, h)
    PROVE  /\ h[1] \in R
           /\ Lists(HeapPop(k, h).heap, n - 1, R \ {h[1]})
           /\ HeapPop(k, h).ok \in BOOLEAN
           /\ HeapPop(k, h).ok => Ordered(k, HeapPop(k, h).heap)
           /\ ~ HeapPop(k, h).ok => Tied(k, R)
<1>0. Len(h) = n /\ DOMAIN h = 1 .. n /\ 1 \in 1 .. n /\ h[1] \in R
  BY DEF Lists
<1>1. CASE n = 1
  <2>1. HeapPop(k, h) = [heap |-> <<>>, ok |-> TRUE]
    BY <1>0, <1>1 DEF HeapPop
  <2>2. R = {h[1]}
    BY <1>0, <1>1 DEF Lists, Range
  <2>3. Lists(<<>>, 0, {}) /\ Ordered(k, <<>>)
    BY DEF Lists, IsInjective, Range, Ordered
  <2>4. QED
    BY <1>0, <1>1, <2>1, <2>2, <2>3
<1>2. CASE n > 1
  <2>1. PICK g : g = SubSeq([h EXCEPT ![1] = h[n]], 1, n - 1)
    OBVIOUS
  <2>2. Lists(g, n - 1, R \ {h[1]}) /\ \A m \in 2 .. n - 1 : g[m] = h[m]
    BY <1>2, <2>1, ListDrop
  <2>3. Len(g) = n - 1
    BY <2>2 DEF Lists
  <2>4. Sinking(k, g, 1)
    <3>1. ASSUME NEW i \in 2 .. n - 1, Parent(i) # 1
          PROVE  AtMost(k, g[Parent(i)], g[i])
      <4>1. Parent(i) \in 2 .. n - 1 /\ i \in 2 .. n
        BY <3>1, ParentFacts
      <4>2. AtMost(k, h[Parent(i)], h[i])
        BY <1>0, <4>1 DEF Ordered
      <4>3. QED
        BY <2>2, <4>1, <4>2
    <3>2. QED
      BY <2>3, <3>1 DEF Sinking, Bridged
  <2>5. HeapPop(k, h) = SiftUp(k, g, 1)
    BY <1>0, <1>2, <2>1 DEF HeapPop
  <2>6. n - 1 \in Nat /\ n - 1 > 0
    BY <1>2
  <2>7. R \ {h[1]} \in SUBSET Nat /\ Keyed(k, R \ {h[1]})
    BY Zenon DEF Keyed
  <2>8. Tied(k, R \ {h[1]}) => Tied(k, R)
    BY DEF Tied
  <2>9. QED
    BY <1>0, <2>2, <2>4, <2>5, <2>6, <2>7, <2>8, SiftUpFacts
<1>3. QED
  BY <1>1, <1>2

-----------------------------------------------------------------------------
(* The loop of pop_tasks_till_timestamp, on a heap of the tasks of R.      *)

(* The tasks popped so far, sorted, and none after one that is left. *)
Collected(R, s) ==
    /\ IsInjective(s.tasks) /\ Range(s.tasks) = R \ Range(s.heap)
    /\ \A i, j \in DOMAIN s.tasks : i < j => AtMost(key, s.tasks[i], s.tasks[j])
    /\ \A t \in R \ Range(s.heap), u \in Range(s.heap) : AtMost(key, t, u)

(* All that is gone from the list was due; if no comparison raised, it *)
(* has been collected.                                                 *)
PopInv(n, R, timestamp, s) ==
    /\ Lists(s.heap, Len(s.heap), Range(s.heap)) /\ Range(s.heap) \subseteq R
    /\ \A t \in R \ Range(s.heap) : IsDue(t, timestamp)
    /\ s.tasks \in Seq(R) /\ Len(s.heap) + Len(s.tasks) <= n
    /\ s.ok => Ordered(key, s.heap) /\ Collected(R, s)
    /\ ~ s.ok => Tied(key, R) /\ s.tasks = <<>>

(* The loop goes on. *)
PopsMore(timestamp, s) == s.ok /\ s.heap # <<>> /\ IsDue(s.heap[1], timestamp)

PoppingAfter(n, R, timestamp, m) ==
    {s \in Popping : /\ PopInv(n, R, timestamp, s)
                     /\ PopsMore(timestamp, s) => Len(s.heap) <= n - m}

(* A task that comes after all that were collected. *)
LEMMA CollectNext ==
    ASSUME NEW R, NEW ts \in Seq(R), IsInjective(ts), NEW t \in R, t \notin Range(ts),
           \A i, j \in DOMAIN ts : i < j => AtMost(key, ts[i], ts[j]),
           \A u \in Range(ts) : AtMost(key, u, t)
    PROVE  LET us == Append(ts, t)
           IN  /\ us \in Seq(R) /\ Len(us) = Len(ts) + 1
               /\ IsInjective(us) /\ Range(us) = Range(ts) \cup {t}
               /\ \A i, j \in DOMAIN us : i < j => AtMost(key, us[i], us[j])
<1> DEFINE us == Append(ts, t)
<1>1. /\ us \in Seq(R) /\ Len(us) = Len(ts) + 1 /\ Len(ts) \in Nat
      /\ DOMAIN us = 1 .. Len(ts) + 1 /\ DOMAIN ts = 1 .. Len(ts)
      /\ us[Len(ts) + 1] = t /\ \A m \in 1 .. Len(ts) : us[m] = ts[m]
  OBVIOUS
<1>2. Range(us) = Range(ts) \cup {t}
  BY AppendRange
<1> HIDE DEF us
<1>3. \A m \in 1 .. Len(ts) : ts[m] \in Range(ts) /\ ts[m] # t
  BY <1>1 DEF Range
<1>4. \A a \in 1 .. Len(ts) + 1 : a \in 1 .. Len(ts) \/ a = Len(ts) + 1
  BY <1>1
<1>5. IsInjective(us)
  BY <1>1, <1>3, <1>4 DEF IsInjective
<1>6. ASSUME NEW i \in DOMAIN us, NEW j \in DOMAIN us, i < j
      PROVE  AtMost(key, us[i], us[j])
  <2>1. i \in 1 .. Len(ts)
    BY <1>1, <1>6
  <2>2. CASE j = Len(ts) + 1
    BY <1>1, <1>3, <2>1, <2>2
  <2>3. CASE j \in 1 .. Len(ts)
    BY <1>1, <1>6, <2>1, <2>3
  <2>4. QED
    BY <1>1, <1>4, <2>2, <2>3
<1>7. QED
  BY <1>1, <1>2, <1>5, <1>6 DEF us

(* One turn of the loop that pops. *)
LEMMA PopTurn ==
    ASSUME NEW n \in Nat, NEW R \in SUBSET Nat, Keyed(key, R), NEW timestamp,
           NEW s \in Popping, PopInv(n, R, timestamp, s), PopsMore(timestamp, s)
    PROVE  /\ PopInv(n, R, timestamp, PopStep(timestamp)[s])
           /\ PopStep(timestamp)[s] \in Popping
           /\ Len(PopStep(timestamp)[s].heap) < Len(s.heap)
<1>0. PICK Q, l, t, pop : /\ Q = Range(s.heap) /\ l = Len(s.heap) /\ t = s.heap[1]
                          /\ pop = HeapPop(key, s.heap)
  OBVIOUS
<1>1. /\ Lists(s.heap, l, Q) /\ Q \subseteq R /\ Q \in SUBSET Nat
      /\ \A u \in R \ Q : IsDue(u, timestamp)
      /\ s.tasks \in Seq(R) /\ l + Len(s.tasks) <= n
      /\ Ordered(key, s.heap) /\ Collected(R, s) /\ s.ok
      /\ s.heap # <<>> /\ IsDue(t, timestamp)
  BY <1>0 DEF PopInv, PopsMore
<1>2. l \in Nat /\ l > 0 /\ Keyed(key, Q)
  <2>1. s.heap \in Seq(Q) /\ Len(s.heap) = l
    BY <1>1 DEF Lists
  <2>2. l \in Nat /\ l > 0
    BY <1>1, <2>1
  <2>3. QED
    BY <1>1, <2>2 DEF Keyed
<1>3. /\ t \in Q /\ Lists(pop.heap, l - 1, Q \ {t}) /\ pop.ok \in BOOLEAN
      /\ pop.ok => Ordered(key, pop.heap)
      /\ ~ pop.ok => Tied(key, Q)
  BY <1>0, <1>1, <1>2, HeapPopFacts
<1>4. PICK r : r = PopStep(timestamp)[s]
  OBVIOUS
<1>5. r = [heap |-> pop.heap,
           tasks |-> IF pop.ok THEN Append(s.tasks, t) ELSE <<>>,
           ok |-> pop.ok]
  BY <1>0, <1>1, <1>4 DEF PopStep
<1>6. /\ r.heap = pop.heap /\ r.ok = pop.ok
      /\ r.tasks = IF pop.ok THEN Append(s.tasks, t) ELSE <<>>
  BY <1>5
<1>7. /\ Range(r.heap) = Q \ {t} /\ Len(r.heap) = l - 1
      /\ Lists(r.heap, Len(r.heap), Range(r.heap))
  BY <1>3, <1>6 DEF Lists
<1>8. r.heap \in Seq(Nat) /\ R \ (Q \ {t}) = (R \ Q) \cup {t}
  <2>1. r.heap \in Seq(Q \ {t})
    BY <1>3, <1>6 DEF Lists
  <2>2. Q \ {t} \subseteq Nat
    BY <1>1
  <2>3. r.heap \in Seq(Nat)
    BY <2>1, <2>2, SeqMonotonic
  <2>4. QED
    BY <1>1, <1>3, <2>3
<1>9. \A u \in R \ Range(r.heap) : IsDue(u, timestamp)
  BY <1>1, <1>7, <1>8
<1>10. CASE ~ pop.ok
  <2>1. r.tasks = <<>> /\ ~ r.ok
    BY <1>6, <1>10
  <2>2. Tied(key, R)
    BY <1>1, <1>3, <1>10 DEF Tied
  <2>3. Len(s.tasks) \in Nat /\ Len(<<>>) = 0 /\ <<>> \in Seq(R) /\ <<>> \in Seq(Nat)
    BY <1>1
  <2>4. Len(r.heap) + Len(r.tasks) <= n
    BY <1>1, <1>2, <1>7, <2>1, <2>3
  <2>5. r \in Popping
    <3>1. r = [heap |-> r.heap, tasks |-> <<>>, ok |-> FALSE]
      BY <1>3, <1>5, <1>6, <1>10, <2>1
    <3>2. \A g \in Seq(Nat) : [heap |-> g, tasks |-> <<>>, ok |-> FALSE] \in Popping
      BY <2>3 DEF Popping
    <3>3. QED
      BY <1>8, <3>1, <3>2, Zenon
  <2>6. PopInv(n, R, timestamp, r)
    BY <1>1, <1>7, <1>9, <2>1, <2>2, <2>3, <2>4 DEF PopInv
  <2>7. QED
    BY <1>0, <1>2, <1>4, <1>7, <2>5, <2>6
<1>11. CASE pop.ok
  <2>0. PICK ts, us : ts = s.tasks /\ us = Append(ts, t)
    OBVIOUS
  <2>1. r.tasks = us /\ r.ok = TRUE
    BY <1>3, <1>6, <1>11, <2>0
  <2>2. /\ IsInjective(ts) /\ Range(ts) = R \ Q /\ ts \in Seq(R)
        /\ \A i, j \in DOMAIN ts : i < j => AtMost(key, ts[i], ts[j])
        /\ \A v \in R \ Q, u \in Q : AtMost(key, v, u)
    BY <1>0, <1>1, <2>0 DEF Collected
  <2>3. t \in R /\ t \notin Range(ts) /\ \A u \in Range(ts) : AtMost(key, u, t)
    BY <1>1, <1>3, <2>2
  <2>4. /\ us \in Seq(R) /\ Len(us) = Len(ts) + 1 /\ Len(ts) \in Nat
        /\ IsInjective(us) /\ Range(us) = Range(ts) \cup {t}
        /\ \A i, j \in DOMAIN us : i < j => AtMost(key, us[i], us[j])
    BY <2>0, <2>2, <2>3, CollectNext
  <2>5. \A u \in Q : AtMost(key, t, u)
    BY <1>0, <1>1, <1>2, RootIsLeast
  <2>6. Collected(R, r)
    <3>1. Range(us) = R \ Range(r.heap)
      BY <1>7, <1>8, <2>2, <2>4
    <3>2. \A v \in R \ Range(r.heap), u \in Range(r.heap) : AtMost(key, v, u)
      BY <1>7, <1>8, <2>2, <2>5
    <3>3. QED
      BY <2>1, <2>4, <3>1, <3>2 DEF Collected
  <2>7. Len(r.heap) + Len(r.tasks) <= n
    BY <1>1, <1>2, <1>7, <2>0, <2>1, <2>4
  <2>8. r \in Popping
    <3>1. us \in Seq(Nat)
      BY <2>4, SeqMonotonic
    <3>2. QED
      BY <1>5, <1>6, <1>8, <2>1, <3>1 DEF Popping
  <2>9. PopInv(n, R, timestamp, r)
    BY <1>1, <1>3, <1>6, <1>7, <1>9, <1>11, <2>1, <2>4, <2>6, <2>7 DEF PopInv
  <2>10. QED
    BY <1>0, <1>2, <1>4, <1>7, <2>8, <2>9
<1>12. QED
  BY <1>3, <1>10, <1>11

(* What pop_tasks_till_timestamp returns, and what it leaves. *)
LEMMA PopLoopFacts ==
    ASSUME NEW n \in Nat, NEW R \in SUBSET Nat, Keyed(key, R), NEW timestamp \in Nat,
           Lists(heap, n, R), Ordered(key, heap)
    PROVE  /\ PopLoop(timestamp) \in Popping
           /\ PopInv(n, R, timestamp, PopLoop(timestamp))
           /\ ~ PopsMore(timestamp, PopLoop(timestamp))
<1> DEFINE start == [heap |-> heap, tasks |-> <<>>, ok |-> TRUE]
           S == [m \in 0 .. n |-> PoppingAfter(n, R, timestamp, m)]
           step == PopStep(timestamp)
<1>1. start \in S[0]
  <2>1. heap \in Seq(R) /\ Range(heap) = R /\ Len(heap) = n
    BY DEF Lists
  <2>2. heap \in Seq(Nat)
    BY <2>1, SeqMonotonic
  <2>3. start \in Popping
    BY <2>2 DEF Popping
  <2>4. /\ <<>> \in Seq(R) /\ Len(<<>>) = 0 /\ DOMAIN <<>> = {}
        /\ IsInjective(<<>>) /\ Range(<<>>) = {}
    BY DEF IsInjective, Range
  <2>5. Collected(R, start)
    BY <2>1, <2>4 DEF Collected
  <2>6. PopInv(n, R, timestamp, start)
    BY <2>1, <2>4, <2>5 DEF PopInv
  <2>7. QED
    BY <2>1, <2>3, <2>6 DEF PoppingAfter
<1>2. ASSUME NEW m \in 0 .. n - 1, NEW s \in S[m] PROVE step[s] \in S[m + 1]
  <2>0. /\ s \in Popping /\ PopInv(n, R, timestamp, s) /\ m + 1 \in 0 .. n
        /\ PopsMore(timestamp, s) => Len(s.heap) <= n - m
    BY <1>2 DEF PoppingAfter
  <2>1. CASE PopsMore(timestamp, s)
    <3>1. PICK r : r = step[s]
      OBVIOUS
    <3>2. PopInv(n, R, timestamp, r) /\ r \in Popping /\ Len(r.heap) < Len(s.heap)
      BY <2>0, <2>1, <3>1, PopTurn
    <3>3. Len(r.heap) \in Nat /\ Len(s.heap) \in Nat
      BY <2>0, <3>2 DEF Popping
    <3>4. Len(r.heap) <= n - (m + 1)
      BY <2>0, <2>1, <3>2, <3>3
    <3>5. QED
      BY <2>0, <3>1, <3>2, <3>4 DEF PoppingAfter
  <2>2. CASE ~ PopsMore(timestamp, s)
    <3>1. step[s] = s
      BY <2>0, <2>2 DEF PopStep, PopsMore
    <3>2. QED
      BY <2>0, <2>2, <3>1 DEF PoppingAfter
  <2>3. QED
    BY <2>1, <2>2
<1>3. Repeat(step, start, n) \in S[n]
  <2> HIDE DEF S, step, start
  <2>1. QED
    BY <1>1, <1>2, RepeatInvariant
<1>4. PICK s : s = PopLoop(timestamp)
  OBVIOUS
<1>5. s \in PoppingAfter(n, R, timestamp, n)
  <2>1. Len(heap) = n
    BY DEF Lists
  <2>2. PopLoop(timestamp) = Repeat(step, start, n)
    BY <2>1 DEF PopLoop
  <2>3. QED
    BY <1>3, <1>4, <2>2
<1>6. /\ s \in Popping /\ PopInv(n, R, timestamp, s)
      /\ PopsMore(timestamp, s) => Len(s.heap) <= 0
  BY <1>5 DEF PoppingAfter
<1>7. s.heap \in Seq(Nat)
  BY <1>6 DEF Popping
<1>8. ~ PopsMore(timestamp, s)
  BY <1>6, <1>7 DEF PopsMore
<1>9. QED
  BY <1>4, <1>6, <1>8

-----------------------------------------------------------------------------
(* The specification.                                                      *)

(***************************************************************************)
(* The list is a heap of different tasks that have keys.  After a pop that *)
(* raised it need not be a heap; nothing uses it then.                     *)
(***************************************************************************)
IInv ==
    /\ TypeOK
    /\ Len(key) = scheduled
    /\ IsInjective(heap)
    /\ raised # "pop" => Ordered(key, heap)

(* What the lemmas on heaps need to know. *)
LEMMA QueueFacts ==
    ASSUME IInv
    PROVE  /\ Lists(heap, Len(heap), Range(heap)) /\ Len(heap) \in Nat
           /\ Range(heap) \subseteq 1 .. scheduled /\ Range(heap) \in SUBSET Nat
           /\ Keyed(key, Range(heap)) /\ scheduled \in Nat
           /\ \A t \in 1 .. scheduled : key[t] \in Keys /\ key[t] \in Nat \X Nat
<1>1. /\ heap \in Seq(1 .. scheduled) /\ key \in Seq(Keys) /\ scheduled \in Nat
      /\ Len(key) = scheduled /\ IsInjective(heap)
  BY TaskQueueAssumption DEF IInv, TypeOK
<1>2. Keys \subseteq Nat \X Nat
  BY TaskQueueAssumption DEF Keys
<1>3. \A t \in 1 .. scheduled : key[t] \in Keys /\ key[t] \in Nat \X Nat
  BY <1>1, <1>2
<1>4. /\ DOMAIN heap = 1 .. Len(heap) /\ Len(heap) \in Nat
      /\ Range(heap) \subseteq 1 .. scheduled
  BY <1>1 DEF Range
<1>5. heap \in Seq(Range(heap))
  <2>1. heap \in [1 .. Len(heap) -> Range(heap)]
    BY <1>1, <1>4 DEF Range
  <2>2. QED
    BY <1>4, <2>1, IsASeq
<1>6. QED
  BY <1>1, <1>3, <1>4, <1>5 DEF Lists, Keyed

(* schedule_task, whether or not it raises: one task more. *)
LEMMA ScheduleFacts ==
    ASSUME IInv, raised # "pop", NEW k \in Keys, ScheduleTask(k)
    PROVE  /\ IInv' /\ key' = Append(key, k) /\ scheduled' = scheduled + 1
           /\ Range(heap') = Range(heap) \cup {scheduled'}
           /\ Len(heap') = Len(heap) + 1
           /\ till' = 0 /\ popped' = <<>>
<1>0. PICK t, k1, push : /\ t = scheduled + 1 /\ k1 = Append(key, k)
                         /\ push = HeapPush(k1, heap, t)
  OBVIOUS
<1>1. /\ scheduled < MaxTasks /\ scheduled' = t /\ key' = k1 /\ heap' = push.heap
      /\ raised' = (IF push.ok THEN "nothing" ELSE "push")
      /\ till' = 0 /\ popped' = <<>>
  BY <1>0 DEF ScheduleTask, AfterPush
<1>2. PICK R, n : R = Range(heap) /\ n = Len(heap)
  OBVIOUS
<1>3. /\ Lists(heap, n, R) /\ n \in Nat /\ R \subseteq 1 .. scheduled
      /\ Ordered(key, heap) /\ scheduled \in Nat /\ key \in Seq(Keys)
      /\ Len(key) = scheduled /\ n <= scheduled /\ scheduled \in 0 .. MaxTasks
      /\ \A u \in 1 .. scheduled : key[u] \in Nat \X Nat
  <2>1. n + Len(popped) <= scheduled /\ Len(popped) \in Nat
    BY <1>2 DEF IInv, TypeOK
  <2>2. n <= scheduled
    BY <1>2, <2>1, QueueFacts
  <2>3. QED
    BY <1>2, <2>2, QueueFacts DEF IInv, TypeOK
<1>4. /\ k1 \in Seq(Keys) /\ Len(k1) = t /\ k1[t] = k
      /\ \A u \in 1 .. scheduled : k1[u] = key[u]
  BY <1>0, <1>3
<1>5. k \in Nat \X Nat
  BY TaskQueueAssumption DEF Keys
<1>6. Keyed(k1, R \cup {t})
  BY <1>3, <1>4, <1>5 DEF Keyed
<1>7. R \cup {t} \in SUBSET Nat /\ t \notin R /\ R \cup {t} \subseteq 1 .. t
  BY <1>0, <1>3
<1>8. Ordered(k1, heap)
  <2>1. Len(heap) = n /\ \A i \in 1 .. n : heap[i] \in 1 .. scheduled
    <3>1. heap \in Seq(R) /\ Len(heap) = n
      BY <1>3 DEF Lists
    <3>2. \A i \in 1 .. n : heap[i] \in R
      BY <3>1
    <3>3. QED
      BY <1>3, <3>1, <3>2
  <2>2. ASSUME NEW i \in 2 .. n PROVE AtMost(k1, heap[Parent(i)], heap[i])
    <3>1. i \in 1 .. n /\ Parent(i) \in 1 .. n
      BY <1>3, ParentFacts
    <3>2. AtMost(key, heap[Parent(i)], heap[i])
      BY <1>3, <2>1 DEF Ordered
    <3>3. k1[heap[i]] = key[heap[i]] /\ k1[heap[Parent(i)]] = key[heap[Parent(i)]]
      BY <1>4, <2>1, <3>1
    <3>4. QED
      BY <3>2, <3>3 DEF AtMost
  <2>3. QED
    BY <2>1, <2>2 DEF Ordered
<1>9. /\ Lists(push.heap, n + 1, R \cup {t}) /\ Ordered(k1, push.heap)
      /\ push.ok \in BOOLEAN
  BY <1>0, <1>3, <1>6, <1>7, <1>8, HeapPushFacts
<1>10. /\ heap' \in Seq(R \cup {t}) /\ Len(heap') = n + 1
       /\ IsInjective(heap') /\ Range(heap') = R \cup {t}
  BY <1>1, <1>9 DEF Lists
<1>11. TypeOK'
  <2>1. heap' \in Seq(1 .. t)
    BY <1>7, <1>10, SeqMonotonic
  <2>2. t \in 0 .. MaxTasks
    BY <1>0, <1>1, <1>3, TaskQueueAssumption
  <2>3. popped' \in Seq(1 .. t) /\ Len(popped') = 0
    BY <1>1
  <2>4. Len(heap') + Len(popped') <= t
    BY <1>0, <1>3, <1>10, <2>3
  <2>5. raised' \in {"nothing", "push", "pop"}
    BY <1>1
  <2>6. QED
    BY <1>1, <1>4, <2>1, <2>2, <2>3, <2>4, <2>5 DEF TypeOK
<1>12. IInv'
  <2>1. Ordered(key, heap)'
    BY <1>1, <1>9 DEF Ordered, AtMost
  <2>2. QED
    BY <1>1, <1>4, <1>10, <1>11, <2>1 DEF IInv
<1>13. QED
  BY <1>0, <1>1, <1>2, <1>10, <1>12

(* pop_tasks_till_timestamp: the tasks due, sorted, are returned and gone; *)
(* if it raises, two tasks tie, and what is gone was due.                  *)
LEMMA PopFacts ==
    ASSUME IInv, raised # "pop", NEW timestamp \in Times,
           PopTasksTillTimestamp(timestamp)
    PROVE  /\ IInv' /\ key' = key /\ scheduled' = scheduled /\ till' = timestamp
           /\ Range(heap') \subseteq Range(heap)
           /\ \A t \in Range(heap) \ Range(heap') : IsDue(t, timestamp)
           /\ \/ /\ raised' = "nothing"
                 /\ \A t \in Range(heap') : ~ IsDue(t, timestamp)
                 /\ popped' \in Seq(Range(heap)) /\ IsInjective(popped')
                 /\ Range(popped') = Range(heap) \ Range(heap')
                 /\ \A i, j \in DOMAIN popped' :
                        i < j => AtMost(key, popped'[i], popped'[j])
              \/ raised' = "pop" /\ popped' = <<>> /\ Tied(key, Range(heap))
<1>0. PICK R, n, s : R = Range(heap) /\ n = Len(heap) /\ s = PopLoop(timestamp)
  OBVIOUS
<1>1. /\ heap' = s.heap /\ popped' = s.tasks /\ till' = timestamp
      /\ raised' = (IF s.ok THEN "nothing" ELSE "pop")
      /\ key' = key /\ scheduled' = scheduled
  BY <1>0 DEF PopTasksTillTimestamp, AfterPop
<1>2. /\ Lists(heap, n, R) /\ n \in Nat /\ R \subseteq 1 .. scheduled
      /\ R \in SUBSET Nat /\ Keyed(key, R) /\ Ordered(key, heap)
      /\ scheduled \in Nat /\ n <= scheduled /\ timestamp \in Nat
  <2>1. n + Len(popped) <= scheduled /\ Len(popped) \in Nat
    BY <1>0 DEF IInv, TypeOK
  <2>2. n <= scheduled
    BY <1>0, <2>1, QueueFacts
  <2>3. timestamp \in Nat
    BY TaskQueueAssumption
  <2>4. QED
    BY <1>0, <2>2, <2>3, QueueFacts DEF IInv
<1>3. s \in Popping /\ PopInv(n, R, timestamp, s) /\ ~ PopsMore(timestamp, s)
  BY <1>0, <1>2, PopLoopFacts
<1>4. /\ Lists(s.heap, Len(s.heap), Range(s.heap)) /\ Range(s.heap) \subseteq R
      /\ \A t \in R \ Range(s.heap) : IsDue(t, timestamp)
      /\ s.tasks \in Seq(R) /\ Len(s.heap) + Len(s.tasks) <= n
      /\ s.ok => Ordered(key, s.heap) /\ Collected(R, s)
      /\ ~ s.ok => Tied(key, R) /\ s.tasks = <<>>
  BY <1>3 DEF PopInv
<1>5. s.heap \in Seq(Range(s.heap)) /\ IsInjective(s.heap) /\ Len(s.heap) \in Nat
  BY <1>4 DEF Lists
<1>6. IInv'
  <2>1. heap' \in Seq(1 .. scheduled) /\ popped' \in Seq(1 .. scheduled)
    BY <1>1, <1>2, <1>4, <1>5, SeqMonotonic
  <2>2. Len(heap') + Len(popped') <= scheduled
    <3>1. Len(s.tasks) \in Nat
      BY <1>4
    <3>2. PICK a, b : a = Len(s.heap) /\ b = Len(s.tasks)
      OBVIOUS
    <3>3. a \in Nat /\ b \in Nat /\ a + b <= n /\ n \in Nat /\ n <= scheduled
      BY <1>2, <1>4, <1>5, <3>1, <3>2
    <3>4. a + b <= scheduled
      BY <1>2, <3>3
    <3>5. QED
      BY <1>1, <3>2, <3>4
  <2>3. TypeOK'
    BY <1>1, <2>1, <2>2 DEF IInv, TypeOK
  <2>4. raised' # "pop" => Ordered(key, heap)'
    BY <1>1, <1>4 DEF Ordered, AtMost
  <2>5. QED
    BY <1>1, <1>5, <2>3, <2>4 DEF IInv
<1>7. CASE s.ok
  <2>1. \A t \in Range(s.heap) : ~ IsDue(t, timestamp)
    <3> SUFFICES ASSUME NEW t \in Range(s.heap), IsDue(t, timestamp) PROVE FALSE
      OBVIOUS
    <3>1. Keyed(key, Range(s.heap))
      BY <1>2, <1>4 DEF Keyed
    <3>2. /\ Len(s.heap) > 0 /\ s.heap[1] \in Range(s.heap)
          /\ AtMost(key, s.heap[1], t)
      BY <1>4, <1>5, <1>7, <3>1, RootIsLeast
    <3>3. key[s.heap[1]][1] <= key[t][1]
      BY <3>1, <3>2, TaskOrder DEF Keyed
    <3>4. key[s.heap[1]] \in Nat \X Nat /\ key[t] \in Nat \X Nat
      BY <3>1, <3>2 DEF Keyed
    <3>5. IsDue(s.heap[1], timestamp)
      <4>1. PICK a, b : a = key[s.heap[1]][1] /\ b = key[t][1]
        OBVIOUS
      <4>2. a \in Nat /\ b \in Nat /\ a <= b /\ b <= timestamp
        BY <3>3, <3>4, <4>1 DEF IsDue
      <4>3. a <= timestamp
        BY <1>2, <4>2
      <4>4. QED
        BY <4>1, <4>3 DEF IsDue
    <3>6. s.heap # <<>>
      BY <1>5, <3>2
    <3>7. QED
      BY <1>3, <1>7, <3>5, <3>6 DEF PopsMore
  <2>2. /\ IsInjective(s.tasks) /\ Range(s.tasks) = R \ Range(s.heap)
        /\ \A i, j \in DOMAIN s.tasks : i < j => AtMost(key, s.tasks[i], s.tasks[j])
    BY <1>4, <1>7 DEF Collected
  <2>3. QED
    BY <1>0, <1>1, <1>4, <1>6, <1>7, <2>1, <2>2
<1>8. CASE ~ s.ok
  BY <1>0, <1>1, <1>4, <1>6, <1>8
<1>9. QED
  BY <1>7, <1>8

(* The queue is empty at first. *)
LEMMA InitIInv == Init => IInv
<1> SUFFICES ASSUME Init PROVE IInv
  OBVIOUS
<1>1. \A T : <<>> \in Seq(T) /\ Len(<<>>) = 0 /\ DOMAIN <<>> = {}
  OBVIOUS
<1>2. TypeOK
  BY <1>1, TaskQueueAssumption DEF Init, TypeOK
<1>3. IsInjective(heap) /\ Ordered(key, heap) /\ Len(key) = scheduled
  BY <1>1 DEF Init, IsInjective, Ordered
<1>4. QED
  BY <1>2, <1>3 DEF IInv

(* Both operations keep the invariant. *)
LEMMA NextIInv == IInv /\ [Next]_vars => IInv'
<1> SUFFICES ASSUME IInv, [Next]_vars PROVE IInv'
  OBVIOUS
<1>1. CASE Next
  BY <1>1, ScheduleFacts, PopFacts DEF Next
<1>2. CASE UNCHANGED vars
  BY <1>2 DEF vars, IInv, TypeOK, Ordered, AtMost
<1>3. QED
  BY <1>1, <1>2

(* So it holds throughout. *)
LEMMA AlwaysIInv == Spec => []IInv
  BY InitIInv, NextIInv, PTL DEF Spec

(***************************************************************************)
(* The list of TaskQueue and what its calls return are sequences of tasks  *)
(* scheduled before, never more of them than were scheduled.               *)
(***************************************************************************)
THEOREM TypeCorrectness == Spec => []TypeOK
<1>1. IInv => TypeOK
  BY DEF IInv
<1>2. QED
  BY <1>1, AlwaysIInv, PTL

(***************************************************************************)
(* get_time_till_next_task, which looks at the first entry of the list     *)
(* only, sees the earliest task, for any pushes and pops before, pushes    *)
(* that raised TypeError half way among them.                              *)
(***************************************************************************)
THEOREM FirstEntryIsEarliest == Spec => []HeadIsEarliest
<1>1. ASSUME IInv PROVE HeadIsEarliest
  <2> SUFFICES ASSUME heap # <<>>, raised # "pop", NEW t \in Range(heap)
               PROVE  NextTime <= key[t][1]
    BY DEF HeadIsEarliest
  <2>1. heap[1] \in Range(heap) /\ AtMost(key, heap[1], t)
    BY <1>1, QueueFacts, RootIsLeast DEF IInv
  <2>2. QED
    BY <1>1, <2>1, QueueFacts, TaskOrder DEF Keyed, NextTime
<1>2. QED
  BY <1>1, AlwaysIInv, PTL

(***************************************************************************)
(* schedule_task puts its task into the list, once, and keeps all others   *)
(* there, also when a comparison in heappush raises TypeError.             *)
(***************************************************************************)
THEOREM PushAlwaysStores == Spec => PushKeepsEntries
<1> DEFINE Stores == scheduled' # scheduled =>
                         /\ Range(heap') = Range(heap) \cup {scheduled'}
                         /\ Len(heap') = Len(heap) + 1
<1>1. IInv /\ [Next]_vars => [Stores]_vars
  <2> SUFFICES ASSUME IInv, Next PROVE Stores
    OBVIOUS
  <2>1. QED
    BY ScheduleFacts, PopFacts DEF Next
<1> HIDE DEF Stores
<1>2. Spec => [][Stores]_vars
  BY <1>1, AlwaysIInv, PTL DEF Spec
<1>3. QED
  BY <1>2 DEF Stores, PushKeepsEntries

(* Every step of the heap is one of the abstract queue, or none. *)
LEMMA StepIsAbstract == IInv /\ [Next]_vars => [Abstract!Next]_(Abstract!vars)
<1> SUFFICES ASSUME IInv, [Next]_vars PROVE [Abstract!Next]_(Abstract!vars)
  OBVIOUS
<1>1. CASE UNCHANGED vars
  BY <1>1 DEF vars, Abstract!vars
<1>2. ASSUME raised # "pop", NEW k \in Keys, ScheduleTask(k) PROVE Abstract!Next
  BY <1>2, ScheduleFacts DEF Abstract!Next, Abstract!Schedule
<1>3. ASSUME raised # "pop", NEW timestamp \in Times, PopTasksTillTimestamp(timestamp)
      PROVE  Abstract!Next
  <2>1. PICK Q : Q = Range(heap')
    OBVIOUS
  <2>2. /\ key' = key /\ scheduled' = scheduled /\ till' = timestamp
        /\ Q \subseteq Range(heap)
        /\ \A t \in Range(heap) \ Q : key[t][1] <= timestamp
    BY <1>3, <2>1, PopFacts DEF IsDue
  <2>3. CASE raised' = "nothing"
    <3>1. /\ \A t \in Q : ~ (key[t][1] <= timestamp)
          /\ popped' \in Seq(Range(heap)) /\ IsInjective(popped')
          /\ Range(popped') = Range(heap) \ Q
          /\ \A i, j \in DOMAIN popped' : i < j => ~ KeyLess(key[popped'[j]], key[popped'[i]])
      BY <1>3, <2>1, <2>3, PopFacts DEF IsDue, AtMost
    <3>2. Abstract!DueAt(timestamp) = Range(heap) \ Q
      BY <2>2, <3>1 DEF Abstract!DueAt
    <3>3. \A f : Abstract!Range(f) = Range(f) /\ (Abstract!IsInjective(f) <=> IsInjective(f))
      BY DEF Abstract!Range, Range, Abstract!IsInjective, IsInjective
    <3>4. \A a, b : Abstract!KeyLess(a, b) <=> KeyLess(a, b)
      BY DEF Abstract!KeyLess, KeyLess
    <3>5. Abstract!IsSorting(popped', Abstract!DueAt(timestamp))
      <4>1. Range(popped') = Abstract!DueAt(timestamp)
        BY <3>1, <3>2
      <4>2. QED
        BY <3>1, <3>3, <3>4, <4>1, Zenon DEF Abstract!IsSorting
    <3>6. Q = Range(heap) \ Abstract!DueAt(timestamp)
      BY <2>2, <3>2
    <3>7. Abstract!PopTill(timestamp)
      BY <2>1, <2>2, <3>5, <3>6 DEF Abstract!PopTill
    <3>8. QED
      BY <3>7 DEF Abstract!Next
  <2>4. CASE raised' # "nothing"
    <3>1. popped' = <<>> /\ Tied(key, Range(heap))
      BY <1>3, <2>4, PopFacts
    <3>2. Abstract!Tie
      BY <3>1 DEF Tied, Abstract!Tie
    <3>3. Range(heap) \ Q \subseteq Abstract!DueAt(timestamp)
      BY <2>2 DEF Abstract!DueAt
    <3>4. Abstract!PopRaises(timestamp)
      BY <2>1, <2>2, <3>1, <3>2, <3>3 DEF Abstract!PopRaises
    <3>5. QED
      BY <3>4 DEF Abstract!Next
  <2>5. QED
    BY <2>3, <2>4
<1>4. QED
  BY <1>1, <1>2, <1>3 DEF Next

(***************************************************************************)
(* The heap of TaskQueue implements the priority queue that                *)
(* SingleThreadExecutor relies on: for any tasks, times and priorities,    *)
(* pop_tasks_till_timestamp returns exactly the tasks due, sorted by       *)
(* (abs_time, priority); it can raise only if two tasks tie that have no   *)
(* order, and then it has lost no task that was not due.                   *)
(***************************************************************************)
THEOREM HeapImplementsPriorityQueue == Spec => ImplementsPriorityQueue
<1>1. Init => Abstract!Init
  BY DEF Init, Abstract!Init, Range
<1>2. QED
  BY <1>1, StepIsAbstract, AlwaysIInv, PTL
     DEF Spec, ImplementsPriorityQueue, Abstract!Spec

=============================================================================
