-------------------------- MODULE Filtering_proofs --------------------------
(***************************************************************************)
(* What Filter computes, for every sequence and every set.  The provers    *)
(* can not instantiate an induction theorem whose parameter is a           *)
(* predicate, but they can use a set: induction is NatSetInduction, with   *)
(* the set of the numbers for which the claim holds.                       *)
(***************************************************************************)
EXTENDS Filtering, SequenceTheorems, WellFoundedInduction, TLAPS

(* Every nonempty set of natural numbers has a least element. *)
LEMMA LeastNumber ==
    ASSUME NEW S, S \subseteq Nat, S # {}
    PROVE  \E m \in S : \A n \in S : m <= n
<1> DEFINE R == {ss \in Nat \X Nat : ss[1] < ss[2]}
<1>1. IsWellFoundedOn(R, Nat)
  BY NatLessThanWellFounded DEF OpToRel
<1>2. \A a, b \in Nat : a < b => <<a, b>> \in R
  OBVIOUS
<1> HIDE DEF R
<1>3. PICK m \in S : \A n \in S : ~ (<<n, m>> \in R)
  BY <1>1, WFMin
<1>4. \A n \in S : ~ (n < m) /\ n \in Nat /\ m \in Nat
  BY <1>2, <1>3
<1>5. QED
  BY <1>4

(* A set with 0 that is closed under + 1 up to N has all of 0 .. N. *)
LEMMA NatSetInduction ==
    ASSUME NEW N \in Nat, NEW H, 0 \in H,
           \A n \in 0 .. N - 1 : n \in H => n + 1 \in H
    PROVE  0 .. N \subseteq H
<1> DEFINE Bad == (0 .. N) \ H
<1> SUFFICES ASSUME Bad # {} PROVE FALSE
  OBVIOUS
<1>0. Bad \subseteq Nat
  OBVIOUS
<1>1. PICK m \in Bad : \A n \in Bad : m <= n
  <2> HIDE DEF Bad
  <2>1. QED
    BY <1>0, LeastNumber
<1>2. m \in 1 .. N /\ m - 1 \in 0 .. N - 1 /\ m \notin H
  BY <1>1
<1>3. m - 1 \in H
  BY <1>1, <1>2
<1>4. QED
  BY <1>2, <1>3

(* What a sequence holds after an element was added at its end. *)
LEMMA AppendRange ==
    ASSUME NEW T, NEW s \in Seq(T), NEW e \in T
    PROVE  Range(Append(s, e)) = Range(s) \cup {e}
<1>1. /\ DOMAIN Append(s, e) = 1 .. Len(s) + 1 /\ DOMAIN s = 1 .. Len(s)
      /\ Append(s, e)[Len(s) + 1] = e /\ Len(s) \in Nat
      /\ \A n \in 1 .. Len(s) : Append(s, e)[n] = s[n]
  OBVIOUS
<1>2. 1 .. Len(s) + 1 = (1 .. Len(s)) \cup {Len(s) + 1}
  BY <1>1
<1>3. QED
  BY <1>1, <1>2 DEF Range

(* Adding at the end of a sequence with a prefix. *)
Prefixed(p, g, e) == Append(p \o g, e) = p \o Append(g, e)

(* Appending leaves a prefix a prefix. *)
LEMMA PrefixedAppend ==
    ASSUME NEW T, NEW p \in Seq(T), NEW g \in Seq(T), NEW e \in T
    PROVE  Prefixed(p, g, e)
  BY DEF Prefixed

-----------------------------------------------------------------------------
(* What the entry n of the function F has to be. *)
Entry(s, S, F, n) ==
    IF n = 0 THEN <<>>
    ELSE IF s[n] \in S THEN Append(F[n - 1], s[n]) ELSE F[n - 1]

(* There is a function as Filtered asks for: it is built entry by entry. *)
LEMMA FilteredExists ==
    ASSUME NEW T, NEW s \in Seq(T), NEW S
    PROVE  \E F : F = [n \in 0 .. Len(s) |-> Entry(s, S, F, n)]
<1> DEFINE H == {k \in 0 .. Len(s) :
                     \E F : F = [n \in 0 .. k |-> Entry(s, S, F, n)]}
<1>1. 0 \in H
  <2> DEFINE F == [n \in 0 .. 0 |-> <<>>]
  <2>1. \A n \in 0 .. 0 : Entry(s, S, F, n) = <<>>
    BY DEF Entry
  <2>2. F = [n \in 0 .. 0 |-> Entry(s, S, F, n)]
    BY <2>1
  <2>3. QED
    BY <2>2
<1>2. ASSUME NEW k \in 0 .. Len(s) - 1, k \in H PROVE k + 1 \in H
  <2>1. PICK F : F = [n \in 0 .. k |-> Entry(s, S, F, n)]
    BY <1>2
  <2> DEFINE G == [n \in 0 .. k + 1 |-> IF n = k + 1 THEN Entry(s, S, F, n) ELSE F[n]]
  <2>2. \A n \in 0 .. k + 1 : n # 0 => G[n - 1] = F[n - 1]
    OBVIOUS
  <2>3. ASSUME NEW n \in 0 .. k + 1 PROVE G[n] = Entry(s, S, G, n)
    <3>1. Entry(s, S, G, n) = Entry(s, S, F, n)
      BY <2>2 DEF Entry
    <3>2. n # k + 1 => n \in 0 .. k
      OBVIOUS
    <3> HIDE DEF Entry
    <3>3. n # k + 1 => F[n] = Entry(s, S, F, n)
      BY <2>1, <3>2
    <3>4. QED
      BY <3>1, <3>3
  <2>4. G = [n \in 0 .. k + 1 |-> G[n]]
    OBVIOUS
  <2>5. G = [n \in 0 .. k + 1 |-> Entry(s, S, G, n)]
    <3> HIDE DEF G
    <3>1. QED
      BY <2>3, <2>4
  <2>6. k + 1 \in 0 .. Len(s)
    OBVIOUS
  <2>7. QED
    BY <2>5, <2>6
<1>3. Len(s) \in Nat /\ Len(s) \in 0 .. Len(s)
  OBVIOUS
<1>4. Len(s) \in H
  <2> HIDE DEF H
  <2>1. QED
    BY <1>1, <1>2, <1>3, NatSetInduction
<1>5. QED
  BY <1>4

(* So Filtered is that function. *)
LEMMA FilteredDef ==
    ASSUME NEW T, NEW s \in Seq(T), NEW S
    PROVE  \A n \in 0 .. Len(s) : Filtered(s, S)[n] = Entry(s, S, Filtered(s, S), n)
<1>1. PICK F : F = [n \in 0 .. Len(s) |-> Entry(s, S, F, n)]
  BY FilteredExists
<1>2. Filtered(s, S) = [n \in 0 .. Len(s) |-> Entry(s, S, Filtered(s, S), n)]
  BY <1>1 DEF Filtered, Entry
<1>3. QED
  BY <1>2

(* The first n elements of s are filtered one after the other. *)
LEMMA FilteredSteps ==
    ASSUME NEW T, NEW s \in Seq(T), NEW S
    PROVE  /\ Filtered(s, S)[0] = <<>>
           /\ \A n \in 1 .. Len(s) :
                  Filtered(s, S)[n] = IF s[n] \in S
                                      THEN Append(Filtered(s, S)[n - 1], s[n])
                                      ELSE Filtered(s, S)[n - 1]
<1>1. 0 \in 0 .. Len(s) /\ \A n \in 1 .. Len(s) : n \in 0 .. Len(s) /\ n # 0
  OBVIOUS
<1>2. QED
  BY <1>1, FilteredDef DEF Entry

(* The elements among the first n of s. *)
First(s, n) == {s[k] : k \in 1 .. n}

(* What is selected from the first n are those of their elements in S. *)
LEMMA FilteredType ==
    ASSUME NEW T, NEW s \in Seq(T), NEW S
    PROVE  \A n \in 0 .. Len(s) :
               /\ Filtered(s, S)[n] \in Seq(T)
               /\ Range(Filtered(s, S)[n]) = First(s, n) \cap S
<1> DEFINE F == Filtered(s, S)
           H == {n \in 0 .. Len(s) : F[n] \in Seq(T) /\ Range(F[n]) = First(s, n) \cap S}
<1>1. 0 \in H
  <2>1. F[0] = <<>> /\ First(s, 0) = {} /\ 0 \in 0 .. Len(s)
    BY FilteredSteps DEF First
  <2> HIDE DEF F
  <2>2. Range(<<>>) = {} /\ <<>> \in Seq(T)
    BY DEF Range
  <2>3. QED
    BY <2>1, <2>2
<1>2. ASSUME NEW n \in 0 .. Len(s) - 1, n \in H PROVE n + 1 \in H
  <2>1. n + 1 \in 1 .. Len(s) /\ n + 1 \in 0 .. Len(s) /\ (n + 1) - 1 = n
    OBVIOUS
  <2>2. F[n + 1] = IF s[n + 1] \in S THEN Append(F[n], s[n + 1]) ELSE F[n]
    BY <2>1, FilteredSteps
  <2>3. First(s, n + 1) = First(s, n) \cup {s[n + 1]} /\ s[n + 1] \in T
    BY <2>1 DEF First
  <2> HIDE DEF F
  <2>4. F[n] \in Seq(T) /\ Range(F[n]) = First(s, n) \cap S
    BY <1>2
  <2>5. Range(Append(F[n], s[n + 1])) = Range(F[n]) \cup {s[n + 1]}
    BY <2>3, <2>4, AppendRange
  <2>6. F[n + 1] \in Seq(T)
    BY <2>2, <2>3, <2>4
  <2>7. Range(F[n + 1]) = First(s, n + 1) \cap S
    <3>1. CASE s[n + 1] \in S
      BY <2>2, <2>3, <2>4, <2>5, <3>1
    <3>2. CASE s[n + 1] \notin S
      BY <2>2, <2>3, <2>4, <3>2
    <3>3. QED
      BY <3>1, <3>2
  <2>8. QED
    BY <2>1, <2>6, <2>7
<1>3. 0 .. Len(s) \subseteq H
  <2>1. Len(s) \in Nat
    OBVIOUS
  <2> HIDE DEF H
  <2>2. QED
    BY <1>1, <1>2, <2>1, NatSetInduction
<1>4. QED
  BY <1>3

-----------------------------------------------------------------------------
(* Filter selects the elements in S, and no others. *)
LEMMA FilterType ==
    ASSUME NEW T, NEW s \in Seq(T), NEW S
    PROVE  /\ Filter(s, S) \in Seq(T)
           /\ Range(Filter(s, S)) = Range(s) \cap S
<1>1. Len(s) \in 0 .. Len(s) /\ DOMAIN s = 1 .. Len(s)
  OBVIOUS
<1>2. /\ Filtered(s, S)[Len(s)] \in Seq(T)
      /\ Range(Filtered(s, S)[Len(s)]) = First(s, Len(s)) \cap S
  BY <1>1, FilteredType
<1>3. Range(s) = First(s, Len(s))
  BY <1>1 DEF Range, First
<1>4. QED
  BY <1>2, <1>3 DEF Filter

(* Nothing is selected from nothing. *)
LEMMA FilterEmpty ==
    ASSUME NEW S
    PROVE  Filter(<<>>, S) = <<>>
<1>1. <<>> \in Seq({}) /\ Len(<<>>) = 0
  OBVIOUS
<1>2. QED
  BY <1>1, FilteredSteps DEF Filter

(* An element at the end is selected last. *)
LEMMA FilterAppend ==
    ASSUME NEW T, NEW s \in Seq(T), NEW e \in T, NEW S
    PROVE  Filter(Append(s, e), S) = IF e \in S THEN Append(Filter(s, S), e)
                                                ELSE Filter(s, S)
<1> DEFINE t == Append(s, e)
           F == Filtered(s, S)
           G == Filtered(t, S)
           H == {n \in 0 .. Len(s) : G[n] = F[n]}
<1>1. /\ t \in Seq(T) /\ Len(t) = Len(s) + 1 /\ t[Len(t)] = e
      /\ \A n \in 1 .. Len(s) : t[n] = s[n]
      /\ Len(s) \in Nat
  OBVIOUS
<1> HIDE DEF t
<1>2. 0 \in H
  BY <1>1, FilteredSteps
<1>3. ASSUME NEW n \in 0 .. Len(s) - 1, n \in H PROVE n + 1 \in H
  <2>1. n + 1 \in 1 .. Len(s) /\ n + 1 \in 1 .. Len(t) /\ n + 1 \in 0 .. Len(s)
        /\ (n + 1) - 1 = n
    BY <1>1
  <2>2. F[n + 1] = IF s[n + 1] \in S THEN Append(F[n], s[n + 1]) ELSE F[n]
    BY <2>1, FilteredSteps
  <2>3. G[n + 1] = IF t[n + 1] \in S THEN Append(G[n], t[n + 1]) ELSE G[n]
    BY <1>1, <2>1, FilteredSteps
  <2>4. QED
    BY <1>1, <1>3, <2>1, <2>2, <2>3
<1>4. Len(s) \in H
  <2>1. Len(s) \in 0 .. Len(s)
    BY <1>1
  <2> HIDE DEF H
  <2>2. QED
    BY <1>1, <1>2, <1>3, <2>1, NatSetInduction
<1>5. Len(t) \in 1 .. Len(t) /\ Len(t) - 1 = Len(s)
  BY <1>1
<1>6. G[Len(t)] = IF e \in S THEN Append(G[Len(s)], e) ELSE G[Len(s)]
  BY <1>1, <1>5, FilteredSteps
<1>7. QED
  BY <1>4, <1>6 DEF Filter, t

(* An element at the beginning is selected first. *)
LEMMA FilterTail ==
    ASSUME NEW T, NEW s \in Seq(T), s # <<>>, NEW S
    PROVE  Filter(s, S) = IF Head(s) \in S THEN <<Head(s)>> \o Filter(Tail(s), S)
                                           ELSE Filter(Tail(s), S)
<1> DEFINE t == Tail(s)
           F == Filtered(s, S)
           G == Filtered(t, S)
           pre == IF Head(s) \in S THEN <<Head(s)>> ELSE <<>>
           H == {n \in 0 .. Len(t) : F[n + 1] = pre \o G[n]}
<1>1. /\ t \in Seq(T) /\ Len(s) = Len(t) + 1 /\ Len(t) \in Nat
      /\ \A n \in 1 .. Len(t) : t[n] = s[n + 1]
      /\ Head(s) = s[1] /\ Head(s) \in T /\ pre \in Seq(T)
  OBVIOUS
<1>2. \A n \in 0 .. Len(t) : G[n] \in Seq(T)
  BY <1>1, FilteredType
<1> HIDE DEF t
<1>3. 0 \in H
  <2>1. F[0] = <<>> /\ G[0] = <<>>
    BY <1>1, FilteredSteps
  <2>2. 1 \in 1 .. Len(s) /\ 1 - 1 = 0 /\ 0 + 1 = 1 /\ 0 \in 0 .. Len(t)
    BY <1>1
  <2>3. F[1] = IF s[1] \in S THEN Append(F[0], s[1]) ELSE F[0]
    BY <2>2, FilteredSteps
  <2>4. pre \o <<>> = pre
    BY <1>1
  <2>5. F[1] = pre
    BY <1>1, <2>1, <2>3
  <2>6. QED
    BY <2>1, <2>2, <2>4, <2>5
<1>4. ASSUME NEW n \in 0 .. Len(t) - 1, n \in H PROVE n + 1 \in H
  <2>1. /\ n + 2 \in 1 .. Len(s) /\ n + 1 \in 1 .. Len(t) /\ n + 1 \in 0 .. Len(t)
        /\ (n + 1) - 1 = n /\ (n + 2) - 1 = n + 1 /\ (n + 1) + 1 = n + 2
        /\ n \in 0 .. Len(t)
    BY <1>1
  <2>2. F[n + 2] = IF s[n + 2] \in S THEN Append(F[n + 1], s[n + 2]) ELSE F[n + 1]
    BY <2>1, FilteredSteps
  <2>3. G[n + 1] = IF t[n + 1] \in S THEN Append(G[n], t[n + 1]) ELSE G[n]
    BY <1>1, <2>1, FilteredSteps
  <2>4. t[n + 1] = s[n + 2] /\ s[n + 2] \in T /\ G[n] \in Seq(T)
    BY <1>1, <1>2, <2>1
  <2>5. F[n + 1] = pre \o G[n]
    BY <1>4
  <2>0. pre \in Seq(T)
    BY <1>1
  <2> HIDE DEF F, G, pre
  <2>6. Append(pre \o G[n], s[n + 2]) = pre \o Append(G[n], s[n + 2])
    <3>1. Prefixed(pre, G[n], s[n + 2])
      BY <2>0, <2>4, PrefixedAppend
    <3>2. QED
      BY <3>1 DEF Prefixed
  <2>7. F[n + 2] = pre \o G[n + 1]
    BY <2>2, <2>3, <2>4, <2>5, <2>6
  <2>8. QED
    BY <2>1, <2>7
<1>5. Len(t) \in H
  <2>1. Len(t) \in 0 .. Len(t)
    BY <1>1
  <2> HIDE DEF H
  <2>2. QED
    BY <1>1, <1>3, <1>4, <2>1, NatSetInduction
<1>6. Filter(s, S) = pre \o Filter(t, S)
  BY <1>1, <1>5 DEF Filter
<1>7. Filter(t, S) \in Seq(T)
  BY <1>1, FilterType
<1>8. <<>> \o Filter(t, S) = Filter(t, S)
  BY <1>7
<1>9. QED
  BY <1>6, <1>8 DEF t

(* Of different elements different ones are selected. *)
LEMMA FilterInjective ==
    ASSUME NEW T, NEW s \in Seq(T), IsInjective(s), NEW S
    PROVE  IsInjective(Filter(s, S))
<1> DEFINE F == Filtered(s, S)
           H == {n \in 0 .. Len(s) : IsInjective(F[n])}
<1>1. 0 \in H
  <2>1. F[0] = <<>>
    BY FilteredSteps
  <2>2. QED
    BY <2>1 DEF IsInjective
<1>2. ASSUME NEW n \in 0 .. Len(s) - 1, n \in H PROVE n + 1 \in H
  <2>1. /\ n + 1 \in 1 .. Len(s) /\ n + 1 \in 0 .. Len(s) /\ (n + 1) - 1 = n
        /\ n \in 0 .. Len(s) /\ s[n + 1] \in T
    OBVIOUS
  <2>2. F[n + 1] = IF s[n + 1] \in S THEN Append(F[n], s[n + 1]) ELSE F[n]
    BY <2>1, FilteredSteps
  <2>3. F[n] \in Seq(T) /\ Range(F[n]) = First(s, n) \cap S
    BY <2>1, FilteredType
  <2>4. \A k \in 1 .. n : s[k] # s[n + 1]
    BY <2>1 DEF IsInjective
  <2>5. s[n + 1] \notin Range(F[n])
    BY <2>3, <2>4 DEF First
  <2>6. IsInjective(F[n])
    BY <1>2
  <2> HIDE DEF F
  <2>7. IsInjective(Append(F[n], s[n + 1]))
    <3> DEFINE a == Append(F[n], s[n + 1])
               L == Len(F[n])
    <3>1. /\ DOMAIN F[n] = 1 .. L /\ DOMAIN a = 1 .. L + 1 /\ L \in Nat
          /\ a[L + 1] = s[n + 1] /\ \A k \in 1 .. L : a[k] = F[n][k]
      BY <2>1, <2>3
    <3>2. \A k \in 1 .. L : F[n][k] # s[n + 1]
      BY <2>5, <3>1 DEF Range
    <3>3. \A j, k \in 1 .. L : F[n][j] = F[n][k] => j = k
      BY <2>6, <3>1 DEF IsInjective
    <3> HIDE DEF a, L
    <3>4. \A j, k \in 1 .. L + 1 : a[j] = a[k] => j = k
      BY <3>1, <3>2, <3>3
    <3>5. QED
      BY <3>1, <3>4 DEF IsInjective, a
  <2>8. QED
    BY <2>1, <2>2, <2>6, <2>7
<1>3. Len(s) \in H
  <2>1. Len(s) \in Nat /\ Len(s) \in 0 .. Len(s)
    OBVIOUS
  <2> HIDE DEF H
  <2>2. QED
    BY <1>1, <1>2, <2>1, NatSetInduction
<1>4. QED
  BY <1>3 DEF Filter
=============================================================================
