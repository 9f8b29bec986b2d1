---------------------------- MODULE SortingProofs ----------------------------
(***************************************************************************)
(* Sorting a finite set by any strict total order gives every element      *)
(* once, in order; picking the elements at some places of a list gives     *)
(* them in the order of the list.  By induction on the size of the set, in *)
(* the form that a set of naturals with a member has a least one.          *)
(***************************************************************************)
EXTENDS Sorting, Integers, Functions, NaturalsInduction, WellFoundedInduction,
        FiniteSetTheorems, TLAPS

-----------------------------------------------------------------------------
(* Lists, whatever is in them. *)

LEMMA SeqOver ==
  ASSUME NEW S, NEW s \in Seq(S)
  PROVE  IsSeq(s) /\ Len(s) \in Nat
<1> DEFINE T == {s[k] : k \in DOMAIN s}
<1>1. \A k \in 1 .. Len(s) : s[k] \in T
  OBVIOUS
<1> HIDE DEF T
<1>2. s \in Seq(T) /\ Len(s) \in Nat
  BY <1>1
<1>3. QED
  BY <1>2 DEF IsSeq, T

LEMMA EmptyIsSeq ==
  ASSUME NEW s, s = <<>>
  PROVE  IsSeq(s) /\ Len(s) = 0
<1>1. s \in Seq({}) /\ Len(s) = 0
  OBVIOUS
<1>2. QED
  BY <1>1, SeqOver

LEMMA FunctionSeq ==
  ASSUME NEW n \in Nat, NEW S, NEW s \in [1 .. n -> S]
  PROVE  IsSeq(s) /\ Len(s) = n
<1>1. s \in Seq(S) /\ Len(s) = n
  OBVIOUS
<1>2. QED
  BY <1>1, SeqOver

LEMMA AppendSeq ==
  ASSUME NEW s, IsSeq(s), NEW x
  PROVE  /\ IsSeq(Append(s, x))
         /\ Len(s) \in Nat
         /\ Len(Append(s, x)) = Len(s) + 1
         /\ \A k \in 1 .. Len(s) : Append(s, x)[k] = s[k]
         /\ Append(s, x)[Len(s) + 1] = x
<1> DEFINE T == {s[k] : k \in DOMAIN s}
           S == T \cup {x}
<1>1. s \in Seq(T)
  BY DEF IsSeq
<1> HIDE DEF T
<1>2. s \in Seq(S)
  BY <1>1
<1> HIDE DEF S
<1>3. x \in S
  BY DEF S
<1>4. /\ Append(s, x) \in Seq(S)
      /\ Len(s) \in Nat
      /\ Len(Append(s, x)) = Len(s) + 1
      /\ \A k \in 1 .. Len(s) : Append(s, x)[k] = s[k]
      /\ Append(s, x)[Len(s) + 1] = x
  BY <1>2, <1>3
<1>5. QED
  BY <1>4, SeqOver

-----------------------------------------------------------------------------
LEMMA Least ==
  ASSUME NEW S \in SUBSET Nat, S # {}
  PROVE  \E n \in S : \A m \in S : n <= m
<1>1. PICK n \in S : \A m \in S : <<m, n>> \notin OpToRel(<, Nat)
  BY WFMin, NatLessThanWellFounded
<1>2. \A m \in S : ~(m < n)
  BY <1>1 DEF OpToRel
<1>3. QED
  BY <1>2

Orders(R, S) ==
  /\ \A x \in S : <<x, x>> \notin R
  /\ \A x, y \in S : x # y => <<x, y>> \in R \/ <<y, x>> \in R
  /\ \A x, y, z \in S : <<x, y>> \in R /\ <<y, z>> \in R => <<x, z>> \in R

Ascends(s, n, R) == \A i, j \in 1 .. n : i < j => <<s[i], s[j]>> \in R

\* One more element is put before the first that follows it.
LEMMA Insertion ==
  ASSUME NEW S, NEW R, Orders(R, S), NEW x \in S, NEW n \in Nat,
         NEW s \in [1 .. n -> S \ {x}], Ascends(s, n, R)
  PROVE  \E t \in [1 .. n + 1 -> S] : Ascends(t, n + 1, R)
<1> DEFINE After == {i \in 1 .. n : <<x, s[i]>> \in R}
           Slots == After \cup {n + 1}
<1>1. PICK m \in Slots : \A i \in Slots : m <= i
  <2>1. Slots \in SUBSET Nat /\ Slots # {}
    OBVIOUS
  <2> HIDE DEF Slots
  <2>2. QED
    BY <2>1, Least
<1>2. m \in 1 .. n + 1
  OBVIOUS
<1>3. \A i \in 1 .. n : i < m => <<s[i], x>> \in R
  <2> SUFFICES ASSUME NEW i \in 1 .. n, i < m PROVE <<s[i], x>> \in R
    OBVIOUS
  <2>1. i \notin After
    BY <1>1, <1>2
  <2>2. s[i] \in S /\ s[i] # x
    OBVIOUS
  <2>3. QED
    BY <2>1, <2>2 DEF Orders
<1>4. \A i \in 1 .. n : m <= i => <<x, s[i]>> \in R
  <2> SUFFICES ASSUME NEW i \in 1 .. n, m <= i PROVE <<x, s[i]>> \in R
    OBVIOUS
  <2>1. m \in 1 .. n /\ <<x, s[m]>> \in R
    BY <1>1, <1>2
  <2>2. m = i \/ <<s[m], s[i]>> \in R
    BY <2>1 DEF Ascends
  <2>3. x \in S /\ s[m] \in S /\ s[i] \in S
    BY <2>1
  <2>4. QED
    BY <2>1, <2>2, <2>3 DEF Orders
<1> DEFINE t == [i \in 1 .. n + 1 |-> IF i < m THEN s[i] ELSE IF i = m THEN x ELSE s[i - 1]]
<1>5. t \in [1 .. n + 1 -> S]
  BY <1>2
<1>6. ASSUME NEW i \in 1 .. n + 1, NEW j \in 1 .. n + 1, i < j
      PROVE  <<t[i], t[j]>> \in R
  <2>1. CASE j < m
    BY <1>2, <1>6, <2>1 DEF Ascends
  <2>2. CASE j = m
    BY <1>2, <1>3, <1>6, <2>2
  <2>3. CASE m < j /\ i < m
    <3>1. t[i] = s[i] /\ t[j] = s[j - 1] /\ i \in 1 .. n /\ j - 1 \in 1 .. n /\ i < j - 1
      BY <1>2, <1>6, <2>3
    <3>2. QED
      BY <3>1 DEF Ascends
  <2>4. CASE m < j /\ i = m
    <3>1. t[i] = x /\ t[j] = s[j - 1] /\ j - 1 \in 1 .. n /\ m <= j - 1
      BY <1>2, <1>6, <2>4
    <3>2. QED
      BY <1>4, <3>1
  <2>5. CASE m < j /\ m < i
    <3>1. t[i] = s[i - 1] /\ t[j] = s[j - 1] /\ i - 1 \in 1 .. n /\ j - 1 \in 1 .. n /\ i - 1 < j - 1
      BY <1>2, <1>6, <2>5
    <3>2. QED
      BY <3>1 DEF Ascends
  <2>6. QED
    BY <1>2, <2>1, <2>2, <2>3, <2>4, <2>5
<1>7. QED
  BY <1>5, <1>6 DEF Ascends

LEMMA SortingExists ==
  ASSUME NEW S, IsFiniteSet(S), NEW R, Orders(R, S)
  PROVE  \E s \in [1 .. Cardinality(S) -> S] : Ascends(s, Cardinality(S), R)
<1> DEFINE Sortable(T) == \E s \in [1 .. Cardinality(T) -> T] : Ascends(s, Cardinality(T), R)
           Bad == {n \in Nat : \E T \in SUBSET S : Cardinality(T) = n /\ ~Sortable(T)}
<1> SUFFICES ASSUME Bad # {} PROVE FALSE
  <2>1. Cardinality(S) \in Nat /\ S \in SUBSET S
    BY FS_CardinalityType
  <2>2. QED
    BY <2>1
<1>1. PICK n \in Bad : \A m \in Bad : n <= m
  <2>1. Bad \in SUBSET Nat
    OBVIOUS
  <2> HIDE DEF Bad
  <2>2. QED
    BY <2>1, Least
<1>2. PICK T \in SUBSET S : Cardinality(T) = n /\ ~Sortable(T)
  OBVIOUS
<1>3. IsFiniteSet(T) /\ n \in Nat
  BY FS_Subset
<1>4. T # {}
  <2>1. SUFFICES ASSUME T = {} PROVE FALSE
    OBVIOUS
  <2>2. Cardinality(T) = 0
    BY <2>1, FS_EmptySet
  <2>3. \A s : Ascends(s, 0, R)
    BY DEF Ascends
  <2>4. [i \in 1 .. 0 |-> i] \in [1 .. 0 -> T]
    OBVIOUS
  <2>5. QED
    BY <1>2, <2>2, <2>3, <2>4
<1>5. PICK x \in T : TRUE
  BY <1>4
<1> DEFINE U == T \ {x}
<1>6. Cardinality(U) = n - 1 /\ n - 1 \in Nat
  <2>1. IsFiniteSet(U) /\ Cardinality(U) = n - 1
    BY <1>2, <1>3, <1>5, FS_RemoveElement
  <2>2. Cardinality(U) \in Nat
    BY <2>1, FS_CardinalityType
  <2>3. QED
    BY <2>1, <2>2
<1>7. Sortable(U)
  <2>1. n - 1 \notin Bad
    BY <1>1, <1>3, <1>6
  <2>2. U \in SUBSET S
    OBVIOUS
  <2>3. QED
    BY <1>6, <2>1, <2>2
<1>8. PICK s \in [1 .. n - 1 -> U] : Ascends(s, n - 1, R)
  BY <1>6, <1>7
<1>9. Orders(R, T)
  BY DEF Orders
<1>10. \E t \in [1 .. (n - 1) + 1 -> T] : Ascends(t, (n - 1) + 1, R)
  BY <1>5, <1>6, <1>8, <1>9, Insertion
<1>11. (n - 1) + 1 = n
  BY <1>3
<1>12. QED
  BY <1>2, <1>10, <1>11

(***************************************************************************)
(* What list.sort gives, for a set of any size and any strict total order: *)
(* each element once, none before one that precedes it.                    *)
(***************************************************************************)
THEOREM SortedIsSorting ==
  ASSUME NEW S, IsFiniteSet(S), NEW R, Orders(R, S)
  PROVE  /\ Cardinality(S) \in Nat
         /\ Sorted(S, R) \in [1 .. Cardinality(S) -> S]
         /\ \A i, j \in 1 .. Cardinality(S) : i < j => <<Sorted(S, R)[i], Sorted(S, R)[j]>> \in R
         /\ \A i, j \in 1 .. Cardinality(S) : Sorted(S, R)[i] = Sorted(S, R)[j] => i = j
         /\ \A x \in S : \E i \in 1 .. Cardinality(S) : Sorted(S, R)[i] = x
<1> DEFINE n == Cardinality(S)  s == Sorted(S, R)
<1>1. n \in Nat
  BY FS_CardinalityType
<1>2. s \in [1 .. n -> S] /\ \A i, j \in 1 .. n : i < j => <<s[i], s[j]>> \in R
  BY SortingExists DEF Sorted, Ascends
<1> HIDE DEF s
<1>3. \A i, j \in 1 .. n : s[i] = s[j] => i = j
  <2> SUFFICES ASSUME NEW i \in 1 .. n, NEW j \in 1 .. n, s[i] = s[j], i # j PROVE FALSE
    OBVIOUS
  <2>1. s[i] \in S /\ s[j] \in S
    BY <1>2
  <2>2. i < j \/ j < i
    BY <1>1
  <2>3. QED
    BY <1>2, <2>1, <2>2 DEF Orders
<1>4. s \in Injection(1 .. n, S)
  BY <1>2, <1>3 DEF Injection, IsInjective
<1>5. IsFiniteSet(1 .. n) /\ Cardinality(1 .. n) = n
  BY <1>1, FS_Interval
<1>6. s \in Surjection(1 .. n, S)
  BY <1>4, <1>5, FS_Injection
<1>7. \A x \in S : \E i \in 1 .. n : s[i] = x
  BY <1>6 DEF Surjection
<1>8. QED
  BY <1>1, <1>2, <1>3, <1>7 DEF s

LEMMA IncreasingOrders ==
  ASSUME NEW I \in SUBSET Nat
  PROVE  Orders(Increasing(I), I)
BY DEF Orders, Increasing

(***************************************************************************)
(* What a filtering loop keeps of a list: every place that passes, the     *)
(* first first, so that the k-th has k - 1 others before it.               *)
(***************************************************************************)
THEOREM ListedIsListing ==
  ASSUME NEW I \in SUBSET Nat, IsFiniteSet(I)
  PROVE  /\ Cardinality(I) \in Nat
         /\ Listed(I) \in [1 .. Cardinality(I) -> I]
         /\ \A i, j \in 1 .. Cardinality(I) : i < j => Listed(I)[i] < Listed(I)[j]
         /\ \A x \in I : \E i \in 1 .. Cardinality(I) : Listed(I)[i] = x
         /\ \A k \in 1 .. Cardinality(I) : Cardinality({x \in I : x < Listed(I)[k]}) = k - 1
<1> DEFINE n == Cardinality(I)  s == Listed(I)
<1>1. /\ n \in Nat
      /\ s \in [1 .. n -> I]
      /\ \A i, j \in 1 .. n : i < j => <<s[i], s[j]>> \in Increasing(I)
      /\ \A x \in I : \E i \in 1 .. n : s[i] = x
  BY IncreasingOrders, SortedIsSorting DEF Listed
<1>2. \A i, j \in 1 .. n : i < j => s[i] < s[j]
  BY <1>1 DEF Increasing
<1> HIDE DEF s, n
<1>3. ASSUME NEW k \in 1 .. n
      PROVE  Cardinality({x \in I : x < s[k]}) = k - 1
  <2> DEFINE T == {x \in I : x < s[k]}
             m == k - 1
             f == [i \in 1 .. m |-> s[i]]
  <2>1. m \in Nat /\ \A i \in 1 .. m : i \in 1 .. n /\ i < k
    BY <1>1
  <2>2. f \in [1 .. m -> T]
    <3>1. \A i \in 1 .. m : s[i] \in T
      BY <1>1, <1>2, <2>1
    <3>2. QED
      BY <3>1
  <2>3. \A i, j \in 1 .. m : f[i] = f[j] => i = j
    <3>1. SUFFICES ASSUME NEW i \in 1 .. m, NEW j \in 1 .. m, s[i] = s[j], i # j PROVE FALSE
      OBVIOUS
    <3>2. i \in 1 .. n /\ j \in 1 .. n
      BY <2>1
    <3>3. s[i] \in Nat
      BY <1>1, <3>2
    <3>4. i < j \/ j < i
      BY <1>1, <3>1, <3>2
    <3>5. s[i] < s[j] \/ s[j] < s[i]
      BY <1>2, <3>2, <3>4
    <3>6. QED
      BY <3>1, <3>3, <3>5
  <2>4. \A x \in T : \E i \in 1 .. m : f[i] = x
    <3>1. SUFFICES ASSUME NEW x \in I, x < s[k] PROVE \E i \in 1 .. m : f[i] = x
      OBVIOUS
    <3>2. PICK i \in 1 .. n : s[i] = x
      BY <1>1
    <3>3. s[i] \in Nat /\ s[k] \in Nat
      BY <1>1
    <3>4. ~(k < i) /\ i # k
      BY <1>2, <3>1, <3>2, <3>3
    <3>5. i \in 1 .. m
      BY <1>1, <3>4
    <3>6. QED
      BY <3>2, <3>5
  <2> HIDE DEF T, f
  <2>5. f \in Bijection(1 .. m, T)
    <3>1. DOMAIN f = 1 .. m
      BY <2>2
    <3>2. IsInjective(f)
      BY <2>3, <3>1 DEF IsInjective
    <3>3. f \in Injection(1 .. m, T)
      BY <2>2, <3>2, Zenon DEF Injection
    <3>4. f \in Surjection(1 .. m, T)
      BY <2>2, <2>4, Zenon DEF Surjection
    <3>5. QED
      BY <3>3, <3>4 DEF Bijection
  <2>6. IsFiniteSet(1 .. m) /\ Cardinality(1 .. m) = m
    BY <2>1, FS_Interval
  <2>7. Cardinality(T) = m
    <3>1. ExistsBijection(1 .. m, T)
      BY <2>5 DEF ExistsBijection
    <3>2. QED
      BY <2>6, <3>1, FS_Bijection
  <2>8. QED
    BY <2>7 DEF T
<1>4. QED
  BY <1>1, <1>2, <1>3 DEF s, n
=============================================================================
