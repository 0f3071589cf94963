------------------------------ MODULE Induction ------------------------------
(***************************************************************************)
(* Induction over the natural numbers up to a bound, for the definitions   *)
(* that go through a sequence with a recursive function.  It is derived    *)
(* from the well-foundedness of the finite subsets.  And what is in a      *)
(* sequence that is appended to or read from.                              *)
(***************************************************************************)
EXTENDS Naturals, Sequences, Functions, FiniteSetTheorems, TLAPS

\* A set of numbers has a least one.
LEMMA LeastNumber ==
  ASSUME NEW N \in Nat, NEW T, T \subseteq 0..N, T # {}
  PROVE  \E n \in T : \A m \in T : n <= m
<1> DEFINE Below == {0..n : n \in T}
           R == StrictSubsetOrdering(0..N)
<1>1. IsFiniteSet(0..N) BY FS_Interval
<1>2. IsWellFoundedOn(R, FiniteSubsetsOf(0..N)) BY <1>1, FS_StrictSubsetOrderingWellFounded
<1>3. Below \subseteq FiniteSubsetsOf(0..N) /\ Below # {}
  <2>1. \A n \in T : 0..n \subseteq 0..N /\ n \in Int OBVIOUS
  <2>2. \A n \in T : IsFiniteSet(0..n) BY <2>1, FS_Interval
  <2> QED BY <2>1, <2>2 DEF FiniteSubsetsOf
<1>4. PICK b \in Below : \A c \in Below : <<c, b>> \notin R
  <2> HIDE DEF Below, R
  <2> QED BY <1>2, <1>3, WFMin
<1>5. PICK n \in T : b = 0..n BY <1>4
<1>6. SUFFICES ASSUME NEW m \in T, m < n PROVE FALSE BY <1>5
<1>7. <<0..m, 0..n>> \notin R BY <1>4, <1>5
<1>8. 0..m \subseteq 0..N /\ 0..n \subseteq 0..N /\ 0..m \subseteq 0..n /\ 0..m # 0..n
  <2>1. m \in 0..N /\ n \in 0..N OBVIOUS
  <2>2. n \in 0..n /\ n \notin 0..m BY <2>1, <1>6
  <2> QED BY <2>1, <2>2, <1>6
<1> QED BY <1>7, <1>8 DEF StrictSubsetOrdering

\* A set that has 0 and with each number the next one, has all up to N.
LEMMA InductionUpTo ==
  ASSUME NEW N \in Nat, NEW T, 0 \in T, \A n \in 0..N : n # N /\ n \in T => n + 1 \in T
  PROVE  0..N \subseteq T
<1> SUFFICES ASSUME 0..N \ T # {} PROVE FALSE OBVIOUS
<1>1. PICK n \in 0..N \ T : \A m \in 0..N \ T : n <= m BY LeastNumber
<1>2. n # 0 /\ n - 1 \in 0..N /\ n - 1 # N BY <1>1
<1>3. n - 1 \in T BY <1>1, <1>2
<1>4. (n - 1) + 1 \in T BY <1>2, <1>3
<1> QED BY <1>1, <1>4

\* A function that starts with `start` and makes each value from the one before.
Steps(N, D) == [1..N -> [D -> D]]
Runs(g, N, D, start, step) ==
  g \in [0..N -> D] /\ g[0] = start /\ \A n \in 1..N : g[n] = step[n][g[n - 1]]

LEMMA IterationExists ==
  ASSUME NEW N \in Nat, NEW D, NEW start \in D, NEW step \in Steps(N, D)
  PROVE  \E g : Runs(g, N, D, start, step)
<1> DEFINE Goes(g, k) == g[0] = start /\ \A n \in 1..k : g[n] = step[n][g[n - 1]]
           T == {k \in 0..N : \E g \in [0..k -> D] : Goes(g, k)}
<1>1. 0 \in T
  <2> DEFINE h == [n \in 0..0 |-> start]
  <2>1. \A n \in 0..0 : n = 0 OBVIOUS
  <2>2. h \in [0..0 -> D] OBVIOUS
  <2>3. h[0] = start BY <2>1
  <2>4. Goes(h, 0) BY <2>3
  <2>5. 0 \in 0..N OBVIOUS
  <2> HIDE DEF h, Goes
  <2> QED BY <2>2, <2>4, <2>5
<1>2. ASSUME NEW k \in 0..N, k # N, k \in T PROVE k + 1 \in T
  <2>1. PICK g \in [0..k -> D] : Goes(g, k) BY <1>2
  <2> DEFINE h == [n \in 0..k + 1 |-> IF n = k + 1 THEN step[k + 1][g[k]] ELSE g[n]]
  <2>2. h \in [0..k + 1 -> D]
    <3>1. k + 1 \in 1..N /\ k \in 0..k BY <1>2
    <3>2. step[k + 1][g[k]] \in D BY <3>1 DEF Steps
    <3> QED BY <3>2
  <2>3. h[0] = start
    <3>1. 0 \in 0..k + 1 /\ 0 # k + 1 BY <1>2
    <3> QED BY <2>1, <3>1
  <2>4. ASSUME NEW n \in 1..k + 1 PROVE h[n] = step[n][h[n - 1]]
    <3>1. CASE n = k + 1
      <4>1. n - 1 = k /\ k \in 0..k + 1 /\ k # k + 1 /\ n \in 0..k + 1 BY <3>1
      <4>2. h[n] = step[n][g[k]] /\ h[n - 1] = g[k] BY <3>1, <4>1
      <4> QED BY <4>1, <4>2
    <3>2. CASE n # k + 1
      <4>1. n \in 1..k /\ n \in 0..k + 1 /\ n - 1 # k + 1 /\ n - 1 \in 0..k + 1 BY <3>2
      <4>2. h[n] = g[n] /\ h[n - 1] = g[n - 1] BY <3>2, <4>1
      <4>3. g[n] = step[n][g[n - 1]] BY <2>1, <4>1
      <4> QED BY <4>2, <4>3
    <3> QED BY <3>1, <3>2
  <2>6. Goes(h, k + 1)
    <3> HIDE DEF h
    <3> QED BY <2>3, <2>4
  <2>5. k + 1 \in 0..N BY <1>2
  <2> HIDE DEF h, Goes
  <2> QED BY <2>2, <2>6, <2>5
<1>4. N \in T
  <2> HIDE DEF T
  <2>1. 0..N \subseteq T BY <1>1, <1>2, InductionUpTo
  <2> QED BY <2>1
<1>5. PICK g \in [0..N -> D] : Goes(g, N) BY <1>4
<1> QED BY <1>5 DEF Runs

\* What each step keeps, all of them keep.
LEMMA IterationStays ==
  ASSUME NEW N \in Nat, NEW D, NEW g, g[0] \in D, \A n \in 1..N : g[n - 1] \in D => g[n] \in D
  PROVE  \A n \in 0..N : g[n] \in D
<1> DEFINE T == {n \in 0..N : g[n] \in D}
<1>1. 0 \in T OBVIOUS
<1>2. ASSUME NEW n \in 0..N, n # N, n \in T PROVE n + 1 \in T
  <2>1. n + 1 \in 1..N /\ n + 1 \in 0..N /\ (n + 1) - 1 = n BY <1>2
  <2> QED BY <1>2, <2>1
<1>3. 0..N \subseteq T
  <2> HIDE DEF T
  <2> QED BY <1>1, <1>2, InductionUpTo
<1> QED BY <1>3

-----------------------------------------------------------------------------
(* Sequences and their ranges.                                             *)

LEMMA RangeEmpty == Range(<<>>) = {}
  BY DEF Range

LEMMA RangeAppend ==
  ASSUME NEW T, NEW s \in Seq(T), NEW x \in T
  PROVE  /\ Append(s, x) \in Seq(T)
         /\ Range(Append(s, x)) = Range(s) \cup {x}
<1>1. Append(s, x) \in Seq(T) /\ Len(Append(s, x)) = Len(s) + 1 /\ Len(s) \in Nat
  OBVIOUS
<1>2. \A k \in 1..Len(s) : Append(s, x)[k] = s[k]
  OBVIOUS
<1>3. Append(s, x)[Len(s) + 1] = x
  OBVIOUS
<1>4. DOMAIN Append(s, x) = 1..(Len(s) + 1) /\ DOMAIN s = 1..Len(s)
  OBVIOUS
<1>5. DOMAIN Append(s, x) = DOMAIN s \cup {Len(s) + 1}
  BY <1>1, <1>4
<1> QED BY <1>1, <1>2, <1>3, <1>4, <1>5 DEF Range

LEMMA RangeHeadTail ==
  ASSUME NEW T, NEW s \in Seq(T), s # <<>>
  PROVE  /\ Head(s) \in T /\ Tail(s) \in Seq(T)
         /\ Range(s) = {Head(s)} \cup Range(Tail(s))
<1>1. Head(s) = s[1] /\ Tail(s) \in Seq(T) /\ Len(Tail(s)) = Len(s) - 1 /\ Len(s) \in Nat \ {0}
  OBVIOUS
<1>2. \A k \in 1..(Len(s) - 1) : Tail(s)[k] = s[k + 1]
  OBVIOUS
<1>3. DOMAIN s = 1..Len(s) /\ DOMAIN Tail(s) = 1..(Len(s) - 1)
  BY <1>1
<1>4. Range(s) \subseteq {Head(s)} \cup Range(Tail(s))
  <2> SUFFICES ASSUME NEW k \in DOMAIN s PROVE s[k] = s[1] \/ \E j \in DOMAIN Tail(s) : Tail(s)[j] = s[k]
    BY <1>1 DEF Range
  <2>1. CASE k = 1
    BY <2>1
  <2>2. CASE k # 1
    <3>1. k - 1 \in 1..(Len(s) - 1) /\ k = (k - 1) + 1
      BY <2>2, <1>1, <1>3
    <3> QED BY <3>1, <1>2, <1>3
  <2> QED BY <2>1, <2>2
<1>5. Range(Tail(s)) \subseteq Range(s)
  <2> SUFFICES ASSUME NEW k \in DOMAIN Tail(s) PROVE \E j \in DOMAIN s : s[j] = Tail(s)[k]
    BY DEF Range
  <2>1. k + 1 \in DOMAIN s
    BY <1>1, <1>3
  <2> QED BY <2>1, <1>2, <1>3
<1>6. Head(s) \in Range(s)
  BY <1>1, <1>3 DEF Range
<1> QED BY <1>1, <1>4, <1>5, <1>6
=============================================================================
