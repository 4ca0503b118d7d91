---------------------- MODULE IncidentDelivery_proofs ----------------------
(***************************************************************************)
(* Theorems about IncidentDelivery, for any subjects, destinations, routes *)
(* and number of emitting goroutines.                                      *)
(***************************************************************************)
EXTENDS IncidentDelivery, FiniteSetTheorems, SequenceTheorems, TLAPS

-----------------------------------------------------------------------------
(* Positions of a sequence, and what is at them.                           *)

\* The rank of a position: how many of S are below it.
Rank(i, S) == Cardinality({j \in S : j < i})

\* The k-th of a finite set is the one with k - 1 below it.
LEMMA Ranked ==
    ASSUME NEW S, S \subseteq Nat, IsFiniteSet(S)
    PROVE  /\ \A k \in 1 .. Cardinality(S) : InOrder(S)[k] \in S /\ Rank(InOrder(S)[k], S) = k - 1
           /\ \A i, k \in S : Rank(i, S) = Rank(k, S) => i = k
           /\ \A i, k \in S : i < k => Rank(i, S) < Rank(k, S)
           /\ \A i \in S : Rank(i, S) \in 0 .. Cardinality(S) - 1
           /\ DOMAIN InOrder(S) = 1 .. Cardinality(S)
<1> DEFINE c == Cardinality(S)
           Below(i) == {j \in S : j < i}
           r == [i \in S |-> Cardinality(Below(i))]
           f == InOrder(S)
<1>1. c \in Nat
    BY FS_CardinalityType
<1>2. \A i \in S : IsFiniteSet(Below(i)) /\ Cardinality(Below(i)) \in Nat
    <2>1. \A i \in S : Below(i) \in SUBSET S
        OBVIOUS
    <2>2. QED
        BY <2>1, FS_Subset, FS_CardinalityType
<1>3. \A i \in S : r[i] \in 0 .. c - 1
    <2> SUFFICES ASSUME NEW i \in S PROVE Cardinality(Below(i)) \in 0 .. c - 1
        OBVIOUS
    <2>1. IsFiniteSet(S \ {i}) /\ Cardinality(S \ {i}) = c - 1
        BY FS_RemoveElement
    <2>2. Below(i) \in SUBSET (S \ {i})
        OBVIOUS
    <2>3. Cardinality(Below(i)) <= c - 1
        BY <2>1, <2>2, FS_Subset
    <2>4. QED
        BY <1>1, <1>2, <2>3
<1>4. \A i, k \in S : i < k => r[i] < r[k]
    <2> SUFFICES ASSUME NEW i \in S, NEW k \in S, i < k
                 PROVE  Cardinality(Below(i)) < Cardinality(Below(k))
        OBVIOUS
    <2>1. Cardinality(Below(i) \cup {i}) = Cardinality(Below(i)) + 1
        BY <1>2, FS_AddElement
    <2>2. Below(i) \cup {i} \in SUBSET Below(k)
        <3>1. \A j \in S : j \in Nat
            OBVIOUS
        <3>2. \A j \in S : j < i => j < k
            BY <3>1
        <3>3. QED
            BY <3>2
    <2>3. Cardinality(Below(i) \cup {i}) <= Cardinality(Below(k))
        BY <1>2, <2>2, FS_Subset
    <2>4. QED
        BY <1>2, <2>1, <2>3
<1> HIDE DEF r
<1>5. \A i, k \in S : r[i] = r[k] => i = k
    BY <1>3, <1>4
<1>6. \A k \in 1 .. c : \E i \in S : r[i] = k - 1
    <2>1. r \in [S -> 0 .. c - 1]
        BY <1>3 DEF r
    <2>2. r \in Injection(S, 0 .. c - 1)
        BY <1>5, <2>1 DEF Injection, IsInjective
    <2>3. IsFiniteSet(0 .. c - 1) /\ Cardinality(0 .. c - 1) = c
        <3>1. 0 \in Int /\ c - 1 \in Int
            BY <1>1
        <3>2. /\ IsFiniteSet(0 .. c - 1)
              /\ Cardinality(0 .. c - 1) = IF 0 > c - 1 THEN 0 ELSE (c - 1) - 0 + 1
            BY <3>1, FS_Interval
        <3> HIDE DEF c
        <3>3. QED
            BY <1>1, <3>2
    <2>4. r \in Surjection(S, 0 .. c - 1)
        BY <2>2, <2>3, FS_Injection
    <2>5. \A t \in 0 .. c - 1 : \E i \in S : r[i] = t
        BY <2>4 DEF Surjection
    <2> HIDE DEF c
    <2>6. \A k \in 1 .. c : k - 1 \in 0 .. c - 1
        BY <1>1
    <2>7. QED
        BY <2>5, <2>6
<1>7. f = [k \in 1 .. c |-> CHOOSE i \in S : Cardinality(Below(i)) = k - 1]
    BY DEF InOrder
<1> HIDE DEF f, c
<1>8. ASSUME NEW k \in 1 .. c PROVE f[k] \in S /\ r[f[k]] = k - 1
    <2>1. \E i \in S : Cardinality(Below(i)) = k - 1
        BY <1>6 DEF r
    <2>2. f[k] = CHOOSE i \in S : Cardinality(Below(i)) = k - 1
        BY <1>7
    <2>3. f[k] \in S /\ Cardinality(Below(f[k])) = k - 1
        BY <2>1, <2>2
    <2>4. QED
        BY <2>3 DEF r
<1>9. \A i \in S : r[i] = Rank(i, S)
    BY DEF r, Rank
<1>10. DOMAIN f = 1 .. c
    BY <1>7
<1>11. QED
    BY <1>3, <1>4, <1>5, <1>8, <1>9, <1>10 DEF f, c

LEMMA InOrderEnumerates ==
    ASSUME NEW S, S \subseteq Nat, IsFiniteSet(S)
    PROVE  /\ Cardinality(S) \in Nat
           /\ InOrder(S) \in [1 .. Cardinality(S) -> S]
           /\ \A j, k \in 1 .. Cardinality(S) : j < k => InOrder(S)[j] < InOrder(S)[k]
           /\ \A i \in S : \E k \in 1 .. Cardinality(S) : InOrder(S)[k] = i
<1> DEFINE c == Cardinality(S)
           f == InOrder(S)
<1>1. c \in Nat
    BY FS_CardinalityType
<1>2. /\ \A k \in 1 .. c : f[k] \in S /\ Rank(f[k], S) = k - 1
      /\ \A i, k \in S : Rank(i, S) = Rank(k, S) => i = k
      /\ \A i, k \in S : i < k => Rank(i, S) < Rank(k, S)
      /\ \A i \in S : Rank(i, S) \in 0 .. c - 1
      /\ DOMAIN f = 1 .. c
    BY Ranked
<1>3. f = [k \in 1 .. c |-> CHOOSE i \in S : Cardinality({j \in S : j < i}) = k - 1]
    BY DEF InOrder
<1>4. \A i \in S : i \in Nat /\ Rank(i, S) \in Nat
    BY <1>1, <1>2
<1> HIDE DEF c, f
<1>5. f \in [1 .. c -> S]
    BY <1>2, <1>3
<1>6. ASSUME NEW j \in 1 .. c, NEW k \in 1 .. c, j < k PROVE f[j] < f[k]
    <2>1. f[j] \in S /\ f[k] \in S /\ Rank(f[j], S) < Rank(f[k], S)
        BY <1>1, <1>2, <1>6
    <2>2. f[k] < f[j] => Rank(f[k], S) < Rank(f[j], S)
        BY <1>2, <2>1
    <2>3. /\ f[j] \in Nat /\ f[k] \in Nat
          /\ Rank(f[j], S) \in Nat /\ Rank(f[k], S) \in Nat
        BY <1>4, <2>1
    <2>4. f[j] # f[k]
        BY <2>1, <2>3
    <2>5. QED
        BY <2>1, <2>2, <2>3, <2>4
<1>7. ASSUME NEW i \in S PROVE \E k \in 1 .. c : f[k] = i
    <2>1. Rank(i, S) + 1 \in 1 .. c /\ (Rank(i, S) + 1) - 1 = Rank(i, S)
        BY <1>1, <1>2, <1>4
    <2>2. f[Rank(i, S) + 1] \in S /\ Rank(f[Rank(i, S) + 1], S) = Rank(i, S)
        BY <1>2, <2>1
    <2>3. QED
        BY <1>2, <2>1, <2>2
<1>8. QED
    BY <1>1, <1>5, <1>6, <1>7 DEF c, f

LEMMA AtPositions ==
    ASSUME NEW X, NEW seq \in Seq(X), NEW S \in SUBSET DOMAIN seq
    PROVE  /\ At(S, seq) \in Seq(X)
           /\ DOMAIN At(S, seq) = 1 .. Cardinality(S) /\ Cardinality(S) \in Nat
           /\ InOrder(S) \in [1 .. Cardinality(S) -> S]
           /\ \A k \in 1 .. Cardinality(S) : At(S, seq)[k] = seq[InOrder(S)[k]]
           /\ \A j, k \in 1 .. Cardinality(S) : j < k => InOrder(S)[j] < InOrder(S)[k]
           /\ \A i \in S : \E k \in 1 .. Cardinality(S) : InOrder(S)[k] = i
           /\ S # {} => Cardinality(S) > 0
<1> DEFINE c == Cardinality(S)
           f == InOrder(S)
<1>1. S \subseteq Nat /\ IsFiniteSet(S)
    <2>1. DOMAIN seq = 1 .. Len(seq) /\ Len(seq) \in Nat
        OBVIOUS
    <2>2. IsFiniteSet(1 .. Len(seq))
        BY <2>1, FS_Interval
    <2>3. QED
        BY <2>1, <2>2, FS_Subset
<1>2. /\ c \in Nat /\ f \in [1 .. c -> S]
      /\ \A j, k \in 1 .. c : j < k => f[j] < f[k]
      /\ \A i \in S : \E k \in 1 .. c : f[k] = i
    BY <1>1, InOrderEnumerates
<1> HIDE DEF c, f
<1>3. At(S, seq) = [k \in 1 .. c |-> seq[f[k]]]
    BY DEF At, c, f
<1>4. At(S, seq) \in [1 .. c -> X]
    BY <1>2, <1>3
<1>5. S # {} => c > 0
    BY <1>2
<1>6. At(S, seq) \in Seq(X) /\ DOMAIN At(S, seq) = 1 .. c
    BY <1>2, <1>4
<1>7. \A k \in 1 .. c : At(S, seq)[k] = seq[f[k]]
    BY <1>3
<1>8. QED
    BY <1>2, <1>5, <1>6, <1>7 DEF c, f

\* There is one way to go through a finite set upwards.
LEMMA OneOrder ==
    ASSUME NEW S, S \subseteq Nat, IsFiniteSet(S), NEW g \in [1 .. Cardinality(S) -> S],
           \A j, k \in 1 .. Cardinality(S) : j < k => g[j] < g[k]
    PROVE  g = InOrder(S)
<1> DEFINE c == Cardinality(S)
           Below(i) == {j \in S : j < i}
<1>1. c \in Nat /\ IsFiniteSet(1 .. c) /\ Cardinality(1 .. c) = c
    <2>1. c \in Nat
        BY FS_CardinalityType
    <2> HIDE DEF c
    <2>2. /\ IsFiniteSet(1 .. c)
          /\ Cardinality(1 .. c) = IF 1 > c THEN 0 ELSE c - 1 + 1
        BY <2>1, FS_Interval
    <2>3. QED
        BY <2>1, <2>2
<1>2. \A j, k \in 1 .. c : g[j] = g[k] => j = k
    <2>1. \A j, k \in 1 .. c : j < k \/ j = k \/ k < j
        BY <1>1
    <2>2. \A k \in 1 .. c : g[k] \in Nat
        OBVIOUS
    <2>3. \A j, k \in 1 .. c : j < k => g[j] < g[k]
        OBVIOUS
    <2> HIDE DEF c
    <2>4. QED
        BY <2>1, <2>2, <2>3
<1>3. \A i \in S : \E k \in 1 .. c : g[k] = i
    <2>1. g \in Injection(1 .. c, S)
        BY <1>2 DEF Injection, IsInjective
    <2>2. g \in Surjection(1 .. c, S)
        BY <1>1, <2>1, FS_Injection
    <2>3. QED
        BY <2>2 DEF Surjection
<1>4. \A k \in 1 .. c : g[k] \in S /\ g[k] \in Nat
    OBVIOUS
<1>5. \A j, k \in 1 .. c : j < k <=> g[j] < g[k]
    <2>1. \A j, k \in 1 .. c : j < k => g[j] < g[k]
        OBVIOUS
    <2> HIDE DEF c
    <2>2. QED
        BY <1>1, <1>4, <2>1
<1>6. ASSUME NEW k \in 1 .. c PROVE Rank(g[k], S) = k - 1
    <2> DEFINE h == [j \in 1 .. k - 1 |-> g[j]]
    <2>1. k \in Nat /\ k - 1 \in Nat /\ \A j : j \in 1 .. k - 1 <=> j \in 1 .. c /\ j < k
        BY <1>1
    <2>2. h \in Injection(1 .. k - 1, Below(g[k]))
        <3>1. \A j \in 1 .. k - 1 : g[j] \in Below(g[k])
            BY <1>4, <1>5, <2>1
        <3>2. \A i, j \in 1 .. k - 1 : g[i] = g[j] => i = j
            BY <1>2, <2>1
        <3>3. QED
            BY <3>1, <3>2 DEF Injection, IsInjective
    <2>3. h \in Surjection(1 .. k - 1, Below(g[k]))
        <3>1. \A i \in Below(g[k]) : \E j \in 1 .. k - 1 : g[j] = i
            BY <1>3, <1>5, <2>1
        <3>2. h \in [1 .. k - 1 -> Below(g[k])]
            BY <2>2 DEF Injection
        <3>3. QED
            BY <3>1, <3>2 DEF Surjection
    <2>4. ExistsBijection(1 .. k - 1, Below(g[k]))
        BY <2>2, <2>3 DEF ExistsBijection, Bijection
    <2>5. IsFiniteSet(1 .. k - 1) /\ Cardinality(1 .. k - 1) = k - 1
        <3>1. /\ IsFiniteSet(1 .. k - 1)
              /\ Cardinality(1 .. k - 1) = IF 1 > k - 1 THEN 0 ELSE (k - 1) - 1 + 1
            BY <2>1, FS_Interval
        <3>2. QED
            BY <2>1, <3>1
    <2>6. QED
        BY <2>4, <2>5, FS_Bijection DEF Rank
<1>7. /\ \A k \in 1 .. c : InOrder(S)[k] \in S /\ Rank(InOrder(S)[k], S) = k - 1
      /\ \A i, k \in S : Rank(i, S) = Rank(k, S) => i = k
    BY Ranked
<1>8. \A k \in 1 .. c : InOrder(S)[k] = g[k]
    BY <1>4, <1>6, <1>7
<1>9. InOrder(S) = [k \in 1 .. c |-> InOrder(S)[k]]
    <2>1. InOrder(S) \in [1 .. c -> S]
        BY InOrderEnumerates
    <2>2. QED
        BY <2>1
<1>10. g = [k \in 1 .. c |-> g[k]]
    OBVIOUS
<1> HIDE DEF c
<1>11. QED
    BY <1>8, <1>9, <1>10

\* Two selections of as many positions, of which each has what the other has.
LEMMA SelectedSame ==
    ASSUME NEW X, NEW s \in Seq(X), NEW t \in Seq(X), NEW S \in SUBSET DOMAIN s, NEW T \in SUBSET DOMAIN t,
           NEW f \in [T -> S], \A i \in S : \E k \in T : f[k] = i,
           \A j, k \in T : j < k => f[j] < f[k],
           \A k \in T : t[k] = s[f[k]]
    PROVE  At(T, t) = At(S, s)
<1> DEFINE c == Cardinality(T)
           o == InOrder(T)
           g == [k \in 1 .. c |-> f[o[k]]]
<1>1. /\ S \subseteq Nat /\ IsFiniteSet(S) /\ T \subseteq Nat /\ IsFiniteSet(T)
    <2>1. DOMAIN s = 1 .. Len(s) /\ Len(s) \in Nat /\ DOMAIN t = 1 .. Len(t) /\ Len(t) \in Nat
        OBVIOUS
    <2>2. IsFiniteSet(1 .. Len(s)) /\ IsFiniteSet(1 .. Len(t))
        BY <2>1, FS_Interval
    <2>3. QED
        BY <2>1, <2>2, FS_Subset
<1>2. /\ c \in Nat /\ o \in [1 .. c -> T]
      /\ \A j, k \in 1 .. c : j < k => o[j] < o[k]
    BY AtPositions
<1>3. Cardinality(S) = c
    <2>1. \A j, k \in T : f[j] = f[k] => j = k
        <3>1. \A j, k \in T : j < k \/ j = k \/ k < j
            BY <1>1
        <3>2. \A k \in T : f[k] \in Nat
            BY <1>1
        <3>3. QED
            BY <3>1, <3>2
    <2>2. f \in Bijection(T, S)
        BY <2>1 DEF Bijection, Injection, IsInjective, Surjection
    <2>3. QED
        BY <1>1, <2>2, FS_Bijection DEF ExistsBijection
<1> HIDE DEF c, o
<1>4. /\ g \in [1 .. c -> S]
      /\ \A j, k \in 1 .. c : j < k => g[j] < g[k]
    BY <1>2
<1>5. g = InOrder(S)
    <2> HIDE DEF g
    <2>1. QED
        BY <1>1, <1>3, <1>4, OneOrder
<1>6. At(S, s) = [k \in 1 .. c |-> s[g[k]]]
    BY <1>3, <1>5 DEF At
<1>7. At(T, t) = [k \in 1 .. c |-> t[o[k]]]
    BY DEF At, c, o
<1>8. \A k \in 1 .. c : t[o[k]] = s[g[k]]
    BY <1>2
<1>9. QED
    BY <1>6, <1>7, <1>8

\* One more position, after the others.
LEMMA SelectedLast ==
    ASSUME NEW X, NEW s \in Seq(X), NEW S \in SUBSET DOMAIN s, NEW x \in DOMAIN s,
           \A i \in S : i < x
    PROVE  At(S \cup {x}, s) = Append(At(S, s), s[x])
<1> DEFINE c == Cardinality(S)
           o == InOrder(S)
           g == [k \in 1 .. c + 1 |-> IF k <= c THEN o[k] ELSE x]
           T == S \cup {x}
<1>1. S \subseteq Nat /\ IsFiniteSet(S) /\ x \in Nat
    <2>1. DOMAIN s = 1 .. Len(s) /\ Len(s) \in Nat
        OBVIOUS
    <2>2. IsFiniteSet(1 .. Len(s))
        BY <2>1, FS_Interval
    <2>3. QED
        BY <2>1, <2>2, FS_Subset
<1>2. /\ c \in Nat /\ o \in [1 .. c -> S] /\ At(S, s) \in Seq(X) /\ DOMAIN At(S, s) = 1 .. c
      /\ \A j, k \in 1 .. c : j < k => o[j] < o[k]
      /\ \A k \in 1 .. c : At(S, s)[k] = s[o[k]]
    BY AtPositions
<1>3. T \subseteq Nat /\ IsFiniteSet(T) /\ Cardinality(T) = c + 1
    <2>1. x \notin S
        BY <1>1
    <2>2. QED
        BY <1>1, <2>1, FS_AddElement
<1> HIDE DEF c, o, T
<1>4. g \in [1 .. c + 1 -> T]
    BY <1>2 DEF T
<1>5. ASSUME NEW j \in 1 .. c + 1, NEW k \in 1 .. c + 1, j < k PROVE g[j] < g[k]
    <2>1. j <= c /\ j \in 1 .. c
        BY <1>2, <1>5
    <2>2. CASE k <= c
        BY <1>2, <1>5, <2>1, <2>2
    <2>3. CASE ~(k <= c)
        BY <1>2, <2>1, <2>3
    <2>4. QED
        BY <2>2, <2>3
<1>6. g = InOrder(T)
    <2> HIDE DEF g
    <2>1. QED
        BY <1>3, <1>4, <1>5, OneOrder
<1>7. At(T, s) = [k \in 1 .. c + 1 |-> s[g[k]]]
    BY <1>3, <1>6 DEF At
<1>8. Append(At(S, s), s[x]) = [k \in 1 .. c + 1 |-> s[g[k]]]
    <2>1. Len(At(S, s)) = c
        BY <1>2
    <2> DEFINE a == Append(At(S, s), s[x])
    <2>2. /\ a \in Seq(X) /\ Len(a) = c + 1 /\ a[c + 1] = s[x]
          /\ \A k \in 1 .. c : a[k] = At(S, s)[k]
        <3>1. s[x] \in X
            OBVIOUS
        <3>2. QED
            BY <1>2, <2>1, <3>1, AppendProperties
    <2> HIDE DEF a
    <2>3. \A k \in 1 .. c + 1 : a[k] = s[g[k]]
        <3>1. \A k \in 1 .. c + 1 : k \in 1 .. c \/ k = c + 1
            BY <1>2
        <3>2. \A k \in 1 .. c : a[k] = s[o[k]] /\ g[k] = o[k]
            BY <1>2, <2>2
        <3>3. g[c + 1] = x
            BY <1>2
        <3> HIDE DEF g
        <3>4. QED
            BY <2>2, <3>1, <3>2, <3>3
    <2>4. a = [k \in 1 .. c + 1 |-> a[k]]
        BY <2>2
    <2> HIDE DEF g
    <2>5. a = [k \in 1 .. c + 1 |-> s[g[k]]]
        BY <2>3, <2>4
    <2>6. QED
        BY <2>5 DEF a
<1>9. QED
    BY <1>7, <1>8 DEF T

\* One more position, before the others.
LEMMA SelectedFirst ==
    ASSUME NEW X, NEW s \in Seq(X), NEW S \in SUBSET DOMAIN s, NEW x \in DOMAIN s,
           \A i \in S : x < i
    PROVE  At(S \cup {x}, s) = <<s[x]>> \o At(S, s)
<1> DEFINE c == Cardinality(S)
           o == InOrder(S)
           g == [k \in 1 .. c + 1 |-> IF k = 1 THEN x ELSE o[k - 1]]
           T == S \cup {x}
<1>1. S \subseteq Nat /\ IsFiniteSet(S) /\ x \in Nat
    <2>1. DOMAIN s = 1 .. Len(s) /\ Len(s) \in Nat
        OBVIOUS
    <2>2. IsFiniteSet(1 .. Len(s))
        BY <2>1, FS_Interval
    <2>3. QED
        BY <2>1, <2>2, FS_Subset
<1>2. /\ c \in Nat /\ o \in [1 .. c -> S] /\ At(S, s) \in Seq(X) /\ DOMAIN At(S, s) = 1 .. c
      /\ \A j, k \in 1 .. c : j < k => o[j] < o[k]
      /\ \A k \in 1 .. c : At(S, s)[k] = s[o[k]]
    BY AtPositions
<1>3. T \subseteq Nat /\ IsFiniteSet(T) /\ Cardinality(T) = c + 1
    <2>1. x \notin S
        BY <1>1
    <2>2. QED
        BY <1>1, <2>1, FS_AddElement
<1> HIDE DEF c, o, T
<1>4. \A k \in 1 .. c + 1 : k = 1 \/ k - 1 \in 1 .. c
    BY <1>2
<1>5. g \in [1 .. c + 1 -> T]
    BY <1>2, <1>4 DEF T
<1>6. ASSUME NEW j \in 1 .. c + 1, NEW k \in 1 .. c + 1, j < k PROVE g[j] < g[k]
    <2>1. k # 1 /\ k - 1 \in 1 .. c
        BY <1>2, <1>6
    <2>2. CASE j = 1
        BY <1>2, <2>1, <2>2
    <2>3. CASE j # 1
        <3>1. j - 1 \in 1 .. c /\ j - 1 < k - 1
            BY <1>2, <1>6, <2>3
        <3>2. QED
            BY <1>2, <2>1, <2>3, <3>1
    <2>4. QED
        BY <2>2, <2>3
<1>7. g = InOrder(T)
    <2> HIDE DEF g
    <2>1. QED
        BY <1>3, <1>5, <1>6, OneOrder
<1>8. At(T, s) = [k \in 1 .. c + 1 |-> s[g[k]]]
    BY <1>3, <1>7 DEF At
<1>9. <<s[x]>> \o At(S, s) = [k \in 1 .. c + 1 |-> s[g[k]]]
    <2>1. s[x] \in X /\ <<s[x]>> \in Seq(X) /\ Len(<<s[x]>>) = 1 /\ Len(At(S, s)) = c
        BY <1>2
    <2> DEFINE a == <<s[x]>>
               b == At(S, s)
    <2>2. a[1] = s[x]
        OBVIOUS
    <2>3. a \in Seq(X) /\ b \in Seq(X) /\ Len(a) = 1 /\ Len(b) = c
        BY <1>2, <2>1
    <2> HIDE DEF a, b
    <2>4. /\ a \o b \in Seq(X) /\ Len(a \o b) = c + 1
          /\ \A k \in 1 .. 1 + c : (a \o b)[k] = IF k <= 1 THEN a[k] ELSE b[k - 1]
        <3>1. /\ a \o b \in Seq(X) /\ Len(a \o b) = Len(a) + Len(b)
              /\ \A k \in 1 .. Len(a) + Len(b) :
                    (a \o b)[k] = IF k <= Len(a) THEN a[k] ELSE b[k - Len(a)]
            BY <2>3, ConcatProperties
        <3> DEFINE d == a \o b
        <3> HIDE DEF d
        <3>2. /\ d \in Seq(X) /\ Len(d) = Len(a) + Len(b)
              /\ \A k \in 1 .. Len(a) + Len(b) : d[k] = IF k <= Len(a) THEN a[k] ELSE b[k - Len(a)]
            BY <3>1 DEF d
        <3>3. /\ d \in Seq(X) /\ Len(d) = c + 1
              /\ \A k \in 1 .. 1 + c : d[k] = IF k <= 1 THEN a[k] ELSE b[k - 1]
            BY <1>2, <2>3, <3>2
        <3>4. QED
            BY <3>3 DEF d
    <2>5. DOMAIN (a \o b) = 1 .. c + 1
        BY <1>2, <2>4
    <2>6. \A k \in 1 .. c + 1 : (a \o b)[k] = s[g[k]]
        <3> SUFFICES ASSUME NEW k \in 1 .. c + 1 PROVE (a \o b)[k] = s[g[k]]
            OBVIOUS
        <3>1. k \in 1 .. 1 + c
            BY <1>2
        <3>2. CASE k = 1
            BY <2>2, <2>4, <3>1, <3>2
        <3>3. CASE k # 1
            <4>1. k - 1 \in 1 .. c /\ ~(k <= 1)
                BY <1>2, <3>3
            <4>2. (a \o b)[k] = b[k - 1] /\ b[k - 1] = s[o[k - 1]]
                BY <1>2, <2>4, <3>1, <4>1 DEF b
            <4>3. QED
                BY <3>3, <4>2
        <3>4. QED
            BY <3>2, <3>3
    <2>7. a \o b = [k \in 1 .. c + 1 |-> (a \o b)[k]]
        <3> DEFINE d == a \o b
        <3>1. d \in Seq(X) /\ DOMAIN d = 1 .. c + 1
            BY <2>4, <2>5
        <3> HIDE DEF d
        <3>2. d = [k \in 1 .. c + 1 |-> d[k]]
            BY <3>1
        <3>3. QED
            BY <3>2 DEF d
    <2> HIDE DEF g
    <2>8. a \o b = [k \in 1 .. c + 1 |-> s[g[k]]]
        BY <2>6, <2>7
    <2>9. QED
        BY <2>8 DEF a, b
<1>10. QED
    BY <1>8, <1>9 DEF T

\* What a selection makes of one more item at the end.
LEMMA SelectedAppended ==
    ASSUME NEW X, NEW s \in Seq(X), NEW x \in X, NEW S \in SUBSET DOMAIN s
    PROVE  /\ At(S, Append(s, x)) = At(S, s)
           /\ At(S \cup {Len(s) + 1}, Append(s, x)) = Append(At(S, s), x)
<1> DEFINE t == Append(s, x)
           f == [k \in S |-> k]
<1>1. /\ Len(s) \in Nat /\ DOMAIN s = 1 .. Len(s)
      /\ t \in Seq(X) /\ DOMAIN t = 1 .. Len(s) + 1 /\ t[Len(s) + 1] = x
      /\ \A k \in 1 .. Len(s) : t[k] = s[k]
    OBVIOUS
<1> HIDE DEF t
<1>2. /\ f \in [S -> S] /\ \A i \in S : \E k \in S : f[k] = i
      /\ \A j, k \in S : j < k => f[j] < f[k]
      /\ \A k \in S : t[k] = s[f[k]]
    BY <1>1
<1>3. S \in SUBSET DOMAIN t /\ Len(s) + 1 \in DOMAIN t /\ \A i \in S : i < Len(s) + 1
    BY <1>1
<1> HIDE DEF f
<1>4. At(S, t) = At(S, s)
    BY <1>1, <1>2, <1>3, SelectedSame
<1>5. At(S \cup {Len(s) + 1}, t) = Append(At(S, t), t[Len(s) + 1])
    BY <1>1, <1>3, SelectedLast
<1>6. QED
    BY <1>1, <1>4, <1>5 DEF t

\* What is appended to the second is appended to both.
LEMMA AppendedLater ==
    ASSUME NEW X, NEW s \in Seq(X), NEW t \in Seq(X), NEW x \in X
    PROVE  s \o Append(t, x) = Append(s \o t, x)
<1>1. <<x>> \in Seq(X) /\ s \o t \in Seq(X)
    BY ConcatProperties
<1>2. Append(t, x) = t \o <<x>> /\ Append(s \o t, x) = (s \o t) \o <<x>>
    BY <1>1, AppendIsConcat
<1>3. (s \o t) \o <<x>> = s \o (t \o <<x>>)
    BY <1>1, ConcatAssociative
<1>4. QED
    BY <1>2, <1>3

LEMMA WithoutOne ==
    ASSUME NEW X, NEW seq \in Seq(X), NEW i \in DOMAIN seq
    PROVE  /\ RemoveAt(seq, i) \in Seq(X) /\ Len(RemoveAt(seq, i)) = Len(seq) - 1
           /\ \A k \in 1 .. i - 1 : RemoveAt(seq, i)[k] = seq[k]
           /\ \A k \in i .. Len(seq) - 1 : RemoveAt(seq, i)[k] = seq[k + 1]
<1> DEFINE n == Len(seq)
           p == SubSeq(seq, 1, i - 1)
           q == SubSeq(seq, i + 1, n)
<1>1. n \in Nat /\ i \in 1 .. n /\ \A k \in 1 .. n : seq[k] \in X
    OBVIOUS
<1>2. p \in Seq(X) /\ Len(p) = i - 1 /\ \A k \in 1 .. i - 1 : p[k] = seq[k]
    <2>1. 1 \in Int /\ i - 1 \in Int /\ \A k \in 1 .. i - 1 : seq[k] \in X
        BY <1>1
    <2>2. /\ p \in Seq(X) /\ Len(p) = IF 1 <= i - 1 THEN (i - 1) - 1 + 1 ELSE 0
          /\ \A k \in 1 .. (i - 1) - 1 + 1 : p[k] = seq[1 + k - 1]
        BY <2>1, SubSeqProperties
    <2> HIDE DEF p, n
    <2>3. QED
        BY <1>1, <2>2
<1>3. q \in Seq(X) /\ Len(q) = n - i /\ \A k \in 1 .. n - i : q[k] = seq[i + k]
    <2>1. i + 1 \in Int /\ n \in Int /\ \A k \in i + 1 .. n : seq[k] \in X
        BY <1>1
    <2>2. /\ q \in Seq(X) /\ Len(q) = IF i + 1 <= n THEN n - (i + 1) + 1 ELSE 0
          /\ \A k \in 1 .. n - (i + 1) + 1 : q[k] = seq[(i + 1) + k - 1]
        BY <2>1, SubSeqProperties
    <2> HIDE DEF q, n
    <2>3. QED
        BY <1>1, <2>2
<1>4. RemoveAt(seq, i) = p \o q
    BY DEF RemoveAt
<1> HIDE DEF p, q, n
<1>5. /\ p \o q \in Seq(X) /\ Len(p \o q) = n - 1
      /\ \A k \in 1 .. i - 1 : (p \o q)[k] = p[k]
      /\ \A k \in i .. n - 1 : (p \o q)[k] = q[k - (i - 1)]
    <2> DEFINE t == p \o q
    <2>1. /\ t \in Seq(X) /\ Len(t) = Len(p) + Len(q)
          /\ \A k \in 1 .. Len(p) + Len(q) : t[k] = IF k <= Len(p) THEN p[k] ELSE q[k - Len(p)]
        BY <1>2, <1>3, ConcatProperties
    <2> HIDE DEF t
    <2>2. Len(p) = i - 1 /\ Len(q) = n - i /\ Len(p) + Len(q) = n - 1
        BY <1>1, <1>2, <1>3
    <2>3. \A k \in 1 .. n - 1 : t[k] = IF k <= i - 1 THEN p[k] ELSE q[k - (i - 1)]
        BY <2>1, <2>2
    <2>4. /\ \A k \in 1 .. i - 1 : t[k] = p[k]
          /\ \A k \in i .. n - 1 : t[k] = q[k - (i - 1)]
        BY <1>1, <2>3
    <2>5. QED
        BY <2>1, <2>2, <2>4 DEF t
<1>6. \A k \in i .. n - 1 : k - (i - 1) \in 1 .. n - i /\ i + (k - (i - 1)) = k + 1
    BY <1>1
<1>7. QED
    BY <1>2, <1>3, <1>4, <1>5, <1>6 DEF n

(* The items of p are among those of q, in the same order.                 *)
Thins(p, q) ==
    \E f \in [DOMAIN p -> DOMAIN q] :
        /\ \A k \in DOMAIN p : p[k].to = q[f[k]].to /\ p[k].msg = q[f[k]].msg
        /\ \A j, k \in DOMAIN p : j < k => f[j] < f[k]

LEMMA ThinsItself == ASSUME NEW p PROVE Thins(p, p)
<1>1. [k \in DOMAIN p |-> k] \in [DOMAIN p -> DOMAIN p]
    OBVIOUS
<1>2. QED
    BY <1>1 DEF Thins

LEMMA AtThins ==
    ASSUME NEW seq \in Seq(Delivery), NEW S \in SUBSET DOMAIN seq
    PROVE  Thins(At(S, seq), seq)
<1> DEFINE f == InOrder(S)
           p == At(S, seq)
           c == Cardinality(S)
<1>1. /\ DOMAIN p = 1 .. c /\ f \in [1 .. c -> S] /\ \A k \in 1 .. c : p[k] = seq[f[k]]
      /\ \A j, k \in 1 .. c : j < k => f[j] < f[k]
    BY AtPositions
<1> HIDE DEF f, p, c
<1>2. f \in [DOMAIN p -> DOMAIN seq]
    BY <1>1
<1>3. Thins(p, seq)
    BY <1>1, <1>2 DEF Thins
<1>4. QED
    BY <1>3 DEF p

LEMMA RemoveAtThins ==
    ASSUME NEW seq \in Seq(Delivery), NEW i \in DOMAIN seq
    PROVE  Thins(RemoveAt(seq, i), seq)
<1> DEFINE p == RemoveAt(seq, i)
           f == [k \in DOMAIN p |-> IF k < i THEN k ELSE k + 1]
<1>1. /\ Len(seq) \in Nat /\ i \in 1 .. Len(seq) /\ DOMAIN p = 1 .. Len(seq) - 1
      /\ DOMAIN seq = 1 .. Len(seq)
      /\ \A k \in 1 .. i - 1 : p[k] = seq[k]
      /\ \A k \in i .. Len(seq) - 1 : p[k] = seq[k + 1]
    <2>1. /\ p \in Seq(Delivery) /\ Len(p) = Len(seq) - 1
          /\ \A k \in 1 .. i - 1 : p[k] = seq[k]
          /\ \A k \in i .. Len(seq) - 1 : p[k] = seq[k + 1]
        BY WithoutOne
    <2> HIDE DEF p
    <2>2. QED
        BY <2>1
<1> HIDE DEF p
<1>2. f \in [DOMAIN p -> DOMAIN seq]
    BY <1>1
<1>3. \A k \in DOMAIN p : p[k] = seq[f[k]]
    BY <1>1
<1>4. \A j, k \in DOMAIN p : j < k => f[j] < f[k]
    BY <1>1
<1> HIDE DEF f
<1>5. QED
    BY <1>2, <1>3, <1>4 DEF Thins, p

LEMMA TriedThins ==
    ASSUME NEW seq \in Seq(Delivery), NEW i \in DOMAIN seq
    PROVE  Thins([seq EXCEPT ![i].tried = TRUE], seq)
<1> DEFINE p == [seq EXCEPT ![i].tried = TRUE]
           f == [k \in DOMAIN p |-> k]
<1>1. DOMAIN p = DOMAIN seq /\ f \in [DOMAIN p -> DOMAIN seq]
    OBVIOUS
<1>2. \A k \in DOMAIN seq : seq[k] \in Delivery
    OBVIOUS
<1>3. ASSUME NEW k \in DOMAIN p PROVE p[k].to = seq[k].to /\ p[k].msg = seq[k].msg
    BY <1>1, <1>2 DEF Delivery
<1>4. \A k \in DOMAIN p : f[k] = k
    OBVIOUS
<1> HIDE DEF p, f
<1>5. Thins(p, seq)
    BY <1>1, <1>3, <1>4 DEF Thins
<1>6. QED
    BY <1>5 DEF p

-----------------------------------------------------------------------------
(* The inductive invariant.                                                *)

(* Incidents, outbox and fired escalations that fit together, in memory or *)
(* in the state file, when N transitions have been decided: no two         *)
(* incidents of a transition, no two items alike; an escalation waits for  *)
(* its destination only while its incident is worth it, and an alert that  *)
(* was suppressed only when its incident is not suppressed any more.       *)
Freed(inc) == {inc[i].n : i \in {j \in DOMAIN inc : ~ inc[j].suppressed}}
Nums(inc) == {inc[i].n : i \in DOMAIN inc}
Worthy(inc, esc) ==
    {inc[i].n : i \in {j \in esc : inc[j].active /\ ~ inc[j].acked /\ ~ inc[j].suppressed}}

Sound(inc, box, esc, N) ==
    /\ \A i \in DOMAIN inc : inc[i].n \in 1 .. N
    /\ \A i, j \in DOMAIN inc : inc[i].n = inc[j].n => i = j
    /\ esc \subseteq DOMAIN inc
    /\ \A k \in DOMAIN box : box[k].msg.n \in 1 .. N
    /\ \A k, l \in DOMAIN box : box[k].to = box[l].to /\ box[k].msg = box[l].msg => k = l
    /\ \A k \in DOMAIN box : box[k].msg.note = "escalation" => box[k].msg.n \in Worthy(inc, esc)
    /\ \A k \in DOMAIN box : box[k].msg.note = "released" => box[k].msg.n \in Freed(inc)

(* What an emitter has still to deliver or is delivering has not been      *)
(* queued, unless for a destination that it has done with; news is in no   *)
(* incident before it is recorded.                                         *)
Coming(e) == {e.msg} \cup {e.next[j] : j \in DOMAIN e.next}
Boxed(box) == {<<box[k].to, box[k].msg>> : k \in DOMAIN box}
NewsIn(box) == {<<box[k].to, box[k].msg>> : k \in {l \in DOMAIN box : box[l].msg.note = "news"}}
Done(e, d) ==
    \/ e.stage = "finishing"
    \/ e.stage = "sending" /\ \A j \in DOMAIN e.left : e.left[j] # d

EmitterOK(e, nums, freed, boxed, N) ==
    /\ \A m \in Coming(e) : m.n \in 1 .. N
    /\ e.msg.note \in {"news", "released"}
    /\ \A j \in DOMAIN e.next : e.next[j].note = "released" /\ e.next[j] # e.msg
    /\ \A j, k \in DOMAIN e.next : e.next[j] = e.next[k] => j = k
    /\ \A j, k \in DOMAIN e.left : e.left[j] = e.left[k] => j = k
    /\ e.stage \in {"reading", "recording", "saving"} => e.msg.note = "news"
    /\ e.stage \in {"reading", "recording"} => e.msg.n \notin nums
    /\ \A m \in Coming(e) : m.note = "released" => m.n \in freed
    /\ \A d \in Destination, m \in Coming(e) : <<d, m>> \in boxed => m = e.msg /\ Done(e, d)

(* No two emitters deliver the same.                                       *)
Apart(E) == \A e, f \in E : Coming(e) \cap Coming(f) # {} => e = f

AllNums == Nums(incidents) \cup Nums(disk.incidents)

EmittersOK ==
    /\ \A e \in emitters :
          EmitterOK(e, AllNums, Freed(incidents), Boxed(outbox), Len(decided))
    /\ Apart(emitters)

(* A round has the end of the outbox before it, and what it has left       *)
(* behind is for destinations that it serves no more.                      *)
Behind == Len(outbox) - Len(round.items)

RoundOK ==
    round # Idle =>
        /\ \A e \in emitters : e.stage # "sending"
        /\ Len(round.items) <= Len(outbox)
        /\ \A k \in DOMAIN round.items :
              /\ outbox[Behind + k].to = round.items[k].to
              /\ outbox[Behind + k].msg = round.items[k].msg
        /\ \A k \in 1 .. Behind : outbox[k].to \in round.blocked
        /\ round.stage # "next" => round.items # <<>> /\ round.items[1].to \notin round.blocked

DeliveryInv ==
    /\ TypeOK
    /\ Sound(incidents, outbox, escalated, Len(decided))
    /\ Sound(disk.incidents, disk.outbox, disk.escalated, Len(decided))
    /\ EmittersOK
    /\ RoundOK

-----------------------------------------------------------------------------
(* What keeps these true.                                                  *)

LEMMA SoundThinned ==
    ASSUME NEW inc, NEW p \in Seq(Delivery), NEW q \in Seq(Delivery), NEW esc, NEW N,
           Sound(inc, q, esc, N), Thins(p, q)
    PROVE  Sound(inc, p, esc, N)
<1>1. PICK f \in [DOMAIN p -> DOMAIN q] :
          /\ \A k \in DOMAIN p : p[k].to = q[f[k]].to /\ p[k].msg = q[f[k]].msg
          /\ \A j, k \in DOMAIN p : j < k => f[j] < f[k]
    BY DEF Thins
<1>2. \A k \in DOMAIN p : f[k] \in DOMAIN q
    OBVIOUS
<1>3. \A j, k \in DOMAIN p : f[j] = f[k] => j = k
    <2>1. \A j, k \in DOMAIN p : j < k \/ j = k \/ k < j
        OBVIOUS
    <2>2. \A k \in DOMAIN p : f[k] \in Nat
        BY <1>2
    <2>3. QED
        BY <1>1, <2>1, <2>2
<1>4. QED
    BY <1>1, <1>2, <1>3 DEF Sound

LEMMA BoxedThinned ==
    ASSUME NEW p, NEW q, Thins(p, q)
    PROVE  Boxed(p) \subseteq Boxed(q)
<1>1. PICK f \in [DOMAIN p -> DOMAIN q] :
          /\ \A k \in DOMAIN p : p[k].to = q[f[k]].to /\ p[k].msg = q[f[k]].msg
          /\ \A j, k \in DOMAIN p : j < k => f[j] < f[k]
    BY DEF Thins
<1>2. \A k \in DOMAIN p : f[k] \in DOMAIN q
    OBVIOUS
<1>3. QED
    BY <1>1, <1>2 DEF Boxed

LEMMA SoundLater ==
    ASSUME NEW inc, NEW box, NEW esc, NEW N \in Nat, NEW M \in Nat, N <= M, Sound(inc, box, esc, N)
    PROVE  Sound(inc, box, esc, M)
BY DEF Sound

\* An emitter is not disturbed when others record, queue, thin the outbox or
\* end suppressions.
LEMMA EmitterKeeps ==
    ASSUME NEW e, NEW nums, NEW freed, NEW boxed, NEW N \in Nat,
           NEW nums2, NEW freed2, NEW boxed2, NEW M \in Nat,
           EmitterOK(e, nums, freed, boxed, N),
           N <= M, freed \subseteq freed2,
           \A n \in nums2 \ nums : e.msg # [n |-> n, note |-> "news"] \/ e.stage \notin {"reading", "recording"},
           e.msg \in Message,
           \A d \in Destination, m \in Coming(e) : <<d, m>> \in boxed2 => <<d, m>> \in boxed
    PROVE  EmitterOK(e, nums2, freed2, boxed2, M)
<1>1. \A m \in Coming(e) : m.n \in 1 .. M
    BY DEF EmitterOK
<1>2. e.stage \in {"reading", "recording"} => e.msg.n \notin nums2
    BY DEF EmitterOK, Message
<1>3. QED
    BY <1>1, <1>2 DEF EmitterOK

\* The other emitters when one moves on: what it has left to deliver it had.
LEMMA ApartStays ==
    ASSUME NEW E, Apart(E), NEW e \in E, NEW f, Coming(f) \subseteq Coming(e)
    PROVE  Apart((E \ {e}) \cup {f})
<1>1. ASSUME NEW g \in (E \ {e}) \cup {f}, NEW h \in (E \ {e}) \cup {f}, Coming(g) \cap Coming(h) # {}
      PROVE  g = h
    <2>1. CASE g = f /\ h = f
        BY <2>1
    <2>2. CASE g = f /\ h \in E \ {e}
        <3>1. Coming(e) \cap Coming(h) # {}
            BY <1>1, <2>2
        <3>2. QED
            BY <2>2, <3>1 DEF Apart
    <2>3. CASE h = f /\ g \in E \ {e}
        <3>1. Coming(e) \cap Coming(g) # {}
            BY <1>1, <2>3
        <3>2. QED
            BY <2>3, <3>1 DEF Apart
    <2>4. CASE g \in E \ {e} /\ h \in E \ {e}
        BY <1>1, <2>4 DEF Apart
    <2>5. QED
        BY <2>1, <2>2, <2>3, <2>4
<1>2. QED
    BY <1>1 DEF Apart

LEMMA ApartFewer == ASSUME NEW E, Apart(E), NEW F \in SUBSET E PROVE Apart(F)
BY DEF Apart

\* The state file is what it was or what memory is.
LEMMA DiskKeeps ==
    ASSUME DeliveryInv, TypeOK', decided' = decided,
           Sound(incidents', outbox', escalated', Len(decided)),
           disk' = disk \/ disk' = Snapshot'
    PROVE  /\ Sound(disk'.incidents, disk'.outbox, disk'.escalated, Len(decided'))
           /\ Sound(incidents', outbox', escalated', Len(decided'))
           /\ Nums(disk'.incidents) \subseteq AllNums \cup Nums(incidents')
<1>1. Snapshot'.incidents = incidents' /\ Snapshot'.outbox = outbox' /\ Snapshot'.escalated = escalated'
    BY DEF Snapshot
<1>2. QED
    BY <1>1 DEF DeliveryInv, AllNums

LEMMA Filed ==
    ASSUME TypeOK, status' \in [Subject -> Statuses], incidents' \in Seq(Incident),
           outbox' \in Seq(Delivery), escalated' \subseteq DOMAIN incidents',
           disk' = disk \/ disk' = Snapshot'
    PROVE  disk' \in StateFile
<1>1. DOMAIN incidents' \subseteq Nat
    OBVIOUS
<1>2. QED
    BY <1>1 DEF TypeOK, StateFile, Snapshot

LEMMA Together ==
    ASSUME DeliveryInv, TypeOK', decided' = decided, disk' = disk \/ disk' = Snapshot', RoundOK',
           Sound(incidents', outbox', escalated', Len(decided)), Apart(emitters'),
           \A e \in emitters' : EmitterOK(e, AllNums \cup Nums(incidents'), Freed(incidents'),
                                          Boxed(outbox'), Len(decided))
    PROVE  DeliveryInv'
<1>1. /\ Sound(disk'.incidents, disk'.outbox, disk'.escalated, Len(decided'))
      /\ Sound(incidents', outbox', escalated', Len(decided'))
      /\ AllNums' \subseteq AllNums \cup Nums(incidents')
    BY DiskKeeps DEF AllNums
<1>2. ASSUME NEW e \in emitters'
      PROVE  EmitterOK(e, AllNums', Freed(incidents'), Boxed(outbox'), Len(decided'))
    <2>1. Len(decided) \in Nat /\ e.msg \in Message
        BY <1>2 DEF DeliveryInv, TypeOK, Emitter
    <2>2. EmitterOK(e, AllNums \cup Nums(incidents'), Freed(incidents'), Boxed(outbox'), Len(decided))
        BY <1>2
    <2>3. \A n \in AllNums' \ (AllNums \cup Nums(incidents')) : FALSE
        BY <1>1
    <2>4. QED
        BY <2>1, <2>2, <2>3, EmitterKeeps
<1>3. EmittersOK'
    BY <1>2 DEF EmittersOK
<1>4. QED
    BY <1>1, <1>3 DEF DeliveryInv

LEMMA EmittersMove ==
    ASSUME DeliveryInv, NEW e \in emitters, NEW f, emitters' = (emitters \ {e}) \cup {f},
           Coming(f) \subseteq Coming(e), Freed(incidents) \subseteq Freed(incidents'),
           EmitterOK(f, AllNums \cup Nums(incidents'), Freed(incidents'), Boxed(outbox'), Len(decided)),
           \A n \in Nums(incidents') \ AllNums : e.msg = [n |-> n, note |-> "news"],
           \A d \in Destination, m \in Message :
               <<d, m>> \in Boxed(outbox') => <<d, m>> \in Boxed(outbox) \/ m = e.msg
    PROVE  /\ Apart(emitters')
           /\ \A g \in emitters' : EmitterOK(g, AllNums \cup Nums(incidents'), Freed(incidents'),
                                             Boxed(outbox'), Len(decided))
<1>1. Apart(emitters')
    BY ApartStays DEF DeliveryInv, EmittersOK
<1>2. ASSUME NEW g \in emitters, g # e
      PROVE  EmitterOK(g, AllNums \cup Nums(incidents'), Freed(incidents'), Boxed(outbox'), Len(decided))
    <2>1. EmitterOK(g, AllNums, Freed(incidents), Boxed(outbox), Len(decided))
        BY DEF DeliveryInv, EmittersOK
    <2>2. g \in Emitter /\ Len(decided) \in Nat
        BY DEF DeliveryInv, TypeOK
    <2>3. g.msg \in Message /\ Coming(g) \subseteq Message
        BY <2>2 DEF Emitter, Coming
    <2>4. \A m \in Coming(g) : m # e.msg
        BY <1>2 DEF DeliveryInv, EmittersOK, Apart, Coming
    <2>5. \A n \in (AllNums \cup Nums(incidents')) \ AllNums : g.msg # [n |-> n, note |-> "news"]
        BY <2>4 DEF Coming
    <2>6. \A d \in Destination, m \in Coming(g) : <<d, m>> \in Boxed(outbox') => <<d, m>> \in Boxed(outbox)
        BY <2>3, <2>4
    <2>7. QED
        BY <2>1, <2>2, <2>3, <2>5, <2>6, EmitterKeeps
<1>3. QED
    BY <1>1, <1>2

LEMMA EmittersStay ==
    ASSUME DeliveryInv, emitters' \subseteq emitters, Freed(incidents) \subseteq Freed(incidents'),
           Nums(incidents') \subseteq AllNums,
           \A d \in Destination, m \in Message :
               <<d, m>> \in Boxed(outbox') => <<d, m>> \in Boxed(outbox) \/ m.note = "escalation"
    PROVE  /\ Apart(emitters')
           /\ \A g \in emitters' : EmitterOK(g, AllNums \cup Nums(incidents'), Freed(incidents'),
                                             Boxed(outbox'), Len(decided))
<1>1. Apart(emitters')
    BY ApartFewer DEF DeliveryInv, EmittersOK
<1>2. ASSUME NEW g \in emitters'
      PROVE  EmitterOK(g, AllNums \cup Nums(incidents'), Freed(incidents'), Boxed(outbox'), Len(decided))
    <2>1. EmitterOK(g, AllNums, Freed(incidents), Boxed(outbox), Len(decided))
        BY DEF DeliveryInv, EmittersOK
    <2>2. g \in Emitter /\ Len(decided) \in Nat
        BY DEF DeliveryInv, TypeOK
    <2>3. g.msg \in Message /\ Coming(g) \subseteq Message
        BY <2>2 DEF Emitter, Coming
    <2>4. \A m \in Coming(g) : m.note # "escalation"
        BY <2>1 DEF EmitterOK, Coming
    <2>5. \A n \in (AllNums \cup Nums(incidents')) \ AllNums : FALSE
        OBVIOUS
    <2>6. \A d \in Destination, m \in Coming(g) : <<d, m>> \in Boxed(outbox') => <<d, m>> \in Boxed(outbox)
        BY <2>3, <2>4
    <2>7. QED
        BY <2>1, <2>2, <2>3, <2>5, <2>6, EmitterKeeps
<1>3. QED
    BY <1>1, <1>2

-----------------------------------------------------------------------------
(* The emitters' steps.                                                    *)

LEMMA DeliveryInit == Init => DeliveryInv
<1> SUFFICES ASSUME Init PROVE DeliveryInv
    OBVIOUS
<1>1. /\ decided = <<>> /\ emitters = {} /\ incidents = <<>> /\ outbox = <<>> /\ escalated = {}
      /\ round = Idle /\ disk = Snapshot /\ handed = <<>> /\ crashes = 0
      /\ received = [d \in Destination |-> <<>>] /\ status = [c \in Subject |-> "up"]
      /\ "up" \in Statuses /\ quiet \in BOOLEAN
    BY DEF Init
<1>2. TypeOK
    <2>1. received \in [Destination -> Seq(Message)] /\ status \in [Subject -> Statuses]
        BY <1>1
    <2>2. disk \in StateFile
        BY <1>1, <2>1 DEF Snapshot, StateFile
    <2>3. QED
        BY <1>1, <2>1, <2>2, IncidentDeliveryAssumption DEF TypeOK, Round, IncidentDeliveryAssumption
<1>3. disk.incidents = <<>> /\ disk.outbox = <<>> /\ disk.escalated = {}
    BY <1>1 DEF Snapshot
<1>4. \A N : Sound(<<>>, <<>>, {}, N)
    BY DEF Sound
<1>5. EmittersOK
    BY <1>1 DEF EmittersOK, Apart
<1>6. RoundOK
    BY <1>1 DEF RoundOK
<1>7. QED
    BY <1>1, <1>2, <1>3, <1>4, <1>5, <1>6 DEF DeliveryInv

LEMMA DecideStep ==
    ASSUME DeliveryInv, NEW s \in Subject, Decide(s)
    PROVE  DeliveryInv'
<1> DEFINE n == Len(decided) + 1
           new == [msg |-> [n |-> n, note |-> "news"], stage |-> "reading", hushed |-> FALSE,
                   left |-> <<>>, next |-> <<>>]
           alone == \A e \in emitters : e.msg.note = "news" => decided[e.msg.n].subject # s
<1>1. PICK to \in Statuses \ {status[s]} :
          /\ Len(decided) < MaxTransitions
          /\ status' = [status EXCEPT ![s] = to]
          /\ decided' = Append(decided, [subject |-> s, kind |-> AlertFor(status[s], to), alone |-> alone])
          /\ emitters' = emitters \cup
               {[msg |-> [n |-> Len(decided'), note |-> "news"], stage |-> "reading",
                 hushed |-> FALSE, left |-> <<>>, next |-> <<>>]}
          /\ UNCHANGED <<quiet, incidents, outbox, escalated, round, disk, handed, received, crashes>>
    BY DEF Decide
<1>2. /\ UNCHANGED <<quiet, incidents, outbox, escalated, round, disk, handed, received, crashes>>
      /\ Len(decided) \in Nat /\ Len(decided) < MaxTransitions /\ decided \in Seq(Transition)
    BY <1>1 DEF DeliveryInv, TypeOK
<1>3. AlertFor(status[s], to) \in Kind
    <2>1. status[s] \in {"up", "warning", "down"} /\ to \in {"up", "warning", "down"} /\ to # status[s]
        BY <1>1, IncidentDeliveryAssumption DEF DeliveryInv, TypeOK, IncidentDeliveryAssumption
    <2>2. QED
        BY <2>1 DEF AlertFor, Kind, Opening, Closing
<1>4. decided' \in Seq(Transition) /\ Len(decided') = n
    <2>1. alone \in BOOLEAN
        OBVIOUS
    <2> HIDE DEF alone
    <2>2. [subject |-> s, kind |-> AlertFor(status[s], to), alone |-> alone] \in Transition
        BY <1>3, <2>1 DEF Transition
    <2>3. QED
        BY <1>1, <1>2, <2>2
<1>5. emitters' = emitters \cup {new}
    BY <1>1, <1>4
<1>6. n \in Transitions /\ new \in Emitter
    <2>1. n \in Transitions
        BY <1>2, IncidentDeliveryAssumption DEF Transitions, IncidentDeliveryAssumption
    <2>2. QED
        BY <2>1 DEF Emitter, Message, Note
<1>7. TypeOK'
    <2>1. status' \in [Subject -> Statuses]
        BY <1>1 DEF DeliveryInv, TypeOK
    <2> HIDE DEF new, n
    <2>2. emitters' \subseteq Emitter
        BY <1>5, <1>6 DEF DeliveryInv, TypeOK
    <2>3. QED
        BY <1>2, <1>4, <2>1, <2>2 DEF DeliveryInv, TypeOK
<1>8. /\ Sound(incidents, outbox, escalated, n)
      /\ Sound(disk.incidents, disk.outbox, disk.escalated, n)
    BY <1>2, SoundLater DEF DeliveryInv
<1>9. /\ \A k \in AllNums : k <= Len(decided)
      /\ \A d \in Destination, m \in Message : <<d, m>> \in Boxed(outbox) => m.n <= Len(decided)
    BY <1>2 DEF DeliveryInv, Sound, AllNums, Nums, Boxed
<1>10. Coming(new) = {[n |-> n, note |-> "news"]}
    BY DEF Coming
<1>11. EmitterOK(new, AllNums, Freed(incidents), Boxed(outbox), n)
    <2>1. /\ new.msg = [n |-> n, note |-> "news"] /\ new.stage = "reading"
          /\ new.next = <<>> /\ new.left = <<>> /\ n \in 1 .. n /\ n \in Nat
        BY <1>2
    <2>2. \A d \in Destination : <<d, [n |-> n, note |-> "news"]>> \notin Boxed(outbox)
        BY <1>2, <1>6, <1>9 DEF Message, Note
    <2>3. n \notin AllNums
        BY <1>2, <1>9
    <2> HIDE DEF new, n
    <2>4. QED
        BY <1>10, <2>1, <2>2, <2>3 DEF EmitterOK
<1>12. ASSUME NEW e \in emitters
       PROVE  /\ EmitterOK(e, AllNums, Freed(incidents), Boxed(outbox), n)
              /\ \A m \in Coming(e) : m.n # n
    <2>1. EmitterOK(e, AllNums, Freed(incidents), Boxed(outbox), Len(decided))
        BY DEF DeliveryInv, EmittersOK
    <2>2. \A m \in Coming(e) : m.n \in 1 .. Len(decided)
        BY <2>1 DEF EmitterOK
    <2>3. e.msg \in Message
        BY DEF DeliveryInv, TypeOK, Emitter
    <2>4. n \in Nat /\ Len(decided) <= n
        BY <1>2
    <2>5. EmitterOK(e, AllNums, Freed(incidents), Boxed(outbox), n)
        BY <1>2, <2>1, <2>3, <2>4, EmitterKeeps
    <2>6. QED
        BY <1>2, <2>2, <2>5
<1> HIDE DEF new, n
<1>13. Apart(emitters')
    <2>1. ASSUME NEW e \in emitters PROVE Coming(e) \cap Coming(new) = {}
        BY <1>10, <1>12
    <2>2. QED
        BY <1>5, <2>1 DEF DeliveryInv, EmittersOK, Apart
<1>14. EmittersOK'
    BY <1>2, <1>4, <1>5, <1>11, <1>12, <1>13 DEF EmittersOK, AllNums
<1>15. RoundOK'
    BY <1>2, <1>5 DEF DeliveryInv, RoundOK, Behind, new
<1>16. QED
    BY <1>2, <1>4, <1>7, <1>8, <1>14, <1>15 DEF DeliveryInv

\* An emitter goes on, incidents and outbox being what they were.
LEMMA GoesOn ==
    ASSUME DeliveryInv, NEW e \in emitters, NEW f \in Emitter,
           emitters' = (emitters \ {e}) \cup {f}, Coming(f) \subseteq Coming(e),
           UNCHANGED <<status, decided, quiet, incidents, outbox, escalated, round, received, crashes>>,
           handed' \in Seq(Message), disk' = disk \/ disk' = Snapshot',
           EmitterOK(f, AllNums, Freed(incidents), Boxed(outbox), Len(decided)),
           f.stage = "sending" => round = Idle \/ e.stage = "sending"
    PROVE  DeliveryInv'
<1>1. UNCHANGED <<status, decided, quiet, incidents, outbox, escalated, round, received, crashes>>
    OBVIOUS
<1>2. TypeOK'
    <2>1. disk' \in StateFile
        BY <1>1, Filed DEF DeliveryInv, TypeOK
    <2>2. emitters' \subseteq Emitter
        BY DEF DeliveryInv, TypeOK
    <2>3. QED
        BY <1>1, <2>1, <2>2 DEF DeliveryInv, TypeOK
<1>3. AllNums \cup Nums(incidents') = AllNums /\ Nums(incidents') \ AllNums = {}
    BY <1>1 DEF AllNums
<1>4. /\ Apart(emitters')
      /\ \A g \in emitters' : EmitterOK(g, AllNums \cup Nums(incidents'), Freed(incidents'),
                                        Boxed(outbox'), Len(decided))
    BY <1>1, <1>3, EmittersMove
<1>5. RoundOK'
    BY <1>1 DEF DeliveryInv, RoundOK, Behind
<1>6. Sound(incidents', outbox', escalated', Len(decided))
    BY <1>1 DEF DeliveryInv
<1>7. QED
    BY <1>1, <1>2, <1>4, <1>5, <1>6, Together

LEMMA ReadSuppressionStep ==
    ASSUME DeliveryInv, NEW e \in emitters, ReadSuppression(e)
    PROVE  DeliveryInv'
<1> DEFINE f == [e EXCEPT !.stage = "recording", !.hushed = quiet]
<1>1. e \in Emitter /\ quiet \in BOOLEAN /\ e.stage = "reading"
    BY DEF DeliveryInv, TypeOK, ReadSuppression
<1>2. f \in Emitter /\ f.msg = e.msg /\ f.next = e.next /\ f.left = e.left /\ f.stage = "recording"
    BY <1>1 DEF Emitter
<1>3. emitters' = (emitters \ {e}) \cup {f}
    BY DEF ReadSuppression, Replace
<1> HIDE DEF f
<1>4. Coming(f) = Coming(e)
    BY <1>2 DEF Coming
<1>5. EmitterOK(e, AllNums, Freed(incidents), Boxed(outbox), Len(decided))
    BY DEF DeliveryInv, EmittersOK
<1>6. EmitterOK(f, AllNums, Freed(incidents), Boxed(outbox), Len(decided))
    BY <1>1, <1>2, <1>4, <1>5 DEF EmitterOK, Done
<1>7. handed' \in Seq(Message)
    BY DEF DeliveryInv, TypeOK, ReadSuppression
<1>8. QED
    BY <1>2, <1>3, <1>4, <1>6, <1>7, GoesOn DEF ReadSuppression

LEMMA SaveIncidentStep ==
    ASSUME DeliveryInv, NEW e \in emitters, SaveIncident(e)
    PROVE  DeliveryInv'
<1> DEFINE f == [e EXCEPT !.stage = IF e.hushed THEN "finishing" ELSE "waiting"]
<1>1. e \in Emitter /\ e.stage = "saving"
    BY DEF DeliveryInv, TypeOK, SaveIncident
<1>2. /\ f \in Emitter /\ f.msg = e.msg /\ f.next = e.next /\ f.left = e.left
      /\ f.stage \in {"finishing", "waiting"}
    BY <1>1 DEF Emitter
<1>3. emitters' = (emitters \ {e}) \cup {f}
    BY DEF SaveIncident, Replace
<1> HIDE DEF f
<1>4. Coming(f) = Coming(e)
    BY <1>2 DEF Coming
<1>5. EmitterOK(e, AllNums, Freed(incidents), Boxed(outbox), Len(decided))
    BY DEF DeliveryInv, EmittersOK
<1>6. EmitterOK(f, AllNums, Freed(incidents), Boxed(outbox), Len(decided))
    BY <1>1, <1>2, <1>4, <1>5 DEF EmitterOK, Done
<1>7. handed' \in Seq(Message)
    BY DEF DeliveryInv, TypeOK, SaveIncident
<1>8. QED
    BY <1>2, <1>3, <1>4, <1>6, <1>7, GoesOn DEF SaveIncident, Persist

LEMMA StartDeliveryStep ==
    ASSUME DeliveryInv, NEW e \in emitters, StartDelivery(e)
    PROVE  DeliveryInv'
<1> DEFINE f == [e EXCEPT !.stage = "sending", !.left = Route[KindOf(e.msg)]]
<1>1. e \in Emitter /\ e.stage = "waiting" /\ round = Idle /\ e.msg \in Message
    BY DEF DeliveryInv, TypeOK, StartDelivery, DeliveryMuFree, Emitter
<1>2. EmitterOK(e, AllNums, Freed(incidents), Boxed(outbox), Len(decided))
    BY DEF DeliveryInv, EmittersOK
<1>3. KindOf(e.msg) \in Kind
    <2>1. e.msg.n \in 1 .. Len(decided)
        BY <1>2 DEF EmitterOK, Coming
    <2>2. decided[e.msg.n] \in Transition
        BY <2>1 DEF DeliveryInv, TypeOK
    <2>3. QED
        BY <2>2 DEF KindOf, Transition
<1>4. /\ Route[KindOf(e.msg)] \in Seq(Destination)
      /\ \A j, k \in DOMAIN Route[KindOf(e.msg)] :
             Route[KindOf(e.msg)][j] = Route[KindOf(e.msg)][k] => j = k
    BY <1>3, IncidentDeliveryAssumption DEF IncidentDeliveryAssumption, IsInjective
<1>5. /\ f \in Emitter /\ f.msg = e.msg /\ f.next = e.next /\ f.stage = "sending"
      /\ f.left = Route[KindOf(e.msg)]
    BY <1>1, <1>4 DEF Emitter
<1>6. emitters' = (emitters \ {e}) \cup {f}
    BY DEF StartDelivery, Replace
<1> HIDE DEF f
<1>7. Coming(f) = Coming(e)
    BY <1>5 DEF Coming
<1>8. EmitterOK(f, AllNums, Freed(incidents), Boxed(outbox), Len(decided))
    BY <1>1, <1>2, <1>4, <1>5, <1>7 DEF EmitterOK, Done
<1>9. handed' \in Seq(Message)
    BY <1>1 DEF DeliveryInv, TypeOK, StartDelivery
<1>10. QED
    BY <1>1, <1>5, <1>6, <1>7, <1>8, <1>9, GoesOn DEF StartDelivery

LEMMA EndDeliveryStep ==
    ASSUME DeliveryInv, NEW e \in emitters, EndDelivery(e)
    PROVE  DeliveryInv'
<1> DEFINE f == IF e.next = <<>> THEN [e EXCEPT !.stage = "finishing"]
                ELSE [e EXCEPT !.stage = "waiting", !.msg = Head(e.next), !.next = Tail(e.next)]
<1>1. e \in Emitter /\ e.stage = "sending" /\ e.next \in Seq(Message)
    BY DEF DeliveryInv, TypeOK, EndDelivery, Emitter
<1>2. EmitterOK(e, AllNums, Freed(incidents), Boxed(outbox), Len(decided))
    BY DEF DeliveryInv, EmittersOK
<1>3. emitters' = (emitters \ {e}) \cup {f}
    BY DEF EndDelivery, Replace
<1>4. f \in Emitter /\ f.left = e.left /\ f.stage \in {"finishing", "waiting"}
    <2>1. CASE e.next = <<>>
        BY <1>1, <2>1 DEF Emitter
    <2>2. CASE e.next # <<>>
        <3>1. Head(e.next) \in Message /\ Tail(e.next) \in Seq(Message)
            BY <1>1, <2>2
        <3>2. f = [e EXCEPT !.stage = "waiting", !.msg = Head(e.next), !.next = Tail(e.next)]
            BY <2>2
        <3> HIDE DEF f
        <3>3. QED
            BY <1>1, <3>1, <3>2 DEF Emitter
    <2>3. QED
        BY <2>1, <2>2
<1>5. Coming(f) \subseteq Coming(e)
      /\ EmitterOK(f, AllNums, Freed(incidents), Boxed(outbox), Len(decided))
    <2>1. CASE e.next = <<>>
        <3>1. f.msg = e.msg /\ f.next = e.next /\ f.stage = "finishing"
            BY <1>1, <2>1 DEF Emitter
        <3> HIDE DEF f
        <3>2. Coming(f) = Coming(e)
            BY <3>1 DEF Coming
        <3>3. QED
            BY <1>2, <1>4, <3>1, <3>2 DEF EmitterOK, Done
    <2>2. CASE e.next # <<>>
        <3>1. f.msg = Head(e.next) /\ f.next = Tail(e.next) /\ f.stage = "waiting"
            BY <1>1, <2>2 DEF Emitter
        <3> HIDE DEF f
        <3>2. /\ f.msg = e.next[1] /\ 1 \in DOMAIN e.next
              /\ \A j \in DOMAIN f.next : j + 1 \in DOMAIN e.next /\ f.next[j] = e.next[j + 1]
                                          /\ j \in Nat /\ j # 0
            BY <1>1, <2>2, <3>1
        <3>3. Coming(f) \subseteq {e.next[j] : j \in DOMAIN e.next}
            BY <3>2 DEF Coming
        <3>4. Coming(f) \subseteq Coming(e) /\ e.msg \notin Coming(f)
            BY <1>2, <3>3 DEF Coming, EmitterOK
        <3>5. \A j \in DOMAIN f.next : f.next[j].note = "released" /\ f.next[j] # f.msg
            BY <1>2, <3>2 DEF EmitterOK
        <3>6. \A j, k \in DOMAIN f.next : f.next[j] = f.next[k] => j = k
            BY <1>2, <3>2 DEF EmitterOK
        <3>7. \A d \in Destination, m \in Coming(f) : <<d, m>> \notin Boxed(outbox)
            BY <1>2, <3>4 DEF EmitterOK
        <3>8. f.msg.note = "released"
            BY <1>2, <3>2 DEF EmitterOK
        <3>9. QED
            BY <1>2, <1>4, <3>1, <3>4, <3>5, <3>6, <3>7, <3>8 DEF EmitterOK
    <2>3. QED
        BY <2>1, <2>2
<1> HIDE DEF f
<1>6. handed' \in Seq(Message) /\ f.stage # "sending"
    BY <1>4 DEF DeliveryInv, TypeOK, EndDelivery
<1>7. QED
    BY <1>3, <1>4, <1>5, <1>6, GoesOn DEF EndDelivery

\* What ends an escalation's relevance, or nothing, and takes it back.
LEMMA Cancelled ==
    ASSUME DeliveryInv, NEW i \in DOMAIN incidents, NEW new \in Incident,
           new.n = incidents[i].n, new.suppressed = incidents[i].suppressed,
           incidents' = [incidents EXCEPT ![i] = new],
           outbox' = WithoutEscalations(i), escalated' = escalated
    PROVE  /\ incidents' \in Seq(Incident) /\ outbox' \in Seq(Delivery)
           /\ escalated' \subseteq DOMAIN incidents'
           /\ Sound(incidents', outbox', escalated', Len(decided))
           /\ Nums(incidents') = Nums(incidents) /\ Freed(incidents') = Freed(incidents)
           /\ Boxed(outbox') \subseteq Boxed(outbox)
           /\ Thins(outbox', outbox) /\ NewsIn(outbox) \subseteq NewsIn(outbox')
<1> DEFINE n == incidents[i].n
           S == {k \in DOMAIN outbox : ~(/\ outbox[k].msg.note = "escalation"
                                         /\ outbox[k].msg.n = n)}
           N == Len(decided)
<1>1. /\ incidents \in Seq(Incident) /\ outbox \in Seq(Delivery)
      /\ Sound(incidents, outbox, escalated, N)
    BY DEF DeliveryInv, TypeOK
<1>2. /\ incidents' \in Seq(Incident) /\ DOMAIN incidents' = DOMAIN incidents
      /\ incidents'[i] = new /\ \A j \in DOMAIN incidents : j # i => incidents'[j] = incidents[j]
    BY <1>1
<1>3. \A j \in DOMAIN incidents : /\ incidents'[j].n = incidents[j].n
                                  /\ incidents'[j].suppressed = incidents[j].suppressed
    BY <1>2
<1>4. Nums(incidents') = Nums(incidents) /\ Freed(incidents') = Freed(incidents)
    BY <1>2, <1>3 DEF Nums, Freed
<1>5. outbox' = At(S, outbox) /\ S \in SUBSET DOMAIN outbox
    BY DEF WithoutEscalations
<1> HIDE DEF S
<1>6. outbox' \in Seq(Delivery) /\ Thins(outbox', outbox)
    BY <1>1, <1>5, AtPositions, AtThins
<1>7. \A k \in DOMAIN outbox' : \E l \in S : outbox'[k] = outbox[l]
    <2>1. /\ DOMAIN At(S, outbox) = 1 .. Cardinality(S) /\ InOrder(S) \in [1 .. Cardinality(S) -> S]
          /\ \A k \in 1 .. Cardinality(S) : At(S, outbox)[k] = outbox[InOrder(S)[k]]
        BY <1>1, <1>5, AtPositions
    <2>2. QED
        BY <1>5, <2>1
<1>8. Sound(incidents, outbox', escalated, N)
    BY <1>1, <1>6, SoundThinned
<1>9. ASSUME NEW m \in Worthy(incidents, escalated), m # n
      PROVE  m \in Worthy(incidents', escalated)
    <2>1. PICK j \in escalated : /\ incidents[j].active /\ ~ incidents[j].acked
                                 /\ ~ incidents[j].suppressed /\ incidents[j].n = m
        BY DEF Worthy
    <2>2. j \in DOMAIN incidents /\ j # i
        BY <1>1, <1>9, <2>1 DEF Sound
    <2>3. QED
        BY <1>2, <2>1, <2>2 DEF Worthy
<1>10. \A k \in DOMAIN outbox' : outbox'[k].msg.note = "escalation" => outbox'[k].msg.n # n
    BY <1>7 DEF S
<1> HIDE DEF N, n
<1>11. Sound(incidents', outbox', escalated, N)
    <2>1. /\ \A j \in DOMAIN incidents' : incidents'[j].n \in 1 .. N
          /\ \A j, k \in DOMAIN incidents' : incidents'[j].n = incidents'[k].n => j = k
          /\ escalated \subseteq DOMAIN incidents'
        BY <1>2, <1>3, <1>8 DEF Sound
    <2>2. \A k \in DOMAIN outbox' : outbox'[k].msg.note = "escalation"
                                       => outbox'[k].msg.n \in Worthy(incidents', escalated)
        BY <1>8, <1>9, <1>10 DEF Sound
    <2>3. \A k \in DOMAIN outbox' : outbox'[k].msg.note = "released"
                                       => outbox'[k].msg.n \in Freed(incidents')
        BY <1>4, <1>8 DEF Sound
    <2>4. QED
        BY <1>8, <2>1, <2>2, <2>3 DEF Sound
<1>12. escalated \subseteq DOMAIN incidents'
    BY <1>1, <1>2 DEF Sound
<1>13. NewsIn(outbox) \subseteq NewsIn(outbox')
    <2>1. /\ DOMAIN At(S, outbox) = 1 .. Cardinality(S)
          /\ \A k \in 1 .. Cardinality(S) : At(S, outbox)[k] = outbox[InOrder(S)[k]]
          /\ \A l \in S : \E k \in 1 .. Cardinality(S) : InOrder(S)[k] = l
        BY <1>1, <1>5, AtPositions
    <2>2. \A l \in S : \E k \in DOMAIN outbox' : outbox'[k] = outbox[l]
        BY <1>5, <2>1
    <2>3. \A l \in DOMAIN outbox : outbox[l].msg.note = "news" => l \in S
        BY DEF S
    <2>4. QED
        BY <2>2, <2>3 DEF NewsIn
<1>14. QED
    BY <1>2, <1>4, <1>6, <1>11, <1>12, <1>13, BoxedThinned DEF N

LEMMA LatestOpen ==
    ASSUME TypeOK, NEW c, Open(c) # {}
    PROVE  Latest(Open(c)) \in Open(c)
<1> DEFINE S == Open(c)
           f == InOrder(S)
           n == Cardinality(S)
<1>1. S \in SUBSET DOMAIN incidents /\ incidents \in Seq(Incident)
    BY DEF Open, TypeOK
<1>2. /\ f \in [1 .. n -> S] /\ n \in Nat /\ n > 0
      /\ \A j, k \in 1 .. n : j < k => f[j] < f[k]
      /\ \A i \in S : \E k \in 1 .. n : f[k] = i
    BY <1>1, AtPositions
<1>3. \A i \in S : i \in Nat
    BY <1>1
<1> HIDE DEF S, f, n
<1>4. n \in 1 .. n /\ f[n] \in S
    BY <1>2
<1>5. \A i \in S : i <= f[n]
    BY <1>2, <1>3, <1>4
<1>6. Latest(S) \in S
    BY <1>4, <1>5 DEF Latest
<1>7. QED
    BY <1>6 DEF S

LEMMA RecordIncidentStep ==
    ASSUME DeliveryInv, NEW e \in emitters, RecordIncident(e)
    PROVE  DeliveryInv'
<1> DEFINE f == [e EXCEPT !.stage = "saving"]
           N == Len(decided)
           c == decided[e.msg.n].subject
           new == [n |-> e.msg.n, active |-> TRUE, acked |-> FALSE, suppressed |-> e.hushed]
<1>1. /\ e \in Emitter /\ e.stage = "recording" /\ round = Idle /\ N \in Nat /\ e.msg \in Message
      /\ incidents \in Seq(Incident) /\ outbox \in Seq(Delivery) /\ escalated \subseteq DOMAIN incidents
      /\ Sound(incidents, outbox, escalated, N)
      /\ UNCHANGED <<status, decided, quiet, escalated, round, disk, handed, received, crashes>>
    BY DEF DeliveryInv, TypeOK, RecordIncident, DeliveryMuFree, Emitter
<1>2. f \in Emitter /\ f.msg = e.msg /\ f.next = e.next /\ f.left = e.left /\ f.stage = "saving"
    BY <1>1 DEF Emitter
<1>3. emitters' = (emitters \ {e}) \cup {f}
    BY DEF RecordIncident, Replace
<1>4. /\ EmitterOK(e, AllNums, Freed(incidents), Boxed(outbox), N)
      /\ e.msg = [n |-> e.msg.n, note |-> "news"] /\ e.msg.n \notin AllNums /\ e.msg.n \in 1 .. N
    <2>1. EmitterOK(e, AllNums, Freed(incidents), Boxed(outbox), N)
        BY DEF DeliveryInv, EmittersOK
    <2>2. e.msg.note = "news" /\ e.msg.n \notin AllNums /\ e.msg.n \in 1 .. N
        BY <1>1, <2>1 DEF EmitterOK, Coming
    <2>3. QED
        BY <1>1, <2>1, <2>2 DEF Message
<1>5. /\ incidents' \in Seq(Incident) /\ outbox' \in Seq(Delivery)
      /\ escalated' \subseteq DOMAIN incidents'
      /\ Sound(incidents', outbox', escalated', N)
      /\ Nums(incidents') \subseteq Nums(incidents) \cup {e.msg.n}
      /\ Freed(incidents) \subseteq Freed(incidents')
      /\ Boxed(outbox') \subseteq Boxed(outbox)
    <2>1. CASE Opens(decided[e.msg.n])
        <3>1. incidents' = Append(incidents, new) /\ outbox' = outbox
            BY <2>1 DEF RecordIncident
        <3>2. new \in Incident
            BY <1>1 DEF Emitter, Message, Incident
        <3>3. new.n = e.msg.n /\ new.suppressed = e.hushed
            OBVIOUS
        <3> HIDE DEF new
        <3>4. /\ incidents' \in Seq(Incident) /\ DOMAIN incidents = 1 .. Len(incidents)
              /\ DOMAIN incidents' = 1 .. Len(incidents) + 1 /\ Len(incidents) \in Nat
              /\ \A j \in DOMAIN incidents : incidents'[j] = incidents[j]
              /\ incidents'[Len(incidents) + 1] = new
            BY <1>1, <3>1, <3>2
        <3>5. \A j \in DOMAIN incidents : incidents[j].n # new.n
            BY <1>4, <3>3 DEF AllNums, Nums
        <3>6. /\ \A j \in DOMAIN incidents' : j \in DOMAIN incidents \/ incidents'[j] = new
              /\ DOMAIN incidents \subseteq DOMAIN incidents'
            BY <3>4
        <3>7. Nums(incidents') \subseteq Nums(incidents) \cup {e.msg.n}
            BY <3>3, <3>4, <3>6 DEF Nums
        <3>8. Freed(incidents) \subseteq Freed(incidents')
            BY <3>4, <3>6 DEF Freed
        <3>9. Worthy(incidents, escalated) \subseteq Worthy(incidents', escalated)
            BY <1>1, <3>4 DEF Worthy
        <3>10. Sound(incidents', outbox', escalated', N)
            <4>1. \A j \in DOMAIN incidents' : incidents'[j].n \in 1 .. N
                BY <1>1, <1>4, <3>3, <3>4, <3>6 DEF Sound
            <4>2. \A j, k \in DOMAIN incidents' : incidents'[j].n = incidents'[k].n => j = k
                BY <1>1, <3>4, <3>5, <3>6 DEF Sound
            <4>3. escalated' \subseteq DOMAIN incidents'
                BY <1>1, <3>6
            <4> HIDE DEF N
            <4>4. QED
                BY <1>1, <3>1, <3>8, <3>9, <4>1, <4>2, <4>3 DEF Sound
        <3>11. QED
            BY <1>1, <3>1, <3>4, <3>6, <3>7, <3>8, <3>10
    <2>2. CASE ~ Opens(decided[e.msg.n]) /\ Open(c) # {}
        <3> DEFINE i == Latest(Open(c))
                   shut == [incidents[i] EXCEPT !.active = FALSE]
        <3>1. incidents' = [incidents EXCEPT ![i].active = FALSE] /\ outbox' = WithoutEscalations(i)
            BY <2>2 DEF RecordIncident, Close
        <3>2. i \in DOMAIN incidents
            <4>1. i \in Open(c)
                BY <2>2, LatestOpen DEF DeliveryInv
            <4>2. QED
                BY <4>1 DEF Open
        <3> HIDE DEF i
        <3>3. incidents[i] \in Incident
            BY <1>1, <3>2
        <3>4. shut \in Incident /\ shut.n = incidents[i].n /\ shut.suppressed = incidents[i].suppressed
            BY <3>3 DEF Incident
        <3>5. incidents' = [incidents EXCEPT ![i] = shut]
            BY <3>1, <3>2
        <3> HIDE DEF shut
        <3>6. QED
            BY <1>1, <3>1, <3>2, <3>4, <3>5, Cancelled
    <2>3. CASE ~ Opens(decided[e.msg.n]) /\ Open(c) = {}
        <3>1. UNCHANGED <<incidents, outbox, escalated>>
            BY <2>3 DEF RecordIncident
        <3>2. QED
            BY <1>1, <3>1
    <2>4. QED
        BY <2>1, <2>2, <2>3
<1> HIDE DEF f
<1>6. Coming(f) = Coming(e)
    BY <1>2 DEF Coming
<1>7. EmitterOK(f, AllNums \cup Nums(incidents'), Freed(incidents'), Boxed(outbox'), N)
    <2> HIDE DEF N
    <2>1. /\ \A m \in Coming(f) : m.n \in 1 .. N
          /\ \A m \in Coming(f) : m.note = "released" => m.n \in Freed(incidents')
        BY <1>4, <1>5, <1>6 DEF EmitterOK
    <2>2. \A d \in Destination, m \in Coming(f) : <<d, m>> \notin Boxed(outbox')
        BY <1>1, <1>4, <1>5, <1>6 DEF EmitterOK, Done
    <2>3. QED
        BY <1>2, <1>4, <2>1, <2>2 DEF EmitterOK
<1>8. \A n \in Nums(incidents') \ AllNums : e.msg = [n |-> n, note |-> "news"]
    BY <1>4, <1>5 DEF AllNums
<1>9. /\ Apart(emitters')
      /\ \A g \in emitters' : EmitterOK(g, AllNums \cup Nums(incidents'), Freed(incidents'),
                                        Boxed(outbox'), Len(decided))
    BY <1>3, <1>5, <1>6, <1>7, <1>8, EmittersMove
<1>10. TypeOK'
    <2>1. emitters' \subseteq Emitter
        BY <1>2, <1>3 DEF DeliveryInv, TypeOK
    <2>2. QED
        BY <1>1, <1>5, <2>1 DEF DeliveryInv, TypeOK
<1>11. RoundOK'
    BY <1>1 DEF RoundOK
<1>12. QED
    BY <1>1, <1>5, <1>9, <1>10, <1>11, Together

\* One more delivery at the end of the outbox.
Fits(item, inc, box, esc, N) ==
    /\ item \in Delivery
    /\ item.msg.n \in 1 .. N
    /\ <<item.to, item.msg>> \notin Boxed(box)
    /\ item.msg.note = "escalation" => item.msg.n \in Worthy(inc, esc)
    /\ item.msg.note = "released" => item.msg.n \in Freed(inc)

LEMMA SoundQueued ==
    ASSUME NEW inc, NEW box, NEW esc, NEW N, NEW item, box \in Seq(Delivery),
           Sound(inc, box, esc, N), Fits(item, inc, box, esc, N)
    PROVE  /\ Sound(inc, Append(box, item), esc, N)
           /\ Boxed(Append(box, item)) = Boxed(box) \cup {<<item.to, item.msg>>}
<1> DEFINE after == Append(box, item)
<1>0. item \in Delivery
    BY DEF Fits
<1>1. /\ DOMAIN box = 1 .. Len(box) /\ DOMAIN after = 1 .. Len(box) + 1 /\ Len(box) \in Nat
      /\ \A k \in DOMAIN box : after[k] = box[k]
      /\ after[Len(box) + 1] = item
    BY <1>0
<1> HIDE DEF after
<1>2. \A k \in DOMAIN after : k \in DOMAIN box \/ (k = Len(box) + 1 /\ after[k] = item)
    BY <1>1
<1>3. DOMAIN box \subseteq DOMAIN after /\ Len(box) + 1 \in DOMAIN after
    BY <1>1
<1>4. Boxed(after) = Boxed(box) \cup {<<item.to, item.msg>>}
    BY <1>1, <1>2, <1>3 DEF Boxed
<1>5. \A k, l \in DOMAIN after : after[k].to = after[l].to /\ after[k].msg = after[l].msg => k = l
    <2>1. \A k \in DOMAIN box : ~ (box[k].to = item.to /\ box[k].msg = item.msg)
        BY DEF Boxed, Fits
    <2>2. QED
        BY <1>1, <1>2, <2>1 DEF Sound
<1>6. /\ \A k \in DOMAIN after : after[k].msg.n \in 1 .. N
      /\ \A k \in DOMAIN after : after[k].msg.note = "escalation" => after[k].msg.n \in Worthy(inc, esc)
      /\ \A k \in DOMAIN after : after[k].msg.note = "released" => after[k].msg.n \in Freed(inc)
    BY <1>1, <1>2 DEF Sound, Fits
<1>7. Sound(inc, after, esc, N)
    BY <1>5, <1>6 DEF Sound
<1>8. QED
    BY <1>4, <1>7 DEF after


LEMMA SendToNextStep ==
    ASSUME DeliveryInv, NEW e \in emitters, SendToNext(e)
    PROVE  DeliveryInv'
<1> DEFINE f == [e EXCEPT !.left = Tail(@)]
           N == Len(decided)
           d == Head(e.left)
<1>1. /\ e \in Emitter /\ e.stage = "sending" /\ e.left # <<>> /\ e.left \in Seq(Destination)
      /\ N \in Nat /\ e.msg \in Message
      /\ incidents \in Seq(Incident) /\ outbox \in Seq(Delivery) /\ escalated \subseteq DOMAIN incidents
      /\ received \in [Destination -> Seq(Message)]
      /\ Sound(incidents, outbox, escalated, N)
      /\ UNCHANGED <<status, decided, quiet, incidents, escalated, round, handed, crashes>>
    BY DEF DeliveryInv, TypeOK, SendToNext, Emitter
<1>2. /\ d \in Destination /\ Tail(e.left) \in Seq(Destination)
      /\ DOMAIN e.left = 1 .. Len(e.left) /\ 1 \in DOMAIN e.left /\ d = e.left[1]
      /\ DOMAIN Tail(e.left) = 1 .. Len(e.left) - 1
      /\ \A j \in DOMAIN Tail(e.left) : /\ Tail(e.left)[j] = e.left[j + 1]
                                        /\ j + 1 \in DOMAIN e.left /\ j \in Nat /\ j # 0
    BY <1>1
<1>3. /\ f \in Emitter /\ f.msg = e.msg /\ f.next = e.next /\ f.left = Tail(e.left)
      /\ f.stage = "sending"
    BY <1>1, <1>2 DEF Emitter
<1>4. emitters' = (emitters \ {e}) \cup {f}
    BY DEF SendToNext, Replace
<1>5. EmitterOK(e, AllNums, Freed(incidents), Boxed(outbox), N)
    BY DEF DeliveryInv, EmittersOK
<1> HIDE DEF f
<1>6. received' \in [Destination -> Seq(Message)]
    <2>1. received' = received \/ Receive(d, e.msg)
        BY DEF SendToNext, Refuse
    <2>2. ASSUME Receive(d, e.msg) PROVE received' \in [Destination -> Seq(Message)]
        <3> HIDE DEF d
        <3>1. received[d] \in Seq(Message)
            BY <1>1, <1>2
        <3>2. Append(received[d], e.msg) \in Seq(Message)
            BY <1>1, <3>1
        <3>3. QED
            BY <1>1, <2>2, <3>2 DEF Receive
    <2>3. QED
        BY <1>1, <2>1, <2>2
<1>7. /\ outbox' \in Seq(Delivery) /\ (disk' = disk \/ disk' = Snapshot')
      /\ Sound(incidents, outbox', escalated, N)
      /\ Boxed(outbox') \subseteq Boxed(outbox) \cup {<<d, e.msg>>}
    <2>1. CASE UNCHANGED <<outbox, disk>>
        BY <1>1, <2>1
    <2>2. CASE \E tried \in BOOLEAN : Queue(e, tried)
        <3>1. PICK tried \in BOOLEAN : Queue(e, tried)
            BY <2>2
        <3>2. disk' = Snapshot' \/ disk' = disk
            BY <3>1 DEF Queue, Persist
        <3>3. PICK item \in Delivery : /\ item.to = d /\ item.msg = e.msg
                                       /\ outbox' = Append(outbox, item)
            BY <1>1, <1>2, <3>1 DEF Queue, Delivery
        <3>4. e.msg \in Coming(e) /\ ~ Done(e, d)
            BY <1>1, <1>2 DEF Coming, Done
        <3>5. <<d, e.msg>> \notin Boxed(outbox)
            BY <1>2, <1>5, <3>4 DEF EmitterOK
        <3>6. /\ e.msg.n \in 1 .. N /\ e.msg.note # "escalation"
              /\ e.msg.note = "released" => e.msg.n \in Freed(incidents)
            BY <1>5, <3>4 DEF EmitterOK
        <3> HIDE DEF d, N
        <3>7. /\ Sound(incidents, outbox', escalated, N)
              /\ Boxed(outbox') = Boxed(outbox) \cup {<<d, e.msg>>}
            <4>1. Fits(item, incidents, outbox, escalated, N)
                BY <3>3, <3>5, <3>6 DEF Fits
            <4>2. outbox \in Seq(Delivery) /\ Sound(incidents, outbox, escalated, N)
                BY <1>1
            <4>3. /\ Sound(incidents, Append(outbox, item), escalated, N)
                  /\ Boxed(Append(outbox, item)) = Boxed(outbox) \cup {<<item.to, item.msg>>}
                BY <4>1, <4>2, SoundQueued
            <4>4. QED
                BY <3>3, <4>3
        <3>8. outbox' \in Seq(Delivery)
            BY <1>1, <3>3
        <3>9. QED
            BY <3>2, <3>3, <3>7, <3>8
    <2>3. UNCHANGED <<outbox, disk>> \/ Queue(e, TRUE) \/ Queue(e, FALSE)
        BY DEF SendToNext
    <2>4. QED
        BY <2>1, <2>2, <2>3
<1>8. Coming(f) = Coming(e) /\ e.msg \in Coming(e)
    BY <1>3 DEF Coming
<1>9. EmitterOK(f, AllNums, Freed(incidents), Boxed(outbox'), N)
    <2> HIDE DEF N, d
    <2>1. ASSUME NEW j \in DOMAIN f.left, NEW k \in DOMAIN f.left, f.left[j] = f.left[k] PROVE j = k
        <3>1. /\ e.left[j + 1] = e.left[k + 1] /\ j \in Nat /\ k \in Nat
              /\ j + 1 \in DOMAIN e.left /\ k + 1 \in DOMAIN e.left
            BY <1>2, <1>3, <2>1
        <3>2. j + 1 = k + 1
            BY <1>5, <3>1 DEF EmitterOK
        <3>3. QED
            BY <3>1, <3>2
    <2>2. \A j \in DOMAIN f.left : f.left[j] # d
        BY <1>2, <1>3, <1>5 DEF EmitterOK
    <2>3. Done(f, d)
        BY <1>3, <2>2 DEF Done
    <2>4. ASSUME NEW to \in Destination, NEW m \in Coming(f), <<to, m>> \in Boxed(outbox')
          PROVE  m = f.msg /\ Done(f, to)
        <3>1. CASE to = d /\ m = e.msg
            BY <1>3, <2>3, <3>1
        <3>2. CASE <<to, m>> \in Boxed(outbox)
            <4>1. m = e.msg /\ Done(e, to)
                BY <1>5, <1>8, <3>2 DEF EmitterOK
            <4>2. Done(f, to)
                BY <1>1, <1>2, <1>3, <4>1 DEF Done
            <4>3. QED
                BY <1>3, <4>1, <4>2
        <3>3. QED
            BY <1>7, <2>4, <3>1, <3>2
    <2>5. QED
        BY <1>1, <1>3, <1>5, <1>8, <2>1, <2>4 DEF EmitterOK
<1>10. AllNums \cup Nums(incidents') = AllNums /\ incidents' = incidents
    BY <1>1 DEF AllNums
<1>11. /\ Apart(emitters')
       /\ \A g \in emitters' : EmitterOK(g, AllNums \cup Nums(incidents'), Freed(incidents'),
                                         Boxed(outbox'), Len(decided))
    BY <1>4, <1>7, <1>8, <1>9, <1>10, EmittersMove
<1>12. TypeOK'
    <2>1. emitters' \subseteq Emitter
        BY <1>3, <1>4 DEF DeliveryInv, TypeOK
    <2>2. disk' \in StateFile
        BY <1>1, <1>7, Filed DEF DeliveryInv, TypeOK
    <2>3. QED
        BY <1>1, <1>6, <1>7, <2>1, <2>2 DEF DeliveryInv, TypeOK
<1>13. RoundOK'
    BY <1>1 DEF DeliveryInv, RoundOK
<1>14. QED
    BY <1>1, <1>7, <1>11, <1>12, <1>13, Together

LEMMA FinishStep ==
    ASSUME DeliveryInv, NEW e \in emitters, Finish(e)
    PROVE  DeliveryInv'
<1>1. /\ emitters' = emitters \ {e} /\ (disk' = disk \/ disk' = Snapshot')
      /\ UNCHANGED <<status, decided, quiet, incidents, outbox, escalated, round, handed, received,
                     crashes>>
    BY DEF Finish, Leave, Persist
<1>2. TypeOK'
    <2>1. disk' \in StateFile
        BY <1>1, Filed DEF DeliveryInv, TypeOK
    <2>2. emitters' \subseteq Emitter
        BY <1>1 DEF DeliveryInv, TypeOK
    <2>3. QED
        BY <1>1, <2>1, <2>2 DEF DeliveryInv, TypeOK
<1>3. /\ Apart(emitters')
      /\ \A g \in emitters' : EmitterOK(g, AllNums \cup Nums(incidents'), Freed(incidents'),
                                        Boxed(outbox'), Len(decided))
    BY <1>1, EmittersStay DEF AllNums
<1>4. RoundOK'
    BY <1>1 DEF DeliveryInv, RoundOK, Behind
<1>5. QED
    BY <1>1, <1>2, <1>3, <1>4, Together DEF DeliveryInv

-----------------------------------------------------------------------------
(* The operators' steps.                                                   *)

LEMMA ChangeSuppressionStep ==
    ASSUME DeliveryInv, ChangeSuppression
    PROVE  DeliveryInv'
<1>1. /\ quiet' \in BOOLEAN
      /\ UNCHANGED <<status, decided, emitters, incidents, outbox, escalated, round, disk, handed,
                     received, crashes>>
    BY DEF ChangeSuppression, DeliveryInv, TypeOK
<1>2. TypeOK'
    BY <1>1 DEF DeliveryInv, TypeOK
<1>3. EmittersOK'
    BY <1>1 DEF DeliveryInv, EmittersOK, AllNums
<1>4. RoundOK'
    BY <1>1 DEF DeliveryInv, RoundOK, Behind
<1>5. QED
    BY <1>1, <1>2, <1>3, <1>4 DEF DeliveryInv

LEMMA OperatorStep ==
    ASSUME DeliveryInv, NEW i \in DOMAIN incidents, Acknowledge(i) \/ Resolve(i)
    PROVE  DeliveryInv'
<1> DEFINE new == IF Acknowledge(i) THEN [incidents[i] EXCEPT !.acked = TRUE]
                                    ELSE [incidents[i] EXCEPT !.active = FALSE]
<1>1. /\ round = Idle /\ outbox' = WithoutEscalations(i) /\ (disk' = disk \/ disk' = Snapshot')
      /\ UNCHANGED <<status, decided, emitters, quiet, escalated, round, handed, received, crashes>>
    BY DEF Acknowledge, Resolve, Close, DeliveryMuFree, Persist
<1>2. incidents \in Seq(Incident) /\ incidents[i] \in Incident
    BY DEF DeliveryInv, TypeOK
<1>3. new \in Incident /\ new.n = incidents[i].n /\ new.suppressed = incidents[i].suppressed
    BY <1>2 DEF Incident
<1>4. incidents' = [incidents EXCEPT ![i] = new]
    BY <1>2 DEF Acknowledge, Resolve, Close
<1> HIDE DEF new
<1>5. /\ incidents' \in Seq(Incident) /\ outbox' \in Seq(Delivery)
      /\ escalated' \subseteq DOMAIN incidents'
      /\ Sound(incidents', outbox', escalated', Len(decided))
      /\ Nums(incidents') = Nums(incidents) /\ Freed(incidents') = Freed(incidents)
      /\ Boxed(outbox') \subseteq Boxed(outbox)
    BY <1>1, <1>3, <1>4, Cancelled
<1>6. TypeOK'
    <2>1. disk' \in StateFile
        BY <1>1, <1>5, Filed DEF DeliveryInv, TypeOK
    <2>2. QED
        BY <1>1, <1>5, <2>1 DEF DeliveryInv, TypeOK
<1>7. /\ Apart(emitters')
      /\ \A g \in emitters' : EmitterOK(g, AllNums \cup Nums(incidents'), Freed(incidents'),
                                        Boxed(outbox'), Len(decided))
    BY <1>1, <1>5, EmittersStay DEF AllNums
<1>8. RoundOK'
    BY <1>1 DEF RoundOK
<1>9. QED
    BY <1>1, <1>5, <1>6, <1>7, <1>8, Together

LEMMA ReleaseSuppressionsStep ==
    ASSUME DeliveryInv, ReleaseSuppressions
    PROVE  DeliveryInv'
<1> DEFINE N == Len(decided)
           c == Cardinality(Held)
           pos == InOrder(Held)
           rel == Released
           new == [msg |-> Head(rel), stage |-> "waiting", hushed |-> FALSE, left |-> <<>>,
                   next |-> Tail(rel)]
<1>1. /\ incidents \in Seq(Incident) /\ outbox \in Seq(Delivery) /\ N \in Nat
      /\ Sound(incidents, outbox, escalated, N)
      /\ UNCHANGED <<status, decided, quiet, outbox, escalated, round, disk, handed, received, crashes>>
    BY DEF DeliveryInv, TypeOK, ReleaseSuppressions
<1>2. /\ Held \in SUBSET DOMAIN incidents /\ Held # {}
      /\ \A i \in Held : incidents[i].suppressed
    BY DEF Held, ReleaseSuppressions
<1>3. /\ DOMAIN incidents' = DOMAIN incidents
      /\ \A i \in DOMAIN incidents :
            /\ incidents'[i] \in Incident /\ incidents'[i].n = incidents[i].n
            /\ incidents'[i].active = incidents[i].active /\ incidents'[i].acked = incidents[i].acked
            /\ ~ incidents[i].suppressed => ~ incidents'[i].suppressed
            /\ i \in Held => ~ incidents'[i].suppressed
    <2>1. incidents' = [i \in DOMAIN incidents |-> IF i \in Held
                            THEN [incidents[i] EXCEPT !.suppressed = FALSE] ELSE incidents[i]]
        BY DEF ReleaseSuppressions
    <2>2. \A i \in DOMAIN incidents : incidents[i] \in Incident
        BY <1>1
    <2>3. QED
        BY <2>1, <2>2 DEF Incident
<1>4. incidents' \in Seq(Incident)
    <2>1. incidents' \in [DOMAIN incidents -> Incident]
        BY <1>3 DEF ReleaseSuppressions
    <2>2. DOMAIN incidents = 1 .. Len(incidents) /\ Len(incidents) \in Nat
        BY <1>1
    <2>3. QED
        BY <2>1, <2>2
<1>5. /\ Nums(incidents') = Nums(incidents) /\ Freed(incidents) \subseteq Freed(incidents')
      /\ \A i \in Held : incidents[i].n \in Freed(incidents') /\ incidents[i].n \notin Freed(incidents)
    <2>1. \A i, j \in DOMAIN incidents : incidents[i].n = incidents[j].n => i = j
        BY <1>1 DEF Sound
    <2>2. QED
        BY <1>2, <1>3, <2>1 DEF Nums, Freed
<1>6. Sound(incidents', outbox, escalated, N)
    <2>1. Worthy(incidents, escalated) \subseteq Worthy(incidents', escalated)
        <3>1. escalated \subseteq DOMAIN incidents
            BY <1>1 DEF Sound
        <3>2. QED
            BY <1>3, <3>1 DEF Worthy
    <2> HIDE DEF N
    <2>2. QED
        BY <1>1, <1>3, <1>5, <2>1 DEF Sound
<1>7. /\ c \in Nat /\ c > 0 /\ pos \in [1 .. c -> Held]
      /\ \A j, k \in 1 .. c : j < k => pos[j] < pos[k]
      /\ \A k \in 1 .. c : rel[k] = [n |-> incidents[pos[k]].n, note |-> "released"]
      /\ rel \in Seq(Message) /\ Len(rel) = c
    <2>1. /\ c \in Nat /\ pos \in [1 .. c -> Held] /\ c > 0
          /\ \A k \in 1 .. c : At(Held, incidents)[k] = incidents[pos[k]]
          /\ \A j, k \in 1 .. c : j < k => pos[j] < pos[k]
        BY <1>1, <1>2, AtPositions
    <2>2. rel = [k \in 1 .. c |-> [n |-> At(Held, incidents)[k].n, note |-> "released"]]
        BY DEF Released
    <2> HIDE DEF rel, c, pos
    <2>3. \A k \in 1 .. c : rel[k] = [n |-> incidents[pos[k]].n, note |-> "released"]
        BY <2>1, <2>2
    <2>4. \A k \in 1 .. c : rel[k] \in Message
        <3>1. \A i \in Held : incidents[i].n \in Transitions
            <4>1. \A i \in Held : incidents[i] \in Incident
                BY <1>1, <1>2
            <4>2. QED
                BY <4>1 DEF Incident
        <3>2. \A k \in 1 .. c : incidents[pos[k]].n \in Transitions
            BY <2>1, <3>1
        <3>3. \A n \in Transitions : [n |-> n, note |-> "released"] \in Message
            BY DEF Message, Note
        <3>4. QED
            BY <2>3, <3>2, <3>3
    <2>5. rel \in [1 .. c -> Message]
        BY <2>2, <2>4
    <2>6. rel \in Seq(Message) /\ Len(rel) = c
        BY <2>1, <2>5
    <2>7. QED
        BY <2>1, <2>3, <2>6
<1> HIDE DEF rel, c, pos
<1>8. \A j, k \in 1 .. c : rel[j] = rel[k] => j = k
    <2> SUFFICES ASSUME NEW j \in 1 .. c, NEW k \in 1 .. c, rel[j] = rel[k] PROVE j = k
        OBVIOUS
    <2>1. pos[j] \in Held /\ pos[k] \in Held /\ pos[j] \in Nat /\ pos[k] \in Nat
        BY <1>1, <1>2, <1>7
    <2>2. incidents[pos[j]].n = incidents[pos[k]].n
        BY <1>7
    <2>3. pos[j] = pos[k]
        BY <1>1, <1>2, <2>1, <2>2 DEF Sound
    <2>4. j < k \/ j = k \/ k < j
        BY <1>7
    <2>5. QED
        BY <1>7, <2>1, <2>3, <2>4
<1>9. \A k \in 1 .. c : /\ rel[k].n \in 1 .. N /\ rel[k].note = "released"
                        /\ rel[k].n \in Freed(incidents') /\ rel[k].n \notin Freed(incidents)
    <2> SUFFICES ASSUME NEW k \in 1 .. c
                 PROVE  /\ rel[k].n \in 1 .. N /\ rel[k].note = "released"
                        /\ rel[k].n \in Freed(incidents') /\ rel[k].n \notin Freed(incidents)
        OBVIOUS
    <2>1. pos[k] \in Held /\ rel[k].n = incidents[pos[k]].n /\ rel[k].note = "released"
        BY <1>7
    <2>2. QED
        BY <1>1, <1>2, <1>5, <2>1 DEF Sound
<1>10. /\ new \in Emitter /\ new.msg = rel[1] /\ new.stage = "waiting" /\ new.left = <<>>
       /\ new.next = Tail(rel) /\ 1 \in 1 .. c
       /\ \A j \in DOMAIN new.next : new.next[j] = rel[j + 1] /\ j + 1 \in 1 .. c /\ j \in Nat /\ j # 0
    <2>1. rel # <<>> /\ Head(rel) = rel[1] /\ rel[1] \in Message /\ Tail(rel) \in Seq(Message)
        BY <1>7
    <2>2. \A j \in DOMAIN Tail(rel) : Tail(rel)[j] = rel[j + 1] /\ j + 1 \in 1 .. c /\ j \in Nat /\ j # 0
        BY <1>7, <2>1
    <2>3. QED
        BY <1>7, <2>1, <2>2 DEF Emitter
<1>11. emitters' = emitters \cup {new}
    BY DEF ReleaseSuppressions, rel
<1> HIDE DEF new
<1>12. \A m \in Coming(new) : \E k \in 1 .. c : m = rel[k]
    BY <1>10 DEF Coming
<1>13. /\ \A m \in Coming(new) : /\ m.n \in 1 .. N /\ m.note = "released"
                                 /\ m.n \in Freed(incidents') /\ m.n \notin Freed(incidents)
       /\ new.msg.note = "released"
    BY <1>9, <1>10, <1>12
<1>14. EmitterOK(new, AllNums \cup Nums(incidents'), Freed(incidents'), Boxed(outbox'), N)
    <2>1. \A d \in Destination, m \in Coming(new) : <<d, m>> \notin Boxed(outbox')
        BY <1>1, <1>13 DEF Sound, Boxed
    <2>2. \A j \in DOMAIN new.next : new.next[j].note = "released" /\ new.next[j] # new.msg
        <3> SUFFICES ASSUME NEW j \in DOMAIN new.next
                     PROVE  new.next[j].note = "released" /\ new.next[j] # new.msg
            OBVIOUS
        <3>1. new.next[j] = rel[j + 1] /\ j + 1 \in 1 .. c /\ j + 1 # 1
            BY <1>10
        <3>2. QED
            BY <1>8, <1>9, <1>10, <3>1
    <2>3. ASSUME NEW j \in DOMAIN new.next, NEW k \in DOMAIN new.next, new.next[j] = new.next[k]
          PROVE  j = k
        <3>1. j + 1 = k + 1
            BY <1>8, <1>10, <2>3
        <3>2. QED
            BY <1>10, <3>1
    <2> HIDE DEF N
    <2>4. QED
        BY <1>10, <1>13, <2>1, <2>2, <2>3 DEF EmitterOK
<1>15. ASSUME NEW e \in emitters
       PROVE  /\ EmitterOK(e, AllNums \cup Nums(incidents'), Freed(incidents'), Boxed(outbox'), N)
              /\ Coming(e) \cap Coming(new) = {}
    <2>1. EmitterOK(e, AllNums, Freed(incidents), Boxed(outbox), N)
        BY DEF DeliveryInv, EmittersOK
    <2>2. e.msg \in Message
        BY DEF DeliveryInv, TypeOK, Emitter
    <2>3. AllNums \cup Nums(incidents') = AllNums
        BY <1>5 DEF AllNums
    <2>4. EmitterOK(e, AllNums, Freed(incidents'), Boxed(outbox'), N)
        BY <1>1, <1>5, <2>1, <2>2, EmitterKeeps
    <2>5. \A m \in Coming(e) : m.note = "released" => m.n \in Freed(incidents)
        BY <2>1 DEF EmitterOK
    <2>6. QED
        BY <1>13, <2>3, <2>4, <2>5
<1>16. Apart(emitters')
    BY <1>11, <1>15 DEF DeliveryInv, EmittersOK, Apart
<1>17. TypeOK'
    <2>1. emitters' \subseteq Emitter
        BY <1>10, <1>11 DEF DeliveryInv, TypeOK
    <2>2. escalated' \subseteq DOMAIN incidents'
        BY <1>1, <1>3 DEF Sound
    <2>3. QED
        BY <1>1, <1>4, <2>1, <2>2 DEF DeliveryInv, TypeOK
<1>18. RoundOK'
    BY <1>1, <1>10, <1>11 DEF DeliveryInv, RoundOK, Behind
<1>19. Sound(incidents', outbox', escalated', Len(decided))
    BY <1>1, <1>6
<1>20. \A e \in emitters' : EmitterOK(e, AllNums \cup Nums(incidents'), Freed(incidents'),
                                      Boxed(outbox'), Len(decided))
    BY <1>11, <1>14, <1>15
<1>21. QED
    BY <1>1, <1>16, <1>17, <1>18, <1>19, <1>20, Together

-----------------------------------------------------------------------------
(* The round's steps.                                                      *)

LEMMA StartRoundStep ==
    ASSUME DeliveryInv, StartRound
    PROVE  DeliveryInv'
<1> DEFINE N == Len(decided)
<1>1. PICK due \in SUBSET Escalatable :
          /\ escalated' = escalated \cup due
          /\ outbox' = outbox \o Escalations(due)
          /\ disk' = disk \/ disk' = Snapshot'
    BY DEF StartRound, Persist
<1> DEFINE c == Cardinality(due)
           pos == InOrder(due)
           esc == Escalations(due)
<1>2. /\ round = Idle /\ (\A e \in emitters : e.stage # "sending")
      /\ round' = [stage |-> "next", items |-> outbox', blocked |-> {}]
      /\ UNCHANGED <<status, decided, emitters, quiet, incidents, handed, received, crashes>>
    BY DEF StartRound, DeliveryMuFree
<1>3. /\ incidents \in Seq(Incident) /\ outbox \in Seq(Delivery) /\ N \in Nat
      /\ Sound(incidents, outbox, escalated, N)
    BY DEF DeliveryInv, TypeOK
<1>4. /\ due \in SUBSET DOMAIN incidents /\ due \cap escalated = {}
      /\ \A i \in due : incidents[i].active /\ ~ incidents[i].acked /\ ~ incidents[i].suppressed
    BY DEF Escalatable, PageWorthy
<1>5. /\ c \in Nat /\ pos \in [1 .. c -> due]
      /\ \A j, k \in 1 .. c : j < k => pos[j] < pos[k]
      /\ esc \in Seq(Delivery) /\ Len(esc) = c
      /\ \A k \in 1 .. c : /\ esc[k].msg.n = incidents[pos[k]].n
                           /\ esc[k].msg.note = "escalation" /\ esc[k].to = Pager
    <2>1. /\ c \in Nat /\ pos \in [1 .. c -> due]
          /\ \A k \in 1 .. c : At(due, incidents)[k] = incidents[pos[k]]
          /\ \A j, k \in 1 .. c : j < k => pos[j] < pos[k]
        BY <1>3, <1>4, AtPositions
    <2>2. esc = [k \in 1 .. c |->
                    [to |-> Pager, tried |-> FALSE,
                     msg |-> [n |-> At(due, incidents)[k].n, note |-> "escalation"]]]
        BY DEF Escalations
    <2> HIDE DEF esc, c, pos
    <2>3. \A k \in 1 .. c : /\ esc[k].msg.n = incidents[pos[k]].n
                            /\ esc[k].msg.note = "escalation" /\ esc[k].to = Pager
        BY <2>1, <2>2
    <2>4. \A n \in Transitions : [to |-> Pager, tried |-> FALSE,
                                  msg |-> [n |-> n, note |-> "escalation"]] \in Delivery
        BY IncidentDeliveryAssumption DEF Delivery, Message, Note, IncidentDeliveryAssumption
    <2>5. \A i \in due : incidents[i].n \in Transitions
        <3>1. \A i \in due : incidents[i] \in Incident
            BY <1>3, <1>4
        <3>2. QED
            BY <3>1 DEF Incident
    <2>6. \A k \in 1 .. c : At(due, incidents)[k].n \in Transitions
        BY <2>1, <2>5
    <2>7. esc \in [1 .. c -> Delivery]
        BY <2>2, <2>4, <2>6
    <2>8. esc \in Seq(Delivery) /\ Len(esc) = c
        BY <2>1, <2>7
    <2>9. QED
        BY <2>1, <2>3, <2>8
<1> HIDE DEF esc, c, pos
<1>6. /\ outbox' \in Seq(Delivery)
      /\ \A k \in DOMAIN outbox' :
            \/ k \in DOMAIN outbox /\ outbox'[k] = outbox[k]
            \/ k - Len(outbox) \in 1 .. c /\ outbox'[k] = esc[k - Len(outbox)]
    <2>1. outbox' = outbox \o esc
        BY <1>1 DEF esc
    <2>2. /\ outbox \o esc \in Seq(Delivery) /\ Len(outbox \o esc) = Len(outbox) + c
          /\ \A k \in 1 .. Len(outbox) + c :
                (outbox \o esc)[k] = IF k <= Len(outbox) THEN outbox[k] ELSE esc[k - Len(outbox)]
        BY <1>3, <1>5, ConcatProperties
    <2>3. /\ outbox' \in Seq(Delivery) /\ DOMAIN outbox' = 1 .. Len(outbox) + c
          /\ \A k \in 1 .. Len(outbox) + c :
                outbox'[k] = IF k <= Len(outbox) THEN outbox[k] ELSE esc[k - Len(outbox)]
        <3>1. DOMAIN outbox' = 1 .. Len(outbox')
            BY <2>1, <2>2
        <3>2. QED
            BY <2>1, <2>2, <3>1
    <2>4. Len(outbox) \in Nat /\ DOMAIN outbox = 1 .. Len(outbox)
        BY <1>3
    <2>5. QED
        BY <1>5, <2>3, <2>4
<1>7. \A k \in 1 .. c : /\ pos[k] \in due /\ esc[k].msg.n = incidents[pos[k]].n
                        /\ esc[k].msg.note = "escalation" /\ esc[k].to = Pager
    <2>1. \A k \in 1 .. c : pos[k] \in due
        BY <1>5
    <2>2. QED
        BY <1>5, <2>1
<1>8. \A j, k \in 1 .. c : esc[j].msg = esc[k].msg => j = k
    <2> SUFFICES ASSUME NEW j \in 1 .. c, NEW k \in 1 .. c, esc[j].msg = esc[k].msg PROVE j = k
        OBVIOUS
    <2>1. incidents[pos[j]].n = incidents[pos[k]].n
        BY <1>7
    <2>2. pos[j] = pos[k] /\ pos[j] \in Nat /\ pos[k] \in Nat
        BY <1>3, <1>4, <1>7, <2>1 DEF Sound
    <2>3. j < k \/ j = k \/ k < j
        BY <1>5
    <2>4. QED
        BY <1>5, <2>2, <2>3
<1>9. \A k \in 1 .. c, l \in DOMAIN outbox : esc[k].msg # outbox[l].msg
    <2> SUFFICES ASSUME NEW k \in 1 .. c, NEW l \in DOMAIN outbox, esc[k].msg = outbox[l].msg
                 PROVE  FALSE
        OBVIOUS
    <2>1. incidents[pos[k]].n \in Worthy(incidents, escalated)
        BY <1>3, <1>7 DEF Sound
    <2>2. PICK j \in escalated : incidents[j].n = incidents[pos[k]].n
        BY <2>1 DEF Worthy
    <2>3. j \in DOMAIN incidents /\ pos[k] \in DOMAIN incidents
        BY <1>3, <1>4, <1>7 DEF Sound
    <2>4. j = pos[k]
        BY <1>3, <2>2, <2>3 DEF Sound
    <2>5. QED
        BY <1>4, <1>7, <2>4
<1>10. /\ Worthy(incidents, escalated) \subseteq Worthy(incidents, escalated')
       /\ \A i \in due : incidents[i].n \in Worthy(incidents, escalated')
    BY <1>1, <1>4 DEF Worthy
<1>11. Sound(incidents, outbox', escalated', N)
    <2> HIDE DEF N
    <2>1. escalated' \subseteq DOMAIN incidents
        BY <1>1, <1>3, <1>4 DEF Sound
    <2>2. \A k \in DOMAIN outbox' : outbox'[k].msg.n \in 1 .. N
        <3>1. \A k \in 1 .. c : esc[k].msg.n \in 1 .. N
            BY <1>3, <1>4, <1>7 DEF Sound
        <3>2. QED
            BY <1>3, <1>6, <3>1 DEF Sound
    <2>3. \A k, l \in DOMAIN outbox' :
              outbox'[k].to = outbox'[l].to /\ outbox'[k].msg = outbox'[l].msg => k = l
        <3> SUFFICES ASSUME NEW k \in DOMAIN outbox', NEW l \in DOMAIN outbox',
                            outbox'[k].to = outbox'[l].to, outbox'[k].msg = outbox'[l].msg
                     PROVE  k = l
            OBVIOUS
        <3>1. k \in Nat /\ l \in Nat /\ Len(outbox) \in Nat
            BY <1>3, <1>6
        <3>2. CASE k \in DOMAIN outbox /\ outbox'[k] = outbox[k]
            <4>1. CASE l \in DOMAIN outbox /\ outbox'[l] = outbox[l]
                BY <1>3, <3>2, <4>1 DEF Sound
            <4>2. CASE l - Len(outbox) \in 1 .. c /\ outbox'[l] = esc[l - Len(outbox)]
                BY <1>9, <3>2, <4>2
            <4>3. QED
                BY <1>6, <4>1, <4>2
        <3>3. CASE k - Len(outbox) \in 1 .. c /\ outbox'[k] = esc[k - Len(outbox)]
            <4>1. CASE l \in DOMAIN outbox /\ outbox'[l] = outbox[l]
                BY <1>9, <3>3, <4>1
            <4>2. CASE l - Len(outbox) \in 1 .. c /\ outbox'[l] = esc[l - Len(outbox)]
                <5>1. k - Len(outbox) = l - Len(outbox)
                    BY <1>8, <3>3, <4>2
                <5>2. QED
                    BY <3>1, <5>1
            <4>3. QED
                BY <1>6, <4>1, <4>2
        <3>4. QED
            BY <1>6, <3>2, <3>3
    <2>4. \A k \in DOMAIN outbox' :
              outbox'[k].msg.note = "escalation" => outbox'[k].msg.n \in Worthy(incidents, escalated')
        <3>1. \A k \in 1 .. c : esc[k].msg.n \in Worthy(incidents, escalated')
            BY <1>7, <1>10
        <3>2. QED
            BY <1>3, <1>6, <1>10, <3>1 DEF Sound
    <2>5. \A k \in DOMAIN outbox' :
              outbox'[k].msg.note = "released" => outbox'[k].msg.n \in Freed(incidents)
        BY <1>3, <1>6, <1>7 DEF Sound
    <2>6. QED
        BY <1>3, <2>1, <2>2, <2>3, <2>4, <2>5 DEF Sound
<1>12. \A d \in Destination, m \in Message :
          <<d, m>> \in Boxed(outbox') => <<d, m>> \in Boxed(outbox) \/ m.note = "escalation"
    BY <1>6, <1>7 DEF Boxed
<1>13. /\ Apart(emitters')
       /\ \A g \in emitters' : EmitterOK(g, AllNums \cup Nums(incidents'), Freed(incidents'),
                                         Boxed(outbox'), Len(decided))
    BY <1>2, <1>12, EmittersStay DEF AllNums
<1>14. TypeOK'
    <2>1. round' \in Round
        BY <1>2, <1>6 DEF Round
    <2>2. escalated' \subseteq DOMAIN incidents'
        BY <1>2, <1>11 DEF Sound
    <2>3. disk' \in StateFile
        BY <1>1, <1>2, <1>6, <2>2, Filed DEF DeliveryInv, TypeOK
    <2>4. QED
        BY <1>2, <1>6, <2>1, <2>2, <2>3 DEF DeliveryInv, TypeOK
<1>15. RoundOK'
    <2>1. round'.items = outbox' /\ round'.stage = "next"
        BY <1>2
    <2>2. Len(outbox') \in Nat /\ DOMAIN outbox' = 1 .. Len(outbox')
        BY <1>6
    <2>3. Behind' = 0
        BY <2>1, <2>2 DEF Behind
    <2>4. \A k \in DOMAIN outbox' : 0 + k = k
        BY <2>2
    <2>5. 1 .. 0 = {}
        OBVIOUS
    <2>6. QED
        BY <1>2, <2>1, <2>2, <2>3, <2>4, <2>5 DEF RoundOK
<1>16. Sound(incidents', outbox', escalated', Len(decided))
    BY <1>2, <1>11
<1>17. QED
    BY <1>1, <1>2, <1>13, <1>14, <1>15, <1>16, Together

\* Places in an outbox of l items, when a round has the last t of them left.
LEMMA Places ==
    ASSUME NEW l \in Nat, NEW t \in Nat, NEW b \in Nat, b = l - t
    PROVE  /\ l - (t - 1) = b + 1 /\ (l - 1) - (t - 1) = b
           /\ \A k \in Nat : (b + 1) + k = b + (k + 1)
           /\ \A k \in 1 .. t - 1 : /\ b + k \in b + 1 .. l - 1 /\ (b + k) + 1 = b + (k + 1)
                                    /\ b + (k + 1) \in 1 .. l
OBVIOUS

\* The item that a round is at, and where it is in the outbox.
LEMMA TheItem ==
    ASSUME DeliveryInv, NEW stage \in {"next", "trying", "sent", "refused"}, AtItem(stage)
    PROVE  /\ round # Idle /\ round.stage = stage /\ Item \in Delivery /\ Item = round.items[1]
           /\ round.items \in Seq(Delivery) /\ round.blocked \in SUBSET Destination
           /\ round = [stage |-> stage, items |-> round.items, blocked |-> round.blocked]
           /\ Tail(round.items) \in Seq(Delivery) /\ Len(Tail(round.items)) = Len(round.items) - 1
           /\ \A k \in DOMAIN Tail(round.items) : /\ k \in Nat /\ k + 1 \in DOMAIN round.items
                                                  /\ Tail(round.items)[k] = round.items[k + 1]
           /\ Len(round.items) \in Nat /\ Len(round.items) >= 1
           /\ Behind \in Nat /\ Behind + 1 \in DOMAIN outbox
           /\ outbox[Behind + 1].to = Item.to /\ outbox[Behind + 1].msg = Item.msg
           /\ PositionOf(Item) = Behind + 1
<1>1. round # Idle /\ round.stage = stage /\ round.items # <<>>
    BY DEF AtItem, Idle
<1>2. round \in [stage: {"next", "trying", "sent", "refused"}, items: Seq(Delivery),
                 blocked: SUBSET Destination]
    BY <1>1 DEF DeliveryInv, TypeOK, Round
<1>3. /\ round.items \in Seq(Delivery) /\ round.blocked \in SUBSET Destination
      /\ round = [stage |-> stage, items |-> round.items, blocked |-> round.blocked]
    BY <1>1, <1>2
<1>4. /\ Tail(round.items) \in Seq(Delivery) /\ Len(Tail(round.items)) = Len(round.items) - 1
      /\ \A k \in DOMAIN Tail(round.items) : /\ k \in Nat /\ k + 1 \in DOMAIN round.items
                                             /\ Tail(round.items)[k] = round.items[k + 1]
      /\ Item = round.items[1] /\ Item \in Delivery
      /\ Len(round.items) \in Nat /\ Len(round.items) >= 1 /\ 1 \in DOMAIN round.items
    BY <1>1, <1>3 DEF Item
<1>5. /\ Len(round.items) <= Len(outbox) /\ outbox \in Seq(Delivery)
      /\ outbox[Behind + 1].to = Item.to /\ outbox[Behind + 1].msg = Item.msg
    BY <1>1, <1>4 DEF DeliveryInv, RoundOK, TypeOK
<1>6. Behind \in Nat /\ Behind + 1 \in DOMAIN outbox
    <2>1. Len(outbox) \in Nat /\ DOMAIN outbox = 1 .. Len(outbox)
        BY <1>5
    <2>2. QED
        BY <1>4, <1>5, <2>1 DEF Behind
<1>7. \A k \in DOMAIN outbox : outbox[k].to = Item.to /\ outbox[k].msg = Item.msg => k = Behind + 1
    BY <1>5, <1>6 DEF DeliveryInv, Sound
<1>8. PositionOf(Item) = Behind + 1
    BY <1>5, <1>6, <1>7 DEF PositionOf
<1>9. QED
    BY <1>1, <1>3, <1>4, <1>5, <1>6, <1>8

LEMMA RoundGoesOn ==
    ASSUME DeliveryInv, UNCHANGED <<status, decided, emitters, quiet, incidents, escalated, handed, crashes>>,
           round' \in Round, outbox' \in Seq(Delivery), Thins(outbox', outbox),
           received' \in [Destination -> Seq(Message)], disk' = disk \/ disk' = Snapshot', RoundOK'
    PROVE  DeliveryInv'
<1>1. UNCHANGED <<status, decided, emitters, quiet, incidents, escalated, handed, crashes>>
    OBVIOUS
<1>2. TypeOK'
    <2>1. disk' \in StateFile
        BY <1>1, Filed DEF DeliveryInv, TypeOK
    <2>2. QED
        BY <1>1, <2>1 DEF DeliveryInv, TypeOK
<1>3. Sound(incidents', outbox', escalated', Len(decided))
    BY <1>1, SoundThinned DEF DeliveryInv, TypeOK
<1>4. Boxed(outbox') \subseteq Boxed(outbox)
    BY BoxedThinned
<1>5. /\ Apart(emitters')
      /\ \A g \in emitters' : EmitterOK(g, AllNums \cup Nums(incidents'), Freed(incidents'),
                                        Boxed(outbox'), Len(decided))
    BY <1>1, <1>4, EmittersStay DEF AllNums
<1>6. QED
    BY <1>1, <1>2, <1>3, <1>5, Together

\* An item is left behind, for a destination that the round serves no more.
LEMMA LeftBehind ==
    ASSUME DeliveryInv, NEW stage \in {"next", "trying", "sent", "refused"}, AtItem(stage),
           NEW b \in SUBSET Destination, Item.to \in b, round.blocked \subseteq b,
           round' = [stage |-> "next", items |-> Tail(round.items), blocked |-> b],
           emitters' = emitters, outbox' \in Seq(Delivery), Len(outbox') = Len(outbox),
           \A k \in DOMAIN outbox : outbox'[k].to = outbox[k].to /\ outbox'[k].msg = outbox[k].msg
    PROVE  round' \in Round /\ RoundOK'
<1>1. /\ round # Idle /\ Item \in Delivery
      /\ round.items \in Seq(Delivery) /\ round.blocked \in SUBSET Destination
      /\ Tail(round.items) \in Seq(Delivery) /\ Len(Tail(round.items)) = Len(round.items) - 1
      /\ \A k \in DOMAIN Tail(round.items) : /\ k \in Nat /\ k + 1 \in DOMAIN round.items
                                             /\ Tail(round.items)[k] = round.items[k + 1]
      /\ Len(round.items) \in Nat /\ Len(round.items) >= 1
      /\ Behind \in Nat /\ Behind + 1 \in DOMAIN outbox
      /\ outbox[Behind + 1].to = Item.to /\ outbox[Behind + 1].msg = Item.msg
    BY TheItem
<1>2. round' \in Round
    BY <1>1 DEF Round
<1>3. /\ round'.items = Tail(round.items) /\ round'.blocked = b /\ round'.stage = "next"
    OBVIOUS
<1>4. /\ outbox \in Seq(Delivery) /\ Len(outbox) \in Nat /\ DOMAIN outbox = 1 .. Len(outbox)
      /\ DOMAIN outbox' = DOMAIN outbox
    BY DEF DeliveryInv, TypeOK
<1>5. Behind' = Behind + 1
    <2>1. Behind = Len(outbox) - Len(round.items) /\ Behind' = Len(outbox') - Len(round'.items)
        BY DEF Behind
    <2>2. Len(outbox') = Len(outbox) /\ Len(round'.items) = Len(round.items) - 1
        BY <1>1, <1>3
    <2>3. Len(outbox) \in Nat /\ Len(round.items) \in Nat /\ Behind \in Nat
        BY <1>1, <1>4
    <2>4. Len(outbox) - (Len(round.items) - 1) = Behind + 1
        BY <2>1, <2>3, Places
    <2>5. Behind' = Len(outbox) - (Len(round.items) - 1)
        BY <2>1, <2>2, Zenon
    <2>6. QED
        BY <2>4, <2>5, Zenon
<1>6. /\ \A e \in emitters : e.stage # "sending"
      /\ Len(round.items) <= Len(outbox)
      /\ \A k \in DOMAIN round.items : /\ outbox[Behind + k].to = round.items[k].to
                                       /\ outbox[Behind + k].msg = round.items[k].msg
      /\ \A k \in 1 .. Behind : outbox[k].to \in round.blocked
    BY <1>1 DEF DeliveryInv, RoundOK
<1>7. Len(round'.items) <= Len(outbox')
    BY <1>1, <1>3, <1>4, <1>6
<1>8. Behind = Len(outbox) - Len(round.items)
    BY DEF Behind
<1>9. ASSUME NEW k \in DOMAIN round'.items
      PROVE  /\ outbox'[Behind' + k].to = round'.items[k].to
             /\ outbox'[Behind' + k].msg = round'.items[k].msg
    <2>1. k \in Nat /\ k + 1 \in DOMAIN round.items /\ Tail(round.items)[k] = round.items[k + 1]
        BY <1>1, <1>3
    <2>2. DOMAIN round.items = 1 .. Len(round.items)
        BY <1>1
    <2>3. Behind' + k = Behind + (k + 1) /\ Behind + (k + 1) \in DOMAIN outbox
        <3>1. /\ Behind \in Nat /\ Len(outbox) \in Nat /\ Len(round.items) \in Nat
              /\ DOMAIN outbox = 1 .. Len(outbox)
            BY <1>1, <1>4
        <3>2. k + 1 \in 1 .. Len(round.items)
            BY <2>1, <2>2
        <3>3. k \in 1 .. Len(round.items) - 1 /\ k \in Nat
            BY <2>1, <3>1, <3>2
        <3>4. /\ \A j \in Nat : (Behind + 1) + j = Behind + (j + 1)
              /\ \A j \in 1 .. Len(round.items) - 1 : Behind + (j + 1) \in 1 .. Len(outbox)
            BY <1>8, <3>1, Places
        <3>5. QED
            BY <1>5, <3>1, <3>3, <3>4
    <2>4. QED
        BY <1>3, <1>6, <2>1, <2>3
<1>10. \A k \in 1 .. Behind' : outbox'[k].to \in b
    <2>1. \A k \in 1 .. Behind + 1 : (k \in 1 .. Behind \/ k = Behind + 1) /\ k \in DOMAIN outbox
        BY <1>1, <1>4
    <2>2. QED
        BY <1>1, <1>5, <1>6, <2>1
<1>11. QED
    BY <1>2, <1>3, <1>6, <1>7, <1>9, <1>10 DEF RoundOK

LEMMA SkipStep ==
    ASSUME DeliveryInv, Skip
    PROVE  DeliveryInv'
<1> DEFINE b == IF Item.to \in round.blocked THEN round.blocked ELSE Block
<1>1. /\ AtItem("next")
      /\ UNCHANGED <<status, decided, emitters, quiet, incidents, outbox, escalated, disk, handed,
                     received, crashes>>
    BY DEF Skip
<1>2. /\ Item \in Delivery /\ round.blocked \in SUBSET Destination /\ round.stage = "next"
      /\ round \in [stage: {"next", "trying", "sent", "refused"}, items: Seq(Delivery),
                    blocked: SUBSET Destination]
    BY <1>1, TheItem DEF DeliveryInv, TypeOK, Round
<1>3. round' = [stage |-> "next", items |-> Tail(round.items), blocked |-> b]
    <2>1. CASE Item.to \in round.blocked
        <3>1. round' = [round EXCEPT !.items = Tail(@)]
            BY <2>1 DEF Skip
        <3>2. QED
            BY <1>2, <2>1, <3>1
    <2>2. CASE Item.to \notin round.blocked
        <3>1. round' = [round EXCEPT !.items = Tail(@), !.blocked = Block]
            BY <2>2 DEF Skip
        <3>2. QED
            BY <1>2, <2>2, <3>1
    <2>3. QED
        BY <2>1, <2>2
<1>4. b \in SUBSET Destination /\ Item.to \in b /\ round.blocked \subseteq b
    BY <1>2 DEF Block, Delivery
<1> HIDE DEF b
<1>5. outbox \in Seq(Delivery)
    BY DEF DeliveryInv, TypeOK
<1>6. round' \in Round /\ RoundOK'
    BY <1>1, <1>3, <1>4, <1>5, LeftBehind
<1>7. QED
    BY <1>1, <1>6, ThinsItself, RoundGoesOn DEF DeliveryInv, TypeOK

LEMMA SelectStep ==
    ASSUME DeliveryInv, Select
    PROVE  DeliveryInv'
<1>1. /\ AtItem("next") /\ Item.to \notin round.blocked
      /\ UNCHANGED <<status, decided, emitters, quiet, incidents, outbox, escalated, disk, handed,
                     received, crashes>>
    BY DEF Select
<1>2. /\ round # Idle /\ Item = round.items[1] /\ round.items # <<>>
      /\ round.items \in Seq(Delivery) /\ round.blocked \in SUBSET Destination
      /\ round = [stage |-> "next", items |-> round.items, blocked |-> round.blocked]
    BY <1>1, TheItem DEF AtItem
<1>3. round' = [stage |-> "trying", items |-> round.items, blocked |-> round.blocked]
    BY <1>2 DEF Select
<1>4. round' \in Round
    BY <1>2, <1>3 DEF Round
<1>5. Behind' = Behind
    BY <1>1, <1>3 DEF Behind
<1>6. RoundOK'
    BY <1>1, <1>2, <1>3, <1>5 DEF DeliveryInv, RoundOK
<1>7. QED
    BY <1>1, <1>4, <1>6, ThinsItself, RoundGoesOn DEF DeliveryInv, TypeOK

LEMMA AttemptStep ==
    ASSUME DeliveryInv, Attempt
    PROVE  DeliveryInv'
<1>1. /\ AtItem("trying")
      /\ UNCHANGED <<status, decided, emitters, quiet, incidents, outbox, escalated, disk, handed,
                     crashes>>
      /\ received' = received \/ Receive(Item.to, Item.msg)
    BY DEF Attempt, Refuse
<1>2. /\ round # Idle /\ Item = round.items[1] /\ Item \in Delivery /\ round.items # <<>>
      /\ round.items \in Seq(Delivery) /\ round.blocked \in SUBSET Destination
      /\ round = [stage |-> "trying", items |-> round.items, blocked |-> round.blocked]
    BY <1>1, TheItem DEF AtItem
<1>3. PICK stage \in {"sent", "refused"} :
          round' = [stage |-> stage, items |-> round.items, blocked |-> round.blocked]
    BY <1>2 DEF Attempt
<1>4. round' \in Round
    BY <1>2, <1>3 DEF Round
<1>5. Behind' = Behind
    BY <1>1, <1>3 DEF Behind
<1>6. RoundOK'
    BY <1>1, <1>2, <1>3, <1>5 DEF DeliveryInv, RoundOK
<1>7. received' \in [Destination -> Seq(Message)]
    <2>1. received \in [Destination -> Seq(Message)] /\ Item.to \in Destination /\ Item.msg \in Message
        BY <1>2 DEF DeliveryInv, TypeOK, Delivery
    <2>2. Append(received[Item.to], Item.msg) \in Seq(Message)
        BY <2>1
    <2>3. QED
        BY <1>1, <2>1, <2>2 DEF Receive
<1>8. QED
    BY <1>1, <1>4, <1>6, <1>7, ThinsItself, RoundGoesOn DEF DeliveryInv, TypeOK

LEMMA SettleRefusedStep ==
    ASSUME DeliveryInv, SettleRefused
    PROVE  DeliveryInv'
<1> DEFINE p == PositionOf(Item)
<1>1. /\ AtItem("refused") /\ (disk' = disk \/ disk' = Snapshot')
      /\ UNCHANGED <<status, decided, emitters, quiet, incidents, escalated, handed, received, crashes>>
      /\ outbox' = [outbox EXCEPT ![p].tried = TRUE]
    BY DEF SettleRefused, Persist
<1>2. /\ Item \in Delivery /\ round.blocked \in SUBSET Destination
      /\ round = [stage |-> "refused", items |-> round.items, blocked |-> round.blocked]
      /\ p \in DOMAIN outbox
    BY <1>1, TheItem
<1>3. round' = [stage |-> "next", items |-> Tail(round.items), blocked |-> Block]
    BY <1>2 DEF SettleRefused
<1>4. Block \in SUBSET Destination /\ Item.to \in Block /\ round.blocked \subseteq Block
    BY <1>2 DEF Block, Delivery
<1> HIDE DEF p
<1>5. /\ outbox \in Seq(Delivery) /\ \A k \in DOMAIN outbox : outbox[k] \in Delivery
    BY DEF DeliveryInv, TypeOK
<1>6. /\ outbox' \in Seq(Delivery) /\ Len(outbox') = Len(outbox)
      /\ \A k \in DOMAIN outbox : outbox'[k].to = outbox[k].to /\ outbox'[k].msg = outbox[k].msg
    <2>1. [outbox[p] EXCEPT !.tried = TRUE] \in Delivery
        BY <1>2, <1>5 DEF Delivery
    <2>2. outbox' \in Seq(Delivery) /\ Len(outbox') = Len(outbox)
        BY <1>1, <1>2, <1>5, <2>1
    <2>3. \A k \in DOMAIN outbox : outbox'[k].to = outbox[k].to /\ outbox'[k].msg = outbox[k].msg
        BY <1>1, <1>2, <1>5 DEF Delivery
    <2>4. QED
        BY <2>2, <2>3
<1>7. round' \in Round /\ RoundOK'
    BY <1>1, <1>3, <1>4, <1>6, LeftBehind
<1>8. Thins(outbox', outbox)
    BY <1>1, <1>2, <1>5, TriedThins
<1>9. received' \in [Destination -> Seq(Message)]
    BY <1>1 DEF DeliveryInv, TypeOK
<1>10. QED
    BY <1>1, <1>6, <1>7, <1>8, <1>9, RoundGoesOn

LEMMA SettleAcceptedStep ==
    ASSUME DeliveryInv, SettleAccepted
    PROVE  DeliveryInv'
<1> DEFINE p == Behind + 1
<1>1. /\ AtItem("sent") /\ (disk' = disk \/ disk' = Snapshot')
      /\ UNCHANGED <<status, decided, emitters, quiet, incidents, escalated, handed, received, crashes>>
    BY DEF SettleAccepted, Persist
<1>2. /\ round # Idle /\ round.items \in Seq(Delivery) /\ round.blocked \in SUBSET Destination
      /\ round = [stage |-> "sent", items |-> round.items, blocked |-> round.blocked]
      /\ Tail(round.items) \in Seq(Delivery) /\ Len(Tail(round.items)) = Len(round.items) - 1
      /\ \A k \in DOMAIN Tail(round.items) : /\ k \in Nat /\ k + 1 \in DOMAIN round.items
                                             /\ Tail(round.items)[k] = round.items[k + 1]
      /\ Len(round.items) \in Nat /\ Len(round.items) >= 1
      /\ Behind \in Nat /\ p \in DOMAIN outbox /\ PositionOf(Item) = p
    BY <1>1, TheItem
<1>3. round' = [stage |-> "next", items |-> Tail(round.items), blocked |-> round.blocked]
    BY <1>2 DEF SettleAccepted
<1>4. outbox' = RemoveAt(outbox, p) /\ outbox \in Seq(Delivery) /\ Len(outbox) \in Nat
    BY <1>2 DEF SettleAccepted, DeliveryInv, TypeOK
<1>5. /\ RemoveAt(outbox, p) \in Seq(Delivery) /\ Len(RemoveAt(outbox, p)) = Len(outbox) - 1
      /\ \A k \in 1 .. p - 1 : RemoveAt(outbox, p)[k] = outbox[k]
      /\ \A k \in p .. Len(outbox) - 1 : RemoveAt(outbox, p)[k] = outbox[k + 1]
      /\ Thins(RemoveAt(outbox, p), outbox)
    BY <1>2, <1>4, WithoutOne, RemoveAtThins
<1> HIDE DEF p
<1>6. /\ outbox' \in Seq(Delivery) /\ Len(outbox') = Len(outbox) - 1
      /\ \A k \in 1 .. p - 1 : outbox'[k] = outbox[k]
      /\ \A k \in p .. Len(outbox) - 1 : outbox'[k] = outbox[k + 1]
      /\ Thins(outbox', outbox)
    BY <1>4, <1>5
<1>7. round' \in Round
    BY <1>2, <1>3 DEF Round
<1>8. RoundOK'
    <2>1. /\ round'.items = Tail(round.items) /\ round'.blocked = round.blocked
          /\ round'.stage = "next"
        BY <1>3
    <2>2. Behind' = Behind /\ Behind = Len(outbox) - Len(round.items) /\ p = Behind + 1
        <3>1. Behind = Len(outbox) - Len(round.items) /\ Behind' = Len(outbox') - Len(round'.items)
            BY DEF Behind
        <3>2. Len(outbox') = Len(outbox) - 1 /\ Len(round'.items) = Len(round.items) - 1
            BY <1>2, <1>6, <2>1
        <3>3. Len(outbox) \in Nat /\ Len(round.items) \in Nat /\ Behind \in Nat
            BY <1>2, <1>4
        <3>4. (Len(outbox) - 1) - (Len(round.items) - 1) = Behind
            BY <3>1, <3>3, Places
        <3>5. QED
            BY <3>1, <3>2, <3>4, Zenon DEF p
    <2>3. /\ \A e \in emitters : e.stage # "sending"
          /\ Len(round.items) <= Len(outbox)
          /\ \A k \in DOMAIN round.items : /\ outbox[Behind + k].to = round.items[k].to
                                           /\ outbox[Behind + k].msg = round.items[k].msg
          /\ \A k \in 1 .. Behind : outbox[k].to \in round.blocked
        BY <1>2 DEF DeliveryInv, RoundOK
    <2>4. Len(round'.items) <= Len(outbox')
        BY <1>2, <1>4, <1>6, <2>1, <2>3
    <2>5. ASSUME NEW k \in DOMAIN round'.items
          PROVE  /\ outbox'[Behind' + k].to = round'.items[k].to
                 /\ outbox'[Behind' + k].msg = round'.items[k].msg
        <3>1. k \in Nat /\ k + 1 \in DOMAIN round.items /\ Tail(round.items)[k] = round.items[k + 1]
            BY <1>2, <2>1
        <3>2. DOMAIN Tail(round.items) = 1 .. Len(round.items) - 1
            BY <1>2
        <3>3. k \in 1 .. Len(round.items) - 1
            BY <2>1, <3>2
        <3>4. Behind + k \in p .. Len(outbox) - 1 /\ (Behind + k) + 1 = Behind + (k + 1)
            <4>1. Behind \in Nat /\ Len(outbox) \in Nat /\ Len(round.items) \in Nat /\ k \in Nat
                BY <1>2, <1>4, <3>1
            <4>2. \A j \in 1 .. Len(round.items) - 1 :
                      Behind + j \in Behind + 1 .. Len(outbox) - 1 /\ (Behind + j) + 1 = Behind + (j + 1)
                BY <2>2, <4>1, Places
            <4>3. QED
                BY <2>2, <3>3, <4>2, Zenon
        <3>5. outbox'[Behind + k] = outbox[Behind + (k + 1)]
            BY <1>6, <3>4
        <3>6. QED
            BY <2>1, <2>2, <2>3, <3>1, <3>5
    <2>6. \A k \in 1 .. Behind : outbox'[k].to \in round.blocked
        BY <1>2, <1>6, <2>2, <2>3
    <2>7. QED
        BY <1>1, <2>1, <2>2, <2>3, <2>4, <2>5, <2>6 DEF RoundOK
<1>9. received' \in [Destination -> Seq(Message)]
    BY <1>1 DEF DeliveryInv, TypeOK
<1>10. QED
    BY <1>1, <1>6, <1>7, <1>8, <1>9, RoundGoesOn

LEMMA EndRoundStep ==
    ASSUME DeliveryInv, EndRound
    PROVE  DeliveryInv'
<1>1. /\ round' = Idle
      /\ UNCHANGED <<status, decided, emitters, quiet, incidents, outbox, escalated, disk, handed,
                     received, crashes>>
    BY DEF EndRound
<1>2. round' \in Round /\ RoundOK'
    BY <1>1 DEF Round, RoundOK
<1>3. QED
    BY <1>1, <1>2, ThinsItself, RoundGoesOn DEF DeliveryInv, TypeOK

-----------------------------------------------------------------------------
(* The state file.                                                         *)

LEMMA PersistElsewhereStep ==
    ASSUME DeliveryInv, PersistElsewhere
    PROVE  DeliveryInv'
<1>1. /\ disk' = Snapshot'
      /\ UNCHANGED <<status, decided, emitters, quiet, incidents, outbox, escalated, round, handed,
                     received, crashes>>
    BY DEF PersistElsewhere, Snapshot
<1>2. round' \in Round /\ RoundOK'
    BY <1>1 DEF DeliveryInv, TypeOK, RoundOK, Behind
<1>3. QED
    BY <1>1, <1>2, ThinsItself, RoundGoesOn DEF DeliveryInv, TypeOK

LEMMA CrashStep ==
    ASSUME DeliveryInv, Crash
    PROVE  DeliveryInv'
<1>1. /\ status' = disk.status /\ incidents' = disk.incidents /\ outbox' = disk.outbox
      /\ escalated' = disk.escalated /\ emitters' = {} /\ round' = Idle
      /\ crashes' = crashes + 1 /\ crashes < MaxCrashes
      /\ UNCHANGED <<decided, quiet, disk, handed, received>>
    BY DEF Crash
<1>2. TypeOK'
    <2>1. disk \in StateFile /\ Sound(disk.incidents, disk.outbox, disk.escalated, Len(decided))
        BY DEF DeliveryInv, TypeOK
    <2>2. /\ status' \in [Subject -> Statuses] /\ incidents' \in Seq(Incident)
          /\ outbox' \in Seq(Delivery) /\ escalated' \subseteq DOMAIN incidents'
        BY <1>1, <2>1 DEF StateFile, Sound
    <2>3. crashes' \in 0 .. MaxCrashes
        BY <1>1, IncidentDeliveryAssumption DEF DeliveryInv, TypeOK, IncidentDeliveryAssumption
    <2>4. QED
        BY <1>1, <2>2, <2>3 DEF DeliveryInv, TypeOK, Round
<1>3. /\ Sound(incidents', outbox', escalated', Len(decided'))
      /\ Sound(disk'.incidents, disk'.outbox, disk'.escalated, Len(decided'))
    BY <1>1 DEF DeliveryInv
<1>4. EmittersOK' /\ RoundOK'
    BY <1>1 DEF EmittersOK, Apart, RoundOK
<1>5. QED
    BY <1>2, <1>3, <1>4 DEF DeliveryInv

LEMMA DeliveryStep == DeliveryInv /\ [Next]_vars => DeliveryInv'
<1> SUFFICES ASSUME DeliveryInv, [Next]_vars PROVE DeliveryInv'
    OBVIOUS
<1>1. CASE \E s \in Subject : Decide(s)
    BY <1>1, DecideStep
<1>2. CASE ChangeSuppression
    BY <1>2, ChangeSuppressionStep
<1>3. CASE \E e \in emitters : EmitterStep(e) \/ RecordIncident(e) \/ StartDelivery(e)
    BY <1>3, ReadSuppressionStep, SaveIncidentStep, SendToNextStep, EndDeliveryStep, FinishStep,
       RecordIncidentStep, StartDeliveryStep DEF EmitterStep
<1>4. CASE \E i \in DOMAIN incidents : Acknowledge(i) \/ Resolve(i)
    BY <1>4, OperatorStep
<1>5. CASE ReleaseSuppressions
    BY <1>5, ReleaseSuppressionsStep
<1>6. CASE StartRound \/ RoundStep
    BY <1>6, StartRoundStep, SkipStep, SelectStep, AttemptStep, SettleAcceptedStep,
       SettleRefusedStep, EndRoundStep DEF RoundStep
<1>7. CASE PersistElsewhere \/ Crash
    BY <1>7, PersistElsewhereStep, CrashStep
<1>8. CASE UNCHANGED vars
    <2>1. UNCHANGED <<status, decided, emitters, quiet, incidents, outbox, escalated, round, disk,
                      handed, received, crashes>>
        BY <1>8 DEF vars
    <2>2. TypeOK'
        BY <2>1 DEF DeliveryInv, TypeOK
    <2>3. EmittersOK'
        BY <2>1 DEF DeliveryInv, EmittersOK, AllNums
    <2>4. RoundOK'
        BY <2>1 DEF DeliveryInv, RoundOK, Behind
    <2>5. QED
        BY <2>1, <2>2, <2>3, <2>4 DEF DeliveryInv
<1>9. QED
    BY <1>1, <1>2, <1>3, <1>4, <1>5, <1>6, <1>7, <1>8 DEF Next

LEMMA DeliveryAlways == Spec => []DeliveryInv
BY DeliveryInit, DeliveryStep, PTL DEF Spec

-----------------------------------------------------------------------------
(* What the order of news and the state file's knowledge of it rest on.    *)

\* An alert may arrive before another, of what InDecidedOrder asks.
MayPrecede(m, later) ==
    (/\ m.note = "news" /\ later.note = "news"
     /\ decided[m.n].subject = decided[later.n].subject
     /\ decided[m.n].alone)
    => m.n <= later.n

InOrderFor(box) ==
    \A j, k \in DOMAIN box : j <= k /\ box[j].to = box[k].to => MayPrecede(box[j].msg, box[k].msg)

\* Whatever has arrived or waits may come before what is being emitted; the
\* state file, when writing it does not fail, has the news that waits and no
\* other.
OrderInv ==
    /\ \A e, f \in emitters : MayPrecede(e.msg, f.msg)
    /\ \A e \in emitters : \A k \in DOMAIN outbox : MayPrecede(outbox[k].msg, e.msg)
    /\ \A e \in emitters, d \in Destination : \A j \in DOMAIN received[d] :
          MayPrecede(received[d][j], e.msg)
    /\ InOrderFor(outbox)
    /\ \A d \in Destination : \A j \in DOMAIN received[d], k \in DOMAIN outbox :
          outbox[k].to = d => MayPrecede(received[d][j], outbox[k].msg)
    /\ \A d \in Destination : \A j, k \in DOMAIN received[d] :
          j <= k => MayPrecede(received[d][j], received[d][k])
    /\ \A d \in Destination : \A j \in DOMAIN received[d] : received[d][j].n \in 1 .. Len(decided)
    /\ ~ PersistMayFail => InOrderFor(disk.outbox) /\ NewsIn(disk.outbox) \subseteq NewsIn(outbox)

\* The alert opens an incident, and is told for the first time.
OpensAnew(m) == m.note = "news" /\ KindOf(m) \in Opening

Known(box) == \A k \in DOMAIN box : OpensAnew(box[k].msg) => box[k].msg.n \in Nums(disk.incidents)

FileInv ==
    /\ Nums(disk.incidents) \subseteq Nums(incidents)
    /\ \A e \in emitters : OpensAnew(e.msg) =>
          /\ e.stage = "saving" => e.msg.n \in Nums(incidents)
          /\ e.stage \in {"waiting", "sending"} => e.msg.n \in Nums(disk.incidents)
    /\ Known(outbox)
    /\ Known(disk.outbox)

\* What most steps are to these: the news that waits stays, in its order, or
\* thins and the state file follows; emitters of news go on.
NewsKept(p, q) ==
    \A j, k \in DOMAIN p : j <= k /\ p[j].msg.note = "news" /\ p[k].msg.note = "news" =>
        \E l, m \in DOMAIN q : /\ l <= m
                               /\ q[l].to = p[j].to /\ q[l].msg = p[j].msg
                               /\ q[m].to = p[k].to /\ q[m].msg = p[k].msg

OnItsWay(f) ==
    f.msg.note = "news" =>
        \E e \in emitters :
            /\ f.msg = e.msg
            /\ f.stage = "saving" => \/ e.stage = "saving"
                                     \/ OpensAnew(e.msg) => e.msg.n \in Nums(incidents')
            /\ f.stage \in {"waiting", "sending"} =>
                  \/ e.stage \in {"waiting", "sending"}
                  \/ e.stage = "saving" /\ (PersistMayFail \/ disk' = Snapshot')

QuietStep ==
    /\ decided' = decided
    /\ received' = received
    /\ NewsKept(outbox', outbox)
    /\ disk' = disk \/ disk' = Snapshot'
    /\ PersistMayFail \/ disk' = Snapshot' \/ NewsIn(outbox) \subseteq NewsIn(outbox')
    /\ Nums(incidents) \subseteq Nums(incidents')
    /\ \A f \in emitters' : OnItsWay(f)

LEMMA ThinsNews ==
    ASSUME NEW p \in Seq(Delivery), NEW q \in Seq(Delivery), Thins(p, q)
    PROVE  NewsKept(p, q)
<1>1. PICK f \in [DOMAIN p -> DOMAIN q] :
          /\ \A k \in DOMAIN p : p[k].to = q[f[k]].to /\ p[k].msg = q[f[k]].msg
          /\ \A j, k \in DOMAIN p : j < k => f[j] < f[k]
    BY DEF Thins
<1>2. ASSUME NEW j \in DOMAIN p, NEW k \in DOMAIN p, j <= k
      PROVE  f[j] \in DOMAIN q /\ f[k] \in DOMAIN q /\ f[j] <= f[k]
    <2>1. f[j] \in DOMAIN q /\ f[k] \in DOMAIN q /\ f[j] \in Nat /\ f[k] \in Nat
        OBVIOUS
    <2>2. j < k \/ j = k
        BY <1>2
    <2>3. QED
        BY <1>1, <2>1, <2>2
<1>3. QED
    BY <1>1, <1>2 DEF NewsKept

\* Steps that leave the alerts where they are.
LEMMA QuietRest ==
    ASSUME DeliveryInv, UNCHANGED <<decided, received, outbox>>,
           disk' = disk \/ disk' = Snapshot', Nums(incidents) \subseteq Nums(incidents'),
           \A f \in emitters' : OnItsWay(f)
    PROVE  QuietStep
<1>1. NewsKept(outbox', outbox) /\ NewsIn(outbox) \subseteq NewsIn(outbox')
    BY ThinsItself, ThinsNews DEF DeliveryInv, TypeOK
<1>2. QED
    BY <1>1 DEF QuietStep

LEMMA StaysOnItsWay == \A e \in emitters : OnItsWay(e)
BY DEF OnItsWay

LEMMA QuietEmitters ==
    ASSUME DeliveryInv, NEW e \in emitters,
           \/ ReadSuppression(e) \/ SaveIncident(e) \/ StartDelivery(e) \/ EndDelivery(e) \/ Finish(e)
    PROVE  QuietStep
<1>1. /\ UNCHANGED <<decided, received, outbox, incidents>>
      /\ disk' = disk \/ disk' = Snapshot'
      /\ SaveIncident(e) => PersistMayFail \/ disk' = Snapshot'
    BY DEF ReadSuppression, SaveIncident, StartDelivery, EndDelivery, Finish, Persist
<1>2. e \in Emitter
    BY DEF DeliveryInv, TypeOK
<1>3. CASE ReadSuppression(e)
    <2> DEFINE f == [e EXCEPT !.stage = "recording", !.hushed = quiet]
    <2>1. emitters' = (emitters \ {e}) \cup {f} /\ f.stage = "recording"
        BY <1>2, <1>3 DEF ReadSuppression, Replace, Emitter
    <2> HIDE DEF f
    <2>2. f.msg = e.msg
        BY <1>2 DEF f, Emitter
    <2>3. OnItsWay(f)
        BY <2>1, <2>2 DEF OnItsWay
    <2>4. QED
        BY <1>1, <2>1, <2>3, StaysOnItsWay, QuietRest
<1>4. CASE SaveIncident(e)
    <2> DEFINE f == [e EXCEPT !.stage = IF e.hushed THEN "finishing" ELSE "waiting"]
    <2>1. /\ emitters' = (emitters \ {e}) \cup {f} /\ f.stage \in {"finishing", "waiting"}
          /\ e.stage = "saving"
        BY <1>2, <1>4 DEF SaveIncident, Replace, Emitter
    <2> HIDE DEF f
    <2>2. f.msg = e.msg
        BY <1>2 DEF f, Emitter
    <2>3. OnItsWay(f)
        BY <1>1, <1>4, <2>1, <2>2 DEF OnItsWay
    <2>4. QED
        BY <1>1, <2>1, <2>3, StaysOnItsWay, QuietRest
<1>5. CASE StartDelivery(e)
    <2> DEFINE f == [e EXCEPT !.stage = "sending", !.left = Route[KindOf(e.msg)]]
    <2>1. emitters' = (emitters \ {e}) \cup {f} /\ f.stage = "sending" /\ e.stage = "waiting"
        BY <1>2, <1>5 DEF StartDelivery, Replace, Emitter
    <2> HIDE DEF f
    <2>2. f.msg = e.msg
        BY <1>2 DEF f, Emitter
    <2>3. OnItsWay(f)
        BY <2>1, <2>2 DEF OnItsWay
    <2>4. QED
        BY <1>1, <2>1, <2>3, StaysOnItsWay, QuietRest
<1>6. CASE EndDelivery(e)
    <2> DEFINE f == IF e.next = <<>> THEN [e EXCEPT !.stage = "finishing"]
                    ELSE [e EXCEPT !.stage = "waiting", !.msg = Head(e.next), !.next = Tail(e.next)]
    <2>1. emitters' = (emitters \ {e}) \cup {f}
        BY <1>6 DEF EndDelivery, Replace
    <2>2. OnItsWay(f)
        <3>1. CASE e.next = <<>>
            <4>1. f.msg = e.msg /\ f.stage = "finishing"
                BY <1>2, <3>1 DEF Emitter
            <4> HIDE DEF f
            <4>2. QED
                BY <4>1 DEF OnItsWay
        <3>2. CASE e.next # <<>>
            <4>1. f.msg = e.next[1] /\ 1 \in DOMAIN e.next
                BY <1>2, <3>2 DEF Emitter
            <4> HIDE DEF f
            <4>2. f.msg.note = "released"
                BY <4>1 DEF DeliveryInv, EmittersOK, EmitterOK
            <4>3. QED
                BY <4>2 DEF OnItsWay
        <3>3. QED
            BY <3>1, <3>2
    <2> HIDE DEF f
    <2>3. QED
        BY <1>1, <2>1, <2>2, StaysOnItsWay, QuietRest
<1>7. CASE Finish(e)
    <2>1. emitters' = emitters \ {e}
        BY <1>7 DEF Finish, Leave
    <2>2. QED
        BY <1>1, <2>1, StaysOnItsWay, QuietRest
<1>8. QED
    BY <1>3, <1>4, <1>5, <1>6, <1>7

LEMMA QuietRecord ==
    ASSUME DeliveryInv, NEW e \in emitters, RecordIncident(e)
    PROVE  QuietStep
<1> DEFINE f == [e EXCEPT !.stage = "saving"]
           c == decided[e.msg.n].subject
           new == [n |-> e.msg.n, active |-> TRUE, acked |-> FALSE, suppressed |-> e.hushed]
<1>1. /\ UNCHANGED <<decided, received, escalated, disk>> /\ e \in Emitter
      /\ incidents \in Seq(Incident) /\ outbox \in Seq(Delivery)
    BY DEF DeliveryInv, TypeOK, RecordIncident
<1>2. /\ emitters' = (emitters \ {e}) \cup {f} /\ f.stage = "saving" /\ f.msg = e.msg
    BY <1>1 DEF RecordIncident, Replace, Emitter
<1> HIDE DEF f
<1>3. CASE Opens(decided[e.msg.n])
    <2>1. incidents' = Append(incidents, new) /\ outbox' = outbox /\ new.n = e.msg.n
        BY <1>3 DEF RecordIncident
    <2> HIDE DEF new
    <2>2. /\ DOMAIN incidents \subseteq DOMAIN incidents' /\ Len(incidents) + 1 \in DOMAIN incidents'
          /\ \A j \in DOMAIN incidents : incidents'[j] = incidents[j]
          /\ incidents'[Len(incidents) + 1] = new
        BY <1>1, <2>1
    <2>3. Nums(incidents) \subseteq Nums(incidents') /\ e.msg.n \in Nums(incidents')
        BY <2>1, <2>2 DEF Nums
    <2>4. OnItsWay(f)
        BY <1>2, <2>3 DEF OnItsWay
    <2>5. QED
        BY <1>1, <1>2, <2>1, <2>3, <2>4, StaysOnItsWay, QuietRest
<1>4. CASE ~ Opens(decided[e.msg.n])
    <2>1. ~ OpensAnew(e.msg)
        BY <1>4 DEF Opens, OpensAnew, KindOf
    <2>2. OnItsWay(f)
        BY <1>2, <2>1 DEF OnItsWay
    <2>3. CASE Open(c) = {}
        <3>1. UNCHANGED <<incidents, outbox>>
            BY <1>4, <2>3 DEF RecordIncident
        <3>2. QED
            BY <1>1, <1>2, <2>2, <3>1, StaysOnItsWay, QuietRest
    <2>4. CASE Open(c) # {}
        <3> DEFINE i == Latest(Open(c))
                   shut == [incidents[i] EXCEPT !.active = FALSE]
        <3>1. incidents' = [incidents EXCEPT ![i].active = FALSE] /\ outbox' = WithoutEscalations(i)
            BY <1>4, <2>4 DEF RecordIncident, Close
        <3>2. i \in DOMAIN incidents
            <4>1. i \in Open(c)
                BY <2>4, LatestOpen DEF DeliveryInv
            <4>2. QED
                BY <4>1 DEF Open
        <3> HIDE DEF i
        <3>3. incidents[i] \in Incident
            BY <1>1, <3>2
        <3>4. shut \in Incident /\ shut.n = incidents[i].n /\ shut.suppressed = incidents[i].suppressed
            BY <3>3 DEF Incident
        <3>5. incidents' = [incidents EXCEPT ![i] = shut]
            BY <3>1, <3>2
        <3> HIDE DEF shut
        <3>6. /\ Nums(incidents') = Nums(incidents) /\ outbox' \in Seq(Delivery)
              /\ Thins(outbox', outbox) /\ NewsIn(outbox) \subseteq NewsIn(outbox')
            BY <1>1, <3>1, <3>2, <3>4, <3>5, Cancelled
        <3>7. NewsKept(outbox', outbox)
            BY <1>1, <3>6, ThinsNews
        <3>8. \A g \in emitters' : OnItsWay(g)
            BY <1>2, <2>2, StaysOnItsWay
        <3>9. QED
            BY <1>1, <3>6, <3>7, <3>8 DEF QuietStep
    <2>5. QED
        BY <2>3, <2>4
<1>5. QED
    BY <1>3, <1>4

LEMMA QuietOperator ==
    ASSUME DeliveryInv, NEW i \in DOMAIN incidents, Acknowledge(i) \/ Resolve(i)
    PROVE  QuietStep
<1> DEFINE new == IF Acknowledge(i) THEN [incidents[i] EXCEPT !.acked = TRUE]
                                    ELSE [incidents[i] EXCEPT !.active = FALSE]
<1>1. /\ outbox' = WithoutEscalations(i) /\ (disk' = disk \/ disk' = Snapshot')
      /\ UNCHANGED <<decided, emitters, escalated, received>>
    BY DEF Acknowledge, Resolve, Close, Persist
<1>2. incidents \in Seq(Incident) /\ incidents[i] \in Incident /\ outbox \in Seq(Delivery)
    BY DEF DeliveryInv, TypeOK
<1>3. new \in Incident /\ new.n = incidents[i].n /\ new.suppressed = incidents[i].suppressed
    BY <1>2 DEF Incident
<1>4. incidents' = [incidents EXCEPT ![i] = new]
    BY <1>2 DEF Acknowledge, Resolve, Close
<1> HIDE DEF new
<1>5. /\ Nums(incidents') = Nums(incidents) /\ outbox' \in Seq(Delivery)
      /\ Thins(outbox', outbox) /\ NewsIn(outbox) \subseteq NewsIn(outbox')
    BY <1>1, <1>3, <1>4, Cancelled
<1>6. NewsKept(outbox', outbox)
    BY <1>2, <1>5, ThinsNews
<1>7. \A f \in emitters' : OnItsWay(f)
    BY <1>1, StaysOnItsWay
<1>8. QED
    BY <1>1, <1>5, <1>6, <1>7 DEF QuietStep

LEMMA QuietRelease ==
    ASSUME DeliveryInv, ReleaseSuppressions
    PROVE  QuietStep
<1> DEFINE new == [msg |-> Head(Released), stage |-> "waiting", hushed |-> FALSE,
                   left |-> <<>>, next |-> Tail(Released)]
<1>1. /\ UNCHANGED <<decided, received, outbox, disk>> /\ incidents \in Seq(Incident)
      /\ Held # {} /\ Held \in SUBSET DOMAIN incidents
    BY DEF ReleaseSuppressions, DeliveryInv, TypeOK, Held
<1>2. Nums(incidents) \subseteq Nums(incidents')
    <2>1. incidents' = [i \in DOMAIN incidents |-> IF i \in Held
                            THEN [incidents[i] EXCEPT !.suppressed = FALSE] ELSE incidents[i]]
        BY DEF ReleaseSuppressions
    <2>2. \A i \in DOMAIN incidents : incidents[i] \in Incident
        BY <1>1
    <2>3. \A i \in DOMAIN incidents : i \in DOMAIN incidents' /\ incidents'[i].n = incidents[i].n
        BY <2>1, <2>2 DEF Incident
    <2>4. QED
        BY <2>3 DEF Nums
<1>3. emitters' = emitters \cup {new} /\ new.msg = Head(Released)
    BY DEF ReleaseSuppressions
<1> HIDE DEF new
<1>4. Head(Released).note = "released"
    <2>1. Cardinality(Held) \in Nat /\ Cardinality(Held) > 0
        BY <1>1, AtPositions
    <2>2. Released = [k \in 1 .. Cardinality(Held) |->
                         [n |-> At(Held, incidents)[k].n, note |-> "released"]]
        BY DEF Released
    <2>3. Released[1].note = "released"
        BY <2>1, <2>2
    <2>4. Head(Released) = Released[1]
        OBVIOUS
    <2>5. QED
        BY <2>3, <2>4
<1>5. OnItsWay(new)
    BY <1>3, <1>4 DEF OnItsWay
<1>6. QED
    BY <1>1, <1>2, <1>3, <1>5, StaysOnItsWay, QuietRest

LEMMA QuietStart ==
    ASSUME DeliveryInv, StartRound
    PROVE  QuietStep
<1>1. PICK due \in SUBSET Escalatable :
          /\ outbox' = outbox \o Escalations(due)
          /\ disk' = disk \/ disk' = Snapshot'
    BY DEF StartRound, Persist
<1> DEFINE c == Cardinality(due)
           esc == Escalations(due)
<1>2. /\ UNCHANGED <<decided, received, incidents, emitters>>
      /\ incidents \in Seq(Incident) /\ outbox \in Seq(Delivery)
    BY DEF StartRound, DeliveryInv, TypeOK
<1>3. due \in SUBSET DOMAIN incidents
    BY DEF Escalatable
<1>4. c \in Nat /\ Len(esc) = c /\ esc \in Seq({esc[k] : k \in 1 .. c})
      /\ \A k \in 1 .. c : esc[k].msg.note = "escalation"
    <2>1. c \in Nat
        BY <1>2, <1>3, AtPositions
    <2>2. esc = [k \in 1 .. c |->
                    [to |-> Pager, tried |-> FALSE,
                     msg |-> [n |-> At(due, incidents)[k].n, note |-> "escalation"]]]
        BY DEF Escalations
    <2> HIDE DEF esc, c
    <2>3. \A k \in 1 .. c : esc[k].msg.note = "escalation"
        BY <2>2
    <2>4. esc \in [1 .. c -> {esc[k] : k \in 1 .. c}]
        BY <2>2
    <2>5. esc \in Seq({esc[k] : k \in 1 .. c}) /\ Len(esc) = c
        BY <2>1, <2>4
    <2>6. QED
        BY <2>1, <2>3, <2>5
<1> HIDE DEF esc, c
<1>5. /\ DOMAIN outbox = 1 .. Len(outbox) /\ Len(outbox) \in Nat
      /\ DOMAIN outbox' = 1 .. Len(outbox) + c
      /\ \A k \in 1 .. Len(outbox) + c :
            outbox'[k] = IF k <= Len(outbox) THEN outbox[k] ELSE esc[k - Len(outbox)]
    <2> DEFINE X == Delivery \cup {esc[k] : k \in 1 .. c}
    <2>1. outbox \in Seq(X) /\ esc \in Seq(X)
        BY <1>2, <1>4
    <2>2. outbox' = outbox \o esc
        BY <1>1 DEF esc
    <2> HIDE DEF X
    <2>3. /\ outbox \o esc \in Seq(X) /\ Len(outbox \o esc) = Len(outbox) + c
          /\ \A k \in 1 .. Len(outbox) + c :
                (outbox \o esc)[k] = IF k <= Len(outbox) THEN outbox[k] ELSE esc[k - Len(outbox)]
        BY <1>4, <2>1, ConcatProperties
    <2>4. DOMAIN outbox' = 1 .. Len(outbox')
        BY <2>2, <2>3
    <2>5. DOMAIN outbox = 1 .. Len(outbox) /\ Len(outbox) \in Nat
        BY <1>2
    <2>6. QED
        BY <2>2, <2>3, <2>4, <2>5
<1>6. ASSUME NEW k \in DOMAIN outbox', outbox'[k].msg.note = "news"
      PROVE  k \in DOMAIN outbox /\ outbox'[k] = outbox[k]
    <2>1. CASE k <= Len(outbox)
        BY <1>5, <2>1
    <2>2. CASE ~ (k <= Len(outbox))
        <3>1. k - Len(outbox) \in 1 .. c /\ outbox'[k] = esc[k - Len(outbox)]
            BY <1>4, <1>5, <2>2
        <3>2. QED
            BY <1>4, <1>6, <3>1
    <2>3. QED
        BY <2>1, <2>2
<1>7. NewsKept(outbox', outbox)
    BY <1>6 DEF NewsKept
<1>8. NewsIn(outbox) \subseteq NewsIn(outbox')
    <2>1. \A k \in DOMAIN outbox : k \in DOMAIN outbox' /\ outbox'[k] = outbox[k]
        BY <1>4, <1>5
    <2>2. QED
        BY <2>1 DEF NewsIn
<1>9. \A f \in emitters' : OnItsWay(f)
    BY <1>2, StaysOnItsWay
<1>10. QED
    BY <1>1, <1>2, <1>7, <1>8, <1>9 DEF QuietStep

LEMMA QuietRound ==
    ASSUME DeliveryInv, Skip \/ Select \/ EndRound \/ SettleAccepted \/ SettleRefused
    PROVE  QuietStep
<1>1. UNCHANGED <<decided, received, incidents, emitters>> /\ outbox \in Seq(Delivery)
    BY DEF Skip, Select, EndRound, SettleAccepted, SettleRefused, DeliveryInv, TypeOK
<1>2. \A f \in emitters' : OnItsWay(f)
    BY <1>1, StaysOnItsWay
<1>3. CASE Skip \/ Select \/ EndRound
    <2>1. UNCHANGED <<outbox, disk>>
        BY <1>3 DEF Skip, Select, EndRound
    <2>2. QED
        BY <1>1, <1>2, <2>1, QuietRest
<1>4. CASE SettleAccepted
    <2>1. /\ AtItem("sent") /\ outbox' = RemoveAt(outbox, PositionOf(Item))
          /\ (disk' = Snapshot' \/ (PersistMayFail /\ disk' = disk))
        BY <1>4 DEF SettleAccepted, Persist
    <2>2. PositionOf(Item) \in DOMAIN outbox
        BY <2>1, TheItem
    <2>3. Thins(outbox', outbox) /\ outbox' \in Seq(Delivery)
        BY <1>1, <2>1, <2>2, RemoveAtThins, WithoutOne
    <2>4. NewsKept(outbox', outbox)
        BY <1>1, <2>3, ThinsNews
    <2>5. QED
        BY <1>1, <1>2, <2>1, <2>4 DEF QuietStep
<1>5. CASE SettleRefused
    <2>1. /\ AtItem("refused") /\ outbox' = [outbox EXCEPT ![PositionOf(Item)].tried = TRUE]
          /\ (disk' = Snapshot' \/ (PersistMayFail /\ disk' = disk))
        BY <1>5 DEF SettleRefused, Persist
    <2>2. PositionOf(Item) \in DOMAIN outbox
        BY <2>1, TheItem
    <2>3. Thins(outbox', outbox)
        BY <1>1, <2>1, <2>2, TriedThins
    <2>4. outbox' \in Seq(Delivery)
        <3>1. [outbox[PositionOf(Item)] EXCEPT !.tried = TRUE] \in Delivery
            <4>1. outbox[PositionOf(Item)] \in Delivery
                BY <1>1, <2>2
            <4>2. QED
                BY <4>1 DEF Delivery
        <3>2. QED
            BY <1>1, <2>1, <2>2, <3>1
    <2>5. NewsKept(outbox', outbox)
        BY <1>1, <2>3, <2>4, ThinsNews
    <2>6. QED
        BY <1>1, <1>2, <2>1, <2>5 DEF QuietStep
<1>6. QED
    BY <1>3, <1>4, <1>5

LEMMA QuietOrNot ==
    ASSUME DeliveryInv, [Next]_vars
    PROVE  \/ QuietStep
           \/ \E s \in Subject : Decide(s)
           \/ \E e \in emitters : SendToNext(e)
           \/ Attempt
           \/ Crash
<1>1. CASE \E e \in emitters : EmitterStep(e) \/ RecordIncident(e) \/ StartDelivery(e)
    BY <1>1, QuietEmitters, QuietRecord DEF EmitterStep
<1>2. CASE ChangeSuppression \/ UNCHANGED vars \/ PersistElsewhere
    <2>1. UNCHANGED <<decided, received, outbox, incidents, emitters, escalated, status>>
          /\ (disk' = disk \/ disk' = Snapshot)
        BY <1>2 DEF ChangeSuppression, vars, PersistElsewhere
    <2>2. disk' = disk \/ disk' = Snapshot'
        BY <2>1 DEF Snapshot
    <2>3. QED
        BY <2>1, <2>2, StaysOnItsWay, QuietRest
<1>3. CASE StartRound \/ RoundStep
    BY <1>3, QuietStart, QuietRound DEF RoundStep
<1>4. QED
    BY <1>1, <1>2, <1>3, QuietOperator, QuietRelease DEF Next

-----------------------------------------------------------------------------
(* The order of news is kept.                                              *)

LEMMA Reflexive == ASSUME NEW m \in Message PROVE MayPrecede(m, m)
<1>1. m.n \in Nat
    BY DEF Message, Transitions
<1>2. QED
    BY <1>1 DEF MayPrecede

LEMMA OrderInit == Init => OrderInv
<1> SUFFICES ASSUME Init PROVE OrderInv
    OBVIOUS
<1>1. /\ emitters = {} /\ outbox = <<>> /\ disk.outbox = <<>>
      /\ \A d \in Destination : received[d] = <<>>
    BY DEF Init, Snapshot
<1>2. QED
    BY <1>1 DEF OrderInv, InOrderFor, NewsIn

LEMMA OrderQuiet ==
    ASSUME DeliveryInv, DeliveryInv', OrderInv, QuietStep
    PROVE  OrderInv'
<1>1. /\ decided' = decided /\ received' = received
      /\ outbox \in Seq(Delivery) /\ outbox' \in Seq(Delivery)
    BY DEF QuietStep, DeliveryInv, TypeOK
<1>2. \A m, l : MayPrecede(m, l)' <=> MayPrecede(m, l)
    BY <1>1 DEF MayPrecede
<1>3. \A m, l : m.note # "news" \/ l.note # "news" => MayPrecede(m, l)
    BY DEF MayPrecede
<1>4. \A f \in emitters' : f.msg.note = "news" => \E e \in emitters : f.msg = e.msg
    BY DEF QuietStep, OnItsWay
<1>5. \A k \in DOMAIN outbox' : outbox'[k].msg.note = "news" =>
          \E l \in DOMAIN outbox : outbox[l].to = outbox'[k].to /\ outbox[l].msg = outbox'[k].msg
    <2>1. \A k \in DOMAIN outbox' : k <= k
        BY <1>1
    <2>2. QED
        BY <2>1 DEF QuietStep, NewsKept
<1>6. \A e, f \in emitters' : MayPrecede(e.msg, f.msg)
    BY <1>3, <1>4 DEF OrderInv
<1>7. \A e \in emitters' : \A k \in DOMAIN outbox' : MayPrecede(outbox'[k].msg, e.msg)
    BY <1>3, <1>4, <1>5 DEF OrderInv
<1>8. \A e \in emitters', d \in Destination : \A j \in DOMAIN received[d] :
          MayPrecede(received[d][j], e.msg)
    BY <1>3, <1>4 DEF OrderInv
<1>9. \A j, k \in DOMAIN outbox' : j <= k /\ outbox'[j].to = outbox'[k].to
                                    => MayPrecede(outbox'[j].msg, outbox'[k].msg)
    <2> SUFFICES ASSUME NEW j \in DOMAIN outbox', NEW k \in DOMAIN outbox',
                        j <= k, outbox'[j].to = outbox'[k].to
                 PROVE  MayPrecede(outbox'[j].msg, outbox'[k].msg)
        OBVIOUS
    <2>1. CASE outbox'[j].msg.note = "news" /\ outbox'[k].msg.note = "news"
        <3>1. PICK l, m \in DOMAIN outbox :
                  /\ l <= m
                  /\ outbox[l].to = outbox'[j].to /\ outbox[l].msg = outbox'[j].msg
                  /\ outbox[m].to = outbox'[k].to /\ outbox[m].msg = outbox'[k].msg
            BY <2>1 DEF QuietStep, NewsKept
        <3>2. MayPrecede(outbox[l].msg, outbox[m].msg)
            BY <3>1 DEF OrderInv, InOrderFor
        <3>3. QED
            BY <3>1, <3>2
    <2>2. QED
        BY <1>3, <2>1
<1>10. \A d \in Destination : \A j \in DOMAIN received[d], k \in DOMAIN outbox' :
          outbox'[k].to = d => MayPrecede(received[d][j], outbox'[k].msg)
    BY <1>3, <1>5 DEF OrderInv
<1>11. ~ PersistMayFail => /\ \A j, k \in DOMAIN disk'.outbox :
                                  j <= k /\ disk'.outbox[j].to = disk'.outbox[k].to
                                  => MayPrecede(disk'.outbox[j].msg, disk'.outbox[k].msg)
                           /\ NewsIn(disk'.outbox) \subseteq NewsIn(outbox')
    <2>1. CASE disk' = Snapshot'
        <3>1. disk'.outbox = outbox'
            BY <2>1 DEF Snapshot
        <3>2. QED
            BY <1>9, <3>1
    <2>2. CASE disk' = disk /\ (PersistMayFail \/ NewsIn(outbox) \subseteq NewsIn(outbox'))
        BY <2>2 DEF OrderInv, InOrderFor
    <2>3. QED
        BY <2>1, <2>2 DEF QuietStep
<1>12. \A d \in Destination : \A j, k \in DOMAIN received[d] :
           j <= k => MayPrecede(received[d][j], received[d][k])
    BY DEF OrderInv
<1>13. \A d \in Destination : \A j \in DOMAIN received[d] : received[d][j].n \in 1 .. Len(decided)
    BY DEF OrderInv
<1>14. InOrderFor(outbox)' /\ (~ PersistMayFail => InOrderFor(disk.outbox)')
    BY <1>2, <1>9, <1>11 DEF InOrderFor
<1>15. QED
    BY <1>1, <1>2, <1>6, <1>7, <1>8, <1>10, <1>11, <1>12, <1>13, <1>14 DEF OrderInv

LEMMA OrderDecide ==
    ASSUME DeliveryInv, DeliveryInv', OrderInv, NEW s \in Subject, Decide(s)
    PROVE  OrderInv'
<1> DEFINE N == Len(decided)
           alone == \A e \in emitters : e.msg.note = "news" => decided[e.msg.n].subject # s
<1>1. PICK a, new :
          /\ decided' = Append(decided, a) /\ a.subject = s /\ a.alone = alone
          /\ emitters' = emitters \cup {new}
          /\ new.msg = [n |-> N + 1, note |-> "news"]
          /\ UNCHANGED <<outbox, disk, received>>
    <2>1. PICK to \in Statuses \ {status[s]} :
             /\ decided' = Append(decided, [subject |-> s, kind |-> AlertFor(status[s], to), alone |-> alone])
             /\ emitters' = emitters \cup
                   {[msg |-> [n |-> Len(decided'), note |-> "news"], stage |-> "reading",
                     hushed |-> FALSE, left |-> <<>>, next |-> <<>>]}
             /\ UNCHANGED <<outbox, disk, received>>
        BY DEF Decide
    <2> DEFINE a == [subject |-> s, kind |-> AlertFor(status[s], to), alone |-> alone]
               new == [msg |-> [n |-> N + 1, note |-> "news"], stage |-> "reading",
                       hushed |-> FALSE, left |-> <<>>, next |-> <<>>]
    <2>2. decided' \in Seq(Transition) /\ decided \in Seq(Transition)
        BY DEF DeliveryInv, TypeOK
    <2>3. Len(decided') = N + 1
        BY <2>1, <2>2
    <2>4. /\ a.subject = s /\ a.alone = alone /\ decided' = Append(decided, a)
          /\ new.msg = [n |-> N + 1, note |-> "news"] /\ emitters' = emitters \cup {new}
        BY <2>1, <2>3
    <2>5. QED
        BY <2>1, <2>4
<1>2. /\ N \in Nat /\ decided'[N + 1] = a /\ \A n \in 1 .. N : decided'[n] = decided[n]
    <2>1. decided \in Seq(Transition)
        BY DEF DeliveryInv, TypeOK
    <2>2. QED
        BY <1>1, <2>1
<1> HIDE DEF N, alone
<1>3. /\ \A e \in emitters : e.msg.n \in 1 .. N
      /\ \A k \in DOMAIN outbox : outbox[k].msg.n \in 1 .. N
      /\ \A k \in DOMAIN disk.outbox : disk.outbox[k].msg.n \in 1 .. N
      /\ \A d \in Destination : \A j \in DOMAIN received[d] : received[d][j].n \in 1 .. N
    BY DEF DeliveryInv, EmittersOK, EmitterOK, Coming, Sound, OrderInv, N
<1>4. \A m, l : m.n \in 1 .. N /\ l.n \in 1 .. N => (MayPrecede(m, l)' <=> MayPrecede(m, l))
    BY <1>2 DEF MayPrecede
<1>5. \A m : m.n \in 1 .. N => MayPrecede(m, new.msg)'
    BY <1>1, <1>2 DEF MayPrecede
<1>6. MayPrecede(new.msg, new.msg)'
    BY <1>1, <1>2 DEF MayPrecede
<1>7. ASSUME NEW e \in emitters PROVE MayPrecede(new.msg, e.msg)'
    <2> SUFFICES ASSUME e.msg.note = "news", decided'[new.msg.n].subject = decided'[e.msg.n].subject,
                        decided'[new.msg.n].alone
                 PROVE  FALSE
        BY DEF MayPrecede
    <2>1. alone /\ decided[e.msg.n].subject = s
        <3>1. new.msg.n = N + 1 /\ decided'[e.msg.n] = decided[e.msg.n]
            <4>1. new.msg.n = N + 1
                BY <1>1
            <4>2. e.msg.n \in 1 .. N
                BY <1>3
            <4>3. QED
                BY <1>2, <4>1, <4>2
        <3>2. a.alone /\ decided[e.msg.n].subject = a.subject
            BY <1>2, <3>1
        <3>3. QED
            BY <1>1, <3>2, Zenon
    <2>2. QED
        BY <2>1 DEF alone
<1>8. \A e, f \in emitters' : MayPrecede(e.msg, f.msg)'
    <2>1. \A e, f \in emitters : MayPrecede(e.msg, f.msg)'
        BY <1>3, <1>4 DEF OrderInv
    <2>2. \A e \in emitters : MayPrecede(e.msg, new.msg)'
        BY <1>3, <1>5
    <2>3. QED
        BY <1>1, <1>6, <1>7, <2>1, <2>2
<1>9. \A e \in emitters' : \A k \in DOMAIN outbox : MayPrecede(outbox[k].msg, e.msg)'
    <2>1. \A e \in emitters : \A k \in DOMAIN outbox : MayPrecede(outbox[k].msg, e.msg)'
        BY <1>1, <1>3, <1>4 DEF OrderInv
    <2>2. \A k \in DOMAIN outbox : MayPrecede(outbox[k].msg, new.msg)'
        BY <1>1, <1>3, <1>5
    <2>3. QED
        BY <1>1, <2>1, <2>2
<1>10. \A e \in emitters', d \in Destination : \A j \in DOMAIN received[d] :
           MayPrecede(received[d][j], e.msg)'
    <2>1. \A e \in emitters, d \in Destination : \A j \in DOMAIN received[d] :
              MayPrecede(received[d][j], e.msg)'
        BY <1>1, <1>3, <1>4 DEF OrderInv
    <2>2. \A d \in Destination : \A j \in DOMAIN received[d] : MayPrecede(received[d][j], new.msg)'
        BY <1>1, <1>3, <1>5
    <2>3. QED
        BY <1>1, <2>1, <2>2
<1>11. \A j, k \in DOMAIN outbox :
           j <= k /\ outbox[j].to = outbox[k].to => MayPrecede(outbox[j].msg, outbox[k].msg)'
    BY <1>1, <1>3, <1>4 DEF OrderInv, InOrderFor
<1>12. ~ PersistMayFail => \A j, k \in DOMAIN disk.outbox :
           j <= k /\ disk.outbox[j].to = disk.outbox[k].to
           => MayPrecede(disk.outbox[j].msg, disk.outbox[k].msg)'
    BY <1>1, <1>3, <1>4 DEF OrderInv, InOrderFor
<1>13. \A d \in Destination : \A j \in DOMAIN received[d], k \in DOMAIN outbox :
           outbox[k].to = d => MayPrecede(received[d][j], outbox[k].msg)'
    BY <1>1, <1>3, <1>4 DEF OrderInv
<1>14. \A d \in Destination : \A j, k \in DOMAIN received[d] :
           j <= k => MayPrecede(received[d][j], received[d][k])'
    BY <1>1, <1>3, <1>4 DEF OrderInv
<1>15. \A d \in Destination : \A j \in DOMAIN received[d] : received[d][j].n \in 1 .. Len(decided')
    <2>1. N <= Len(decided') /\ Len(decided') \in Nat
        <3>1. decided \in Seq(Transition) /\ decided' \in Seq(Transition)
            BY DEF DeliveryInv, TypeOK
        <3>2. Len(decided') = N + 1
            BY <1>1, <3>1 DEF N
        <3>3. QED
            BY <1>2, <3>1, <3>2
    <2>2. QED
        BY <1>2, <1>3, <2>1
<1>16. InOrderFor(outbox)' /\ (~ PersistMayFail => InOrderFor(disk.outbox)')
    BY <1>1, <1>11, <1>12 DEF InOrderFor
<1>17. ~ PersistMayFail => NewsIn(disk.outbox) \subseteq NewsIn(outbox)
    BY DEF OrderInv
<1>18. QED
    BY <1>1, <1>8, <1>9, <1>10, <1>13, <1>14, <1>15, <1>16, <1>17 DEF OrderInv

LEMMA OrderCrash ==
    ASSUME DeliveryInv, DeliveryInv', OrderInv, Crash, ~ PersistMayFail
    PROVE  OrderInv'
<1>1. emitters' = {} /\ outbox' = disk.outbox /\ UNCHANGED <<decided, disk, received>>
    BY DEF Crash
<1>2. \A m, l : MayPrecede(m, l)' <=> MayPrecede(m, l)
    BY <1>1 DEF MayPrecede
<1>3. InOrderFor(disk.outbox) /\ NewsIn(disk.outbox) \subseteq NewsIn(outbox)
    BY DEF OrderInv
<1>4. \A k \in DOMAIN disk.outbox : disk.outbox[k].msg.note = "news" =>
          \E l \in DOMAIN outbox : outbox[l].to = disk.outbox[k].to /\ outbox[l].msg = disk.outbox[k].msg
    <2> SUFFICES ASSUME NEW k \in DOMAIN disk.outbox, disk.outbox[k].msg.note = "news"
                 PROVE  \E l \in DOMAIN outbox : outbox[l].to = disk.outbox[k].to
                                                 /\ outbox[l].msg = disk.outbox[k].msg
        OBVIOUS
    <2>1. <<disk.outbox[k].to, disk.outbox[k].msg>> \in NewsIn(outbox)
        BY <1>3 DEF NewsIn
    <2>2. QED
        BY <2>1 DEF NewsIn
<1>5. \A d \in Destination : \A j \in DOMAIN received[d], k \in DOMAIN disk.outbox :
          disk.outbox[k].to = d => MayPrecede(received[d][j], disk.outbox[k].msg)
    BY <1>4 DEF OrderInv, MayPrecede
<1>6. InOrderFor(outbox)' /\ InOrderFor(disk.outbox)'
    BY <1>1, <1>2, <1>3 DEF InOrderFor
<1>7. QED
    BY <1>1, <1>2, <1>5, <1>6 DEF OrderInv

\* Something arrives.
LEMMA Arrival ==
    ASSUME TypeOK, NEW to \in Destination, NEW m \in Message, Receive(to, m)
    PROVE  /\ \A d \in Destination : d # to => received'[d] = received[d]
           /\ \A j \in DOMAIN received'[to] :
                 \/ j \in DOMAIN received[to] /\ received'[to][j] = received[to][j]
                 \/ j = Len(received[to]) + 1 /\ received'[to][j] = m
           /\ Len(received[to]) \in Nat /\ DOMAIN received[to] = 1 .. Len(received[to])
           /\ Last(received'[to]) = m
<1>1. received \in [Destination -> Seq(Message)]
    BY DEF TypeOK
<1>2. received' = [received EXCEPT ![to] = Append(received[to], m)]
    BY DEF Receive
<1>3. received'[to] = Append(received[to], m) /\ \A d \in Destination : d # to => received'[d] = received[d]
    BY <1>1, <1>2
<1>4. received[to] \in Seq(Message)
    BY <1>1
<1>5. Last(Append(received[to], m)) = m
    BY <1>4 DEF Last
<1>6. QED
    BY <1>3, <1>4, <1>5

\* An alert arrives that may come after what arrived there before, before what
\* waits there and before what is being emitted.
LEMMA OrderArrival ==
    ASSUME DeliveryInv, OrderInv, UNCHANGED decided,
           NEW to \in Destination, NEW m \in Message, Receive(to, m), m.n \in 1 .. Len(decided),
           \A j \in DOMAIN received[to] : MayPrecede(received[to][j], m),
           \A k \in DOMAIN outbox' : outbox'[k].to = to => MayPrecede(m, outbox'[k].msg),
           \A e \in emitters' : MayPrecede(m, e.msg),
           \A e \in emitters' : \E f \in emitters : e.msg = f.msg,
           \A d \in Destination : \A j \in DOMAIN received[d], k \in DOMAIN outbox' :
               outbox'[k].to = d => MayPrecede(received[d][j], outbox'[k].msg)
    PROVE  /\ \A e \in emitters', d \in Destination : \A j \in DOMAIN received'[d] :
                 MayPrecede(received'[d][j], e.msg)
           /\ \A d \in Destination : \A j \in DOMAIN received'[d], k \in DOMAIN outbox' :
                 outbox'[k].to = d => MayPrecede(received'[d][j], outbox'[k].msg)
           /\ \A d \in Destination : \A j, k \in DOMAIN received'[d] :
                 j <= k => MayPrecede(received'[d][j], received'[d][k])
           /\ \A d \in Destination : \A j \in DOMAIN received'[d] : received'[d][j].n \in 1 .. Len(decided)
<1>1. /\ \A d \in Destination : d # to => received'[d] = received[d]
      /\ \A j \in DOMAIN received'[to] :
            \/ j \in DOMAIN received[to] /\ received'[to][j] = received[to][j]
            \/ j = Len(received[to]) + 1 /\ received'[to][j] = m
      /\ Len(received[to]) \in Nat /\ DOMAIN received[to] = 1 .. Len(received[to])
    BY Arrival DEF DeliveryInv
<1>2. \A d \in Destination : \A j \in DOMAIN received'[d] :
          \/ j \in DOMAIN received[d] /\ received'[d][j] = received[d][j]
          \/ d = to /\ received'[d][j] = m
    BY <1>1
<1>3. \A e \in emitters', d \in Destination : \A j \in DOMAIN received'[d] :
          MayPrecede(received'[d][j], e.msg)
    BY <1>2 DEF OrderInv
<1>4. \A d \in Destination : \A j \in DOMAIN received'[d], k \in DOMAIN outbox' :
          outbox'[k].to = d => MayPrecede(received'[d][j], outbox'[k].msg)
    BY <1>2
<1>5. ASSUME NEW d \in Destination, NEW j \in DOMAIN received'[d], NEW k \in DOMAIN received'[d], j <= k
      PROVE  MayPrecede(received'[d][j], received'[d][k])
    <2>1. CASE d # to
        BY <1>1, <1>5, <2>1 DEF OrderInv
    <2>2. CASE d = to /\ j \in DOMAIN received[to] /\ k \in DOMAIN received[to]
        <3>1. received'[d][j] = received[d][j] /\ received'[d][k] = received[d][k]
            BY <1>1, <2>2
        <3>2. QED
            BY <1>5, <2>2, <3>1 DEF OrderInv
    <2>3. CASE d = to /\ k \notin DOMAIN received[to]
        <3>1. received'[d][k] = m
            BY <1>1, <2>3
        <3>2. MayPrecede(m, m)
            BY Reflexive
        <3>3. QED
            BY <1>1, <2>3, <3>1, <3>2
    <2>4. CASE d = to /\ j \notin DOMAIN received[to] /\ k \in DOMAIN received[to]
        BY <1>1, <1>5, <2>4
    <2>5. QED
        BY <2>1, <2>2, <2>3, <2>4
<1>6. \A d \in Destination : \A j \in DOMAIN received'[d] : received'[d][j].n \in 1 .. Len(decided)
    BY <1>2 DEF OrderInv
<1>7. QED
    BY <1>3, <1>4, <1>5, <1>6

LEMMA OrderSend ==
    ASSUME DeliveryInv, DeliveryInv', OrderInv, NEW e \in emitters, SendToNext(e)
    PROVE  OrderInv'
<1> DEFINE f == [e EXCEPT !.left = Tail(@)]
           d == Head(e.left)
           m == e.msg
<1>1. /\ e \in Emitter /\ m \in Message /\ d \in Destination /\ UNCHANGED decided
      /\ outbox \in Seq(Delivery) /\ m.n \in 1 .. Len(decided)
    <2>1. e \in Emitter /\ e.left # <<>> /\ UNCHANGED decided /\ outbox \in Seq(Delivery)
        BY DEF SendToNext, DeliveryInv, TypeOK
    <2>2. m.n \in 1 .. Len(decided)
        BY DEF DeliveryInv, EmittersOK, EmitterOK, Coming
    <2>3. QED
        BY <2>1, <2>2 DEF Emitter
<1>2. emitters' = (emitters \ {e}) \cup {f} /\ f.msg = m
    BY <1>1 DEF SendToNext, Replace, Emitter
<1> HIDE DEF f, d, m
<1>3. \A g \in emitters' : \E h \in emitters : g.msg = h.msg
    BY <1>2 DEF m
<1>4. MayPrecede(m, m) /\ \A g \in emitters' : MayPrecede(m, g.msg)
    BY <1>1, <1>3, Reflexive DEF OrderInv, m
<1>5. \A k, l : MayPrecede(k, l)' <=> MayPrecede(k, l)
    BY <1>1 DEF MayPrecede
<1>6. /\ \/ UNCHANGED <<outbox, disk>>
         \/ \E item \in Delivery : /\ item.to = d /\ item.msg = m /\ outbox' = Append(outbox, item)
                                   /\ disk' = disk \/ disk' = Snapshot'
                                   /\ PersistMayFail \/ disk' = Snapshot'
      /\ received' = received \/ (Receive(d, m) /\ ~ IsPending(d))
    <2>1. UNCHANGED <<outbox, disk>> \/ Queue(e, TRUE) \/ Queue(e, FALSE)
        BY DEF SendToNext
    <2>2. received' = received \/ (Receive(d, m) /\ ~ IsPending(d))
        BY DEF SendToNext, Refuse, d, m
    <2>3. ASSUME NEW tried \in BOOLEAN, Queue(e, tried)
          PROVE  \E item \in Delivery : /\ item.to = d /\ item.msg = m /\ outbox' = Append(outbox, item)
                                        /\ disk' = disk \/ disk' = Snapshot'
                                        /\ PersistMayFail \/ disk' = Snapshot'
        <3>1. [to |-> d, msg |-> m, tried |-> tried] \in Delivery
            BY <1>1 DEF Delivery
        <3>2. outbox' = Append(outbox, [to |-> d, msg |-> m, tried |-> tried])
            BY <2>3 DEF Queue, d, m
        <3>3. disk' = Snapshot' \/ (PersistMayFail /\ disk' = disk)
            BY <2>3 DEF Queue, Persist
        <3>4. QED
            BY <3>1, <3>2, <3>3
    <2>4. QED
        BY <2>1, <2>2, <2>3
<1>7. /\ Len(outbox) \in Nat /\ DOMAIN outbox = 1 .. Len(outbox)
      /\ \A k \in DOMAIN outbox' :
            \/ k \in DOMAIN outbox /\ outbox'[k] = outbox[k]
            \/ k = Len(outbox) + 1 /\ outbox'[k].to = d /\ outbox'[k].msg = m
    BY <1>1, <1>6
<1>8. \A g, h \in emitters' : MayPrecede(g.msg, h.msg)
    BY <1>3 DEF OrderInv
<1>9. \A g \in emitters' : \A k \in DOMAIN outbox' : MayPrecede(outbox'[k].msg, g.msg)
    BY <1>3, <1>4, <1>7 DEF OrderInv
<1>10. \A k \in DOMAIN outbox : MayPrecede(outbox[k].msg, m)
    BY DEF OrderInv, m
<1>11. ASSUME NEW j \in DOMAIN outbox', NEW k \in DOMAIN outbox', j <= k, outbox'[j].to = outbox'[k].to
       PROVE  MayPrecede(outbox'[j].msg, outbox'[k].msg)
    <2>1. CASE j \in DOMAIN outbox /\ k \in DOMAIN outbox
        <3>1. outbox'[j] = outbox[j] /\ outbox'[k] = outbox[k]
            BY <1>7, <2>1
        <3>2. QED
            BY <1>11, <2>1, <3>1 DEF OrderInv, InOrderFor
    <2>2. CASE k = Len(outbox) + 1 /\ outbox'[k].msg = m
        BY <1>4, <1>7, <1>10, <2>2
    <2>3. CASE j = Len(outbox) + 1 /\ k \in DOMAIN outbox
        BY <1>7, <1>11, <2>3
    <2>4. QED
        BY <1>7, <2>1, <2>2, <2>3
<1>12. \A to \in Destination : \A j \in DOMAIN received[to] : MayPrecede(received[to][j], m)
    BY DEF OrderInv, m
<1>13. \A to \in Destination : \A j \in DOMAIN received[to], k \in DOMAIN outbox' :
           outbox'[k].to = to => MayPrecede(received[to][j], outbox'[k].msg)
    BY <1>7, <1>12 DEF OrderInv
<1>14. /\ \A g \in emitters', to \in Destination : \A j \in DOMAIN received'[to] :
              MayPrecede(received'[to][j], g.msg)
       /\ \A to \in Destination : \A j \in DOMAIN received'[to], k \in DOMAIN outbox' :
              outbox'[k].to = to => MayPrecede(received'[to][j], outbox'[k].msg)
       /\ \A to \in Destination : \A j, k \in DOMAIN received'[to] :
              j <= k => MayPrecede(received'[to][j], received'[to][k])
       /\ \A to \in Destination : \A j \in DOMAIN received'[to] :
              received'[to][j].n \in 1 .. Len(decided)
    <2>1. CASE received' = received
        BY <1>3, <1>13, <2>1 DEF OrderInv
    <2>2. CASE Receive(d, m) /\ ~ IsPending(d)
        <3>1. \A k \in DOMAIN outbox' : outbox'[k].to = d => MayPrecede(m, outbox'[k].msg)
            BY <1>4, <1>7, <2>2 DEF IsPending
        <3>2. QED
            BY <1>1, <1>3, <1>4, <1>12, <1>13, <2>2, <3>1, OrderArrival
    <2>3. QED
        BY <1>6, <2>1, <2>2
<1>15. InOrderFor(outbox)'
    BY <1>5, <1>11 DEF InOrderFor
<1>16. ASSUME ~ PersistMayFail
       PROVE  InOrderFor(disk.outbox)' /\ NewsIn(disk'.outbox) \subseteq NewsIn(outbox')
    <2>1. CASE disk' = Snapshot'
        <3>1. disk'.outbox = outbox'
            BY <2>1 DEF Snapshot
        <3>2. QED
            BY <1>15, <3>1 DEF InOrderFor
    <2>2. CASE UNCHANGED <<outbox, disk>>
        BY <1>5, <1>16, <2>2 DEF OrderInv, InOrderFor
    <2>3. QED
        BY <1>6, <1>16, <2>1, <2>2
<1>17. QED
    BY <1>1, <1>5, <1>8, <1>9, <1>14, <1>15, <1>16 DEF OrderInv

LEMMA OrderAttempt ==
    ASSUME DeliveryInv, DeliveryInv', OrderInv, Attempt
    PROVE  OrderInv'
<1> DEFINE d == Item.to
           m == Item.msg
           p == Behind + 1
<1>1. /\ AtItem("trying") /\ UNCHANGED <<decided, emitters, outbox, disk>>
      /\ received' = received \/ Receive(d, m)
    BY DEF Attempt, Refuse
<1>2. /\ Item \in Delivery /\ p \in DOMAIN outbox /\ outbox[p].to = d /\ outbox[p].msg = m
      /\ Behind \in Nat /\ round # Idle /\ round.stage = "trying" /\ Item = round.items[1]
    BY <1>1, TheItem
<1>3. \A k \in 1 .. Behind : outbox[k].to # d
    BY <1>2 DEF DeliveryInv, RoundOK
<1>4. /\ d \in Destination /\ m \in Message /\ m.n \in 1 .. Len(decided)
    BY <1>2 DEF Delivery, DeliveryInv, Sound
<1>5. outbox \in Seq(Delivery)
    BY DEF DeliveryInv, TypeOK
<1>6. ASSUME NEW k \in DOMAIN outbox, outbox[k].to = d PROVE p <= k
    <2>1. k \in Nat /\ k >= 1 /\ k \notin 1 .. Behind
        BY <1>3, <1>5, <1>6
    <2>2. QED
        BY <1>2, <2>1
<1> HIDE DEF d, m, p
<1>7. \A k \in DOMAIN outbox : outbox[k].to = d => MayPrecede(m, outbox[k].msg)
    BY <1>2, <1>6 DEF OrderInv, InOrderFor
<1>8. \A j \in DOMAIN received[d] : MayPrecede(received[d][j], m)
    BY <1>2, <1>4 DEF OrderInv
<1>9. \A e \in emitters : MayPrecede(m, e.msg)
    BY <1>2 DEF OrderInv
<1>10. \A k, l : MayPrecede(k, l)' <=> MayPrecede(k, l)
    BY <1>1 DEF MayPrecede
<1>11. /\ \A e \in emitters', to \in Destination : \A j \in DOMAIN received'[to] :
              MayPrecede(received'[to][j], e.msg)
       /\ \A to \in Destination : \A j \in DOMAIN received'[to], k \in DOMAIN outbox' :
              outbox'[k].to = to => MayPrecede(received'[to][j], outbox'[k].msg)
       /\ \A to \in Destination : \A j, k \in DOMAIN received'[to] :
              j <= k => MayPrecede(received'[to][j], received'[to][k])
       /\ \A to \in Destination : \A j \in DOMAIN received'[to] :
              received'[to][j].n \in 1 .. Len(decided)
    <2>1. CASE received' = received
        BY <1>1, <2>1 DEF OrderInv
    <2>2. CASE Receive(d, m)
        <3>1. \A to \in Destination : \A j \in DOMAIN received[to], k \in DOMAIN outbox :
                  outbox[k].to = to => MayPrecede(received[to][j], outbox[k].msg)
            BY DEF OrderInv
        <3>2. QED
            BY <1>1, <1>4, <1>7, <1>8, <1>9, <2>2, <3>1, OrderArrival
    <2>3. QED
        BY <1>1, <2>1, <2>2
<1>12. InOrderFor(outbox)' /\ (~ PersistMayFail => InOrderFor(disk.outbox)')
    BY <1>1, <1>10 DEF OrderInv, InOrderFor
<1>13. QED
    BY <1>1, <1>10, <1>11, <1>12 DEF OrderInv

LEMMA OrderAlways ==
    ASSUME PersistMayFail => MaxCrashes = 0
    PROVE  Spec => []OrderInv
<1>1. ASSUME DeliveryInv, DeliveryInv', OrderInv, [Next]_vars PROVE OrderInv'
    <2>1. CASE QuietStep
        BY <1>1, <2>1, OrderQuiet
    <2>2. CASE \E s \in Subject : Decide(s)
        BY <1>1, <2>2, OrderDecide
    <2>3. CASE \E e \in emitters : SendToNext(e)
        BY <1>1, <2>3, OrderSend
    <2>4. CASE Attempt
        BY <1>1, <2>4, OrderAttempt
    <2>5. CASE Crash
        <3>1. MaxCrashes # 0
            BY <1>1, <2>5, IncidentDeliveryAssumption
               DEF Crash, DeliveryInv, TypeOK, IncidentDeliveryAssumption
        <3>2. ~ PersistMayFail
            BY <3>1
        <3>3. QED
            BY <1>1, <2>5, <3>2, OrderCrash
    <2>6. QED
        BY <1>1, <2>1, <2>2, <2>3, <2>4, <2>5, QuietOrNot
<1>2. DeliveryInv /\ DeliveryInv' /\ OrderInv /\ [Next]_vars => OrderInv'
    BY <1>1
<1>3. QED
    BY <1>2, OrderInit, DeliveryAlways, PTL DEF Spec

-----------------------------------------------------------------------------
(* The state file knows what has been told.                                *)

LEMMA FileInit == Init => FileInv
<1> SUFFICES ASSUME Init PROVE FileInv
    OBVIOUS
<1>1. /\ emitters = {} /\ outbox = <<>> /\ disk.outbox = <<>> /\ disk.incidents = incidents
    BY DEF Init, Snapshot
<1>2. QED
    BY <1>1 DEF FileInv, Known

LEMMA FileQuiet ==
    ASSUME DeliveryInv, DeliveryInv', FileInv, QuietStep, ~ PersistMayFail
    PROVE  FileInv'
<1>1. /\ decided' = decided /\ (disk' = disk \/ disk' = Snapshot')
      /\ Nums(incidents) \subseteq Nums(incidents') /\ Nums(disk.incidents) \subseteq Nums(incidents)
      /\ Known(outbox) /\ Known(disk.outbox)
    BY DEF QuietStep, FileInv
<1>2. disk' = Snapshot' => disk'.incidents = incidents' /\ disk'.outbox = outbox'
    BY DEF Snapshot
<1>3. /\ Nums(disk.incidents) \subseteq Nums(disk'.incidents)
      /\ Nums(disk'.incidents) \subseteq Nums(incidents')
    BY <1>1, <1>2
<1>4. \A m : OpensAnew(m)' <=> OpensAnew(m)
    BY <1>1 DEF OpensAnew, KindOf
<1>5. ASSUME NEW f \in emitters', OpensAnew(f.msg)
      PROVE  /\ f.stage = "saving" => f.msg.n \in Nums(incidents')
             /\ f.stage \in {"waiting", "sending"} => f.msg.n \in Nums(disk'.incidents)
    <2>1. PICK e \in emitters :
              /\ f.msg = e.msg
              /\ f.stage = "saving" => \/ e.stage = "saving"
                                       \/ OpensAnew(e.msg) => e.msg.n \in Nums(incidents')
              /\ f.stage \in {"waiting", "sending"} =>
                    \/ e.stage \in {"waiting", "sending"}
                    \/ e.stage = "saving" /\ (PersistMayFail \/ disk' = Snapshot')
        BY <1>5 DEF QuietStep, OnItsWay, OpensAnew
    <2>2. /\ e.stage = "saving" => e.msg.n \in Nums(incidents)
          /\ e.stage \in {"waiting", "sending"} => e.msg.n \in Nums(disk.incidents)
        BY <1>5, <2>1 DEF FileInv
    <2>3. f.stage = "saving" => f.msg.n \in Nums(incidents')
        BY <1>1, <1>5, <2>1, <2>2
    <2>4. f.stage \in {"waiting", "sending"} => f.msg.n \in Nums(disk'.incidents)
        BY <1>1, <1>2, <1>3, <2>1, <2>2
    <2>5. QED
        BY <2>3, <2>4
<1>6. \A k \in DOMAIN outbox' : OpensAnew(outbox'[k].msg) => outbox'[k].msg.n \in Nums(disk'.incidents)
    <2> SUFFICES ASSUME NEW k \in DOMAIN outbox', OpensAnew(outbox'[k].msg)
                 PROVE  outbox'[k].msg.n \in Nums(disk'.incidents)
        OBVIOUS
    <2>1. outbox'[k].msg.note = "news"
        BY DEF OpensAnew
    <2>2. k <= k
        <3>1. outbox' \in Seq(Delivery)
            BY DEF DeliveryInv, TypeOK
        <3>2. QED
            BY <3>1
    <2>3. PICK l \in DOMAIN outbox : outbox[l].msg = outbox'[k].msg
        BY <2>1, <2>2 DEF QuietStep, NewsKept
    <2>4. outbox[l].msg.n \in Nums(disk.incidents)
        BY <1>1, <2>3 DEF Known
    <2>5. QED
        BY <1>3, <2>3, <2>4
<1>7. \A k \in DOMAIN disk'.outbox :
          OpensAnew(disk'.outbox[k].msg) => disk'.outbox[k].msg.n \in Nums(disk'.incidents)
    BY <1>1, <1>2, <1>3, <1>6 DEF Known
<1>8. QED
    BY <1>3, <1>4, <1>5, <1>6, <1>7 DEF FileInv, Known

LEMMA FileDecide ==
    ASSUME DeliveryInv, DeliveryInv', FileInv, NEW s \in Subject, Decide(s)
    PROVE  FileInv'
<1> DEFINE N == Len(decided)
<1>1. PICK a, new : /\ decided' = Append(decided, a)
                    /\ emitters' = emitters \cup {new} /\ new.stage = "reading"
                    /\ UNCHANGED <<outbox, disk, incidents>>
    BY DEF Decide
<1>2. N \in Nat /\ \A n \in 1 .. N : decided'[n] = decided[n]
    <2>1. decided \in Seq(Transition)
        BY DEF DeliveryInv, TypeOK
    <2>2. QED
        BY <1>1, <2>1
<1>3. /\ \A e \in emitters : e.msg.n \in 1 .. N
      /\ \A k \in DOMAIN outbox : outbox[k].msg.n \in 1 .. N
      /\ \A k \in DOMAIN disk.outbox : disk.outbox[k].msg.n \in 1 .. N
    BY DEF DeliveryInv, EmittersOK, EmitterOK, Coming, Sound
<1> HIDE DEF N
<1>4. \A m : m.n \in 1 .. N => (OpensAnew(m)' <=> OpensAnew(m))
    BY <1>2 DEF OpensAnew, KindOf
<1>5. Known(outbox)' /\ Known(disk.outbox)'
    BY <1>1, <1>3, <1>4 DEF FileInv, Known
<1>6. ASSUME NEW e \in emitters', OpensAnew(e.msg)'
      PROVE  /\ e.stage = "saving" => e.msg.n \in Nums(incidents)
             /\ e.stage \in {"waiting", "sending"} => e.msg.n \in Nums(disk.incidents)
    BY <1>1, <1>3, <1>4, <1>6 DEF FileInv
<1>7. QED
    BY <1>1, <1>5, <1>6 DEF FileInv

LEMMA FileSend ==
    ASSUME DeliveryInv, FileInv, NEW e \in emitters, SendToNext(e)
    PROVE  FileInv'
<1> DEFINE f == [e EXCEPT !.left = Tail(@)]
<1>1. /\ UNCHANGED <<decided, incidents>> /\ e.stage = "sending" /\ e \in Emitter
      /\ outbox \in Seq(Delivery)
    BY DEF SendToNext, DeliveryInv, TypeOK
<1>2. emitters' = (emitters \ {e}) \cup {f} /\ f.msg = e.msg /\ f.stage = "sending"
    BY <1>1 DEF SendToNext, Replace, Emitter
<1> HIDE DEF f
<1>3. /\ Known(outbox) /\ Known(disk.outbox) /\ Nums(disk.incidents) \subseteq Nums(incidents)
      /\ OpensAnew(e.msg) => e.msg.n \in Nums(disk.incidents)
    BY <1>1 DEF FileInv
<1>4. \A m : OpensAnew(m)' <=> OpensAnew(m)
    BY <1>1 DEF OpensAnew, KindOf
<1>5. /\ disk' = disk \/ disk' = Snapshot'
      /\ outbox' = outbox \/ \E item : item.msg = e.msg /\ outbox' = Append(outbox, item)
    BY DEF SendToNext, Queue, Persist
<1>6. disk' = Snapshot' => disk'.incidents = incidents' /\ disk'.outbox = outbox'
    BY DEF Snapshot
<1>7. /\ Nums(disk.incidents) \subseteq Nums(disk'.incidents)
      /\ Nums(disk'.incidents) \subseteq Nums(incidents')
    BY <1>1, <1>3, <1>5, <1>6
<1>8. \A k \in DOMAIN outbox' : (k \in DOMAIN outbox /\ outbox'[k] = outbox[k]) \/ outbox'[k].msg = e.msg
    BY <1>1, <1>5
<1>9. \A k \in DOMAIN outbox' : OpensAnew(outbox'[k].msg) => outbox'[k].msg.n \in Nums(disk'.incidents)
    BY <1>3, <1>7, <1>8 DEF Known
<1>10. \A k \in DOMAIN disk'.outbox :
           OpensAnew(disk'.outbox[k].msg) => disk'.outbox[k].msg.n \in Nums(disk'.incidents)
    BY <1>3, <1>5, <1>6, <1>7, <1>9 DEF Known
<1>11. ASSUME NEW g \in emitters', OpensAnew(g.msg)
       PROVE  /\ g.stage = "saving" => g.msg.n \in Nums(incidents')
              /\ g.stage \in {"waiting", "sending"} => g.msg.n \in Nums(disk'.incidents)
    <2>1. CASE g = f
        BY <1>2, <1>3, <1>7, <1>11, <2>1
    <2>2. CASE g \in emitters
        <3>1. /\ g.stage = "saving" => g.msg.n \in Nums(incidents)
              /\ g.stage \in {"waiting", "sending"} => g.msg.n \in Nums(disk.incidents)
            BY <1>11, <2>2 DEF FileInv
        <3>2. QED
            BY <1>1, <1>7, <3>1
    <2>3. QED
        BY <1>2, <2>1, <2>2
<1>12. QED
    BY <1>4, <1>7, <1>9, <1>10, <1>11 DEF FileInv, Known

LEMMA FileStep ==
    ASSUME DeliveryInv, DeliveryInv', FileInv, [Next]_vars, ~ PersistMayFail
    PROVE  FileInv'
<1>1. CASE Attempt
    <2>1. UNCHANGED <<decided, emitters, outbox, disk, incidents>>
        BY <1>1 DEF Attempt
    <2>2. QED
        BY <2>1 DEF FileInv, Known, OpensAnew, KindOf
<1>2. CASE Crash
    <2>1. /\ emitters' = {} /\ outbox' = disk.outbox /\ incidents' = disk.incidents
          /\ UNCHANGED <<decided, disk>>
        BY <1>2 DEF Crash
    <2>2. QED
        BY <2>1 DEF FileInv, Known, OpensAnew, KindOf
<1>3. QED
    BY <1>1, <1>2, FileQuiet, FileDecide, FileSend, QuietOrNot

LEMMA FileAlways ==
    ASSUME ~ PersistMayFail
    PROVE  Spec => []FileInv
<1>1. DeliveryInv /\ DeliveryInv' /\ FileInv /\ [Next]_vars => FileInv'
    BY FileStep
<1>2. QED
    BY <1>1, FileInit, DeliveryAlways, PTL DEF Spec

-----------------------------------------------------------------------------
(* What keeps a page from coming twice: it is not queued twice, since its  *)
(* incident has been fired for, and while it waits after it has arrived,   *)
(* nothing else arrives there.                                             *)
Fired(n) == \E i \in escalated : incidents[i].n = n

ArrivedLast(n) ==
    \A k \in DOMAIN outbox : outbox[k].to = Pager /\ outbox[k].msg = Page(n) =>
        /\ \A l \in DOMAIN outbox : l < k => outbox[l].to # Pager
        /\ received[Pager] # <<>> /\ Last(received[Pager]) = Page(n)

PagesInv ==
    \A n \in Nat :
        \/ Cardinality(PageStarts(n)) <= crashes
        \/ Cardinality(PageStarts(n)) <= crashes + 1 /\ Fired(n) /\ ArrivedLast(n)

LEMMA FiniteStarts ==
    ASSUME DeliveryInv, NEW n \in Nat
    PROVE  IsFiniteSet(PageStarts(n)) /\ Cardinality(PageStarts(n)) \in Nat
<1>1. received[Pager] \in Seq(Message)
    BY IncidentDeliveryAssumption DEF DeliveryInv, TypeOK, IncidentDeliveryAssumption
<1>2. PageStarts(n) \in SUBSET (1 .. Len(received[Pager])) /\ Len(received[Pager]) \in Nat
    BY <1>1 DEF PageStarts, Afresh
<1>3. IsFiniteSet(1 .. Len(received[Pager]))
    BY <1>2, FS_Interval
<1>4. QED
    BY <1>2, <1>3, FS_Subset, FS_CardinalityType

\* What a round queues when it starts are pages of incidents that are due.
LEMMA QueuedPages ==
    ASSUME DeliveryInv, NEW due \in SUBSET DOMAIN incidents, outbox' = outbox \o Escalations(due)
    PROVE  /\ DOMAIN outbox = 1 .. Len(outbox) /\ Len(outbox) \in Nat
           /\ DOMAIN outbox' \subseteq Nat /\ DOMAIN outbox \subseteq DOMAIN outbox'
           /\ \A k \in DOMAIN outbox : outbox'[k] = outbox[k]
           /\ \A k \in DOMAIN outbox' :
                 \/ k \in DOMAIN outbox
                 \/ /\ k > Len(outbox) /\ outbox'[k].msg.note = "escalation"
                    /\ \E i \in due : outbox'[k].msg.n = incidents[i].n
<1> DEFINE c == Cardinality(due)
           esc == Escalations(due)
<1>1. incidents \in Seq(Incident) /\ outbox \in Seq(Delivery)
    BY DEF DeliveryInv, TypeOK
<1>2. /\ c \in Nat /\ InOrder(due) \in [1 .. c -> due]
      /\ \A k \in 1 .. c : At(due, incidents)[k] = incidents[InOrder(due)[k]]
    BY <1>1, AtPositions
<1>3. esc = [k \in 1 .. c |->
                [to |-> Pager, tried |-> FALSE,
                 msg |-> [n |-> At(due, incidents)[k].n, note |-> "escalation"]]]
    BY DEF Escalations
<1>4. outbox' = outbox \o esc
    OBVIOUS
<1> HIDE DEF esc, c
<1>5. \A k \in 1 .. c : /\ esc[k].msg.note = "escalation"
                        /\ \E i \in due : esc[k].msg.n = incidents[i].n
    <2> SUFFICES ASSUME NEW k \in 1 .. c
                 PROVE  /\ esc[k].msg.note = "escalation"
                        /\ \E i \in due : esc[k].msg.n = incidents[i].n
        OBVIOUS
    <2>1. InOrder(due)[k] \in due
        BY <1>2
    <2>2. esc[k].msg.n = At(due, incidents)[k].n /\ esc[k].msg.note = "escalation"
        BY <1>3
    <2>3. esc[k].msg.n = incidents[InOrder(due)[k]].n
        BY <1>2, <2>2
    <2>4. QED
        BY <2>1, <2>2, <2>3
<1>6. /\ DOMAIN outbox = 1 .. Len(outbox) /\ Len(outbox) \in Nat
      /\ DOMAIN outbox' = 1 .. Len(outbox) + c
      /\ \A k \in 1 .. Len(outbox) + c :
            outbox'[k] = IF k <= Len(outbox) THEN outbox[k] ELSE esc[k - Len(outbox)]
    <2> DEFINE X == Delivery \cup {esc[k] : k \in 1 .. c}
    <2>1. esc \in [1 .. c -> {esc[k] : k \in 1 .. c}]
        BY <1>3
    <2>2. esc \in Seq({esc[k] : k \in 1 .. c}) /\ Len(esc) = c
        <3>1. c \in Nat
            BY <1>2
        <3>2. QED
            BY <2>1, <3>1
    <2>3. outbox \in Seq(X) /\ esc \in Seq(X)
        BY <1>1, <2>2
    <2> HIDE DEF X
    <2>4. /\ outbox \o esc \in Seq(X) /\ Len(outbox \o esc) = Len(outbox) + c
          /\ \A k \in 1 .. Len(outbox) + c :
                (outbox \o esc)[k] = IF k <= Len(outbox) THEN outbox[k] ELSE esc[k - Len(outbox)]
        BY <2>2, <2>3, ConcatProperties
    <2>5. DOMAIN outbox' = 1 .. Len(outbox')
        BY <1>4, <2>4
    <2>6. DOMAIN outbox = 1 .. Len(outbox) /\ Len(outbox) \in Nat
        BY <1>1
    <2>7. QED
        BY <1>4, <2>4, <2>5, <2>6
<1>7. /\ DOMAIN outbox' \subseteq Nat /\ DOMAIN outbox \subseteq DOMAIN outbox'
      /\ \A k \in DOMAIN outbox : outbox'[k] = outbox[k]
    BY <1>2, <1>6
<1>8. ASSUME NEW k \in DOMAIN outbox'
      PROVE  \/ k \in DOMAIN outbox
             \/ /\ k > Len(outbox) /\ outbox'[k].msg.note = "escalation"
                /\ \E i \in due : outbox'[k].msg.n = incidents[i].n
    <2>1. CASE k <= Len(outbox)
        BY <1>6, <2>1
    <2>2. CASE ~ (k <= Len(outbox))
        <3>1. k - Len(outbox) \in 1 .. c /\ outbox'[k] = esc[k - Len(outbox)] /\ k > Len(outbox)
            BY <1>2, <1>6, <2>2
        <3>2. QED
            BY <1>5, <3>1
    <2>3. QED
        BY <2>1, <2>2
<1>9. QED
    BY <1>6, <1>7, <1>8

\* Something arrives: only a page that follows another alert starts anew.
LEMMA PageArrives ==
    ASSUME DeliveryInv, NEW to \in Destination, NEW m \in Message, Receive(to, m), NEW n \in Nat
    PROVE  /\ Cardinality(PageStarts(n)) \in Nat /\ Cardinality(PageStarts(n)') \in Nat
           /\ Cardinality(PageStarts(n)') <= Cardinality(PageStarts(n)) + 1
           /\ \/ to # Pager
              \/ m # Page(n)
              \/ received[Pager] # <<>> /\ Last(received[Pager]) = Page(n)
              => PageStarts(n)' = PageStarts(n)
           /\ to # Pager => received'[Pager] = received[Pager]
           /\ to = Pager => received'[Pager] # <<>> /\ Last(received'[Pager]) = m
<1> DEFINE r == received[Pager]
           L == Len(r)
           S == PageStarts(n)
<1>1. /\ Pager \in Destination /\ received \in [Destination -> Seq(Message)]
      /\ received' = [received EXCEPT ![to] = Append(received[to], m)]
    BY IncidentDeliveryAssumption DEF DeliveryInv, TypeOK, Receive, IncidentDeliveryAssumption
<1>2. r \in Seq(Message) /\ L \in Nat /\ DOMAIN r = 1 .. L
    BY <1>1
<1>3. IsFiniteSet(S) /\ Cardinality(S) \in Nat
    BY FiniteStarts
<1>4. CASE to # Pager
    <2>1. received'[Pager] = r
        BY <1>1, <1>4
    <2>2. PageStarts(n)' = S
        BY <2>1 DEF PageStarts, Afresh
    <2> HIDE DEF S
    <2>3. Cardinality(PageStarts(n)') <= Cardinality(S) + 1 /\ Cardinality(PageStarts(n)') \in Nat
        BY <1>3, <2>2
    <2>4. QED
        BY <1>3, <1>4, <2>1, <2>2, <2>3 DEF S
<1>5. CASE to = Pager
    <2>1. received'[Pager] = Append(r, m)
        BY <1>1, <1>5
    <2>2. /\ DOMAIN Append(r, m) = 1 .. L + 1 /\ Append(r, m)[L + 1] = m
          /\ \A k \in 1 .. L : Append(r, m)[k] = r[k]
        BY <1>2
    <2>3. Append(r, m) # <<>> /\ Last(Append(r, m)) = m
        BY <1>2 DEF Last
    <2> DEFINE starts(k) == Append(r, m)[k] = Page(n) /\ (k = 1 \/ Append(r, m)[k - 1] # Page(n))
               new == starts(L + 1)
    <2>4. PageStarts(n)' = S \cup (IF new THEN {L + 1} ELSE {})
        <3>1. PageStarts(n)' = {k \in 1 .. L + 1 : starts(k)}
            BY <2>1, <2>2 DEF PageStarts, Afresh
        <3>2. S = {k \in 1 .. L : starts(k)}
            <4>1. \A k \in 1 .. L : k # 1 => k - 1 \in 1 .. L
                BY <1>2
            <4>2. QED
                BY <1>2, <2>2, <4>1 DEF PageStarts, Afresh
        <3>3. \A k : k \in 1 .. L + 1 <=> k \in 1 .. L \/ k = L + 1
            BY <1>2
        <3> HIDE DEF S, starts, r, L
        <3>4. QED
            BY <3>1, <3>2, <3>3
    <2>5. received[Pager] # <<>> /\ Last(received[Pager]) = Page(n) => ~new
        <3>1. r # <<>> => L + 1 # 1 /\ L + 1 - 1 = L /\ L \in 1 .. L
            BY <1>2
        <3>2. QED
            BY <2>2, <3>1 DEF Last
    <2>6. m # Page(n) => ~new
        BY <2>2
    <2> HIDE DEF new, S, L
    <2>7. Cardinality(S \cup {L + 1}) <= Cardinality(S) + 1 /\ Cardinality(S \cup {L + 1}) \in Nat
        <3>1. CASE L + 1 \in S
            <4>1. S \cup {L + 1} = S
                BY <3>1
            <4>2. QED
                BY <1>3, <4>1
        <3>2. CASE L + 1 \notin S
            <4>1. Cardinality(S \cup {L + 1}) = Cardinality(S) + 1
                BY <1>3, <3>2, FS_AddElement
            <4>2. QED
                BY <1>3, <4>1
        <3>3. QED
            BY <3>1, <3>2
    <2>8. Cardinality(PageStarts(n)') <= Cardinality(S) + 1 /\ Cardinality(PageStarts(n)') \in Nat
        <3>1. CASE new
            <4>1. PageStarts(n)' = S \cup {L + 1}
                BY <2>4, <3>1
            <4>2. QED
                BY <2>7, <4>1
        <3>2. CASE ~new
            <4>1. PageStarts(n)' = S
                BY <2>4, <3>2
            <4>2. QED
                BY <1>3, <4>1
        <3>3. QED
            BY <3>1, <3>2
    <2>9. ~new => PageStarts(n)' = S
        BY <2>4
    <2>10. QED
        BY <1>3, <1>5, <2>1, <2>3, <2>5, <2>6, <2>8, <2>9 DEF S
<1>6. QED
    BY <1>4, <1>5

\* Nothing arrives and nothing is queued: what has been fired for stays so.
LEMMA PagesThin ==
    ASSUME DeliveryInv, PagesInv, UNCHANGED <<received, crashes>>, Thins(outbox', outbox),
           outbox' \in Seq(Delivery),
           \A i \in escalated : i \in escalated' /\ incidents'[i].n = incidents[i].n
    PROVE  PagesInv'
<1>1. PICK f \in [DOMAIN outbox' -> DOMAIN outbox] :
          /\ \A k \in DOMAIN outbox' : outbox'[k].to = outbox[f[k]].to /\ outbox'[k].msg = outbox[f[k]].msg
          /\ \A j, k \in DOMAIN outbox' : j < k => f[j] < f[k]
    BY DEF Thins
<1>2. \A k \in DOMAIN outbox' : f[k] \in DOMAIN outbox
    OBVIOUS
<1>3. ASSUME NEW n \in Nat, Fired(n) PROVE Fired(n)'
    BY <1>3 DEF Fired
<1>4. ASSUME NEW n \in Nat, ArrivedLast(n) PROVE ArrivedLast(n)'
    BY <1>1, <1>2, <1>4 DEF ArrivedLast
<1>5. \A n \in Nat : PageStarts(n)' = PageStarts(n)
    BY DEF PageStarts, Afresh
<1>6. QED
    BY <1>3, <1>4, <1>5 DEF PagesInv

\* The steps that do not queue, nor bring anything anywhere.
LEMMA ThinsOrNot ==
    ASSUME DeliveryInv, [Next]_vars
    PROVE  \/ /\ UNCHANGED <<received, crashes>> /\ Thins(outbox', outbox)
              /\ \A i \in escalated : i \in escalated' /\ incidents'[i].n = incidents[i].n
           \/ StartRound
           \/ \E e \in emitters : SendToNext(e)
           \/ Attempt
           \/ Crash
<1> DEFINE Thinned == /\ UNCHANGED <<received, crashes>> /\ Thins(outbox', outbox)
                      /\ \A i \in escalated : i \in escalated' /\ incidents'[i].n = incidents[i].n
<1>0. /\ incidents \in Seq(Incident) /\ outbox \in Seq(Delivery) /\ escalated \subseteq DOMAIN incidents
      /\ \A i \in DOMAIN incidents : incidents[i] \in Incident
    BY DEF DeliveryInv, TypeOK
<1>1. ASSUME UNCHANGED <<received, crashes, outbox, escalated>>,
             \A i \in DOMAIN incidents : incidents'[i].n = incidents[i].n
      PROVE  Thinned
    BY <1>0, <1>1, ThinsItself
<1>2. ASSUME UNCHANGED <<received, crashes, outbox, escalated, incidents>> PROVE Thinned
    BY <1>1, <1>2
<1> HIDE DEF Thinned
<1>3. ASSUME NEW s \in Subject, Decide(s) PROVE Thinned
    BY <1>2, <1>3 DEF Decide
<1>4. ASSUME ChangeSuppression \/ UNCHANGED vars \/ PersistElsewhere \/ Skip \/ Select \/ EndRound
      PROVE  Thinned
    <2>1. UNCHANGED <<received, crashes, outbox, escalated, incidents>>
        BY <1>4 DEF ChangeSuppression, vars, PersistElsewhere, Skip, Select, EndRound
    <2>2. QED
        BY <1>2, <2>1
<1>5. ASSUME NEW e \in emitters,
             \/ ReadSuppression(e) \/ SaveIncident(e) \/ StartDelivery(e) \/ EndDelivery(e) \/ Finish(e)
      PROVE  Thinned
    BY <1>2, <1>5 DEF ReadSuppression, SaveIncident, StartDelivery, EndDelivery, Finish
<1>6. ASSUME NEW i \in DOMAIN incidents, NEW new \in Incident, UNCHANGED <<received, crashes, escalated>>,
             new.n = incidents[i].n, new.suppressed = incidents[i].suppressed,
             incidents' = [incidents EXCEPT ![i] = new], outbox' = WithoutEscalations(i)
      PROVE  Thinned
    <2>1. Thins(outbox', outbox)
        BY <1>6, Cancelled
    <2>2. \A j \in DOMAIN incidents : incidents'[j].n = incidents[j].n
        BY <1>0, <1>6
    <2>3. QED
        BY <1>0, <1>6, <2>1, <2>2 DEF Thinned
<1>7. ASSUME NEW i \in DOMAIN incidents, Close(i), UNCHANGED <<received, crashes, escalated>> PROVE Thinned
    <2> DEFINE shut == [incidents[i] EXCEPT !.active = FALSE]
    <2>1. shut \in Incident /\ shut.n = incidents[i].n /\ shut.suppressed = incidents[i].suppressed
        BY <1>0 DEF Incident
    <2>2. incidents' = [incidents EXCEPT ![i] = shut] /\ outbox' = WithoutEscalations(i)
        BY <1>7 DEF Close
    <2> HIDE DEF shut
    <2>3. QED
        BY <1>6, <1>7, <2>1, <2>2
<1>8. ASSUME NEW i \in DOMAIN incidents, Acknowledge(i) PROVE Thinned
    <2> DEFINE new == [incidents[i] EXCEPT !.acked = TRUE]
    <2>1. new \in Incident /\ new.n = incidents[i].n /\ new.suppressed = incidents[i].suppressed
        BY <1>0 DEF Incident
    <2>2. /\ incidents' = [incidents EXCEPT ![i] = new] /\ outbox' = WithoutEscalations(i)
          /\ UNCHANGED <<received, crashes, escalated>>
        BY <1>8 DEF Acknowledge
    <2> HIDE DEF new
    <2>3. QED
        BY <1>6, <2>1, <2>2
<1>9. ASSUME NEW i \in DOMAIN incidents, Resolve(i) PROVE Thinned
    BY <1>7, <1>9 DEF Resolve
<1>10. ASSUME NEW e \in emitters, RecordIncident(e) PROVE Thinned
    <2> DEFINE c == decided[e.msg.n].subject
               new == [n |-> e.msg.n, active |-> TRUE, acked |-> FALSE, suppressed |-> e.hushed]
    <2>1. UNCHANGED <<received, crashes, escalated>>
        BY <1>10 DEF RecordIncident
    <2>2. CASE Opens(decided[e.msg.n])
        <3>1. incidents' = Append(incidents, new) /\ outbox' = outbox
            BY <1>10, <2>2 DEF RecordIncident
        <3> HIDE DEF new
        <3>2. \A i \in DOMAIN incidents : incidents'[i] = incidents[i]
            BY <1>0, <3>1
        <3>3. QED
            BY <1>1, <2>1, <3>1, <3>2
    <2>3. CASE ~Opens(decided[e.msg.n]) /\ Open(c) = {}
        BY <1>2, <1>10, <2>1, <2>3 DEF RecordIncident
    <2>4. CASE ~Opens(decided[e.msg.n]) /\ Open(c) # {}
        <3>1. Latest(Open(c)) \in Open(c)
            BY <2>4, LatestOpen DEF DeliveryInv
        <3>2. Latest(Open(c)) \in DOMAIN incidents
            BY <3>1 DEF Open
        <3>3. Close(Latest(Open(c)))
            BY <1>10, <2>4 DEF RecordIncident
        <3>4. QED
            BY <1>7, <2>1, <3>2, <3>3
    <2>5. QED
        BY <2>2, <2>3, <2>4
<1>11. ASSUME ReleaseSuppressions PROVE Thinned
    <2>1. incidents' = [i \in DOMAIN incidents |-> IF i \in Held
                            THEN [incidents[i] EXCEPT !.suppressed = FALSE] ELSE incidents[i]]
        BY <1>11 DEF ReleaseSuppressions
    <2>2. \A i \in DOMAIN incidents : incidents'[i].n = incidents[i].n
        BY <1>0, <2>1 DEF Incident
    <2>3. UNCHANGED <<received, crashes, outbox, escalated>>
        BY <1>11 DEF ReleaseSuppressions
    <2>4. QED
        BY <1>1, <2>2, <2>3
<1>12. ASSUME SettleAccepted PROVE Thinned
    <2>1. /\ AtItem("sent") /\ outbox' = RemoveAt(outbox, PositionOf(Item))
          /\ UNCHANGED <<received, crashes, escalated, incidents>>
        BY <1>12 DEF SettleAccepted
    <2>2. PositionOf(Item) \in DOMAIN outbox
        BY <2>1, TheItem
    <2>3. Thins(outbox', outbox)
        BY <1>0, <2>1, <2>2, RemoveAtThins
    <2>4. QED
        BY <2>1, <2>3 DEF Thinned
<1>13. ASSUME SettleRefused PROVE Thinned
    <2>1. /\ AtItem("refused") /\ outbox' = [outbox EXCEPT ![PositionOf(Item)].tried = TRUE]
          /\ UNCHANGED <<received, crashes, escalated, incidents>>
        BY <1>13 DEF SettleRefused
    <2>2. PositionOf(Item) \in DOMAIN outbox
        BY <2>1, TheItem
    <2>3. Thins(outbox', outbox)
        BY <1>0, <2>1, <2>2, TriedThins
    <2>4. QED
        BY <2>1, <2>3 DEF Thinned
<1>14. QED
    BY <1>3, <1>4, <1>5, <1>8, <1>9, <1>10, <1>11, <1>12, <1>13
       DEF Next, EmitterStep, RoundStep, Thinned

LEMMA PagesStart ==
    ASSUME DeliveryInv, PagesInv, StartRound
    PROVE  PagesInv'
<1>1. PICK due \in SUBSET Escalatable :
          /\ escalated' = escalated \cup due
          /\ outbox' = outbox \o Escalations(due)
    BY DEF StartRound
<1>2. UNCHANGED <<incidents, received, crashes>> /\ outbox \in Seq(Delivery)
    BY DEF StartRound, DeliveryInv, TypeOK
<1>3. due \in SUBSET DOMAIN incidents /\ due \cap escalated = {}
    BY DEF Escalatable
<1>4. /\ DOMAIN outbox = 1 .. Len(outbox) /\ Len(outbox) \in Nat
      /\ DOMAIN outbox' \subseteq Nat
      /\ \A k \in DOMAIN outbox' :
            \/ k \in DOMAIN outbox /\ outbox'[k] = outbox[k]
            \/ k > Len(outbox) /\ \E i \in due : outbox'[k].msg.n = incidents[i].n
    BY <1>1, <1>3, QueuedPages
<1>5. ASSUME NEW n \in Nat, Fired(n) PROVE Fired(n)'
    BY <1>1, <1>2, <1>5 DEF Fired
<1>6. ASSUME NEW n \in Nat, Fired(n), ArrivedLast(n) PROVE ArrivedLast(n)'
    <2> SUFFICES ASSUME NEW k \in DOMAIN outbox', outbox'[k].to = Pager, outbox'[k].msg = Page(n)
                 PROVE  /\ \A l \in DOMAIN outbox' : l < k => outbox'[l].to # Pager
                        /\ received[Pager] # <<>> /\ Last(received[Pager]) = Page(n)
        BY <1>2 DEF ArrivedLast, Page
    <2>1. \A i \in due : incidents[i].n # n
        BY <1>3, <1>6 DEF Fired, DeliveryInv, Sound
    <2>2. k \in DOMAIN outbox /\ outbox'[k] = outbox[k]
        BY <1>4, <2>1 DEF Page
    <2>3. \A l \in DOMAIN outbox' : l < k => l \in DOMAIN outbox /\ outbox'[l] = outbox[l]
        <3> SUFFICES ASSUME NEW l \in DOMAIN outbox', l < k
                     PROVE  l \in DOMAIN outbox /\ outbox'[l] = outbox[l]
            OBVIOUS
        <3>1. l \in Int /\ k \in Int /\ k <= Len(outbox)
            BY <1>4, <2>2
        <3>2. ~(l > Len(outbox))
            BY <1>4, <3>1
        <3>3. QED
            BY <1>4, <3>2
    <2>4. QED
        BY <1>6, <2>2, <2>3 DEF ArrivedLast
<1>7. \A n \in Nat : PageStarts(n)' = PageStarts(n)
    BY <1>2 DEF PageStarts, Afresh
<1>8. QED
    BY <1>2, <1>5, <1>6, <1>7 DEF PagesInv

LEMMA PagesSend ==
    ASSUME DeliveryInv, PagesInv, NEW e \in emitters, SendToNext(e)
    PROVE  PagesInv'
<1> DEFINE d == Head(e.left)
           m == e.msg
<1>1. /\ e \in Emitter /\ m \in Message /\ d \in Destination /\ outbox \in Seq(Delivery)
      /\ UNCHANGED <<incidents, escalated, crashes>>
    <2>1. e \in Emitter /\ e.left # <<>> /\ outbox \in Seq(Delivery)
          /\ UNCHANGED <<incidents, escalated, crashes>>
        BY DEF SendToNext, DeliveryInv, TypeOK
    <2>2. QED
        BY <2>1 DEF Emitter
<1>2. \A n \in Nat : m # Page(n)
    <2>1. m.note # "escalation"
        BY DEF DeliveryInv, EmittersOK, EmitterOK
    <2>2. QED
        BY <2>1 DEF Page
<1>3. /\ outbox' = outbox \/ \E tried \in BOOLEAN :
                                 outbox' = Append(outbox, [to |-> d, msg |-> m, tried |-> tried])
      /\ received' = received \/ (Receive(d, m) /\ ~IsPending(d))
    BY DEF SendToNext, Queue, Refuse
<1> HIDE DEF d, m
<1>4. \A k \in DOMAIN outbox' :
          \/ k \in DOMAIN outbox /\ outbox'[k] = outbox[k]
          \/ k = Len(outbox) + 1 /\ outbox'[k].msg = m
    <2>1. CASE outbox' = outbox
        BY <2>1
    <2>2. ASSUME NEW new, new.msg = m, outbox' = Append(outbox, new)
          PROVE  \A k \in DOMAIN outbox' :
                     \/ k \in DOMAIN outbox /\ outbox'[k] = outbox[k]
                     \/ k = Len(outbox) + 1 /\ outbox'[k].msg = m
        BY <1>1, <2>2
    <2>3. ASSUME NEW tried, outbox' = Append(outbox, [to |-> d, msg |-> m, tried |-> tried])
          PROVE  \A k \in DOMAIN outbox' :
                     \/ k \in DOMAIN outbox /\ outbox'[k] = outbox[k]
                     \/ k = Len(outbox) + 1 /\ outbox'[k].msg = m
        <3> DEFINE new == [to |-> d, msg |-> m, tried |-> tried]
        <3>1. new.msg = m
            OBVIOUS
        <3> HIDE DEF new
        <3>2. QED
            BY <2>2, <2>3, <3>1 DEF new
    <2>4. QED
        BY <1>3, <2>1, <2>3
<1>5. ASSUME NEW n \in Nat PROVE PageStarts(n)' = PageStarts(n)
    <2>1. CASE received' = received
        BY <2>1 DEF PageStarts, Afresh
    <2>2. CASE Receive(d, m)
        BY <1>1, <1>2, <2>2, PageArrives
    <2>3. QED
        BY <1>3, <2>1, <2>2
<1>6. ASSUME NEW n \in Nat, ArrivedLast(n) PROVE ArrivedLast(n)'
    <2> SUFFICES ASSUME NEW k \in DOMAIN outbox', outbox'[k].to = Pager, outbox'[k].msg = Page(n)
                 PROVE  /\ \A l \in DOMAIN outbox' : l < k => outbox'[l].to # Pager
                        /\ received'[Pager] # <<>> /\ Last(received'[Pager]) = Page(n)
        BY DEF ArrivedLast, Page
    <2>1. k \in DOMAIN outbox /\ outbox'[k] = outbox[k]
        BY <1>2, <1>4
    <2>2. DOMAIN outbox = 1 .. Len(outbox) /\ Len(outbox) \in Nat
        BY <1>1
    <2>3. \A l \in DOMAIN outbox' : l < k => l \in DOMAIN outbox /\ outbox'[l] = outbox[l]
        BY <1>4, <2>1, <2>2
    <2>4. received'[Pager] = received[Pager]
        <3>1. IsPending(Pager)
            BY <2>1 DEF IsPending
        <3>2. CASE Receive(d, m) /\ d # Pager
            BY <1>1, <3>2, PageArrives
        <3>3. QED
            BY <1>3, <3>1, <3>2
    <2>5. QED
        BY <1>6, <2>1, <2>3, <2>4 DEF ArrivedLast
<1>7. ASSUME NEW n \in Nat, Fired(n) PROVE Fired(n)'
    BY <1>1, <1>7 DEF Fired
<1>8. QED
    BY <1>1, <1>5, <1>6, <1>7 DEF PagesInv

LEMMA PagesAttempt ==
    ASSUME DeliveryInv, PagesInv, Attempt
    PROVE  PagesInv'
<1> DEFINE d == Item.to
           m == Item.msg
           p == Behind + 1
<1>1. /\ AtItem("trying") /\ UNCHANGED <<incidents, escalated, outbox, crashes>>
      /\ received' = received \/ Receive(d, m)
    BY DEF Attempt, Refuse
<1>2. /\ p \in DOMAIN outbox /\ outbox[p].to = d /\ outbox[p].msg = m
      /\ Behind \in Nat /\ round # Idle /\ round.stage = "trying" /\ Item = round.items[1]
      /\ d \in Destination /\ m \in Message
    <2>1. Item \in Delivery
        BY <1>1, TheItem
    <2>2. QED
        BY <1>1, <2>1, TheItem DEF Delivery
<1>3. \A k \in 1 .. Behind : outbox[k].to # d
    BY <1>2 DEF DeliveryInv, RoundOK
<1>4. outbox \in Seq(Delivery)
    BY DEF DeliveryInv, TypeOK
<1>5. ASSUME NEW k \in DOMAIN outbox, k < p PROVE outbox[k].to # d
    <2>1. k \in 1 .. Behind
        BY <1>2, <1>4, <1>5
    <2>2. QED
        BY <1>3, <2>1
<1> HIDE DEF d, m, p
<1>6. \A n : Fired(n)' <=> Fired(n)
    BY <1>1 DEF Fired
<1>7. ASSUME NEW n \in Nat
      PROVE  \/ Cardinality(PageStarts(n)') <= crashes
             \/ Cardinality(PageStarts(n)') <= crashes + 1 /\ Fired(n) /\ ArrivedLast(n)'
    <2>1. CASE received'[Pager] = received[Pager]
        <3>1. PageStarts(n)' = PageStarts(n) /\ (ArrivedLast(n)' <=> ArrivedLast(n))
            BY <1>1, <2>1 DEF PageStarts, Afresh, ArrivedLast, Page
        <3>2. QED
            BY <3>1 DEF PagesInv
    <2>2. CASE received' # received /\ d = Pager /\ m # Page(n)
        <3>1. PageStarts(n)' = PageStarts(n)
            BY <1>1, <1>2, <2>2, PageArrives
        <3>2. ASSUME ArrivedLast(n) PROVE ArrivedLast(n)'
            <4>1. \A k \in DOMAIN outbox : ~(outbox[k].to = Pager /\ outbox[k].msg = Page(n))
                <5> SUFFICES ASSUME NEW k \in DOMAIN outbox, outbox[k].to = Pager, outbox[k].msg = Page(n)
                             PROVE  FALSE
                    OBVIOUS
                <5>1. ~(p < k)
                    BY <1>2, <2>2, <3>2 DEF ArrivedLast
                <5>2. ~(k < p)
                    BY <1>5, <2>2
                <5>3. k # p
                    BY <1>2, <2>2
                <5>4. k \in Nat /\ p \in Nat
                    BY <1>2, <1>4
                <5>5. QED
                    BY <5>1, <5>2, <5>3, <5>4
            <4>2. QED
                BY <1>1, <4>1 DEF ArrivedLast, Page
        <3>3. QED
            BY <3>1, <3>2 DEF PagesInv
    <2>3. CASE received' # received /\ d = Pager /\ m = Page(n)
        <3>1. /\ Cardinality(PageStarts(n)) \in Nat /\ Cardinality(PageStarts(n)') \in Nat
              /\ Cardinality(PageStarts(n)') <= Cardinality(PageStarts(n)) + 1
              /\ received[Pager] # <<>> /\ Last(received[Pager]) = Page(n) => PageStarts(n)' = PageStarts(n)
              /\ received'[Pager] # <<>> /\ Last(received'[Pager]) = Page(n)
            BY <1>1, <1>2, <2>3, PageArrives
        <3>2. Fired(n)
            <4>1. n \in Worthy(incidents, escalated)
                BY <1>2, <2>3 DEF DeliveryInv, Sound, Page
            <4>2. QED
                BY <4>1 DEF Worthy, Fired
        <3>3. ArrivedLast(n)'
            <4> SUFFICES ASSUME NEW k \in DOMAIN outbox, outbox[k].to = Pager, outbox[k].msg = Page(n)
                         PROVE  \A l \in DOMAIN outbox : l < k => outbox[l].to # Pager
                BY <1>1, <3>1 DEF ArrivedLast, Page
            <4>1. k = p
                BY <1>2, <2>3 DEF DeliveryInv, Sound
            <4>2. QED
                BY <1>5, <2>3, <4>1
        <3>4. crashes \in Nat
            BY IncidentDeliveryAssumption DEF DeliveryInv, TypeOK, IncidentDeliveryAssumption
        <3>5. CASE Cardinality(PageStarts(n)) <= crashes
            <4>1. Cardinality(PageStarts(n)') <= crashes + 1
                BY <3>1, <3>4, <3>5
            <4>2. QED
                BY <3>2, <3>3, <4>1
        <3>6. CASE Cardinality(PageStarts(n)) <= crashes + 1 /\ ArrivedLast(n)
            <4>1. PageStarts(n)' = PageStarts(n)
                BY <1>2, <2>3, <3>1, <3>6 DEF ArrivedLast
            <4>2. QED
                BY <3>2, <3>3, <3>6, <4>1
        <3>7. QED
            BY <3>5, <3>6 DEF PagesInv
    <2>4. received'[Pager] # received[Pager] => received' # received /\ d = Pager
        BY <1>1, <1>2, PageArrives
    <2>5. QED
        BY <2>1, <2>2, <2>3, <2>4
<1>8. QED
    BY <1>1, <1>6, <1>7 DEF PagesInv

LEMMA PagesCrash ==
    ASSUME DeliveryInv, PagesInv, Crash
    PROVE  PagesInv'
<1>1. crashes' = crashes + 1 /\ received' = received
    BY DEF Crash
<1>2. \A n \in Nat : PageStarts(n)' = PageStarts(n)
    BY <1>1 DEF PageStarts, Afresh
<1>3. crashes \in Nat
    BY IncidentDeliveryAssumption DEF DeliveryInv, TypeOK, IncidentDeliveryAssumption
<1>4. \A n \in Nat : Cardinality(PageStarts(n)) <= crashes + 1
    BY <1>3, FiniteStarts DEF PagesInv
<1>5. QED
    BY <1>1, <1>2, <1>4 DEF PagesInv

-----------------------------------------------------------------------------
(* What has arrived at a destination, what waits for it, and what deliver  *)
(* has taken charge of for it.                                             *)

\* What is to be delivered has not arrived anywhere where it is still to be sent.
Fresh ==
    \A e \in emitters, d \in Destination : \A m \in Coming(e) :
        HasArrived(d, m) => m = e.msg /\ Done(e, d)

\* What has arrived was decided, and released if it had been suppressed.
Told ==
    \A d \in Destination : \A k \in DOMAIN received[d] :
        /\ received[d][k].n \in 1 .. Len(decided)
        /\ received[d][k].note = "released" => received[d][k].n \in Freed(incidents)

\* What waits and has arrived is first in line, and was the last to arrive.
FirstInLine ==
    \A k \in DOMAIN outbox :
        Regular(outbox[k].msg) /\ HasArrived(outbox[k].to, outbox[k].msg) =>
            /\ \A l \in DOMAIN outbox : l < k => outbox[l].to # outbox[k].to
            /\ received[outbox[k].to] # <<>>
            /\ Last(received[outbox[k].to]) = outbox[k].msg

Accepted == AtItem("sent") => HasArrived(Item.to, Item.msg)

\* A goroutine that holds deliveryMu delivers what was handed over last.
Charged ==
    /\ \A e \in emitters : e.stage = "sending" =>
          /\ handed # <<>> /\ handed[Len(handed)] = e.msg
          /\ ToSet(e.left) \subseteq ToSet(Route[KindOf(e.msg)])
          /\ \A f \in emitters : f.stage = "sending" => e = f
    /\ \A k \in DOMAIN handed : handed[k].n \in 1 .. Len(decided)

LineInv ==
    /\ crashes = 0 => Fresh /\ Told /\ FirstInLine /\ DeliveredInOrder
    /\ Accepted
    /\ Charged

LEMMA Types ==
    ASSUME DeliveryInv
    PROVE  /\ outbox \in Seq(Delivery) /\ DOMAIN outbox = 1 .. Len(outbox) /\ Len(outbox) \in Nat
           /\ handed \in Seq(Message) /\ DOMAIN handed = 1 .. Len(handed) /\ Len(handed) \in Nat
           /\ received \in [Destination -> Seq(Message)]
           /\ \A d \in Destination : /\ received[d] \in Seq(Message) /\ Len(received[d]) \in Nat
                                     /\ DOMAIN received[d] = 1 .. Len(received[d])
           /\ \A k \in DOMAIN outbox : outbox[k].to \in Destination /\ outbox[k].msg \in Message
           /\ [k \in DOMAIN outbox |-> outbox[k].msg] \in Seq(Message)
           /\ emitters \subseteq Emitter
           /\ decided \in Seq(Transition) /\ Len(decided) \in Nat
<1>1. /\ outbox \in Seq(Delivery) /\ handed \in Seq(Message)
      /\ received \in [Destination -> Seq(Message)] /\ emitters \subseteq Emitter
      /\ decided \in Seq(Transition)
    BY DEF DeliveryInv, TypeOK
<1>2. DOMAIN outbox = 1 .. Len(outbox) /\ Len(outbox) \in Nat
    BY <1>1
<1>3. \A k \in DOMAIN outbox : outbox[k].to \in Destination /\ outbox[k].msg \in Message
    <2>1. \A k \in DOMAIN outbox : outbox[k] \in Delivery
        BY <1>1
    <2>2. QED
        BY <2>1 DEF Delivery
<1>4. [k \in DOMAIN outbox |-> outbox[k].msg] \in [1 .. Len(outbox) -> Message]
    BY <1>2, <1>3
<1>5. [k \in DOMAIN outbox |-> outbox[k].msg] \in Seq(Message)
    BY <1>2, <1>4
<1>6. \A d \in Destination : /\ received[d] \in Seq(Message) /\ Len(received[d]) \in Nat
                             /\ DOMAIN received[d] = 1 .. Len(received[d])
    BY <1>1
<1>7. QED
    BY <1>1, <1>2, <1>3, <1>5, <1>6

\* Something arrives.
LEMMA Arriving ==
    ASSUME DeliveryInv, NEW to \in Destination, NEW m \in Message, Receive(to, m)
    PROVE  /\ received'[to] # <<>> /\ Last(received'[to]) = m
           /\ \A d \in Destination :
                 /\ d # to => received'[d] = received[d]
                 /\ \A x : HasArrived(d, x)' <=> HasArrived(d, x) \/ (d = to /\ x = m)
           /\ received[to] # <<>> /\ Last(received[to]) = m => Arrived(to)' = Arrived(to)
           /\ ~Regular(m) => Arrived(to)' = Arrived(to)
           /\ Regular(m) /\ ~HasArrived(to, m) => Arrived(to)' = Append(Arrived(to), m)
           /\ \A d \in Destination : d # to => Arrived(d)' = Arrived(d)
<1> DEFINE r == received[to]
           L == Len(r)
           t == Append(r, m)
<1>1. /\ r \in Seq(Message) /\ L \in Nat /\ DOMAIN r = 1 .. L
      /\ received' = [received EXCEPT ![to] = t] /\ received \in [Destination -> Seq(Message)]
    BY Types DEF Receive
<1>2. received'[to] = t /\ \A d \in Destination : d # to => received'[d] = received[d]
    BY <1>1
<1>3. /\ t \in Seq(Message) /\ Len(t) = L + 1 /\ DOMAIN t = 1 .. L + 1 /\ t[L + 1] = m
      /\ \A k \in 1 .. L : t[k] = r[k]
      /\ t # <<>> /\ Last(t) = m
    <2>1. /\ t \in Seq(Message) /\ Len(t) = L + 1 /\ t[L + 1] = m
          /\ \A k \in 1 .. L : t[k] = r[k]
        BY <1>1
    <2> HIDE DEF t
    <2>2. DOMAIN t = 1 .. L + 1 /\ t # <<>>
        BY <1>1, <2>1
    <2>3. QED
        BY <2>1, <2>2 DEF Last
<1> HIDE DEF r, L, t
<1>4. ASSUME NEW d \in Destination, NEW x
      PROVE  HasArrived(d, x)' <=> HasArrived(d, x) \/ (d = to /\ x = m)
    <2>1. CASE d # to
        BY <1>2, <2>1 DEF HasArrived
    <2>2. CASE d = to
        <3>1. HasArrived(d, x)' <=> \E k \in 1 .. L + 1 : t[k] = x
            BY <1>2, <1>3, <2>2 DEF HasArrived
        <3>2. HasArrived(d, x) <=> \E k \in 1 .. L : r[k] = x
            BY <1>1, <2>2 DEF HasArrived, r
        <3>3. \A k : k \in 1 .. L + 1 <=> k \in 1 .. L \/ k = L + 1
            BY <1>1
        <3>4. QED
            BY <1>3, <2>2, <3>1, <3>2, <3>3
    <2>3. QED
        BY <2>1, <2>2
<1> DEFINE new == L = 0 \/ r[L] # m
           S == {k \in Afresh(to) : Regular(r[k])}
           T == {k \in 1 .. L + 1 : (k = 1 \/ t[k] # t[k - 1]) /\ Regular(t[k])}
<1>5. Arrived(to)' = At(T, t)
    BY <1>2, <1>3 DEF Arrived, Afresh, T
<1>6. Arrived(to) = At(S, r) /\ S \in SUBSET DOMAIN r
    BY DEF Arrived, Afresh, r, S
<1>7. \A k \in 1 .. L : k \in S <=> k \in T
    <2>1. \A k \in 1 .. L : k # 1 => k - 1 \in 1 .. L
        BY <1>1
    <2>2. \A k \in 1 .. L : k \in 1 .. L + 1
        BY <1>1
    <2>3. QED
        BY <1>1, <1>3, <2>1, <2>2 DEF Afresh, r
<1>8. L + 1 \in T <=> new /\ Regular(m)
    <2>1. L # 0 => L + 1 # 1 /\ (L + 1) - 1 = L /\ L \in 1 .. L
        BY <1>1
    <2>2. L + 1 \in 1 .. L + 1 /\ (L = 0 => L + 1 = 1)
        BY <1>1
    <2>3. QED
        BY <1>3, <2>1, <2>2
<1>9. /\ T = IF new /\ Regular(m) THEN S \cup {L + 1} ELSE S
    <2>1. \A k \in T : k \in 1 .. L \/ k = L + 1
        BY <1>1
    <2>2. \A k \in S : k \in 1 .. L
        BY <1>1, <1>6
    <2> HIDE DEF S, T, new
    <2>3. QED
        BY <1>7, <1>8, <2>1, <2>2
<1> HIDE DEF S, T
<1>10. /\ At(S, t) = At(S, r)
       /\ At(S \cup {L + 1}, t) = Append(At(S, r), m)
    <2>1. S \in SUBSET DOMAIN t /\ L + 1 \in DOMAIN t /\ \A i \in S : i < L + 1
        BY <1>1, <1>3, <1>6
    <2>2. At(S, t) = At(S, r)
        <3> DEFINE f == [k \in S |-> k]
        <3>1. /\ f \in [S -> S] /\ \A i \in S : \E k \in S : f[k] = i
              /\ \A j, k \in S : j < k => f[j] < f[k]
              /\ \A k \in S : t[k] = r[f[k]]
            BY <1>1, <1>3, <1>6
        <3> HIDE DEF f
        <3>2. QED
            BY <1>1, <1>3, <1>6, <2>1, <3>1, SelectedSame
    <2>3. At(S \cup {L + 1}, t) = Append(At(S, t), t[L + 1])
        BY <1>3, <2>1, SelectedLast
    <2>4. QED
        BY <1>3, <2>2, <2>3
<1>11. ~new \/ ~Regular(m) => Arrived(to)' = Arrived(to)
    BY <1>5, <1>6, <1>9, <1>10
<1>12. new /\ Regular(m) => Arrived(to)' = Append(Arrived(to), m)
    BY <1>5, <1>6, <1>9, <1>10
<1>13. received[to] # <<>> /\ Last(received[to]) = m => ~new
    BY <1>1 DEF r, L, Last
<1>14. ~HasArrived(to, m) => new
    <2>1. L # 0 => L \in DOMAIN r
        BY <1>1
    <2>2. QED
        BY <2>1 DEF HasArrived, r
<1>15. \A d \in Destination : d # to => Arrived(d)' = Arrived(d)
    BY <1>2 DEF Arrived, Afresh
<1> HIDE DEF new
<1>16. QED
    BY <1>2, <1>3, <1>4, <1>11, <1>12, <1>13, <1>14, <1>15

LEMMA MessagesTyped == DeliveryInv => [k \in DOMAIN outbox |-> outbox[k].msg] \in Seq(Message)
BY Types

\* What waits, when the outbox changes and nothing arrives.
LEMMA WaitingOn ==
    ASSUME DeliveryInv, DeliveryInv', UNCHANGED received, NEW d \in Destination,
           NEW f \in [{k \in DOMAIN outbox : Waits(k, d)}' -> {k \in DOMAIN outbox : Waits(k, d)}],
           \A i \in {k \in DOMAIN outbox : Waits(k, d)} :
               \E k \in {k \in DOMAIN outbox : Waits(k, d)}' : f[k] = i,
           \A j, k \in {k \in DOMAIN outbox : Waits(k, d)}' : j < k => f[j] < f[k],
           \A k \in {k \in DOMAIN outbox : Waits(k, d)}' : outbox'[k].msg = outbox[f[k]].msg
    PROVE  Waiting(d)' = Waiting(d)
<1> DEFINE s == [k \in DOMAIN outbox |-> outbox[k].msg]
           t == [k \in DOMAIN outbox' |-> outbox'[k].msg]
           S == {k \in DOMAIN outbox : Waits(k, d)}
           T == S'
<1>1. s \in Seq(Message) /\ t \in Seq(Message)
    <2>1. s \in Seq(Message) /\ s' \in Seq(Message)
        <3>1. (DeliveryInv => [k \in DOMAIN outbox |-> outbox[k].msg] \in Seq(Message))'
            BY MessagesTyped, PTL
        <3>2. QED
            BY <3>1, MessagesTyped
    <2>2. QED
        BY <2>1
<1>2. S \in SUBSET DOMAIN s /\ T \in SUBSET DOMAIN t
    OBVIOUS
<1>3. Waiting(d) = At(S, s) /\ Waiting(d)' = At(T, t)
    BY DEF Waiting
<1>4. f \in [T -> S] /\ \A k \in T : t[k] = s[f[k]]
    OBVIOUS
<1>5. (\A i \in S : \E k \in T : f[k] = i) /\ \A j, k \in T : j < k => f[j] < f[k]
    OBVIOUS
<1> HIDE DEF s, t, S, T
<1>6. At(T, t) = At(S, s)
    BY <1>1, <1>2, <1>4, <1>5, SelectedSame
<1>7. QED
    BY <1>3, <1>6

\* What is taken out of the outbox has arrived, or was an escalation.
KeepsWaiting ==
    /\ Thins(outbox', outbox)
    /\ \A k \in DOMAIN outbox : Waits(k, outbox[k].to) =>
          \E j \in DOMAIN outbox' : outbox'[j].to = outbox[k].to /\ outbox'[j].msg = outbox[k].msg

LEMMA WaitingKept ==
    ASSUME DeliveryInv, DeliveryInv', UNCHANGED received, KeepsWaiting, NEW d \in Destination
    PROVE  Waiting(d)' = Waiting(d)
<1> DEFINE S == {k \in DOMAIN outbox : Waits(k, d)}
<1>1. PICK g \in [DOMAIN outbox' -> DOMAIN outbox] :
          /\ \A k \in DOMAIN outbox' : outbox'[k].to = outbox[g[k]].to /\ outbox'[k].msg = outbox[g[k]].msg
          /\ \A j, k \in DOMAIN outbox' : j < k => g[j] < g[k]
    BY DEF KeepsWaiting, Thins
<1>2. \A k \in DOMAIN outbox' : g[k] \in DOMAIN outbox
    OBVIOUS
<1>3. \A k \in DOMAIN outbox' : Waits(k, d)' <=> Waits(g[k], d)
    BY <1>1, <1>2 DEF Waits, HasArrived
<1> DEFINE f == [k \in S' |-> g[k]]
<1>4. f \in [S' -> S]
    BY <1>2, <1>3
<1>5. \A i \in S : \E k \in S' : f[k] = i
    <2> SUFFICES ASSUME NEW i \in DOMAIN outbox, Waits(i, d)
                 PROVE  \E k \in DOMAIN outbox' : Waits(k, d)' /\ g[k] = i
        OBVIOUS
    <2>1. PICK k \in DOMAIN outbox' : outbox'[k].to = outbox[i].to /\ outbox'[k].msg = outbox[i].msg
        BY DEF KeepsWaiting, Waits
    <2>2. g[k] = i
        BY <1>1, <1>2, <2>1 DEF DeliveryInv, Sound
    <2>3. QED
        BY <1>3, <2>2
<1>6. \A j, k \in S' : j < k => f[j] < f[k]
    BY <1>1
<1>7. \A k \in S' : outbox'[k].msg = outbox[f[k]].msg
    BY <1>1
<1> HIDE DEF f
<1>8. QED
    BY <1>4, <1>5, <1>6, <1>7, WaitingOn

\* What deliver has taken charge of.
LEMMA TakenOn ==
    ASSUME DeliveryInv, Charged, UNCHANGED handed,
           \A n \in 1 .. Len(decided) : decided'[n] = decided[n],
           NEW d \in Destination, ToBeSent(d)' <=> ToBeSent(d)
    PROVE  TakenFor(d)' = TakenFor(d)
<1>1. \A k \in DOMAIN handed : KindOf(handed[k])' = KindOf(handed[k])
    BY DEF Charged, KindOf
<1>2. \A k \in DOMAIN handed : IsTaken(k, d)' <=> IsTaken(k, d)
    BY <1>1 DEF IsTaken
<1>3. {k \in DOMAIN handed : IsTaken(k, d)}' = {k \in DOMAIN handed : IsTaken(k, d)}
    BY <1>2
<1>4. QED
    BY <1>3 DEF TakenFor

\* An emitter that goes on, or a new one, is none that has begun to send.
Sending == {e \in emitters : e.stage = "sending"}

LEMMA LinesOn ==
    ASSUME DeliveryInv, DeliveryInv', LineInv, UNCHANGED <<received, handed, crashes>>,
           \A n \in 1 .. Len(decided) : decided'[n] = decided[n], Len(decided) <= Len(decided'),
           KeepsWaiting, Freed(incidents) \subseteq Freed(incidents'),
           Sending' \subseteq Sending, \A e \in Sending : e \in Sending' \/ e.left = <<>>,
           crashes = 0 => Fresh', Accepted'
    PROVE  LineInv'
<1>1. Charged'
    <2>1. \A k \in DOMAIN handed : handed[k].n \in 1 .. Len(decided')
        BY Types DEF LineInv, Charged
    <2>2. \A m \in Message : m.n \in 1 .. Len(decided) => KindOf(m)' = KindOf(m)
        BY DEF KindOf
    <2>3. ASSUME NEW e \in emitters', e.stage = "sending"
          PROVE  /\ handed # <<>> /\ handed[Len(handed)] = e.msg
                 /\ ToSet(e.left) \subseteq ToSet(Route[KindOf(e.msg)'])
                 /\ \A f \in emitters' : f.stage = "sending" => e = f
        <3>1. \A f \in emitters' : f.stage = "sending" => f \in emitters
            BY DEF Sending
        <3>2. e \in emitters /\ e.msg \in Message /\ e.msg.n \in 1 .. Len(decided)
            <4>1. e \in emitters
                BY <2>3, <3>1
            <4>2. e \in Emitter /\ e.msg \in Coming(e)
                BY <4>1, Types DEF Coming
            <4>3. e.msg.n \in 1 .. Len(decided)
                BY <4>1, <4>2 DEF DeliveryInv, EmittersOK, EmitterOK
            <4>4. QED
                BY <4>1, <4>2, <4>3 DEF Emitter
        <3>3. KindOf(e.msg)' = KindOf(e.msg)
            BY <3>2 DEF KindOf
        <3>4. QED
            BY <2>3, <3>1, <3>2, <3>3 DEF LineInv, Charged
    <2>4. QED
        BY <2>1, <2>3 DEF Charged, KindOf
<1>2. ASSUME crashes = 0 PROVE Told'
    BY <1>2, Types DEF LineInv, Told
<1>3. ASSUME crashes = 0 PROVE FirstInLine'
    <2>1. PICK g \in [DOMAIN outbox' -> DOMAIN outbox] :
              /\ \A k \in DOMAIN outbox' : /\ outbox'[k].to = outbox[g[k]].to
                                           /\ outbox'[k].msg = outbox[g[k]].msg
              /\ \A j, k \in DOMAIN outbox' : j < k => g[j] < g[k]
        BY DEF KeepsWaiting, Thins
    <2>2. \A k \in DOMAIN outbox' : g[k] \in DOMAIN outbox
        OBVIOUS
    <2>3. \A d, m : HasArrived(d, m)' <=> HasArrived(d, m)
        BY DEF HasArrived
    <2>4. QED
        BY <1>3, <2>1, <2>2, <2>3 DEF LineInv, FirstInLine
<1>4. ASSUME crashes = 0 PROVE DeliveredInOrder'
    <2> SUFFICES ASSUME NEW d \in Destination PROVE Arrived(d)' \o Waiting(d)' = TakenFor(d)'
        BY DEF DeliveredInOrder
    <2>1. Arrived(d)' = Arrived(d)
        BY DEF Arrived, Afresh
    <2>2. Waiting(d)' = Waiting(d)
        BY WaitingKept
    <2>3. ToBeSent(d)' <=> ToBeSent(d)
        <3>1. ToBeSent(d) <=> \E e \in Sending : d \in ToSet(e.left)
            BY DEF ToBeSent, Sending
        <3>2. ToBeSent(d)' <=> \E e \in Sending' : d \in ToSet(e.left)
            BY DEF ToBeSent, Sending
        <3>3. \A e \in Sending : d \in ToSet(e.left) => e.left # <<>>
            BY DEF ToSet
        <3>4. QED
            BY <3>1, <3>2, <3>3
    <2>4. TakenFor(d)' = TakenFor(d)
        BY <2>3, TakenOn DEF LineInv
    <2>5. QED
        BY <1>4, <2>1, <2>2, <2>4 DEF LineInv, DeliveredInOrder
<1>5. QED
    BY <1>1, <1>2, <1>3, <1>4 DEF LineInv

LEMMA KeepsAll == ASSUME DeliveryInv, UNCHANGED outbox PROVE KeepsWaiting
BY ThinsItself DEF KeepsWaiting

LEMMA KeepsCancelled ==
    ASSUME DeliveryInv, NEW i, outbox' = WithoutEscalations(i)
    PROVE  KeepsWaiting
<1> DEFINE S == {k \in DOMAIN outbox : ~(/\ outbox[k].msg.note = "escalation"
                                         /\ outbox[k].msg.n = incidents[i].n)}
<1>1. outbox' = At(S, outbox) /\ S \in SUBSET DOMAIN outbox /\ outbox \in Seq(Delivery)
    BY Types DEF WithoutEscalations
<1>2. \A k \in DOMAIN outbox : Waits(k, outbox[k].to) => k \in S
    BY DEF Waits, Regular
<1> HIDE DEF S
<1>3. /\ DOMAIN At(S, outbox) = 1 .. Cardinality(S)
      /\ \A k \in 1 .. Cardinality(S) : At(S, outbox)[k] = outbox[InOrder(S)[k]]
      /\ \A k \in S : \E j \in 1 .. Cardinality(S) : InOrder(S)[j] = k
    BY <1>1, AtPositions
<1>4. \A k \in S : \E j \in DOMAIN outbox' : outbox'[j] = outbox[k]
    BY <1>1, <1>3
<1>5. Thins(outbox', outbox)
    BY <1>1, AtThins
<1>6. QED
    BY <1>2, <1>4, <1>5 DEF KeepsWaiting

LEMMA FreshOn ==
    ASSUME Fresh, UNCHANGED received,
           \A f \in emitters' :
               \/ f \in emitters
               \/ \E e \in emitters : /\ f.msg = e.msg /\ f.next = e.next
                                      /\ \A d \in Destination : Done(e, d) => Done(f, d)
               \/ \A d \in Destination : \A m \in Coming(f) : ~HasArrived(d, m)
    PROVE  Fresh'
<1>1. \A d, m : HasArrived(d, m)' <=> HasArrived(d, m)
    BY DEF HasArrived
<1> SUFFICES ASSUME NEW f \in emitters', NEW d \in Destination, NEW m \in Coming(f), HasArrived(d, m)
             PROVE  m = f.msg /\ Done(f, d)
    BY <1>1 DEF Fresh, Coming, Done
<1>2. CASE f \in emitters
    BY <1>2 DEF Fresh
<1>3. CASE \E e \in emitters : /\ f.msg = e.msg /\ f.next = e.next
                               /\ \A c \in Destination : Done(e, c) => Done(f, c)
    BY <1>3 DEF Fresh, Coming
<1>4. QED
    BY <1>2, <1>3

\* Steps in which no delivery begins, goes on or ends, and nothing is tried.
LEMMA LinesSame ==
    ASSUME DeliveryInv, DeliveryInv', LineInv,
           \/ ChangeSuppression \/ PersistElsewhere \/ UNCHANGED vars
           \/ Skip \/ Select \/ EndRound
           \/ \E i \in DOMAIN incidents : Acknowledge(i) \/ Resolve(i)
    PROVE  LineInv'
<1>1. UNCHANGED <<received, handed, crashes, decided, emitters>>
    BY DEF ChangeSuppression, PersistElsewhere, vars, Skip, Select, EndRound, Acknowledge, Resolve
<1>2. /\ outbox' = outbox \/ \E i \in DOMAIN incidents : outbox' = WithoutEscalations(i)
    BY DEF ChangeSuppression, PersistElsewhere, vars, Skip, Select, EndRound, Acknowledge, Resolve, Close
<1>3. KeepsWaiting
    BY <1>2, KeepsAll, KeepsCancelled
<1>4. Freed(incidents) \subseteq Freed(incidents')
    <2>1. CASE incidents' = incidents
        BY <2>1
    <2>2. ASSUME NEW i \in DOMAIN incidents, NEW new \in Incident, new.n = incidents[i].n,
                 new.suppressed = incidents[i].suppressed, incidents' = [incidents EXCEPT ![i] = new]
          PROVE  Freed(incidents) \subseteq Freed(incidents')
        BY <2>2 DEF Freed, DeliveryInv, TypeOK
    <2>3. ASSUME NEW i \in DOMAIN incidents, Acknowledge(i) PROVE Freed(incidents) \subseteq Freed(incidents')
        <3> DEFINE new == [incidents[i] EXCEPT !.acked = TRUE]
        <3>1. incidents[i] \in Incident
            BY DEF DeliveryInv, TypeOK
        <3>2. new \in Incident /\ new.n = incidents[i].n /\ new.suppressed = incidents[i].suppressed
            BY <3>1 DEF Incident
        <3>3. incidents' = [incidents EXCEPT ![i] = new]
            BY <2>3 DEF Acknowledge
        <3> HIDE DEF new
        <3>4. QED
            BY <2>2, <3>2, <3>3
    <2>4. ASSUME NEW i \in DOMAIN incidents, Resolve(i) PROVE Freed(incidents) \subseteq Freed(incidents')
        <3> DEFINE new == [incidents[i] EXCEPT !.active = FALSE]
        <3>1. incidents[i] \in Incident
            BY DEF DeliveryInv, TypeOK
        <3>2. new \in Incident /\ new.n = incidents[i].n /\ new.suppressed = incidents[i].suppressed
            BY <3>1 DEF Incident
        <3>3. incidents' = [incidents EXCEPT ![i] = new]
            BY <2>4 DEF Resolve, Close
        <3> HIDE DEF new
        <3>4. QED
            BY <2>2, <3>2, <3>3
    <2>5. (\E i \in DOMAIN incidents : Acknowledge(i) \/ Resolve(i)) \/ incidents' = incidents
        BY DEF ChangeSuppression, PersistElsewhere, vars, Skip, Select, EndRound
    <2>6. QED
        BY <2>1, <2>3, <2>4, <2>5
<1>5. Sending' = Sending
    BY <1>1 DEF Sending
<1>6. Fresh => Fresh'
    BY <1>1, FreshOn
<1>7. Accepted'
    <2>1. CASE round' = round
        BY <1>1, <2>1 DEF LineInv, Accepted, AtItem, Item, HasArrived
    <2>2. CASE Skip \/ Select \/ EndRound
        <3>1. round'.stage # "sent"
            <4>1. CASE Skip
                <5>1. /\ round = [stage |-> "next", items |-> round.items, blocked |-> round.blocked]
                    BY <4>1, TheItem DEF Skip
                <5>2. \/ round' = [round EXCEPT !.items = Tail(@)]
                      \/ round' = [round EXCEPT !.items = Tail(@), !.blocked = Block]
                    BY <4>1 DEF Skip
                <5>3. CASE round' = [round EXCEPT !.items = Tail(@)]
                    BY <5>1, <5>3
                <5>4. CASE round' = [round EXCEPT !.items = Tail(@), !.blocked = Block]
                    BY <5>1, <5>4
                <5>5. QED
                    BY <5>2, <5>3, <5>4
            <4>2. CASE Select
                <5>1. /\ round = [stage |-> "next", items |-> round.items, blocked |-> round.blocked]
                    BY <4>2, TheItem DEF Select
                <5>2. round' = [round EXCEPT !.stage = "trying"]
                    BY <4>2 DEF Select
                <5>3. QED
                    BY <5>1, <5>2
            <4>3. CASE EndRound
                BY <4>3 DEF EndRound, Idle
            <4>4. QED
                BY <2>2, <4>1, <4>2, <4>3
        <3>2. QED
            BY <3>1 DEF Accepted, AtItem
    <2>3. round' = round \/ Skip \/ Select \/ EndRound
        BY DEF ChangeSuppression, PersistElsewhere, vars, Acknowledge, Resolve
    <2>4. QED
        BY <2>1, <2>2, <2>3
<1>8. Len(decided) <= Len(decided)
    BY Types
<1>9. QED
    BY <1>1, <1>3, <1>4, <1>5, <1>6, <1>7, <1>8, LinesOn DEF LineInv

LEMMA LinesSettle ==
    ASSUME DeliveryInv, DeliveryInv', LineInv, SettleAccepted \/ SettleRefused
    PROVE  LineInv'
<1>1. UNCHANGED <<received, handed, crashes, decided, emitters, incidents>>
    BY DEF SettleAccepted, SettleRefused
<1>2. ASSUME SettleAccepted PROVE KeepsWaiting
    <2>1. /\ AtItem("sent") /\ outbox' = RemoveAt(outbox, PositionOf(Item))
        BY <1>2 DEF SettleAccepted
    <2> DEFINE p == PositionOf(Item)
    <2>2. p \in DOMAIN outbox /\ outbox[p].to = Item.to /\ outbox[p].msg = Item.msg
        BY <2>1, TheItem
    <2>3. HasArrived(Item.to, Item.msg)
        BY <2>1 DEF LineInv, Accepted
    <2> HIDE DEF p
    <2>4. ~Waits(p, outbox[p].to)
        BY <2>2, <2>3 DEF Waits
    <2>5. outbox' = RemoveAt(outbox, p) /\ outbox \in Seq(Delivery)
        BY <2>1, Types DEF p
    <2>6. Thins(outbox', outbox)
        BY <2>2, <2>5, RemoveAtThins
    <2>7. ASSUME NEW k \in DOMAIN outbox, k # p
          PROVE  \E j \in DOMAIN outbox' : outbox'[j] = outbox[k]
        <3>1. /\ outbox' \in Seq(Delivery) /\ Len(outbox') = Len(outbox) - 1
              /\ \A j \in 1 .. p - 1 : outbox'[j] = outbox[j]
              /\ \A j \in p .. Len(outbox) - 1 : outbox'[j] = outbox[j + 1]
            BY <2>2, <2>5, WithoutOne
        <3>2. DOMAIN outbox = 1 .. Len(outbox) /\ Len(outbox) \in Nat
            BY Types
        <3>3. DOMAIN outbox' = 1 .. Len(outbox) - 1
            BY <3>1, <3>2
        <3>4. CASE k < p
            <4>1. k \in 1 .. p - 1 /\ k \in 1 .. Len(outbox) - 1
                BY <2>2, <3>2, <3>4
            <4>2. QED
                BY <3>1, <3>3, <4>1
        <3>5. CASE p < k
            <4>1. k - 1 \in p .. Len(outbox) - 1 /\ k - 1 \in 1 .. Len(outbox) - 1 /\ (k - 1) + 1 = k
                BY <2>2, <3>2, <3>5
            <4>2. QED
                BY <3>1, <3>3, <4>1
        <3>6. QED
            BY <2>2, <2>7, <3>2, <3>4, <3>5
    <2>8. QED
        BY <2>4, <2>6, <2>7 DEF KeepsWaiting
<1>3. ASSUME SettleRefused PROVE KeepsWaiting
    <2>1. /\ AtItem("refused") /\ outbox' = [outbox EXCEPT ![PositionOf(Item)].tried = TRUE]
        BY <1>3 DEF SettleRefused
    <2> DEFINE p == PositionOf(Item)
    <2>2. p \in DOMAIN outbox
        BY <2>1, TheItem
    <2>3. outbox \in Seq(Delivery) /\ outbox' = [outbox EXCEPT ![p].tried = TRUE]
        BY <2>1, Types
    <2> HIDE DEF p
    <2>4. Thins(outbox', outbox)
        BY <2>2, <2>3, TriedThins
    <2>5. \A k \in DOMAIN outbox : k \in DOMAIN outbox' /\ outbox'[k].to = outbox[k].to
                                   /\ outbox'[k].msg = outbox[k].msg
        <3>1. \A k \in DOMAIN outbox : outbox[k] \in Delivery
            BY <2>3
        <3>2. QED
            BY <2>2, <2>3, <3>1 DEF Delivery
    <2>6. QED
        BY <2>4, <2>5 DEF KeepsWaiting
<1>4. KeepsWaiting
    BY <1>2, <1>3
<1>5. Sending' = Sending
    BY <1>1 DEF Sending
<1>6. Fresh => Fresh'
    BY <1>1, FreshOn
<1>7. Accepted'
    <2>1. PICK stage \in {"sent", "refused"} :
              /\ AtItem(stage)
              /\ \/ round' = [round EXCEPT !.stage = "next", !.items = Tail(@)]
                 \/ round' = [round EXCEPT !.stage = "next", !.items = Tail(@), !.blocked = Block]
        BY DEF SettleAccepted, SettleRefused
    <2>2. round = [stage |-> stage, items |-> round.items, blocked |-> round.blocked]
        BY <2>1, TheItem
    <2>3. round'.stage = "next"
        BY <2>1, <2>2
    <2>4. QED
        BY <2>3 DEF Accepted, AtItem
<1>8. Len(decided) <= Len(decided)
    BY Types
<1>9. QED
    BY <1>1, <1>4, <1>5, <1>6, <1>7, <1>8, LinesOn DEF LineInv

LEMMA LinesDecide ==
    ASSUME DeliveryInv, DeliveryInv', LineInv, NEW s \in Subject, Decide(s)
    PROVE  LineInv'
<1> DEFINE new == [msg |-> [n |-> Len(decided'), note |-> "news"], stage |-> "reading",
                   hushed |-> FALSE, left |-> <<>>, next |-> <<>>]
<1>1. /\ UNCHANGED <<received, handed, crashes, incidents, outbox, round>>
      /\ emitters' = emitters \cup {new}
      /\ \E x : decided' = Append(decided, x)
    BY DEF Decide
<1>2. /\ decided \in Seq(Transition) /\ Len(decided) \in Nat
      /\ decided' \in Seq(Transition)
    BY Types DEF DeliveryInv, TypeOK
<1>3. /\ Len(decided') = Len(decided) + 1 /\ \A n \in 1 .. Len(decided) : decided'[n] = decided[n]
    BY <1>1, <1>2
<1>4. Coming(new) = {[n |-> Len(decided) + 1, note |-> "news"]} /\ new.stage = "reading"
    BY <1>3 DEF Coming
<1> HIDE DEF new
<1>5. Sending' = Sending
    BY <1>1, <1>4 DEF Sending
<1>6. ASSUME crashes = 0 PROVE Fresh'
    <2>1. \A d \in Destination : \A m \in Coming(new) : ~HasArrived(d, m)
        <3> SUFFICES ASSUME NEW d \in Destination, NEW k \in DOMAIN received[d]
                     PROVE  received[d][k] # [n |-> Len(decided) + 1, note |-> "news"]
            BY <1>4 DEF HasArrived
        <3>1. received[d][k].n \in 1 .. Len(decided)
            BY <1>6 DEF LineInv, Told
        <3>2. received[d][k].n # Len(decided) + 1
            BY <1>2, <3>1
        <3>3. QED
            BY <3>2
    <2>2. Fresh
        BY <1>6 DEF LineInv
    <2>3. QED
        BY <1>1, <2>1, <2>2, FreshOn
<1>7. Accepted'
    BY <1>1 DEF LineInv, Accepted, AtItem, Item, HasArrived
<1>8. Len(decided) <= Len(decided')
    BY <1>2, <1>3
<1>9. KeepsWaiting
    BY <1>1, KeepsAll
<1>10. Freed(incidents) \subseteq Freed(incidents')
    BY <1>1
<1>11. QED
    BY <1>1, <1>3, <1>5, <1>6, <1>7, <1>8, <1>9, <1>10, LinesOn

\* An emitter that is not delivering, or has done so.
LEMMA LinesEmitter ==
    ASSUME DeliveryInv, DeliveryInv', LineInv, NEW e \in emitters,
           \/ ReadSuppression(e) \/ SaveIncident(e) \/ RecordIncident(e) \/ EndDelivery(e) \/ Finish(e)
    PROVE  LineInv'
<1>1. /\ UNCHANGED <<received, handed, crashes, decided, round>>
      /\ \/ outbox' = outbox /\ incidents' = incidents
         \/ RecordIncident(e)
    BY DEF ReadSuppression, SaveIncident, RecordIncident, EndDelivery, Finish
<1>2. e \in Emitter
    BY Types
<1>3. KeepsWaiting /\ Freed(incidents) \subseteq Freed(incidents')
    <2>1. CASE outbox' = outbox /\ incidents' = incidents
        BY <2>1, KeepsAll
    <2>2. CASE RecordIncident(e)
        <3> DEFINE c == decided[e.msg.n].subject
                   new == [n |-> e.msg.n, active |-> TRUE, acked |-> FALSE, suppressed |-> e.hushed]
        <3>1. CASE Opens(decided[e.msg.n])
            <4>1. incidents' = Append(incidents, new) /\ outbox' = outbox /\ incidents \in Seq(Incident)
                BY <2>2, <3>1 DEF RecordIncident, DeliveryInv, TypeOK
            <4> HIDE DEF new
            <4>2. \A i \in DOMAIN incidents : i \in DOMAIN incidents' /\ incidents'[i] = incidents[i]
                BY <4>1
            <4>3. QED
                BY <4>1, <4>2, KeepsAll DEF Freed
        <3>2. CASE ~Opens(decided[e.msg.n]) /\ Open(c) = {}
            <4>1. UNCHANGED <<incidents, outbox>>
                BY <2>2, <3>2 DEF RecordIncident
            <4>2. QED
                BY <4>1, KeepsAll
        <3>3. CASE ~Opens(decided[e.msg.n]) /\ Open(c) # {}
            <4> DEFINE i == Latest(Open(c))
                       shut == [incidents[i] EXCEPT !.active = FALSE]
            <4>1. incidents' = [incidents EXCEPT ![i].active = FALSE] /\ outbox' = WithoutEscalations(i)
                BY <2>2, <3>3 DEF RecordIncident, Close
            <4>2. i \in DOMAIN incidents
                <5>1. i \in Open(c)
                    BY <3>3, LatestOpen DEF DeliveryInv
                <5>2. QED
                    BY <5>1 DEF Open
            <4> HIDE DEF i
            <4>3. incidents[i] \in Incident
                BY <4>2 DEF DeliveryInv, TypeOK
            <4>4. shut.n = incidents[i].n /\ shut.suppressed = incidents[i].suppressed
                BY <4>3 DEF Incident
            <4>5. incidents' = [incidents EXCEPT ![i] = shut]
                BY <4>1, <4>2
            <4> HIDE DEF shut
            <4>6. Freed(incidents) \subseteq Freed(incidents')
                BY <4>2, <4>4, <4>5 DEF Freed
            <4>7. KeepsWaiting
                BY <4>1, KeepsCancelled
            <4>8. QED
                BY <4>6, <4>7
        <3>4. QED
            BY <3>1, <3>2, <3>3
    <2>3. QED
        BY <1>1, <2>1, <2>2
<1>4. CASE Finish(e)
    <2>1. emitters' = emitters \ {e} /\ e.stage = "finishing"
        BY <1>4 DEF Finish, Leave
    <2>2. Sending' = Sending
        BY <2>1 DEF Sending
    <2>3. Fresh => Fresh'
        BY <1>1, <2>1, FreshOn
    <2>4. Accepted'
        BY <1>1 DEF LineInv, Accepted, AtItem, Item, HasArrived
    <2>5. Len(decided) <= Len(decided)
        BY Types
    <2>6. QED
        BY <1>1, <1>3, <2>2, <2>3, <2>4, <2>5, LinesOn DEF LineInv
<1>5. ASSUME NEW f, emitters' = (emitters \ {e}) \cup {f}, f.stage # "sending",
             e.stage = "sending" => e.left = <<>>,
             \/ /\ f.msg = e.msg /\ f.next = e.next
                /\ \A d \in Destination : Done(e, d) => Done(f, d)
             \/ crashes = 0 => \A d \in Destination : \A m \in Coming(f) : ~HasArrived(d, m)
      PROVE  LineInv'
    <2>1. Sending' = Sending \ {e}
        BY <1>5 DEF Sending
    <2>2. crashes = 0 => Fresh'
        BY <1>1, <1>5, FreshOn DEF LineInv
    <2>3. Accepted'
        BY <1>1 DEF LineInv, Accepted, AtItem, Item, HasArrived
    <2>4. Len(decided) <= Len(decided)
        BY Types
    <2>5. \A g \in Sending : g \in Sending' \/ g.left = <<>>
        BY <1>5, <2>1 DEF Sending
    <2>6. QED
        BY <1>1, <1>3, <2>1, <2>2, <2>3, <2>4, <2>5, LinesOn
<1>6. CASE ReadSuppression(e)
    <2> DEFINE f == [e EXCEPT !.stage = "recording", !.hushed = quiet]
    <2>1. emitters' = (emitters \ {e}) \cup {f} /\ e.stage = "reading"
        BY <1>6 DEF ReadSuppression, Replace
    <2>2. f.stage = "recording" /\ f.msg = e.msg /\ f.next = e.next
        BY <1>2 DEF Emitter
    <2> HIDE DEF f
    <2>3. QED
        BY <1>5, <2>1, <2>2 DEF Done
<1>7. CASE SaveIncident(e)
    <2> DEFINE f == [e EXCEPT !.stage = IF e.hushed THEN "finishing" ELSE "waiting"]
    <2>1. emitters' = (emitters \ {e}) \cup {f} /\ e.stage = "saving"
        BY <1>7 DEF SaveIncident, Replace
    <2>2. f.stage \in {"finishing", "waiting"} /\ f.msg = e.msg /\ f.next = e.next
        BY <1>2 DEF Emitter
    <2> HIDE DEF f
    <2>3. QED
        BY <1>5, <2>1, <2>2 DEF Done
<1>8. CASE RecordIncident(e)
    <2> DEFINE f == [e EXCEPT !.stage = "saving"]
    <2>1. emitters' = (emitters \ {e}) \cup {f} /\ e.stage = "recording"
        BY <1>8 DEF RecordIncident, Replace
    <2>2. f.stage = "saving" /\ f.msg = e.msg /\ f.next = e.next
        BY <1>2 DEF Emitter
    <2> HIDE DEF f
    <2>3. QED
        BY <1>5, <2>1, <2>2 DEF Done
<1>9. CASE EndDelivery(e)
    <2> DEFINE f == IF e.next = <<>> THEN [e EXCEPT !.stage = "finishing"]
                    ELSE [e EXCEPT !.stage = "waiting", !.msg = Head(e.next), !.next = Tail(e.next)]
    <2>1. emitters' = (emitters \ {e}) \cup {f} /\ e.stage = "sending" /\ e.left = <<>>
        BY <1>9 DEF EndDelivery, Replace
    <2>2. CASE e.next = <<>>
        <3>1. f.stage = "finishing" /\ f.msg = e.msg /\ f.next = e.next
            BY <1>2, <2>2 DEF Emitter
        <3> HIDE DEF f
        <3>2. QED
            BY <1>5, <2>1, <3>1 DEF Done
    <2>3. CASE e.next # <<>>
        <3>1. /\ f.stage = "waiting" /\ f.msg = e.next[1] /\ f.next = Tail(e.next)
              /\ e.next \in Seq(Message)
            BY <1>2, <2>3 DEF Emitter
        <3> HIDE DEF f
        <3>2. /\ 1 \in DOMAIN e.next
              /\ \A j \in DOMAIN f.next : f.next[j] = e.next[j + 1] /\ j + 1 \in DOMAIN e.next
            BY <2>3, <3>1
        <3>3. \A m \in Coming(f) : m \in Coming(e) /\ m # e.msg
            <4>1. \A j \in DOMAIN e.next : e.next[j] # e.msg
                BY DEF DeliveryInv, EmittersOK, EmitterOK
            <4>2. QED
                BY <3>1, <3>2, <4>1 DEF Coming
        <3>4. crashes = 0 => \A d \in Destination : \A m \in Coming(f) : ~HasArrived(d, m)
            BY <3>3 DEF LineInv, Fresh
        <3>5. QED
            BY <1>5, <2>1, <3>1, <3>4
    <2>4. QED
        BY <2>2, <2>3
<1>10. QED
    BY <1>4, <1>6, <1>7, <1>8, <1>9

LEMMA LinesRelease ==
    ASSUME DeliveryInv, DeliveryInv', LineInv, ReleaseSuppressions
    PROVE  LineInv'
<1> DEFINE rel == Released
           c == Cardinality(Held)
           pos == InOrder(Held)
           new == [msg |-> Head(rel), stage |-> "waiting", hushed |-> FALSE, left |-> <<>>,
                   next |-> Tail(rel)]
<1>1. /\ UNCHANGED <<received, handed, crashes, decided, outbox, round>>
      /\ emitters' = emitters \cup {new}
      /\ incidents' = [i \in DOMAIN incidents |-> IF i \in Held
                          THEN [incidents[i] EXCEPT !.suppressed = FALSE] ELSE incidents[i]]
      /\ Held # {} /\ Held \in SUBSET DOMAIN incidents /\ \A i \in Held : incidents[i].suppressed
      /\ incidents \in Seq(Incident) /\ \A i \in DOMAIN incidents : incidents[i] \in Incident
    BY DEF ReleaseSuppressions, Held, DeliveryInv, TypeOK
<1>2. /\ c \in Nat /\ c > 0 /\ pos \in [1 .. c -> Held]
      /\ \A k \in 1 .. c : At(Held, incidents)[k] = incidents[pos[k]]
    BY <1>1, AtPositions
<1>3. rel = [k \in 1 .. c |-> [n |-> At(Held, incidents)[k].n, note |-> "released"]]
    BY DEF Released
<1>4. new.stage = "waiting" /\ new.msg = Head(rel) /\ new.next = Tail(rel)
    OBVIOUS
<1> HIDE DEF rel, c, pos, new
<1>5. \A k \in 1 .. c : /\ rel[k] = [n |-> incidents[pos[k]].n, note |-> "released"]
                        /\ pos[k] \in Held
    BY <1>2, <1>3
<1>6. \A k \in 1 .. c : rel[k].note = "released" /\ rel[k].n \notin Freed(incidents)
    <2> SUFFICES ASSUME NEW k \in 1 .. c PROVE rel[k].note = "released" /\ rel[k].n \notin Freed(incidents)
        OBVIOUS
    <2>0. rel[k] = [n |-> incidents[pos[k]].n, note |-> "released"] /\ pos[k] \in Held
        BY <1>5
    <2>1. rel[k].note = "released" /\ rel[k].n = incidents[pos[k]].n /\ pos[k] \in Held
        BY <2>0
    <2>2. \A i \in DOMAIN incidents : incidents[i].n = incidents[pos[k]].n => i = pos[k]
        BY <1>1, <2>1 DEF DeliveryInv, Sound
    <2>3. QED
        BY <1>1, <2>1, <2>2 DEF Freed
<1>7. \A m \in Coming(new) : \E k \in 1 .. c : m = rel[k]
    <2>1. rel \in [1 .. c -> {rel[k] : k \in 1 .. c}]
        BY <1>3
    <2>2. rel \in Seq({rel[k] : k \in 1 .. c}) /\ Len(rel) = c
        <3>1. c \in Nat
            BY <1>2
        <3>2. QED
            BY <2>1, <3>1
    <2>3. /\ Head(rel) = rel[1] /\ 1 \in 1 .. c
          /\ \A j \in DOMAIN Tail(rel) : Tail(rel)[j] = rel[j + 1] /\ j + 1 \in 1 .. c
        BY <1>2, <2>2
    <2>4. QED
        BY <1>4, <2>3 DEF Coming
<1>8. Freed(incidents) \subseteq Freed(incidents')
    <2>1. \A i \in DOMAIN incidents : /\ i \in DOMAIN incidents' /\ incidents'[i].n = incidents[i].n
                                      /\ ~incidents[i].suppressed => ~incidents'[i].suppressed
        BY <1>1 DEF Incident
    <2>2. QED
        BY <2>1 DEF Freed
<1>9. ASSUME crashes = 0 PROVE Fresh'
    <2>1. \A d \in Destination : \A m \in Coming(new) : ~HasArrived(d, m)
        BY <1>6, <1>7, <1>9 DEF LineInv, Told, HasArrived
    <2>2. QED
        BY <1>1, <1>9, <2>1, FreshOn DEF LineInv
<1>10. Sending' = Sending
    BY <1>1, <1>4 DEF Sending
<1>11. Accepted'
    BY <1>1 DEF LineInv, Accepted, AtItem, Item, HasArrived
<1>12. KeepsWaiting /\ Len(decided) <= Len(decided)
    BY <1>1, KeepsAll, Types
<1>13. QED
    BY <1>1, <1>8, <1>9, <1>10, <1>11, <1>12, LinesOn

LEMMA LinesStart ==
    ASSUME DeliveryInv, DeliveryInv', LineInv, NEW e \in emitters, StartDelivery(e)
    PROVE  LineInv'
<1> DEFINE f == [e EXCEPT !.stage = "sending", !.left = Route[KindOf(e.msg)]]
           m == e.msg
<1>1. /\ UNCHANGED <<received, crashes, decided, outbox, round, incidents>>
      /\ handed' = Append(handed, m) /\ emitters' = (emitters \ {e}) \cup {f}
      /\ e.stage = "waiting" /\ \A g \in emitters : g.stage # "sending"
    BY DEF StartDelivery, Replace, DeliveryMuFree
<1>2. /\ e \in Emitter /\ m \in Message /\ m.n \in 1 .. Len(decided)
    <2>1. e \in Emitter
        BY Types
    <2>2. m.n \in 1 .. Len(decided)
        BY DEF DeliveryInv, EmittersOK, EmitterOK, Coming
    <2>3. QED
        BY <2>1, <2>2 DEF Emitter
<1>3. f.stage = "sending" /\ f.msg = m /\ f.next = e.next /\ f.left = Route[KindOf(m)]
    BY <1>2 DEF Emitter
<1>0. PICK L \in Nat : L = Len(handed)
    BY Types
<1>4. /\ handed \in Seq(Message) /\ L = Len(handed) /\ DOMAIN handed = 1 .. L
      /\ Len(handed') = L + 1 /\ DOMAIN handed' = 1 .. L + 1
      /\ handed'[L + 1] = m /\ \A k \in 1 .. L : handed'[k] = handed[k]
      /\ handed' # <<>>
    <2>1. handed \in Seq(Message) /\ Len(handed) \in Nat /\ DOMAIN handed = 1 .. Len(handed)
        BY Types
    <2> HIDE DEF m
    <2>2. QED
        BY <1>0, <1>1, <1>2, <2>1
<1> HIDE DEF f, m
<1>5. Accepted'
    BY <1>1 DEF LineInv, Accepted, AtItem, Item, HasArrived
<1>6. Charged'
    <2>1. \A g \in emitters' : g.stage = "sending" => g = f
        BY <1>1
    <2>2. \A k \in DOMAIN handed' : handed'[k].n \in 1 .. Len(decided)
        <3>1. \A k \in DOMAIN handed' : k \in DOMAIN handed \/ k = L + 1
            BY <1>4
        <3>2. QED
            BY <1>2, <1>4, <3>1 DEF LineInv, Charged
    <2>3. ToSet(f.left) \subseteq ToSet(Route[KindOf(f.msg)])
        BY <1>3
    <2>4. /\ handed' # <<>> /\ handed'[Len(handed')] = f.msg
          /\ ToSet(f.left) \subseteq ToSet(Route[decided'[f.msg.n].kind])
        BY <1>1, <1>3, <1>4, <2>3 DEF KindOf
    <2>5. QED
        BY <1>1, <2>1, <2>2, <2>4 DEF Charged, KindOf
<1>7. ASSUME crashes = 0 PROVE Fresh' /\ Told' /\ FirstInLine'
    <2>1. Fresh'
        <3>1. \A d \in Destination : ~Done(e, d)
            BY <1>1 DEF Done
        <3>2. \A d \in Destination : \A x \in Coming(f) : ~HasArrived(d, x)
            BY <1>3, <1>7, <3>1 DEF LineInv, Fresh, Coming, m
        <3>3. QED
            BY <1>1, <1>7, <3>2, FreshOn DEF LineInv
    <2>2. Told'
        BY <1>1, <1>7 DEF LineInv, Told
    <2>3. FirstInLine'
        BY <1>1, <1>7 DEF LineInv, FirstInLine, HasArrived
    <2>4. QED
        BY <2>1, <2>2, <2>3
<1>8. ASSUME NEW d \in Destination PROVE TakenFor(d)' = TakenFor(d)
    <2> DEFINE S == {k \in DOMAIN handed : IsTaken(k, d)}
    <2>1. ~ToBeSent(d)
        BY <1>1 DEF ToBeSent
    <2>2. ToBeSent(d)' <=> d \in ToSet(Route[KindOf(m)])
        <3>1. ToBeSent(d)' <=> d \in ToSet(f.left)
            BY <1>1, <1>3 DEF ToBeSent
        <3>2. QED
            BY <1>3, <3>1
    <2>3. \A x : KindOf(x)' = KindOf(x)
        BY <1>1 DEF KindOf
    <2>4. \A k \in DOMAIN handed : IsTaken(k, d)' <=> IsTaken(k, d)
        <3> SUFFICES ASSUME NEW k \in 1 .. L
                     PROVE  IsTaken(k, d)' <=> IsTaken(k, d)
            BY <1>4
        <3>1. k # Len(handed') /\ handed'[k] = handed[k]
            BY <1>4
        <3>2. IsTaken(k, d)' <=> d \in ToSet(Route[KindOf(handed[k])])
            BY <2>3, <3>1 DEF IsTaken, KindOf
        <3>3. QED
            BY <2>1, <3>2 DEF IsTaken
    <2>5. ~IsTaken(L + 1, d)'
        <3>1. L + 1 = Len(handed') /\ handed'[L + 1] = m
            BY <1>4
        <3>2. IsTaken(L + 1, d)' => d \in ToSet(Route[decided'[m.n].kind]) /\ ~ToBeSent(d)'
            BY <1>4, <3>1 DEF IsTaken, KindOf
        <3>3. d \in ToSet(Route[decided'[m.n].kind]) => ToBeSent(d)'
            BY <1>1, <2>2 DEF KindOf
        <3>4. QED
            BY <3>2, <3>3
    <2>6. {k \in DOMAIN handed : IsTaken(k, d)}' = S
        <3>1. \A k \in DOMAIN handed' : k \in DOMAIN handed \/ k = L + 1
            BY <1>4
        <3>2. DOMAIN handed \subseteq DOMAIN handed'
            BY <1>4
        <3>3. ASSUME NEW k \in DOMAIN handed' PROVE IsTaken(k, d)' <=> k \in S
            BY <1>4, <2>4, <2>5, <3>1
        <3>4. \A k \in S : k \in DOMAIN handed'
            BY <3>2
        <3>5. {k \in DOMAIN handed : IsTaken(k, d)}' = {k \in DOMAIN handed' : IsTaken(k, d)'}
            OBVIOUS
        <3> HIDE DEF S
        <3>6. QED
            BY <3>3, <3>4, <3>5
    <2>7. S \in SUBSET DOMAIN handed /\ TakenFor(d) = At(S, handed) /\ TakenFor(d)' = At(S, handed')
        BY <2>6 DEF TakenFor
    <2> HIDE DEF S
    <2>8. QED
        BY <1>1, <1>2, <1>4, <2>7, SelectedAppended
<1>9. ASSUME crashes = 0 PROVE DeliveredInOrder'
    <2> SUFFICES ASSUME NEW d \in Destination PROVE Arrived(d)' \o Waiting(d)' = TakenFor(d)'
        BY DEF DeliveredInOrder
    <2>1. Arrived(d)' = Arrived(d) /\ Waiting(d)' = Waiting(d)
        BY <1>1 DEF Arrived, Afresh, Waiting, Waits, HasArrived
    <2>2. QED
        BY <1>8, <1>9, <2>1 DEF LineInv, DeliveredInOrder
<1>10. QED
    BY <1>1, <1>5, <1>6, <1>7, <1>9 DEF LineInv

LEMMA LinesRound ==
    ASSUME DeliveryInv, DeliveryInv', LineInv, StartRound
    PROVE  LineInv'
<1>1. PICK due \in SUBSET Escalatable : outbox' = outbox \o Escalations(due)
    BY DEF StartRound
<1>2. UNCHANGED <<incidents, received, crashes, decided, emitters, handed>>
    BY DEF StartRound
<1>3. due \in SUBSET DOMAIN incidents
    BY DEF Escalatable
<1>4. /\ DOMAIN outbox = 1 .. Len(outbox) /\ Len(outbox) \in Nat
      /\ DOMAIN outbox' \subseteq Nat /\ DOMAIN outbox \subseteq DOMAIN outbox'
      /\ \A k \in DOMAIN outbox : outbox'[k] = outbox[k]
      /\ \A k \in DOMAIN outbox' : \/ k \in DOMAIN outbox
                                   \/ k > Len(outbox) /\ outbox'[k].msg.note = "escalation"
    BY <1>1, <1>3, QueuedPages
<1>5. Accepted'
    BY DEF StartRound, Accepted, AtItem
<1>6. Charged'
    BY <1>2 DEF LineInv, Charged, KindOf
<1>7. \A d, x : HasArrived(d, x)' <=> HasArrived(d, x)
    BY <1>2 DEF HasArrived
<1>8. ASSUME crashes = 0 PROVE Fresh' /\ Told' /\ FirstInLine'
    <2>1. Fresh'
        BY <1>2, <1>8, FreshOn DEF LineInv
    <2>2. Told'
        BY <1>2, <1>8 DEF LineInv, Told
    <2>3. FirstInLine'
        <3> SUFFICES ASSUME NEW k \in DOMAIN outbox', Regular(outbox'[k].msg),
                            HasArrived(outbox'[k].to, outbox'[k].msg)
                     PROVE  /\ \A l \in DOMAIN outbox' : l < k => outbox'[l].to # outbox'[k].to
                            /\ received[outbox'[k].to] # <<>>
                            /\ Last(received[outbox'[k].to]) = outbox'[k].msg
            BY <1>2, <1>7 DEF FirstInLine
        <3>1. k \in DOMAIN outbox /\ outbox'[k] = outbox[k]
            BY <1>4 DEF Regular
        <3>2. \A l \in DOMAIN outbox' : l < k => l \in DOMAIN outbox /\ outbox'[l] = outbox[l]
            BY <1>4, <3>1
        <3>3. QED
            BY <1>8, <3>1, <3>2 DEF LineInv, FirstInLine
    <2>4. QED
        BY <2>1, <2>2, <2>3
<1>9. ASSUME NEW d \in Destination PROVE Waiting(d)' = Waiting(d)
    <2> DEFINE S == {k \in DOMAIN outbox : Waits(k, d)}
               f == [k \in S |-> k]
    <2>1. DOMAIN outbox \subseteq DOMAIN outbox'
        BY <1>4
    <2>2. \A k \in DOMAIN outbox' : Waits(k, d)' => k \in DOMAIN outbox
        BY <1>4 DEF Waits, Regular
    <2>3. \A k \in DOMAIN outbox : Waits(k, d)' <=> Waits(k, d)
        BY <1>4, <1>7 DEF Waits
    <2>4. S' = S
        BY <2>1, <2>2, <2>3
    <2>5. f \in [S' -> S] /\ \A i \in S : \E k \in S' : f[k] = i
        BY <2>4
    <2>6. /\ \A j, k \in S' : j < k => f[j] < f[k]
          /\ \A k \in S' : outbox'[k].msg = outbox[f[k]].msg
        BY <1>4, <2>4
    <2> HIDE DEF f
    <2>7. QED
        BY <1>2, <2>5, <2>6, WaitingOn
<1>10. ASSUME crashes = 0 PROVE DeliveredInOrder'
    <2> SUFFICES ASSUME NEW d \in Destination PROVE Arrived(d)' \o Waiting(d)' = TakenFor(d)'
        BY DEF DeliveredInOrder
    <2>1. Arrived(d)' = Arrived(d) /\ TakenFor(d)' = TakenFor(d)
        BY <1>2 DEF Arrived, Afresh, TakenFor, IsTaken, ToBeSent, KindOf
    <2>2. QED
        BY <1>9, <1>10, <2>1 DEF LineInv, DeliveredInOrder
<1>11. QED
    BY <1>2, <1>5, <1>6, <1>8, <1>10 DEF LineInv

LEMMA LinesCrash ==
    ASSUME DeliveryInv, LineInv, Crash
    PROVE  LineInv'
<1>1. /\ emitters' = {} /\ round' = Idle /\ crashes' = crashes + 1
      /\ UNCHANGED <<decided, handed>>
    BY DEF Crash
<1>2. crashes \in Nat
    BY IncidentDeliveryAssumption DEF DeliveryInv, TypeOK, IncidentDeliveryAssumption
<1>3. crashes' # 0
    BY <1>1, <1>2
<1>4. Accepted' /\ Charged'
    BY <1>1 DEF Accepted, AtItem, Idle, LineInv, Charged
<1>5. QED
    BY <1>3, <1>4 DEF LineInv

\* What has arrived at d and what waits for it, as sequences.
LEMMA LineParts ==
    ASSUME DeliveryInv, NEW d \in Destination
    PROVE  /\ Arrived(d) \in Seq(Message) /\ Waiting(d) \in Seq(Message)
           /\ ~IsPending(d) => Waiting(d) = <<>>
<1> DEFINE s == [k \in DOMAIN outbox |-> outbox[k].msg]
           S == {k \in DOMAIN outbox : Waits(k, d)}
           R == {k \in Afresh(d) : Regular(received[d][k])}
<1>1. s \in Seq(Message) /\ received[d] \in Seq(Message)
    BY Types
<1>2. S \in SUBSET DOMAIN s /\ R \in SUBSET DOMAIN received[d]
    BY DEF Afresh
<1>3. Waiting(d) = At(S, s) /\ Arrived(d) = At(R, received[d])
    BY DEF Waiting, Arrived
<1>4. ~IsPending(d) => S = {}
    BY DEF IsPending, Waits
<1> HIDE DEF s, S, R
<1>5. At(S, s) \in Seq(Message) /\ At(R, received[d]) \in Seq(Message)
    BY <1>1, <1>2, AtPositions
<1>6. S = {} => At(S, s) = <<>>
    <2> SUFFICES ASSUME S = {} PROVE At(S, s) = <<>>
        OBVIOUS
    <2>1. DOMAIN At(S, s) = 1 .. Cardinality(S)
        BY <1>1, <1>2, AtPositions
    <2>2. Cardinality(S) = 0
        BY FS_EmptySet
    <2>3. Len(At(S, s)) = 0
        BY <1>5, <2>1, <2>2
    <2>4. QED
        BY <1>5, <2>3, EmptySeq
<1>7. QED
    BY <1>3, <1>4, <1>5, <1>6

\* What waits for a destination, when one item is queued.
LEMMA WaitingQueued ==
    ASSUME DeliveryInv, NEW item \in Delivery, outbox' = Append(outbox, item), NEW d \in Destination,
           \A k \in DOMAIN outbox :
               outbox[k].to = d => (HasArrived(d, outbox[k].msg)' <=> HasArrived(d, outbox[k].msg))
    PROVE  /\ item.to # d \/ HasArrived(d, item.msg)' => Waiting(d)' = Waiting(d)
           /\ item.to = d /\ Regular(item.msg) /\ ~HasArrived(d, item.msg)' =>
                 Waiting(d)' = Append(Waiting(d), item.msg)
<1> DEFINE s == [k \in DOMAIN outbox |-> outbox[k].msg]
           t == [k \in DOMAIN outbox' |-> outbox'[k].msg]
           S == {k \in DOMAIN outbox : Waits(k, d)}
           there(x) == \E j \in DOMAIN received'[d] : received'[d][j] = x
           T == {k \in DOMAIN outbox' : /\ outbox'[k].to = d /\ Regular(outbox'[k].msg)
                                        /\ ~there(outbox'[k].msg)}
           L == Len(outbox)
           m == item.msg
<1>1. /\ outbox \in Seq(Delivery) /\ L \in Nat /\ DOMAIN outbox = 1 .. L /\ DOMAIN outbox' = 1 .. L + 1
      /\ outbox'[L + 1] = item /\ \A k \in 1 .. L : outbox'[k] = outbox[k]
    BY Types
<1>2. m \in Message
    BY DEF Delivery
<1>3. s \in Seq(Message) /\ Len(s) = L /\ DOMAIN s = 1 .. L
    BY <1>1, Types
<1>4. Waiting(d) = At(S, s) /\ S \in SUBSET DOMAIN s
    BY DEF Waiting
<1>5. Waiting(d)' = At(T, t)
    BY DEF Waiting, Waits, HasArrived
<1>6. t = Append(s, m)
    <2>1. t = [k \in 1 .. L + 1 |-> t[k]] /\ \A k \in 1 .. L : t[k] = s[k]
        BY <1>1
    <2>2. t[L + 1] = m
        BY <1>1
    <2> DEFINE a == Append(s, m)
    <2> HIDE DEF s, t, m
    <2>3. a \in Seq(Message) /\ Len(a) = L + 1 /\ a[L + 1] = m /\ \A k \in 1 .. L : a[k] = s[k]
        BY <1>2, <1>3, AppendProperties
    <2> HIDE DEF a
    <2>4. DOMAIN a = 1 .. L + 1
        BY <2>3
    <2>5. \A k \in 1 .. L + 1 : a[k] = t[k]
        <3>1. \A k \in 1 .. L + 1 : k \in 1 .. L \/ k = L + 1
            BY <1>1
        <3>2. QED
            BY <2>1, <2>2, <2>3, <3>1
    <2>6. a = [k \in 1 .. L + 1 |-> a[k]]
        BY <2>3, <2>4
    <2>7. a = t
        BY <2>1, <2>5, <2>6
    <2>8. QED
        BY <2>7 DEF a
<1>7. \A k \in 1 .. L : k \in T <=> k \in S
    <2> SUFFICES ASSUME NEW k \in 1 .. L PROVE k \in T <=> k \in S
        OBVIOUS
    <2>1. k \in DOMAIN outbox /\ k \in DOMAIN outbox' /\ outbox'[k] = outbox[k]
        BY <1>1
    <2>2. outbox[k].to = d => (there(outbox[k].msg) <=> HasArrived(d, outbox[k].msg))
        BY <2>1 DEF HasArrived
    <2>3. QED
        BY <2>1, <2>2 DEF Waits
<1>8. L + 1 \in T <=> item.to = d /\ Regular(m) /\ ~HasArrived(d, m)'
    <2>1. L + 1 \in DOMAIN outbox' /\ outbox'[L + 1] = item
        BY <1>1
    <2>2. HasArrived(d, m)' <=> there(m)
        BY DEF HasArrived
    <2>3. QED
        BY <2>1, <2>2
<1>9. (\A k \in T : k \in 1 .. L \/ k = L + 1) /\ \A k \in S : k \in 1 .. L
    BY <1>1
<1> HIDE DEF S, T, s, t
<1> HIDE DEF L, m
<1>10. T = IF L + 1 \in T THEN S \cup {L + 1} ELSE S
    <2>1. ASSUME L + 1 \in T PROVE T = S \cup {L + 1}
        BY <1>7, <1>9, <2>1
    <2>2. ASSUME L + 1 \notin T PROVE T = S
        BY <1>7, <1>9, <2>2
    <2>3. QED
        BY <2>1, <2>2
<1>11. At(S, t) = At(S, s) /\ At(S \cup {L + 1}, t) = Append(At(S, s), m)
    BY <1>2, <1>3, <1>4, <1>6, SelectedAppended
<1>12. QED
    BY <1>4, <1>5, <1>8, <1>10, <1>11 DEF m

\* What waits for a destination, when the outbox stays.
LEMMA WaitingStays ==
    ASSUME UNCHANGED outbox, NEW d \in Destination,
           \A k \in DOMAIN outbox :
               outbox[k].to = d => (HasArrived(d, outbox[k].msg)' <=> HasArrived(d, outbox[k].msg))
    PROVE  Waiting(d)' = Waiting(d)
<1>1. \A k \in DOMAIN outbox : Waits(k, d)' <=> Waits(k, d)
    BY DEF Waits, HasArrived
<1>2. {k \in DOMAIN outbox : Waits(k, d)}' = {k \in DOMAIN outbox : Waits(k, d)}
    BY <1>1
<1>3. QED
    BY <1>2 DEF Waiting

\* deliver is done with a destination: it has taken charge of one more alert for it.
LEMMA TakenNext ==
    ASSUME DeliveryInv, Charged, NEW e \in emitters, SendToNext(e)
    PROVE  \A d \in Destination :
               TakenFor(d)' = IF d = Head(e.left) THEN Append(TakenFor(d), e.msg) ELSE TakenFor(d)
<1> DEFINE f == [e EXCEPT !.left = Tail(@)]
           to == Head(e.left)
           m == e.msg
<1>1. /\ UNCHANGED <<decided, handed>> /\ emitters' = (emitters \ {e}) \cup {f}
      /\ e.stage = "sending" /\ e.left # <<>>
    BY DEF SendToNext, Replace
<1>2. e \in Emitter /\ e.left \in Seq(Destination)
    BY Types DEF Emitter
<1>3. f.stage = "sending" /\ f.left = Tail(e.left)
    BY <1>1, <1>2 DEF Emitter
<1>4. /\ \A j, k \in DOMAIN e.left : e.left[j] = e.left[k] => j = k
    BY DEF DeliveryInv, EmittersOK, EmitterOK
<1>5. /\ DOMAIN e.left = 1 .. Len(e.left) /\ Len(e.left) \in Nat /\ 1 \in DOMAIN e.left /\ to = e.left[1]
      /\ DOMAIN Tail(e.left) = 1 .. Len(e.left) - 1
      /\ \A j \in 1 .. Len(e.left) - 1 : Tail(e.left)[j] = e.left[j + 1]
    BY <1>1, <1>2
<1>6. /\ \A g \in emitters : g.stage = "sending" => g = e
      /\ \A g \in emitters' : g.stage = "sending" => g = f
    BY <1>1 DEF Charged
<1> HIDE DEF f
<1>7. \A d : ToBeSent(d) <=> \E j \in 1 .. Len(e.left) : e.left[j] = d
    BY <1>1, <1>5, <1>6 DEF ToBeSent, ToSet
<1>8. \A d : ToBeSent(d)' <=> \E j \in 1 .. Len(e.left) - 1 : e.left[j + 1] = d
    <2>1. f \in emitters'
        BY <1>1
    <2>2. \A d : ToBeSent(d)' <=> d \in ToSet(f.left)
        BY <1>3, <1>6, <2>1 DEF ToBeSent
    <2>3. QED
        BY <1>3, <1>5, <2>2 DEF ToSet
<1> HIDE DEF to
<1>9. ~ToBeSent(to)'
    <2>1. \A j \in 1 .. Len(e.left) - 1 : j + 1 \in DOMAIN e.left /\ j + 1 # 1
        BY <1>5
    <2>2. QED
        BY <1>4, <1>5, <1>8, <2>1
<1>10. ToBeSent(to) /\ to \in ToSet(e.left)
    BY <1>5, <1>7 DEF ToSet
<1>11. \A d : d # to => (ToBeSent(d)' <=> ToBeSent(d))
    <2>1. \A j \in 1 .. Len(e.left) : j = 1 \/ (j - 1 \in 1 .. Len(e.left) - 1 /\ (j - 1) + 1 = j)
        BY <1>5
    <2>2. \A j \in 1 .. Len(e.left) - 1 : j + 1 \in 1 .. Len(e.left)
        BY <1>5
    <2>3. QED
        BY <1>5, <1>7, <1>8, <2>1, <2>2
<1>12. ASSUME NEW d \in Destination, d # to PROVE TakenFor(d)' = TakenFor(d)
    BY <1>1, <1>11, <1>12, TakenOn
<1>13. to \in Destination
    BY <1>2, <1>5
<1>14. TakenFor(to)' = Append(TakenFor(to), m)
    <2> DEFINE S == {k \in DOMAIN handed : IsTaken(k, to)}
               T == {k \in DOMAIN handed : IsTaken(k, to)'}
               L == Len(handed)
    <2>1. /\ handed \in Seq(Message) /\ L \in Nat /\ DOMAIN handed = 1 .. L
        BY Types
    <2>2. L \in DOMAIN handed /\ handed[L] = m /\ to \in ToSet(Route[KindOf(m)])
        <3>1. handed # <<>> /\ handed[L] = m /\ ToSet(e.left) \subseteq ToSet(Route[KindOf(m)])
            BY <1>1 DEF Charged
        <3>2. QED
            BY <1>10, <2>1, <3>1
    <2>3. TakenFor(to) = At(S, handed) /\ S \in SUBSET DOMAIN handed
        BY DEF TakenFor
    <2>4. \A k \in DOMAIN handed : IsTaken(k, to)' <=> to \in ToSet(Route[KindOf(handed[k])])
        BY <1>1, <1>9 DEF IsTaken, KindOf
    <2>5. \A k \in DOMAIN handed : IsTaken(k, to) <=> to \in ToSet(Route[KindOf(handed[k])]) /\ k # L
        BY <1>10 DEF IsTaken
    <2>6. TakenFor(to)' = At(T, handed)
        BY <1>1 DEF TakenFor
    <2>7. T = S \cup {L} /\ L \notin S
        BY <2>2, <2>4, <2>5
    <2>8. \A i \in S : i < L
        BY <2>1, <2>7
    <2> HIDE DEF S, T, L
    <2>9. At(S \cup {L}, handed) = Append(At(S, handed), handed[L])
        BY <2>1, <2>2, <2>3, <2>8, SelectedLast
    <2>10. QED
        BY <2>2, <2>3, <2>6, <2>7, <2>9
<1>15. QED
    BY <1>12, <1>14 DEF to

LEMMA LinesSend ==
    ASSUME DeliveryInv, DeliveryInv', LineInv, NEW e \in emitters, SendToNext(e)
    PROVE  LineInv'
<1> DEFINE f == [e EXCEPT !.left = Tail(@)]
           to == Head(e.left)
           m == e.msg
<1>1. /\ UNCHANGED <<decided, handed, incidents, round, crashes>>
      /\ emitters' = (emitters \ {e}) \cup {f}
      /\ e.stage = "sending" /\ e.left # <<>>
    BY DEF SendToNext, Replace
<1>2. e \in Emitter /\ e.left \in Seq(Destination) /\ m \in Message
    BY Types DEF Emitter
<1>3. f.stage = "sending" /\ f.left = Tail(e.left) /\ f.msg = m /\ f.next = e.next
    BY <1>1, <1>2 DEF Emitter
<1>4. /\ \A j, k \in DOMAIN e.left : e.left[j] = e.left[k] => j = k
      /\ m.n \in 1 .. Len(decided) /\ m.note \in {"news", "released"}
      /\ m.note = "released" => m.n \in Freed(incidents)
      /\ \A d \in Destination : <<d, m>> \in Boxed(outbox) => Done(e, d)
    BY DEF DeliveryInv, EmittersOK, EmitterOK, Coming
<1>5. /\ DOMAIN e.left = 1 .. Len(e.left) /\ Len(e.left) \in Nat /\ 1 \in DOMAIN e.left /\ to = e.left[1]
      /\ DOMAIN Tail(e.left) = 1 .. Len(e.left) - 1
      /\ \A j \in 1 .. Len(e.left) - 1 : Tail(e.left)[j] = e.left[j + 1]
      /\ to \in Destination
    BY <1>1, <1>2
<1>6. /\ \A g \in emitters : g.stage = "sending" => g = e
      /\ \A g \in emitters' : g.stage = "sending" => g = f
    BY <1>1 DEF LineInv, Charged
<1>7. ~Done(e, to) /\ m \in Coming(e) /\ Coming(f) = Coming(e)
    BY <1>1, <1>3, <1>5 DEF Done, Coming
<1>8. \A k \in DOMAIN outbox : outbox[k].to = to => outbox[k].msg # m
    BY <1>4, <1>5, <1>7 DEF Boxed
<1>9. Regular(m)
    BY <1>4 DEF Regular
<1>10. \/ outbox' = outbox /\ Receive(to, m) /\ ~IsPending(to)
       \/ /\ \E tried \in BOOLEAN : outbox' = Append(outbox, [to |-> to, msg |-> m, tried |-> tried])
          /\ received' = received \/ (Receive(to, m) /\ ~IsPending(to))
    BY DEF SendToNext, Queue, Refuse
<1>11. \A j \in 1 .. Len(e.left) - 1 : j + 1 \in DOMAIN e.left /\ j + 1 # 1
    BY <1>5
<1>12. Done(f, to) /\ \A d : Done(e, d) => Done(f, d)
    BY <1>1, <1>3, <1>4, <1>5, <1>11 DEF Done
<1>13. Charged'
    <2>1. \A k \in DOMAIN handed' : handed'[k].n \in 1 .. Len(decided')
        BY <1>1 DEF LineInv, Charged
    <2>2. /\ handed' # <<>> /\ handed'[Len(handed')] = f.msg
          /\ ToSet(f.left) \subseteq ToSet(Route[decided'[f.msg.n].kind])
        <3>1. ToSet(f.left) \subseteq ToSet(e.left)
            BY <1>3, <1>5, <1>11 DEF ToSet
        <3>2. /\ handed # <<>> /\ handed[Len(handed)] = m
              /\ ToSet(e.left) \subseteq ToSet(Route[KindOf(m)])
            BY <1>1 DEF LineInv, Charged
        <3>3. QED
            BY <1>1, <1>3, <3>1, <3>2 DEF KindOf
    <2>3. QED
        BY <1>6, <2>1, <2>2 DEF Charged, KindOf
<1>14. Accepted'
    <2>1. round = Idle
        BY <1>1 DEF DeliveryInv, RoundOK
    <2>2. QED
        BY <1>1, <2>1 DEF Accepted, AtItem, Idle
<1> HIDE DEF f, to, m
<1>15. PICK item \in Delivery :
           /\ item.to = to /\ item.msg = m
           /\ \/ outbox' = outbox /\ Receive(to, m) /\ ~IsPending(to)
              \/ /\ outbox' = Append(outbox, item)
                 /\ received' = received \/ (Receive(to, m) /\ ~IsPending(to))
    <2>1. \A tried \in BOOLEAN : \E item \in Delivery :
              /\ item.to = to /\ item.msg = m /\ item = [to |-> to, msg |-> m, tried |-> tried]
        BY <1>2, <1>5 DEF Delivery
    <2>2. TRUE \in BOOLEAN
        OBVIOUS
    <2>3. QED
        BY <1>10, <2>1, <2>2
<1>16. /\ outbox \in Seq(Delivery) /\ Len(outbox) \in Nat /\ DOMAIN outbox = 1 .. Len(outbox)
       /\ \A k \in DOMAIN outbox : k \in DOMAIN outbox' /\ outbox'[k] = outbox[k]
       /\ \A k \in DOMAIN outbox' : \/ k \in DOMAIN outbox
                                    \/ k = Len(outbox) + 1 /\ outbox'[k] = item
    <2>1. outbox \in Seq(Delivery) /\ Len(outbox) \in Nat /\ DOMAIN outbox = 1 .. Len(outbox)
        BY Types
    <2>2. QED
        BY <1>15, <2>1
<1>17. /\ \A d \in Destination : d # to => received'[d] = received[d] /\ Arrived(d)' = Arrived(d)
       /\ \A d \in Destination : \A x : HasArrived(d, x)' => HasArrived(d, x) \/ (d = to /\ x = m)
       /\ \A d \in Destination : \A x : HasArrived(d, x) => HasArrived(d, x)'
       /\ received' = received \/ (received'[to] # <<>> /\ Last(received'[to]) = m)
    <2>1. CASE received' = received
        BY <2>1 DEF Arrived, Afresh, HasArrived
    <2>2. CASE Receive(to, m)
        BY <1>2, <1>5, <2>2, Arriving
    <2>3. QED
        BY <1>15, <2>1, <2>2
<1>18. ASSUME NEW d \in Destination, NEW k \in DOMAIN outbox, outbox[k].to = d
       PROVE  HasArrived(d, outbox[k].msg)' <=> HasArrived(d, outbox[k].msg)
    <2>1. k \in DOMAIN outbox /\ (d = to => outbox[k].msg # m)
        BY <1>8, <1>18
    <2>2. \A y : y # m \/ d # to => (HasArrived(d, y)' <=> HasArrived(d, y))
        BY <1>17
    <2>3. outbox'[k] = outbox[k]
        BY <1>16
    <2>4. QED
        BY <2>1, <2>2, <2>3 DEF HasArrived
<1>19. ASSUME crashes = 0 PROVE ~HasArrived(to, m)
    BY <1>5, <1>7, <1>19 DEF LineInv, Fresh
<1>20. ASSUME crashes = 0 PROVE Fresh'
    <2> SUFFICES ASSUME NEW g \in emitters', NEW d \in Destination, NEW x \in Coming(g), HasArrived(d, x)'
                 PROVE  x = g.msg /\ Done(g, d)
        BY DEF Fresh, Coming, Done
    <2>1. HasArrived(d, x) \/ (d = to /\ x = m)
        BY <1>17
    <2>2. CASE g = f
        BY <1>3, <1>7, <1>12, <1>20, <2>1, <2>2 DEF LineInv, Fresh, m
    <2>3. CASE g # f
        <3>1. g \in emitters /\ g # e
            BY <1>1, <2>3
        <3>2. x # m
            BY <1>7, <3>1 DEF DeliveryInv, EmittersOK, Apart
        <3>3. QED
            BY <1>20, <2>1, <3>1, <3>2 DEF LineInv, Fresh
    <2>4. QED
        BY <2>2, <2>3
<1>21. ASSUME crashes = 0 PROVE Told'
    <2> SUFFICES ASSUME NEW d \in Destination, NEW x, HasArrived(d, x)'
                 PROVE  x.n \in 1 .. Len(decided) /\ (x.note = "released" => x.n \in Freed(incidents))
        BY <1>1 DEF Told, HasArrived
    <2>1. HasArrived(d, x) \/ x = m
        BY <1>17
    <2>2. HasArrived(d, x) => x.n \in 1 .. Len(decided) /\ (x.note = "released" => x.n \in Freed(incidents))
        BY <1>21 DEF LineInv, Told, HasArrived
    <2>3. QED
        BY <1>4, <2>1, <2>2 DEF m
<1>22. ASSUME crashes = 0 PROVE FirstInLine'
    <2> SUFFICES ASSUME NEW k \in DOMAIN outbox', Regular(outbox'[k].msg),
                        \E j \in DOMAIN received'[outbox'[k].to] :
                            received'[outbox'[k].to][j] = outbox'[k].msg
                 PROVE  /\ \A l \in DOMAIN outbox' : l < k => outbox'[l].to # outbox'[k].to
                        /\ received'[outbox'[k].to] # <<>>
                        /\ Last(received'[outbox'[k].to]) = outbox'[k].msg
        BY DEF FirstInLine, HasArrived, Regular
    <2>1. CASE k \in DOMAIN outbox
        <3>1. /\ outbox'[k] = outbox[k] /\ outbox[k].to \in Destination
              /\ \A l \in DOMAIN outbox' : l < k => l \in DOMAIN outbox /\ outbox'[l] = outbox[l]
            BY <1>16, <2>1, Types
        <3>2. HasArrived(outbox[k].to, outbox[k].msg)'
            BY <3>1 DEF HasArrived
        <3>3. HasArrived(outbox[k].to, outbox[k].msg)
            BY <1>18, <2>1, <3>1, <3>2
        <3>4. /\ \A l \in DOMAIN outbox : l < k => outbox[l].to # outbox[k].to
              /\ received[outbox[k].to] # <<>> /\ Last(received[outbox[k].to]) = outbox[k].msg
            BY <1>22, <2>1, <3>1, <3>3 DEF LineInv, FirstInLine
        <3>5. received'[outbox[k].to] = received[outbox[k].to]
            <4>1. outbox[k].to = to => IsPending(to)
                BY <2>1 DEF IsPending
            <4>2. QED
                BY <1>15, <1>17, <3>1, <4>1
        <3>6. QED
            BY <3>1, <3>4, <3>5
    <2>2. CASE k \notin DOMAIN outbox
        <3>1. k = Len(outbox) + 1 /\ outbox'[k] = item
            BY <1>16, <2>2
        <3>2. \A l \in DOMAIN outbox' : l < k => l \in DOMAIN outbox /\ outbox'[l] = outbox[l]
            BY <1>16, <3>1
        <3>3. HasArrived(to, m)'
            BY <1>15, <3>1 DEF HasArrived
        <3>4. received' # received
            BY <1>19, <1>22, <3>3 DEF HasArrived
        <3>5. ~IsPending(to) /\ received'[to] # <<>> /\ Last(received'[to]) = m
            BY <1>15, <1>17, <3>4
        <3>6. QED
            BY <1>15, <3>1, <3>2, <3>5 DEF IsPending
    <2>3. QED
        BY <2>1, <2>2
<1>23. ASSUME crashes = 0, NEW d \in Destination
       PROVE  Arrived(d)' \o Waiting(d)' = TakenFor(d)'
    <2>1. TakenFor(d)' = IF d = to THEN Append(TakenFor(d), m) ELSE TakenFor(d)
        BY TakenNext DEF LineInv, to, m
    <2>2. Arrived(d) \o Waiting(d) = TakenFor(d)
        BY <1>23 DEF LineInv, DeliveredInOrder
    <2>3. Arrived(d) \in Seq(Message) /\ Waiting(d) \in Seq(Message) /\ (~IsPending(d) => Waiting(d) = <<>>)
        BY LineParts
    <2>4. CASE d # to
        <3>1. Arrived(d)' = Arrived(d)
            BY <1>17, <2>4
        <3>2. Waiting(d)' = Waiting(d)
            BY <1>15, <1>18, <2>4, WaitingQueued, WaitingStays
        <3>3. QED
            BY <2>1, <2>2, <2>4, <3>1, <3>2
    <2>5. CASE d = to /\ Receive(to, m) /\ ~IsPending(to)
        <3>1. Arrived(d)' = Append(Arrived(d), m)
            BY <1>2, <1>5, <1>9, <1>19, <1>23, <2>5, Arriving
        <3>2. Waiting(d)' = Waiting(d)
            <4>1. CASE outbox' = outbox
                BY <1>5, <1>18, <4>1, WaitingStays
            <4>2. CASE outbox' = Append(outbox, item)
                <5>1. HasArrived(d, m)'
                    BY <1>2, <2>5, Arriving
                <5>2. HasArrived(d, item.msg)'
                    BY <1>15, <5>1 DEF HasArrived
                <5>3. QED
                    BY <1>18, <4>2, <5>2, WaitingQueued
            <4>3. QED
                BY <1>15, <4>1, <4>2
        <3>3. Waiting(d) = <<>>
            BY <2>3, <2>5
        <3>4. Arrived(d) \o <<>> = Arrived(d) /\ Append(Arrived(d), m) \o <<>> = Append(Arrived(d), m)
            <4>1. Append(Arrived(d), m) \in Seq(Message)
                BY <1>2, <2>3, AppendProperties
            <4>2. QED
                BY <2>3, <4>1, ConcatEmptySeq
        <3>5. TakenFor(d) = Arrived(d)
            BY <2>2, <3>3, <3>4
        <3>6. TakenFor(d)' = Append(Arrived(d), m)
            BY <2>1, <2>5, <3>5
        <3>7. QED
            BY <3>1, <3>2, <3>3, <3>4, <3>6
    <2>6. CASE d = to /\ received' = received /\ outbox' = Append(outbox, item)
        <3>1. Arrived(d)' = Arrived(d)
            BY <2>6 DEF Arrived, Afresh
        <3>2. ~HasArrived(d, m) /\ item.to = d /\ item.msg = m
            BY <1>15, <1>19, <1>23, <2>6
        <3>3. ~HasArrived(d, item.msg)'
            BY <2>6, <3>2 DEF HasArrived
        <3>4. Waiting(d)' = Append(Waiting(d), m)
            BY <1>9, <1>18, <2>6, <3>2, <3>3, WaitingQueued
        <3>5. Arrived(d) \o Append(Waiting(d), m) = Append(Arrived(d) \o Waiting(d), m)
            BY <1>2, <2>3, AppendedLater
        <3>6. TakenFor(d)' = Append(Arrived(d) \o Waiting(d), m)
            BY <2>1, <2>2, <2>6
        <3>7. QED
            BY <3>1, <3>4, <3>5, <3>6
    <2>7. QED
        BY <1>15, <2>4, <2>5, <2>6
<1>24. QED
    BY <1>13, <1>14, <1>20, <1>21, <1>22, <1>23, <1>1 DEF LineInv, DeliveredInOrder

\* An item that waits arrives, before the others that wait for the destination.
LEMMA WaitingServed ==
    ASSUME DeliveryInv, UNCHANGED outbox, NEW d \in Destination, NEW p \in DOMAIN outbox, Waits(p, d),
           \A k \in DOMAIN outbox : Waits(k, d)' <=> Waits(k, d) /\ k # p,
           \A k \in DOMAIN outbox : k < p => outbox[k].to # d
    PROVE  Waiting(d) = <<outbox[p].msg>> \o Waiting(d)'
<1> DEFINE s == [k \in DOMAIN outbox |-> outbox[k].msg]
           S == {k \in DOMAIN outbox : Waits(k, d)}
           T == {k \in DOMAIN outbox : Waits(k, d) /\ k # p}
<1>1. s \in Seq(Message) /\ DOMAIN outbox = 1 .. Len(outbox) /\ Len(outbox) \in Nat
    BY Types
<1>2. Waiting(d) = At(S, s)
    BY DEF Waiting
<1>3. Waiting(d)' = At(T, s)
    <2>1. {k \in DOMAIN outbox : Waits(k, d)}' = T
        OBVIOUS
    <2>2. QED
        BY <2>1 DEF Waiting
<1>4. S = T \cup {p} /\ T \in SUBSET DOMAIN s /\ p \in DOMAIN s /\ s[p] = outbox[p].msg
    OBVIOUS
<1>5. \A i \in T : p < i
    <2> SUFFICES ASSUME NEW i \in DOMAIN outbox, outbox[i].to = d, i # p PROVE p < i
        BY DEF Waits
    <2>1. i \in Nat /\ p \in Nat
        BY <1>1
    <2>2. ~(i < p)
        OBVIOUS
    <2>3. QED
        BY <2>1, <2>2
<1> HIDE DEF s, S, T
<1>6. At(T \cup {p}, s) = <<s[p]>> \o At(T, s)
    BY <1>1, <1>4, <1>5, SelectedFirst
<1>7. QED
    BY <1>2, <1>3, <1>4, <1>6

LEMMA WaitingTyped == DeliveryInv => \A c \in Destination : Waiting(c) \in Seq(Message)
BY LineParts

LEMMA LinesAttempt ==
    ASSUME DeliveryInv, DeliveryInv', LineInv, Attempt
    PROVE  LineInv'
<1>0. AtItem("trying")
    BY DEF Attempt
<1>1. PICK to \in Destination, m \in Message, p \in DOMAIN outbox :
          to = Item.to /\ m = Item.msg /\ p = Behind + 1
    <2>1. Item \in Delivery
        BY <1>0, TheItem
    <2>2. Item.to \in Destination /\ Item.msg \in Message /\ Behind + 1 \in DOMAIN outbox
        BY <1>0, <2>1, TheItem DEF Delivery
    <2>3. QED
        BY <2>2
<1>2. /\ p \in DOMAIN outbox /\ outbox[p].to = to /\ outbox[p].msg = m
      /\ Behind \in Nat /\ round # Idle /\ round.stage = "trying" /\ Item = round.items[1]
      /\ to = Item.to /\ m = Item.msg /\ p = Behind + 1
      /\ round = [stage |-> "trying", items |-> round.items, blocked |-> round.blocked]
      /\ UNCHANGED <<decided, emitters, incidents, outbox, handed, crashes>>
      /\ \/ Receive(to, m) /\ round' = [round EXCEPT !.stage = "sent"]
         \/ (received' = received \/ Receive(to, m)) /\ round' = [round EXCEPT !.stage = "refused"]
    <2>1. /\ UNCHANGED <<decided, emitters, incidents, outbox, handed, crashes>>
          /\ \/ Receive(to, m) /\ round' = [round EXCEPT !.stage = "sent"]
             \/ (received' = received \/ Receive(to, m)) /\ round' = [round EXCEPT !.stage = "refused"]
        BY <1>1 DEF Attempt, Refuse
    <2>2. QED
        BY <1>0, <1>1, <2>1, TheItem
<1>3. \A k \in DOMAIN outbox : k < p => outbox[k].to # to
    <2>1. \A k \in 1 .. Behind : outbox[k].to # to
        BY <1>2 DEF DeliveryInv, RoundOK
    <2>2. \A k \in DOMAIN outbox : k < p => k \in 1 .. Behind
        <3>1. DOMAIN outbox = 1 .. Len(outbox) /\ Len(outbox) \in Nat
            BY Types
        <3>2. QED
            BY <1>2, <3>1
    <2>3. QED
        BY <2>1, <2>2
<1>4. \A k \in DOMAIN outbox : outbox[k].to = to /\ outbox[k].msg = m => k = p
    BY <1>2 DEF DeliveryInv, Sound
<1>5. /\ m.n \in 1 .. Len(decided)
      /\ m.note = "released" => m.n \in Freed(incidents)
      /\ \A g \in emitters : m \in Coming(g) => m = g.msg /\ Done(g, to)
    <2>1. m.n \in 1 .. Len(decided) /\ (m.note = "released" => m.n \in Freed(incidents))
        BY <1>2 DEF DeliveryInv, Sound
    <2>2. <<to, m>> \in Boxed(outbox)
        BY <1>2 DEF Boxed
    <2>3. QED
        BY <1>2, <2>1, <2>2 DEF DeliveryInv, EmittersOK, EmitterOK
<1>6. DOMAIN outbox = 1 .. Len(outbox) /\ Len(outbox) \in Nat
    BY Types
<1>7. Accepted'
    <2> SUFFICES ASSUME round'.stage = "sent"
                 PROVE  \E k \in DOMAIN received'[Head(round'.items).to] :
                            received'[Head(round'.items).to][k] = Head(round'.items).msg
        BY DEF Accepted, AtItem, HasArrived, Item
    <2>1. round'.items = round.items
        BY <1>2
    <2>2. Receive(to, m)
        BY <1>2
    <2>3. \E k \in DOMAIN received'[to] : received'[to][k] = m
        <3>1. /\ received'[to] # <<>> /\ Last(received'[to]) = m
            BY <1>2, <2>2, Arriving
        <3>2. received'[to] \in Seq(Message)
            BY <1>2 DEF DeliveryInv, TypeOK
        <3>3. QED
            BY <3>1, <3>2 DEF Last
    <2>4. QED
        BY <1>2, <2>1, <2>3 DEF Item
<1>8. /\ \A d \in Destination : d # to => received'[d] = received[d] /\ Arrived(d)' = Arrived(d)
      /\ \A d \in Destination : \A x : HasArrived(d, x)' => HasArrived(d, x) \/ (d = to /\ x = m)
      /\ \A d \in Destination : \A x : HasArrived(d, x) => HasArrived(d, x)'
      /\ received' = received \/ (Receive(to, m) /\ received'[to] # <<>> /\ Last(received'[to]) = m)
    <2>1. CASE received' = received
        BY <2>1 DEF Arrived, Afresh, HasArrived
    <2>2. CASE Receive(to, m)
        BY <1>2, <2>2, Arriving
    <2>3. QED
        BY <1>2, <2>1, <2>2
<1>9. Charged'
    BY <1>2 DEF LineInv, Charged, KindOf
<1>10. ASSUME crashes = 0 PROVE Fresh'
    <2> SUFFICES ASSUME NEW g \in emitters, NEW d \in Destination, NEW x \in Coming(g), HasArrived(d, x)'
                 PROVE  x = g.msg /\ Done(g, d)
        BY <1>2 DEF Fresh, Coming, Done
    <2>1. HasArrived(d, x) \/ (d = to /\ x = m)
        BY <1>8
    <2>2. QED
        BY <1>5, <1>10, <2>1 DEF LineInv, Fresh
<1>11. ASSUME crashes = 0 PROVE Told'
    <2> SUFFICES ASSUME NEW d \in Destination, NEW x, HasArrived(d, x)'
                 PROVE  x.n \in 1 .. Len(decided) /\ (x.note = "released" => x.n \in Freed(incidents))
        BY <1>2 DEF Told, HasArrived
    <2>1. HasArrived(d, x) \/ x = m
        BY <1>8
    <2>2. HasArrived(d, x) => x.n \in 1 .. Len(decided) /\ (x.note = "released" => x.n \in Freed(incidents))
        BY <1>11 DEF LineInv, Told, HasArrived
    <2>3. QED
        BY <1>5, <2>1, <2>2
<1>12. ASSUME crashes = 0, NEW k \in DOMAIN outbox, Regular(outbox[k].msg), k # p,
              HasArrived(outbox[k].to, outbox[k].msg)
       PROVE  outbox[k].to # to
    <2>1. \A l \in DOMAIN outbox : l < k => outbox[l].to # outbox[k].to
        BY <1>12 DEF LineInv, FirstInLine
    <2>2. k < p \/ p < k
        BY <1>2, <1>6, <1>12
    <2>3. QED
        BY <1>2, <1>3, <2>1, <2>2
<1>13. ASSUME crashes = 0 PROVE FirstInLine'
    <2> SUFFICES ASSUME NEW k \in DOMAIN outbox, Regular(outbox[k].msg),
                        \E j \in DOMAIN received'[outbox[k].to] :
                            received'[outbox[k].to][j] = outbox[k].msg
                 PROVE  /\ \A l \in DOMAIN outbox : l < k => outbox[l].to # outbox[k].to
                        /\ received'[outbox[k].to] # <<>>
                        /\ Last(received'[outbox[k].to]) = outbox[k].msg
        BY <1>2 DEF FirstInLine, HasArrived, Regular
    <2>1. outbox[k].to \in Destination
        BY Types
    <2>2. CASE HasArrived(outbox[k].to, outbox[k].msg)
        <3>1. /\ \A l \in DOMAIN outbox : l < k => outbox[l].to # outbox[k].to
              /\ received[outbox[k].to] # <<>> /\ Last(received[outbox[k].to]) = outbox[k].msg
            BY <1>13, <2>2 DEF LineInv, FirstInLine
        <3>2. CASE outbox[k].to # to \/ received' = received
            BY <1>8, <2>1, <3>1, <3>2
        <3>3. CASE outbox[k].to = to /\ received' # received
            <4>1. k = p
                BY <1>12, <1>13, <2>2, <3>3
            <4>2. QED
                BY <1>2, <1>8, <3>1, <3>3, <4>1
        <3>4. QED
            BY <3>2, <3>3
    <2>3. CASE ~HasArrived(outbox[k].to, outbox[k].msg)
        <3>1. HasArrived(outbox[k].to, outbox[k].msg)'
            BY <1>2 DEF HasArrived
        <3>2. outbox[k].to = to /\ outbox[k].msg = m /\ received' # received
            <4>1. received' = received => \A d, x : HasArrived(d, x)' <=> HasArrived(d, x)
                BY DEF HasArrived
            <4>2. \A d \in Destination : \A x : ~HasArrived(d, x) /\ HasArrived(d, x)' =>
                      d = to /\ x = m /\ received' # received
                BY <1>8, <4>1
            <4>3. QED
                BY <1>2, <2>1, <2>3, <3>1, <4>2 DEF HasArrived
        <3>3. k = p
            BY <1>4, <3>2
        <3>4. QED
            BY <1>3, <1>8, <3>2, <3>3
    <2>4. QED
        BY <2>2, <2>3
<1>14. ASSUME crashes = 0, NEW d \in Destination
       PROVE  Arrived(d)' \o Waiting(d)' = TakenFor(d)'
    <2>1. TakenFor(d)' = TakenFor(d)
        BY <1>2 DEF TakenFor, IsTaken, ToBeSent, KindOf
    <2>2. Arrived(d) \o Waiting(d) = TakenFor(d)
        BY <1>14 DEF LineInv, DeliveredInOrder
    <2>3. \A k \in DOMAIN outbox : k # p => (Waits(k, d)' <=> Waits(k, d))
        <3> SUFFICES ASSUME NEW k \in DOMAIN outbox, k # p, outbox[k].to = d
                     PROVE  HasArrived(d, outbox[k].msg)' <=> HasArrived(d, outbox[k].msg)
            BY <1>2 DEF Waits
        <3>1. \A y : y # m \/ d # to => (HasArrived(d, y)' <=> HasArrived(d, y))
            BY <1>8
        <3>2. d = to => outbox[k].msg # m
            BY <1>4
        <3>3. QED
            BY <1>2, <3>1, <3>2 DEF HasArrived
    <2>4. CASE received' = received
        <3>1. Arrived(d)' = Arrived(d) /\ Waiting(d)' = Waiting(d)
            BY <1>2, <2>4 DEF Arrived, Afresh, Waiting, Waits, HasArrived
        <3>2. QED
            BY <2>1, <2>2, <3>1
    <2>5. CASE Receive(to, m) /\ ~(d = to /\ Regular(m) /\ ~HasArrived(to, m))
        <3>1. \A k \in DOMAIN outbox : Waits(k, d)' <=> Waits(k, d)
            <4>1. ASSUME Waits(p, d)' \/ Waits(p, d) PROVE Waits(p, d)' <=> Waits(p, d)
                <5>1. d = to /\ Regular(m)
                    BY <1>2, <4>1 DEF Waits
                <5>2. HasArrived(to, m) /\ HasArrived(to, m)'
                    BY <1>2, <1>8, <2>5, <5>1
                <5>3. QED
                    BY <1>2, <5>1, <5>2 DEF Waits, HasArrived
            <4>2. QED
                BY <2>3, <4>1
        <3>2. Waiting(d)' = Waiting(d)
            <4>1. {k \in DOMAIN outbox : Waits(k, d)}' = {k \in DOMAIN outbox : Waits(k, d)}
                BY <1>2, <3>1
            <4>2. QED
                BY <1>2, <4>1 DEF Waiting
        <3>3. Arrived(d)' = Arrived(d)
            <4>1. CASE d # to
                BY <1>8, <4>1
            <4>2. CASE d = to /\ ~Regular(m)
                BY <1>2, <2>5, <4>2, Arriving
            <4>3. CASE d = to /\ Regular(m) /\ HasArrived(to, m)
                <5>1. received[to] # <<>> /\ Last(received[to]) = m
                    BY <1>2, <1>14, <4>3 DEF LineInv, FirstInLine
                <5>2. QED
                    BY <1>2, <2>5, <4>3, <5>1, Arriving
            <4>4. QED
                BY <2>5, <4>1, <4>2, <4>3
        <3>4. QED
            BY <2>1, <2>2, <3>2, <3>3
    <2>6. CASE Receive(to, m) /\ d = to /\ Regular(m) /\ ~HasArrived(to, m)
        <3>1. Arrived(d)' = Append(Arrived(d), m)
            BY <1>2, <2>6, Arriving
        <3>2. Waits(p, d)
            BY <1>2, <2>6 DEF Waits
        <3>3. ~Waits(p, d)'
            <4>1. HasArrived(to, m)'
                BY <1>2, <2>6, Arriving
            <4>2. QED
                BY <1>2, <2>6, <4>1 DEF Waits, HasArrived
        <3>4. Waiting(d) = <<m>> \o Waiting(d)'
            <4>1. \A k \in DOMAIN outbox : Waits(k, d)' <=> Waits(k, d) /\ k # p
                BY <2>3, <3>3
            <4>2. QED
                BY <1>2, <1>3, <2>6, <3>2, <4>1, WaitingServed
        <3>5. Arrived(d) \in Seq(Message) /\ <<m>> \in Seq(Message)
            BY <1>2, LineParts
        <3>6. Waiting(d)' \in Seq(Message)
            <4>1. (DeliveryInv => \A c \in Destination : Waiting(c) \in Seq(Message))'
                BY WaitingTyped, PTL
            <4>2. QED
                BY <4>1
        <3>7. Append(Arrived(d), m) = Arrived(d) \o <<m>>
            BY <1>2, <3>5, AppendIsConcat
        <3>8. (Arrived(d) \o <<m>>) \o Waiting(d)' = Arrived(d) \o (<<m>> \o Waiting(d)')
            BY <3>5, <3>6, ConcatAssociative
        <3>9. QED
            BY <2>1, <2>2, <3>1, <3>4, <3>7, <3>8
    <2>7. QED
        BY <1>8, <2>4, <2>5, <2>6
<1>15. QED
    BY <1>2, <1>7, <1>9, <1>10, <1>11, <1>13, <1>14 DEF LineInv, DeliveredInOrder

LEMMA LinesInit == Init => LineInv
<1> SUFFICES ASSUME Init PROVE LineInv
    OBVIOUS
<1>1. /\ emitters = {} /\ outbox = <<>> /\ round = Idle /\ handed = <<>> /\ crashes = 0
      /\ \A d \in Destination : received[d] = <<>>
    BY DEF Init
<1>2. Accepted /\ Charged
    BY <1>1 DEF Accepted, AtItem, Idle, Charged
<1>3. Fresh /\ Told /\ FirstInLine
    BY <1>1 DEF Fresh, Told, FirstInLine
<1>4. ASSUME NEW d \in Destination PROVE Arrived(d) \o Waiting(d) = TakenFor(d)
    <2>1. Waiting(d) = <<>>
        <3>1. ~IsPending(d)
            BY <1>1 DEF IsPending
        <3>2. QED
            BY <3>1, LineParts, DeliveryInit
    <2>2. {k \in Afresh(d) : Regular(received[d][k])} = {} /\ {k \in DOMAIN handed : IsTaken(k, d)} = {}
        BY <1>1 DEF Afresh
    <2>3. Arrived(d) = At({}, <<>>) /\ TakenFor(d) = At({}, <<>>)
        BY <1>1, <2>2 DEF Arrived, TakenFor
    <2>4. Arrived(d) \in Seq(Message)
        BY LineParts, DeliveryInit
    <2>5. Arrived(d) \o <<>> = Arrived(d)
        BY <2>4, ConcatEmptySeq
    <2>6. QED
        BY <2>1, <2>3, <2>5
<1>5. QED
    BY <1>2, <1>3, <1>4 DEF LineInv, DeliveredInOrder

LEMMA LinesStep ==
    ASSUME DeliveryInv, DeliveryInv', LineInv, [Next]_vars
    PROVE  LineInv'
<1>1. CASE \E s \in Subject : Decide(s)
    BY <1>1, LinesDecide
<1>2. CASE \E e \in emitters : EmitterStep(e) \/ RecordIncident(e) \/ StartDelivery(e)
    BY <1>2, LinesEmitter, LinesStart, LinesSend DEF EmitterStep
<1>3. CASE StartRound \/ RoundStep
    BY <1>3, LinesRound, LinesSame, LinesSettle, LinesAttempt DEF RoundStep
<1>4. CASE ReleaseSuppressions \/ Crash
    BY <1>4, LinesRelease, LinesCrash
<1>5. CASE \/ ChangeSuppression \/ PersistElsewhere \/ UNCHANGED vars
           \/ \E i \in DOMAIN incidents : Acknowledge(i) \/ Resolve(i)
    BY <1>5, LinesSame
<1>6. QED
    BY <1>1, <1>2, <1>3, <1>4, <1>5 DEF Next

-----------------------------------------------------------------------------
(* Theorems.                                                               *)

\* Incidents, outbox, rounds and the state file stay well-formed, whatever
\* persisting, crashing and the destinations do.
THEOREM TypeCorrect == Spec => []TypeOK
<1>1. DeliveryInv => TypeOK
    BY DEF DeliveryInv
<1>2. QED
    BY <1>1, DeliveryAlways, PTL

\* What arrives is sent by a goroutine that delivers or by the round.
LEMMA Arrivals ==
    ASSUME DeliveryInv, [Next]_vars, NEW d \in Destination, NEW m, Arrives(d, m)
    PROVE  \/ \E e \in emitters : SendToNext(e) /\ e.stage = "sending" /\ m = e.msg
           \/ AtItem("trying") /\ m = Item.msg
<1>1. received'[d] # received[d] /\ Last(received'[d]) = m
    BY DEF Arrives
<1>2. received' # received
    BY <1>1
<1>3. ~ QuietStep /\ ~ Crash /\ \A s \in Subject : ~ Decide(s)
    BY <1>2 DEF QuietStep, Crash, Decide
<1>4. CASE \E e \in emitters : SendToNext(e)
    <2>1. PICK e \in emitters : SendToNext(e)
        BY <1>4
    <2>2. e \in Emitter /\ e.left # <<>> /\ e.stage = "sending"
        BY <2>1 DEF SendToNext, DeliveryInv, TypeOK
    <2>3. Head(e.left) \in Destination /\ e.msg \in Message
        BY <2>2 DEF Emitter
    <2>4. Receive(Head(e.left), e.msg)
        BY <1>2, <2>1 DEF SendToNext, Refuse
    <2>5. m = e.msg
        BY <1>1, <2>3, <2>4, Arrival DEF DeliveryInv
    <2>6. QED
        BY <2>1, <2>2, <2>5
<1>5. CASE Attempt
    <2>1. AtItem("trying") /\ Receive(Item.to, Item.msg)
        BY <1>2, <1>5 DEF Attempt, Refuse
    <2>2. Item.to \in Destination /\ Item.msg \in Message
        BY <2>1, TheItem DEF Delivery
    <2>3. m = Item.msg
        BY <1>1, <2>1, <2>2, Arrival DEF DeliveryInv
    <2>4. QED
        BY <2>1, <2>3
<1>6. QED
    BY <1>3, <1>4, <1>5, QuietOrNot

\* An escalation reaches nobody after its incident was acknowledged, resolved,
\* closed or suppressed, whatever was under way at that moment: no destination
\* is called but under deliveryMu, which those need, and they take the queued
\* escalations back.
THEOREM EscalationsStayRelevant == Spec => EscalationsRelevant
<1>1. ASSUME DeliveryInv, [Next]_vars PROVE PagesWorthy
    <2> SUFFICES ASSUME NEW i \in DOMAIN incidents, NEW d \in Destination,
                        Arrives(d, [n |-> incidents[i].n, note |-> "escalation"])
                 PROVE  PageWorthy(i)
        BY DEF PagesWorthy
    <2> DEFINE m == [n |-> incidents[i].n, note |-> "escalation"]
    <2>1. m.note = "escalation" /\ m.n = incidents[i].n
        OBVIOUS
    <2>2. \A e \in emitters : e.msg.note # "escalation"
        BY <1>1 DEF DeliveryInv, EmittersOK, EmitterOK
    <2> HIDE DEF m
    <2>3. AtItem("trying") /\ m = Item.msg
        <3>1. \/ \E e \in emitters : m = e.msg
              \/ AtItem("trying") /\ m = Item.msg
            BY <1>1, Arrivals DEF m
        <3>2. QED
            BY <2>1, <2>2, <3>1
    <2>4. Behind + 1 \in DOMAIN outbox /\ outbox[Behind + 1].msg = m
        BY <1>1, <2>3, TheItem
    <2>5. incidents[i].n \in Worthy(incidents, escalated)
        BY <1>1, <2>1, <2>4 DEF DeliveryInv, Sound
    <2>6. PICK j \in escalated : /\ incidents[j].active /\ ~ incidents[j].acked
                                 /\ ~ incidents[j].suppressed /\ incidents[j].n = incidents[i].n
        BY <2>5 DEF Worthy
    <2>7. j = i
        BY <1>1, <2>6 DEF DeliveryInv, Sound
    <2>8. QED
        BY <2>6, <2>7 DEF PageWorthy
<1>2. DeliveryInv /\ [Next]_vars => [PagesWorthy]_vars
    BY <1>1
<1>3. QED
    BY <1>2, DeliveryAlways, PTL DEF Spec, EscalationsRelevant

\* While writing the state file does not fail, nobody is told of an outage or
\* a warning that it does not name: emit persists before it delivers, no other
\* goroutine persists an older state after it, and what is queued or read back
\* after a crash was known when it was queued.
THEOREM ToldWhenPersisted ==
    ASSUME ~ PersistMayFail
    PROVE  Spec => PersistedFirst
<1>1. ASSUME DeliveryInv, FileInv, [Next]_vars PROVE ToldIsOnDisk
    <2> SUFFICES ASSUME NEW n \in DOMAIN decided, NEW d \in Destination,
                        decided[n].kind \in Opening, Arrives(d, [n |-> n, note |-> "news"])
                 PROVE  \E i \in DOMAIN disk.incidents : disk.incidents[i].n = n
        BY DEF ToldIsOnDisk
    <2> DEFINE m == [n |-> n, note |-> "news"]
    <2>1. OpensAnew(m) /\ m.n = n
        BY DEF OpensAnew, KindOf
    <2> HIDE DEF m
    <2>2. CASE \E e \in emitters : e.stage = "sending" /\ m = e.msg
        <3>1. n \in Nums(disk.incidents)
            BY <1>1, <2>1, <2>2 DEF FileInv
        <3>2. QED
            BY <3>1 DEF Nums
    <2>3. CASE AtItem("trying") /\ m = Item.msg
        <3>1. Behind + 1 \in DOMAIN outbox /\ outbox[Behind + 1].msg = m
            BY <1>1, <2>3, TheItem
        <3>2. n \in Nums(disk.incidents)
            BY <1>1, <2>1, <3>1 DEF FileInv, Known
        <3>3. QED
            BY <3>2 DEF Nums
    <2>4. QED
        BY <1>1, <2>2, <2>3, Arrivals DEF m
<1>2. DeliveryInv /\ FileInv /\ [Next]_vars => [ToldIsOnDisk]_vars
    BY <1>1
<1>3. QED
    BY <1>2, DeliveryAlways, FileAlways, PTL DEF Spec, PersistedFirst

\* Every destination learns of the transitions of a check in the order they
\* were decided, crash or no crash, of one that was decided when the earlier
\* ones had been emitted: what had been emitted has arrived or waits in the
\* outbox before it, and the outbox that is read back after a crash has that
\* news in that order.  Where writing the state file may fail, it holds as
\* long as there is no crash.
THEOREM ToldInOrder ==
    ASSUME PersistMayFail => MaxCrashes = 0
    PROVE  Spec => []InDecidedOrder
<1>1. ASSUME DeliveryInv, OrderInv PROVE InDecidedOrder
    <2> SUFFICES ASSUME NEW d \in Destination, NEW j \in DOMAIN received[d],
                        NEW k \in DOMAIN received[d], j < k,
                        received[d][j].note = "news", received[d][k].note = "news",
                        decided[received[d][j].n].subject = decided[received[d][k].n].subject,
                        decided[received[d][j].n].alone
                 PROVE  received[d][j].n <= received[d][k].n
        BY DEF InDecidedOrder
    <2>1. j <= k
        <3>1. received[d] \in Seq(Message)
            BY <1>1 DEF DeliveryInv, TypeOK
        <3>2. QED
            BY <3>1
    <2>2. MayPrecede(received[d][j], received[d][k])
        BY <1>1, <2>1 DEF OrderInv
    <2>3. QED
        BY <2>2 DEF MayPrecede
<1>2. DeliveryInv /\ OrderInv => InDecidedOrder
    BY <1>1
<1>3. QED
    BY <1>2, DeliveryAlways, OrderAlways, PTL

\* A destination is paged for an incident once, retries aside, and once more for
\* each crash.
THEOREM PagedOnce == Spec => []EscalatedAtMostOnce
<1>1. Init => PagesInv
    <2> SUFFICES ASSUME Init, NEW n \in Nat PROVE Cardinality(PageStarts(n)) <= crashes
        BY DEF PagesInv
    <2>1. received[Pager] = <<>> /\ crashes = 0
        BY IncidentDeliveryAssumption DEF Init, IncidentDeliveryAssumption
    <2>2. PageStarts(n) = {}
        BY <2>1 DEF PageStarts, Afresh
    <2>3. QED
        BY <2>1, <2>2, FS_EmptySet
<1>2. ASSUME DeliveryInv, DeliveryInv', PagesInv, [Next]_vars PROVE PagesInv'
    <2>1. outbox' \in Seq(Delivery)
        BY <1>2 DEF DeliveryInv, TypeOK
    <2>2. QED
        BY <1>2, <2>1, ThinsOrNot, PagesThin, PagesStart, PagesSend, PagesAttempt, PagesCrash
<1>3. ASSUME DeliveryInv, PagesInv PROVE EscalatedAtMostOnce
    <2> SUFFICES ASSUME NEW n \in DOMAIN decided PROVE Cardinality(PageStarts(n)) <= 1 + crashes
        BY DEF EscalatedAtMostOnce
    <2>1. n \in Nat /\ crashes \in Nat
        BY <1>3, IncidentDeliveryAssumption DEF DeliveryInv, TypeOK, IncidentDeliveryAssumption
    <2>2. Cardinality(PageStarts(n)) \in Nat
        BY <1>3, <2>1, FiniteStarts
    <2>3. QED
        BY <1>3, <2>1, <2>2 DEF PagesInv
<1>4. DeliveryInv /\ DeliveryInv' /\ PagesInv /\ [Next]_vars => PagesInv'
    BY <1>2
<1>5. DeliveryInv /\ PagesInv => EscalatedAtMostOnce
    BY <1>3
<1>6. QED
    BY <1>1, <1>4, <1>5, DeliveryAlways, PTL DEF Spec

\* Nothing handed to deliver is lost, overtaken or sent again once accepted: what a
\* destination got and what waits for it are what was handed over for it, in that
\* order, as long as the coordinator lives.
THEOREM DeliveredOnceInOrder == Spec => []DeliveredInOrder
<1>1. DeliveryInv /\ DeliveryInv' /\ LineInv /\ [Next]_vars => LineInv'
    BY LinesStep
<1>2. LineInv => DeliveredInOrder
    BY DEF LineInv, DeliveredInOrder
<1>3. QED
    BY <1>1, <1>2, LinesInit, DeliveryAlways, PTL DEF Spec

=============================================================================
