-------------------------- MODULE SeqlenBalancingProofs --------------------------
(***************************************************************************)
(* What utils/seqlen_balancing.py does, for any lists of lengths: that the *)
(* differencing method gives as many partitions as it is asked for, that   *)
(* each row is in one of them, and how far apart their sums may be; the    *)
(* same of the partitions of whole groups, of what a rank is given and of  *)
(* the micro-batches it makes; and that results in any order of the rows   *)
(* are put back at their rows.                                             *)
(***************************************************************************)
EXTENDS SeqlenBalancing, FiniteSetTheorems, FunctionTheorems, WellFoundedInduction, TLAPS

(***************************************************************************)
(* Lists.  FlattenSeq and SumOf are recursive functions; that there is one, *)
(* and what it gives, is shown for every prefix of its list.               *)
(***************************************************************************)
\* Some natural number of a set of them is the least.
LEMMA SomeLeast ==
  ASSUME NEW T, T \subseteq Nat, T # {}
  PROVE  \E x \in T : \A y \in T : x <= y
<1>1. PICK x \in T : \A y \in T : ~(<<y, x>> \in OpToRel(<, Nat))
  BY NatLessThanWellFounded, WFMin
<1>2. ASSUME NEW y \in T PROVE x <= y
  <2>1. <<y, x>> \in Nat \X Nat
    OBVIOUS
  <2>2. ~(y < x)
    BY <1>1, <2>1, Zenon DEF OpToRel
  <2>. QED BY <2>2
<1>. QED BY <1>2

\* Induction on the numbers up to n, over the set of those for which a claim holds.
LEMMA InductTo ==
  ASSUME NEW n \in Nat, NEW T, 0 \in T, \A k \in 1 .. n : k - 1 \in T => k \in T
  PROVE  \A k \in 0 .. n : k \in T
<1>. DEFINE U == {k \in 0 .. n : k \notin T}
<1>1. ASSUME U # {} PROVE FALSE
  <2>1. U \subseteq Nat
    OBVIOUS
  <2>2. PICK k \in U : \A m \in U : k <= m
    BY <1>1, <2>1, SomeLeast
  <2>3. k \in 1 .. n /\ k - 1 \in 0 .. n /\ k - 1 \notin U
    BY <2>2
  <2>. QED BY <2>2, <2>3
<1>. QED BY <1>1

\* A function on 1 .. n is a list.
LEMMA ListOf ==
  ASSUME NEW S, NEW n \in Nat, NEW f \in [1 .. n -> S]
  PROVE  f \in Seq(S) /\ Len(f) = n /\ DOMAIN f = 1 .. n
OBVIOUS

\* The places of a list and what stands at them.
LEMMA ListFacts ==
  ASSUME NEW S, NEW s \in Seq(S)
  PROVE  /\ Len(s) \in Nat /\ DOMAIN s = 1 .. Len(s) /\ s \in [1 .. Len(s) -> S]
         /\ \A i \in 1 .. Len(s) : s[i] \in S
OBVIOUS

\* What stands at the places of two lists joined.
LEMMA ConcatFacts ==
  ASSUME NEW S, NEW s \in Seq(S), NEW t \in Seq(S)
  PROVE  /\ s \o t \in Seq(S) /\ Len(s \o t) = Len(s) + Len(t)
         /\ \A i \in 1 .. Len(s) : (s \o t)[i] = s[i]
         /\ \A i \in 1 .. Len(t) : (s \o t)[Len(s) + i] = t[i]
         /\ \A i \in 1 .. Len(s) + Len(t) :
              i \in 1 .. Len(s) \/ (i - Len(s) \in 1 .. Len(t) /\ i = Len(s) + (i - Len(s)))
OBVIOUS

\* The empty list is neutral in joining.
LEMMA EmptyConcat ==
  ASSUME NEW S, NEW s \in Seq(S) PROVE <<>> \o s = s /\ s \o <<>> = s
OBVIOUS

\* Lists are the same if their members are.
LEMMA SameLists ==
  ASSUME NEW S, NEW T, NEW s \in Seq(S), NEW t \in Seq(T), Len(s) = Len(t),
         \A i \in 1 .. Len(s) : s[i] = t[i]
  PROVE  s = t
<1>1. s = [i \in 1 .. Len(s) |-> s[i]] /\ t = [i \in 1 .. Len(t) |-> t[i]]
  OBVIOUS
<1>. QED BY <1>1

\* Listed changes no list.
LEMMA ListedIs ==
  ASSUME NEW S, NEW s \in Seq(S) PROVE Listed(s) = s
BY DEF Listed

\* Where each list of a list ends in the flattened one.
Offsets(ss, o) ==
  /\ o \in [0 .. Len(ss) -> Nat] /\ o[0] = 0
  /\ \A k \in 1 .. Len(ss) : o[k] = o[k - 1] + Len(ss[k])

\* Offsets are natural numbers, each the one before and the length between.
LEMMA OffsetTypes ==
  ASSUME NEW S, NEW ss \in Seq(Seq(S)), NEW o, Offsets(ss, o)
  PROVE  /\ Len(ss) \in Nat /\ DOMAIN ss = 1 .. Len(ss) /\ o[0] = 0
         /\ \A k \in 0 .. Len(ss) : o[k] \in Nat
         /\ \A k \in 1 .. Len(ss) :
              /\ ss[k] \in Seq(S) /\ Len(ss[k]) \in Nat /\ DOMAIN ss[k] = 1 .. Len(ss[k])
              /\ k - 1 \in 0 .. Len(ss) /\ k \in 0 .. Len(ss)
              /\ o[k] = o[k - 1] + Len(ss[k]) /\ o[k - 1] \in Nat /\ o[k] \in Nat
<1>1. Len(ss) \in Nat /\ DOMAIN ss = 1 .. Len(ss) /\ o \in [0 .. Len(ss) -> Nat] /\ o[0] = 0
  BY DEF Offsets
<1>2. ASSUME NEW k \in 1 .. Len(ss)
      PROVE  /\ ss[k] \in Seq(S) /\ Len(ss[k]) \in Nat /\ DOMAIN ss[k] = 1 .. Len(ss[k])
             /\ k - 1 \in 0 .. Len(ss) /\ k \in 0 .. Len(ss)
  <2>1. ss[k] \in Seq(S)
    OBVIOUS
  <2>. QED BY <1>1, <2>1
<1>. QED BY <1>1, <1>2 DEF Offsets

Located(ss, flat, o) ==
  /\ Len(flat) = o[Len(ss)]
  /\ \A k \in 1 .. Len(ss) : \A i \in 1 .. Len(ss[k]) :
       o[k - 1] + i \in 1 .. Len(flat) /\ flat[o[k - 1] + i] = ss[k][i]
  /\ \A n \in 1 .. Len(flat) : \E k \in 1 .. Len(ss) : \E i \in 1 .. Len(ss[k]) : n = o[k - 1] + i

Steps(ss, f) ==
  \A k \in 1 .. Len(ss) : f[k] = IF k = 1 THEN ss[k] ELSE f[k - 1] \o ss[k]

\* What FlattenSeq adds with every list: its recursive function has values.
LEMMA FlattenedBySteps ==
  ASSUME NEW S, NEW ss \in Seq(Seq(S))
  PROVE  \E f : Steps(ss, f) /\ FlattenSeq(ss) = IF ss = <<>> THEN <<>> ELSE f[Len(ss)]
<1>. DEFINE Upto(n, g) == g = [i \in 1 .. n |-> IF i = 1 THEN ss[i] ELSE g[i - 1] \o ss[i]]
            Defined(n) == \E g : Upto(n, g)
            flatten == CHOOSE g : Upto(Len(ss), g)
<1>1. Len(ss) \in Nat
  OBVIOUS
<1>2. Defined(0)
  <2>1. Upto(0, [i \in 1 .. 0 |-> <<>>])
    OBVIOUS
  <2>. HIDE DEF Upto
  <2>. QED BY <2>1
<1>3. ASSUME NEW n \in 1 .. Len(ss), Defined(n - 1) PROVE Defined(n)
  <2>1. PICK g : Upto(n - 1, g)
    BY <1>3
  <2>. DEFINE h == [i \in 1 .. n |-> IF i < n THEN g[i]
                                     ELSE IF n = 1 THEN ss[n] ELSE g[n - 1] \o ss[n]]
  <2>2. ASSUME NEW i \in 1 .. n
        PROVE  h[i] = IF i = 1 THEN ss[i] ELSE h[i - 1] \o ss[i]
    <3>1. CASE i < n
      <4>1. i \in 1 .. n - 1 /\ (i # 1 => i - 1 \in 1 .. n /\ i - 1 < n)
        BY <1>1, <3>1
      <4>2. h[i] = g[i] /\ (i # 1 => h[i - 1] = g[i - 1])
        BY <3>1, <4>1
      <4>. QED BY <2>1, <4>1, <4>2
    <3>2. CASE i = n
      <4>1. n # 1 => n - 1 \in 1 .. n /\ n - 1 < n
        BY <1>1
      <4>. QED BY <3>2, <4>1
    <3>. QED BY <1>1, <3>1, <3>2
  <2>3. h = [i \in 1 .. n |-> h[i]]
    OBVIOUS
  <2>. HIDE DEF h
  <2>4. Upto(n, h)
    BY <2>2, <2>3
  <2>. HIDE DEF Upto
  <2>. QED BY <2>4
<1>4. Upto(Len(ss), flatten)
  <2>. HIDE DEF Defined
  <2>. DEFINE T == {n \in 0 .. Len(ss) : Defined(n)}
  <2>1. 0 \in T /\ \A k \in 1 .. Len(ss) : k - 1 \in T => k \in T
    BY <1>1, <1>2, <1>3
  <2>2. Len(ss) \in T
    <3>. HIDE DEF T
    <3>1. \A k \in 0 .. Len(ss) : k \in T
      BY <1>1, <2>1, InductTo
    <3>. QED BY <1>1, <3>1
  <2>. HIDE DEF Upto
  <2>. QED BY <2>2 DEF Defined
<1>5. Steps(ss, flatten)
  <2>1. ASSUME NEW k \in 1 .. Len(ss)
        PROVE  flatten[k] = IF k = 1 THEN ss[k] ELSE flatten[k - 1] \o ss[k]
    BY <1>4, Zenon
  <2>. HIDE DEF flatten
  <2>. QED BY <2>1 DEF Steps
<1>6. FlattenSeq(ss) = IF ss = <<>> THEN <<>> ELSE flatten[Len(ss)]
  <2>1. CASE ss = <<>>
    BY <2>1 DEF FlattenSeq
  <2>2. CASE ss # <<>>
    BY <2>2 DEF FlattenSeq, flatten
  <2>. QED BY <2>1, <2>2
<1>. HIDE DEF flatten
<1>. QED BY <1>5, <1>6

\* A flattened list has at its places what the lists have, by their offsets.
LEMMA FlattenLocated ==
  ASSUME NEW S, NEW ss \in Seq(Seq(S))
  PROVE  /\ FlattenSeq(ss) \in Seq(S)
         /\ \E o : Offsets(ss, o) /\ Located(ss, FlattenSeq(ss), o)
<1>1. PICK f : Steps(ss, f) /\ FlattenSeq(ss) = IF ss = <<>> THEN <<>> ELSE f[Len(ss)]
  BY FlattenedBySteps
<1>2. Len(ss) \in Nat /\ \A k \in 1 .. Len(ss) : ss[k] \in Seq(S) /\ Len(ss[k]) \in Nat
  OBVIOUS
<1>. DEFINE g == [k \in 0 .. Len(ss) |-> IF k = 0 THEN <<>> ELSE f[k]]
            o == [k \in 0 .. Len(ss) |-> Len(g[k])]
            Good(k) ==
              /\ g[k] \in Seq(S)
              /\ \A j \in 1 .. k : \A i \in 1 .. Len(ss[j]) :
                   o[j - 1] + i \in 1 .. Len(g[k]) /\ g[k][o[j - 1] + i] = ss[j][i]
              /\ \A n \in 1 .. Len(g[k]) : \E j \in 1 .. k : \E i \in 1 .. Len(ss[j]) : n = o[j - 1] + i
<1>3. g[0] = <<>> /\ \A k \in 0 .. Len(ss) : o[k] = Len(g[k])
  BY <1>2
<1>4. ASSUME NEW k \in 1 .. Len(ss), g[k - 1] \in Seq(S)
      PROVE  g[k] = g[k - 1] \o ss[k]
  <2>1. f[k] = IF k = 1 THEN ss[k] ELSE f[k - 1] \o ss[k]
    BY <1>1 DEF Steps
  <2>2. CASE k = 1
    <3>1. g[k] = ss[k] /\ g[k - 1] = <<>>
      BY <1>2, <2>1, <2>2
    <3>. HIDE DEF g
    <3>. QED BY <1>2, <3>1, EmptyConcat
  <2>3. CASE k # 1
    <3>1. k - 1 \in 0 .. Len(ss) /\ k - 1 # 0 /\ k # 0 /\ k \in 0 .. Len(ss)
      BY <1>2, <2>3
    <3>2. g[k] = f[k] /\ g[k - 1] = f[k - 1]
      BY <3>1
    <3>. HIDE DEF g
    <3>. QED BY <2>1, <2>3, <3>2
  <2>. QED BY <2>2, <2>3
<1>. HIDE DEF g
<1>5. Good(0)
  BY <1>3
<1>6. ASSUME NEW k \in 1 .. Len(ss), Good(k - 1) PROVE Good(k)
  <2>1. PICK a \in Seq(S) : a = g[k - 1]
    BY <1>6
  <2>2. PICK b \in Seq(S) : b = ss[k]
    BY <1>2
  <2>3. g[k] = a \o b
    BY <1>4, <2>1, <2>2
  <2>4. o[k - 1] = Len(a) /\ Len(a) \in Nat /\ Len(b) \in Nat
    BY <1>3, <2>1
  <2>5. PICK c \in Seq(S) : c = g[k]
    BY <2>3, ConcatFacts
  <2>6. /\ Len(c) = Len(a) + Len(b)
        /\ \A i \in 1 .. Len(a) : c[i] = a[i]
        /\ \A i \in 1 .. Len(b) : c[Len(a) + i] = b[i]
    BY <2>3, <2>5, ConcatFacts
  <2>. HIDE DEF o
  <2>7. PICK p \in Nat, q \in Nat : p = Len(a) /\ q = Len(b) /\ p + q = Len(c)
    BY <2>4, <2>6
  <2>8. \A x \in 1 .. p : x \in 1 .. Len(c) /\ c[x] = a[x]
    BY <2>6, <2>7
  <2>9. \A x \in 1 .. q : p + x \in 1 .. Len(c) /\ c[p + x] = b[x]
    <3>1. \A x \in 1 .. q : c[p + x] = b[x]
      BY <2>6, <2>7
    <3>2. \A x \in 1 .. q : p + x \in 1 .. p + q
      OBVIOUS
    <3>. QED BY <2>7, <3>1, <3>2
  <2>10. ASSUME NEW j \in 1 .. k, NEW i \in 1 .. Len(ss[j])
        PROVE  o[j - 1] + i \in 1 .. Len(c) /\ c[o[j - 1] + i] = ss[j][i]
    <3>1. CASE j = k
      <4>1. i \in 1 .. q /\ o[j - 1] = p /\ ss[j] = b
        BY <2>2, <2>4, <2>7, <3>1
      <4>. QED BY <2>9, <4>1
    <3>2. CASE j # k
      <4>1. j \in 1 .. k - 1
        BY <3>2
      <4>2. o[j - 1] + i \in 1 .. p /\ a[o[j - 1] + i] = ss[j][i]
        BY <1>6, <2>1, <2>7, <4>1
      <4>. QED BY <2>8, <4>2
    <3>. QED BY <3>1, <3>2
  <2>11. ASSUME NEW n \in 1 .. Len(c)
        PROVE  \E j \in 1 .. k : \E i \in 1 .. Len(ss[j]) : n = o[j - 1] + i
    <3>1. CASE n <= p
      <4>1. n \in 1 .. Len(g[k - 1])
        BY <2>1, <2>7, <3>1
      <4>2. PICK j \in 1 .. k - 1 : \E i \in 1 .. Len(ss[j]) : n = o[j - 1] + i
        BY <1>6, <4>1
      <4>. QED BY <4>2
    <3>2. CASE n > p
      <4>1. PICK x \in 1 .. q : n = p + x
        <5>1. n \in 1 .. p + q
          BY <2>7
        <5>2. n - p \in 1 .. q /\ n = p + (n - p)
          BY <3>2, <5>1
        <5>. QED BY <5>2
      <4>2. k \in 1 .. k
        OBVIOUS
      <4>. QED BY <2>2, <2>4, <2>7, <4>1, <4>2
    <3>3. n \in Nat
      OBVIOUS
    <3>. QED BY <3>1, <3>2, <3>3
  <2>. QED BY <2>5, <2>10, <2>11
<1>7. \A k \in 0 .. Len(ss) : Good(k)
  <2>. DEFINE T == {k \in 0 .. Len(ss) : Good(k)}
  <2>. HIDE DEF Good
  <2>1. 0 \in T /\ \A k \in 1 .. Len(ss) : k - 1 \in T => k \in T
    BY <1>2, <1>5, <1>6
  <2>2. \A k \in 0 .. Len(ss) : k \in T
    <3>. HIDE DEF T
    <3>. QED BY <1>2, <2>1, InductTo
  <2>. QED BY <2>2
<1>8. FlattenSeq(ss) = g[Len(ss)]
  BY <1>1, <1>2 DEF g
<1>9. Offsets(ss, o)
  <2>1. o \in [0 .. Len(ss) -> Nat] /\ o[0] = 0
    BY <1>3, <1>7
  <2>2. ASSUME NEW k \in 1 .. Len(ss) PROVE o[k] = o[k - 1] + Len(ss[k])
    <3>1. k - 1 \in 0 .. Len(ss) /\ k \in 0 .. Len(ss)
      OBVIOUS
    <3>2. g[k] = g[k - 1] \o ss[k] /\ g[k - 1] \in Seq(S) /\ ss[k] \in Seq(S)
      BY <1>2, <1>4, <1>7, <3>1
    <3>3. Len(g[k]) = Len(g[k - 1]) + Len(ss[k])
      BY <3>2
    <3>. QED BY <1>3, <3>1, <3>3
  <2>. HIDE DEF o
  <2>. QED BY <2>1, <2>2 DEF Offsets
<1>10. Len(ss) \in 0 .. Len(ss) /\ o[Len(ss)] = Len(g[Len(ss)])
  BY <1>2, <1>3
<1>11. Good(Len(ss))
  BY <1>7, <1>10
<1>12. Located(ss, g[Len(ss)], o)
  <2>. HIDE DEF o
  <2>. QED BY <1>10, <1>11 DEF Located
<1>. HIDE DEF o
<1>. QED BY <1>8, <1>9, <1>11, <1>12

\* There is one way to give the offsets.
LEMMA OffsetsUnique ==
  ASSUME NEW ss, Len(ss) \in Nat, NEW o, NEW p, Offsets(ss, o), Offsets(ss, p)
  PROVE  o = p
<1>. DEFINE T == {k \in 0 .. Len(ss) : o[k] = p[k]}
<1>1. 0 \in T
  BY DEF Offsets
<1>2. ASSUME NEW k \in 1 .. Len(ss), k - 1 \in T PROVE k \in T
  BY <1>2 DEF Offsets
<1>3. \A k \in 0 .. Len(ss) : k \in T
  <2>. HIDE DEF T
  <2>. QED BY <1>1, <1>2, InductTo
<1>. QED BY <1>3 DEF Offsets

\* ... so that any offsets tell where members lie.
LEMMA FlattenAt ==
  ASSUME NEW S, NEW ss \in Seq(Seq(S)), NEW o, Offsets(ss, o)
  PROVE  FlattenSeq(ss) \in Seq(S) /\ Located(ss, FlattenSeq(ss), o)
<1>1. PICK p : Offsets(ss, p) /\ Located(ss, FlattenSeq(ss), p)
  BY FlattenLocated
<1>2. Len(ss) \in Nat
  OBVIOUS
<1>. QED BY <1>1, <1>2, OffsetsUnique, FlattenLocated

\* The lists lie one behind the other.
LEMMA OffsetsOrdered ==
  ASSUME NEW S, NEW ss \in Seq(Seq(S)), NEW o, Offsets(ss, o),
         NEW j \in 0 .. Len(ss), NEW k \in 0 .. Len(ss), j <= k
  PROVE  o[j] <= o[k]
<1>. DEFINE T == {m \in 0 .. Len(ss) : j <= m => o[j] <= o[m]}
<1>1. Len(ss) \in Nat
  OBVIOUS
<1>2. 0 \in T
  BY OffsetTypes
<1>3. ASSUME NEW m \in 1 .. Len(ss), m - 1 \in T PROVE m \in T
  <2>1. /\ o[m] = o[m - 1] + Len(ss[m]) /\ Len(ss[m]) \in Nat /\ o[m - 1] \in Nat
        /\ o[m] \in Nat /\ o[j] \in Nat /\ m \in 0 .. Len(ss)
    BY OffsetTypes
  <2>2. j <= m - 1 \/ j >= m
    BY <1>1
  <2>3. j >= m => (j <= m => j = m)
    BY <1>1
  <2>4. CASE j >= m
    BY <2>1, <2>3, <2>4
  <2>5. CASE j <= m - 1
    <3>1. o[j] <= o[m - 1]
      BY <1>3, <2>5
    <3>. QED BY <2>1, <3>1
  <2>. QED BY <2>2, <2>4, <2>5
<1>4. \A m \in 0 .. Len(ss) : m \in T
  <2>. HIDE DEF T
  <2>. QED BY <1>1, <1>2, <1>3, InductTo
<1>. QED BY <1>4

\* Two members of the lists do not get the same place in the flattened one.
LEMMA PlacesDiffer ==
  ASSUME NEW S, NEW ss \in Seq(Seq(S)), NEW o, Offsets(ss, o),
         NEW j \in 1 .. Len(ss), NEW i \in 1 .. Len(ss[j]),
         NEW k \in 1 .. Len(ss), NEW m \in 1 .. Len(ss[k])
  PROVE  /\ j < k => o[j - 1] + i < o[k - 1] + m
         /\ o[j - 1] + i = o[k - 1] + m => j = k /\ i = m
<1>1. /\ Len(ss[j]) \in Nat /\ o[j - 1] \in Nat /\ o[j] \in Nat
      /\ o[j] = o[j - 1] + Len(ss[j]) /\ j - 1 \in 0 .. Len(ss) /\ j \in 0 .. Len(ss)
  BY OffsetTypes
<1>2. /\ Len(ss[k]) \in Nat /\ o[k - 1] \in Nat /\ o[k] \in Nat
      /\ o[k] = o[k - 1] + Len(ss[k]) /\ k - 1 \in 0 .. Len(ss) /\ k \in 0 .. Len(ss)
  BY OffsetTypes
<1>3. j < k => o[j] <= o[k - 1]
  BY <1>1, <1>2, OffsetsOrdered
<1>4. k < j => o[k] <= o[j - 1]
  BY <1>1, <1>2, OffsetsOrdered
<1>5. j \in Nat /\ k \in Nat /\ i \in Nat /\ m \in Nat /\ i <= Len(ss[j]) /\ m <= Len(ss[k]) /\ i >= 1 /\ m >= 1
  BY <1>1, <1>2
<1>6. PICK a \in Nat, b \in Nat, c \in Nat, d \in Nat, x \in Nat, y \in Nat :
        /\ a = o[j - 1] /\ b = o[j] /\ c = o[k - 1] /\ d = o[k]
        /\ x = Len(ss[j]) /\ y = Len(ss[k])
  BY <1>1, <1>2
<1>7. /\ b = a + x /\ d = c + y /\ i <= x /\ m <= y
      /\ j < k => b <= c
      /\ k < j => d <= a
  BY <1>1, <1>2, <1>3, <1>4, <1>5, <1>6
<1>8. /\ j < k => a + i < c + m
      /\ k < j => c + m < a + i
  BY <1>5, <1>7
<1>9. j = k => a = c
  BY <1>6
<1>10. a + i = c + m => j = k /\ i = m
  BY <1>5, <1>8, <1>9
<1>. QED BY <1>6, <1>8, <1>10

\* A list has each member of a set, and each once.
Once(list, S) ==
  /\ list \in Seq(S)
  /\ \A x \in S : \E n \in 1 .. Len(list) : list[n] = x
  /\ \A m, n \in 1 .. Len(list) : list[m] = list[n] => m = n

\* Lists share a set out: each of its members is in one of them, and there once.
Shares(ss, S) ==
  /\ ss \in Seq(Seq(S))
  /\ \A x \in S : \E k \in 1 .. Len(ss) : \E i \in 1 .. Len(ss[k]) : ss[k][i] = x
  /\ \A j, k \in 1 .. Len(ss) : \A i \in 1 .. Len(ss[j]) : \A m \in 1 .. Len(ss[k]) :
       ss[j][i] = ss[k][m] => j = k /\ i = m

\* If lists share out a set, the flattened one has each of its members once.
LEMMA FlattenShares ==
  ASSUME NEW S, NEW ss, Shares(ss, S)
  PROVE  Once(FlattenSeq(ss), S)
<1>1. ss \in Seq(Seq(S))
  BY DEF Shares
<1>2. PICK flat \in Seq(S) : flat = FlattenSeq(ss)
  BY <1>1, FlattenLocated
<1>3. PICK o : Offsets(ss, o) /\ Located(ss, flat, o)
  BY <1>1, <1>2, FlattenLocated
<1>4. ASSUME NEW x \in S PROVE \E n \in 1 .. Len(flat) : flat[n] = x
  <2>1. PICK k \in 1 .. Len(ss) : \E i \in 1 .. Len(ss[k]) : ss[k][i] = x
    BY DEF Shares
  <2>2. PICK i \in 1 .. Len(ss[k]) : ss[k][i] = x
    BY <2>1
  <2>. QED BY <1>3, <2>2 DEF Located
<1>5. ASSUME NEW m \in 1 .. Len(flat), NEW n \in 1 .. Len(flat), flat[m] = flat[n]
      PROVE  m = n
  <2>1. PICK j \in 1 .. Len(ss) : \E i \in 1 .. Len(ss[j]) : m = o[j - 1] + i
    BY <1>3 DEF Located
  <2>2. PICK i \in 1 .. Len(ss[j]) : m = o[j - 1] + i
    BY <2>1
  <2>3. PICK k \in 1 .. Len(ss) : \E l \in 1 .. Len(ss[k]) : n = o[k - 1] + l
    BY <1>3 DEF Located
  <2>4. PICK l \in 1 .. Len(ss[k]) : n = o[k - 1] + l
    BY <2>3
  <2>5. flat[m] = ss[j][i] /\ flat[n] = ss[k][l]
    BY <1>3, <2>2, <2>4 DEF Located
  <2>6. j = k /\ i = l
    <3>1. ss[j][i] = ss[k][l]
      BY <1>5, <2>5
    <3>2. \A x \in 1 .. Len(ss[j]) : \A y \in 1 .. Len(ss[k]) :
            ss[j][x] = ss[k][y] => j = k /\ x = y
      BY DEF Shares
    <3>. QED BY <3>1, <3>2
  <2>. QED BY <2>2, <2>4, <2>6
<1>. QED BY <1>2, <1>4, <1>5 DEF Once

\* No lists flatten to the empty one.
LEMMA FlattenEmpty == FlattenSeq(<<>>) = <<>>
BY DEF FlattenSeq

\* What stands in the rest of a list after its head.
LEMMA TailFacts ==
  ASSUME NEW S, NEW s \in Seq(S), s # <<>>
  PROVE  /\ Len(s) \in Nat \ {0} /\ Head(s) = s[1] /\ Head(s) \in S
         /\ Tail(s) \in Seq(S) /\ Len(Tail(s)) = Len(s) - 1
         /\ \A i \in 1 .. Len(s) - 1 : Tail(s)[i] = s[i + 1]
OBVIOUS

\* A flattened list begins with the first list and goes on with the others.
LEMMA FlattenTail ==
  ASSUME NEW S, NEW ss \in Seq(Seq(S)), ss # <<>>
  PROVE  FlattenSeq(ss) = Head(ss) \o FlattenSeq(Tail(ss))
<1>1. /\ Len(ss) \in Nat \ {0} /\ Head(ss) = ss[1] /\ Head(ss) \in Seq(S)
      /\ Tail(ss) \in Seq(Seq(S)) /\ Len(Tail(ss)) = Len(ss) - 1
      /\ \A i \in 1 .. Len(ss) - 1 : Tail(ss)[i] = ss[i + 1]
  BY TailFacts
<1>2. PICK flat \in Seq(S) : flat = FlattenSeq(ss)
  BY FlattenLocated
<1>3. PICK o : Offsets(ss, o) /\ Located(ss, flat, o)
  BY <1>2, FlattenLocated
<1>4. PICK head \in Seq(S) : head = ss[1]
  BY <1>1, Zenon
<1>5. PICK tail \in Seq(Seq(S)) : tail = Tail(ss)
  BY <1>1, Zenon
<1>6. PICK M \in Nat : M = Len(tail) /\ Len(ss) = M + 1
  <2>1. Len(tail) = Len(ss) - 1 /\ Len(ss) \in Nat \ {0}
    BY <1>1, <1>5, Zenon
  <2>2. \A n \in Nat \ {0} : n - 1 \in Nat /\ n = (n - 1) + 1
    OBVIOUS
  <2>3. Len(ss) - 1 \in Nat /\ Len(ss) = (Len(ss) - 1) + 1
    BY <2>1, <2>2, Zenon
  <2>. QED BY <2>1, <2>3, Zenon
<1>. DEFINE p == [k \in 0 .. Len(tail) |-> o[k + 1] - o[1]]
<1>7. Len(tail) = Len(ss) - 1 /\ \A k \in 1 .. Len(tail) : tail[k] = ss[k + 1]
  BY <1>1, <1>5
<1>8. 1 \in 1 .. Len(ss) /\ o[0] = 0 /\ o[1] = Len(head) /\ Len(head) \in Nat
  BY <1>1, <1>3, <1>4, OffsetTypes
<1>9. ASSUME NEW k \in 0 .. Len(tail) PROVE p[k] = o[k + 1] - o[1] /\ p[k] \in Nat
  <2>1. k + 1 \in 0 .. Len(ss) /\ 1 \in 0 .. Len(ss) /\ 1 <= k + 1
    BY <1>1, <1>7
  <2>2. o[k + 1] \in Nat /\ o[1] \in Nat /\ o[1] <= o[k + 1]
    BY <1>3, <2>1, OffsetTypes, OffsetsOrdered
  <2>. QED BY <2>2
<1>10. Offsets(tail, p)
  <2>1. p \in [0 .. Len(tail) -> Nat]
    BY <1>9
  <2>2. 0 \in 0 .. Len(tail) /\ p[0] = 0
    <3>1. 0 \in 0 .. Len(tail)
      BY <1>1, <1>7
    <3>2. o[0 + 1] = o[1] /\ o[1] \in Nat
      BY <1>8
    <3>. QED BY <1>9, <3>1, <3>2
  <2>3. ASSUME NEW k \in 1 .. Len(tail) PROVE p[k] = p[k - 1] + Len(tail[k])
    <3>1. k \in 0 .. Len(tail) /\ k - 1 \in 0 .. Len(tail) /\ k + 1 \in 1 .. Len(ss) /\ (k - 1) + 1 = k /\ (k + 1) - 1 = k
      BY <1>1, <1>7
    <3>2. p[k] = o[k + 1] - o[1] /\ p[k - 1] = o[k] - o[1]
      BY <1>9, <3>1
    <3>3. /\ o[k + 1] = o[(k + 1) - 1] + Len(ss[k + 1]) /\ o[1] \in Nat
          /\ o[(k + 1) - 1] \in Nat /\ Len(ss[k + 1]) \in Nat
      BY <1>3, <1>8, <3>1, OffsetTypes
    <3>4. /\ o[k + 1] = o[k] + Len(tail[k]) /\ o[k] \in Nat /\ Len(tail[k]) \in Nat
          /\ o[1] \in Nat
      BY <1>7, <3>1, <3>3
    <3>. HIDE DEF p
    <3>5. PICK a \in Nat, b \in Nat, l \in Nat : a = o[k] /\ b = o[1] /\ l = Len(tail[k])
      BY <3>4
    <3>6. p[k] = (a + l) - b /\ p[k - 1] = a - b
      BY <3>2, <3>4, <3>5
    <3>7. (a + l) - b = (a - b) + l
      OBVIOUS
    <3>. QED BY <3>5, <3>6, <3>7
  <2>. HIDE DEF p
  <2>4. DOMAIN p = 0 .. Len(tail)
    BY <2>1
  <2>. QED BY <2>1, <2>2, <2>3 DEF Offsets
<1>. HIDE DEF p
<1>11. PICK rest \in Seq(S) : rest = FlattenSeq(tail)
  BY FlattenLocated
<1>12. Located(tail, rest, p)
  BY <1>10, <1>11, FlattenAt
<1>13. PICK both \in Seq(S) : both = head \o rest
  BY ConcatFacts
<1>14. /\ Len(both) = Len(head) + Len(rest)
       /\ \A x \in 1 .. Len(head) : both[x] = head[x]
       /\ \A x \in 1 .. Len(rest) : both[Len(head) + x] = rest[x]
  BY <1>13, ConcatFacts
<1>15. Len(both) = Len(flat)
  <2>1. Len(rest) = p[Len(tail)] /\ Len(flat) = o[Len(ss)] /\ Len(both) = Len(head) + Len(rest)
    BY <1>3, <1>12, <1>14 DEF Located
  <2>2. Len(tail) \in 0 .. Len(tail) /\ Len(tail) + 1 = Len(ss) /\ Len(ss) \in 0 .. Len(ss)
    BY <1>1, <1>7
  <2>3. p[Len(tail)] = o[Len(ss)] - Len(head) /\ o[Len(ss)] \in Nat
    BY <1>3, <1>8, <1>9, <2>2, OffsetTypes
  <2>. QED BY <1>8, <2>1, <2>3
<1>16. ASSUME NEW n \in 1 .. Len(flat) PROVE flat[n] = both[n]
  <2>1. PICK k \in 1 .. Len(ss) : \E i \in 1 .. Len(ss[k]) : n = o[k - 1] + i
    BY <1>3 DEF Located
  <2>2. PICK i \in 1 .. Len(ss[k]) : n = o[k - 1] + i
    BY <2>1
  <2>3. flat[n] = ss[k][i]
    BY <1>3, <2>2 DEF Located
  <2>4. CASE k = 1
    <3>1. n = i /\ i \in 1 .. Len(head) /\ flat[n] = head[i]
      <4>1. o[k - 1] = 0 /\ i \in 1 .. Len(head) /\ flat[n] = head[i]
        BY <1>4, <1>8, <2>3, <2>4
      <4>2. i \in Nat
        BY <4>1
      <4>3. n = 0 + i
        BY <2>2, <4>1
      <4>. QED BY <4>1, <4>2, <4>3
    <3>. QED BY <1>14, <3>1
  <2>5. CASE k # 1
    <3>1. /\ k - 1 \in 1 .. Len(tail) /\ k - 1 - 1 \in 0 .. Len(tail)
          /\ (k - 1) + 1 = k /\ (k - 1 - 1) + 1 = k - 1
      <4>1. k \in 1 .. M + 1
        BY <1>6, Zenon
      <4>2. /\ k - 1 \in 1 .. M /\ k - 1 - 1 \in 0 .. M
            /\ (k - 1) + 1 = k /\ (k - 1 - 1) + 1 = k - 1
        BY <2>5, <4>1
      <4>. QED BY <1>6, <4>2, Zenon
    <3>2. tail[k - 1] = ss[k]
      BY <1>7, <3>1
    <3>3. /\ p[k - 1 - 1] + i \in 1 .. Len(rest) /\ rest[p[k - 1 - 1] + i] = ss[k][i]
      <4>1. \A j \in 1 .. Len(tail) : \A x \in 1 .. Len(tail[j]) :
              p[j - 1] + x \in 1 .. Len(rest) /\ rest[p[j - 1] + x] = tail[j][x]
        BY <1>12 DEF Located
      <4>. QED BY <3>1, <3>2, <4>1
    <3>4. p[k - 1 - 1] = o[k - 1] - Len(head) /\ o[k - 1] \in Nat
      <4>1. p[k - 1 - 1] = o[(k - 1 - 1) + 1] - o[1]
        BY <1>9, <3>1
      <4>2. k - 1 \in 0 .. Len(ss)
        BY <1>1
      <4>3. o[k - 1] \in Nat
        BY <1>3, <4>2, OffsetTypes
      <4>. QED BY <1>8, <3>1, <4>1, <4>3
    <3>5. PICK q \in Nat : q = p[k - 1 - 1]
      BY <1>9, <3>1, Zenon
    <3>6. i \in Int
      OBVIOUS
    <3>7. n = Len(head) + (q + i)
      <4>1. PICK r \in Nat : r = o[k - 1]
        BY <3>4
      <4>2. q = r - Len(head) /\ n = r + i
        BY <2>2, <3>4, <3>5, <4>1
      <4>. QED BY <1>8, <3>6, <4>2
    <3>8. q + i \in 1 .. Len(rest) /\ rest[q + i] = ss[k][i]
      BY <3>3, <3>5
    <3>9. both[Len(head) + (q + i)] = rest[q + i]
      <4>1. PICK m \in 1 .. Len(rest) : m = q + i
        BY <3>8, Zenon
      <4>2. both[Len(head) + m] = rest[m]
        BY <1>14, <4>1, Zenon
      <4>. QED BY <4>1, <4>2, Zenon
    <3>. QED BY <2>3, <3>7, <3>8, <3>9
  <2>. QED BY <2>4, <2>5
<1>17. flat = both
  BY <1>15, <1>16, SameLists
<1>. QED BY <1>1, <1>2, <1>4, <1>5, <1>11, <1>13, <1>17

\* Flattening is of the lists' members, whatever these are replaced by.
\* The members of a list by their positions, in lists.
Mapped(list, idx) == [i \in DOMAIN idx |-> [j \in DOMAIN idx[i] |-> list[idx[i][j]]]]

\* tt is ss with g applied to every member, and so it is when the lists are joined.
MapsTo(tt, T, ss, g) ==
  /\ tt \in Seq(Seq(T)) /\ Len(tt) = Len(ss)
  /\ FlattenSeq(tt) \in Seq(T) /\ Len(FlattenSeq(tt)) = Len(FlattenSeq(ss))
  /\ \A n \in 1 .. Len(FlattenSeq(ss)) : FlattenSeq(tt)[n] = g[FlattenSeq(ss)[n]]

\* Mapping members and flattening may be swapped.
LEMMA FlattenMapped ==
  ASSUME NEW S, NEW T, NEW ss \in Seq(Seq(S)), NEW g \in [S -> T]
  PROVE  MapsTo(Mapped(g, ss), T, ss, g)
<1>1. PICK tt : tt = Mapped(g, ss) /\ tt = [k \in DOMAIN ss |-> [i \in DOMAIN ss[k] |-> g[ss[k][i]]]]
  BY DEF Mapped
<1>2. PICK flat \in Seq(S) : flat = FlattenSeq(ss)
  BY FlattenLocated
<1>3. PICK o : Offsets(ss, o) /\ Located(ss, flat, o)
  BY <1>2, FlattenLocated
<1>4. \A k \in 1 .. Len(ss) : ss[k] \in Seq(S) /\ DOMAIN ss[k] = 1 .. Len(ss[k]) /\ Len(ss[k]) \in Nat
  BY <1>3, OffsetTypes
<1>5. DOMAIN ss = 1 .. Len(ss) /\ Len(ss) \in Nat
  BY <1>3, OffsetTypes
<1>6. ASSUME NEW k \in 1 .. Len(ss)
      PROVE  /\ tt[k] \in Seq(T) /\ Len(tt[k]) = Len(ss[k])
             /\ \A i \in 1 .. Len(ss[k]) : tt[k][i] = g[ss[k][i]]
  <2>1. tt[k] = [i \in 1 .. Len(ss[k]) |-> g[ss[k][i]]]
    BY <1>1, <1>4, <1>5
  <2>2. \A i \in 1 .. Len(ss[k]) : ss[k][i] \in S
    BY <1>4, ListFacts
  <2>3. tt[k] \in [1 .. Len(ss[k]) -> T]
    BY <2>1, <2>2
  <2>. QED BY <1>4, <2>1, <2>3, ListOf
<1>7. tt \in Seq(Seq(T)) /\ Len(tt) = Len(ss)
  <2>1. tt \in [1 .. Len(ss) -> Seq(T)]
    BY <1>1, <1>5, <1>6
  <2>. QED BY <1>5, <2>1, ListOf
<1>8. Offsets(tt, o)
  BY <1>3, <1>6, <1>7 DEF Offsets
<1>9. PICK list \in Seq(T) : list = FlattenSeq(tt)
  BY <1>7, FlattenLocated
<1>10. Located(tt, list, o)
  BY <1>7, <1>8, <1>9, FlattenAt
<1>11. Len(list) = Len(flat)
  BY <1>3, <1>7, <1>10 DEF Located
<1>12. ASSUME NEW n \in 1 .. Len(flat) PROVE list[n] = g[flat[n]]
  <2>1. PICK k \in 1 .. Len(ss) : \E i \in 1 .. Len(ss[k]) : n = o[k - 1] + i
    BY <1>3 DEF Located
  <2>2. PICK i \in 1 .. Len(ss[k]) : n = o[k - 1] + i
    BY <2>1
  <2>3. flat[n] = ss[k][i]
    BY <1>3, <2>2 DEF Located
  <2>4. list[n] = tt[k][i]
    <3>1. k \in 1 .. Len(tt) /\ i \in 1 .. Len(tt[k])
      BY <1>6, <1>7
    <3>. QED BY <1>10, <2>2, <3>1 DEF Located
  <2>. QED BY <1>6, <2>3, <2>4
<1>. QED BY <1>1, <1>2, <1>7, <1>9, <1>11, <1>12 DEF MapsTo

\* Rounding up.
LEMMA CeilDivIs ==
  ASSUME NEW a \in Nat, NEW b \in Nat \ {0}
  PROVE  /\ CeilDiv(a, b) \in Nat /\ a <= b * CeilDiv(a, b) /\ b * CeilDiv(a, b) < a + b
         /\ (a = 0 <=> CeilDiv(a, b) = 0) /\ CeilDiv(a, b) <= a
<1>1. PICK c \in Int : c = CeilDiv(a, b)
  BY DEF CeilDiv
<1>2. c = (a + b - 1) \div b
  BY <1>1 DEF CeilDiv
<1>3. b * c <= a + b - 1 /\ a + b - 1 < b * c + b
  BY <1>2
<1>4. c >= 0
  <2>1. c < 0 => b * c <= 0 - b
    OBVIOUS
  <2>. QED BY <1>3, <2>1
<1>5. a = 0 => c = 0
  <2>1. c >= 1 => b * c >= b
    OBVIOUS
  <2>. QED BY <1>3, <1>4, <2>1
<1>6. c = 0 => a = 0
  <2>1. c = 0 => b * c = 0
    OBVIOUS
  <2>. QED BY <1>3, <2>1
<1>7. c <= a
  <2>1. c >= a + 1 => b * c >= b * (a + 1)
    OBVIOUS
  <2>2. b * (a + 1) = b * a + b /\ b * a >= a
    OBVIOUS
  <2>3. b * a \in Int /\ b * c \in Int
    OBVIOUS
  <2>. QED BY <1>3, <2>1, <2>2, <2>3
<1>. QED BY <1>1, <1>3, <1>4, <1>5, <1>6, <1>7

\* A number of rows that b divides.
LEMMA ExactDiv ==
  ASSUME NEW a \in Nat, NEW b \in Nat \ {0}, a % b = 0
  PROVE  /\ CeilDiv(a, b) = a \div b /\ a \div b \in Nat /\ a = b * (a \div b)
<1>1. PICK c \in Int : c = a \div b
  OBVIOUS
<1>2. a = b * c
  BY <1>1
<1>3. c \in Nat
  <2>1. c < 0 => b * c <= 0 - b
    OBVIOUS
  <2>. QED BY <1>2, <2>1
<1>4. PICK d \in Nat : d = CeilDiv(a, b)
  BY CeilDivIs
<1>5. a <= b * d /\ b * d < a + b
  BY <1>4, CeilDivIs
<1>6. d = c
  <2>1. d < c => b * d + b <= b * c
    <3>1. d < c => d + 1 <= c
      BY <1>3
    <3>2. d + 1 <= c => b * (d + 1) <= b * c
      BY <1>3
    <3>3. b * (d + 1) = b * d + b
      OBVIOUS
    <3>. QED BY <3>1, <3>2, <3>3
  <2>2. d > c => b * d >= b * c + b
    <3>1. d > c => d >= c + 1
      BY <1>3
    <3>2. d >= c + 1 => b * d >= b * (c + 1)
      BY <1>3
    <3>3. b * (c + 1) = b * c + b
      OBVIOUS
    <3>. QED BY <3>1, <3>2, <3>3
  <2>3. b * c \in Int /\ b * d \in Int
    OBVIOUS
  <2>. QED BY <1>2, <1>3, <1>5, <2>1, <2>2, <2>3
<1>. QED BY <1>1, <1>2, <1>3, <1>4, <1>6

\* What stands in a piece of a list.
LEMMA SubSeqFacts ==
  ASSUME NEW S, NEW s \in Seq(S), NEW a \in Nat \ {0}, NEW b \in Nat, b <= Len(s), a <= b + 1
  PROVE  /\ SubSeq(s, a, b) \in Seq(S) /\ Len(SubSeq(s, a, b)) = b - a + 1
         /\ \A i \in 1 .. b - a + 1 : SubSeq(s, a, b)[i] = s[a + i - 1]
<1>1. SubSeq(s, a, b) = [i \in 1 .. b - a + 1 |-> s[a + i - 1]]
  OBVIOUS
<1>2. \A i \in 1 .. b - a + 1 : a + i - 1 \in 1 .. Len(s)
  OBVIOUS
<1>3. [i \in 1 .. b - a + 1 |-> s[a + i - 1]] \in [1 .. b - a + 1 -> S]
  BY <1>2
<1>4. b - a + 1 \in Nat
  OBVIOUS
<1>. QED BY <1>1, <1>3, <1>4, ListOf

\* A list cut into pieces of n has the list's members in their order.
Cut(ss, s, n) ==
  /\ Len(ss) = CeilDiv(Len(s), n)
  /\ \A k \in 1 .. CeilDiv(Len(s), n) :
       /\ Len(ss[k]) >= 1 /\ Len(ss[k]) <= n
       /\ n * k <= Len(s) => Len(ss[k]) = n
       /\ \A i \in 1 .. Len(ss[k]) : n * (k - 1) + i \in 1 .. Len(s) /\ ss[k][i] = s[n * (k - 1) + i]

\* Slices cut a list.
LEMMA SlicesAre ==
  ASSUME NEW S, NEW s \in Seq(S), NEW n \in Nat \ {0}
  PROVE  /\ Slices(s, n) \in Seq(Seq(S)) /\ FlattenSeq(Slices(s, n)) = s
         /\ Cut(Slices(s, n), s, n)
<1>. DEFINE c == CeilDiv(Len(s), n)
            end(k) == IF n * k < Len(s) THEN n * k ELSE Len(s)
            o == [k \in 0 .. c |-> end(k)]
<1>1. Len(s) \in Nat
  OBVIOUS
<1>2. Len(s) \in Nat /\ c \in Nat /\ Len(s) <= n * c /\ n * c < Len(s) + n
  BY <1>1, CeilDivIs
<1>. HIDE DEF c
<1>3. \A k \in 0 .. c : end(k) \in Nat
  BY <1>2
<1>4. ASSUME NEW k \in 1 .. c
      PROVE  /\ n * (k - 1) \in Nat /\ n * k = n * (k - 1) + n /\ n * (k - 1) < Len(s)
             /\ k - 1 \in 0 .. c /\ end(k - 1) = n * (k - 1) /\ end(k) > n * (k - 1)
             /\ end(k) <= Len(s)
  <2>1. k \in Int /\ k <= c /\ k >= 1 /\ k - 1 \in Nat
    BY <1>2
  <2>2. n * (k - 1) \in Nat /\ n * k = n * (k - 1) + n
    BY <2>1
  <2>3. n * k <= n * c
    BY <1>2, <2>1
  <2>4. n * k \in Int /\ n * c \in Int
    BY <1>2, <2>1
  <2>5. n * (k - 1) < Len(s)
    BY <1>2, <2>2, <2>3, <2>4
  <2>. QED BY <1>2, <2>1, <2>2, <2>5
<1>5. ASSUME NEW k \in 1 .. c
      PROVE  /\ Slices(s, n)[k] \in Seq(S) /\ Len(Slices(s, n)[k]) = end(k) - n * (k - 1)
             /\ \A i \in 1 .. end(k) - n * (k - 1) : Slices(s, n)[k][i] = s[n * (k - 1) + i]
  <2>1. Slices(s, n)[k] = SubSeq(s, n * (k - 1) + 1, end(k))
    BY DEF Slices, c
  <2>2. PICK a \in Nat : a = n * (k - 1)
    BY <1>4
  <2>3. PICK b \in Nat : b = end(k)
    BY <1>3
  <2>4. a < b /\ b <= Len(s)
    BY <1>4, <2>2, <2>3
  <2>5. PICK t : t = SubSeq(s, a + 1, b)
    OBVIOUS
  <2>6. t \in Seq(S) /\ Len(t) = b - a /\ \A i \in 1 .. b - a : t[i] = s[a + i]
    <3>1. a + 1 \in Nat \ {0} /\ b - (a + 1) + 1 = b - a /\ \A i \in 1 .. b - a : (a + 1) + i - 1 = a + i
      BY <2>4
    <3>2. a + 1 <= b + 1
      BY <2>4
    <3>3. /\ t \in Seq(S) /\ Len(t) = b - (a + 1) + 1
          /\ \A i \in 1 .. b - (a + 1) + 1 : t[i] = s[(a + 1) + i - 1]
      BY <2>4, <2>5, <3>1, <3>2, SubSeqFacts
    <3>. QED BY <3>1, <3>3
  <2>. QED BY <2>1, <2>2, <2>3, <2>5, <2>6
<1>6. Slices(s, n) \in Seq(Seq(S)) /\ Len(Slices(s, n)) = c
  <2>1. Slices(s, n) = [k \in 1 .. c |-> Slices(s, n)[k]]
    BY DEF Slices, c
  <2>2. Slices(s, n) \in [1 .. c -> Seq(S)]
    BY <1>5, <2>1
  <2>. QED BY <1>2, <2>2, ListOf
<1>7. Offsets(Slices(s, n), o)
  <2>1. o \in [0 .. c -> Nat]
    BY <1>3
  <2>2. o[0] = 0
    <3>1. 0 \in 0 .. c /\ n * 0 = 0
      BY <1>2
    <3>2. end(0) = 0
      BY <1>2, <3>1
    <3>. QED BY <3>1, <3>2
  <2>3. ASSUME NEW k \in 1 .. c PROVE o[k] = o[k - 1] + Len(Slices(s, n)[k])
    <3>1. k \in 0 .. c /\ k - 1 \in 0 .. c
      BY <1>2
    <3>2. o[k] = end(k) /\ o[k - 1] = n * (k - 1)
      BY <1>4, <3>1
    <3>3. PICK a \in Nat, b \in Nat : a = n * (k - 1) /\ b = end(k)
      BY <1>3, <1>4, <3>1
    <3>4. Len(Slices(s, n)[k]) = b - a
      BY <1>5, <3>3
    <3>. HIDE DEF o, end
    <3>. QED BY <3>2, <3>3, <3>4
  <2>. HIDE DEF o
  <2>. QED BY <1>6, <2>1, <2>2, <2>3 DEF Offsets
<1>8. FlattenSeq(Slices(s, n)) = s
  <2>1. PICK flat \in Seq(S) : flat = FlattenSeq(Slices(s, n))
    BY <1>6, FlattenLocated
  <2>2. Located(Slices(s, n), flat, o)
    BY <1>6, <1>7, <2>1, FlattenAt
  <2>3. Len(flat) = Len(s)
    <3>1. Len(flat) = o[c]
      BY <1>6, <2>2 DEF Located
    <3>2. c \in 0 .. c /\ n * c \in Int
      BY <1>2
    <3>. QED BY <1>2, <3>1, <3>2
  <2>4. ASSUME NEW m \in 1 .. Len(flat) PROVE flat[m] = s[m]
    <3>1. PICK k \in 1 .. c : \E i \in 1 .. Len(Slices(s, n)[k]) : m = o[k - 1] + i
      BY <1>6, <2>2 DEF Located
    <3>2. PICK i \in 1 .. Len(Slices(s, n)[k]) : m = o[k - 1] + i
      BY <3>1
    <3>3. flat[m] = Slices(s, n)[k][i]
      BY <1>6, <2>2, <3>2 DEF Located
    <3>4. o[k - 1] = n * (k - 1)
      BY <1>4
    <3>. QED BY <1>5, <3>2, <3>3, <3>4
  <2>. QED BY <2>1, <2>3, <2>4, SameLists
<1>9. ASSUME NEW k \in 1 .. c
      PROVE  /\ Len(Slices(s, n)[k]) >= 1 /\ Len(Slices(s, n)[k]) <= n
             /\ n * k <= Len(s) => Len(Slices(s, n)[k]) = n
             /\ \A i \in 1 .. Len(Slices(s, n)[k]) :
                  /\ n * (k - 1) + i \in 1 .. Len(s)
                  /\ Slices(s, n)[k][i] = s[n * (k - 1) + i]
  <2>1. k \in 0 .. c
    BY <1>2
  <2>2. PICK a \in Nat, b \in Nat : a = n * (k - 1) /\ b = end(k)
    BY <1>3, <1>4, <2>1
  <2>3. /\ a < b /\ b <= Len(s) /\ b <= a + n /\ (n * k <= Len(s) => b = a + n)
    BY <1>2, <1>4, <2>2
  <2>4. PICK t : t = Slices(s, n)[k]
    OBVIOUS
  <2>5. Len(t) = b - a /\ \A i \in 1 .. b - a : t[i] = s[a + i]
    BY <1>5, <2>2, <2>4
  <2>. HIDE DEF end
  <2>6. PICK l \in Nat : l = b - a /\ l >= 1 /\ l <= n /\ (n * k <= Len(s) => l = n)
    <3>1. b - a \in Nat /\ b - a >= 1 /\ b - a <= n
      BY <2>3
    <3>2. n * k <= Len(s) => b - a = n
      BY <2>3
    <3>. QED BY <3>1, <3>2
  <2>7. ASSUME NEW i \in 1 .. l PROVE a + i \in 1 .. Len(s)
    <3>1. a + i <= b /\ a + i \in Nat /\ a + i >= 1
      BY <2>3, <2>6
    <3>. QED BY <1>2, <2>3, <3>1
  <2>8. Len(t) = l /\ \A i \in 1 .. l : t[i] = s[a + i]
    BY <2>5, <2>6
  <2>. QED BY <2>2, <2>4, <2>6, <2>7, <2>8
<1>10. PICK ss : ss = Slices(s, n)
  OBVIOUS
<1>11. Cut(ss, s, n)
  BY <1>6, <1>9, <1>10 DEF Cut, c
<1>. QED BY <1>6, <1>8, <1>10, <1>11

\* The sums of a list's first members.
Totals(f, rows, t) ==
  /\ t \in [0 .. Len(rows) -> Nat] /\ t[0] = 0
  /\ \A n \in 1 .. Len(rows) : t[n] = t[n - 1] + f[rows[n]]

\* There is one way to add up.
LEMMA TotalsUnique ==
  ASSUME NEW f, NEW rows, Len(rows) \in Nat, NEW t, NEW u, Totals(f, rows, t), Totals(f, rows, u)
  PROVE  t = u
<1>. DEFINE T == {k \in 0 .. Len(rows) : t[k] = u[k]}
<1>1. 0 \in T
  BY DEF Totals
<1>2. ASSUME NEW k \in 1 .. Len(rows), k - 1 \in T PROVE k \in T
  BY <1>2 DEF Totals
<1>3. \A k \in 0 .. Len(rows) : k \in T
  <2>. HIDE DEF T
  <2>. QED BY <1>1, <1>2, InductTo
<1>. QED BY <1>3 DEF Totals

\* SumOf adds up: its recursive function has values.
LEMMA SumTotals ==
  ASSUME NEW R, NEW rows \in Seq(R), NEW f \in [R -> Nat]
  PROVE  \E t : Totals(f, rows, t) /\ SumOf(f, rows) = t[Len(rows)]
<1>. DEFINE N == Len(rows)
            Upto(n, g) == g = [m \in 0 .. n |-> IF m = 0 THEN 0 ELSE g[m - 1] + f[rows[m]]]
            Defined(n) == \E g : Upto(n, g) /\ g \in [0 .. n -> Nat]
            sum == CHOOSE g : Upto(N, g)
<1>1. N \in Nat /\ \A n \in 1 .. N : f[rows[n]] \in Nat
  OBVIOUS
<1>2. Defined(0)
  <2>1. Upto(0, [m \in 0 .. 0 |-> 0]) /\ [m \in 0 .. 0 |-> 0] \in [0 .. 0 -> Nat]
    OBVIOUS
  <2>. HIDE DEF Upto
  <2>. QED BY <2>1
<1>. HIDE DEF N
<1>3. ASSUME NEW n \in 1 .. N, Defined(n - 1) PROVE Defined(n)
  <2>1. PICK g : Upto(n - 1, g) /\ g \in [0 .. n - 1 -> Nat]
    BY <1>3
  <2>. DEFINE h == [m \in 0 .. n |-> IF m < n THEN g[m] ELSE g[n - 1] + f[rows[n]]]
  <2>2. h \in [0 .. n -> Nat]
    <3>1. n - 1 \in 0 .. n - 1 /\ g[n - 1] \in Nat /\ f[rows[n]] \in Nat
      BY <1>1, <2>1
    <3>2. \A m \in 0 .. n : m < n => g[m] \in Nat
      BY <1>1, <2>1
    <3>. QED BY <3>1, <3>2
  <2>3. ASSUME NEW m \in 0 .. n
        PROVE  h[m] = IF m = 0 THEN 0 ELSE h[m - 1] + f[rows[m]]
    <3>1. CASE m < n
      <4>1. m \in 0 .. n - 1 /\ (m # 0 => m - 1 \in 0 .. n /\ m - 1 < n)
        BY <1>1, <3>1
      <4>2. h[m] = g[m] /\ (m # 0 => h[m - 1] = g[m - 1])
        BY <3>1, <4>1
      <4>. QED BY <2>1, <4>1, <4>2
    <3>2. CASE m = n
      <4>1. n # 0 /\ n - 1 \in 0 .. n /\ n - 1 < n
        BY <1>1
      <4>. QED BY <3>2, <4>1
    <3>. QED BY <1>1, <3>1, <3>2
  <2>4. h = [m \in 0 .. n |-> h[m]]
    OBVIOUS
  <2>. HIDE DEF h
  <2>5. Upto(n, h)
    BY <2>3, <2>4
  <2>. HIDE DEF Upto
  <2>. QED BY <2>2, <2>5
<1>4. Defined(N)
  <2>. DEFINE T == {n \in 0 .. N : Defined(n)}
  <2>. HIDE DEF Defined
  <2>1. 0 \in T /\ \A k \in 1 .. N : k - 1 \in T => k \in T
    BY <1>1, <1>2, <1>3
  <2>2. N \in T
    <3>. HIDE DEF T
    <3>1. \A k \in 0 .. N : k \in T
      BY <1>1, <2>1, InductTo
    <3>. QED BY <1>1, <3>1
  <2>. QED BY <2>2
<1>5. Upto(N, sum)
  <2>. HIDE DEF Upto
  <2>. QED BY <1>4
<1>6. SumOf(f, rows) = sum[N]
  BY DEF SumOf, sum, N
<1>. HIDE DEF sum
<1>7. \A m \in 0 .. N : sum[m] = IF m = 0 THEN 0 ELSE sum[m - 1] + f[rows[m]]
  BY <1>5
<1>8. DOMAIN sum = 0 .. N /\ sum = [m \in 0 .. N |-> sum[m]]
  BY <1>5
<1>9. \A m \in 0 .. N : sum[m] \in Nat
  <2>. DEFINE T == {m \in 0 .. N : sum[m] \in Nat}
  <2>1. 0 \in T
    BY <1>1, <1>7
  <2>2. ASSUME NEW k \in 1 .. N, k - 1 \in T PROVE k \in T
    <3>1. k \in 0 .. N /\ k # 0 /\ f[rows[k]] \in Nat
      BY <1>1
    <3>2. sum[k] = sum[k - 1] + f[rows[k]] /\ sum[k - 1] \in Nat
      BY <1>7, <2>2, <3>1
    <3>. QED BY <3>1, <3>2
  <2>3. \A k \in 0 .. N : k \in T
    <3>. HIDE DEF T
    <3>. QED BY <1>1, <2>1, <2>2, InductTo
  <2>. QED BY <2>3
<1>10. Totals(f, rows, sum)
  <2>1. sum \in [0 .. N -> Nat]
    BY <1>8, <1>9
  <2>2. sum[0] = 0
    BY <1>1, <1>7
  <2>3. \A n \in 1 .. N : sum[n] = sum[n - 1] + f[rows[n]]
    BY <1>1, <1>7
  <2>. QED BY <2>1, <2>2, <2>3 DEF Totals, N
<1>. QED BY <1>6, <1>10 DEF N

\* ... so that any totals end with the sum.
LEMMA SumAt ==
  ASSUME NEW R, NEW rows \in Seq(R), NEW f \in [R -> Nat], NEW t, Totals(f, rows, t)
  PROVE  SumOf(f, rows) = t[Len(rows)] /\ SumOf(f, rows) \in Nat
<1>1. Len(rows) \in Nat
  OBVIOUS
<1>2. PICK u : Totals(f, rows, u) /\ SumOf(f, rows) = u[Len(rows)]
  BY SumTotals
<1>3. u = t
  BY <1>1, <1>2, TotalsUnique
<1>4. t[Len(rows)] \in Nat
  BY <1>1 DEF Totals
<1>. QED BY <1>2, <1>3, <1>4

\* A sum of natural numbers is one.
LEMMA SumIsNat ==
  ASSUME NEW R, NEW rows \in Seq(R), NEW f \in [R -> Nat]
  PROVE  SumOf(f, rows) \in Nat
BY SumTotals, SumAt

\* The sum over no rows.
LEMMA SumEmpty ==
  ASSUME NEW R, NEW f \in [R -> Nat] PROVE SumOf(f, <<>>) = 0
<1>1. <<>> \in Seq(R) /\ Len(<<>>) = 0
  OBVIOUS
<1>2. PICK t : Totals(f, <<>>, t) /\ SumOf(f, <<>>) = t[0]
  BY <1>1, SumTotals
<1>. QED BY <1>2 DEF Totals

\* The sum over one row.
LEMMA SumOne ==
  ASSUME NEW R, NEW f \in [R -> Nat], NEW x \in R PROVE SumOf(f, <<x>>) = f[x]
<1>1. <<x>> \in Seq(R) /\ Len(<<x>>) = 1 /\ <<x>>[1] = x
  OBVIOUS
<1>2. PICK t : Totals(f, <<x>>, t) /\ SumOf(f, <<x>>) = t[1]
  BY <1>1, SumTotals
<1>3. t[1] = t[0] + f[x] /\ t[0] = 0
  BY <1>1, <1>2 DEF Totals
<1>4. f[x] \in Nat
  OBVIOUS
<1>. QED BY <1>2, <1>3, <1>4

\* The sum over two lists joined.
LEMMA SumConcat ==
  ASSUME NEW R, NEW a \in Seq(R), NEW b \in Seq(R), NEW f \in [R -> Nat]
  PROVE  SumOf(f, a \o b) = SumOf(f, a) + SumOf(f, b)
<1>1. PICK t : Totals(f, a, t) /\ SumOf(f, a) = t[Len(a)]
  BY SumTotals
<1>2. PICK u : Totals(f, b, u) /\ SumOf(f, b) = u[Len(b)]
  BY SumTotals
<1>3. PICK c \in Seq(R) : c = a \o b
  BY ConcatFacts
<1>4. /\ Len(c) = Len(a) + Len(b) /\ Len(a) \in Nat /\ Len(b) \in Nat
      /\ \A i \in 1 .. Len(a) : c[i] = a[i]
      /\ \A i \in 1 .. Len(b) : c[Len(a) + i] = b[i]
  BY <1>3, ConcatFacts
<1>. DEFINE v == [n \in 0 .. Len(c) |-> IF n <= Len(a) THEN t[n] ELSE t[Len(a)] + u[n - Len(a)]]
<1>5. /\ \A n \in 0 .. Len(a) : t[n] \in Nat
      /\ t[0] = 0 /\ t[Len(a)] \in Nat
      /\ \A n \in 1 .. Len(a) : t[n] = t[n - 1] + f[a[n]]
  <2>1. Len(a) \in 0 .. Len(a)
    BY <1>4
  <2>. QED BY <1>1, <2>1 DEF Totals
<1>6. /\ \A n \in 0 .. Len(b) : u[n] \in Nat
      /\ u[0] = 0
      /\ \A n \in 1 .. Len(b) : u[n] = u[n - 1] + f[b[n]]
  BY <1>2 DEF Totals
<1>7. ASSUME NEW n \in 0 .. Len(b) PROVE v[Len(a) + n] = t[Len(a)] + u[n]
  <2>1. Len(a) + n \in 0 .. Len(c) /\ (Len(a) + n) - Len(a) = n /\ (Len(a) + n <= Len(a) => n = 0)
    BY <1>4
  <2>2. CASE n = 0
    BY <1>4, <1>5, <1>6, <2>1, <2>2
  <2>3. CASE n # 0
    BY <1>4, <2>1, <2>3
  <2>. QED BY <2>2, <2>3
<1>8. ASSUME NEW n \in 0 .. Len(a) PROVE v[n] = t[n]
  BY <1>4
<1>9. v \in [0 .. Len(c) -> Nat]
  <2>1. ASSUME NEW n \in 0 .. Len(c) PROVE v[n] \in Nat
    <3>1. CASE n <= Len(a)
      BY <1>4, <1>5, <3>1
    <3>2. CASE n > Len(a)
      <4>1. n - Len(a) \in 0 .. Len(b)
        BY <1>4, <3>2
      <4>2. u[n - Len(a)] \in Nat
        BY <1>6, <4>1
      <4>3. v[n] = t[Len(a)] + u[n - Len(a)]
        BY <1>4, <3>2
      <4>. HIDE DEF v
      <4>. QED BY <1>5, <4>2, <4>3
    <3>. QED BY <1>4, <3>1, <3>2
  <2>. QED BY <2>1
<1>. HIDE DEF v
<1>10. ASSUME NEW n \in 1 .. Len(c) PROVE v[n] = v[n - 1] + f[c[n]]
  <2>1. CASE n <= Len(a)
    <3>1. n \in 1 .. Len(a) /\ n - 1 \in 0 .. Len(a) /\ n \in 0 .. Len(a)
      BY <1>4, <2>1
    <3>. QED BY <1>4, <1>5, <1>8, <3>1
  <2>2. CASE n > Len(a)
    <3>1. PICK m \in 1 .. Len(b) : n = Len(a) + m /\ n - 1 = Len(a) + (m - 1)
      <4>1. n - Len(a) \in 1 .. Len(b) /\ n = Len(a) + (n - Len(a)) /\ n - 1 = Len(a) + ((n - Len(a)) - 1)
        BY <1>4, <2>2
      <4>. QED BY <4>1
    <3>2. m \in 0 .. Len(b) /\ m - 1 \in 0 .. Len(b)
      BY <1>4
    <3>3. v[n] = t[Len(a)] + u[m] /\ v[n - 1] = t[Len(a)] + u[m - 1] /\ c[n] = b[m]
      BY <1>4, <1>7, <3>1, <3>2
    <3>4. u[m] = u[m - 1] + f[b[m]] /\ f[b[m]] \in Nat /\ u[m - 1] \in Nat
      <4>1. b[m] \in R
        OBVIOUS
      <4>. QED BY <1>6, <3>2, <4>1
    <3>5. PICK x \in Nat, y \in Nat, z \in Nat : x = t[Len(a)] /\ y = u[m - 1] /\ z = f[b[m]]
      BY <1>5, <3>4
    <3>6. v[n] = x + (y + z) /\ v[n - 1] = x + y /\ f[c[n]] = z
      BY <3>3, <3>4, <3>5
    <3>. QED BY <3>6
  <2>. QED BY <1>4, <2>1, <2>2
<1>11. Totals(f, c, v)
  <2>1. v[0] = 0
    BY <1>4, <1>5, <1>8
  <2>. QED BY <1>9, <1>10, <2>1 DEF Totals
<1>12. SumOf(f, c) = v[Len(c)]
  BY <1>11, SumAt
<1>13. v[Len(c)] = t[Len(a)] + u[Len(b)]
  <2>1. Len(b) \in 0 .. Len(b)
    BY <1>4
  <2>. QED BY <1>4, <1>7, <2>1
<1>. QED BY <1>1, <1>2, <1>3, <1>12, <1>13

\* A sum lies between as many times the smallest and the largest value.
LEMMA SumBounds ==
  ASSUME NEW R, NEW rows \in Seq(R), NEW f \in [R -> Nat], NEW low \in Nat, NEW high \in Nat,
         \A x \in R : low <= f[x] /\ f[x] <= high
  PROVE  low * Len(rows) <= SumOf(f, rows) /\ SumOf(f, rows) <= high * Len(rows)
<1>1. PICK t : Totals(f, rows, t) /\ SumOf(f, rows) = t[Len(rows)]
  BY SumTotals
<1>2. \A k \in 1 .. Len(rows) : t[k] = t[k - 1] + f[rows[k]] /\ t[k - 1] \in Nat
  BY <1>1 DEF Totals
<1>. DEFINE T == {n \in 0 .. Len(rows) : low * n <= t[n] /\ t[n] <= high * n}
<1>3. Len(rows) \in Nat
  OBVIOUS
<1>4. 0 \in T
  BY <1>1, <1>3 DEF Totals
<1>5. ASSUME NEW k \in 1 .. Len(rows), k - 1 \in T PROVE k \in T
  <2>1. t[k] = t[k - 1] + f[rows[k]] /\ t[k - 1] \in Nat
    BY <1>2, Zenon
  <2>2. rows[k] \in R
    OBVIOUS
  <2>3. PICK v \in Nat, u \in Nat : v = f[rows[k]] /\ low <= v /\ v <= high /\ u = t[k - 1]
    BY <2>1, <2>2
  <2>4. low * k = low * (k - 1) + low /\ high * k = high * (k - 1) + high
    BY <1>3
  <2>5. low * (k - 1) \in Int /\ high * (k - 1) \in Int
    BY <1>3
  <2>6. low * (k - 1) <= u /\ u <= high * (k - 1)
    BY <1>5, <2>3
  <2>7. low * k <= u + v /\ u + v <= high * k
    <3>1. PICK p \in Int, q \in Int : p = low * (k - 1) /\ q = high * (k - 1)
      BY <2>5
    <3>2. PICK a \in Int, b \in Int : a = low * k /\ b = high * k
      BY <1>3
    <3>3. p <= u /\ u <= q /\ a = p + low /\ b = q + high
      BY <2>4, <2>6, <3>1, <3>2
    <3>4. low <= v /\ v <= high
      BY <2>3
    <3>5. a <= u + v /\ u + v <= b
      BY <3>3, <3>4
    <3>. QED BY <3>2, <3>5
  <2>. QED BY <1>3, <2>1, <2>3, <2>7
<1>6. \A k \in 0 .. Len(rows) : k \in T
  <2>. HIDE DEF T
  <2>. QED BY <1>3, <1>4, <1>5, InductTo
<1>. QED BY <1>1, <1>3, <1>6

\* c lists S without x, which b lists too, and lacks the value of x in its sum.
Without(c, b, S, x, f) ==
  Once(c, S \ {x}) /\ Len(b) = Len(c) + 1 /\ SumOf(f, b) = f[x] + SumOf(f, c)

\* A row can be taken out of a list that has it once.
LEMMA OnceWithout ==
  ASSUME NEW R, NEW S, S \subseteq R, NEW b, Once(b, S), NEW x \in S, NEW f \in [R -> Nat]
  PROVE  \E c : Without(c, b, S, x, f)
<1>1. b \in Seq(S) /\ b \in Seq(R) /\ Len(b) \in Nat
  <2>1. b \in Seq(S)
    BY DEF Once
  <2>. QED BY <2>1
<1>2. PICK m \in 1 .. Len(b) : b[m] = x
  BY DEF Once
<1>3. /\ 1 \in Nat \ {0} /\ m - 1 \in Nat /\ m - 1 <= Len(b) /\ 1 <= (m - 1) + 1
      /\ m + 1 \in Nat \ {0} /\ Len(b) <= Len(b) /\ m + 1 <= Len(b) + 1
  BY <1>1
<1>4. PICK b1 \in Seq(S) : b1 = SubSeq(b, 1, m - 1)
  <2>1. SubSeq(b, 1, m - 1) \in Seq(S)
    BY <1>1, <1>3, SubSeqFacts
  <2>. QED BY <2>1
<1>5. PICK b2 \in Seq(S) : b2 = SubSeq(b, m + 1, Len(b))
  <2>1. SubSeq(b, m + 1, Len(b)) \in Seq(S)
    BY <1>1, <1>3, SubSeqFacts
  <2>. QED BY <2>1
<1>6. Len(b1) = m - 1 /\ \A i \in 1 .. m - 1 : b1[i] = b[i]
  <2>1. Len(b1) = (m - 1) - 1 + 1 /\ \A i \in 1 .. (m - 1) - 1 + 1 : b1[i] = b[1 + i - 1]
    BY <1>1, <1>4, <1>3, SubSeqFacts
  <2>2. (m - 1) - 1 + 1 = m - 1 /\ \A i \in 1 .. m - 1 : 1 + i - 1 = i
    OBVIOUS
  <2>. QED BY <2>1, <2>2
<1>7. Len(b2) = Len(b) - m /\ \A i \in 1 .. Len(b) - m : b2[i] = b[m + i]
  <2>1. \A i \in 1 .. Len(b) - (m + 1) + 1 : b2[i] = b[(m + 1) + i - 1]
    BY <1>1, <1>5, <1>3, SubSeqFacts
  <2>2. Len(b2) = Len(b) - (m + 1) + 1
    BY <1>1, <1>5, <1>3, SubSeqFacts
  <2>3. \A i \in 1 .. Len(b) - m : (m + 1) + i - 1 = m + i
    BY <1>1
  <2>4. Len(b) - (m + 1) + 1 = Len(b) - m
    BY <1>1
  <2>. QED BY <2>1, <2>2, <2>3, <2>4
<1>8. <<x>> \in Seq(S) /\ Len(<<x>>) = 1 /\ <<x>>[1] = x
  OBVIOUS
<1>9. PICK d \in Seq(S) : d = <<x>> \o b2
  BY <1>8, ConcatFacts
<1>10. PICK c \in Seq(S) : c = b1 \o b2
  BY ConcatFacts
<1>11. /\ Len(d) = 1 + (Len(b) - m) /\ d[1] = x /\ \A i \in 1 .. Len(b) - m : d[1 + i] = b[m + i]
  <2>1. /\ Len(d) = Len(<<x>>) + Len(b2) /\ \A i \in 1 .. Len(<<x>>) : d[i] = <<x>>[i]
        /\ \A i \in 1 .. Len(b2) : d[Len(<<x>>) + i] = b2[i]
    BY <1>8, <1>9, ConcatFacts
  <2>2. 1 \in 1 .. 1
    OBVIOUS
  <2>. QED BY <1>7, <1>8, <2>1, <2>2
<1>12. b = b1 \o d
  <2>1. PICK e \in Seq(S) : e = b1 \o d
    BY ConcatFacts
  <2>2. /\ Len(e) = Len(b) /\ \A i \in 1 .. Len(b1) : e[i] = b1[i]
        /\ \A i \in 1 .. Len(d) : e[Len(b1) + i] = d[i]
    <3>1. /\ Len(e) = Len(b1) + Len(d) /\ \A i \in 1 .. Len(b1) : e[i] = b1[i]
          /\ \A i \in 1 .. Len(d) : e[Len(b1) + i] = d[i]
      BY <2>1, ConcatFacts
    <3>. QED BY <1>1, <1>6, <1>11, <3>1
  <2>3. ASSUME NEW i \in 1 .. Len(b) PROVE e[i] = b[i]
    <3>1. CASE i < m
      <4>1. i \in 1 .. m - 1
        BY <1>1, <3>1
      <4>. QED BY <1>6, <2>2, <4>1
    <3>2. CASE i = m
      <4>1. 1 \in 1 .. Len(d) /\ Len(b1) + 1 = i
        BY <1>1, <1>6, <1>11, <3>2
      <4>. QED BY <1>2, <1>11, <2>2, <3>2, <4>1
    <3>3. CASE i > m
      <4>1. PICK j \in 1 .. Len(b) - m : i = m + j
        <5>1. i - m \in 1 .. Len(b) - m /\ i = m + (i - m)
          BY <1>1, <3>3
        <5>. QED BY <5>1
      <4>2. 1 + j \in 1 .. Len(d) /\ Len(b1) + (1 + j) = i
        BY <1>1, <1>6, <1>11, <4>1
      <4>3. e[i] = d[1 + j]
        BY <2>2, <4>2
      <4>. QED BY <1>11, <4>1, <4>3
    <3>. QED BY <1>1, <3>1, <3>2, <3>3
  <2>. QED BY <1>1, <2>1, <2>2, <2>3, SameLists
<1>13. SumOf(f, b) = f[x] + SumOf(f, c)
  <2>1. b1 \in Seq(R) /\ b2 \in Seq(R) /\ d \in Seq(R) /\ <<x>> \in Seq(R) /\ x \in R
    <3>1. \A s \in Seq(S) : s \in Seq(R)
      OBVIOUS
    <3>. QED BY <1>8, <3>1
  <2>2. SumOf(f, b) = SumOf(f, b1) + SumOf(f, d)
    BY <1>12, <2>1, SumConcat
  <2>3. SumOf(f, d) = SumOf(f, <<x>>) + SumOf(f, b2)
    <3>1. SumOf(f, <<x>> \o b2) = SumOf(f, <<x>>) + SumOf(f, b2)
      BY <2>1, SumConcat, Zenon
    <3>. QED BY <1>9, <3>1, Zenon
  <2>4. SumOf(f, c) = SumOf(f, b1) + SumOf(f, b2)
    BY <1>10, <2>1, SumConcat
  <2>5. SumOf(f, <<x>>) = f[x]
    BY <2>1, SumOne
  <2>6. SumOf(f, b1) \in Nat /\ SumOf(f, b2) \in Nat /\ f[x] \in Nat
    BY <2>1, SumIsNat
  <2>. QED BY <2>2, <2>3, <2>4, <2>5, <2>6
<1>14. /\ Len(c) = Len(b) - 1
       /\ \A i \in 1 .. Len(b) - 1 : c[i] = IF i < m THEN b[i] ELSE b[i + 1]
  <2>1. /\ Len(c) = Len(b) - 1 /\ \A i \in 1 .. m - 1 : c[i] = b[i]
        /\ \A i \in 1 .. Len(b) - m : c[(m - 1) + i] = b[m + i]
    <3>1. /\ Len(c) = Len(b1) + Len(b2) /\ \A i \in 1 .. Len(b1) : c[i] = b1[i]
          /\ \A i \in 1 .. Len(b2) : c[Len(b1) + i] = b2[i]
      <4>1. /\ Len(b1 \o b2) = Len(b1) + Len(b2)
            /\ \A i \in 1 .. Len(b1) : (b1 \o b2)[i] = b1[i]
            /\ \A i \in 1 .. Len(b2) : (b1 \o b2)[Len(b1) + i] = b2[i]
        BY ConcatFacts, SMTT(30)
      <4>. QED BY <1>10, <4>1, Zenon
    <3>2. (m - 1) + (Len(b) - m) = Len(b) - 1
      BY <1>1
    <3>. QED BY <1>6, <1>7, <3>1, <3>2
  <2>2. ASSUME NEW i \in 1 .. Len(b) - 1, i >= m PROVE c[i] = b[i + 1]
    <3>1. i - m + 1 \in 1 .. Len(b) - m /\ (m - 1) + (i - m + 1) = i /\ m + (i - m + 1) = i + 1
      BY <1>1, <2>2
    <3>. QED BY <2>1, <3>1
  <2>3. ASSUME NEW i \in 1 .. Len(b) - 1, i < m PROVE c[i] = b[i]
    BY <1>1, <2>1, <2>3
  <2>4. \A i \in 1 .. Len(b) - 1 : i < m \/ i >= m
    BY <1>1
  <2>. QED BY <2>1, <2>2, <2>3, <2>4
<1>15. Once(c, S \ {x})
  <2>. DEFINE at(i) == IF i < m THEN i ELSE i + 1
  <2>1. PICK n \in Nat : n = Len(b) - 1 /\ n = Len(c) /\ 1 .. Len(b) = 1 .. n + 1 /\ m \in 1 .. n + 1
    BY <1>1, <1>14
  <2>2. \A i \in 1 .. Len(c) : at(i) \in 1 .. Len(b) /\ c[i] = b[at(i)] /\ at(i) # m
    <3>1. \A i \in 1 .. n : at(i) \in 1 .. n + 1 /\ at(i) # m
      BY <2>1
    <3>2. \A i \in 1 .. n : c[i] = b[at(i)]
      BY <1>14, <2>1
    <3>. HIDE DEF at
    <3>. QED BY <2>1, <3>1, <3>2
  <2>3. \A i, j \in 1 .. Len(c) : at(i) = at(j) => i = j
    <3>1. \A i, j \in 1 .. n : at(i) = at(j) => i = j
      BY <2>1
    <3>. QED BY <2>1, <3>1, Zenon
  <2>4. \A k \in 1 .. Len(b) : k # m => \E i \in 1 .. Len(c) : at(i) = k
    <3>1. ASSUME NEW k \in 1 .. Len(b), k < m PROVE k \in 1 .. Len(c) /\ at(k) = k
      BY <1>1, <1>14, <3>1
    <3>2. ASSUME NEW k \in 1 .. Len(b), k > m PROVE k - 1 \in 1 .. Len(c) /\ at(k - 1) = k
      BY <1>1, <1>14, <3>2
    <3>3. \A k \in 1 .. Len(b) : k # m => k < m \/ k > m
      BY <1>1
    <3>. HIDE DEF at
    <3>. QED BY <3>1, <3>2, <3>3
  <2>. HIDE DEF at
  <2>5. \A i, j \in 1 .. Len(b) : b[i] = b[j] => i = j
    BY DEF Once
  <2>6. \A i \in 1 .. Len(c) : c[i] \in S \ {x}
    <3>1. \A k \in 1 .. Len(b) : b[k] \in S
      BY <1>1
    <3>. QED BY <1>2, <2>2, <2>5, <3>1
  <2>7. c \in Seq(S \ {x})
    <3>1. c \in [1 .. Len(c) -> S \ {x}] /\ Len(c) \in Nat
      BY <2>6
    <3>. QED BY <3>1, ListOf
  <2>8. ASSUME NEW y \in S \ {x} PROVE \E i \in 1 .. Len(c) : c[i] = y
    <3>1. PICK k \in 1 .. Len(b) : b[k] = y
      BY DEF Once
    <3>. QED BY <1>2, <2>2, <2>4, <3>1
  <2>9. \A i, j \in 1 .. Len(c) : c[i] = c[j] => i = j
    BY <2>2, <2>3, <2>5
  <2>. QED BY <2>7, <2>8, <2>9 DEF Once
<1>. QED BY <1>1, <1>13, <1>14, <1>15 DEF Without

\* How many numbers there are up to n.
LEMMA CountUpTo ==
  ASSUME NEW n \in Nat PROVE IsFiniteSet(1 .. n) /\ Cardinality(1 .. n) = n
BY FS_Interval

\* A list that has each member of a set once is as long as the set is large.
LEMMA OnceCount ==
  ASSUME NEW S, NEW b, Once(b, S)
  PROVE  IsFiniteSet(S) /\ Cardinality(S) = Len(b)
<1>1. b \in Seq(S) /\ Len(b) \in Nat
  BY DEF Once
<1>2. b \in Bijection(1 .. Len(b), S)
  <2>1. b \in [1 .. Len(b) -> S]
    BY <1>1
  <2>2. b \in Injection(1 .. Len(b), S)
    <3>1. \A i, j \in 1 .. Len(b) : b[i] = b[j] => i = j
      BY DEF Once
    <3>. QED BY <2>1, <3>1 DEF Injection, IsInjective
  <2>3. b \in Surjection(1 .. Len(b), S)
    BY <2>1 DEF Once, Surjection
  <2>. QED BY <2>2, <2>3 DEF Bijection
<1>3. IsFiniteSet(1 .. Len(b)) /\ Cardinality(1 .. Len(b)) = Len(b)
  BY <1>1, CountUpTo
<1>4. ExistsBijection(1 .. Len(b), S)
  BY <1>2 DEF ExistsBijection
<1>. QED BY <1>1, <1>2, <1>3, <1>4, FS_Bijection

\* Two lists of the same rows, each without one of them.
LessOne(a, b, c, d, R, V, f) ==
  /\ V \subseteq R /\ Once(c, V) /\ Once(d, V) /\ Len(c) = Len(a) - 1
  /\ SumOf(f, c) = SumOf(f, d) => SumOf(f, a) = SumOf(f, b)

\* Two lists of the same rows can each be spared one and the same row.
LEMMA OneLess ==
  ASSUME NEW R, NEW S, S \subseteq R, NEW f \in [R -> Nat], NEW a, NEW b,
         Once(a, S), Once(b, S), Len(a) # 0
  PROVE  \E V : \E c, d \in Seq(R) : LessOne(a, b, c, d, R, V, f)
<1>1. a \in Seq(S) /\ Len(a) \in Nat
  BY DEF Once
<1>2. PICK x \in S : x = a[1]
  BY <1>1
<1>3. PICK c : Without(c, a, S, x, f)
  BY OnceWithout
<1>4. PICK d : Without(d, b, S, x, f)
  BY OnceWithout
<1>5. Once(c, S \ {x}) /\ Len(a) = Len(c) + 1 /\ SumOf(f, a) = f[x] + SumOf(f, c)
  BY <1>3 DEF Without
<1>6. Once(d, S \ {x}) /\ SumOf(f, b) = f[x] + SumOf(f, d)
  BY <1>4 DEF Without
<1>7. c \in Seq(S \ {x}) /\ d \in Seq(S \ {x})
  BY <1>5, <1>6 DEF Once
<1>8. c \in Seq(R) /\ d \in Seq(R) /\ Len(c) \in Nat
  BY <1>7
<1>9. S \ {x} \subseteq R /\ Len(c) = Len(a) - 1
  BY <1>1, <1>5, <1>8
<1>10. SumOf(f, c) = SumOf(f, d) => SumOf(f, a) = SumOf(f, b)
  BY <1>5, <1>6
<1>. QED BY <1>5, <1>6, <1>8, <1>9, <1>10 DEF LessOne

\* The order of a sum does not matter.
LEMMA SumPermuted ==
  ASSUME NEW R, NEW S, S \subseteq R, NEW f \in [R -> Nat], NEW a, NEW b, Once(a, S), Once(b, S)
  PROVE  SumOf(f, a) = SumOf(f, b)
<1>. DEFINE Same(n) == \A V : \A c, d \in Seq(R) :
                         V \subseteq R /\ Once(c, V) /\ Once(d, V) /\ Len(c) = n =>
                           SumOf(f, c) = SumOf(f, d)
            T == {n \in 0 .. Len(a) : Same(n)}
<1>1. Len(a) \in Nat /\ a \in Seq(R) /\ b \in Seq(R)
  <2>1. a \in Seq(S) /\ b \in Seq(S)
    BY DEF Once
  <2>. QED BY <2>1
<1>2. Same(0)
  <2>1. ASSUME NEW V, NEW c \in Seq(R), NEW d \in Seq(R), Once(c, V), Once(d, V), Len(c) = 0
        PROVE  c = d
    <3>1. Len(d) = 0
      BY <2>1, OnceCount
    <3>. QED BY <2>1, <3>1
  <2>. QED BY <2>1
<1>3. ASSUME NEW n \in 1 .. Len(a), Same(n - 1) PROVE Same(n)
  <2>1. ASSUME NEW V, NEW c \in Seq(R), NEW d \in Seq(R),
               V \subseteq R, Once(c, V), Once(d, V), Len(c) = n
        PROVE  SumOf(f, c) = SumOf(f, d)
    <3>1. V \subseteq R /\ Once(c, V) /\ Once(d, V) /\ Len(c) # 0
      BY <1>1, <2>1
    <3>2. PICK W : \E e, h \in Seq(R) : LessOne(c, d, e, h, R, W, f)
      BY <3>1, OneLess
    <3>. QED BY <1>3, <2>1, <3>2 DEF LessOne
  <2>. QED BY <2>1
<1>. HIDE DEF Same
<1>4. 0 \in T /\ \A k \in 1 .. Len(a) : k - 1 \in T => k \in T
  BY <1>1, <1>2, <1>3
<1>5. Len(a) \in T
  <2>. HIDE DEF T
  <2>1. \A k \in 0 .. Len(a) : k \in T
    BY <1>1, <1>4, InductTo
  <2>. QED BY <1>1, <2>1
<1>6. Same(Len(a))
  BY <1>5
<1>. QED BY <1>1, <1>6 DEF Same

\* g, over Q, has at the places p the sums by f of the lists of rows ss.
SumsOf(R, f, ss, Q, g, p) ==
  /\ f \in [R -> Nat] /\ ss \in Seq(Seq(R)) /\ g \in [Q -> Nat] /\ p \in Seq(Q)
  /\ Len(p) = Len(ss) /\ \A n \in 1 .. Len(ss) : g[p[n]] = SumOf(f, ss[n])

\* The sum over lists one behind the other is the sum of their sums.
LEMMA SumFlatten ==
  ASSUME NEW R, NEW f, NEW ss, NEW Q, NEW g, NEW p, SumsOf(R, f, ss, Q, g, p)
  PROVE  SumOf(f, FlattenSeq(ss)) = SumOf(g, p)
<1>1. f \in [R -> Nat] /\ ss \in Seq(Seq(R)) /\ g \in [Q -> Nat] /\ p \in Seq(Q) /\ Len(p) = Len(ss)
  BY DEF SumsOf
<1>2. \A n \in 1 .. Len(ss) : g[p[n]] = SumOf(f, ss[n])
  BY DEF SumsOf
<1>3. PICK st : Steps(ss, st) /\ FlattenSeq(ss) = IF ss = <<>> THEN <<>> ELSE st[Len(ss)]
  BY <1>1, FlattenedBySteps
<1>4. Len(ss) \in Nat /\ \A k \in 1 .. Len(ss) : ss[k] \in Seq(R)
  BY <1>1
<1>. DEFINE h == [k \in 0 .. Len(ss) |-> IF k = 0 THEN <<>> ELSE st[k]]
            T == {k \in 0 .. Len(ss) : h[k] \in Seq(R)}
            t == [k \in 0 .. Len(ss) |-> SumOf(f, h[k])]
<1>5. h[0] = <<>> /\ <<>> \in Seq(R)
  BY <1>4
<1>6. ASSUME NEW k \in 1 .. Len(ss), h[k - 1] \in Seq(R)
      PROVE  h[k] = h[k - 1] \o ss[k]
  <2>1. k \in 0 .. Len(ss) /\ k # 0 /\ k - 1 \in 0 .. Len(ss) /\ h[k] = st[k]
    BY <1>4
  <2>2. CASE k = 1
    <3>1. h[k - 1] = <<>> /\ st[k] = ss[k]
      BY <1>3, <1>5, <2>1, <2>2 DEF Steps
    <3>. QED BY <1>4, <2>1, <3>1, EmptyConcat
  <2>3. CASE k # 1
    <3>1. k - 1 # 0 /\ h[k - 1] = st[k - 1]
      BY <1>4, <2>1, <2>3
    <3>2. st[k] = st[k - 1] \o ss[k]
      BY <1>3, <2>3 DEF Steps
    <3>. QED BY <2>1, <3>1, <3>2
  <2>. QED BY <2>2, <2>3
<1>7. h = [k \in 0 .. Len(ss) |-> h[k]]
  OBVIOUS
<1>8. FlattenSeq(ss) = h[Len(ss)]
  <2>1. ss = <<>> <=> Len(ss) = 0
    BY <1>1
  <2>2. Len(ss) \in 0 .. Len(ss)
    BY <1>4
  <2>. QED BY <1>3, <2>1, <2>2
<1>. HIDE DEF h
<1>9. \A k \in 0 .. Len(ss) : k \in T
  <2>1. 0 \in T
    <3>1. 0 \in 0 .. Len(ss)
      BY <1>4
    <3>. QED BY <1>5, <3>1
  <2>2. ASSUME NEW k \in 1 .. Len(ss), k - 1 \in T PROVE k \in T
    <3>1. h[k - 1] \in Seq(R) /\ k \in 0 .. Len(ss)
      BY <1>4, <2>2
    <3>2. h[k] = h[k - 1] \o ss[k] /\ ss[k] \in Seq(R)
      BY <1>4, <1>6, <3>1
    <3>3. h[k] \in Seq(R)
      BY <3>1, <3>2, ConcatFacts
    <3>. QED BY <3>1, <3>3
  <2>. HIDE DEF T
  <2>. QED BY <1>4, <2>1, <2>2, InductTo
<1>10. \A k \in 0 .. Len(ss) : h[k] \in Seq(R)
  BY <1>9
<1>11. Totals(g, p, t)
  <2>1. t \in [0 .. Len(p) -> Nat]
    <3>1. \A k \in 0 .. Len(ss) : SumOf(f, h[k]) \in Nat
      BY <1>1, <1>10, SumIsNat
    <3>. QED BY <1>1, <3>1
  <2>2. t[0] = 0
    <3>1. SumOf(f, <<>>) = 0
      BY <1>1, SumEmpty
    <3>. QED BY <1>4, <1>5, <3>1
  <2>3. ASSUME NEW k \in 1 .. Len(p) PROVE t[k] = t[k - 1] + g[p[k]]
    <3>1. k \in 1 .. Len(ss) /\ k \in 0 .. Len(ss) /\ k - 1 \in 0 .. Len(ss)
      BY <1>1, <1>4
    <3>2. h[k] = h[k - 1] \o ss[k] /\ h[k - 1] \in Seq(R) /\ ss[k] \in Seq(R)
      BY <1>4, <1>6, <1>10, <3>1
    <3>3. SumOf(f, h[k]) = SumOf(f, h[k - 1]) + SumOf(f, ss[k])
      BY <1>1, <3>2, SumConcat
    <3>. QED BY <1>2, <3>1, <3>3
  <2>. HIDE DEF t
  <2>. QED BY <2>1, <2>2, <2>3 DEF Totals
<1>12. SumOf(g, p) = t[Len(p)]
  <2>. HIDE DEF t
  <2>. QED BY <1>1, <1>11, SumAt
<1>13. t[Len(p)] = SumOf(f, h[Len(ss)])
  <2>1. Len(p) \in 0 .. Len(ss)
    BY <1>1, <1>4
  <2>. QED BY <1>1, <2>1
<1>. QED BY <1>8, <1>12, <1>13

(***************************************************************************)
(* Sorting.                                                                *)
(***************************************************************************)
\* What sorted may be given: ties are not ordered, and being tied is transitive.
WeakOrder(before, n) ==
  /\ \A a, b \in 1 .. n : <<a, b>> \in before => <<b, a>> \notin before
  /\ \A a, b, c \in 1 .. n :
       <<a, b>> \notin before /\ <<b, c>> \notin before => <<a, c>> \notin before

Ahead(before, n, i) ==
  {j \in 1 .. n : <<j, i>> \in before \/ (<<i, j>> \notin before /\ j < i)}

\* The places of a list in the order of the sorted one.
Sorts(order, before, n) ==
  /\ Once(order, 1 .. n) /\ Len(order) = n
  /\ \A a, b \in 1 .. n : a < b => <<order[b], order[a]>> \notin before

\* What is ahead of a place is ahead of those behind it, and no place is ahead of itself.
LEMMA AheadGrows ==
  ASSUME NEW n \in Nat, NEW before, WeakOrder(before, n),
         NEW i \in 1 .. n, NEW k \in 1 .. n, i \in Ahead(before, n, k)
  PROVE  Ahead(before, n, i) \subseteq Ahead(before, n, k) /\ i \notin Ahead(before, n, i)
<1>1. i \notin Ahead(before, n, i)
  BY DEF Ahead, WeakOrder
<1>2. <<i, k>> \in before \/ (<<k, i>> \notin before /\ i < k)
  BY DEF Ahead
<1>3. ASSUME NEW j \in Ahead(before, n, i) PROVE j \in Ahead(before, n, k)
  <2>1. j \in 1 .. n /\ (<<j, i>> \in before \/ (<<i, j>> \notin before /\ j < i))
    BY DEF Ahead
  <2>2. <<k, i>> \notin before /\ <<i, j>> \notin before
    BY <1>2, <2>1 DEF WeakOrder
  <2>3. <<k, j>> \notin before
    BY <2>1, <2>2 DEF WeakOrder
  <2>4. CASE <<i, k>> \in before
    <3>1. <<j, k>> \in before
      BY <2>1, <2>2, <2>4 DEF WeakOrder
    <3>. QED BY <2>1, <3>1 DEF Ahead
  <2>5. CASE <<j, i>> \in before
    <3>1. <<j, k>> \in before
      BY <2>1, <2>2, <2>5 DEF WeakOrder
    <3>. QED BY <2>1, <3>1 DEF Ahead
  <2>6. CASE i < k /\ j < i
    BY <2>1, <2>3, <2>6 DEF Ahead
  <2>. QED BY <1>2, <2>1, <2>4, <2>5, <2>6
<1>. QED BY <1>1, <1>3

\* Of two places one is ahead of the other.
LEMMA AheadTotal ==
  ASSUME NEW n \in Nat, NEW before, NEW i \in 1 .. n, NEW k \in 1 .. n, i # k
  PROVE  i \in Ahead(before, n, k) \/ k \in Ahead(before, n, i)
BY DEF Ahead

\* How many are ahead tells the places apart.
LEMMA AheadCount ==
  ASSUME NEW n \in Nat, NEW before, WeakOrder(before, n), NEW i \in 1 .. n
  PROVE  /\ IsFiniteSet(Ahead(before, n, i)) /\ Cardinality(Ahead(before, n, i)) \in 0 .. n - 1
         /\ \A k \in 1 .. n : i \in Ahead(before, n, k) =>
              Cardinality(Ahead(before, n, i)) < Cardinality(Ahead(before, n, k))
<1>1. IsFiniteSet(1 .. n) /\ Cardinality(1 .. n) = n
  BY FS_Interval
<1>2. \A k \in 1 .. n : Ahead(before, n, k) \subseteq 1 .. n
  BY DEF Ahead
<1>3. \A k \in 1 .. n : /\ IsFiniteSet(Ahead(before, n, k))
                        /\ Cardinality(Ahead(before, n, k)) \in Nat
                        /\ Cardinality(Ahead(before, n, k)) <= n
  BY <1>1, <1>2, FS_Subset, FS_CardinalityType
<1>4. ASSUME NEW A, NEW B, IsFiniteSet(B), A \subseteq B, i \in B, i \notin A
      PROVE  Cardinality(A) < Cardinality(B)
  <2>1. IsFiniteSet(A) /\ Cardinality(A) <= Cardinality(B) /\ Cardinality(A) # Cardinality(B)
    BY <1>4, FS_Subset
  <2>2. Cardinality(A) \in Nat /\ Cardinality(B) \in Nat
    BY <1>4, <2>1, FS_CardinalityType
  <2>. QED BY <2>1, <2>2
<1>5. i \notin Ahead(before, n, i)
  BY DEF Ahead, WeakOrder
<1>6. Cardinality(Ahead(before, n, i)) < n
  BY <1>1, <1>2, <1>4, <1>5
<1>7. ASSUME NEW k \in 1 .. n, i \in Ahead(before, n, k)
      PROVE  Cardinality(Ahead(before, n, i)) < Cardinality(Ahead(before, n, k))
  <2>1. Ahead(before, n, i) \subseteq Ahead(before, n, k)
    BY <1>7, AheadGrows
  <2>. QED BY <1>3, <1>4, <1>5, <1>7, <2>1
<1>. QED BY <1>3, <1>6, <1>7

\* Sort reorders its list, and nothing comes behind what must not be ahead of it.
LEMMA SortIs ==
  ASSUME NEW S, NEW list \in Seq(S), NEW before, WeakOrder(before, Len(list))
  PROVE  \E order : /\ Sorts(order, before, Len(list))
                    /\ Sort(list, before) = [m \in 1 .. Len(list) |-> list[order[m]]]
<1>. DEFINE n == Len(list)
            count == [i \in 1 .. n |-> Cardinality(Ahead(before, n, i))]
            order == [m \in 1 .. n |-> CHOOSE i \in 1 .. n : count[i] = m - 1]
            next == [i \in 1 .. n |-> count[i] + 1]
<1>1. n \in Nat /\ DOMAIN list = 1 .. n
  OBVIOUS
<1>2. \A i \in 1 .. n : count[i] \in 0 .. n - 1
  BY <1>1, AheadCount
<1>3. \A i, k \in 1 .. n : i \in Ahead(before, n, k) => count[i] < count[k]
  BY <1>1, AheadCount
<1>4. count \in Seq(Nat)
  BY <1>1, <1>2
<1>5. Sort(list, before) = Listed([m \in 1 .. n |-> list[order[m]]])
  <2>1. Sort(list, before) =
          Listed([m \in 1 .. n |-> list[CHOOSE i \in 1 .. n : Listed(count)[i] = m - 1]])
    <3>1. [i \in DOMAIN list |-> Cardinality({j \in DOMAIN list :
             <<j, i>> \in before \/ (<<i, j>> \notin before /\ j < i)})] = count
      BY <1>1 DEF Ahead
    <3>. HIDE DEF count
    <3>2. Sort(list, before) =
            Listed([m \in DOMAIN list |-> list[CHOOSE i \in DOMAIN list : Listed(count)[i] = m - 1]])
      <4>. DEFINE Placed(a) == Listed([m \in DOMAIN list |-> list[CHOOSE i \in DOMAIN list : a[i] = m - 1]])
      <4>1. Sort(list, before) = With(Listed(count), LAMBDA a : Placed(a))
        BY <3>1, Zenon DEF Sort
      <4>2. With(Listed(count), LAMBDA a : Placed(a)) = Placed(Listed(count))
        <5>. HIDE DEF Placed
        <5>. QED BY Zenon DEF With
      <4>. QED BY <4>1, <4>2
    <3>. QED BY <1>1, <3>2
  <2>2. Listed(count) = count
    BY <1>4, ListedIs
  <2>3. Sort(list, before) = Listed([m \in 1 .. n |-> list[CHOOSE i \in 1 .. n : count[i] = m - 1]])
    <3>. HIDE DEF count
    <3>. QED BY <2>1, <2>2
  <2>4. [m \in 1 .. n |-> list[CHOOSE i \in 1 .. n : count[i] = m - 1]] =
          [m \in 1 .. n |-> list[order[m]]]
    OBVIOUS
  <2>. QED BY <2>3, <2>4
<1>. HIDE DEF count
<1>6. \A i, k \in 1 .. n : count[i] = count[k] => i = k
  <2>1. ASSUME NEW i \in 1 .. n, NEW k \in 1 .. n, i # k PROVE count[i] # count[k]
    <3>1. i \in Ahead(before, n, k) \/ k \in Ahead(before, n, i)
      BY <1>1, <2>1, AheadTotal
    <3>2. count[i] < count[k] \/ count[k] < count[i]
      BY <1>3, <3>1
    <3>. QED BY <1>1, <1>2, <3>2
  <2>. QED BY <2>1
<1>7. \A m \in 1 .. n : \E i \in 1 .. n : count[i] = m - 1
  <2>1. next \in [1 .. n -> 1 .. n]
    BY <1>1, <1>2
  <2>2. \A i, k \in 1 .. n : next[i] = next[k] => i = k
    <3>1. \A i \in 1 .. n : next[i] = count[i] + 1 /\ count[i] \in Nat
      BY <1>1, <1>2
    <3>. HIDE DEF next
    <3>2. \A i, k \in 1 .. n : next[i] = next[k] => count[i] = count[k]
      BY <3>1
    <3>. QED BY <1>6, <3>2
  <2>. HIDE DEF next
  <2>3. next \in Injection(1 .. n, 1 .. n)
    BY <2>1, <2>2 DEF Injection, IsInjective
  <2>4. IsFiniteSet(1 .. n)
    BY <1>1, FS_Interval
  <2>5. next \in Surjection(1 .. n, 1 .. n)
    BY <2>3, <2>4, FS_Injection
  <2>6. ASSUME NEW m \in 1 .. n PROVE \E i \in 1 .. n : count[i] = m - 1
    <3>1. PICK i \in 1 .. n : next[i] = m
      BY <2>5 DEF Surjection
    <3>2. next[i] = count[i] + 1 /\ count[i] \in Nat
      BY <1>1, <1>2 DEF next
    <3>. QED BY <3>1, <3>2
  <2>. QED BY <2>6
<1>8. ASSUME NEW m \in 1 .. n PROVE order[m] \in 1 .. n /\ count[order[m]] = m - 1
  BY <1>7
<1>9. order \in [1 .. n -> 1 .. n] /\ order \in Seq(1 .. n) /\ Len(order) = n
  <2>1. order \in [1 .. n -> 1 .. n]
    BY <1>8
  <2>. HIDE DEF order
  <2>. QED BY <1>1, <2>1, ListOf
<1>. HIDE DEF order
<1>10. \A a, b \in 1 .. n : order[a] = order[b] => a = b
  <2>1. ASSUME NEW a \in 1 .. n, NEW b \in 1 .. n, order[a] = order[b] PROVE a = b
    <3>1. a - 1 = b - 1
      BY <1>8, <2>1
    <3>. QED BY <3>1
  <2>. QED BY <2>1
<1>11. ASSUME NEW i \in 1 .. n PROVE \E m \in 1 .. n : order[m] = i
  <2>1. PICK c \in 0 .. n - 1 : c = count[i]
    BY <1>2
  <2>2. c + 1 \in 1 .. n /\ (c + 1) - 1 = c
    BY <1>1
  <2>3. count[order[c + 1]] = count[i] /\ order[c + 1] \in 1 .. n
    BY <1>8, <2>1, <2>2
  <2>. QED BY <1>6, <2>2, <2>3
<1>12. ASSUME NEW a \in 1 .. n, NEW b \in 1 .. n, a < b PROVE <<order[b], order[a]>> \notin before
  <2>1. ASSUME <<order[b], order[a]>> \in before PROVE FALSE
    <3>1. order[b] \in Ahead(before, n, order[a])
      BY <1>8, <2>1 DEF Ahead
    <3>2. count[order[b]] < count[order[a]]
      BY <1>3, <1>8, <3>1
    <3>3. b - 1 < a - 1
      BY <1>8, <3>2
    <3>. QED BY <1>1, <1>12, <3>3
  <2>. QED BY <2>1
<1>13. Sorts(order, before, n)
  BY <1>1, <1>9, <1>10, <1>11, <1>12 DEF Sorts, Once
<1>14. Sort(list, before) = [m \in 1 .. n |-> list[order[m]]]
  <2>1. \A m \in 1 .. n : list[order[m]] \in S
    BY <1>1, <1>9
  <2>2. [m \in 1 .. n |-> list[order[m]]] \in Seq(S)
    BY <1>1, <2>1
  <2>. QED BY <1>5, <2>2, ListedIs
<1>. QED BY <1>13, <1>14

\* What stands in a list at the places that "order" gives.
Reordered(list, order) == [m \in 1 .. Len(list) |-> list[order[m]]]

\* A reordered list has the same members, and each once.
LEMMA ReorderedOnce ==
  ASSUME NEW S, NEW list, Once(list, S), NEW order, Once(order, 1 .. Len(list))
  PROVE  Once(Reordered(list, order), S) /\ Len(Reordered(list, order)) = Len(list)
<1>. DEFINE n == Len(list)
            r == Reordered(list, order)
<1>1. n \in Nat /\ list \in Seq(S) /\ order \in Seq(1 .. n)
  BY DEF Once
<1>2. Len(order) = n
  <2>1. Len(order) = Cardinality(1 .. n)
    BY OnceCount
  <2>2. Cardinality(1 .. n) = n
    BY <1>1, CountUpTo
  <2>. QED BY <2>1, <2>2
<1>3. \A m \in 1 .. n : order[m] \in 1 .. n /\ list[order[m]] \in S
  BY <1>1, <1>2
<1>4. r \in Seq(S) /\ Len(r) = n /\ \A m \in 1 .. n : r[m] = list[order[m]]
  <2>1. r \in [1 .. n -> S]
    BY <1>3 DEF Reordered
  <2>. QED BY <1>1, <2>1, ListOf DEF Reordered
<1>. HIDE DEF r
<1>5. ASSUME NEW x \in S PROVE \E m \in 1 .. n : r[m] = x
  <2>1. PICK i \in 1 .. n : list[i] = x
    BY DEF Once
  <2>2. PICK m \in 1 .. n : order[m] = i
    BY <1>2, <2>1 DEF Once
  <2>. QED BY <1>4, <2>1, <2>2
<1>6. ASSUME NEW a \in 1 .. n, NEW b \in 1 .. n, r[a] = r[b] PROVE a = b
  <2>1. order[a] = order[b]
    <3>1. \A i, k \in 1 .. n : list[i] = list[k] => i = k
      BY DEF Once
    <3>. QED BY <1>3, <1>4, <1>6, <3>1
  <2>. QED BY <1>2, <2>1 DEF Once
<1>7. Once(r, S)
  BY <1>4, <1>5, <1>6 DEF Once
<1>. QED BY <1>4, <1>7 DEF r

\* The positions of a list sorted by a key, and a list sorted by one.
Ascends(order, key, n) ==
  /\ Once(order, 1 .. n) /\ Len(order) = n
  /\ \A a, b \in 1 .. n : a < b => key[order[a]] <= key[order[b]]

\* SortBy reorders its list so that the keys ascend.
LEMMA SortByIs ==
  ASSUME NEW S, NEW list \in Seq(S), NEW key, \A i \in 1 .. Len(list) : key[i] \in Int
  PROVE  \E order : Ascends(order, key, Len(list)) /\ SortBy(list, key) = Reordered(list, order)
<1>. DEFINE n == Len(list)
            before == {p \in Pairs(list) : key[p[1]] < key[p[2]]}
<1>1. n \in Nat /\ DOMAIN list = 1 .. n
  OBVIOUS
<1>2. \A i, k \in 1 .. n : <<i, k>> \in before <=> key[i] < key[k]
  BY <1>1 DEF Pairs
<1>3. SortBy(list, key) = Sort(list, before)
  BY DEF SortBy
<1>. HIDE DEF before
<1>4. WeakOrder(before, n)
  <2>1. \A i, k \in 1 .. n : <<i, k>> \notin before <=> key[k] <= key[i]
    <3>1. ASSUME NEW i \in 1 .. n, NEW k \in 1 .. n PROVE ~(key[i] < key[k]) <=> key[k] <= key[i]
      <4>1. PICK x \in Int, y \in Int : x = key[i] /\ y = key[k]
        OBVIOUS
      <4>. QED BY <4>1
    <3>. QED BY <1>2, <3>1
  <2>2. \A i, k, m \in 1 .. n : key[k] <= key[i] /\ key[m] <= key[k] => key[m] <= key[i]
    OBVIOUS
  <2>3. \A i, k \in 1 .. n : <<i, k>> \in before => <<k, i>> \notin before
    BY <1>2
  <2>. QED BY <2>1, <2>2, <2>3 DEF WeakOrder
<1>5. PICK order : Sorts(order, before, n) /\ Sort(list, before) = [m \in 1 .. n |-> list[order[m]]]
  BY <1>4, SortIs
<1>6. Ascends(order, key, n)
  <2>1. \A m \in 1 .. n : order[m] \in 1 .. n
    <3>1. Once(order, 1 .. n) /\ Len(order) = n
      BY <1>5 DEF Sorts
    <3>2. order \in Seq(1 .. n)
      BY <3>1 DEF Once
    <3>. QED BY <3>1, <3>2
  <2>2. ASSUME NEW a \in 1 .. n, NEW b \in 1 .. n, a < b PROVE key[order[a]] <= key[order[b]]
    <3>1. <<order[b], order[a]>> \notin before
      BY <1>5, <2>2 DEF Sorts
    <3>2. order[a] \in 1 .. n /\ order[b] \in 1 .. n
      BY <2>1
    <3>. QED BY <1>2, <3>1, <3>2
  <2>. QED BY <1>5, <2>2 DEF Sorts, Ascends
<1>. QED BY <1>3, <1>5, <1>6 DEF Reordered

\* A sorted list has the same members, and each once.
LEMMA SortByOnce ==
  ASSUME NEW S, NEW list, Once(list, S), NEW key, \A i \in 1 .. Len(list) : key[i] \in Int
  PROVE  Once(SortBy(list, key), S) /\ Len(SortBy(list, key)) = Len(list)
<1>1. list \in Seq(S)
  BY DEF Once
<1>2. PICK order : Ascends(order, key, Len(list)) /\ SortBy(list, key) = Reordered(list, order)
  BY <1>1, SortByIs
<1>3. Once(order, 1 .. Len(list))
  BY <1>2 DEF Ascends
<1>. QED BY <1>2, <1>3, ReorderedOnce

(***************************************************************************)
(* Sets of the differencing method, by size.                               *)
(***************************************************************************)
\* Rows are numbers, so that sets can be told apart by their first rows.
Numbers(R) == \A x \in R : x \in Int

SetOf(R) == [sum : Nat, items : Seq(R)]

\* What a set of the differencing method holds.
LEMMA SetFacts ==
  ASSUME NEW R, Numbers(R), NEW a \in SetOf(R)
  PROVE  /\ a.sum \in Nat /\ a.items \in Seq(R) /\ Len(a.items) \in Nat
         /\ a.items # <<>> <=> Len(a.items) > 0
         /\ Len(a.items) > 0 => Head(a.items) \in Int /\ Head(a.items) \in R
<1>1. a.sum \in Nat /\ a.items \in Seq(R)
  BY DEF SetOf
<1>2. PICK s \in Seq(R) : s = a.items
  BY <1>1
<1>3. Len(s) \in Nat /\ (s # <<>> <=> Len(s) > 0)
  OBVIOUS
<1>4. Len(s) > 0 => Head(s) \in R
  OBVIOUS
<1>5. Head(s) \in R => Head(s) \in Int
  BY DEF Numbers
<1>. QED BY <1>1, <1>2, <1>3, <1>4, <1>5

\* Set.__lt__ orders sets; those with different first rows are never tied.
LEMMA LargerOrder ==
  ASSUME NEW R, Numbers(R), NEW a \in SetOf(R), NEW b \in SetOf(R), NEW c \in SetOf(R)
  PROVE  /\ Larger(a, b) => ~Larger(b, a)
         /\ ~Larger(a, b) /\ ~Larger(b, c) => ~Larger(a, c)
         /\ Larger(a, b) /\ Larger(b, c) => Larger(a, c)
         /\ a.items # <<>> /\ b.items # <<>> /\ Head(a.items) # Head(b.items) =>
              Larger(a, b) \/ Larger(b, a)
<1>1. PICK l \in Nat, m \in Nat, n \in Nat, s \in Nat, t \in Nat, u \in Nat :
        /\ l = Len(a.items) /\ m = Len(b.items) /\ n = Len(c.items)
        /\ s = a.sum /\ t = b.sum /\ u = c.sum
        /\ (a.items # <<>> <=> l > 0) /\ (b.items # <<>> <=> m > 0) /\ (c.items # <<>> <=> n > 0)
  BY SetFacts
<1>2. PICK h \in Int, i \in Int, j \in Int :
        (l > 0 => h = Head(a.items)) /\ (m > 0 => i = Head(b.items)) /\ (n > 0 => j = Head(c.items))
  <2>1. ASSUME NEW d \in SetOf(R) PROVE \E h \in Int : Len(d.items) > 0 => h = Head(d.items)
    <3>1. CASE Len(d.items) > 0
      BY <3>1, SetFacts
    <3>2. CASE ~(Len(d.items) > 0)
      BY <3>2
    <3>. QED BY <3>1, <3>2
  <2>2. \E h \in Int : l > 0 => h = Head(a.items)
    BY <1>1, <2>1
  <2>3. \E h \in Int : m > 0 => h = Head(b.items)
    BY <1>1, <2>1
  <2>4. \E h \in Int : n > 0 => h = Head(c.items)
    BY <1>1, <2>1
  <2>. QED BY <2>2, <2>3, <2>4
<1>3. Larger(a, b) <=> s > t \/ (s = t /\ l > m) \/ (s = t /\ l = m /\ l > 0 /\ h > i)
  BY <1>1, <1>2 DEF Larger
<1>4. Larger(b, a) <=> t > s \/ (s = t /\ m > l) \/ (s = t /\ l = m /\ m > 0 /\ i > h)
  BY <1>1, <1>2 DEF Larger
<1>5. Larger(b, c) <=> t > u \/ (t = u /\ m > n) \/ (t = u /\ m = n /\ m > 0 /\ i > j)
  BY <1>1, <1>2 DEF Larger
<1>6. Larger(a, c) <=> s > u \/ (s = u /\ l > n) \/ (s = u /\ l = n /\ l > 0 /\ h > j)
  BY <1>1, <1>2 DEF Larger
<1>7. /\ Larger(a, b) => ~Larger(b, a)
      /\ ~Larger(a, b) /\ ~Larger(b, c) => ~Larger(a, c)
      /\ Larger(a, b) /\ Larger(b, c) => Larger(a, c)
  BY <1>3, <1>4, <1>5, <1>6
<1>8. l > 0 /\ m > 0 /\ h # i => Larger(a, b) \/ Larger(b, a)
  BY <1>3, <1>4
<1>. QED BY <1>1, <1>2, <1>7, <1>8

\* Sets from the largest to the smallest, by the order of Larger.
Descends(sets) ==
  \A i, k \in 1 .. Len(sets) : i < k => ~Larger(sets[k], sets[i])

\* Descending reorders sets, from the largest.
LEMMA DescendingIs ==
  ASSUME NEW R, Numbers(R), NEW sets \in Seq(SetOf(R))
  PROVE  \E order : /\ Once(order, 1 .. Len(sets)) /\ Len(order) = Len(sets)
                    /\ Descending(sets) = Reordered(sets, order)
                    /\ Descends(Reordered(sets, order))
<1>. DEFINE n == Len(sets)
            before == {p \in Pairs(sets) : Larger(sets[p[1]], sets[p[2]])}
<1>1. n \in Nat /\ DOMAIN sets = 1 .. n /\ \A i \in 1 .. n : sets[i] \in SetOf(R)
  OBVIOUS
<1>2. \A i, k \in 1 .. n : <<i, k>> \in before <=> Larger(sets[i], sets[k])
  BY <1>1 DEF Pairs
<1>3. Descending(sets) = Sort(sets, before)
  <2>1. Listed(sets) = sets
    BY ListedIs
  <2>. QED BY <2>1, Zenon DEF Descending, With
<1>. HIDE DEF before
<1>4. WeakOrder(before, n)
  <2>1. \A i, k \in 1 .. n : Larger(sets[i], sets[k]) => ~Larger(sets[k], sets[i])
    BY <1>1, LargerOrder
  <2>2. \A i, k, m \in 1 .. n : ~Larger(sets[i], sets[k]) /\ ~Larger(sets[k], sets[m]) => ~Larger(sets[i], sets[m])
    BY <1>1, LargerOrder
  <2>. QED BY <1>2, <2>1, <2>2 DEF WeakOrder
<1>5. PICK order : Sorts(order, before, n) /\ Sort(sets, before) = [m \in 1 .. n |-> sets[order[m]]]
  BY <1>4, SortIs
<1>6. \A m \in 1 .. n : order[m] \in 1 .. n
  <2>1. Once(order, 1 .. n) /\ Len(order) = n
    BY <1>5 DEF Sorts
  <2>2. order \in Seq(1 .. n)
    BY <2>1 DEF Once
  <2>. QED BY <2>1, <2>2
<1>7. Len(Reordered(sets, order)) = n /\ \A m \in 1 .. n : Reordered(sets, order)[m] = sets[order[m]]
  <2>1. Reordered(sets, order) \in [1 .. n -> SetOf(R)]
    BY <1>1, <1>6 DEF Reordered
  <2>. QED BY <1>1, <2>1 DEF Reordered
<1>8. Descends(Reordered(sets, order))
  <2>1. ASSUME NEW i \in 1 .. n, NEW k \in 1 .. n, i < k PROVE ~Larger(sets[order[k]], sets[order[i]])
    BY <1>2, <1>5, <1>6, <2>1 DEF Sorts
  <2>. QED BY <1>7, <2>1 DEF Descends
<1>9. Once(order, 1 .. n) /\ Len(order) = n
  BY <1>5 DEF Sorts
<1>. QED BY <1>3, <1>5, <1>8, <1>9 DEF Reordered

(***************************************************************************)
(* States of the differencing method.                                      *)
(***************************************************************************)
Items(s) == [j \in 1 .. Len(s) |-> s[j].items]

RowsOf(R, s) == {x \in R : \E j \in 1 .. Len(s) : \E i \in 1 .. Len(s[j].items) : s[j].items[i] = x}

\* k sets with the sums of their rows, which differ by no more than gap, and no row twice.
Filled(s, R, f, k, gap) ==
  /\ s \in Seq(SetOf(R)) /\ Len(s) = k
  /\ \A j \in 1 .. k : s[j].sum = SumOf(f, s[j].items)
  /\ \A i, j \in 1 .. k : s[i].sum <= s[j].sum + gap
  /\ Shares(Items(s), RowsOf(R, s))

\* Sets of equal size have as many rows each; of the others all have rows, or none more
\* than one.
Shape(s, k, equal_size) ==
  /\ \E j \in 1 .. k : s[j].items # <<>>
  /\ \A i, j \in 1 .. k :
       IF equal_size THEN Len(s[i].items) = Len(s[j].items)
                     ELSE s[i].items = <<>> => Len(s[j].items) <= 1

\* A state's lists of rows.
LEMMA ItemsFacts ==
  ASSUME NEW R, Numbers(R), NEW s \in Seq(SetOf(R))
  PROVE  /\ Items(s) \in Seq(Seq(R)) /\ Len(Items(s)) = Len(s) /\ Len(s) \in Nat
         /\ \A j \in 1 .. Len(s) : /\ Items(s)[j] = s[j].items /\ s[j] \in SetOf(R)
                                   /\ s[j].items \in Seq(R) /\ Len(s[j].items) \in Nat /\ s[j].sum \in Nat
                                   /\ (s[j].items = <<>> <=> Len(s[j].items) = 0)
<1>1. Len(s) \in Nat /\ \A j \in 1 .. Len(s) : s[j] \in SetOf(R)
  OBVIOUS
<1>2. \A j \in 1 .. Len(s) : /\ s[j].items \in Seq(R) /\ Len(s[j].items) \in Nat /\ s[j].sum \in Nat
                             /\ (s[j].items = <<>> <=> Len(s[j].items) = 0)
  <2>1. ASSUME NEW d \in SetOf(R)
        PROVE  /\ d.items \in Seq(R) /\ Len(d.items) \in Nat /\ d.sum \in Nat
               /\ (d.items = <<>> <=> Len(d.items) = 0)
    <3>1. d.items \in Seq(R) /\ d.sum \in Nat
      BY DEF SetOf
    <3>2. PICK l \in Seq(R) : l = d.items
      BY <3>1
    <3>3. Len(l) \in Nat /\ (l = <<>> <=> Len(l) = 0)
      OBVIOUS
    <3>. QED BY <3>1, <3>2, <3>3
  <2>. QED BY <1>1, <2>1
<1>3. Items(s) \in [1 .. Len(s) -> Seq(R)]
  BY <1>2 DEF Items
<1>4. Items(s) \in Seq(Seq(R)) /\ Len(Items(s)) = Len(s)
  BY <1>1, <1>3, ListOf
<1>. QED BY <1>1, <1>2, <1>4 DEF Items

\* The rows of a state are those that its lists share out.
LEMMA RowsOfIs ==
  ASSUME NEW R, Numbers(R), NEW s \in Seq(SetOf(R)), NEW V, V \subseteq R, Shares(Items(s), V)
  PROVE  RowsOf(R, s) = V
<1>1. /\ Len(Items(s)) = Len(s) /\ Len(s) \in Nat
      /\ \A j \in 1 .. Len(s) : Items(s)[j] = s[j].items
  BY ItemsFacts
<1>2. ASSUME NEW x \in V PROVE x \in RowsOf(R, s)
  <2>1. PICK j \in 1 .. Len(s) : \E i \in 1 .. Len(Items(s)[j]) : Items(s)[j][i] = x
    BY <1>1 DEF Shares
  <2>. QED BY <1>1, <2>1 DEF RowsOf
<1>3. ASSUME NEW x \in RowsOf(R, s) PROVE x \in V
  <2>1. PICK j \in 1 .. Len(s) : \E i \in 1 .. Len(s[j].items) : s[j].items[i] = x
    BY DEF RowsOf
  <2>2. PICK i \in 1 .. Len(s[j].items) : s[j].items[i] = x
    BY <2>1
  <2>3. Items(s) \in Seq(Seq(V))
    BY DEF Shares
  <2>4. Items(s)[j] \in Seq(V)
    BY <1>1, <2>3
  <2>. QED BY <1>1, <2>2, <2>4
<1>. QED BY <1>2, <1>3

\* In the order of Larger sums do not grow, and empty sets come last.
LEMMA DescendsFacts ==
  ASSUME NEW R, Numbers(R), NEW s \in Seq(SetOf(R)), Descends(s),
         NEW i \in 1 .. Len(s), NEW j \in 1 .. Len(s), i < j
  PROVE  /\ s[j].sum <= s[i].sum
         /\ s[i].sum = 0 /\ s[i].items = <<>> => s[j].items = <<>>
<1>1. PICK l \in Nat, m \in Nat, a \in Nat, b \in Nat :
        l = Len(s[i].items) /\ m = Len(s[j].items) /\ a = s[i].sum /\ b = s[j].sum
  BY ItemsFacts
<1>2. (s[i].items = <<>> <=> l = 0) /\ (s[j].items = <<>> <=> m = 0)
  BY <1>1, ItemsFacts
<1>3. ~Larger(s[j], s[i])
  BY DEF Descends
<1>4. ~(b > a) /\ ~(b = a /\ m > l)
  BY <1>1, <1>3 DEF Larger
<1>. QED BY <1>1, <1>2, <1>4

\* Lists in another order share out the same set.
LEMMA SharesReordered ==
  ASSUME NEW S, NEW ss, Shares(ss, S), NEW order, Once(order, 1 .. Len(ss)),
         NEW rr, rr = [m \in 1 .. Len(ss) |-> ss[order[m]]]
  PROVE  Shares(rr, S) /\ Len(rr) = Len(ss)
<1>. DEFINE n == Len(ss)
<1>1. ss \in Seq(Seq(S)) /\ n \in Nat
  BY DEF Shares
<1>2. order \in Seq(1 .. n)
  BY DEF Once
<1>3. Len(order) = n
  <2>1. Len(order) = Cardinality(1 .. n)
    BY OnceCount
  <2>2. Cardinality(1 .. n) = n
    BY <1>1, CountUpTo
  <2>. QED BY <2>1, <2>2
<1>4. \A m \in 1 .. n : order[m] \in 1 .. n
  BY <1>2, <1>3
<1>5. rr \in Seq(Seq(S)) /\ Len(rr) = n /\ \A m \in 1 .. n : rr[m] = ss[order[m]]
  <2>1. rr \in [1 .. n -> Seq(S)]
    BY <1>1, <1>4
  <2>2. \A m \in 1 .. n : rr[m] = ss[order[m]]
    BY <1>1
  <2>3. rr \in Seq(Seq(S)) /\ Len(rr) = n
    BY <2>1, ListOf
  <2>. QED BY <2>2, <2>3
<1>6. ASSUME NEW x \in S PROVE \E m \in 1 .. n : \E i \in 1 .. Len(rr[m]) : rr[m][i] = x
  <2>1. PICK j \in 1 .. n : \E i \in 1 .. Len(ss[j]) : ss[j][i] = x
    BY DEF Shares
  <2>2. PICK m \in 1 .. n : order[m] = j
    BY <1>3 DEF Once
  <2>. QED BY <1>5, <2>1, <2>2
<1>7. ASSUME NEW j \in 1 .. n, NEW m \in 1 .. n, NEW i \in 1 .. Len(rr[j]), NEW l \in 1 .. Len(rr[m]),
             rr[j][i] = rr[m][l]
      PROVE  j = m /\ i = l
  <2>1. order[j] = order[m] /\ i = l
    <3>1. \A a, b \in 1 .. n : \A c \in 1 .. Len(ss[a]) : \A d \in 1 .. Len(ss[b]) :
            ss[a][c] = ss[b][d] => a = b /\ c = d
      BY DEF Shares
    <3>2. PICK a \in 1 .. n, b \in 1 .. n : a = order[j] /\ b = order[m] /\ rr[j] = ss[a] /\ rr[m] = ss[b]
      BY <1>4, <1>5
    <3>3. i \in 1 .. Len(ss[a]) /\ l \in 1 .. Len(ss[b]) /\ ss[a][i] = ss[b][l]
      BY <1>7, <3>2
    <3>4. a = b /\ i = l
      BY <3>1, <3>3
    <3>. QED BY <3>2, <3>4
  <2>. QED BY <1>3, <2>1 DEF Once
<1>8. Shares(rr, S)
  <2>1. \A x \in S : \E m \in 1 .. Len(rr) : \E i \in 1 .. Len(rr[m]) : rr[m][i] = x
    BY <1>5, <1>6
  <2>2. ASSUME NEW j \in 1 .. Len(rr), NEW m \in 1 .. Len(rr),
               NEW i \in 1 .. Len(rr[j]), NEW l \in 1 .. Len(rr[m]), rr[j][i] = rr[m][l]
        PROVE  j = m /\ i = l
    <3>1. j \in 1 .. n /\ m \in 1 .. n
      BY <1>5
    <3>. QED BY <1>7, <2>2, <3>1
  <2>3. rr \in Seq(Seq(S))
    BY <1>5
  <2>. QED BY <2>1, <2>2, <2>3 DEF Shares
<1>. QED BY <1>5, <1>8

\* Two shares of different rows joined list by list.
JoinedLists(c, a, b, k, U) ==
  c \in Seq(Seq(U)) /\ Len(c) = k /\ \A j \in 1 .. k : c[j] = a[j] \o b[j]

\* Lists that share out two disjoint sets, joined one by one, share out both.
LEMMA SharesJoined ==
  ASSUME NEW S, NEW T, S \cap T = {}, NEW k \in Nat, NEW a, NEW b,
         Shares(a, S), Shares(b, T), Len(a) = k, Len(b) = k,
         NEW c, JoinedLists(c, a, b, k, S \cup T)
  PROVE  Shares(c, S \cup T)
<1>. DEFINE U == S \cup T
<1>1. a \in Seq(Seq(S)) /\ b \in Seq(Seq(T))
  BY DEF Shares
<1>2. \A g, h \in 1 .. k : \A x \in 1 .. Len(a[g]) : \A y \in 1 .. Len(a[h]) :
        a[g][x] = a[h][y] => g = h /\ x = y
  BY DEF Shares
<1>3. \A g, h \in 1 .. k : \A x \in 1 .. Len(b[g]) : \A y \in 1 .. Len(b[h]) :
        b[g][x] = b[h][y] => g = h /\ x = y
  BY DEF Shares
<1>4. ASSUME NEW j \in 1 .. k
      PROVE  /\ a[j] \in Seq(S) /\ b[j] \in Seq(T) /\ a[j] \in Seq(U) /\ b[j] \in Seq(U)
             /\ Len(a[j]) \in Nat /\ Len(b[j]) \in Nat
  <2>1. a[j] \in Seq(S) /\ b[j] \in Seq(T)
    BY <1>1
  <2>2. a[j] \in Seq(U) /\ b[j] \in Seq(U)
    BY <2>1
  <2>. QED BY <2>1, <2>2
<1>5. ASSUME NEW j \in 1 .. k
      PROVE  /\ Len(c[j]) = Len(a[j]) + Len(b[j])
             /\ \A i \in 1 .. Len(a[j]) : i \in 1 .. Len(c[j]) /\ c[j][i] = a[j][i] /\ c[j][i] \in S
             /\ \A i \in 1 .. Len(b[j]) :
                  /\ Len(a[j]) + i \in 1 .. Len(c[j]) /\ c[j][Len(a[j]) + i] = b[j][i]
                  /\ c[j][Len(a[j]) + i] \in T
             /\ \A i \in 1 .. Len(c[j]) :
                  i \in 1 .. Len(a[j]) \/ \E m \in 1 .. Len(b[j]) : i = Len(a[j]) + m
  <2>1. PICK d \in Seq(U), e \in Seq(U) : d = a[j] /\ e = b[j] /\ d \in Seq(S) /\ e \in Seq(T)
    BY <1>4
  <2>2. c[j] = d \o e
    BY <2>1 DEF JoinedLists
  <2>3. /\ d \o e \in Seq(U) /\ Len(d \o e) = Len(d) + Len(e)
        /\ \A i \in 1 .. Len(d) : (d \o e)[i] = d[i]
        /\ \A i \in 1 .. Len(e) : (d \o e)[Len(d) + i] = e[i]
        /\ \A i \in 1 .. Len(d) + Len(e) :
             i \in 1 .. Len(d) \/ (i - Len(d) \in 1 .. Len(e) /\ i = Len(d) + (i - Len(d)))
    BY ConcatFacts
  <2>4. Len(d) \in Nat /\ Len(e) \in Nat
    OBVIOUS
  <2>5. /\ \A i \in 1 .. Len(d) : i \in 1 .. Len(d) + Len(e) /\ d[i] \in S
        /\ \A i \in 1 .. Len(e) : Len(d) + i \in 1 .. Len(d) + Len(e) /\ e[i] \in T
    <3>1. \A i \in 1 .. Len(d) : d[i] \in S
      BY <2>1
    <3>2. \A i \in 1 .. Len(e) : e[i] \in T
      BY <2>1
    <3>. QED BY <2>4, <3>1, <3>2
  <2>. QED BY <2>1, <2>2, <2>3, <2>5
<1>6. ASSUME NEW x \in U PROVE \E j \in 1 .. k : \E i \in 1 .. Len(c[j]) : c[j][i] = x
  <2>1. CASE x \in S
    <3>1. PICK j \in 1 .. k : \E i \in 1 .. Len(a[j]) : a[j][i] = x
      BY <2>1 DEF Shares
    <3>2. PICK i \in 1 .. Len(a[j]) : a[j][i] = x
      BY <3>1
    <3>3. i \in 1 .. Len(c[j]) /\ c[j][i] = x
      BY <1>5, <3>2
    <3>. QED BY <3>3
  <2>2. CASE x \in T
    <3>1. PICK j \in 1 .. k : \E i \in 1 .. Len(b[j]) : b[j][i] = x
      BY <2>2 DEF Shares
    <3>2. PICK i \in 1 .. Len(b[j]) : b[j][i] = x
      BY <3>1
    <3>3. Len(a[j]) + i \in 1 .. Len(c[j]) /\ c[j][Len(a[j]) + i] = x
      BY <1>5, <3>2
    <3>. QED BY <3>3
  <2>. QED BY <2>1, <2>2
<1>7. ASSUME NEW j \in 1 .. k, NEW m \in 1 .. k, NEW i \in 1 .. Len(c[j]), NEW l \in 1 .. Len(c[m]),
             c[j][i] = c[m][l]
      PROVE  j = m /\ i = l
  <2>1. CASE i \in 1 .. Len(a[j]) /\ l \in 1 .. Len(a[m])
    <3>1. PICK u \in 1 .. Len(a[j]) : u = i
      BY <2>1
    <3>2. PICK v \in 1 .. Len(a[m]) : v = l
      BY <2>1
    <3>3. a[j][u] = a[m][v]
      <4>1. c[j][u] = a[j][u]
        BY <1>5
      <4>2. c[m][v] = a[m][v]
        BY <1>5
      <4>. QED BY <1>7, <3>1, <3>2, <4>1, <4>2
    <3>4. j = m /\ u = v
      <4>1. \A x \in 1 .. Len(a[j]) : \A y \in 1 .. Len(a[m]) : a[j][x] = a[m][y] => j = m /\ x = y
        BY <1>2
      <4>. QED BY <3>3, <4>1
    <3>. QED BY <3>1, <3>2, <3>4
  <2>2. CASE \E y \in 1 .. Len(b[j]) : i = Len(a[j]) + y
    <3>1. PICK y \in 1 .. Len(b[j]) : i = Len(a[j]) + y
      BY <2>2
    <3>2. c[j][i] \in T /\ c[j][i] = b[j][y]
      BY <1>5, <3>1
    <3>3. ~(l \in 1 .. Len(a[m]))
      BY <1>5, <1>7, <3>2
    <3>4. PICK z \in 1 .. Len(b[m]) : l = Len(a[m]) + z
      BY <1>5, <1>7, <3>3
    <3>5. c[m][l] = b[m][z]
      BY <1>5, <3>4
    <3>6. b[j][y] = b[m][z]
      BY <1>7, <3>2, <3>5
    <3>7. j = m /\ y = z
      <4>1. \A o \in 1 .. Len(b[j]) : \A p \in 1 .. Len(b[m]) : b[j][o] = b[m][p] => j = m /\ o = p
        BY <1>3
      <4>. QED BY <3>6, <4>1
    <3>. QED BY <3>1, <3>4, <3>7
  <2>3. CASE i \in 1 .. Len(a[j]) /\ \E z \in 1 .. Len(b[m]) : l = Len(a[m]) + z
    <3>1. c[j][i] \in S /\ c[m][l] \in T
      BY <1>5, <2>3
    <3>. QED BY <1>7, <3>1
  <2>4. i \in 1 .. Len(a[j]) \/ \E y \in 1 .. Len(b[j]) : i = Len(a[j]) + y
    BY <1>5, <1>7
  <2>5. l \in 1 .. Len(a[m]) \/ \E z \in 1 .. Len(b[m]) : l = Len(a[m]) + z
    BY <1>5, <1>7
  <2>. QED BY <2>1, <2>2, <2>3, <2>4, <2>5
<1>. HIDE DEF U
<1>8. Shares(c, U)
  <2>1. \A x \in U : \E j \in 1 .. Len(c) : \E i \in 1 .. Len(c[j]) : c[j][i] = x
    BY <1>6 DEF JoinedLists
  <2>2. ASSUME NEW j \in 1 .. Len(c), NEW m \in 1 .. Len(c),
               NEW i \in 1 .. Len(c[j]), NEW l \in 1 .. Len(c[m]), c[j][i] = c[m][l]
        PROVE  j = m /\ i = l
    <3>1. j \in 1 .. k /\ m \in 1 .. k
      BY DEF JoinedLists
    <3>. QED BY <1>7, <2>2, <3>1
  <2>3. c \in Seq(Seq(U))
    BY DEF U, JoinedLists
  <2>. QED BY <2>1, <2>2, <2>3 DEF Shares
<1>. QED BY <1>8 DEF U

\* What a filled state is made of.
Typed(s, R, f, k) ==
  /\ s \in Seq(SetOf(R)) /\ Len(s) = k /\ DOMAIN s = 1 .. k /\ Shares(Items(s), RowsOf(R, s))
  /\ Items(s) \in Seq(Seq(R)) /\ Len(Items(s)) = k
  /\ \A j \in 1 .. k : /\ s[j] \in SetOf(R) /\ s[j].sum = SumOf(f, s[j].items)
                       /\ s[j].sum \in Nat /\ s[j].items \in Seq(R) /\ Items(s)[j] = s[j].items
                       /\ Len(s[j].items) \in Nat /\ (s[j].items = <<>> <=> Len(s[j].items) = 0)

\* The sums of a filled state are those of its lists.
LEMMA FilledFacts ==
  ASSUME NEW R, Numbers(R), NEW f, NEW k \in Nat, NEW gap \in Nat, NEW s, Filled(s, R, f, k, gap)
  PROVE  Typed(s, R, f, k)
<1>1. /\ s \in Seq(SetOf(R)) /\ Len(s) = k /\ Shares(Items(s), RowsOf(R, s))
      /\ \A j \in 1 .. k : s[j].sum = SumOf(f, s[j].items)
  BY DEF Filled
<1>2. DOMAIN s = 1 .. k
  BY <1>1
<1>3. /\ Items(s) \in Seq(Seq(R)) /\ Len(Items(s)) = Len(s)
      /\ \A j \in 1 .. Len(s) : /\ Items(s)[j] = s[j].items /\ s[j] \in SetOf(R)
                                /\ s[j].items \in Seq(R) /\ Len(s[j].items) \in Nat /\ s[j].sum \in Nat
                                /\ (s[j].items = <<>> <=> Len(s[j].items) = 0)
  BY <1>1, ItemsFacts
<1>. QED BY <1>1, <1>2, <1>3 DEF Typed

\* A filled state in another order is one, with the same rows.
LEMMA ReorderedFilled ==
  ASSUME NEW R, Numbers(R), NEW f, NEW k \in Nat, NEW gap \in Nat,
         NEW u, Filled(u, R, f, k, gap), NEW order, Once(order, 1 .. k)
  PROVE  /\ Filled(Reordered(u, order), R, f, k, gap)
         /\ RowsOf(R, Reordered(u, order)) = RowsOf(R, u)
<1>. DEFINE m == Reordered(u, order)
            V == RowsOf(R, u)
<1>1. Typed(u, R, f, k)
  BY FilledFacts
<1>2. /\ u \in Seq(SetOf(R)) /\ Len(u) = k /\ Shares(Items(u), V)
      /\ Items(u) \in Seq(Seq(R)) /\ Len(Items(u)) = k
      /\ \A j \in 1 .. k : u[j] \in SetOf(R) /\ u[j].sum = SumOf(f, u[j].items) /\ Items(u)[j] = u[j].items
  BY <1>1 DEF Typed
<1>3. Len(order) = k /\ \A j \in 1 .. k : order[j] \in 1 .. k
  <2>1. order \in Seq(1 .. k)
    BY DEF Once
  <2>2. Len(order) = Cardinality(1 .. k)
    BY OnceCount
  <2>3. Len(order) = k
    BY <2>2, CountUpTo
  <2>. QED BY <2>1, <2>3
<1>4. m \in Seq(SetOf(R)) /\ Len(m) = k /\ \A j \in 1 .. k : m[j] = u[order[j]]
  <2>1. m \in [1 .. k -> SetOf(R)]
    BY <1>2, <1>3 DEF Reordered
  <2>2. \A j \in 1 .. k : m[j] = u[order[j]]
    BY <1>2 DEF Reordered
  <2>. HIDE DEF m
  <2>. QED BY <2>1, <2>2, ListOf
<1>. HIDE DEF m
<1>5. Items(m) = [j \in 1 .. k |-> Items(u)[order[j]]]
  <2>1. \A j \in 1 .. k : m[j].items = Items(u)[order[j]]
    BY <1>2, <1>3, <1>4
  <2>. QED BY <1>4, <2>1 DEF Items
<1>6. Shares(Items(m), V)
  <2>1. Once(order, 1 .. Len(Items(u))) /\ Items(m) = [j \in 1 .. Len(Items(u)) |-> Items(u)[order[j]]]
    BY <1>2, <1>5
  <2>. QED BY <1>2, <2>1, SharesReordered
<1>7. RowsOf(R, m) = V
  <2>1. V \subseteq R
    BY DEF RowsOf
  <2>. HIDE DEF V
  <2>. QED BY <1>4, <1>6, <2>1, RowsOfIs
<1>8. \A i, j \in 1 .. k : m[i].sum <= m[j].sum + gap
  <2>1. \A i, j \in 1 .. k : u[i].sum <= u[j].sum + gap
    BY DEF Filled
  <2>. QED BY <1>3, <1>4, <2>1
<1>9. Filled(m, R, f, k, gap)
  <2>1. ASSUME NEW j \in 1 .. k PROVE m[j].sum = SumOf(f, m[j].items)
    <3>1. PICK i \in 1 .. k : i = order[j]
      BY <1>3
    <3>2. m[j] = u[i]
      BY <1>4, <3>1
    <3>3. u[i].sum = SumOf(f, u[i].items)
      BY <1>2
    <3>. QED BY <3>2, <3>3, Zenon
  <2>. QED BY <1>4, <1>6, <1>7, <1>8, <2>1 DEF Filled
<1>. QED BY <1>7, <1>9 DEF m

\* ... and of the same shape.
LEMMA ReorderedShape ==
  ASSUME NEW k \in Nat, NEW u, Len(u) = k, NEW order, Once(order, 1 .. k),
         NEW equal_size, Shape(u, k, equal_size)
  PROVE  Shape(Reordered(u, order), k, equal_size)
<1>. DEFINE m == Reordered(u, order)
<1>1. Len(order) = k /\ \A j \in 1 .. k : order[j] \in 1 .. k
  <2>1. order \in Seq(1 .. k)
    BY DEF Once
  <2>2. Len(order) = Cardinality(1 .. k)
    BY OnceCount
  <2>3. Len(order) = k
    BY <2>2, CountUpTo
  <2>. QED BY <2>1, <2>3
<1>2. \A j \in 1 .. k : m[j] = u[order[j]]
  BY DEF Reordered
<1>. HIDE DEF m
<1>3. PICK j \in 1 .. k : u[j].items # <<>>
  BY DEF Shape
<1>4. PICK i \in 1 .. k : order[i] = j
  BY <1>1 DEF Once
<1>5. m[i].items # <<>>
  BY <1>2, <1>3, <1>4
<1>6. ASSUME NEW a \in 1 .. k, NEW b \in 1 .. k
      PROVE  IF equal_size THEN Len(m[a].items) = Len(m[b].items)
                           ELSE m[a].items = <<>> => Len(m[b].items) <= 1
  <2>1. PICK c \in 1 .. k, d \in 1 .. k : c = order[a] /\ d = order[b]
    BY <1>1
  <2>2. m[a] = u[c] /\ m[b] = u[d]
    BY <1>2, <2>1
  <2>3. IF equal_size THEN Len(u[c].items) = Len(u[d].items)
                      ELSE u[c].items = <<>> => Len(u[d].items) <= 1
    BY DEF Shape
  <2>. QED BY <2>2, <2>3
<1>7. Shape(m, k, equal_size)
  BY <1>5, <1>6 DEF Shape
<1>. QED BY <1>7 DEF m

\* A state in which the sums fall, and one in which they rise; sets without rows come last,
\* and first.
Falls(s, k) ==
  \A i, j \in 1 .. k : i < j => /\ s[j].sum <= s[i].sum
                                /\ s[i].sum = 0 /\ s[i].items = <<>> => s[j].items = <<>>

Rises(r, k) ==
  \A i, j \in 1 .. k : i < j => /\ r[i].sum <= r[j].sum
                                /\ r[j].sum = 0 /\ r[j].items = <<>> => r[i].items = <<>>

Opposite(k) == [j \in 1 .. k |-> k + 1 - j]

\* The sets of two states joined one by one.
Beside(s, r) ==
  [j \in 1 .. Len(s) |-> [sum |-> s[j].sum + r[j].sum, items |-> s[j].items \o r[j].items]]

\* The opposite order of k sets.
LEMMA OppositeOnce ==
  ASSUME NEW k \in Nat
  PROVE  /\ Once(Opposite(k), 1 .. k) /\ Len(Opposite(k)) = k
         /\ \A j \in 1 .. k : Opposite(k)[j] = k + 1 - j /\ Opposite(k)[j] \in 1 .. k
<1>. DEFINE o == Opposite(k)
<1>1. \A j \in 1 .. k : o[j] = k + 1 - j /\ o[j] \in 1 .. k
  BY DEF Opposite
<1>2. o \in Seq(1 .. k) /\ Len(o) = k
  <2>1. o \in [1 .. k -> 1 .. k]
    BY DEF Opposite
  <2>. HIDE DEF o
  <2>. QED BY <2>1, ListOf
<1>. HIDE DEF o
<1>3. ASSUME NEW x \in 1 .. k PROVE \E n \in 1 .. Len(o) : o[n] = x
  <2>1. PICK n \in 1 .. k : n = k + 1 - x
    OBVIOUS
  <2>2. o[n] = k + 1 - n
    BY <1>1
  <2>3. k + 1 - n = x
    BY <2>1
  <2>. QED BY <1>2, <2>2, <2>3
<1>4. ASSUME NEW m \in 1 .. Len(o), NEW n \in 1 .. Len(o), o[m] = o[n] PROVE m = n
  <2>1. m \in 1 .. k /\ n \in 1 .. k
    BY <1>2
  <2>2. k + 1 - m = k + 1 - n
    BY <1>1, <1>4, <2>1
  <2>. QED BY <2>1, <2>2
<1>5. Once(o, 1 .. k)
  BY <1>2, <1>3, <1>4 DEF Once
<1>. QED BY <1>1, <1>2, <1>5 DEF o

\* The sums of a sorted state fall.
LEMMA DescendsFalls ==
  ASSUME NEW R, Numbers(R), NEW f, NEW k \in Nat, NEW gap \in Nat,
         NEW s, Filled(s, R, f, k, gap), Descends(s)
  PROVE  Falls(s, k)
<1>1. s \in Seq(SetOf(R)) /\ Len(s) = k
  BY DEF Filled
<1>. QED BY <1>1, DescendsFacts DEF Falls

\* In the opposite order they rise.
LEMMA OppositeRises ==
  ASSUME NEW k \in Nat, NEW t, Len(t) = k, Falls(t, k)
  PROVE  Rises(Reordered(t, Opposite(k)), k)
<1>. DEFINE r == Reordered(t, Opposite(k))
<1>1. \A j \in 1 .. k : r[j] = t[Opposite(k)[j]]
  BY DEF Reordered
<1>. HIDE DEF r
<1>2. ASSUME NEW i \in 1 .. k, NEW j \in 1 .. k, i < j
      PROVE  /\ r[i].sum <= r[j].sum
             /\ r[j].sum = 0 /\ r[j].items = <<>> => r[i].items = <<>>
  <2>1. PICK g \in 1 .. k, h \in 1 .. k : g = k + 1 - j /\ h = k + 1 - i
    OBVIOUS
  <2>2. Opposite(k)[j] = g /\ Opposite(k)[i] = h
    BY <2>1, OppositeOnce
  <2>3. r[j] = t[g] /\ r[i] = t[h]
    BY <1>1, <2>2
  <2>4. g < h
    BY <1>2, <2>1
  <2>5. t[h].sum <= t[g].sum /\ (t[g].sum = 0 /\ t[g].items = <<>> => t[h].items = <<>>)
    BY <2>4 DEF Falls
  <2>. QED BY <2>3, <2>5
<1>3. Rises(r, k)
  BY <1>2 DEF Rises
<1>. QED BY <1>3 DEF r

\* A falling and a rising state joined set by set: sums differ by no more than before, since
\* the larger sets of one meet the smaller of the other.
LEMMA BesideFilled ==
  ASSUME NEW R, Numbers(R), NEW f \in [R -> Nat], NEW k \in Nat, NEW gap \in Nat,
         NEW s, NEW r, Filled(s, R, f, k, gap), Filled(r, R, f, k, gap), Falls(s, k), Rises(r, k),
         RowsOf(R, s) \cap RowsOf(R, r) = {}
  PROVE  /\ Filled(Beside(s, r), R, f, k, gap)
         /\ RowsOf(R, Beside(s, r)) = RowsOf(R, s) \cup RowsOf(R, r)
<1>. DEFINE u == Beside(s, r)
            S == RowsOf(R, s)
            T == RowsOf(R, r)
<1>1. Typed(s, R, f, k) /\ Typed(r, R, f, k)
  BY FilledFacts
<1>2. /\ Len(s) = k /\ Shares(Items(s), S) /\ Len(Items(s)) = k
      /\ \A j \in 1 .. k : /\ s[j].sum = SumOf(f, s[j].items) /\ s[j].sum \in Nat
                           /\ s[j].items \in Seq(R) /\ Items(s)[j] = s[j].items
  BY <1>1 DEF Typed
<1>3. /\ Len(r) = k /\ Shares(Items(r), T) /\ Len(Items(r)) = k
      /\ \A j \in 1 .. k : /\ r[j].sum = SumOf(f, r[j].items) /\ r[j].sum \in Nat
                           /\ r[j].items \in Seq(R) /\ Items(r)[j] = r[j].items
  BY <1>1 DEF Typed
<1>4. u \in Seq(SetOf(R)) /\ Len(u) = k
      /\ \A j \in 1 .. k : u[j].sum = s[j].sum + r[j].sum /\ u[j].items = s[j].items \o r[j].items
  <2>1. \A j \in 1 .. k : s[j].sum + r[j].sum \in Nat /\ s[j].items \o r[j].items \in Seq(R)
    BY <1>2, <1>3, ConcatFacts
  <2>2. u \in [1 .. k -> SetOf(R)]
    BY <1>2, <2>1 DEF Beside, SetOf
  <2>3. \A j \in 1 .. k : u[j] = [sum |-> s[j].sum + r[j].sum, items |-> s[j].items \o r[j].items]
    BY <1>2 DEF Beside
  <2>. HIDE DEF u
  <2>4. u \in Seq(SetOf(R)) /\ Len(u) = k
    BY <2>2, ListOf
  <2>5. ASSUME NEW j \in 1 .. k
        PROVE  u[j].sum = s[j].sum + r[j].sum /\ u[j].items = s[j].items \o r[j].items
    <3>1. PICK x, y : x = s[j].sum + r[j].sum /\ y = s[j].items \o r[j].items
      OBVIOUS
    <3>2. u[j] = [sum |-> x, items |-> y]
      BY <2>3, <3>1
    <3>3. u[j].sum = x /\ u[j].items = y
      BY <3>2
    <3>. QED BY <3>1, <3>3
  <2>. QED BY <2>4, <2>5
<1>. HIDE DEF u
<1>5. ASSUME NEW j \in 1 .. k PROVE u[j].sum = SumOf(f, u[j].items)
  <2>1. PICK a \in Seq(R), b \in Seq(R) : a = s[j].items /\ b = r[j].items
    BY <1>2, <1>3
  <2>2. SumOf(f, a \o b) = SumOf(f, a) + SumOf(f, b)
    BY SumConcat
  <2>3. u[j].sum = SumOf(f, a) + SumOf(f, b) /\ u[j].items = a \o b
    BY <1>2, <1>3, <1>4, <2>1
  <2>. QED BY <2>2, <2>3
<1>6. ASSUME NEW i \in 1 .. k, NEW j \in 1 .. k PROVE u[i].sum <= u[j].sum + gap
  <2>1. PICK a \in Nat, b \in Nat, c \in Nat, d \in Nat :
          a = s[i].sum /\ b = s[j].sum /\ c = r[i].sum /\ d = r[j].sum
    BY <1>2, <1>3
  <2>2. u[i].sum = a + c /\ u[j].sum = b + d
    BY <1>4, <2>1
  <2>3. a <= b + gap /\ c <= d + gap
    BY <2>1 DEF Filled
  <2>4. CASE i < j
    <3>1. c <= d
      BY <2>1, <2>4 DEF Rises
    <3>. QED BY <2>2, <2>3, <3>1
  <2>5. CASE j < i
    <3>1. a <= b
      BY <2>1, <2>5 DEF Falls
    <3>. QED BY <2>2, <2>3, <3>1
  <2>6. CASE i = j
    BY <2>2, <2>6
  <2>. QED BY <2>4, <2>5, <2>6
<1>7. Shares(Items(u), S \cup T)
  <2>1. ASSUME NEW j \in 1 .. k PROVE Items(u)[j] = Items(s)[j] \o Items(r)[j]
    <3>1. Items(u)[j] = u[j].items
      BY <1>4 DEF Items
    <3>. QED BY <1>2, <1>3, <1>4, <3>1
  <2>2. /\ Items(s) \in Seq(Seq(S)) /\ Items(r) \in Seq(Seq(T))
    BY <1>2, <1>3 DEF Shares
  <2>. HIDE DEF S, T
  <2>3. ASSUME NEW j \in 1 .. k PROVE Items(u)[j] \in Seq(S \cup T)
    <3>1. Items(s)[j] \in Seq(S \cup T) /\ Items(r)[j] \in Seq(S \cup T)
      <4>1. Items(s)[j] \in Seq(S) /\ Items(r)[j] \in Seq(T)
        BY <1>2, <1>3, <2>2
      <4>. QED BY <4>1
    <3>2. Items(s)[j] \o Items(r)[j] \in Seq(S \cup T)
      BY <3>1, ConcatFacts
    <3>. QED BY <2>1, <3>2
  <2>4. Items(u) \in Seq(Seq(S \cup T)) /\ Len(Items(u)) = k
    <3>1. Items(u) \in [1 .. k -> Seq(S \cup T)]
      BY <1>4, <2>3 DEF Items
    <3>. QED BY <3>1, ListOf
  <2>5. JoinedLists(Items(u), Items(s), Items(r), k, S \cup T)
    BY <2>1, <2>4 DEF JoinedLists
  <2>6. S \cap T = {}
    BY DEF S, T
  <2>. QED BY <1>2, <1>3, <2>5, <2>6, SharesJoined
<1>8. RowsOf(R, u) = S \cup T
  <2>1. S \cup T \subseteq R
    BY DEF RowsOf
  <2>. HIDE DEF S, T
  <2>. QED BY <1>4, <1>7, <2>1, RowsOfIs
<1>9. Filled(u, R, f, k, gap)
  BY <1>4, <1>5, <1>6, <1>7, <1>8 DEF Filled
<1>. QED BY <1>8, <1>9 DEF u

\* ... and sizes stay equal, or no set is left empty next to one with two rows.
LEMMA BesideShape ==
  ASSUME NEW R, Numbers(R), NEW f \in [R -> Nat], NEW k \in Nat, NEW gap \in Nat,
         NEW s, NEW r, Filled(s, R, f, k, gap), Filled(r, R, f, k, gap), Falls(s, k), Rises(r, k),
         NEW equal_size \in BOOLEAN, Shape(s, k, equal_size), Shape(r, k, equal_size)
  PROVE  Shape(Beside(s, r), k, equal_size)
<1>. DEFINE u == Beside(s, r)
<1>1. Typed(s, R, f, k) /\ Typed(r, R, f, k)
  BY FilledFacts
<1>2. /\ Len(s) = k
      /\ \A j \in 1 .. k : /\ s[j].sum = SumOf(f, s[j].items) /\ s[j].items \in Seq(R)
                           /\ Len(s[j].items) \in Nat /\ (s[j].items = <<>> <=> Len(s[j].items) = 0)
  BY <1>1 DEF Typed
<1>3. /\ Len(r) = k
      /\ \A j \in 1 .. k : /\ r[j].sum = SumOf(f, r[j].items) /\ r[j].items \in Seq(R)
                           /\ Len(r[j].items) \in Nat /\ (r[j].items = <<>> <=> Len(r[j].items) = 0)
  BY <1>1 DEF Typed
<1>4. \A j \in 1 .. k : u[j].items = s[j].items \o r[j].items
  BY <1>2 DEF Beside
<1>. HIDE DEF u
<1>5. ASSUME NEW j \in 1 .. k
      PROVE  /\ Len(u[j].items) = Len(s[j].items) + Len(r[j].items)
             /\ (u[j].items = <<>> <=> Len(u[j].items) = 0)
  <2>1. PICK a \in Seq(R), b \in Seq(R) : a = s[j].items /\ b = r[j].items
    BY <1>2, <1>3
  <2>2. a \o b \in Seq(R) /\ Len(a \o b) = Len(a) + Len(b)
    BY ConcatFacts
  <2>3. a \o b = <<>> <=> Len(a \o b) = 0
    BY <2>2
  <2>. QED BY <1>4, <2>1, <2>2, <2>3
<1>6. \E j \in 1 .. k : u[j].items # <<>>
  <2>1. PICK j \in 1 .. k : s[j].items # <<>>
    BY DEF Shape
  <2>2. PICK a \in Nat, b \in Nat : a = Len(s[j].items) /\ b = Len(r[j].items)
    BY <1>2, <1>3
  <2>3. a # 0
    BY <1>2, <2>1, <2>2
  <2>4. Len(u[j].items) = a + b
    BY <1>5, <2>2
  <2>5. a + b # 0
    BY <2>3
  <2>6. Len(u[j].items) # 0
    BY <2>4, <2>5
  <2>. QED BY <1>5, <2>6
<1>7. ASSUME equal_size, NEW i \in 1 .. k, NEW j \in 1 .. k PROVE Len(u[i].items) = Len(u[j].items)
  <2>1. Len(s[i].items) = Len(s[j].items) /\ Len(r[i].items) = Len(r[j].items)
    BY <1>7 DEF Shape
  <2>. QED BY <1>5, <2>1
<1>8. ASSUME ~equal_size, NEW i \in 1 .. k, NEW j \in 1 .. k, u[i].items = <<>>
      PROVE  Len(u[j].items) <= 1
  <2>1. PICK a \in Nat, b \in Nat, c \in Nat, d \in Nat :
          a = Len(s[i].items) /\ b = Len(r[i].items) /\ c = Len(s[j].items) /\ d = Len(r[j].items)
    BY <1>2, <1>3
  <2>2. Len(u[i].items) = a + b /\ Len(u[j].items) = c + d
    BY <1>5, <2>1
  <2>3. a = 0 /\ b = 0
    <3>1. a + b = 0
      BY <1>5, <1>8, <2>2
    <3>. QED BY <3>1
  <2>4. s[i].items = <<>> /\ r[i].items = <<>>
    BY <1>2, <1>3, <2>1, <2>3
  <2>5. c <= 1 /\ d <= 1
    BY <1>8, <2>1, <2>4 DEF Shape
  <2>6. s[i].sum = 0 /\ r[i].sum = 0
    <3>1. SumOf(f, <<>>) = 0
      BY SumEmpty
    <3>. QED BY <1>2, <1>3, <2>4, <3>1
  <2>7. CASE i < j
    <3>1. s[j].items = <<>>
      BY <2>4, <2>6, <2>7 DEF Falls
    <3>2. c = 0
      BY <1>2, <2>1, <3>1
    <3>. QED BY <2>2, <2>5, <3>2
  <2>8. CASE j < i
    <3>1. r[j].items = <<>>
      BY <2>4, <2>6, <2>8 DEF Rises
    <3>2. d = 0
      BY <1>3, <2>1, <3>1
    <3>. QED BY <2>2, <2>5, <3>2
  <2>9. CASE i = j
    <3>1. c = a /\ d = b
      BY <2>1, <2>9
    <3>. QED BY <2>2, <2>3, <3>1
  <2>. QED BY <2>7, <2>8, <2>9
<1>9. \A i, j \in 1 .. k :
        IF equal_size THEN Len(u[i].items) = Len(u[j].items)
                      ELSE u[i].items = <<>> => Len(u[j].items) <= 1
  BY <1>7, <1>8
<1>10. Shape(u, k, equal_size)
  BY <1>6, <1>9 DEF Shape
<1>. QED BY <1>10 DEF u

\* What every state in the heap is, with at least one row.
Sound(s, R, f, k, gap, equal_size) ==
  Filled(s, R, f, k, gap) /\ Descends(s) /\ Shape(s, k, equal_size)

\* State.merge joins a state with the other in the opposite order, and sorts.
LEMMA MergeBeside ==
  ASSUME NEW k \in Nat, NEW s, NEW t, Len(s) = k, DOMAIN s = 1 .. k, Len(t) = k
  PROVE  Merge(s, t) = Descending(Beside(s, Reordered(t, Opposite(k))))
<1>. DEFINE r == Reordered(t, Opposite(k))
            u == [j \in DOMAIN s |-> [sum   |-> s[j].sum + t[Len(s) + 1 - j].sum,
                                      items |-> s[j].items \o t[Len(s) + 1 - j].items]]
<1>1. \A j \in 1 .. k : r[j] = t[k + 1 - j]
  BY DEF Reordered, Opposite
<1>. HIDE DEF r
<1>2. u = Beside(s, r)
  <2>1. \A j \in 1 .. k : s[j].sum + t[k + 1 - j].sum = s[j].sum + r[j].sum
    BY <1>1
  <2>2. \A j \in 1 .. k : s[j].items \o t[k + 1 - j].items = s[j].items \o r[j].items
    BY <1>1
  <2>. QED BY <2>1, <2>2 DEF Beside
<1>3. Merge(s, t) = Descending(u)
  BY Zenon DEF Merge
<1>. QED BY <1>2, <1>3 DEF r

\* A filled state that is sorted may go into the heap.
LEMMA DescendingSound ==
  ASSUME NEW R, Numbers(R), NEW f, NEW k \in Nat, NEW gap \in Nat, NEW u, Filled(u, R, f, k, gap),
         NEW equal_size \in BOOLEAN, Shape(u, k, equal_size)
  PROVE  Sound(Descending(u), R, f, k, gap, equal_size) /\ RowsOf(R, Descending(u)) = RowsOf(R, u)
<1>1. u \in Seq(SetOf(R)) /\ Len(u) = k
  BY DEF Filled
<1>2. PICK order : /\ Once(order, 1 .. k)
                   /\ Descending(u) = Reordered(u, order) /\ Descends(Reordered(u, order))
  BY <1>1, DescendingIs
<1>3. PICK d : d = Reordered(u, order)
  OBVIOUS
<1>4. Filled(d, R, f, k, gap) /\ RowsOf(R, d) = RowsOf(R, u)
  BY <1>2, <1>3, ReorderedFilled
<1>5. Shape(d, k, equal_size)
  BY <1>1, <1>2, <1>3, ReorderedShape
<1>. QED BY <1>2, <1>3, <1>4, <1>5 DEF Sound

\* So State.merge makes one such state of two, with the rows of both.
LEMMA MergeSound ==
  ASSUME NEW R, Numbers(R), NEW f \in [R -> Nat], NEW k \in Nat, NEW gap \in Nat,
         NEW equal_size \in BOOLEAN, NEW s, NEW t,
         Sound(s, R, f, k, gap, equal_size), Sound(t, R, f, k, gap, equal_size),
         RowsOf(R, s) \cap RowsOf(R, t) = {}
  PROVE  /\ Sound(Merge(s, t), R, f, k, gap, equal_size)
         /\ RowsOf(R, Merge(s, t)) = RowsOf(R, s) \cup RowsOf(R, t)
<1>1. PICK o, r : o = Opposite(k) /\ r = Reordered(t, o)
  OBVIOUS
<1>2. /\ Filled(s, R, f, k, gap) /\ Descends(s) /\ Shape(s, k, equal_size)
      /\ Filled(t, R, f, k, gap) /\ Descends(t) /\ Shape(t, k, equal_size)
  BY DEF Sound
<1>3. Once(o, 1 .. k)
  BY <1>1, OppositeOnce
<1>4. Filled(r, R, f, k, gap) /\ RowsOf(R, r) = RowsOf(R, t) /\ Shape(r, k, equal_size)
  <2>1. Filled(r, R, f, k, gap) /\ RowsOf(R, r) = RowsOf(R, t)
    BY <1>1, <1>2, <1>3, ReorderedFilled
  <2>2. Shape(r, k, equal_size)
    <3>1. Len(t) = k
      BY <1>2 DEF Filled
    <3>. QED BY <1>1, <1>2, <1>3, <3>1, ReorderedShape
  <2>. QED BY <2>1, <2>2
<1>5. Falls(s, k) /\ Falls(t, k)
  BY <1>2, DescendsFalls
<1>6. Len(s) = k /\ DOMAIN s = 1 .. k /\ Len(t) = k
  <2>1. Typed(s, R, f, k) /\ Typed(t, R, f, k)
    BY <1>2, FilledFacts
  <2>. QED BY <2>1 DEF Typed
<1>7. Rises(r, k)
  BY <1>1, <1>5, <1>6, OppositeRises
<1>8. Merge(s, t) = Descending(Beside(s, r))
  BY <1>1, <1>6, MergeBeside
<1>9. Filled(Beside(s, r), R, f, k, gap) /\ RowsOf(R, Beside(s, r)) = RowsOf(R, s) \cup RowsOf(R, r)
  BY <1>2, <1>4, <1>5, <1>7, BesideFilled
<1>10. Shape(Beside(s, r), k, equal_size)
  BY <1>2, <1>4, <1>5, <1>7, BesideShape
<1>. QED BY <1>4, <1>8, <1>9, <1>10, DescendingSound

(***************************************************************************)
(* The heap.                                                               *)
(***************************************************************************)
\* The pairs of a set whose first comes before its second, in a strict total order.
Ordering(W, P) ==
  /\ \A a \in P : <<a, a>> \notin W
  /\ \A a, b \in P : a # b => <<a, b>> \in W \/ <<b, a>> \in W
  /\ \A a, b, c \in P : <<a, b>> \in W /\ <<b, c>> \in W => <<a, c>> \in W

\* Of a finite set one is the first.
LEMMA FirstOf ==
  ASSUME NEW P, IsFiniteSet(P), P # {}, NEW W, Ordering(W, P)
  PROVE  \E a \in P : \A b \in P \ {a} : <<a, b>> \in W
<1>. DEFINE Before(a) == {b \in P : <<b, a>> \in W}
            Sizes == {Cardinality(Before(a)) : a \in P}
<1>1. /\ \A a \in P : <<a, a>> \notin W
      /\ \A a, b \in P : a # b => <<a, b>> \in W \/ <<b, a>> \in W
      /\ \A a, b, c \in P : <<a, b>> \in W /\ <<b, c>> \in W => <<a, c>> \in W
  BY DEF Ordering
<1>2. \A a \in P : IsFiniteSet(Before(a)) /\ Cardinality(Before(a)) \in Nat
  <2>1. \A a \in P : Before(a) \subseteq P
    OBVIOUS
  <2>. HIDE DEF Before
  <2>. QED BY <2>1, FS_Subset, FS_CardinalityType
<1>3. \E a \in P : \A b \in P : Cardinality(Before(a)) <= Cardinality(Before(b))
  <2>1. Sizes \subseteq Nat /\ Sizes # {}
    <3>. HIDE DEF Before
    <3>. QED BY <1>2
  <2>. HIDE DEF Before
  <2>2. PICK x \in Sizes : \A y \in Sizes : x <= y
    <3>. HIDE DEF Sizes
    <3>. QED BY <2>1, SomeLeast
  <2>3. PICK a \in P : x = Cardinality(Before(a))
    BY <2>2
  <2>4. \A b \in P : Cardinality(Before(b)) \in Sizes
    OBVIOUS
  <2>. QED BY <2>2, <2>3, <2>4
<1>4. PICK a \in P : \A b \in P : Cardinality(Before(a)) <= Cardinality(Before(b))
  BY <1>3
<1>5. ASSUME NEW b \in P \ {a}, <<a, b>> \notin W PROVE FALSE
  <2>1. <<b, a>> \in W
    BY <1>1, <1>5
  <2>2. Before(b) \subseteq Before(a) /\ b \in Before(a) /\ b \notin Before(b)
    BY <1>1, <2>1
  <2>. HIDE DEF Before
  <2>3. /\ Cardinality(Before(b)) <= Cardinality(Before(a))
        /\ Cardinality(Before(b)) # Cardinality(Before(a))
    BY <1>2, <2>2, FS_Subset
  <2>4. Cardinality(Before(a)) <= Cardinality(Before(b))
    BY <1>4
  <2>. QED BY <1>2, <2>3, <2>4
<1>. QED BY <1>5

\* A state's largest set is not empty: its first row tells it from other states.
LEMMA SoundRows ==
  ASSUME NEW R, Numbers(R), NEW f \in [R -> Nat], NEW k \in Nat, NEW gap \in Nat,
         NEW equal_size \in BOOLEAN, NEW s, Sound(s, R, f, k, gap, equal_size)
  PROVE  /\ RowsOf(R, s) # {} /\ k \in Nat \ {0} /\ Head(s) = s[1] /\ Last(s) = s[k]
         /\ s[1] \in SetOf(R) /\ s[k] \in SetOf(R)
         /\ s[1].items # <<>> /\ Head(s[1].items) \in RowsOf(R, s)
<1>1. Filled(s, R, f, k, gap) /\ Descends(s) /\ Shape(s, k, equal_size)
  BY DEF Sound
<1>2. Typed(s, R, f, k) /\ Falls(s, k)
  BY <1>1, FilledFacts, DescendsFalls
<1>3. /\ s \in Seq(SetOf(R)) /\ Len(s) = k
      /\ \A j \in 1 .. k : /\ s[j] \in SetOf(R) /\ s[j].sum = SumOf(f, s[j].items)
                           /\ s[j].items \in Seq(R)
  BY <1>2 DEF Typed
<1>4. PICK j \in 1 .. k : s[j].items # <<>>
  BY <1>1 DEF Shape
<1>5. k # 0 /\ 1 \in 1 .. k /\ k \in 1 .. k
  BY <1>4
<1>6. s[1].items # <<>>
  <2>1. ASSUME s[1].items = <<>> PROVE FALSE
    <3>1. SumOf(f, <<>>) = 0
      BY SumEmpty
    <3>2. s[1].sum = 0
      BY <1>3, <1>5, <2>1, <3>1
    <3>3. j # 1
      BY <1>4, <2>1
    <3>4. 1 < j
      BY <3>3
    <3>5. s[j].items = <<>>
      BY <1>2, <1>5, <2>1, <3>2, <3>4 DEF Falls
    <3>. QED BY <1>4, <3>5
  <2>. QED BY <2>1
<1>7. Head(s[1].items) \in RowsOf(R, s)
  <2>1. PICK l \in Seq(R) : l = s[1].items
    BY <1>3, <1>5
  <2>2. l # <<>>
    BY <1>6, <2>1
  <2>3. Len(l) \in Nat \ {0} /\ Head(l) = l[1] /\ Head(l) \in R
    BY <2>2, TailFacts
  <2>4. 1 \in 1 .. Len(l)
    BY <2>3
  <2>. QED BY <1>3, <1>5, <2>1, <2>3, <2>4 DEF RowsOf
<1>8. Head(s) = s[1]
  <2>1. s # <<>>
    BY <1>3, <1>5
  <2>. QED BY <1>3, <2>1, TailFacts
<1>9. Last(s) = s[k]
  BY <1>3 DEF Last
<1>. QED BY <1>3, <1>5, <1>6, <1>7, <1>8, <1>9

\* States on the heap have no row in common.
Heap(P, R, f, k, gap, equal_size) ==
  /\ IsFiniteSet(P)
  /\ \A s \in P : Sound(s, R, f, k, gap, equal_size)
  /\ \A s, t \in P : s # t => RowsOf(R, s) \cap RowsOf(R, t) = {}

\* The heap gives a state: of states with different rows one is the widest.
LEMMA FirstIn ==
  ASSUME NEW R, Numbers(R), NEW f \in [R -> Nat], NEW k \in Nat, NEW gap \in Nat,
         NEW equal_size \in BOOLEAN, NEW P, Heap(P, R, f, k, gap, equal_size), P # {}
  PROVE  First(P) \in P
<1>. DEFINE W == {p \in P \X P : Wider(p[1], p[2])}
<1>1. ASSUME NEW s \in P
      PROVE  /\ Head(s) \in SetOf(R) /\ Head(s).items # <<>> /\ Head(Head(s).items) \in RowsOf(R, s)
             /\ Spread(s) \in Int
  <2>1. Sound(s, R, f, k, gap, equal_size)
    BY DEF Heap
  <2>2. /\ Head(s) = s[1] /\ Last(s) = s[k] /\ s[1] \in SetOf(R) /\ s[k] \in SetOf(R)
        /\ s[1].items # <<>> /\ Head(s[1].items) \in RowsOf(R, s)
    BY <2>1, SoundRows
  <2>3. s[1].sum \in Nat /\ s[k].sum \in Nat
    BY <2>2, SetFacts
  <2>. QED BY <2>2, <2>3 DEF Spread
<1>2. \A s, t \in P : <<s, t>> \in W <=> Wider(s, t)
  OBVIOUS
<1>. HIDE DEF W
<1>3. \A s \in P : <<s, s>> \notin W
  <2>1. ASSUME NEW s \in P PROVE ~Wider(s, s)
    <3>1. ~Larger(Head(s), Head(s))
      BY <1>1, LargerOrder
    <3>2. ~(Spread(s) > Spread(s))
      BY <1>1
    <3>. QED BY <3>1, <3>2 DEF Wider
  <2>. QED BY <1>2, <2>1
<1>4. \A s, t \in P : s # t => <<s, t>> \in W \/ <<t, s>> \in W
  <2>1. ASSUME NEW s \in P, NEW t \in P, s # t PROVE Wider(s, t) \/ Wider(t, s)
    <3>1. RowsOf(R, s) \cap RowsOf(R, t) = {}
      BY <2>1 DEF Heap
    <3>2. Head(Head(s).items) # Head(Head(t).items)
      BY <1>1, <3>1
    <3>3. Larger(Head(s), Head(t)) \/ Larger(Head(t), Head(s))
      BY <1>1, <3>2, LargerOrder
    <3>4. PICK a \in Int, b \in Int : a = Spread(s) /\ b = Spread(t)
      BY <1>1
    <3>5. a > b \/ b > a \/ a = b
      OBVIOUS
    <3>. QED BY <3>3, <3>4, <3>5 DEF Wider
  <2>. QED BY <1>2, <2>1
<1>5. \A s, t, u \in P : <<s, t>> \in W /\ <<t, u>> \in W => <<s, u>> \in W
  <2>1. ASSUME NEW s \in P, NEW t \in P, NEW u \in P, Wider(s, t), Wider(t, u) PROVE Wider(s, u)
    <3>1. PICK a \in Int, b \in Int, c \in Int : a = Spread(s) /\ b = Spread(t) /\ c = Spread(u)
      BY <1>1
    <3>2. Larger(Head(s), Head(t)) /\ Larger(Head(t), Head(u)) => Larger(Head(s), Head(u))
      BY <1>1, LargerOrder
    <3>3. (a > b \/ (a = b /\ Larger(Head(s), Head(t)))) /\ (b > c \/ (b = c /\ Larger(Head(t), Head(u))))
      BY <2>1, <3>1 DEF Wider
    <3>4. a > c \/ (a = c /\ Larger(Head(s), Head(u)))
      BY <3>2, <3>3
    <3>. QED BY <3>1, <3>4 DEF Wider
  <2>. QED BY <1>2, <2>1
<1>6. IsFiniteSet(P)
  BY DEF Heap
<1>7. \E s \in P : \A t \in P \ {s} : <<s, t>> \in W
  <2>1. Ordering(W, P)
    BY <1>3, <1>4, <1>5 DEF Ordering
  <2>. QED BY <1>6, <2>1, FirstOf
<1>8. PICK s \in P : \A t \in P \ {s} : Wider(s, t)
  BY <1>2, <1>7
<1>. QED BY <1>8, Zenon DEF First

\* The heap with m states for all rows.
Covers(P, R, f, k, gap, equal_size, m) ==
  /\ Heap(P, R, f, k, gap, equal_size) /\ Cardinality(P) = m
  /\ \A x \in R : \E s \in P : x \in RowsOf(R, s)

\* Merging two leaves one state fewer, for the same rows.
LEMMA MergeTwoCovers ==
  ASSUME NEW R, Numbers(R), NEW f \in [R -> Nat], NEW k \in Nat, NEW gap \in Nat,
         NEW equal_size \in BOOLEAN, NEW m \in Nat, m >= 2,
         NEW P, Covers(P, R, f, k, gap, equal_size, m)
  PROVE  Covers(MergeTwo(P), R, f, k, gap, equal_size, m - 1)
<1>. DEFINE s == First(P)
            t == First(P \ {s})
            Rest == P \ {s, t}
            u == Merge(s, t)
<1>1. Heap(P, R, f, k, gap, equal_size) /\ Cardinality(P) = m /\ IsFiniteSet(P)
  BY DEF Covers, Heap
<1>2. P # {}
  BY <1>1, FS_EmptySet
<1>3. s \in P
  BY <1>1, <1>2, FirstIn
<1>. HIDE DEF s
<1>4. IsFiniteSet(P \ {s}) /\ Cardinality(P \ {s}) = m - 1
  BY <1>1, <1>3, FS_RemoveElement
<1>5. P \ {s} # {}
  BY <1>4, FS_EmptySet
<1>6. Heap(P \ {s}, R, f, k, gap, equal_size)
  BY <1>1, <1>4 DEF Heap
<1>7. t \in P \ {s}
  BY <1>5, <1>6, FirstIn
<1>. HIDE DEF t
<1>8. IsFiniteSet(Rest) /\ Cardinality(Rest) = m - 2
  <2>1. PICK Q : Q = P \ {s}
    OBVIOUS
  <2>2. Rest = Q \ {t}
    BY <2>1
  <2>3. IsFiniteSet(Q) /\ t \in Q /\ Cardinality(Q) = m - 1
    BY <1>4, <1>7, <2>1
  <2>4. IsFiniteSet(Q \ {t}) /\ Cardinality(Q \ {t}) = Cardinality(Q) - 1
    BY <2>3, FS_RemoveElement
  <2>. QED BY <2>2, <2>3, <2>4
<1>9. /\ Sound(s, R, f, k, gap, equal_size) /\ Sound(t, R, f, k, gap, equal_size)
      /\ RowsOf(R, s) \cap RowsOf(R, t) = {}
  BY <1>1, <1>3, <1>7 DEF Heap
<1>10. Sound(u, R, f, k, gap, equal_size) /\ RowsOf(R, u) = RowsOf(R, s) \cup RowsOf(R, t)
  BY <1>9, MergeSound
<1>11. RowsOf(R, s) # {}
  BY <1>9, SoundRows
<1>. HIDE DEF u
<1>12. \A v \in Rest : RowsOf(R, v) \cap RowsOf(R, u) = {}
  <2>1. ASSUME NEW v \in Rest PROVE RowsOf(R, v) \cap RowsOf(R, u) = {}
    <3>1. v \in P /\ v # s /\ v # t /\ t \in P
      BY <1>7
    <3>2. RowsOf(R, v) \cap RowsOf(R, s) = {} /\ RowsOf(R, v) \cap RowsOf(R, t) = {}
      BY <1>1, <1>3, <3>1 DEF Heap
    <3>. QED BY <1>10, <3>2
  <2>. QED BY <2>1
<1>13. u \notin Rest
  <2>1. ASSUME u \in Rest PROVE FALSE
    <3>1. RowsOf(R, u) \cap RowsOf(R, u) = {}
      BY <1>12, <2>1
    <3>. QED BY <1>10, <1>11, <3>1
  <2>. QED BY <2>1
<1>14. IsFiniteSet(Rest \cup {u}) /\ Cardinality(Rest \cup {u}) = m - 1
  <2>1. IsFiniteSet(Rest \cup {u}) /\ Cardinality(Rest \cup {u}) = m - 2 + 1
    BY <1>8, <1>13, FS_AddElement
  <2>. QED BY <2>1
<1>15. Heap(Rest \cup {u}, R, f, k, gap, equal_size)
  <2>1. \A v \in Rest \cup {u} : Sound(v, R, f, k, gap, equal_size)
    BY <1>1, <1>10 DEF Heap
  <2>2. \A v, w \in Rest \cup {u} : v # w => RowsOf(R, v) \cap RowsOf(R, w) = {}
    <3>1. \A v, w \in Rest : v # w => RowsOf(R, v) \cap RowsOf(R, w) = {}
      BY <1>1 DEF Heap
    <3>. QED BY <1>12, <3>1
  <2>. QED BY <1>14, <2>1, <2>2 DEF Heap
<1>16. \A x \in R : \E v \in Rest \cup {u} : x \in RowsOf(R, v)
  <2>1. ASSUME NEW x \in R PROVE \E v \in Rest \cup {u} : x \in RowsOf(R, v)
    <3>1. PICK v \in P : x \in RowsOf(R, v)
      BY DEF Covers
    <3>. QED BY <1>10, <3>1
  <2>. QED BY <2>1
<1>17. Covers(Rest \cup {u}, R, f, k, gap, equal_size, m - 1)
  BY <1>14, <1>15, <1>16 DEF Covers
<1>18. MergeTwo(P) = Rest \cup {u}
  BY Zenon DEF MergeTwo, With, s, t, u
<1>. QED BY <1>17, <1>18

\* Lists that have each member once when flattened share them out.
LEMMA SharesFlatten ==
  ASSUME NEW S, NEW ss \in Seq(Seq(S)), Once(FlattenSeq(ss), S)
  PROVE  Shares(ss, S)
<1>. DEFINE flat == FlattenSeq(ss)
<1>1. PICK o : Offsets(ss, o) /\ Located(ss, flat, o)
  BY FlattenLocated
<1>. HIDE DEF flat
<1>2. /\ \A j \in 1 .. Len(ss) : \A i \in 1 .. Len(ss[j]) :
           o[j - 1] + i \in 1 .. Len(flat) /\ flat[o[j - 1] + i] = ss[j][i]
      /\ \A n \in 1 .. Len(flat) : \E j \in 1 .. Len(ss) : \E i \in 1 .. Len(ss[j]) : n = o[j - 1] + i
  BY <1>1 DEF Located
<1>3. /\ \A x \in S : \E n \in 1 .. Len(flat) : flat[n] = x
      /\ \A m, n \in 1 .. Len(flat) : flat[m] = flat[n] => m = n
  BY DEF flat, Once
<1>4. ASSUME NEW x \in S PROVE \E j \in 1 .. Len(ss) : \E i \in 1 .. Len(ss[j]) : ss[j][i] = x
  <2>1. PICK n \in 1 .. Len(flat) : flat[n] = x
    BY <1>3
  <2>2. PICK j \in 1 .. Len(ss) : \E i \in 1 .. Len(ss[j]) : n = o[j - 1] + i
    BY <1>2
  <2>3. PICK i \in 1 .. Len(ss[j]) : n = o[j - 1] + i
    BY <2>2
  <2>4. flat[n] = ss[j][i]
    BY <1>2, <2>3
  <2>. QED BY <2>1, <2>4
<1>5. ASSUME NEW j \in 1 .. Len(ss), NEW l \in 1 .. Len(ss), NEW i \in 1 .. Len(ss[j]), NEW m \in 1 .. Len(ss[l]),
             ss[j][i] = ss[l][m]
      PROVE  j = l /\ i = m
  <2>1. PICK a \in 1 .. Len(flat) : a = o[j - 1] + i /\ flat[a] = ss[j][i]
    BY <1>2
  <2>2. PICK b \in 1 .. Len(flat) : b = o[l - 1] + m /\ flat[b] = ss[l][m]
    BY <1>2
  <2>3. flat[a] = flat[b]
    BY <1>5, <2>1, <2>2
  <2>4. a = b
    BY <1>3, <2>3, Zenon
  <2>5. o[j - 1] + i = o[l - 1] + m
    BY <2>1, <2>2, <2>4
  <2>. QED BY <1>1, <2>5, PlacesDiffer
<1>. QED BY <1>4, <1>5 DEF Shares

\* So do the slices of a list.
LEMMA SlicesShare ==
  ASSUME NEW S, NEW s, Once(s, S), NEW n \in Nat \ {0}
  PROVE  Shares(Slices(s, n), S)
<1>1. s \in Seq(S)
  BY DEF Once
<1>2. Slices(s, n) \in Seq(Seq(S)) /\ FlattenSeq(Slices(s, n)) = s
  BY <1>1, SlicesAre
<1>. QED BY <1>2, SharesFlatten

\* The values of rows that a state starts with: none is larger than gap, or there is one for
\* each set and they differ by no more.
Near(f, rows, k, gap) ==
  \/ \A i \in 1 .. Len(rows) : f[rows[i]] <= gap
  \/ Len(rows) = k /\ \A i, j \in 1 .. Len(rows) : f[rows[i]] <= f[rows[j]] + gap

Distinct(rows) == \A i, j \in 1 .. Len(rows) : rows[i] = rows[j] => i = j

Starts(s, R, f, k, rows) ==
  /\ s \in Seq(SetOf(R)) /\ Len(s) = k
  /\ \A j \in 1 .. k :
       /\ j <= Len(rows) => j \in 1 .. Len(rows) /\ s[j].sum = f[rows[j]] /\ s[j].items = <<rows[j]>>
       /\ j > Len(rows) => s[j].sum = 0 /\ s[j].items = <<>>

\* What a state starts with.
LEMMA SetsStart ==
  ASSUME NEW R, NEW f \in [R -> Nat], NEW k \in Nat, NEW rows \in Seq(R)
  PROVE  Starts(Sets(f, rows, k), R, f, k, rows)
<1>. DEFINE s == Sets(f, rows, k)
<1>1. \A j \in 1 .. k : s[j] = IF j <= Len(rows) THEN [sum |-> f[rows[j]], items |-> <<rows[j]>>]
                                                 ELSE [sum |-> 0, items |-> <<>>]
  BY DEF Sets
<1>2. ASSUME NEW j \in 1 .. k
      PROVE  /\ s[j] \in SetOf(R)
             /\ j <= Len(rows) => j \in 1 .. Len(rows) /\ s[j].sum = f[rows[j]] /\ s[j].items = <<rows[j]>>
             /\ j > Len(rows) => s[j].sum = 0 /\ s[j].items = <<>>
  <2>1. CASE j <= Len(rows)
    <3>1. j \in 1 .. Len(rows)
      BY <2>1
    <3>2. PICK x \in R : x = rows[j]
      BY <3>1
    <3>3. s[j] = [sum |-> f[x], items |-> <<x>>]
      BY <1>1, <2>1, <3>2
    <3>4. f[x] \in Nat /\ <<x>> \in Seq(R)
      OBVIOUS
    <3>5. s[j] \in SetOf(R) /\ s[j].sum = f[x] /\ s[j].items = <<x>>
      BY <3>3, <3>4 DEF SetOf
    <3>. QED BY <2>1, <3>1, <3>2, <3>5
  <2>2. CASE j > Len(rows)
    <3>1. ~(j <= Len(rows))
      BY <2>2
    <3>2. s[j] = [sum |-> 0, items |-> <<>>]
      BY <1>1, <3>1
    <3>3. s[j] \in SetOf(R) /\ s[j].sum = 0 /\ s[j].items = <<>>
      BY <3>2 DEF SetOf
    <3>. QED BY <3>1, <3>3
  <2>3. Len(rows) \in Nat
    OBVIOUS
  <2>. QED BY <2>1, <2>2, <2>3
<1>3. s = [j \in 1 .. k |-> s[j]]
  BY DEF Sets
<1>. HIDE DEF s
<1>4. s \in [1 .. k -> SetOf(R)]
  BY <1>2, <1>3
<1>5. s \in Seq(SetOf(R)) /\ Len(s) = k
  BY <1>4, ListOf
<1>6. \A j \in 1 .. k :
        /\ j <= Len(rows) => j \in 1 .. Len(rows) /\ s[j].sum = f[rows[j]] /\ s[j].items = <<rows[j]>>
        /\ j > Len(rows) => s[j].sum = 0 /\ s[j].items = <<>>
  BY <1>2
<1>7. Starts(s, R, f, k, rows)
  BY <1>5, <1>6 DEF Starts
<1>. QED BY <1>7 DEF s

MembersOf(rows) == {rows[i] : i \in 1 .. Len(rows)}

\* A state that starts with some rows is filled, with these rows.
LEMMA SetsFilled ==
  ASSUME NEW R, Numbers(R), NEW f \in [R -> Nat], NEW k \in Nat \ {0}, NEW gap \in Nat,
         NEW rows \in Seq(R), Len(rows) >= 1, Len(rows) <= k, Distinct(rows), Near(f, rows, k, gap)
  PROVE  Filled(Sets(f, rows, k), R, f, k, gap) /\ RowsOf(R, Sets(f, rows, k)) = MembersOf(rows)
<1>1. PICK s : s = Sets(f, rows, k)
  OBVIOUS
<1>2. /\ s \in Seq(SetOf(R)) /\ Len(s) = k
      /\ \A j \in 1 .. k :
           /\ j <= Len(rows) => j \in 1 .. Len(rows) /\ s[j].sum = f[rows[j]] /\ s[j].items = <<rows[j]>>
           /\ j > Len(rows) => s[j].sum = 0 /\ s[j].items = <<>>
  <2>1. Starts(s, R, f, k, rows)
    BY <1>1, SetsStart
  <2>. QED BY <2>1 DEF Starts
<1>3. PICK n \in Nat : n = Len(rows) /\ n >= 1 /\ n <= k
  OBVIOUS
<1>4. \A j \in 1 .. n : rows[j] \in R /\ f[rows[j]] \in Nat
  BY <1>3
<1>5. ASSUME NEW j \in 1 .. k PROVE s[j].sum = SumOf(f, s[j].items)
  <2>1. CASE j <= n
    <3>1. s[j].sum = f[rows[j]] /\ s[j].items = <<rows[j]>>
      BY <1>2, <1>3, <2>1
    <3>2. rows[j] \in R
      BY <1>4, <2>1
    <3>. QED BY <3>1, <3>2, SumOne
  <2>2. CASE j > n
    <3>1. s[j].sum = 0 /\ s[j].items = <<>>
      BY <1>2, <1>3, <2>2
    <3>. QED BY <3>1, SumEmpty
  <2>. QED BY <2>1, <2>2
<1>6. ASSUME NEW i \in 1 .. k, NEW j \in 1 .. k PROVE s[i].sum <= s[j].sum + gap
  <2>1. PICK a \in Nat, b \in Nat :
          /\ a = s[i].sum /\ b = s[j].sum
          /\ i <= n => a = f[rows[i]]
          /\ i > n => a = 0
          /\ j <= n => b = f[rows[j]]
    <3>1. s[i].sum \in Nat /\ s[j].sum \in Nat
      BY <1>2, ItemsFacts
    <3>. QED BY <1>2, <1>3, <3>1
  <2>2. a <= b + gap
    <3>1. CASE \A l \in 1 .. n : f[rows[l]] <= gap
      <4>1. a <= gap
        BY <1>3, <2>1, <3>1
      <4>. QED BY <4>1
    <3>2. CASE n = k /\ \A l, m \in 1 .. n : f[rows[l]] <= f[rows[m]] + gap
      BY <1>3, <2>1, <3>2
    <3>. QED BY <1>3, <3>1, <3>2 DEF Near
  <2>. QED BY <2>1, <2>2
<1>7. /\ Items(s) \in Seq(Seq(R)) /\ Len(Items(s)) = k
      /\ \A j \in 1 .. k : Items(s)[j] = s[j].items
  BY <1>2, ItemsFacts
<1>8. ASSUME NEW j \in 1 .. k
      PROVE  /\ j \in 1 .. n => Items(s)[j] = <<rows[j]>>
             /\ j \notin 1 .. n => Items(s)[j] = <<>>
  <2>1. CASE j <= n
    <3>1. s[j].items = <<rows[j]>>
      BY <1>2, <1>3, <2>1
    <3>2. Items(s)[j] = <<rows[j]>>
      BY <1>7, <3>1, Zenon
    <3>3. j \in 1 .. n
      BY <2>1
    <3>. QED BY <3>2, <3>3, Zenon
  <2>2. CASE j > n
    <3>1. s[j].items = <<>>
      BY <1>2, <1>3, <2>2
    <3>. QED BY <1>7, <2>2, <3>1
  <2>. QED BY <2>1, <2>2
<1>9. \A j \in 1 .. k : \A i \in 1 .. Len(Items(s)[j]) : j \in 1 .. n /\ i = 1 /\ Items(s)[j][i] = rows[j]
  <2>1. ASSUME NEW j \in 1 .. k, NEW i \in 1 .. Len(Items(s)[j])
        PROVE  j \in 1 .. n /\ i = 1 /\ Items(s)[j][i] = rows[j]
    <3>1. j \in 1 .. n
      BY <1>8, <2>1
    <3>2. Items(s)[j] = <<rows[j]>>
      BY <1>8, <3>1
    <3>. QED BY <2>1, <3>1, <3>2
  <2>. QED BY <2>1
<1>10. Items(s) \in Seq(Seq(MembersOf(rows)))
  <2>1. ASSUME NEW j \in 1 .. k PROVE Items(s)[j] \in Seq(MembersOf(rows))
    <3>1. CASE j \in 1 .. n
      <4>1. rows[j] \in MembersOf(rows)
        BY <1>3, <3>1 DEF MembersOf
      <4>2. <<rows[j]>> \in Seq(MembersOf(rows))
        BY <4>1
      <4>3. Items(s)[j] = <<rows[j]>>
        BY <1>8, <3>1
      <4>. QED BY <4>2, <4>3
    <3>2. CASE j \notin 1 .. n
      <4>1. Items(s)[j] = <<>>
        BY <1>8, <3>2
      <4>. QED BY <4>1
    <3>. QED BY <3>1, <3>2
  <2>2. Items(s) = [j \in 1 .. k |-> Items(s)[j]]
    BY <1>7
  <2>3. Items(s) \in [1 .. k -> Seq(MembersOf(rows))]
    BY <2>1, <2>2
  <2>. QED BY <2>3, ListOf
<1>11. ASSUME NEW x \in MembersOf(rows)
       PROVE  \E j \in 1 .. Len(Items(s)) : \E i \in 1 .. Len(Items(s)[j]) : Items(s)[j][i] = x
  <2>1. PICK j \in 1 .. n : rows[j] = x
    BY <1>3 DEF MembersOf
  <2>2. j \in 1 .. k
    BY <1>3
  <2>3. Items(s)[j] = <<rows[j]>>
    BY <1>8, <2>2
  <2>4. 1 \in 1 .. Len(Items(s)[j]) /\ Items(s)[j][1] = x
    BY <2>1, <2>3
  <2>. QED BY <1>7, <2>2, <2>4
<1>12. ASSUME NEW j \in 1 .. Len(Items(s)), NEW l \in 1 .. Len(Items(s)),
              NEW i \in 1 .. Len(Items(s)[j]), NEW m \in 1 .. Len(Items(s)[l]), Items(s)[j][i] = Items(s)[l][m]
       PROVE  j = l /\ i = m
  <2>1. j \in 1 .. k /\ l \in 1 .. k
    BY <1>7
  <2>2. j \in 1 .. n /\ i = 1 /\ l \in 1 .. n /\ m = 1 /\ rows[j] = rows[l]
    BY <1>9, <1>12, <2>1
  <2>3. j = l
    BY <1>3, <2>2 DEF Distinct
  <2>. QED BY <2>2, <2>3
<1>13. Shares(Items(s), MembersOf(rows))
  BY <1>10, <1>11, <1>12 DEF Shares
<1>14. RowsOf(R, s) = MembersOf(rows)
  <2>1. MembersOf(rows) \subseteq R
    BY <1>3, <1>4 DEF MembersOf
  <2>. QED BY <1>2, <1>13, <2>1, RowsOfIs
<1>15. Filled(s, R, f, k, gap)
  BY <1>2, <1>5, <1>6, <1>13, <1>14 DEF Filled
<1>. QED BY <1>1, <1>14, <1>15

\* ... and of the shape that is asked for.
LEMMA SetsShape ==
  ASSUME NEW R, NEW f \in [R -> Nat], NEW k \in Nat \ {0}, NEW rows \in Seq(R),
         Len(rows) >= 1, Len(rows) <= k, NEW equal_size \in BOOLEAN, equal_size => Len(rows) = k
  PROVE  Shape(Sets(f, rows, k), k, equal_size)
<1>1. PICK s : s = Sets(f, rows, k)
  OBVIOUS
<1>2. PICK n \in Nat : n = Len(rows) /\ n >= 1 /\ n <= k
  OBVIOUS
<1>3. \A j \in 1 .. k : /\ j <= n => s[j].items = <<rows[j]>>
                        /\ j > n => s[j].items = <<>>
  <2>1. Starts(s, R, f, k, rows)
    BY <1>1, SetsStart
  <2>. QED BY <1>2, <2>1 DEF Starts
<1>4. ASSUME NEW j \in 1 .. k
      PROVE  /\ j <= n => Len(s[j].items) = 1 /\ s[j].items # <<>>
             /\ Len(s[j].items) <= 1
  <2>1. CASE j <= n
    <3>1. PICK x : s[j].items = <<x>>
      BY <1>3, <2>1
    <3>2. Len(<<x>>) = 1 /\ <<x>> # <<>>
      OBVIOUS
    <3>. QED BY <3>1, <3>2
  <2>2. CASE j > n
    <3>1. s[j].items = <<>>
      BY <1>3, <2>2
    <3>2. Len(<<>>) = 0
      OBVIOUS
    <3>. QED BY <2>2, <3>1, <3>2
  <2>. QED BY <2>1, <2>2
<1>5. \A i, j \in 1 .. k : IF equal_size THEN Len(s[i].items) = Len(s[j].items)
                                         ELSE s[i].items = <<>> => Len(s[j].items) <= 1
  <2>1. ASSUME equal_size, NEW j \in 1 .. k PROVE Len(s[j].items) = 1
    BY <1>2, <1>4, <2>1
  <2>. QED BY <1>4, <2>1
<1>6. s[1].items # <<>> /\ 1 \in 1 .. k
  BY <1>2, <1>4
<1>7. Shape(s, k, equal_size)
  BY <1>5, <1>6 DEF Shape
<1>. QED BY <1>1, <1>7

\* The pieces of rows that the first states are made of.
Pieces(items, f, k, gap, equal_size) ==
  \A m \in 1 .. Len(items) :
    /\ Len(items[m]) >= 1 /\ Len(items[m]) <= k /\ Near(f, items[m], k, gap)
    /\ equal_size => Len(items[m]) = k

\* The states that start from the pieces of all rows cover all rows.
LEMMA FirstStates ==
  ASSUME NEW R, Numbers(R), NEW f \in [R -> Nat], NEW k \in Nat \ {0}, NEW gap \in Nat,
         NEW equal_size \in BOOLEAN, NEW items, Shares(items, R), Pieces(items, f, k, gap, equal_size),
         NEW P, P = {Descending(Sets(f, items[m], k)) : m \in DOMAIN items}
  PROVE  Covers(P, R, f, k, gap, equal_size, Len(items))
<1>. DEFINE st == [m \in 1 .. Len(items) |-> Descending(Sets(f, items[m], k))]
<1>1. /\ Len(items) \in Nat /\ DOMAIN items = 1 .. Len(items)
      /\ \A m \in 1 .. Len(items) : items[m] \in Seq(R) /\ Len(items[m]) \in Nat
  <2>1. items \in Seq(Seq(R))
    BY DEF Shares
  <2>. QED BY <2>1
<1>2. PICK N \in Nat : N = Len(items) /\ DOMAIN items = 1 .. N
  BY <1>1, Zenon
<1>3. ASSUME NEW m \in 1 .. N PROVE Distinct(items[m])
  <2>1. m \in 1 .. Len(items)
    BY <1>2
  <2>2. \A i, j \in 1 .. Len(items[m]) : items[m][i] = items[m][j] => i = j
    BY <2>1 DEF Shares
  <2>. QED BY <2>2 DEF Distinct
<1>4. ASSUME NEW m \in 1 .. N
      PROVE  Sound(st[m], R, f, k, gap, equal_size) /\ RowsOf(R, st[m]) = MembersOf(items[m])
  <2>1. PICK rows \in Seq(R) : rows = items[m]
    BY <1>1, <1>2
  <2>2. PICK u : u = Sets(f, rows, k)
    OBVIOUS
  <2>3. Len(rows) >= 1 /\ Len(rows) <= k /\ Near(f, rows, k, gap) /\ (equal_size => Len(rows) = k)
    BY <1>2, <2>1 DEF Pieces
  <2>4. Distinct(rows)
    BY <1>3, <2>1
  <2>5. Filled(u, R, f, k, gap) /\ RowsOf(R, u) = MembersOf(rows)
    BY <2>2, <2>3, <2>4, SetsFilled
  <2>6. Shape(u, k, equal_size)
    BY <2>2, <2>3, SetsShape
  <2>7. Sound(Descending(u), R, f, k, gap, equal_size) /\ RowsOf(R, Descending(u)) = RowsOf(R, u)
    BY <2>5, <2>6, DescendingSound
  <2>8. st[m] = Descending(u)
    BY <1>2, <2>1, <2>2
  <2>. QED BY <2>1, <2>5, <2>7, <2>8
<1>5. P = {st[m] : m \in 1 .. N} /\ DOMAIN st = 1 .. N /\ st = [m \in 1 .. N |-> st[m]]
  BY <1>2
<1>. HIDE DEF st
<1>6. ASSUME NEW m \in 1 .. N, NEW l \in 1 .. N, m # l
      PROVE  RowsOf(R, st[m]) \cap RowsOf(R, st[l]) = {}
  <2>1. ASSUME NEW x \in MembersOf(items[m]), x \in MembersOf(items[l]) PROVE FALSE
    <3>1. PICK i \in 1 .. Len(items[m]) : items[m][i] = x
      BY DEF MembersOf
    <3>2. PICK j \in 1 .. Len(items[l]) : items[l][j] = x
      BY <2>1 DEF MembersOf
    <3>3. m \in 1 .. Len(items) /\ l \in 1 .. Len(items)
      BY <1>2
    <3>4. \A a, b \in 1 .. Len(items) : \A c \in 1 .. Len(items[a]) : \A d \in 1 .. Len(items[b]) :
            items[a][c] = items[b][d] => a = b /\ c = d
      BY DEF Shares
    <3>5. m = l
      BY <3>1, <3>2, <3>3, <3>4
    <3>. QED BY <1>6, <3>5
  <2>. QED BY <1>4, <2>1
<1>7. Once(st, P) /\ Len(st) = N
  <2>1. st \in Seq(P) /\ Len(st) = N
    <3>1. st \in [1 .. N -> P]
      BY <1>5
    <3>. QED BY <3>1, ListOf
  <2>2. \A x \in P : \E m \in 1 .. Len(st) : st[m] = x
    BY <1>5, <2>1
  <2>3. ASSUME NEW m \in 1 .. Len(st), NEW l \in 1 .. Len(st), st[m] = st[l] PROVE m = l
    <3>1. m \in 1 .. N /\ l \in 1 .. N
      BY <2>1
    <3>2. RowsOf(R, st[m]) # {}
      BY <1>4, <3>1, SoundRows
    <3>3. CASE m # l
      <4>1. RowsOf(R, st[m]) \cap RowsOf(R, st[l]) = {}
        BY <1>6, <3>1, <3>3
      <4>. QED BY <2>3, <3>2, <4>1
    <3>. QED BY <3>3
  <2>. QED BY <2>1, <2>2, <2>3 DEF Once
<1>8. IsFiniteSet(P) /\ Cardinality(P) = N
  BY <1>7, OnceCount
<1>9. Heap(P, R, f, k, gap, equal_size)
  <2>1. \A s \in P : Sound(s, R, f, k, gap, equal_size)
    BY <1>4, <1>5
  <2>2. \A s, t \in P : s # t => RowsOf(R, s) \cap RowsOf(R, t) = {}
    <3>1. ASSUME NEW s \in P, NEW t \in P, s # t PROVE RowsOf(R, s) \cap RowsOf(R, t) = {}
      <4>1. PICK m \in 1 .. N : s = st[m]
        BY <1>5
      <4>2. PICK l \in 1 .. N : t = st[l]
        BY <1>5
      <4>3. m # l
        BY <3>1, <4>1, <4>2
      <4>. QED BY <1>6, <4>1, <4>2, <4>3
    <3>. QED BY <3>1
  <2>. QED BY <1>8, <2>1, <2>2 DEF Heap
<1>10. \A x \in R : \E s \in P : x \in RowsOf(R, s)
  <2>1. ASSUME NEW x \in R PROVE \E s \in P : x \in RowsOf(R, s)
    <3>1. PICK m \in 1 .. Len(items) : \E i \in 1 .. Len(items[m]) : items[m][i] = x
      BY DEF Shares
    <3>2. x \in MembersOf(items[m])
      BY <3>1 DEF MembersOf
    <3>3. m \in 1 .. N
      BY <1>2
    <3>. QED BY <1>4, <1>5, <3>2, <3>3
  <2>. QED BY <2>1
<1>. QED BY <1>2, <1>8, <1>9, <1>10, Zenon DEF Covers

\* What merging two by two leaves of the heap after every step.
MergesFrom(P, N, p) ==
  \A n \in 1 .. N : p[n] = IF n = 1 THEN P ELSE MergeTwo(p[n - 1])

\* The recursive function of the heap has values.
LEMMA MergesExist ==
  ASSUME NEW P, NEW N \in Nat, NEW p,
         p = CHOOSE g : g = [n \in 1 .. N |-> IF n = 1 THEN P ELSE MergeTwo(g[n - 1])]
  PROVE  MergesFrom(P, N, p)
<1>. DEFINE Upto(n, g) == g = [m \in 1 .. n |-> IF m = 1 THEN P ELSE MergeTwo(g[m - 1])]
            Defined(n) == \E g : Upto(n, g)
<1>1. Defined(0)
  <2>1. Upto(0, [m \in 1 .. 0 |-> P])
    OBVIOUS
  <2>. HIDE DEF Upto
  <2>. QED BY <2>1
<1>2. ASSUME NEW n \in 1 .. N, Defined(n - 1) PROVE Defined(n)
  <2>1. PICK g : Upto(n - 1, g)
    BY <1>2
  <2>. DEFINE h == [m \in 1 .. n |-> IF m < n THEN g[m] ELSE IF n = 1 THEN P ELSE MergeTwo(g[n - 1])]
  <2>2. ASSUME NEW m \in 1 .. n PROVE h[m] = IF m = 1 THEN P ELSE MergeTwo(h[m - 1])
    <3>1. CASE m < n
      <4>1. m \in 1 .. n - 1 /\ (m # 1 => m - 1 \in 1 .. n /\ m - 1 < n)
        BY <3>1
      <4>2. h[m] = g[m] /\ (m # 1 => h[m - 1] = g[m - 1])
        BY <3>1, <4>1
      <4>. QED BY <2>1, <4>1, <4>2
    <3>2. CASE m = n
      <4>1. m # 1 => m - 1 \in 1 .. n /\ m - 1 < n
        BY <3>2
      <4>2. m # 1 => h[m - 1] = g[m - 1]
        BY <4>1
      <4>3. h[m] = IF n = 1 THEN P ELSE MergeTwo(g[n - 1])
        BY <3>2
      <4>. QED BY <3>2, <4>2, <4>3
    <3>. QED BY <3>1, <3>2
  <2>3. h = [m \in 1 .. n |-> h[m]]
    OBVIOUS
  <2>. HIDE DEF h
  <2>4. Upto(n, h)
    BY <2>2, <2>3
  <2>. HIDE DEF Upto
  <2>. QED BY <2>4
<1>3. Defined(N)
  <2>. DEFINE T == {n \in 0 .. N : Defined(n)}
  <2>. HIDE DEF Defined
  <2>1. 0 \in T /\ \A n \in 1 .. N : n - 1 \in T => n \in T
    BY <1>1, <1>2
  <2>2. N \in T
    <3>. HIDE DEF T
    <3>1. \A n \in 0 .. N : n \in T
      BY <2>1, InductTo
    <3>. QED BY <3>1
  <2>. QED BY <2>2
<1>4. Upto(N, p)
  <2>1. p = CHOOSE g : Upto(N, g)
    BY Zenon
  <2>. HIDE DEF Upto
  <2>. QED BY <1>3, <2>1
<1>. QED BY <1>4 DEF MergesFrom

\* After N - 1 mergers there is one state for all rows.
LEMMA MergesCover ==
  ASSUME NEW R, Numbers(R), NEW f \in [R -> Nat], NEW k \in Nat, NEW gap \in Nat,
         NEW equal_size \in BOOLEAN, NEW N \in Nat \ {0}, NEW P, Covers(P, R, f, k, gap, equal_size, N),
         NEW p, MergesFrom(P, N, p)
  PROVE  Covers(p[N], R, f, k, gap, equal_size, 1)
<1>. DEFINE T == {n \in 0 .. N : n # 0 => Covers(p[n], R, f, k, gap, equal_size, N - n + 1)}
<1>1. 0 \in T
  OBVIOUS
<1>2. ASSUME NEW n \in 1 .. N, n - 1 \in T PROVE n \in T
  <2>1. CASE n = 1
    <3>1. p[n] = P
      BY <2>1 DEF MergesFrom
    <3>2. N - n + 1 = N
      BY <2>1
    <3>3. Covers(p[n], R, f, k, gap, equal_size, N - n + 1)
      BY <3>1, <3>2
    <3>. QED BY <3>3
  <2>2. CASE n # 1
    <3>1. PICK o \in 1 .. N, m \in Nat : o = n - 1 /\ m = N - o + 1 /\ m >= 2 /\ m - 1 = N - n + 1
      BY <2>2
    <3>2. Covers(p[o], R, f, k, gap, equal_size, m)
      BY <1>2, <3>1
    <3>3. Covers(MergeTwo(p[o]), R, f, k, gap, equal_size, m - 1)
      BY <3>1, <3>2, MergeTwoCovers
    <3>4. p[n] = MergeTwo(p[o])
      BY <2>2, <3>1 DEF MergesFrom
    <3>5. Covers(p[n], R, f, k, gap, equal_size, N - n + 1)
      BY <3>1, <3>3, <3>4
    <3>. QED BY <3>5
  <2>. QED BY <2>1, <2>2
<1>3. N \in T
  <2>. HIDE DEF T
  <2>1. \A n \in 0 .. N : n \in T
    BY <1>1, <1>2, InductTo
  <2>. QED BY <2>1
<1>4. Covers(p[N], R, f, k, gap, equal_size, N - N + 1)
  BY <1>3
<1>5. N - N + 1 = 1
  OBVIOUS
<1>. QED BY <1>4, <1>5

\* The last state has all rows.
LEMMA LastState ==
  ASSUME NEW R, Numbers(R), NEW f \in [R -> Nat], NEW k \in Nat, NEW gap \in Nat,
         NEW equal_size \in BOOLEAN, NEW P, Covers(P, R, f, k, gap, equal_size, 1)
  PROVE  Sound(First(P), R, f, k, gap, equal_size) /\ RowsOf(R, First(P)) = R
<1>1. Heap(P, R, f, k, gap, equal_size) /\ Cardinality(P) = 1 /\ IsFiniteSet(P)
  BY DEF Covers, Heap
<1>2. P # {}
  BY <1>1, FS_EmptySet
<1>3. First(P) \in P
  BY <1>1, <1>2, FirstIn
<1>4. PICK s \in P : s = First(P)
  BY <1>3
<1>5. \A t \in P : t = s
  <2>1. PICK u : P = {u}
    BY <1>1, FS_Singleton
  <2>. QED BY <2>1
<1>6. RowsOf(R, s) = R
  <2>1. \A x \in R : x \in RowsOf(R, s)
    BY <1>5 DEF Covers
  <2>2. RowsOf(R, s) \subseteq R
    BY DEF RowsOf
  <2>. QED BY <2>1, <2>2
<1>7. Sound(s, R, f, k, gap, equal_size)
  BY <1>1 DEF Heap
<1>. QED BY <1>4, <1>6, <1>7

\* What the partitions are: lists of different rows, all of R together, whose sums differ by no
\* more than gap.
Fair(parts, R, f, k, gap, equal_size) ==
  /\ Shares(parts, R) /\ Len(parts) = k
  /\ \A i, j \in 1 .. k : SumOf(f, parts[i]) <= SumOf(f, parts[j]) + gap
  /\ \A i, j \in 1 .. k :
       IF equal_size THEN Len(parts[i]) = Len(parts[j])
                     ELSE parts[i] = <<>> => Len(parts[j]) <= 1
  /\ \E j \in 1 .. k : parts[j] # <<>>

\* The values of a function, and how far they lie from each other, as far as it matters.
Between(f, n, low, high) == f \in [1 .. n -> Nat] /\ \A i \in 1 .. n : low <= f[i] /\ f[i] <= high

\* The rows in the order of their values, cut into pieces to start from.
LEMMA PiecesOfOrder ==
  ASSUME NEW n \in Nat \ {0}, NEW f, NEW low \in Nat, NEW high \in Nat, Between(f, n, low, high),
         NEW k \in Nat \ {0}, NEW equal_size \in BOOLEAN, equal_size => n % k = 0,
         NEW gap \in Nat, gap = IF equal_size THEN high - low ELSE high,
         NEW order, Once(order, 1 .. n), Len(order) = n,
         NEW items, items = Slices(order, IF equal_size THEN k ELSE 1)
  PROVE  /\ Shares(items, 1 .. n) /\ Len(items) \in Nat \ {0}
         /\ Pieces(items, f, k, gap, equal_size)
<1>1. PICK c \in Nat \ {0} : c = (IF equal_size THEN k ELSE 1) /\ c <= k
  OBVIOUS
<1>2. items = Slices(order, c)
  BY <1>1
<1>3. order \in Seq(1 .. n)
  BY DEF Once
<1>4. PICK N \in Nat : N = CeilDiv(n, c) /\ N # 0
  <2>1. CeilDiv(n, c) \in Nat /\ (n = 0 <=> CeilDiv(n, c) = 0)
    BY CeilDivIs
  <2>. QED BY <2>1
<1>5. /\ items \in Seq(Seq(1 .. n)) /\ Len(items) = N
      /\ \A m \in 1 .. N :
           /\ Len(items[m]) >= 1 /\ Len(items[m]) <= c
           /\ c * m <= n => Len(items[m]) = c
  <2>1. Cut(items, order, c)
    BY <1>2, <1>3, SlicesAre
  <2>2. CeilDiv(Len(order), c) = N /\ Len(order) = n
    BY <1>4
  <2>3. /\ Len(items) = CeilDiv(Len(order), c)
        /\ \A m \in 1 .. CeilDiv(Len(order), c) :
             /\ Len(items[m]) >= 1 /\ Len(items[m]) <= c
             /\ c * m <= Len(order) => Len(items[m]) = c
    BY <2>1 DEF Cut
  <2>4. items \in Seq(Seq(1 .. n))
    BY <1>2, <1>3, SlicesAre
  <2>. QED BY <2>2, <2>3, <2>4
<1>6. Shares(items, 1 .. n)
  BY <1>2, SlicesShare
<1>7. ASSUME NEW m \in 1 .. N
      PROVE  /\ Len(items[m]) >= 1 /\ Len(items[m]) <= k /\ (equal_size => Len(items[m]) = k)
             /\ Near(f, items[m], k, gap)
  <2>1. PICK rows \in Seq(1 .. n), l \in Nat : rows = items[m] /\ l = Len(rows) /\ l >= 1 /\ l <= c
    <3>1. items[m] \in Seq(1 .. n) /\ Len(items[m]) >= 1 /\ Len(items[m]) <= c
      BY <1>5
    <3>2. PICK rows \in Seq(1 .. n) : rows = items[m]
      BY <3>1
    <3>3. Len(rows) \in Nat
      OBVIOUS
    <3>. QED BY <3>1, <3>2, <3>3
  <2>2. equal_size => l = k
    <3>1. ASSUME equal_size PROVE l = k
      <4>1. c = k
        BY <1>1, <3>1
      <4>2. n = k * (n \div k) /\ CeilDiv(n, k) = n \div k
        BY <3>1, ExactDiv
      <4>3. n = k * N
        BY <1>4, <4>1, <4>2
      <4>4. k * m <= k * N
        OBVIOUS
      <4>5. c * m <= n
        BY <4>1, <4>3, <4>4
      <4>6. Len(items[m]) = c
        BY <1>5, <4>5
      <4>. QED BY <2>1, <4>1, <4>6
    <3>. QED BY <3>1
  <2>3. \A i \in 1 .. Len(rows) : f[rows[i]] \in Nat /\ low <= f[rows[i]] /\ f[rows[i]] <= high
    BY DEF Between
  <2>4. Near(f, rows, k, gap)
    <3>1. CASE equal_size
      <4>1. \A i, j \in 1 .. Len(rows) : f[rows[i]] <= f[rows[j]] + gap
        <5>1. ASSUME NEW i \in 1 .. Len(rows), NEW j \in 1 .. Len(rows) PROVE f[rows[i]] <= f[rows[j]] + gap
          <6>1. gap = high - low
            BY <3>1
          <6>2. \A x, y \in Nat : low <= y /\ x <= high => x <= y + gap
            BY <6>1
          <6>. QED BY <2>3, <6>2
        <5>. QED BY <5>1
      <4>2. Len(rows) = k
        BY <2>1, <2>2, <3>1
      <4>. QED BY <4>1, <4>2 DEF Near
    <3>2. CASE ~equal_size
      <4>1. gap = high
        BY <3>2
      <4>2. \A i \in 1 .. Len(rows) : f[rows[i]] <= gap
        BY <2>3, <4>1
      <4>. QED BY <4>2 DEF Near
    <3>. QED BY <3>1, <3>2
  <2>. QED BY <1>1, <2>1, <2>2, <2>4
<1>8. Pieces(items, f, k, gap, equal_size)
  BY <1>5, <1>7 DEF Pieces
<1>. QED BY <1>4, <1>5, <1>6, <1>8

\* The lists of a state with all rows are fair partitions.
LEMMA SoundFair ==
  ASSUME NEW R, Numbers(R), NEW f \in [R -> Nat], NEW k \in Nat, NEW gap \in Nat,
         NEW equal_size \in BOOLEAN, NEW s, Sound(s, R, f, k, gap, equal_size), RowsOf(R, s) = R,
         NEW parts, parts = [j \in 1 .. k |-> s[j].items]
  PROVE  Fair(parts, R, f, k, gap, equal_size)
<1>1. Filled(s, R, f, k, gap) /\ Shape(s, k, equal_size)
  BY DEF Sound
<1>2. /\ Len(s) = k /\ Shares(Items(s), R)
      /\ \A j \in 1 .. k : s[j].sum = SumOf(f, s[j].items)
      /\ \A i, j \in 1 .. k : s[i].sum <= s[j].sum + gap
  BY <1>1 DEF Filled
<1>3. parts = Items(s)
  BY <1>2 DEF Items
<1>4. Len(parts) = k /\ \A j \in 1 .. k : parts[j] = s[j].items
  <2>1. \A j \in 1 .. k : parts[j] = s[j].items
    OBVIOUS
  <2>2. parts \in Seq(Seq(R)) /\ DOMAIN parts = 1 .. k
    BY <1>2, <1>3 DEF Shares
  <2>3. Len(parts) = k
    BY <2>2
  <2>. QED BY <2>1, <2>3
<1>5. \A i, j \in 1 .. k : SumOf(f, parts[i]) <= SumOf(f, parts[j]) + gap
  BY <1>2, <1>4
<1>6. \A i, j \in 1 .. k : IF equal_size THEN Len(parts[i]) = Len(parts[j])
                                         ELSE parts[i] = <<>> => Len(parts[j]) <= 1
  BY <1>1, <1>4 DEF Shape
<1>7. \E j \in 1 .. k : parts[j] # <<>>
  BY <1>1, <1>4 DEF Shape
<1>. QED BY <1>2, <1>3, <1>4, <1>5, <1>6, <1>7 DEF Fair

\* The rows in their order.
LEMMA IdentityOnce ==
  ASSUME NEW n \in Nat
  PROVE  Once([i \in 1 .. n |-> i], 1 .. n) /\ Len([i \in 1 .. n |-> i]) = n
<1>1. [i \in 1 .. n |-> i] \in Seq(1 .. n) /\ Len([i \in 1 .. n |-> i]) = n
  BY ListOf
<1>. QED BY <1>1 DEF Once

\* karmarkar_karp, for any number of rows, partitions and any workloads: each row is in one
\* partition, once; the sums of two partitions differ by no more than the largest workload, or
\* by what workloads differ if sizes are to be equal, and then they are; if not, none is empty
\* next to one with two rows.
THEOREM KarmarkarKarpFair ==
  ASSUME NEW n \in Nat \ {0}, NEW f, NEW low \in Nat, NEW high \in Nat, Between(f, n, low, high),
         NEW k \in Nat \ {0}, NEW equal_size \in BOOLEAN, equal_size => n % k = 0,
         NEW gap \in Nat, gap = IF equal_size THEN high - low ELSE high
  PROVE  Fair(KarmarkarKarp(f, k, equal_size), 1 .. n, f, k, gap, equal_size)
<1>. DEFINE R == 1 .. n
            order == SortBy([i \in DOMAIN f |-> i], f)
            items == Slices(order, IF equal_size THEN k ELSE 1)
            N == Len(items)
            P == {Descending(Sets(f, items[m], k)) : m \in DOMAIN items}
            pool == CHOOSE g : g = [m \in 1 .. N |-> IF m = 1 THEN P ELSE MergeTwo(g[m - 1])]
            final == First(pool[N])
            parts == [j \in 1 .. k |-> final[j].items]
<1>1. f \in [1 .. n -> Nat] /\ DOMAIN f = 1 .. n
  BY DEF Between
<1>2. Once(order, 1 .. n) /\ Len(order) = n
  <2>1. PICK l : l = [i \in 1 .. n |-> i]
    OBVIOUS
  <2>2. Once(l, 1 .. n) /\ Len(l) = n
    BY <2>1, IdentityOnce
  <2>3. \A i \in 1 .. Len(l) : f[i] \in Int
    BY <1>1, <2>2
  <2>4. Once(SortBy(l, f), 1 .. n) /\ Len(SortBy(l, f)) = Len(l)
    BY <2>2, <2>3, SortByOnce
  <2>5. order = SortBy(l, f)
    BY <1>1, <2>1
  <2>. QED BY <2>2, <2>4, <2>5
<1>3. KarmarkarKarp(f, k, equal_size) = parts
  BY Zenon DEF KarmarkarKarp, With
<1>. HIDE DEF order
<1>4. Shares(items, R) /\ N \in Nat \ {0} /\ Pieces(items, f, k, gap, equal_size)
  BY <1>2, PiecesOfOrder
<1>. HIDE DEF items
<1>5. Numbers(R)
  BY DEF Numbers
<1>. HIDE DEF R
<1>6. f \in [R -> Nat]
  BY <1>1 DEF R
<1>7. Covers(P, R, f, k, gap, equal_size, N)
  BY <1>4, <1>5, <1>6, FirstStates
<1>. HIDE DEF P, N
<1>8. MergesFrom(P, N, pool)
  BY <1>4, MergesExist
<1>. HIDE DEF pool
<1>9. Covers(pool[N], R, f, k, gap, equal_size, 1)
  BY <1>4, <1>5, <1>6, <1>7, <1>8, MergesCover
<1>10. Sound(final, R, f, k, gap, equal_size) /\ RowsOf(R, final) = R
  BY <1>5, <1>6, <1>9, LastState
<1>. HIDE DEF final
<1>11. Fair(parts, R, f, k, gap, equal_size)
  BY <1>5, <1>6, <1>10, SoundFair
<1>. QED BY <1>3, <1>11 DEF R

\* Lists of the same length lie at multiples of it.
LEMMA EqualOffsets ==
  ASSUME NEW S, NEW ss \in Seq(Seq(S)), NEW c \in Nat, \A j \in 1 .. Len(ss) : Len(ss[j]) = c,
         NEW o, Offsets(ss, o)
  PROVE  \A j \in 0 .. Len(ss) : o[j] = c * j
<1>. DEFINE T == {j \in 0 .. Len(ss) : o[j] = c * j}
<1>1. /\ Len(ss) \in Nat /\ o[0] = 0
      /\ \A k \in 1 .. Len(ss) : o[k] = o[k - 1] + Len(ss[k]) /\ o[k - 1] \in Nat /\ o[k] \in Nat
  BY OffsetTypes
<1>2. 0 \in T
  <2>1. c * 0 = 0 /\ 0 \in 0 .. Len(ss)
    BY <1>1
  <2>. QED BY <1>1, <2>1
<1>3. ASSUME NEW k \in 1 .. Len(ss), k - 1 \in T PROVE k \in T
  <2>1. o[k] = o[k - 1] + c /\ k \in 0 .. Len(ss)
    BY <1>1
  <2>2. o[k - 1] = c * (k - 1)
    BY <1>3
  <2>3. c * (k - 1) + c = c * k
    BY <1>1
  <2>4. o[k] = c * k
    BY <2>1, <2>2, <2>3
  <2>. QED BY <2>1, <2>4
<1>4. \A k \in 0 .. Len(ss) : k \in T
  <2>. HIDE DEF T
  <2>. QED BY <1>1, <1>2, <1>3, InductTo
<1>. QED BY <1>4

\* ... and flatten to as many times that length.
LEMMA EqualLength ==
  ASSUME NEW S, NEW ss \in Seq(Seq(S)), NEW c \in Nat, \A j \in 1 .. Len(ss) : Len(ss[j]) = c
  PROVE  Len(FlattenSeq(ss)) = c * Len(ss)
<1>1. PICK o : Offsets(ss, o) /\ Located(ss, FlattenSeq(ss), o)
  BY FlattenLocated
<1>2. \A j \in 0 .. Len(ss) : o[j] = c * j
  BY <1>1, EqualOffsets
<1>3. Len(ss) \in 0 .. Len(ss)
  OBVIOUS
<1>. QED BY <1>1, <1>2, <1>3 DEF Located

\* How many rows there are is what the lists have together.
LEMMA SharesLength ==
  ASSUME NEW n \in Nat, NEW ss, Shares(ss, 1 .. n)
  PROVE  Len(FlattenSeq(ss)) = n
<1>1. Once(FlattenSeq(ss), 1 .. n)
  BY FlattenShares
<1>2. Len(FlattenSeq(ss)) = Cardinality(1 .. n)
  BY <1>1, OnceCount
<1>. QED BY <1>2, CountUpTo

EvenlyFair(ss, n, f, k, gap) == Fair(ss, 1 .. n, f, k, gap, TRUE)

\* Equal partitions of n rows have n / k each.
LEMMA FairSizes ==
  ASSUME NEW n \in Nat, NEW k \in Nat \ {0}, NEW f, NEW gap \in Nat, NEW ss, EvenlyFair(ss, n, f, k, gap)
  PROVE  \A j \in 1 .. k : Len(ss[j]) = n \div k
<1>1. Shares(ss, 1 .. n) /\ Len(ss) = k /\ \A i, j \in 1 .. k : Len(ss[i]) = Len(ss[j])
  BY DEF Fair, EvenlyFair
<1>2. ss \in Seq(Seq(1 .. n))
  BY <1>1 DEF Shares
<1>3. PICK c \in Nat : \A j \in 1 .. k : Len(ss[j]) = c
  <2>1. 1 \in 1 .. k
    OBVIOUS
  <2>2. Len(ss[1]) \in Nat
    BY <1>1, <1>2, <2>1
  <2>. QED BY <1>1, <2>1, <2>2
<1>4. Len(FlattenSeq(ss)) = c * k
  BY <1>1, <1>2, <1>3, EqualLength
<1>5. n = c * k
  BY <1>1, <1>4, SharesLength
<1>6. n \div k = c
  BY <1>5
<1>. QED BY <1>3, <1>6

\* No partition is empty if there are rows for all.
LEMMA FairNoneEmpty ==
  ASSUME NEW n \in Nat, NEW k \in Nat \ {0}, k <= n, NEW f, NEW gap \in Nat,
         NEW ss, Fair(ss, 1 .. n, f, k, gap, FALSE)
  PROVE  \A j \in 1 .. k : ss[j] # <<>>
<1>1. Shares(ss, 1 .. n) /\ Len(ss) = k /\ \A i, j \in 1 .. k : ss[i] = <<>> => Len(ss[j]) <= 1
  BY DEF Fair
<1>2. ss \in Seq(Seq(1 .. n))
  BY <1>1 DEF Shares
<1>3. ASSUME NEW e \in 1 .. k, ss[e] = <<>> PROVE FALSE
  <2>1. PICK o : Offsets(ss, o) /\ Located(ss, FlattenSeq(ss), o)
    BY <1>2, FlattenLocated
  <2>2. /\ o[0] = 0
        /\ \A j \in 1 .. k : o[j] = o[j - 1] + Len(ss[j]) /\ o[j - 1] \in Nat /\ o[j] \in Nat /\ Len(ss[j]) \in Nat
    <3>1. /\ o[0] = 0
          /\ \A j \in 1 .. Len(ss) : o[j] = o[j - 1] + Len(ss[j]) /\ o[j - 1] \in Nat /\ o[j] \in Nat /\ Len(ss[j]) \in Nat
      BY <1>2, <2>1, OffsetTypes
    <3>. QED BY <1>1, <3>1
  <2>. DEFINE T == {j \in 0 .. k : o[j] <= j /\ (e <= j => o[j] <= j - 1)}
  <2>3. 0 \in T
    BY <2>2
  <2>4. ASSUME NEW j \in 1 .. k, j - 1 \in T PROVE j \in T
    <3>1. PICK a \in Nat, b \in Nat, l \in Nat : a = o[j - 1] /\ b = o[j] /\ l = Len(ss[j]) /\ b = a + l
      BY <2>2
    <3>2. l <= 1
      BY <1>1, <1>3, <3>1
    <3>3. e = j => l = 0
      BY <1>3, <3>1
    <3>4. a <= j - 1 /\ (e <= j - 1 => a <= j - 2)
      BY <2>4, <3>1
    <3>5. b <= j /\ (e <= j => b <= j - 1)
      BY <3>1, <3>2, <3>3, <3>4
    <3>6. o[j] <= j /\ (e <= j => o[j] <= j - 1)
      BY <3>1, <3>5
    <3>. QED BY <3>6
  <2>5. \A j \in 0 .. k : j \in T
    <3>. HIDE DEF T
    <3>. QED BY <2>3, <2>4, InductTo
  <2>6. o[k] <= k - 1
    BY <2>5
  <2>7. o[k] = n
    <3>1. Len(FlattenSeq(ss)) = n
      BY <1>1, SharesLength
    <3>. QED BY <1>1, <2>1, <3>1 DEF Located
  <2>. QED BY <2>6, <2>7
<1>. QED BY <1>3

\* Sorted by anything, the lists share the same rows and have the same sums.
LEMMA EachSorted ==
  ASSUME NEW R, Numbers(R), NEW ss, Shares(ss, R), NEW j \in 1 .. Len(ss), NEW key,
         \A i \in 1 .. Len(ss[j]) : key[i] \in Int
  PROVE  /\ SortBy(ss[j], key) \in Seq(R) /\ Len(SortBy(ss[j], key)) = Len(ss[j])
         /\ Once(ss[j], MembersOf(ss[j])) /\ Once(SortBy(ss[j], key), MembersOf(ss[j]))
<1>1. PICK l \in Seq(R) : l = ss[j]
  <2>1. ss \in Seq(Seq(R))
    BY DEF Shares
  <2>. QED BY <2>1
<1>2. Once(l, MembersOf(l)) /\ MembersOf(l) \subseteq R
  <2>1. \A i \in 1 .. Len(l) : l[i] \in MembersOf(l) /\ l[i] \in R
    BY DEF MembersOf
  <2>2. l \in [1 .. Len(l) -> MembersOf(l)] /\ Len(l) \in Nat
    BY <2>1
  <2>3. l \in Seq(MembersOf(l))
    BY <2>2, ListOf
  <2>4. \A x \in MembersOf(l) : \E i \in 1 .. Len(l) : l[i] = x
    BY DEF MembersOf
  <2>5. \A a, b \in 1 .. Len(ss) : \A c \in 1 .. Len(ss[a]) : \A d \in 1 .. Len(ss[b]) :
          ss[a][c] = ss[b][d] => a = b /\ c = d
    BY DEF Shares
  <2>6. \A c, d \in 1 .. Len(ss[j]) : ss[j][c] = ss[j][d] => c = d
    BY <2>5
  <2>7. \A c, d \in 1 .. Len(l) : l[c] = l[d] => c = d
    BY <1>1, <2>6
  <2>8. MembersOf(l) \subseteq R
    BY <2>1 DEF MembersOf
  <2>. QED BY <2>3, <2>4, <2>7, <2>8 DEF Once
<1>3. Once(SortBy(l, key), MembersOf(l)) /\ Len(SortBy(l, key)) = Len(l)
  <2>1. \A i \in 1 .. Len(l) : key[i] \in Int
    BY <1>1
  <2>. QED BY <1>2, <2>1, SortByOnce
<1>4. SortBy(l, key) \in Seq(R)
  <2>1. SortBy(l, key) \in Seq(MembersOf(l))
    BY <1>3 DEF Once
  <2>. QED BY <1>2, <2>1
<1>. QED BY <1>1, <1>2, <1>3, <1>4

\* Lists of the same rows, each in its own order.
Alike(ss, tt, R) ==
  /\ Len(tt) = Len(ss)
  /\ \A j \in 1 .. Len(ss) : /\ tt[j] \in Seq(R) /\ Len(tt[j]) = Len(ss[j])
                             /\ Once(ss[j], MembersOf(ss[j])) /\ Once(tt[j], MembersOf(ss[j]))

\* Lists with the same rows in another order share out the same set.
LEMMA AlikeShares ==
  ASSUME NEW R, NEW ss, Shares(ss, R), NEW tt \in Seq(Seq(R)), Alike(ss, tt, R)
  PROVE  Shares(tt, R)
<1>1. Len(tt) = Len(ss) /\ \A j \in 1 .. Len(ss) : Once(tt[j], MembersOf(ss[j]))
  BY DEF Alike
<1>2. ASSUME NEW j \in 1 .. Len(ss)
      PROVE  /\ \A i \in 1 .. Len(tt[j]) : \E m \in 1 .. Len(ss[j]) : tt[j][i] = ss[j][m]
             /\ \A m \in 1 .. Len(ss[j]) : \E i \in 1 .. Len(tt[j]) : tt[j][i] = ss[j][m]
             /\ \A i, m \in 1 .. Len(tt[j]) : tt[j][i] = tt[j][m] => i = m
  <2>1. Once(tt[j], MembersOf(ss[j]))
    BY <1>1
  <2>2. tt[j] \in Seq(MembersOf(ss[j]))
    BY <2>1 DEF Once
  <2>3. \A i \in 1 .. Len(tt[j]) : tt[j][i] \in MembersOf(ss[j])
    BY <2>2
  <2>4. \A i \in 1 .. Len(tt[j]) : \E m \in 1 .. Len(ss[j]) : tt[j][i] = ss[j][m]
    BY <2>3 DEF MembersOf
  <2>5. \A m \in 1 .. Len(ss[j]) : ss[j][m] \in MembersOf(ss[j])
    BY DEF MembersOf
  <2>. QED BY <2>1, <2>4, <2>5 DEF Once
<1>3. \A a, b \in 1 .. Len(ss) : \A c \in 1 .. Len(ss[a]) : \A d \in 1 .. Len(ss[b]) :
        ss[a][c] = ss[b][d] => a = b /\ c = d
  BY DEF Shares
<1>4. ASSUME NEW x \in R PROVE \E j \in 1 .. Len(tt) : \E i \in 1 .. Len(tt[j]) : tt[j][i] = x
  <2>1. PICK j \in 1 .. Len(ss) : \E m \in 1 .. Len(ss[j]) : ss[j][m] = x
    BY DEF Shares
  <2>2. PICK m \in 1 .. Len(ss[j]) : ss[j][m] = x
    BY <2>1
  <2>3. \A l \in 1 .. Len(ss[j]) : \E i \in 1 .. Len(tt[j]) : tt[j][i] = ss[j][l]
    BY <1>2
  <2>4. PICK i \in 1 .. Len(tt[j]) : tt[j][i] = ss[j][m]
    BY <2>3
  <2>. QED BY <1>1, <2>2, <2>4
<1>5. ASSUME NEW a \in 1 .. Len(tt), NEW b \in 1 .. Len(tt), NEW c \in 1 .. Len(tt[a]), NEW d \in 1 .. Len(tt[b]),
             tt[a][c] = tt[b][d]
      PROVE  a = b /\ c = d
  <2>1. a \in 1 .. Len(ss) /\ b \in 1 .. Len(ss)
    BY <1>1
  <2>2. /\ \A i \in 1 .. Len(tt[a]) : \E m \in 1 .. Len(ss[a]) : tt[a][i] = ss[a][m]
        /\ \A i \in 1 .. Len(tt[b]) : \E m \in 1 .. Len(ss[b]) : tt[b][i] = ss[b][m]
    BY <1>2, <2>1, Zenon
  <2>3. PICK u \in 1 .. Len(ss[a]) : tt[a][c] = ss[a][u]
    BY <2>2
  <2>4. PICK v \in 1 .. Len(ss[b]) : tt[b][d] = ss[b][v]
    BY <2>2
  <2>5. ss[a][u] = ss[b][v]
    BY <1>5, <2>3, <2>4
  <2>6. a = b
    BY <1>3, <2>1, <2>5, Zenon
  <2>. QED BY <1>2, <1>5, <2>1, <2>6
<1>. QED BY <1>4, <1>5 DEF Shares

Within(S, R) == \A x \in S : x \in R

\* Lists of the same rows have the same sum.
LEMMA SumsAgree ==
  ASSUME NEW R, NEW f \in [R -> Nat], NEW S, Within(S, R), NEW a, NEW b, Once(a, S), Once(b, S)
  PROVE  SumOf(f, a) = SumOf(f, b)
<1>1. S \subseteq R
  BY DEF Within
<1>. QED BY <1>1, SumPermuted

\* Partitions stay fair whatever the order of rows in each.
LEMMA AlikeFair ==
  ASSUME NEW R, NEW f \in [R -> Nat], NEW k \in Nat, NEW gap \in Nat, NEW equal_size \in BOOLEAN,
         NEW ss, Fair(ss, R, f, k, gap, equal_size), NEW tt \in Seq(Seq(R)), Alike(ss, tt, R)
  PROVE  Fair(tt, R, f, k, gap, equal_size)
<1>1. Shares(ss, R) /\ Len(ss) = k
  BY DEF Fair
<1>2. Len(tt) = k /\ \A j \in 1 .. k : /\ tt[j] \in Seq(R) /\ Len(tt[j]) = Len(ss[j])
                             /\ Once(ss[j], MembersOf(ss[j])) /\ Once(tt[j], MembersOf(ss[j]))
  BY <1>1 DEF Alike
<1>3. \A j \in 1 .. k : ss[j] \in Seq(R)
  <2>1. ss \in Seq(Seq(R))
    BY <1>1 DEF Shares
  <2>. QED BY <1>1, <2>1
<1>4. Shares(tt, R)
  BY <1>1, AlikeShares
<1>5. ASSUME NEW j \in 1 .. k PROVE SumOf(f, tt[j]) = SumOf(f, ss[j])
  <2>1. MembersOf(ss[j]) \subseteq R
    BY <1>3 DEF MembersOf
  <2>2. PICK V : V = MembersOf(ss[j])
    OBVIOUS
  <2>3. Within(V, R) /\ Once(tt[j], V) /\ Once(ss[j], V)
    BY <1>2, <2>1, <2>2 DEF Within
  <2>. QED BY <2>3, SumsAgree
<1>6. \A i, j \in 1 .. k : SumOf(f, tt[i]) <= SumOf(f, tt[j]) + gap
  BY <1>5 DEF Fair
<1>7. \A j \in 1 .. k : tt[j] = <<>> <=> ss[j] = <<>>
  <2>1. ASSUME NEW j \in 1 .. k PROVE tt[j] = <<>> <=> ss[j] = <<>>
    <3>1. PICK a \in Seq(R), b \in Seq(R) : a = ss[j] /\ b = tt[j]
      BY <1>2, <1>3
    <3>2. (a = <<>> <=> Len(a) = 0) /\ (b = <<>> <=> Len(b) = 0)
      OBVIOUS
    <3>3. Len(a) = Len(b)
      BY <1>2, <3>1
    <3>. QED BY <3>1, <3>2, <3>3
  <2>. QED BY <2>1
<1>8. \A i, j \in 1 .. k : IF equal_size THEN Len(tt[i]) = Len(tt[j]) ELSE tt[i] = <<>> => Len(tt[j]) <= 1
  BY <1>2, <1>7 DEF Fair
<1>9. \E j \in 1 .. k : tt[j] # <<>>
  BY <1>7 DEF Fair
<1>. QED BY <1>2, <1>4, <1>6, <1>8, <1>9 DEF Fair

\* get_seqlen_balanced_partitions: each partition sorted, as fair as before.
LEMMA BalancedFair ==
  ASSUME NEW n \in Nat \ {0}, NEW f, NEW low \in Nat, NEW high \in Nat, Between(f, n, low, high),
         NEW k \in Nat \ {0}, NEW equal_size \in BOOLEAN, equal_size => n % k = 0,
         NEW gap \in Nat, gap = IF equal_size THEN high - low ELSE high
  PROVE  Fair(BalancedPartitions(f, k, equal_size), 1 .. n, f, k, gap, equal_size)
<1>1. PICK parts : parts = KarmarkarKarp(f, k, equal_size)
  OBVIOUS
<1>2. PICK R : R = 1 .. n
  OBVIOUS
<1>3. Fair(parts, R, f, k, gap, equal_size)
  BY <1>1, <1>2, KarmarkarKarpFair
<1>4. f \in [R -> Nat] /\ Numbers(R)
  BY <1>2 DEF Between, Numbers
<1>5. Shares(parts, R) /\ Len(parts) = k
  BY <1>3 DEF Fair
<1>6. \A j \in 1 .. k : parts[j] \in Seq(R)
  <2>1. parts \in Seq(Seq(R))
    BY <1>5 DEF Shares
  <2>. QED BY <1>5, <2>1
<1>7. ASSUME NEW j \in 1 .. k
      PROVE  /\ SortBy(parts[j], parts[j]) \in Seq(R) /\ Len(SortBy(parts[j], parts[j])) = Len(parts[j])
             /\ Once(parts[j], MembersOf(parts[j])) /\ Once(SortBy(parts[j], parts[j]), MembersOf(parts[j]))
  <2>1. \A i \in 1 .. Len(parts[j]) : parts[j][i] \in Int
    <3>1. PICK l \in Seq(R) : l = parts[j]
      BY <1>6
    <3>2. \A i \in 1 .. Len(l) : l[i] \in R
      OBVIOUS
    <3>. QED BY <1>4, <3>1, <3>2 DEF Numbers
  <2>2. j \in 1 .. Len(parts)
    BY <1>5
  <2>. QED BY <1>4, <1>5, <2>1, <2>2, EachSorted
<1>8. PICK tt : tt = [j \in 1 .. k |-> SortBy(parts[j], parts[j])]
  OBVIOUS
<1>9. tt \in Seq(Seq(R)) /\ Len(tt) = k /\ \A j \in 1 .. k : tt[j] = SortBy(parts[j], parts[j])
  <2>1. tt \in [1 .. k -> Seq(R)]
    BY <1>7, <1>8
  <2>. QED BY <1>8, <2>1, ListOf
<1>10. Alike(parts, tt, R)
  BY <1>5, <1>7, <1>9 DEF Alike
<1>11. Fair(tt, R, f, k, gap, equal_size)
  <2>1. f \in [R -> Nat] /\ k \in Nat /\ tt \in Seq(Seq(R))
    BY <1>4, <1>9
  <2>. QED BY <1>3, <1>10, <2>1, AlikeFair, ZenonT(40)
<1>12. BalancedPartitions(f, k, equal_size) = tt
  BY <1>1, <1>8, Zenon DEF BalancedPartitions, With
<1>. QED BY <1>2, <1>11, <1>12

(***************************************************************************)
(* Groups of rows with the same uid.                                       *)
(***************************************************************************)
LEMMA CeilDivUnique ==
  ASSUME NEW a \in Nat, NEW b \in Nat \ {0}, NEW q \in Nat, a <= b * q, b * q < a + b
  PROVE  CeilDiv(a, b) = q
<1>1. CeilDiv(a, b) \in Nat /\ a <= b * CeilDiv(a, b) /\ b * CeilDiv(a, b) < a + b
  BY CeilDivIs
<1>2. PICK c \in Nat : c = CeilDiv(a, b) /\ a <= b * c /\ b * c < a + b
  BY <1>1
<1>3. b * c < b * q + b /\ b * q < b * c + b
  BY <1>2
<1>4. c < q + 1
  <2>1. CASE c >= q + 1
    <3>1. b * c >= b * (q + 1)
      BY <2>1
    <3>2. b * (q + 1) = b * q + b
      OBVIOUS
    <3>. QED BY <1>3, <3>1, <3>2
  <2>. QED BY <2>1
<1>5. q < c + 1
  <2>1. CASE q >= c + 1
    <3>1. b * q >= b * (c + 1)
      BY <2>1
    <3>2. b * (c + 1) = b * c + b
      OBVIOUS
    <3>. QED BY <1>3, <3>1, <3>2
  <2>. QED BY <2>1
<1>. QED BY <1>2, <1>4, <1>5

\* Which group the row after j others is in, and how many of its group come before it.
LEMMA DivIs ==
  ASSUME NEW j \in Nat, NEW b \in Nat \ {0}
  PROVE  \E q \in Nat, r \in Nat : j = b * q + r /\ r < b /\ j \div b = q
<1>1. PICK q \in Nat : q = j \div b
  OBVIOUS
<1>2. b * q <= j /\ j < b * q + b
  BY <1>1
<1>3. PICK r \in Nat : r = j - b * q
  BY <1>2
<1>4. j = b * q + r /\ r < b
  BY <1>2, <1>3
<1>. QED BY <1>1, <1>4

\* Division by b, of a multiple of it and a rest.
LEMMA DivUnique ==
  ASSUME NEW b \in Nat \ {0}, NEW q \in Nat, NEW r \in Nat, r < b
  PROVE  (b * q + r) \div b = q
<1>1. PICK j \in Nat : j = b * q + r
  OBVIOUS
<1>2. PICK p \in Nat, s \in Nat : j = b * p + s /\ s < b /\ j \div b = p
  BY DivIs
<1>3. b * q + r = b * p + s
  BY <1>1, <1>2
<1>4. ~(p > q)
  <2>1. CASE p >= q + 1
    <3>1. b * p >= b * (q + 1)
      BY <2>1
    <3>2. b * (q + 1) = b * q + b
      OBVIOUS
    <3>. QED BY <1>2, <1>3, <3>1, <3>2
  <2>. QED BY <2>1
<1>5. ~(q > p)
  <2>1. CASE q >= p + 1
    <3>1. b * q >= b * (p + 1)
      BY <2>1
    <3>2. b * (p + 1) = b * p + b
      OBVIOUS
    <3>. QED BY <1>2, <1>3, <3>1, <3>2
  <2>. QED BY <2>1
<1>. QED BY <1>1, <1>2, <1>4, <1>5

\* The rows 1 to n, g after g of the same uid.
Uids(n, g) == [i \in 1 .. n |-> (i - 1) \div g]

Counting(n) == [i \in 1 .. n |-> i]

\* A row begins a group, or goes on with it.
LEMMA GroupBegins ==
  ASSUME NEW n \in Nat, NEW g \in Nat \ {0}, NEW j \in 1 .. n,
         NEW d, d = IF j = 1 \/ Uids(n, g)[j] # Uids(n, g)[j - 1] THEN 1 ELSE 0
  PROVE  CeilDiv(j, g) = CeilDiv(j - 1, g) + d
<1>1. PICK i \in Nat, q \in Nat, r \in Nat : i = j - 1 /\ i = g * q + r /\ r < g /\ i \div g = q
  <2>1. PICK i \in Nat : i = j - 1
    OBVIOUS
  <2>2. \E q \in Nat, r \in Nat : i = g * q + r /\ r < g /\ i \div g = q
    BY DivIs
  <2>. QED BY <2>1, <2>2
<1>2. CeilDiv(j, g) = q + 1
  <2>1. g * (q + 1) = g * q + g
    OBVIOUS
  <2>2. j <= g * (q + 1) /\ g * (q + 1) < j + g
    BY <1>1, <2>1
  <2>3. j \in Nat /\ q + 1 \in Nat
    OBVIOUS
  <2>. QED BY <2>2, <2>3, CeilDivUnique
<1>3. r = 0 => CeilDiv(i, g) = q /\ d = 1
  <2>1. ASSUME r = 0 PROVE CeilDiv(i, g) = q
    BY <1>1, <2>1, CeilDivUnique
  <2>2. ASSUME r = 0, j # 1 PROVE Uids(n, g)[j] # Uids(n, g)[j - 1]
    <3>1. PICK h \in Nat : h = i - 1 /\ j - 1 \in 1 .. n
      BY <1>1, <2>2
    <3>2. q # 0
      <4>1. CASE q = 0
        <5>1. i = 0
          BY <1>1, <2>2, <4>1
        <5>. QED BY <1>1, <2>2, <5>1
      <4>. QED BY <4>1
    <3>3. PICK p \in Nat : p = q - 1
      BY <3>2
    <3>4. h = g * p + (g - 1)
      <4>1. g * q = g * p + g
        BY <3>3
      <4>. QED BY <1>1, <2>2, <3>1, <4>1
    <3>5. h \div g = p
      <4>1. PICK s \in Nat : s = g - 1 /\ s < g
        OBVIOUS
      <4>2. (g * p + s) \div g = p
        BY <4>1, DivUnique
      <4>. QED BY <3>4, <4>1, <4>2
    <3>6. Uids(n, g)[j] = q
      BY <1>1 DEF Uids
    <3>7. Uids(n, g)[j - 1] = p
      <4>1. PICK m \in 1 .. n : m = j - 1 /\ m - 1 = h
        BY <1>1, <3>1
      <4>2. Uids(n, g)[m] = (m - 1) \div g
        BY DEF Uids
      <4>. QED BY <3>5, <4>1, <4>2
    <3>. QED BY <3>3, <3>6, <3>7
  <2>. QED BY <2>1, <2>2
<1>4. r # 0 => CeilDiv(i, g) = q + 1 /\ d = 0
  <2>1. ASSUME r # 0 PROVE CeilDiv(i, g) = q + 1
    <3>1. g * (q + 1) = g * q + g
      OBVIOUS
    <3>2. i <= g * (q + 1) /\ g * (q + 1) < i + g
      BY <1>1, <2>1, <3>1
    <3>3. q + 1 \in Nat
      OBVIOUS
    <3>. QED BY <3>2, <3>3, CeilDivUnique
  <2>2. ASSUME r # 0 PROVE j # 1 /\ Uids(n, g)[j] = Uids(n, g)[j - 1]
    <3>1. i # 0
      <4>1. g * q \in Nat
        OBVIOUS
      <4>. QED BY <1>1, <2>2, <4>1
    <3>2. PICK m \in 1 .. n, h \in Nat, s \in Nat : m = j - 1 /\ h = m - 1 /\ s = r - 1
      BY <1>1, <2>2, <3>1
    <3>3. h = g * q + s /\ s < g
      BY <1>1, <2>2, <3>2
    <3>4. h \div g = q
      BY <3>3, DivUnique
    <3>5. Uids(n, g)[m] = q
      BY <3>2, <3>4 DEF Uids
    <3>6. Uids(n, g)[j] = q
      BY <1>1 DEF Uids
    <3>7. j # 1
      BY <1>1, <3>1
    <3>. QED BY <3>2, <3>5, <3>6, <3>7
  <2>. QED BY <2>1, <2>2
<1>. QED BY <1>1, <1>2, <1>3, <1>4

\* The list of the rows.
LEMMA CountingFacts ==
  ASSUME NEW n \in Nat
  PROVE  /\ Counting(n) \in Seq(1 .. n) /\ Len(Counting(n)) = n /\ DOMAIN Counting(n) = 1 .. n
         /\ \A i \in 1 .. n : Counting(n)[i] = i
         /\ Once(Counting(n), 1 .. n)
<1>1. PICK c : c = Counting(n)
  OBVIOUS
<1>2. c = [i \in 1 .. n |-> i]
  BY <1>1 DEF Counting
<1>3. c \in Seq(1 .. n) /\ Len(c) = n /\ DOMAIN c = 1 .. n
  <2>1. c \in [1 .. n -> 1 .. n]
    BY <1>2
  <2>. QED BY <2>1, ListOf
<1>4. \A i \in 1 .. n : c[i] = i
  BY <1>2
<1>5. Once(c, 1 .. n)
  BY <1>3, <1>4 DEF Once
<1>. QED BY <1>1, <1>3, <1>4, <1>5

\* Where the groups of g rows start.
Firsts(n, g) == {i \in 1 .. n : i = 1 \/ Uids(n, g)[i] # Uids(n, g)[i - 1]}

\* Every g rows a group starts.
LEMMA StartsAre ==
  ASSUME NEW n \in Nat \ {0}, NEW g \in Nat \ {0}, n % g = 0,
         NEW starts, starts = Those(Counting(n), Firsts(n, g))
  PROVE  Len(starts) = n \div g /\ \A h \in 1 .. n \div g : starts[h] = g * (h - 1) + 1
<1>. DEFINE pos == Firsts(n, g)
            ss == [m \in DOMAIN Counting(n) |-> IF m \in pos THEN <<Counting(n)[m]>> ELSE <<>>]
            o == [j \in 0 .. n |-> CeilDiv(j, g)]
<1>1. starts = FlattenSeq(ss)
  BY Zenon DEF Those
<1>2. /\ DOMAIN Counting(n) = 1 .. n /\ \A i \in 1 .. n : Counting(n)[i] = i
  BY CountingFacts
<1>3. ASSUME NEW j \in 1 .. n
      PROVE  /\ j \in pos => ss[j] = <<j>>
             /\ j \notin pos => ss[j] = <<>>
  BY <1>2
<1>4. ss = [j \in 1 .. n |-> ss[j]]
  BY <1>2
<1>5. \A j \in 1 .. n : j \in pos <=> (j = 1 \/ Uids(n, g)[j] # Uids(n, g)[j - 1])
  BY DEF Firsts
<1>. HIDE DEF ss, pos
<1>6. ASSUME NEW j \in 1 .. n
      PROVE  ss[j] \in Seq(1 .. n) /\ Len(ss[j]) = IF j = 1 \/ Uids(n, g)[j] # Uids(n, g)[j - 1] THEN 1 ELSE 0
  <2>1. CASE j \in pos
    <3>1. <<j>> \in Seq(1 .. n) /\ Len(<<j>>) = 1
      OBVIOUS
    <3>. QED BY <1>3, <1>5, <2>1, <3>1
  <2>2. CASE j \notin pos
    <3>1. <<>> \in Seq(1 .. n) /\ Len(<<>>) = 0
      OBVIOUS
    <3>. QED BY <1>3, <1>5, <2>2, <3>1
  <2>. QED BY <2>1, <2>2
<1>7. ss \in Seq(Seq(1 .. n)) /\ Len(ss) = n
  <2>1. ss \in [1 .. n -> Seq(1 .. n)]
    BY <1>4, <1>6
  <2>. QED BY <2>1, ListOf
<1>8. \A j \in 0 .. n : o[j] = CeilDiv(j, g) /\ o[j] \in Nat
  <2>1. \A j \in 0 .. n : CeilDiv(j, g) \in Nat
    <3>1. ASSUME NEW j \in 0 .. n PROVE CeilDiv(j, g) \in Nat
      <4>1. j \in Nat
        OBVIOUS
      <4>. QED BY <4>1, CeilDivIs
    <3>. QED BY <3>1
  <2>. QED BY <2>1
<1>9. o[0] = 0
  BY <1>8, CeilDivIs
<1>10. ASSUME NEW j \in 1 .. n PROVE o[j] = o[j - 1] + Len(ss[j])
  <2>1. PICK i \in 0 .. n : i = j - 1 /\ j \in 0 .. n
    OBVIOUS
  <2>2. PICK d : d = IF j = 1 \/ Uids(n, g)[j] # Uids(n, g)[j - 1] THEN 1 ELSE 0
    OBVIOUS
  <2>3. CeilDiv(j, g) = CeilDiv(j - 1, g) + d
    BY <2>2, GroupBegins
  <2>4. d = Len(ss[j])
    BY <1>6, <2>2
  <2>5. o[i] = CeilDiv(i, g) /\ o[j] = CeilDiv(j, g)
    BY <1>8, <2>1
  <2>. QED BY <2>1, <2>3, <2>4, <2>5
<1>11. Offsets(ss, o)
  <2>1. o \in [0 .. n -> Nat]
    BY <1>8
  <2>. HIDE DEF o
  <2>. QED BY <1>7, <1>9, <1>10, <2>1 DEF Offsets
<1>12. Located(ss, starts, o)
  BY <1>1, <1>7, <1>11, FlattenAt
<1>13. PICK N \in Nat : N = n \div g /\ n = g * N /\ CeilDiv(n, g) = N
  BY ExactDiv
<1>14. Len(starts) = N
  BY <1>7, <1>8, <1>12, <1>13 DEF Located
<1>15. ASSUME NEW h \in 1 .. N PROVE starts[h] = g * (h - 1) + 1
  <2>1. PICK i \in Nat, p \in Nat : p = h - 1 /\ i = g * p
    OBVIOUS
  <2>2. i + 1 \in 1 .. n
    <3>1. g * h <= g * N
      OBVIOUS
    <3>2. g * h = g * p + g
      BY <2>1
    <3>. QED BY <1>13, <2>1, <3>1, <3>2
  <2>3. CeilDiv(i, g) = p
    BY <2>1, CeilDivUnique
  <2>4. CeilDiv(i + 1, g) = h
    <3>1. g * h = g * p + g
      BY <2>1
    <3>2. i + 1 <= g * h /\ g * h < i + 1 + g /\ i + 1 \in Nat /\ h \in Nat
      BY <2>1, <3>1
    <3>. QED BY <3>2, CeilDivUnique
  <2>5. PICK j \in 1 .. n, l \in 0 .. n : j = i + 1 /\ l = i /\ l = j - 1
    BY <2>2
  <2>6. o[l] = p /\ o[j] = h
    BY <1>8, <2>3, <2>4, <2>5
  <2>7. Len(ss[j]) = 1
    <3>1. o[j] = o[l] + Len(ss[j])
      BY <1>10, <2>5
    <3>2. PICK m \in Nat : m = Len(ss[j])
      <4>1. PICK e \in Seq(1 .. n) : e = ss[j]
        BY <1>6
      <4>2. Len(e) \in Nat
        OBVIOUS
      <4>. QED BY <4>1, <4>2
    <3>3. h = p + m
      BY <2>6, <3>1, <3>2
    <3>4. m = 1
      BY <2>1, <3>3
    <3>. QED BY <3>2, <3>4
  <2>8. ss[j] = <<j>>
    <3>1. CASE j \notin pos
      <4>1. Len(<<>>) = 0
        OBVIOUS
      <4>. QED BY <1>3, <2>7, <3>1, <4>1
    <3>. QED BY <1>3, <3>1
  <2>9. starts[o[j - 1] + 1] = ss[j][1]
    <3>1. \A k \in 1 .. Len(ss) : \A m \in 1 .. Len(ss[k]) : starts[o[k - 1] + m] = ss[k][m]
      BY <1>12 DEF Located
    <3>2. 1 \in 1 .. Len(ss[j]) /\ j \in 1 .. Len(ss)
      BY <1>7, <2>7
    <3>. QED BY <3>1, <3>2
  <2>10. o[j - 1] + 1 = h
    BY <2>1, <2>5, <2>6
  <2>11. starts[h] = j
    BY <2>8, <2>9, <2>10
  <2>. QED BY <2>1, <2>5, <2>11
<1>. QED BY <1>13, <1>14, <1>15

\* So the groups are the pieces of g rows.
LEMMA GroupsAre ==
  ASSUME NEW n \in Nat \ {0}, NEW g \in Nat \ {0}, n % g = 0
  PROVE  Groups(Uids(n, g)) = Slices(Counting(n), g)
<1>. DEFINE u == Uids(n, g)
            rows == [i \in DOMAIN u |-> i]
            starts == Those(rows, {i \in DOMAIN u : i = 1 \/ u[i] # u[i - 1]})
            gg == [h \in DOMAIN starts |->
                     SubSeq(rows, starts[h], IF h < Len(starts) THEN starts[h + 1] - 1 ELSE Len(rows))]
            cc == [h \in 1 .. CeilDiv(Len(Counting(n)), g) |->
                     SubSeq(Counting(n), g * (h - 1) + 1,
                            IF g * h < Len(Counting(n)) THEN g * h ELSE Len(Counting(n)))]
<1>1. DOMAIN u = 1 .. n
  BY DEF Uids
<1>2. rows = Counting(n)
  BY <1>1 DEF Counting
<1>3. Groups(u) = gg
  BY Zenon DEF Groups
<1>4. Slices(Counting(n), g) = cc
  BY Zenon DEF Slices
<1>5. Len(starts) = n \div g /\ \A h \in 1 .. n \div g : starts[h] = g * (h - 1) + 1
  <2>1. starts = Those(Counting(n), Firsts(n, g))
    BY <1>1, <1>2 DEF Firsts
  <2>. HIDE DEF starts
  <2>. QED BY <2>1, StartsAre
<1>6. PICK N \in Nat : N = n \div g /\ n = g * N /\ CeilDiv(n, g) = N
  BY ExactDiv
<1>7. DOMAIN starts = 1 .. N
  <2>1. starts \in Seq(1 .. n)
    <3>1. starts = FlattenSeq([m \in DOMAIN Counting(n) |->
                     IF m \in {i \in DOMAIN u : i = 1 \/ u[i] # u[i - 1]} THEN <<Counting(n)[m]>> ELSE <<>>])
      BY <1>2, Zenon DEF Those
    <3>. DEFINE ss == [m \in DOMAIN Counting(n) |->
                     IF m \in {i \in DOMAIN u : i = 1 \/ u[i] # u[i - 1]} THEN <<Counting(n)[m]>> ELSE <<>>]
    <3>2. DOMAIN Counting(n) = 1 .. n /\ \A m \in 1 .. n : Counting(n)[m] = m
      BY CountingFacts
    <3>3. \A m \in 1 .. n : <<m>> \in Seq(1 .. n) /\ <<>> \in Seq(1 .. n)
      OBVIOUS
    <3>4. ss \in [1 .. n -> Seq(1 .. n)]
      BY <3>2, <3>3
    <3>. HIDE DEF ss
    <3>5. ss \in Seq(Seq(1 .. n))
      BY <3>4, ListOf
    <3>. QED BY <3>1, <3>5, FlattenLocated DEF ss
  <2>. HIDE DEF starts
  <2>2. DOMAIN starts = 1 .. Len(starts)
    BY <2>1
  <2>. QED BY <1>5, <1>6, <2>2
<1>8. Len(rows) = n /\ Len(Counting(n)) = n
  BY <1>2, CountingFacts
<1>. HIDE DEF starts, rows
<1>9. ASSUME NEW h \in 1 .. N PROVE gg[h] = cc[h]
  <2>1. gg[h] = SubSeq(rows, starts[h], IF h < Len(starts) THEN starts[h + 1] - 1 ELSE Len(rows))
    BY <1>7
  <2>2. cc[h] = SubSeq(Counting(n), g * (h - 1) + 1,
                       IF g * h < Len(Counting(n)) THEN g * h ELSE Len(Counting(n)))
    BY <1>6, <1>8
  <2>3. starts[h] = g * (h - 1) + 1
    BY <1>5, <1>6
  <2>4. (IF h < Len(starts) THEN starts[h + 1] - 1 ELSE Len(rows))
        = (IF g * h < Len(Counting(n)) THEN g * h ELSE Len(Counting(n)))
    <3>1. CASE h < N
      <4>1. PICK i \in 1 .. N : i = h + 1
        BY <3>1
      <4>2. starts[i] = g * (i - 1) + 1
        BY <1>5, <1>6
      <4>3. i - 1 = h
        BY <4>1
      <4>4. starts[i] - 1 = g * h
        BY <4>2, <4>3
      <4>5. g * h < n
        <5>1. g * (h + 1) <= g * N
          BY <3>1
        <5>2. g * (h + 1) = g * h + g
          OBVIOUS
        <5>. QED BY <1>6, <5>1, <5>2
      <4>. QED BY <1>5, <1>6, <1>8, <3>1, <4>1, <4>4, <4>5
    <3>2. CASE h = N
      <4>1. ~(h < Len(starts)) /\ ~(g * h < n)
        BY <1>5, <1>6, <3>2
      <4>. QED BY <1>8, <4>1
    <3>. QED BY <3>1, <3>2
  <2>. QED BY <1>2, <2>1, <2>2, <2>3, <2>4
<1>10. gg = cc
  <2>1. DOMAIN gg = 1 .. N /\ DOMAIN cc = 1 .. N
    BY <1>6, <1>7, <1>8
  <2>2. gg = [h \in 1 .. N |-> gg[h]]
    BY <2>1
  <2>3. cc = [h \in 1 .. N |-> cc[h]]
    BY <2>1
  <2>. HIDE DEF gg, cc
  <2>. QED BY <1>9, <2>2, <2>3
<1>. QED BY <1>3, <1>4, <1>10

\* Lists of disjoint sets that have all rows share them out.
LEMMA OncesShare ==
  ASSUME NEW R, NEW rr \in Seq(Seq(R)), NEW V, \A j \in 1 .. Len(rr) : Once(rr[j], V[j]),
         \A x \in R : \E j \in 1 .. Len(rr) : x \in V[j],
         \A i, j \in 1 .. Len(rr) : i # j => V[i] \cap V[j] = {}
  PROVE  Shares(rr, R)
<1>1. ASSUME NEW j \in 1 .. Len(rr)
      PROVE  /\ \A i \in 1 .. Len(rr[j]) : rr[j][i] \in V[j]
             /\ \A x \in V[j] : \E i \in 1 .. Len(rr[j]) : rr[j][i] = x
             /\ \A i, m \in 1 .. Len(rr[j]) : rr[j][i] = rr[j][m] => i = m
  <2>1. Once(rr[j], V[j])
    OBVIOUS
  <2>2. rr[j] \in Seq(V[j])
    BY <2>1 DEF Once
  <2>3. \A i \in 1 .. Len(rr[j]) : rr[j][i] \in V[j]
    BY <2>2, ListFacts
  <2>. QED BY <2>1, <2>3 DEF Once
<1>2. ASSUME NEW x \in R PROVE \E j \in 1 .. Len(rr) : \E i \in 1 .. Len(rr[j]) : rr[j][i] = x
  <2>1. PICK j \in 1 .. Len(rr) : x \in V[j]
    OBVIOUS
  <2>2. \A y \in V[j] : \E i \in 1 .. Len(rr[j]) : rr[j][i] = y
    BY <1>1
  <2>. QED BY <2>1, <2>2
<1>3. ASSUME NEW a \in 1 .. Len(rr), NEW b \in 1 .. Len(rr), NEW c \in 1 .. Len(rr[a]), NEW d \in 1 .. Len(rr[b]),
             rr[a][c] = rr[b][d]
      PROVE  a = b /\ c = d
  <2>1. rr[a][c] \in V[a]
    BY <1>1
  <2>2. rr[b][d] \in V[b]
    BY <1>1
  <2>3. a = b
    BY <1>3, <2>1, <2>2
  <2>. QED BY <1>1, <1>3, <2>3
<1>. QED BY <1>2, <1>3 DEF Shares

\* The rows of some groups.
RowsIn(R, groups, part) ==
  {x \in R : \E m \in 1 .. Len(part) : \E i \in 1 .. Len(groups[part[m]]) : groups[part[m]][i] = x}

\* A list of some groups.
Taking(ss, groups, part) ==
  Len(ss) = Len(part) /\ \A m \in 1 .. Len(part) : ss[m] = groups[part[m]]

\* Groups taken once give their rows once.
LEMMA TakenOnce ==
  ASSUME NEW R, NEW groups, Shares(groups, R), NEW N \in Nat, Len(groups) = N,
         NEW part \in Seq(1 .. N), Distinct(part), NEW ss \in Seq(Seq(R)), Taking(ss, groups, part)
  PROVE  Once(FlattenSeq(ss), RowsIn(R, groups, part))
<1>. DEFINE V == RowsIn(R, groups, part)
<1>1. \A m \in 1 .. Len(part) : part[m] \in 1 .. Len(groups)
  OBVIOUS
<1>2. Len(part) \in Nat /\ Len(ss) = Len(part) /\ \A m \in 1 .. Len(part) : ss[m] = groups[part[m]] /\ ss[m] \in Seq(R)
  BY DEF Taking
<1>3. \A x \in V : \E m \in 1 .. Len(ss) : \E i \in 1 .. Len(ss[m]) : ss[m][i] = x
  <2>1. ASSUME NEW x \in V PROVE \E m \in 1 .. Len(ss) : \E i \in 1 .. Len(ss[m]) : ss[m][i] = x
    <3>1. \E m \in 1 .. Len(part) : \E i \in 1 .. Len(groups[part[m]]) : groups[part[m]][i] = x
      BY DEF RowsIn
    <3>2. PICK m \in 1 .. Len(part) : \E i \in 1 .. Len(groups[part[m]]) : groups[part[m]][i] = x
      BY <3>1
    <3>3. ss[m] = groups[part[m]] /\ m \in 1 .. Len(ss)
      BY <1>2
    <3>. QED BY <3>2, <3>3
  <2>. HIDE DEF V
  <2>. QED BY <2>1
<1>4. ASSUME NEW m \in 1 .. Len(part) PROVE ss[m] \in Seq(V)
  <2>1. PICK l \in Seq(R) : l = ss[m]
    BY <1>2
  <2>2. ASSUME NEW i \in 1 .. Len(l) PROVE l[i] \in V
    <3>1. l[i] \in R
      OBVIOUS
    <3>2. l = groups[part[m]]
      BY <1>2, <2>1
    <3>. QED BY <3>1, <3>2 DEF RowsIn
  <2>. HIDE DEF V
  <2>3. l \in [1 .. Len(l) -> V] /\ Len(l) \in Nat
    BY <2>2
  <2>4. l \in Seq(V)
    BY <2>3, ListOf
  <2>. QED BY <2>1, <2>4
<1>. HIDE DEF V
<1>5. ss \in Seq(Seq(V))
  <2>1. ss \in [1 .. Len(part) -> Seq(V)]
    <3>1. ss = [m \in 1 .. Len(part) |-> ss[m]]
      BY <1>2
    <3>. QED BY <1>4, <3>1
  <2>. QED BY <1>2, <2>1, ListOf
<1>6. ASSUME NEW a \in 1 .. Len(ss), NEW b \in 1 .. Len(ss), NEW c \in 1 .. Len(ss[a]), NEW d \in 1 .. Len(ss[b]),
             ss[a][c] = ss[b][d]
      PROVE  a = b /\ c = d
  <2>1. a \in 1 .. Len(part) /\ b \in 1 .. Len(part)
    BY <1>2
  <2>2. PICK g \in 1 .. Len(groups), h \in 1 .. Len(groups) : g = part[a] /\ h = part[b]
    BY <1>1, <2>1
  <2>3. ss[a] = groups[g] /\ ss[b] = groups[h]
    BY <1>2, <2>1, <2>2
  <2>4. \A p, q \in 1 .. Len(groups) : \A i \in 1 .. Len(groups[p]) : \A m \in 1 .. Len(groups[q]) :
          groups[p][i] = groups[q][m] => p = q /\ i = m
    BY DEF Shares
  <2>5. \A i \in 1 .. Len(groups[g]) : \A m \in 1 .. Len(groups[h]) :
          groups[g][i] = groups[h][m] => g = h /\ i = m
    BY <2>4
  <2>6. c \in 1 .. Len(groups[g]) /\ d \in 1 .. Len(groups[h]) /\ groups[g][c] = groups[h][d]
    BY <1>6, <2>3
  <2>7. g = h /\ c = d
    BY <2>5, <2>6
  <2>8. a = b
    BY <2>1, <2>2, <2>7 DEF Distinct
  <2>. QED BY <2>7, <2>8
<1>7. Shares(ss, V)
  <2>. QED BY <1>3, <1>5, <1>6 DEF Shares
<1>8. Once(FlattenSeq(ss), V)
  BY <1>7, FlattenShares
<1>. QED BY <1>8 DEF V

\* Lists of the rows of the groups in each part.
Nested(rr, groups, parts, R) ==
  /\ rr \in Seq(Seq(R)) /\ Len(rr) = Len(parts)
  /\ \A j \in 1 .. Len(parts) : \E ss \in Seq(Seq(R)) :
       Taking(ss, groups, parts[j]) /\ rr[j] = FlattenSeq(ss)

\* Groups shared out, all the rows of one together.
LEMMA NestedShares ==
  ASSUME NEW R, NEW groups, Shares(groups, R), NEW N \in Nat, Len(groups) = N,
         NEW parts, Shares(parts, 1 .. N), NEW rr, Nested(rr, groups, parts, R)
  PROVE  Shares(rr, R) /\ \A j \in 1 .. Len(parts) : Once(rr[j], RowsIn(R, groups, parts[j]))
<1>. DEFINE V == [j \in 1 .. Len(parts) |-> RowsIn(R, groups, parts[j])]
<1>1. rr \in Seq(Seq(R)) /\ Len(rr) = Len(parts)
  BY DEF Nested
<1>2. parts \in Seq(Seq(1 .. N)) /\ \A j \in 1 .. Len(parts) : parts[j] \in Seq(1 .. N)
  <2>1. parts \in Seq(Seq(1 .. N))
    BY DEF Shares
  <2>. QED BY <2>1
<1>3. \A p, q \in 1 .. Len(parts) : \A i \in 1 .. Len(parts[p]) : \A m \in 1 .. Len(parts[q]) :
        parts[p][i] = parts[q][m] => p = q /\ i = m
  BY DEF Shares
<1>4. \A p, q \in 1 .. Len(groups) : \A i \in 1 .. Len(groups[p]) : \A m \in 1 .. Len(groups[q]) :
        groups[p][i] = groups[q][m] => p = q /\ i = m
  BY DEF Shares
<1>5. ASSUME NEW j \in 1 .. Len(parts) PROVE Once(rr[j], RowsIn(R, groups, parts[j]))
  <2>1. PICK ss \in Seq(Seq(R)) : Taking(ss, groups, parts[j]) /\ rr[j] = FlattenSeq(ss)
    BY DEF Nested
  <2>2. Distinct(parts[j])
    BY <1>3 DEF Distinct
  <2>3. PICK part \in Seq(1 .. N) : part = parts[j]
    BY <1>2
  <2>4. Once(FlattenSeq(ss), RowsIn(R, groups, part))
    BY <2>1, <2>2, <2>3, TakenOnce
  <2>. QED BY <2>1, <2>3, <2>4
<1>6. ASSUME NEW x \in R PROVE \E j \in 1 .. Len(parts) : x \in RowsIn(R, groups, parts[j])
  <2>1. PICK g \in 1 .. Len(groups) : \E i \in 1 .. Len(groups[g]) : groups[g][i] = x
    BY DEF Shares
  <2>2. \A y \in 1 .. N : \E j \in 1 .. Len(parts) : \E m \in 1 .. Len(parts[j]) : parts[j][m] = y
    BY DEF Shares
  <2>3. PICK j \in 1 .. Len(parts) : \E m \in 1 .. Len(parts[j]) : parts[j][m] = g
    BY <2>2
  <2>4. PICK m \in 1 .. Len(parts[j]) : parts[j][m] = g
    BY <2>3
  <2>. QED BY <2>1, <2>4 DEF RowsIn
<1>7. ASSUME NEW a \in 1 .. Len(parts), NEW b \in 1 .. Len(parts), a # b
      PROVE  RowsIn(R, groups, parts[a]) \cap RowsIn(R, groups, parts[b]) = {}
  <2>1. ASSUME NEW x \in RowsIn(R, groups, parts[a]), x \in RowsIn(R, groups, parts[b]) PROVE FALSE
    <3>1. PICK m \in 1 .. Len(parts[a]) : \E i \in 1 .. Len(groups[parts[a][m]]) : groups[parts[a][m]][i] = x
      BY DEF RowsIn
    <3>2. PICK l \in 1 .. Len(parts[b]) : \E i \in 1 .. Len(groups[parts[b][l]]) : groups[parts[b][l]][i] = x
      BY <2>1 DEF RowsIn
    <3>3. PICK g \in 1 .. Len(groups), h \in 1 .. Len(groups) : g = parts[a][m] /\ h = parts[b][l]
      <4>1. PICK p \in Seq(1 .. N) : p = parts[a]
        BY <1>2
      <4>2. PICK q \in Seq(1 .. N) : q = parts[b]
        BY <1>2
      <4>3. m \in 1 .. Len(p) /\ l \in 1 .. Len(q)
        BY <4>1, <4>2
      <4>4. p[m] \in 1 .. N /\ q[l] \in 1 .. N
        BY <4>3, ListFacts
      <4>. QED BY <4>1, <4>2, <4>4
    <3>4. PICK c \in 1 .. Len(groups[g]) : groups[g][c] = x
      BY <3>1, <3>3
    <3>5. PICK d \in 1 .. Len(groups[h]) : groups[h][d] = x
      BY <3>2, <3>3
    <3>6. g = h
      <4>1. \A i \in 1 .. Len(groups[g]) : \A n \in 1 .. Len(groups[h]) :
              groups[g][i] = groups[h][n] => g = h
        BY <1>4
      <4>. QED BY <3>4, <3>5, <4>1
    <3>7. parts[a][m] = parts[b][l]
      BY <3>3, <3>6
    <3>8. a = b
      BY <1>3, <3>7
    <3>. QED BY <1>7, <3>8
  <2>. QED BY <2>1
<1>8. Shares(rr, R)
  <2>1. \A j \in 1 .. Len(rr) : Once(rr[j], V[j])
    BY <1>1, <1>5
  <2>2. \A x \in R : \E j \in 1 .. Len(rr) : x \in V[j]
    BY <1>1, <1>6
  <2>3. \A i, j \in 1 .. Len(rr) : i # j => V[i] \cap V[j] = {}
    BY <1>1, <1>7
  <2>. HIDE DEF V
  <2>. QED BY <1>1, <2>1, <2>2, <2>3, OncesShare
<1>. QED BY <1>5, <1>8

\* Multiples of b.
LEMMA ModZero ==
  ASSUME NEW b \in Nat \ {0}, NEW q \in Nat
  PROVE  (b * q) % b = 0 /\ (b * q) \div b = q
<1>1. (b * q) \div b = q
  <2>1. (b * q + 0) \div b = q
    BY DivUnique
  <2>2. b * q + 0 = b * q
    OBVIOUS
  <2>. QED BY <2>1, <2>2
<1>2. PICK a \in Nat : a = b * q
  OBVIOUS
<1>3. a % b = a - b * (a \div b)
  OBVIOUS
<1>4. a % b = a - b * q
  BY <1>1, <1>2, <1>3
<1>. QED BY <1>1, <1>2, <1>4

\* n rows make whole groups of g, and as many of them for each of k.
Divisible(n, k, g) == n % (k * g) = 0

Divided(n, k, g, N) == n % g = 0 /\ N = n \div g /\ N % k = 0 /\ n = g * N

\* So there are N groups, which k divides.
LEMMA GroupCount ==
  ASSUME NEW n \in Nat \ {0}, NEW g \in Nat \ {0}, NEW k \in Nat \ {0}, Divisible(n, k, g)
  PROVE  \E N \in Nat \ {0} : Divided(n, k, g, N)
<1>1. PICK b \in Nat \ {0} : b = k * g
  OBVIOUS
<1>2. PICK q \in Nat : q = n \div b /\ n = b * q
  <2>1. n % b = 0
    BY <1>1 DEF Divisible
  <2>. QED BY <2>1, ExactDiv
<1>3. PICK m \in Nat : m = k * q
  OBVIOUS
<1>4. n = g * m
  <2>1. \A x, y, z \in Nat : (x * y) * z = y * (x * z)
    OBVIOUS
  <2>2. (k * g) * q = g * (k * q)
    BY <2>1
  <2>. QED BY <1>1, <1>2, <1>3, <2>2, Zenon
<1>5. n % g = 0 /\ n \div g = m
  BY <1>4, ModZero
<1>6. m % k = 0
  BY <1>3, ModZero
<1>7. m # 0
  BY <1>4
<1>. QED BY <1>4, <1>5, <1>6, <1>7 DEF Divided

\* The groups of n rows, g by g.
Grouped(groups, n, g) ==
  /\ Shares(groups, 1 .. n) /\ Len(groups) = n \div g
  /\ \A h \in 1 .. n \div g : /\ Len(groups[h]) = g /\ groups[h] \in Seq(1 .. n)
                              /\ \A i \in 1 .. g : (groups[h][i] - 1) \div g = h - 1

\* _group_by_uid gives the rows g by g.
LEMMA GroupsGrouped ==
  ASSUME NEW n \in Nat \ {0}, NEW g \in Nat \ {0}, n % g = 0
  PROVE  Grouped(Groups(Uids(n, g)), n, g)
<1>1. PICK s \in Seq(1 .. n) : s = Counting(n)
  BY CountingFacts
<1>2. Len(s) = n /\ (\A i \in 1 .. n : s[i] = i) /\ Once(s, 1 .. n)
  BY <1>1, CountingFacts
<1>3. PICK groups : groups = Slices(s, g)
  OBVIOUS
<1>4. Groups(Uids(n, g)) = groups
  BY <1>1, <1>3, GroupsAre
<1>5. Shares(groups, 1 .. n)
  BY <1>2, <1>3, SlicesShare
<1>6. groups \in Seq(Seq(1 .. n)) /\ Cut(groups, s, g)
  BY <1>3, SlicesAre
<1>7. PICK N \in Nat : N = n \div g /\ N = CeilDiv(n, g) /\ n = g * N
  BY ExactDiv
<1>8. Len(groups) = N
  BY <1>2, <1>6, <1>7 DEF Cut
<1>9. ASSUME NEW h \in 1 .. N
      PROVE  /\ Len(groups[h]) = g /\ groups[h] \in Seq(1 .. n)
             /\ \A i \in 1 .. g : (groups[h][i] - 1) \div g = h - 1
  <2>1. g * h <= n
    <3>1. \A x, y \in Nat : x <= y => g * x <= g * y
      OBVIOUS
    <3>2. h \in Nat /\ h <= N
      OBVIOUS
    <3>3. g * h <= g * N
      BY <3>1, <3>2
    <3>. QED BY <1>7, <3>3
  <2>2. Len(groups[h]) = g
    BY <1>2, <1>6, <1>7, <2>1 DEF Cut
  <2>3. groups[h] \in Seq(1 .. n)
    BY <1>6, <1>8
  <2>4. ASSUME NEW i \in 1 .. g PROVE (groups[h][i] - 1) \div g = h - 1
    <3>1. PICK x \in Nat : x = g * (h - 1) + i
      OBVIOUS
    <3>2. x \in 1 .. n /\ groups[h][i] = s[x]
      <4>1. Len(s) = n /\ CeilDiv(Len(s), g) = N
        BY <1>2, <1>7
      <4>2. \A m \in 1 .. Len(groups[h]) : g * (h - 1) + m \in 1 .. Len(s) /\ groups[h][m] = s[g * (h - 1) + m]
        BY <1>6, <4>1, Zenon DEF Cut
      <4>. QED BY <2>2, <3>1, <4>1, <4>2
    <3>3. groups[h][i] = x
      BY <1>2, <3>2
    <3>4. PICK q \in Nat, r \in Nat : q = h - 1 /\ r = i - 1
      OBVIOUS
    <3>5. x - 1 = g * q + r /\ r < g
      BY <3>1, <3>4
    <3>6. (g * q + r) \div g = q
      BY <3>4, <3>5, DivUnique
    <3>. QED BY <3>3, <3>4, <3>5, <3>6
  <2>. QED BY <2>2, <2>3, <2>4
<1>. QED BY <1>4, <1>5, <1>7, <1>8, <1>9, Zenon DEF Grouped

\* The sums by f of groups.
SumEach(sums, f, groups) == sums = [h \in DOMAIN groups |-> SumOf(f, groups[h])]

\* The work of a group lies between g times the least and the largest row's.
LEMMA GroupSums ==
  ASSUME NEW n \in Nat \ {0}, NEW g \in Nat \ {0}, NEW N \in Nat, N = n \div g,
         NEW groups, Grouped(groups, n, g),
         NEW f, NEW low \in Nat, NEW high \in Nat, Between(f, n, low, high),
         NEW sums, SumEach(sums, f, groups), NEW lo \in Nat, lo = low * g, NEW hi \in Nat, hi = high * g
  PROVE  Between(sums, N, lo, hi)
<1>1. groups \in Seq(Seq(1 .. n)) /\ Len(groups) = N /\ DOMAIN groups = 1 .. N
  <2>1. groups \in Seq(Seq(1 .. n)) /\ Len(groups) = N
    BY DEF Grouped, Shares
  <2>. QED BY <2>1
<1>2. f \in [1 .. n -> Nat] /\ \A x \in 1 .. n : low <= f[x] /\ f[x] <= high
  BY DEF Between
<1>3. ASSUME NEW h \in 1 .. N PROVE SumOf(f, groups[h]) \in Nat /\ low * g <= SumOf(f, groups[h]) /\ SumOf(f, groups[h]) <= high * g
  <2>1. PICK rows \in Seq(1 .. n) : rows = groups[h]
    BY DEF Grouped
  <2>2. Len(rows) = g
    BY <2>1 DEF Grouped
  <2>3. SumOf(f, rows) \in Nat
    BY <1>2, SumIsNat
  <2>4. low * Len(rows) <= SumOf(f, rows) /\ SumOf(f, rows) <= high * Len(rows)
    BY <1>2, SumBounds
  <2>. QED BY <2>1, <2>2, <2>3, <2>4
<1>4. sums \in [1 .. N -> Nat]
  BY <1>1, <1>3 DEF SumEach
<1>5. \A h \in 1 .. N : sums[h] = SumOf(f, groups[h])
  BY <1>1 DEF SumEach
<1>. QED BY <1>3, <1>4, <1>5 DEF Between

\* Rows of a uid are in one part.
Apiece(parts, g) ==
  \A i, j \in 1 .. Len(parts) : \A a \in 1 .. Len(parts[i]) : \A b \in 1 .. Len(parts[j]) :
    (parts[i][a] - 1) \div g = (parts[j][b] - 1) \div g => i = j

\* If whole groups are taken, rows of a group come together.
LEMMA TakenApiece ==
  ASSUME NEW n \in Nat \ {0}, NEW g \in Nat \ {0}, NEW N \in Nat, N = n \div g,
         NEW groups, Grouped(groups, n, g), NEW parts, Shares(parts, 1 .. N),
         NEW rr \in Seq(Seq(1 .. n)), Len(rr) = Len(parts),
         \A j \in 1 .. Len(parts) : \A i \in 1 .. Len(rr[j]) : rr[j][i] \in RowsIn(1 .. n, groups, parts[j])
  PROVE  Apiece(rr, g)
<1>1. \A j \in 1 .. Len(rr) : parts[j] \in Seq(1 .. N)
  <2>1. parts \in Seq(Seq(1 .. N))
    BY DEF Shares
  <2>. QED BY <2>1
<1>2. ASSUME NEW j \in 1 .. Len(rr), NEW a \in 1 .. Len(rr[j])
      PROVE  \E m \in 1 .. Len(parts[j]) : parts[j][m] \in 1 .. N /\ (rr[j][a] - 1) \div g = parts[j][m] - 1
  <2>1. rr[j][a] \in RowsIn(1 .. n, groups, parts[j])
    OBVIOUS
  <2>2. PICK m \in 1 .. Len(parts[j]) : \E i \in 1 .. Len(groups[parts[j][m]]) : groups[parts[j][m]][i] = rr[j][a]
    BY <2>1 DEF RowsIn
  <2>3. PICK p \in Seq(1 .. N) : p = parts[j]
    BY <1>1
  <2>4. m \in 1 .. Len(p)
    BY <2>3
  <2>5. p[m] \in 1 .. N
    BY <2>4, ListFacts
  <2>6. PICK h \in 1 .. N : h = parts[j][m]
    BY <2>3, <2>5
  <2>7. PICK i \in 1 .. Len(groups[h]) : groups[h][i] = rr[j][a]
    BY <2>2, <2>6
  <2>8. Len(groups[h]) = g /\ \A x \in 1 .. g : (groups[h][x] - 1) \div g = h - 1
    BY DEF Grouped
  <2>9. (rr[j][a] - 1) \div g = h - 1
    BY <2>7, <2>8
  <2>. QED BY <2>6, <2>9
<1>3. ASSUME NEW i \in 1 .. Len(rr), NEW j \in 1 .. Len(rr), NEW a \in 1 .. Len(rr[i]), NEW b \in 1 .. Len(rr[j]),
             (rr[i][a] - 1) \div g = (rr[j][b] - 1) \div g
      PROVE  i = j
  <2>1. PICK m \in 1 .. Len(parts[i]) : parts[i][m] \in 1 .. N /\ (rr[i][a] - 1) \div g = parts[i][m] - 1
    BY <1>2
  <2>2. PICK l \in 1 .. Len(parts[j]) : parts[j][l] \in 1 .. N /\ (rr[j][b] - 1) \div g = parts[j][l] - 1
    BY <1>2
  <2>3. parts[i][m] = parts[j][l]
    <3>1. PICK x \in 1 .. N, y \in 1 .. N : x = parts[i][m] /\ y = parts[j][l]
      BY <2>1, <2>2
    <3>2. x - 1 = y - 1
      BY <1>3, <2>1, <2>2, <3>1
    <3>3. x = y
      BY <3>2
    <3>. QED BY <3>1, <3>3
  <2>4. \A p, q \in 1 .. Len(parts) : \A c \in 1 .. Len(parts[p]) : \A d \in 1 .. Len(parts[q]) :
          parts[p][c] = parts[q][d] => p = q
    BY DEF Shares
  <2>5. \A c \in 1 .. Len(parts[i]) : \A d \in 1 .. Len(parts[j]) : parts[i][c] = parts[j][d] => i = j
    BY <2>4
  <2>. QED BY <2>3, <2>5
<1>. QED BY <1>3 DEF Apiece

\* Groups of g rows and their sums.
Picked(R, Q, g, f, groups, sums) ==
  /\ g \in Nat /\ f \in [R -> Nat] /\ sums \in [Q -> Nat]
  /\ \A h \in Q : groups[h] \in Seq(R) /\ Len(groups[h]) = g /\ sums[h] = SumOf(f, groups[h])

Takes(ss, groups, part) == ss = [m \in DOMAIN part |-> groups[part[m]]]

\* The groups of a part, taken in its order.
LEMMA TakingIs ==
  ASSUME NEW R, NEW Q, NEW g, NEW f, NEW groups, NEW sums, Picked(R, Q, g, f, groups, sums),
         NEW part \in Seq(Q), NEW ss, Takes(ss, groups, part)
  PROVE  ss \in Seq(Seq(R)) /\ Taking(ss, groups, part)
<1>1. Len(part) \in Nat /\ DOMAIN part = 1 .. Len(part) /\ \A m \in 1 .. Len(part) : part[m] \in Q
  BY ListFacts
<1>2. \A h \in Q : groups[h] \in Seq(R)
  BY DEF Picked
<1>3. ss \in [1 .. Len(part) -> Seq(R)]
  BY <1>1, <1>2 DEF Takes
<1>4. ss \in Seq(Seq(R)) /\ Len(ss) = Len(part)
  BY <1>1, <1>3, ListOf
<1>5. \A m \in 1 .. Len(part) : ss[m] = groups[part[m]]
  BY <1>1 DEF Takes
<1>. QED BY <1>4, <1>5 DEF Taking

\* The rows of the groups of a part: their work, and how many there are.
LEMMA RowsOfGroups ==
  ASSUME NEW R, NEW Q, NEW g, NEW f, NEW groups, NEW sums, Picked(R, Q, g, f, groups, sums),
         NEW part \in Seq(Q), NEW ss \in Seq(Seq(R)), Taking(ss, groups, part)
  PROVE  /\ FlattenSeq(ss) \in Seq(R)
         /\ SumOf(f, FlattenSeq(ss)) = SumOf(sums, part)
         /\ Len(FlattenSeq(ss)) = g * Len(part)
<1>1. Len(part) \in Nat /\ \A m \in 1 .. Len(part) : part[m] \in Q
  BY ListFacts
<1>2. Len(ss) = Len(part) /\ \A m \in 1 .. Len(part) : ss[m] = groups[part[m]]
  BY DEF Taking
<1>3. FlattenSeq(ss) \in Seq(R)
  BY FlattenLocated
<1>4. \A h \in Q : Len(groups[h]) = g /\ sums[h] = SumOf(f, groups[h])
  BY DEF Picked
<1>5. \A m \in 1 .. Len(ss) : sums[part[m]] = SumOf(f, ss[m])
  BY <1>1, <1>2, <1>4
<1>6. SumOf(f, FlattenSeq(ss)) = SumOf(sums, part)
  <2>1. SumsOf(R, f, ss, Q, sums, part)
    BY <1>2, <1>5 DEF SumsOf, Picked
  <2>. QED BY <2>1, SumFlatten
<1>7. \A m \in 1 .. Len(ss) : Len(ss[m]) = g
  BY <1>1, <1>2, <1>4
<1>8. Len(FlattenSeq(ss)) = g * Len(ss)
  <2>1. g \in Nat
    BY DEF Picked
  <2>. QED BY <1>7, <2>1, EqualLength
<1>. QED BY <1>2, <1>3, <1>6, <1>8

GroupRows(rr, groups, parts, k) ==
  rr = [j \in 1 .. k |-> FlattenSeq([m \in DOMAIN parts[j] |-> groups[parts[j][m]]])]

\* Partitions of groups make fair partitions of the groups' rows.
LEMMA GroupedFair ==
  ASSUME NEW n \in Nat \ {0}, NEW g \in Nat \ {0}, NEW k \in Nat \ {0}, Divisible(n, k, g),
         NEW groups, Grouped(groups, n, g),
         NEW f, NEW low \in Nat, NEW high \in Nat, low <= high, Between(f, n, low, high),
         NEW parts, parts = BalancedPartitions([h \in DOMAIN groups |-> SumOf(f, groups[h])], k, TRUE),
         NEW rr, GroupRows(rr, groups, parts, k)
  PROVE  Fair(rr, 1 .. n, f, k, high * g - low * g, TRUE) /\ Apiece(rr, g)
<1>1. PICK N \in Nat \ {0} : N = n \div g /\ N % k = 0
  <2>1. PICK N \in Nat \ {0} : Divided(n, k, g, N)
    BY GroupCount
  <2>. QED BY <2>1 DEF Divided
<1>2. PICK sums : sums = [h \in DOMAIN groups |-> SumOf(f, groups[h])] /\ SumEach(sums, f, groups)
  BY DEF SumEach
<1>3. PICK lo \in Nat, hi \in Nat : lo = low * g /\ hi = high * g
  OBVIOUS
<1>4. PICK gap \in Nat : gap = hi - lo
  <2>1. \A x, y \in Nat : x <= y => x * g <= y * g
    OBVIOUS
  <2>2. low * g <= high * g
    BY <2>1
  <2>. QED BY <1>3, <2>2
<1>5. Between(sums, N, lo, hi) /\ \A h \in 1 .. N : sums[h] = SumOf(f, groups[h])
  <2>1. N \in Nat /\ N = n \div g
    BY <1>1
  <2>2. SumEach(sums, f, groups)
    BY <1>2
  <2>3. Between(sums, N, lo, hi)
    BY <1>3, <2>1, <2>2, GroupSums
  <2>4. DOMAIN groups = 1 .. N
    BY <2>1 DEF Grouped, Shares
  <2>5. \A h \in 1 .. N : sums[h] = SumOf(f, groups[h])
    BY <1>2, <2>4
  <2>. QED BY <2>3, <2>5
<1>6. sums \in [1 .. N -> Nat]
  BY <1>5 DEF Between
<1>7. Fair(parts, 1 .. N, sums, k, gap, TRUE)
  BY <1>1, <1>2, <1>4, <1>5, BalancedFair
<1>8. Shares(parts, 1 .. N) /\ Len(parts) = k
  BY <1>7 DEF Fair
<1>9. ASSUME NEW j \in 1 .. k
      PROVE  /\ parts[j] \in Seq(1 .. N)
             /\ \E ss \in Seq(Seq(1 .. n)) : Taking(ss, groups, parts[j]) /\ rr[j] = FlattenSeq(ss)
             /\ rr[j] \in Seq(1 .. n) /\ SumOf(f, rr[j]) = SumOf(sums, parts[j]) /\ Len(rr[j]) = g * Len(parts[j])
  <2>1. parts \in Seq(Seq(1 .. N))
    BY <1>8 DEF Shares
  <2>2. PICK part \in Seq(1 .. N) : part = parts[j]
    <3>1. j \in 1 .. Len(parts)
      BY <1>8
    <3>2. parts[j] \in Seq(1 .. N)
      BY <2>1, <3>1, ListFacts
    <3>. QED BY <3>2
  <2>3. \A h \in 1 .. N : groups[h] \in Seq(1 .. n) /\ Len(groups[h]) = g /\ sums[h] = SumOf(f, groups[h])
    BY <1>1, <1>5 DEF Grouped
  <2>4. Picked(1 .. n, 1 .. N, g, f, groups, sums)
    <3>1. f \in [1 .. n -> Nat]
      BY DEF Between
    <3>. QED BY <1>6, <2>3, <3>1 DEF Picked
  <2>5. f \in [1 .. n -> Nat]
    BY DEF Between
  <2>6. PICK ss : Takes(ss, groups, part)
    BY DEF Takes
  <2>7. rr[j] = FlattenSeq(ss)
    BY <2>2, <2>6 DEF Takes, GroupRows
  <2>8. ss \in Seq(Seq(1 .. n)) /\ Taking(ss, groups, part)
    BY <2>4, <2>6, TakingIs
  <2>9. /\ FlattenSeq(ss) \in Seq(1 .. n) /\ SumOf(f, FlattenSeq(ss)) = SumOf(sums, part)
        /\ Len(FlattenSeq(ss)) = g * Len(part)
    BY <2>4, <2>8, RowsOfGroups
  <2>. QED BY <2>2, <2>7, <2>8, <2>9
<1>10. rr \in Seq(Seq(1 .. n)) /\ Len(rr) = k
  <2>1. rr \in [1 .. k -> Seq(1 .. n)]
    <3>1. rr = [j \in 1 .. k |-> rr[j]]
      BY DEF GroupRows
    <3>. QED BY <1>9, <3>1
  <2>. QED BY <2>1, ListOf
<1>11. Shares(groups, 1 .. n) /\ Len(groups) = N
  BY <1>1 DEF Grouped
<1>12. Len(rr) = Len(parts) /\ \A j \in 1 .. Len(parts) : \E ss \in Seq(Seq(1 .. n)) : Taking(ss, groups, parts[j]) /\ rr[j] = FlattenSeq(ss)
  BY <1>8, <1>9, <1>10
<1>13. Shares(rr, 1 .. n) /\ \A j \in 1 .. Len(parts) : Once(rr[j], RowsIn(1 .. n, groups, parts[j]))
  <2>1. PICK R : R = 1 .. n
    OBVIOUS
  <2>2. Shares(groups, R) /\ rr \in Seq(Seq(R)) /\ Len(rr) = Len(parts)
    BY <1>10, <1>11, <1>12, <2>1
  <2>3. \A j \in 1 .. Len(parts) : \E ss \in Seq(Seq(R)) : Taking(ss, groups, parts[j]) /\ rr[j] = FlattenSeq(ss)
    BY <1>12, <2>1
  <2>4. Shares(rr, R) /\ \A j \in 1 .. Len(parts) : Once(rr[j], RowsIn(R, groups, parts[j]))
    <3>1. N \in Nat /\ Len(groups) = N
      BY <1>11
    <3>2. Nested(rr, groups, parts, R)
      BY <2>2, <2>3 DEF Nested
    <3>. QED BY <1>8, <2>2, <3>1, <3>2, NestedShares
  <2>. QED BY <2>1, <2>4
<1>14. \A i, j \in 1 .. k : SumOf(f, rr[i]) <= SumOf(f, rr[j]) + gap
  <2>1. \A i, j \in 1 .. k : SumOf(sums, parts[i]) <= SumOf(sums, parts[j]) + gap
    BY <1>7 DEF Fair
  <2>2. \A i \in 1 .. k : SumOf(f, rr[i]) = SumOf(sums, parts[i])
    BY <1>9
  <2>. QED BY <2>1, <2>2
<1>15. \A i, j \in 1 .. k : Len(rr[i]) = Len(rr[j])
  <2>1. \A i, j \in 1 .. k : Len(parts[i]) = Len(parts[j])
    BY <1>7 DEF Fair
  <2>2. \A i \in 1 .. k : Len(rr[i]) = g * Len(parts[i])
    BY <1>9
  <2>3. ASSUME NEW i \in 1 .. k, NEW j \in 1 .. k PROVE Len(rr[i]) = Len(rr[j])
    <3>1. Len(rr[i]) = g * Len(parts[i]) /\ Len(rr[j]) = g * Len(parts[j])
      BY <2>2
    <3>2. Len(parts[i]) = Len(parts[j])
      BY <2>1
    <3>. QED BY <3>1, <3>2, Zenon
  <2>. QED BY <2>3
<1>16. \E j \in 1 .. k : rr[j] # <<>>
  <2>1. PICK j \in 1 .. k : parts[j] # <<>>
    BY <1>7 DEF Fair
  <2>2. Len(parts[j]) \in Nat \ {0}
    <3>1. PICK part \in Seq(1 .. N) : part = parts[j]
      BY <1>9
    <3>2. part # <<>>
      BY <2>1, <3>1
    <3>3. Len(part) \in Nat \ {0}
      BY <3>2, TailFacts
    <3>. QED BY <3>1, <3>3
  <2>3. \A x \in Nat \ {0} : g * x # 0
    OBVIOUS
  <2>4. Len(rr[j]) = g * Len(parts[j])
    BY <1>9
  <2>5. rr[j] # <<>>
    <3>1. Len(<<>>) = 0
      OBVIOUS
    <3>2. Len(rr[j]) # 0
      BY <2>2, <2>3, <2>4
    <3>. QED BY <3>1, <3>2
  <2>. QED BY <2>5
<1>17. Fair(rr, 1 .. n, f, k, gap, TRUE)
  <2>1. Shares(rr, 1 .. n)
    BY <1>13
  <2>2. Len(rr) = k
    BY <1>10
  <2>. QED BY <1>14, <1>15, <1>16, <2>1, <2>2 DEF Fair
<1>18. Apiece(rr, g)
  <2>1. ASSUME NEW j \in 1 .. Len(parts), NEW i \in 1 .. Len(rr[j])
        PROVE  rr[j][i] \in RowsIn(1 .. n, groups, parts[j])
    <3>1. rr[j] \in Seq(RowsIn(1 .. n, groups, parts[j]))
      BY <1>13 DEF Once
    <3>. QED BY <3>1, ListFacts
  <2>2. N \in Nat /\ N = n \div g
    BY <1>1
  <2>3. Len(rr) = Len(parts) /\ rr \in Seq(Seq(1 .. n)) /\ Shares(parts, 1 .. N)
    BY <1>8, <1>10
  <2>. QED BY <2>1, <2>2, <2>3, TakenApiece
<1>. QED BY <1>3, <1>4, <1>17, <1>18

\* Each list sorted by keys of its own.
SortedBy(tt, ss, keys, k) ==
  /\ tt = [j \in 1 .. k |-> SortBy(ss[j], keys[j])]
  /\ \A j \in 1 .. k : \A i \in 1 .. Len(ss[j]) : keys[j][i] \in Int

\* Partitions sorted by any keys are fair, with the same rows.
LEMMA SortedFair ==
  ASSUME NEW R, Numbers(R), NEW f \in [R -> Nat], NEW k \in Nat, NEW gap \in Nat, NEW equal_size \in BOOLEAN,
         NEW ss, Fair(ss, R, f, k, gap, equal_size), NEW tt, NEW keys, SortedBy(tt, ss, keys, k)
  PROVE  Fair(tt, R, f, k, gap, equal_size) /\ Alike(ss, tt, R)
<1>1. Shares(ss, R) /\ Len(ss) = k
  BY DEF Fair
<1>2. ASSUME NEW j \in 1 .. k
      PROVE  /\ SortBy(ss[j], keys[j]) \in Seq(R) /\ Len(SortBy(ss[j], keys[j])) = Len(ss[j])
             /\ Once(ss[j], MembersOf(ss[j])) /\ Once(SortBy(ss[j], keys[j]), MembersOf(ss[j]))
  <2>1. \A i \in 1 .. Len(ss[j]) : keys[j][i] \in Int
    BY DEF SortedBy
  <2>2. j \in 1 .. Len(ss)
    BY <1>1
  <2>. QED BY <1>1, <2>1, <2>2, EachSorted
<1>3. tt \in Seq(Seq(R)) /\ Len(tt) = k /\ \A j \in 1 .. k : tt[j] = SortBy(ss[j], keys[j])
  <2>1. tt \in [1 .. k -> Seq(R)]
    BY <1>2 DEF SortedBy
  <2>2. \A j \in 1 .. k : tt[j] = SortBy(ss[j], keys[j])
    BY DEF SortedBy
  <2>. QED BY <2>1, <2>2, ListOf
<1>4. Alike(ss, tt, R)
  BY <1>1, <1>2, <1>3 DEF Alike
<1>5. Fair(tt, R, f, k, gap, equal_size)
  BY <1>3, <1>4, AlikeFair
<1>. QED BY <1>4, <1>5

\* Lists of numbers are their own keys.
LEMMA OwnKeys ==
  ASSUME NEW R, Numbers(R), NEW k \in Nat, NEW ss, Shares(ss, R), Len(ss) = k,
         NEW tt, tt = [j \in 1 .. k |-> SortBy(ss[j], ss[j])]
  PROVE  SortedBy(tt, ss, ss, k)
<1>1. ASSUME NEW j \in 1 .. k, NEW i \in 1 .. Len(ss[j]) PROVE ss[j][i] \in Int
  <2>1. ss \in Seq(Seq(R))
    BY DEF Shares
  <2>2. PICK l \in Seq(R) : l = ss[j]
    BY <2>1
  <2>3. i \in 1 .. Len(l)
    BY <2>2
  <2>4. l[i] \in R
    BY <2>3, ListFacts
  <2>. QED BY <2>2, <2>4 DEF Numbers
<1>. QED BY <1>1 DEF SortedBy

\* ... and have the groups as they had them.
LEMMA AlikeApiece ==
  ASSUME NEW R, NEW ss, NEW tt, Alike(ss, tt, R), NEW g, Apiece(ss, g)
  PROVE  Apiece(tt, g)
<1>1. ASSUME NEW j \in 1 .. Len(tt), NEW a \in 1 .. Len(tt[j])
      PROVE  \E c \in 1 .. Len(ss[j]) : ss[j][c] = tt[j][a]
  <2>1. Once(tt[j], MembersOf(ss[j]))
    BY DEF Alike
  <2>2. tt[j] \in Seq(MembersOf(ss[j]))
    BY <2>1 DEF Once
  <2>3. tt[j][a] \in MembersOf(ss[j])
    BY <2>2, ListFacts
  <2>. QED BY <2>3 DEF MembersOf
<1>2. Len(ss) = Len(tt)
  BY DEF Alike
<1>3. ASSUME NEW i \in 1 .. Len(tt), NEW j \in 1 .. Len(tt), NEW a \in 1 .. Len(tt[i]), NEW b \in 1 .. Len(tt[j]),
             (tt[i][a] - 1) \div g = (tt[j][b] - 1) \div g
      PROVE  i = j
  <2>1. PICK c \in 1 .. Len(ss[i]) : ss[i][c] = tt[i][a]
    BY <1>1
  <2>2. PICK d \in 1 .. Len(ss[j]) : ss[j][d] = tt[j][b]
    BY <1>1
  <2>3. (ss[i][c] - 1) \div g = (ss[j][d] - 1) \div g
    BY <1>3, <2>1, <2>2
  <2>. QED BY <1>2, <2>3 DEF Apiece
<1>. QED BY <1>3 DEF Apiece

\* get_group_balanced_partitions, for n rows of which every g have the same uid: each row is in
\* one partition, once, all have as many, no uid is in two of them, and their work differs by
\* no more than g times what that of rows does.
THEOREM GroupPartitionsFair ==
  ASSUME NEW n \in Nat \ {0}, NEW g \in Nat \ {0}, NEW k \in Nat \ {0}, Divisible(n, k, g),
         NEW ls, NEW f, f = Workloads(ls), NEW low \in Nat, NEW high \in Nat, low <= high, Between(f, n, low, high)
  PROVE  /\ Fair(GroupPartitions(ls, Uids(n, g), k), 1 .. n, f, k, high * g - low * g, TRUE)
         /\ Apiece(GroupPartitions(ls, Uids(n, g), k), g)
<1>1. PICK N \in Nat \ {0} : Divided(n, k, g, N)
  BY GroupCount
<1>2. PICK groups : groups = Groups(Uids(n, g))
  OBVIOUS
<1>3. n % g = 0
  BY <1>1 DEF Divided
<1>4. Grouped(groups, n, g)
  BY <1>2, <1>3, GroupsGrouped
<1>5. PICK parts : parts = BalancedPartitions([h \in DOMAIN groups |-> SumOf(f, groups[h])], k, TRUE)
  OBVIOUS
<1>6. PICK rr : /\ rr = [j \in 1 .. k |-> FlattenSeq([m \in DOMAIN parts[j] |-> groups[parts[j][m]]])]
                /\ GroupRows(rr, groups, parts, k)
  BY DEF GroupRows
<1>7. Fair(rr, 1 .. n, f, k, high * g - low * g, TRUE) /\ Apiece(rr, g)
  BY <1>4, <1>5, <1>6, GroupedFair
<1>8. PICK tt : tt = [j \in 1 .. k |-> SortBy(rr[j], rr[j])]
  OBVIOUS
<1>9. PICK R : R = 1 .. n
  OBVIOUS
<1>10. Numbers(R) /\ f \in [R -> Nat]
  BY <1>9 DEF Numbers, Between
<1>11. PICK gap \in Nat : gap = high * g - low * g
  <2>1. \A x, y \in Nat : x <= y => x * g <= y * g
    OBVIOUS
  <2>2. low * g <= high * g
    BY <2>1
  <2>. QED BY <2>2
<1>12. Fair(rr, R, f, k, gap, TRUE)
  BY <1>7, <1>9, <1>11
<1>13. SortedBy(tt, rr, rr, k)
  <2>1. Shares(rr, R) /\ Len(rr) = k
    BY <1>12 DEF Fair
  <2>. QED BY <1>8, <1>10, <2>1, OwnKeys
<1>14. Fair(tt, R, f, k, gap, TRUE) /\ Alike(rr, tt, R)
  BY <1>10, <1>12, <1>13, SortedFair
<1>15. Apiece(tt, g)
  BY <1>7, <1>14, AlikeApiece
<1>16. GroupPartitions(ls, Uids(n, g), k) = tt
  BY <1>2, <1>5, <1>6, <1>8, Zenon DEF GroupPartitions
<1>. QED BY <1>9, <1>11, <1>14, <1>15, <1>16

(***************************************************************************)
(* A sorted list from both ends inward, and from the middle outward.       *)
(***************************************************************************)
Halves(n, c, m) == c \in Nat /\ m \in Nat /\ CeilDiv(n, 2) = c /\ n \div 2 = m /\ n = c + m /\ m <= c /\ c <= m + 1

\* A list has as many odd places as even ones, or one more.
LEMMA HalvesAre ==
  ASSUME NEW n \in Nat
  PROVE  \E c \in Nat, m \in Nat : Halves(n, c, m)
<1>1. PICK m \in Nat : m = n \div 2 /\ 2 * m <= n /\ n <= 2 * m + 1
  OBVIOUS
<1>2. PICK c \in Nat : c = n - m
  BY <1>1
<1>3. n <= 2 * c /\ 2 * c < n + 2
  BY <1>1, <1>2
<1>4. CeilDiv(n, 2) = c
  BY <1>3, CeilDivUnique
<1>5. n = c + m /\ m <= c /\ c <= m + 1
  BY <1>1, <1>2
<1>. QED BY <1>1, <1>4, <1>5 DEF Halves

Inward(n) == [i \in 1 .. n |-> IF i <= CeilDiv(n, 2) THEN 2 * i - 1 ELSE 2 * (n - i + 1)]

Outward(n) ==
  [i \in 1 .. n |-> IF i <= CeilDiv(n, 2) THEN 2 * (CeilDiv(n, 2) - i + 1) - 1 ELSE 2 * (i - CeilDiv(n, 2))]

\* The order from both ends inward has all places.
LEMMA InwardOnce ==
  ASSUME NEW n \in Nat
  PROVE  Once(Inward(n), 1 .. n) /\ Len(Inward(n)) = n
<1>1. PICK c \in Nat, m \in Nat : Halves(n, c, m)
  BY HalvesAre
<1>2. n = c + m /\ m <= c /\ c <= m + 1 /\ CeilDiv(n, 2) = c
  BY <1>1 DEF Halves
<1>3. Inward(n) = [i \in 1 .. n |-> IF i <= c THEN 2 * i - 1 ELSE 2 * (n - i + 1)]
  BY <1>2 DEF Inward
<1>4. \A i \in 1 .. n : IF i <= c THEN 2 * i - 1 \in 1 .. n ELSE 2 * (n - i + 1) \in 1 .. n
  BY <1>2
<1>5. Inward(n) \in [1 .. n -> 1 .. n]
  BY <1>3, <1>4
<1>6. Inward(n) \in Seq(1 .. n) /\ Len(Inward(n)) = n
  BY <1>5, ListOf
<1>7. \A i \in 1 .. n : Inward(n)[i] = IF i <= c THEN 2 * i - 1 ELSE 2 * (n - i + 1)
  BY <1>3
<1>8. ASSUME NEW x \in 1 .. n PROVE \E i \in 1 .. n : Inward(n)[i] = x
  <2>1. PICK h \in Nat : (x = 2 * h \/ x = 2 * h + 1)
    <3>1. x = 2 * (x \div 2) \/ x = 2 * (x \div 2) + 1
      OBVIOUS
    <3>2. x \div 2 \in Nat
      OBVIOUS
    <3>. QED BY <3>1, <3>2
  <2>2. CASE x = 2 * h + 1
    <3>1. h + 1 \in 1 .. n /\ h + 1 <= c /\ 2 * (h + 1) - 1 = x
      BY <1>2, <2>2
    <3>. QED BY <1>7, <3>1
  <2>3. CASE x = 2 * h
    <3>1. PICK i \in 1 .. n : i = n - h + 1
      BY <1>2, <2>3
    <3>2. ~(i <= c) /\ 2 * (n - i + 1) = x
      BY <1>2, <2>3, <3>1
    <3>. QED BY <1>7, <3>2
  <2>. QED BY <2>1, <2>2, <2>3
<1>9. ASSUME NEW i \in 1 .. n, NEW j \in 1 .. n, Inward(n)[i] = Inward(n)[j] PROVE i = j
  <2>1. (IF i <= c THEN 2 * i - 1 ELSE 2 * (n - i + 1)) = (IF j <= c THEN 2 * j - 1 ELSE 2 * (n - j + 1))
    BY <1>7, <1>9
  <2>. QED BY <2>1
<1>. QED BY <1>6, <1>8, <1>9 DEF Once

\* So has the order from the middle outward.
LEMMA OutwardOnce ==
  ASSUME NEW n \in Nat
  PROVE  Once(Outward(n), 1 .. n) /\ Len(Outward(n)) = n
<1>1. PICK c \in Nat, m \in Nat : Halves(n, c, m)
  BY HalvesAre
<1>2. n = c + m /\ m <= c /\ c <= m + 1 /\ CeilDiv(n, 2) = c
  BY <1>1 DEF Halves
<1>3. Outward(n) = [i \in 1 .. n |-> IF i <= c THEN 2 * (c - i + 1) - 1 ELSE 2 * (i - c)]
  BY <1>2 DEF Outward
<1>4. \A i \in 1 .. n : IF i <= c THEN 2 * (c - i + 1) - 1 \in 1 .. n ELSE 2 * (i - c) \in 1 .. n
  BY <1>2
<1>5. Outward(n) \in [1 .. n -> 1 .. n]
  BY <1>3, <1>4
<1>6. Outward(n) \in Seq(1 .. n) /\ Len(Outward(n)) = n
  BY <1>5, ListOf
<1>7. \A i \in 1 .. n : Outward(n)[i] = IF i <= c THEN 2 * (c - i + 1) - 1 ELSE 2 * (i - c)
  BY <1>3
<1>8. ASSUME NEW x \in 1 .. n PROVE \E i \in 1 .. n : Outward(n)[i] = x
  <2>1. PICK h \in Nat : (x = 2 * h \/ x = 2 * h + 1)
    <3>1. x = 2 * (x \div 2) \/ x = 2 * (x \div 2) + 1
      OBVIOUS
    <3>2. x \div 2 \in Nat
      OBVIOUS
    <3>. QED BY <3>1, <3>2
  <2>2. CASE x = 2 * h + 1
    <3>1. PICK i \in 1 .. n : i = c - h
      BY <1>2, <2>2
    <3>2. i <= c /\ 2 * (c - i + 1) - 1 = x
      BY <1>2, <2>2, <3>1
    <3>. QED BY <1>7, <3>2
  <2>3. CASE x = 2 * h
    <3>1. PICK i \in 1 .. n : i = c + h
      BY <1>2, <2>3
    <3>2. ~(i <= c) /\ 2 * (i - c) = x
      BY <1>2, <2>3, <3>1
    <3>. QED BY <1>7, <3>2
  <2>. QED BY <2>1, <2>2, <2>3
<1>9. ASSUME NEW i \in 1 .. n, NEW j \in 1 .. n, Outward(n)[i] = Outward(n)[j] PROVE i = j
  <2>1. (IF i <= c THEN 2 * (c - i + 1) - 1 ELSE 2 * (i - c)) = (IF j <= c THEN 2 * (c - j + 1) - 1 ELSE 2 * (j - c))
    BY <1>7, <1>9
  <2>. QED BY <2>1
<1>. QED BY <1>6, <1>8, <1>9 DEF Once

\* The slices [::2] and [1::2].
LEMMA HalfLists ==
  ASSUME NEW S, NEW s \in Seq(S), NEW c \in Nat, NEW m \in Nat, Halves(Len(s), c, m)
  PROVE  /\ Evens(s) \in Seq(S) /\ Len(Evens(s)) = c /\ \A i \in 1 .. c : Evens(s)[i] = s[2 * i - 1]
         /\ Odds(s) \in Seq(S) /\ Len(Odds(s)) = m /\ \A i \in 1 .. m : Odds(s)[i] = s[2 * i]
<1>1. PICK n \in Nat : n = Len(s) /\ n = c + m /\ m <= c /\ c <= m + 1 /\ CeilDiv(n, 2) = c /\ n \div 2 = m
  BY ListFacts DEF Halves
<1>2. \A i \in 1 .. c : 2 * i - 1 \in 1 .. n
  BY <1>1
<1>3. \A i \in 1 .. m : 2 * i \in 1 .. n
  BY <1>1
<1>4. Evens(s) = [i \in 1 .. c |-> s[2 * i - 1]]
  BY <1>1, Zenon DEF Evens
<1>5. Odds(s) = [i \in 1 .. m |-> s[2 * i]]
  BY <1>1, Zenon DEF Odds
<1>6. \A x \in 1 .. n : s[x] \in S
  BY <1>1, ListFacts
<1>7. Evens(s) \in [1 .. c -> S]
  BY <1>2, <1>4, <1>6
<1>8. Odds(s) \in [1 .. m -> S]
  BY <1>3, <1>5, <1>6
<1>9. \A i \in 1 .. c : Evens(s)[i] = s[2 * i - 1]
  BY <1>4
<1>10. \A i \in 1 .. m : Odds(s)[i] = s[2 * i]
  BY <1>5
<1>. QED BY <1>7, <1>8, <1>9, <1>10, ListOf

\* What stands in a reversed list.
LEMMA ReverseFacts ==
  ASSUME NEW S, NEW s \in Seq(S)
  PROVE  /\ Reverse(s) \in Seq(S) /\ Len(Reverse(s)) = Len(s)
         /\ \A i \in 1 .. Len(s) : Reverse(s)[i] = s[Len(s) - i + 1]
<1>1. PICK n \in Nat : n = Len(s)
  BY ListFacts
<1>2. Reverse(s) = [i \in 1 .. n |-> s[(n - i) + 1]]
  BY <1>1, Zenon DEF Reverse
<1>3. ASSUME NEW i \in 1 .. n PROVE s[(n - i) + 1] \in S
  <2>1. PICK x \in 1 .. n : x = (n - i) + 1
    OBVIOUS
  <2>2. s[x] \in S
    BY <1>1, ListFacts
  <2>. QED BY <2>1, <2>2
<1>4. Reverse(s) \in [1 .. n -> S]
  BY <1>2, <1>3
<1>5. Reverse(s) \in Seq(S) /\ Len(Reverse(s)) = n
  BY <1>4, ListOf
<1>. QED BY <1>1, <1>2, <1>5

\* [::2] and the reversed [1::2] joined: each row of the list, inward.
LEMMA InwardIs ==
  ASSUME NEW S, NEW s \in Seq(S)
  PROVE  Evens(s) \o Reverse(Odds(s)) = Reordered(s, Inward(Len(s)))
<1>1. PICK n \in Nat : n = Len(s)
  BY ListFacts
<1>2. PICK c \in Nat, m \in Nat : Halves(n, c, m)
  BY HalvesAre
<1>3. n = c + m /\ m <= c /\ c <= m + 1 /\ CeilDiv(n, 2) = c
  BY <1>2 DEF Halves
<1>4. PICK e \in Seq(S) : e = Evens(s) /\ Len(e) = c /\ \A i \in 1 .. c : e[i] = s[2 * i - 1]
  BY <1>1, <1>2, HalfLists
<1>5. Halves(Len(s), c, m)
  BY <1>1, <1>2
<1>6. Odds(s) \in Seq(S) /\ Len(Odds(s)) = m /\ \A i \in 1 .. m : Odds(s)[i] = s[2 * i]
  BY <1>5, HalfLists
<1>7. PICK o \in Seq(S) : o = Odds(s) /\ Len(o) = m /\ \A i \in 1 .. m : o[i] = s[2 * i]
  BY <1>6, Zenon
<1>8. PICK r \in Seq(S) : r = Reverse(o) /\ Len(r) = m /\ \A i \in 1 .. m : r[i] = o[m - i + 1]
  <2>1. /\ Reverse(o) \in Seq(S) /\ Len(Reverse(o)) = Len(o)
        /\ \A i \in 1 .. Len(o) : Reverse(o)[i] = o[Len(o) - i + 1]
    BY <1>7, ReverseFacts, Zenon
  <2>2. Len(o) = m
    BY <1>7
  <2>. QED BY <2>1, <2>2, Zenon
<1>9. /\ e \o r \in Seq(S) /\ Len(e \o r) = n
      /\ \A i \in 1 .. c : (e \o r)[i] = e[i]
      /\ \A i \in 1 .. m : (e \o r)[c + i] = r[i]
  <2>1. /\ e \o r \in Seq(S) /\ Len(e \o r) = Len(e) + Len(r)
        /\ \A i \in 1 .. Len(e) : (e \o r)[i] = e[i]
        /\ \A i \in 1 .. Len(r) : (e \o r)[Len(e) + i] = r[i]
    <3>1. e \o r \in Seq(S) /\ Len(e \o r) = Len(e) + Len(r)
      BY ConcatFacts
    <3>2. \A i \in 1 .. Len(e) : (e \o r)[i] = e[i]
      BY ConcatFacts
    <3>3. \A i \in 1 .. Len(r) : (e \o r)[Len(e) + i] = r[i]
      BY ConcatFacts
    <3>. QED BY <3>1, <3>2, <3>3
  <2>2. Len(e) = c /\ Len(r) = m
    BY <1>4, <1>8
  <2>. QED BY <1>3, <2>1, <2>2, Zenon
<1>10. PICK t \in Seq(S) : t = e \o r
  BY <1>9
<1>11. PICK d : d = Inward(n)
  OBVIOUS
<1>12. \A i \in 1 .. n : d[i] = IF i <= c THEN 2 * i - 1 ELSE 2 * (n - i + 1)
  BY <1>3, <1>11 DEF Inward
<1>13. ASSUME NEW i \in 1 .. n PROVE t[i] = s[d[i]]
  <2>1. CASE i <= c
    <3>1. t[i] = e[i] /\ e[i] = s[2 * i - 1]
      BY <1>4, <1>9, <1>10, <2>1
    <3>2. d[i] = 2 * i - 1
      BY <1>12, <2>1
    <3>. QED BY <3>1, <3>2
  <2>2. CASE ~(i <= c)
    <3>1. PICK j \in 1 .. m : i = c + j
      <4>1. i - c \in 1 .. m /\ i = c + (i - c)
        BY <1>3, <2>2
      <4>. QED BY <4>1
    <3>2. t[i] = r[j]
      BY <1>9, <1>10, <3>1
    <3>3. PICK x \in 1 .. m : x = m - j + 1
      OBVIOUS
    <3>4. r[j] = o[x] /\ o[x] = s[2 * x]
      BY <1>7, <1>8, <3>3
    <3>5. d[i] = 2 * x
      <4>1. d[i] = 2 * (n - i + 1)
        BY <1>12, <2>2
      <4>2. n - i + 1 = x
        BY <1>3, <3>1, <3>3
      <4>. QED BY <4>1, <4>2
    <3>. QED BY <3>2, <3>4, <3>5
  <2>. QED BY <2>1, <2>2
<1>14. t = [i \in 1 .. n |-> s[d[i]]]
  <2>1. t = [i \in 1 .. n |-> t[i]]
    <3>1. Len(t) = n
      BY <1>9, <1>10, Zenon
    <3>2. t \in [1 .. Len(t) -> S]
      BY ListFacts
    <3>. QED BY <3>1, <3>2
  <2>. QED BY <1>13, <2>1
<1>. QED BY <1>1, <1>4, <1>7, <1>8, <1>10, <1>11, <1>14 DEF Reordered

\* The reversed [::2] and [1::2] joined: each of the list, outward.
LEMMA OutwardIs ==
  ASSUME NEW S, NEW s \in Seq(S)
  PROVE  Reverse(Evens(s)) \o Odds(s) = Reordered(s, Outward(Len(s)))
<1>1. PICK n \in Nat : n = Len(s)
  BY ListFacts
<1>2. PICK c \in Nat, m \in Nat : Halves(n, c, m)
  BY HalvesAre
<1>3. n = c + m /\ m <= c /\ c <= m + 1 /\ CeilDiv(n, 2) = c
  BY <1>2 DEF Halves
<1>4. PICK e \in Seq(S) : e = Evens(s) /\ Len(e) = c /\ \A i \in 1 .. c : e[i] = s[2 * i - 1]
  BY <1>1, <1>2, HalfLists
<1>5. Halves(Len(s), c, m)
  BY <1>1, <1>2
<1>6. Odds(s) \in Seq(S) /\ Len(Odds(s)) = m /\ \A i \in 1 .. m : Odds(s)[i] = s[2 * i]
  BY <1>5, HalfLists
<1>7. PICK o \in Seq(S) : o = Odds(s) /\ Len(o) = m /\ \A i \in 1 .. m : o[i] = s[2 * i]
  BY <1>6, Zenon
<1>8. PICK r \in Seq(S) : r = Reverse(e) /\ Len(r) = c /\ \A i \in 1 .. c : r[i] = e[c - i + 1]
  <2>1. /\ Reverse(e) \in Seq(S) /\ Len(Reverse(e)) = Len(e)
        /\ \A i \in 1 .. Len(e) : Reverse(e)[i] = e[Len(e) - i + 1]
    BY <1>4, ReverseFacts, Zenon
  <2>2. Len(e) = c
    BY <1>4
  <2>. QED BY <2>1, <2>2, Zenon
<1>9. /\ r \o o \in Seq(S) /\ Len(r \o o) = n
      /\ \A i \in 1 .. c : (r \o o)[i] = r[i]
      /\ \A i \in 1 .. m : (r \o o)[c + i] = o[i]
  <2>1. /\ r \o o \in Seq(S) /\ Len(r \o o) = Len(r) + Len(o)
        /\ \A i \in 1 .. Len(r) : (r \o o)[i] = r[i]
        /\ \A i \in 1 .. Len(o) : (r \o o)[Len(r) + i] = o[i]
    <3>1. r \o o \in Seq(S) /\ Len(r \o o) = Len(r) + Len(o)
      BY ConcatFacts
    <3>2. \A i \in 1 .. Len(r) : (r \o o)[i] = r[i]
      BY ConcatFacts
    <3>3. \A i \in 1 .. Len(o) : (r \o o)[Len(r) + i] = o[i]
      BY ConcatFacts
    <3>. QED BY <3>1, <3>2, <3>3
  <2>2. Len(r) = c /\ Len(o) = m
    BY <1>8, <1>7
  <2>. QED BY <1>3, <2>1, <2>2, Zenon
<1>10. PICK t \in Seq(S) : t = r \o o
  BY <1>9
<1>11. PICK d : d = Outward(n)
  OBVIOUS
<1>12. \A i \in 1 .. n : d[i] = IF i <= c THEN 2 * (c - i + 1) - 1 ELSE 2 * (i - c)
  BY <1>3, <1>11 DEF Outward
<1>13. ASSUME NEW i \in 1 .. n PROVE t[i] = s[d[i]]
  <2>1. CASE i <= c
    <3>1. PICK x \in 1 .. c : x = c - i + 1
      BY <2>1
    <3>2. t[i] = r[i] /\ r[i] = e[x] /\ e[x] = s[2 * x - 1]
      BY <1>4, <1>8, <1>9, <1>10, <2>1, <3>1
    <3>3. d[i] = 2 * x - 1
      BY <1>12, <2>1, <3>1
    <3>. QED BY <3>2, <3>3
  <2>2. CASE ~(i <= c)
    <3>1. PICK j \in 1 .. m : i = c + j
      <4>1. i - c \in 1 .. m /\ i = c + (i - c)
        BY <1>3, <2>2
      <4>. QED BY <4>1
    <3>2. t[i] = o[j] /\ o[j] = s[2 * j]
      BY <1>7, <1>9, <1>10, <3>1
    <3>3. d[i] = 2 * j
      <4>1. d[i] = 2 * (i - c)
        BY <1>12, <2>2
      <4>2. i - c = j
        BY <3>1
      <4>. QED BY <4>1, <4>2
    <3>. QED BY <3>2, <3>3
  <2>. QED BY <2>1, <2>2
<1>14. t = [i \in 1 .. n |-> s[d[i]]]
  <2>1. t = [i \in 1 .. n |-> t[i]]
    <3>1. Len(t) = n
      BY <1>9, <1>10, Zenon
    <3>2. t \in [1 .. Len(t) -> S]
      BY ListFacts
    <3>. QED BY <3>1, <3>2
  <2>. QED BY <1>13, <2>1
<1>. QED BY <1>1, <1>4, <1>7, <1>8, <1>10, <1>11, <1>14 DEF Reordered

\* Fair partitions in any order are fair.
LEMMA FairReordered ==
  ASSUME NEW R, NEW f, NEW k \in Nat, NEW gap, NEW equal_size, NEW ss, Fair(ss, R, f, k, gap, equal_size),
         NEW order, Once(order, 1 .. k)
  PROVE  Fair(Reordered(ss, order), R, f, k, gap, equal_size)
<1>1. Shares(ss, R) /\ Len(ss) = k
  BY DEF Fair
<1>2. PICK rr : rr = Reordered(ss, order)
  OBVIOUS
<1>3. Shares(rr, R) /\ Len(rr) = k
  BY <1>1, <1>2, SharesReordered DEF Reordered
<1>4. \A m \in 1 .. k : rr[m] = ss[order[m]] /\ order[m] \in 1 .. k
  <2>1. order \in Seq(1 .. k)
    BY DEF Once
  <2>2. Len(order) = k
    <3>1. k = Cardinality(1 .. k) /\ Len(order) = Cardinality(1 .. k)
      BY CountUpTo, OnceCount
    <3>. QED BY <3>1
  <2>3. \A m \in 1 .. k : order[m] \in 1 .. k
    BY <2>1, <2>2
  <2>4. rr = [m \in 1 .. k |-> ss[order[m]]]
    BY <1>1, <1>2 DEF Reordered
  <2>. QED BY <2>3, <2>4
<1>5. \A i, j \in 1 .. k : SumOf(f, rr[i]) <= SumOf(f, rr[j]) + gap
  <2>1. \A i, j \in 1 .. k : SumOf(f, ss[i]) <= SumOf(f, ss[j]) + gap
    BY DEF Fair
  <2>2. ASSUME NEW i \in 1 .. k, NEW j \in 1 .. k PROVE SumOf(f, rr[i]) <= SumOf(f, rr[j]) + gap
    <3>1. PICK a \in 1 .. k, b \in 1 .. k : a = order[i] /\ b = order[j]
      BY <1>4
    <3>2. rr[i] = ss[a] /\ rr[j] = ss[b]
      BY <1>4, <3>1
    <3>. QED BY <2>1, <3>2, Zenon
  <2>. QED BY <2>2
<1>6. \A i, j \in 1 .. k : IF equal_size THEN Len(rr[i]) = Len(rr[j]) ELSE rr[i] = <<>> => Len(rr[j]) <= 1
  <2>1. \A i, j \in 1 .. k : IF equal_size THEN Len(ss[i]) = Len(ss[j]) ELSE ss[i] = <<>> => Len(ss[j]) <= 1
    BY DEF Fair
  <2>2. ASSUME NEW i \in 1 .. k, NEW j \in 1 .. k
        PROVE  IF equal_size THEN Len(rr[i]) = Len(rr[j]) ELSE rr[i] = <<>> => Len(rr[j]) <= 1
    <3>1. PICK a \in 1 .. k, b \in 1 .. k : a = order[i] /\ b = order[j]
      BY <1>4
    <3>2. rr[i] = ss[a] /\ rr[j] = ss[b]
      BY <1>4, <3>1
    <3>3. IF equal_size THEN Len(ss[a]) = Len(ss[b]) ELSE ss[a] = <<>> => Len(ss[b]) <= 1
      BY <2>1
    <3>. QED BY <3>2, <3>3
  <2>. QED BY <2>2
<1>7. \E j \in 1 .. k : rr[j] # <<>>
  <2>1. PICK j \in 1 .. k : ss[j] # <<>>
    BY DEF Fair
  <2>2. PICK m \in 1 .. Len(order) : order[m] = j
    BY DEF Once
  <2>3. Len(order) = k
    <3>1. k = Cardinality(1 .. k) /\ Len(order) = Cardinality(1 .. k)
      BY CountUpTo, OnceCount
    <3>. QED BY <3>1
  <2>. QED BY <1>4, <2>1, <2>2, <2>3
<1>. QED BY <1>2, <1>3, <1>5, <1>6, <1>7 DEF Fair

\* The largest of some natural numbers under a bound.
LEMMA MaxIs ==
  ASSUME NEW T, T \subseteq Nat, T # {}, NEW b \in Nat, \A y \in T : y <= b
  PROVE  Max(T) \in T /\ \A y \in T : y <= Max(T)
<1>. DEFINE D == {b - y : y \in T}
<1>1. D \subseteq Nat /\ D # {}
  <2>1. \A y \in T : y \in Nat /\ b - y \in Nat
    OBVIOUS
  <2>. QED BY <2>1
<1>2. PICK d \in D : \A e \in D : d <= e
  <2>. HIDE DEF D
  <2>. QED BY <1>1, SomeLeast
<1>3. PICK x \in T : d = b - x
  OBVIOUS
<1>4. ASSUME NEW y \in T PROVE x >= y
  <2>1. b - y \in D
    OBVIOUS
  <2>2. d <= b - y
    BY <1>2, <2>1
  <2>. QED BY <1>3, <2>2
<1>5. Max(T) \in T /\ \A y \in T : Max(T) >= y
  BY <1>4 DEF Max
<1>. QED BY <1>5

\* The least of some natural numbers.
LEMMA MinIs ==
  ASSUME NEW T, T \subseteq Nat, T # {}
  PROVE  Min(T) \in T /\ \A y \in T : Min(T) <= y
<1>1. PICK x \in T : \A y \in T : x <= y
  BY SomeLeast
<1>. QED BY <1>1 DEF Min

\* More tokens are more work.
LEMMA WorkloadIs ==
  ASSUME NEW l \in Nat
  PROVE  Workload(l) \in Nat /\ \A m \in Nat : l <= m => Workload(l) <= Workload(m)
<1>1. ASSUME NEW m \in Nat, l <= m PROVE l * l <= m * m
  <2>1. PICK d \in Nat : m = l + d
    <3>1. m - l \in Nat /\ m = l + (m - l)
      BY <1>1
    <3>. QED BY <3>1
  <2>2. m * m = l * l + (2 * (l * d) + d * d)
    BY <2>1
  <2>3. l * d \in Nat /\ d * d \in Nat
    OBVIOUS
  <2>. QED BY <2>2, <2>3
<1>2. l * l \in Nat /\ \A m \in Nat : m * m \in Nat
  OBVIOUS
<1>3. ASSUME NEW m \in Nat, l <= m PROVE Workload(l) <= Workload(m)
  <2>1. PICK x \in Nat, y \in Nat : x = l * l /\ y = m * m /\ x <= y
    BY <1>1, <1>2, <1>3
  <2>2. 24576 * l + x <= 24576 * m + y
    BY <1>3, <2>1
  <2>. QED BY <2>1, <2>2 DEF Workload
<1>4. Workload(l) \in Nat
  BY <1>2 DEF Workload
<1>. QED BY <1>3, <1>4

\* The workloads of rows.
LEMMA WorkloadsAre ==
  ASSUME NEW n \in Nat, NEW ls \in [1 .. n -> Nat]
  PROVE  /\ Workloads(ls) \in [1 .. n -> Nat]
         /\ \A i \in 1 .. n : Workloads(ls)[i] = Workload(ls[i])
<1>1. PICK w : w = [i \in DOMAIN ls |-> Workload(ls[i])]
  OBVIOUS
<1>2. w \in [1 .. n -> Nat]
  <2>1. \A i \in 1 .. n : Workload(ls[i]) \in Nat
    BY WorkloadIs
  <2>. QED BY <1>1, <2>1
<1>3. w \in Seq(Nat)
  BY <1>2, ListOf
<1>4. Workloads(ls) = w
  <2>1. Workloads(ls) = Listed(w)
    BY <1>1, Zenon DEF Workloads
  <2>. QED BY <1>3, <2>1, ListedIs
<1>5. \A i \in 1 .. n : w[i] = Workload(ls[i])
  BY <1>1
<1>. QED BY <1>2, <1>4, <1>5

\* The lengths of rows lie under a bound.
Bounded(ls, n, b) == ls \in [1 .. n -> Nat] /\ \A i \in 1 .. n : ls[i] <= b

\* The largest and the smallest workload.
LEMMA WorkloadBounds ==
  ASSUME NEW n \in Nat \ {0}, NEW b \in Nat, NEW ls, Bounded(ls, n, b),
         NEW low, NEW high, low = Min(Range(Workloads(ls))), high = Max(Range(Workloads(ls)))
  PROVE  low \in Nat /\ high \in Nat /\ low <= high /\ Between(Workloads(ls), n, low, high)
<1>1. ls \in [1 .. n -> Nat] /\ \A i \in 1 .. n : ls[i] <= b
  BY DEF Bounded
<1>2. PICK w : w = Workloads(ls) /\ w \in [1 .. n -> Nat] /\ \A i \in 1 .. n : w[i] = Workload(ls[i])
  BY <1>1, WorkloadsAre
<1>3. Range(w) = {w[i] : i \in 1 .. n}
  BY <1>2 DEF Range
<1>4. Range(w) \subseteq Nat /\ Range(w) # {}
  BY <1>2, <1>3
<1>5. Workload(b) \in Nat
  BY WorkloadIs
<1>6. \A y \in Range(w) : y <= Workload(b)
  <2>1. ASSUME NEW i \in 1 .. n PROVE w[i] <= Workload(b)
    <3>1. ls[i] \in Nat /\ ls[i] <= b
      BY <1>1
    <3>. QED BY <1>2, <3>1, WorkloadIs
  <2>. QED BY <1>3, <2>1
<1>7. Max(Range(w)) \in Range(w) /\ \A y \in Range(w) : y <= Max(Range(w))
  BY <1>4, <1>5, <1>6, MaxIs
<1>8. Min(Range(w)) \in Range(w) /\ \A y \in Range(w) : Min(Range(w)) <= y
  BY <1>4, MinIs
<1>9. low \in Nat /\ high \in Nat /\ low <= high
  <2>1. low = Min(Range(w)) /\ high = Max(Range(w))
    BY <1>2
  <2>. QED BY <1>4, <1>7, <1>8, <2>1
<1>10. \A i \in 1 .. n : low <= w[i] /\ w[i] <= high
  <2>1. low = Min(Range(w)) /\ high = Max(Range(w))
    BY <1>2
  <2>2. \A i \in 1 .. n : w[i] \in Range(w)
    BY <1>3
  <2>. QED BY <1>7, <1>8, <2>1, <2>2
<1>11. Between(w, n, low, high)
  BY <1>2, <1>10 DEF Between
<1>. QED BY <1>2, <1>9, <1>11

\* rearrange_micro_batches finds at least one micro-batch, and no more than there are rows.
LEMMA NumMicroBatchesIs ==
  ASSUME NEW n \in Nat \ {0}, NEW ls \in [1 .. n -> Nat], \A i \in 1 .. n : ls[i] >= 1, NEW m \in Nat \ {0}
  PROVE  NumMicroBatches(ls, m) \in 1 .. n
<1>1. PICK rows : rows = [i \in DOMAIN ls |-> i]
  OBVIOUS
<1>2. rows = Counting(n) /\ Len(ls) = n
  <2>1. ls \in Seq(Nat) /\ Len(ls) = n /\ DOMAIN ls = 1 .. n
    BY ListOf
  <2>. QED BY <1>1, <2>1 DEF Counting
<1>3. rows \in Seq(1 .. n) /\ Len(rows) = n
  BY <1>2, CountingFacts
<1>4. PICK sum \in Nat : sum = SumOf(ls, rows)
  BY <1>3, SumIsNat
<1>5. sum >= n
  <2>1. PICK top \in Nat : \A i \in 1 .. n : ls[i] <= top
    <3>. DEFINE T == {k \in 0 .. n : \E top \in Nat : \A i \in 1 .. k : ls[i] <= top}
    <3>1. 0 \in T
      OBVIOUS
    <3>2. ASSUME NEW k \in 1 .. n, k - 1 \in T PROVE k \in T
      <4>1. PICK top \in Nat : \A i \in 1 .. k - 1 : ls[i] <= top
        BY <3>2
      <4>2. top + ls[k] \in Nat /\ \A i \in 1 .. k : ls[i] <= top + ls[k]
        BY <4>1
      <4>. QED BY <4>2
    <3>3. n \in T
      <4>1. \A k \in 0 .. n : k \in T
        <5>. HIDE DEF T
        <5>. QED BY <3>1, <3>2, InductTo
      <4>2. n \in 0 .. n
        OBVIOUS
      <4>. HIDE DEF T
      <4>. QED BY <4>1, <4>2
    <3>. QED BY <3>3
  <2>2. \A x \in 1 .. n : 1 <= ls[x] /\ ls[x] <= top
    BY <2>1
  <2>3. 1 * Len(rows) <= SumOf(ls, rows)
    BY <1>3, <2>2, SumBounds
  <2>. QED BY <1>3, <1>4, <2>3
<1>6. PICK count \in Nat : count = CeilDiv(sum, m) /\ count # 0
  <2>1. CeilDiv(sum, m) \in Nat /\ (sum = 0 <=> CeilDiv(sum, m) = 0)
    BY CeilDivIs
  <2>. QED BY <1>5, <2>1
<1>7. NumMicroBatches(ls, m) = IF count < n THEN count ELSE n
  BY <1>1, <1>2, <1>4, <1>6, Zenon DEF NumMicroBatches
<1>. QED BY <1>6, <1>7

\* Which of two micro-batches is sorted first.
Precedes(w, p, q) ==
  \/ SumOf(w, p) > SumOf(w, q)
  \/ SumOf(w, p) = SumOf(w, q) /\ FirstRow(p) > FirstRow(q)

\* An order by two numbers, the second where the first is the same.
AheadByTwo(s, g, t, h) == s > t \/ (s = t /\ g > h)

\* It is one: nothing is ahead of what is ahead of it, nor by way of a third.
LEMMA AheadByTwoOrder ==
  /\ \A s, t, g, h \in Int : AheadByTwo(s, g, t, h) => ~AheadByTwo(t, h, s, g)
  /\ \A s, t, u, g, h, i \in Int :
       ~AheadByTwo(s, g, t, h) /\ ~AheadByTwo(t, h, u, i) => ~AheadByTwo(s, g, u, i)
BY DEF AheadByTwo

\* Micro-batches can be sorted so.
LEMMA PrecedesOrder ==
  ASSUME NEW w, NEW k \in Nat, NEW parts, Len(parts) = k, DOMAIN parts = 1 .. k,
         \A j \in 1 .. k : SumOf(w, parts[j]) \in Int /\ FirstRow(parts[j]) \in Int,
         NEW before, before = {n \in Pairs(parts) : Precedes(w, parts[n[1]], parts[n[2]])}
  PROVE  WeakOrder(before, k)
<1>. DEFINE s == [j \in 1 .. k |-> SumOf(w, parts[j])]
            h == [j \in 1 .. k |-> FirstRow(parts[j])]
<1>1. \A j \in 1 .. k : s[j] \in Int /\ h[j] \in Int /\ s[j] = SumOf(w, parts[j]) /\ h[j] = FirstRow(parts[j])
  OBVIOUS
<1>. HIDE DEF s, h
<1>2. ASSUME NEW a \in 1 .. k, NEW b \in 1 .. k
      PROVE  <<a, b>> \in before <=> AheadByTwo(s[a], h[a], s[b], h[b])
  <2>1. <<a, b>> \in Pairs(parts)
    BY DEF Pairs
  <2>2. <<a, b>> \in before <=> Precedes(w, parts[a], parts[b])
    BY <2>1
  <2>3. Precedes(w, parts[a], parts[b]) <=> AheadByTwo(s[a], h[a], s[b], h[b])
    BY <1>1, Zenon DEF Precedes, AheadByTwo
  <2>. QED BY <2>2, <2>3
<1>3. \A a, b \in 1 .. k : <<a, b>> \in before => <<b, a>> \notin before
  <2>1. ASSUME NEW a \in 1 .. k, NEW b \in 1 .. k, <<a, b>> \in before PROVE <<b, a>> \notin before
    <3>1. AheadByTwo(s[a], h[a], s[b], h[b])
      BY <1>2, <2>1
    <3>2. <<b, a>> \in before <=> AheadByTwo(s[b], h[b], s[a], h[a])
      BY <1>2
    <3>3. s[a] \in Int /\ s[b] \in Int /\ h[a] \in Int /\ h[b] \in Int
      BY <1>1
    <3>4. ~AheadByTwo(s[b], h[b], s[a], h[a])
      BY <3>1, <3>3, AheadByTwoOrder, Zenon
    <3>. QED BY <3>2, <3>4
  <2>. QED BY <2>1
<1>4. \A a, b, c \in 1 .. k : <<a, b>> \notin before /\ <<b, c>> \notin before => <<a, c>> \notin before
  <2>1. ASSUME NEW a \in 1 .. k, NEW b \in 1 .. k, NEW c \in 1 .. k, <<a, b>> \notin before, <<b, c>> \notin before
        PROVE  <<a, c>> \notin before
    <3>1. ~AheadByTwo(s[a], h[a], s[b], h[b])
      BY <1>2, <2>1
    <3>2. ~AheadByTwo(s[b], h[b], s[c], h[c])
      BY <1>2, <2>1
    <3>3. s[a] \in Int /\ s[b] \in Int /\ s[c] \in Int /\ h[a] \in Int /\ h[b] \in Int /\ h[c] \in Int
      BY <1>1
    <3>4. ~AheadByTwo(s[a], h[a], s[c], h[c])
      BY <3>1, <3>2, <3>3, AheadByTwoOrder, Zenon
    <3>. QED BY <1>2, <3>4
  <2>. QED BY <2>1
<1>. QED BY <1>3, <1>4 DEF WeakOrder

\* rearrange_micro_batches, for any lengths: each row is in one micro-batch, once, none is
\* empty, and their work differs by no more than that of the largest row.
THEOREM MicroBatchesFair ==
  ASSUME NEW n \in Nat \ {0}, NEW ls, NEW w, w = Workloads(ls), NEW high \in Nat, Between(w, n, 0, high),
         NEW num \in 1 .. n
  PROVE  /\ Fair(MicroBatches(ls, num), 1 .. n, w, num, high, FALSE)
         /\ \A j \in 1 .. num : MicroBatches(ls, num)[j] # <<>>
<1>1. PICK parts : parts = BalancedPartitions(w, num, FALSE)
  OBVIOUS
<1>2. num \in Nat \ {0} /\ num <= n
  OBVIOUS
<1>3. Fair(parts, 1 .. n, w, num, high, FALSE)
  BY <1>1, <1>2, BalancedFair
<1>4. PICK R : R = 1 .. n
  OBVIOUS
<1>5. Shares(parts, R) /\ Len(parts) = num
  BY <1>3, <1>4 DEF Fair
<1>6. parts \in Seq(Seq(R)) /\ DOMAIN parts = 1 .. num
  BY <1>5 DEF Shares
<1>7. w \in [R -> Nat]
  BY <1>4 DEF Between
<1>8. ASSUME NEW j \in 1 .. num PROVE SumOf(w, parts[j]) \in Int /\ FirstRow(parts[j]) \in Int
  <2>1. PICK l \in Seq(R) : l = parts[j]
    BY <1>5, <1>6
  <2>2. parts[j] # <<>>
    BY <1>2, <1>3, FairNoneEmpty
  <2>3. Head(l) \in R
    BY <2>1, <2>2, TailFacts
  <2>4. SumOf(w, l) \in Nat
    BY <1>7, SumIsNat
  <2>. QED BY <1>4, <2>1, <2>2, <2>3, <2>4 DEF FirstRow
<1>9. PICK before : before = {q \in Pairs(parts) : Precedes(w, parts[q[1]], parts[q[2]])}
  OBVIOUS
<1>10. WeakOrder(before, Len(parts))
  BY <1>2, <1>5, <1>6, <1>8, <1>9, PrecedesOrder
<1>11. PICK order : Sorts(order, before, Len(parts)) /\ Sort(parts, before) = [m \in 1 .. Len(parts) |-> parts[order[m]]]
  <2>1. PICK S : S = Seq(R)
    OBVIOUS
  <2>2. parts \in Seq(S)
    BY <1>6, <2>1
  <2>. QED BY <1>10, <2>2, SortIs
<1>12. Once(order, 1 .. num)
  BY <1>5, <1>11 DEF Sorts
<1>13. PICK sorted : sorted = Sort(parts, before)
  OBVIOUS
<1>14. sorted = Reordered(parts, order)
  BY <1>11, <1>13 DEF Reordered
<1>15. Fair(sorted, R, w, num, high, FALSE)
  BY <1>2, <1>3, <1>4, <1>12, <1>14, FairReordered
<1>16. sorted \in Seq(Seq(R)) /\ Len(sorted) = num
  BY <1>15 DEF Fair, Shares
<1>17. PICK mb : mb = Reverse(Evens(sorted)) \o Odds(sorted)
  OBVIOUS
<1>18. mb = Reordered(sorted, Outward(num))
  BY <1>16, <1>17, OutwardIs
<1>19. Once(Outward(num), 1 .. num)
  BY <1>2, OutwardOnce
<1>20. Fair(mb, 1 .. n, w, num, high, FALSE)
  BY <1>2, <1>4, <1>15, <1>18, <1>19, FairReordered
<1>21. \A j \in 1 .. num : mb[j] # <<>>
  BY <1>2, <1>20, FairNoneEmpty
<1>22. MicroBatches(ls, num) = mb
  BY <1>1, <1>9, <1>13, <1>17, Zenon DEF MicroBatches, Precedes
<1>. QED BY <1>20, <1>21, <1>22

\* Lists of the same length, joined and cut again.
LEMMA SlicesOfFlatten ==
  ASSUME NEW S, NEW ss \in Seq(Seq(S)), NEW c \in Nat \ {0}, \A j \in 1 .. Len(ss) : Len(ss[j]) = c
  PROVE  Slices(FlattenSeq(ss), c) = ss
<1>1. PICK k \in Nat : k = Len(ss)
  BY ListFacts
<1>2. PICK flat \in Seq(S) : flat = FlattenSeq(ss) /\ Len(flat) = c * k
  BY <1>1, FlattenLocated, EqualLength
<1>3. PICK o : Offsets(ss, o)
  BY FlattenLocated
<1>4. Located(ss, flat, o)
  BY <1>2, <1>3, FlattenAt
<1>5. \A j \in 0 .. k : o[j] = c * j
  <2>1. \A j \in 0 .. Len(ss) : o[j] = c * j
    BY <1>3, EqualOffsets
  <2>. QED BY <1>1, <2>1
<1>6. CeilDiv(Len(flat), c) = k
  <2>1. PICK a \in Nat : a = c * k
    OBVIOUS
  <2>2. CeilDiv(a, c) = k
    BY <2>1, CeilDivUnique
  <2>. QED BY <1>2, <2>1, <2>2
<1>7. PICK tt : tt = Slices(flat, c)
  OBVIOUS
<1>8. tt \in Seq(Seq(S)) /\ Cut(tt, flat, c)
  BY <1>7, SlicesAre
<1>9. Len(tt) = k
  BY <1>6, <1>8 DEF Cut
<1>10. ASSUME NEW j \in 1 .. k PROVE tt[j] = ss[j]
  <2>1. c * j <= Len(flat)
    <3>1. \A x, y \in Nat : x <= y => c * x <= c * y
      OBVIOUS
    <3>2. j \in Nat /\ j <= k
      OBVIOUS
    <3>3. c * j <= c * k
      BY <3>1, <3>2
    <3>. QED BY <1>2, <3>3
  <2>2. Len(tt[j]) = c
    BY <1>6, <1>8, <2>1 DEF Cut
  <2>3. tt[j] \in Seq(S) /\ ss[j] \in Seq(S) /\ Len(ss[j]) = c
    BY <1>1, <1>8, <1>9
  <2>4. ASSUME NEW i \in 1 .. c PROVE tt[j][i] = ss[j][i]
    <3>1. PICK x \in Nat : x = c * (j - 1) + i
      OBVIOUS
    <3>2. tt[j][i] = flat[x]
      <4>1. \A m \in 1 .. Len(tt[j]) : tt[j][m] = flat[c * (j - 1) + m]
        BY <1>6, <1>8 DEF Cut
      <4>. QED BY <2>2, <3>1, <4>1
    <3>3. o[j - 1] = c * (j - 1)
      BY <1>5
    <3>4. flat[o[j - 1] + i] = ss[j][i]
      BY <1>1, <1>4, <2>3 DEF Located
    <3>5. o[j - 1] + i = x
      BY <3>1, <3>3
    <3>. QED BY <3>2, <3>4, <3>5
  <2>. QED BY <2>2, <2>3, <2>4, SameLists
<1>11. tt = ss
  BY <1>1, <1>8, <1>9, <1>10, SameLists
<1>. QED BY <1>2, <1>7, <1>11

\* Each of the lists has its own rows once.
LEMMA SharesMembers ==
  ASSUME NEW R, NEW ss, Shares(ss, R), NEW j \in 1 .. Len(ss)
  PROVE  Once(ss[j], MembersOf(ss[j])) /\ ss[j] \in Seq(R)
<1>1. ss \in Seq(Seq(R))
  BY DEF Shares
<1>2. PICK l \in Seq(R) : l = ss[j]
  BY <1>1
<1>3. Len(l) \in Nat /\ \A i \in 1 .. Len(l) : l[i] \in MembersOf(l)
  BY DEF MembersOf
<1>4. l \in Seq(MembersOf(l))
  <2>1. l \in [1 .. Len(l) -> MembersOf(l)]
    BY <1>3
  <2>. QED BY <1>3, <2>1, ListOf
<1>5. \A x \in MembersOf(l) : \E n \in 1 .. Len(l) : l[n] = x
  BY DEF MembersOf
<1>6. \A m, n \in 1 .. Len(l) : l[m] = l[n] => m = n
  <2>1. \A a, b \in 1 .. Len(ss) : \A m \in 1 .. Len(ss[a]) : \A n \in 1 .. Len(ss[b]) :
          ss[a][m] = ss[b][n] => a = b /\ m = n
    BY DEF Shares
  <2>2. \A m \in 1 .. Len(ss[j]) : \A n \in 1 .. Len(ss[j]) : ss[j][m] = ss[j][n] => m = n
    BY <2>1
  <2>. QED BY <1>2, <2>2
<1>7. Once(l, MembersOf(l))
  BY <1>4, <1>5, <1>6 DEF Once
<1>. QED BY <1>2, <1>7

\* Partitions stay fair with their small rows at both ends.
LEMMA InwardFair ==
  ASSUME NEW R, NEW f \in [R -> Nat], NEW k \in Nat, NEW gap \in Nat, NEW equal_size \in BOOLEAN,
         NEW ss, Fair(ss, R, f, k, gap, equal_size),
         NEW tt, tt = [d \in 1 .. k |-> Evens(ss[d]) \o Reverse(Odds(ss[d]))]
  PROVE  Fair(tt, R, f, k, gap, equal_size)
<1>1. Shares(ss, R) /\ Len(ss) = k
  BY DEF Fair
<1>2. ASSUME NEW d \in 1 .. k
      PROVE  /\ tt[d] \in Seq(R) /\ Len(tt[d]) = Len(ss[d])
             /\ Once(ss[d], MembersOf(ss[d])) /\ Once(tt[d], MembersOf(ss[d]))
  <2>1. Once(ss[d], MembersOf(ss[d])) /\ ss[d] \in Seq(R)
    BY <1>1, SharesMembers
  <2>2. PICK l \in Seq(R) : l = ss[d]
    BY <2>1
  <2>3. PICK V : V = MembersOf(l)
    OBVIOUS
  <2>4. PICK r : r = Reordered(l, Inward(Len(l)))
    OBVIOUS
  <2>5. tt[d] = r
    BY <2>2, <2>4, InwardIs
  <2>6. Once(Inward(Len(l)), 1 .. Len(l))
    BY ListFacts, InwardOnce
  <2>7. Once(l, V)
    BY <2>1, <2>2, <2>3
  <2>8. Once(r, V) /\ Len(r) = Len(l)
    BY <2>4, <2>6, <2>7, ReorderedOnce
  <2>9. r \in Seq(R)
    <3>1. r = [m \in 1 .. Len(l) |-> l[Inward(Len(l))[m]]]
      BY <2>4 DEF Reordered
    <3>2. Inward(Len(l)) \in Seq(1 .. Len(l)) /\ Len(Inward(Len(l))) = Len(l)
      BY <2>6, ListFacts, InwardOnce DEF Once
    <3>3. PICK order \in Seq(1 .. Len(l)) : order = Inward(Len(l)) /\ Len(order) = Len(l)
      BY <3>2, Zenon
    <3>4. \A m \in 1 .. Len(l) : Inward(Len(l))[m] \in 1 .. Len(l)
      BY <3>3, ListFacts
    <3>5. r \in [1 .. Len(l) -> R]
      BY <3>1, <3>4
    <3>. QED BY <3>5, ListFacts, ListOf
  <2>10. tt[d] \in Seq(R) /\ Len(tt[d]) = Len(ss[d])
    BY <2>2, <2>5, <2>8, <2>9
  <2>11. Once(ss[d], MembersOf(ss[d])) /\ Once(tt[d], MembersOf(ss[d]))
    BY <2>1, <2>2, <2>3, <2>5, <2>8
  <2>. QED BY <2>10, <2>11
<1>3. tt \in Seq(Seq(R)) /\ Len(tt) = k
  <2>1. tt = [d \in 1 .. k |-> tt[d]]
    OBVIOUS
  <2>2. tt \in [1 .. k -> Seq(R)]
    BY <1>2, <2>1
  <2>. QED BY <2>2, ListOf
<1>4. Alike(ss, tt, R)
  BY <1>1, <1>2, <1>3 DEF Alike
<1>. QED BY <1>3, <1>4, AlikeFair

\* Equal partitions sorted by their workloads, the small rows at both ends.
Evened(parts, equal, w, k) ==
  parts = [d \in 1 .. k |->
    Evens(SortBy(equal[d], [i \in DOMAIN equal[d] |-> w[equal[d][i]]])) \o
    Reverse(Odds(SortBy(equal[d], [i \in DOMAIN equal[d] |-> w[equal[d][i]]])))]

\* _balance_batch without groups: as fair as the partitions it is given.
LEMMA EvenParts ==
  ASSUME NEW n \in Nat \ {0}, NEW k \in Nat \ {0}, n % k = 0,
         NEW w, NEW low \in Nat, NEW high \in Nat, low <= high, Between(w, n, low, high),
         NEW parts, Evened(parts, BalancedPartitions(w, k, TRUE), w, k)
  PROVE  Fair(parts, 1 .. n, w, k, high - low, TRUE)
<1>1. PICK equal : equal = BalancedPartitions(w, k, TRUE)
  OBVIOUS
<1>2. PICK gap \in Nat : gap = high - low
  <2>1. high - low \in Nat
    OBVIOUS
  <2>. QED BY <2>1
<1>3. Fair(equal, 1 .. n, w, k, gap, TRUE)
  BY <1>1, <1>2, BalancedFair
<1>4. PICK R : R = 1 .. n
  OBVIOUS
<1>5. Numbers(R) /\ w \in [R -> Nat]
  BY <1>4 DEF Numbers, Between
<1>6. PICK keys : keys = [d \in 1 .. k |-> [i \in DOMAIN equal[d] |-> w[equal[d][i]]]]
  OBVIOUS
<1>7. PICK tt : tt = [d \in 1 .. k |-> SortBy(equal[d], keys[d])]
  OBVIOUS
<1>8. Shares(equal, R) /\ Len(equal) = k
  BY <1>3, <1>4 DEF Fair
<1>9. SortedBy(tt, equal, keys, k)
  <2>1. ASSUME NEW d \in 1 .. k, NEW i \in 1 .. Len(equal[d]) PROVE keys[d][i] \in Int
    <3>1. PICK l \in Seq(R) : l = equal[d]
      BY <1>8, SharesMembers
    <3>2. i \in 1 .. Len(l) /\ DOMAIN l = 1 .. Len(l)
      <4>1. i \in 1 .. Len(l)
        BY <2>1, <3>1, Zenon
      <4>2. DOMAIN l = 1 .. Len(l)
        BY ListFacts
      <4>. QED BY <4>1, <4>2
    <3>3. l[i] \in R
      BY <3>2, ListFacts
    <3>4. keys[d] = [m \in DOMAIN l |-> w[l[m]]]
      BY <1>6, <3>1
    <3>5. \A m \in DOMAIN l : keys[d][m] = w[l[m]]
      BY <3>4
    <3>6. keys[d][i] = w[l[i]]
      BY <3>2, <3>5
    <3>. QED BY <1>5, <3>3, <3>6
  <2>. QED BY <1>7, <2>1 DEF SortedBy
<1>10. Fair(tt, R, w, k, gap, TRUE)
  <2>1. Fair(equal, R, w, k, gap, TRUE)
    BY <1>3, <1>4
  <2>. QED BY <1>5, <1>9, <2>1, SortedFair
<1>11. parts = [d \in 1 .. k |-> Evens(tt[d]) \o Reverse(Odds(tt[d]))]
  <2>1. \A d \in 1 .. k : tt[d] = SortBy(equal[d], [i \in DOMAIN equal[d] |-> w[equal[d][i]]])
    BY <1>6, <1>7
  <2>. QED BY <1>1, <2>1 DEF Evened
<1>12. PICK pp : pp = [d \in 1 .. k |-> Evens(tt[d]) \o Reverse(Odds(tt[d]))]
  OBVIOUS
<1>13. Fair(pp, R, w, k, gap, TRUE)
  BY <1>5, <1>10, <1>12, InwardFair
<1>. QED BY <1>2, <1>4, <1>11, <1>12, <1>13

\* Rows selected by their positions, in lists that share the positions out.
LEMMA MappedIs ==
  ASSUME NEW R, NEW list \in Seq(R), NEW n \in Nat, n = Len(list), NEW idx, Shares(idx, 1 .. n)
  PROVE  /\ Mapped(list, idx) \in Seq(Seq(R)) /\ Len(Mapped(list, idx)) = Len(idx)
         /\ FlattenSeq(Mapped(list, idx)) = Reordered(list, FlattenSeq(idx))
         /\ Once(FlattenSeq(idx), 1 .. n) /\ Len(FlattenSeq(idx)) = n
<1>1. PICK Q : Q = 1 .. n
  OBVIOUS
<1>2. idx \in Seq(Seq(Q)) /\ Shares(idx, Q)
  BY <1>1 DEF Shares
<1>3. list \in [Q -> R]
  BY <1>1, ListFacts
<1>4. PICK tt : tt = Mapped(list, idx)
  OBVIOUS
<1>5. MapsTo(tt, R, idx, list)
  <2>1. MapsTo(Mapped(list, idx), R, idx, list)
    BY <1>2, <1>3, FlattenMapped
  <2>. QED BY <1>4, <2>1
<1>6. PICK flat \in Seq(Q) : flat = FlattenSeq(idx)
  BY <1>2, FlattenLocated
<1>7. tt \in Seq(Seq(R)) /\ Len(tt) = Len(idx)
  BY <1>5 DEF MapsTo
<1>8. PICK ff \in Seq(R) : ff = FlattenSeq(tt)
  BY <1>7, FlattenLocated
<1>9. Len(FlattenSeq(tt)) = Len(FlattenSeq(idx))
  BY <1>5 DEF MapsTo
<1>10. \A m \in 1 .. Len(FlattenSeq(idx)) : FlattenSeq(tt)[m] = list[FlattenSeq(idx)[m]]
  BY <1>5 DEF MapsTo
<1>11. Len(flat) = n /\ Once(flat, 1 .. n)
  BY <1>1, <1>2, <1>6, SharesLength, FlattenShares
<1>12. ff = [m \in 1 .. n |-> list[flat[m]]]
  <2>1. Len(ff) = n /\ \A m \in 1 .. n : ff[m] = list[flat[m]]
    BY <1>6, <1>8, <1>9, <1>10, <1>11
  <2>2. ff = [m \in 1 .. n |-> ff[m]]
    BY <2>1, ListFacts
  <2>. QED BY <2>1, <2>2
<1>13. ff = Reordered(list, flat)
  BY <1>12 DEF Reordered
<1>. QED BY <1>4, <1>6, <1>7, <1>8, <1>11, <1>13

\* restore_dynamic_batch undoes rearrange_micro_batches: results that are joined in the order
\* of micro-batches come back in the order of rows, however the rows were shared out.
THEOREM RestoreIs ==
  ASSUME NEW R, NEW list \in Seq(R), NEW n \in Nat, n = Len(list), NEW idx, Shares(idx, 1 .. n)
  PROVE  Restore(FlattenSeq(Mapped(list, idx)), idx) = list
<1>1. PICK flat : flat = FlattenSeq(idx) /\ Once(flat, 1 .. n) /\ Len(flat) = n
  BY MappedIs
<1>2. PICK data : data = Reordered(list, flat)
  OBVIOUS
<1>3. FlattenSeq(Mapped(list, idx)) = data
  BY <1>1, <1>2, MappedIs
<1>4. DOMAIN flat = 1 .. n /\ \A j \in 1 .. n : \E i \in 1 .. n : flat[i] = j
  BY <1>1 DEF Once
<1>5. PICK rev : rev = [j \in 1 .. n |-> CHOOSE i \in 1 .. n : flat[i] = j]
  OBVIOUS
<1>6. ReverseIdx(flat) = rev
  BY <1>4, <1>5, Zenon DEF ReverseIdx
<1>7. \A j \in 1 .. n : rev[j] \in 1 .. n /\ flat[rev[j]] = j
  BY <1>4, <1>5
<1>8. DOMAIN data = 1 .. n /\ \A m \in 1 .. n : data[m] = list[flat[m]]
  BY <1>2 DEF Reordered
<1>9. Restore(data, idx) = [j \in 1 .. n |-> data[rev[j]]]
  BY <1>1, <1>6, <1>8, Zenon DEF Restore
<1>10. \A j \in 1 .. n : data[rev[j]] = list[j]
  BY <1>7, <1>8
<1>11. list = [j \in 1 .. n |-> list[j]]
  BY ListFacts
<1>. QED BY <1>3, <1>9, <1>10, <1>11

\* Without dynamic batches rows stay in their order.
LEMMA PlainSlices ==
  ASSUME NEW R, NEW list \in Seq(R), NEW n \in Nat, n = Len(list), NEW m \in Nat \ {0}
  PROVE  /\ Shares(Slices(Counting(n), m), 1 .. n) /\ Len(Slices(Counting(n), m)) = CeilDiv(n, m)
         /\ FlattenSeq(Mapped(list, Slices(Counting(n), m))) = list
<1>1. PICK s \in Seq(1 .. n) : s = Counting(n) /\ Len(s) = n /\ Once(s, 1 .. n) /\ \A i \in 1 .. n : s[i] = i
  BY CountingFacts
<1>2. Shares(Slices(s, m), 1 .. n)
  BY <1>1, SlicesShare
<1>3. Cut(Slices(s, m), s, m) /\ FlattenSeq(Slices(s, m)) = s
  BY SlicesAre
<1>4. Len(Slices(s, m)) = CeilDiv(n, m)
  BY <1>1, <1>3 DEF Cut
<1>5. FlattenSeq(Mapped(list, Slices(s, m))) = Reordered(list, s)
  BY <1>2, <1>3, MappedIs
<1>6. Reordered(list, s) = list
  <2>1. list = [i \in 1 .. n |-> list[i]]
    BY ListFacts
  <2>2. Reordered(list, s) = [i \in 1 .. n |-> list[s[i]]]
    BY DEF Reordered
  <2>. QED BY <1>1, <2>1, <2>2
<1>. QED BY <1>1, <1>2, <1>4, <1>5, <1>6

\* Of every sp ranks the first gives a piece of the list, the others nothing.
Gathered(ss, list, c, sp, R) ==
  /\ ss \in Seq(Seq(R))
  /\ \A i \in 1 .. Len(ss) : ss[i] = IF (i - 1) % sp = 0 THEN Slices(list, c)[((i - 1) \div sp) + 1] ELSE <<>>

\* The rest of a division by b.
LEMMA ModIs ==
  ASSUME NEW b \in Nat \ {0}, NEW q \in Nat, NEW r \in Nat, r < b
  PROVE  (b * q + r) % b = r
<1>1. PICK a \in Nat : a = b * q + r
  OBVIOUS
<1>2. a \div b = q
  BY <1>1, DivUnique
<1>3. a % b = a - b * (a \div b)
  OBVIOUS
<1>4. a % b = a - b * q
  BY <1>2, <1>3
<1>. QED BY <1>1, <1>4

\* D pieces of the same size c.
Exactly(pp, list, c, D, R) ==
  /\ pp \in Seq(Seq(R)) /\ Len(pp) = D
  /\ \A d \in 1 .. D : /\ pp[d] \in Seq(R) /\ Len(pp[d]) = c
                       /\ \A i \in 1 .. c : pp[d][i] = list[c * (d - 1) + i]

\* c * D rows are cut into D pieces of c.
LEMMA ExactSlices ==
  ASSUME NEW R, NEW list \in Seq(R), NEW c \in Nat \ {0}, NEW D \in Nat, Len(list) = c * D
  PROVE  Exactly(Slices(list, c), list, c, D, R)
<1>1. PICK ss : ss = Slices(list, c)
  OBVIOUS
<1>2. ss \in Seq(Seq(R)) /\ Cut(ss, list, c)
  BY <1>1, SlicesAre
<1>3. CeilDiv(Len(list), c) = D
  <2>1. PICK a \in Nat : a = c * D
    OBVIOUS
  <2>2. CeilDiv(a, c) = D
    BY <2>1, CeilDivUnique
  <2>. QED BY <2>1, <2>2
<1>4. Len(ss) = D
  BY <1>2, <1>3 DEF Cut
<1>5. ASSUME NEW d \in 1 .. D
      PROVE  Len(ss[d]) = c /\ \A i \in 1 .. c : ss[d][i] = list[c * (d - 1) + i]
  <2>1. c * d <= Len(list)
    <3>1. \A x, y \in Nat : x <= y => c * x <= c * y
      OBVIOUS
    <3>2. d \in Nat /\ d <= D
      OBVIOUS
    <3>3. c * d <= c * D
      BY <3>1, <3>2
    <3>. QED BY <3>3
  <2>2. Len(ss[d]) = c
    BY <1>2, <1>3, <2>1 DEF Cut
  <2>3. \A i \in 1 .. Len(ss[d]) : ss[d][i] = list[c * (d - 1) + i]
    BY <1>2, <1>3 DEF Cut
  <2>. QED BY <2>2, <2>3
<1>6. Exactly(ss, list, c, D, R)
  <2>1. \A d \in 1 .. D : ss[d] \in Seq(R)
    BY <1>2, <1>4
  <2>. QED BY <1>2, <1>4, <1>5, <2>1 DEF Exactly
<1>. QED BY <1>1, <1>6

\* What the first of every sp ranks sends, joined, is the list that was cut.
LEMMA GatheredIs ==
  ASSUME NEW R, NEW list \in Seq(R), NEW c \in Nat \ {0}, NEW D \in Nat \ {0}, NEW sp \in Nat \ {0},
         Len(list) = c * D, NEW ss, Gathered(ss, list, c, sp, R), Len(ss) = D * sp
  PROVE  FlattenSeq(ss) = list
<1>1. PICK pp : pp = Slices(list, c)
  OBVIOUS
<1>2. Exactly(pp, list, c, D, R)
  BY <1>1, ExactSlices
<1>3. ASSUME NEW d \in 1 .. D
      PROVE  pp[d] \in Seq(R) /\ Len(pp[d]) = c /\ \A i \in 1 .. c : pp[d][i] = list[c * (d - 1) + i]
  BY <1>2 DEF Exactly
<1>4. PICK N \in Nat : N = D * sp /\ Len(ss) = N /\ ss \in Seq(Seq(R))
  BY DEF Gathered
<1>. DEFINE o == [i \in 0 .. N |-> c * CeilDiv(i, sp)]
<1>5. ASSUME NEW i \in 1 .. N
      PROVE  \E q \in Nat : \/ /\ q + 1 \in 1 .. D /\ ss[i] = pp[q + 1]
                               /\ CeilDiv(i - 1, sp) = q /\ CeilDiv(i, sp) = q + 1
                            \/ ss[i] = <<>> /\ CeilDiv(i - 1, sp) = q + 1 /\ CeilDiv(i, sp) = q + 1
  <2>1. PICK j \in Nat : j = i - 1
    OBVIOUS
  <2>2. PICK q \in Nat, r \in Nat : j = sp * q + r /\ r < sp /\ j \div sp = q
    BY DivIs
  <2>3. j % sp = r
    BY <2>2, ModIs
  <2>4. i = sp * q + (r + 1) /\ i \in Nat
    BY <2>1, <2>2
  <2>5. PICK t \in Nat : t = sp * (q + 1) /\ t = sp * q + sp
    OBVIOUS
  <2>6. i <= t /\ t < i + sp
    BY <2>2, <2>4, <2>5
  <2>7. CeilDiv(i, sp) = q + 1
    BY <2>4, <2>5, <2>6, CeilDivUnique
  <2>8. ss[i] = IF j % sp = 0 THEN pp[(j \div sp) + 1] ELSE <<>>
    BY <1>1, <1>4, <2>1 DEF Gathered
  <2>9. CASE r = 0
    <3>1. CeilDiv(j, sp) = q
      BY <2>2, <2>9, CeilDivUnique
    <3>2. q + 1 \in 1 .. D
      <4>1. PICK a \in Nat, b \in Nat : a = sp * q /\ b = sp * D /\ b = N
        <5>1. sp * D = D * sp
          OBVIOUS
        <5>. QED BY <1>4, <5>1
      <4>2. sp * q < sp * D
        <5>1. i = a + (r + 1) /\ i <= b
          BY <2>4, <4>1
        <5>. QED BY <4>1, <5>1
      <4>3. \A x, y \in Nat : x >= y => sp * x >= sp * y
        OBVIOUS
      <4>4. ~(q >= D)
        BY <4>2, <4>3
      <4>. QED BY <4>4
    <3>3. ss[i] = pp[q + 1]
      BY <2>2, <2>3, <2>8, <2>9
    <3>. QED BY <2>1, <2>7, <3>1, <3>2, <3>3
  <2>10. CASE r # 0
    <3>1. j <= t /\ t < j + sp
      BY <2>2, <2>5, <2>10
    <3>2. CeilDiv(j, sp) = q + 1
      BY <2>5, <3>1, CeilDivUnique
    <3>3. ss[i] = <<>>
      BY <2>3, <2>8, <2>10
    <3>. QED BY <2>1, <2>7, <3>2, <3>3
  <2>. QED BY <2>9, <2>10
<1>6. ASSUME NEW i \in 0 .. N PROVE CeilDiv(i, sp) \in Nat /\ o[i] = c * CeilDiv(i, sp)
  <2>1. i \in Nat
    OBVIOUS
  <2>2. CeilDiv(i, sp) \in Nat
    BY <2>1, CeilDivIs
  <2>. QED BY <2>2
<1>7. o \in [0 .. N -> Nat] /\ o[0] = 0
  <2>1. CeilDiv(0, sp) = 0
    BY CeilDivIs
  <2>2. \A i \in 0 .. N : c * CeilDiv(i, sp) \in Nat
    BY <1>6
  <2>. QED BY <2>1, <2>2
<1>. HIDE DEF o
<1>8. ASSUME NEW i \in 1 .. N
      PROVE  /\ o[i] = o[i - 1] + Len(ss[i])
             /\ \A m \in 1 .. Len(ss[i]) : ss[i][m] = list[o[i - 1] + m]
  <2>1. PICK q \in Nat : \/ /\ q + 1 \in 1 .. D /\ ss[i] = pp[q + 1]
                            /\ CeilDiv(i - 1, sp) = q /\ CeilDiv(i, sp) = q + 1
                         \/ ss[i] = <<>> /\ CeilDiv(i - 1, sp) = q + 1 /\ CeilDiv(i, sp) = q + 1
    BY <1>5
  <2>2. o[i] = c * CeilDiv(i, sp) /\ o[i - 1] = c * CeilDiv(i - 1, sp)
    BY <1>6
  <2>3. CASE q + 1 \in 1 .. D /\ ss[i] = pp[q + 1] /\ CeilDiv(i - 1, sp) = q /\ CeilDiv(i, sp) = q + 1
    <3>1. PICK d \in 1 .. D : d = q + 1
      BY <2>3
    <3>2. Len(ss[i]) = c /\ \A m \in 1 .. c : ss[i][m] = list[c * (d - 1) + m]
      BY <1>3, <2>3, <3>1
    <3>3. o[i] = c * (q + 1) /\ o[i - 1] = c * q
      BY <2>2, <2>3
    <3>4. d - 1 = q /\ c * (q + 1) = c * q + c
      BY <3>1
    <3>. QED BY <3>2, <3>3, <3>4
  <2>4. CASE ss[i] = <<>> /\ CeilDiv(i - 1, sp) = q + 1 /\ CeilDiv(i, sp) = q + 1
    <3>1. Len(ss[i]) = 0
      BY <2>4
    <3>2. o[i] = o[i - 1] /\ o[i] \in Nat
      BY <1>7, <2>2, <2>4
    <3>. QED BY <3>1, <3>2
  <2>. QED BY <2>1, <2>3, <2>4
<1>9. Offsets(ss, o)
  BY <1>4, <1>7, <1>8 DEF Offsets
<1>10. PICK flat \in Seq(R) : flat = FlattenSeq(ss)
  BY <1>4, FlattenLocated
<1>11. Located(ss, flat, o)
  BY <1>4, <1>9, <1>10, FlattenAt
<1>12. Len(flat) = Len(list)
  <2>1. CeilDiv(N, sp) = D
    <3>1. N <= sp * D /\ sp * D < N + sp
      BY <1>4
    <3>. QED BY <3>1, CeilDivUnique
  <2>2. o[N] = c * D
    BY <1>6, <2>1
  <2>3. Len(flat) = o[N]
    BY <1>4, <1>11 DEF Located
  <2>. QED BY <2>2, <2>3
<1>13. ASSUME NEW n \in 1 .. Len(flat) PROVE flat[n] = list[n]
  <2>1. PICK k \in 1 .. Len(ss) : \E i \in 1 .. Len(ss[k]) : n = o[k - 1] + i
    BY <1>11 DEF Located
  <2>2. PICK i \in 1 .. Len(ss[k]) : n = o[k - 1] + i
    BY <2>1
  <2>3. flat[n] = ss[k][i]
    BY <1>11, <2>2 DEF Located
  <2>4. ss[k][i] = list[o[k - 1] + i]
    BY <1>4, <1>8
  <2>. QED BY <2>2, <2>3, <2>4
<1>14. flat = list
  BY <1>12, <1>13, SameLists
<1>. QED BY <1>10, <1>14
==================================================================================
