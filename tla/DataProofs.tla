------------------------------ MODULE DataProofs ------------------------------
(***************************************************************************)
(* Facts about the data the models are built from, for sequences and sets  *)
(* of any size: the least and the greatest number of a set, a counted      *)
(* interval that is shifted, and the sequence FlattenSeq makes of a        *)
(* sequence of sequences.  Where a fact needs induction it is proved from  *)
(* a least counterexample, which LeastNumber provides.                     *)
(***************************************************************************)
EXTENDS Naturals, SequencesExt, FiniteSetTheorems, WellFoundedInduction, TLAPS

(* Every set of numbers that is not empty has a least one. *)
LEMMA LeastNumber ==
  ASSUME NEW T \in SUBSET Nat, T # {}
  PROVE  \E n \in T : \A m \in T : n <= m
  <1>1. \E R : IsWellFoundedOn(R, Nat) /\ \A x, y \in Nat : x < y => <<x, y>> \in R
    <2>1. \A x, y \in Nat : x < y => <<x, y>> \in OpToRel(<, Nat)
      BY DEF OpToRel
    <2> QED
      BY <2>1, NatLessThanWellFounded
  <1>2. PICK R : IsWellFoundedOn(R, Nat) /\ \A x, y \in Nat : x < y => <<x, y>> \in R
    BY <1>1
  <1>3. \E n \in T : \A m \in T : ~ (<<m, n>> \in R)
    <2>1. IsWellFoundedOn(R, Nat) /\ T \subseteq Nat /\ T # {}
      BY <1>2
    <2> QED
      BY <2>1, WFMin
  <1>4. PICK n \in T : \A m \in T : ~ (<<m, n>> \in R)
    BY <1>3
  <1>5. \A m \in T : ~ (m < n)
    BY <1>2, <1>4
  <1> QED
    BY <1>4, <1>5

(* Induction, stated for a set: one that holds lo and the successor of     *)
(* every number it holds, up to hi, holds all of lo .. hi.                 *)
LEMMA NumberInduction ==
  ASSUME NEW lo \in Nat, NEW hi \in Nat, NEW G,
         \A k \in lo .. hi : k = lo \/ k - 1 \in G => k \in G
  PROVE  \A k \in lo .. hi : k \in G
  <1> DEFINE T == {k \in lo .. hi : k \notin G}
  <1>1. T \in SUBSET Nat /\ \A k \in T : k \in lo .. hi /\ k \notin G
    OBVIOUS
  <1>2. \A k \in lo .. hi : k \notin T => k \in G
    OBVIOUS
  <1> HIDE DEF T
  <1>3. T = {}
    <2> SUFFICES ASSUME T # {} PROVE FALSE
      OBVIOUS
    <2>1. PICK k \in T : \A m \in T : k <= m
      BY <1>1, LeastNumber
    <2>2. k \in lo .. hi /\ k # lo /\ k - 1 \notin G
      BY <1>1, <2>1
    <2>3. k - 1 \in lo .. hi /\ k - 1 \in T /\ ~ (k <= k - 1)
      BY <1>2, <2>2
    <2> QED
      BY <2>1, <2>3
  <1> QED
    BY <1>2, <1>3

LEMMA MinIsLeast ==
  ASSUME NEW T \in SUBSET Nat, T # {}
  PROVE  Min(T) \in T /\ \A m \in T : Min(T) <= m
  BY LeastNumber DEF Min

(* A bounded set of numbers has a greatest one, which is what Max chooses. *)
LEMMA MaxIsGreatest ==
  ASSUME NEW T \in SUBSET Nat, T # {}, NEW b \in Nat, \A m \in T : m <= b
  PROVE  Max(T) \in T /\ \A m \in T : m <= Max(T)
  <1> DEFINE U == {k \in Nat : \E m \in T : k + m = b}
  <1>1. \A m \in T : b - m \in Nat /\ b - m \in U
    OBVIOUS
  <1>2. U \in SUBSET Nat /\ U # {}
    BY <1>1
  <1> HIDE DEF U
  <1>3. PICK k \in U : \A m \in U : k <= m
    BY <1>2, LeastNumber
  <1>4. PICK g \in T : k + g = b
    BY <1>3 DEF U
  <1>5. \A m \in T : g >= m
    BY <1>1, <1>2, <1>3, <1>4
  <1> QED
    BY <1>5 DEF Max

(* There is one greatest number only.                                      *)
LEMMA MaxIs ==
  ASSUME NEW T \in SUBSET Nat, NEW g \in T, \A m \in T : g >= m
  PROVE  Max(T) = g
  <1>1. Max(T) \in T /\ \A m \in T : Max(T) >= m
    BY DEF Max
  <1>2. Max(T) \in Nat /\ g \in Nat /\ Max(T) >= g /\ Max(T) <= g
    BY <1>1
  <1> QED
    BY <1>2

LEMMA MinIs ==
  ASSUME NEW T \in SUBSET Nat, NEW g \in T, \A m \in T : g <= m
  PROVE  Min(T) = g
  <1>1. Min(T) \in T /\ \A m \in T : Min(T) =< m
    BY DEF Min
  <1>2. Min(T) \in Nat /\ g \in Nat /\ Min(T) <= g /\ g <= Min(T)
    BY <1>1
  <1> QED
    BY <1>2

(* Sets of numbers that are equal up to a shift have as many elements.     *)
LEMMA ShiftedCardinality ==
  ASSUME NEW S \in SUBSET Nat, NEW T \in SUBSET Nat, NEW d \in Nat, IsFiniteSet(S),
         \A j \in S : d + j \in T, \A k \in T : \E j \in S : k = d + j
  PROVE  Cardinality(T) = Cardinality(S)
  <1> DEFINE f == [j \in S |-> d + j]
  <1>1. f \in Bijection(S, T)
    <2>1. f \in [S -> T]
      OBVIOUS
    <2>2. \A i, j \in S : f[i] = f[j] => i = j
      OBVIOUS
    <2>3. \A k \in T : \E j \in S : f[j] = k
      OBVIOUS
    <2> QED
      BY <2>1, <2>2, <2>3 DEF Bijection, Injection, Surjection, IsInjective
  <1>2. ExistsBijection(S, T)
    BY <1>1 DEF ExistsBijection
  <1> QED
    BY <1>2, FS_Bijection

(* A count that rises from 0 by steps of one, at the numbers behind those  *)
(* of P, passes over no number.                                            *)
Rises(c, h, k, P) ==
  /\ c \in [h .. k -> Nat] /\ c[h] = 0
  /\ \A q \in h .. k : q # h => c[q] = IF q - 1 \in P THEN c[q - 1] + 1 ELSE c[q - 1]

LEMMA RisesThrough ==
  ASSUME NEW h \in Nat, NEW k \in Nat, h <= k, NEW P, NEW c, Rises(c, h, k, P),
         NEW N \in Nat, N <= c[k], k \in P
  PROVE  \E q \in h .. k : q \in P /\ c[q] = N
  <1> DEFINE T == {q \in h .. k : c[q] > N}
  <1>0. /\ c \in [h .. k -> Nat] /\ c[h] = 0
        /\ \A q \in h .. k : q # h => c[q] = IF q - 1 \in P THEN c[q - 1] + 1 ELSE c[q - 1]
    BY DEF Rises
  <1>1. T \in SUBSET Nat /\ \A q \in h .. k : q \in T <=> c[q] > N
    OBVIOUS
  <1>2. T \subseteq h .. k /\ k \in h .. k
    OBVIOUS
  <1> HIDE DEF T
  <1>3. CASE T = {}
    <2>1. c[k] \in Nat /\ ~ (c[k] > N)
      BY <1>0, <1>1, <1>2, <1>3
    <2>2. c[k] = N
      BY <1>0, <2>1
    <2> QED
      BY <1>2, <2>2
  <1>4. CASE T # {}
    <2>1. PICK q \in T : \A m \in T : q <= m
      BY <1>1, <1>4, LeastNumber
    <2>2. q \in h .. k /\ c[q] > N /\ q # h
      BY <1>0, <1>1, <1>2, <2>1
    <2>3. q - 1 \in h .. k /\ ~ (q <= q - 1)
      BY <2>2
    <2>4. c[q - 1] \in Nat /\ ~ (c[q - 1] > N)
      BY <1>0, <1>1, <2>1, <2>3
    <2>5. c[q] = IF q - 1 \in P THEN c[q - 1] + 1 ELSE c[q - 1]
      BY <1>0, <2>2
    <2>6. q - 1 \in P /\ c[q - 1] = N
      BY <1>0, <2>2, <2>4, <2>5
    <2> QED
      BY <2>3, <2>6
  <1> QED
    BY <1>3, <1>4

(* Counting the elements of P from h on passes over no number.             *)
Reaches(P, h, k, N) ==
  \E q \in h .. k : q \in P /\ Cardinality(P \cap (h .. (q - 1))) = N

LEMMA CountIsReached ==
  ASSUME NEW h \in Nat, NEW k \in Nat, h <= k, NEW P \in SUBSET Nat, k \in P,
         NEW A, A \subseteq P \cap (h .. (k - 1))
  PROVE  Reaches(P, h, k, Cardinality(A))
  <1> DEFINE Upto(q) == P \cap (h .. (q - 1))
             c == [q \in h .. k |-> Cardinality(Upto(q))]
             N == Cardinality(A)
  <1>1. ASSUME NEW q \in h .. k PROVE IsFiniteSet(Upto(q)) /\ Cardinality(Upto(q)) \in Nat
    <2>1. IsFiniteSet(h .. (q - 1))
      BY FS_Interval
    <2>2. IsFiniteSet(Upto(q))
      BY <2>1, FS_Subset
    <2> QED
      BY <2>2, FS_CardinalityType
  <1>2. k \in h .. k /\ h \in h .. k
    OBVIOUS
  <1>3. N \in Nat /\ N <= Cardinality(Upto(k))
    BY <1>1, <1>2, FS_Subset, FS_CardinalityType
  <1>4. Cardinality(Upto(h)) = 0
    <2>1. Upto(h) = {}
      OBVIOUS
    <2> QED
      BY <2>1, FS_EmptySet
  <1>5. ASSUME NEW q \in h .. k, q # h
        PROVE  Cardinality(Upto(q)) = IF q - 1 \in P THEN Cardinality(Upto(q - 1)) + 1
                                      ELSE Cardinality(Upto(q - 1))
    <2>1. CASE q - 1 \in P
      <3>1. Upto(q) = Upto(q - 1) \union {q - 1} /\ q - 1 \notin Upto(q - 1)
        BY <1>5, <2>1
      <3>2. q - 1 \in h .. k
        BY <1>5
      <3>3. IsFiniteSet(Upto(q - 1))
        BY <1>1, <3>2
      <3> HIDE DEF Upto
      <3> QED
        BY <2>1, <3>1, <3>3, FS_AddElement
    <2>2. CASE q - 1 \notin P
      <3>1. Upto(q) = Upto(q - 1)
        BY <1>5, <2>2
      <3> QED
        BY <2>2, <3>1
    <2> QED
      BY <2>1, <2>2
  <1>6. \A q \in h .. k : q # h => q - 1 \in h .. k
    OBVIOUS
  <1> HIDE DEF N, Upto
  <1>7. Rises(c, h, k, P) /\ N <= c[k]
    <2>1. c \in [h .. k -> Nat] /\ c[h] = 0 /\ N <= c[k]
      BY <1>1, <1>2, <1>3, <1>4
    <2>2. \A q \in h .. k : q # h => c[q] = IF q - 1 \in P THEN c[q - 1] + 1 ELSE c[q - 1]
      BY <1>5, <1>6
    <2> HIDE DEF c
    <2> QED
      BY <2>1, <2>2 DEF Rises
  <1>8. \A q \in h .. k : c[q] = Cardinality(Upto(q))
    OBVIOUS
  <1> HIDE DEF c
  <1>9. \E q \in h .. k : q \in P /\ c[q] = N
    BY <1>3, <1>7, RisesThrough
  <1> QED
    BY <1>8, <1>9 DEF N, Upto, Reaches

-----------------------------------------------------------------------------
(* FlattenSeq.  Block i of the flattened sequence begins behind off[i - 1] *)
(* and ends at off[i].                                                     *)

Offsets(seqs, off) ==
  /\ off \in [0 .. Len(seqs) -> Nat] /\ off[0] = 0
  /\ \A i \in 1 .. Len(seqs) : off[i] = off[i - 1] + Len(seqs[i])

LEMMA ConcatFacts ==
  ASSUME NEW S, NEW s \in Seq(S), NEW t \in Seq(S)
  PROVE  /\ s \o t \in Seq(S) /\ Len(s \o t) = Len(s) + Len(t)
         /\ \A j \in 1 .. Len(s) : (s \o t)[j] = s[j]
         /\ \A j \in 1 .. Len(t) : (s \o t)[Len(s) + j] = t[j]
  OBVIOUS

LEMMA ConcatBehind ==
  ASSUME NEW S, NEW s \in Seq(S), NEW t \in Seq(S), NEW j \in 1 .. Len(t)
  PROVE  (s \o t)[Len(s) + j] = t[j]
  OBVIOUS

(* What the flattening function of FlattenSeq computes: the blocks up to i. *)
Flattens(f, seqs) ==
  f = [i \in 1 .. Len(seqs) |-> IF i = 1 THEN seqs[i] ELSE f[i - 1] \o seqs[i]]

LEMMA FlattensExists ==
  ASSUME NEW S, NEW seqs \in Seq(Seq(S))
  PROVE  \E f : Flattens(f, seqs)
  <1> DEFINE Solves(g, k) ==
               g = [i \in 1 .. k |-> IF i = 1 THEN seqs[i] ELSE g[i - 1] \o seqs[i]]
             G == {k \in Nat : \E g : Solves(g, k)}
  <1>1. \A k \in Nat : k \in G <=> \E g : Solves(g, k)
    OBVIOUS
  <1>2. ASSUME NEW k \in 0 .. Len(seqs), k = 0 \/ k - 1 \in G PROVE k \in G
    <2>1. CASE k = 0
      <3> DEFINE g == [i \in {} |-> 0]
      <3>1. 1 .. k = {}
        BY <2>1
      <3>2. Solves(g, k)
        BY <3>1
      <3> QED
        BY <2>1, <3>2
    <2>2. CASE k # 0
      <3>1. k - 1 \in Nat /\ k \in Nat
        BY <2>2
      <3>2. PICK g : Solves(g, k - 1)
        <4> HIDE DEF G, Solves
        <4> QED
          BY <1>1, <1>2, <2>2, <3>1
      <3> DEFINE h == [i \in 1 .. k |-> IF i \in 1 .. (k - 1) THEN g[i]
                                        ELSE IF i = 1 THEN seqs[i] ELSE g[i - 1] \o seqs[i]]
                 e == [i \in 1 .. k |-> IF i = 1 THEN seqs[i] ELSE h[i - 1] \o seqs[i]]
      <3>3. ASSUME NEW i \in 1 .. k PROVE h[i] = e[i]
        <4>1. CASE i = 1
          <5>1. e[i] = seqs[i]
            BY <4>1
          <5>2. CASE i \in 1 .. (k - 1)
            BY <3>2, <4>1, <5>1, <5>2
          <5>3. CASE i \notin 1 .. (k - 1)
            BY <4>1, <5>1, <5>3
          <5> QED
            BY <5>2, <5>3
        <4>2. CASE i # 1
          <5>1. i - 1 \in 1 .. (k - 1) /\ i - 1 \in 1 .. k
            BY <3>1, <4>2
          <5>2. h[i - 1] = g[i - 1]
            BY <5>1
          <5>3. e[i] = g[i - 1] \o seqs[i]
            BY <4>2, <5>2
          <5>4. CASE i \in 1 .. (k - 1)
            <6>1. g[i] = g[i - 1] \o seqs[i]
              BY <3>2, <4>2, <5>4
            <6> QED
              BY <5>3, <5>4, <6>1
          <5>5. CASE i \notin 1 .. (k - 1)
            BY <4>2, <5>3, <5>5
          <5> QED
            BY <5>4, <5>5
        <4> QED
          BY <4>1, <4>2
      <3>4. h = e
        BY <3>3
      <3>5. Solves(h, k)
        BY <3>4
      <3> QED
        <4> HIDE DEF G, Solves, h
        <4> QED
          BY <1>1, <3>1, <3>5
    <2> QED
      BY <2>1, <2>2
  <1> HIDE DEF G
  <1>3. Len(seqs) \in Nat /\ Len(seqs) \in 0 .. Len(seqs) /\ 0 \in Nat
    OBVIOUS
  <1>4. \A k \in 0 .. Len(seqs) : k \in G
    BY <1>2, <1>3, NumberInduction
  <1>5. \E g : Solves(g, Len(seqs))
    <2> HIDE DEF Solves
    <2> QED
      BY <1>1, <1>3, <1>4
  <1> QED
    BY <1>5 DEF Flattens

LEMMA FlattensFacts ==
  ASSUME NEW S, NEW seqs \in Seq(Seq(S)), NEW f, Flattens(f, seqs)
  PROVE  /\ f \in [1 .. Len(seqs) -> Seq(S)]
         /\ 1 \in 1 .. Len(seqs) => f[1] = seqs[1]
         /\ \A i \in 2 .. Len(seqs) : f[i] = f[i - 1] \o seqs[i]
  <1> DEFINE n == Len(seqs)
  <1>1. n \in Nat /\ \A i \in 1 .. n : seqs[i] \in Seq(S)
    OBVIOUS
  <1>2. /\ \A i \in 1 .. n : f[i] = IF i = 1 THEN seqs[i] ELSE f[i - 1] \o seqs[i]
        /\ DOMAIN f = 1 .. n /\ f = [i \in 1 .. n |-> f[i]]
    BY DEF Flattens
  <1> HIDE DEF n
  <1> DEFINE G == {i \in 1 .. n : f[i] \in Seq(S)}
  <1>3. \A i \in 1 .. n : i \in G <=> f[i] \in Seq(S)
    OBVIOUS
  <1>4. ASSUME NEW k \in 1 .. n, k = 1 \/ k - 1 \in G PROVE k \in G
    <2>1. CASE k = 1
      BY <1>1, <1>2, <2>1
    <2>2. CASE k # 1
      <3>1. k - 1 \in 1 .. n /\ f[k - 1] \in Seq(S)
        BY <1>1, <1>4, <2>2
      <3>2. f[k] = f[k - 1] \o seqs[k] /\ seqs[k] \in Seq(S)
        BY <1>1, <1>2, <2>2
      <3>3. f[k] \in Seq(S)
        BY <3>1, <3>2, ConcatFacts
      <3> QED
        BY <3>3
    <2> QED
      BY <2>1, <2>2
  <1> HIDE DEF G
  <1>5. \A i \in 1 .. n : i \in G
    BY <1>1, <1>4, NumberInduction
  <1>6. \A i \in 1 .. n : f[i] \in Seq(S)
    BY <1>3, <1>5
  <1>7. f \in [1 .. n -> Seq(S)]
    BY <1>2, <1>6
  <1>8. \A i \in 2 .. n : i \in 1 .. n /\ i # 1
    BY <1>1
  <1> QED
    BY <1>2, <1>7, <1>8 DEF n

-----------------------------------------------------------------------------
(* Where the blocks lie, told from their lengths alone.                    *)

LEMMA OffsetFacts ==
  ASSUME NEW S, NEW seqs \in Seq(Seq(S)), NEW off, Offsets(seqs, off), NEW i \in 1 .. Len(seqs)
  PROVE  /\ i \in Nat /\ i - 1 \in Nat /\ i \in 0 .. Len(seqs) /\ i - 1 \in 0 .. Len(seqs)
         /\ off[i - 1] \in Nat /\ off[i] \in Nat /\ Len(seqs[i]) \in Nat
         /\ seqs[i] \in Seq(S) /\ off[i] = off[i - 1] + Len(seqs[i])
  <1>1. seqs[i] \in Seq(S) /\ Len(seqs) \in Nat /\ i \in Nat /\ 1 <= i /\ i <= Len(seqs)
    OBVIOUS
  <1>2. i - 1 \in Nat /\ i \in 0 .. Len(seqs) /\ i - 1 \in 0 .. Len(seqs)
    BY <1>1
  <1>3. off[i - 1] \in Nat /\ off[i] \in Nat
    BY <1>2 DEF Offsets
  <1>4. Len(seqs[i]) \in Nat
    BY <1>1
  <1>5. off[i] = off[i - 1] + Len(seqs[i])
    BY DEF Offsets
  <1> QED
    BY <1>1, <1>2, <1>3, <1>4, <1>5

LEMMA OffsetsGrow ==
  ASSUME NEW S, NEW seqs \in Seq(Seq(S)), NEW off, Offsets(seqs, off),
         NEW i \in 0 .. Len(seqs), NEW k \in i .. Len(seqs)
  PROVE  off[i] <= off[k]
  <1> DEFINE n == Len(seqs)
             G == {m \in i .. n : off[i] <= off[m]}
  <1>1. n \in Nat /\ i \in Nat /\ off[i] \in Nat
    BY DEF Offsets
  <1>2. \A m \in i .. n : m \in G <=> off[i] <= off[m]
    OBVIOUS
  <1>3. ASSUME NEW m \in i .. n, m = i \/ m - 1 \in G PROVE m \in G
    <2> HIDE DEF G
    <2>1. CASE m = i
      BY <1>1, <1>2, <2>1
    <2>2. CASE m # i
      <3>1. m \in 1 .. n /\ m - 1 \in i .. n
        BY <1>1, <2>2
      <3>2. off[i] <= off[m - 1]
        BY <1>2, <1>3, <2>2, <3>1
      <3>3. /\ off[m - 1] \in Nat /\ off[m] \in Nat /\ Len(seqs[m]) \in Nat
            /\ off[m] = off[m - 1] + Len(seqs[m])
        BY <3>1, OffsetFacts
      <3>4. off[i] <= off[m]
        BY <1>1, <3>2, <3>3
      <3> QED
        BY <1>2, <3>4
    <2> QED
      BY <2>1, <2>2
  <1> HIDE DEF G
  <1>4. \A m \in i .. n : m \in G
    <2> HIDE DEF n
    <2> QED
      BY <1>1, <1>3, NumberInduction
  <1> QED
    BY <1>2, <1>4

InABlock(seqs, off, p) ==
  \E i \in 1 .. Len(seqs) : \E j \in 1 .. Len(seqs[i]) : p = off[i - 1] + j

(* Every position lies in a block. *)
LEMMA OffsetsCover ==
  ASSUME NEW S, NEW seqs \in Seq(Seq(S)), NEW off, Offsets(seqs, off),
         NEW p \in 1 .. off[Len(seqs)]
  PROVE  InABlock(seqs, off, p)
  <1> DEFINE n == Len(seqs)
             Reached == {i \in 0 .. n : p <= off[i]}
  <1>1. n \in Nat /\ off \in [0 .. n -> Nat] /\ off[0] = 0 /\ p \in Nat /\ p <= off[n] /\ 1 <= p
    <2>1. off[Len(seqs)] \in Nat /\ Len(seqs) \in Nat
      BY DEF Offsets
    <2> QED
      BY <2>1 DEF Offsets
  <1>2. Reached \in SUBSET Nat /\ \A i \in 0 .. n : i \in Reached <=> p <= off[i]
    OBVIOUS
  <1>3. Reached \subseteq 0 .. n
    OBVIOUS
  <1> HIDE DEF Reached, n
  <1>4. n \in Reached
    BY <1>1, <1>2
  <1>5. PICK i \in Reached : \A m \in Reached : i <= m
    BY <1>2, <1>4, LeastNumber
  <1>6. i \in 0 .. n /\ p <= off[i] /\ i # 0
    BY <1>1, <1>2, <1>3, <1>5
  <1>7. i \in 1 .. n
    BY <1>1, <1>6
  <1>8. /\ i - 1 \in 0 .. n /\ off[i - 1] \in Nat /\ Len(seqs[i]) \in Nat
        /\ off[i] = off[i - 1] + Len(seqs[i])
    BY <1>7, OffsetFacts DEF n
  <1>9. ~ (p <= off[i - 1])
    <2>1. ~ (i <= i - 1)
      BY <1>7
    <2> QED
      BY <1>2, <1>5, <1>8, <2>1
  <1>10. p - off[i - 1] \in 1 .. Len(seqs[i]) /\ p = off[i - 1] + (p - off[i - 1])
    BY <1>1, <1>6, <1>8, <1>9
  <1> QED
    BY <1>7, <1>10 DEF n, InABlock

LEMMA WithinBlock ==
  ASSUME NEW a \in Nat, NEW b \in Nat, NEW n \in Nat, NEW j \in 1 .. n, b = a + n
  PROVE  a < a + j /\ a + j <= b /\ j \in Nat /\ a + j \in Nat
  OBVIOUS

(* It lies in one block only. *)
LEMMA OffsetsApart ==
  ASSUME NEW S, NEW seqs \in Seq(Seq(S)), NEW off, Offsets(seqs, off),
         NEW i \in 1 .. Len(seqs), NEW k \in 1 .. Len(seqs),
         NEW j \in 1 .. Len(seqs[i]), NEW l \in 1 .. Len(seqs[k]),
         off[i - 1] + j = off[k - 1] + l
  PROVE  i = k /\ j = l
  <1>0. off[i - 1] + j = off[k - 1] + l
    OBVIOUS
  <1>1. /\ i \in Nat /\ i \in 0 .. Len(seqs) /\ i - 1 \in Nat /\ off[i - 1] \in Nat
        /\ off[i] \in Nat /\ Len(seqs[i]) \in Nat /\ off[i] = off[i - 1] + Len(seqs[i])
    BY OffsetFacts
  <1>2. /\ k \in Nat /\ k \in 0 .. Len(seqs) /\ k - 1 \in Nat /\ off[k - 1] \in Nat
        /\ off[k] \in Nat /\ Len(seqs[k]) \in Nat /\ off[k] = off[k - 1] + Len(seqs[k])
    BY OffsetFacts
  <1>3. Len(seqs) \in Nat /\ j \in Nat /\ l \in Nat /\ 1 <= j /\ 1 <= l
        /\ j <= Len(seqs[i]) /\ l <= Len(seqs[k])
    BY <1>1, <1>2
  <1>4. ~ (i <= k - 1)
    <2> SUFFICES ASSUME i <= k - 1 PROVE FALSE
      OBVIOUS
    <2>1. k - 1 \in i .. Len(seqs)
      BY <1>1, <1>2, <1>3
    <2>2. off[i] <= off[k - 1]
      BY <1>1, <2>1, OffsetsGrow
    <2>3. /\ off[i - 1] + j <= off[i] /\ off[i - 1] + j \in Nat
          /\ off[k - 1] < off[k - 1] + l
      BY <1>1, <1>2, WithinBlock
    <2> QED
      BY <1>0, <1>1, <1>2, <1>3, <2>2, <2>3
  <1>5. ~ (k <= i - 1)
    <2> SUFFICES ASSUME k <= i - 1 PROVE FALSE
      OBVIOUS
    <2>1. i - 1 \in k .. Len(seqs)
      BY <1>1, <1>2, <1>3
    <2>2. off[k] <= off[i - 1]
      BY <1>2, <2>1, OffsetsGrow
    <2>3. /\ off[k - 1] + l <= off[k] /\ off[k - 1] + l \in Nat
          /\ off[i - 1] < off[i - 1] + j
      BY <1>1, <1>2, WithinBlock
    <2> QED
      BY <1>0, <1>1, <1>2, <1>3, <2>2, <2>3
  <1>6. i = k
    BY <1>1, <1>2, <1>4, <1>5
  <1> QED
    BY <1>0, <1>1, <1>3, <1>6

-----------------------------------------------------------------------------
(* The flattened sequence is its blocks, one behind the other.             *)

LEMMA FlattenIsFlat ==
  ASSUME NEW S, NEW seqs \in Seq(Seq(S)), Len(seqs) # 0
  PROVE  \E f : Flattens(f, seqs) /\ FlattenSeq(seqs) = f[Len(seqs)]
  <1> DEFINE f == CHOOSE f : Flattens(f, seqs)
  <1>1. Flattens(f, seqs)
    BY FlattensExists
  <1>2. FlattenSeq(seqs) = f[Len(seqs)]
    BY DEF FlattenSeq, Flattens
  <1> QED
    BY <1>1, <1>2

(* After k blocks, f[k] has the elements of each of them at its offset.    *)
LEMMA FlattensBlocks ==
  ASSUME NEW S, NEW seqs \in Seq(Seq(S)), NEW f, Flattens(f, seqs),
         NEW off, Offsets(seqs, off), \A k \in 1 .. Len(seqs) : off[k] = Len(f[k])
  PROVE  \A k \in 1 .. Len(seqs) : \A i \in 1 .. k : \A j \in 1 .. Len(seqs[i]) :
           f[k][off[i - 1] + j] = seqs[i][j]
  <1> DEFINE n == Len(seqs)
             Holds(k) == \A i \in 1 .. k : \A j \in 1 .. Len(seqs[i]) :
                           f[k][off[i - 1] + j] = seqs[i][j]
             G == {k \in 1 .. n : Holds(k)}
  <1>1. n \in Nat /\ 1 \in Nat /\ off[0] = 0
    BY DEF Offsets
  <1>2. \A k \in 1 .. n : k \in G <=> Holds(k)
    OBVIOUS
  <1> HIDE DEF G
  <1>3. ASSUME NEW k \in 1 .. n, k = 1 \/ k - 1 \in G PROVE k \in G
    <2> SUFFICES ASSUME NEW i \in 1 .. k, NEW j \in 1 .. Len(seqs[i])
                 PROVE  f[k][off[i - 1] + j] = seqs[i][j]
      BY <1>2
    <2>1. i \in 1 .. n
      BY <1>1
    <2>2. /\ off[i - 1] \in Nat /\ off[i] \in Nat /\ Len(seqs[i]) \in Nat
          /\ seqs[i] \in Seq(S) /\ off[i] = off[i - 1] + Len(seqs[i])
      BY <2>1, OffsetFacts
    <2>3. CASE k = 1
      <3>1. i = 1 /\ i - 1 = 0 /\ off[i - 1] + j = j
        BY <1>1, <2>2, <2>3
      <3>2. f[1] = seqs[1]
        BY <2>3, FlattensFacts
      <3> QED
        BY <2>3, <3>1, <3>2
    <2>4. CASE k # 1
      <3>1. k \in 2 .. n /\ k - 1 \in 1 .. n
        BY <1>1, <2>4
      <3>2. f[k - 1] \in Seq(S) /\ seqs[k] \in Seq(S) /\ f[k] = f[k - 1] \o seqs[k]
        <4>1. f \in [1 .. n -> Seq(S)]
          BY FlattensFacts
        <4>2. f[k] = f[k - 1] \o seqs[k]
          BY <3>1, FlattensFacts
        <4>3. seqs[k] \in Seq(S)
          OBVIOUS
        <4> QED
          BY <3>1, <4>1, <4>2, <4>3
      <3>3. off[k - 1] = Len(f[k - 1])
        BY <3>1
      <3>4. CASE i = k
        <4> DEFINE u == f[k - 1]
                   v == seqs[k]
        <4>1. /\ u \in Seq(S) /\ v \in Seq(S) /\ j \in 1 .. Len(v) /\ f[k] = u \o v
              /\ off[i - 1] + j = Len(u) + j /\ seqs[i][j] = v[j]
          BY <3>2, <3>3, <3>4
        <4> HIDE DEF u, v
        <4>2. (u \o v)[Len(u) + j] = v[j]
          BY ONLY <4>1, ConcatBehind
        <4>3. (u \o v)[off[i - 1] + j] = v[j]
          BY <4>1, <4>2, Zenon
        <4> QED
          BY <4>1, <4>3
      <3>5. CASE i # k
        <4>1. i \in 1 .. (k - 1) /\ i \in 0 .. n /\ k - 1 \in i .. n
          BY <1>1, <3>1, <3>5
        <4>2. f[k - 1][off[i - 1] + j] = seqs[i][j]
          <5>1. Holds(k - 1)
            <6> HIDE DEF Holds
            <6> QED
              BY <1>2, <1>3, <2>4, <3>1
          <5> QED
            BY <4>1, <5>1
        <4>3. off[i] <= off[k - 1]
          BY <4>1, OffsetsGrow
        <4>4. off[i - 1] + j \in 1 .. Len(f[k - 1])
          <5>1. /\ off[i - 1] < off[i - 1] + j /\ off[i - 1] + j <= off[i]
                /\ off[i - 1] + j \in Nat
            BY <2>2, WithinBlock
          <5>2. off[k - 1] \in Nat
            BY <3>2, <3>3
          <5>3. 1 <= off[i - 1] + j /\ off[i - 1] + j <= off[k - 1]
            BY <2>2, <4>3, <5>1, <5>2
          <5> QED
            BY <3>3, <5>1, <5>2, <5>3
        <4>5. (f[k - 1] \o seqs[k])[off[i - 1] + j] = f[k - 1][off[i - 1] + j]
          BY <3>2, <4>4, ConcatFacts
        <4> QED
          BY <3>2, <4>2, <4>5
      <3> QED
        BY <3>4, <3>5
    <2> QED
      BY <2>3, <2>4
  <1>4. \A k \in 1 .. n : k \in G
    <2> HIDE DEF n
    <2> QED
      BY <1>1, <1>3, NumberInduction
  <1>5. \A k \in 1 .. n : Holds(k)
    <2> HIDE DEF Holds
    <2> QED
      BY <1>2, <1>4
  <1> QED
    BY <1>5

(* off says where the blocks of seqs are in the flattened sequence. *)
FlatAt(seqs, S, off) ==
  /\ Offsets(seqs, off)
  /\ FlattenSeq(seqs) \in Seq(S) /\ Len(FlattenSeq(seqs)) = off[Len(seqs)]
  /\ \A i \in 1 .. Len(seqs) : \A j \in 1 .. Len(seqs[i]) :
       FlattenSeq(seqs)[off[i - 1] + j] = seqs[i][j]

IsFlat(seqs, S) == \E off : FlatAt(seqs, S, off)

LEMMA Flattening ==
  ASSUME NEW S, NEW seqs \in Seq(Seq(S))
  PROVE  IsFlat(seqs, S)
  <1> DEFINE n == Len(seqs)
  <1>1. n \in Nat /\ \A i \in 1 .. n : seqs[i] \in Seq(S) /\ Len(seqs[i]) \in Nat
    OBVIOUS
  <1>2. CASE n = 0
    <2> DEFINE off == [k \in 0 .. 0 |-> 0]
    <2>1. Offsets(seqs, off)
      BY <1>2 DEF Offsets
    <2>2. FlattenSeq(seqs) = seqs /\ seqs = <<>>
      BY <1>2 DEF FlattenSeq
    <2>3. <<>> \in Seq(S) /\ Len(<<>>) = 0 /\ off[n] = 0 /\ 1 .. n = {}
      BY <1>2
    <2>4. FlatAt(seqs, S, off)
      BY <1>2, <2>1, <2>2, <2>3 DEF FlatAt
    <2> QED
      BY <2>4 DEF IsFlat
  <1>3. CASE n # 0
    <2>1. PICK f : Flattens(f, seqs) /\ FlattenSeq(seqs) = f[n]
      BY <1>3, FlattenIsFlat
    <2>2. f \in [1 .. n -> Seq(S)]
      BY <2>1, FlattensFacts
    <2>3. 1 \in 1 .. n => f[1] = seqs[1]
      BY <2>1, FlattensFacts
    <2>4. \A i \in 2 .. n : f[i] = f[i - 1] \o seqs[i]
      BY <2>1, FlattensFacts
    <2> DEFINE off == [k \in 0 .. n |-> IF k = 0 THEN 0 ELSE Len(f[k])]
    <2> HIDE DEF n
    <2>5. /\ off \in [0 .. n -> Nat] /\ off[0] = 0
          /\ \A k \in 1 .. n : off[k] = Len(f[k]) /\ f[k] \in Seq(S)
      BY <1>1, <2>2
    <2> HIDE DEF off
    <2>6. ASSUME NEW i \in 1 .. n PROVE off[i] = off[i - 1] + Len(seqs[i])
      <3>1. CASE i = 1
        <4>1. i - 1 = 0 /\ off[i - 1] = 0 /\ f[i] = seqs[i]
          BY <2>3, <2>5, <3>1
        <4> QED
          BY <1>1, <2>5, <4>1
      <3>2. CASE i # 1
        <4>1. i \in 2 .. n /\ i - 1 \in 1 .. n
          BY <1>1, <3>2
        <4>2. f[i - 1] \in Seq(S) /\ seqs[i] \in Seq(S) /\ f[i] = f[i - 1] \o seqs[i]
          BY <1>1, <2>2, <2>4, <4>1
        <4>3. Len(f[i]) = Len(f[i - 1]) + Len(seqs[i])
          BY <4>2, ConcatFacts
        <4> QED
          BY <2>5, <4>1, <4>3
      <3> QED
        BY <3>1, <3>2
    <2>7. Offsets(seqs, off)
      BY <2>5, <2>6 DEF Offsets, n
    <2>8. \A k \in 1 .. n : \A i \in 1 .. k : \A j \in 1 .. Len(seqs[i]) :
            f[k][off[i - 1] + j] = seqs[i][j]
      <3>1. \A k \in 1 .. Len(seqs) : off[k] = Len(f[k])
        BY <2>5 DEF n
      <3> QED
        BY <2>1, <2>7, <3>1, FlattensBlocks DEF n
    <2>9. n \in 1 .. n /\ f[n] \in Seq(S) /\ Len(f[n]) = off[n]
      BY <1>1, <1>3, <2>5
    <2>10. FlatAt(seqs, S, off)
      BY <2>1, <2>7, <2>8, <2>9 DEF n, FlatAt
    <2> QED
      BY <2>10 DEF IsFlat
  <1> QED
    BY <1>2, <1>3
=============================================================================
