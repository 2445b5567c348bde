-------------------------- MODULE InductionLemmas --------------------------
(***************************************************************************)
(* Induction over the natural numbers, stated for sets instead of          *)
(* predicates, so that the provers can use it; how often a sequence holds  *)
(* an element, and what Among keeps of it.                                 *)
(***************************************************************************)
EXTENDS QueueOperators, FiniteSets, FiniteSetTheorems, FunctionTheorems,
        WellFoundedInduction, TLAPS

\* Every nonempty set of natural numbers has a least element.
LEMMA LeastNatural ==
    ASSUME NEW T \in SUBSET Nat, T # {}
    PROVE  \E n \in T : \A m \in T : n <= m
<1>. DEFINE R == OpToRel(<, Nat)
<1>1. IsWellFoundedOn(R, Nat)
  BY NatLessThanWellFounded, Zenon
<1>2. \E n \in T : \A m \in T : ~(<<m, n>> \in R)
  <2>. HIDE DEF R
  <2>. QED BY <1>1, WFMin, Zenon
<1>3. PICK n \in T : \A m \in T : ~(<<m, n>> \in R)
  BY <1>2
<1>4. R = {p \in Nat \X Nat : p[1] < p[2]}
  BY Zenon DEF OpToRel
<1>5. \A a, b \in Nat : a < b => <<a, b>> \in R
  BY <1>4
<1>6. ASSUME NEW m \in T PROVE n <= m
  <2>1. n \in Nat /\ m \in Nat
    OBVIOUS
  <2>2. m < n => <<m, n>> \in R
    BY <2>1, <1>5, Zenon
  <2>3. ~(m < n)
    BY <2>2, <1>3, Zenon
  <2>. QED
    BY <2>1, <2>3
<1>. QED
  BY <1>3, <1>6

\* A set that holds 0 and the successor of each of its numbers up to n holds
\* all numbers up to n.
LEMMA SetInduction ==
    ASSUME NEW S, NEW n \in Nat, 0 \in S,
           \A i \in 0 .. n - 1 : i \in S => i + 1 \in S
    PROVE  0 .. n \subseteq S
<1>. DEFINE T == (0 .. n) \ S
<1>. SUFFICES ASSUME T # {} PROVE FALSE
  OBVIOUS
<1>1. PICK i \in T : \A j \in T : i <= j
  <2>. T \in SUBSET Nat
    OBVIOUS
  <2>. HIDE DEF T
  <2>. QED BY LeastNatural
<1>2. i - 1 \in 0 .. n - 1 /\ i - 1 \in S
  BY <1>1
<1>. QED
  BY <1>1, <1>2

\* In particular n.
LEMMA InductionUpTo ==
    ASSUME NEW S, NEW n \in Nat, 0 \in S,
           \A i \in 0 .. n - 1 : i \in S => i + 1 \in S
    PROVE  n \in S
<1>1. 0 .. n \subseteq S
  BY SetInduction
<1>. QED
  BY <1>1

-----------------------------------------------------------------------------
(* How often x occurs in q *)

Positions(q, x) == {i \in 1 .. Len(q) : q[i] = x}
Count(q, x) == Cardinality(Positions(q, x))

\* It is a number, and zero when x does not occur.
LEMMA CountType ==
    ASSUME NEW T, NEW q \in Seq(T), NEW x
    PROVE  /\ IsFiniteSet(Positions(q, x)) /\ Count(q, x) \in Nat
           /\ Count(q, x) = 0 <=> \A i \in 1 .. Len(q) : q[i] # x
<1>1. IsFiniteSet(1 .. Len(q))
  BY FS_Interval
<1>2. IsFiniteSet(Positions(q, x))
  BY <1>1, FS_Subset DEF Positions
<1>3. Count(q, x) \in Nat /\ (Count(q, x) = 0 <=> Positions(q, x) = {})
  BY <1>2, FS_CardinalityType, FS_EmptySet DEF Count
<1>. QED
  BY <1>2, <1>3 DEF Positions

\* Nothing occurs in the empty sequence.
LEMMA CountEmpty == \A x : Count(<<>>, x) = 0
<1>1. \A x : Positions(<<>>, x) = {}
  BY DEF Positions
<1>. QED
  BY <1>1, FS_EmptySet DEF Count

\* A function that moves every position of S by d to one of T, and reaches all
\* of T, shows that they are equally many.
LEMMA CountShift ==
    ASSUME NEW S \in SUBSET Int, NEW T \in SUBSET Int, NEW d \in Int, IsFiniteSet(S),
           \A i \in S : i + d \in T, \A j \in T : j - d \in S
    PROVE  IsFiniteSet(T) /\ Cardinality(T) = Cardinality(S)
<1>. DEFINE f == [i \in S |-> i + d]
<1>1. f \in [S -> T] /\ \A i, j \in S : f[i] = f[j] => i = j
  OBVIOUS
<1>2. \A j \in T : \E i \in S : f[i] = j
  <2>. SUFFICES ASSUME NEW j \in T PROVE f[j - d] = j /\ j - d \in S
    OBVIOUS
  <2>. QED
    OBVIOUS
<1>. HIDE DEF f
<1>3. f \in Bijection(S, T)
  BY <1>1, <1>2, Fun_IsBij
<1>4. ExistsBijection(S, T)
  BY <1>3, Fun_ExistsBij
<1>. QED
  BY <1>4, FS_Bijection

\* Concatenation adds up.
LEMMA CountConcat ==
    ASSUME NEW T, NEW p \in Seq(T), NEW q \in Seq(T), NEW x
    PROVE  Count(p \o q, x) = Count(p, x) + Count(q, x)
<1>. DEFINE A == Positions(p, x)
            B == Positions(q, x)
            C == {i \in Positions(p \o q, x) : i > Len(p)}
<1>1. /\ Len(p) \in Nat /\ Len(q) \in Nat /\ Len(p \o q) = Len(p) + Len(q)
      /\ \A i \in 1 .. Len(p) : (p \o q)[i] = p[i]
      /\ \A i \in 1 .. Len(q) : (p \o q)[Len(p) + i] = q[i]
  OBVIOUS
<1>2. Positions(p \o q, x) = A \cup C /\ A \cap C = {}
  BY <1>1 DEF Positions
<1>3. IsFiniteSet(A) /\ IsFiniteSet(B)
  BY CountType
<1>4. A \in SUBSET Int /\ B \in SUBSET Int /\ C \in SUBSET Int
  BY DEF Positions
<1>5. \A i \in B : i + Len(p) \in C
  BY <1>1 DEF Positions
<1>6. \A j \in C : j - Len(p) \in B
  BY <1>1 DEF Positions
<1>. HIDE DEF A, B, C
<1>7. IsFiniteSet(C) /\ Cardinality(C) = Cardinality(B)
  <2>1. Len(p) \in Int
    BY <1>1
  <2>. QED
    BY <1>3, <1>4, <1>5, <1>6, <2>1, CountShift
<1>8. Cardinality(A \cup C) = Cardinality(A) + Cardinality(C)
  <2>1. Cardinality(A \cup C)
          = Cardinality(A) + Cardinality(C) - Cardinality(A \cap C)
    BY <1>3, <1>7, FS_Union
  <2>2. Cardinality(A \cap C) = 0
    BY <1>2, FS_EmptySet
  <2>3. Cardinality(A) \in Nat /\ Cardinality(C) \in Nat
    BY <1>3, <1>7, FS_CardinalityType
  <2>. QED
    BY <2>1, <2>2, <2>3
<1>. QED
  BY <1>2, <1>7, <1>8 DEF Count, A, B

\* One element.
LEMMA CountOne ==
    ASSUME NEW x, NEW y
    PROVE  Count(<<y>>, x) = IF x = y THEN 1 ELSE 0
<1>1. x = y => Positions(<<y>>, x) = {1}
  BY DEF Positions
<1>2. x # y => Positions(<<y>>, x) = {}
  BY DEF Positions
<1>. QED
  BY <1>1, <1>2, FS_EmptySet, FS_Singleton DEF Count

\* An element at the end.
LEMMA CountAppend ==
    ASSUME NEW T, NEW q \in Seq(T), NEW y \in T, NEW x
    PROVE  Count(Append(q, y), x) = Count(q, x) + (IF x = y THEN 1 ELSE 0)
<1>1. Append(q, y) = q \o <<y>> /\ <<y>> \in Seq(T)
  OBVIOUS
<1>2. Count(q \o <<y>>, x) = Count(q, x) + Count(<<y>>, x)
  BY <1>1, CountConcat
<1>3. Count(<<y>>, x) = IF x = y THEN 1 ELSE 0
  BY CountOne
<1>. QED
  BY <1>1, <1>2, <1>3

\* An element that leaves at the front.
LEMMA CountTail ==
    ASSUME NEW T, NEW q \in Seq(T), q # <<>>, NEW x
    PROVE  /\ Count(q, x) = Count(Tail(q), x) + (IF x = Head(q) THEN 1 ELSE 0)
           /\ Tail(q) \in Seq(T) /\ Head(q) \in T
<1>1. /\ q = <<Head(q)>> \o Tail(q) /\ <<Head(q)>> \in Seq(T)
      /\ Tail(q) \in Seq(T) /\ Head(q) \in T
  OBVIOUS
<1>2. Count(Tail(q), x) \in Nat
  BY <1>1, CountType
<1>3. Count(q, x) = Count(<<Head(q)>>, x) + Count(Tail(q), x)
  <2>1. PICK p, r : p = <<Head(q)>> /\ r = Tail(q)
    OBVIOUS
  <2>2. Count(p \o r, x) = Count(p, x) + Count(r, x)
    BY <1>1, <2>1, CountConcat, Zenon
  <2>. QED
    BY <1>1, <2>1, <2>2, Zenon
<1>4. Count(<<Head(q)>>, x) = IF x = Head(q) THEN 1 ELSE 0
  BY CountOne
<1>. QED
  BY <1>1, <1>2, <1>3, <1>4

-----------------------------------------------------------------------------
(* Among *)

\* x is what Among keeps when it goes on from y with the element e.
Keep(x, y, e, S) == x = IF e \in S THEN Append(y, e) ELSE y

\* f[i] is what Among keeps of the first i elements of q, for i up to n.
Kept(f, q, S, T, n) ==
    /\ f = [i \in 0 .. n |-> f[i]]
    /\ f[0] = <<>>
    /\ \A i \in 0 .. n : f[i] \in Seq(T)
    /\ \A i \in 0 .. n - 1 : Keep(f[i + 1], f[i], q[i + 1], S)

\* An element more leaves a sequence.
LEMMA KeepType ==
    ASSUME NEW T, NEW y \in Seq(T), NEW e \in T, NEW S, NEW x, Keep(x, y, e, S)
    PROVE  x \in Seq(T)
BY DEF Keep

\* Among can be computed element by element.
LEMMA AmongIsKept ==
    ASSUME NEW T, NEW q \in Seq(T), NEW S
    PROVE  \E f : Kept(f, q, S, T, Len(q)) /\ Among(q, S) = f[Len(q)]
<1>. DEFINE n == Len(q)
            W == {m \in 0 .. n : \E f : Kept(f, q, S, T, m)}
            F(g) == [i \in 0 .. n |->
                       IF i = 0 THEN <<>>
                       ELSE IF q[i] \in S THEN Append(g[i - 1], q[i])
                                          ELSE g[i - 1]]
            t == CHOOSE g : g = F(g)
<1>0. n \in Nat /\ \A i \in 0 .. n - 1 : q[i + 1] \in T
  OBVIOUS
<1>. HIDE DEF n
<1>1. 0 \in W
  <2>1. Kept([i \in 0 .. 0 |-> <<>>], q, S, T, 0)
    BY DEF Kept
  <2>. QED BY <1>0, <2>1
<1>2. ASSUME NEW m \in 0 .. n - 1, m \in W PROVE m + 1 \in W
  <2>1. PICK f : Kept(f, q, S, T, m)
    BY <1>2
  <2>2. PICK x : Keep(x, f[m], q[m + 1], S)
    BY DEF Keep
  <2>. DEFINE g == [i \in 0 .. m + 1 |-> IF i = m + 1 THEN x ELSE f[i]]
  <2>3. m \in Nat /\ f[m] \in Seq(T) /\ q[m + 1] \in T /\ m + 1 \in 0 .. n
    BY <1>0, <2>1 DEF Kept
  <2>4. x \in Seq(T)
    BY <2>2, <2>3, KeepType
  <2>5. g = [i \in 0 .. m + 1 |-> g[i]]
    OBVIOUS
  <2>6. g[m + 1] = x /\ \A i \in 0 .. m : g[i] = f[i]
    BY <2>3
  <2>. HIDE DEF g
  <2>10. g[0] = <<>>
    <3>1. f[0] = <<>> /\ 0 \in 0 .. m
      BY <2>1, <2>3 DEF Kept
    <3>. QED BY <2>6, <3>1
  <2>7. ASSUME NEW i \in 0 .. m + 1 PROVE g[i] \in Seq(T)
    <3>1. CASE i = m + 1
      BY <2>4, <2>6, <3>1
    <3>2. CASE i \in 0 .. m
      BY <2>1, <2>6, <3>2 DEF Kept
    <3>. QED BY <2>3, <3>1, <3>2
  <2>8. ASSUME NEW i \in 0 .. (m + 1) - 1
        PROVE  Keep(g[i + 1], g[i], q[i + 1], S)
    <3>1. CASE i = m
      <4>1. g[i + 1] = x /\ g[i] = f[m]
        BY <2>3, <2>6, <3>1
      <4>. QED BY <2>2, <3>1, <4>1
    <3>2. CASE i \in 0 .. m - 1
      <4>1. g[i + 1] = f[i + 1] /\ g[i] = f[i]
        BY <2>3, <2>6, <3>2
      <4>. QED BY <2>1, <3>2, <4>1 DEF Kept
    <3>. QED
      BY <2>3, <3>1, <3>2
  <2>9. Kept(g, q, S, T, m + 1)
    BY <2>5, <2>7, <2>8, <2>10 DEF Kept
  <2>. QED
    BY <2>3, <2>9
<1>3. n \in W
  <2>. HIDE DEF W
  <2>. QED BY <1>0, <1>1, <1>2, InductionUpTo
<1>4. PICK f : Kept(f, q, S, T, n)
  BY <1>3
<1>5. f = F(f)
  <2>1. f = [i \in 0 .. n |-> f[i]]
    BY <1>4 DEF Kept
  <2>2. ASSUME NEW i \in 1 .. n
        PROVE  f[i] = IF q[i] \in S THEN Append(f[i - 1], q[i]) ELSE f[i - 1]
    <3>1. i - 1 \in 0 .. n - 1 /\ (i - 1) + 1 = i
      BY <1>0
    <3>2. Keep(f[(i - 1) + 1], f[i - 1], q[(i - 1) + 1], S)
      BY <1>4, <3>1 DEF Kept
    <3>. QED BY <3>1, <3>2 DEF Keep
  <2>3. f[0] = <<>>
    BY <1>4 DEF Kept
  <2>4. ASSUME NEW i \in 0 .. n PROVE f[i] = F(f)[i]
    <3>1. CASE i = 0
      BY <2>3, <3>1
    <3>2. CASE i \in 1 .. n
      BY <2>2, <3>2
    <3>. QED BY <1>0, <3>1, <3>2
  <2>. QED
    BY <2>1, <2>4
<1>6. t = F(t)
  <2>. HIDE DEF F
  <2>. QED BY <1>5, Zenon
<1>7. Among(q, S) = t[n]
  BY Zenon DEF Among, n
<1>8. Kept(t, q, S, T, n)
  <2>. HIDE DEF t
  <2>1. t[0] = <<>>
    BY <1>0, <1>6
  <2>2. ASSUME NEW i \in 0 .. n - 1 PROVE Keep(t[i + 1], t[i], q[i + 1], S)
    <3>1. i + 1 \in 0 .. n /\ i + 1 # 0 /\ (i + 1) - 1 = i
      BY <1>0
    <3>2. t[i + 1] = F(t)[i + 1]
      BY <1>6, <3>1
    <3>3. F(t)[i + 1] = IF q[i + 1] \in S THEN Append(t[(i + 1) - 1], q[i + 1])
                                          ELSE t[(i + 1) - 1]
      BY <3>1
    <3>. HIDE DEF F
    <3>. QED BY <3>1, <3>2, <3>3 DEF Keep
  <2>3. t = [i \in 0 .. n |-> t[i]]
    BY <1>6 DEF F
  <2>. HIDE DEF F
  <2>4. ASSUME NEW j \in 0 .. n PROVE t[j] \in Seq(T)
    <3>. DEFINE V == {i \in 0 .. n : t[i] \in Seq(T)}
    <3>1. 0 \in V
      <4>1. 0 \in 0 .. n /\ <<>> \in Seq(T)
        BY <1>0
      <4>. QED BY <2>1, <4>1
    <3>2. ASSUME NEW i \in 0 .. n - 1, i \in V PROVE i + 1 \in V
      <4>1. t[i] \in Seq(T) /\ q[i + 1] \in T /\ i + 1 \in 0 .. n
        BY <1>0, <3>2
      <4>2. t[i + 1] \in Seq(T)
        BY <2>2, <4>1, KeepType
      <4>. QED BY <4>1, <4>2
    <3>3. 0 .. n \subseteq V
      <4>. HIDE DEF V
      <4>. QED BY <1>0, <3>1, <3>2, SetInduction
    <3>. QED BY <3>3
  <2>. QED
    BY <2>1, <2>2, <2>3, <2>4 DEF Kept
<1>. QED
  BY <1>7, <1>8 DEF n

\* The facts about Kept that the next lemmas use.
LEMMA KeptFacts ==
    ASSUME NEW T, NEW q \in Seq(T), NEW S, NEW f, Kept(f, q, S, T, Len(q))
    PROVE  /\ Len(q) \in Nat
           /\ f[0] = <<>>
           /\ \A i \in 0 .. Len(q) : f[i] \in Seq(T)
           /\ \A i \in 0 .. Len(q) - 1 :
                 /\ q[i + 1] \in T
                 /\ Keep(f[i + 1], f[i], q[i + 1], S)
<1>1. Len(q) \in Nat /\ \A i \in 0 .. Len(q) - 1 : q[i + 1] \in T
  OBVIOUS
<1>. QED
  BY <1>1 DEF Kept

\* x holds members of S only, from the first i elements of q, and all of them.
Members(x, q, S, T, i) ==
    /\ x \in Seq(T \cap S)
    /\ \A j \in 1 .. i : q[j] \in S => \E m \in 1 .. Len(x) : x[m] = q[j]
    /\ \A m \in 1 .. Len(x) : \E j \in 1 .. i : q[j] = x[m]

\* One more element.
LEMMA MembersNext ==
    ASSUME NEW T, NEW q, NEW S, NEW i \in Nat, NEW x, NEW y,
           Members(x, q, S, T, i), q[i + 1] \in T, Keep(y, x, q[i + 1], S)
    PROVE  Members(y, q, S, T, i + 1)
<1>1. CASE q[i + 1] \notin S
  <2>1. y = x
    BY <1>1 DEF Keep
  <2>2. \A j \in 1 .. i + 1 : q[j] \in S => j \in 1 .. i
    BY <1>1
  <2>. QED
    BY <2>1, <2>2 DEF Members
<1>2. CASE q[i + 1] \in S
  <2>0. PICK e : e = q[i + 1]
    OBVIOUS
  <2>1. e \in T \cap S /\ y = Append(x, e) /\ x \in Seq(T \cap S)
    BY <1>2, <2>0 DEF Keep, Members
  <2>2. /\ y \in Seq(T \cap S) /\ Len(y) = Len(x) + 1 /\ Len(x) \in Nat
        /\ \A m \in 1 .. Len(x) : y[m] = x[m]
        /\ y[Len(x) + 1] = e
    BY <2>1
  <2>3. ASSUME NEW j \in 1 .. i + 1, q[j] \in S
        PROVE  \E m \in 1 .. Len(y) : y[m] = q[j]
    <3>1. CASE j = i + 1
      BY <2>0, <2>2, <3>1
    <3>2. CASE j \in 1 .. i
      <4>1. PICK m \in 1 .. Len(x) : x[m] = q[j]
        BY <2>3, <3>2 DEF Members
      <4>2. m \in 1 .. Len(y) /\ y[m] = q[j]
        BY <2>2, <4>1
      <4>. QED BY <4>2
    <3>. QED BY <3>1, <3>2
  <2>4. ASSUME NEW m \in 1 .. Len(y) PROVE \E j \in 1 .. i + 1 : q[j] = y[m]
    <3>1. CASE m \in 1 .. Len(x)
      <4>1. PICK j \in 1 .. i : q[j] = x[m]
        BY <3>1 DEF Members
      <4>2. j \in 1 .. i + 1 /\ y[m] = x[m]
        BY <2>2, <3>1
      <4>. QED BY <4>1, <4>2
    <3>2. CASE m = Len(x) + 1
      <4>1. i + 1 \in 1 .. i + 1 /\ y[m] = q[i + 1]
        BY <2>0, <2>2, <3>2
      <4>. QED BY <4>1
    <3>. QED BY <2>2, <3>1, <3>2
  <2>. QED
    BY <2>2, <2>3, <2>4 DEF Members
<1>. QED
  BY <1>1, <1>2

\* Among keeps elements of q that are in S, and all of them.
LEMMA AmongMembers ==
    ASSUME NEW T, NEW q \in Seq(T), NEW S
    PROVE  Members(Among(q, S), q, S, T, Len(q))
<1>0. PICK n : n = Len(q)
  OBVIOUS
<1>1. PICK f : Kept(f, q, S, T, Len(q)) /\ Among(q, S) = f[Len(q)]
  BY AmongIsKept
<1>2. /\ n \in Nat /\ f[0] = <<>>
      /\ \A i \in 0 .. n - 1 :
            q[i + 1] \in T /\ Keep(f[i + 1], f[i], q[i + 1], S)
  BY <1>0, <1>1, KeptFacts
<1>. DEFINE W == {i \in 0 .. n : Members(f[i], q, S, T, i)}
<1>3. 0 \in W
  <2>1. Members(<<>>, q, S, T, 0)
    BY DEF Members
  <2>. QED BY <1>2, <2>1
<1>4. ASSUME NEW i \in 0 .. n - 1, i \in W PROVE i + 1 \in W
  <2>1. i \in Nat /\ i + 1 \in 0 .. n /\ Members(f[i], q, S, T, i)
    BY <1>2, <1>4
  <2>2. Members(f[i + 1], q, S, T, i + 1)
    BY <1>2, <2>1, MembersNext
  <2>. QED BY <2>1, <2>2
<1>5. n \in W
  <2>. HIDE DEF W
  <2>. QED BY <1>2, <1>3, <1>4, InductionUpTo
<1>. QED
  BY <1>0, <1>1, <1>5

\* Only the elements of q matter.
LEMMA AmongSame ==
    ASSUME NEW T, NEW q \in Seq(T), NEW S, NEW R,
           \A i \in 1 .. Len(q) : q[i] \in S <=> q[i] \in R
    PROVE  Among(q, S) = Among(q, R)
<1>0. PICK n : n = Len(q)
  OBVIOUS
<1>1. PICK f : Kept(f, q, S, T, Len(q)) /\ Among(q, S) = f[Len(q)]
  BY AmongIsKept
<1>2. PICK g : Kept(g, q, R, T, Len(q)) /\ Among(q, R) = g[Len(q)]
  BY AmongIsKept
<1>3. /\ n \in Nat /\ f[0] = <<>>
      /\ \A i \in 0 .. n - 1 : Keep(f[i + 1], f[i], q[i + 1], S)
  BY <1>0, <1>1, KeptFacts
<1>4. /\ g[0] = <<>>
      /\ \A i \in 0 .. n - 1 : Keep(g[i + 1], g[i], q[i + 1], R)
  BY <1>0, <1>2, KeptFacts
<1>. DEFINE W == {i \in 0 .. n : f[i] = g[i]}
<1>5. 0 \in W
  BY <1>3, <1>4
<1>6. ASSUME NEW i \in 0 .. n - 1, i \in W PROVE i + 1 \in W
  <2>1. i + 1 \in 0 .. n /\ i + 1 \in 1 .. n /\ f[i] = g[i]
    BY <1>3, <1>6
  <2>2. q[i + 1] \in S <=> q[i + 1] \in R
    BY <1>0, <2>1
  <2>3. Keep(f[i + 1], f[i], q[i + 1], S) /\ Keep(g[i + 1], g[i], q[i + 1], R)
    BY <1>3, <1>4
  <2>4. f[i + 1] = g[i + 1]
    BY <2>1, <2>2, <2>3 DEF Keep
  <2>. QED BY <2>1, <2>4
<1>7. n \in W
  <2>. HIDE DEF W
  <2>. QED BY <1>3, <1>5, <1>6, InductionUpTo
<1>. QED
  BY <1>0, <1>1, <1>2, <1>7

\* Nothing is kept of a sequence without members of S, or of none.
LEMMA AmongNone ==
    ASSUME NEW T, NEW q \in Seq(T), NEW S, \A i \in 1 .. Len(q) : q[i] \notin S
    PROVE  Among(q, S) = <<>>
<1>0. PICK x : x = Among(q, S)
  OBVIOUS
<1>1. Members(x, q, S, T, Len(q))
  BY <1>0, AmongMembers
<1>2. x \in Seq(T \cap S) /\ \A m \in 1 .. Len(x) : x[m] \notin S
  BY <1>1 DEF Members
<1>3. Len(x) = 0
  BY <1>2
<1>. QED
  BY <1>0, <1>2, <1>3

\* What is kept of the second of two sequences comes after the first.
LEMMA KeepConcat ==
    ASSUME NEW T, NEW a \in Seq(T), NEW b \in Seq(T), NEW e \in T, NEW S,
           NEW x, NEW y, Keep(x, a \o b, e, S), Keep(y, b, e, S)
    PROVE  x = a \o y
<1>1. Append(a \o b, e) = a \o Append(b, e)
  OBVIOUS
<1>. QED
  BY <1>1, Zenon DEF Keep

\* Concatenation.
LEMMA AmongConcat ==
    ASSUME NEW T, NEW p \in Seq(T), NEW q \in Seq(T), NEW S
    PROVE  Among(p \o q, S) = Among(p, S) \o Among(q, S)
<1>0. PICK r, m, n : r = p \o q /\ m = Len(p) /\ n = Len(q)
  OBVIOUS
<1>1. /\ r \in Seq(T) /\ Len(r) = m + n
      /\ \A i \in 0 .. m - 1 : r[i + 1] = p[i + 1]
      /\ \A i \in 0 .. n - 1 : r[(m + i) + 1] = q[i + 1]
  BY <1>0
<1>2. PICK f : Kept(f, r, S, T, Len(r)) /\ Among(r, S) = f[Len(r)]
  BY <1>1, AmongIsKept
<1>3. PICK g : Kept(g, p, S, T, Len(p)) /\ Among(p, S) = g[Len(p)]
  BY AmongIsKept
<1>4. PICK h : Kept(h, q, S, T, Len(q)) /\ Among(q, S) = h[Len(q)]
  BY AmongIsKept
<1>5. /\ f[0] = <<>>
      /\ \A i \in 0 .. (m + n) - 1 : Keep(f[i + 1], f[i], r[i + 1], S)
  BY <1>1, <1>2, KeptFacts
<1>6. /\ m \in Nat /\ g[0] = <<>> /\ g[m] \in Seq(T)
      /\ \A i \in 0 .. m - 1 : Keep(g[i + 1], g[i], p[i + 1], S)
  <2>1. /\ Len(p) \in Nat /\ g[0] = <<>>
        /\ \A i \in 0 .. Len(p) : g[i] \in Seq(T)
        /\ \A i \in 0 .. Len(p) - 1 : Keep(g[i + 1], g[i], p[i + 1], S)
    BY <1>3, KeptFacts
  <2>. QED BY <1>0, <2>1
<1>7. /\ n \in Nat /\ h[0] = <<>> /\ \A i \in 0 .. n : h[i] \in Seq(T)
      /\ \A i \in 0 .. n - 1 :
            q[i + 1] \in T /\ Keep(h[i + 1], h[i], q[i + 1], S)
  BY <1>0, <1>4, KeptFacts
<1>. DEFINE V == {i \in 0 .. m : f[i] = g[i]}
            W == {i \in 0 .. n : f[m + i] = g[m] \o h[i]}
<1>8. m \in V
  <2>1. 0 \in V
    BY <1>5, <1>6
  <2>2. ASSUME NEW i \in 0 .. m - 1, i \in V PROVE i + 1 \in V
    <3>1. i \in 0 .. (m + n) - 1 /\ i + 1 \in 0 .. m /\ f[i] = g[i]
      BY <1>6, <1>7, <2>2
    <3>2. /\ Keep(f[i + 1], f[i], r[i + 1], S)
          /\ Keep(g[i + 1], g[i], p[i + 1], S)
          /\ r[i + 1] = p[i + 1]
      BY <1>1, <1>5, <1>6, <3>1
    <3>3. f[i + 1] = g[i + 1]
      BY <3>1, <3>2 DEF Keep
    <3>. QED BY <3>1, <3>3
  <2>. HIDE DEF V
  <2>. QED BY <1>6, <2>1, <2>2, InductionUpTo
<1>9. n \in W
  <2>1. 0 \in W
    <3>1. f[m] = g[m] /\ m + 0 = m /\ 0 \in 0 .. n
      BY <1>6, <1>7, <1>8
    <3>2. g[m] \o <<>> = g[m]
      BY <1>6
    <3>. QED BY <1>7, <3>1, <3>2
  <2>2. ASSUME NEW i \in 0 .. n - 1, i \in W PROVE i + 1 \in W
    <3>0. m \in Nat /\ n \in Nat /\ g[m] \in Seq(T) /\ f[m + i] = g[m] \o h[i]
      BY <1>6, <1>7, <2>2
    <3>1. /\ m + i \in 0 .. (m + n) - 1 /\ i + 1 \in 0 .. n /\ i \in 0 .. n
          /\ (m + i) + 1 = m + (i + 1)
      BY <3>0
    <3>2. /\ Keep(f[(m + i) + 1], f[m + i], r[(m + i) + 1], S)
          /\ r[(m + i) + 1] = q[i + 1]
      BY <1>1, <1>5, <3>1
    <3>3. /\ q[i + 1] \in T /\ h[i] \in Seq(T)
          /\ Keep(h[i + 1], h[i], q[i + 1], S)
      BY <1>7, <3>1
    <3>4. Keep(f[m + (i + 1)], g[m] \o h[i], q[i + 1], S)
      BY <3>0, <3>1, <3>2
    <3>5. f[m + (i + 1)] = g[m] \o h[i + 1]
      <4>1. PICK a, b, e, x, y : /\ a = g[m] /\ b = h[i] /\ e = q[i + 1]
                                 /\ x = f[m + (i + 1)] /\ y = h[i + 1]
        OBVIOUS
      <4>2. /\ a \in Seq(T) /\ b \in Seq(T) /\ e \in T
            /\ Keep(x, a \o b, e, S) /\ Keep(y, b, e, S)
        BY <3>0, <3>3, <3>4, <4>1
      <4>3. x = a \o y
        BY <4>2, KeepConcat
      <4>. QED BY <4>1, <4>3
    <3>. QED BY <3>1, <3>5
  <2>. HIDE DEF W
  <2>. QED BY <1>7, <2>1, <2>2, InductionUpTo
<1>. QED
  BY <1>0, <1>1, <1>2, <1>3, <1>4, <1>9

\* One element.
LEMMA AmongOne ==
    ASSUME NEW x, NEW S
    PROVE  Among(<<x>>, S) = IF x \in S THEN <<x>> ELSE <<>>
<1>0. <<x>> \in Seq({x}) /\ Len(<<x>>) = 1 /\ <<x>>[0 + 1] = x
  OBVIOUS
<1>1. PICK f : Kept(f, <<x>>, S, {x}, Len(<<x>>)) /\ Among(<<x>>, S) = f[Len(<<x>>)]
  BY <1>0, AmongIsKept
<1>2. f[0] = <<>> /\ Keep(f[0 + 1], f[0], <<x>>[0 + 1], S)
  <2>1. 0 \in 0 .. 1 - 1
    OBVIOUS
  <2>. QED BY <1>0, <1>1, <2>1, KeptFacts
<1>3. Keep(f[1], <<>>, x, S)
  BY <1>0, <1>2
<1>4. Append(<<>>, x) = <<x>>
  OBVIOUS
<1>. QED
  BY <1>0, <1>1, <1>3, <1>4 DEF Keep

\* Members of S are kept as often as they occur.
LEMMA CountAmong ==
    ASSUME NEW T, NEW q \in Seq(T), NEW S, NEW x \in S
    PROVE  Count(Among(q, S), x) = Count(q, x)
<1>0. PICK n : n = Len(q)
  OBVIOUS
<1>1. PICK f : Kept(f, q, S, T, Len(q)) /\ Among(q, S) = f[Len(q)]
  BY AmongIsKept
<1>2. /\ n \in Nat /\ f[0] = <<>> /\ \A i \in 0 .. n : f[i] \in Seq(T)
      /\ \A i \in 0 .. n - 1 :
            q[i + 1] \in T /\ Keep(f[i + 1], f[i], q[i + 1], S)
  BY <1>0, <1>1, KeptFacts
<1>. DEFINE P(i) == {j \in 1 .. i : q[j] = x}
            W == {i \in 0 .. n : Count(f[i], x) = Cardinality(P(i))}
<1>3. 0 \in W
  <2>1. P(0) = {}
    OBVIOUS
  <2>2. Count(<<>>, x) = 0 /\ Cardinality({}) = 0
    BY CountEmpty, FS_EmptySet
  <2>3. 0 \in 0 .. n /\ f[0] = <<>>
    BY <1>2
  <2>. HIDE DEF P
  <2>. QED BY <2>1, <2>2, <2>3
<1>4. ASSUME NEW i \in 0 .. n - 1, i \in W PROVE i + 1 \in W
  <2>1. /\ i \in Nat /\ i + 1 \in 0 .. n /\ q[i + 1] \in T /\ f[i] \in Seq(T)
        /\ Keep(f[i + 1], f[i], q[i + 1], S)
    BY <1>2
  <2>2. IsFiniteSet(P(i)) /\ Cardinality(P(i)) \in Nat
    <3>1. IsFiniteSet(1 .. i) /\ P(i) \subseteq 1 .. i
      BY <2>1, FS_Interval
    <3>. HIDE DEF P
    <3>. QED BY <3>1, FS_Subset, FS_CardinalityType
  <2>3. Count(f[i], x) = Cardinality(P(i)) /\ Count(f[i], x) \in Nat
    BY <1>4, <2>1, CountType
  <2>4. CASE q[i + 1] = x
    <3>1. P(i + 1) = P(i) \cup {i + 1} /\ i + 1 \notin P(i)
      BY <2>1, <2>4
    <3>2. Cardinality(P(i) \cup {i + 1}) = Cardinality(P(i)) + 1
      <4>. HIDE DEF P
      <4>. QED BY <2>2, <3>1, FS_AddElement
    <3>3. Count(f[i + 1], x) = Count(f[i], x) + 1
      <4>1. f[i + 1] = Append(f[i], x) /\ x \in T
        BY <2>1, <2>4 DEF Keep
      <4>. QED BY <2>1, <4>1, CountAppend
    <3>. HIDE DEF P
    <3>. QED
      BY <2>1, <2>3, <3>1, <3>2, <3>3
  <2>5. CASE q[i + 1] # x
    <3>1. P(i + 1) = P(i)
      BY <2>1, <2>5
    <3>2. Count(f[i + 1], x) = Count(f[i], x)
      <4>1. CASE q[i + 1] \in S
        <5>1. Count(Append(f[i], q[i + 1]), x) = Count(f[i], x) + 0
          BY <2>1, <2>5, CountAppend
        <5>. QED BY <2>1, <2>3, <4>1, <5>1 DEF Keep
      <4>2. CASE q[i + 1] \notin S
        BY <2>1, <4>2 DEF Keep
      <4>. QED BY <4>1, <4>2
    <3>. HIDE DEF P
    <3>. QED
      BY <2>1, <2>3, <3>1, <3>2
  <2>. QED
    BY <2>4, <2>5
<1>5. n \in W
  <2>. HIDE DEF W
  <2>. QED BY <1>2, <1>3, <1>4, InductionUpTo
<1>6. Count(f[n], x) = Cardinality(P(n))
  BY <1>5
<1>. QED
  BY <1>0, <1>1, <1>6 DEF Count, Positions
=============================================================================
