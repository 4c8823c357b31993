---------------------------- MODULE ListTheorems ----------------------------
(***************************************************************************)
(* Facts about the list operators that the proofs of the components use.   *)
(* The induction over the length of a list is made with a set of natural   *)
(* numbers, NatSet below, in place of a predicate.                         *)
(***************************************************************************)
EXTENDS Lists, FiniteSets, TLAPS, WellFoundedInduction, NaturalsInduction,
        FiniteSetTheorems, SequenceTheorems

\* Induction over the natural numbers, for sets: the least number left out
\* would follow a number that is in.
LEMMA NatSet ==
    ASSUME NEW S \in SUBSET Nat, 0 \in S, \A n \in S : n + 1 \in S
    PROVE  S = Nat
<1>1. SUFFICES ASSUME Nat \ S # {} PROVE FALSE
  OBVIOUS
<1>2. PICK x \in Nat \ S : \A y \in Nat \ S : ~(<<y, x>> \in OpToRel(<, Nat))
  BY <1>1, NatLessThanWellFounded, WFMin, Zenon
<1>3. \A y \in Nat : y < x => <<y, x>> \in OpToRel(<, Nat)
  BY Zenon DEF OpToRel
<1>4. \A y \in Nat \ S : ~(y < x)
  BY <1>2, <1>3, Zenon
<1> QED
  BY <1>4

\* The function that Kept reads its result from.
IsKept(s, S, f, n) ==
    f = [i \in 0..n |->
            IF i = 0 THEN <<>>
            ELSE IF s[i] \in S THEN Append(f[i - 1], s[i]) ELSE f[i - 1]]

\* It exists for every prefix of the list.
LEMMA KeptExists ==
    ASSUME NEW s, NEW S, NEW n \in Nat
    PROVE  \E f : IsKept(s, S, f, n)
<1> DEFINE N == {m \in Nat : \E f : IsKept(s, S, f, m)}
<1>1. 0 \in N
  <2> DEFINE f == [i \in 0..0 |-> <<>>]
  <2>1. IsKept(s, S, f, 0)
    BY DEF IsKept
  <2> QED
    BY <2>1
<1>2. ASSUME NEW m \in N PROVE m + 1 \in N
  <2>1. PICK f : IsKept(s, S, f, m)
    OBVIOUS
  <2> DEFINE g == [i \in 0..(m + 1) |->
                      IF i <= m THEN f[i]
                      ELSE IF s[i] \in S THEN Append(f[m], s[i]) ELSE f[m]]
  <2>2. ASSUME NEW i \in 0..(m + 1)
        PROVE  g[i] = IF i = 0 THEN <<>>
                      ELSE IF s[i] \in S THEN Append(g[i - 1], s[i]) ELSE g[i - 1]
    <3>1. CASE i = 0
      BY <2>1, <3>1 DEF IsKept
    <3>2. CASE i # 0
      <4>1. i - 1 \in 0..m
        BY <3>2
      <4>2. g[i - 1] = f[i - 1]
        BY <4>1
      <4>3. CASE i <= m
        <5>1. i \in 0..m
          BY <4>3
        <5>2. f[i] = IF s[i] \in S THEN Append(f[i - 1], s[i]) ELSE f[i - 1]
          BY <2>1, <5>1, <3>2 DEF IsKept
        <5> QED
          BY <4>2, <4>3, <3>2, <5>2
      <4>4. CASE i = m + 1
        BY <4>2, <4>4
      <4> QED
        BY <4>3, <4>4
    <3> QED
      BY <3>1, <3>2
  <2>3. IsKept(s, S, g, m + 1)
    <3> HIDE DEF g
    <3>1. g = [i \in 0..(m + 1) |-> g[i]]
      BY DEF g
    <3> QED
      BY <2>2, <3>1, Zenon DEF IsKept
  <2> QED
    BY <2>3
<1> QED
  BY <1>1, <1>2, NatSet

\* What the recursion says.
LEMMA KeptDef ==
    ASSUME NEW P, NEW s \in Seq(P), NEW S
    PROVE  \E f : IsKept(s, S, f, Len(s)) /\ Kept(s, S) = f[Len(s)]
<1> DEFINE f == CHOOSE f : IsKept(s, S, f, Len(s))
<1>1. IsKept(s, S, f, Len(s))
  BY KeptExists
<1>2. Kept(s, S) = f[Len(s)]
  BY Zenon DEF Kept, IsKept
<1> QED
  BY <1>1, <1>2

\* The elements of a list over P are in P; only the empty list has none.
LEMMA ElementsType ==
    ASSUME NEW P, NEW s \in Seq(P)
    PROVE  /\ Elements(s) \subseteq P
           /\ s = <<>> <=> Elements(s) = {}
           /\ \A i \in 1..Len(s) : s[i] \in Elements(s)
<1>1. DOMAIN s = 1..Len(s) /\ Len(s) \in Nat /\ \A i \in 1..Len(s) : s[i] \in P
  OBVIOUS
<1>2. \A i \in 1..Len(s) : s[i] \in Elements(s)
  BY <1>1 DEF Elements
<1>3. s # <<>> => 1 \in 1..Len(s)
  BY EmptySeq
<1>4. s = <<>> => Elements(s) = {}
  BY DEF Elements
<1>5. Elements(s) \subseteq P
  BY <1>1 DEF Elements
<1> QED
  BY <1>2, <1>3, <1>4, <1>5

\* Appending an element.
LEMMA AppendFacts ==
    ASSUME NEW P, NEW s \in Seq(P), NEW e \in P
    PROVE  /\ Append(s, e) \in Seq(P) /\ Len(Append(s, e)) = Len(s) + 1
           /\ Elements(Append(s, e)) = Elements(s) \cup {e}
           /\ Distinct(s) /\ e \notin Elements(s) => Distinct(Append(s, e))
<1> DEFINE t == Append(s, e)
<1>1. /\ t \in Seq(P) /\ Len(t) = Len(s) + 1
      /\ DOMAIN s = 1..Len(s) /\ DOMAIN t = 1..(Len(s) + 1) /\ Len(s) \in Nat
      /\ \A i \in 1..Len(s) : t[i] = s[i]
      /\ t[Len(s) + 1] = e
  BY AppendProperties
<1> HIDE DEF t
<1>2. Elements(t) = Elements(s) \cup {e}
  <2>1. ASSUME NEW x \in Elements(t) PROVE x \in Elements(s) \cup {e}
    BY <1>1 DEF Elements
  <2>2. ASSUME NEW x \in Elements(s) \cup {e} PROVE x \in Elements(t)
    <3>1. CASE x = e
      BY <1>1, <3>1 DEF Elements
    <3>2. CASE x \in Elements(s)
      <4>1. PICK i \in 1..Len(s) : s[i] = x
        BY <1>1, <3>2 DEF Elements
      <4>2. i \in 1..(Len(s) + 1) /\ t[i] = x
        BY <1>1, <4>1
      <4> QED
        BY <1>1, <4>2 DEF Elements
    <3> QED
      BY <3>1, <3>2
  <2> QED
    BY <2>1, <2>2
<1>3. ASSUME Distinct(s), e \notin Elements(s) PROVE Distinct(t)
  <2> SUFFICES ASSUME NEW i \in 1..(Len(s) + 1), NEW j \in 1..(Len(s) + 1), t[i] = t[j], i < j
               PROVE  FALSE
    BY <1>1 DEF Distinct
  <2>1. i \in 1..Len(s) /\ t[i] = s[i] /\ t[i] \in Elements(s)
    BY <1>1 DEF Elements
  <2>2. CASE j \in 1..Len(s)
    <3>1. t[j] = s[j] /\ i \in DOMAIN s /\ j \in DOMAIN s
      BY <1>1, <2>1, <2>2
    <3>2. i # j
      BY <1>1
    <3> QED
      BY <1>3, <2>1, <3>1, <3>2 DEF Distinct
  <2>3. CASE j = Len(s) + 1
    BY <1>1, <1>3, <2>1, <2>3
  <2> QED
    BY <2>2, <2>3
<1> QED
  BY <1>1, <1>2, <1>3 DEF t

\* Taking the first element off.
LEMMA TailFacts ==
    ASSUME NEW P, NEW s \in Seq(P), s # <<>>
    PROVE  /\ Head(s) \in P /\ Tail(s) \in Seq(P) /\ Len(Tail(s)) = Len(s) - 1
           /\ Elements(s) = {Head(s)} \cup Elements(Tail(s))
           /\ Distinct(s) => Distinct(Tail(s)) /\ Head(s) \notin Elements(Tail(s))
<1> DEFINE t == Tail(s)
<1>1. /\ Head(s) \in P /\ t \in Seq(P) /\ Len(t) = Len(s) - 1 /\ Len(s) \in Nat \ {0}
      /\ DOMAIN s = 1..Len(s) /\ DOMAIN t = 1..(Len(s) - 1)
      /\ \A i \in 1..(Len(s) - 1) : t[i] = s[i + 1]
      /\ Head(s) = s[1]
  BY HeadTailProperties, EmptySeq
<1> HIDE DEF t
<1>2. Elements(s) = {Head(s)} \cup Elements(t)
  <2>1. ASSUME NEW x \in Elements(s) PROVE x \in {Head(s)} \cup Elements(t)
    <3>1. PICK i \in 1..Len(s) : x = s[i]
      BY <1>1 DEF Elements
    <3>2. CASE i = 1
      BY <1>1, <3>1, <3>2
    <3>3. CASE i # 1
      <4>1. i - 1 \in 1..(Len(s) - 1) /\ t[i - 1] = s[i]
        BY <1>1, <3>3
      <4> QED
        BY <1>1, <3>1, <4>1 DEF Elements
    <3> QED
      BY <3>2, <3>3
  <2>2. Elements(t) \subseteq Elements(s)
    BY <1>1 DEF Elements
  <2>3. Head(s) \in Elements(s)
    BY <1>1 DEF Elements
  <2> QED
    BY <2>1, <2>2, <2>3
<1>3. ASSUME Distinct(s) PROVE Distinct(t) /\ Head(s) \notin Elements(t)
  <2>1. ASSUME NEW i \in 1..(Len(s) - 1), NEW j \in 1..(Len(s) - 1), t[i] = t[j] PROVE i = j
    <3>1. i + 1 \in DOMAIN s /\ j + 1 \in DOMAIN s /\ s[i + 1] = s[j + 1]
      BY <1>1, <2>1
    <3>2. i + 1 = j + 1
      BY <1>3, <3>1 DEF Distinct
    <3> QED
      BY <3>2
  <2>2. ASSUME NEW i \in 1..(Len(s) - 1) PROVE t[i] # Head(s)
    <3>1. i + 1 \in DOMAIN s /\ 1 \in DOMAIN s /\ i + 1 # 1 /\ t[i] = s[i + 1]
      BY <1>1
    <3> QED
      BY <1>1, <1>3, <3>1 DEF Distinct
  <2> QED
    BY <1>1, <2>1, <2>2 DEF Distinct, Elements
<1> QED
  BY <1>1, <1>2, <1>3 DEF t

\* Putting an element at the front.
LEMMA PrependFacts ==
    ASSUME NEW P, NEW s \in Seq(P), NEW e \in P
    PROVE  /\ <<e>> \o s \in Seq(P) /\ Len(<<e>> \o s) = Len(s) + 1
           /\ Elements(<<e>> \o s) = Elements(s) \cup {e}
           /\ Distinct(s) /\ e \notin Elements(s) => Distinct(<<e>> \o s)
<1> DEFINE t == <<e>> \o s
<1>1. /\ t \in Seq(P) /\ Len(t) = Len(s) + 1
      /\ DOMAIN s = 1..Len(s) /\ DOMAIN t = 1..(Len(s) + 1) /\ Len(s) \in Nat
      /\ \A i \in 2..(Len(s) + 1) : t[i] = s[i - 1]
      /\ t[1] = e
  <2>1. <<e>> \in Seq(P) /\ Len(<<e>>) = 1 /\ <<e>>[1] = e
    OBVIOUS
  <2>2. /\ t \in Seq(P) /\ Len(t) = 1 + Len(s)
        /\ \A i \in 1..(1 + Len(s)) : t[i] = IF i <= 1 THEN <<e>>[i] ELSE s[i - 1]
    BY <2>1, ConcatProperties
  <2> HIDE DEF t
  <2> QED
    BY <2>1, <2>2
<1> HIDE DEF t
<1>2. ASSUME NEW i \in 1..Len(s) PROVE i + 1 \in DOMAIN t /\ t[i + 1] = s[i]
  BY <1>1
<1>3. Elements(t) = Elements(s) \cup {e}
  <2>1. ASSUME NEW x \in Elements(t) PROVE x \in Elements(s) \cup {e}
    <3>1. PICK i \in 1..(Len(s) + 1) : x = t[i]
      BY <1>1 DEF Elements
    <3>2. CASE i = 1
      BY <1>1, <3>1, <3>2
    <3>3. CASE i # 1
      <4>1. i - 1 \in 1..Len(s) /\ x = s[i - 1]
        BY <1>1, <3>1, <3>3
      <4> QED
        BY <1>1, <4>1 DEF Elements
    <3> QED
      BY <3>2, <3>3
  <2>2. Elements(s) \subseteq Elements(t)
    BY <1>1, <1>2 DEF Elements
  <2>3. e \in Elements(t)
    BY <1>1 DEF Elements
  <2> QED
    BY <2>1, <2>2, <2>3
<1>4. ASSUME Distinct(s), e \notin Elements(s) PROVE Distinct(t)
  <2> SUFFICES ASSUME NEW i \in 1..(Len(s) + 1), NEW j \in 1..(Len(s) + 1), t[i] = t[j], i < j
               PROVE  FALSE
    BY <1>1 DEF Distinct
  <2>1. j - 1 \in DOMAIN s /\ t[j] = s[j - 1]
    BY <1>1
  <2>2. CASE i = 1
    BY <1>1, <1>4, <2>1, <2>2 DEF Elements
  <2>3. CASE i # 1
    <3>1. i - 1 \in DOMAIN s /\ s[i - 1] = s[j - 1] /\ i - 1 # j - 1
      BY <1>1, <2>1, <2>3
    <3> QED
      BY <1>4, <2>1, <3>1 DEF Distinct
  <2> QED
    BY <2>2, <2>3
<1> QED
  BY <1>1, <1>3, <1>4 DEF t

\* What was kept of the first n elements of a list.
KeptOf(P, s, S, n, k) ==
    /\ k \in Seq(P) /\ Len(k) <= n
    /\ Elements(k) = {s[i] : i \in 1..n} \cap S
    /\ Distinct(s) => Distinct(k)

\* The elements of a longer prefix.
LEMMA PrefixFacts ==
    ASSUME NEW P, NEW s \in Seq(P), NEW n \in Nat, n + 1 <= Len(s)
    PROVE  /\ s[n + 1] \in P
           /\ {s[i] : i \in 1..(n + 1)} = {s[i] : i \in 1..n} \cup {s[n + 1]}
           /\ Distinct(s) => s[n + 1] \notin {s[i] : i \in 1..n}
<1>1. {s[i] : i \in 1..(n + 1)} = {s[i] : i \in 1..n} \cup {s[n + 1]}
  <2>1. 1..(n + 1) = 1..n \cup {n + 1}
    OBVIOUS
  <2> QED
    BY <2>1
<1>2. ASSUME Distinct(s), NEW i \in 1..n PROVE s[n + 1] # s[i]
  <2>1. DOMAIN s = 1..Len(s) /\ i \in DOMAIN s /\ n + 1 \in DOMAIN s /\ i # n + 1
    OBVIOUS
  <2> QED
    BY <1>2, <2>1 DEF Distinct
<1> QED
  BY <1>1, <1>2

\* A kept list has the elements of the list that are in S, none more often
\* than the list has it.
LEMMA KeptFacts ==
    ASSUME NEW P, NEW s \in Seq(P), NEW S
    PROVE  /\ Kept(s, S) \in Seq(P)
           /\ Elements(Kept(s, S)) = Elements(s) \cap S
           /\ Len(Kept(s, S)) <= Len(s)
           /\ Distinct(s) => Distinct(Kept(s, S))
<1>1. PICK f : IsKept(s, S, f, Len(s)) /\ Kept(s, S) = f[Len(s)]
  BY KeptDef
<1> DEFINE N == {n \in Nat : n <= Len(s) => KeptOf(P, s, S, n, f[n])}
<1>0. Len(s) \in Nat /\ DOMAIN s = 1..Len(s)
  OBVIOUS
<1>2. 0 \in N
  <2>1. f[0] = <<>>
    BY <1>0, <1>1 DEF IsKept
  <2>2. KeptOf(P, s, S, 0, <<>>)
    BY DEF KeptOf, Elements, Distinct
  <2> QED
    BY <2>1, <2>2
<1>3. ASSUME NEW n \in Nat, n + 1 <= Len(s), KeptOf(P, s, S, n, f[n])
      PROVE  KeptOf(P, s, S, n + 1, f[n + 1])
  <2>1. f[n + 1] = IF s[n + 1] \in S THEN Append(f[n], s[n + 1]) ELSE f[n]
    <3>1. n + 1 \in 0..Len(s) /\ n + 1 # 0 /\ (n + 1) - 1 = n
      BY <1>0, <1>3
    <3> QED
      BY <1>1, <3>1 DEF IsKept
  <2>2. CASE s[n + 1] \notin S
    <3>1. f[n + 1] = f[n]
      BY <2>1, <2>2
    <3>2. {s[i] : i \in 1..(n + 1)} \cap S = {s[i] : i \in 1..n} \cap S
      BY <1>3, <2>2, PrefixFacts
    <3> QED
      BY <1>3, <3>1, <3>2 DEF KeptOf
  <2>3. CASE s[n + 1] \in S
    <3> DEFINE k == f[n]
               e == s[n + 1]
    <3>1. f[n + 1] = Append(k, e) /\ e \in P /\ k \in Seq(P)
      BY <1>3, <2>1, <2>3, PrefixFacts DEF KeptOf
    <3>2. /\ Append(k, e) \in Seq(P) /\ Len(Append(k, e)) = Len(k) + 1
          /\ Elements(Append(k, e)) = Elements(k) \cup {e}
          /\ Distinct(k) /\ e \notin Elements(k) => Distinct(Append(k, e))
      BY <3>1, AppendFacts
    <3>3. Elements(k) \cup {e} = {s[i] : i \in 1..(n + 1)} \cap S
      BY <1>3, <2>3, PrefixFacts DEF KeptOf
    <3>4. Distinct(s) => Distinct(k) /\ e \notin Elements(k)
      BY <1>3, PrefixFacts DEF KeptOf
    <3>5. Len(k) + 1 <= n + 1
      BY <1>3, <3>1 DEF KeptOf
    <3> HIDE DEF k, e
    <3> QED
      BY <3>1, <3>2, <3>3, <3>4, <3>5 DEF KeptOf
  <2> QED
    BY <2>2, <2>3
<1>4. ASSUME NEW n \in N PROVE n + 1 \in N
  <2>1. n \in Nat /\ n + 1 \in Nat /\ (n + 1 <= Len(s) => n <= Len(s))
    BY <1>0
  <2> QED
    BY <1>3, <2>1
<1>5. N = Nat
  <2> HIDE DEF N
  <2>1. N \in SUBSET Nat
    BY DEF N
  <2> QED
    BY <1>2, <1>4, <2>1, NatSet
<1>6. KeptOf(P, s, S, Len(s), f[Len(s)])
  BY <1>0, <1>5
<1> QED
  BY <1>0, <1>1, <1>6 DEF KeptOf, Elements

\* A list without duplicates is as long as the set of its elements.
LEMMA DistinctLen ==
    ASSUME NEW P, NEW s \in Seq(P), Distinct(s)
    PROVE  IsFiniteSet(Elements(s)) /\ Cardinality(Elements(s)) = Len(s)
<1>1. s \in Bijection(1..Len(s), Elements(s))
  BY DEF Bijection, Injection, Surjection, IsInjective, Elements, Distinct
<1>2. ExistsBijection(1..Len(s), Elements(s))
  BY <1>1 DEF ExistsBijection
<1> QED
  BY <1>2, FS_NatBijection, FS_CountingElements

\* e is the first element of s that is in A.
First(s, A, e) ==
    \E i \in DOMAIN s : s[i] = e /\ e \in A /\ \A j \in 1..(i - 1) : s[j] \notin A

\* There is at most one such element, and there is one if any element is in A.
LEMMA FirstFacts ==
    ASSUME NEW P, NEW s \in Seq(P), NEW A
    PROVE  /\ \A e : First(s, A, e) => e \in Elements(s) /\ e \in A /\ e \in P
           /\ \A d, e : First(s, A, d) /\ First(s, A, e) => d = e
           /\ Elements(s) \cap A # {} => \E e : First(s, A, e)
<1>1. DOMAIN s = 1..Len(s) /\ Len(s) \in Nat /\ \A i \in 1..Len(s) : s[i] \in P
  OBVIOUS
<1>2. ASSUME NEW d, NEW e, First(s, A, d), First(s, A, e) PROVE d = e
  <2>1. PICK i \in 1..Len(s) : s[i] = d /\ d \in A /\ \A j \in 1..(i - 1) : s[j] \notin A
    BY <1>1, <1>2 DEF First
  <2>2. PICK k \in 1..Len(s) : s[k] = e /\ e \in A /\ \A j \in 1..(k - 1) : s[j] \notin A
    BY <1>1, <1>2 DEF First
  <2>3. ~(i < k) /\ ~(k < i)
    BY <1>1, <2>1, <2>2
  <2>4. i = k
    BY <1>1, <2>3
  <2> QED
    BY <2>1, <2>2, <2>4
<1>3. ASSUME NEW k \in 1..Len(s), s[k] \in A PROVE \E e : First(s, A, e)
  <2> DEFINE N == {n \in Nat : (\A j \in 1..n : j <= Len(s) => s[j] \notin A)}
  <2>1. SUFFICES ASSUME \A e : ~First(s, A, e) PROVE FALSE
    OBVIOUS
  <2>2. 0 \in N
    OBVIOUS
  <2>3. ASSUME NEW n \in N PROVE n + 1 \in N
    <3>1. n + 1 <= Len(s) => s[n + 1] \notin A
      <4> SUFFICES ASSUME n + 1 <= Len(s), s[n + 1] \in A PROVE FALSE
        OBVIOUS
      <4>1. n + 1 \in DOMAIN s /\ \A j \in 1..((n + 1) - 1) : s[j] \notin A
        BY <1>1
      <4>2. First(s, A, s[n + 1])
        BY <4>1 DEF First
      <4> QED
        BY <2>1, <4>2
    <3>2. n \in Nat /\ 1..(n + 1) = 1..n \cup {n + 1}
      OBVIOUS
    <3> QED
      BY <3>1, <3>2
  <2>4. N = Nat
    <3> HIDE DEF N
    <3>1. N \in SUBSET Nat
      BY DEF N
    <3> QED
      BY <2>2, <2>3, <3>1, NatSet
  <2> QED
    BY <1>1, <1>3, <2>4
<1>4. Elements(s) \cap A # {} => \E k \in 1..Len(s) : s[k] \in A
  BY <1>1 DEF Elements
<1>5. ASSUME NEW e, First(s, A, e) PROVE e \in Elements(s) /\ e \in A /\ e \in P
  BY <1>1, <1>5 DEF First, Elements
<1> QED
  BY <1>2, <1>3, <1>4, <1>5

\* The first element of a list stays the first when others are taken out, and
\* when of those left no other comes to be looked for.
LEMMA FirstOfKept ==
    ASSUME NEW P, NEW s \in Seq(P), NEW A, NEW B, NEW C, NEW e,
           First(s, A, e), e \in B, e \in C, B \cap C \subseteq A
    PROVE  First(Kept(s, B), C, e)
<1>0. Len(s) \in Nat /\ DOMAIN s = 1..Len(s)
  OBVIOUS
<1>1. PICK f : IsKept(s, B, f, Len(s)) /\ Kept(s, B) = f[Len(s)]
  BY KeptDef
<1>2. PICK i \in 1..Len(s) : s[i] = e /\ e \in A /\ \A j \in 1..(i - 1) : s[j] \notin A
  BY <1>0 DEF First
<1> DEFINE Good(n) == /\ f[n] \in Seq(P) /\ Elements(f[n]) \subseteq {s[j] : j \in 1..n} \cap B
                      /\ n >= i => First(f[n], C, e)
<1> DEFINE N == {n \in Nat : n <= Len(s) => Good(n)}
<1>3. 0 \in N
  <2>1. f[0] = <<>>
    BY <1>0, <1>1 DEF IsKept
  <2>2. f[0] \in Seq(P) /\ Elements(f[0]) = {}
    <3>1. <<>> \in Seq(P) /\ Elements(<<>>) = {}
      BY DEF Elements
    <3> QED
      BY <2>1, <3>1
  <2>3. ~(0 >= i)
    BY <1>0
  <2> QED
    BY <2>2, <2>3
<1>4. ASSUME NEW n \in Nat, n + 1 <= Len(s), Good(n) PROVE Good(n + 1)
  <2>1. f[n + 1] = IF s[n + 1] \in B THEN Append(f[n], s[n + 1]) ELSE f[n]
    <3>1. n + 1 \in 0..Len(s) /\ n + 1 # 0 /\ (n + 1) - 1 = n
      BY <1>0, <1>4
    <3> QED
      BY <1>1, <3>1 DEF IsKept
  <2>2. s[n + 1] \in P /\ {s[j] : j \in 1..(n + 1)} = {s[j] : j \in 1..n} \cup {s[n + 1]}
    BY <1>4, PrefixFacts
  <2>3. CASE s[n + 1] \notin B
    <3>1. n + 1 # i
      BY <1>2, <2>3
    <3>2. n + 1 >= i => n >= i
      BY <3>1
    <3> QED
      BY <1>4, <2>1, <2>2, <2>3, <3>2
  <2>4. CASE s[n + 1] \in B
    <3> DEFINE a == f[n]
               b == f[n + 1]
    <3>1. b = Append(a, s[n + 1]) /\ a \in Seq(P)
      BY <1>4, <2>1, <2>4
    <3>2. /\ b \in Seq(P) /\ Len(b) = Len(a) + 1 /\ Len(a) \in Nat
          /\ DOMAIN a = 1..Len(a) /\ DOMAIN b = 1..(Len(a) + 1)
          /\ \A j \in 1..Len(a) : b[j] = a[j]
          /\ b[Len(a) + 1] = s[n + 1]
      BY <3>1, <2>2, AppendProperties
    <3>3. Elements(b) = Elements(a) \cup {s[n + 1]}
      BY <3>1, <2>2, AppendFacts
    <3> HIDE DEF a, b
    <3>4. CASE n >= i
      <4>1. First(a, C, e)
        BY <1>4, <3>4 DEF a
      <4>2. PICK k \in 1..Len(a) : a[k] = e /\ e \in C /\ \A j \in 1..(k - 1) : a[j] \notin C
        BY <3>2, <4>1 DEF First
      <4>3. k \in DOMAIN b /\ b[k] = e /\ \A j \in 1..(k - 1) : b[j] \notin C
        BY <3>2, <4>2
      <4> QED
        BY <1>4, <2>2, <2>4, <3>2, <3>3, <4>2, <4>3 DEF First, a, b
    <3>5. CASE n + 1 = i
      <4>1. \A j \in 1..Len(a) : a[j] \notin C
        <5> SUFFICES ASSUME NEW j \in 1..Len(a), a[j] \in C PROVE FALSE
          OBVIOUS
        <5>1. a[j] \in Elements(a)
          BY <3>2 DEF Elements
        <5>2. a[j] \in B /\ a[j] \in {s[k] : k \in 1..n}
          BY <1>4, <5>1 DEF a
        <5>3. PICK k \in 1..n : a[j] = s[k]
          BY <5>2
        <5>4. a[j] \notin A
          BY <1>2, <3>5, <5>3
        <5> QED
          BY <5>2, <5>4
      <4>2. b[Len(a) + 1] = e /\ Len(a) + 1 \in DOMAIN b /\ (Len(a) + 1) - 1 = Len(a)
        BY <1>2, <3>2, <3>5
      <4>3. \A j \in 1..Len(a) : b[j] \notin C
        BY <3>2, <4>1
      <4>4. First(b, C, e)
        BY <4>2, <4>3 DEF First
      <4> QED
        BY <1>4, <2>2, <2>4, <3>2, <3>3, <4>4 DEF a, b
    <3>6. CASE n + 1 < i
      BY <1>4, <2>2, <2>4, <3>2, <3>3, <3>6 DEF a, b
    <3> QED
      BY <3>4, <3>5, <3>6
  <2> QED
    BY <2>3, <2>4
<1>5. ASSUME NEW n \in N PROVE n + 1 \in N
  <2>1. n \in Nat /\ n + 1 \in Nat /\ (n + 1 <= Len(s) => n <= Len(s))
    BY <1>0
  <2> HIDE DEF Good
  <2> QED
    BY <1>4, <2>1
<1>6. N = Nat
  <2> HIDE DEF N
  <2>1. N \in SUBSET Nat
    BY DEF N
  <2> QED
    BY <1>3, <1>5, <2>1, NatSet
<1>7. Good(Len(s))
  <2> HIDE DEF Good
  <2> QED
    BY <1>0, <1>6
<1> QED
  BY <1>0, <1>1, <1>2, <1>7

\* The head of what is kept is the first element in the set.
LEMMA KeptHead ==
    ASSUME NEW P, NEW s \in Seq(P), NEW A, NEW e
    PROVE  (Kept(s, A) # <<>> /\ Head(Kept(s, A)) = e) <=> First(s, A, e)
<1> DEFINE k == Kept(s, A)
<1>1. k \in Seq(P) /\ Elements(k) = Elements(s) \cap A
  BY KeptFacts
<1>2. ASSUME NEW d, First(s, A, d) PROVE k # <<>> /\ Head(k) = d
  <2>1. d \in A
    BY <1>2, FirstFacts
  <2>2. First(k, A, d)
    BY <1>2, <2>1, FirstOfKept
  <2> HIDE DEF k
  <2>3. PICK i \in 1..Len(k) : k[i] = d /\ \A j \in 1..(i - 1) : k[j] \notin A
    BY <1>1, <2>2 DEF First
  <2>4. \A j \in 1..Len(k) : k[j] \in A
    BY <1>1 DEF Elements
  <2>5. i = 1
    <3>1. i # 1 => 1 \in 1..(i - 1) /\ 1 \in 1..Len(k)
      BY <1>1
    <3> QED
      BY <2>3, <2>4, <3>1
  <2> QED
    BY <1>1, <2>3, <2>5
<1>3. ASSUME k # <<>> PROVE \E d : First(s, A, d)
  <2>1. Elements(s) \cap A # {}
    BY <1>1, <1>3, ElementsType
  <2> QED
    BY <2>1, FirstFacts
<1> QED
  BY <1>2, <1>3

\* The first element of a list with one more at the front.
LEMMA FirstOfPrepend ==
    ASSUME NEW P, NEW s \in Seq(P), NEW d \in P, NEW A, NEW e
    PROVE  /\ d \in A => First(<<d>> \o s, A, d)
           /\ d \notin A /\ First(s, A, e) => First(<<d>> \o s, A, e)
<1> DEFINE t == <<d>> \o s
<1>1. /\ DOMAIN s = 1..Len(s) /\ DOMAIN t = 1..(Len(s) + 1) /\ Len(s) \in Nat
      /\ \A i \in 2..(Len(s) + 1) : t[i] = s[i - 1]
      /\ t[1] = d
  <2>1. <<d>> \in Seq(P) /\ Len(<<d>>) = 1 /\ <<d>>[1] = d
    OBVIOUS
  <2>2. /\ t \in Seq(P) /\ Len(t) = 1 + Len(s)
        /\ \A i \in 1..(1 + Len(s)) : t[i] = IF i <= 1 THEN <<d>>[i] ELSE s[i - 1]
    BY <2>1, ConcatProperties
  <2> HIDE DEF t
  <2> QED
    BY <2>1, <2>2
<1> HIDE DEF t
<1>2. ASSUME d \in A PROVE First(t, A, d)
  <2>1. 1 \in DOMAIN t /\ t[1] = d /\ \A j \in 1..(1 - 1) : t[j] \notin A
    BY <1>1
  <2> QED
    BY <1>2, <2>1 DEF First
<1>3. ASSUME d \notin A, First(s, A, e) PROVE First(t, A, e)
  <2>1. PICK i \in 1..Len(s) : s[i] = e /\ e \in A /\ \A j \in 1..(i - 1) : s[j] \notin A
    BY <1>1, <1>3 DEF First
  <2>2. i + 1 \in DOMAIN t /\ t[i + 1] = e
    BY <1>1, <2>1
  <2>3. ASSUME NEW j \in 1..((i + 1) - 1) PROVE t[j] \notin A
    <3>1. CASE j = 1
      BY <1>1, <1>3, <3>1
    <3>2. CASE j # 1
      <4>1. j - 1 \in 1..(i - 1) /\ t[j] = s[j - 1]
        BY <1>1, <3>2
      <4> QED
        BY <2>1, <4>1
    <3> QED
      BY <3>1, <3>2
  <2> QED
    BY <2>1, <2>2, <2>3 DEF First
<1> QED
  BY <1>2, <1>3 DEF t

\* Two lists, one after the other.
LEMMA ConcatFacts ==
    ASSUME NEW P, NEW s \in Seq(P), NEW t \in Seq(P)
    PROVE  /\ s \o t \in Seq(P)
           /\ Elements(s \o t) = Elements(s) \cup Elements(t)
           /\ Distinct(s) /\ Distinct(t) /\ Elements(s) \cap Elements(t) = {} =>
                Distinct(s \o t)
<1> DEFINE c == s \o t
           m == Len(s)
           n == Len(t)
<1>1. /\ c \in Seq(P) /\ Len(c) = m + n /\ m \in Nat /\ n \in Nat
      /\ DOMAIN s = 1..m /\ DOMAIN t = 1..n /\ DOMAIN c = 1..(m + n)
      /\ \A i \in 1..(m + n) : c[i] = IF i <= m THEN s[i] ELSE t[i - m]
  BY ConcatProperties
<1> HIDE DEF c, m, n
<1>2. \A i \in 1..m : i \in 1..(m + n) /\ c[i] = s[i]
  BY <1>1
<1>3. \A i \in 1..n : i + m \in 1..(m + n) /\ c[i + m] = t[i]
  BY <1>1
<1>4. ASSUME NEW i \in 1..(m + n)
      PROVE  \/ i \in 1..m /\ c[i] = s[i]
             \/ i - m \in 1..n /\ c[i] = t[i - m]
  BY <1>1
<1>5. Elements(c) = Elements(s) \cup Elements(t)
  <2>1. ASSUME NEW x \in Elements(c) PROVE x \in Elements(s) \cup Elements(t)
    <3>1. PICK i \in 1..(m + n) : x = c[i]
      BY <1>1, <2>1 DEF Elements
    <3> QED
      BY <1>1, <1>4, <3>1 DEF Elements
  <2>2. ASSUME NEW x \in Elements(s) PROVE x \in Elements(c)
    BY <1>1, <1>2, <2>2 DEF Elements
  <2>3. ASSUME NEW x \in Elements(t) PROVE x \in Elements(c)
    <3>1. PICK i \in 1..n : x = t[i]
      BY <1>1, <2>3 DEF Elements
    <3> QED
      BY <1>1, <1>3, <3>1 DEF Elements
  <2> QED
    BY <2>1, <2>2, <2>3
<1>6. ASSUME Distinct(s), Distinct(t), Elements(s) \cap Elements(t) = {}
      PROVE  Distinct(c)
  <2> SUFFICES ASSUME NEW i \in 1..(m + n), NEW j \in 1..(m + n), c[i] = c[j]
               PROVE  i = j
    BY <1>1 DEF Distinct
  <2>1. \/ i \in 1..m /\ c[i] = s[i] /\ c[i] \in Elements(s)
        \/ i - m \in 1..n /\ c[i] = t[i - m] /\ c[i] \in Elements(t)
    BY <1>1, <1>4 DEF Elements
  <2>2. \/ j \in 1..m /\ c[j] = s[j] /\ c[j] \in Elements(s)
        \/ j - m \in 1..n /\ c[j] = t[j - m] /\ c[j] \in Elements(t)
    BY <1>1, <1>4 DEF Elements
  <2>3. CASE i \in 1..m /\ j \in 1..m
    BY <1>1, <1>6, <2>1, <2>2, <2>3 DEF Distinct
  <2>4. CASE i - m \in 1..n /\ j - m \in 1..n
    <3>1. c[i] = t[i - m] /\ c[j] = t[j - m]
      BY <1>1, <2>1, <2>2, <2>4
    <3>2. i - m = j - m
      BY <1>1, <1>6, <2>4, <3>1 DEF Distinct
    <3> QED
      BY <1>1, <3>2
  <2> QED
    BY <1>6, <2>1, <2>2, <2>3, <2>4
<1> QED
  BY <1>1, <1>5, <1>6 DEF c
=============================================================================
