---------------------------- MODULE ChainProofs ----------------------------
(***************************************************************************)
(* --chain, for any layer widths, common names, organizations and          *)
(* prefixes: the entries' files differ, ChainToSpec refuses for its two    *)
(* reasons only, and the hierarchy has the widths and path lengths asked   *)
(* for.                                                                    *)
(*                                                                         *)
(* The invariant of the command is ChainInv: a chain is what ChainToSpec   *)
(* returned.  The rest is about ChainToSpec, and in three parts:           *)
(*                                                                         *)
(*   - entries at one depth have names of one shape, which differ in their *)
(*     lineage only, and entries at different depths file names of         *)
(*     different lengths (FilesUnique);                                    *)
(*   - names of entries that are not of one depth are equal only if the    *)
(*     common name is that of a layer of CAs (NamesUnlessCause);           *)
(*   - the visiting order puts a parent first, and the path length counts  *)
(*     the layers of CAs below (TreeValid, TreeDepths).                    *)
(*                                                                         *)
(* Induction over the layers is UpTo, a fact about sets of numbers.        *)
(***************************************************************************)
EXTENDS Command, SequenceTheorems, FiniteSetTheorems, TLAPS

-----------------------------------------------------------------------------
(* Induction over the naturals, as a fact about sets of them.              *)

\* Every set of naturals has a least element: no chain 1..n, 1..m, ... of finite
\* sets shrinks for ever.
LEMMA LeastNatural ==
  ASSUME NEW T \in SUBSET Nat, T # {}
  PROVE  \E m \in T : \A n \in T : m <= n
<1> DEFINE U == {1..n : n \in T}
<1>1. U \subseteq FiniteSubsetsOf(Nat)
  <2>1. ASSUME NEW n \in Nat PROVE 1..n \in SUBSET Nat /\ IsFiniteSet(1..n)
    BY FS_Interval
  <2> QED
    BY <2>1 DEF FiniteSubsetsOf
<1>2. IsWellFoundedOn(StrictSubsetOrdering(Nat), FiniteSubsetsOf(Nat))
  BY FS_StrictSubsetOrderingWellFounded
<1>3. PICK u \in U : \A v \in U : ~(<<v, u>> \in StrictSubsetOrdering(Nat))
  <2>1. U # {}
    OBVIOUS
  <2> HIDE DEF U
  <2> QED
    BY <1>1, <1>2, <2>1, WFMin
<1>4. PICK m \in T : u = 1..m
  OBVIOUS
<1>5. ASSUME NEW n \in T, n < m PROVE FALSE
  <2>1. m \in 1..m /\ m \notin 1..n
    BY <1>5
  <2>2. 1..n \in U
    OBVIOUS
  <2>3. 1..n \subseteq 1..m /\ 1..n \in SUBSET Nat /\ 1..m \in SUBSET Nat
    BY <1>5
  <2>4. 1..n # 1..m
    BY <2>1
  <2> HIDE DEF U
  <2> QED
    BY <1>3, <1>4, <2>2, <2>3, <2>4 DEF StrictSubsetOrdering
<1> QED
  BY <1>5

\* A set that has 0 and with each number up to n the next one has them all.
LEMMA UpTo ==
  ASSUME NEW n \in Nat, NEW T, 0 \in T, \A i \in 1..n : i - 1 \in T => i \in T
  PROVE  \A i \in 0..n : i \in T
<1> SUFFICES ASSUME NEW j \in 0..n, j \notin T PROVE FALSE
  OBVIOUS
<1> DEFINE U == {i \in 0..n : i \notin T}
<1>1. U \in SUBSET Nat /\ U # {}
  OBVIOUS
<1>2. PICK m \in U : \A i \in U : m <= i
  <2> HIDE DEF U
  <2> QED
    BY <1>1, LeastNatural
<1>3. m \in 0..n /\ m \notin T /\ m # 0
  OBVIOUS
<1>4. m - 1 \in 0..n /\ m - 1 \notin U
  BY <1>2, <1>3
<1> QED
  BY <1>3, <1>4

-----------------------------------------------------------------------------
(* Concatenation and FlattenSeq.                                           *)

Cat(s, t) == s \o t

LEMMA CatType ==
  ASSUME NEW S, NEW s \in Seq(S), NEW t \in Seq(S)
  PROVE  Cat(s, t) \in Seq(S) /\ Len(Cat(s, t)) = Len(s) + Len(t)
<1>1. s \o t \in Seq(S) /\ Len(s \o t) = Len(s) + Len(t)
  BY ConcatProperties
<1> QED
  BY <1>1, Zenon DEF Cat

LEMMA CatAssociative ==
  ASSUME NEW S, NEW s \in Seq(S), NEW t \in Seq(S), NEW u \in Seq(S)
  PROVE  Cat(Cat(s, t), u) = Cat(s, Cat(t, u))
<1>1. (s \o t) \o u = s \o (t \o u)
  BY ConcatAssociative
<1> QED
  BY <1>1, Zenon DEF Cat

LEMMA CatEmpty ==
  ASSUME NEW S, NEW s \in Seq(S)
  PROVE  Cat(s, <<>>) = s /\ Cat(<<>>, s) = s
<1>1. s \o <<>> = s /\ <<>> \o s = s
  BY ConcatEmptySeq
<1> QED
  BY <1>1, Zenon DEF Cat

\* f holds what the first 0, 1, ... sequences of s make.
Joins(S, s, f) ==
  /\ f \in [0..Len(s) -> Seq(S)] /\ f[0] = <<>>
  /\ \A i \in 1..Len(s) : f[i] = Cat(f[i - 1], s[i])

LEMMA JoinsExists ==
  ASSUME NEW S, NEW s \in Seq(Seq(S))
  PROVE  \E f : Joins(S, s, f)
<1> DEFINE Upto(k, f) == /\ f \in [0..k -> Seq(S)] /\ f[0] = <<>>
                         /\ \A i \in 1..k : f[i] = Cat(f[i - 1], s[i])
           n == Len(s)
           T == {k \in 0..n : \E f : Upto(k, f)}
<1>0. n \in Nat
  OBVIOUS
<1>1. 0 \in T
  <2> DEFINE g == [i \in 0..0 |-> <<>>]
  <2>1. g \in [0..0 -> Seq(S)] /\ g[0] = <<>>
    OBVIOUS
  <2>2. \A i \in 1..0 : FALSE
    OBVIOUS
  <2> HIDE DEF g
  <2>3. Upto(0, g)
    BY <2>1, <2>2
  <2> HIDE DEF Upto
  <2> QED
    BY <1>0, <2>3
<1>2. ASSUME NEW k \in 1..n, k - 1 \in T PROVE k \in T
  <2>1. PICK f : Upto(k - 1, f)
    BY <1>2
  <2> DEFINE g == [i \in 0..k |-> IF i = k THEN Cat(f[k - 1], s[k]) ELSE f[i]]
  <2>2. s[k] \in Seq(S) /\ f[k - 1] \in Seq(S)
    BY <2>1
  <2>3. Cat(f[k - 1], s[k]) \in Seq(S)
    BY <2>2, CatType
  <2>4. k \in Nat /\ \A i \in 0..k : i # k => i \in 0..(k - 1)
    OBVIOUS
  <2>5. g \in [0..k -> Seq(S)] /\ g[0] = <<>>
    BY <2>1, <2>3, <2>4
  <2>6. ASSUME NEW i \in 1..k PROVE g[i] = Cat(g[i - 1], s[i])
    <3>1. i - 1 \in 0..(k - 1) /\ g[i - 1] = f[i - 1]
      OBVIOUS
    <3>2. CASE i = k
      BY <3>1, <3>2
    <3>3. CASE i # k
      <4>1. i \in 1..(k - 1) /\ g[i] = f[i]
        BY <3>3
      <4> QED
        BY <2>1, <3>1, <4>1
    <3> QED
      BY <3>2, <3>3
  <2>7. Upto(k, g)
    <3> HIDE DEF g
    <3> QED
      BY <2>5, <2>6
  <2> HIDE DEF Upto, g
  <2> QED
    BY <2>7
<1>3. n \in T
  <2> HIDE DEF T, n
  <2>1. \A i \in 0..n : i \in T
    BY <1>0, <1>1, <1>2, UpTo
  <2>2. n \in 0..n
    BY <1>0
  <2> QED
    BY <2>1, <2>2
<1> QED
  BY <1>3 DEF Joins

LEMMA FlattenJoins ==
  ASSUME NEW S, NEW s \in Seq(Seq(S)), NEW f, Joins(S, s, f)
  PROVE  FlattenSeq(s) = f[Len(s)] /\ FlattenSeq(s) \in Seq(S)
<1>1. CASE Len(s) = 0
  BY <1>1 DEF FlattenSeq, Joins
<1>2. CASE Len(s) # 0
  <2> DEFINE n == Len(s)
             flatten == CHOOSE g : g = [i \in 1..n |-> IF i = 1 THEN s[i] ELSE Cat(g[i - 1], s[i])]
             h == [i \in 1..n |-> f[i]]
  <2>0. n \in Nat /\ 1 \in 1..n /\ n \in 1..n
    BY <1>2
  <2>a. \A i \in 1..n : f[i] = Cat(f[i - 1], s[i])
    BY DEF Joins
  <2>b. f[1] = s[1]
    <3>1. s[1] \in Seq(S)
      BY <2>0
    <3>2. f[1] = Cat(f[0], s[1]) /\ f[0] = <<>>
      BY <2>0, <2>a DEF Joins
    <3>3. Cat(<<>>, s[1]) = s[1]
      BY <3>1, CatEmpty
    <3> QED
      BY <3>2, <3>3
  <2>1. h = [i \in 1..n |-> IF i = 1 THEN s[i] ELSE Cat(h[i - 1], s[i])]
    <3> HIDE DEF n
    <3> QED
      BY <2>0, <2>a, <2>b
  <2>2. flatten = [i \in 1..n |-> IF i = 1 THEN s[i] ELSE Cat(flatten[i - 1], s[i])]
    <3> HIDE DEF h
    <3> QED
      BY <2>1
  <2>4. FlattenSeq(s) = flatten[n]
    BY <1>2, Zenon DEF FlattenSeq, Cat
  <2>5. f[n] \in Seq(S)
    BY <2>0 DEF Joins
  <2> HIDE DEF flatten, n
  <2> DEFINE T == {i \in 0..n : i # 0 => flatten[i] = f[i]}
  <2>3. \A i \in 0..n : i \in T
    <3>1. 0 \in T
      BY <2>0
    <3>2. ASSUME NEW i \in 1..n, i - 1 \in T PROVE i \in T
      <4>1. CASE i = 1
        BY <2>0, <2>2, <2>b, <4>1
      <4>2. CASE i # 1
        <5>1. flatten[i] = Cat(flatten[i - 1], s[i])
          BY <2>2, <4>2
        <5>2. flatten[i - 1] = f[i - 1]
          BY <2>0, <3>2, <4>2
        <5>3. f[i] = Cat(f[i - 1], s[i])
          BY <2>a
        <5>4. i \in 0..n
          BY <2>0
        <5> QED
          BY <5>1, <5>2, <5>3, <5>4
      <4> QED
        BY <4>1, <4>2
    <3> HIDE DEF T
    <3> QED
      BY <2>0, <3>1, <3>2, UpTo
  <2> QED
    BY <2>0, <2>3, <2>4, <2>5 DEF n
<1> QED
  BY <1>1, <1>2

LEMMA CatCancel ==
  ASSUME NEW S, NEW s \in Seq(S), NEW t \in Seq(S), NEW u \in Seq(S), NEW v \in Seq(S),
         Len(t) = Len(v), Cat(s, t) = Cat(u, v)
  PROVE  s = u /\ t = v
<1>1. Len(s) = Len(u)
  <2>1. Len(Cat(s, t)) = Len(s) + Len(t) /\ Len(Cat(u, v)) = Len(u) + Len(v)
    BY CatType
  <2>2. Len(s) \in Nat /\ Len(t) \in Nat /\ Len(u) \in Nat /\ Len(v) \in Nat
    OBVIOUS
  <2> QED
    BY <2>1, <2>2
<1>2. \A i \in 1..(Len(s) + Len(t)) :
        /\ Cat(s, t)[i] = IF i <= Len(s) THEN s[i] ELSE t[i - Len(s)]
        /\ Cat(u, v)[i] = IF i <= Len(s) THEN u[i] ELSE v[i - Len(s)]
  <2>1. \A i \in 1..(Len(s) + Len(t)) : (s \o t)[i] = IF i <= Len(s) THEN s[i] ELSE t[i - Len(s)]
    BY ConcatProperties
  <2>2. \A i \in 1..(Len(u) + Len(v)) : (u \o v)[i] = IF i <= Len(u) THEN u[i] ELSE v[i - Len(u)]
    BY ConcatProperties
  <2>3. Cat(s, t) = s \o t /\ Cat(u, v) = u \o v
    BY Zenon DEF Cat
  <2> QED
    BY <1>1, <2>1, <2>2, <2>3
<1>3. \A i \in 1..Len(s) : s[i] = u[i]
  BY <1>2
<1>4. ASSUME NEW i \in 1..Len(t) PROVE t[i] = v[i]
  <2>1. Len(s) + i \in 1..(Len(s) + Len(t)) /\ ~(Len(s) + i <= Len(s)) /\ (Len(s) + i) - Len(s) = i
    OBVIOUS
  <2> QED
    BY <1>2, <2>1
<1> QED
  BY <1>1, <1>3, <1>4, SeqEqual

LEMMA FlattenConcat ==
  ASSUME NEW S, NEW s \in Seq(Seq(S)), NEW t \in Seq(Seq(S))
  PROVE  FlattenSeq(Cat(s, t)) = Cat(FlattenSeq(s), FlattenSeq(t))
<1> DEFINE k == Len(s)
           n == Len(t)
           st == Cat(s, t)
<1>1. PICK f : Joins(S, s, f)
  BY JoinsExists
<1>2. PICK h : Joins(S, t, h)
  BY JoinsExists
<1>3. k \in Nat /\ n \in Nat
  OBVIOUS
<1>4. st \in Seq(Seq(S)) /\ Len(st) = k + n
  BY CatType
<1>5. /\ \A i \in 1..k : st[i] = s[i]
      /\ \A i \in (k + 1)..(k + n) : st[i] = t[i - k]
  BY DEF Cat
<1>6. f \in [0..k -> Seq(S)] /\ f[0] = <<>> /\ \A i \in 1..k : f[i] = Cat(f[i - 1], s[i])
  BY <1>1 DEF Joins
<1>7. h \in [0..n -> Seq(S)] /\ h[0] = <<>> /\ \A i \in 1..n : h[i] = Cat(h[i - 1], t[i])
  BY <1>2 DEF Joins
<1>8. \A i \in 1..n : t[i] \in Seq(S)
  OBVIOUS
<1> DEFINE g == [i \in 0..(k + n) |-> IF i <= k THEN f[i] ELSE Cat(f[k], h[i - k])]
<1> HIDE DEF k, n, st
<1>9. g \in [0..(k + n) -> Seq(S)] /\ g[0] = <<>>
  <2>1. ASSUME NEW i \in 0..(k + n) PROVE g[i] \in Seq(S)
    <3>1. CASE i <= k
      BY <1>3, <1>6, <3>1
    <3>2. CASE ~(i <= k)
      <4>1. i - k \in 0..n /\ k \in 0..k
        BY <1>3, <3>2
      <4> QED
        BY <1>6, <1>7, <3>2, <4>1, CatType
    <3> QED
      BY <3>1, <3>2
  <2>2. g[0] = f[0]
    BY <1>3
  <2>3. g \in [0..(k + n) -> Seq(S)]
    BY <2>1
  <2> QED
    BY <1>6, <2>2, <2>3
<1>10. ASSUME NEW i \in 1..(k + n) PROVE g[i] = Cat(g[i - 1], st[i])
  <2>0. i \in 0..(k + n) /\ i - 1 \in 0..(k + n)
    BY <1>3
  <2>1. CASE i <= k
    <3>1. i \in 1..k /\ i - 1 <= k
      BY <1>3, <2>1
    <3> QED
      BY <1>5, <1>6, <2>0, <2>1, <3>1
  <2>2. CASE i = k + 1
    <3>1. ~(i <= k) /\ i - 1 = k /\ i - k = 1 /\ 1 \in 1..n /\ i \in (k + 1)..(k + n) /\ k \in 0..k
      BY <1>3, <2>2
    <3>2. g[i] = Cat(f[k], h[i - k]) /\ st[i] = t[i - k]
      BY <1>5, <2>0, <3>1
    <3>3. g[i - 1] = f[i - 1]
      BY <1>3, <2>0, <3>1
    <3>a. h[1] = Cat(h[1 - 1], t[1])
      BY <1>7, <3>1, Zenon
    <3>b. h[1 - 1] = <<>>
      BY <1>7, 1 - 1 = 0, Zenon
    <3>4. t[1] \in Seq(S)
      BY <1>8, <3>1, Zenon
    <3>5. h[1] = t[1]
      BY <3>a, <3>b, <3>4, CatEmpty, Zenon
    <3> QED
      BY <3>1, <3>2, <3>3, <3>5
  <2>3. CASE ~(i <= k) /\ i # k + 1
    <3>1. ~(i - 1 <= k) /\ i - k \in 1..n /\ (i - 1) - k = (i - k) - 1 /\ i \in (k + 1)..(k + n)
          /\ (i - k) - 1 \in 0..n /\ k \in 0..k
      BY <1>3, <2>3
    <3>2. g[i] = Cat(f[k], h[i - k]) /\ g[i - 1] = Cat(f[k], h[(i - k) - 1]) /\ st[i] = t[i - k]
      BY <1>5, <2>0, <2>3, <3>1
    <3>3. h[i - k] = Cat(h[(i - k) - 1], t[i - k])
      BY <1>7, <3>1
    <3>4. f[k] \in Seq(S) /\ h[(i - k) - 1] \in Seq(S) /\ t[i - k] \in Seq(S)
      BY <1>6, <1>7, <1>8, <3>1
    <3>5. Cat(Cat(f[k], h[(i - k) - 1]), t[i - k]) = Cat(f[k], Cat(h[(i - k) - 1], t[i - k]))
      BY <3>4, CatAssociative
    <3> QED
      BY <3>2, <3>3, <3>5
  <2> QED
    BY <2>1, <2>2, <2>3
<1>11. Joins(S, st, g)
  <2> HIDE DEF g
  <2> QED
    BY <1>4, <1>9, <1>10 DEF Joins
<1>12. FlattenSeq(st) = g[k + n] /\ FlattenSeq(s) = f[k] /\ FlattenSeq(t) = h[n]
  <2> HIDE DEF g
  <2> QED
    BY <1>1, <1>2, <1>4, <1>11, FlattenJoins DEF k, n
<1>13. g[k + n] = Cat(f[k], h[n])
  <2>1. CASE n = 0
    <3>1. k + n = k /\ k <= k /\ k \in 0..(k + n) /\ k \in 0..k
      BY <1>3, <2>1
    <3>2. g[k + n] = f[k] /\ h[n] = <<>> /\ f[k] \in Seq(S)
      BY <1>6, <1>7, <2>1, <3>1
    <3>3. Cat(f[k], <<>>) = f[k]
      BY <3>2, CatEmpty
    <3> QED
      BY <3>2, <3>3
  <2>2. CASE n # 0
    <3>1. ~(k + n <= k) /\ k + n \in 0..(k + n) /\ (k + n) - k = n
      BY <1>3, <2>2
    <3> QED
      BY <3>1
  <2> QED
    BY <2>1, <2>2
<1> QED
  BY <1>12, <1>13 DEF st

LEMMA FlattenSingletons ==
  ASSUME NEW S, NEW w \in Seq(S), NEW s, Len(s) = Len(w), s \in Seq(Seq(S)),
         \A i \in 1..Len(w) : s[i] = <<w[i]>>
  PROVE  FlattenSeq(s) = w
<1> DEFINE f == [i \in 0..Len(w) |-> SubSeq(w, 1, i)]
<1>1. f \in [0..Len(s) -> Seq(S)]
  OBVIOUS
<1>2. f[0] = <<>>
  BY SubSeqEmpty
<1>3. ASSUME NEW i \in 1..Len(s) PROVE f[i] = Cat(f[i - 1], s[i])
  <2>1. 1 \in 1..Len(w) /\ i \in 1..Len(w) /\ i \in 0..Len(w) /\ i - 1 \in 0..Len(w)
    OBVIOUS
  <2>2. SubSeq(w, 1, i) = SubSeq(w, 1, i - 1) \o <<w[i]>>
    BY <2>1, SubSeqRecursiveSecond
  <2>3. s[i] = <<w[i]>> /\ f[i] = SubSeq(w, 1, i) /\ f[i - 1] = SubSeq(w, 1, i - 1)
    BY <2>1
  <2> QED
    BY <2>2, <2>3, Zenon DEF Cat
<1>4. f[Len(s)] = w
  BY SubSeqFull
<1> HIDE DEF f
<1>5. Joins(S, s, f)
  BY <1>1, <1>2, <1>3 DEF Joins
<1> QED
  BY <1>4, <1>5, FlattenJoins

\* What sequences of the same lengths make has the same length, and is equal
\* only when they are.
LEMMA FlattenSameShape ==
  ASSUME NEW S, NEW s \in Seq(Seq(S)), NEW t \in Seq(Seq(S)),
         Len(s) = Len(t), \A i \in 1..Len(s) : Len(s[i]) = Len(t[i])
  PROVE  /\ Len(FlattenSeq(s)) = Len(FlattenSeq(t))
         /\ FlattenSeq(s) = FlattenSeq(t) => s = t
<1> DEFINE n == Len(s)
<1>1. PICK f : Joins(S, s, f)
  BY JoinsExists
<1>2. PICK g : Joins(S, t, g)
  BY JoinsExists
<1>3. n \in Nat /\ \A i \in 1..n : s[i] \in Seq(S) /\ t[i] \in Seq(S) /\ Len(s[i]) = Len(t[i])
  OBVIOUS
<1>4. f \in [0..n -> Seq(S)] /\ f[0] = <<>> /\ \A i \in 1..n : f[i] = Cat(f[i - 1], s[i])
  BY <1>1 DEF Joins
<1>5. g \in [0..n -> Seq(S)] /\ g[0] = <<>> /\ \A i \in 1..n : g[i] = Cat(g[i - 1], t[i])
  BY <1>2 DEF Joins
<1>6. FlattenSeq(s) = f[n] /\ FlattenSeq(t) = g[n]
  BY <1>1, <1>2, FlattenJoins
<1> HIDE DEF n
<1>7. \A i \in 0..n : Len(f[i]) = Len(g[i])
  <2> DEFINE T == {i \in 0..n : Len(f[i]) = Len(g[i])}
  <2>1. 0 \in T
    BY <1>3, <1>4, <1>5
  <2>2. ASSUME NEW i \in 1..n, i - 1 \in T PROVE i \in T
    <3>1. i \in 0..n /\ i - 1 \in 0..n /\ Len(f[i - 1]) = Len(g[i - 1])
      BY <1>3, <2>2
    <3>2. /\ f[i - 1] \in Seq(S) /\ s[i] \in Seq(S) /\ f[i] = Cat(f[i - 1], s[i])
          /\ g[i - 1] \in Seq(S) /\ t[i] \in Seq(S) /\ g[i] = Cat(g[i - 1], t[i])
      BY <1>3, <1>4, <1>5, <3>1
    <3>3. /\ Len(Cat(f[i - 1], s[i])) = Len(f[i - 1]) + Len(s[i])
          /\ Len(Cat(g[i - 1], t[i])) = Len(g[i - 1]) + Len(t[i])
      BY <3>2, CatType, Zenon
    <3> QED
      BY <1>3, <3>1, <3>2, <3>3
  <2> HIDE DEF T
  <2>3. \A i \in 0..n : i \in T
    BY <1>3, <2>1, <2>2, UpTo
  <2> QED
    BY <2>3 DEF T
<1>8. ASSUME f[n] = g[n] PROVE s = t
  <2>1. ASSUME NEW i \in 1..n, f[i] = g[i] PROVE f[i - 1] = g[i - 1] /\ s[i] = t[i]
    <3>1. f[i - 1] \in Seq(S) /\ g[i - 1] \in Seq(S) /\ Cat(f[i - 1], s[i]) = Cat(g[i - 1], t[i])
      BY <1>3, <1>4, <1>5, <2>1
    <3> QED
      BY <1>3, <3>1, CatCancel
  <2> DEFINE T == {j \in 0..n : f[n - j] = g[n - j]}
  <2>2. 0 \in T
    BY <1>3, <1>8
  <2>3. ASSUME NEW j \in 1..n, j - 1 \in T PROVE j \in T
    <3>1. n - (j - 1) \in 1..n /\ f[n - (j - 1)] = g[n - (j - 1)] /\ (n - (j - 1)) - 1 = n - j /\ j \in 0..n
      BY <1>3, <2>3
    <3> HIDE DEF T
    <3>2. f[n - j] = g[n - j]
      BY <2>1, <3>1
    <3> QED
      BY <3>1, <3>2 DEF T
  <2> HIDE DEF T
  <2>4. \A j \in 0..n : j \in T
    BY <1>3, <2>2, <2>3, UpTo
  <2>5. ASSUME NEW i \in 1..n PROVE s[i] = t[i]
    <3>1. n - i \in 0..n /\ n - (n - i) = i
      BY <1>3
    <3>2. f[i] = g[i]
      BY <2>4, <3>1 DEF T
    <3> QED
      BY <2>1, <3>2
  <2> QED
    BY <2>5, SeqEqual DEF n
<1>9. n \in 0..n
  BY <1>3
<1> QED
  BY <1>6, <1>7, <1>8, <1>9

\* More sequences of the same lengths, none of them empty, make something longer.
LEMMA FlattenLonger ==
  ASSUME NEW S, NEW s \in Seq(Seq(S)), NEW t \in Seq(Seq(S)), Len(s) < Len(t),
         \A i \in 1..Len(s) : Len(s[i]) = Len(t[i]),
         \A i \in 1..Len(t) : t[i] # <<>>
  PROVE  Len(FlattenSeq(s)) < Len(FlattenSeq(t))
<1> DEFINE k == Len(s)
           n == Len(t)
<1>1. PICK f : Joins(S, s, f)
  BY JoinsExists
<1>2. PICK g : Joins(S, t, g)
  BY JoinsExists
<1>3. /\ k \in Nat /\ n \in Nat /\ k < n
      /\ \A i \in 1..k : s[i] \in Seq(S) /\ Len(s[i]) = Len(t[i])
      /\ \A i \in 1..n : t[i] \in Seq(S) /\ Len(t[i]) \in Nat \ {0}
  <2>1. ASSUME NEW i \in 1..n PROVE t[i] \in Seq(S) /\ Len(t[i]) \in Nat \ {0}
    <3>1. t[i] \in Seq(S) /\ t[i] # <<>>
      OBVIOUS
    <3> QED
      BY <3>1, EmptySeq
  <2> QED
    BY <2>1
<1>4. f \in [0..k -> Seq(S)] /\ f[0] = <<>> /\ \A i \in 1..k : f[i] = Cat(f[i - 1], s[i])
  BY <1>1 DEF Joins
<1>5. g \in [0..n -> Seq(S)] /\ g[0] = <<>> /\ \A i \in 1..n : g[i] = Cat(g[i - 1], t[i])
  BY <1>2 DEF Joins
<1>6. FlattenSeq(s) = f[k] /\ FlattenSeq(t) = g[n]
  BY <1>1, <1>2, FlattenJoins
<1> HIDE DEF k, n
<1> DEFINE T == {i \in 0..n : /\ i <= k => Len(g[i]) = Len(f[i])
                              /\ i > k => Len(g[i]) > Len(f[k])}
<1>7. 0 \in T
  BY <1>3, <1>4, <1>5
<1>8. ASSUME NEW i \in 1..n, i - 1 \in T PROVE i \in T
  <2>0. i \in 0..n /\ i - 1 \in 0..n
    BY <1>3
  <2>1. i \in 0..n /\ i - 1 \in 0..n /\ t[i] \in Seq(S) /\ g[i - 1] \in Seq(S)
    BY <1>3, <1>5, <2>0, Zenon
  <2>a. g[i] = Cat(g[i - 1], t[i])
    BY <1>5, Zenon
  <2>b. Len(t[i]) \in Nat \ {0}
    BY <1>3
  <2>c. Len(g[i]) = Len(g[i - 1]) + Len(t[i])
    BY <2>1, <2>a, CatType
  <2>2. Len(g[i]) = Len(g[i - 1]) + Len(t[i]) /\ Len(t[i]) \in Nat \ {0} /\ Len(g[i - 1]) \in Nat
    BY <2>1, <2>b, <2>c, LenProperties
  <2>3. CASE i <= k
    <3>0. i \in 1..k /\ i - 1 <= k /\ i - 1 \in 0..k
      BY <1>3, <2>1, <2>3
    <3>1. i - 1 <= k /\ f[i - 1] \in Seq(S) /\ s[i] \in Seq(S) /\ f[i] = Cat(f[i - 1], s[i])
      BY <1>3, <1>4, <3>0
    <3>2. Len(f[i]) = Len(f[i - 1]) + Len(s[i])
      BY <3>1, CatType
    <3>3. Len(g[i - 1]) = Len(f[i - 1]) /\ Len(s[i]) = Len(t[i])
      BY <1>3, <1>8, <3>0
    <3>4. Len(g[i]) = Len(f[i]) /\ ~(i > k)
      BY <2>2, <3>2, <3>3, <1>3, <2>3
    <3> QED
      BY <2>1, <2>3, <3>4
  <2>4. CASE i > k
    <3>1. k \in 0..k /\ f[k] \in Seq(S)
      BY <1>3, <1>4
    <3>2. Len(f[k]) \in Nat
      BY <3>1, LenProperties
    <3>3. Len(g[i - 1]) >= Len(f[k])
      <4>1. CASE i - 1 = k
        BY <1>3, <1>8, <3>2, <4>1
      <4>2. CASE i - 1 # k
        BY <1>3, <1>8, <2>2, <2>4, <3>2, <4>2
      <4> QED
        BY <4>1, <4>2
    <3>4. Len(g[i]) > Len(f[k]) /\ ~(i <= k)
      <4>1. i \in Nat
        BY <1>3
      <4> DEFINE a == Len(g[i - 1])
                 b == Len(t[i])
                 c == Len(f[k])
      <4>2. a \in Nat /\ b \in Nat /\ b # 0 /\ c \in Nat /\ a >= c /\ Len(g[i]) = a + b
        BY <2>2, <3>2, <3>3
      <4> HIDE DEF a, b
      <4>3. Len(g[i]) > c
        <5> HIDE DEF c
        <5> QED
          BY <4>2
      <4> QED
        BY <1>3, <2>4, <4>1, <4>3
    <3> QED
      BY <2>1, <2>4, <3>4
  <2> QED
    BY <1>3, <2>3, <2>4
<1>9. n \in T
  <2> HIDE DEF T
  <2>1. \A i \in 0..n : i \in T
    BY <1>3, <1>7, <1>8, UpTo
  <2> QED
    BY <1>3, <2>1
<1> QED
  <2>1. k \in 0..k /\ n \in 0..n
    BY <1>3
  <2>2. Len(f[k]) \in Nat /\ Len(g[n]) \in Nat
    BY <1>4, <1>5, <2>1, LenProperties
  <2> QED
    BY <1>3, <1>6, <1>9, <2>2

LEMMA FlattenOne ==
  ASSUME NEW S, NEW w \in Seq(S)
  PROVE  FlattenSeq(<<w>>) = w
<1> DEFINE f == [i \in 0..1 |-> IF i = 0 THEN <<>> ELSE w]
           s == <<w>>
<1>1. s \in Seq(Seq(S)) /\ Len(s) = 1 /\ s[1] = w
  OBVIOUS
<1>2. f \in [0..1 -> Seq(S)] /\ f[0] = <<>> /\ f[1] = w
  OBVIOUS
<1>3. Cat(<<>>, w) = w
  BY CatEmpty
<1> HIDE DEF f, s
<1>4. ASSUME NEW i \in 1..1 PROVE f[i] = Cat(f[i - 1], s[i])
  <2>1. i = 1 /\ i - 1 = 0
    OBVIOUS
  <2> QED
    BY <1>1, <1>2, <1>3, <2>1, Zenon
<1>5. Joins(S, s, f)
  BY <1>1, <1>2, <1>4 DEF Joins
<1> QED
  BY <1>1, <1>2, <1>5, FlattenJoins DEF s

-----------------------------------------------------------------------------
(* slugify.                                                                *)

\* The runs of a name.  The provers do not know that a literal is a STRING.
AnyRun == Letters \cup {"", "CA", "Root", "Intermediate", "Certtool"}
Phrases == Seq(Seq(AnyRun))

LEMMA NamesArePhrases ==
  ASSUME NEW name \in Name
  PROVE  name \in Phrases
<1>1. Seq(Letters) \subseteq Seq(AnyRun)
  BY SeqMonotonic DEF AnyRun
<1> QED
  BY <1>1, SeqMonotonic DEF Name, Phrases

LEMMA SlugRunType ==
  ASSUME NEW r \in AnyRun
  PROVE  slugRun(r) \in Seq(AnyRun)
<1>1. r \in DOMAIN LowerCase => LowerCase[r] \in Letters
  BY ChainAssumption
<1>2. r \in DOMAIN LowerCase => LowerCase[r] \in AnyRun
  BY <1>1 DEF AnyRun
<1>3. <<>> \in Seq(AnyRun) /\ <<r>> \in Seq(AnyRun) /\ (r \in DOMAIN LowerCase => <<LowerCase[r]>> \in Seq(AnyRun))
  BY <1>2
<1> QED
  BY <1>3, Zenon DEF slugRun

slugRuns(runs) == [i \in DOMAIN runs |-> slugRun(runs[i])]

LEMMA SlugRunsType ==
  ASSUME NEW runs \in Seq(AnyRun)
  PROVE  slugRuns(runs) \in Seq(Seq(AnyRun)) /\ Len(slugRuns(runs)) = Len(runs)
<1>1. \A i \in 1..Len(runs) : slugRun(runs[i]) \in Seq(AnyRun)
  BY SlugRunType
<1>2. DOMAIN runs = 1..Len(runs) /\ Len(runs) \in Nat
  OBVIOUS
<1> QED
  BY <1>1, <1>2 DEF slugRuns

LEMMA SlugType ==
  ASSUME NEW name \in Phrases
  PROVE  slugify(name) \in Seq(AnyRun)
<1>1. FlattenSeq(name) \in Seq(AnyRun)
  BY JoinsExists, FlattenJoins DEF Phrases
<1>2. slugify(name) = FlattenSeq(slugRuns(FlattenSeq(name)))
  BY Zenon DEF slugify, slugRuns
<1> QED
  BY <1>1, <1>2, SlugRunsType, JoinsExists, FlattenJoins

LEMMA SlugConcat ==
  ASSUME NEW m \in Phrases, NEW n \in Phrases
  PROVE  slugify(Cat(m, n)) = Cat(slugify(m), slugify(n))
<1> DEFINE a == FlattenSeq(m)
           b == FlattenSeq(n)
<1>1. a \in Seq(AnyRun) /\ b \in Seq(AnyRun)
  BY JoinsExists, FlattenJoins DEF Phrases
<1>2. FlattenSeq(Cat(m, n)) = Cat(a, b)
  BY FlattenConcat DEF Phrases
<1>3. /\ slugify(Cat(m, n)) = FlattenSeq(slugRuns(FlattenSeq(Cat(m, n))))
      /\ slugify(m) = FlattenSeq(slugRuns(a))
      /\ slugify(n) = FlattenSeq(slugRuns(b))
  BY Zenon DEF slugify, slugRuns
<1> HIDE DEF a, b
<1>4. slugRuns(Cat(a, b)) = Cat(slugRuns(a), slugRuns(b))
  <2>1. Cat(a, b) \in Seq(AnyRun) /\ Len(Cat(a, b)) = Len(a) + Len(b)
    BY <1>1, CatType
  <2>2. slugRuns(a) \in Seq(Seq(AnyRun)) /\ slugRuns(b) \in Seq(Seq(AnyRun))
        /\ Len(slugRuns(a)) = Len(a) /\ Len(slugRuns(b)) = Len(b)
    BY <1>1, SlugRunsType
  <2>3. /\ slugRuns(Cat(a, b)) \in Seq(Seq(AnyRun))
        /\ Len(slugRuns(Cat(a, b))) = Len(a) + Len(b)
    BY <2>1, SlugRunsType
  <2>4. /\ Cat(slugRuns(a), slugRuns(b)) \in Seq(Seq(AnyRun))
        /\ Len(Cat(slugRuns(a), slugRuns(b))) = Len(a) + Len(b)
    <3>1. /\ Cat(slugRuns(a), slugRuns(b)) \in Seq(Seq(AnyRun))
          /\ Len(Cat(slugRuns(a), slugRuns(b))) = Len(slugRuns(a)) + Len(slugRuns(b))
      BY <2>2, CatType, Zenon
    <3> QED
      BY <2>2, <3>1, Zenon
  <2>5. ASSUME NEW i \in 1..(Len(a) + Len(b))
        PROVE  slugRuns(Cat(a, b))[i] = Cat(slugRuns(a), slugRuns(b))[i]
    <3>1. Cat(a, b)[i] = IF i <= Len(a) THEN a[i] ELSE b[i - Len(a)]
      <4>1. (a \o b)[i] = IF i <= Len(a) THEN a[i] ELSE b[i - Len(a)]
        BY <1>1, ConcatProperties
      <4> QED
        BY <4>1, Zenon DEF Cat
    <3>2. Cat(slugRuns(a), slugRuns(b))[i] = IF i <= Len(a) THEN slugRuns(a)[i] ELSE slugRuns(b)[i - Len(a)]
      <4>1. (slugRuns(a) \o slugRuns(b))[i] = IF i <= Len(a) THEN slugRuns(a)[i] ELSE slugRuns(b)[i - Len(a)]
        BY <2>2, ConcatProperties
      <4> QED
        BY <4>1, Zenon DEF Cat
    <3>3. i \in DOMAIN Cat(a, b) /\ Len(a) \in Nat /\ Len(b) \in Nat
      BY <1>1, <2>1
    <3>4. slugRuns(Cat(a, b))[i] = slugRun(Cat(a, b)[i])
      BY <3>3, Zenon DEF slugRuns
    <3>5. CASE i <= Len(a)
      <4>1. i \in DOMAIN a
        BY <1>1, <3>5
      <4>2. slugRuns(a)[i] = slugRun(a[i])
        BY <4>1, Zenon DEF slugRuns
      <4> QED
        BY <3>1, <3>2, <3>4, <3>5, <4>2
    <3>6. CASE ~(i <= Len(a))
      <4>1. i - Len(a) \in DOMAIN b
        BY <1>1, <3>3, <3>6
      <4>2. slugRuns(b)[i - Len(a)] = slugRun(b[i - Len(a)])
        BY <4>1, Zenon DEF slugRuns
      <4> QED
        BY <3>1, <3>2, <3>4, <3>6, <4>2
    <3> QED
      BY <3>5, <3>6
  <2> QED
    BY <2>3, <2>4, <2>5, SeqEqual
<1>5. slugRuns(a) \in Seq(Seq(AnyRun)) /\ slugRuns(b) \in Seq(Seq(AnyRun))
  BY <1>1, SlugRunsType
<1> QED
  BY <1>2, <1>3, <1>4, <1>5, FlattenConcat

\* slugify keeps a word of runs that it neither drops nor changes.
LEMMA SlugKeeps ==
  ASSUME NEW w \in Seq(AnyRun), \A i \in 1..Len(w) : w[i] \notin Unslugged \cup DOMAIN LowerCase
  PROVE  slugify(<<w>>) = w
<1>1. FlattenSeq(<<w>>) = w
  BY FlattenOne
<1>2. slugify(<<w>>) = FlattenSeq(slugRuns(w))
  BY <1>1, Zenon DEF slugify, slugRuns
<1>3. \A i \in 1..Len(w) : slugRuns(w)[i] = <<w[i]>>
  BY DEF slugRuns, slugRun
<1> QED
  BY <1>2, <1>3, SlugRunsType, FlattenSingletons

-----------------------------------------------------------------------------
(* The entries and their lineage.                                          *)

PathsOfDepth(w, n) ==
  {p \in [1..n -> UNION {1..w[i] : i \in 1..n}] : \A i \in 1..n : p[i] <= w[i]}

LEMMA PathsByDepth ==
  ASSUME NEW w
  PROVE  Paths(w) = UNION {PathsOfDepth(w, n) : n \in DOMAIN w}
BY Zenon DEF Paths, PathsOfDepth

LEMMA PathType ==
  ASSUME NEW w \in Seq(Int), NEW p \in Paths(w)
  PROVE  /\ Len(p) \in 1..Len(w) /\ p \in [1..Len(p) -> Nat \ {0}] /\ p \in Seq(Nat \ {0})
         /\ \A i \in 1..Len(p) : p[i] \in 1..w[i]
<1>0. PICK n \in 1..Len(w) : p \in PathsOfDepth(w, n)
  <2>1. PICK n \in DOMAIN w : p \in PathsOfDepth(w, n)
    BY PathsByDepth
  <2> QED
    BY <2>1
<1>1. p \in [1..n -> UNION {1..w[i] : i \in 1..n}] /\ \A i \in 1..n : p[i] <= w[i]
  BY <1>0, Zenon DEF PathsOfDepth
<1>2. n \in Nat /\ \A i \in 1..n : w[i] \in Int
  OBVIOUS
<1>3. ASSUME NEW i \in 1..n PROVE p[i] \in Nat \ {0} /\ p[i] \in 1..w[i]
  <2>1. PICK j \in 1..n : p[i] \in 1..w[j]
    BY <1>1
  <2>2. w[i] \in Int /\ w[j] \in Int /\ p[i] <= w[i]
    BY <1>1, <1>2
  <2> QED
    BY <2>1, <2>2
<1>4. p \in [1..n -> Nat \ {0}]
  BY <1>1, <1>3
<1>5. p \in Seq(Nat \ {0}) /\ Len(p) = n
  BY <1>2, <1>4
<1> QED
  BY <1>3, <1>4, <1>5

LEMMA PathOf ==
  ASSUME NEW w \in Seq(Int), NEW n \in 1..Len(w), NEW p \in [1..n -> Int],
         \A i \in 1..n : p[i] \in 1..w[i]
  PROVE  p \in Paths(w)
<1>1. p \in [1..n -> UNION {1..w[i] : i \in 1..n}]
  OBVIOUS
<1>2. \A i \in 1..n : p[i] <= w[i]
  OBVIOUS
<1>3. n \in DOMAIN w
  OBVIOUS
<1>4. p \in PathsOfDepth(w, n)
  BY <1>1, <1>2, Zenon DEF PathsOfDepth
<1> QED
  BY <1>3, <1>4, PathsByDepth

LEMMA PathAbove ==
  ASSUME NEW w \in Seq(Int), NEW p \in Paths(w), NEW n \in 1..Len(p)
  PROVE  /\ SubSeq(p, 1, n) \in Paths(w) /\ Len(SubSeq(p, 1, n)) = n
         /\ \A i \in 1..n : SubSeq(p, 1, n)[i] = p[i]
<1>1. /\ Len(p) \in 1..Len(w) /\ p \in [1..Len(p) -> Nat \ {0}] /\ p \in Seq(Nat \ {0})
      /\ \A i \in 1..Len(p) : p[i] \in 1..w[i]
  BY PathType
<1> DEFINE q == SubSeq(p, 1, n)
<1>2. q \in Seq(Nat \ {0}) /\ Len(q) = n /\ \A i \in 1..n : q[i] = p[i]
  <2>1. n \in Int /\ 1 <= n /\ \A i \in 1..n : p[i] \in Nat \ {0}
    BY <1>1
  <2>2. q \in Seq(Nat \ {0}) /\ Len(q) = n - 1 + 1 /\ \A i \in 1..(n - 1 + 1) : q[i] = p[1 + i - 1]
    BY <2>1, SubSeqProperties
  <2> HIDE DEF q
  <2> QED
    BY <2>1, <2>2
<1> HIDE DEF q
<1>3. q \in [1..n -> Int] /\ n \in 1..Len(w)
  <2>1. q \in [1..Len(q) -> Nat \ {0}] /\ Len(w) \in Nat
    BY <1>2, LenProperties
  <2>2. q \in [1..n -> Nat \ {0}]
    BY <1>2, <2>1
  <2>3. q \in [1..n -> Int]
    BY <2>2
  <2>4. Len(p) \in 1..Len(w)
    BY <1>1, Zenon
  <2>5. n \in 1..Len(w)
    BY <2>1, <2>4
  <2> QED
    BY <2>3, <2>5
<1>4. \A i \in 1..n : q[i] \in 1..w[i]
  BY <1>1, <1>2
<1>5. q \in Paths(w)
  BY <1>3, <1>4, PathOf
<1> QED
  BY <1>2, <1>5 DEF q

lineageParts(w, p) == [i \in DOMAIN p |-> IF w[i] = 1 THEN <<>> ELSE <<p[i]>>]

LEMMA LineageParts ==
  ASSUME NEW w \in Seq(Int), NEW p \in Paths(w)
  PROVE  /\ nextLineage(w, p) = FlattenSeq(lineageParts(w, p))
         /\ DOMAIN p = 1..Len(p) /\ Len(lineageParts(w, p)) = Len(p)
         /\ lineageParts(w, p) \in Seq(Seq(UNION {1..w[i] : i \in 1..Len(w)}))
<1>1. /\ Len(p) \in 1..Len(w) /\ p \in [1..Len(p) -> Nat \ {0}]
      /\ \A i \in 1..Len(p) : p[i] \in 1..w[i]
  BY PathType
<1>2. DOMAIN p = 1..Len(p)
  BY <1>1
<1> DEFINE S == UNION {1..w[i] : i \in 1..Len(w)}
<1>3. ASSUME NEW i \in 1..Len(p) PROVE p[i] \in S
  BY <1>1
<1> HIDE DEF S
<1>4. \A i \in 1..Len(p) : (IF w[i] = 1 THEN <<>> ELSE <<p[i]>>) \in Seq(S)
  BY <1>3
<1>5. lineageParts(w, p) \in Seq(Seq(S)) /\ Len(lineageParts(w, p)) = Len(p)
  BY <1>1, <1>2, <1>4 DEF lineageParts
<1>6. nextLineage(w, p) = FlattenSeq(lineageParts(w, p))
  BY Zenon DEF nextLineage, lineageParts
<1> QED
  BY <1>2, <1>5, <1>6 DEF S

LEMMA LineageType ==
  ASSUME NEW w \in WidthLists, NEW p \in Paths(w)
  PROVE  nextLineage(w, p) \in Seq(Numbers)
<1>1. w \in Seq(Int) /\ DOMAIN w = 1..Len(w)
  BY ChainAssumption
<1> DEFINE S == UNION {1..w[i] : i \in 1..Len(w)}
<1>2. S \subseteq Numbers
  BY <1>1 DEF Numbers
<1> HIDE DEF S
<1>3. nextLineage(w, p) \in Seq(S)
  <2>1. nextLineage(w, p) = FlattenSeq(lineageParts(w, p)) /\ lineageParts(w, p) \in Seq(Seq(S))
    BY <1>1, LineageParts DEF S
  <2> QED
    BY <2>1, JoinsExists, FlattenJoins
<1> QED
  BY <1>2, <1>3, SeqMonotonic

\* Entries of one depth have lineages of one length, and different ones.
LEMMA LineageSame ==
  ASSUME NEW w \in Seq(Int), NEW p \in Paths(w), NEW q \in Paths(w), Len(p) = Len(q)
  PROVE  /\ Len(nextLineage(w, p)) = Len(nextLineage(w, q))
         /\ nextLineage(w, p) = nextLineage(w, q) => p = q
<1>1. /\ Len(p) \in 1..Len(w) /\ p \in Seq(Nat \ {0}) /\ q \in Seq(Nat \ {0})
      /\ \A i \in 1..Len(p) : p[i] \in 1..w[i] /\ q[i] \in 1..w[i]
  BY PathType
<1> DEFINE S == UNION {1..w[i] : i \in 1..Len(w)}
           s == lineageParts(w, p)
           t == lineageParts(w, q)
<1>2. /\ nextLineage(w, p) = FlattenSeq(s) /\ nextLineage(w, q) = FlattenSeq(t)
      /\ s \in Seq(Seq(S)) /\ t \in Seq(Seq(S)) /\ Len(s) = Len(p) /\ Len(t) = Len(p)
      /\ DOMAIN p = 1..Len(p) /\ DOMAIN q = 1..Len(p)
  BY LineageParts
<1>3. \A i \in 1..Len(p) : /\ s[i] = IF w[i] = 1 THEN <<>> ELSE <<p[i]>>
                           /\ t[i] = IF w[i] = 1 THEN <<>> ELSE <<q[i]>>
  BY <1>2 DEF lineageParts
<1> HIDE DEF S, s, t
<1>4. \A i \in 1..Len(p) : Len(s[i]) = Len(t[i])
  <2>1. ASSUME NEW i \in 1..Len(p) PROVE Len(s[i]) = Len(t[i])
    <3>1. Len(<<>>) = 0 /\ Len(<<p[i]>>) = 1 /\ Len(<<q[i]>>) = 1
      OBVIOUS
    <3>2. CASE w[i] = 1
      <4>1. s[i] = <<>> /\ t[i] = <<>>
        BY <1>3, <3>2, Zenon
      <4> QED
        BY <4>1, Zenon
    <3>3. CASE w[i] # 1
      <4>1. s[i] = <<p[i]>> /\ t[i] = <<q[i]>>
        BY <1>3, <3>3, Zenon
      <4> QED
        BY <3>1, <4>1, Zenon
    <3> QED
      BY <3>2, <3>3
  <2> QED
    BY <2>1
<1>5. Len(FlattenSeq(s)) = Len(FlattenSeq(t)) /\ (FlattenSeq(s) = FlattenSeq(t) => s = t)
  BY <1>2, <1>4, FlattenSameShape
<1>6. ASSUME s = t PROVE p = q
  <2>1. ASSUME NEW i \in 1..Len(p) PROVE p[i] = q[i]
    <3>1. CASE w[i] = 1
      BY <1>1, <3>1
    <3>2. CASE w[i] # 1
      <4>1. s[i] = <<p[i]>> /\ t[i] = <<q[i]>>
        BY <1>3, <3>2, Zenon
      <4>2. <<p[i]>> = <<q[i]>>
        BY <1>6, <4>1, Zenon
      <4> QED
        BY <4>2
    <3> QED
      BY <3>1, <3>2
  <2> QED
    BY <1>1, <2>1, SeqEqual
<1> QED
  BY <1>2, <1>5, <1>6

-----------------------------------------------------------------------------
(* The names.                                                              *)

numerals(l) == [i \in DOMAIN l |-> Itoa(l[i])]

LEMMA NumeralsType ==
  ASSUME NEW l \in Seq(Numbers)
  PROVE  /\ numerals(l) \in Seq(AnyRun) /\ Len(numerals(l)) = Len(l)
         /\ \A i \in 1..Len(l) : numerals(l)[i] = Itoa(l[i]) /\ l[i] \in Numbers
                                 /\ numerals(l)[i] \notin {"CA"} \cup Unslugged \cup DOMAIN LowerCase
<1>1. DOMAIN l = 1..Len(l) /\ Len(l) \in Nat /\ \A i \in 1..Len(l) : l[i] \in Numbers
  OBVIOUS
<1>2. \A i \in 1..Len(l) : Itoa(l[i]) \in AnyRun /\ Itoa(l[i]) \notin ({"CA"} \cup Unslugged \cup DOMAIN LowerCase)
  BY <1>1, ItoaAssumption DEF AnyRun
<1> QED
  BY <1>1, <1>2 DEF numerals

LEMMA NumeralsEqual ==
  ASSUME NEW l \in Seq(Numbers), NEW m \in Seq(Numbers), numerals(l) = numerals(m)
  PROVE  l = m
<1>1. Len(l) = Len(m)
  BY NumeralsType
<1>2. ASSUME NEW i \in 1..Len(l) PROVE l[i] = m[i]
  <2>1. Itoa(l[i]) = Itoa(m[i]) /\ l[i] \in Numbers /\ m[i] \in Numbers
    BY <1>1, NumeralsType
  <2> QED
    BY <2>1, ItoaAssumption
<1> QED
  BY <1>1, <1>2, SeqEqual

\* The name of the entries in layer d, before the prefix and the lineage.
Base(c, d) ==
  IF d = Len(c.widths) THEN leafCN(c) ELSE caName(organizationOf(c), d - 1, Len(c.widths))

LEMMA PhraseType ==
  ASSUME NEW ws \in Seq(AnyRun)
  PROVE  Phrase(ws) \in Phrases /\ Len(Phrase(ws)) = Len(ws) /\ \A i \in 1..Len(ws) : Phrase(ws)[i] = <<ws[i]>>
<1>1. \A i \in 1..Len(ws) : <<ws[i]>> \in Seq(AnyRun)
  OBVIOUS
<1> QED
  <2>1. DOMAIN ws = 1..Len(ws) /\ Len(ws) \in Nat
    OBVIOUS
  <2>2. Phrase(ws) = [i \in 1..Len(ws) |-> <<ws[i]>>]
    BY <2>1, Zenon DEF Phrase, Word
  <2>3. [i \in 1..Len(ws) |-> <<ws[i]>>] \in Seq(Seq(AnyRun))
    BY <1>1, <2>1, IsASeq
  <2> QED
    BY <2>1, <2>2, <2>3 DEF Phrases

LEMMA SingleCat ==
  ASSUME NEW S, NEW s \in Seq(S), NEW x \in S
  PROVE  Append(s, x) = Cat(s, <<x>>)
<1>1. Append(s, x) = s \o <<x>>
  OBVIOUS
<1> QED
  BY <1>1, Zenon DEF Cat

\* What caName appends to the organization.
caWords(layer, layers) ==
  IF layer = 0 THEN <<"Root", "CA">>
  ELSE IF layers - 2 > 1 THEN <<"Intermediate", Itoa(layer), "CA">> ELSE <<"Intermediate", "CA">>

LEMMA CaName ==
  ASSUME NEW w \in WidthLists, NEW layer \in 0..(Len(w) - 1), NEW organization \in Phrases
  PROVE  /\ caWords(layer, Len(w)) \in Seq(AnyRun) /\ Len(caWords(layer, Len(w))) \in Nat \ {0}
         /\ caWords(layer, Len(w))[Len(caWords(layer, Len(w)))] = "CA"
         /\ caName(organization, layer, Len(w)) = Cat(organization, Phrase(caWords(layer, Len(w))))
<1>1. w \in Seq(Int) /\ Len(w) \in Nat
  BY ChainAssumption
<1>2. ASSUME layer # 0 PROVE Itoa(layer) \in AnyRun
  <2>1. layer \in 1..Len(w)
    BY <1>1, <1>2
  <2>2. layer \in Numbers
    BY <2>1 DEF Numbers
  <2> QED
    BY <2>2, ItoaAssumption DEF AnyRun
<1>3. "Root" \in AnyRun /\ "CA" \in AnyRun /\ "Intermediate" \in AnyRun
  BY DEF AnyRun
<1>4. CASE layer = 0
  <2>1. caWords(layer, Len(w)) = <<"Root", "CA">>
    BY <1>4, Zenon DEF caWords
  <2>2. caName(organization, layer, Len(w)) = Cat(organization, Phrase(caWords(layer, Len(w))))
    BY <1>4, <2>1, Zenon DEF caName, Cat
  <2> QED
    BY <1>3, <2>1, <2>2
<1>5. CASE layer # 0 /\ Len(w) - 2 > 1
  <2>1. caWords(layer, Len(w)) = <<"Intermediate", Itoa(layer), "CA">>
    BY <1>5, Zenon DEF caWords
  <2>3. caName(organization, layer, Len(w)) = Cat(organization, Phrase(caWords(layer, Len(w))))
    BY <1>5, <2>1, Zenon DEF caName, Cat
  <2> QED
    BY <1>2, <1>3, <1>5, <2>1, <2>3
<1>6. CASE layer # 0 /\ ~(Len(w) - 2 > 1)
  <2>1. caWords(layer, Len(w)) = <<"Intermediate", "CA">>
    BY <1>6, Zenon DEF caWords
  <2>3. caName(organization, layer, Len(w)) = Cat(organization, Phrase(caWords(layer, Len(w))))
    BY <1>6, <2>1, Zenon DEF caName, Cat
  <2> QED
    BY <1>3, <2>1, <2>3
<1> QED
  BY <1>4, <1>5, <1>6

\* The CAs of no two layers have one name.
LEMMA CaWordsDiffer ==
  ASSUME NEW w \in WidthLists, NEW k \in 0..(Len(w) - 2), NEW l \in 0..(Len(w) - 2),
         caWords(k, Len(w)) = caWords(l, Len(w))
  PROVE  k = l
<1>1. w \in Seq(Int) /\ Len(w) \in Nat
  BY ChainAssumption
<1>2. "Root" # "Intermediate"
  OBVIOUS
<1>3. CASE k = 0 \/ l = 0
  BY <1>2, <1>3 DEF caWords
<1>4. CASE k # 0 /\ l # 0 /\ Len(w) - 2 > 1
  <2>1. <<"Intermediate", Itoa(k), "CA">> = <<"Intermediate", Itoa(l), "CA">>
    BY <1>4, Zenon DEF caWords
  <2>2. Itoa(k) = Itoa(l)
    BY <2>1
  <2>3. k \in 1..Len(w) /\ l \in 1..Len(w)
    BY <1>1, <1>4
  <2>4. k \in Numbers /\ l \in Numbers
    BY <2>3 DEF Numbers
  <2> QED
    BY <2>2, <2>4, ItoaAssumption
<1>5. CASE k # 0 /\ l # 0 /\ ~(Len(w) - 2 > 1)
  BY <1>1, <1>5
<1> QED
  BY <1>3, <1>4, <1>5

LEMMA CallType ==
  ASSUME NEW c \in ChainCall
  PROVE  /\ c.widths \in WidthLists /\ c.widths \in Seq(Int) /\ Len(c.widths) \in Nat
         /\ c.namePrefix \in Phrases /\ c.commonName \in Phrases
         /\ organizationOf(c) \in Phrases /\ leafCN(c) \in Phrases
<1>1. /\ c.widths \in WidthLists /\ c.namePrefix \in NamePrefixes
      /\ c.commonName \in CommonNames /\ c.organization \in Organizations
  BY DEF ChainCall
<1>2. /\ c.widths \in Seq(Int) /\ c.namePrefix \in Phrases
      /\ c.commonName \in Phrases /\ c.organization \in Phrases
  BY <1>1, ChainAssumption, NamesArePhrases
<1>3. <<"Certtool">> \in Seq(AnyRun)
  BY DEF AnyRun
<1>4. organizationOf(c) \in Phrases
  BY <1>2, <1>3, PhraseType DEF organizationOf
<1>5. leafCN(c) \in Phrases
  BY <1>2, <1>4 DEF leafCN
<1>6. Len(c.widths) \in Nat
  BY <1>2
<1> QED
  BY <1>1, <1>2, <1>4, <1>5, <1>6

LEMMA BaseType ==
  ASSUME NEW c \in ChainCall, NEW d \in 1..Len(c.widths)
  PROVE  Base(c, d) \in Phrases
<1>1. CASE d = Len(c.widths)
  BY <1>1, CallType DEF Base
<1>2. CASE d # Len(c.widths)
  <2>1. d - 1 \in 0..(Len(c.widths) - 1) /\ c.widths \in WidthLists /\ organizationOf(c) \in Phrases
    BY CallType
  <2>2. /\ caWords(d - 1, Len(c.widths)) \in Seq(AnyRun)
        /\ Base(c, d) = Cat(organizationOf(c), Phrase(caWords(d - 1, Len(c.widths))))
    BY <1>2, <2>1, CaName DEF Base
  <2>3. Phrase(caWords(d - 1, Len(c.widths))) \in Phrases
    BY <2>2, PhraseType
  <2> QED
    BY <2>1, <2>2, <2>3, CatType DEF Phrases
<1> QED
  BY <1>1, <1>2

Suffix(l) == IF l = <<>> THEN <<>> ELSE <<numerals(l)>>

LEMMA SuffixType ==
  ASSUME NEW l \in Seq(Numbers)
  PROVE  Suffix(l) \in Phrases /\ slugify(Suffix(l)) = numerals(l)
<1>1. /\ numerals(l) \in Seq(AnyRun)
      /\ \A i \in 1..Len(numerals(l)) : numerals(l)[i] \notin Unslugged \cup DOMAIN LowerCase
  BY NumeralsType
<1>2. CASE l = <<>>
  <2>1. Suffix(l) = <<>> /\ numerals(l) = <<>>
    <3>1. Len(numerals(l)) = 0
      BY <1>2, NumeralsType
    <3> QED
      BY <1>1, <1>2, <3>1, EmptySeq DEF Suffix
  <2>2. FlattenSeq(<<>>) = <<>>
    BY DEF FlattenSeq
  <2>3. slugRuns(<<>>) = <<>>
    BY DEF slugRuns
  <2>4. slugify(<<>>) = <<>>
    BY <2>2, <2>3, Zenon DEF slugify, slugRuns
  <2> QED
    BY <2>1, <2>4 DEF Phrases
<1>3. CASE l # <<>>
  <2>1. Suffix(l) = <<numerals(l)>>
    BY <1>3 DEF Suffix
  <2> QED
    BY <1>1, <2>1, SlugKeeps DEF Phrases
<1> QED
  BY <1>2, <1>3

LEMMA NameParts ==
  ASSUME NEW c \in ChainCall, NEW p \in Paths(c.widths)
  PROVE  /\ nextLineage(c.widths, p) \in Seq(Numbers)
         /\ Len(p) \in 1..Len(c.widths)
         /\ Cat(c.namePrefix, Base(c, Len(p))) \in Phrases
         /\ buildChainLayer(c)[p] = Cat(Cat(c.namePrefix, Base(c, Len(p))), Suffix(nextLineage(c.widths, p)))
<1> DEFINE l == nextLineage(c.widths, p)
           b == Base(c, Len(p))
<1>1. l \in Seq(Numbers) /\ Len(p) \in 1..Len(c.widths)
  BY CallType, LineageType, PathType
<1>2. b \in Phrases /\ c.namePrefix \in Phrases
  BY <1>1, BaseType, CallType
<1>3. lineageName(b, l) = Cat(b, Suffix(l))
  <2> HIDE DEF b, l
  <2>1. CASE l = <<>>
    <3>1. lineageName(b, l) = b /\ Suffix(l) = <<>>
      BY <2>1 DEF lineageName, Suffix
    <3> QED
      BY <1>2, <3>1, CatEmpty DEF Phrases
  <2>2. CASE l # <<>>
    <3>1. lineageName(b, l) = Append(b, numerals(l)) /\ Suffix(l) = <<numerals(l)>>
      BY <2>2, Zenon DEF lineageName, Suffix, numerals
    <3>2. numerals(l) \in Seq(AnyRun)
      BY <1>1, NumeralsType
    <3> QED
      BY <1>2, <3>1, <3>2, SingleCat DEF Phrases
  <2> QED
    BY <2>1, <2>2
<1>4. buildChainLayer(c)[p] = Cat(c.namePrefix, lineageName(b, l))
  BY Zenon DEF buildChainLayer, Cat, Base, isLeaf
<1>5. Suffix(l) \in Phrases
  BY <1>1, SuffixType
<1>6. Cat(c.namePrefix, Cat(b, Suffix(l))) = Cat(Cat(c.namePrefix, b), Suffix(l))
  <2> HIDE DEF b, l
  <2> QED
    BY <1>2, <1>5, CatAssociative DEF Phrases
<1>7. Cat(c.namePrefix, b) \in Phrases
  BY <1>2, CatType DEF Phrases
<1> QED
  BY <1>1, <1>3, <1>4, <1>6, <1>7

LEMMA NameSlug ==
  ASSUME NEW c \in ChainCall, NEW p \in Paths(c.widths)
  PROVE  /\ slugify(buildChainLayer(c)[p]) =
              Cat(slugify(Cat(c.namePrefix, Base(c, Len(p)))), numerals(nextLineage(c.widths, p)))
         /\ slugify(Cat(c.namePrefix, Base(c, Len(p)))) \in Seq(AnyRun)
         /\ slugify(buildChainLayer(c)[p]) \in Seq(AnyRun)
<1> DEFINE l == nextLineage(c.widths, p)
           b == Cat(c.namePrefix, Base(c, Len(p)))
<1>1. l \in Seq(Numbers) /\ b \in Phrases /\ buildChainLayer(c)[p] = Cat(b, Suffix(l))
  BY NameParts
<1>2. Suffix(l) \in Phrases /\ slugify(Suffix(l)) = numerals(l) /\ numerals(l) \in Seq(AnyRun)
  BY <1>1, SuffixType, NumeralsType
<1>3. slugify(b) \in Seq(AnyRun)
  BY <1>1, SlugType
<1> HIDE DEF l, b
<1>4. slugify(Cat(b, Suffix(l))) = Cat(slugify(b), numerals(l))
  BY <1>1, <1>2, SlugConcat
<1>5. Cat(slugify(b), numerals(l)) \in Seq(AnyRun)
  BY <1>2, <1>3, CatType
<1> QED
  BY <1>1, <1>3, <1>4, <1>5 DEF l, b

-----------------------------------------------------------------------------
(* The files.                                                              *)

LEMMA SlugSame ==
  ASSUME NEW c \in ChainCall, NEW p \in Paths(c.widths), NEW q \in Paths(c.widths), Len(p) = Len(q)
  PROVE  /\ Len(slugify(buildChainLayer(c)[p])) = Len(slugify(buildChainLayer(c)[q]))
         /\ slugify(buildChainLayer(c)[p]) = slugify(buildChainLayer(c)[q]) => p = q
<1> DEFINE b == slugify(Cat(c.namePrefix, Base(c, Len(p))))
           k == nextLineage(c.widths, p)
           l == nextLineage(c.widths, q)
<1>1. /\ slugify(buildChainLayer(c)[p]) = Cat(b, numerals(k))
      /\ slugify(buildChainLayer(c)[q]) = Cat(b, numerals(l))
      /\ b \in Seq(AnyRun)
  BY NameSlug
<1>2. k \in Seq(Numbers) /\ l \in Seq(Numbers)
  BY NameParts
<1>3. Len(k) = Len(l) /\ (k = l => p = q)
  BY CallType, LineageSame
<1> HIDE DEF b, k, l
<1>4. /\ numerals(k) \in Seq(AnyRun) /\ Len(numerals(k)) = Len(k)
      /\ numerals(l) \in Seq(AnyRun) /\ Len(numerals(l)) = Len(l)
  BY <1>2, NumeralsType
<1>5. Len(Cat(b, numerals(k))) = Len(b) + Len(k) /\ Len(Cat(b, numerals(l))) = Len(b) + Len(l)
  <2>1. /\ Len(Cat(b, numerals(k))) = Len(b) + Len(numerals(k))
        /\ Len(Cat(b, numerals(l))) = Len(b) + Len(numerals(l))
    BY <1>1, <1>4, CatType, Zenon
  <2> QED
    BY <1>4, <2>1
<1>6. Cat(b, numerals(k)) = Cat(b, numerals(l)) => k = l
  <2>1. Cat(b, numerals(k)) = Cat(b, numerals(l)) => numerals(k) = numerals(l)
    BY <1>1, <1>3, <1>4, CatCancel
  <2> QED
    BY <1>2, <2>1, NumeralsEqual
<1> QED
  BY <1>1, <1>3, <1>5, <1>6, Zenon

\* What an entry adds to the file names below it.
slugPart(slug) == IF slug = <<>> THEN <<"">> ELSE slug
fileParts(c, p) == [n \in DOMAIN p |-> slugPart(slugify(buildChainLayer(c)[SubSeq(p, 1, n)]))]

LEMMA SlugPart ==
  ASSUME NEW s \in Seq(AnyRun), NEW t \in Seq(AnyRun), Len(s) = Len(t)
  PROVE  /\ slugPart(s) \in Seq(AnyRun) /\ slugPart(s) # <<>> /\ Len(slugPart(s)) = Len(slugPart(t))
         /\ slugPart(s) = slugPart(t) => s = t
<1>1. "" \in AnyRun
  BY DEF AnyRun
<1>2. CASE s = <<>>
  <2>1. t = <<>>
    BY <1>2
  <2>2. slugPart(s) = <<"">> /\ slugPart(t) = <<"">>
    BY <1>2, <2>1, Zenon DEF slugPart
  <2>a. \A S : \A x \in S : <<x>> \in Seq(S) /\ <<x>> # <<>>
    OBVIOUS
  <2>3. <<"">> \in Seq(AnyRun) /\ <<"">> # <<>>
    BY <1>1, <2>a, Zenon
  <2> QED
    BY <1>2, <2>1, <2>2, <2>3, Zenon
<1>3. CASE s # <<>>
  <2>1. t # <<>>
    BY <1>3
  <2> QED
    BY <1>3, <2>1 DEF slugPart
<1> QED
  BY <1>2, <1>3

LEMMA FileParts ==
  ASSUME NEW c \in ChainCall, NEW p \in Paths(c.widths)
  PROVE  /\ specFilename(buildChainLayer(c), p) = FlattenSeq(fileParts(c, p))
         /\ fileParts(c, p) \in Seq(Seq(AnyRun)) /\ Len(fileParts(c, p)) = Len(p)
         /\ \A n \in 1..Len(p) : /\ fileParts(c, p)[n] # <<>>
                                 /\ fileParts(c, p)[n] = slugPart(slugify(buildChainLayer(c)[SubSeq(p, 1, n)]))
<1>1. c.widths \in Seq(Int)
  BY CallType
<1>2. DOMAIN p = 1..Len(p) /\ Len(p) \in Nat
  <2>1. p \in Seq(Nat \ {0})
    BY <1>1, PathType
  <2> QED
    BY <2>1
<1>3. ASSUME NEW n \in 1..Len(p)
      PROVE  LET part == slugPart(slugify(buildChainLayer(c)[SubSeq(p, 1, n)]))
             IN part \in Seq(AnyRun) /\ part # <<>>
  <2>1. SubSeq(p, 1, n) \in Paths(c.widths)
    BY <1>1, PathAbove
  <2>2. slugify(buildChainLayer(c)[SubSeq(p, 1, n)]) \in Seq(AnyRun)
    BY <2>1, NameSlug
  <2> QED
    BY <2>2, SlugPart
<1>4. fileParts(c, p) = [n \in 1..Len(p) |-> slugPart(slugify(buildChainLayer(c)[SubSeq(p, 1, n)]))]
  BY <1>2, Zenon DEF fileParts
<1>5. fileParts(c, p) \in Seq(Seq(AnyRun))
  BY <1>2, <1>3, <1>4, IsASeq
<1>6. specFilename(buildChainLayer(c), p) = FlattenSeq(fileParts(c, p))
  BY Zenon DEF specFilename, fileParts, slugPart
<1>7. Len(fileParts(c, p)) = Len(p)
  BY <1>2, <1>4
<1> QED
  BY <1>3, <1>4, <1>5, <1>6, <1>7

\* The file of an entry is longer than those of the layers above.
LEMMA FilesOfDepth ==
  ASSUME NEW c \in ChainCall, NEW p \in Paths(c.widths), NEW q \in Paths(c.widths), Len(p) < Len(q)
  PROVE  specFilename(buildChainLayer(c), p) # specFilename(buildChainLayer(c), q)
<1> DEFINE s == fileParts(c, p)
           t == fileParts(c, q)
<1>1. /\ specFilename(buildChainLayer(c), p) = FlattenSeq(s)
      /\ s \in Seq(Seq(AnyRun)) /\ Len(s) = Len(p)
      /\ \A n \in 1..Len(p) : s[n] = slugPart(slugify(buildChainLayer(c)[SubSeq(p, 1, n)]))
  BY FileParts
<1>2. /\ specFilename(buildChainLayer(c), q) = FlattenSeq(t)
      /\ t \in Seq(Seq(AnyRun)) /\ Len(t) = Len(q)
      /\ \A n \in 1..Len(q) : t[n] = slugPart(slugify(buildChainLayer(c)[SubSeq(q, 1, n)])) /\ t[n] # <<>>
  BY FileParts
<1>3. c.widths \in Seq(Int)
  BY CallType
<1> HIDE DEF s, t
<1>4. Len(s) \in Nat /\ Len(t) \in Nat /\ Len(s) < Len(t)
  BY <1>1, <1>2
<1>5. ASSUME NEW n \in 1..Len(s) PROVE Len(s[n]) = Len(t[n])
  <2>0. n \in 1..Len(p) /\ n \in 1..Len(q)
    BY <1>1, <1>2, <1>4
  <2>1. /\ SubSeq(p, 1, n) \in Paths(c.widths) /\ Len(SubSeq(p, 1, n)) = n
        /\ SubSeq(q, 1, n) \in Paths(c.widths) /\ Len(SubSeq(q, 1, n)) = n
    BY <1>3, <2>0, PathAbove
  <2> DEFINE u == slugify(buildChainLayer(c)[SubSeq(p, 1, n)])
             v == slugify(buildChainLayer(c)[SubSeq(q, 1, n)])
  <2>2. u \in Seq(AnyRun) /\ v \in Seq(AnyRun) /\ Len(u) = Len(v)
    BY <2>1, NameSlug, SlugSame
  <2>3. s[n] = slugPart(u) /\ t[n] = slugPart(v)
    BY <1>1, <1>2, <2>0
  <2> HIDE DEF u, v
  <2> QED
    BY <2>2, <2>3, SlugPart
<1>6. Len(FlattenSeq(s)) < Len(FlattenSeq(t))
  <2>1. \A n \in 1..Len(t) : t[n] # <<>>
    BY <1>2
  <2> QED
    BY <1>1, <1>2, <1>4, <1>5, <2>1, FlattenLonger
<1>7. Len(FlattenSeq(s)) \in Nat
  BY <1>1, JoinsExists, FlattenJoins, LenProperties
<1> QED
  BY <1>1, <1>2, <1>6, <1>7

LEMMA FilesUnique ==
  ASSUME NEW c \in ChainCall, NEW p \in Paths(c.widths), NEW q \in Paths(c.widths),
         specFilename(buildChainLayer(c), p) = specFilename(buildChainLayer(c), q)
  PROVE  p = q
<1>1. c.widths \in Seq(Int) /\ Len(p) \in Nat /\ Len(q) \in Nat /\ Len(p) # 0
      /\ p \in Seq(Nat \ {0}) /\ q \in Seq(Nat \ {0})
  <2>1. c.widths \in Seq(Int)
    BY CallType
  <2> QED
    BY <2>1, PathType
<1>2. Len(p) = Len(q)
  <2>1. ~(Len(p) < Len(q))
    BY FilesOfDepth
  <2>2. ~(Len(q) < Len(p))
    BY FilesOfDepth
  <2> QED
    BY <1>1, <2>1, <2>2
<1> DEFINE s == fileParts(c, p)
           t == fileParts(c, q)
<1>3. /\ specFilename(buildChainLayer(c), p) = FlattenSeq(s)
      /\ s \in Seq(Seq(AnyRun)) /\ Len(s) = Len(p)
      /\ \A n \in 1..Len(p) : s[n] = slugPart(slugify(buildChainLayer(c)[SubSeq(p, 1, n)]))
  BY FileParts
<1>4. /\ specFilename(buildChainLayer(c), q) = FlattenSeq(t)
      /\ t \in Seq(Seq(AnyRun)) /\ Len(t) = Len(q)
      /\ \A n \in 1..Len(q) : t[n] = slugPart(slugify(buildChainLayer(c)[SubSeq(q, 1, n)]))
  BY FileParts
<1> HIDE DEF s, t
<1>5. ASSUME NEW n \in 1..Len(s)
      PROVE  LET u == slugify(buildChainLayer(c)[SubSeq(p, 1, n)])
                 v == slugify(buildChainLayer(c)[SubSeq(q, 1, n)])
             IN u \in Seq(AnyRun) /\ v \in Seq(AnyRun) /\ Len(u) = Len(v) /\ s[n] = slugPart(u) /\ t[n] = slugPart(v)
  <2>0. n \in 1..Len(p) /\ n \in 1..Len(q)
    BY <1>2, <1>3
  <2>1. /\ SubSeq(p, 1, n) \in Paths(c.widths) /\ Len(SubSeq(p, 1, n)) = n
        /\ SubSeq(q, 1, n) \in Paths(c.widths) /\ Len(SubSeq(q, 1, n)) = n
    BY <1>1, <2>0, PathAbove
  <2> QED
    BY <1>3, <1>4, <2>0, <2>1, NameSlug, SlugSame
<1>6. \A n \in 1..Len(s) : Len(s[n]) = Len(t[n])
  BY <1>5, SlugPart
<1>7. s = t
  BY <1>2, <1>3, <1>4, <1>6, FlattenSameShape
<1>8. Len(p) \in 1..Len(p) /\ Len(s) = Len(p) /\ Len(p) \in 1..Len(s)
  BY <1>1, <1>3
<1>9. SubSeq(p, 1, Len(p)) = p /\ SubSeq(q, 1, Len(p)) = q
  BY <1>1, <1>2, SubSeqFull
<1> DEFINE u == slugify(buildChainLayer(c)[p])
           v == slugify(buildChainLayer(c)[q])
<1>10. u \in Seq(AnyRun) /\ v \in Seq(AnyRun) /\ Len(u) = Len(v) /\ slugPart(u) = slugPart(v)
  BY <1>5, <1>7, <1>8, <1>9
<1>11. u = v
  <2> HIDE DEF u, v
  <2> QED
    BY <1>10, SlugPart
<1> QED
  BY <1>2, <1>11, SlugSame

-----------------------------------------------------------------------------
(* Entries of one name.                                                    *)

LEMMA FlattenEmpty ==
  ASSUME NEW S, NEW s \in Seq(Seq(S))
  PROVE  FlattenSeq(s) = <<>> <=> \A i \in 1..Len(s) : s[i] = <<>>
<1> DEFINE n == Len(s)
<1>1. PICK f : Joins(S, s, f)
  BY JoinsExists
<1>2. n \in Nat /\ \A i \in 1..n : s[i] \in Seq(S)
  OBVIOUS
<1>3. f \in [0..n -> Seq(S)] /\ f[0] = <<>> /\ \A i \in 1..n : f[i] = Cat(f[i - 1], s[i])
  BY <1>1 DEF Joins
<1>4. FlattenSeq(s) = f[n]
  BY <1>1, FlattenJoins
<1> HIDE DEF n
<1>5. ASSUME NEW i \in 1..n PROVE f[i] = <<>> <=> f[i - 1] = <<>> /\ s[i] = <<>>
  <2>1. i - 1 \in 0..n
    BY <1>2
  <2>2. f[i - 1] \in Seq(S) /\ s[i] \in Seq(S) /\ f[i] = Cat(f[i - 1], s[i])
    BY <1>2, <1>3, <2>1, Zenon
  <2>3. (f[i - 1] \o s[i] = <<>>) <=> (f[i - 1] = <<>> /\ s[i] = <<>>)
    BY <2>2, ConcatEqualIffEmpty
  <2> QED
    BY <2>2, <2>3, Zenon DEF Cat
<1>6. ASSUME \A i \in 1..n : s[i] = <<>> PROVE f[n] = <<>>
  <2> DEFINE T == {i \in 0..n : f[i] = <<>>}
  <2>1. 0 \in T
    BY <1>2, <1>3
  <2>2. ASSUME NEW i \in 1..n, i - 1 \in T PROVE i \in T
    <3>1. i \in 0..n
      BY <1>2
    <3> QED
      BY <1>5, <1>6, <2>2, <3>1
  <2> HIDE DEF T
  <2>3. \A i \in 0..n : i \in T
    BY <1>2, <2>1, <2>2, UpTo
  <2>4. n \in T
    BY <1>2, <2>3
  <2> QED
    BY <2>4 DEF T
<1>7. ASSUME f[n] = <<>> PROVE \A i \in 1..n : s[i] = <<>>
  <2> DEFINE T == {j \in 0..n : f[n - j] = <<>>}
  <2>1. 0 \in T
    BY <1>2, <1>7
  <2>2. ASSUME NEW j \in 1..n, j - 1 \in T PROVE j \in T
    <3>1. n - (j - 1) \in 1..n /\ (n - (j - 1)) - 1 = n - j /\ j \in 0..n
      BY <1>2
    <3>2. f[n - (j - 1)] = <<>>
      BY <2>2
    <3>3. f[(n - (j - 1)) - 1] = <<>>
      BY <1>5, <3>1, <3>2, Zenon
    <3> QED
      BY <3>1, <3>3
  <2> HIDE DEF T
  <2>3. \A j \in 0..n : j \in T
    BY <1>2, <2>1, <2>2, UpTo
  <2>4. ASSUME NEW i \in 1..n PROVE s[i] = <<>>
    <3>1. n - i \in 0..n /\ n - (n - i) = i
      BY <1>2
    <3>2. f[i] = <<>>
      BY <2>3, <3>1 DEF T
    <3> QED
      BY <1>5, <3>2, Zenon
  <2> QED
    BY <2>4
<1> QED
  BY <1>4, <1>6, <1>7 DEF n

LEMMA LineageEmpty ==
  ASSUME NEW w \in Seq(Int), NEW p \in Paths(w)
  PROVE  nextLineage(w, p) = <<>> <=> \A i \in 1..Len(p) : w[i] = 1
<1> DEFINE s == lineageParts(w, p)
<1>1. /\ nextLineage(w, p) = FlattenSeq(s) /\ DOMAIN p = 1..Len(p) /\ Len(s) = Len(p)
      /\ s \in Seq(Seq(UNION {1..w[i] : i \in 1..Len(w)}))
  BY LineageParts
<1>2. ASSUME NEW i \in 1..Len(p) PROVE s[i] = <<>> <=> w[i] = 1
  <2>1. s[i] = IF w[i] = 1 THEN <<>> ELSE <<p[i]>>
    BY <1>1, Zenon DEF lineageParts
  <2>2. <<p[i]>> # <<>>
    OBVIOUS
  <2> QED
    BY <2>1, <2>2, Zenon
<1> HIDE DEF s
<1>3. FlattenSeq(s) = <<>> <=> \A i \in 1..Len(s) : s[i] = <<>>
  BY <1>1, FlattenEmpty
<1> QED
  BY <1>1, <1>2, <1>3

\* A name that ends in "CA" before its lineage does not end in a numeral.
LEMMA NameOfCA ==
  ASSUME NEW b \in Phrases, NEW m \in Nat, Len(b) = m + 1, b[m + 1] = <<"CA">>, NEW a \in Phrases,
         NEW k \in Seq(Numbers), NEW l \in Seq(Numbers), l = <<>> => k = <<>>,
         Cat(b, Suffix(k)) = Cat(a, Suffix(l))
  PROVE  b = a
<1>1. Suffix(k) \in Phrases /\ Suffix(l) \in Phrases
  BY SuffixType
<1>2. CASE l = <<>>
  <2>1. Suffix(l) = <<>> /\ Suffix(k) = <<>>
    BY <1>2 DEF Suffix
  <2> QED
    BY <2>1, CatEmpty DEF Phrases
<1>3. CASE k # <<>> /\ l # <<>>
  <2>1. Suffix(k) = <<numerals(k)>> /\ Suffix(l) = <<numerals(l)>>
    BY <1>3, Zenon DEF Suffix
  <2>2. Len(Suffix(k)) = Len(Suffix(l))
    BY <2>1
  <2> QED
    BY <1>1, <2>2, CatCancel DEF Phrases
<1>4. CASE k = <<>> /\ l # <<>>
  <2>1. Suffix(k) = <<>> /\ Suffix(l) = <<numerals(l)>>
    BY <1>4, Zenon DEF Suffix
  <2>2. numerals(l) \in Seq(AnyRun) /\ Len(numerals(l)) = Len(l) /\ Len(l) # 0
    BY <1>4, NumeralsType, EmptySeq
  <2>3. Cat(b, <<>>) = b /\ Cat(a, <<numerals(l)>>) = Append(a, numerals(l))
    BY <2>2, CatEmpty, SingleCat DEF Phrases
  <2>4. b = Append(a, numerals(l))
    BY <2>1, <2>3, Zenon
  <2>5. Append(a, numerals(l))[Len(a) + 1] = numerals(l) /\ Len(Append(a, numerals(l))) = Len(a) + 1
    BY <2>2 DEF Phrases
  <2>6. Len(a) + 1 = m + 1
    BY <2>4, <2>5, Zenon
  <2>7. numerals(l) = <<"CA">>
    BY <2>4, <2>5, <2>6, Zenon
  <2>8. 1 \in 1..Len(l)
    BY <2>2
  <2>9. numerals(l)[1] # "CA"
    BY <2>8, NumeralsType
  <2> QED
    BY <2>7, <2>9
<1> QED
  BY <1>2, <1>3, <1>4

LEMMA SameName ==
  ASSUME NEW c \in ChainCall, NEW p \in Paths(c.widths), NEW q \in Paths(c.widths), Len(p) < Len(q),
         buildChainLayer(c)[p] = buildChainLayer(c)[q]
  PROVE  /\ Len(p) - 1 \in 0..(Len(c.widths) - 2)
         /\ c.commonName = caName(organizationOf(c), Len(p) - 1, Len(c.widths))
<1> DEFINE layers == Len(c.widths)
           d == Len(p) - 1
           e == Len(q) - 1
           k == nextLineage(c.widths, p)
           l == nextLineage(c.widths, q)
           o == organizationOf(c)
           b == Base(c, Len(p))
           a == Base(c, Len(q))
<1>1. /\ c.widths \in WidthLists /\ c.widths \in Seq(Int) /\ layers \in Nat
      /\ c.namePrefix \in Phrases /\ c.commonName \in Phrases /\ o \in Phrases /\ leafCN(c) \in Phrases
  BY CallType
<1>2. Len(p) \in 1..layers /\ Len(q) \in 1..layers /\ k \in Seq(Numbers) /\ l \in Seq(Numbers)
  BY NameParts
<1>3. d \in 0..(layers - 2) /\ d \in 0..(layers - 1) /\ e \in 0..(layers - 1) /\ Len(p) # layers /\ d < e
  BY <1>1, <1>2
<1>4. b \in Phrases /\ a \in Phrases /\ Suffix(k) \in Phrases /\ Suffix(l) \in Phrases
  BY <1>2, BaseType, SuffixType
<1>5. Cat(b, Suffix(k)) = Cat(a, Suffix(l))
  <2>1. Cat(Cat(c.namePrefix, b), Suffix(k)) = Cat(Cat(c.namePrefix, a), Suffix(l))
    BY NameParts
  <2> HIDE DEF a, b, k, l
  <2>2. Cat(c.namePrefix, Cat(b, Suffix(k))) = Cat(c.namePrefix, Cat(a, Suffix(l)))
    BY <1>1, <1>4, <2>1, CatAssociative DEF Phrases
  <2>3. Cat(b, Suffix(k)) \in Phrases /\ Cat(a, Suffix(l)) \in Phrases
    BY <1>4, CatType DEF Phrases
  <2>4. c.namePrefix \o Cat(b, Suffix(k)) = c.namePrefix \o Cat(a, Suffix(l))
    BY <2>2, Zenon DEF Cat
  <2> HIDE DEF layers, d, e, o
  <2> QED
    BY <1>1, <2>3, <2>4, ConcatSimplifications, Zenon DEF Phrases
<1>6. l = <<>> => k = <<>>
  <2>1. /\ k = <<>> <=> \A i \in 1..Len(p) : c.widths[i] = 1
        /\ l = <<>> <=> \A i \in 1..Len(q) : c.widths[i] = 1
    BY <1>1, LineageEmpty
  <2>2. \A i \in 1..Len(p) : i \in 1..Len(q)
    BY <1>2
  <2> QED
    BY <2>1, <2>2, Zenon
<1> DEFINE v == caWords(d, layers)
<1>7. v \in Seq(AnyRun) /\ Len(v) \in Nat \ {0} /\ v[Len(v)] = "CA" /\ caName(o, d, layers) = Cat(o, Phrase(v))
  BY <1>1, <1>3, CaName
<1>8. b = Cat(o, Phrase(v))
  BY <1>3, <1>7 DEF Base
<1> HIDE DEF k, l, a, b, o, v, layers
<1>9. Phrase(v) \in Phrases /\ Len(Phrase(v)) = Len(v) /\ Phrase(v)[Len(v)] = <<"CA">>
  <2>1. /\ Phrase(v) \in Phrases /\ Len(Phrase(v)) = Len(v)
        /\ \A i \in 1..Len(v) : Phrase(v)[i] = <<v[i]>>
    BY <1>7, PhraseType
  <2>2. Len(v) \in 1..Len(v)
    BY <1>7
  <2> QED
    BY <1>7, <2>1, <2>2
<1>10. Len(b) = Len(o) + Len(v) /\ b[Len(o) + Len(v)] = <<"CA">> /\ Len(o) \in Nat
  <2>1. Len(o) \in Nat
    BY <1>1 DEF Phrases
  <2>2. Len(b) = Len(o) + Len(v)
    <3>1. Len(b) = Len(o) + Len(Phrase(v))
      BY <1>1, <1>8, <1>9, CatType DEF Phrases
    <3> QED
      BY <1>9, <3>1
  <2>3. /\ Len(o) + Len(v) \in 1..(Len(o) + Len(Phrase(v)))
        /\ ~(Len(o) + Len(v) <= Len(o)) /\ (Len(o) + Len(v)) - Len(o) = Len(v)
    BY <1>7, <1>9, <2>1
  <2>4. (o \o Phrase(v))[Len(o) + Len(v)] = Phrase(v)[(Len(o) + Len(v)) - Len(o)]
    BY <1>1, <1>9, <2>3, ConcatProperties DEF Phrases
  <2>5. b = o \o Phrase(v)
    BY <1>8, Zenon DEF Cat
  <2> QED
    BY <1>9, <2>1, <2>2, <2>3, <2>4, <2>5
<1>11. b = a
  <2> DEFINE m == Len(o) + Len(v) - 1
  <2>1. m \in Nat /\ m + 1 = Len(o) + Len(v)
    BY <1>7, <1>10
  <2>2. Len(b) = m + 1 /\ b[m + 1] = <<"CA">>
    BY <1>10, <2>1
  <2> HIDE DEF m
  <2> QED
    BY <1>2, <1>4, <1>5, <1>6, <2>1, <2>2, NameOfCA
<1>12. CASE Len(q) # layers
  <2> DEFINE u == caWords(e, layers)
  <2>0. e \in 0..(layers - 2) /\ layers \in Nat
    BY <1>1, <1>2, <1>3, <1>12
  <2>1. u \in Seq(AnyRun) /\ caName(o, e, layers) = Cat(o, Phrase(u))
    BY <1>1, <1>3, CaName DEF layers, o
  <2>2. a = Cat(o, Phrase(u))
    BY <1>12, <2>1 DEF Base, a, layers, o
  <2>3. /\ Phrase(u) \in Phrases /\ Len(Phrase(u)) = Len(u)
        /\ \A i \in 1..Len(u) : Phrase(u)[i] = <<u[i]>>
    BY <2>1, PhraseType
  <2>4. \A i \in 1..Len(v) : Phrase(v)[i] = <<v[i]>>
    BY <1>7, PhraseType
  <2> HIDE DEF u
  <2>5. Len(a) = Len(o) + Len(Phrase(u))
    BY <1>1, <2>2, <2>3, CatType DEF Phrases
  <2>6. Len(Phrase(u)) = Len(Phrase(v)) /\ Len(u) = Len(v)
    <3>1. Len(u) \in Nat /\ Len(v) \in Nat
      BY <1>7, <2>1
    <3> QED
      BY <1>9, <1>10, <1>11, <2>3, <2>5, <3>1
  <2>7. Phrase(u) = Phrase(v)
    <3>1. Cat(o, Phrase(u)) = Cat(o, Phrase(v))
      BY <1>8, <1>11, <2>2, Zenon
    <3>2. o \in Seq(Seq(AnyRun)) /\ Phrase(u) \in Seq(Seq(AnyRun)) /\ Phrase(v) \in Seq(Seq(AnyRun))
      BY <1>1, <1>9, <2>3 DEF Phrases
    <3> QED
      BY <2>6, <3>1, <3>2, CatCancel
  <2>8. ASSUME NEW i \in 1..Len(v) PROVE u[i] = v[i]
    <3>1. <<u[i]>> = <<v[i]>>
      BY <2>3, <2>4, <2>6, <2>7
    <3> QED
      BY <3>1
  <2>9. u = v
    BY <1>7, <2>1, <2>6, <2>8, SeqEqual
  <2>10. d = e
    BY <1>1, <1>3, <2>0, <2>9, CaWordsDiffer DEF u, v, layers
  <2> QED
    BY <1>3, <2>10
<1>13. CASE Len(q) = layers
  <2>1. leafCN(c) = Cat(o, Phrase(v))
    BY <1>8, <1>11, <1>13 DEF Base, a, layers
  <2>2. leafCN(c) # o
    <3>1. Len(leafCN(c)) = Len(o) + Len(v)
      BY <1>8, <1>10, <2>1
    <3> QED
      BY <1>7, <1>10, <3>1
  <2>3. leafCN(c) = c.commonName
    BY <2>2 DEF leafCN, o
  <2> QED
    BY <1>3, <1>7, <2>1, <2>3 DEF layers, o
<1> QED
  BY <1>12, <1>13

LEMMA NamesUnlessCause ==
  ASSUME NEW c \in ChainCall, ~checkUniqueNames(buildChainLayer(c))
  PROVE  \E layer \in 0..(Len(c.widths) - 2) :
           c.commonName = caName(organizationOf(c), layer, Len(c.widths))
<1>1. DOMAIN buildChainLayer(c) = Paths(c.widths)
  BY DEF buildChainLayer
<1>2. PICK p \in Paths(c.widths), q \in Paths(c.widths) :
        buildChainLayer(c)[p] = buildChainLayer(c)[q] /\ p # q
  BY <1>1, Zenon DEF checkUniqueNames
<1>3. Len(p) # Len(q)
  BY <1>2, SlugSame
<1>4. Len(p) \in Nat /\ Len(q) \in Nat
  BY NameParts
<1>5. CASE Len(p) < Len(q)
  BY <1>2, <1>5, SameName
<1>6. CASE Len(q) < Len(p)
  BY <1>2, <1>6, SameName
<1> QED
  BY <1>3, <1>4, <1>5, <1>6

-----------------------------------------------------------------------------
(* The order of the entries is total.                                      *)

\* The position of an entry in layer i, 0 when it has none there.
position(p, i) == IF i \in 1..Len(p) THEN p[i] ELSE 0
Earlier(p, q, i) == position(p, i) < position(q, i) /\ \A j \in 1..(i - 1) : position(p, j) = position(q, j)

LEMMA PositionType ==
  ASSUME NEW p \in Seq(Nat \ {0}), NEW i \in Nat
  PROVE  position(p, i) \in Nat /\ (position(p, i) = 0 <=> i \notin 1..Len(p))
<1>1. i \in 1..Len(p) => p[i] \in Nat \ {0}
  OBVIOUS
<1> QED
  BY <1>1 DEF position

LEMMA Prefixed ==
  ASSUME NEW p \in Seq(Nat \ {0}), NEW q \in Seq(Nat \ {0})
  PROVE  IsPrefix(p, q) <=> Len(p) <= Len(q) /\ \A j \in 1..Len(p) : p[j] = q[j]
<1>1. SubSeq(p, 1, Len(p)) = p
  BY SubSeqFull
<1>2. CASE Len(p) <= Len(q)
  <2>1. \A j \in 1..Len(p) : q[j] \in Nat \ {0}
    BY <1>2
  <2> DEFINE u == SubSeq(q, 1, Len(p))
  <2>2. /\ u \in Seq(Nat \ {0})
        /\ Len(u) = IF 1 <= Len(p) THEN Len(p) - 1 + 1 ELSE 0
        /\ \A j \in 1..(Len(p) - 1 + 1) : u[j] = q[1 + j - 1]
    <3> DEFINE m == Len(p)
    <3>1. m \in Int /\ 1 \in Int /\ \A j \in 1..m : q[j] \in Nat \ {0}
      BY <2>1
    <3> HIDE DEF m
    <3>2. /\ SubSeq(q, 1, m) \in Seq(Nat \ {0})
          /\ Len(SubSeq(q, 1, m)) = IF 1 <= m THEN m - 1 + 1 ELSE 0
          /\ \A j \in 1..(m - 1 + 1) : SubSeq(q, 1, m)[j] = q[1 + j - 1]
      BY <3>1, SubSeqProperties
    <3> QED
      BY <3>2, Zenon DEF m
  <2> HIDE DEF u
  <2>3. u \in Seq(Nat \ {0}) /\ Len(u) = Len(p) /\ \A j \in 1..Len(p) : u[j] = q[j]
    <3>1. Len(p) \in Nat
      OBVIOUS
    <3>2. Len(u) = Len(p)
      BY <2>2, <3>1
    <3>3. ASSUME NEW j \in 1..Len(p) PROVE u[j] = q[j]
      <4>1. j \in 1..(Len(p) - 1 + 1) /\ 1 + j - 1 = j
        BY <3>1
      <4>2. u[j] = q[1 + j - 1]
        BY <2>2, <4>1, Zenon
      <4> QED
        BY <4>1, <4>2
    <3> QED
      BY <2>2, <3>2, <3>3
  <2>4. p = u <=> \A j \in 1..Len(p) : p[j] = q[j]
    <3>1. ASSUME \A j \in 1..Len(p) : p[j] = q[j] PROVE p = u
      BY <2>3, <3>1, SeqEqual
    <3> QED
      BY <2>3, <3>1
  <2> QED
    BY <1>1, <1>2, <2>4 DEF IsPrefix, u
<1>3. CASE ~(Len(p) <= Len(q))
  BY <1>3, Zenon DEF IsPrefix
<1> QED
  BY <1>2, <1>3

LEMMA BeforeIsEarlier ==
  ASSUME NEW p \in Seq(Nat \ {0}), NEW q \in Seq(Nat \ {0})
  PROVE  Before(p, q) <=> \E i \in Nat \ {0} : Earlier(p, q, i)
<1>1. /\ DOMAIN p = 1..Len(p) /\ DOMAIN q = 1..Len(q) /\ Len(p) \in Nat /\ Len(q) \in Nat
      /\ \A i \in 1..Len(p) : p[i] \in Nat \ {0}
      /\ \A i \in 1..Len(q) : q[i] \in Nat \ {0}
  OBVIOUS
<1>2. ASSUME NEW i \in DOMAIN p \cap DOMAIN q, p[i] < q[i], \A j \in 1..(i - 1) : p[j] = q[j]
      PROVE  i \in Nat \ {0} /\ Earlier(p, q, i)
  <2>1. i \in 1..Len(p) /\ i \in 1..Len(q)
    BY <1>1
  <2>2. \A j \in 1..(i - 1) : j \in 1..Len(p) /\ j \in 1..Len(q)
    BY <1>1, <2>1
  <2>3. i \in Nat \ {0}
    BY <1>1, <2>1
  <2>4. position(p, i) = p[i] /\ position(q, i) = q[i]
    BY <2>1 DEF position
  <2>5. \A j \in 1..(i - 1) : position(p, j) = p[j] /\ position(q, j) = q[j]
    BY <2>2 DEF position
  <2> QED
    BY <1>2, <2>3, <2>4, <2>5 DEF Earlier
<1>3. ASSUME IsStrictPrefix(p, q) PROVE \E i \in Nat \ {0} : Earlier(p, q, i)
  <2>1. Len(p) <= Len(q) /\ (\A j \in 1..Len(p) : p[j] = q[j]) /\ p # q
    BY <1>3, Prefixed DEF IsStrictPrefix
  <2>2. Len(p) # Len(q)
    BY <2>1, SeqEqual
  <2> DEFINE i == Len(p) + 1
  <2>3. i \in Nat \ {0} /\ i \in 1..Len(q) /\ i \notin 1..Len(p) /\ i - 1 = Len(p)
    <3> DEFINE m == Len(p)
               n == Len(q)
    <3>1. m \in Nat /\ n \in Nat /\ m <= n /\ m # n
      BY <2>1, <2>2
    <3> HIDE DEF m, n
    <3>2. m + 1 \in Nat \ {0} /\ m + 1 \in 1..n /\ m + 1 \notin 1..m /\ (m + 1) - 1 = m
      BY <3>1
    <3> QED
      BY <3>2, Zenon DEF m, n
  <2>4. \A j \in 1..Len(p) : j \in 1..Len(q)
    BY <1>1, <2>1
  <2> HIDE DEF i
  <2>5. position(p, i) = 0 /\ position(q, i) = q[i] /\ q[i] \in Nat \ {0}
    BY <1>1, <2>3 DEF position
  <2>6. \A j \in 1..(i - 1) : position(p, j) = position(q, j)
    BY <2>1, <2>3, <2>4 DEF position
  <2> QED
    BY <2>3, <2>5, <2>6 DEF Earlier
<1>4. ASSUME NEW i \in Nat \ {0}, Earlier(p, q, i) PROVE Before(p, q)
  <2>1. position(p, i) < position(q, i) /\ \A j \in 1..(i - 1) : position(p, j) = position(q, j)
    BY <1>4, Zenon DEF Earlier
  <2>2. position(p, i) \in Nat /\ position(q, i) \in Nat /\ i \in Nat
    BY PositionType
  <2>3. i \in 1..Len(q)
    BY <2>1, <2>2, PositionType
  <2>4. CASE i \in 1..Len(p)
    <3>1. p[i] < q[i]
      BY <2>1, <2>3, <2>4 DEF position
    <3>2. ASSUME NEW j \in 1..(i - 1) PROVE p[j] = q[j]
      <4>1. j \in 1..Len(p) /\ j \in 1..Len(q)
        BY <1>1, <2>3, <2>4
      <4>2. position(p, j) = position(q, j)
        BY <2>1
      <4> QED
        BY <4>1, <4>2 DEF position
    <3> QED
      BY <1>1, <2>3, <2>4, <3>1, <3>2, Zenon DEF Before
  <2>5. CASE i \notin 1..Len(p)
    <3>1. Len(p) < i /\ Len(p) < Len(q)
      BY <1>1, <2>3, <2>5
    <3>2. ASSUME NEW j \in 1..Len(p) PROVE p[j] = q[j]
      <4>1. j \in 1..Len(p) /\ j \in 1..Len(q) /\ j \in 1..(i - 1)
        BY <1>1, <3>1
      <4>2. position(p, j) = position(q, j)
        BY <2>1, <4>1
      <4> QED
        BY <4>1, <4>2 DEF position
    <3>3. IsPrefix(p, q) /\ p # q
      BY <1>1, <3>1, <3>2, Prefixed
    <3> QED
      BY <3>3, Zenon DEF Before, IsStrictPrefix
  <2> QED
    BY <2>4, <2>5
<1> QED
  BY <1>2, <1>3, <1>4, Zenon DEF Before

LEMMA BeforeIrreflexive ==
  ASSUME NEW p \in Seq(Nat \ {0})
  PROVE  ~Before(p, p)
<1>1. \A i \in Nat \ {0} : ~Earlier(p, p, i)
  BY PositionType DEF Earlier
<1> QED
  BY <1>1, BeforeIsEarlier

LEMMA BeforeTransitive ==
  ASSUME NEW p \in Seq(Nat \ {0}), NEW q \in Seq(Nat \ {0}), NEW r \in Seq(Nat \ {0}),
         Before(p, q), Before(q, r)
  PROVE  Before(p, r)
<1>1. PICK i \in Nat \ {0} : Earlier(p, q, i)
  BY BeforeIsEarlier
<1>2. PICK k \in Nat \ {0} : Earlier(q, r, k)
  BY BeforeIsEarlier
<1>3. \A j \in Nat : position(p, j) \in Nat /\ position(q, j) \in Nat /\ position(r, j) \in Nat
  BY PositionType
<1>4. CASE i <= k
  <2>a. /\ position(p, i) < position(q, i) /\ \A j \in 1..(i - 1) : position(p, j) = position(q, j)
        /\ position(q, k) < position(r, k) /\ \A j \in 1..(k - 1) : position(q, j) = position(r, j)
    BY <1>1, <1>2, Zenon DEF Earlier
  <2>b. position(p, i) < position(r, i)
    <3>1. position(p, i) \in Nat /\ position(q, i) \in Nat /\ position(r, i) \in Nat
      BY <1>3
    <3>2. CASE i = k
      BY <2>a, <3>1, <3>2
    <3>3. CASE i # k
      <4>1. i \in 1..(k - 1)
        BY <1>4, <3>3
      <4>2. position(q, i) = position(r, i) /\ position(p, i) < position(q, i)
        BY <2>a, <4>1, Zenon
      <4> QED
        BY <3>1, <4>2
    <3> QED
      BY <3>2, <3>3
  <2>c. \A j \in 1..(i - 1) : j \in 1..(i - 1) /\ j \in 1..(k - 1)
    BY <1>4
  <2>1. Earlier(p, r, i)
    BY <2>a, <2>b, <2>c DEF Earlier
  <2> QED
    BY <2>1, BeforeIsEarlier
<1>5. CASE k < i
  <2>a. /\ position(p, i) < position(q, i) /\ \A j \in 1..(i - 1) : position(p, j) = position(q, j)
        /\ position(q, k) < position(r, k) /\ \A j \in 1..(k - 1) : position(q, j) = position(r, j)
    BY <1>1, <1>2, Zenon DEF Earlier
  <2>b. position(p, k) < position(r, k)
    BY <1>3, <1>5, <2>a
  <2>c. \A j \in 1..(k - 1) : j \in 1..(i - 1) /\ j \in 1..(k - 1)
    BY <1>5
  <2>1. Earlier(p, r, k)
    BY <2>a, <2>b, <2>c DEF Earlier
  <2> QED
    BY <2>1, BeforeIsEarlier
<1> QED
  BY <1>4, <1>5

LEMMA BeforeTotal ==
  ASSUME NEW p \in Seq(Nat \ {0}), NEW q \in Seq(Nat \ {0}), p # q
  PROVE  Before(p, q) \/ Before(q, p)
<1> DEFINE T == {i \in Nat : i # 0 /\ position(p, i) # position(q, i)}
<1>1. T \in SUBSET Nat /\ T # {}
  <2>1. Len(p) \in Nat /\ Len(q) \in Nat
    OBVIOUS
  <2>2. CASE Len(p) # Len(q)
    <3> DEFINE i == IF Len(p) < Len(q) THEN Len(q) ELSE Len(p)
    <3>1. i \in Nat /\ i # 0 /\ (i \in 1..Len(p) <=> i \notin 1..Len(q))
      BY <2>1, <2>2
    <3> HIDE DEF i
    <3>2. position(p, i) # position(q, i)
      BY <3>1, PositionType
    <3> QED
      BY <3>1, <3>2
  <2>3. CASE Len(p) = Len(q)
    <3>1. PICK i \in 1..Len(p) : p[i] # q[i]
      BY <2>3, SeqEqual
    <3>2. i \in Nat /\ i # 0 /\ i \in 1..Len(p) /\ i \in 1..Len(q)
      BY <2>1, <2>3
    <3>3. position(p, i) # position(q, i)
      BY <3>1, <3>2 DEF position
    <3> QED
      BY <3>2, <3>3
  <2> QED
    BY <2>2, <2>3
<1>2. PICK m \in T : \A i \in T : m <= i
  <2> HIDE DEF T
  <2> QED
    BY <1>1, LeastNatural
<1>3. m \in Nat \ {0} /\ position(p, m) # position(q, m)
  OBVIOUS
<1>4. ASSUME NEW j \in 1..(m - 1) PROVE position(p, j) = position(q, j)
  <2>1. j \in Nat /\ j # 0 /\ ~(m <= j)
    BY <1>3
  <2>2. j \notin T
    BY <1>2, <2>1
  <2> QED
    BY <2>1, <2>2
<1>5. position(p, m) \in Nat /\ position(q, m) \in Nat
  BY <1>3, PositionType
<1> HIDE DEF T
<1>6. CASE position(p, m) < position(q, m)
  BY <1>3, <1>4, <1>6, BeforeIsEarlier DEF Earlier
<1>7. CASE position(q, m) < position(p, m)
  BY <1>3, <1>4, <1>7, BeforeIsEarlier DEF Earlier
<1> QED
  BY <1>3, <1>5, <1>6, <1>7

-----------------------------------------------------------------------------
(* There are finitely many entries.                                        *)

LEMMA FiniteImage ==
  ASSUME NEW S, NEW f, IsFiniteSet(S)
  PROVE  IsFiniteSet({f[x] : x \in S})
<1> DEFINE T == {f[x] : x \in S}
           g == [x \in S |-> f[x]]
<1>1. g \in Surjection(S, T)
  BY DEF Surjection
<1> HIDE DEF g, T
<1>2. IsFiniteSet(T)
  BY <1>1, FS_Surjection
<1> QED
  BY <1>2 DEF T

LEMMA FiniteFunctions ==
  ASSUME NEW S, NEW T, IsFiniteSet(S), IsFiniteSet(T)
  PROVE  IsFiniteSet([S -> T])
<1> DEFINE U == SUBSET (S \X T)
           g == [f \in [S -> T] |-> {<<x, f[x]>> : x \in S}]
<1>1. IsFiniteSet(U)
  BY FS_Product, FS_SUBSET
<1>2. g \in [[S -> T] -> U]
  OBVIOUS
<1>3. ASSUME NEW e \in [S -> T], NEW f \in [S -> T], g[e] = g[f] PROVE e = f
  <2>1. ASSUME NEW x \in S PROVE e[x] = f[x]
    <3>1. <<x, e[x]>> \in {<<y, f[y]>> : y \in S}
      BY <1>3
    <3>2. PICK y \in S : <<x, e[x]>> = <<y, f[y]>>
      BY <3>1
    <3> QED
      BY <3>2
  <2> QED
    BY <2>1
<1>4. g \in Injection([S -> T], U)
  BY <1>2, <1>3 DEF Injection, IsInjective
<1> HIDE DEF g, U
<1> QED
  BY <1>1, <1>4, FS_Injection

LEMMA FinitePaths ==
  ASSUME NEW w \in Seq(Int)
  PROVE  IsFiniteSet(Paths(w))
<1>1. DOMAIN w = 1..Len(w) /\ Len(w) \in Nat /\ \A i \in 1..Len(w) : w[i] \in Int
  OBVIOUS
<1>2. ASSUME NEW n \in 1..Len(w) PROVE IsFiniteSet(PathsOfDepth(w, n))
  <2> DEFINE f == [i \in 1..n |-> 1..w[i]]
             I == {f[i] : i \in 1..n}
  <2>1. IsFiniteSet(1..n) /\ n \in Nat
    BY <1>1, FS_Interval
  <2>2. \A x \in I : IsFiniteSet(x)
    <3>1. ASSUME NEW i \in 1..n PROVE IsFiniteSet(1..w[i])
      <4>1. w[i] \in Int
        BY <1>1, <2>1
      <4> QED
        BY <4>1, FS_Interval
    <3> QED
      BY <3>1
  <2>3. IsFiniteSet(I)
    <3> HIDE DEF f
    <3> QED
      BY <2>1, FiniteImage
  <2>4. UNION I = UNION {1..w[i] : i \in 1..n}
    OBVIOUS
  <2> HIDE DEF I
  <2>5. IsFiniteSet(UNION I)
    BY <2>2, <2>3, FS_UNION
  <2>6. IsFiniteSet([1..n -> UNION I])
    BY <2>1, <2>5, FiniteFunctions
  <2>7. PathsOfDepth(w, n) \in SUBSET [1..n -> UNION I]
    BY <2>4, Zenon DEF PathsOfDepth
  <2> QED
    BY <2>6, <2>7, FS_Subset
<1> DEFINE g == [n \in 1..Len(w) |-> PathsOfDepth(w, n)]
           P == {g[n] : n \in 1..Len(w)}
<1>3. IsFiniteSet(P)
  <2>1. IsFiniteSet(1..Len(w))
    BY <1>1, FS_Interval
  <2> HIDE DEF g
  <2> QED
    BY <2>1, FiniteImage
<1>4. \A x \in P : IsFiniteSet(x)
  BY <1>2
<1>5. UNION P = Paths(w)
  <2>1. UNION P = UNION {PathsOfDepth(w, n) : n \in 1..Len(w)}
    BY Zenon
  <2> QED
    BY <1>1, <2>1, PathsByDepth, Zenon
<1> HIDE DEF P
<1> QED
  BY <1>3, <1>4, <1>5, FS_UNION

-----------------------------------------------------------------------------
(* Preorder counts them all, a parent before its children.                 *)

Earliers(w, p) == {q \in Paths(w) : Before(q, p)}
rank(w, p) == Cardinality(Earliers(w, p))

LEMMA RankGrows ==
  ASSUME NEW w \in Seq(Int), NEW p \in Paths(w), NEW q \in Paths(w), Before(p, q)
  PROVE  rank(w, p) < rank(w, q)
<1>1. \A r \in Paths(w) : r \in Seq(Nat \ {0})
  BY PathType
<1>2. Earliers(w, p) \subseteq Earliers(w, q)
  BY <1>1, BeforeTransitive DEF Earliers
<1>3. p \in Earliers(w, q) /\ p \notin Earliers(w, p)
  BY <1>1, BeforeIrreflexive DEF Earliers
<1>4. IsFiniteSet(Earliers(w, q))
  BY FinitePaths, FS_Subset DEF Earliers
<1>5. /\ rank(w, p) <= rank(w, q)
      /\ rank(w, p) = rank(w, q) => Earliers(w, q) = Earliers(w, p)
      /\ IsFiniteSet(Earliers(w, p))
  BY <1>2, <1>4, FS_Subset DEF rank
<1>6. rank(w, p) \in Nat /\ rank(w, q) \in Nat
  BY <1>4, <1>5, FS_CardinalityType DEF rank
<1> QED
  BY <1>3, <1>5, <1>6

LEMMA RankType ==
  ASSUME NEW w \in Seq(Int), NEW p \in Paths(w)
  PROVE  rank(w, p) \in 0..(Cardinality(Paths(w)) - 1)
<1>1. IsFiniteSet(Paths(w)) /\ Cardinality(Paths(w)) \in Nat
  BY FinitePaths, FS_CardinalityType
<1>2. p \notin Earliers(w, p) /\ Earliers(w, p) \subseteq Paths(w)
  BY PathType, BeforeIrreflexive DEF Earliers
<1>3. /\ IsFiniteSet(Earliers(w, p)) /\ rank(w, p) <= Cardinality(Paths(w))
      /\ rank(w, p) # Cardinality(Paths(w))
  BY <1>1, <1>2, FS_Subset DEF rank
<1>4. rank(w, p) \in Nat
  BY <1>3, FS_CardinalityType DEF rank
<1> QED
  BY <1>1, <1>3, <1>4

LEMMA RankTells ==
  ASSUME NEW w \in Seq(Int), NEW p \in Paths(w), NEW q \in Paths(w), rank(w, p) = rank(w, q)
  PROVE  p = q
<1>1. p \in Seq(Nat \ {0}) /\ q \in Seq(Nat \ {0}) /\ rank(w, p) \in Int /\ rank(w, q) \in Int
  BY PathType, RankType
<1>2. ~Before(p, q) /\ ~Before(q, p)
  BY <1>1, RankGrows
<1> QED
  BY <1>1, <1>2, BeforeTotal

LEMMA PreorderRanks ==
  ASSUME NEW w \in Seq(Int), NEW i \in 1..Cardinality(Paths(w))
  PROVE  Preorder(Paths(w))[i] \in Paths(w) /\ rank(w, Preorder(Paths(w))[i]) = i - 1
<1> DEFINE n == Cardinality(Paths(w))
           f == [p \in Paths(w) |-> rank(w, p)]
<1>1. IsFiniteSet(Paths(w)) /\ n \in Nat
  BY FinitePaths, FS_CardinalityType
<1>2. IsFiniteSet(0..(n - 1)) /\ Cardinality(0..(n - 1)) = n
  <2> HIDE DEF n
  <2>1. IsFiniteSet(0..(n - 1)) /\ Cardinality(0..(n - 1)) = IF 0 > n - 1 THEN 0 ELSE (n - 1) - 0 + 1
    BY <1>1, FS_Interval
  <2> QED
    BY <1>1, <2>1
<1>3. f \in Injection(Paths(w), 0..(n - 1))
  <2>1. f \in [Paths(w) -> 0..(n - 1)]
    BY RankType
  <2>2. \A p, q \in Paths(w) : f[p] = f[q] => p = q
    BY RankTells
  <2> HIDE DEF n, f
  <2> QED
    BY <2>1, <2>2 DEF Injection, IsInjective
<1>4. f \in Surjection(Paths(w), 0..(n - 1))
  <2> HIDE DEF f
  <2>1. Cardinality(Paths(w)) = Cardinality(0..(n - 1))
    BY <1>2
  <2> HIDE DEF n
  <2> QED
    BY <1>2, <1>3, <2>1, FS_Injection
<1>5. i - 1 \in 0..(n - 1)
  BY <1>1
<1>6. \E p \in Paths(w) : rank(w, p) = i - 1
  <2>1. \A t \in 0..(n - 1) : \E p \in Paths(w) : f[p] = t
    BY <1>4, Zenon DEF Surjection
  <2>2. PICK p \in Paths(w) : f[p] = i - 1
    BY <1>5, <2>1, Zenon
  <2> QED
    BY <2>2
<1>7. Preorder(Paths(w))[i] = CHOOSE p \in Paths(w) : rank(w, p) = i - 1
  BY Zenon DEF Preorder, rank, Earliers
<1> QED
  BY <1>6, <1>7, Zenon

LEMMA PreorderAll ==
  ASSUME NEW w \in Seq(Int), NEW p \in Paths(w)
  PROVE  /\ rank(w, p) + 1 \in 1..Cardinality(Paths(w))
         /\ Preorder(Paths(w))[rank(w, p) + 1] = p
<1>1. Cardinality(Paths(w)) \in Nat
  BY FinitePaths, FS_CardinalityType
<1> DEFINE i == rank(w, p) + 1
<1>2. rank(w, p) \in Nat /\ i \in 1..Cardinality(Paths(w)) /\ i - 1 = rank(w, p)
  BY <1>1, RankType
<1> HIDE DEF i
<1>3. Preorder(Paths(w))[i] \in Paths(w) /\ rank(w, Preorder(Paths(w))[i]) = rank(w, p)
  BY <1>2, PreorderRanks
<1>4. Preorder(Paths(w))[i] = p
  BY <1>3, RankTells
<1> QED
  BY <1>2, <1>4 DEF i

LEMMA PreorderType ==
  ASSUME NEW w \in Seq(Int)
  PROVE  /\ Preorder(Paths(w)) \in Seq(Paths(w))
         /\ Len(Preorder(Paths(w))) = Cardinality(Paths(w)) /\ Cardinality(Paths(w)) \in Nat
<1> DEFINE n == Cardinality(Paths(w))
           o == Preorder(Paths(w))
<1>1. n \in Nat
  BY FinitePaths, FS_CardinalityType
<1>2. \A i \in 1..n : o[i] \in Paths(w)
  BY PreorderRanks
<1>3. o = [i \in 1..n |-> o[i]]
  <2> DEFINE e(i) == CHOOSE p \in Paths(w) : Cardinality({q \in Paths(w) : Before(q, p)}) = i - 1
  <2>1. o = [i \in 1..n |-> e(i)]
    BY Zenon DEF Preorder
  <2> HIDE DEF e, o, n
  <2> QED
    BY <2>1
<1> HIDE DEF n, o
<1>4. o \in Seq(Paths(w)) /\ Len(o) = n
  <2>1. o \in [1..n -> Paths(w)]
    BY <1>2, <1>3
  <2> QED
    BY <1>1, <2>1
<1> QED
  BY <1>1, <1>4 DEF n, o

-----------------------------------------------------------------------------
(* Above and below an entry.                                               *)

LEMMA FrontOf ==
  ASSUME NEW w \in Seq(Int), NEW q \in Paths(w)
  PROVE  /\ Len(q) = 1 => Front(q) = <<>>
         /\ Len(q) # 1 => /\ Front(q) \in Paths(w) /\ Len(Front(q)) = Len(q) - 1
                          /\ \A i \in 1..(Len(q) - 1) : Front(q)[i] = q[i]
                          /\ Before(Front(q), q)
<1>1. Len(q) \in Nat /\ Len(q) # 0 /\ q \in Seq(Nat \ {0}) /\ \A r \in Paths(w) : r \in Seq(Nat \ {0})
  BY PathType
<1>2. CASE Len(q) = 1
  <2>1. SubSeq(q, 1, 0) = <<>>
    BY SubSeqEmpty
  <2>2. Front(q) = SubSeq(q, 1, 0)
    BY <1>2 DEF Front
  <2> QED
    BY <1>2, <2>1, <2>2, Zenon
<1>3. CASE Len(q) # 1
  <2> DEFINE n == Len(q) - 1
  <2>1. n \in 1..Len(q)
    <3> DEFINE l == Len(q)
    <3>1. l \in Nat /\ l # 0 /\ l # 1
      BY <1>1, <1>3
    <3> HIDE DEF l
    <3>2. l - 1 \in 1..l
      BY <3>1
    <3> QED
      BY <3>2 DEF l
  <2>2. Front(q) = SubSeq(q, 1, n)
    BY Zenon DEF Front
  <2>3. n < Len(q) /\ n \in Nat
    BY <1>1, <1>3
  <2> HIDE DEF n
  <2>4. Front(q) \in Paths(w) /\ Len(Front(q)) = n /\ \A i \in 1..n : Front(q)[i] = q[i]
    BY <2>1, <2>2, PathAbove
  <2>5. Front(q) \in Seq(Nat \ {0})
    BY <1>1, <2>4
  <2>6. IsPrefix(Front(q), q) /\ Front(q) # q
    <3>1. Len(Front(q)) <= Len(q) /\ Front(q) # q
      BY <1>1, <2>3, <2>4
    <3> QED
      BY <1>1, <2>4, <2>5, <3>1, Prefixed
  <2>7. Before(Front(q), q)
    BY <2>6, Zenon DEF Before, IsStrictPrefix
  <2> QED
    BY <1>3, <2>4, <2>7 DEF n
<1> QED
  BY <1>2, <1>3

LEMMA BelowEntry ==
  ASSUME NEW w \in Seq(Int), NEW p \in Paths(w), Len(p) # Len(w), NEW k \in 1..w[Len(p) + 1]
  PROVE  /\ Append(p, k) \in Paths(w) /\ Front(Append(p, k)) = p
         /\ Len(Append(p, k)) = Len(p) + 1 /\ Append(p, k)[Len(p) + 1] = k
<1> DEFINE m == Len(p)
           q == Append(p, k)
<1>1. /\ m \in 1..Len(w) /\ p \in [1..m -> Nat \ {0}] /\ p \in Seq(Nat \ {0})
      /\ \A i \in 1..m : p[i] \in 1..w[i]
  BY PathType
<1>2. m \in Nat /\ m + 1 \in 1..Len(w) /\ w[m + 1] \in Int
  <2>1. Len(w) \in Nat
    OBVIOUS
  <2>2. m + 1 \in 1..Len(w)
    BY <1>1, <2>1
  <2> QED
    BY <1>1, <2>2
<1>3. k \in Nat \ {0}
  BY <1>2
<1>4. /\ q \in Seq(Nat \ {0}) /\ Len(q) = m + 1 /\ q[m + 1] = k
      /\ \A i \in 1..m : q[i] = p[i]
  BY <1>1, <1>3
<1> HIDE DEF q
<1>5. q \in [1..(m + 1) -> Int]
  <2>1. q \in [1..Len(q) -> Nat \ {0}]
    BY <1>4, LenProperties
  <2> QED
    BY <1>4, <2>1
<1>6. ASSUME NEW i \in 1..(m + 1) PROVE q[i] \in 1..w[i]
  <2>1. CASE i = m + 1
    BY <1>4, <2>1
  <2>2. CASE i # m + 1
    <3>1. i \in 1..m
      BY <1>2, <2>2
    <3> QED
      BY <1>1, <1>4, <3>1
  <2> QED
    BY <2>1, <2>2
<1>7. q \in Paths(w)
  BY <1>2, <1>5, <1>6, PathOf
<1>8. Front(q) = p
  <2>1. Len(q) # 1
    BY <1>1, <1>2, <1>4
  <2>2. Front(q) \in Paths(w) /\ Len(Front(q)) = Len(q) - 1 /\ \A i \in 1..(Len(q) - 1) : Front(q)[i] = q[i]
    BY <1>7, <2>1, FrontOf
  <2>3. Len(q) - 1 = m
    BY <1>2, <1>4
  <2>4. \A i \in 1..m : Front(q)[i] = p[i]
    BY <1>4, <2>2, <2>3
  <2>5. Front(q) \in Seq(Nat \ {0})
    BY <2>2, PathType
  <2> QED
    BY <1>1, <2>2, <2>3, <2>4, <2>5, SeqEqual
<1> QED
  BY <1>4, <1>7, <1>8 DEF q, m

LEMMA BelowOnly ==
  ASSUME NEW w \in Seq(Int), NEW p \in Paths(w), NEW q \in Paths(w), Front(q) = p
  PROVE  /\ Len(p) # Len(w) /\ Len(q) = Len(p) + 1
         /\ q[Len(p) + 1] \in 1..w[Len(p) + 1] /\ q = Append(p, q[Len(p) + 1])
<1>1. /\ Len(p) \in 1..Len(w) /\ p \in Seq(Nat \ {0}) /\ Len(q) \in 1..Len(w) /\ q \in Seq(Nat \ {0})
      /\ \A i \in 1..Len(q) : q[i] \in 1..w[i]
  BY PathType
<1>2. p # <<>> /\ Len(w) \in Nat /\ Len(p) \in Nat /\ Len(q) \in Nat
  BY <1>1
<1>3. Len(q) # 1 /\ Len(p) = Len(q) - 1 /\ \A i \in 1..(Len(q) - 1) : p[i] = q[i]
  BY <1>2, FrontOf
<1> DEFINE m == Len(p)
           k == q[m + 1]
<1>4. m # Len(w) /\ Len(q) = m + 1 /\ m + 1 \in 1..Len(q) /\ Len(q) - 1 = m
  BY <1>1, <1>2, <1>3
<1>5. k \in 1..w[m + 1] /\ k \in Nat \ {0}
  BY <1>1, <1>4
<1>6. q = Append(p, k)
  <2> HIDE DEF k
  <2>1. Append(p, k) \in Seq(Nat \ {0}) /\ Len(Append(p, k)) = m + 1
    BY <1>1, <1>5
  <2>2. ASSUME NEW i \in 1..(m + 1) PROVE q[i] = Append(p, k)[i]
    <3>1. CASE i = m + 1
      <4>1. Append(p, k)[m + 1] = k
        BY <1>1
      <4> QED
        BY <3>1, <4>1 DEF k
    <3>2. CASE i # m + 1
      <4>1. i \in 1..m
        BY <1>2, <3>2
      <4>2. Append(p, k)[i] = p[i]
        BY <1>1, <4>1
      <4>3. p[i] = q[i]
        BY <1>3, <1>4, <4>1
      <4> QED
        BY <4>2, <4>3
    <3> QED
      BY <3>1, <3>2
  <2> QED
    BY <1>1, <1>4, <2>1, <2>2, SeqEqual
<1> QED
  BY <1>4, <1>5, <1>6

Below(w, p) == {q \in Paths(w) : q # <<>> /\ Front(q) = p}

LEMMA BelowCA ==
  ASSUME NEW w \in Seq(Int), NEW p \in Paths(w), Len(p) # Len(w), w[Len(p) + 1] \in Nat
  PROVE  Cardinality(Below(w, p)) = w[Len(p) + 1]
<1> DEFINE m == w[Len(p) + 1]
           S == Below(w, p)
           f == [k \in 1..m |-> Append(p, k)]
<1>1. \A k \in 1..m : Append(p, k) \in S
  <2>1. ASSUME NEW k \in 1..m PROVE Append(p, k) \in S
    <3>1. Append(p, k) \in Paths(w) /\ Front(Append(p, k)) = p
      BY BelowEntry
    <3>2. Append(p, k) # <<>>
      <4>1. \A q \in Paths(w) : Len(q) \in 1..Len(w)
        BY PathType
      <4> DEFINE q == Append(p, k)
      <4>2. q \in Paths(w)
        BY <3>1
      <4> HIDE DEF q
      <4>3. q # <<>>
        BY <4>1, <4>2
      <4> QED
        BY <4>3 DEF q
    <3> QED
      BY <3>1, <3>2 DEF Below
  <2> QED
    BY <2>1
<1>2. ASSUME NEW k \in 1..m, NEW l \in 1..m, f[k] = f[l] PROVE k = l
  <2>1. Append(p, k) = Append(p, l)
    BY <1>2
  <2>2. Append(p, k)[Len(p) + 1] = k /\ Append(p, l)[Len(p) + 1] = l
    BY BelowEntry
  <2> QED
    BY <2>1, <2>2, Zenon
<1>3. ASSUME NEW q \in S PROVE \E k \in 1..m : f[k] = q
  <2>1. q \in Paths(w) /\ Front(q) = p
    BY DEF Below
  <2>2. q[Len(p) + 1] \in 1..m /\ q = Append(p, q[Len(p) + 1])
    BY <2>1, BelowOnly
  <2> QED
    BY <2>2
<1>4. f \in Bijection(1..m, S)
  <2>1. f \in [1..m -> S]
    BY <1>1
  <2> HIDE DEF f, m, S
  <2> QED
    BY <1>2, <1>3, <2>1 DEF Bijection, Injection, Surjection, IsInjective
<1>5. ExistsBijection(1..m, S)
  <2> HIDE DEF f, m, S
  <2> QED
    BY <1>4 DEF ExistsBijection
<1> HIDE DEF f, S
<1> QED
  BY <1>5, FS_CountingElements DEF S

LEMMA BelowLeaf ==
  ASSUME NEW w \in Seq(Int), NEW p \in Paths(w), Len(p) = Len(w)
  PROVE  Cardinality(Below(w, p)) = 0
<1>1. Below(w, p) = {}
  BY BelowOnly DEF Below
<1> QED
  BY <1>1, FS_EmptySet

-----------------------------------------------------------------------------
(* The path lengths.                                                       *)

highest(below) == CHOOSE d \in below \cup {0} : \A e \in below : e <= d
CAsBelow(w, n) == {q \in Paths(w) : Front(q) = n /\ Len(q) # Len(w)}
levelsOver(f, below) == {1 + f[q] : q \in below}

\* A CA counts one level more than the CAs below it, and the lowest none.
LEMMA LevelsOfCA ==
  ASSUME NEW w \in Seq(Int), validWidths(w), NEW p \in Paths(w), Len(p) # Len(w), NEW f,
         \A q \in CAsBelow(w, p) : f[q] = Len(w) - Len(q) - 1
  PROVE  highest(levelsOver(f, CAsBelow(w, p))) = Len(w) - Len(p) - 1
<1> DEFINE x == Len(w) - Len(p) - 1
<1>1. Len(p) \in 1..Len(w) /\ Len(w) \in Nat
  BY PathType
<1>2. x \in Nat
  BY <1>1
<1>3. ASSUME NEW q \in CAsBelow(w, p) PROVE 1 + f[q] = x /\ x # 0
  <2>1. q \in Paths(w) /\ Front(q) = p /\ Len(q) # Len(w)
    BY DEF CAsBelow
  <2>2. Len(q) = Len(p) + 1 /\ Len(q) \in 1..Len(w)
    BY <2>1, BelowOnly, PathType
  <2>3. f[q] = Len(w) - Len(q) - 1
    OBVIOUS
  <2> DEFINE a == Len(w)
             b == Len(p)
             d == Len(q)
  <2>4. a \in Nat /\ b \in Nat /\ d = b + 1 /\ d # a /\ d \in 1..a /\ f[q] = a - d - 1
    BY <1>1, <2>1, <2>2, <2>3
  <2>5. 1 + f[q] = a - b - 1 /\ a - b - 1 # 0
    <3> HIDE DEF a, b, d
    <3> QED
      BY <2>4
  <2> QED
    BY <2>5
<1>4. CASE x = 0
  <2>1. levelsOver(f, CAsBelow(w, p)) = {}
    BY <1>3, <1>4 DEF levelsOver
  <2> HIDE DEF x
  <2> QED
    BY <1>4, <2>1 DEF highest, x
<1>5. CASE x # 0
  <2>1. \E q \in Paths(w) : Front(q) = p /\ Len(q) = Len(p) + 1
    <3>1. w[Len(p) + 1] \in Int /\ w[Len(p) + 1] >= 1
      <4>1. Len(p) + 1 \in 1..Len(w) /\ DOMAIN w = 1..Len(w)
        BY <1>1
      <4> QED
        BY <4>1 DEF validWidths
    <3>2. 1 \in 1..w[Len(p) + 1]
      BY <3>1
    <3> QED
      BY <3>2, BelowEntry
  <2>2. PICK q \in CAsBelow(w, p) : TRUE
    <3>1. Len(p) + 1 # Len(w)
      BY <1>1, <1>5
    <3> QED
      BY <2>1, <3>1 DEF CAsBelow
  <2> HIDE DEF x
  <2>3. levelsOver(f, CAsBelow(w, p)) = {x}
    <3>1. \A r \in CAsBelow(w, p) : 1 + f[r] = x
      BY <1>3
    <3> QED
      BY <2>2, <3>1 DEF levelsOver
  <2>4. \A d \in {x} \cup {0} : (\A e \in {x} : e <= d) <=> d = x
    BY <1>2, <1>5
  <2>5. highest({x}) = x
    BY <2>4 DEF highest
  <2> QED
    BY <2>3, <2>5 DEF x
<1> QED
  BY <1>4, <1>5

LEMMA NoLevels ==
  ASSUME NEW f
  PROVE  highest(levelsOver(f, {})) = 0
BY DEF highest, levelsOver

-----------------------------------------------------------------------------
(* The hierarchy as a certificate spec.                                    *)

LEMMA TreeParts ==
  ASSUME NEW w \in Seq(Int), NEW names, DOMAIN names = Paths(w)
  PROVE  LET tree == ChainTree(w, names) IN
         /\ tree.order = Preorder(Paths(w))
         /\ tree.parent = [p \in Paths(w) |-> Front(p)]
         /\ tree.certificateAuthority = {p \in Paths(w) : Len(p) # Len(w)}
         /\ tree.maxPathLen = [p \in Paths(w) |-> Tree!countBelow]
         /\ tree.permitted = [p \in Paths(w) |-> {}]
         /\ tree.sshPublicKey = {} /\ tree.emailAddresses = {}
<1> DEFINE tree == ChainTree(w, names)
<1>1. /\ tree.order = Preorder(DOMAIN names)
      /\ tree.parent = [p \in DOMAIN names |-> Front(p)]
      /\ tree.certificateAuthority = {p \in DOMAIN names : ~isLeaf(w, p)}
      /\ tree.maxPathLen = [p \in DOMAIN names |-> Tree!countBelow]
      /\ tree.permitted = [p \in DOMAIN names |-> {}]
      /\ tree.sshPublicKey = {} /\ tree.emailAddresses = {}
  BY DEF ChainTree
<1>2. {p \in DOMAIN names : ~isLeaf(w, p)} = {p \in Paths(w) : Len(p) # Len(w)}
  BY DEF isLeaf
<1> HIDE DEF tree
<1> QED
  BY <1>1, <1>2, Zenon DEF tree

LEMMA TreeEntries ==
  ASSUME NEW w \in Seq(Int), NEW names, DOMAIN names = Paths(w)
  PROVE  Tree!Entries(ChainTree(w, names)) = Paths(w)
<1> DEFINE o == Preorder(Paths(w))
<1>1. Len(o) = Cardinality(Paths(w)) /\ \A i \in 1..Len(o) : o[i] \in Paths(w)
  BY PreorderType, PreorderRanks
<1>2. \A p \in Paths(w) : \E i \in 1..Len(o) : o[i] = p
  BY <1>1, PreorderAll
<1>3. ChainTree(w, names).order = o
  BY TreeParts
<1> HIDE DEF o
<1>4. Tree!Entries(ChainTree(w, names)) = {o[i] : i \in 1..Len(o)}
  BY <1>3, Zenon DEF Tree!Entries
<1> QED
  BY <1>1, <1>2, <1>4

LEMMA TreeValid ==
  ASSUME NEW w \in Seq(Int), validWidths(w), NEW names, DOMAIN names = Paths(w)
  PROVE  Tree!validateSpec(ChainTree(w, names))
<1> DEFINE tree == ChainTree(w, names)
           o == Preorder(Paths(w))
           n == Cardinality(Paths(w))
<1>1. /\ tree.order = o
      /\ tree.parent = [p \in Paths(w) |-> Front(p)]
      /\ tree.certificateAuthority = {p \in Paths(w) : Len(p) # Len(w)}
      /\ tree.maxPathLen = [p \in Paths(w) |-> Tree!countBelow]
      /\ tree.permitted = [p \in Paths(w) |-> {}]
      /\ tree.sshPublicKey = {} /\ tree.emailAddresses = {}
  BY TreeParts
<1>2. o \in Seq(Paths(w)) /\ Len(o) = n /\ n \in Nat
  BY PreorderType
<1>3. \A i \in 1..n : o[i] \in Paths(w) /\ rank(w, o[i]) = i - 1
  BY PreorderRanks
<1>4. \A p \in Paths(w) : rank(w, p) + 1 \in 1..n /\ o[rank(w, p) + 1] = p /\ rank(w, p) \in 0..(n - 1)
  BY PreorderAll, RankType
<1>5. \E p : p \in Paths(w)
  <2>1. 1 \in 1..Len(w) /\ w[1] \in Int /\ w[1] >= 1
    <3>1. w # <<>> /\ DOMAIN w = 1..Len(w) /\ Len(w) \in Nat /\ \A i \in DOMAIN w : w[i] >= 1
      BY DEF validWidths
    <3>2. 1 \in 1..Len(w)
      BY <3>1
    <3> QED
      BY <3>1, <3>2
  <2> DEFINE p == [i \in 1..1 |-> 1]
  <2>2. p \in [1..1 -> Int] /\ \A i \in 1..1 : p[i] \in 1..w[i]
    BY <2>1
  <2> HIDE DEF p
  <2>3. p \in Paths(w)
    BY <2>1, <2>2, PathOf
  <2> QED
    BY <2>3
<1> HIDE DEF tree, o, n
<1>6. o # <<>>
  <2>1. PICK p \in Paths(w) : TRUE
    BY <1>5
  <2>2. n # 0
    BY <1>2, <1>4, <2>1
  <2> QED
    BY <1>2, <2>2
<1>7. \A i, j \in 1..Len(o) : o[i] = o[j] => i = j
  <2> SUFFICES ASSUME NEW i \in 1..Len(o), NEW j \in 1..Len(o), o[i] = o[j] PROVE i = j
    OBVIOUS
  <2>1. i \in 1..n /\ j \in 1..n /\ i - 1 = j - 1
    BY <1>2, <1>3
  <2> QED
    BY <1>2, <2>1
<1>8. ASSUME NEW i \in 1..Len(o)
      PROVE  /\ tree.parent[o[i]] # <<>> =>
                  /\ tree.parent[o[i]] \in tree.certificateAuthority
                  /\ \E j \in 1..(i - 1) : o[j] = tree.parent[o[i]]
             /\ o[i] \in tree.certificateAuthority => o[i] \notin tree.sshPublicKey \cup tree.emailAddresses
             /\ o[i] \notin tree.certificateAuthority =>
                  tree.maxPathLen[o[i]] = Tree!countBelow /\ tree.permitted[o[i]] = {}
             /\ tree.maxPathLen[o[i]] >= Tree!countBelow
  <2> DEFINE q == o[i]
             p == Front(q)
  <2>1. q \in Paths(w) /\ rank(w, q) = i - 1 /\ i \in Nat
    BY <1>2, <1>3
  <2>2. tree.parent[q] = p /\ tree.maxPathLen[q] = Tree!countBelow /\ tree.permitted[q] = {}
    BY <1>1, <2>1
  <2>3. ASSUME p # <<>>
        PROVE  p \in tree.certificateAuthority /\ \E j \in 1..(i - 1) : o[j] = p
    <3>1. p \in Paths(w) /\ Before(p, q)
      BY <2>1, <2>3, FrontOf
    <3>2. Len(p) # Len(w)
      BY <2>1, <3>1, BelowOnly
    <3> HIDE DEF p, q
    <3>3. rank(w, p) < i - 1 /\ rank(w, p) \in Nat
      BY <1>4, <2>1, <3>1, RankGrows
    <3>4. rank(w, p) + 1 \in 1..(i - 1) /\ o[rank(w, p) + 1] = p
      BY <1>4, <2>1, <3>1, <3>3
    <3>5. p \in tree.certificateAuthority
      BY <1>1, <3>1, <3>2
    <3> QED
      BY <3>4, <3>5
  <2>4. Tree!countBelow \in Int
    BY DEF Tree!countBelow
  <2>5. tree.sshPublicKey \cup tree.emailAddresses = {}
    BY <1>1
  <2> HIDE DEF p, q
  <2>6. Tree!countBelow >= Tree!countBelow
    BY <2>4
  <2>7. /\ tree.parent[q] # <<>> =>
             /\ tree.parent[q] \in tree.certificateAuthority
             /\ \E j \in 1..(i - 1) : o[j] = tree.parent[q]
        /\ q \in tree.certificateAuthority => q \notin tree.sshPublicKey \cup tree.emailAddresses
        /\ q \notin tree.certificateAuthority =>
             tree.maxPathLen[q] = Tree!countBelow /\ tree.permitted[q] = {}
        /\ tree.maxPathLen[q] >= Tree!countBelow
    BY <2>2, <2>3, <2>5, <2>6
  <2> QED
    BY <2>7, Zenon DEF q
<1> QED
  BY <1>1, <1>6, <1>7, <1>8, Zenon DEF Tree!validateSpec, tree

LEMMA TreeDepths ==
  ASSUME NEW w \in WidthLists, validWidths(w), NEW names, DOMAIN names = Paths(w),
         NEW p \in Paths(w), Len(p) # Len(w)
  PROVE  Tree!pathLen(ChainTree(w, names), p) = Len(w) - Len(p) - 1
<1> DEFINE tree == ChainTree(w, names)
           CAs == tree.certificateAuthority
           Nodes == UNION {Paths(v) : v \in {u \in WidthLists : validWidths(u)}}
           count(f) == [n \in Nodes |-> highest({1 + f[q] : q \in Tree!Children(tree, n) \cap CAs})]
           levels == CHOOSE f : f = count(f)
           depths == [n \in Nodes |-> IF n \in Paths(w) /\ Len(n) # Len(w) THEN Len(w) - Len(n) - 1 ELSE 0]
<1>1. w \in Seq(Int) /\ Len(w) \in Nat
  BY ChainAssumption
<1>2. Paths(w) \subseteq Nodes
  OBVIOUS
<1>3. \A n \in Nodes : n # <<>>
  <2> SUFFICES ASSUME NEW v \in WidthLists, NEW n \in Paths(v) PROVE n # <<>>
    OBVIOUS
  <2>1. v \in Seq(Int)
    BY ChainAssumption
  <2>2. Len(n) \in 1..Len(v)
    BY <2>1, PathType
  <2> QED
    BY <2>2
<1>4. \A n : Tree!Children(tree, n) \cap CAs = CAsBelow(w, n)
  <2>1. /\ tree.parent = [q \in Paths(w) |-> Front(q)]
        /\ CAs = {q \in Paths(w) : Len(q) # Len(w)}
    BY <1>1, TreeParts
  <2>2. Tree!Entries(tree) = Paths(w)
    BY <1>1, TreeEntries
  <2> HIDE DEF tree, CAs
  <2>3. \A n : Tree!Children(tree, n) = {q \in Paths(w) : tree.parent[q] = n}
    BY <2>2, Zenon DEF Tree!Children
  <2>4. ASSUME NEW n PROVE Tree!Children(tree, n) \cap CAs = CAsBelow(w, n)
    <3>1. Tree!Children(tree, n) = {q \in Paths(w) : Front(q) = n}
      <4>1. \A q \in Paths(w) : tree.parent[q] = Front(q)
        BY <2>1
      <4> QED
        BY <2>3, <4>1
    <3>2. \A q : q \in CAs <=> q \in Paths(w) /\ Len(q) # Len(w)
      BY <2>1
    <3> QED
      BY <3>1, <3>2 DEF CAsBelow
  <2> QED
    BY <2>4
<1>5. \A f : count(f) = [n \in Nodes |-> highest(levelsOver(f, CAsBelow(w, n)))]
  <2> SUFFICES ASSUME NEW f PROVE count(f) = [n \in Nodes |-> highest(levelsOver(f, CAsBelow(w, n)))]
    OBVIOUS
  <2> HIDE DEF tree, CAs, Nodes
  <2>1. \A n : {1 + f[q] : q \in Tree!Children(tree, n) \cap CAs} = levelsOver(f, CAsBelow(w, n))
    BY <1>4, Zenon DEF levelsOver
  <2> QED
    BY <2>1
<1>6. Tree!caDepth(tree) = levels
  <2> HIDE DEF tree
  <2> QED
    BY Zenon DEF Tree!caDepth, highest
<1>7. ASSUME NEW n \in Nodes, n \notin Paths(w) \/ Len(n) = Len(w) PROVE CAsBelow(w, n) = {}
  <2> SUFFICES ASSUME NEW q \in Paths(w), Front(q) = n PROVE FALSE
    BY DEF CAsBelow
  <2>1. n # <<>>
    BY <1>3
  <2>2. n \in Paths(w)
    BY <1>1, <2>1, FrontOf
  <2>3. Len(n) # Len(w)
    BY <1>1, <2>2, BelowOnly
  <2> QED
    BY <1>7, <2>2, <2>3
<1> HIDE DEF tree, CAs, Nodes
<1>8. depths = count(depths)
  <2>1. ASSUME NEW n \in Nodes PROVE depths[n] = highest(levelsOver(depths, CAsBelow(w, n)))
    <3>1. CASE n \in Paths(w) /\ Len(n) # Len(w)
      <4>1. \A q \in CAsBelow(w, n) : depths[q] = Len(w) - Len(q) - 1
        BY <1>2 DEF CAsBelow
      <4>2. depths[n] = Len(w) - Len(n) - 1
        BY <3>1
      <4> HIDE DEF depths
      <4> QED
        BY <1>1, <3>1, <4>1, <4>2, LevelsOfCA
    <3>2. CASE ~(n \in Paths(w) /\ Len(n) # Len(w))
      <4>1. depths[n] = 0
        BY <3>2
      <4>2. CAsBelow(w, n) = {}
        BY <1>7, <3>2
      <4> HIDE DEF depths
      <4> QED
        BY <4>1, <4>2, NoLevels
    <3> QED
      BY <3>1, <3>2
  <2>2. count(depths) = [n \in Nodes |-> highest(levelsOver(depths, CAsBelow(w, n)))]
    BY <1>5
  <2>3. depths = [n \in Nodes |-> depths[n]]
    OBVIOUS
  <2> HIDE DEF depths, count
  <2> QED
    BY <2>1, <2>2, <2>3
<1>9. levels = count(levels)
  <2> HIDE DEF depths, count
  <2> QED
    BY <1>8
<1>10. \A n \in Nodes : levels[n] = highest(levelsOver(levels, CAsBelow(w, n)))
  <2> HIDE DEF levels
  <2>1. levels = [n \in Nodes |-> highest(levelsOver(levels, CAsBelow(w, n)))]
    BY <1>5, <1>9
  <2> HIDE DEF count
  <2> QED
    BY <2>1
<1> HIDE DEF levels
<1> DEFINE m == Len(w)
           T == {j \in 0..m : \A n \in Paths(w) : Len(n) = m - j /\ j # 0 => levels[n] = j - 1}
<1>11. 0 \in T
  BY <1>1
<1>12. ASSUME NEW j \in 1..m, j - 1 \in T PROVE j \in T
  <2> SUFFICES ASSUME NEW n \in Paths(w), Len(n) = m - j PROVE levels[n] = j - 1
    BY <1>1
  <2>0. j \in Nat /\ m \in Nat /\ Len(n) # m /\ Len(w) - Len(n) - 1 = j - 1
    BY <1>1
  <2>1. ASSUME NEW q \in CAsBelow(w, n) PROVE levels[q] = Len(w) - Len(q) - 1
    <3>1. q \in Paths(w) /\ Front(q) = n /\ Len(q) # m
      BY DEF CAsBelow
    <3>2. Len(q) = Len(n) + 1
      BY <1>1, <3>1, BelowOnly
    <3>3. Len(q) = m - (j - 1) /\ j - 1 # 0 /\ (j - 1) - 1 = m - Len(q) - 1
      BY <2>0, <3>1, <3>2
    <3> QED
      BY <1>12, <3>1, <3>3
  <2> HIDE DEF T, m
  <2>2. highest(levelsOver(levels, CAsBelow(w, n))) = Len(w) - Len(n) - 1
    BY <1>1, <2>0, <2>1, LevelsOfCA DEF m
  <2> QED
    BY <1>2, <1>10, <2>0, <2>2
<1>13. \A j \in 0..m : j \in T
  <2> HIDE DEF T
  <2> QED
    BY <1>1, <1>11, <1>12, UpTo
<1>14. levels[p] = Len(w) - Len(p) - 1
  <2>1. Len(p) \in 1..m /\ Len(p) # m /\ m \in Nat
    BY <1>1, PathType
  <2> DEFINE j == m - Len(p)
  <2>2. j \in 0..m /\ j # 0 /\ Len(p) = m - j /\ j - 1 = Len(w) - Len(p) - 1
    BY <2>1
  <2> HIDE DEF j, T
  <2>3. j \in T
    BY <1>13, <2>2
  <2> QED
    BY <2>2, <2>3 DEF T
<1>15. tree.maxPathLen[p] = Tree!countBelow
  <2>1. tree.maxPathLen = [q \in Paths(w) |-> Tree!countBelow]
    BY <1>1, TreeParts DEF tree
  <2> QED
    BY <2>1
<1>16. Tree!pathLen(tree, p) = levels[p]
  BY <1>6, <1>15, Zenon DEF Tree!pathLen
<1> QED
  BY <1>14, <1>16 DEF tree

-----------------------------------------------------------------------------
(* What a command knows of its chain is what ChainToSpec returned.         *)

ChainInv ==
  \/ chain = NoChain
  \/ \E c \in ChainCall : chain = [call |-> c, names |-> ChainToSpec(c)]

LEMMA InitChainInv == Init => ChainInv
BY DEF Init, ChainInv

LEMMA StepKeepsChain ==
  ASSUME CommandStep
  PROVE  chain' = chain \/ \E c \in ChainCall : runChain(c)
<1>1. CASE runScenario \/ LookAtSpec \/ WriteSpec \/ RunModes
  BY <1>1 DEF runScenario, LookAtSpec, WriteSpec, RunModes
<1>2. CASE openYubiKeyStarts \/ yubikeyOpen \/ openYubiKeyReturns
  BY <1>2 DEF openYubiKeyStarts, yubikeyOpen, openYubiKeyReturns, process
<1>3. CASE Issuer \/ keyEncryption \/ ReadSpec \/ ExportSpec
  BY <1>3 DEF Issuer, keyEncryption, ReadSpec, ExportSpec
<1>4. CASE GenerateSome \/ GenerateRest \/ generateKeyPair
  BY <1>4 DEF GenerateSome, GenerateRest, generateKeyPair
<1>5. CASE GenerateKey \/ SetCertificate \/ WriteCertificate
  BY <1>5 DEF GenerateKey, SetCertificate, WriteCertificate
<1>6. CASE closeYubiKey \/ Fails \/ Kill
  BY <1>6 DEF closeYubiKey, Fails, Kill
<1>7. CASE \E c \in ChainCall : runChain(c)
  BY <1>7
<1> QED
  BY <1>1, <1>2, <1>3, <1>4, <1>5, <1>6, <1>7, Zenon DEF CommandStep

LEMMA NextChainInv == ChainInv /\ [Next]_vars => ChainInv'
<1> SUFFICES ASSUME ChainInv, [Next]_vars PROVE ChainInv'
  OBVIOUS
<1>1. ASSUME chain' = chain PROVE ChainInv'
  BY <1>1 DEF ChainInv
<1>2. CASE \E a \in Args : Run(a)
  <2>1. chain' = NoChain
    BY <1>2, Zenon DEF Run
  <2> QED
    BY <2>1 DEF ChainInv
<1>3. CASE CommandStep
  <2>1. ASSUME NEW c \in ChainCall, runChain(c) PROVE ChainInv'
    <3>1. chain' = [call |-> c, names |-> ChainToSpec(c)]
      BY <2>1, Zenon DEF runChain
    <3> QED
      BY <3>1 DEF ChainInv
  <2> QED
    BY <1>1, <1>3, <2>1, StepKeepsChain
<1>4. CASE User
  <2>1. chain' = chain
    BY <1>4 DEF User, DeleteSpec, EditSpec, WriteOwnSpec, DeleteCertificates, Edits, process
  <2> QED
    BY <1>1, <2>1
<1>5. CASE Others /\ UNCHANGED <<process, files, slots, history>>
  <2>1. chain' = chain
    BY <1>5 DEF process
  <2> QED
    BY <1>1, <2>1
<1>6. CASE UNCHANGED vars
  <2>1. chain' = chain
    BY <1>6 DEF vars, process
  <2> QED
    BY <1>1, <2>1
<1> QED
  BY <1>2, <1>3, <1>4, <1>5, <1>6, Zenon DEF Next

LEMMA ChainInvHolds == Spec => []ChainInv
BY InitChainInv, NextChainInv, PTL DEF Spec

LEMMA ChainNames ==
  ASSUME ChainInv, chain.names # <<>>
  PROVE  /\ chain.call \in ChainCall /\ chain.names = buildChainLayer(chain.call)
         /\ DOMAIN chain.names = Paths(chain.call.widths)
         /\ validWidths(chain.call.widths)
<1>1. NoChain.names = <<>>
  BY DEF NoChain
<1>2. PICK c \in ChainCall : chain = [call |-> c, names |-> ChainToSpec(c)]
  BY <1>1 DEF ChainInv
<1>3. chain.call = c /\ chain.names = ChainToSpec(c)
  BY <1>2
<1>4. ChainToSpec(c) = buildChainLayer(c) /\ validWidths(c.widths)
  BY <1>3, Zenon DEF ChainToSpec
<1>5. DOMAIN buildChainLayer(c) = Paths(c.widths)
  BY DEF buildChainLayer
<1> QED
  BY <1>3, <1>4, <1>5

\* No two certificates of a chain have one file, whatever the widths, the names
\* and the prefix: each level adds to the name of the file what tells it apart.
THEOREM ChainFilesDiffer == Spec => []ChainFilesUnique
<1>1. ChainInv => ChainFilesUnique
  <2> SUFFICES ASSUME ChainInv, NEW p \in DOMAIN chain.names, NEW q \in DOMAIN chain.names,
                      specFilename(chain.names, p) = specFilename(chain.names, q)
               PROVE  p = q
    BY DEF ChainFilesUnique
  <2>1. chain.names # <<>>
    OBVIOUS
  <2> QED
    BY <2>1, ChainNames, FilesUnique
<1> QED
  BY <1>1, ChainInvHolds, PTL

\* ChainToSpec refuses no chain but one with an empty layer or a common name that
\* is the name of one of its CAs.
THEOREM ChainRefusesForCause == Spec => []ChainRefusedForCause
<1>1. ChainInv => ChainRefusedForCause
  <2> SUFFICES ASSUME ChainInv, chain.names = <<>>, chain.call # <<>>, validWidths(chain.call.widths)
               PROVE  \E layer \in 0..(Len(chain.call.widths) - 2) :
                        chain.call.commonName =
                          caName(organizationOf(chain.call), layer, Len(chain.call.widths))
    BY DEF ChainRefusedForCause
  <2>1. NoChain.call = <<>>
    BY DEF NoChain
  <2>2. PICK c \in ChainCall : chain = [call |-> c, names |-> ChainToSpec(c)]
    BY <2>1 DEF ChainInv
  <2>3. chain.call = c /\ ChainToSpec(c) = <<>>
    BY <2>2
  <2>4. buildChainLayer(c) # <<>>
    <3>1. c.widths \in Seq(Int) /\ c.widths # <<>> /\ \A i \in DOMAIN c.widths : c.widths[i] >= 1
      BY <2>3, CallType DEF validWidths
    <3>2. 1 \in 1..Len(c.widths) /\ c.widths[1] \in Int /\ c.widths[1] >= 1
      BY <3>1
    <3> DEFINE p == [i \in 1..1 |-> 1]
    <3>3. p \in [1..1 -> Int] /\ \A i \in 1..1 : p[i] \in 1..c.widths[i]
      BY <3>2
    <3> HIDE DEF p
    <3>4. p \in Paths(c.widths)
      BY <3>1, <3>2, <3>3, PathOf
    <3>5. DOMAIN buildChainLayer(c) = Paths(c.widths)
      BY DEF buildChainLayer
    <3> QED
      BY <3>4, <3>5
  <2>5. ~checkUniqueNames(buildChainLayer(c))
    BY <2>3, <2>4, Zenon DEF ChainToSpec
  <2> QED
    BY <2>3, <2>5, NamesUnlessCause
<1> QED
  BY <1>1, ChainInvHolds, PTL

\* A chain that ChainToSpec accepts is a spec that validateSpec accepts; each CA has
\* as many entries below it as the next layer is wide, and the path length of the
\* layers of CAs below it; the leaves have nothing below them and make the last layer.
THEOREM ChainHasDepths == Spec => []ChainDepths
<1>1. ChainInv => ChainDepths
  <2> SUFFICES ASSUME ChainInv, chain.names # <<>> PROVE ChainDepths
    BY Zenon DEF ChainDepths
  <2> DEFINE w == chain.call.widths
             names == chain.names
             tree == ChainTree(w, names)
  <2>1. w \in WidthLists /\ w \in Seq(Int) /\ validWidths(w) /\ DOMAIN names = Paths(w)
    BY ChainNames, CallType
  <2> HIDE DEF w, names
  <2>2. Tree!validateSpec(tree)
    BY <2>1, TreeValid
  <2>3. tree.certificateAuthority = {p \in Paths(w) : Len(p) # Len(w)}
    BY <2>1, TreeParts
  <2>4. ASSUME NEW p \in DOMAIN names
        PROVE  LET below == Cardinality({q \in DOMAIN names : q # <<>> /\ Front(q) = p})
               IN IF p \in tree.certificateAuthority
                  THEN below = w[Len(p) + 1] /\ Tree!pathLen(tree, p) = Len(w) - Len(p) - 1
                  ELSE below = 0 /\ Len(p) = Len(w)
    <3>1. {q \in DOMAIN names : q # <<>> /\ Front(q) = p} = Below(w, p) /\ p \in Paths(w)
      BY <2>1, Zenon DEF Below
    <3>2. CASE Len(p) # Len(w)
      <4>1. w[Len(p) + 1] \in Nat
        <5>1. Len(p) + 1 \in 1..Len(w) /\ DOMAIN w = 1..Len(w)
          BY <2>1, <3>1, <3>2, PathType
        <5> QED
          BY <2>1, <5>1 DEF validWidths
      <4>2. Cardinality(Below(w, p)) = w[Len(p) + 1]
        BY <2>1, <3>1, <3>2, <4>1, BelowCA
      <4>3. Tree!pathLen(tree, p) = Len(w) - Len(p) - 1
        BY <2>1, <3>1, <3>2, TreeDepths
      <4>4. p \in tree.certificateAuthority
        BY <2>3, <3>1, <3>2
      <4> HIDE DEF tree
      <4> QED
        BY <3>1, <4>2, <4>3, <4>4, Zenon
    <3>3. CASE Len(p) = Len(w)
      <4>1. Cardinality(Below(w, p)) = 0
        BY <2>1, <3>1, <3>3, BelowLeaf
      <4>2. p \notin tree.certificateAuthority
        BY <2>3, <3>3
      <4> HIDE DEF tree
      <4> QED
        BY <3>1, <3>3, <4>1, <4>2, Zenon
    <3> QED
      BY <3>2, <3>3
  <2> QED
    BY <2>2, <2>4, Zenon DEF ChainDepths, tree, w, names
<1> QED
  BY <1>1, ChainInvHolds, PTL
============================================================================
