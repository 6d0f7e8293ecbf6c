----------------------------- MODULE Iteration -----------------------------
(***************************************************************************)
(* Lemmas about loops: definitions that step through a sequence, and       *)
(* FlattenSeq.  The induction is over a set of numbers (Induct, from the   *)
(* least number that is not in it), and what is proved by it is written    *)
(* as such a set.  A recursive function is shown to have values by giving  *)
(* one that satisfies its equation (Iterate).                              *)
(***************************************************************************)
EXTENDS Integers, SequencesExt, SequenceTheorems, WellFoundedInduction, TLAPS

\* Induction up to n, for a set instead of a predicate.
LEMMA Induct ==
    ASSUME NEW n \in Nat, NEW T, 0 \in T,
           \A i \in 1..n : i - 1 \in T => i \in T
    PROVE  0..n \subseteq T
<1> DEFINE U == (0..n) \ T
           R == OpToRel(<, Nat)
<1> SUFFICES ASSUME U # {} PROVE FALSE
  OBVIOUS
<1>1. U \subseteq Nat
  OBVIOUS
<1>2. PICK x \in U : \A y \in U : <<y, x>> \notin R
  <2> HIDE DEF U, R
  <2>1. IsWellFoundedOn(R, Nat)
    BY NatLessThanWellFounded DEF R
  <2> QED
    BY <1>1, <2>1, WFMin
<1>3. \A y \in U : ~(y < x)
  BY <1>1, <1>2 DEF OpToRel
<1>4. x \in 1..n /\ x - 1 \in 0..n
  OBVIOUS
<1> QED
  BY <1>3, <1>4

\* F[<<i, x>>] is the i-th of n steps on values of A, taken at x.
Steps(A, n) == [(1..n) \X A -> A]

\* The values that n steps lead through.
Iterations(A, base, n, F) ==
    {f \in [0..n -> A] : f[0] = base /\ \A i \in 1..n : f[i] = F[<<i, f[i - 1]>>]}

\* Appending to the second of two sequences.
LEMMA ConcatAppend ==
    ASSUME NEW S, NEW s \in Seq(S), NEW t \in Seq(S), NEW x \in S
    PROVE  s \o Append(t, x) = Append(s \o t, x)
<1>1. s \o t \in Seq(S) /\ <<x>> \in Seq(S)
  OBVIOUS
<1>2. Append(t, x) = t \o <<x>> /\ Append(s \o t, x) = (s \o t) \o <<x>>
  BY <1>1, AppendIsConcat
<1> QED
  BY <1>1, <1>2, ConcatAssociative

\* A value can be stepped n times.
LEMMA Iterate ==
    ASSUME NEW A, NEW base \in A, NEW n \in Nat, NEW F \in Steps(A, n)
    PROVE  Iterations(A, base, n, F) # {}
<1> DEFINE Follows(f, m) == f[0] = base /\ \A i \in 1..m : f[i] = F[<<i, f[i - 1]>>]
           Possible(m) == \E f \in [0..m -> A] : Follows(f, m)
           T == {m \in 0..n : Possible(m)}
<1>1. Possible(0)
  <2>1. [i \in 0..0 |-> base] \in [0..0 -> A] /\ Follows([i \in 0..0 |-> base], 0)
    OBVIOUS
  <2> QED
    BY <2>1
<1>2. ASSUME NEW m \in 1..n, Possible(m - 1) PROVE Possible(m)
  <2>1. PICK f \in [0..(m - 1) -> A] : Follows(f, m - 1)
    BY <1>2
  <2> DEFINE y == F[<<m, f[m - 1]>>]
             g == [i \in 0..m |-> IF i = m THEN y ELSE f[i]]
  <2>2. y \in A
    <3>1. m - 1 \in 0..(m - 1) /\ f[m - 1] \in A
      OBVIOUS
    <3> QED
      BY <3>1 DEF Steps
  <2>3. g \in [0..m -> A] /\ g[0] = base
    BY <2>1, <2>2
  <2>4. ASSUME NEW i \in 1..m PROVE g[i] = F[<<i, g[i - 1]>>]
    <3>1. i - 1 \in 0..(m - 1) /\ g[i - 1] = f[i - 1]
      OBVIOUS
    <3>2. CASE i = m
      <4>1. g[i] = y
        BY <3>2
      <4>2. y = F[<<i, f[i - 1]>>]
        BY <3>2
      <4> HIDE DEF y, g
      <4> QED
        BY <3>1, <4>1, <4>2
    <3>3. CASE i # m
      <4>1. i \in 1..(m - 1) /\ g[i] = f[i]
        BY <3>3
      <4> QED
        BY <4>1, <3>1, <2>1
    <3> QED
      BY <3>2, <3>3
  <2>5. Follows(g, m)
    BY <2>3, <2>4
  <2> QED
    BY <2>3, <2>5
<1>3. 0 \in T /\ \A m \in 1..n : m - 1 \in T => m \in T
  <2> HIDE DEF Possible
  <2> QED
    BY <1>1, <1>2
<1> HIDE DEF T
<1>4. n \in T
  <2>1. 0..n \subseteq T
    BY <1>3, Induct
  <2> QED
    BY <2>1
<1> QED
  BY <1>4 DEF T, Iterations

\* FlattenSeq concatenates from left to right.
LEMMA Flatten ==
    ASSUME NEW S, NEW ss \in Seq(Seq(S))
    PROVE  \E f \in [0..Len(ss) -> Seq(S)] :
               /\ f[0] = <<>>
               /\ \A i \in 1..Len(ss) : f[i] = f[i - 1] \o ss[i]
               /\ FlattenSeq(ss) = f[Len(ss)]
<1> DEFINE n == Len(ss)
           F == [x \in (1..n) \X Seq(S) |-> x[2] \o ss[x[1]]]
<1>1. n \in Nat /\ <<>> \in Seq(S) /\ \A i \in 1..n : ss[i] \in Seq(S)
  OBVIOUS
<1>2. F \in [(1..n) \X Seq(S) -> Seq(S)]
  <2> HIDE DEF n
  <2> QED
    BY <1>1
<1>3. PICK f \in [0..n -> Seq(S)] :
           f[0] = <<>> /\ \A i \in 1..n : f[i] = F[<<i, f[i - 1]>>]
  <2>1. F \in Steps(Seq(S), n)
    BY <1>2 DEF Steps
  <2>2. Iterations(Seq(S), <<>>, n, F) # {}
    <3> HIDE DEF F, n
    <3> QED
      BY <1>1, <2>1, Iterate
  <2> QED
    BY <2>2 DEF Iterations
<1>4. ASSUME NEW i \in 1..n PROVE f[i - 1] \in Seq(S) /\ f[i] = f[i - 1] \o ss[i]
  <2> HIDE DEF n
  <2>1. f[i - 1] \in Seq(S)
    BY <1>1
  <2>2. <<i, f[i - 1]>> \in (1..n) \X Seq(S)
    BY <2>1
  <2>3. F[<<i, f[i - 1]>>] = f[i - 1] \o ss[i]
    BY <2>2
  <2> QED
    BY <2>1, <2>3, <1>3
<1> HIDE DEF F
<1>5. CASE n = 0
  <2>1. FlattenSeq(ss) = ss /\ ss = <<>>
    BY <1>5 DEF FlattenSeq
  <2> QED
    BY <1>3, <1>4, <1>5, <2>1
<1>6. CASE n # 0
  <2> DEFINE Eq(g) == g = [i \in 1..n |-> IF i = 1 THEN ss[i] ELSE g[i - 1] \o ss[i]]
             h == CHOOSE g : Eq(g)
             e == [i \in 1..n |-> f[i]]
  <2>1. 1 \in 1..n /\ 1 - 1 = 0
    BY <1>1, <1>6
  <2>2. f[1] = ss[1]
    <3>1. f[1] = f[0] \o ss[1]
      BY <2>1, <1>4
    <3>2. <<>> \o ss[1] = ss[1]
      BY <2>1, <1>1
    <3> QED
      BY <3>1, <3>2, <1>3
  <2>3. ASSUME NEW i \in 1..n PROVE e[i] = IF i = 1 THEN ss[i] ELSE e[i - 1] \o ss[i]
    <3>1. e[i] = f[i] /\ (i # 1 => i - 1 \in 1..n /\ e[i - 1] = f[i - 1])
      <4> HIDE DEF n
      <4> QED
        BY <1>1
    <3> HIDE DEF e
    <3> QED
      BY <3>1, <1>4, <2>2
  <2>4. Eq(e)
    <3> HIDE DEF n
    <3> QED
      BY <2>3
  <2>5. Eq(h)
    <3> HIDE DEF Eq
    <3> QED
      BY <2>4
  <2>6. FlattenSeq(ss) = h[n]
    BY <1>6 DEF FlattenSeq
  <2> DEFINE T == {i \in 0..n : i = 0 \/ h[i] = f[i]}
  <2> HIDE DEF h
  <2>7. ASSUME NEW i \in 1..n, i = 1 \/ h[i - 1] = f[i - 1] PROVE h[i] = f[i]
    <3>1. h[i] = IF i = 1 THEN ss[i] ELSE h[i - 1] \o ss[i]
      <4> HIDE DEF n
      <4> QED
        BY <2>5
    <3> QED
      BY <3>1, <2>7, <1>4, <2>2
  <2>8. 0 \in T /\ \A i \in 1..n : i - 1 \in T => i \in T
    <3> HIDE DEF n
    <3> QED
      BY <2>7, <1>1
  <2>9. 0..n \subseteq T
    <3> HIDE DEF T, n
    <3> QED
      BY <1>1, <2>8, Induct
  <2>10. h[n] = f[n]
    <3> HIDE DEF n
    <3> QED
      BY <2>9, <1>6, <1>1
  <2> QED
    BY <2>10, <2>6, <1>3, <1>4
<1> QED
  BY <1>5, <1>6

\* The beginnings of the concatenation.
Partials(S, ss) ==
    {f \in [0..Len(ss) -> Seq(S)] :
        f[0] = <<>> /\ \A i \in 1..Len(ss) : f[i] = f[i - 1] \o ss[i]}

\* Any function that concatenates from left to right ends with FlattenSeq.
LEMMA FlattenIs ==
    ASSUME NEW S, NEW ss \in Seq(Seq(S)), NEW f \in Partials(S, ss)
    PROVE  FlattenSeq(ss) = f[Len(ss)] /\ FlattenSeq(ss) \in Seq(S)
<1>1. PICK g \in [0..Len(ss) -> Seq(S)] :
           /\ g[0] = <<>>
           /\ \A i \in 1..Len(ss) : g[i] = g[i - 1] \o ss[i]
           /\ FlattenSeq(ss) = g[Len(ss)]
  BY Flatten
<1>2. f[0] = <<>> /\ \A i \in 1..Len(ss) : f[i] = f[i - 1] \o ss[i]
  BY DEF Partials
<1> DEFINE T == {i \in 0..Len(ss) : f[i] = g[i]}
<1>3. Len(ss) \in Nat
  OBVIOUS
<1>4. 0 \in T
  BY <1>1, <1>2, <1>3
<1>5. ASSUME NEW i \in 1..Len(ss), i - 1 \in T PROVE i \in T
  <2>1. f[i - 1] = g[i - 1]
    BY <1>5
  <2>2. f[i] = f[i - 1] \o ss[i] /\ g[i] = g[i - 1] \o ss[i]
    BY <1>1, <1>2
  <2>3. i \in 0..Len(ss) /\ f[i] = g[i]
    BY <2>1, <2>2
  <2> QED
    BY <2>3
<1>6. 0..Len(ss) \subseteq T
  <2> HIDE DEF T
  <2> QED
    BY <1>3, <1>4, <1>5, Induct
<1> QED
  BY <1>1, <1>3, <1>6

\* FlattenSeq is the last of the beginnings.
LEMMA FlattenPrefixes ==
    ASSUME NEW S, NEW ss \in Seq(Seq(S))
    PROVE  \E f \in Partials(S, ss) : FlattenSeq(ss) = f[Len(ss)] /\ FlattenSeq(ss) \in Seq(S)
<1>1. PICK f \in [0..Len(ss) -> Seq(S)] :
           /\ f[0] = <<>>
           /\ \A i \in 1..Len(ss) : f[i] = f[i - 1] \o ss[i]
           /\ FlattenSeq(ss) = f[Len(ss)]
  BY Flatten
<1>2. Len(ss) \in 0..Len(ss)
  OBVIOUS
<1> QED
  BY <1>1, <1>2 DEF Partials

\* One more sequence at the end.
LEMMA FlattenAppend ==
    ASSUME NEW S, NEW ss \in Seq(Seq(S)), NEW s \in Seq(S)
    PROVE  FlattenSeq(Append(ss, s)) = FlattenSeq(ss) \o s
<1> DEFINE n == Len(ss)
           tt == Append(ss, s)
<1>1. PICK f \in Partials(S, tt) : FlattenSeq(tt) = f[n + 1]
  <2>1. tt \in Seq(Seq(S)) /\ Len(tt) = n + 1
    OBVIOUS
  <2> HIDE DEF tt, n
  <2> QED
    BY <2>1, FlattenPrefixes
<1>2. /\ n \in Nat /\ Len(tt) = n + 1 /\ tt[n + 1] = s
      /\ \A i \in 1..n : tt[i] = ss[i]
  OBVIOUS
<1> HIDE DEF tt, n
<1>3. /\ f \in [0..(n + 1) -> Seq(S)] /\ f[0] = <<>>
      /\ \A i \in 1..(n + 1) : f[i] = f[i - 1] \o tt[i]
  BY <1>2 DEF Partials
<1> DEFINE g == [i \in 0..n |-> f[i]]
<1>4. g \in [0..n -> Seq(S)] /\ g[0] = <<>>
  BY <1>2, <1>3
<1>5. ASSUME NEW i \in 1..n PROVE g[i] = g[i - 1] \o ss[i]
  <2>1. g[i] = f[i] /\ g[i - 1] = f[i - 1] /\ i \in 1..(n + 1)
    BY <1>2
  <2> HIDE DEF g
  <2> QED
    BY <2>1, <1>2, <1>3
<1>6. FlattenSeq(ss) = g[n]
  <2>1. g \in Partials(S, ss)
    BY <1>4, <1>5 DEF Partials, n
  <2> HIDE DEF g
  <2> QED
    BY <2>1, FlattenIs DEF n
<1>7. g[n] = f[n] /\ f[n + 1] = f[n] \o s
  <2>1. g[n] = f[n] /\ n + 1 \in 1..(n + 1) /\ (n + 1) - 1 = n
    BY <1>2
  <2> HIDE DEF g
  <2> QED
    BY <2>1, <1>2, <1>3
<1> QED
  BY <1>1, <1>6, <1>7 DEF tt

\* Nothing to concatenate.
LEMMA FlattenEmpty == FlattenSeq(<<>>) = <<>>
BY DEF FlattenSeq

\* One sequence only.
LEMMA FlattenOne ==
    ASSUME NEW S, NEW s \in Seq(S)
    PROVE  FlattenSeq(<<s>>) = s
<1>1. <<s>> = Append(<<>>, s) /\ <<>> \in Seq(Seq(S))
  OBVIOUS
<1>2. FlattenSeq(Append(<<>>, s)) = <<>> \o s
  BY <1>1, FlattenAppend, FlattenEmpty
<1> QED
  BY <1>1, <1>2, ConcatEmptySeq

\* Position by position: the elements of the parts, in a relation with those
\* of parts that are at least as long, are in it as a whole if nothing is
\* missing.
LEMMA FlattenZip ==
    ASSUME NEW S, NEW U, NEW R, NEW ss \in Seq(Seq(S)), NEW uu \in Seq(Seq(U)),
           Len(ss) = Len(uu),
           \A i \in 1..Len(ss) :
               /\ Len(ss[i]) <= Len(uu[i])
               /\ \A j \in 1..Len(ss[i]) : <<ss[i][j], uu[i][j]>> \in R,
           Len(FlattenSeq(ss)) = Len(FlattenSeq(uu))
    PROVE  \A j \in 1..Len(FlattenSeq(ss)) : <<FlattenSeq(ss)[j], FlattenSeq(uu)[j]>> \in R
<1> DEFINE n == Len(ss)
           Paired(s, u) == Len(s) = Len(u) => \A j \in 1..Len(s) : <<s[j], u[j]>> \in R
<1>0. /\ n \in Nat /\ Len(uu) = n
      /\ \A i \in 1..n : ss[i] \in Seq(S) /\ uu[i] \in Seq(U)
  OBVIOUS
<1>1. PICK f \in Partials(S, ss) : FlattenSeq(ss) = f[n]
  BY FlattenPrefixes
<1>2. PICK g \in Partials(U, uu) : FlattenSeq(uu) = g[n]
  BY FlattenPrefixes
<1>3. /\ f \in [0..n -> Seq(S)] /\ f[0] = <<>>
      /\ \A i \in 1..n : f[i] = f[i - 1] \o ss[i]
  BY DEF Partials
<1>4. /\ g \in [0..n -> Seq(U)] /\ g[0] = <<>>
      /\ \A i \in 1..n : g[i] = g[i - 1] \o uu[i]
  BY DEF Partials
<1>5. ASSUME NEW i \in 1..n
      PROVE  Len(ss[i]) <= Len(uu[i]) /\ \A j \in 1..Len(ss[i]) : <<ss[i][j], uu[i][j]>> \in R
  OBVIOUS
<1> HIDE DEF n
<1>6. ASSUME NEW s \in Seq(S), NEW u \in Seq(U), Len(s) <= Len(u), Paired(s, u),
             NEW s2 \in Seq(S), NEW u2 \in Seq(U), Len(s2) <= Len(u2),
             \A j \in 1..Len(s2) : <<s2[j], u2[j]>> \in R
      PROVE  Len(s \o s2) <= Len(u \o u2) /\ Paired(s \o s2, u \o u2)
  <2>1. /\ Len(s \o s2) = Len(s) + Len(s2)
        /\ \A j \in 1..(Len(s) + Len(s2)) : (s \o s2)[j] = IF j <= Len(s) THEN s[j] ELSE s2[j - Len(s)]
    OBVIOUS
  <2>2. /\ Len(u \o u2) = Len(u) + Len(u2)
        /\ \A j \in 1..(Len(u) + Len(u2)) : (u \o u2)[j] = IF j <= Len(u) THEN u[j] ELSE u2[j - Len(u)]
    OBVIOUS
  <2>3. Len(s) \in Nat /\ Len(u) \in Nat /\ Len(s2) \in Nat /\ Len(u2) \in Nat
    OBVIOUS
  <2>4. ASSUME Len(s \o s2) = Len(u \o u2), NEW j \in 1..Len(s \o s2)
        PROVE  <<(s \o s2)[j], (u \o u2)[j]>> \in R
    <3>1. Len(s) = Len(u) /\ Len(s2) = Len(u2)
      BY <2>1, <2>2, <2>3, <2>4, <1>6
    <3>2. CASE j <= Len(s)
      BY <3>1, <3>2, <2>1, <2>2, <2>3, <1>6
    <3>3. CASE ~(j <= Len(s))
      <4>1. j - Len(s) \in 1..Len(s2) /\ (s \o s2)[j] = s2[j - Len(s)] /\ (u \o u2)[j] = u2[j - Len(s)]
        BY <3>1, <3>3, <2>1, <2>2, <2>3
      <4> QED
        BY <4>1, <1>6
    <3> QED
      BY <3>2, <3>3
  <2> QED
    BY <2>1, <2>2, <2>3, <2>4, <1>6
<1> HIDE DEF Paired
<1> DEFINE T == {i \in 0..n : Len(f[i]) <= Len(g[i]) /\ Paired(f[i], g[i])}
<1>7. 0 \in T
  <2>1. Len(<<>>) <= Len(<<>>) /\ Paired(<<>>, <<>>)
    BY DEF Paired
  <2> QED
    BY <1>0, <1>3, <1>4, <2>1
<1>8. ASSUME NEW i \in 1..n, i - 1 \in T PROVE i \in T
  <2>1. f[i - 1] \in Seq(S) /\ g[i - 1] \in Seq(U)
    <3>1. i - 1 \in 0..n
      BY <1>0
    <3> QED
      BY <1>3, <1>4, <3>1
  <2>2. Len(f[i - 1]) <= Len(g[i - 1]) /\ Paired(f[i - 1], g[i - 1])
    BY <1>8
  <2>3. Len(f[i]) <= Len(g[i]) /\ Paired(f[i], g[i])
    <3>1. Len(f[i - 1] \o ss[i]) <= Len(g[i - 1] \o uu[i])
          /\ Paired(f[i - 1] \o ss[i], g[i - 1] \o uu[i])
      BY <2>1, <2>2, <1>0, <1>5, <1>6
    <3> QED
      BY <3>1, <1>3, <1>4
  <2> QED
    BY <2>3, <1>0
<1>9. 0..n \subseteq T
  <2> HIDE DEF T
  <2> QED
    BY <1>0, <1>7, <1>8, Induct
<1>10. Paired(f[n], g[n])
  BY <1>0, <1>9
<1> QED
  BY <1>10, <1>1, <1>2 DEF Paired

\* The elements of the whole are those of the parts.
LEMMA FlattenElements ==
    ASSUME NEW S, NEW ss \in Seq(Seq(S)), NEW x
    PROVE  Contains(FlattenSeq(ss), x) <=> \E i \in 1..Len(ss) : Contains(ss[i], x)
<1> DEFINE n == Len(ss)
           Has(s) == Contains(s, x)
<1>0. n \in Nat /\ \A i \in 1..n : ss[i] \in Seq(S)
  OBVIOUS
<1>1. PICK f \in Partials(S, ss) : FlattenSeq(ss) = f[n]
  BY FlattenPrefixes
<1>2. /\ f \in [0..n -> Seq(S)] /\ f[0] = <<>>
      /\ \A i \in 1..n : f[i] = f[i - 1] \o ss[i]
  BY DEF Partials
<1> HIDE DEF n
<1>3. ASSUME NEW s \in Seq(S), NEW t \in Seq(S) PROVE Has(s \o t) <=> Has(s) \/ Has(t)
  <2>1. /\ Len(s) \in Nat /\ Len(t) \in Nat /\ Len(s \o t) = Len(s) + Len(t)
        /\ \A j \in 1..(Len(s) + Len(t)) : (s \o t)[j] = IF j <= Len(s) THEN s[j] ELSE t[j - Len(s)]
    OBVIOUS
  <2>2. ASSUME Has(s \o t) PROVE Has(s) \/ Has(t)
    BY <2>1, <2>2 DEF Contains
  <2>3. ASSUME Has(s) PROVE Has(s \o t)
    BY <2>1, <2>3 DEF Contains
  <2>4. ASSUME Has(t) PROVE Has(s \o t)
    <3>1. PICK j \in 1..Len(t) : t[j] = x
      BY <2>4 DEF Contains
    <3>2. j + Len(s) \in 1..(Len(s) + Len(t)) /\ (s \o t)[j + Len(s)] = t[j]
      BY <2>1
    <3> QED
      BY <2>1, <3>1, <3>2 DEF Contains
  <2> QED
    BY <2>2, <2>3, <2>4
<1>4. ~Has(<<>>)
  BY DEF Contains
<1> HIDE DEF Has
<1> DEFINE T == {i \in 0..n : Has(f[i]) <=> \E k \in 1..i : Has(ss[k])}
<1>5. 0 \in T
  BY <1>0, <1>2, <1>4
<1>6. ASSUME NEW i \in 1..n, i - 1 \in T PROVE i \in T
  <2>1. Has(f[i - 1]) <=> \E k \in 1..(i - 1) : Has(ss[k])
    BY <1>6
  <2>2. f[i - 1] \in Seq(S) /\ f[i] = f[i - 1] \o ss[i] /\ ss[i] \in Seq(S)
    <3>1. i - 1 \in 0..n
      BY <1>0
    <3> QED
      BY <1>0, <1>2, <3>1
  <2>3. Has(f[i]) <=> Has(f[i - 1]) \/ Has(ss[i])
    BY <2>2, <1>3
  <2>4. (\E k \in 1..i : Has(ss[k])) <=> (\E k \in 1..(i - 1) : Has(ss[k])) \/ Has(ss[i])
    BY <1>0
  <2>5. i \in 0..n
    BY <1>0
  <2> QED
    BY <2>1, <2>3, <2>4, <2>5
<1>7. 0..n \subseteq T
  <2> HIDE DEF T
  <2> QED
    BY <1>0, <1>5, <1>6, Induct
<1>8. Has(f[n]) <=> \E k \in 1..n : Has(ss[k])
  BY <1>0, <1>7
<1> QED
  BY <1>1, <1>8 DEF Has, n
=============================================================================
