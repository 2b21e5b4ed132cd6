--------------------------- MODULE SequenceLemmas ----------------------------
(***************************************************************************)
(* What the operators on sequences that the specifications use return, for *)
(* sequences of any length.  Induction is by the least number for which a  *)
(* statement would fail, as a set of numbers.                              *)
(***************************************************************************)
EXTENDS SequencesExt, SequenceTheorems, WellFoundedInduction, TLAPS

-----------------------------------------------------------------------------
(* Numbers.                                                                *)

LEMMA LeastNumber ==
  ASSUME NEW S, S \subseteq Nat, S # {}
  PROVE  \E n \in S : \A m \in S : n <= m
<1>1. IsWellFoundedOn(OpToRel(<, Nat), Nat)
  BY NatLessThanWellFounded
<1>2. PICK n \in S : \A m \in S : ~ (<<m, n>> \in OpToRel(<, Nat))
  BY <1>1, WFMin
<1>3. \A m \in S : ~ (m < n)
  BY <1>2, Zenon DEF OpToRel
<1>4. QED
  BY <1>3

\* Induction over the numbers of a set.
LEMMA AllNumbers ==
  ASSUME NEW S, 0 \in S, \A n \in Nat : n \in S => n + 1 \in S
  PROVE  \A n \in Nat : n \in S
<1>1. SUFFICES ASSUME NEW k \in Nat, k \notin S PROVE FALSE
  OBVIOUS
<1> DEFINE Missing == {n \in Nat : n \notin S}
<1>2. Missing \subseteq Nat /\ Missing # {}
  BY <1>1
<1>3. PICK n \in Missing : \A m \in Missing : n <= m
  BY <1>2, LeastNumber
<1>4. n \in Nat /\ n # 0 /\ n \notin S
  BY <1>3
<1>5. n - 1 \in Nat /\ n - 1 \in S
  BY <1>3, <1>4
<1>6. QED
  BY <1>4, <1>5

-----------------------------------------------------------------------------
(* FlattenSeq.                                                             *)

\* The first i sequences put together, for each i up to n.
Stages(seqs, n, f) == \A i \in 1..n : f[i] = IF i = 1 THEN seqs[i] ELSE f[i - 1] \o seqs[i]

Flatten(seqs) == CHOOSE f : f = [i \in 1..Len(seqs) |-> IF i = 1 THEN seqs[i] ELSE f[i - 1] \o seqs[i]]

LEMMA StagesExist ==
  ASSUME NEW T, NEW seqs \in Seq(Seq(T))
  PROVE  \A n \in Nat : n \in {m \in Nat : m <= Len(seqs) => \E f \in [1..m -> Seq(T)] : Stages(seqs, m, f)}
<1> DEFINE S == {m \in Nat : m <= Len(seqs) => \E f \in [1..m -> Seq(T)] : Stages(seqs, m, f)}
<1>1. 0 \in S
  <2>1. [i \in 1..0 |-> <<>>] \in [1..0 -> Seq(T)]
    OBVIOUS
  <2>2. Stages(seqs, 0, [i \in 1..0 |-> <<>>])
    BY DEF Stages
  <2>3. QED
    BY <2>1, <2>2
<1>2. ASSUME NEW n \in Nat, n \in S PROVE n + 1 \in S
  <2>1. SUFFICES ASSUME n + 1 <= Len(seqs)
                 PROVE  \E f \in [1..(n + 1) -> Seq(T)] : Stages(seqs, n + 1, f)
    OBVIOUS
  <2>2. PICK f \in [1..n -> Seq(T)] : Stages(seqs, n, f)
    BY <1>2, <2>1
  <2> DEFINE last == IF n = 0 THEN seqs[n + 1] ELSE f[n] \o seqs[n + 1]
             g == [i \in 1..(n + 1) |-> IF i = n + 1 THEN last ELSE f[i]]
  <2>3. seqs[n + 1] \in Seq(T)
    BY <2>1
  <2>4. last \in Seq(T)
    BY <2>3, ConcatProperties
  <2> HIDE DEF last
  <2>5. g \in [1..(n + 1) -> Seq(T)]
    BY <2>4
  <2>6. \A i \in 1..n : g[i] = f[i]
    OBVIOUS
  <2>7. g[n + 1] = last
    OBVIOUS
  <2> HIDE DEF g
  <2>8. ASSUME NEW i \in 1..(n + 1)
        PROVE  g[i] = IF i = 1 THEN seqs[i] ELSE g[i - 1] \o seqs[i]
    <3>1. CASE i \in 1..n
      <4>1. i # 1 => i - 1 \in 1..n
        BY <3>1
      <4>2. QED
        BY <2>2, <2>6, <3>1, <4>1 DEF Stages
    <3>2. CASE i = n + 1
      BY <2>6, <2>7, <3>2 DEF last
    <3>3. QED
      BY <3>1, <3>2
  <2>9. QED
    BY <2>5, <2>8 DEF Stages
<1> HIDE DEF S
<1>3. \A n \in Nat : n \in S
  BY <1>1, <1>2, AllNumbers
<1>4. QED
  BY <1>3 DEF S

\* The recursive function in FlattenSeq is there, and what FlattenSeq returns.
LEMMA FlattenDefined ==
  ASSUME NEW T, NEW seqs \in Seq(Seq(T))
  PROVE  /\ Flatten(seqs) \in [1..Len(seqs) -> Seq(T)]
         /\ Stages(seqs, Len(seqs), Flatten(seqs))
         /\ FlattenSeq(seqs) = IF Len(seqs) = 0 THEN seqs ELSE Flatten(seqs)[Len(seqs)]
<1> DEFINE n == Len(seqs)
           Is(f) == f = [i \in 1..Len(seqs) |-> IF i = 1 THEN seqs[i] ELSE f[i - 1] \o seqs[i]]
<1>1. n \in Nat /\ seqs \in [1..n -> Seq(T)]
  BY LenProperties
<1>2. PICK f \in [1..n -> Seq(T)] : Stages(seqs, n, f)
  BY <1>1, StagesExist
<1>3. Is(f)
  BY <1>2 DEF Stages
<1>4. Is(Flatten(seqs))
  BY <1>3 DEF Flatten
<1> DEFINE g == Flatten(seqs)
<1>5. Is(g)
  BY <1>4
<1> HIDE DEF g
<1>6. Stages(seqs, n, g)
  BY <1>5 DEF Stages
<1>7. DOMAIN g = 1..n /\ g = [i \in 1..n |-> g[i]]
  BY <1>5
<1> DEFINE S == {m \in Nat : m \in 1..n => g[m] \in Seq(T)}
<1>8. 0 \in S
  OBVIOUS
<1>9. ASSUME NEW m \in Nat, m \in S PROVE m + 1 \in S
  <2>1. SUFFICES ASSUME m + 1 \in 1..n PROVE g[m + 1] \in Seq(T)
    OBVIOUS
  <2>2. seqs[m + 1] \in Seq(T)
    BY <1>1, <2>1
  <2>3. CASE m = 0
    BY <1>6, <2>1, <2>2, <2>3 DEF Stages
  <2>4. CASE m # 0
    <3>1. m \in 1..n /\ g[m + 1] = g[m] \o seqs[m + 1]
      <4>1. m \in 1..n /\ m + 1 # 1 /\ (m + 1) - 1 = m
        BY <1>1, <2>1, <2>4
      <4>2. g[m + 1] = IF m + 1 = 1 THEN seqs[m + 1] ELSE g[(m + 1) - 1] \o seqs[m + 1]
        BY <1>6, <2>1 DEF Stages
      <4>3. QED
        BY <4>1, <4>2
    <3>2. g[m] \in Seq(T)
      BY <1>9, <3>1
    <3>3. QED
      BY <2>2, <3>1, <3>2, ConcatProperties
  <2>5. QED
    BY <2>3, <2>4
<1> HIDE DEF S
<1>10. \A m \in Nat : m \in S
  BY <1>8, <1>9, AllNumbers
<1>11. \A m \in 1..n : g[m] \in Seq(T)
  BY <1>10 DEF S
<1>12. g \in [1..n -> Seq(T)]
  BY <1>7, <1>11
<1>13. FlattenSeq(seqs) = IF Len(seqs) = 0 THEN seqs ELSE Flatten(seqs)[Len(seqs)]
  BY DEF FlattenSeq, Flatten
<1>14. QED
  BY <1>6, <1>12, <1>13 DEF g

\* What is in two sequences put together.
LEMMA ConcatSet ==
  ASSUME NEW T, NEW s \in Seq(T), NEW t \in Seq(T)
  PROVE  ToSet(s \o t) = ToSet(s) \cup ToSet(t)
<1>1. /\ Len(s) \in Nat /\ Len(t) \in Nat /\ DOMAIN s = 1..Len(s) /\ DOMAIN t = 1..Len(t)
      /\ DOMAIN (s \o t) = 1..(Len(s) + Len(t))
      /\ \A i \in 1..(Len(s) + Len(t)) : (s \o t)[i] = IF i <= Len(s) THEN s[i] ELSE t[i - Len(s)]
  BY ConcatProperties
<1> DEFINE u == s \o t
<1> HIDE DEF u
<1>2. ASSUME NEW x \in ToSet(u) PROVE x \in ToSet(s) \cup ToSet(t)
  <2>1. PICK i \in 1..(Len(s) + Len(t)) : x = u[i]
    BY <1>1, <1>2 DEF ToSet, u
  <2>2. CASE i <= Len(s)
    BY <1>1, <2>1, <2>2 DEF ToSet, u
  <2>3. CASE ~ (i <= Len(s))
    <3>1. i - Len(s) \in DOMAIN t /\ x = t[i - Len(s)]
      BY <1>1, <2>1, <2>3 DEF u
    <3>2. QED
      BY <3>1 DEF ToSet
  <2>4. QED
    BY <2>2, <2>3
<1>3. ASSUME NEW x \in ToSet(s) PROVE x \in ToSet(u)
  <2>1. PICK i \in 1..Len(s) : x = s[i]
    BY <1>1, <1>3 DEF ToSet
  <2>2. i \in 1..(Len(s) + Len(t)) /\ x = u[i]
    BY <1>1, <2>1 DEF u
  <2>3. QED
    BY <1>1, <2>2 DEF ToSet, u
<1>4. ASSUME NEW x \in ToSet(t) PROVE x \in ToSet(u)
  <2>1. PICK i \in 1..Len(t) : x = t[i]
    BY <1>1, <1>4 DEF ToSet
  <2>2. Len(s) + i \in 1..(Len(s) + Len(t)) /\ ~ (Len(s) + i <= Len(s)) /\ (Len(s) + i) - Len(s) = i
    BY <1>1
  <2>3. x = u[Len(s) + i]
    BY <1>1, <2>1, <2>2 DEF u
  <2>4. QED
    BY <1>1, <2>2, <2>3 DEF ToSet, u
<1>5. QED
  BY <1>2, <1>3, <1>4 DEF u

\* What has been put together by stage m is what is in the first m sequences.
LEMMA FlattenSoFar ==
  ASSUME NEW T, NEW seqs \in Seq(Seq(T))
  PROVE  \A m \in 1..Len(seqs) : \A x : x \in ToSet(Flatten(seqs)[m]) <=> (\E i \in 1..m : x \in ToSet(seqs[i]))
<1> DEFINE n == Len(seqs)
           g == Flatten(seqs)
           In(x, m) == \E i \in 1..m : x \in ToSet(seqs[i])
           S == {m \in Nat : m \in 1..n => \A x : x \in ToSet(g[m]) <=> In(x, m)}
<1>1. n \in Nat /\ seqs \in [1..n -> Seq(T)] /\ DOMAIN seqs = 1..n
  BY LenProperties
<1>2. g \in [1..n -> Seq(T)] /\ Stages(seqs, n, g)
  BY FlattenDefined
<1> HIDE DEF g
<1>3. 0 \in S
  OBVIOUS
<1> HIDE DEF In
<1>4. ASSUME NEW m \in Nat, m \in S PROVE m + 1 \in S
  <2>1. SUFFICES ASSUME m + 1 \in 1..n, NEW x PROVE x \in ToSet(g[m + 1]) <=> In(x, m + 1)
    BY DEF S
  <2>2. seqs[m + 1] \in Seq(T)
    BY <1>1, <2>1
  <2>3. In(x, m + 1) <=> In(x, m) \/ x \in ToSet(seqs[m + 1])
    <3>1. \A i : i \in 1..(m + 1) <=> i \in 1..m \/ i = m + 1
      OBVIOUS
    <3>2. QED
      BY <3>1, Zenon DEF In
  <2>4. CASE m = 0
    <3>1. 1 \in 1..n /\ m + 1 = 1
      BY <2>1, <2>4
    <3>2. g[m + 1] = seqs[m + 1]
      BY <1>2, <3>1 DEF Stages
    <3>3. ~ In(x, m)
      BY <2>4 DEF In
    <3>4. QED
      BY <2>3, <3>2, <3>3
  <2>5. CASE m # 0
    <3>1. m \in 1..n /\ m + 1 # 1 /\ (m + 1) - 1 = m
      BY <1>1, <2>1, <2>5
    <3>2. g[m + 1] = IF m + 1 = 1 THEN seqs[m + 1] ELSE g[(m + 1) - 1] \o seqs[m + 1]
      BY <1>2, <2>1 DEF Stages
    <3>3. g[m + 1] = g[m] \o seqs[m + 1] /\ g[m] \in Seq(T)
      BY <1>2, <3>1, <3>2
    <3>4. ToSet(g[m + 1]) = ToSet(g[m]) \cup ToSet(seqs[m + 1])
      BY <2>2, <3>3, ConcatSet
    <3>5. x \in ToSet(g[m]) <=> In(x, m)
      BY <1>4, <3>1
    <3>6. QED
      BY <2>3, <3>4, <3>5
  <2>6. QED
    BY <2>4, <2>5
<1> HIDE DEF S
<1>5. \A m \in Nat : m \in S
  BY <1>3, <1>4, AllNumbers
<1>6. \A m \in 1..n : \A x : x \in ToSet(g[m]) <=> In(x, m)
  BY <1>5 DEF S
<1>7. QED
  BY <1>6, Zenon DEF In, g

\* FlattenSeq returns a sequence of what is in its sequences, all of it.
LEMMA FlattenHolds ==
  ASSUME NEW T, NEW seqs \in Seq(Seq(T))
  PROVE  /\ FlattenSeq(seqs) \in Seq(T)
         /\ \A x : x \in ToSet(FlattenSeq(seqs)) <=> (\E i \in DOMAIN seqs : x \in ToSet(seqs[i]))
<1> DEFINE n == Len(seqs)
           g == Flatten(seqs)
           In(x, m) == \E i \in 1..m : x \in ToSet(seqs[i])
<1>1. n \in Nat /\ seqs \in [1..n -> Seq(T)] /\ DOMAIN seqs = 1..n
  BY LenProperties
<1>2. g \in [1..n -> Seq(T)]
  BY FlattenDefined
<1>3. \A m \in 1..n : \A x : x \in ToSet(g[m]) <=> In(x, m)
  BY FlattenSoFar
<1>4. FlattenSeq(seqs) = IF n = 0 THEN seqs ELSE g[n]
  BY FlattenDefined
<1> HIDE DEF g, In
<1>5. n = 0 =>
        /\ FlattenSeq(seqs) \in Seq(T)
        /\ \A x : x \in ToSet(FlattenSeq(seqs)) <=> (\E i \in DOMAIN seqs : x \in ToSet(seqs[i]))
  <2>1. SUFFICES ASSUME n = 0
        PROVE  FlattenSeq(seqs) \in Seq(T) /\ ToSet(FlattenSeq(seqs)) = {} /\ DOMAIN seqs = {}
    BY Zenon
  <2>2. FlattenSeq(seqs) = seqs /\ DOMAIN seqs = {} /\ seqs \in Seq(T)
    BY <1>1, <1>4, <2>1
  <2>3. QED
    BY <2>2 DEF ToSet
<1>6. n # 0 =>
        /\ FlattenSeq(seqs) \in Seq(T)
        /\ \A x : x \in ToSet(FlattenSeq(seqs)) <=> (\E i \in DOMAIN seqs : x \in ToSet(seqs[i]))
  <2>1. SUFFICES ASSUME n # 0
        PROVE  FlattenSeq(seqs) \in Seq(T) /\ \A x : x \in ToSet(FlattenSeq(seqs)) <=> In(x, n)
    BY <1>1, Zenon DEF In
  <2>2. n \in 1..n
    BY <1>1, <2>1
  <2>3. FlattenSeq(seqs) = g[n] /\ g[n] \in Seq(T)
    BY <1>2, <1>4, <2>1, <2>2
  <2>4. QED
    BY <1>3, <2>2, <2>3
<1>7. QED
  BY <1>5, <1>6, Zenon

\* Two sequences with nothing in common, neither of which says anything twice.
LEMMA ConcatInjective ==
  ASSUME NEW T, NEW s \in Seq(T), NEW t \in Seq(T), IsInjective(s), IsInjective(t),
         \A x : ~ (x \in ToSet(s) /\ x \in ToSet(t))
  PROVE  IsInjective(s \o t)
<1>1. /\ Len(s) \in Nat /\ Len(t) \in Nat /\ DOMAIN s = 1..Len(s) /\ DOMAIN t = 1..Len(t)
      /\ DOMAIN (s \o t) = 1..(Len(s) + Len(t))
      /\ \A i \in 1..(Len(s) + Len(t)) : (s \o t)[i] = IF i <= Len(s) THEN s[i] ELSE t[i - Len(s)]
  BY ConcatProperties
<1> DEFINE u == s \o t
<1> HIDE DEF u
<1>2. SUFFICES ASSUME NEW i \in 1..(Len(s) + Len(t)), NEW k \in 1..(Len(s) + Len(t)), u[i] = u[k]
               PROVE  i = k
  BY <1>1 DEF IsInjective, u
<1>3. \A j \in 1..(Len(s) + Len(t)) :
        \/ j <= Len(s) /\ j \in DOMAIN s /\ u[j] = s[j] /\ u[j] \in ToSet(s)
        \/ ~ (j <= Len(s)) /\ j - Len(s) \in DOMAIN t /\ u[j] = t[j - Len(s)] /\ u[j] \in ToSet(t)
  BY <1>1 DEF u, ToSet
<1>4. CASE i <= Len(s) /\ k <= Len(s)
  BY <1>2, <1>3, <1>4 DEF IsInjective
<1>5. CASE ~ (i <= Len(s)) /\ ~ (k <= Len(s))
  <2>1. i - Len(s) = k - Len(s)
    BY <1>2, <1>3, <1>5 DEF IsInjective
  <2>2. QED
    BY <1>1, <2>1
<1>6. CASE ~ (i <= Len(s) <=> k <= Len(s))
  BY <1>2, <1>3, <1>6
<1>7. QED
  BY <1>4, <1>5, <1>6

\* FlattenSeq says nothing twice if no sequence does and no two have anything in common.
LEMMA FlattenInjective ==
  ASSUME NEW T, NEW seqs \in Seq(Seq(T)), \A i \in DOMAIN seqs : IsInjective(seqs[i]),
         \A i, k \in DOMAIN seqs : i # k => \A x : ~ (x \in ToSet(seqs[i]) /\ x \in ToSet(seqs[k]))
  PROVE  IsInjective(FlattenSeq(seqs))
<1> DEFINE n == Len(seqs)
           g == Flatten(seqs)
           S == {m \in Nat : m \in 1..n => IsInjective(g[m])}
<1>1. n \in Nat /\ seqs \in [1..n -> Seq(T)] /\ DOMAIN seqs = 1..n
  BY LenProperties
<1>2. g \in [1..n -> Seq(T)] /\ Stages(seqs, n, g)
  BY FlattenDefined
<1>3. \A m \in 1..n : \A x : x \in ToSet(g[m]) <=> (\E i \in 1..m : x \in ToSet(seqs[i]))
  BY FlattenSoFar
<1>4. FlattenSeq(seqs) = IF n = 0 THEN seqs ELSE g[n]
  BY FlattenDefined
<1> HIDE DEF g
<1>5. 0 \in S
  OBVIOUS
<1>6. ASSUME NEW m \in Nat, m \in S PROVE m + 1 \in S
  <2>1. SUFFICES ASSUME m + 1 \in 1..n PROVE IsInjective(g[m + 1])
    OBVIOUS
  <2>2. seqs[m + 1] \in Seq(T) /\ IsInjective(seqs[m + 1])
    BY <1>1, <2>1
  <2>3. CASE m = 0
    <3>1. 1 \in 1..n /\ m + 1 = 1
      BY <2>1, <2>3
    <3>2. g[m + 1] = seqs[m + 1]
      BY <1>2, <3>1 DEF Stages
    <3>3. QED
      BY <2>2, <3>2
  <2>4. CASE m # 0
    <3>1. m \in 1..n /\ m + 1 # 1 /\ (m + 1) - 1 = m
      BY <1>1, <2>1, <2>4
    <3>2. g[m + 1] = IF m + 1 = 1 THEN seqs[m + 1] ELSE g[(m + 1) - 1] \o seqs[m + 1]
      BY <1>2, <2>1 DEF Stages
    <3>3. g[m + 1] = g[m] \o seqs[m + 1] /\ g[m] \in Seq(T)
      BY <1>2, <3>1, <3>2
    <3>4. IsInjective(g[m])
      BY <1>6, <3>1
    <3>5. \A x : ~ (x \in ToSet(g[m]) /\ x \in ToSet(seqs[m + 1]))
      <4>1. SUFFICES ASSUME NEW x, x \in ToSet(g[m]), x \in ToSet(seqs[m + 1]) PROVE FALSE
        OBVIOUS
      <4>2. PICK i \in 1..m : x \in ToSet(seqs[i])
        BY <1>3, <3>1, <4>1
      <4>3. i \in DOMAIN seqs /\ m + 1 \in DOMAIN seqs /\ i # m + 1
        BY <1>1, <2>1
      <4>4. QED
        BY <4>1, <4>2, <4>3
    <3>6. QED
      BY <2>2, <3>3, <3>4, <3>5, ConcatInjective
  <2>5. QED
    BY <2>3, <2>4
<1> HIDE DEF S
<1>7. \A m \in Nat : m \in S
  BY <1>5, <1>6, AllNumbers
<1>8. CASE n = 0
  <2>1. FlattenSeq(seqs) = seqs /\ DOMAIN seqs = {}
    BY <1>1, <1>4, <1>8
  <2>2. QED
    BY <2>1 DEF IsInjective
<1>9. CASE n # 0
  <2>1. n \in 1..n /\ FlattenSeq(seqs) = g[n]
    BY <1>1, <1>4, <1>9
  <2>2. QED
    BY <1>7, <2>1 DEF S
<1>10. QED
  BY <1>8, <1>9
=============================================================================
