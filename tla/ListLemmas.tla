----------------------------- MODULE ListLemmas -----------------------------
(***************************************************************************)
(* Queues in which nothing occurs twice: what the jobs of ThreadPool and   *)
(* the handles of Prefetcher do when one is put in or taken out.           *)
(***************************************************************************)
EXTENDS Integers, Sequences, SequencesExt, SequenceTheorems, WellFoundedInduction,
        FiniteSets, FiniteSetTheorems, TLAPS

(* An element appended to a sequence without it is in it once.             *)
LEMMA AppendedOnce ==
  ASSUME NEW S, NEW s \in Seq(S), IsInjective(s), NEW x \in S, x \notin ToSet(s)
  PROVE  ToSet(Append(s, x)) = ToSet(s) \cup {x} /\ IsInjective(Append(s, x))
  <1> DEFINE r == Append(s, x)
  <1>1. Len(s) \in Nat /\ DOMAIN s = 1 .. Len(s)
    BY LenProperties
  <1>2. DOMAIN r = 1 .. Len(s) + 1
    OBVIOUS
  <1>3. \A i \in 1 .. Len(s) : r[i] = s[i] /\ s[i] # x
    BY <1>1 DEF ToSet
  <1>4. r[Len(s) + 1] = x
    OBVIOUS
  <1>5. \A i \in 1 .. Len(s) + 1 : i \in 1 .. Len(s) \/ i = Len(s) + 1
    BY <1>1
  <1>6. 1 .. Len(s) \subseteq 1 .. Len(s) + 1 /\ Len(s) + 1 \in 1 .. Len(s) + 1
    BY <1>1
  <1> HIDE DEF r
  <1>7. ToSet(r) = ToSet(s) \cup {x}
    BY <1>1, <1>2, <1>3, <1>4, <1>5, <1>6 DEF ToSet
  <1>8. IsInjective(r)
    BY <1>1, <1>2, <1>3, <1>4, <1>5 DEF IsInjective
  <1>9. QED
    BY <1>7, <1>8 DEF r

(* The first element taken from a sequence without repetitions is gone.    *)
LEMMA HeadTaken ==
  ASSUME NEW S, NEW s \in Seq(S), IsInjective(s), s # << >>
  PROVE  /\ ToSet(Tail(s)) = ToSet(s) \ {s[1]} /\ IsInjective(Tail(s))
         /\ s[1] \in ToSet(s)
  <1> DEFINE r == Tail(s)
             n == Len(s)
  <1>1. n \in Nat \ {0} /\ DOMAIN s = 1 .. n
    BY LenProperties, EmptySeq
  <1>2. /\ DOMAIN r = 1 .. n - 1 /\ \A i \in 1 .. n - 1 : r[i] = s[i + 1]
    <2>1. r \in Seq(S) /\ Len(r) = n - 1 /\ \A i \in 1 .. n - 1 : r[i] = s[i + 1]
      BY HeadTailProperties
    <2>2. QED
      BY <2>1, LenProperties
  <1> HIDE DEF r, n
  <1>3. \A i \in 1 .. n : i = 1 \/ (i - 1 \in 1 .. n - 1 /\ (i - 1) + 1 = i)
    BY <1>1
  <1>4. \A i \in 1 .. n - 1 : i + 1 \in 1 .. n /\ i + 1 # 1
    BY <1>1
  <1>5. 1 \in 1 .. n
    BY <1>1
  <1>6. ToSet(r) = ToSet(s) \ {s[1]}
    <2>1. ASSUME NEW x \in ToSet(r) PROVE x \in ToSet(s) \ {s[1]}
      <3>1. PICK i \in 1 .. n - 1 : x = s[i + 1]
        BY <1>2 DEF ToSet
      <3>2. QED
        BY <3>1, <1>1, <1>4, <1>5 DEF ToSet, IsInjective
    <2>2. ASSUME NEW x \in ToSet(s) \ {s[1]} PROVE x \in ToSet(r)
      <3>1. PICK i \in 1 .. n : x = s[i] /\ i # 1
        BY <1>1 DEF ToSet
      <3>2. x = r[i - 1] /\ i - 1 \in 1 .. n - 1
        BY <3>1, <1>2, <1>3
      <3>3. QED
        BY <3>2, <1>2 DEF ToSet
    <2>3. QED
      BY <2>1, <2>2
  <1>7. IsInjective(r)
    <2>1. ASSUME NEW i \in 1 .. n - 1, NEW j \in 1 .. n - 1, r[i] = r[j] PROVE i = j
      <3>1. i + 1 = j + 1
        BY <2>1, <1>1, <1>2, <1>4 DEF IsInjective
      <3>2. QED
        BY <3>1, <1>1
    <2>2. QED
      BY <2>1, <1>2 DEF IsInjective
  <1>8. s[1] \in ToSet(s)
    BY <1>1, <1>5 DEF ToSet
  <1>9. QED
    BY <1>6, <1>7, <1>8 DEF r

-----------------------------------------------------------------------------
(* Induction and recursion over the naturals, stated with sets instead of  *)
(* predicates so that they can be cited.                                   *)

(* A set with 0 in it that has the successor of each of its naturals has   *)
(* all naturals: the least one missing would have a predecessor.           *)
LEMMA NatIsInductive ==
  ASSUME NEW S, 0 \in S, \A n \in Nat : n \in S => n + 1 \in S
  PROVE  Nat \subseteq S
  <1>1. SUFFICES ASSUME Nat \ S # {} PROVE FALSE
    OBVIOUS
  <1> DEFINE R == OpToRel(<, Nat)
  <1>2. IsWellFoundedOn(R, Nat)
    BY NatLessThanWellFounded
  <1>3. PICK x \in Nat \ S : \A y \in Nat \ S : ~(<<y, x>> \in R)
    <2> HIDE DEF R
    <2>1. QED
      BY <1>1, <1>2, WFMin
  <1>4. \A y \in Nat \ S : ~(y < x)
    BY <1>3 DEF OpToRel
  <1>5. x # 0 /\ x - 1 \in Nat /\ x - 1 < x /\ (x - 1) + 1 = x
    OBVIOUS
  <1>6. x - 1 \in S
    BY <1>4, <1>5
  <1>7. QED
    BY <1>5, <1>6

\* f starts with f0, and each value follows from the one before by a step.
Recursion(f, n, T, f0, step) ==
  /\ f \in [0 .. n -> T]
  /\ f[0] = f0
  /\ \A i \in 1 .. n : f[i] = step[i][f[i - 1]]

(* A function on 0 .. n may be given by its first value and by how each    *)
(* value follows from the one before: it exists.                           *)
LEMMA RecursionExists ==
  ASSUME NEW T, NEW f0 \in T, NEW step \in [Nat -> [T -> T]], NEW n \in Nat
  PROVE  \E f : Recursion(f, n, T, f0, step)
  <1> DEFINE Good(m, f) == f[0] = f0 /\ \A i \in 1 .. m : f[i] = step[i][f[i - 1]]
             S == {m \in Nat : \E f \in [0 .. m -> T] : Good(m, f)}
  <1>1. 0 \in S
    <2> DEFINE f == [i \in 0 .. 0 |-> f0]
    <2>1. f \in [0 .. 0 -> T] /\ Good(0, f)
      OBVIOUS
    <2> HIDE DEF f, Good
    <2>2. QED
      BY <2>1
  <1>2. ASSUME NEW m \in Nat, m \in S PROVE m + 1 \in S
    <2>1. PICK f \in [0 .. m -> T] : Good(m, f)
      BY <1>2
    <2> DEFINE h == [i \in 0 .. m + 1 |-> IF i = m + 1 THEN step[m + 1][f[m]] ELSE f[i]]
    <2>2. step[m + 1][f[m]] \in T
      OBVIOUS
    <2>3. \A i \in 0 .. m + 1 : i # m + 1 => i \in 0 .. m
      OBVIOUS
    <2>4. h \in [0 .. m + 1 -> T]
      BY <2>2, <2>3
    <2>5. h[m + 1] = step[m + 1][f[m]] /\ \A i \in 0 .. m : h[i] = f[i]
      OBVIOUS
    <2> HIDE DEF h
    <2>6. Good(m + 1, h)
      <3>1. h[0] = f0
        BY <2>1, <2>5
      <3>2. ASSUME NEW i \in 1 .. m + 1 PROVE h[i] = step[i][h[i - 1]]
        <4>1. CASE i = m + 1
          <5>1. m \in 0 .. m /\ i - 1 = m
            BY <4>1
          <5>2. QED
            BY <4>1, <5>1, <2>5
        <4>2. CASE i # m + 1
          <5>1. i \in 1 .. m /\ i \in 0 .. m /\ i - 1 \in 0 .. m
            BY <4>2
          <5>2. QED
            BY <5>1, <2>1, <2>5
        <4>3. QED
          BY <4>1, <4>2
      <3>3. QED
        BY <3>1, <3>2
    <2> HIDE DEF Good
    <2>7. QED
      BY <2>4, <2>6
  <1> HIDE DEF S
  <1>3. n \in S
    BY <1>1, <1>2, NatIsInductive
  <1>4. QED
    BY <1>3 DEF S, Recursion

-----------------------------------------------------------------------------
(* Lists: what moving to the front, unlinking and cutting off do.          *)

(* A sequence without repetitions is as long as it has elements.           *)
LEMMA LengthCounts ==
  ASSUME NEW S, NEW s \in Seq(S), IsInjective(s)
  PROVE  IsFiniteSet(ToSet(s)) /\ Cardinality(ToSet(s)) = Len(s)
  <1> DEFINE n == Len(s)
  <1>1. n \in Nat /\ DOMAIN s = 1 .. n /\ s \in [1 .. n -> S]
    BY LenProperties
  <1> HIDE DEF n
  <1>2. s \in [1 .. n -> ToSet(s)]
    BY <1>1 DEF ToSet
  <1>3. s \in Bijection(1 .. n, ToSet(s))
    BY <1>1, <1>2 DEF Bijection, Injection, Surjection, IsInjective, ToSet
  <1>4. ExistsBijection(1 .. n, ToSet(s))
    BY <1>3 DEF ExistsBijection
  <1>5. IsFiniteSet(1 .. n) /\ Cardinality(1 .. n) = n
    <2>1. Cardinality(1 .. n) = IF 1 > n THEN 0 ELSE n - 1 + 1
      BY <1>1, FS_Interval
    <2>2. QED
      BY <2>1, <1>1, FS_Interval
  <1>6. QED
    BY <1>4, <1>5, FS_Bijection DEF n

(* An element put before a sequence that has not got it.                   *)
LEMMA PutInFront ==
  ASSUME NEW S, NEW s \in Seq(S), NEW x \in S
  PROVE  /\ <<x>> \o s \in Seq(S) /\ Len(<<x>> \o s) = Len(s) + 1
         /\ (<<x>> \o s)[1] = x
         /\ \A i \in 1 .. Len(s) : (<<x>> \o s)[i + 1] = s[i]
         /\ ToSet(<<x>> \o s) = ToSet(s) \cup {x}
         /\ IsInjective(s) /\ x \notin ToSet(s) => IsInjective(<<x>> \o s)
  <1> DEFINE r == <<x>> \o s
             n == Len(s)
  <1>1. n \in Nat /\ DOMAIN s = 1 .. n
    BY LenProperties
  <1>2. <<x>> \in Seq(S) /\ Len(<<x>>) = 1 /\ <<x>>[1] = x
    OBVIOUS
  <1>3. r \in Seq(S) /\ Len(r) = 1 + n
        /\ \A i \in 1 .. 1 + n : r[i] = IF i <= 1 THEN <<x>>[i] ELSE s[i - 1]
    BY <1>2, ConcatProperties
  <1>4. DOMAIN r = 1 .. n + 1 /\ Len(r) = n + 1
    <2>1. DOMAIN r = 1 .. Len(r)
      BY <1>3, LenProperties
    <2>2. QED
      BY <2>1, <1>1, <1>3
  <1> HIDE DEF r, n
  <1>5. r[1] = x
    BY <1>1, <1>2, <1>3
  <1>6. \A i \in 1 .. n : r[i + 1] = s[i]
    BY <1>1, <1>3
  <1>7. /\ \A j \in 1 .. n + 1 : j = 1 \/ \E i \in 1 .. n : j = i + 1
        /\ \A i \in 1 .. n : i + 1 \in 1 .. n + 1 /\ i + 1 # 1
        /\ 1 \in 1 .. n + 1
    <2>1. ASSUME NEW j \in 1 .. n + 1, j # 1 PROVE j - 1 \in 1 .. n /\ j = (j - 1) + 1
      BY <1>1, <2>1
    <2>2. QED
      BY <1>1, <2>1
  <1>8. ToSet(r) = ToSet(s) \cup {x}
    <2>1. ASSUME NEW y \in ToSet(r) PROVE y \in ToSet(s) \cup {x}
      <3>1. PICK j \in 1 .. n + 1 : y = r[j]
        BY <1>4 DEF ToSet
      <3>2. CASE j = 1
        BY <3>1, <3>2, <1>5
      <3>3. CASE j # 1
        <4>1. PICK i \in 1 .. n : j = i + 1
          BY <3>3, <1>7
        <4>2. y = s[i] /\ i \in DOMAIN s
          BY <3>1, <4>1, <1>1, <1>6
        <4>3. QED
          BY <4>2 DEF ToSet
      <3>4. QED
        BY <3>2, <3>3
    <2>2. ASSUME NEW y \in ToSet(s) PROVE y \in ToSet(r)
      <3>1. PICK i \in 1 .. n : y = s[i]
        BY <1>1 DEF ToSet
      <3>2. y = r[i + 1] /\ i + 1 \in DOMAIN r
        BY <3>1, <1>4, <1>6, <1>7
      <3>3. QED
        BY <3>2 DEF ToSet
    <2>3. x \in ToSet(r)
      BY <1>4, <1>5, <1>7 DEF ToSet
    <2>4. QED
      BY <2>1, <2>2, <2>3
  <1>9. ASSUME IsInjective(s), x \notin ToSet(s) PROVE IsInjective(r)
    <2>1. \A i \in 1 .. n : s[i] # x
      BY <1>1, <1>9 DEF ToSet
    <2>2. \A i, j \in 1 .. n : s[i] = s[j] => i = j
      BY <1>1, <1>9 DEF IsInjective
    <2>3. \A i, j \in 1 .. n + 1 : r[i] = r[j] => i = j
      BY <1>5, <1>6, <1>7, <2>1, <2>2
    <2>4. QED
      BY <2>3, <1>4 DEF IsInjective
  <1>10. QED
    BY <1>3, <1>4, <1>5, <1>6, <1>8, <1>9 DEF r, n

(* One position taken out.                                                 *)
LEMMA TakenOut ==
  ASSUME NEW S, NEW s \in Seq(S), NEW p \in 1 .. Len(s)
  PROVE  /\ RemoveAt(s, p) \in Seq(S) /\ Len(RemoveAt(s, p)) = Len(s) - 1
         /\ \A i \in 1 .. Len(s) - 1 :
              RemoveAt(s, p)[i] = IF i < p THEN s[i] ELSE s[i + 1]
  <1> DEFINE n == Len(s)
             a == SubSeq(s, 1, p - 1)
             b == SubSeq(s, p + 1, n)
  <1>1. n \in Nat /\ \A i \in 1 .. n : s[i] \in S
    BY LenProperties, ElementOfSeq
  <1> HIDE DEF n
  <1>2. p \in Nat /\ 1 <= p /\ p <= n
    BY <1>1 DEF n
  <1>3. a \in Seq(S) /\ Len(a) = p - 1 /\ \A i \in 1 .. p - 1 : a[i] = s[i]
    <2>1. \A i \in 1 .. p - 1 : s[i] \in S
      BY <1>1, <1>2
    <2>2. /\ a \in Seq(S) /\ Len(a) = IF 1 <= p - 1 THEN (p - 1) - 1 + 1 ELSE 0
          /\ \A i \in 1 .. (p - 1) - 1 + 1 : a[i] = s[1 + i - 1]
      BY <2>1, <1>2, SubSeqProperties
    <2>3. QED
      BY <2>2, <1>2
  <1>4. b \in Seq(S) /\ Len(b) = n - p /\ \A i \in 1 .. n - p : b[i] = s[p + i]
    <2>1. \A i \in p + 1 .. n : s[i] \in S
      BY <1>1, <1>2
    <2>2. /\ b \in Seq(S) /\ Len(b) = IF p + 1 <= n THEN n - (p + 1) + 1 ELSE 0
          /\ \A i \in 1 .. n - (p + 1) + 1 : b[i] = s[(p + 1) + i - 1]
      BY <2>1, <1>1, <1>2, SubSeqProperties
    <2>3. QED
      BY <2>2, <1>1, <1>2
  <1> HIDE DEF a, b
  <1>5. /\ a \o b \in Seq(S) /\ Len(a \o b) = Len(a) + Len(b)
        /\ \A i \in 1 .. Len(a) + Len(b) :
             (a \o b)[i] = IF i <= Len(a) THEN a[i] ELSE b[i - Len(a)]
    BY <1>3, <1>4, ConcatProperties
  <1>6. Len(a \o b) = n - 1
    BY <1>1, <1>2, <1>3, <1>4, <1>5
  <1>7. ASSUME NEW i \in 1 .. n - 1
        PROVE  (a \o b)[i] = IF i < p THEN s[i] ELSE s[i + 1]
    <2>1. (a \o b)[i] = IF i <= p - 1 THEN a[i] ELSE b[i - (p - 1)]
      <3> DEFINE c == a \o b
      <3>1. \A j \in 1 .. (p - 1) + (n - p) :
              c[j] = IF j <= p - 1 THEN a[j] ELSE b[j - (p - 1)]
        BY <1>3, <1>4, <1>5
      <3>2. i \in 1 .. (p - 1) + (n - p)
        BY <1>1, <1>2
      <3> HIDE DEF c
      <3>3. c[i] = IF i <= p - 1 THEN a[i] ELSE b[i - (p - 1)]
        BY <3>1, <3>2
      <3>4. QED
        BY <3>3 DEF c
    <2>2. CASE i < p
      BY <2>1, <2>2, <1>1, <1>2, <1>3
    <2>3. CASE ~(i < p)
      <3>1. i - (p - 1) \in 1 .. n - p /\ p + (i - (p - 1)) = i + 1
        BY <2>3, <1>1, <1>2
      <3>2. b[i - (p - 1)] = s[i + 1]
        BY <3>1, <1>4
      <3>3. QED
        BY <2>1, <2>3, <3>2, <1>1, <1>2
    <2>4. QED
      BY <2>2, <2>3
  <1>8. QED
    BY <1>5, <1>6, <1>7 DEF RemoveAt, a, b, n

(* What lies beyond the first cap elements cut off.                        *)
LEMMA CutOff ==
  ASSUME NEW S, NEW s \in Seq(S), NEW m \in Nat, m <= Len(s)
  PROVE  /\ SubSeq(s, 1, m) \in Seq(S) /\ Len(SubSeq(s, 1, m)) = m
         /\ \A i \in 1 .. m : SubSeq(s, 1, m)[i] = s[i]
  <1>1. Len(s) \in Nat /\ \A i \in 1 .. Len(s) : s[i] \in S
    BY LenProperties, ElementOfSeq
  <1>2. \A i \in 1 .. m : s[i] \in S
    BY <1>1
  <1>3. /\ SubSeq(s, 1, m) \in Seq(S)
        /\ Len(SubSeq(s, 1, m)) = IF 1 <= m THEN m - 1 + 1 ELSE 0
        /\ \A i \in 1 .. m - 1 + 1 : SubSeq(s, 1, m)[i] = s[1 + i - 1]
    BY <1>2, SubSeqProperties
  <1>4. QED
    BY <1>3
=============================================================================
