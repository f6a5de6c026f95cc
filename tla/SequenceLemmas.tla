--------------------------- MODULE SequenceLemmas ---------------------------
(***************************************************************************)
(* Facts about sequences that the proofs of several modules rest on: they  *)
(* hold for sequences of any elements, since the entries of a stack map    *)
(* and the instructions of a block are opaque.  Induction over natural     *)
(* numbers is done with a least counterexample.                            *)
(***************************************************************************)
EXTENDS Integers, Sequences, SequencesExt, SequenceTheorems, WellFoundedInduction, TLAPS

\* A sequence, whatever its elements are.
IsSeq(s) == Len(s) \in Nat /\ s = [i \in 1..Len(s) |-> s[i]]

\* A set of natural numbers has a least one.
LEMMA LeastNatural ==
  ASSUME NEW T \in SUBSET Nat, T # {}
  PROVE  \E x \in T : \A y \in T : x <= y
<1> DEFINE R == {p \in Nat \X Nat : p[1] < p[2]}
<1>1. R = OpToRel(<, Nat)
  BY DEF OpToRel
<1>2. IsWellFoundedOn(R, Nat)
  BY Zenon, <1>1, NatLessThanWellFounded
<1> HIDE DEF R
<1>3. PICK x \in T : \A y \in T : ~(<<y, x>> \in R)
  BY <1>2, WFMin
<1>4. ASSUME NEW y \in T PROVE x <= y
  <2>1. <<y, x>> \notin R
    BY <1>3
  <2>2. <<y, x>> \in Nat \X Nat /\ <<y, x>>[1] = y /\ <<y, x>>[2] = x
    OBVIOUS
  <2>3. ~(y < x)
    BY <2>1, <2>2 DEF R
  <2> QED BY <2>3
<1> QED BY <1>4

\* Induction over an interval, for a set of numbers.
LEMMA IntervalInduction ==
  ASSUME NEW a \in Nat, NEW b \in Nat, NEW P, a \in P,
         \A n \in a..(b - 1) : n \in P => n + 1 \in P
  PROVE  \A n \in a..b : n \in P
<1> SUFFICES ASSUME NEW n \in a..b, n \notin P PROVE FALSE
  OBVIOUS
<1> DEFINE T == {m \in a..b : m \notin P}
<1>1. T \in SUBSET Nat /\ T # {}
  OBVIOUS
<1> HIDE DEF T
<1>2. PICK x \in T : \A y \in T : x <= y
  BY <1>1, LeastNatural
<1>3. x \in a..b /\ x \notin P
  BY DEF T
<1>4. x - 1 \in a..(b - 1)
  BY <1>3
<1>5. x - 1 \in P
  BY <1>2, <1>3, <1>4 DEF T
<1> QED BY <1>3, <1>4, <1>5

\* A sequence is one over the set of its elements.
LEMMA SeqOverElements ==
  ASSUME NEW s, IsSeq(s), NEW S, \A i \in 1..Len(s) : s[i] \in S
  PROVE  s \in Seq(S)
<1>1. Len(s) \in Nat /\ s \in [1..Len(s) -> S]
  BY DEF IsSeq
<1> QED BY <1>1

\* What Seq(S) means for its elements.
LEMMA IsSeqOfSeq ==
  ASSUME NEW S, NEW s \in Seq(S)
  PROVE  IsSeq(s)
<1>1. Len(s) \in Nat /\ s \in [1..Len(s) -> S]
  BY LenProperties
<1> QED BY <1>1 DEF IsSeq

\* A function on 1..n is a sequence of length n.
LEMMA FunctionIsSeq ==
  ASSUME NEW n \in Nat, NEW s, s = [i \in 1..n |-> s[i]]
  PROVE  IsSeq(s) /\ Len(s) = n
<1> DEFINE S == {s[i] : i \in 1..n}
<1>1. s \in [1..n -> S]
  OBVIOUS
<1> HIDE DEF S
<1>2. s \in Seq(S) /\ Len(s) = n
  BY <1>1
<1> QED BY <1>2, IsSeqOfSeq

\* Equal sequences.
LEMMA SeqsEqual ==
  ASSUME NEW s, NEW t, IsSeq(s), IsSeq(t), Len(s) = Len(t),
         \A i \in 1..Len(s) : s[i] = t[i]
  PROVE  s = t
<1>1. s = [i \in 1..Len(s) |-> s[i]] /\ t = [i \in 1..Len(s) |-> t[i]]
  BY DEF IsSeq
<1>2. [i \in 1..Len(s) |-> s[i]] = [i \in 1..Len(s) |-> t[i]]
  OBVIOUS
<1> QED BY Zenon, <1>1, <1>2

\* Appending to a sequence.
LEMMA AppendAny ==
  ASSUME NEW s, IsSeq(s), NEW e
  PROVE  /\ IsSeq(Append(s, e))
         /\ Len(Append(s, e)) = Len(s) + 1
         /\ \A i \in 1..Len(s) : Append(s, e)[i] = s[i]
         /\ Append(s, e)[Len(s) + 1] = e
<1> DEFINE S == {s[i] : i \in 1..Len(s)} \cup {e}
<1>1. s \in Seq(S) /\ e \in S
  BY SeqOverElements
<1> HIDE DEF S
<1>2. /\ Append(s, e) \in Seq(S)
      /\ Len(Append(s, e)) = Len(s) + 1
      /\ \A i \in 1..Len(s) : Append(s, e)[i] = s[i]
      /\ Append(s, e)[Len(s) + 1] = e
  BY <1>1, AppendProperties
<1> QED
  BY <1>2, IsSeqOfSeq

\* One sequence after another.
LEMMA ConcatAny ==
  ASSUME NEW s, NEW t, IsSeq(s), IsSeq(t)
  PROVE  /\ IsSeq(s \o t)
         /\ Len(s \o t) = Len(s) + Len(t)
         /\ \A i \in 1..Len(s) : (s \o t)[i] = s[i]
         /\ \A i \in 1..Len(t) : (s \o t)[Len(s) + i] = t[i]
<1> DEFINE S == {s[i] : i \in 1..Len(s)} \cup {t[i] : i \in 1..Len(t)}
<1>1. s \in Seq(S) /\ t \in Seq(S)
  BY SeqOverElements
<1> HIDE DEF S
<1>2. /\ s \o t \in Seq(S)
      /\ Len(s \o t) = Len(s) + Len(t)
      /\ \A i \in 1..(Len(s) + Len(t)) :
           (s \o t)[i] = IF i <= Len(s) THEN s[i] ELSE t[i - Len(s)]
  BY <1>1, ConcatProperties
<1>3. Len(s) \in Nat /\ Len(t) \in Nat
  BY DEF IsSeq
<1>4. ASSUME NEW i \in 1..Len(t) PROVE (s \o t)[Len(s) + i] = t[i]
  <2>1. /\ Len(s) + i \in 1..(Len(s) + Len(t)) /\ ~(Len(s) + i <= Len(s))
        /\ Len(s) + i - Len(s) = i
    BY <1>3
  <2> QED BY <1>2, <2>1
<1>5. \A i \in 1..Len(s) : (s \o t)[i] = s[i]
  BY <1>2, <1>3
<1> QED
  BY <1>2, <1>4, <1>5, IsSeqOfSeq

-----------------------------------------------------------------------------
(***************************************************************************)
(* The prefixes of FlattenSeq(ss): the function it is defined with exists. *)
(***************************************************************************)
LEMMA FlattenPrefixes ==
  ASSUME NEW ss, IsSeq(ss)
  PROVE  \E pre : /\ pre = [i \in 1..Len(ss) |-> IF i = 1 THEN ss[i] ELSE pre[i - 1] \o ss[i]]
                  /\ Len(ss) # 0 => FlattenSeq(ss) = pre[Len(ss)]
<1> DEFINE N == Len(ss)
           Def(f, i) == IF i = 1 THEN ss[i] ELSE f[i - 1] \o ss[i]
           P == {n \in 0..N : \E f : f = [i \in 1..n |-> Def(f, i)]}
<1>1. N \in Nat
  BY DEF IsSeq
<1> HIDE DEF N
<1>2. 0 \in P
  <2> DEFINE f == [i \in 1..0 |-> ss[i]]
  <2>1. f = [i \in 1..0 |-> Def(f, i)]
    OBVIOUS
  <2>2. 0 \in 0..N
    BY <1>1
  <2> HIDE DEF f, Def
  <2> QED BY <2>1, <2>2
<1>3. ASSUME NEW n \in 0..(N - 1), n \in P PROVE n + 1 \in P
  <2>1. PICK f : f = [i \in 1..n |-> Def(f, i)]
    BY <1>3
  <2> DEFINE g == [i \in 1..(n + 1) |-> IF i = n + 1 THEN Def(f, i) ELSE f[i]]
  <2>2. ASSUME NEW i \in 1..(n + 1) PROVE g[i] = Def(g, i)
    <3>1. i # 1 => i - 1 \in 1..n /\ g[i - 1] = f[i - 1]
      BY <1>1
    <3>2. Def(g, i) = Def(f, i)
      <4> HIDE DEF g
      <4> QED BY <3>1
    <3>3. i # n + 1 => i \in 1..n /\ f[i] = Def(f, i)
      <4> SUFFICES ASSUME i # n + 1 PROVE i \in 1..n /\ f[i] = Def(f, i)
        OBVIOUS
      <4>1. i \in 1..n
        BY <1>1
      <4> HIDE DEF Def
      <4> QED BY <2>1, <4>1
    <3> HIDE DEF Def
    <3> QED BY <3>2, <3>3
  <2>3. g = [i \in 1..(n + 1) |-> g[i]]
    OBVIOUS
  <2> HIDE DEF g, Def
  <2>4. [i \in 1..(n + 1) |-> g[i]] = [i \in 1..(n + 1) |-> Def(g, i)]
    BY <2>2
  <2>5. g = [i \in 1..(n + 1) |-> Def(g, i)]
    BY Zenon, <2>3, <2>4
  <2>6. n + 1 \in 0..N
    BY <1>1
  <2> QED BY <2>5, <2>6
<1> HIDE DEF P
<1>4. N \in P
  <2>1. 0 \in Nat /\ N \in 0..N /\ \A n \in 0..(N - 1) : n \in P => n + 1 \in P
    BY <1>1, <1>3
  <2> HIDE DEF Def
  <2> QED BY Zenon, <1>1, <1>2, <2>1, IntervalInduction
<1> DEFINE pre == CHOOSE f : f = [i \in 1..N |-> Def(f, i)]
<1>5. pre = [i \in 1..N |-> Def(pre, i)]
  <2>1. \E f : f = [i \in 1..N |-> Def(f, i)]
    BY Zenon, <1>4 DEF P
  <2> QED BY Zenon, <2>1
<1>6. N # 0 => FlattenSeq(ss) = pre[N]
  BY Zenon DEF FlattenSeq, N
<1> HIDE DEF pre
<1> QED BY Zenon, <1>5, <1>6 DEF N

\* Short sequences.
LEMMA TupleIsSeq ==
  ASSUME NEW a, NEW b, NEW c, NEW d
  PROVE  /\ IsSeq(<<a>>) /\ Len(<<a>>) = 1
         /\ IsSeq(<<a, b>>) /\ Len(<<a, b>>) = 2
         /\ IsSeq(<<a, b, c>>) /\ Len(<<a, b, c>>) = 3
         /\ IsSeq(<<a, b, c, d>>) /\ Len(<<a, b, c, d>>) = 4
<1> DEFINE S == {a, b, c, d}
<1>1. <<a>> \in Seq(S) /\ <<a, b>> \in Seq(S) /\ <<a, b, c>> \in Seq(S) /\ <<a, b, c, d>> \in Seq(S)
  OBVIOUS
<1> HIDE DEF S
<1> QED BY <1>1, IsSeqOfSeq

\* A part of a sequence.
LEMMA SubSeqAny ==
  ASSUME NEW s, NEW m \in Nat \ {0}, NEW n \in Nat, m <= n + 1
  PROVE  /\ IsSeq(SubSeq(s, m, n))
         /\ Len(SubSeq(s, m, n)) = (n + 1) - m
         /\ \A i \in 1..((n + 1) - m) : SubSeq(s, m, n)[i] = s[(m + i) - 1]
<1> DEFINE S == {s[i] : i \in m..n}
           t == SubSeq(s, m, n)
<1>1. \A i \in m..n : s[i] \in S
  OBVIOUS
<1> HIDE DEF S
<1>2. /\ t \in Seq(S)
      /\ Len(t) = IF m <= n THEN n - m + 1 ELSE 0
      /\ \A i \in 1..(n - m + 1) : t[i] = s[m + i - 1]
  BY <1>1, SubSeqProperties
<1> HIDE DEF t
<1>3. IsSeq(t)
  BY <1>2, IsSeqOfSeq
<1>4. /\ n - m + 1 = (n + 1) - m /\ ~(m <= n) => (n + 1) - m = 0
      /\ \A i \in 1..((n + 1) - m) : m + i - 1 = (m + i) - 1
  OBVIOUS
<1>5. Len(t) = (n + 1) - m
  BY <1>2, <1>4
<1>6. \A i \in 1..((n + 1) - m) : t[i] = s[(m + i) - 1]
  BY <1>2, <1>4
<1> QED BY <1>3, <1>5, <1>6 DEF t

\* A sequence without its first element.
LEMMA TailAny ==
  ASSUME NEW s, IsSeq(s), s # <<>>
  PROVE  /\ Len(s) > 0 /\ Head(s) = s[1]
         /\ IsSeq(Tail(s)) /\ Len(Tail(s)) = Len(s) - 1
         /\ \A i \in 1..(Len(s) - 1) : Tail(s)[i] = s[i + 1]
<1> DEFINE S == {s[i] : i \in 1..Len(s)}
           t == Tail(s)
<1>1. s \in Seq(S)
  BY SeqOverElements
<1> HIDE DEF S
<1>2. /\ t \in Seq(S) /\ Len(t) = Len(s) - 1
      /\ \A i \in 1..Len(t) : t[i] = s[i + 1]
  BY <1>1, HeadTailProperties
<1>3. Len(s) \in Nat /\ Len(s) > 0
  BY <1>1
<1>4. Head(s) = s[1]
  BY <1>1
<1> HIDE DEF t
<1>5. IsSeq(t)
  BY <1>2, IsSeqOfSeq
<1> QED BY <1>2, <1>3, <1>4, <1>5 DEF t

-----------------------------------------------------------------------------
\* The sums of the prefixes of a sequence of numbers.
Sums(c) ==
  LET sum[i \in 0..Len(c)] == IF i = 0 THEN 0 ELSE sum[i - 1] + c[i]
  IN  sum

\* What the partial sums of a sequence of numbers are.
LEMMA SumsProperties ==
  ASSUME NEW c, IsSeq(c), \A i \in 1..Len(c) : c[i] \in Nat
  PROVE  /\ Sums(c) \in [0..Len(c) -> Nat]
         /\ Sums(c)[0] = 0
         /\ \A i \in 1..Len(c) : Sums(c)[i] = Sums(c)[i - 1] + c[i]
         /\ \A i, j \in 0..Len(c) : i <= j => Sums(c)[i] <= Sums(c)[j]
<1> DEFINE N == Len(c)
           Def(f, i) == IF i = 0 THEN 0 ELSE f[i - 1] + c[i]
           P == {n \in 0..N : \E f : f = [i \in 0..n |-> Def(f, i)]}
<1>1. N \in Nat
  BY DEF IsSeq
<1> HIDE DEF N
<1>2. 0 \in P
  <2> DEFINE f == [i \in 0..0 |-> 0]
  <2>1. f = [i \in 0..0 |-> Def(f, i)]
    OBVIOUS
  <2>2. 0 \in 0..N
    BY <1>1
  <2> HIDE DEF f, Def
  <2> QED BY <2>1, <2>2
<1>3. ASSUME NEW n \in 0..(N - 1), n \in P PROVE n + 1 \in P
  <2>1. PICK f : f = [i \in 0..n |-> Def(f, i)]
    BY <1>3
  <2> DEFINE g == [i \in 0..(n + 1) |-> IF i = n + 1 THEN Def(f, i) ELSE f[i]]
  <2>2. ASSUME NEW i \in 0..(n + 1) PROVE g[i] = Def(g, i)
    <3>1. i # 0 => i - 1 \in 0..n /\ g[i - 1] = f[i - 1]
      BY <1>1
    <3>2. Def(g, i) = Def(f, i)
      <4> HIDE DEF g
      <4> QED BY <3>1
    <3>3. i # n + 1 => f[i] = Def(f, i)
      <4> SUFFICES ASSUME i # n + 1 PROVE f[i] = Def(f, i)
        OBVIOUS
      <4>1. i \in 0..n
        BY <1>1
      <4> HIDE DEF Def
      <4> QED BY <2>1, <4>1
    <3> HIDE DEF Def
    <3> QED BY <3>2, <3>3
  <2>3. g = [i \in 0..(n + 1) |-> g[i]]
    OBVIOUS
  <2> HIDE DEF g, Def
  <2>4. [i \in 0..(n + 1) |-> g[i]] = [i \in 0..(n + 1) |-> Def(g, i)]
    BY <2>2
  <2>5. g = [i \in 0..(n + 1) |-> Def(g, i)]
    BY Zenon, <2>3, <2>4
  <2>6. n + 1 \in 0..N
    BY <1>1
  <2> QED BY <2>5, <2>6
<1> HIDE DEF P
<1>4. N \in P
  <2>1. 0 \in Nat /\ N \in 0..N /\ \A n \in 0..(N - 1) : n \in P => n + 1 \in P
    BY <1>1, <1>3
  <2> HIDE DEF Def
  <2> QED BY Zenon, <1>1, <1>2, <2>1, IntervalInduction
<1> DEFINE sum == Sums(c)
<1>5. sum = [i \in 0..N |-> Def(sum, i)]
  <2>1. \E f : f = [i \in 0..N |-> Def(f, i)]
    BY Zenon, <1>4 DEF P
  <2>2. sum = CHOOSE f : f = [i \in 0..N |-> Def(f, i)]
    BY Zenon DEF Sums, N
  <2> HIDE DEF sum
  <2> QED BY Zenon, <2>1, <2>2
<1> HIDE DEF sum
<1>6. sum[0] = 0 /\ DOMAIN sum = 0..N
  BY <1>1, <1>5
<1>7. ASSUME NEW i \in 1..N PROVE sum[i] = sum[i - 1] + c[i]
  <2>1. i \in 0..N /\ i # 0
    BY <1>1
  <2> QED BY <1>5, <2>1
<1>8. \A i \in 0..N : sum[i] \in Nat
  <2> DEFINE Q == {i \in 0..N : sum[i] \in Nat}
  <2>1. 0 \in Q
    BY <1>1, <1>6
  <2>2. ASSUME NEW n \in 0..(N - 1), n \in Q PROVE n + 1 \in Q
    <3>1. n + 1 \in 1..N /\ n + 1 \in 0..N /\ (n + 1) - 1 = n
      BY <1>1
    <3> QED BY <1>7, <2>2, <3>1 DEF N
  <2> HIDE DEF Q
  <2>3. \A i \in 0..N : i \in Q
    <3>1. 0 \in Nat /\ \A n \in 0..(N - 1) : n \in Q => n + 1 \in Q
      BY <2>2
    <3> HIDE DEF Def
    <3> QED BY Zenon, <1>1, <2>1, <3>1, IntervalInduction
  <2> QED BY <2>3 DEF Q
<1>9. ASSUME NEW i \in 0..N PROVE \A j \in i..N : sum[i] <= sum[j]
  <2> DEFINE Q == {j \in i..N : sum[i] <= sum[j]}
  <2>1. i \in Q
    BY <1>1, <1>8
  <2>2. ASSUME NEW n \in i..(N - 1), n \in Q PROVE n + 1 \in Q
    <3>1. /\ n + 1 \in 1..N /\ n + 1 \in 0..N /\ (n + 1) - 1 = n
          /\ n \in 0..N /\ n + 1 \in i..N
      BY <1>1
    <3>2. sum[n + 1] = sum[n] + c[n + 1] /\ c[n + 1] \in Nat
      BY <1>7, <3>1 DEF N
    <3> QED BY <1>8, <2>2, <3>1, <3>2
  <2> HIDE DEF Q
  <2>3. \A j \in i..N : j \in Q
    <3>1. i \in Nat /\ \A n \in i..(N - 1) : n \in Q => n + 1 \in Q
      BY <1>1, <2>2
    <3> HIDE DEF Def
    <3> QED BY Zenon, <1>1, <2>1, <3>1, IntervalInduction
  <2> QED BY <2>3 DEF Q
<1>10. sum = [i \in 0..N |-> sum[i]]
  <2> HIDE DEF Def
  <2> QED BY <1>5
<1> QED
  <2>1. sum \in [0..N -> Nat]
    BY <1>8, <1>10
  <2>2. \A i, j \in 0..N : i <= j => sum[i] <= sum[j]
    BY <1>1, <1>9
  <2> QED BY <1>6, <1>7, <2>1, <2>2 DEF N, sum

(***************************************************************************)
(* Where the sequences of ss start in FlattenSeq(ss), which consists of    *)
(* their elements and of nothing else.                                     *)
(***************************************************************************)
Starts(ss) == Sums([i \in 1..Len(ss) |-> Len(ss[i])])

\* s holds the elements of ss one after the other, those of ss[i] after at[i - 1].
IsFlattened(ss, s, at) ==
  /\ IsSeq(s)
  /\ Len(s) = at[Len(ss)]
  /\ \A i \in 1..Len(ss) : \A m \in 1..Len(ss[i]) : s[at[i - 1] + m] = ss[i][m]
  /\ \A k \in 1..Len(s) : \E i \in 1..Len(ss) : \E m \in 1..Len(ss[i]) : k = at[i - 1] + m
  /\ at \in [0..Len(ss) -> Nat]
  /\ at[0] = 0
  /\ \A i \in 1..Len(ss) : at[i] = at[i - 1] + Len(ss[i])
  /\ \A i, j \in 0..Len(ss) : i <= j => at[i] <= at[j]

\* What FlattenSeq computes.
LEMMA FlattenLayout ==
  ASSUME NEW ss, IsSeq(ss), \A i \in 1..Len(ss) : IsSeq(ss[i])
  PROVE  IsFlattened(ss, FlattenSeq(ss), Starts(ss))
<1> DEFINE N == Len(ss)
           c == [i \in 1..N |-> Len(ss[i])]
           at == Starts(ss)
<1>1. N \in Nat /\ \A i \in 1..N : Len(ss[i]) \in Nat
  BY DEF IsSeq
<1>2. /\ at \in [0..N -> Nat] /\ at[0] = 0
      /\ \A i \in 1..N : at[i] = at[i - 1] + Len(ss[i])
      /\ \A i, j \in 0..N : i <= j => at[i] <= at[j]
  <2>1. IsSeq(c) /\ Len(c) = N
    <3>1. c = [i \in 1..N |-> c[i]]
      OBVIOUS
    <3> HIDE DEF c, N
    <3> QED BY <1>1, <3>1, FunctionIsSeq
  <2>2. \A i \in 1..N : c[i] = Len(ss[i])
    OBVIOUS
  <2>3. at = Sums(c)
    BY DEF Starts
  <2> HIDE DEF c, at, N
  <2> QED BY <1>1, <2>1, <2>2, <2>3, SumsProperties
<1>3. PICK pre : /\ pre = [i \in 1..N |-> IF i = 1 THEN ss[i] ELSE pre[i - 1] \o ss[i]]
                 /\ N # 0 => FlattenSeq(ss) = pre[N]
  BY FlattenPrefixes
<1> HIDE DEF at, N, c
<1>9. \A i \in 1..N : pre[i] = IF i = 1 THEN ss[i] ELSE pre[i - 1] \o ss[i]
  BY Zenon, <1>3
<1> DEFINE Fine(n) ==
             /\ IsSeq(pre[n]) /\ Len(pre[n]) = at[n]
             /\ \A i \in 1..n : \A m \in 1..Len(ss[i]) : pre[n][at[i - 1] + m] = ss[i][m]
             /\ \A k \in 1..at[n] :
                  \E i \in 1..n : \E m \in 1..Len(ss[i]) : k = at[i - 1] + m
<1>4. ASSUME 1 <= N PROVE Fine(1)
  <2>1. /\ 1 \in 1..N /\ pre[1] = ss[1] /\ IsSeq(ss[1]) /\ at[1] = Len(ss[1])
        /\ Len(ss[1]) \in Nat
    BY <1>1, <1>2, <1>3, <1>4 DEF N
  <2>2. \A i \in 1..1 : i = 1 /\ at[i - 1] = 0
    BY <1>2
  <2> QED BY <2>1, <2>2
<1>5. ASSUME NEW n \in 1..(N - 1), Fine(n) PROVE Fine(n + 1)
  <2>1. /\ n + 1 \in 1..N /\ n + 1 # 1 /\ (n + 1) - 1 = n /\ n \in 0..N /\ n \in 1..N
        /\ n \in Nat
    BY <1>1
  <2>2. pre[n + 1] = pre[n] \o ss[n + 1] /\ IsSeq(ss[n + 1])
    <3>1. pre[n + 1] = pre[(n + 1) - 1] \o ss[n + 1]
      <4> DEFINE q == n + 1
      <4>1. q \in 1..N /\ q # 1
        BY <2>1
      <4>2. pre[q] = pre[q - 1] \o ss[q]
        <5> HIDE DEF q
        <5> QED BY Zenon, <1>9, <4>1
      <4> QED BY <4>2
    <3> QED BY Zenon, <2>1, <3>1 DEF N
  <2>3. IsSeq(pre[n]) /\ Len(pre[n]) = at[n] /\ at[n] \in Nat /\ Len(ss[n + 1]) \in Nat
    BY <1>1, <1>2, <1>5, <2>1
  <2>4. at[n + 1] = at[n] + Len(ss[n + 1])
    BY <1>2, <2>1
  <2>5. /\ IsSeq(pre[n + 1]) /\ Len(pre[n + 1]) = at[n + 1]
        /\ \A i \in 1..at[n] : pre[n + 1][i] = pre[n][i]
        /\ \A i \in 1..Len(ss[n + 1]) : pre[n + 1][at[n] + i] = ss[n + 1][i]
    <3> DEFINE s == pre[n]
               t == ss[n + 1]
    <3>1. /\ IsSeq(s \o t) /\ Len(s \o t) = Len(s) + Len(t)
          /\ \A i \in 1..Len(s) : (s \o t)[i] = s[i]
          /\ \A i \in 1..Len(t) : (s \o t)[Len(s) + i] = t[i]
      <4>1. IsSeq(s) /\ IsSeq(t)
        BY <2>2, <2>3
      <4> HIDE DEF s, t
      <4> QED BY <4>1, ConcatAny
    <3>2. pre[n + 1] = s \o t
      BY <2>2
    <3> QED BY Zenon, <2>3, <2>4, <3>1, <3>2
  <2>6. ASSUME NEW i \in 1..(n + 1), NEW m \in 1..Len(ss[i])
        PROVE  pre[n + 1][at[i - 1] + m] = ss[i][m]
    <3>1. CASE i = n + 1
      BY <2>1, <2>5, <3>1
    <3>2. CASE i # n + 1
      <4>1. i \in 1..n /\ i \in 1..N /\ i - 1 \in 0..N /\ i \in 0..N /\ i <= n
        BY <1>1, <2>1, <3>2
      <4>2. at[i - 1] + m \in 1..at[n]
        <5>1. at[i] = at[i - 1] + Len(ss[i]) /\ at[i] <= at[n] /\ at[i - 1] \in Nat /\ at[i] \in Nat
          BY <1>2, <2>1, <4>1
        <5>2. Len(ss[i]) \in Nat
          BY <1>1, <4>1
        <5> QED BY <2>3, <5>1, <5>2
      <4>3. pre[n][at[i - 1] + m] = ss[i][m]
        BY <1>5, <4>1
      <4> QED BY <2>5, <4>2, <4>3
    <3> QED BY <3>1, <3>2
  <2>7. ASSUME NEW k \in 1..at[n + 1]
        PROVE  \E i \in 1..(n + 1) : \E m \in 1..Len(ss[i]) : k = at[i - 1] + m
    <3>1. CASE k \in 1..at[n]
      <4>1. PICK i \in 1..n : \E m \in 1..Len(ss[i]) : k = at[i - 1] + m
        BY <1>5, <3>1
      <4>2. i \in 1..(n + 1)
        BY <2>1
      <4> QED BY <4>1, <4>2
    <3>2. CASE k \notin 1..at[n]
      <4>1. k - at[n] \in 1..Len(ss[n + 1]) /\ k = at[n] + (k - at[n])
        BY <2>3, <2>4, <3>2
      <4>2. n + 1 \in 1..(n + 1)
        BY <2>1
      <4> QED BY <2>1, <4>1, <4>2
    <3> QED BY <3>1, <3>2
  <2> QED BY <2>5, <2>6, <2>7
<1>6. 1 <= N => Fine(N)
  <2> SUFFICES ASSUME 1 <= N PROVE Fine(N)
    OBVIOUS
  <2> DEFINE P == {n \in 1..N : Fine(n)}
  <2>1. /\ 1 \in P /\ 1 \in Nat
        /\ \A n \in 1..(N - 1) : n \in P => n + 1 \in P
    <3>1. 1 \in 1..N /\ \A n \in 1..(N - 1) : n + 1 \in 1..N
      BY <1>1
    <3> HIDE DEF Fine
    <3> QED BY <1>4, <1>5, <3>1
  <2> HIDE DEF P
  <2>2. \A n \in 1..N : n \in P
    BY Zenon, <1>1, <2>1, IntervalInduction
  <2>3. N \in P
    BY <1>1, <2>2
  <2> HIDE DEF Fine
  <2> QED BY <2>3 DEF P
<1>7. CASE 1 <= N
  <2>1. FlattenSeq(ss) = pre[N]
    <3>1. N # 0
      BY <1>7
    <3> QED BY Zenon, <1>3, <3>1
  <2> QED BY <1>2, <1>6, <1>7, <2>1 DEF N, at, IsFlattened
<1>8. CASE ~(1 <= N)
  <2>1. N = 0
    BY <1>1, <1>8
  <2>2. FlattenSeq(ss) = ss
    BY Zenon, <2>1 DEF FlattenSeq, N
  <2>3. 1..N = {}
    BY <2>1
  <2> QED BY <1>2, <2>1, <2>2, <2>3 DEF N, at, IsFlattened
<1> QED BY <1>7, <1>8

(***************************************************************************)
(* ss is tt with empty sequences added: element k of tt is element q[k] of *)
(* ss, one of those from g[k - 1] + 1 to g[k], and the others are empty.   *)
(***************************************************************************)
Padded(ss, tt, g, q) ==
  /\ IsSeq(ss) /\ IsSeq(tt)
  /\ \A k \in 1..Len(tt) : IsSeq(tt[k])
  /\ \A k \in 0..Len(tt) : g[k] \in Nat
  /\ g[0] = 0 /\ g[Len(tt)] = Len(ss)
  /\ \A k \in 1..Len(tt) :
       /\ q[k] \in Nat /\ g[k - 1] < q[k] /\ q[k] <= g[k] /\ g[k] <= Len(ss)
       /\ ss[q[k]] = tt[k]
       /\ \A n \in 1..Len(ss) : g[k - 1] < n /\ n <= g[k] /\ n # q[k] => ss[n] = <<>>
  /\ \A n \in 1..Len(ss) : \E k \in 1..Len(tt) : g[k - 1] < n /\ n <= g[k]

\* Empty sequences make no difference.
LEMMA FlattenPadded ==
  ASSUME NEW ss, NEW tt, NEW g, NEW q, Padded(ss, tt, g, q)
  PROVE  FlattenSeq(ss) = FlattenSeq(tt)
<1> DEFINE N == Len(ss)
           K == Len(tt)
           A == Starts(ss)
           B == Starts(tt)
           s == FlattenSeq(ss)
           t == FlattenSeq(tt)
<1>1. /\ N \in Nat /\ K \in Nat /\ g[0] = 0 /\ g[K] = N
      /\ \A k \in 0..K : g[k] \in Nat
      /\ \A k \in 1..K : q[k] \in Nat /\ g[k - 1] < q[k] /\ q[k] <= g[k] /\ g[k] <= N
  BY DEF Padded, IsSeq
<1>2. ASSUME NEW k \in 1..K
      PROVE  /\ g[k - 1] \in Nat /\ g[k] \in Nat /\ q[k] \in Nat /\ q[k] \in 1..N
             /\ IsSeq(tt[k]) /\ ss[q[k]] = tt[k] /\ Len(tt[k]) \in Nat
  <2>1. k - 1 \in 0..K /\ k \in 0..K
    BY <1>1
  <2>2. IsSeq(tt[k]) /\ ss[q[k]] = tt[k] /\ Len(tt[k]) \in Nat
    BY DEF Padded, IsSeq
  <2> HIDE DEF N, K
  <2>3. g[k - 1] \in Nat /\ g[k] \in Nat /\ q[k] \in Nat /\ g[k - 1] < q[k] /\ q[k] <= g[k] /\ g[k] <= N
    BY <1>1, <2>1
  <2> QED BY <1>1, <2>2, <2>3
<1>3. ASSUME NEW n \in 1..N PROVE IsSeq(ss[n])
  <2>1. PICK k \in 1..K : g[k - 1] < n /\ n <= g[k]
    BY DEF Padded
  <2>2. CASE n = q[k]
    BY <1>2, <2>2
  <2>3. CASE n # q[k]
    <3>1. ss[n] = <<>>
      BY <2>1, <2>3 DEF Padded
    <3>2. <<>> \in Seq({})
      OBVIOUS
    <3> QED BY <3>1, <3>2, IsSeqOfSeq
  <2> QED BY <2>2, <2>3
<1>4. IsFlattened(ss, s, A) /\ IsFlattened(tt, t, B)
  <2>1. IsSeq(ss) /\ IsSeq(tt)
    BY DEF Padded
  <2> QED BY <1>2, <1>3, <2>1, FlattenLayout
<1>5. ASSUME NEW k \in 1..K, NEW n \in 1..N, g[k - 1] < n, n <= g[k], n # q[k]
      PROVE  ss[n] = <<>>
  BY <1>5 DEF Padded
<1>6. \A n \in 1..N : \E k \in 1..K : g[k - 1] < n /\ n <= g[k]
  BY DEF Padded
<1>7. /\ IsSeq(s) /\ Len(s) = A[N]
      /\ \A i \in 1..N : \A m \in 1..Len(ss[i]) : s[A[i - 1] + m] = ss[i][m]
      /\ \A k \in 1..Len(s) : \E i \in 1..N : \E m \in 1..Len(ss[i]) : k = A[i - 1] + m
      /\ \A i \in 0..N : A[i] \in Nat
      /\ A[0] = 0
      /\ \A i \in 1..N : A[i] = A[i - 1] + Len(ss[i])
  <2> HIDE DEF s, A
  <2> QED BY <1>4 DEF IsFlattened
<1>8. /\ IsSeq(t) /\ Len(t) = B[K]
      /\ \A i \in 1..K : \A m \in 1..Len(tt[i]) : t[B[i - 1] + m] = tt[i][m]
      /\ \A i \in 0..K : B[i] \in Nat
      /\ B[0] = 0
      /\ \A i \in 1..K : B[i] = B[i - 1] + Len(tt[i])
  <2> HIDE DEF t, B
  <2> QED BY <1>4 DEF IsFlattened
<1> HIDE DEF N, K, A, B, s, t
<1>9. ASSUME NEW k \in 1..K, A[g[k - 1]] = B[k - 1]
      PROVE  A[q[k] - 1] = B[k - 1] /\ A[g[k]] = B[k]
  <2> DEFINE a == g[k - 1]
             b == g[k]
             x == q[k]
             L == Len(tt[k])
             P == {n \in a..b : A[n] = B[k - 1] + (IF n < x THEN 0 ELSE L)}
  <2>1. /\ a \in Nat /\ b \in Nat /\ x \in Nat /\ L \in Nat /\ a < x /\ x <= b /\ b <= N /\ N \in Nat
        /\ Len(ss[x]) = L
    BY <1>1, <1>2
  <2>2. k - 1 \in 0..K /\ B[k - 1] \in Nat /\ B[k] = B[k - 1] + L
    <3>1. k - 1 \in 0..K
      BY <1>1
    <3> QED BY <1>8, <3>1
  <2>3. \A n \in 1..N : a < n /\ n <= b /\ n # x => Len(ss[n]) = 0
    <3>1. Len(<<>>) = 0
      OBVIOUS
    <3> QED BY <1>5, <3>1
  <2>4. A[a] = B[k - 1]
    BY <1>9
  <2> HIDE DEF a, b, x, L
  <2>5. a \in P
    BY <2>1, <2>2, <2>4
  <2>6. ASSUME NEW n \in a..(b - 1), n \in P PROVE n + 1 \in P
    <3>1. n + 1 \in 1..N /\ (n + 1) - 1 = n /\ n + 1 \in a..b /\ a < n + 1 /\ n + 1 <= b
      BY <2>1
    <3>2. A[n + 1] = A[n] + Len(ss[n + 1])
      BY <1>7, <3>1
    <3>3. A[n] = B[k - 1] + (IF n < x THEN 0 ELSE L)
      BY <2>6
    <3>4. CASE n + 1 = x
      <4>1. n < x /\ ~(n + 1 < x)
        BY <2>1, <3>1, <3>4
      <4>2. A[n + 1] = B[k - 1] + L
        BY <2>1, <2>2, <3>2, <3>3, <3>4, <4>1
      <4> QED BY <3>1, <4>1, <4>2
    <3>5. CASE n + 1 # x
      <4>1. Len(ss[n + 1]) = 0
        BY <2>3, <3>1, <3>5
      <4>2. n < x <=> n + 1 < x
        BY <2>1, <3>1, <3>5
      <4>3. A[n + 1] = A[n]
        BY <2>1, <2>2, <3>2, <3>3, <4>1
      <4> QED BY <3>1, <3>3, <4>2, <4>3
    <3> QED BY <3>4, <3>5
  <2> HIDE DEF P
  <2>7. \A n \in a..b : n \in P
    BY <2>1, <2>5, <2>6, IntervalInduction
  <2>8. x - 1 \in a..b /\ b \in a..b /\ x - 1 < x /\ ~(b < x)
    BY <2>1
  <2>9. A[x - 1] = B[k - 1] + 0 /\ A[b] = B[k - 1] + L
    BY <2>7, <2>8 DEF P
  <2> QED BY <2>2, <2>9 DEF a, b, x
<1>10. \A k \in 0..K : A[g[k]] = B[k]
  <2> DEFINE P == {k \in 0..K : A[g[k]] = B[k]}
  <2>1. 0 \in P
    BY <1>1, <1>7, <1>8
  <2>2. ASSUME NEW k \in 0..(K - 1), k \in P PROVE k + 1 \in P
    <3>1. k + 1 \in 1..K /\ (k + 1) - 1 = k /\ k + 1 \in 0..K
      BY <1>1
    <3>2. A[g[k]] = B[k]
      BY <2>2
    <3> QED BY <1>9, <3>1, <3>2
  <2> HIDE DEF P
  <2>3. \A k \in 0..K : k \in P
    BY <1>1, <2>1, <2>2, IntervalInduction
  <2> QED BY <2>3 DEF P
<1>11. Len(s) = Len(t)
  <2>1. K \in 0..K
    BY <1>1
  <2> QED BY <1>1, <1>7, <1>8, <1>10, <2>1
<1>12. ASSUME NEW y \in 1..Len(s) PROVE s[y] = t[y]
  <2>1. PICK n \in 1..N : \E m \in 1..Len(ss[n]) : y = A[n - 1] + m
    BY <1>7
  <2>2. PICK m \in 1..Len(ss[n]) : y = A[n - 1] + m
    BY <2>1
  <2>3. PICK k \in 1..K : g[k - 1] < n /\ n <= g[k]
    BY <1>6
  <2>4. n = q[k]
    <3>1. Len(<<>>) = 0 /\ Len(ss[n]) # 0
      OBVIOUS
    <3> QED BY <1>5, <2>3, <3>1
  <2>5. ss[n] = tt[k]
    BY <1>2, <2>4
  <2>6. A[n - 1] = B[k - 1]
    <3>1. k - 1 \in 0..K
      BY <1>1
    <3> QED BY <1>9, <1>10, <2>4, <3>1
  <2>7. s[y] = ss[n][m] /\ t[B[k - 1] + m] = tt[k][m]
    BY <1>7, <1>8, <2>2, <2>5
  <2> QED BY <2>2, <2>5, <2>6, <2>7
<1>13. s = t
  BY <1>7, <1>8, <1>11, <1>12, SeqsEqual
<1> QED BY <1>13 DEF s, t
=============================================================================
