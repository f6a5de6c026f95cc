--------------------------- MODULE BarrierProofs ---------------------------
(***************************************************************************)
(* Proof that BarrierPass isolates the sites of every function, of any     *)
(* number of blocks and instructions.                                      *)
(*                                                                         *)
(* The argument: a split leaves the blocks before it alone, and cuts no    *)
(* call off its asm block or its site.  What is not yet isolated in the    *)
(* block being visited has a split point among those left, although the    *)
(* instruction there may have moved to a later block since it was found.   *)
(***************************************************************************)
EXTENDS Barrier, SequenceLemmas

\* What every block is like.
WellFormed(b) ==
  /\ IsSeq(b) /\ Len(b) > 0
  /\ b[Len(b)].op \notin SiteOps
  /\ \A i \in 1..Len(b) :
       b[i].op = "call" => i > 1 /\ b[i - 1].op = "asm" /\ b[i + 1].op = "stackmap"

\* Where a block may be split without cutting a call off its asm block or site.
MaySplit(b, i) == i = 1 \/ b[i].op = "asm" \/ producesStackmapRecords(b[i - 1])

\* What the splits achieve.
Separated(b) ==
  \A i \in 1..Len(b) : /\ b[i].op = "asm" => i = 1
                       /\ producesStackmapRecords(b[i]) => i = Len(b) - 1

Unique(bs) ==
  \A k, l \in 1..Len(bs) : \A i \in 1..Len(bs[k]) : \A j \in 1..Len(bs[l]) :
    bs[k][i].id = bs[l][j].id => k = l /\ i = j

Pending(inst) == \E m \in 1..Len(callInsts) : callInsts[m] = inst

TypeInv ==
  /\ IsSeq(blocks) /\ Len(blocks) > 0
  /\ cur \in Nat \ {0}
  /\ phase \in {"collect", "split"}
  /\ IsSeq(callInsts)

BlockInv == \A k \in 1..Len(blocks) : WellFormed(blocks[k])

\* The branches that were added have the ids -1, -2, ...
IdInv ==
  /\ \A k \in 1..Len(blocks) : \A i \in 1..Len(blocks[k]) :
       blocks[k][i].id \in Int /\ blocks[k][i].id > -Len(blocks)
  /\ Unique(blocks)

\* The split points left are in the block being visited or a later one.
PendingInv ==
  \A m \in 1..Len(callInsts) : \E k \in cur..Len(blocks) : \E i \in 1..Len(blocks[k]) :
    blocks[k][i].id = callInsts[m] /\ MaySplit(blocks[k], i)

\* What is not separated in the block being visited will be.
CurInv ==
  phase = "split" =>
    /\ cur \in 1..Len(blocks)
    /\ \A i \in 1..Len(blocks[cur]) :
         /\ blocks[cur][i].op = "asm" => i = 1 \/ Pending(blocks[cur][i].id)
         /\ producesStackmapRecords(blocks[cur][i]) =>
              i = Len(blocks[cur]) - 1 \/ Pending(blocks[cur][i + 1].id)

DoneInv == \A k \in 1..Len(blocks) : k < cur => Separated(blocks[k])

IInv == TypeInv /\ BlockInv /\ IdInv /\ PendingInv /\ CurInv /\ DoneInv

-----------------------------------------------------------------------------
(***************************************************************************)
(* new is bs with block k split in front of its instruction at, and br     *)
(* added to what is left of it.                                            *)
(***************************************************************************)
IsSplit(bs, k, at, br, new) ==
  /\ IsSeq(new) /\ Len(new) = Len(bs) + 1
  /\ \A j \in 1..(k - 1) : new[j] = bs[j]
  /\ \A j \in (k + 1)..Len(bs) : new[j + 1] = bs[j]
  /\ IsSeq(new[k]) /\ Len(new[k]) = at
  /\ \A i \in 1..(at - 1) : new[k][i] = bs[k][i]
  /\ new[k][at] = br
  /\ IsSeq(new[k + 1]) /\ Len(new[k + 1]) = (Len(bs[k]) + 1) - at
  /\ \A i \in 1..((Len(bs[k]) + 1) - at) : new[k + 1][i] = bs[k][(at + i) - 1]

\* splitBasicBlock is such a split.
LEMMA SplitLayout ==
  ASSUME NEW bs, IsSeq(bs), NEW k \in 1..Len(bs), IsSeq(bs[k]), NEW at \in 1..Len(bs[k]), NEW br
  PROVE  IsSplit(bs, k, at, br,
                 SubSeq(bs, 1, k - 1)
                   \o <<Append(SubSeq(bs[k], 1, at - 1), br), SubSeq(bs[k], at, Len(bs[k]))>>
                   \o SubSeq(bs, k + 1, Len(bs)))
<1> DEFINE N == Len(bs)
           b == bs[k]
           M == Len(b)
           p0 == SubSeq(b, 1, at - 1)
           p == Append(p0, br)
           q == SubSeq(b, at, M)
           s1 == SubSeq(bs, 1, k - 1)
           s2 == <<p, q>>
           s3 == SubSeq(bs, k + 1, N)
           t == s1 \o s2
           new == t \o s3
<1>1. /\ N \in Nat /\ M \in Nat /\ k \in Nat \ {0} /\ at \in Nat \ {0} /\ k <= N /\ at <= M
      /\ k - 1 \in Nat /\ at - 1 \in Nat /\ k + 1 \in Nat \ {0} /\ 1 \in Nat \ {0}
      /\ 1 <= (k - 1) + 1 /\ 1 <= (at - 1) + 1 /\ at <= M + 1 /\ k + 1 <= N + 1
  BY DEF IsSeq
<1> HIDE DEF N, b, M
<1>2. /\ IsSeq(p0) /\ Len(p0) = at - 1 /\ \A i \in 1..(at - 1) : p0[i] = b[i]
  <2>1. /\ IsSeq(p0) /\ Len(p0) = ((at - 1) + 1) - 1
        /\ \A i \in 1..(((at - 1) + 1) - 1) : p0[i] = b[(1 + i) - 1]
    BY <1>1, SubSeqAny
  <2> HIDE DEF p0
  <2> QED BY <1>1, <2>1
<1>3. /\ IsSeq(q) /\ Len(q) = (M + 1) - at
      /\ \A i \in 1..((M + 1) - at) : q[i] = b[(at + i) - 1]
  BY <1>1, SubSeqAny
<1>4. /\ IsSeq(s1) /\ Len(s1) = k - 1 /\ \A i \in 1..(k - 1) : s1[i] = bs[i]
  <2>1. /\ IsSeq(s1) /\ Len(s1) = ((k - 1) + 1) - 1
        /\ \A i \in 1..(((k - 1) + 1) - 1) : s1[i] = bs[(1 + i) - 1]
    BY <1>1, SubSeqAny
  <2> HIDE DEF s1
  <2> QED BY <1>1, <2>1
<1>5. /\ IsSeq(s3) /\ Len(s3) = N - k /\ \A i \in 1..(N - k) : s3[i] = bs[k + i]
  <2>1. /\ IsSeq(s3) /\ Len(s3) = (N + 1) - (k + 1)
        /\ \A i \in 1..((N + 1) - (k + 1)) : s3[i] = bs[((k + 1) + i) - 1]
    BY <1>1, SubSeqAny
  <2> HIDE DEF s3
  <2>2. (N + 1) - (k + 1) = N - k /\ \A i \in 1..(N - k) : ((k + 1) + i) - 1 = k + i
    BY <1>1
  <2> QED BY <2>1, <2>2
<1> HIDE DEF p0, q, s1, s3
<1>6. /\ IsSeq(p) /\ Len(p) = at /\ (\A i \in 1..(at - 1) : p[i] = b[i]) /\ p[at] = br
  <2>1. /\ IsSeq(p) /\ Len(p) = Len(p0) + 1 /\ \A i \in 1..Len(p0) : p[i] = p0[i]
        /\ p[Len(p0) + 1] = br
    BY <1>2, AppendAny
  <2> HIDE DEF p
  <2> QED BY <1>1, <1>2, <2>1
<1> HIDE DEF p
<1>7. IsSeq(s2) /\ Len(s2) = 2 /\ s2[1] = p /\ s2[2] = q
  BY TupleIsSeq
<1> HIDE DEF s2
<1>8. /\ IsSeq(t) /\ Len(t) = k + 1 /\ (\A i \in 1..(k - 1) : t[i] = bs[i])
      /\ t[k] = p /\ t[k + 1] = q
  <2>1. /\ IsSeq(t) /\ Len(t) = Len(s1) + Len(s2)
        /\ \A i \in 1..Len(s1) : t[i] = s1[i]
        /\ \A i \in 1..Len(s2) : t[Len(s1) + i] = s2[i]
    <3>1. IsSeq(s1) /\ IsSeq(s2)
      BY <1>4, <1>7
    <3> QED BY <3>1, ConcatAny
  <2> HIDE DEF t
  <2>2. (k - 1) + 1 = k /\ (k - 1) + 2 = k + 1 /\ 1 \in 1..2 /\ 2 \in 1..2
    BY <1>1
  <2> QED BY <1>1, <1>4, <1>7, <2>1, <2>2
<1> HIDE DEF t
<1>9. /\ IsSeq(new) /\ Len(new) = N + 1
      /\ \A i \in 1..(k + 1) : new[i] = t[i]
      /\ \A i \in 1..(N - k) : new[(k + 1) + i] = s3[i]
  <2>1. /\ IsSeq(new) /\ Len(new) = Len(t) + Len(s3)
        /\ \A i \in 1..Len(t) : new[i] = t[i]
        /\ \A i \in 1..Len(s3) : new[Len(t) + i] = s3[i]
    <3>1. IsSeq(t) /\ IsSeq(s3)
      BY <1>5, <1>8
    <3> QED BY <3>1, ConcatAny
  <2> HIDE DEF new
  <2> QED BY <1>1, <1>5, <1>8, <2>1
<1> HIDE DEF new
<1>10. (\A j \in 1..(k - 1) : new[j] = bs[j]) /\ new[k] = p /\ new[k + 1] = q
  <2>1. k \in 1..(k + 1) /\ k + 1 \in 1..(k + 1) /\ \A j \in 1..(k - 1) : j \in 1..(k + 1)
    BY <1>1
  <2> QED BY <1>8, <1>9, <2>1
<1>11. ASSUME NEW j \in (k + 1)..N PROVE new[j + 1] = bs[j]
  <2>1. j - k \in 1..(N - k) /\ (k + 1) + (j - k) = j + 1 /\ k + (j - k) = j
    BY <1>1
  <2>2. new[(k + 1) + (j - k)] = bs[k + (j - k)]
    BY <1>5, <1>9, <2>1
  <2> QED BY <2>1, <2>2
<1>12. IsSplit(bs, k, at, br, new)
  BY <1>3, <1>6, <1>9, <1>10, <1>11 DEF IsSplit, N, M, b
<1> QED BY <1>12 DEF new, t, s1, s2, s3, p, p0, q, N, M, b

\* A place to split at.
CanSplit(bs, k, at) ==
  /\ IsSeq(bs) /\ \A j \in 1..Len(bs) : IsSeq(bs[j])
  /\ k \in 1..Len(bs) /\ at \in 1..Len(bs[k])

\* Where an instruction was before the split, and where it is after it.
SrcBlock(k, j)      == IF j <= k THEN j ELSE j - 1
SrcAt(k, at, j, i)  == IF j = k + 1 THEN (at + i) - 1 ELSE i
Moved(k, at, j, i)  == j > k \/ (j = k /\ i >= at)
DstBlock(k, at, j, i) == IF Moved(k, at, j, i) THEN j + 1 ELSE j
DstAt(k, at, j, i)    == IF j = k /\ i >= at THEN (i + 1) - at ELSE i

\* Every instruction after a split is the new branch or was there before.
LEMMA SplitSource ==
  ASSUME NEW bs, NEW k, NEW at, NEW br, NEW new, CanSplit(bs, k, at),
         IsSplit(bs, k, at, br, new), NEW j \in 1..Len(new), NEW i \in 1..Len(new[j]),
         ~(j = k /\ i = at)
  PROVE  /\ SrcBlock(k, j) \in 1..Len(bs)
         /\ SrcAt(k, at, j, i) \in 1..Len(bs[SrcBlock(k, j)])
         /\ new[j][i] = bs[SrcBlock(k, j)][SrcAt(k, at, j, i)]
<1> DEFINE N == Len(bs)
           M == Len(bs[k])
<1>1. N \in Nat /\ M \in Nat /\ k \in 1..N /\ at \in 1..M /\ \A l \in 1..N : Len(bs[l]) \in Nat
  BY DEF CanSplit, IsSeq
<1>2. /\ Len(new) = N + 1
      /\ \A l \in 1..(k - 1) : new[l] = bs[l]
      /\ \A l \in (k + 1)..N : new[l + 1] = bs[l]
      /\ Len(new[k]) = at /\ \A m \in 1..(at - 1) : new[k][m] = bs[k][m]
      /\ Len(new[k + 1]) = (M + 1) - at
      /\ \A m \in 1..((M + 1) - at) : new[k + 1][m] = bs[k][(at + m) - 1]
  BY DEF IsSplit
<1> HIDE DEF N, M
<1>3. CASE j < k
  <2>1. j \in 1..(k - 1) /\ j \in 1..N /\ SrcBlock(k, j) = j /\ SrcAt(k, at, j, i) = i
    BY <1>1, <1>2, <1>3 DEF SrcBlock, SrcAt
  <2>2. new[j] = bs[j]
    BY <1>2, <2>1
  <2> QED BY <2>1, <2>2 DEF N
<1>4. CASE j = k
  <2>1. i \in 1..(at - 1) /\ i \in 1..M /\ SrcBlock(k, j) = k /\ SrcAt(k, at, j, i) = i
    BY <1>1, <1>2, <1>4 DEF SrcBlock, SrcAt
  <2>2. new[j][i] = bs[k][i]
    BY <1>2, <1>4, <2>1
  <2> QED BY <1>1, <2>1, <2>2 DEF N, M
<1>5. CASE j = k + 1
  <2>1. i \in 1..((M + 1) - at)
    BY <1>2, <1>5
  <2>2. /\ SrcBlock(k, j) = k /\ SrcAt(k, at, j, i) = (at + i) - 1
        /\ (at + i) - 1 \in 1..M
    BY <1>1, <1>5, <2>1 DEF SrcBlock, SrcAt
  <2>3. new[j][i] = bs[k][(at + i) - 1]
    BY <1>2, <1>5, <2>1
  <2> QED BY <1>1, <2>2, <2>3 DEF N, M
<1>6. CASE j > k + 1
  <2>1. /\ j - 1 \in (k + 1)..N /\ j - 1 \in 1..N /\ (j - 1) + 1 = j
        /\ SrcBlock(k, j) = j - 1 /\ SrcAt(k, at, j, i) = i
    BY <1>1, <1>2, <1>6 DEF SrcBlock, SrcAt
  <2>2. new[(j - 1) + 1] = bs[j - 1]
    BY <1>2, <2>1
  <2>3. new[j] = bs[j - 1]
    BY <2>1, <2>2
  <2> QED BY <2>1, <2>3 DEF N
<1> QED BY <1>1, <1>2, <1>3, <1>4, <1>5, <1>6

\* Every instruction is still there after a split.
LEMMA SplitTarget ==
  ASSUME NEW bs, NEW k, NEW at, NEW br, NEW new, CanSplit(bs, k, at),
         IsSplit(bs, k, at, br, new), NEW j \in 1..Len(bs), NEW i \in 1..Len(bs[j])
  PROVE  /\ DstBlock(k, at, j, i) \in 1..Len(new)
         /\ DstAt(k, at, j, i) \in 1..Len(new[DstBlock(k, at, j, i)])
         /\ new[DstBlock(k, at, j, i)][DstAt(k, at, j, i)] = bs[j][i]
<1> DEFINE N == Len(bs)
           M == Len(bs[k])
<1>1. N \in Nat /\ M \in Nat /\ k \in 1..N /\ at \in 1..M /\ \A l \in 1..N : Len(bs[l]) \in Nat
  BY DEF CanSplit, IsSeq
<1>2. /\ Len(new) = N + 1
      /\ \A l \in 1..(k - 1) : new[l] = bs[l]
      /\ \A l \in (k + 1)..N : new[l + 1] = bs[l]
      /\ Len(new[k]) = at /\ \A m \in 1..(at - 1) : new[k][m] = bs[k][m]
      /\ Len(new[k + 1]) = (M + 1) - at
      /\ \A m \in 1..((M + 1) - at) : new[k + 1][m] = bs[k][(at + m) - 1]
  BY DEF IsSplit
<1>3. j \in 1..N /\ (j = k => i \in 1..M)
  OBVIOUS
<1> HIDE DEF N, M
<1>4. CASE j < k
  <2>1. /\ j \in 1..(k - 1) /\ j \in 1..(N + 1)
        /\ DstBlock(k, at, j, i) = j /\ DstAt(k, at, j, i) = i
    BY <1>1, <1>3, <1>4 DEF DstBlock, DstAt, Moved
  <2>2. new[j] = bs[j]
    BY <1>2, <2>1
  <2> QED BY <1>2, <2>1, <2>2
<1>5. CASE j = k /\ i < at
  <2>1. /\ i \in 1..(at - 1) /\ i \in 1..at /\ k \in 1..(N + 1)
        /\ DstBlock(k, at, j, i) = k /\ DstAt(k, at, j, i) = i
    BY <1>1, <1>3, <1>5 DEF DstBlock, DstAt, Moved
  <2>2. new[k][i] = bs[k][i]
    BY <1>2, <2>1
  <2> QED BY <1>2, <1>5, <2>1, <2>2
<1>6. CASE j = k /\ i >= at
  <2> DEFINE m == (i + 1) - at
  <2>1. /\ m \in 1..((M + 1) - at) /\ (at + m) - 1 = i /\ k + 1 \in 1..(N + 1)
        /\ DstBlock(k, at, j, i) = k + 1 /\ DstAt(k, at, j, i) = m
    BY <1>1, <1>3, <1>6 DEF DstBlock, DstAt, Moved
  <2> HIDE DEF m
  <2>2. new[k + 1][m] = bs[k][(at + m) - 1]
    BY <1>2, <2>1
  <2> QED BY <1>2, <1>6, <2>1, <2>2
<1>7. CASE j > k
  <2>1. /\ j \in (k + 1)..N /\ j + 1 \in 1..(N + 1)
        /\ DstBlock(k, at, j, i) = j + 1 /\ DstAt(k, at, j, i) = i
    BY <1>1, <1>3, <1>7 DEF DstBlock, DstAt, Moved
  <2>2. new[j + 1] = bs[j]
    BY <1>2, <2>1
  <2> QED BY <1>2, <2>1, <2>2
<1>8. j < k \/ j = k \/ j > k
  BY <1>1, <1>3
<1>9. j = k => i < at \/ i >= at
  BY <1>1, <1>3
<1> QED BY <1>4, <1>5, <1>6, <1>7, <1>8, <1>9

\* All ids are integers above m.
IdsAbove(bs, m) ==
  \A j \in 1..Len(bs) : \A i \in 1..Len(bs[j]) : bs[j][i].id \in Int /\ bs[j][i].id > m

\* A branch with a smaller id keeps ids unique.
LEMMA SplitUnique ==
  ASSUME NEW bs, NEW k, NEW at, NEW br, NEW new, CanSplit(bs, k, at),
         IsSplit(bs, k, at, br, new), br.id \in Int, IdsAbove(bs, br.id), Unique(bs)
  PROVE  Unique(new) /\ IdsAbove(new, br.id - 1)
<1> DEFINE IsBr(j, i) == j = k /\ i = at
           B(j) == SrcBlock(k, j)
           A(j, i) == SrcAt(k, at, j, i)
<1>1. ASSUME NEW j \in 1..Len(new), NEW i \in 1..Len(new[j])
      PROVE  /\ IsBr(j, i) => new[j][i].id = br.id
             /\ ~IsBr(j, i) => /\ B(j) \in 1..Len(bs) /\ A(j, i) \in 1..Len(bs[B(j)])
                               /\ new[j][i].id = bs[B(j)][A(j, i)].id
                               /\ new[j][i].id \in Int /\ new[j][i].id > br.id
  <2>1. CASE IsBr(j, i)
    BY <2>1 DEF IsSplit
  <2>2. CASE ~IsBr(j, i)
    <3>1. /\ B(j) \in 1..Len(bs) /\ A(j, i) \in 1..Len(bs[B(j)])
          /\ new[j][i] = bs[B(j)][A(j, i)]
      BY <2>2, SplitSource
    <3> HIDE DEF B, A, IsBr
    <3> QED BY <2>2, <3>1 DEF IdsAbove
  <2> QED BY <2>1, <2>2
<1>2. IdsAbove(new, br.id - 1)
  <2> SUFFICES ASSUME NEW j \in 1..Len(new), NEW i \in 1..Len(new[j])
               PROVE  new[j][i].id \in Int /\ new[j][i].id > br.id - 1
    BY DEF IdsAbove
  <2> HIDE DEF B, A, IsBr
  <2>1. new[j][i].id = br.id \/ (new[j][i].id \in Int /\ new[j][i].id > br.id)
    BY <1>1
  <2> QED BY <2>1
<1>3. Unique(new)
  <2> SUFFICES ASSUME NEW j \in 1..Len(new), NEW l \in 1..Len(new),
                      NEW i \in 1..Len(new[j]), NEW m \in 1..Len(new[l]),
                      new[j][i].id = new[l][m].id
               PROVE  j = l /\ i = m
    BY DEF Unique
  <2>1. CASE IsBr(j, i) \/ IsBr(l, m)
    <3>1. IsBr(j, i) /\ IsBr(l, m)
      <4> HIDE DEF B, A, IsBr
      <4> QED BY <1>1, <2>1
    <3> QED BY <3>1
  <2>2. CASE ~IsBr(j, i) /\ ~IsBr(l, m)
    <3>1. B(j) = B(l) /\ A(j, i) = A(l, m)
      <4>1. /\ B(j) \in 1..Len(bs) /\ A(j, i) \in 1..Len(bs[B(j)])
            /\ B(l) \in 1..Len(bs) /\ A(l, m) \in 1..Len(bs[B(l)])
            /\ bs[B(j)][A(j, i)].id = bs[B(l)][A(l, m)].id
        <5> HIDE DEF B, A, IsBr
        <5> QED BY <1>1, <2>2
      <4> DEFINE b1 == B(j)
                 b2 == B(l)
                 a1 == A(j, i)
                 a2 == A(l, m)
      <4>2. /\ b1 \in 1..Len(bs) /\ a1 \in 1..Len(bs[b1])
            /\ b2 \in 1..Len(bs) /\ a2 \in 1..Len(bs[b2])
            /\ bs[b1][a1].id = bs[b2][a2].id
        BY <4>1
      <4> HIDE DEF b1, b2, a1, a2
      <4>3. b1 = b2 /\ a1 = a2
        BY <4>2 DEF Unique
      <4> QED BY <4>3 DEF b1, b2, a1, a2
    <3>2. k \in Nat /\ at \in Nat /\ j \in Int /\ l \in Int /\ i \in Int /\ m \in Int
      BY DEF CanSplit, IsSeq
    <3>3. /\ j = k => i <= at - 1
          /\ l = k => m <= at - 1
          /\ i >= 1 /\ m >= 1
      <4>1. Len(new[k]) = at
        BY DEF IsSplit
      <4> QED BY <2>2, <3>2, <4>1
    <3> QED BY <3>1, <3>2, <3>3 DEF SrcBlock, SrcAt
  <2> QED BY <2>1, <2>2
<1> QED BY <1>2, <1>3

\* A split leaves blocks well-formed.
LEMMA SplitWellFormed ==
  ASSUME NEW bs, NEW k, NEW at, NEW br, NEW new, CanSplit(bs, k, at),
         IsSplit(bs, k, at, br, new), br.op \notin SiteOps, MaySplit(bs[k], at),
         \A j \in 1..Len(bs) : WellFormed(bs[j])
  PROVE  \A j \in 1..Len(new) : WellFormed(new[j])
<1> DEFINE N == Len(bs)
           b == bs[k]
           M == Len(b)
<1>1. N \in Nat /\ M \in Nat /\ k \in 1..N /\ at \in 1..M
  BY DEF CanSplit, IsSeq
<1>2. /\ Len(new) = N + 1
      /\ \A l \in 1..(k - 1) : new[l] = bs[l]
      /\ \A l \in (k + 1)..N : new[l + 1] = bs[l]
      /\ IsSeq(new[k]) /\ Len(new[k]) = at /\ \A m \in 1..(at - 1) : new[k][m] = b[m]
      /\ new[k][at] = br
      /\ IsSeq(new[k + 1]) /\ Len(new[k + 1]) = (M + 1) - at
      /\ \A m \in 1..((M + 1) - at) : new[k + 1][m] = b[(at + m) - 1]
  BY DEF IsSplit
<1>3. /\ b[M].op \notin SiteOps
      /\ \A i \in 1..M : b[i].op = "call" =>
           i > 1 /\ b[i - 1].op = "asm" /\ b[i + 1].op = "stackmap"
  BY <1>1 DEF WellFormed
<1>4. at = 1 \/ b[at].op = "asm" \/ b[at - 1].op \in {"stackmap", "patchpoint"}
  BY DEF MaySplit, producesStackmapRecords
<1>5. \A j \in 1..N : WellFormed(bs[j])
  OBVIOUS
<1> HIDE DEF N, M, b
<1>6. WellFormed(new[k])
  <2> DEFINE p == new[k]
  <2>1. ASSUME NEW i \in 1..at, p[i].op = "call"
        PROVE  i > 1 /\ p[i - 1].op = "asm" /\ p[i + 1].op = "stackmap"
    <3>1. i # at /\ "call" \in SiteOps
      BY <1>2, <2>1 DEF SiteOps
    <3>2. i \in 1..(at - 1) /\ i \in 1..M
      BY <1>1, <3>1
    <3>3. b[i].op = "call"
      BY <1>2, <2>1, <3>2
    <3>4. i > 1 /\ b[i - 1].op = "asm" /\ b[i + 1].op = "stackmap"
      BY <1>3, <3>2, <3>3
    <3>5. i + 1 # at
      <4>1. i + 1 = at => at # 1 /\ at - 1 = i
        BY <3>2
      <4> QED BY <1>4, <3>3, <3>4, <4>1
    <3>6. i - 1 \in 1..(at - 1) /\ i + 1 \in 1..(at - 1)
      BY <1>1, <3>2, <3>4, <3>5
    <3> QED BY <1>2, <3>4, <3>6
  <2>2. p[at].op \notin SiteOps
    BY <1>2
  <2> QED BY <1>1, <1>2, <2>1, <2>2 DEF WellFormed
<1>7. WellFormed(new[k + 1])
  <2> DEFINE q == new[k + 1]
             L == (M + 1) - at
  <2>1. L \in Nat /\ L > 0 /\ (at + L) - 1 = M /\ L \in 1..L
    BY <1>1
  <2>2. q[L].op \notin SiteOps
    <3>1. q[L] = b[(at + L) - 1]
      BY <1>2, <2>1
    <3> QED BY <1>3, <2>1, <3>1
  <2>3. ASSUME NEW i \in 1..L, q[i].op = "call"
        PROVE  i > 1 /\ q[i - 1].op = "asm" /\ q[i + 1].op = "stackmap"
    <3> DEFINE c == (at + i) - 1
    <3>1. c \in 1..M /\ q[i] = b[c]
      BY <1>1, <1>2
    <3>2. c > 1 /\ b[c - 1].op = "asm" /\ b[c + 1].op = "stackmap"
      <4> HIDE DEF c
      <4> QED BY <1>3, <2>3, <3>1
    <3>3. i # 1
      <4>1. i = 1 => c = at
        BY <1>1
      <4> HIDE DEF c
      <4> QED BY <1>4, <2>3, <3>1, <3>2, <4>1
    <3>4. i # L
      BY <2>2, <2>3 DEF SiteOps
    <3>5. /\ i - 1 \in 1..L /\ i + 1 \in 1..L /\ (at + (i - 1)) - 1 = c - 1
          /\ (at + (i + 1)) - 1 = c + 1 /\ i > 1
      BY <1>1, <2>1, <3>3, <3>4
    <3>6. q[i - 1] = b[(at + (i - 1)) - 1] /\ q[i + 1] = b[(at + (i + 1)) - 1]
      BY <1>2, <3>5
    <3> QED BY <3>2, <3>5, <3>6
  <2>4. IsSeq(q) /\ Len(q) = L
    BY <1>2
  <2> HIDE DEF q, L
  <2>5. WellFormed(q)
    BY <2>1, <2>2, <2>3, <2>4 DEF WellFormed
  <2> QED BY <2>5 DEF q
<1>8. ASSUME NEW j \in 1..Len(new) PROVE WellFormed(new[j])
  <2>1. CASE j = k \/ j = k + 1
    BY <1>6, <1>7, <2>1
  <2>2. CASE j < k
    <3>1. j \in 1..(k - 1) /\ j \in 1..N
      BY <1>1, <1>2, <2>2
    <3> QED BY <1>2, <1>5, <3>1
  <2>3. CASE j > k + 1
    <3>1. j - 1 \in (k + 1)..N /\ j - 1 \in 1..N /\ (j - 1) + 1 = j
      BY <1>1, <1>2, <2>3
    <3>2. new[(j - 1) + 1] = bs[j - 1]
      BY <1>2, <3>1
    <3> QED BY <1>5, <3>1, <3>2
  <2> QED BY <1>1, <1>2, <2>1, <2>2, <2>3
<1> QED BY <1>8

\* Other split points remain split points.
LEMMA SplitMaySplit ==
  ASSUME NEW bs, NEW k, NEW at, NEW br, NEW new, CanSplit(bs, k, at),
         IsSplit(bs, k, at, br, new), NEW j \in 1..Len(bs), NEW i \in 1..Len(bs[j]),
         MaySplit(bs[j], i)
  PROVE  MaySplit(new[DstBlock(k, at, j, i)], DstAt(k, at, j, i))
<1> DEFINE J == DstBlock(k, at, j, i)
           I == DstAt(k, at, j, i)
<1> SUFFICES MaySplit(new[J], I)
  OBVIOUS
<1>1. new[J][I] = bs[j][i]
  BY SplitTarget
<1>2. k \in Nat /\ at \in Nat \ {0} /\ j \in Nat \ {0} /\ i \in Nat \ {0}
  BY DEF CanSplit, IsSeq
<1>3. CASE i = 1 \/ (j = k /\ i = at)
  <2>1. I = 1
    BY <1>2, <1>3 DEF DstAt
  <2> HIDE DEF I, J
  <2> QED BY <2>1 DEF MaySplit
<1>4. CASE bs[j][i].op = "asm"
  <2> HIDE DEF I, J
  <2> QED BY <1>1, <1>4 DEF MaySplit
<1>5. CASE i # 1 /\ ~(j = k /\ i = at) /\ producesStackmapRecords(bs[j][i - 1])
  <2>1. i - 1 \in 1..Len(bs[j])
    BY <1>2, <1>5 DEF CanSplit, IsSeq
  <2>2. J = DstBlock(k, at, j, i - 1) /\ I - 1 = DstAt(k, at, j, i - 1)
    BY <1>2, <1>5 DEF DstBlock, DstAt, Moved
  <2>3. new[DstBlock(k, at, j, i - 1)][DstAt(k, at, j, i - 1)] = bs[j][i - 1]
    BY <2>1, SplitTarget
  <2>4. new[J][I - 1] = bs[j][i - 1]
    BY <2>2, <2>3
  <2> HIDE DEF I, J
  <2> QED BY <1>5, <2>4 DEF MaySplit
<1> QED BY <1>3, <1>4, <1>5 DEF MaySplit

-----------------------------------------------------------------------------
(***************************************************************************)
(* The steps of the pass.                                                  *)
(***************************************************************************)

\* The pass starts on a function as the other passes leave it.
LEMMA InitIInv == Init => IInv
<1> SUFFICES ASSUME Init PROVE IInv
  OBVIOUS
<1>1. blocks \in Functions /\ cur = 1 /\ phase = "collect" /\ callInsts = <<>>
  BY DEF Init
<1>2. /\ blocks \in Seq(ToSet(blocks)) /\ Len(blocks) > 0
      /\ \A k \in 1..Len(blocks) :
           /\ blocks[k] \in Seq(ToSet(blocks[k])) /\ Len(blocks[k]) > 0
           /\ blocks[k][Len(blocks[k])].op \notin SiteOps
           /\ \A i \in 1..Len(blocks[k]) :
                /\ blocks[k][i].id \in Nat \ {0}
                /\ blocks[k][i].op = "call" =>
                     i > 1 /\ blocks[k][i - 1].op = "asm" /\ blocks[k][i + 1].op = "stackmap"
      /\ Unique(blocks)
  BY <1>1, FunctionsAssumption DEF Unique
<1>3. IsSeq(blocks)
  BY <1>2, IsSeqOfSeq
<1>4. IsSeq(callInsts) /\ Len(callInsts) = 0
  <2>1. <<>> \in Seq({}) /\ Len(<<>>) = 0
    OBVIOUS
  <2> QED BY <1>1, <2>1, IsSeqOfSeq
<1>5. TypeInv
  BY <1>1, <1>2, <1>3, <1>4 DEF TypeInv
<1>6. BlockInv
  <2> SUFFICES ASSUME NEW k \in 1..Len(blocks) PROVE WellFormed(blocks[k])
    BY DEF BlockInv
  <2>1. IsSeq(blocks[k])
    BY <1>2, IsSeqOfSeq
  <2> QED BY <1>2, <2>1 DEF WellFormed
<1>7. IdInv
  <2>1. Len(blocks) \in Nat
    BY <1>3 DEF IsSeq
  <2> QED BY <1>2, <2>1 DEF IdInv
<1>8. PendingInv /\ CurInv /\ DoneInv
  <2>1. 1..Len(callInsts) = {} /\ \A k \in 1..Len(blocks) : ~(k < cur)
    BY <1>1, <1>4
  <2> QED BY <1>1, <2>1 DEF PendingInv, CurInv, DoneInv
<1> QED BY <1>5, <1>6, <1>7, <1>8 DEF IInv

\* s holds split points of a block, and one for all that is not separated in it.
Covers(b, s) ==
  /\ IsSeq(s)
  /\ \A m \in 1..Len(s) : \E i \in 1..Len(b) : b[i].id = s[m] /\ MaySplit(b, i)
  /\ \A i \in 1..Len(b) : b[i].op = "asm" =>
       i = 1 \/ \E m \in 1..Len(s) : s[m] = b[i].id
  /\ \A i \in 1..Len(b) : producesStackmapRecords(b[i]) =>
       i = Len(b) - 1 \/ \E m \in 1..Len(s) : s[m] = b[i + 1].id

\* The first loop of runOnBasicBlock finds all split points.
LEMMA CollectedPoints ==
  ASSUME NEW b, WellFormed(b)
  PROVE  Covers(b, FlattenSeq([i \in 1..Len(b) |-> SplitPoints(b, i)]))
<1> DEFINE s == FlattenSeq([i \in 1..Len(b) |-> SplitPoints(b, i)])
<1> DEFINE pts == [i \in 1..Len(b) |-> SplitPoints(b, i)]
           at == Starts(pts)
<1>1. Len(b) \in Nat /\ Len(b) > 0 /\ DOMAIN b = 1..Len(b) /\ b[Len(b)].op \notin SiteOps
  BY DEF WellFormed, IsSeq
<1>2. ASSUME NEW i \in 1..Len(b)
      PROVE  /\ IsSeq(pts[i])
             /\ \A m \in 1..Len(pts[i]) :
                  \E j \in 1..Len(b) : b[j].id = pts[i][m] /\ MaySplit(b, j)
             /\ b[i].op = "asm" => i = 1 \/ (Len(pts[i]) = 1 /\ pts[i][1] = b[i].id)
             /\ producesStackmapRecords(b[i]) => Len(pts[i]) = 1 /\ pts[i][1] = b[i + 1].id
  <2> DEFINE p == pts[i]
  <2>1. p = SplitPoints(b, i)
    OBVIOUS
  <2> HIDE DEF pts, p
  <2>2. CASE b[i].op = "asm" /\ i > 1
    <3>1. p = <<b[i].id>>
      BY <2>1, <2>2 DEF SplitPoints, AsmSplit, producesStackmapRecords
    <3>2. IsSeq(p) /\ Len(p) = 1 /\ p[1] = b[i].id
      BY <3>1, TupleIsSeq
    <3>3. MaySplit(b, i) /\ ~producesStackmapRecords(b[i])
      BY <2>2 DEF MaySplit, producesStackmapRecords
    <3>4. \A m \in 1..Len(p) : m = 1
      BY <3>2
    <3> QED BY <3>2, <3>3, <3>4 DEF p
  <2>3. CASE producesStackmapRecords(b[i])
    <3>1. i # Len(b)
      BY <1>1, <2>3 DEF producesStackmapRecords, SiteOps
    <3>2. i + 1 \in 1..Len(b) /\ (i + 1) - 1 = i
      <4>1. Len(b) \in Nat
        BY <1>1
      <4> QED BY <3>1, <4>1
    <3>3. p = <<b[i + 1].id>>
      BY <1>1, <2>1, <2>3, <3>2 DEF SplitPoints, producesStackmapRecords
    <3>4. IsSeq(p) /\ Len(p) = 1 /\ p[1] = b[i + 1].id
      BY <3>3, TupleIsSeq
    <3>5. MaySplit(b, i + 1) /\ b[i].op # "asm"
      BY <2>3, <3>2 DEF MaySplit, producesStackmapRecords
    <3>6. \A m \in 1..Len(p) : m = 1
      BY <3>4
    <3> QED BY <3>2, <3>4, <3>5, <3>6 DEF p
  <2>4. CASE ~(b[i].op = "asm" /\ i > 1) /\ ~producesStackmapRecords(b[i])
    <3>1. p = <<>>
      BY <2>1, <2>4 DEF SplitPoints, AsmSplit
    <3>2. IsSeq(p) /\ Len(p) = 0
      <4>1. <<>> \in Seq({}) /\ Len(<<>>) = 0
        OBVIOUS
      <4> QED BY <3>1, <4>1, IsSeqOfSeq
    <3>3. 1..Len(p) = {} /\ (b[i].op = "asm" => i = 1)
      BY <1>1, <2>4, <3>2
    <3> QED BY <2>4, <3>2, <3>3 DEF p
  <2> QED BY <2>2, <2>3, <2>4
<1>3. IsSeq(pts) /\ Len(pts) = Len(b)
  <2>1. pts = [i \in 1..Len(b) |-> pts[i]]
    OBVIOUS
  <2> HIDE DEF pts
  <2> QED BY <1>1, <2>1, FunctionIsSeq
<1> HIDE DEF pts
<1>4. IsFlattened(pts, s, at)
  <2>1. IsSeq(pts) /\ \A i \in 1..Len(pts) : IsSeq(pts[i])
    BY <1>2, <1>3
  <2> QED BY <2>1, FlattenLayout DEF pts
<1> HIDE DEF at, s
<1> DEFINE n == Len(b)
<1>5. /\ IsSeq(s) /\ Len(s) = at[n]
      /\ \A i \in 1..n : \A m \in 1..Len(pts[i]) : s[at[i - 1] + m] = pts[i][m]
      /\ \A k \in 1..Len(s) : \E i \in 1..n : \E m \in 1..Len(pts[i]) : k = at[i - 1] + m
      /\ at \in [0..n -> Nat]
      /\ \A i \in 1..n : at[i] = at[i - 1] + Len(pts[i])
      /\ \A i, j \in 0..n : i <= j => at[i] <= at[j]
  <2>1. n = Len(pts)
    BY <1>3
  <2> HIDE DEF n
  <2>2. /\ IsSeq(s) /\ Len(s) = at[Len(pts)]
        /\ \A i \in 1..Len(pts) : \A m \in 1..Len(pts[i]) : s[at[i - 1] + m] = pts[i][m]
        /\ \A k \in 1..Len(s) : \E i \in 1..Len(pts) : \E m \in 1..Len(pts[i]) : k = at[i - 1] + m
        /\ at \in [0..Len(pts) -> Nat]
        /\ \A i \in 1..Len(pts) : at[i] = at[i - 1] + Len(pts[i])
        /\ \A i, j \in 0..Len(pts) : i <= j => at[i] <= at[j]
    BY <1>4 DEF IsFlattened
  <2> QED BY ONLY <2>1, <2>2
<1>6. ASSUME NEW m \in 1..Len(s)
      PROVE  \E i \in 1..Len(b) : b[i].id = s[m] /\ MaySplit(b, i)
  <2>1. PICK i \in 1..Len(b) : \E j \in 1..Len(pts[i]) : m = at[i - 1] + j
    BY <1>5
  <2>2. PICK j \in 1..Len(pts[i]) : m = at[i - 1] + j
    BY <2>1
  <2>3. s[m] = pts[i][j]
    BY <1>5, <2>2
  <2> QED BY <1>2, <2>3
<1>7. ASSUME NEW i \in 1..Len(b), Len(pts[i]) = 1
      PROVE  \E m \in 1..Len(s) : s[m] = pts[i][1]
  <2>1. i - 1 \in 0..Len(b) /\ i \in 0..Len(b) /\ Len(b) \in 0..Len(b) /\ i <= Len(b)
    BY <1>1
  <2>2. /\ at[i - 1] \in Nat /\ at[i] = at[i - 1] + 1 /\ at[i] <= at[Len(b)] /\ Len(s) = at[Len(b)]
        /\ at[Len(b)] \in Nat
    BY <1>5, <1>7, <2>1
  <2>3. at[i - 1] + 1 \in 1..Len(s)
    BY <2>2
  <2>4. s[at[i - 1] + 1] = pts[i][1]
    <3>1. 1 \in 1..Len(pts[i])
      BY <1>7
    <3> QED BY <1>5, <3>1
  <2> QED BY <2>3, <2>4
<1>8. ASSUME NEW i \in 1..Len(b), b[i].op = "asm"
      PROVE  i = 1 \/ \E m \in 1..Len(s) : s[m] = b[i].id
  BY <1>2, <1>7, <1>8
<1>9. ASSUME NEW i \in 1..Len(b), producesStackmapRecords(b[i])
      PROVE  \E m \in 1..Len(s) : s[m] = b[i + 1].id
  BY <1>2, <1>7, <1>9
<1>10. Covers(b, s)
  BY <1>5, <1>6, <1>8, <1>9 DEF Covers
<1> QED BY <1>10 DEF s

\* What is collected covers all that is not separated in the block.
LEMMA CollectStep ==
  ASSUME IInv, Collect
  PROVE  IInv'
<1> DEFINE b == blocks[cur]
<1>1. /\ cur \in 1..Len(blocks) /\ blocks' = blocks /\ cur' = cur /\ phase' = "split"
      /\ callInsts' = FlattenSeq([i \in 1..Len(b) |-> SplitPoints(b, i)])
  BY DEF IInv, TypeInv, IsSeq, Collect, Visiting
<1>2. WellFormed(b)
  BY <1>1 DEF IInv, BlockInv
<1> DEFINE s == callInsts'
<1>3. /\ IsSeq(s)
      /\ \A m \in 1..Len(s) : \E i \in 1..Len(b) : b[i].id = s[m] /\ MaySplit(b, i)
      /\ \A i \in 1..Len(b) : b[i].op = "asm" =>
           i = 1 \/ \E m \in 1..Len(s) : s[m] = b[i].id
      /\ \A i \in 1..Len(b) : producesStackmapRecords(b[i]) =>
           i = Len(b) - 1 \/ \E m \in 1..Len(s) : s[m] = b[i + 1].id
  <2>1. Covers(b, FlattenSeq([i \in 1..Len(b) |-> SplitPoints(b, i)]))
    <3> HIDE DEF b
    <3> QED BY <1>2, CollectedPoints
  <2>2. Covers(b, s)
    BY Zenon, <1>1, <2>1
  <2> HIDE DEF b, s
  <2> QED BY <2>2 DEF Covers
<1>4. TypeInv' /\ BlockInv' /\ IdInv' /\ DoneInv'
  BY <1>1, <1>3 DEF IInv, TypeInv, BlockInv, IdInv, DoneInv
<1>5. PendingInv'
  <2>1. cur \in cur..Len(blocks)
    BY <1>1
  <2> QED BY <1>1, <1>3, <2>1 DEF PendingInv
<1>6. CurInv'
  BY <1>1, <1>3 DEF CurInv, Pending
<1> QED BY <1>4, <1>5, <1>6 DEF IInv

\* The block and the place in it that are found for an instruction.
LEMMA SplitChoice ==
  ASSUME TypeInv, BlockInv, Unique(blocks), NEW k \in 1..Len(blocks),
         NEW at \in 1..Len(blocks[k]), NEW inst, inst = blocks[k][at].id
  PROVE  IsSplit(blocks, k, at, [op |-> "br", id |-> -Len(blocks)],
                 splitBasicBlock(getParent(inst), inst))
<1> DEFINE b == blocks[k]
           br == [op |-> "br", id |-> -Len(blocks)]
<1>1. getParent(inst) = k
  <2>1. \A l \in 1..Len(blocks) : (\E i \in 1..Len(blocks[l]) : blocks[l][i].id = inst) => l = k
    BY DEF Unique
  <2>2. \E i \in 1..Len(blocks[k]) : blocks[k][i].id = inst
    OBVIOUS
  <2> QED BY <2>1, <2>2 DEF getParent
<1>2. (CHOOSE i \in 1..Len(b) : b[i].id = inst) = at
  <2>1. \A i \in 1..Len(b) : b[i].id = inst => i = at
    BY DEF Unique
  <2>2. at \in 1..Len(b) /\ b[at].id = inst
    OBVIOUS
  <2> HIDE DEF b
  <2> QED BY <2>1, <2>2
<1>3. splitBasicBlock(k, inst)
        = SubSeq(blocks, 1, k - 1)
            \o <<Append(SubSeq(b, 1, at - 1), br), SubSeq(b, at, Len(b))>>
            \o SubSeq(blocks, k + 1, Len(blocks))
  BY Zenon, <1>2 DEF splitBasicBlock
<1>4. IsSeq(blocks) /\ IsSeq(blocks[k])
  BY DEF TypeInv, BlockInv, WellFormed
<1> HIDE DEF br
<1>5. IsSplit(blocks, k, at, br, splitBasicBlock(k, inst))
  BY <1>3, <1>4, SplitLayout
<1> QED BY <1>1, <1>5 DEF br

\* A split leaves all but what it separates pending.
LEMMA SplitStep ==
  ASSUME IInv, Split
  PROVE  IInv'
<1> DEFINE h == callInsts[1]
           N == Len(blocks)
           br == [op |-> "br", id |-> -N]
<1>1. /\ cur' = cur /\ phase = "split" /\ phase' = "split" /\ callInsts # <<>>
      /\ blocks' = splitBasicBlock(getParent(Head(callInsts)), Head(callInsts))
      /\ callInsts' = Tail(callInsts)
  BY DEF Split
<1>2. /\ Len(callInsts) \in Nat /\ Len(callInsts) > 0 /\ Head(callInsts) = h
      /\ IsSeq(callInsts') /\ Len(callInsts') = Len(callInsts) - 1
      /\ \A m \in 1..(Len(callInsts) - 1) : callInsts'[m] = callInsts[m + 1]
  <2>1. IsSeq(callInsts) /\ Len(callInsts) \in Nat
    BY DEF IInv, TypeInv, IsSeq
  <2> QED BY <1>1, <2>1, TailAny
<1>3. PICK k \in cur..N : \E i \in 1..Len(blocks[k]) : blocks[k][i].id = h /\ MaySplit(blocks[k], i)
  <2>1. 1 \in 1..Len(callInsts)
    BY <1>2
  <2> QED BY <2>1 DEF IInv, PendingInv
<1>4. PICK at \in 1..Len(blocks[k]) : blocks[k][at].id = h /\ MaySplit(blocks[k], at)
  BY <1>3
<1>5. N \in Nat /\ cur \in 1..N /\ k \in 1..N /\ cur <= k /\ cur \in Nat \ {0}
  BY <1>1 DEF IInv, TypeInv, CurInv, IsSeq
<1> DEFINE new == blocks'
<1>6. IsSplit(blocks, k, at, br, new)
  <2>1. TypeInv /\ BlockInv /\ Unique(blocks)
    BY DEF IInv, IdInv
  <2> HIDE DEF h
  <2> QED BY <1>1, <1>2, <1>4, <1>5, <2>1, SplitChoice
<1>7. CanSplit(blocks, k, at)
  BY <1>5 DEF IInv, TypeInv, BlockInv, WellFormed, CanSplit
<1>8. br.id = -N /\ br.op = "br" /\ br.op \notin SiteOps /\ br.id \in Int /\ -N = br.id
  BY <1>5 DEF SiteOps
<1> HIDE DEF br, h
<1>9. /\ IsSeq(new) /\ Len(new) = N + 1
      /\ \A j \in 1..(k - 1) : new[j] = blocks[j]
      /\ IsSeq(new[k]) /\ Len(new[k]) = at
      /\ \A i \in 1..(at - 1) : new[k][i] = blocks[k][i]
      /\ new[k][at] = br
  BY <1>6 DEF IsSplit
<1>10. Unique(blocks) /\ \A j, l \in 1..N : \A i \in 1..Len(blocks[j]) : \A m \in 1..Len(blocks[l]) :
         blocks[j][i].id = blocks[l][m].id => j = l /\ i = m
  BY DEF IInv, IdInv, Unique
<1> HIDE DEF new, N
<1>11. TypeInv'
  BY <1>1, <1>2, <1>5, <1>9 DEF IInv, TypeInv, new
<1>12. BlockInv'
  <2>1. \A j \in 1..Len(blocks) : WellFormed(blocks[j])
    BY DEF IInv, BlockInv
  <2>2. \A j \in 1..Len(new) : WellFormed(new[j])
    BY <1>4, <1>6, <1>7, <1>8, <2>1, SplitWellFormed
  <2> QED BY <2>2 DEF BlockInv, new
<1>13. IdInv'
  <2>1. IdsAbove(blocks, br.id)
    BY <1>8 DEF IInv, IdInv, IdsAbove, N
  <2>2. Unique(new) /\ IdsAbove(new, br.id - 1)
    BY <1>6, <1>7, <1>8, <1>10, <2>1, SplitUnique
  <2>3. br.id - 1 = -Len(new)
    BY <1>5, <1>8, <1>9
  <2> QED BY <2>2, <2>3 DEF IdInv, IdsAbove, new
<1>14. PendingInv'
  <2> SUFFICES ASSUME NEW m \in 1..Len(callInsts')
               PROVE  \E j \in cur..Len(new) : \E i \in 1..Len(new[j]) :
                        new[j][i].id = callInsts'[m] /\ MaySplit(new[j], i)
    BY <1>1 DEF PendingInv, new
  <2>1. m + 1 \in 1..Len(callInsts) /\ m \in 1..(Len(callInsts) - 1)
    BY <1>2
  <2>2. callInsts'[m] = callInsts[m + 1]
    BY <1>2, <2>1
  <2>3. PICK j \in cur..N : \E i \in 1..Len(blocks[j]) :
          blocks[j][i].id = callInsts[m + 1] /\ MaySplit(blocks[j], i)
    BY <2>1 DEF IInv, PendingInv, N
  <2>4. PICK i \in 1..Len(blocks[j]) : blocks[j][i].id = callInsts[m + 1] /\ MaySplit(blocks[j], i)
    BY <2>3
  <2>5. j \in 1..Len(blocks)
    BY <1>5 DEF N
  <2> DEFINE J == DstBlock(k, at, j, i)
             I == DstAt(k, at, j, i)
  <2>6. J \in 1..Len(new) /\ I \in 1..Len(new[J]) /\ new[J][I] = blocks[j][i]
    BY <1>6, <1>7, <2>5, SplitTarget
  <2>7. MaySplit(new[J], I)
    BY <1>6, <1>7, <2>4, <2>5, SplitMaySplit
  <2>8. J >= j
    BY <2>5 DEF DstBlock
  <2> HIDE DEF J, I
  <2>9. J \in cur..Len(new)
    BY <1>5, <1>9, <2>6, <2>8
  <2>10. new[J][I].id = callInsts'[m]
    BY <2>2, <2>4, <2>6
  <2> QED BY <2>6, <2>7, <2>9, <2>10
<1> DEFINE Left(x) == \E m \in 1..Len(callInsts') : callInsts'[m] = x
<1>15. ASSUME NEW x, Pending(x), x # h PROVE Left(x)
  <2>1. PICK m \in 1..Len(callInsts) : callInsts[m] = x
    BY <1>15 DEF Pending
  <2>2. m # 1
    BY <1>15, <2>1 DEF h
  <2>3. m - 1 \in 1..(Len(callInsts) - 1) /\ (m - 1) + 1 = m
    BY <1>2, <2>2
  <2>4. m - 1 \in 1..Len(callInsts') /\ callInsts'[m - 1] = x
    BY <1>2, <2>1, <2>3
  <2> QED BY <2>4
<1> HIDE DEF Left
<1>16. ASSUME NEW i \in 1..Len(blocks[cur])
       PROVE  /\ blocks[cur][i].op = "asm" => i = 1 \/ Pending(blocks[cur][i].id)
              /\ producesStackmapRecords(blocks[cur][i]) =>
                   i = Len(blocks[cur]) - 1 \/ Pending(blocks[cur][i + 1].id)
  BY <1>1 DEF IInv, CurInv
<1>17. WellFormed(blocks[cur]) /\ Len(blocks[cur]) \in Nat
  BY <1>5 DEF IInv, BlockInv, WellFormed, IsSeq, N
<1>18. ASSUME NEW i \in 1..Len(new[cur])
       PROVE  /\ new[cur][i].op = "asm" => i = 1 \/ Left(new[cur][i].id)
              /\ producesStackmapRecords(new[cur][i]) =>
                   i = Len(new[cur]) - 1 \/ Left(new[cur][i + 1].id)
  <2>1. CASE cur < k
    <3>1. new[cur] = blocks[cur]
      BY <1>5, <1>9, <2>1
    <3>2. \A j \in 1..Len(blocks[cur]) : blocks[cur][j].id # h
      BY <1>4, <1>5, <1>10, <2>1
    <3>3. producesStackmapRecords(blocks[cur][i]) => i + 1 \in 1..Len(blocks[cur])
      <4>1. producesStackmapRecords(blocks[cur][i]) => i # Len(blocks[cur])
        BY <1>17 DEF WellFormed, producesStackmapRecords, SiteOps
      <4> QED BY <1>17, <3>1, <4>1
    <3> QED BY <1>15, <1>16, <3>1, <3>2, <3>3
  <2>2. CASE cur = k
    <3>1. i \in 1..at /\ Len(new[cur]) = at
      BY <1>9, <2>2
    <3>2. CASE i = at
      BY <1>8, <1>9, <2>2, <3>2 DEF producesStackmapRecords
    <3>3. CASE i # at
      <4>1. i \in 1..(at - 1) /\ i \in 1..Len(blocks[cur]) /\ at <= Len(blocks[cur])
        BY <1>17, <2>2, <3>1, <3>3
      <4>2. new[cur][i] = blocks[cur][i]
        BY <1>9, <2>2, <4>1
      <4>3. blocks[cur][i].id # h
        BY <1>4, <1>5, <1>10, <2>2, <3>3, <4>1
      <4>4. blocks[cur][i].op = "asm" => i = 1 \/ Left(blocks[cur][i].id)
        BY <1>15, <1>16, <4>1, <4>3
      <4>5. ASSUME producesStackmapRecords(blocks[cur][i]), i # at - 1
            PROVE  Left(new[cur][i + 1].id)
        <5>1. /\ i + 1 \in 1..(at - 1) /\ i + 1 \in 1..Len(blocks[cur]) /\ i + 1 # at
              /\ i # Len(blocks[cur]) - 1
          BY <1>17, <4>1, <4>5
        <5>2. new[cur][i + 1] = blocks[cur][i + 1]
          BY <1>9, <2>2, <5>1
        <5>3. blocks[cur][i + 1].id # h
          BY <1>4, <1>5, <1>10, <2>2, <5>1
        <5>4. Pending(blocks[cur][i + 1].id)
          BY <1>16, <4>1, <4>5, <5>1
        <5> QED BY <1>15, <5>2, <5>3, <5>4
      <4> QED BY <3>1, <4>2, <4>4, <4>5
    <3> QED BY <3>2, <3>3
  <2> QED BY <1>5, <2>1, <2>2
<1>19. CurInv'
  <2>1. cur \in 1..Len(new)
    BY <1>5, <1>9
  <2> QED BY <1>1, <1>18, <2>1 DEF CurInv, Pending, Left, new
<1>20. DoneInv'
  <2> SUFFICES ASSUME NEW j \in 1..Len(new), j < cur PROVE Separated(new[j])
    BY <1>1 DEF DoneInv, new
  <2>1. j \in 1..(k - 1) /\ j \in 1..N
    BY <1>5
  <2>2. new[j] = blocks[j]
    BY <1>9, <2>1
  <2> QED BY <2>1, <2>2 DEF IInv, DoneInv, N
<1> QED BY <1>11, <1>12, <1>13, <1>14, <1>19, <1>20 DEF IInv

\* When no split point is left, the block is separated.
LEMMA NextBlockStep ==
  ASSUME IInv, NextBlock
  PROVE  IInv'
<1>1. /\ blocks' = blocks /\ callInsts' = callInsts /\ cur' = cur + 1 /\ phase' = "collect"
      /\ phase = "split" /\ callInsts = <<>>
  BY DEF NextBlock
<1>2. Len(callInsts) = 0 /\ 1..Len(callInsts) = {}
  BY <1>1
<1>3. \A x : ~Pending(x)
  BY <1>2 DEF Pending
<1>4. Separated(blocks[cur])
  BY <1>1, <1>3 DEF IInv, CurInv, Separated
<1>5. TypeInv'
  BY <1>1 DEF IInv, TypeInv
<1>6. BlockInv' /\ IdInv'
  BY <1>1 DEF IInv, BlockInv, IdInv
<1>7. PendingInv' /\ CurInv'
  BY <1>1, <1>2 DEF PendingInv, CurInv
<1>8. DoneInv'
  <2>1. \A k \in 1..Len(blocks) : k < cur + 1 => k < cur \/ k = cur
    BY DEF IInv, TypeInv, IsSeq
  <2> QED BY <1>1, <1>4, <2>1 DEF IInv, DoneInv
<1> QED BY <1>5, <1>6, <1>7, <1>8 DEF IInv

\* Every step of the pass keeps the invariant.
LEMMA NextIInv == IInv /\ [Next]_vars => IInv'
<1> SUFFICES ASSUME IInv, [Next]_vars PROVE IInv'
  OBVIOUS
<1>1. CASE Collect
  BY <1>1, CollectStep
<1>2. CASE Split
  BY <1>2, SplitStep
<1>3. CASE NextBlock
  BY <1>3, NextBlockStep
<1>4. CASE UNCHANGED vars
  BY <1>4 DEF vars, IInv, TypeInv, BlockInv, IdInv, PendingInv, CurInv, DoneInv, Pending
<1> QED BY <1>1, <1>2, <1>3, <1>4 DEF Next

(***************************************************************************)
(* The blocks that BarrierPass has visited are separated, and what is not  *)
(* separated in the one it is visiting is pending.                         *)
(***************************************************************************)
THEOREM Invariance == Spec => []IInv
BY InitIInv, NextIInv, PTL DEF Spec

\* Separated blocks isolate their sites.
LEMMA IsolationFollows == IInv => SitesIsolated
<1> SUFFICES ASSUME IInv, ~(cur <= Len(blocks)), NEW k \in 1..Len(blocks)
             PROVE  IsolatedIn(blocks[k])
  BY DEF SitesIsolated, Visiting
<1> DEFINE b == blocks[k]
<1>1. WellFormed(b) /\ Len(b) \in Nat
  BY DEF IInv, BlockInv, WellFormed, IsSeq
<1>2. Separated(b)
  <2>1. k < cur
    BY DEF IInv, TypeInv, IsSeq
  <2> QED BY <2>1 DEF IInv, DoneInv
<1> HIDE DEF b
<1>3. \A i \in 1..Len(b) : /\ b[i].op = "asm" => i = 1
                           /\ b[i].op \in {"stackmap", "patchpoint"} => i = Len(b) - 1
  BY <1>2 DEF Separated, producesStackmapRecords
<1>4. ASSUME NEW i \in 1..Len(b), b[i].op = "call"
      PROVE  Body(b) = <<"asm", "call", "stackmap">>
  <2>1. i > 1 /\ b[i - 1].op = "asm" /\ b[i + 1].op = "stackmap" /\ i # Len(b)
    BY <1>1, <1>4 DEF WellFormed, SiteOps
  <2>2. i - 1 \in 1..Len(b) /\ i + 1 \in 1..Len(b)
    BY <1>1, <2>1
  <2>3. i - 1 = 1 /\ i + 1 = Len(b) - 1
    BY <1>3, <2>1, <2>2
  <2>4. i = 2 /\ Len(b) - 1 = 3
    BY <1>1, <2>3
  <2>5. b[1].op = "asm" /\ b[2].op = "call" /\ b[3].op = "stackmap"
    BY <1>4, <2>1, <2>4
  <2>6. Body(b) = [j \in 1..3 |-> b[j].op]
    BY <2>4 DEF Body
  <2>7. [j \in 1..3 |-> b[j].op] = <<"asm", "call", "stackmap">>
    <3> DEFINE s == [j \in 1..3 |-> b[j].op]
               t == <<"asm", "call", "stackmap">>
    <3>1. IsSeq(t) /\ Len(t) = 3 /\ t[1] = "asm" /\ t[2] = "call" /\ t[3] = "stackmap"
      BY TupleIsSeq
    <3>2. s[1] = "asm" /\ s[2] = "call" /\ s[3] = "stackmap" /\ s = [j \in 1..3 |-> s[j]] /\ 3 \in Nat
      BY <2>5
    <3> HIDE DEF s, t
    <3>3. IsSeq(s) /\ Len(s) = 3
      BY <3>2, FunctionIsSeq
    <3>4. \A j \in 1..3 : j \in {1, 2, 3}
      OBVIOUS
    <3>5. \A j \in 1..Len(s) : s[j] = t[j]
      BY <3>1, <3>2, <3>3, <3>4
    <3>6. s = t
      BY <3>1, <3>3, <3>5, SeqsEqual
    <3> QED BY <3>6 DEF s, t
  <2> QED BY <2>6, <2>7
<1>5. IsolatedIn(b)
  BY <1>3, <1>4 DEF IsolatedIn
<1> QED BY <1>5 DEF b

(***************************************************************************)
(* When BarrierPass has visited all blocks of a function, its own          *)
(* included, the asm block, the call and the site of every call are alone  *)
(* in their block, and nothing follows a site.                             *)
(***************************************************************************)
THEOREM AllSitesIsolated == Spec => []SitesIsolated
BY Invariance, IsolationFollows, PTL
=============================================================================
