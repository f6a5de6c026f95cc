------------------------ MODULE StackMapParserProofs ------------------------
(***************************************************************************)
(* Proofs of the properties of StackMapParser, for all tables: any number  *)
(* of functions, constants and records, with any numbers of locations and  *)
(* live-outs.                                                              *)
(*                                                                         *)
(* The argument: the cursor is always where some field of the section      *)
(* ends.  What is read there is the next field, because no two fields      *)
(* start at the same place, and the cursor moves to the end of another     *)
(* field, because the padding stmap_create works out is the one LLVM       *)
(* inserted.                                                               *)
(***************************************************************************)
EXTENDS StackMapParser, SequenceLemmas

\* A field of the section or a padding.
IsField(f) == f = Align8 \/ (f # Align8 /\ f.size \in Nat \ {0})

AllFields(fields) == IsSeq(fields) /\ \A k \in 1..Len(fields) : IsField(fields[k])

\* The end of each field is defined.
LEMMA EndsProperties ==
  ASSUME NEW fields, AllFields(fields)
  PROVE  /\ Ends(fields)[0] = 0
         /\ \A k \in 0..Len(fields) : Ends(fields)[k] \in Nat
         /\ \A k \in 1..Len(fields) :
              Ends(fields)[k] = Ends(fields)[k - 1]
                + (IF fields[k] = Align8 THEN (-Ends(fields)[k - 1]) % 8 ELSE fields[k].size)
         /\ \A i, j \in 0..Len(fields) : i <= j => Ends(fields)[i] <= Ends(fields)[j]
<1> DEFINE N == Len(fields)
           Def(f, k) == IF k = 0 THEN 0
                        ELSE f[k - 1] + (IF fields[k] = Align8 THEN (-f[k - 1]) % 8 ELSE fields[k].size)
           P == {n \in 0..N : \E f : f = [i \in 0..n |-> Def(f, i)]}
<1>1. N \in Nat /\ \A k \in 1..N : IsField(fields[k])
  BY DEF AllFields, IsSeq
<1> HIDE DEF N
<1>2. 0 \in P
  <2> DEFINE f == [i \in 0..0 |-> 0]
  <2>1. f = [i \in 0..0 |-> Def(f, i)]
    OBVIOUS
  <2>2. 0 \in 0..N
    BY <1>1
  <2> HIDE DEF f, Def
  <2> QED BY <2>1, <2>2
<1>3. ASSUME NEW n \in 0..(N - 1), n \in P PROVE n + 1 \in P
  <2>1. PICK f : f = [i \in 0..n |-> Def(f, i)]
    BY <1>3
  <2> DEFINE g == [i \in 0..(n + 1) |-> IF i = n + 1 THEN Def(f, i) ELSE f[i]]
  <2>2. ASSUME NEW i \in 0..(n + 1) PROVE g[i] = Def(g, i)
    <3>1. i # 0 => i - 1 \in 0..n /\ g[i - 1] = f[i - 1]
      <4> HIDE DEF Def
      <4> QED BY <1>1
    <3>2. Def(g, i) = Def(f, i)
      <4> HIDE DEF g
      <4> QED BY <3>1
    <3>3. i # n + 1 => f[i] = Def(f, i)
      <4> SUFFICES ASSUME i # n + 1 PROVE f[i] = Def(f, i)
        OBVIOUS
      <4>1. i \in 0..n
        BY <1>1
      <4> HIDE DEF Def
      <4> QED BY <2>1, <4>1
    <3> HIDE DEF Def
    <3> QED BY <3>2, <3>3
  <2>3. g = [i \in 0..(n + 1) |-> g[i]]
    <3> HIDE DEF Def
    <3> QED OBVIOUS
  <2> HIDE DEF g, Def
  <2>4. [i \in 0..(n + 1) |-> g[i]] = [i \in 0..(n + 1) |-> Def(g, i)]
    BY <2>2
  <2>5. g = [i \in 0..(n + 1) |-> Def(g, i)]
    BY Zenon, <2>3, <2>4
  <2>6. n + 1 \in 0..N
    BY <1>1
  <2> QED BY <2>5, <2>6
<1> HIDE DEF P
<1>4. N \in P
  <2>1. 0 \in Nat /\ N \in 0..N /\ \A n \in 0..(N - 1) : n \in P => n + 1 \in P
    BY <1>1, <1>3
  <2> HIDE DEF Def
  <2> QED BY Zenon, <1>1, <1>2, <2>1, IntervalInduction
<1> DEFINE end == Ends(fields)
<1>5. end = [i \in 0..N |-> Def(end, i)]
  <2>1. \E f : f = [i \in 0..N |-> Def(f, i)]
    BY Zenon, <1>4 DEF P
  <2>2. end = CHOOSE f : f = [i \in 0..N |-> Def(f, i)]
    BY Zenon DEF Ends, N
  <2> HIDE DEF end
  <2> QED BY Zenon, <2>1, <2>2
<1> HIDE DEF end
<1>6. end[0] = 0
  BY <1>1, <1>5
<1>7. ASSUME NEW k \in 1..N
      PROVE  end[k] = end[k - 1]
               + (IF fields[k] = Align8 THEN (-end[k - 1]) % 8 ELSE fields[k].size)
  <2>1. k \in 0..N /\ k # 0
    BY <1>1
  <2>2. end[k] = Def(end, k)
    <3> HIDE DEF Def
    <3> QED BY <1>5, <2>1
  <2> QED BY <2>1, <2>2
<1>8. ASSUME NEW k \in 1..N, end[k - 1] \in Nat
      PROVE  end[k] \in Nat /\ end[k - 1] <= end[k]
  <2> DEFINE e == end[k - 1]
             z == IF fields[k] = Align8 THEN (-e) % 8 ELSE fields[k].size
  <2>1. e \in Nat /\ end[k] = e + z
    BY <1>7, <1>8
  <2>2. z \in Nat
    <3>1. (-e) % 8 \in Nat
      <4> HIDE DEF e
      <4> QED BY <2>1
    <3>2. fields[k] # Align8 => fields[k].size \in Nat
      BY <1>1 DEF IsField
    <3> HIDE DEF e
    <3> QED BY <3>1, <3>2
  <2> HIDE DEF z
  <2>3. end[k] \in Nat /\ e <= end[k]
    <3> HIDE DEF e
    <3> QED BY <2>1, <2>2
  <2> QED BY <2>3
<1>9. \A k \in 0..N : end[k] \in Nat
  <2> DEFINE Q == {i \in 0..N : end[i] \in Nat}
  <2>1. 0 \in Q
    BY <1>1, <1>6
  <2>2. ASSUME NEW n \in 0..(N - 1), n \in Q PROVE n + 1 \in Q
    <3>1. n + 1 \in 1..N /\ n + 1 \in 0..N /\ (n + 1) - 1 = n
      BY <1>1
    <3> QED BY <1>8, <2>2, <3>1
  <2> HIDE DEF Q
  <2>3. \A i \in 0..N : i \in Q
    <3>1. 0 \in Nat /\ \A n \in 0..(N - 1) : n \in Q => n + 1 \in Q
      BY <2>2
    <3> HIDE DEF Def
    <3> QED BY Zenon, <1>1, <2>1, <3>1, IntervalInduction
  <2> QED BY <2>3 DEF Q
<1>10. ASSUME NEW i \in 0..N PROVE \A j \in i..N : end[i] <= end[j]
  <2> DEFINE Q == {j \in i..N : end[i] <= end[j]}
  <2>1. i \in Q
    BY <1>1, <1>9
  <2>2. ASSUME NEW n \in i..(N - 1), n \in Q PROVE n + 1 \in Q
    <3>1. /\ n + 1 \in 1..N /\ n + 1 \in 0..N /\ (n + 1) - 1 = n
          /\ n \in 0..N /\ n + 1 \in i..N
      BY <1>1
    <3>2. end[n] <= end[n + 1]
      BY <1>8, <1>9, <3>1
    <3> QED BY <1>9, <2>2, <3>1, <3>2
  <2> HIDE DEF Q
  <2>3. \A j \in i..N : j \in Q
    <3>1. i \in Nat /\ \A n \in i..(N - 1) : n \in Q => n + 1 \in Q
      BY <1>1, <2>2
    <3> HIDE DEF Def
    <3> QED BY Zenon, <1>1, <2>1, <3>1, IntervalInduction
  <2> QED BY <2>3 DEF Q
<1> QED
  <2>1. \A i, j \in 0..N : i <= j => end[i] <= end[j]
    BY <1>1, <1>10
  <2> QED BY <1>6, <1>7, <1>9, <2>1 DEF N, end

\* The n fields after field b have size z.
IsArray(fields, b, n, z) ==
  /\ b \in Nat /\ n \in Nat /\ z \in Nat
  /\ b + n <= Len(fields)
  /\ \A k \in 1..n : fields[b + k] # Align8 /\ fields[b + k].size = z

EndsEvenly(fields, b, n, z) ==
  \A k \in 0..n : Ends(fields)[b + k] = Ends(fields)[b] + k * z

\* Each field of an array ends z bytes after the one before it.
LEMMA EndsOfArray ==
  ASSUME NEW fields, AllFields(fields), NEW b, NEW n, NEW z, IsArray(fields, b, n, z)
  PROVE  EndsEvenly(fields, b, n, z)
<1> DEFINE end == Ends(fields)
           P == {k \in 0..n : end[b + k] = end[b] + k * z}
<1>0. /\ b \in Nat /\ n \in Nat /\ z \in Nat /\ b + n <= Len(fields)
      /\ \A k \in 1..n : fields[b + k] # Align8 /\ fields[b + k].size = z
  BY DEF IsArray
<1>1. Len(fields) \in Nat /\ \A k \in 0..Len(fields) : end[k] \in Nat
  BY EndsProperties DEF AllFields, IsSeq
<1>2. 0 \in P
  <2>1. b \in 0..Len(fields) /\ b + 0 = b /\ 0 \in 0..n /\ 0 * z = 0
    BY <1>0, <1>1
  <2>2. end[b] \in Nat
    BY <1>1, <2>1
  <2> HIDE DEF end
  <2> QED BY <1>0, <2>1, <2>2
<1>3. ASSUME NEW k \in 0..(n - 1), k \in P PROVE k + 1 \in P
  <2>1. /\ b + (k + 1) \in 1..Len(fields) /\ (b + (k + 1)) - 1 = b + k /\ k + 1 \in 1..n
        /\ k + 1 \in 0..n /\ k \in Nat /\ b \in 0..Len(fields)
    BY <1>0, <1>1
  <2> DEFINE q == b + (k + 1)
  <2>2. end[q] = end[q - 1] + fields[q].size
    <3>1. fields[q] # Align8 /\ q \in 1..Len(fields)
      BY <1>0, <2>1
    <3> HIDE DEF q
    <3> QED BY <3>1, EndsProperties
  <2>3. fields[q].size = z
    BY <1>0, <2>1
  <2>4. end[b + (k + 1)] = end[b + k] + z
    BY <2>1, <2>2, <2>3
  <2>5. end[b] \in Nat /\ end[b + k] = end[b] + k * z
    BY <1>0, <1>1, <1>3, <2>1
  <2>6. (k + 1) * z = k * z + z /\ k * z \in Nat
    BY <1>0, <2>1
  <2> HIDE DEF end
  <2> QED BY <1>0, <2>1, <2>4, <2>5, <2>6
<1> HIDE DEF P
<1>4. \A k \in 0..n : k \in P
  <2>1. 0 \in Nat /\ \A k \in 0..(n - 1) : k \in P => k + 1 \in P
    BY <1>3
  <2> QED BY Zenon, <1>0, <1>2, <2>1, IntervalInduction
<1> QED BY <1>4 DEF P, EndsEvenly

\* A field that is no padding.
LEMMA FieldProperties ==
  ASSUME NEW size \in Nat \ {0}, NEW val
  PROVE  /\ Field(size, val).size = size
         /\ Field(size, val).val = val
         /\ Field(size, val) # Align8
         /\ IsField(Field(size, val))
BY DEF Field, Align8, IsField

\* An array of fields.
LEMMA FieldsProperties ==
  ASSUME NEW size \in Nat \ {0}, NEW vals, IsSeq(vals)
  PROVE  /\ IsSeq(Fields(size, vals))
         /\ Len(Fields(size, vals)) = Len(vals)
         /\ \A k \in 1..Len(vals) : Fields(size, vals)[k] = Field(size, vals[k])
<1> DEFINE s == Fields(size, vals)
<1>1. Len(vals) \in Nat /\ s = [k \in 1..Len(vals) |-> Field(size, vals[k])]
  BY DEF IsSeq, Fields
<1> HIDE DEF s
<1>2. s = [k \in 1..Len(vals) |-> s[k]] /\ \A k \in 1..Len(vals) : s[k] = Field(size, vals[k])
  BY <1>1
<1>3. IsSeq(s) /\ Len(s) = Len(vals)
  BY <1>1, <1>2, FunctionIsSeq
<1> QED BY <1>2, <1>3 DEF s

(***************************************************************************)
(* Reading a field where it starts gives its value: no other field starts  *)
(* there.                                                                  *)
(***************************************************************************)
LEMMA ReadField ==
  ASSUME AllFields(Emitted(tables)), NEW k \in 1..Len(Emitted(tables)),
         Emitted(tables)[k] # Align8, NEW at, at = Ends(Emitted(tables))[k - 1],
         NEW size, size = Emitted(tables)[k].size
  PROVE  Read(at, size) = Emitted(tables)[k].val
<1> DEFINE emitted == Emitted(tables)
           end     == Ends(emitted)
           Placed(j) == [at |-> end[j - 1], size |-> emitted[j].size, val |-> emitted[j].val]
           found   == {f \in section.fields : f.at = at /\ f.size = size}
<1>1. section.fields = {Placed(j) : j \in {i \in 1..Len(emitted) : emitted[i] # Align8}}
  BY DEF section, Section
<1>2. /\ Len(emitted) \in Nat /\ \A j \in 0..Len(emitted) : end[j] \in Nat
      /\ \A i, j \in 0..Len(emitted) : i <= j => end[i] <= end[j]
  BY EndsProperties DEF AllFields, IsSeq
<1>3. ASSUME NEW j \in 1..Len(emitted), emitted[j] # Align8
      PROVE  end[j - 1] < end[j]
  <2>1. end[j] = end[j - 1] + emitted[j].size
    BY <1>3, EndsProperties
  <2>2. emitted[j].size \in Nat \ {0}
    BY <1>3 DEF AllFields, IsField
  <2>3. j - 1 \in 0..Len(emitted)
    BY <1>2
  <2>4. end[j - 1] \in Nat
    BY <1>2, <2>3
  <2> HIDE DEF end, emitted
  <2> QED BY <2>1, <2>2, <2>4
<1>4. ASSUME NEW j \in 1..Len(emitted), emitted[j] # Align8, end[j - 1] = end[k - 1]
      PROVE  j = k
  <2>1. /\ j \in 0..Len(emitted) /\ k \in 0..Len(emitted)
        /\ j - 1 \in 0..Len(emitted) /\ k - 1 \in 0..Len(emitted)
        /\ j < k => j <= k - 1
        /\ k < j => k <= j - 1
        /\ j \in Int /\ k \in Int
    BY <1>2
  <2>2. end[j - 1] < end[j] /\ end[k - 1] < end[k]
    BY <1>3, <1>4
  <2>3. CASE j < k
    <3>1. end[j] <= end[k - 1]
      BY <1>2, <2>1, <2>3
    <3> HIDE DEF end, emitted
    <3> QED BY <1>2, <1>4, <2>1, <2>2, <3>1
  <2>4. CASE k < j
    <3>1. end[k] <= end[j - 1]
      BY <1>2, <2>1, <2>4
    <3> HIDE DEF end, emitted
    <3> QED BY <1>2, <1>4, <2>1, <2>2, <3>1
  <2> QED BY <2>1, <2>3, <2>4
<1>5. Placed(k) \in found
  <2>1. Placed(k).at = at /\ Placed(k).size = size
    OBVIOUS
  <2> HIDE DEF Placed
  <2> QED BY <1>1, <2>1
<1>6. \A f \in found : f = Placed(k)
  <2> SUFFICES ASSUME NEW f \in found PROVE f = Placed(k)
    OBVIOUS
  <2>1. PICK j \in {i \in 1..Len(emitted) : emitted[i] # Align8} : f = Placed(j)
    <3> HIDE DEF Placed
    <3> QED BY <1>1
  <2>2. end[j - 1] = end[k - 1]
    BY <2>1
  <2> HIDE DEF end, emitted, Placed
  <2> QED BY <1>4, <2>1, <2>2
<1>7. Read(at, size) = (CHOOSE f \in found : TRUE).val
  <2>1. found # {}
    BY <1>5
  <2> QED BY Zenon, <2>1 DEF Read
<1>8. (CHOOSE f \in found : TRUE) = Placed(k)
  <2> HIDE DEF found, Placed
  <2> QED BY <1>5, <1>6
<1>9. Placed(k).val = emitted[k].val
  OBVIOUS
<1> HIDE DEF found, Placed
<1> QED BY <1>7, <1>8, <1>9

-----------------------------------------------------------------------------
\* The fields of a record, as LLVM emits them.
LEMMA RecordLayout ==
  ASSUME NEW rec, IsSeq(rec.locations), IsSeq(rec.liveouts)
  PROVE  LET L == Len(rec.locations)
             M == Len(rec.liveouts)
         IN  /\ IsSeq(EmitRecord(rec)) /\ Len(EmitRecord(rec)) = L + M + 8
             /\ EmitRecord(rec)[1] = Field(8, rec.patchpoint_id)
             /\ EmitRecord(rec)[2] = Field(4, rec.instr_offset)
             /\ EmitRecord(rec)[3] = Field(2, 0)
             /\ EmitRecord(rec)[4] = Field(2, L)
             /\ \A k \in 1..L : EmitRecord(rec)[4 + k] = Field(12, rec.locations[k])
             /\ EmitRecord(rec)[L + 5] = Align8
             /\ EmitRecord(rec)[L + 6] = Field(2, 0)
             /\ EmitRecord(rec)[L + 7] = Field(2, M)
             /\ \A k \in 1..M : EmitRecord(rec)[L + 7 + k] = Field(4, rec.liveouts[k])
             /\ EmitRecord(rec)[L + M + 8] = Align8
<1> DEFINE L == Len(rec.locations)
           M == Len(rec.liveouts)
<1> DEFINE e  == EmitRecord(rec)
           a  == Field(8, rec.patchpoint_id)
           b  == Field(4, rec.instr_offset)
           z  == Field(2, 0)
           l  == Field(2, L)
           m  == Field(2, M)
           s1 == <<a, b, z, l>>
           ls == Fields(12, rec.locations)
           s2 == s1 \o ls
           al == <<Align8>>
           s3 == s2 \o al
           cs == <<z, m>>
           s4 == s3 \o cs
           ms == Fields(4, rec.liveouts)
           s5 == s4 \o ms
           s6 == s5 \o al
<1>1. e = s6
  BY DEF EmitRecord, sizeof_uint16_t, sizeof_uint32_t, sizeof_uint64_t, sizeof_location_t,
         sizeof_liveout_t
<1>2. L \in Nat /\ M \in Nat
  BY DEF IsSeq
<1>3. /\ IsSeq(ls) /\ Len(ls) = L /\ \A k \in 1..L : ls[k] = Field(12, rec.locations[k])
      /\ IsSeq(ms) /\ Len(ms) = M /\ \A k \in 1..M : ms[k] = Field(4, rec.liveouts[k])
  BY FieldsProperties
<1>4. /\ IsSeq(s1) /\ Len(s1) = 4 /\ s1[1] = a /\ s1[2] = b /\ s1[3] = z /\ s1[4] = l
      /\ IsSeq(al) /\ Len(al) = 1 /\ al[1] = Align8
      /\ IsSeq(cs) /\ Len(cs) = 2 /\ cs[1] = z /\ cs[2] = m
  <2> HIDE DEF a, b, z, l, m
  <2> QED BY TupleIsSeq
<1> HIDE DEF s1, al, cs, ls, ms, e, a, b, z, l, m, L, M
<1>5. /\ IsSeq(s2) /\ Len(s2) = 4 + L
      /\ s2[1] = a /\ s2[2] = b /\ s2[3] = z /\ s2[4] = l
      /\ \A k \in 1..L : s2[4 + k] = ls[k]
  <2>1. /\ IsSeq(s2) /\ Len(s2) = Len(s1) + Len(ls)
        /\ \A k \in 1..Len(s1) : s2[k] = s1[k]
        /\ \A k \in 1..Len(ls) : s2[Len(s1) + k] = ls[k]
    <3>1. IsSeq(s1) /\ IsSeq(ls)
      BY <1>3, <1>4
    <3> QED BY <3>1, ConcatAny
  <2> HIDE DEF s2
  <2> QED BY <1>2, <1>3, <1>4, <2>1
<1> HIDE DEF s2
<1>6. /\ IsSeq(s3) /\ Len(s3) = L + 5
      /\ \A k \in 1..(L + 4) : s3[k] = s2[k]
      /\ s3[L + 5] = Align8
  <2>1. /\ IsSeq(s3) /\ Len(s3) = Len(s2) + Len(al)
        /\ \A k \in 1..Len(s2) : s3[k] = s2[k]
        /\ \A k \in 1..Len(al) : s3[Len(s2) + k] = al[k]
    <3>1. IsSeq(s2) /\ IsSeq(al)
      BY <1>4, <1>5
    <3> QED BY <3>1, ConcatAny
  <2> HIDE DEF s3
  <2>2. Len(s2) = L + 4 /\ (L + 4) + 1 = L + 5 /\ 1 \in 1..1
    BY <1>2, <1>5
  <2> QED BY <1>2, <1>4, <2>1, <2>2
<1> HIDE DEF s3
<1>7. /\ IsSeq(s4) /\ Len(s4) = L + 7
      /\ \A k \in 1..(L + 5) : s4[k] = s3[k]
      /\ s4[L + 6] = z /\ s4[L + 7] = m
  <2>1. /\ IsSeq(s4) /\ Len(s4) = Len(s3) + Len(cs)
        /\ \A k \in 1..Len(s3) : s4[k] = s3[k]
        /\ \A k \in 1..Len(cs) : s4[Len(s3) + k] = cs[k]
    <3>1. IsSeq(s3) /\ IsSeq(cs)
      BY <1>4, <1>6
    <3> QED BY <3>1, ConcatAny
  <2> HIDE DEF s4
  <2>2. (L + 5) + 1 = L + 6 /\ (L + 5) + 2 = L + 7 /\ 1 \in 1..2 /\ 2 \in 1..2
    BY <1>2
  <2> QED BY <1>2, <1>4, <1>6, <2>1, <2>2
<1> HIDE DEF s4
<1>8. /\ IsSeq(s5) /\ Len(s5) = (L + 7) + M
      /\ \A k \in 1..(L + 7) : s5[k] = s4[k]
      /\ \A k \in 1..M : s5[L + 7 + k] = ms[k]
  <2>1. /\ IsSeq(s5) /\ Len(s5) = Len(s4) + Len(ms)
        /\ \A k \in 1..Len(s4) : s5[k] = s4[k]
        /\ \A k \in 1..Len(ms) : s5[Len(s4) + k] = ms[k]
    <3>1. IsSeq(s4) /\ IsSeq(ms)
      BY <1>3, <1>7
    <3> QED BY <3>1, ConcatAny
  <2> HIDE DEF s5
  <2> QED BY <1>3, <1>7, <2>1
<1> HIDE DEF s5
<1>9. /\ IsSeq(s6) /\ Len(s6) = L + M + 8
      /\ \A k \in 1..(L + 7 + M) : s6[k] = s5[k]
      /\ s6[L + M + 8] = Align8
  <2>1. /\ IsSeq(s6) /\ Len(s6) = Len(s5) + Len(al)
        /\ \A k \in 1..Len(s5) : s6[k] = s5[k]
        /\ \A k \in 1..Len(al) : s6[Len(s5) + k] = al[k]
    <3>1. IsSeq(s5) /\ IsSeq(al)
      BY <1>4, <1>8
    <3> QED BY <3>1, ConcatAny
  <2> HIDE DEF s6
  <2>2. L + M + 8 = (L + 7 + M) + 1 /\ 1 \in 1..1 /\ L + 7 + M = (L + 7) + M
    BY <1>2
  <2> QED BY <1>4, <1>8, <2>1, <2>2
<1> HIDE DEF s6
<1>10. /\ e[1] = a /\ e[2] = b /\ e[3] = z /\ e[4] = l
       /\ \A k \in 1..L : e[4 + k] = ls[k]
       /\ e[L + 5] = Align8 /\ e[L + 6] = z /\ e[L + 7] = m
       /\ \A k \in 1..M : e[L + 7 + k] = ms[k]
       /\ e[L + M + 8] = Align8
  <2>1. \A k \in 1..(L + 4) : e[k] = s2[k]
    <3> SUFFICES ASSUME NEW k \in 1..(L + 4) PROVE e[k] = s2[k]
      OBVIOUS
    <3>1. k \in 1..(L + 5) /\ k \in 1..(L + 7) /\ k \in 1..(L + 7 + M)
      BY <1>2
    <3> QED BY <1>1, <1>6, <1>7, <1>8, <1>9, <3>1
  <2>2. e[1] = a /\ e[2] = b /\ e[3] = z /\ e[4] = l
    <3>1. 1 \in 1..(L + 4) /\ 2 \in 1..(L + 4) /\ 3 \in 1..(L + 4) /\ 4 \in 1..(L + 4)
      BY <1>2
    <3> QED BY <1>5, <2>1, <3>1
  <2>3. \A k \in 1..L : e[4 + k] = ls[k]
    <3>1. \A k \in 1..L : 4 + k \in 1..(L + 4)
      BY <1>2
    <3> QED BY <1>5, <2>1, <3>1
  <2>4. e[L + 5] = Align8 /\ e[L + 6] = z /\ e[L + 7] = m
    <3>1. /\ L + 5 \in 1..(L + 5) /\ L + 5 \in 1..(L + 7) /\ L + 5 \in 1..(L + 7 + M)
          /\ L + 6 \in 1..(L + 7) /\ L + 6 \in 1..(L + 7 + M)
          /\ L + 7 \in 1..(L + 7) /\ L + 7 \in 1..(L + 7 + M)
      BY <1>2
    <3> QED BY <1>1, <1>6, <1>7, <1>8, <1>9, <3>1
  <2>5. \A k \in 1..M : e[L + 7 + k] = ms[k]
    <3>1. \A k \in 1..M : L + 7 + k \in 1..(L + 7 + M)
      BY <1>2
    <3> QED BY <1>1, <1>8, <1>9, <3>1
  <2> QED BY <1>1, <1>9, <2>2, <2>3, <2>4, <2>5
<1>11. IsSeq(e) /\ Len(e) = L + M + 8
  BY <1>1, <1>9
<1> QED
  BY <1>2, <1>3, <1>10, <1>11 DEF e, a, b, z, l, m, L, M

\* The fields of a function.
LEMMA FunctionLayout ==
  ASSUME NEW f
  PROVE  /\ IsSeq(EmitFunction(f)) /\ Len(EmitFunction(f)) = 3
         /\ EmitFunction(f)[1] = Field(8, f.fun_addr)
         /\ EmitFunction(f)[2] = Field(8, f.stack_size)
         /\ EmitFunction(f)[3] = Field(8, f.record_count)
<1> DEFINE s == <<f.fun_addr, f.stack_size, f.record_count>>
<1>1. IsSeq(s) /\ Len(s) = 3
  BY TupleIsSeq
<1>2. s[1] = f.fun_addr /\ s[2] = f.stack_size /\ s[3] = f.record_count
  OBVIOUS
<1>3. EmitFunction(f) = Fields(8, s)
  BY DEF EmitFunction, sizeof_uint64_t
<1> HIDE DEF s
<1>4. /\ IsSeq(Fields(8, s)) /\ Len(Fields(8, s)) = 3
      /\ \A k \in 1..3 : Fields(8, s)[k] = Field(8, s[k])
  BY <1>1, FieldsProperties
<1> QED BY <1>2, <1>3, <1>4

\* The fields of the header.
LEMMA HeaderLayout ==
  ASSUME NEW t
  PROVE  /\ IsSeq(EmitHeader(t)) /\ Len(EmitHeader(t)) = 6
         /\ EmitHeader(t)[1] = Field(1, 3)
         /\ EmitHeader(t)[2] = Field(1, 0)
         /\ EmitHeader(t)[3] = Field(2, 0)
         /\ EmitHeader(t)[4] = Field(4, Len(t.funcs))
         /\ EmitHeader(t)[5] = Field(4, Len(t.constants))
         /\ EmitHeader(t)[6] = Field(4, Len(t.recs))
<1> DEFINE a == Field(1, 3)
           b == Field(1, 0)
           c == Field(2, 0)
           h == <<a, b, c>>
           s == <<Len(t.funcs), Len(t.constants), Len(t.recs)>>
           n == Fields(4, s)
<1>1. IsSeq(s) /\ Len(s) = 3
  BY TupleIsSeq
<1>2. s[1] = Len(t.funcs) /\ s[2] = Len(t.constants) /\ s[3] = Len(t.recs)
  OBVIOUS
<1>3. EmitHeader(t) = h \o n
  BY DEF EmitHeader, sizeof_uint32_t
<1> HIDE DEF s
<1>4. IsSeq(n) /\ Len(n) = 3 /\ \A k \in 1..3 : n[k] = Field(4, s[k])
  BY <1>1, FieldsProperties
<1> HIDE DEF n, a, b, c
<1>5. IsSeq(h) /\ Len(h) = 3 /\ h[1] = a /\ h[2] = b /\ h[3] = c
  BY TupleIsSeq
<1> HIDE DEF h
<1>6. /\ IsSeq(h \o n) /\ Len(h \o n) = Len(h) + Len(n)
      /\ \A k \in 1..Len(h) : (h \o n)[k] = h[k]
      /\ \A k \in 1..Len(n) : (h \o n)[Len(h) + k] = n[k]
  <2>1. IsSeq(h) /\ IsSeq(n)
    BY <1>4, <1>5
  <2> QED BY <2>1, ConcatAny
<1> DEFINE e == EmitHeader(t)
<1>7. IsSeq(e) /\ Len(e) = 6 /\ \A k \in 1..3 : e[k] = h[k] /\ e[3 + k] = n[k]
  BY <1>3, <1>4, <1>5, <1>6
<1> HIDE DEF e
<1>8. e[1] = h[1] /\ e[2] = h[2] /\ e[3] = h[3] /\ e[4] = n[1] /\ e[5] = n[2] /\ e[6] = n[3]
  BY <1>7
<1> QED BY <1>2, <1>4, <1>5, <1>7, <1>8 DEF e, a, b, c

-----------------------------------------------------------------------------
\* How many fields come before the one after function k, and record k.
Funs(t) == [k \in 1..Len(t.funcs) |-> EmitFunction(t.funcs[k])]
Recs(t) == [k \in 1..Len(t.recs) |-> EmitRecord(t.recs[k])]

FunctionAt(t, k) == 6 + Starts(Funs(t))[k]
RecordAt(t, k)   == FunctionAt(t, Len(t.funcs)) + Len(t.constants) + Starts(Recs(t))[k]

\* Tables consist of sequences.
LEMMA TableTypes ==
  ASSUME NEW t \in Tables
  PROVE  /\ IsSeq(t.funcs) /\ IsSeq(t.constants) /\ IsSeq(t.recs)
         /\ Len(t.funcs) \in Nat /\ Len(t.constants) \in Nat /\ Len(t.recs) \in Nat
         /\ \A k \in 1..Len(t.recs) :
              /\ IsSeq(t.recs[k].locations) /\ IsSeq(t.recs[k].liveouts)
              /\ Len(t.recs[k].locations) \in Nat /\ Len(t.recs[k].liveouts) \in Nat
<1>1. /\ t.funcs \in Seq(ToSet(t.funcs))
      /\ t.constants \in Seq(ToSet(t.constants))
      /\ t.recs \in Seq(ToSet(t.recs))
      /\ \A k \in 1..Len(t.recs) :
           /\ t.recs[k].locations \in Seq(ToSet(t.recs[k].locations))
           /\ t.recs[k].liveouts \in Seq(ToSet(t.recs[k].liveouts))
  BY TablesAssumption
<1>2. IsSeq(t.funcs)
  BY <1>1, IsSeqOfSeq
<1>3. IsSeq(t.constants)
  BY <1>1, IsSeqOfSeq
<1>4. IsSeq(t.recs)
  BY <1>1, IsSeqOfSeq
<1>5. ASSUME NEW k \in 1..Len(t.recs)
      PROVE  IsSeq(t.recs[k].locations) /\ IsSeq(t.recs[k].liveouts)
  <2>1. IsSeq(t.recs[k].locations)
    BY <1>1, IsSeqOfSeq
  <2>2. IsSeq(t.recs[k].liveouts)
    BY <1>1, IsSeqOfSeq
  <2> QED BY <2>1, <2>2
<1> QED BY <1>2, <1>3, <1>4, <1>5 DEF IsSeq

\* All fields of a record are fields.
LEMMA RecordFields ==
  ASSUME NEW rec, IsSeq(rec.locations), IsSeq(rec.liveouts),
         NEW k \in 1..Len(EmitRecord(rec))
  PROVE  IsField(EmitRecord(rec)[k])
<1> DEFINE L == Len(rec.locations)
           M == Len(rec.liveouts)
           e == EmitRecord(rec)
<1>1. L \in Nat /\ M \in Nat
  BY DEF IsSeq
<1>2. /\ Len(e) = L + M + 8
      /\ e[1] = Field(8, rec.patchpoint_id) /\ e[2] = Field(4, rec.instr_offset)
      /\ e[3] = Field(2, 0) /\ e[4] = Field(2, L)
      /\ \A i \in 1..L : e[4 + i] = Field(12, rec.locations[i])
      /\ e[L + 5] = Align8 /\ e[L + 6] = Field(2, 0) /\ e[L + 7] = Field(2, M)
      /\ \A i \in 1..M : e[L + 7 + i] = Field(4, rec.liveouts[i])
      /\ e[L + M + 8] = Align8
  BY RecordLayout
<1> HIDE DEF L, M, e
<1>3. /\ \A i \in 1..L : IsField(e[4 + i])
      /\ \A i \in 1..M : IsField(e[L + 7 + i])
      /\ IsField(e[1]) /\ IsField(e[2]) /\ IsField(e[3]) /\ IsField(e[4])
      /\ IsField(e[L + 6]) /\ IsField(e[L + 7])
  BY <1>2, FieldProperties
<1>4. IsField(e[L + 5]) /\ IsField(e[L + M + 8])
  BY <1>2 DEF IsField
<1>5. k \in 1..(L + M + 8)
  BY <1>2 DEF e
<1>6. \/ k \in {1, 2, 3, 4, L + 5, L + 6, L + 7, L + M + 8}
      \/ k - 4 \in 1..L /\ 4 + (k - 4) = k
      \/ k - (L + 7) \in 1..M /\ L + 7 + (k - (L + 7)) = k
  BY <1>1, <1>5
<1>7. IsField(e[k])
  BY <1>3, <1>4, <1>6
<1> QED BY <1>7 DEF e

(***************************************************************************)
(* Where the fields of the header, the functions, the constants and the    *)
(* records are in the section.                                             *)
(***************************************************************************)
LEMMA EmittedLayout ==
  ASSUME NEW t \in Tables
  PROVE  LET e == Emitted(t)
             F == Len(t.funcs)
             C == Len(t.constants)
             R == Len(t.recs)
         IN  /\ AllFields(e) /\ Len(e) \in Nat /\ Len(e) = RecordAt(t, R)
             /\ \A k \in 0..F : FunctionAt(t, k) \in Nat
             /\ \A k \in 0..R : RecordAt(t, k) \in Nat
             /\ FunctionAt(t, 0) = 6 /\ RecordAt(t, 0) = FunctionAt(t, F) + C
             /\ \A k \in 1..6 : e[k] = EmitHeader(t)[k]
             /\ \A k \in 1..F :
                  /\ FunctionAt(t, k) = FunctionAt(t, k - 1) + 3
                  /\ \A m \in 1..3 : e[FunctionAt(t, k - 1) + m] = EmitFunction(t.funcs[k])[m]
             /\ \A k \in 1..C : e[FunctionAt(t, F) + k] = Field(8, t.constants[k])
             /\ \A k \in 1..R :
                  /\ RecordAt(t, k) = RecordAt(t, k - 1) + Len(EmitRecord(t.recs[k]))
                  /\ \A m \in 1..Len(EmitRecord(t.recs[k])) :
                       e[RecordAt(t, k - 1) + m] = EmitRecord(t.recs[k])[m]
             /\ \A k \in 0..F : FunctionAt(t, k) <= Len(e)
             /\ \A k \in 0..R : RecordAt(t, k) <= Len(e)
<1> DEFINE F == Len(t.funcs)
           C == Len(t.constants)
           R == Len(t.recs)
           fs == Funs(t)
           rs == Recs(t)
           h  == EmitHeader(t)
           ff == FlattenSeq(fs)
           cc == Fields(8, t.constants)
           rr == FlattenSeq(rs)
           fa == Starts(fs)
           ra == Starts(rs)
           p1 == h \o ff
           p2 == p1 \o cc
           e  == Emitted(t)
<1>1. /\ F \in Nat /\ C \in Nat /\ R \in Nat /\ IsSeq(t.constants)
      /\ \A k \in 1..R : IsSeq(t.recs[k].locations) /\ IsSeq(t.recs[k].liveouts)
  BY TableTypes
<1>2. e = p2 \o rr
  BY DEF Emitted, Funs, Recs, sizeof_uint64_t
<1>3. IsSeq(fs) /\ Len(fs) = F /\ \A k \in 1..F : fs[k] = EmitFunction(t.funcs[k])
  <2>1. fs = [k \in 1..F |-> fs[k]] /\ \A k \in 1..F : fs[k] = EmitFunction(t.funcs[k])
    BY DEF Funs
  <2> HIDE DEF fs, F
  <2> QED BY <1>1, <2>1, FunctionIsSeq
<1>4. IsSeq(rs) /\ Len(rs) = R /\ \A k \in 1..R : rs[k] = EmitRecord(t.recs[k])
  <2>1. rs = [k \in 1..R |-> rs[k]] /\ \A k \in 1..R : rs[k] = EmitRecord(t.recs[k])
    BY DEF Recs
  <2> HIDE DEF rs, R
  <2> QED BY <1>1, <2>1, FunctionIsSeq
<1>5. IsSeq(h) /\ Len(h) = 6 /\ \A k \in 1..6 : IsField(h[k])
  <2>1. /\ IsSeq(h) /\ Len(h) = 6
        /\ h[1] = Field(1, 3) /\ h[2] = Field(1, 0) /\ h[3] = Field(2, 0)
        /\ h[4] = Field(4, F) /\ h[5] = Field(4, C) /\ h[6] = Field(4, R)
    BY HeaderLayout
  <2> HIDE DEF h, F, C, R
  <2>2. IsField(h[1]) /\ IsField(h[2]) /\ IsField(h[3]) /\ IsField(h[4]) /\ IsField(h[5]) /\ IsField(h[6])
    BY <2>1, FieldProperties
  <2>3. \A k \in 1..6 : k \in {1, 2, 3, 4, 5, 6}
    OBVIOUS
  <2> QED BY <2>1, <2>2, <2>3
<1>6. IsSeq(cc) /\ Len(cc) = C /\ \A k \in 1..C : cc[k] = Field(8, t.constants[k])
  BY <1>1, FieldsProperties
<1>7. /\ \A k \in 1..F : IsSeq(fs[k]) /\ Len(fs[k]) = 3 /\ \A m \in 1..3 : IsField(fs[k][m])
      /\ \A k \in 1..R : IsSeq(rs[k]) /\ \A m \in 1..Len(rs[k]) : IsField(rs[k][m])
  <2>1. ASSUME NEW k \in 1..F
        PROVE  IsSeq(fs[k]) /\ Len(fs[k]) = 3 /\ \A m \in 1..3 : IsField(fs[k][m])
    <3> DEFINE s == fs[k]
    <3>1. /\ IsSeq(s) /\ Len(s) = 3 /\ s[1] = Field(8, t.funcs[k].fun_addr)
          /\ s[2] = Field(8, t.funcs[k].stack_size) /\ s[3] = Field(8, t.funcs[k].record_count)
      BY <1>3, FunctionLayout
    <3> HIDE DEF s
    <3>2. IsField(s[1]) /\ IsField(s[2]) /\ IsField(s[3])
      BY <3>1, FieldProperties
    <3>3. \A m \in 1..3 : m \in {1, 2, 3}
      OBVIOUS
    <3>4. IsSeq(s) /\ Len(s) = 3 /\ \A m \in 1..3 : IsField(s[m])
      BY <3>1, <3>2, <3>3
    <3> QED BY <3>4 DEF s
  <2>2. ASSUME NEW k \in 1..R
        PROVE  IsSeq(rs[k]) /\ \A m \in 1..Len(rs[k]) : IsField(rs[k][m])
    <3>1. rs[k] = EmitRecord(t.recs[k])
      BY <1>4
    <3>2. IsSeq(t.recs[k].locations) /\ IsSeq(t.recs[k].liveouts)
      BY <1>1
    <3> HIDE DEF rs
    <3> QED BY <3>1, <3>2, RecordLayout, RecordFields
  <2> QED BY <2>1, <2>2
<1> HIDE DEF F, C, R, fs, rs, h, cc
<1>8. /\ IsSeq(ff) /\ Len(ff) = fa[F]
      /\ \A i \in 1..F : \A m \in 1..Len(fs[i]) : ff[fa[i - 1] + m] = fs[i][m]
      /\ \A k \in 1..Len(ff) : \E i \in 1..F : \E m \in 1..Len(fs[i]) : k = fa[i - 1] + m
      /\ fa \in [0..F -> Nat] /\ fa[0] = 0
      /\ \A i \in 1..F : fa[i] = fa[i - 1] + Len(fs[i])
      /\ \A i, j \in 0..F : i <= j => fa[i] <= fa[j]
  <2>1. IsSeq(fs) /\ \A i \in 1..Len(fs) : IsSeq(fs[i])
    BY <1>3, <1>7
  <2>2. Len(fs) = F
    BY <1>3
  <2>3. IsFlattened(fs, ff, fa)
    BY <2>1, FlattenLayout
  <2> HIDE DEF ff, fa
  <2> QED BY Zenon, <2>2, <2>3 DEF IsFlattened
<1>9. /\ IsSeq(rr) /\ Len(rr) = ra[R]
      /\ \A i \in 1..R : \A m \in 1..Len(rs[i]) : rr[ra[i - 1] + m] = rs[i][m]
      /\ \A k \in 1..Len(rr) : \E i \in 1..R : \E m \in 1..Len(rs[i]) : k = ra[i - 1] + m
      /\ ra \in [0..R -> Nat] /\ ra[0] = 0
      /\ \A i \in 1..R : ra[i] = ra[i - 1] + Len(rs[i])
      /\ \A i, j \in 0..R : i <= j => ra[i] <= ra[j]
  <2>1. IsSeq(rs) /\ \A i \in 1..Len(rs) : IsSeq(rs[i])
    BY <1>4, <1>7
  <2>2. Len(rs) = R
    BY <1>4
  <2>3. IsFlattened(rs, rr, ra)
    BY <2>1, FlattenLayout
  <2> HIDE DEF rr, ra
  <2> QED BY Zenon, <2>2, <2>3 DEF IsFlattened
<1> HIDE DEF ff, rr, fa, ra
<1>10. /\ IsSeq(p1) /\ Len(p1) = 6 + Len(ff)
       /\ \A k \in 1..6 : p1[k] = h[k]
       /\ \A k \in 1..Len(ff) : p1[6 + k] = ff[k]
  <2>1. /\ IsSeq(p1) /\ Len(p1) = Len(h) + Len(ff)
        /\ \A k \in 1..Len(h) : p1[k] = h[k]
        /\ \A k \in 1..Len(ff) : p1[Len(h) + k] = ff[k]
    <3>1. IsSeq(h) /\ IsSeq(ff)
      BY <1>5, <1>8
    <3> QED BY <3>1, ConcatAny
  <2> HIDE DEF p1
  <2> QED BY <1>5, <2>1
<1> HIDE DEF p1
<1> DEFINE A == 6 + Len(ff)
           B == A + C
<1>11. Len(ff) \in Nat /\ A \in Nat /\ B \in Nat /\ Len(rr) \in Nat
  BY <1>1, <1>8, <1>9 DEF IsSeq
<1>12. /\ IsSeq(p2) /\ Len(p2) = B
       /\ \A k \in 1..A : p2[k] = p1[k]
       /\ \A k \in 1..C : p2[A + k] = cc[k]
  <2>1. /\ IsSeq(p2) /\ Len(p2) = Len(p1) + Len(cc)
        /\ \A k \in 1..Len(p1) : p2[k] = p1[k]
        /\ \A k \in 1..Len(cc) : p2[Len(p1) + k] = cc[k]
    <3>1. IsSeq(p1) /\ IsSeq(cc)
      BY <1>6, <1>10
    <3> QED BY <3>1, ConcatAny
  <2> HIDE DEF p2
  <2> QED BY <1>6, <1>10, <2>1
<1> HIDE DEF p2
<1>13. /\ IsSeq(e) /\ Len(e) = B + Len(rr)
       /\ \A k \in 1..B : e[k] = p2[k]
       /\ \A k \in 1..Len(rr) : e[B + k] = rr[k]
  <2>1. /\ IsSeq(p2 \o rr) /\ Len(p2 \o rr) = Len(p2) + Len(rr)
        /\ \A k \in 1..Len(p2) : (p2 \o rr)[k] = p2[k]
        /\ \A k \in 1..Len(rr) : (p2 \o rr)[Len(p2) + k] = rr[k]
    <3>1. IsSeq(p2) /\ IsSeq(rr)
      BY <1>9, <1>12
    <3> QED BY <3>1, ConcatAny
  <2> HIDE DEF e
  <2> QED BY <1>2, <1>12, <2>1
<1> HIDE DEF e
<1>14. /\ \A k \in 1..6 : e[k] = h[k]
       /\ \A k \in 1..Len(ff) : e[6 + k] = ff[k]
       /\ \A k \in 1..C : e[A + k] = cc[k]
       /\ \A k \in 1..Len(rr) : e[B + k] = rr[k]
  <2>1. ASSUME NEW k \in 1..6 PROVE e[k] = h[k]
    <3>1. k \in 1..A /\ k \in 1..B
      BY <1>1, <1>11
    <3> QED BY <1>10, <1>12, <1>13, <3>1
  <2>2. ASSUME NEW k \in 1..Len(ff) PROVE e[6 + k] = ff[k]
    <3>1. 6 + k \in 1..A /\ 6 + k \in 1..B
      BY <1>1, <1>11
    <3> QED BY <1>10, <1>12, <1>13, <3>1
  <2>3. ASSUME NEW k \in 1..C PROVE e[A + k] = cc[k]
    <3>1. A + k \in 1..B
      BY <1>1, <1>11
    <3> QED BY <1>12, <1>13, <3>1
  <2> QED BY <1>13, <2>1, <2>2, <2>3
<1>15. \A k \in 1..Len(e) : IsField(e[k])
  <2> SUFFICES ASSUME NEW k \in 1..Len(e) PROVE IsField(e[k])
    OBVIOUS
  <2>1. CASE k \in 1..6
    BY <1>5, <1>14, <2>1
  <2>2. CASE k - 6 \in 1..Len(ff)
    <3> DEFINE q == k - 6
    <3>1. PICK i \in 1..F : \E m \in 1..Len(fs[i]) : q = fa[i - 1] + m
      BY <1>8, <2>2
    <3>2. PICK m \in 1..Len(fs[i]) : q = fa[i - 1] + m
      BY <3>1
    <3>3. ff[q] = fs[i][m] /\ IsField(fs[i][m])
      BY <1>7, <1>8, <3>2
    <3>4. e[k] = ff[q]
      <4>1. 6 + q = k
        OBVIOUS
      <4> QED BY <1>14, <2>2, <4>1
    <3> QED BY <3>3, <3>4
  <2>3. CASE k - A \in 1..C
    <3>1. e[A + (k - A)] = Field(8, t.constants[k - A])
      BY <1>6, <1>14, <2>3
    <3>2. A + (k - A) = k
      BY <1>11
    <3> QED BY <3>1, <3>2, FieldProperties
  <2>4. CASE k - B \in 1..Len(rr)
    <3> DEFINE q == k - B
    <3>1. PICK i \in 1..R : \E m \in 1..Len(rs[i]) : q = ra[i - 1] + m
      BY <1>9, <2>4
    <3>2. PICK m \in 1..Len(rs[i]) : q = ra[i - 1] + m
      BY <3>1
    <3>3. rr[q] = rs[i][m] /\ IsField(rs[i][m])
      BY <1>7, <1>9, <3>2
    <3>4. e[k] = rr[q]
      <4>1. B + q = k
        BY <1>11
      <4> QED BY <1>14, <2>4, <4>1
    <3> QED BY <3>3, <3>4
  <2>5. k \in 1..6 \/ k - 6 \in 1..Len(ff) \/ k - A \in 1..C \/ k - B \in 1..Len(rr)
    BY <1>1, <1>11, <1>13
  <2> QED BY <2>1, <2>2, <2>3, <2>4, <2>5
<1>16. /\ \A k : FunctionAt(t, k) = 6 + fa[k]
       /\ FunctionAt(t, F) = A
       /\ \A k : RecordAt(t, k) = B + ra[k]
  BY <1>8 DEF FunctionAt, RecordAt, fa, ra, fs, rs, F, C
<1> HIDE DEF A, B
<1>17. /\ \A k \in 0..F : FunctionAt(t, k) \in Nat /\ FunctionAt(t, k) <= Len(e)
       /\ \A k \in 0..R : RecordAt(t, k) \in Nat /\ RecordAt(t, k) <= Len(e)
  <2>1. ASSUME NEW k \in 0..F PROVE FunctionAt(t, k) \in Nat /\ FunctionAt(t, k) <= Len(e)
    <3>1. F \in 0..F /\ k <= F
      BY <1>1
    <3>2. fa[k] \in Nat /\ fa[k] <= Len(ff)
      BY <1>8, <3>1
    <3> QED BY <1>1, <1>11, <1>13, <1>16, <3>2 DEF A, B
  <2>2. ASSUME NEW k \in 0..R PROVE RecordAt(t, k) \in Nat /\ RecordAt(t, k) <= Len(e)
    <3>1. R \in 0..R /\ k <= R
      BY <1>1
    <3>2. ra[k] \in Nat /\ ra[k] <= Len(rr)
      BY <1>9, <3>1
    <3> QED BY <1>1, <1>11, <1>13, <1>16, <3>2
  <2> QED BY <2>1, <2>2
<1>18. ASSUME NEW k \in 1..F
       PROVE  /\ FunctionAt(t, k) = FunctionAt(t, k - 1) + 3
              /\ \A m \in 1..3 : e[FunctionAt(t, k - 1) + m] = EmitFunction(t.funcs[k])[m]
  <2>1. k - 1 \in 0..F /\ k \in 0..F
    BY <1>1
  <2>2. fa[k] = fa[k - 1] + 3 /\ fa[k - 1] \in Nat /\ Len(fs[k]) = 3 /\ fa[k] <= Len(ff)
    <3>1. F \in 0..F /\ k <= F
      BY <1>1
    <3> QED BY <1>7, <1>8, <2>1, <3>1
  <2>3. ASSUME NEW m \in 1..3 PROVE e[FunctionAt(t, k - 1) + m] = EmitFunction(t.funcs[k])[m]
    <3>1. fa[k - 1] + m \in 1..Len(ff) /\ FunctionAt(t, k - 1) + m = 6 + (fa[k - 1] + m)
      <4> DEFINE f == fa[k - 1]
      <4>1. FunctionAt(t, k - 1) = 6 + f
        BY <1>16
      <4>2. f \in Nat /\ f + 3 <= Len(ff) /\ Len(ff) \in Nat
        BY <1>11, <2>2
      <4> HIDE DEF f
      <4>3. f + m \in 1..Len(ff) /\ (6 + f) + m = 6 + (f + m)
        BY <4>2
      <4> QED BY <4>1, <4>3 DEF f
    <3>2. ff[fa[k - 1] + m] = fs[k][m]
      BY <1>8, <2>2
    <3> QED BY <1>3, <1>14, <3>1, <3>2
  <2> QED BY <1>16, <2>2, <2>3
<1>19. ASSUME NEW k \in 1..R
       PROVE  /\ RecordAt(t, k) = RecordAt(t, k - 1) + Len(EmitRecord(t.recs[k]))
              /\ \A m \in 1..Len(EmitRecord(t.recs[k])) :
                   e[RecordAt(t, k - 1) + m] = EmitRecord(t.recs[k])[m]
  <2>1. k - 1 \in 0..R /\ k \in 0..R
    BY <1>1
  <2>2. /\ ra[k] = ra[k - 1] + Len(rs[k]) /\ ra[k - 1] \in Nat /\ Len(rs[k]) \in Nat
        /\ ra[k] <= Len(rr) /\ rs[k] = EmitRecord(t.recs[k])
    <3>1. R \in 0..R /\ k <= R
      BY <1>1
    <3>2. Len(rs[k]) \in Nat
      BY <1>7 DEF IsSeq
    <3> QED BY <1>4, <1>9, <2>1, <3>1, <3>2
  <2>3. ASSUME NEW m \in 1..Len(rs[k]) PROVE e[RecordAt(t, k - 1) + m] = rs[k][m]
    <3>1. ra[k - 1] + m \in 1..Len(rr) /\ RecordAt(t, k - 1) + m = B + (ra[k - 1] + m)
      BY <1>11, <1>16, <2>2
    <3>2. rr[ra[k - 1] + m] = rs[k][m]
      BY <1>9
    <3> QED BY <1>14, <3>1, <3>2
  <2>4. RecordAt(t, k) = RecordAt(t, k - 1) + Len(rs[k])
    BY <1>11, <1>16, <2>2
  <2> QED BY <2>2, <2>3, <2>4
<1>20. /\ AllFields(e) /\ Len(e) \in Nat /\ Len(e) = RecordAt(t, R)
       /\ FunctionAt(t, 0) = 6 /\ RecordAt(t, 0) = FunctionAt(t, F) + C
  BY <1>8, <1>9, <1>11, <1>13, <1>15, <1>16 DEF AllFields, IsSeq, B
<1>21. /\ \A k \in 1..6 : e[k] = h[k]
       /\ \A k \in 1..C : e[FunctionAt(t, F) + k] = Field(8, t.constants[k])
  BY <1>6, <1>14, <1>16
<1> QED
  BY <1>17, <1>18, <1>19, <1>20, <1>21 DEF e, F, C, R, h

-----------------------------------------------------------------------------
(***************************************************************************)
(* The inductive invariant.  The tables read so far are a prefix of those  *)
(* written, and the cursor is at the end of the last field that belongs to *)
(* it, which is a multiple of 8.                                           *)
(***************************************************************************)
SizeRecord(f, k) ==
  [fun_addr |-> f.fun_addr, stack_size |-> f.stack_size, record_count |-> f.record_count,
   index |-> k - 1]

MapRecord(rec, k) ==
  [patchpoint_id |-> rec.patchpoint_id, instr_offset |-> rec.instr_offset,
   locations |-> rec.locations, liveouts |-> rec.liveouts, index |-> k - 1]

FirstFunctions(t, n) == [k \in 1..n |-> SizeRecord(t.funcs[k], k)]
FirstRecords(t, n)   == [k \in 1..n |-> MapRecord(t.recs[k], k)]

\* The stack map with the counts of t and these tables.
StackMapOf(t, funcs, constants, recs) ==
  [num_func |-> Len(t.funcs), num_const |-> Len(t.constants), num_rec |-> Len(t.recs),
   stk_size_records |-> funcs, constants |-> constants, stk_map_records |-> recs]

FunctionEnd(t, n) == Ends(Emitted(t))[FunctionAt(t, n)]
RecordEnd(t, n)   == Ends(Emitted(t))[RecordAt(t, n)]

FunctionsRead(n) ==
  /\ sm = StackMapOf(tables, FirstFunctions(tables, n), <<>>, <<>>)
  /\ addr = FunctionEnd(tables, n)
  /\ addr % 8 = 0

RecordsRead(n) ==
  /\ sm = StackMapOf(tables, FirstFunctions(tables, Len(tables.funcs)), tables.constants,
                     FirstRecords(tables, n))
  /\ addr = RecordEnd(tables, n)
  /\ addr % 8 = 0

IInv ==
  /\ tables \in Tables
  /\ pc \in {"header", "functions", "records", "done"}
  /\ pc = "header" => addr = 0
  /\ pc = "functions" => \E n \in 0..Len(tables.funcs) : FunctionsRead(n)
  /\ pc = "records" => \E n \in 0..Len(tables.recs) : RecordsRead(n)
  /\ pc = "done" => RecordsRead(Len(tables.recs))

-----------------------------------------------------------------------------
(***************************************************************************)
(* Where the fields end.                                                   *)
(***************************************************************************)

\* The padding worked out from lengths is the one that aligns to 8 bytes.
LEMMA Padding ==
  ASSUME NEW a \in Nat, a % 8 = 0, NEW n \in Nat
  PROVE  /\ (-(a + 16 + 12 * n)) % 8 = location_padding(n)
         /\ location_padding(n) \in Nat
         /\ (a + 16 + 12 * n + location_padding(n)) % 8 = 0
         /\ (-(a + 4 + 4 * n)) % 8 = liveout_padding(n)
         /\ liveout_padding(n) \in Nat
         /\ (a + 4 + 4 * n + liveout_padding(n)) % 8 = 0
BY DEF location_padding, liveout_padding, sizeof_location_t, sizeof_liveout_t, sizeof_uint32_t,
       sizeof_uint16_t

\* The end of a field that is no padding.
LEMMA EndOfField ==
  ASSUME NEW fields, AllFields(fields), NEW k \in Nat, k + 1 <= Len(fields),
         NEW size \in Nat \ {0}, NEW val, fields[k + 1] = Field(size, val)
  PROVE  Ends(fields)[k + 1] = Ends(fields)[k] + size
<1> DEFINE q == k + 1
<1>1. q \in 1..Len(fields) /\ q - 1 = k
  BY DEF AllFields, IsSeq
<1>2. fields[q] # Align8 /\ fields[q].size = size
  BY FieldProperties
<1> HIDE DEF q
<1>3. Ends(fields)[q] = Ends(fields)[q - 1] + fields[q].size
  BY <1>1, <1>2, EndsProperties
<1>4. Ends(fields)[q] = Ends(fields)[k] + size
  BY <1>1, <1>2, <1>3
<1> QED BY <1>4 DEF q

\* The end of a padding.
LEMMA EndOfPadding ==
  ASSUME NEW fields, AllFields(fields), NEW k \in Nat, k + 1 <= Len(fields),
         fields[k + 1] = Align8
  PROVE  Ends(fields)[k + 1] = Ends(fields)[k] + ((-Ends(fields)[k]) % 8)
<1> DEFINE q == k + 1
<1>1. q \in 1..Len(fields) /\ q - 1 = k
  BY DEF AllFields, IsSeq
<1>2. fields[q] = Align8
  OBVIOUS
<1> HIDE DEF q
<1>3. Ends(fields)[q] = Ends(fields)[q - 1] + ((-Ends(fields)[q - 1]) % 8)
  BY <1>1, <1>2, EndsProperties
<1>4. Ends(fields)[q] = Ends(fields)[k] + ((-Ends(fields)[k]) % 8)
  BY <1>1, <1>3
<1> QED BY <1>4 DEF q

\* The ends of the fields of the header.
LEMMA HeaderEnds ==
  ASSUME NEW t \in Tables
  PROVE  LET E == Ends(Emitted(t)) IN
           E[0] = 0 /\ E[3] = 4 /\ E[4] = 8 /\ E[5] = 12 /\ FunctionEnd(t, 0) = 16
<1> DEFINE e == Emitted(t)
           E == Ends(e)
           h == EmitHeader(t)
<1>1. /\ AllFields(e) /\ Len(e) \in Nat /\ FunctionAt(t, 0) = 6 /\ 6 <= Len(e)
      /\ \A k \in 1..6 : e[k] = h[k]
  <2>1. /\ AllFields(e) /\ Len(e) \in Nat /\ FunctionAt(t, 0) = 6
        /\ \A k \in 1..6 : e[k] = h[k]
        /\ \A k \in 0..Len(t.funcs) : FunctionAt(t, k) <= Len(e)
    BY EmittedLayout
  <2>2. 0 \in 0..Len(t.funcs)
    BY TableTypes
  <2> HIDE DEF e, h
  <2> QED BY <2>1, <2>2
<1>2. /\ h[1] = Field(1, 3) /\ h[2] = Field(1, 0) /\ h[3] = Field(2, 0)
      /\ h[4] = Field(4, Len(t.funcs)) /\ h[5] = Field(4, Len(t.constants))
      /\ h[6] = Field(4, Len(t.recs))
  BY HeaderLayout
<1> HIDE DEF e, h
<1>3. /\ e[1] = Field(1, 3) /\ e[2] = Field(1, 0) /\ e[3] = Field(2, 0)
      /\ e[4] = Field(4, Len(t.funcs)) /\ e[5] = Field(4, Len(t.constants))
      /\ e[6] = Field(4, Len(t.recs))
  BY <1>1, <1>2
<1>4. E[0] = 0
  BY <1>1, EndsProperties
<1>5. E[1] = 1
  <2>1. e[0 + 1] = Field(1, 3) /\ 0 + 1 <= Len(e)
    BY <1>1, <1>3
  <2>2. E[0 + 1] = E[0] + 1
    BY <1>1, <2>1, EndOfField
  <2> QED BY <1>4, <2>2
<1>6. E[2] = 2
  <2>1. e[1 + 1] = Field(1, 0) /\ 1 + 1 <= Len(e)
    BY <1>1, <1>3
  <2>2. E[1 + 1] = E[1] + 1
    BY <1>1, <2>1, EndOfField
  <2> QED BY <1>5, <2>2
<1>7. E[3] = 4
  <2>1. e[2 + 1] = Field(2, 0) /\ 2 + 1 <= Len(e)
    BY <1>1, <1>3
  <2>2. E[2 + 1] = E[2] + 2
    BY <1>1, <2>1, EndOfField
  <2> QED BY <1>6, <2>2
<1>8. E[4] = 8
  <2>1. e[3 + 1] = Field(4, Len(t.funcs)) /\ 3 + 1 <= Len(e)
    BY <1>1, <1>3
  <2>2. E[3 + 1] = E[3] + 4
    BY <1>1, <2>1, EndOfField
  <2> QED BY <1>7, <2>2
<1>9. E[5] = 12
  <2>1. e[4 + 1] = Field(4, Len(t.constants)) /\ 4 + 1 <= Len(e)
    BY <1>1, <1>3
  <2>2. E[4 + 1] = E[4] + 4
    BY <1>1, <2>1, EndOfField
  <2> QED BY <1>8, <2>2
<1>10. E[6] = 16
  <2>1. e[5 + 1] = Field(4, Len(t.recs)) /\ 5 + 1 <= Len(e)
    BY <1>1, <1>3
  <2>2. E[5 + 1] = E[5] + 4
    BY <1>1, <2>1, EndOfField
  <2> QED BY <1>9, <2>2
<1> QED BY <1>1, <1>4, <1>7, <1>8, <1>9, <1>10 DEF FunctionEnd, e

\* The ends of the fields of a function.
LEMMA FunctionEnds ==
  ASSUME NEW t \in Tables, NEW k \in 1..Len(t.funcs)
  PROVE  LET E == Ends(Emitted(t))
             b == FunctionAt(t, k - 1)
         IN  /\ E[b] \in Nat /\ E[b + 1] = E[b] + 8 /\ E[b + 2] = E[b] + 16
             /\ FunctionEnd(t, k) = E[b] + 24
<1> DEFINE e == Emitted(t)
           E == Ends(e)
           b == FunctionAt(t, k - 1)
<1>1. k - 1 \in 0..Len(t.funcs) /\ k \in 0..Len(t.funcs)
  BY TableTypes
<1>2. /\ AllFields(e) /\ Len(e) \in Nat /\ b \in Nat /\ FunctionAt(t, k) = b + 3
      /\ b + 3 <= Len(e)
      /\ \A m \in 1..3 : e[b + m] = EmitFunction(t.funcs[k])[m]
  <2>1. /\ AllFields(e) /\ Len(e) \in Nat
        /\ \A j \in 0..Len(t.funcs) : FunctionAt(t, j) \in Nat
        /\ FunctionAt(t, k) = b + 3
        /\ \A m \in 1..3 : e[b + m] = EmitFunction(t.funcs[k])[m]
        /\ \A j \in 0..Len(t.funcs) : FunctionAt(t, j) <= Len(e)
    BY EmittedLayout
  <2>2. b \in Nat /\ FunctionAt(t, k) <= Len(e)
    BY <1>1, <2>1
  <2> HIDE DEF e, b
  <2> QED BY <2>1, <2>2
<1> DEFINE f == EmitFunction(t.funcs[k])
<1>3. /\ f[1] = Field(8, t.funcs[k].fun_addr) /\ f[2] = Field(8, t.funcs[k].stack_size)
      /\ f[3] = Field(8, t.funcs[k].record_count)
  BY FunctionLayout
<1>4. FunctionEnd(t, k) = E[b + 3]
  BY <1>2 DEF FunctionEnd
<1> HIDE DEF e, b, f
<1>5. \A m \in 1..3 : e[b + m] # Align8 /\ e[b + m].size = 8
  <2>1. \A m \in 1..3 : m \in {1, 2, 3}
    OBVIOUS
  <2>2. \A m \in 1..3 : f[m] # Align8 /\ f[m].size = 8
    BY <1>3, <2>1, FieldProperties
  <2> QED BY <1>2, <2>2 DEF f
<1>6. \A m \in 0..3 : E[b + m] = E[b] + m * 8
  <2>1. IsArray(e, b, 3, 8)
    BY <1>2, <1>5 DEF IsArray
  <2>2. EndsEvenly(e, b, 3, 8)
    BY <1>2, <2>1, EndsOfArray
  <2> QED BY <2>2 DEF EndsEvenly
<1>7. E[b] \in Nat
  <2>1. b \in 0..Len(e)
    BY <1>2
  <2> QED BY <1>2, <2>1, EndsProperties
<1> HIDE DEF E
<1>8. E[b + 1] = E[b] + 8 /\ E[b + 2] = E[b] + 16 /\ E[b + 3] = E[b] + 24
  BY <1>6, <1>7
<1> QED BY <1>4, <1>7, <1>8 DEF E, e, b

\* The ends of the constants.
LEMMA ConstantEnds ==
  ASSUME NEW t \in Tables
  PROVE  LET E == Ends(Emitted(t))
             b == FunctionAt(t, Len(t.funcs))
             C == Len(t.constants)
         IN  /\ E[b] \in Nat /\ \A k \in 0..C : E[b + k] = E[b] + k * 8
             /\ RecordEnd(t, 0) = E[b] + C * 8
<1> DEFINE e == Emitted(t)
           E == Ends(e)
           b == FunctionAt(t, Len(t.funcs))
           C == Len(t.constants)
<1>1. C \in Nat /\ Len(t.funcs) \in Nat /\ Len(t.recs) \in Nat
  BY TableTypes
<1>2. /\ AllFields(e) /\ Len(e) \in Nat /\ b \in Nat /\ RecordAt(t, 0) = b + C
      /\ b + C <= Len(e)
      /\ \A k \in 1..C : e[b + k] = Field(8, t.constants[k])
  <2>1. /\ AllFields(e) /\ Len(e) \in Nat
        /\ \A j \in 0..Len(t.funcs) : FunctionAt(t, j) \in Nat
        /\ RecordAt(t, 0) = b + C
        /\ \A k \in 1..C : e[b + k] = Field(8, t.constants[k])
        /\ \A j \in 0..Len(t.recs) : RecordAt(t, j) <= Len(e)
    BY EmittedLayout
  <2>2. b \in Nat /\ RecordAt(t, 0) <= Len(e)
    BY <1>1, <2>1
  <2> HIDE DEF e, b, C
  <2> QED BY <2>1, <2>2
<1>3. RecordEnd(t, 0) = E[b + C]
  BY <1>2 DEF RecordEnd
<1> HIDE DEF e, b, C
<1>4. \A k \in 1..C : e[b + k] # Align8 /\ e[b + k].size = 8
  BY <1>2, FieldProperties
<1>5. \A k \in 0..C : E[b + k] = E[b] + k * 8
  <2>1. IsArray(e, b, C, 8)
    BY <1>1, <1>2, <1>4 DEF IsArray
  <2>2. EndsEvenly(e, b, C, 8)
    BY <1>2, <2>1, EndsOfArray
  <2> QED BY <2>2 DEF EndsEvenly
<1>6. E[b] \in Nat
  <2>1. b \in 0..Len(e)
    BY <1>1, <1>2
  <2> QED BY <1>2, <2>1, EndsProperties
<1> HIDE DEF E
<1> QED BY <1>1, <1>3, <1>5, <1>6 DEF E, e, b, C

(***************************************************************************)
(* The fields of a record in the section and where they end, with L        *)
(* locations, M live-outs, and b fields before it.                         *)
(***************************************************************************)
RecordFieldsAt(e, b, rec, L, M) ==
  /\ b \in Nat /\ L \in Nat /\ M \in Nat /\ b + L + M + 8 <= Len(e)
  /\ e[b + 1] = Field(8, rec.patchpoint_id)
  /\ e[b + 2] = Field(4, rec.instr_offset)
  /\ e[b + 3] = Field(2, 0)
  /\ e[b + 4] = Field(2, L)
  /\ \A j \in 1..L : e[b + 4 + j] = Field(12, rec.locations[j])
  /\ e[b + L + 5] = Align8
  /\ e[b + L + 6] = Field(2, 0)
  /\ e[b + L + 7] = Field(2, M)
  /\ \A j \in 1..M : e[b + L + 7 + j] = Field(4, rec.liveouts[j])
  /\ e[b + L + M + 8] = Align8

RecordEndsAt(E, b, L, M) ==
  LET a == E[b]
      p == a + 16 + 12 * L + location_padding(L)
      q == p + 4 + 4 * M + liveout_padding(M)
  IN  /\ E[b + 1] = a + 8 /\ E[b + 2] = a + 12 /\ E[b + 3] = a + 14 /\ E[b + 4] = a + 16
      /\ \A j \in 0..L : E[b + 4 + j] = a + 16 + j * 12
      /\ E[b + L + 5] = p /\ E[b + L + 6] = p + 2 /\ E[b + L + 7] = p + 4
      /\ \A j \in 0..M : E[b + L + 7 + j] = p + 4 + j * 4
      /\ E[b + L + M + 8] = q /\ q % 8 = 0 /\ p \in Nat

\* A record in the section has the fields that LLVM emits for it.
LEMMA RecordInSection ==
  ASSUME NEW t \in Tables, NEW k \in 1..Len(t.recs)
  PROVE  LET L == Len(t.recs[k].locations)
             M == Len(t.recs[k].liveouts)
         IN  /\ RecordFieldsAt(Emitted(t), RecordAt(t, k - 1), t.recs[k], L, M)
             /\ RecordAt(t, k) = RecordAt(t, k - 1) + L + M + 8
<1> DEFINE e == Emitted(t)
           b == RecordAt(t, k - 1)
           rec == t.recs[k]
           L == Len(rec.locations)
           M == Len(rec.liveouts)
           r == EmitRecord(rec)
<1>1. /\ k - 1 \in 0..Len(t.recs) /\ k \in 0..Len(t.recs) /\ L \in Nat /\ M \in Nat
      /\ IsSeq(rec.locations) /\ IsSeq(rec.liveouts)
  <2>1. Len(t.recs) \in Nat /\ L \in Nat /\ M \in Nat
    BY TableTypes
  <2>2. IsSeq(rec.locations) /\ IsSeq(rec.liveouts)
    BY TableTypes
  <2> QED BY <2>1, <2>2
<1>2. /\ Len(e) \in Nat /\ b \in Nat /\ RecordAt(t, k) = b + Len(r)
      /\ RecordAt(t, k) <= Len(e) /\ \A m \in 1..Len(r) : e[b + m] = r[m]
  <2>1. /\ Len(e) \in Nat
        /\ \A j \in 0..Len(t.recs) : RecordAt(t, j) \in Nat
        /\ RecordAt(t, k) = b + Len(r)
        /\ \A m \in 1..Len(r) : e[b + m] = r[m]
        /\ \A j \in 0..Len(t.recs) : RecordAt(t, j) <= Len(e)
    BY EmittedLayout
  <2>2. b \in Nat /\ RecordAt(t, k) <= Len(e)
    BY <1>1, <2>1
  <2> HIDE DEF e, b, r
  <2> QED BY <2>1, <2>2
<1>3. /\ Len(r) = L + M + 8
      /\ r[1] = Field(8, rec.patchpoint_id) /\ r[2] = Field(4, rec.instr_offset)
      /\ r[3] = Field(2, 0) /\ r[4] = Field(2, L)
      /\ \A i \in 1..L : r[4 + i] = Field(12, rec.locations[i])
      /\ r[L + 5] = Align8 /\ r[L + 6] = Field(2, 0) /\ r[L + 7] = Field(2, M)
      /\ \A i \in 1..M : r[L + 7 + i] = Field(4, rec.liveouts[i])
      /\ r[L + M + 8] = Align8
  <2> HIDE DEF rec
  <2> QED BY <1>1, RecordLayout
<1> HIDE DEF e, b, rec, L, M, r
<1>4. \A m \in 1..(L + M + 8) : e[b + m] = r[m]
  BY <1>2, <1>3
<1>5. /\ e[b + 1] = r[1] /\ e[b + 2] = r[2] /\ e[b + 3] = r[3] /\ e[b + 4] = r[4]
      /\ e[b + (L + 5)] = r[L + 5] /\ e[b + (L + 6)] = r[L + 6] /\ e[b + (L + 7)] = r[L + 7]
      /\ e[b + (L + M + 8)] = r[L + M + 8]
  <2>1. /\ 1 \in 1..(L + M + 8) /\ 2 \in 1..(L + M + 8) /\ 3 \in 1..(L + M + 8)
        /\ 4 \in 1..(L + M + 8) /\ L + 5 \in 1..(L + M + 8) /\ L + 6 \in 1..(L + M + 8)
        /\ L + 7 \in 1..(L + M + 8) /\ L + M + 8 \in 1..(L + M + 8)
    BY <1>1
  <2> QED BY <1>4, <2>1
<1>6. /\ \A i \in 1..L : e[b + (4 + i)] = r[4 + i]
      /\ \A i \in 1..M : e[b + (L + 7 + i)] = r[L + 7 + i]
  <2>1. /\ \A i \in 1..L : 4 + i \in 1..(L + M + 8)
        /\ \A i \in 1..M : L + 7 + i \in 1..(L + M + 8)
    BY <1>1
  <2> QED BY <1>4, <2>1
<1>7. /\ b + L + 5 = b + (L + 5) /\ b + L + 6 = b + (L + 6) /\ b + L + 7 = b + (L + 7)
      /\ b + L + M + 8 = b + (L + M + 8)
      /\ \A i \in 1..L : b + 4 + i = b + (4 + i)
      /\ \A i \in 1..M : b + L + 7 + i = b + (L + 7 + i)
  BY <1>1, <1>2
<1>8. RecordAt(t, k) = b + L + M + 8 /\ b + L + M + 8 <= Len(e)
  BY <1>1, <1>2, <1>3
<1>9. RecordFieldsAt(e, b, rec, L, M)
  BY <1>1, <1>2, <1>3, <1>5, <1>6, <1>7, <1>8 DEF RecordFieldsAt
<1> QED BY <1>8, <1>9 DEF e, b, rec, L, M

\* Where they end.
LEMMA RecordEnds ==
  ASSUME NEW e, AllFields(e), NEW b, NEW rec, NEW L, NEW M, RecordFieldsAt(e, b, rec, L, M),
         Ends(e)[b] % 8 = 0
  PROVE  RecordEndsAt(Ends(e), b, L, M)
<1> DEFINE E == Ends(e)
           a == E[b]
           p == a + 16 + 12 * L + location_padding(L)
           q == p + 4 + 4 * M + liveout_padding(M)
<1>1. /\ b \in Nat /\ L \in Nat /\ M \in Nat /\ b + L + M + 8 <= Len(e) /\ Len(e) \in Nat
      /\ e[b + 1] = Field(8, rec.patchpoint_id)
      /\ e[b + 2] = Field(4, rec.instr_offset)
      /\ e[b + 3] = Field(2, 0)
      /\ e[b + 4] = Field(2, L)
      /\ \A j \in 1..L : e[b + 4 + j] = Field(12, rec.locations[j])
      /\ e[b + L + 5] = Align8
      /\ e[b + L + 6] = Field(2, 0)
      /\ e[b + L + 7] = Field(2, M)
      /\ \A j \in 1..M : e[b + L + 7 + j] = Field(4, rec.liveouts[j])
      /\ e[b + L + M + 8] = Align8
  BY DEF RecordFieldsAt, AllFields, IsSeq
<1>2. a \in Nat /\ a % 8 = 0
  <2>1. b \in 0..Len(e)
    BY <1>1
  <2> QED BY <2>1, EndsProperties
<1>3. E[b + 1] = a + 8
  <2>1. b + 1 <= Len(e)
    BY <1>1
  <2> QED BY <1>1, <2>1, EndOfField
<1> HIDE DEF E
<1>4. E[b + 2] = a + 12
  <2>1. (b + 1) + 1 = b + 2 /\ b + 2 <= Len(e) /\ b + 1 \in Nat
    BY <1>1
  <2>2. E[(b + 1) + 1] = E[b + 1] + 4
    BY <1>1, <2>1, EndOfField DEF E
  <2> HIDE DEF a
  <2> QED BY <1>2, <1>3, <2>1, <2>2
<1>5. E[b + 3] = a + 14
  <2>1. (b + 2) + 1 = b + 3 /\ b + 3 <= Len(e) /\ b + 2 \in Nat
    BY <1>1
  <2>2. E[(b + 2) + 1] = E[b + 2] + 2
    BY <1>1, <2>1, EndOfField DEF E
  <2> HIDE DEF a
  <2> QED BY <1>2, <1>4, <2>1, <2>2
<1>6. E[b + 4] = a + 16
  <2>1. (b + 3) + 1 = b + 4 /\ b + 4 <= Len(e) /\ b + 3 \in Nat
    BY <1>1
  <2>2. E[(b + 3) + 1] = E[b + 3] + 2
    BY <1>1, <2>1, EndOfField DEF E
  <2> HIDE DEF a
  <2> QED BY <1>2, <1>5, <2>1, <2>2
<1>7. \A j \in 0..L : E[b + 4 + j] = a + 16 + j * 12
  <2> DEFINE c == b + 4
  <2>1. c \in Nat /\ c + L <= Len(e)
    BY <1>1
  <2>2. ASSUME NEW j \in 1..L PROVE e[c + j] # Align8 /\ e[c + j].size = 12
    <3>1. e[c + j] = Field(12, rec.locations[j])
      BY <1>1
    <3> HIDE DEF c
    <3> QED BY <3>1, FieldProperties
  <2>3. E[c] = a + 16
    BY <1>6
  <2> HIDE DEF c
  <2>4. IsArray(e, c, L, 12)
    BY <1>1, <2>1, <2>2 DEF IsArray
  <2>5. EndsEvenly(e, c, L, 12)
    BY <2>4, EndsOfArray
  <2>6. \A j \in 0..L : E[c + j] = E[c] + j * 12
    BY <2>5 DEF EndsEvenly, E
  <2> QED BY Zenon, <2>3, <2>6 DEF c
<1> HIDE DEF a
<1>8. /\ (-(a + 16 + 12 * L)) % 8 = location_padding(L)
      /\ location_padding(L) \in Nat /\ (a + 16 + 12 * L + location_padding(L)) % 8 = 0
  BY <1>1, <1>2, Padding
<1>9. E[b + L + 5] = p
  <2> DEFINE c == b + 4 + L
  <2>1. c \in Nat /\ c + 1 <= Len(e) /\ c + 1 = b + L + 5 /\ L \in 0..L /\ L * 12 = 12 * L
    BY <1>1
  <2>2. E[c] = a + 16 + 12 * L
    BY <1>7, <2>1
  <2> HIDE DEF c
  <2>3. E[c + 1] = E[c] + ((-E[c]) % 8)
    BY <1>1, <2>1, EndOfPadding DEF E
  <2> QED BY <1>8, <2>1, <2>2, <2>3
<1>10. p \in Nat /\ p % 8 = 0
  <2>1. 12 * L \in Nat
    BY <1>1
  <2> QED BY <1>2, <1>8, <2>1
<1> HIDE DEF p
<1>11. E[b + L + 6] = p + 2
  <2> DEFINE c == b + L + 5
  <2>1. c + 1 = b + L + 6 /\ c + 1 <= Len(e) /\ c \in Nat
    BY <1>1
  <2>2. e[c + 1] = Field(2, 0)
    BY <1>1, <2>1
  <2>3. E[c] = p
    BY <1>9
  <2> HIDE DEF c
  <2>4. E[c + 1] = E[c] + 2
    BY <2>1, <2>2, EndOfField DEF E
  <2> QED BY <2>1, <2>3, <2>4
<1>12. E[b + L + 7] = p + 4
  <2> DEFINE c == b + L + 6
  <2>1. c + 1 = b + L + 7 /\ c + 1 <= Len(e) /\ c \in Nat
    BY <1>1
  <2>2. e[c + 1] = Field(2, M)
    BY <1>1, <2>1
  <2>3. E[c] = p + 2
    BY <1>11
  <2> HIDE DEF c
  <2>4. E[c + 1] = E[c] + 2
    BY <2>1, <2>2, EndOfField DEF E
  <2> QED BY <1>10, <2>1, <2>3, <2>4
<1>13. \A j \in 0..M : E[b + L + 7 + j] = p + 4 + j * 4
  <2> DEFINE c == b + L + 7
  <2>1. c \in Nat /\ c + M <= Len(e)
    BY <1>1
  <2>2. ASSUME NEW j \in 1..M PROVE e[c + j] # Align8 /\ e[c + j].size = 4
    <3>1. e[c + j] = Field(4, rec.liveouts[j])
      BY <1>1
    <3> HIDE DEF c
    <3> QED BY <3>1, FieldProperties
  <2>3. E[c] = p + 4
    BY <1>12
  <2> HIDE DEF c
  <2>4. IsArray(e, c, M, 4)
    BY <1>1, <2>1, <2>2 DEF IsArray
  <2>5. EndsEvenly(e, c, M, 4)
    BY <2>4, EndsOfArray
  <2>6. \A j \in 0..M : E[c + j] = E[c] + j * 4
    BY <2>5 DEF EndsEvenly, E
  <2> QED BY Zenon, <2>3, <2>6 DEF c
<1>14. /\ (-(p + 4 + 4 * M)) % 8 = liveout_padding(M)
       /\ liveout_padding(M) \in Nat /\ (p + 4 + 4 * M + liveout_padding(M)) % 8 = 0
  BY <1>1, <1>10, Padding
<1>15. E[b + L + M + 8] = q
  <2> DEFINE c == b + L + 7 + M
  <2>1. c \in Nat /\ c + 1 <= Len(e) /\ c + 1 = b + L + M + 8 /\ M \in 0..M /\ M * 4 = 4 * M
    BY <1>1
  <2>2. E[c] = p + 4 + 4 * M
    BY <1>13, <2>1
  <2> HIDE DEF c
  <2>3. E[c + 1] = E[c] + ((-E[c]) % 8)
    BY <1>1, <2>1, EndOfPadding DEF E
  <2> QED BY <1>14, <2>1, <2>2, <2>3
<1>16. q % 8 = 0
  BY <1>14
<1> QED
  BY <1>3, <1>4, <1>5, <1>6, <1>7, <1>9, <1>10, <1>11, <1>12, <1>13, <1>15, <1>16
  DEF RecordEndsAt, E, a, p

-----------------------------------------------------------------------------
(***************************************************************************)
(* What is read.                                                           *)
(***************************************************************************)

\* Field k + 1, read where field k ends.
LEMMA ReadAfter ==
  ASSUME tables \in Tables, NEW k \in Nat, k + 1 <= Len(Emitted(tables)),
         NEW size \in Nat \ {0}, NEW val, Emitted(tables)[k + 1] = Field(size, val)
  PROVE  Read(Ends(Emitted(tables))[k], size) = val
<1> DEFINE e == Emitted(tables)
           q == k + 1
           at == Ends(e)[k]
<1>1. AllFields(e) /\ Len(e) \in Nat
  BY EmittedLayout
<1>2. q \in 1..Len(e) /\ q - 1 = k
  BY <1>1
<1>3. e[q] # Align8 /\ e[q].size = size /\ e[q].val = val
  BY FieldProperties
<1>4. at = Ends(e)[q - 1]
  BY <1>2
<1> HIDE DEF q, at
<1>5. Read(at, size) = e[q].val
  BY <1>1, <1>2, <1>3, <1>4, ReadField
<1> QED BY <1>3, <1>5 DEF at

\* The fields after field b, which ends at the offset at, hold vals.
ArrayAt(b, size, vals, at) ==
  /\ b \in Nat /\ size \in Nat \ {0} /\ IsSeq(vals)
  /\ b + Len(vals) <= Len(Emitted(tables))
  /\ \A j \in 1..Len(vals) : Emitted(tables)[b + j] = Field(size, vals[j])
  /\ \A j \in 0..Len(vals) : Ends(Emitted(tables))[b + j] = at + j * size

\* An array, read where the field before it ends.
LEMMA ReadArrayAfter ==
  ASSUME tables \in Tables, NEW b, NEW size, NEW vals, NEW at, ArrayAt(b, size, vals, at)
  PROVE  ReadArray(at, size, Len(vals)) = vals
<1> DEFINE n == Len(vals)
<1>0. /\ b \in Nat /\ n \in Nat /\ size \in Nat \ {0} /\ b + n <= Len(Emitted(tables))
      /\ \A j \in 1..n : Emitted(tables)[b + j] = Field(size, vals[j])
      /\ \A j \in 0..n : Ends(Emitted(tables))[b + j] = at + j * size
      /\ vals = [j \in 1..n |-> vals[j]]
  BY DEF ArrayAt, IsSeq
<1> HIDE DEF n
<1> DEFINE e == Emitted(tables)
<1>1. Count(n) = n
  BY <1>0, TablesAssumption DEF Count
<1>2. ASSUME NEW j \in 1..n PROVE Read(at + (j - 1) * size, size) = vals[j]
  <2> DEFINE k == b + (j - 1)
  <2>1. /\ j - 1 \in 0..n /\ j - 1 \in Nat /\ k \in Nat /\ k + 1 = b + j /\ k + 1 <= Len(e)
        /\ Len(e) \in Nat
    BY <1>0, EmittedLayout
  <2>2. Ends(e)[k] = at + (j - 1) * size
    BY <1>0, <2>1
  <2>3. e[k + 1] = Field(size, vals[j])
    BY <1>0, <2>1
  <2> HIDE DEF k, e
  <2>4. Read(Ends(e)[k], size) = vals[j]
    BY <1>0, <2>1, <2>3, ReadAfter DEF e
  <2> QED BY Zenon, <2>2, <2>4
<1>3. ReadArray(at, size, n) = [j \in 1..n |-> Read(at + (j - 1) * size, size)]
  BY Zenon, <1>1 DEF ReadArray
<1>4. [j \in 1..n |-> Read(at + (j - 1) * size, size)] = [j \in 1..n |-> vals[j]]
  BY Zenon, <1>2
<1> QED BY Zenon, <1>0, <1>3, <1>4 DEF n

\* A sequence is all but its last element, with that one appended.
LEMMA AppendNext ==
  ASSUME NEW s, NEW r, IsSeq(s), IsSeq(r), Len(r) = Len(s) + 1,
         \A k \in 1..Len(s) : s[k] = r[k]
  PROVE  Append(s, r[Len(r)]) = r
<1> DEFINE a == Append(s, r[Len(r)])
<1>1. /\ IsSeq(a) /\ Len(a) = Len(s) + 1 /\ a[Len(s) + 1] = r[Len(r)]
      /\ \A k \in 1..Len(s) : a[k] = s[k]
  BY AppendAny
<1> HIDE DEF a
<1>2. ASSUME NEW k \in 1..Len(a) PROVE a[k] = r[k]
  <2>1. k = Len(s) + 1 \/ k \in 1..Len(s)
    BY <1>1 DEF IsSeq
  <2> QED BY <1>1, <2>1
<1>3. a = r
  BY <1>1, <1>2, SeqsEqual
<1> QED BY <1>3 DEF a

\* The tables read so far grow by one entry at a time.
LEMMA FirstProperties ==
  ASSUME NEW t, NEW n \in Nat
  PROVE  /\ Len(FirstFunctions(t, n)) = n
         /\ Append(FirstFunctions(t, n), SizeRecord(t.funcs[n + 1], n + 1))
              = FirstFunctions(t, n + 1)
         /\ Len(FirstRecords(t, n)) = n
         /\ Append(FirstRecords(t, n), MapRecord(t.recs[n + 1], n + 1))
              = FirstRecords(t, n + 1)
<1>1. /\ Len(FirstFunctions(t, n)) = n
      /\ Append(FirstFunctions(t, n), SizeRecord(t.funcs[n + 1], n + 1))
           = FirstFunctions(t, n + 1)
  <2> DEFINE s == FirstFunctions(t, n)
             r == FirstFunctions(t, n + 1)
  <2>1. /\ s = [k \in 1..n |-> s[k]] /\ r = [k \in 1..(n + 1) |-> r[k]]
        /\ \A k \in 1..n : s[k] = r[k]
        /\ r[n + 1] = SizeRecord(t.funcs[n + 1], n + 1)
    BY DEF FirstFunctions
  <2>2. IsSeq(s) /\ Len(s) = n
    <3> HIDE DEF s
    <3> QED BY <2>1, FunctionIsSeq
  <2>3. IsSeq(r) /\ Len(r) = n + 1
    <3> DEFINE m == n + 1
    <3>1. m \in Nat /\ r = [k \in 1..m |-> r[k]]
      BY <2>1
    <3> HIDE DEF m, r
    <3>2. IsSeq(r) /\ Len(r) = m
      BY <3>1, FunctionIsSeq
    <3> QED BY <3>2 DEF m
  <2> HIDE DEF s, r
  <2>4. Append(s, r[Len(r)]) = r
    <3>1. \A k \in 1..Len(s) : s[k] = r[k]
      BY <2>1, <2>2
    <3> QED BY <2>2, <2>3, <3>1, AppendNext
  <2> QED BY <2>1, <2>2, <2>3, <2>4 DEF s, r
<1>2. /\ Len(FirstRecords(t, n)) = n
      /\ Append(FirstRecords(t, n), MapRecord(t.recs[n + 1], n + 1))
           = FirstRecords(t, n + 1)
  <2> DEFINE s == FirstRecords(t, n)
             r == FirstRecords(t, n + 1)
  <2>1. /\ s = [k \in 1..n |-> s[k]] /\ r = [k \in 1..(n + 1) |-> r[k]]
        /\ \A k \in 1..n : s[k] = r[k]
        /\ r[n + 1] = MapRecord(t.recs[n + 1], n + 1)
    BY DEF FirstRecords
  <2>2. IsSeq(s) /\ Len(s) = n
    <3> HIDE DEF s
    <3> QED BY <2>1, FunctionIsSeq
  <2>3. IsSeq(r) /\ Len(r) = n + 1
    <3> DEFINE m == n + 1
    <3>1. m \in Nat /\ r = [k \in 1..m |-> r[k]]
      BY <2>1
    <3> HIDE DEF m, r
    <3>2. IsSeq(r) /\ Len(r) = m
      BY <3>1, FunctionIsSeq
    <3> QED BY <3>2 DEF m
  <2> HIDE DEF s, r
  <2>4. Append(s, r[Len(r)]) = r
    <3>1. \A k \in 1..Len(s) : s[k] = r[k]
      BY <2>1, <2>2
    <3> QED BY <2>2, <2>3, <3>1, AppendNext
  <2> QED BY <2>1, <2>2, <2>3, <2>4 DEF s, r
<1> QED BY <1>1, <1>2

\* Nothing read yet.
LEMMA FirstNone ==
  ASSUME NEW t
  PROVE  FirstFunctions(t, 0) = <<>> /\ FirstRecords(t, 0) = <<>>
<1>1. IsSeq(<<>>) /\ Len(<<>>) = 0
  <2>1. <<>> \in Seq({}) /\ Len(<<>>) = 0
    OBVIOUS
  <2> QED BY <2>1, IsSeqOfSeq
<1>2. FirstFunctions(t, 0) = <<>>
  <2> DEFINE s == FirstFunctions(t, 0)
  <2>1. s = [k \in 1..0 |-> s[k]] /\ 0 \in Nat
    BY DEF FirstFunctions
  <2> HIDE DEF s
  <2>2. IsSeq(s) /\ Len(s) = 0
    BY <2>1, FunctionIsSeq
  <2>3. \A i \in 1..Len(s) : s[i] = <<>>[i]
    BY <2>2
  <2>4. s = <<>>
    BY <1>1, <2>2, <2>3, SeqsEqual
  <2> QED BY <2>4 DEF s
<1>3. FirstRecords(t, 0) = <<>>
  <2> DEFINE s == FirstRecords(t, 0)
  <2>1. s = [k \in 1..0 |-> s[k]] /\ 0 \in Nat
    BY DEF FirstRecords
  <2> HIDE DEF s
  <2>2. IsSeq(s) /\ Len(s) = 0
    BY <2>1, FunctionIsSeq
  <2>3. \A i \in 1..Len(s) : s[i] = <<>>[i]
    BY <2>2
  <2>4. s = <<>>
    BY <1>1, <2>2, <2>3, SeqsEqual
  <2> QED BY <2>4 DEF s
<1> QED BY <1>2, <1>3

-----------------------------------------------------------------------------
(***************************************************************************)
(* The steps of stmap_create.                                              *)
(***************************************************************************)

\* Initially the cursor is at the start of the section.
LEMMA InitIInv == Init => IInv
BY DEF Init, IInv

\* The header holds the lengths of the tables.
LEMMA HeaderStep ==
  ASSUME IInv, ReadHeader
  PROVE  IInv'
<1> DEFINE e == Emitted(tables)
           E == Ends(e)
           F == Len(tables.funcs)
           C == Len(tables.constants)
           R == Len(tables.recs)
<1>1. tables \in Tables /\ tables' = tables /\ addr = 0 /\ pc' = "functions"
  BY DEF IInv, ReadHeader
<1>2. /\ e[4] = Field(4, F) /\ e[5] = Field(4, C) /\ e[6] = Field(4, R)
      /\ Len(e) \in Nat /\ 6 <= Len(e) /\ F \in Nat
  <2>1. /\ Len(e) \in Nat /\ FunctionAt(tables, 0) = 6
        /\ \A k \in 1..6 : e[k] = EmitHeader(tables)[k]
        /\ \A k \in 0..F : FunctionAt(tables, k) <= Len(e)
    BY <1>1, EmittedLayout
  <2>2. F \in Nat
    BY <1>1, TableTypes
  <2>3. 0 \in 0..F
    BY <2>2
  <2>4. /\ EmitHeader(tables)[4] = Field(4, F) /\ EmitHeader(tables)[5] = Field(4, C)
        /\ EmitHeader(tables)[6] = Field(4, R)
    BY HeaderLayout
  <2> HIDE DEF e, F, C, R
  <2> QED BY <2>1, <2>2, <2>3, <2>4
<1>3. E[3] = 4 /\ E[4] = 8 /\ E[5] = 12 /\ FunctionEnd(tables, 0) = 16
  BY <1>1, HeaderEnds
<1>4. Read(4, 4) = F /\ Read(8, 4) = C /\ Read(12, 4) = R
  <2>1. /\ e[3 + 1] = Field(4, F) /\ e[4 + 1] = Field(4, C) /\ e[5 + 1] = Field(4, R)
        /\ 3 + 1 <= Len(e) /\ 4 + 1 <= Len(e) /\ 5 + 1 <= Len(e)
    <3> HIDE DEF e
    <3> QED BY <1>2
  <2> HIDE DEF F, C, R
  <2>2. Read(E[3], 4) = F
    BY <1>1, <2>1, ReadAfter
  <2>3. Read(E[4], 4) = C
    BY <1>1, <2>1, ReadAfter
  <2>4. Read(E[5], 4) = R
    BY <1>1, <2>1, ReadAfter
  <2> HIDE DEF e, E
  <2> QED BY <1>3, <2>2, <2>3, <2>4
<1>5. addr' = 16 /\ sm' = StackMapOf(tables, <<>>, <<>>, <<>>)
  <2>1. addr + 4 = 4 /\ addr + 8 = 8 /\ addr + 12 = 12
    BY <1>1
  <2> QED BY <1>1, <1>4, <2>1
    DEF ReadHeader, StackMapOf, header_size, sizeof_uint16_t, sizeof_uint32_t
<1>6. FunctionsRead(0)'
  BY <1>1, <1>3, <1>5, FirstNone DEF FunctionsRead
<1>7. 0 \in 0..F
  BY <1>2
<1> QED BY <1>1, <1>6, <1>7 DEF IInv

\* A length is no garbage.
LEMMA CountOfLength ==
  ASSUME NEW n \in Nat
  PROVE  Count(n) = n
BY TablesAssumption DEF Count

\* A size record has three fields of eight bytes.
LEMMA SizeRecordStep ==
  ASSUME IInv, ReadSizeRecord
  PROVE  IInv'
<1> DEFINE e == Emitted(tables)
           E == Ends(e)
           F == Len(tables.funcs)
<1>1. tables \in Tables /\ tables' = tables /\ pc = "functions" /\ pc' = "functions"
  BY DEF IInv, ReadSizeRecord
<1>2. PICK n \in 0..F : FunctionsRead(n)
  BY <1>1 DEF IInv
<1>3. F \in Nat /\ n \in Nat
  BY <1>1, TableTypes
<1>4. /\ sm = StackMapOf(tables, FirstFunctions(tables, n), <<>>, <<>>)
      /\ addr = FunctionEnd(tables, n) /\ addr % 8 = 0
  BY <1>2 DEF FunctionsRead
<1>5. /\ sm.stk_size_records = FirstFunctions(tables, n) /\ sm.num_func = F
      /\ Len(sm.stk_size_records) = n
  BY <1>3, <1>4, FirstProperties DEF StackMapOf
<1>6. n < F
  <2>1. Len(sm.stk_size_records) < Count(sm.num_func)
    BY DEF ReadSizeRecord
  <2> QED BY <1>3, <1>5, <2>1, CountOfLength
<1> DEFINE k == n + 1
           b == FunctionAt(tables, n)
           f == tables.funcs[k]
<1>7. k \in 1..F /\ k - 1 = n /\ k \in 0..F
  BY <1>3, <1>6
<1>8. /\ addr \in Nat /\ addr = E[b] /\ E[b + 1] = addr + 8 /\ E[b + 2] = addr + 16
      /\ FunctionEnd(tables, k) = addr + 24
  <2>1. /\ E[b] \in Nat /\ E[b + 1] = E[b] + 8 /\ E[b + 2] = E[b] + 16
        /\ FunctionEnd(tables, k) = E[b] + 24
    <3>1. FunctionAt(tables, k - 1) = b
      BY <1>7
    <3> HIDE DEF k
    <3> QED BY <1>1, <1>7, <3>1, FunctionEnds
  <2>2. addr = E[b]
    BY <1>4 DEF FunctionEnd
  <2> HIDE DEF E, k, b
  <2> QED BY <2>1, <2>2
<1>9. /\ b \in Nat /\ b + 3 <= Len(e) /\ Len(e) \in Nat
      /\ e[b + 1] = Field(8, f.fun_addr) /\ e[b + 2] = Field(8, f.stack_size)
      /\ e[b + 3] = Field(8, f.record_count)
  <2>1. /\ Len(e) \in Nat
        /\ \A j \in 0..F : FunctionAt(tables, j) \in Nat
        /\ \A j \in 1..F :
             /\ FunctionAt(tables, j) = FunctionAt(tables, j - 1) + 3
             /\ \A m \in 1..3 : e[FunctionAt(tables, j - 1) + m] = EmitFunction(tables.funcs[j])[m]
        /\ \A j \in 0..F : FunctionAt(tables, j) <= Len(e)
    BY <1>1, EmittedLayout
  <2>2. /\ b \in Nat /\ FunctionAt(tables, k) <= Len(e)
        /\ FunctionAt(tables, k) = b + 3
        /\ \A m \in 1..3 : e[b + m] = EmitFunction(f)[m]
    <3>1. FunctionAt(tables, k - 1) = b
      BY <1>7
    <3>2. b \in Nat
      BY <2>1
    <3> HIDE DEF k, e, b, F
    <3> QED BY <1>7, <2>1, <3>1, <3>2
  <2> HIDE DEF e, f, b, k
  <2> QED BY <2>1, <2>2, FunctionLayout
<1> HIDE DEF E, e, b, f, k
<1>10. /\ Read(addr, 8) = f.fun_addr /\ Read(addr + 8, 8) = f.stack_size
       /\ Read(addr + 16, 8) = f.record_count
  <2>1. /\ b + 1 \in Nat /\ b + 2 \in Nat /\ b + 1 <= Len(e) /\ (b + 1) + 1 <= Len(e)
        /\ (b + 2) + 1 <= Len(e) /\ (b + 1) + 1 = b + 2 /\ (b + 2) + 1 = b + 3
    BY <1>9
  <2>2. Read(E[b], 8) = f.fun_addr
    BY <1>1, <1>9, <2>1, ReadAfter DEF E, e
  <2>3. Read(E[b + 1], 8) = f.stack_size
    BY <1>1, <1>9, <2>1, ReadAfter DEF E, e
  <2>4. Read(E[b + 2], 8) = f.record_count
    BY <1>1, <1>9, <2>1, ReadAfter DEF E, e
  <2> QED BY <1>8, <2>2, <2>3, <2>4
<1>11. sm' = StackMapOf(tables, FirstFunctions(tables, k), <<>>, <<>>)
  <2> DEFINE new == [fun_addr     |-> Read(addr, sizeof_uint64_t),
                     stack_size   |-> Read(addr + 8, sizeof_uint64_t),
                     record_count |-> Read(addr + 16, sizeof_uint64_t),
                     index        |-> Len(sm.stk_size_records)]
  <2>1. new = SizeRecord(f, k)
    BY <1>5, <1>7, <1>10 DEF SizeRecord, sizeof_uint64_t
  <2>2. sm' = [sm EXCEPT !.stk_size_records = Append(sm.stk_size_records, new)]
    BY DEF ReadSizeRecord
  <2> HIDE DEF new
  <2>3. Append(FirstFunctions(tables, n), SizeRecord(f, k)) = FirstFunctions(tables, k)
    BY <1>3, FirstProperties DEF f, k
  <2>4. sm' = [sm EXCEPT !.stk_size_records = FirstFunctions(tables, k)]
    BY <1>5, <2>1, <2>2, <2>3
  <2> QED BY <1>4, <2>4 DEF StackMapOf
<1>12. addr' = FunctionEnd(tables, k) /\ addr' % 8 = 0
  <2>1. addr' = addr + 24
    BY DEF ReadSizeRecord, size_record_bytes, sizeof_stack_size_record_t, sizeof_uint64_t
  <2> QED BY <1>4, <1>8, <2>1
<1>13. FunctionsRead(k)'
  BY <1>1, <1>11, <1>12 DEF FunctionsRead
<1> QED BY <1>1, <1>7, <1>13 DEF IInv

\* The constants are an array of eight-byte fields.
LEMMA ConstantsStep ==
  ASSUME IInv, ReadConstants
  PROVE  IInv'
<1> DEFINE e == Emitted(tables)
           E == Ends(e)
           F == Len(tables.funcs)
           C == Len(tables.constants)
           b == FunctionAt(tables, F)
<1>1. tables \in Tables /\ tables' = tables /\ pc = "functions" /\ pc' = "records"
  BY DEF IInv, ReadConstants
<1>2. PICK n \in 0..F : FunctionsRead(n)
  BY <1>1 DEF IInv
<1>3. /\ F \in Nat /\ C \in Nat /\ Len(tables.recs) \in Nat /\ n \in Nat
      /\ IsSeq(tables.constants)
  BY <1>1, TableTypes
<1>4. /\ sm = StackMapOf(tables, FirstFunctions(tables, n), <<>>, <<>>)
      /\ addr = FunctionEnd(tables, n) /\ addr % 8 = 0
  BY <1>2 DEF FunctionsRead
<1>5. sm.num_func = F /\ sm.num_const = C /\ Len(sm.stk_size_records) = n
  BY <1>3, <1>4, FirstProperties DEF StackMapOf
<1>6. n = F
  <2>1. Len(sm.stk_size_records) = Count(sm.num_func)
    BY DEF ReadConstants
  <2> QED BY <1>3, <1>5, <2>1, CountOfLength
<1>7. addr = E[b]
  BY <1>4, <1>6 DEF FunctionEnd
<1>8. /\ addr \in Nat /\ \A k \in 0..C : E[b + k] = addr + k * 8
      /\ RecordEnd(tables, 0) = addr + C * 8
  <2>1. /\ E[b] \in Nat /\ \A k \in 0..C : E[b + k] = E[b] + k * 8
        /\ RecordEnd(tables, 0) = E[b] + C * 8
    BY <1>1, ConstantEnds
  <2> HIDE DEF E, b, C
  <2> QED BY <1>7, <2>1
<1>9. b \in Nat /\ b + C <= Len(e) /\ \A k \in 1..C : e[b + k] = Field(8, tables.constants[k])
  <2>1. /\ \A j \in 0..F : FunctionAt(tables, j) \in Nat
        /\ RecordAt(tables, 0) = b + C
        /\ \A k \in 1..C : e[b + k] = Field(8, tables.constants[k])
        /\ \A j \in 0..Len(tables.recs) : RecordAt(tables, j) <= Len(e)
    BY <1>1, EmittedLayout
  <2>2. F \in 0..F /\ 0 \in 0..Len(tables.recs)
    BY <1>3
  <2> HIDE DEF e, C, F
  <2> QED BY <2>1, <2>2
<1>10. ReadArray(addr, 8, C) = tables.constants
  <2> HIDE DEF b
  <2>1. ArrayAt(b, 8, tables.constants, addr)
    BY <1>3, <1>8, <1>9 DEF ArrayAt
  <2> QED BY <1>1, <2>1, ReadArrayAfter
<1>11. sm' = StackMapOf(tables, FirstFunctions(tables, F), tables.constants,
                        FirstRecords(tables, 0))
  <2>1. sm' = [sm EXCEPT !.constants = tables.constants]
    BY <1>5, <1>10 DEF ReadConstants, sizeof_uint64_t
  <2> QED BY <1>4, <1>6, <2>1, FirstNone DEF StackMapOf
<1>12. addr' = RecordEnd(tables, 0) /\ addr' % 8 = 0
  <2>1. addr' = addr + 8 * C
    BY <1>3, <1>5, CountOfLength DEF ReadConstants, sizeof_uint64_t
  <2> HIDE DEF C
  <2> QED BY <1>3, <1>4, <1>8, <2>1
<1>13. RecordsRead(0)'
  BY <1>1, <1>11, <1>12 DEF RecordsRead
<1>14. 0 \in 0..Len(tables.recs)
  BY <1>3
<1> QED BY <1>1, <1>13, <1>14 DEF IInv

(***************************************************************************)
(* A record, read at a multiple of 8: its locations end where the padding  *)
(* that is worked out from their number ends, and so do its live-outs.     *)
(***************************************************************************)
LEMMA RecordStep ==
  ASSUME IInv, ReadRecord
  PROVE  IInv'
<1> DEFINE e == Emitted(tables)
           E == Ends(e)
           R == Len(tables.recs)
<1>1. tables \in Tables /\ tables' = tables /\ pc = "records" /\ pc' = "records"
  BY DEF IInv, ReadRecord
<1>2. PICK n \in 0..R : RecordsRead(n)
  BY <1>1 DEF IInv
<1>3. R \in Nat /\ n \in Nat
  BY <1>1, TableTypes
<1> DEFINE funcs == FirstFunctions(tables, Len(tables.funcs))
<1>4. /\ sm = StackMapOf(tables, funcs, tables.constants, FirstRecords(tables, n))
      /\ addr = RecordEnd(tables, n) /\ addr % 8 = 0
  BY <1>2 DEF RecordsRead
<1> HIDE DEF funcs
<1>5. /\ sm.stk_map_records = FirstRecords(tables, n) /\ sm.num_rec = R
      /\ Len(sm.stk_map_records) = n
  BY <1>3, <1>4, FirstProperties DEF StackMapOf
<1>6. n < R
  <2>1. Len(sm.stk_map_records) < Count(sm.num_rec)
    BY DEF ReadRecord
  <2> QED BY <1>3, <1>5, <2>1, CountOfLength
<1> DEFINE k == n + 1
           b == RecordAt(tables, n)
           rec == tables.recs[k]
           L == Len(rec.locations)
           M == Len(rec.liveouts)
           p == addr + 16 + 12 * L + location_padding(L)
           q == p + 4 + 4 * M + liveout_padding(M)
<1>7. k \in 1..R /\ k - 1 = n /\ k \in 0..R
  BY <1>3, <1>6
<1>8. RecordFieldsAt(e, b, rec, L, M) /\ RecordAt(tables, k) = b + L + M + 8
  <2>1. RecordAt(tables, k - 1) = b
    BY <1>7
  <2> HIDE DEF k
  <2> QED BY <1>1, <1>7, <2>1, RecordInSection
<1>9. AllFields(e) /\ Len(e) \in Nat
  BY <1>1, EmittedLayout
<1>10. addr = E[b]
  BY <1>4 DEF RecordEnd
<1>11. RecordEndsAt(E, b, L, M)
  <2> HIDE DEF e, b, rec, L, M
  <2> QED BY <1>4, <1>8, <1>9, <1>10, RecordEnds
<1>12. IsSeq(rec.locations) /\ IsSeq(rec.liveouts)
  BY <1>1, <1>7, TableTypes
<1>13. RecordEnd(tables, k) = E[b + L + M + 8]
  BY <1>8 DEF RecordEnd
<1> HIDE DEF E, e, k, b, rec, L, M
<1>14. /\ b \in Nat /\ L \in Nat /\ M \in Nat /\ b + L + M + 8 <= Len(e)
       /\ e[b + 1] = Field(8, rec.patchpoint_id)
       /\ e[b + 2] = Field(4, rec.instr_offset)
       /\ e[b + 4] = Field(2, L)
       /\ \A j \in 1..L : e[b + 4 + j] = Field(12, rec.locations[j])
       /\ e[b + L + 7] = Field(2, M)
       /\ \A j \in 1..M : e[b + L + 7 + j] = Field(4, rec.liveouts[j])
  BY <1>8 DEF RecordFieldsAt
<1>15. /\ E[b + 1] = addr + 8 /\ E[b + 3] = addr + 14
       /\ \A j \in 0..L : E[b + 4 + j] = addr + 16 + j * 12
       /\ E[b + L + 6] = p + 2
       /\ \A j \in 0..M : E[b + L + 7 + j] = p + 4 + j * 4
       /\ E[b + L + M + 8] = q /\ q % 8 = 0 /\ p \in Nat
  BY <1>10, <1>11 DEF RecordEndsAt
<1>16. addr \in Nat
  <2>1. b \in 0..Len(e)
    BY <1>9, <1>14
  <2> QED BY <1>9, <1>10, <2>1, EndsProperties DEF E
<1> HIDE DEF p
<1>17. Read(addr, 8) = rec.patchpoint_id
  <2>1. b + 1 <= Len(e)
    BY <1>9, <1>14
  <2> QED BY <1>1, <1>10, <1>14, <2>1, ReadAfter DEF E, e
<1>18. Read(addr + 8, 4) = rec.instr_offset
  <2> DEFINE c == b + 1
  <2>1. c \in Nat /\ c + 1 <= Len(e) /\ c + 1 = b + 2
    BY <1>9, <1>14
  <2>2. E[c] = addr + 8 /\ e[c + 1] = Field(4, rec.instr_offset)
    BY <1>14, <1>15, <2>1
  <2> HIDE DEF c
  <2>3. Read(E[c], 4) = rec.instr_offset
    BY <1>1, <2>1, <2>2, ReadAfter DEF E, e
  <2> QED BY <2>2, <2>3
<1>19. Read(addr + 14, 2) = L
  <2> DEFINE c == b + 3
  <2>1. c \in Nat /\ c + 1 <= Len(e) /\ c + 1 = b + 4
    BY <1>9, <1>14
  <2>2. E[c] = addr + 14 /\ e[c + 1] = Field(2, L)
    BY <1>14, <1>15, <2>1
  <2> HIDE DEF c
  <2>3. Read(E[c], 2) = L
    BY <1>1, <2>1, <2>2, ReadAfter DEF E, e
  <2> QED BY <2>2, <2>3
<1>20. Read(p + 2, 2) = M
  <2> DEFINE c == b + L + 6
  <2>1. c \in Nat /\ c + 1 <= Len(e) /\ c + 1 = b + L + 7
    BY <1>9, <1>14
  <2>2. E[c] = p + 2 /\ e[c + 1] = Field(2, M)
    BY <1>14, <1>15, <2>1
  <2> HIDE DEF c
  <2>3. Read(E[c], 2) = M
    BY <1>1, <2>1, <2>2, ReadAfter DEF E, e
  <2> QED BY <2>2, <2>3
<1>21. ReadArray(addr + 16, 12, L) = rec.locations
  <2> DEFINE c == b + 4
             at == addr + 16
             vals == rec.locations
  <2>1. c \in Nat /\ c + L <= Len(e)
    <3>1. b \in Nat /\ L \in Nat /\ M \in Nat /\ b + L + M + 8 <= Len(e) /\ Len(e) \in Nat
      BY <1>9, <1>14
    <3> QED BY <3>1
  <2>2. /\ \A j \in 1..L : e[c + j] = Field(12, vals[j])
        /\ \A j \in 0..L : E[c + j] = at + j * 12
    BY <1>14, <1>15
  <2>3. IsSeq(vals) /\ Len(vals) = L
    BY <1>12 DEF L
  <2> HIDE DEF c, at, vals
  <2>4. ArrayAt(c, 12, vals, at)
    BY <2>1, <2>2, <2>3 DEF ArrayAt, E, e
  <2>5. ReadArray(at, 12, Len(vals)) = vals
    BY <1>1, <2>4, ReadArrayAfter
  <2> QED BY <2>3, <2>5 DEF at, vals
<1>22. ReadArray(p + 4, 4, M) = rec.liveouts
  <2> DEFINE c == b + L + 7
             at == p + 4
             vals == rec.liveouts
  <2>1. c \in Nat /\ c + M <= Len(e)
    BY <1>9, <1>14
  <2>2. /\ \A j \in 1..M : e[c + j] = Field(4, vals[j])
        /\ \A j \in 0..M : E[c + j] = at + j * 4
    BY <1>14, <1>15
  <2>3. IsSeq(vals) /\ Len(vals) = M
    BY <1>12 DEF M
  <2> HIDE DEF c, at, vals
  <2>4. ArrayAt(c, 4, vals, at)
    BY <2>1, <2>2, <2>3 DEF ArrayAt, E, e
  <2>5. ReadArray(at, 4, Len(vals)) = vals
    BY <1>1, <2>4, ReadArrayAfter
  <2> QED BY <2>3, <2>5 DEF at, vals
<1> DEFINE new == [patchpoint_id |-> rec.patchpoint_id, instr_offset |-> rec.instr_offset,
                   locations |-> rec.locations, liveouts |-> rec.liveouts, index |-> n]
<1>23. /\ sm' = [sm EXCEPT !.stk_map_records = Append(sm.stk_map_records, new)]
       /\ addr' = q
  <2> DEFINE num_locations == Read(addr + 14, sizeof_uint16_t)
             locations     == addr + rec_header_size
             padding       == locations + Count(num_locations) * sizeof_location_t
                                + location_padding(Count(num_locations))
             num_liveouts  == Read(padding + sizeof_uint16_t, sizeof_uint16_t)
             liveouts      == padding + 2 * sizeof_uint16_t
  <2>1. /\ sm' = [sm EXCEPT !.stk_map_records = Append(sm.stk_map_records,
                     [patchpoint_id |-> Read(addr, sizeof_uint64_t),
                      instr_offset  |-> Read(addr + 8, sizeof_uint32_t),
                      locations     |-> ReadArray(locations, sizeof_location_t, num_locations),
                      liveouts      |-> ReadArray(liveouts, sizeof_liveout_t, num_liveouts),
                      index         |-> Len(sm.stk_map_records)])]
        /\ addr' = liveouts + sizeof_liveout_t * Count(num_liveouts)
                     + liveout_padding(Count(num_liveouts))
    BY DEF ReadRecord
  <2>2. num_locations = L /\ Count(num_locations) = L
    BY <1>14, <1>19, CountOfLength DEF sizeof_uint16_t
  <2>3. locations = addr + 16
    BY DEF rec_header_size, sizeof_uint64_t, sizeof_uint32_t, sizeof_uint16_t
  <2> HIDE DEF num_locations, locations
  <2>4. padding = p
    <3>1. L * 12 = 12 * L
      BY <1>14
    <3> QED BY <2>2, <2>3, <3>1 DEF p, sizeof_location_t
  <2> HIDE DEF padding
  <2>5. num_liveouts = M /\ Count(num_liveouts) = M
    BY <1>14, <1>20, <2>4, CountOfLength DEF sizeof_uint16_t
  <2>6. liveouts = p + 4
    BY <1>15, <2>4 DEF sizeof_uint16_t
  <2> HIDE DEF num_liveouts, liveouts
  <2>7. addr' = q
    BY <2>1, <2>5, <2>6 DEF sizeof_liveout_t
  <2>8. sm' = [sm EXCEPT !.stk_map_records = Append(sm.stk_map_records, new)]
    BY <1>5, <1>17, <1>18, <1>21, <1>22, <2>1, <2>2, <2>3, <2>5, <2>6
    DEF sizeof_uint64_t, sizeof_uint32_t, sizeof_location_t, sizeof_liveout_t
  <2> QED BY <2>7, <2>8
<1>24. sm' = StackMapOf(tables, funcs, tables.constants, FirstRecords(tables, k))
  <2>1. new = MapRecord(rec, k)
    BY <1>7 DEF MapRecord
  <2> HIDE DEF new
  <2>2. Append(FirstRecords(tables, n), MapRecord(rec, k)) = FirstRecords(tables, k)
    BY <1>3, FirstProperties DEF rec, k
  <2>3. sm' = [sm EXCEPT !.stk_map_records = FirstRecords(tables, k)]
    BY <1>5, <1>23, <2>1, <2>2
  <2> QED BY <1>4, <2>3 DEF StackMapOf
<1>25. addr' = RecordEnd(tables, k) /\ addr' % 8 = 0
  BY <1>13, <1>15, <1>23
<1>26. RecordsRead(k)'
  BY <1>1, <1>24, <1>25 DEF RecordsRead, funcs
<1> QED BY <1>1, <1>7, <1>26 DEF IInv

\* stmap_create returns when it has read all records.
LEMMA ReturnStep ==
  ASSUME IInv, Return
  PROVE  IInv'
<1> DEFINE R == Len(tables.recs)
<1>1. /\ tables \in Tables /\ tables' = tables /\ pc = "records" /\ pc' = "done"
      /\ addr' = addr /\ sm' = sm
  BY DEF IInv, Return
<1>2. PICK n \in 0..R : RecordsRead(n)
  BY <1>1 DEF IInv
<1>3. R \in Nat /\ n \in Nat
  BY <1>1, TableTypes
<1>4. sm.num_rec = R /\ Len(sm.stk_map_records) = n
  BY <1>2, <1>3, FirstProperties DEF RecordsRead, StackMapOf
<1>5. n = R
  <2>1. Len(sm.stk_map_records) = Count(sm.num_rec)
    BY DEF Return
  <2> QED BY <1>3, <1>4, <2>1, CountOfLength
<1>6. RecordsRead(R)'
  BY <1>1, <1>2, <1>5 DEF RecordsRead
<1> QED BY <1>1, <1>6 DEF IInv

\* Every step keeps the invariant.
LEMMA NextIInv == IInv /\ [Next]_vars => IInv'
<1> SUFFICES ASSUME IInv, [Next]_vars PROVE IInv'
  OBVIOUS
<1>1. CASE ReadHeader
  BY <1>1, HeaderStep
<1>2. CASE ReadSizeRecord
  BY <1>2, SizeRecordStep
<1>3. CASE ReadConstants
  BY <1>3, ConstantsStep
<1>4. CASE ReadRecord
  BY <1>4, RecordStep
<1>5. CASE Return
  BY <1>5, ReturnStep
<1>6. CASE UNCHANGED vars
  BY <1>6 DEF vars, IInv, FunctionsRead, RecordsRead
<1> QED BY <1>1, <1>2, <1>3, <1>4, <1>5, <1>6 DEF Next, Returned

(***************************************************************************)
(* The cursor of stmap_create is always at the end of a field, a multiple  *)
(* of 8 once the header is read, and what is read is a prefix of the       *)
(* tables.                                                                 *)
(***************************************************************************)
THEOREM Invariance == Spec => []IInv
BY InitIInv, NextIInv, PTL DEF Spec

\* The invariant gives the tables.
LEMMA TablesFollow == IInv => TablesRead
<1> SUFFICES ASSUME IInv, pc = "done"
             PROVE  /\ sm.stk_size_records = IndexedFunctions(tables.funcs)
                    /\ sm.constants = tables.constants
                    /\ sm.stk_map_records = IndexedRecords(tables.recs)
                    /\ addr = section.end
  BY DEF TablesRead
<1>1. tables \in Tables /\ RecordsRead(Len(tables.recs))
  BY DEF IInv
<1>2. /\ sm.stk_size_records = FirstFunctions(tables, Len(tables.funcs))
      /\ sm.constants = tables.constants
      /\ sm.stk_map_records = FirstRecords(tables, Len(tables.recs))
  BY <1>1 DEF RecordsRead, StackMapOf
<1>3. FirstFunctions(tables, Len(tables.funcs)) = IndexedFunctions(tables.funcs)
  BY Zenon DEF FirstFunctions, IndexedFunctions, SizeRecord
<1>4. FirstRecords(tables, Len(tables.recs)) = IndexedRecords(tables.recs)
  BY Zenon DEF FirstRecords, IndexedRecords, MapRecord
<1>5. addr = section.end
  <2>1. Len(Emitted(tables)) = RecordAt(tables, Len(tables.recs))
    BY <1>1, EmittedLayout
  <2>2. section.end = Ends(Emitted(tables))[Len(Emitted(tables))]
    BY DEF section, Section
  <2> QED BY <1>1, <2>1, <2>2 DEF RecordsRead, RecordEnd
<1> QED BY <1>2, <1>3, <1>4, <1>5

\* No field ends after the section.
LEMMA BoundFollows == IInv => InSection
<1> SUFFICES ASSUME IInv PROVE addr <= section.end
  BY DEF InSection
<1> DEFINE e == Emitted(tables)
           E == Ends(e)
           N == Len(e)
<1>1. tables \in Tables
  BY DEF IInv
<1>2. /\ AllFields(e) /\ N \in Nat
      /\ \A k \in 0..Len(tables.funcs) : FunctionAt(tables, k) \in Nat
      /\ \A k \in 0..Len(tables.recs) : RecordAt(tables, k) \in Nat
      /\ \A k \in 0..Len(tables.funcs) : FunctionAt(tables, k) <= N
      /\ \A k \in 0..Len(tables.recs) : RecordAt(tables, k) <= N
  BY <1>1, EmittedLayout
<1>3. section.end = E[N]
  BY DEF section, Section
<1>4. E[0] = 0 /\ \A i, j \in 0..N : i <= j => E[i] <= E[j]
  BY <1>2, EndsProperties
<1>5. \E k \in 0..N : addr = E[k]
  <2>1. Len(tables.recs) \in Nat
    BY <1>1, TableTypes
  <2>2. CASE pc = "header"
    <3>1. 0 \in 0..N
      BY <1>2
    <3> QED BY <1>4, <2>2, <3>1 DEF IInv
  <2>3. CASE pc = "functions"
    <3>1. PICK n \in 0..Len(tables.funcs) : FunctionsRead(n)
      BY <2>3 DEF IInv
    <3>2. FunctionAt(tables, n) \in 0..N
      BY <1>2
    <3> QED BY <3>1, <3>2 DEF FunctionsRead, FunctionEnd
  <2>4. CASE pc \in {"records", "done"}
    <3>1. Len(tables.recs) \in 0..Len(tables.recs)
      BY <2>1
    <3>2. PICK n \in 0..Len(tables.recs) : RecordsRead(n)
      BY <2>4, <3>1 DEF IInv
    <3>3. RecordAt(tables, n) \in 0..N
      BY <1>2
    <3> QED BY <3>2, <3>3 DEF RecordsRead, RecordEnd
  <2> QED BY <2>2, <2>3, <2>4 DEF IInv
<1>6. PICK k \in 0..N : addr = E[k]
  BY <1>5
<1>7. N \in 0..N /\ k <= N
  BY <1>2
<1> HIDE DEF E, N
<1> QED BY <1>3, <1>4, <1>6, <1>7

(***************************************************************************)
(* Whatever tables LLVM writes, stmap_create reads them back: every        *)
(* function, constant and record, and it ends at the end of the section.   *)
(***************************************************************************)
THEOREM TablesReadBack == Spec => []TablesRead
BY Invariance, TablesFollow, PTL

(***************************************************************************)
(* Every record starts at a multiple of 8, so that the padding worked out  *)
(* from the numbers of locations and live-outs is the one in the section.  *)
(***************************************************************************)
THEOREM RecordsStartAligned == Spec => []RecordsAligned
<1>1. IInv => RecordsAligned
  BY DEF IInv, RecordsAligned, RecordsRead
<1> QED BY <1>1, Invariance, PTL

\* stmap_create does not read past the section.
THEOREM ReaderInSection == Spec => []InSection
BY Invariance, BoundFollows, PTL
=============================================================================
