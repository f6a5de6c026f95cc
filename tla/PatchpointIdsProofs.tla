------------------------ MODULE PatchpointIdsProofs ------------------------
(***************************************************************************)
(* Proofs of the properties of PatchpointIds, for every set of functions,  *)
(* every source module and every ID space large enough for its sites.      *)
(*                                                                         *)
(* The properties speak about the end of the compilation or about IDs      *)
(* alone.  They are consequences of IInv, which says for the k-th function *)
(* of the list how far its sites have been recorded, and how the IDs of    *)
(* one function relate to those of the functions before it and to those of *)
(* its clone.                                                              *)
(***************************************************************************)
EXTENDS PatchpointIds, TLAPS

NumFuns == Len(mod.order)
Fun(k)  == mod.order[k]

OptIds(k)     == stackMaps[<<"opt", Fun(k)>>]
UnoptIds(k)   == stackMaps[<<"unopt", Fun(k)>>]
OptSites(k)   == sites[<<"opt", Fun(k)>>]
UnoptSites(k) == sites[<<"unopt", Fun(k)>>]

\* The instructions of list entry k, whose body has len instructions, before
\* this position have been visited.
Visited(k, len) == IF k < cur THEN len + 1 ELSE IF k = cur THEN pos ELSE 1

VisitedOpt(k)   == Visited(k, Len(mod.body[Fun(k)]))
VisitedUnopt(k) == Visited(k + NumFuns, Len(mod.body[Fun(k)]))

-----------------------------------------------------------------------------
\* The clones follow the originals in the function list.
ListInv ==
  /\ phase = "init" =>
       /\ cur = 1
       /\ pos = 1
       /\ Len(funs) = NumFuns
       /\ \A k \in 1..NumFuns : funs[k] = <<"opt", Fun(k)>>
  /\ phase # "init" =>
       /\ Len(funs) = 2 * NumFuns
       /\ \A k \in 1..NumFuns : funs[k] = <<"opt", Fun(k)>>
                                /\ funs[k + NumFuns] = <<"unopt", Fun(k)>>
  /\ phase = "done" => cur = Len(funs) + 1

\* stackMaps and the inserted calls agree.
SameIds ==
  \A n \in Names :
    /\ Len(sites[n]) = Len(stackMaps[n])
    /\ \A i \in 1..Len(sites[n]) : sites[n][i].id = stackMaps[n][i]

\* What the site at an instruction of an optimized or unoptimized f calls.
TargetOf(v, f, ins) ==
  IF IsGuardSite(f, ins) THEN (IF v = "opt" THEN GuardHandler ELSE NoCallback)
  ELSE <<v, ins.callee>>

\* The recorded sites of a function are those of the visited instructions.
OptSitesInv(k) ==
  LET s == OptSites(k)  body == mod.body[Fun(k)] IN
  /\ \A i \in 1..Len(s) :
       /\ s[i].at \in 1..Len(body)
       /\ s[i].at < VisitedOpt(k)
       /\ IsSite(Fun(k), body[s[i].at])
       /\ s[i].target = TargetOf("opt", Fun(k), body[s[i].at])
  /\ \A i, j \in 1..Len(s) : i < j => s[i].at < s[j].at
  /\ \A p \in 1..Len(body) :
       p < VisitedOpt(k) /\ IsSite(Fun(k), body[p]) => \E i \in 1..Len(s) : s[i].at = p

\* The clone has the same sites, as far as it has been visited.
UnoptSitesInv(k) ==
  LET o == OptSites(k)  u == UnoptSites(k)  body == mod.body[Fun(k)] IN
  /\ Len(u) <= Len(o)
  /\ \A i \in 1..Len(u) :
       /\ u[i].at = o[i].at
       /\ u[i].at < VisitedUnopt(k)
       /\ u[i].target = TargetOf("unopt", Fun(k), body[u[i].at])
       /\ u[i].id = Negate(o[i].id)
  /\ Len(u) < Len(o) => o[Len(u) + 1].at >= VisitedUnopt(k)

\* The IDs of an optimized function are consecutive.
OptIdsInv(k) ==
  \A i \in 1..Len(OptIds(k)) :
    /\ OptIds(k)[i] = OptIds(k)[1] + i - 1
    /\ OptIds(k)[i] \in 1..(2 * allocated)

\* They are separated by a gap from those of the functions before it.
GapInv(k, l) ==
  k < l => \A i \in 1..Len(OptIds(k)), j \in 1..Len(OptIds(l)) :
             OptIds(k)[i] + 2 <= OptIds(l)[j]

\* std::max_element finds an element.
MaxInv ==
  cur <= NumFuns /\ LastIds # {} => \E m \in LastIds : \A l \in LastIds : l <= m

IInv ==
  /\ TypeOK
  /\ ListInv
  /\ SameIds
  /\ \A k \in 1..NumFuns : OptSitesInv(k) /\ UnoptSitesInv(k) /\ OptIdsInv(k)
  /\ \A k, l \in 1..NumFuns : GapInv(k, l)
  /\ MaxInv

-----------------------------------------------------------------------------
\* A source module lists every function once.
LEMMA ModuleFacts ==
  ASSUME TypeOK
  PROVE  /\ NumFuns \in Nat
         /\ \A k \in 1..NumFuns : Fun(k) \in Functions
         /\ \A k, l \in 1..NumFuns : Fun(k) = Fun(l) => k = l
         /\ \A f \in Functions : \E k \in 1..NumFuns : Fun(k) = f
         /\ \A f \in Functions : mod.body[f] \in Seq(Instructions)
BY ModuleAssumption DEF TypeOK, SourceModule, NumFuns, Fun

\* The names of the k-th function and of its clone.
LEMMA NameFacts ==
  ASSUME TypeOK
  PROVE  /\ \A k \in 1..NumFuns : <<"opt", Fun(k)>> \in Names /\ <<"unopt", Fun(k)>> \in Names
         /\ \A n \in Names : \E k \in 1..NumFuns : n = <<"opt", Fun(k)>> \/ n = <<"unopt", Fun(k)>>
         /\ \A f, g : <<"opt", f>> # <<"unopt", g>>
         /\ \A f, g : <<"opt", f>> = <<"opt", g>> => f = g
         /\ \A f, g : <<"unopt", f>> = <<"unopt", g>> => f = g
BY ModuleFacts DEF Names

\* The recorded calls and IDs of a function are sequences.
LEMMA EntryFacts ==
  ASSUME TypeOK
  PROVE  \A k \in 1..NumFuns :
           /\ OptIds(k) \in Seq(0..(IdSpace - 1)) /\ UnoptIds(k) \in Seq(0..(IdSpace - 1))
           /\ OptSites(k) \in Seq(SiteRecords) /\ UnoptSites(k) \in Seq(SiteRecords)
BY NameFacts DEF TypeOK, OptIds, UnoptIds, OptSites, UnoptSites

\* Adding to an ID below the ID space does not wrap around.
LEMMA SmallModulo ==
  ASSUME NEW x \in Nat, NEW m \in Nat, x < m
  PROVE  x % m = x
BY SMT

-----------------------------------------------------------------------------
\* The IDs of optimized sites are below those of unoptimized ones.
LEMMA IdRanges ==
  ASSUME IInv
  PROVE  \A k \in 1..NumFuns :
           /\ \A i \in 1..Len(OptIds(k)) : OptIds(k)[i] \in Nat /\ OptIds(k)[i] \in 1..(2 * allocated)
           /\ Len(UnoptIds(k)) <= Len(OptIds(k))
           /\ \A i \in 1..Len(UnoptIds(k)) :
                /\ UnoptIds(k)[i] = Negate(OptIds(k)[i])
                /\ UnoptIds(k)[i] \in Nat /\ UnoptIds(k)[i] > 2 * allocated + 1
<1> SUFFICES ASSUME NEW k \in 1..NumFuns
             PROVE  /\ \A i \in 1..Len(OptIds(k)) :
                         OptIds(k)[i] \in Nat /\ OptIds(k)[i] \in 1..(2 * allocated)
                    /\ Len(UnoptIds(k)) <= Len(OptIds(k))
                    /\ \A i \in 1..Len(UnoptIds(k)) :
                         /\ UnoptIds(k)[i] = Negate(OptIds(k)[i])
                         /\ UnoptIds(k)[i] \in Nat /\ UnoptIds(k)[i] > 2 * allocated + 1
  OBVIOUS
<1>1. OptIdsInv(k) /\ UnoptSitesInv(k) /\ TypeOK
  BY DEF IInv
<1>2. /\ Len(OptSites(k)) = Len(OptIds(k))
      /\ Len(UnoptSites(k)) = Len(UnoptIds(k))
      /\ \A i \in 1..Len(OptSites(k)) : OptSites(k)[i].id = OptIds(k)[i]
      /\ \A i \in 1..Len(UnoptSites(k)) : UnoptSites(k)[i].id = UnoptIds(k)[i]
  BY NameFacts DEF IInv, SameIds, OptSites, OptIds, UnoptSites, UnoptIds
<1>3. Len(OptIds(k)) \in Nat /\ Len(UnoptIds(k)) \in Nat
  BY <1>1, EntryFacts
<1>4. \A i \in 1..Len(OptIds(k)) : OptIds(k)[i] \in 1..(2 * allocated)
  BY <1>1 DEF OptIdsInv
<1>5. Len(UnoptIds(k)) <= Len(OptIds(k))
  BY <1>1, <1>2 DEF UnoptSitesInv
<1>6. ASSUME NEW i \in 1..Len(UnoptIds(k))
      PROVE  UnoptIds(k)[i] = Negate(OptIds(k)[i]) /\ i \in 1..Len(OptIds(k))
  <2>1. i \in 1..Len(OptIds(k))
    BY <1>3, <1>5
  <2>2. UnoptSites(k)[i].id = Negate(OptSites(k)[i].id)
    BY <1>1, <1>2 DEF UnoptSitesInv
  <2> QED
    BY <2>1, <2>2, <1>2
<1>7. allocated \in 0..MaxSites /\ MaxSites \in Nat /\ IdSpace \in Nat /\ IdSpace > 4 * MaxSites + 4
  BY <1>1, IdAssumption DEF TypeOK
<1>8. ASSUME NEW i \in 1..Len(UnoptIds(k))
      PROVE  UnoptIds(k)[i] \in Nat /\ UnoptIds(k)[i] > 2 * allocated + 1
  BY <1>4, <1>6, <1>7 DEF Negate
<1> QED
  BY <1>4, <1>5, <1>6, <1>7, <1>8

\* The IDs of one function are distinct, and those of two functions too.
LEMMA OptIdsDistinct ==
  ASSUME IInv, NEW k \in 1..NumFuns, NEW l \in 1..NumFuns,
         NEW i \in 1..Len(OptIds(k)), NEW j \in 1..Len(OptIds(l)),
         OptIds(k)[i] = OptIds(l)[j]
  PROVE  k = l /\ i = j
<1>1. NumFuns \in Nat /\ Len(OptIds(k)) \in Nat /\ Len(OptIds(l)) \in Nat
  BY ModuleFacts, EntryFacts DEF IInv
<1>2. OptIds(k)[i] \in Nat /\ OptIds(k)[1] \in Nat
  BY <1>1, IdRanges
<1>3. ~(k < l) /\ ~(l < k)
  BY <1>1, <1>2 DEF IInv, GapInv
<1>4. k = l
  BY <1>1, <1>3
<1>5. i = j
  BY <1>1, <1>2, <1>4 DEF IInv, OptIdsInv
<1> QED
  BY <1>4, <1>5

\* IDs of originals are apart, those of clones are their complements.
LEMMA UniqueIdsFromInv ==
  ASSUME IInv
  PROVE  UniqueIds
<1> SUFFICES ASSUME NEW m \in Names, NEW n \in Names,
                    NEW i \in 1..Len(stackMaps[m]), NEW j \in 1..Len(stackMaps[n]),
                    stackMaps[m][i] = stackMaps[n][j]
             PROVE  m = n /\ i = j
  BY DEF UniqueIds
<1>0. TypeOK /\ allocated \in Nat
  BY DEF IInv, TypeOK
<1>1. PICK k \in 1..NumFuns : m = <<"opt", Fun(k)>> \/ m = <<"unopt", Fun(k)>>
  BY <1>0, NameFacts
<1>2. PICK l \in 1..NumFuns : n = <<"opt", Fun(l)>> \/ n = <<"unopt", Fun(l)>>
  BY <1>0, NameFacts
<1>3. CASE m = <<"opt", Fun(k)>> /\ n = <<"opt", Fun(l)>>
  BY <1>3, OptIdsDistinct DEF OptIds
<1>4. CASE m = <<"unopt", Fun(k)>> /\ n = <<"unopt", Fun(l)>>
  <2>1. /\ stackMaps[m] = UnoptIds(k) /\ stackMaps[n] = UnoptIds(l)
        /\ Len(UnoptIds(k)) \in Nat /\ Len(UnoptIds(l)) \in Nat
        /\ Len(OptIds(k)) \in Nat /\ Len(OptIds(l)) \in Nat
    <3>1. stackMaps[m] = UnoptIds(k) /\ stackMaps[n] = UnoptIds(l)
      BY <1>4 DEF UnoptIds
    <3>2. /\ UnoptIds(k) \in Seq(0..(IdSpace - 1)) /\ UnoptIds(l) \in Seq(0..(IdSpace - 1))
          /\ OptIds(k) \in Seq(0..(IdSpace - 1)) /\ OptIds(l) \in Seq(0..(IdSpace - 1))
      BY <1>0, EntryFacts
    <3> QED
      BY <3>1, <3>2
  <2>2. /\ i \in 1..Len(OptIds(k)) /\ j \in 1..Len(OptIds(l))
        /\ OptIds(k)[i] \in 1..(2 * allocated) /\ OptIds(l)[j] \in 1..(2 * allocated)
    BY <2>1, IdRanges
  <2>3. Negate(OptIds(k)[i]) = Negate(OptIds(l)[j])
    BY <2>1, IdRanges
  <2>4. OptIds(k)[i] = OptIds(l)[j]
    <3>1. OptIds(k)[i] \in Int /\ OptIds(l)[j] \in Int /\ IdSpace \in Int
      BY <1>0, <2>2, IdAssumption
    <3> QED
      BY <2>3, <3>1 DEF Negate
  <2> QED
    BY <2>2, <2>4, <1>4, OptIdsDistinct
<1>5. CASE m = <<"opt", Fun(k)>> /\ n = <<"unopt", Fun(l)>>
  <2>1. stackMaps[m] = OptIds(k) /\ stackMaps[n] = UnoptIds(l)
    BY <1>5 DEF OptIds, UnoptIds
  <2> QED
    BY <1>0, <2>1, IdRanges
<1>6. CASE m = <<"unopt", Fun(k)>> /\ n = <<"opt", Fun(l)>>
  <2>1. stackMaps[n] = OptIds(l) /\ stackMaps[m] = UnoptIds(k)
    BY <1>6 DEF OptIds, UnoptIds
  <2> QED
    BY <1>0, <2>1, IdRanges
<1> QED
  BY <1>1, <1>2, <1>3, <1>4, <1>5, <1>6

\* IDs of a function are consecutive, and the one below the first is free.
LEMMA CountingDownFromInv ==
  ASSUME IInv
  PROVE  CountingDownStaysInFunction
<1> SUFFICES ASSUME NEW f \in Functions, NEW i \in 1..Len(stackMaps[<<"opt", f>>])
             PROVE  /\ i > 1 => stackMaps[<<"opt", f>>][i - 1] = stackMaps[<<"opt", f>>][i] - 1
                    /\ i = 1 => \A n \in Names : \A j \in 1..Len(stackMaps[n]) :
                                  stackMaps[n][j] # stackMaps[<<"opt", f>>][1] - 1
  BY DEF CountingDownStaysInFunction
<1>0. TypeOK /\ allocated \in Nat
  BY DEF IInv, TypeOK
<1>1. PICK k \in 1..NumFuns : Fun(k) = f
  BY <1>0, ModuleFacts
<1>2. stackMaps[<<"opt", f>>] = OptIds(k) /\ Len(OptIds(k)) \in Nat /\ NumFuns \in Nat
  BY <1>0, <1>1, EntryFacts, ModuleFacts DEF OptIds
<1>3. OptIdsInv(k) /\ OptIds(k)[1] \in 1..(2 * allocated)
  BY <1>0, <1>2, IdRanges DEF IInv
<1>4. ASSUME i > 1
      PROVE  OptIds(k)[i - 1] = OptIds(k)[i] - 1
  <2>1. /\ i \in 1..Len(OptIds(k)) /\ i - 1 \in 1..Len(OptIds(k))
    BY <1>2, <1>4
  <2>2. OptIds(k)[i - 1] = OptIds(k)[1] + (i - 1) - 1 /\ OptIds(k)[i] = OptIds(k)[1] + i - 1
    BY <1>3, <2>1 DEF OptIdsInv
  <2> QED
    BY <1>0, <1>2, <1>3, <2>1, <2>2
<1>5. ASSUME NEW n \in Names, NEW j \in 1..Len(stackMaps[n])
      PROVE  stackMaps[n][j] # OptIds(k)[1] - 1
  <2>1. PICK l \in 1..NumFuns : n = <<"opt", Fun(l)>> \/ n = <<"unopt", Fun(l)>>
    BY <1>0, NameFacts
  <2>2. CASE n = <<"unopt", Fun(l)>>
    <3>1. stackMaps[n] = UnoptIds(l)
      BY <2>2 DEF UnoptIds
    <3>2. stackMaps[n][j] \in Nat /\ stackMaps[n][j] > 2 * allocated + 1
      BY <3>1, IdRanges
    <3> QED
      BY <1>0, <1>3, <3>2
  <2>3. CASE n = <<"opt", Fun(l)>>
    <3>0. stackMaps[n] = OptIds(l) /\ Len(OptIds(l)) \in Nat
      BY <1>0, <2>3, EntryFacts DEF OptIds
    <3>1. /\ j \in 1..Len(OptIds(l)) /\ 1 \in 1..Len(OptIds(l)) /\ 1 \in 1..Len(OptIds(k))
          /\ OptIds(l)[j] \in 1..(2 * allocated) /\ OptIds(l)[1] \in 1..(2 * allocated)
      BY <1>0, <1>2, <3>0, IdRanges
    <3>2. CASE l < k
      <4>1. OptIds(l)[j] + 2 <= OptIds(k)[1]
        BY <3>1, <3>2 DEF IInv, GapInv
      <4> QED
        BY <4>1, <3>0, <3>1, <1>0, <1>3
    <3>3. CASE k < l
      <4>1. OptIds(k)[1] + 2 <= OptIds(l)[j]
        BY <3>1, <3>3 DEF IInv, GapInv
      <4> QED
        BY <4>1, <3>0, <3>1, <1>0, <1>3
    <3>4. CASE k = l
      <4>1. OptIds(k)[j] = OptIds(k)[1] + j - 1
        BY <3>1, <3>4, <1>3 DEF OptIdsInv
      <4> QED
        BY <4>1, <3>0, <3>1, <3>4, <1>0, <1>3
    <3> QED
      BY <3>2, <3>3, <3>4, <1>2
  <2> QED
    BY <2>1, <2>2, <2>3
<1> QED
  BY <1>2, <1>4, <1>5

-----------------------------------------------------------------------------
\* While the functions are visited, the current one is an original or a clone.
LEMMA CurrentFunction ==
  ASSUME TypeOK, ListInv, phase = "run", cur <= Len(funs)
  PROVE  \E k \in 1..NumFuns :
           \/ cur = k /\ FunName = <<"opt", Fun(k)>>
           \/ cur = k + NumFuns /\ FunName = <<"unopt", Fun(k)>>
<1>1. NumFuns \in Nat /\ cur \in 1..(2 * NumFuns)
  BY ModuleFacts DEF TypeOK, ListInv
<1>2. CASE cur <= NumFuns
  BY <1>1, <1>2 DEF ListInv, FunName
<1>3. CASE cur > NumFuns
  <2>1. cur - NumFuns \in 1..NumFuns /\ cur = (cur - NumFuns) + NumFuns
    BY <1>1, <1>3
  <2> QED
    BY <2>1 DEF ListInv, FunName
<1> QED
  BY <1>1, <1>2, <1>3

\* A site of a clone is the next one that its original has and it has not.
LEMMA NextTwinSite ==
  ASSUME TypeOK, NEW k \in 1..NumFuns, OptSitesInv(k), UnoptSitesInv(k),
         cur = k + NumFuns, pos <= Len(mod.body[Fun(k)]),
         IsSite(Fun(k), mod.body[Fun(k)][pos])
  PROVE  /\ Len(UnoptSites(k)) < Len(OptSites(k))
         /\ OptSites(k)[Len(UnoptSites(k)) + 1].at = pos
<1> DEFINE o == OptSites(k)
           u == UnoptSites(k)
           body == mod.body[Fun(k)]
<1>1. /\ NumFuns \in Nat /\ Len(o) \in Nat /\ Len(u) \in Nat /\ Len(body) \in Nat
      /\ pos \in 1..Len(body)
  <2>1. body \in Seq(Instructions) /\ NumFuns \in Nat
    BY ModuleFacts
  <2>2. o \in Seq(SiteRecords) /\ u \in Seq(SiteRecords)
    BY EntryFacts
  <2>3. pos \in Nat \ {0}
    BY DEF TypeOK
  <2> QED
    BY <2>1, <2>2, <2>3
<1>2. VisitedOpt(k) = Len(body) + 1 /\ VisitedUnopt(k) = pos
  BY <1>1 DEF VisitedOpt, VisitedUnopt, Visited
<1>3. PICK i \in 1..Len(o) : o[i].at = pos
  BY <1>1, <1>2 DEF OptSitesInv
<1>4. \A j \in 1..Len(u) : o[j].at < pos
  BY <1>2 DEF UnoptSitesInv
<1>5. Len(u) < i
  BY <1>1, <1>3, <1>4
<1>6. Len(u) + 1 \in 1..Len(o) /\ o[Len(u) + 1].at >= pos /\ o[Len(u) + 1].at \in 1..Len(body)
  BY <1>1, <1>2, <1>5 DEF UnoptSitesInv, OptSitesInv
<1>7. Len(u) + 1 < i => o[Len(u) + 1].at < pos
  BY <1>3, <1>6 DEF OptSitesInv
<1>8. i = Len(u) + 1
  BY <1>1, <1>5, <1>6, <1>7
<1> QED
  BY <1>1, <1>3, <1>8

\* At a site of a clone, its original has one more ID than the clone.
LEMMA TwinIdExistsFromInv ==
  ASSUME IInv
  PROVE  TwinIdExists
<1> SUFFICES ASSUME Visiting, FunName[1] = "unopt", IsSite(FunName[2], Body[pos])
             PROVE  Len(stackMaps[FunName]) < Len(stackMaps[getTwinName(FunName)])
  BY DEF TwinIdExists
<1>1. TypeOK /\ ListInv /\ SameIds
  BY DEF IInv
<1>2. PICK k \in 1..NumFuns : \/ cur = k /\ FunName = <<"opt", Fun(k)>>
                              \/ cur = k + NumFuns /\ FunName = <<"unopt", Fun(k)>>
  BY <1>1, CurrentFunction DEF Visiting
<1>3. cur = k + NumFuns /\ FunName = <<"unopt", Fun(k)>>
  BY <1>2
<1>4. Body = mod.body[Fun(k)] /\ IsSite(Fun(k), mod.body[Fun(k)][pos]) /\ pos <= Len(mod.body[Fun(k)])
  BY <1>3 DEF Body, Visiting
<1>5. Len(UnoptSites(k)) < Len(OptSites(k))
  BY <1>1, <1>3, <1>4, NextTwinSite DEF IInv
<1>6. getTwinName(FunName) = <<"opt", Fun(k)>>
  BY <1>3 DEF getTwinName, TwinVersion
<1> QED
  BY <1>1, <1>3, <1>5, <1>6, NameFacts DEF SameIds, OptSites, UnoptSites

\* The sites of a visited function and of its visited clone correspond.
LEMMA SitesPairedFromInv ==
  ASSUME IInv
  PROVE  SitesPaired
<1> SUFFICES ASSUME phase = "done", NEW f \in Functions
             PROVE  /\ Len(sites[<<"opt", f>>]) = Len(sites[<<"unopt", f>>])
                    /\ \A i \in 1..Len(sites[<<"opt", f>>]) :
                         PairedSite(sites[<<"opt", f>>][i], sites[<<"unopt", f>>][i])
  BY DEF SitesPaired
<1>1. TypeOK /\ ListInv
  BY DEF IInv
<1>2. PICK k \in 1..NumFuns : Fun(k) = f
  BY <1>1, ModuleFacts
<1> DEFINE o == OptSites(k)
           u == UnoptSites(k)
           body == mod.body[f]
<1>3. /\ NumFuns \in Nat /\ Len(o) \in Nat /\ Len(u) \in Nat /\ Len(body) \in Nat
      /\ o = sites[<<"opt", f>>] /\ u = sites[<<"unopt", f>>]
  <2>1. body \in Seq(Instructions) /\ NumFuns \in Nat
    BY <1>1, ModuleFacts
  <2>2. o \in Seq(SiteRecords) /\ u \in Seq(SiteRecords)
    BY <1>1, EntryFacts
  <2> QED
    BY <2>1, <2>2, <1>2 DEF OptSites, UnoptSites
<1>4. cur = 2 * NumFuns + 1
  BY <1>1 DEF ListInv
<1>5. VisitedUnopt(k) = Len(body) + 1
  BY <1>2, <1>3, <1>4 DEF VisitedUnopt, Visited
<1>6. OptSitesInv(k) /\ UnoptSitesInv(k)
  BY DEF IInv
<1>7. Len(o) = Len(u)
  <2>1. ASSUME Len(u) < Len(o) PROVE FALSE
    <3>1. Len(u) + 1 \in 1..Len(o)
      BY <1>3, <2>1
    <3>2. o[Len(u) + 1].at \in 1..Len(body)
      BY <1>2, <1>6, <3>1 DEF OptSitesInv
    <3>3. o[Len(u) + 1].at >= Len(body) + 1
      BY <1>5, <1>6, <2>1 DEF UnoptSitesInv
    <3> QED
      BY <1>3, <3>2, <3>3
  <2> QED
    BY <2>1, <1>3, <1>6 DEF UnoptSitesInv
<1>8. ASSUME NEW i \in 1..Len(o)
      PROVE  PairedSite(o[i], u[i])
  <2>1. /\ u[i].at = o[i].at
        /\ u[i].id = Negate(o[i].id)
        /\ u[i].target = TargetOf("unopt", f, body[o[i].at])
    BY <1>2, <1>6, <1>7 DEF UnoptSitesInv
  <2>2. o[i].target = TargetOf("opt", f, body[o[i].at])
    BY <1>2, <1>6 DEF OptSitesInv
  <2>3. CASE IsGuardSite(f, body[o[i].at])
    BY <2>1, <2>2, <2>3 DEF PairedSite, TargetOf
  <2>4. CASE ~IsGuardSite(f, body[o[i].at])
    <3>1. o[i].target = <<"opt", body[o[i].at].callee>> /\ u[i].target = <<"unopt", body[o[i].at].callee>>
      BY <2>1, <2>2, <2>4 DEF TargetOf
    <3>2. o[i].target # GuardHandler
      BY <3>1 DEF GuardHandler
    <3>3. getTwinName(o[i].target) = u[i].target
      BY <3>1 DEF getTwinName, TwinVersion
    <3> QED
      BY <2>1, <3>2, <3>3 DEF PairedSite
  <2> QED
    BY <2>3, <2>4
<1> QED
  BY <1>3, <1>7, <1>8

-----------------------------------------------------------------------------
\* Functions that have not been reached have no IDs.
LEMMA UnreachedEmpty ==
  ASSUME IInv, NEW k \in 1..NumFuns
  PROVE  /\ k > cur => OptIds(k) = <<>>
         /\ k + NumFuns > cur => UnoptIds(k) = <<>>
<1>1. TypeOK /\ SameIds /\ OptSitesInv(k) /\ UnoptSitesInv(k)
  BY DEF IInv
<1>2. /\ NumFuns \in Nat /\ cur \in Nat
      /\ Len(mod.body[Fun(k)]) \in Nat
      /\ OptIds(k) \in Seq(0..(IdSpace - 1)) /\ UnoptIds(k) \in Seq(0..(IdSpace - 1))
      /\ Len(OptIds(k)) \in Nat /\ Len(UnoptIds(k)) \in Nat
  <2>1. mod.body[Fun(k)] \in Seq(Instructions) /\ NumFuns \in Nat
    BY <1>1, ModuleFacts
  <2>2. OptIds(k) \in Seq(0..(IdSpace - 1)) /\ UnoptIds(k) \in Seq(0..(IdSpace - 1))
    BY <1>1, EntryFacts
  <2>3. cur \in Nat
    BY <1>1 DEF TypeOK
  <2> QED
    BY <2>1, <2>2, <2>3
<1>3. Len(OptSites(k)) = Len(OptIds(k)) /\ Len(UnoptSites(k)) = Len(UnoptIds(k))
  BY <1>1, NameFacts DEF SameIds, OptSites, OptIds, UnoptSites, UnoptIds
<1>4. ASSUME k > cur
      PROVE  OptIds(k) = <<>>
  <2>1. VisitedOpt(k) = 1
    BY <1>2, <1>4 DEF VisitedOpt, Visited
  <2>2. \A i \in 1..Len(OptSites(k)) : OptSites(k)[i].at \in 1..Len(mod.body[Fun(k)])
                                       /\ OptSites(k)[i].at < 1
    BY <1>1, <2>1 DEF OptSitesInv
  <2>3. \A i \in 1..Len(OptSites(k)) : FALSE
    BY <1>2, <2>2
  <2>4. Len(OptIds(k)) = 0
    BY <1>2, <1>3, <2>3
  <2> QED
    BY <1>2, <2>4
<1>5. ASSUME k + NumFuns > cur
      PROVE  UnoptIds(k) = <<>>
  <2>1. VisitedUnopt(k) = 1
    BY <1>2, <1>5 DEF VisitedUnopt, Visited
  <2>2. \A i \in 1..Len(UnoptSites(k)) :
          i \in 1..Len(OptSites(k)) /\ OptSites(k)[i].at < 1
    BY <1>1, <1>2, <1>3, <2>1 DEF UnoptSitesInv
  <2>3. \A i \in 1..Len(UnoptSites(k)) : FALSE
    <3>1. \A i \in 1..Len(OptSites(k)) : OptSites(k)[i].at \in 1..Len(mod.body[Fun(k)])
      BY <1>1 DEF OptSitesInv
    <3> QED
      BY <1>2, <2>2, <3>1
  <2>4. Len(UnoptIds(k)) = 0
    BY <1>2, <1>3, <2>3
  <2> QED
    BY <1>2, <2>4
<1> QED
  BY <1>4, <1>5

\* While the originals are visited, every last ID is one of theirs.
LEMMA LastIdsFacts ==
  ASSUME IInv, cur <= NumFuns
  PROVE  /\ \A l \in 1..NumFuns : OptIds(l) # <<>> => OptIds(l)[Len(OptIds(l))] \in LastIds
         /\ \A x \in LastIds : \E l \in 1..NumFuns :
              l <= cur /\ OptIds(l) # <<>> /\ x = OptIds(l)[Len(OptIds(l))]
<1>1. TypeOK /\ NumFuns \in Nat /\ cur \in Nat
  BY ModuleFacts DEF IInv, TypeOK
<1>2. ASSUME NEW l \in 1..NumFuns, OptIds(l) # <<>>
      PROVE  OptIds(l)[Len(OptIds(l))] \in LastIds
  BY <1>1, <1>2, NameFacts DEF LastIds, HasEntry, LastIdOf, OptIds
<1>3. ASSUME NEW x \in LastIds
      PROVE  \E l \in 1..NumFuns :
               l <= cur /\ OptIds(l) # <<>> /\ x = OptIds(l)[Len(OptIds(l))]
  <2>1. PICK n \in Names : stackMaps[n] # <<>> /\ x = stackMaps[n][Len(stackMaps[n])]
    BY <1>3 DEF LastIds, HasEntry, LastIdOf
  <2>2. PICK l \in 1..NumFuns : n = <<"opt", Fun(l)>> \/ n = <<"unopt", Fun(l)>>
    BY <1>1, NameFacts
  <2>3. l + NumFuns > cur
    BY <1>1
  <2>4. n # <<"unopt", Fun(l)>>
    BY <2>1, <2>3, UnreachedEmpty DEF UnoptIds
  <2>5. stackMaps[n] = OptIds(l)
    BY <2>2, <2>4 DEF OptIds
  <2>6. l <= cur
    BY <1>1, <2>1, <2>5, UnreachedEmpty
  <2> QED
    BY <2>1, <2>5, <2>6
<1> QED
  BY <1>2, <1>3

\* Every ID of an original is at most the greatest last ID.
LEMMA BelowLastId ==
  ASSUME IInv, NEW l \in 1..NumFuns, NEW i \in 1..Len(OptIds(l))
  PROVE  /\ OptIds(l) # <<>>
         /\ OptIds(l)[Len(OptIds(l))] \in Nat
         /\ OptIds(l)[i] <= OptIds(l)[Len(OptIds(l))]
<1>1. OptIds(l) \in Seq(0..(IdSpace - 1)) /\ OptIdsInv(l)
  BY EntryFacts DEF IInv
<1>2. Len(OptIds(l)) \in 1..Len(OptIds(l)) /\ 1 \in 1..Len(OptIds(l)) /\ Len(OptIds(l)) \in Nat
  BY <1>1
<1>3. /\ OptIds(l)[Len(OptIds(l))] = OptIds(l)[1] + Len(OptIds(l)) - 1
      /\ OptIds(l)[i] = OptIds(l)[1] + i - 1
  BY <1>1, <1>2 DEF OptIdsInv
<1>4. OptIds(l)[1] \in Nat /\ OptIds(l)[Len(OptIds(l))] \in Nat
  BY <1>2, IdRanges
<1>5. OptIds(l) # <<>>
  BY <1>2
<1> QED
  BY <1>2, <1>3, <1>4, <1>5

-----------------------------------------------------------------------------
\* The next ID of an original: it goes on after the function's own IDs, or
\* leaves a gap after those of the functions before it, and does not wrap.
LEMMA NextOptId ==
  ASSUME IInv, NEW k \in 1..NumFuns, cur = k, FunName = <<"opt", Fun(k)>>,
         allocated < MaxSites
  PROVE  /\ getNextPatchpointID(FunName) \in 1..(2 * allocated + 2)
         /\ OptIds(k) # <<>> => getNextPatchpointID(FunName) = OptIds(k)[1] + Len(OptIds(k))
         /\ \A l \in 1..NumFuns : \A i \in 1..Len(OptIds(l)) :
              l < k => OptIds(l)[i] + 2 <= getNextPatchpointID(FunName)
         /\ \A x \in LastIds : x <= getNextPatchpointID(FunName)
<1> DEFINE id == getNextPatchpointID(FunName)
<1>1. /\ TypeOK /\ NumFuns \in Nat /\ allocated \in Nat /\ cur <= NumFuns
      /\ IdSpace \in Nat /\ 2 * allocated + 4 < IdSpace
  BY ModuleFacts, IdAssumption DEF IInv, TypeOK
<1>2. /\ HasEntry(FunName) <=> OptIds(k) # <<>>
      /\ ~HasEntry(getTwinName(FunName))
  <2>1. getTwinName(FunName) = <<"unopt", Fun(k)>>
    BY DEF getTwinName, TwinVersion
  <2>2. UnoptIds(k) = <<>>
    BY <1>1, UnreachedEmpty
  <2> QED
    BY <2>1, <2>2 DEF HasEntry, OptIds, UnoptIds
<1>3. CASE \A n \in Names : ~HasEntry(n)
  <2>1. LastIds = {} /\ \A l \in 1..NumFuns : OptIds(l) = <<>>
    BY <1>1, <1>3, NameFacts DEF LastIds, HasEntry, OptIds
  <2>2. id = 1 % IdSpace
    BY <1>2, <1>3, <2>1 DEF getNextPatchpointID, IsNewFunction, BaseId
  <2>3. id = 1
    BY <1>1, <2>2, SmallModulo
  <2>4. \A l \in 1..NumFuns : Len(OptIds(l)) = 0
    BY <2>1
  <2> QED
    BY <1>1, <2>1, <2>3, <2>4
<1>4. CASE ~(\A n \in Names : ~HasEntry(n))
  <2>1. LastIds # {}
    BY <1>4 DEF LastIds
  <2>2. PICK m \in LastIds : \A x \in LastIds : x <= m
    BY <1>1, <2>1 DEF IInv, MaxInv
  <2>3. MaxLastId \in LastIds /\ \A x \in LastIds : x <= MaxLastId
    BY <2>2 DEF MaxLastId
  <2>4. PICK l \in 1..NumFuns :
          l <= cur /\ OptIds(l) # <<>> /\ MaxLastId = OptIds(l)[Len(OptIds(l))]
    BY <1>1, <2>3, LastIdsFacts
  <2>5. /\ OptIds(l) \in Seq(0..(IdSpace - 1)) /\ Len(OptIds(l)) \in 1..Len(OptIds(l))
        /\ Len(OptIds(l)) \in Nat
    BY <1>1, <2>4, EntryFacts
  <2>6. MaxLastId \in Nat /\ MaxLastId \in 1..(2 * allocated)
    BY <1>1, <2>4, <2>5, IdRanges
  <2>7. BaseId(FunName) = MaxLastId + 1
    <3>1. BaseId(FunName) = (MaxLastId + 1) % IdSpace
      BY <1>2, <1>4 DEF BaseId
    <3>2. MaxLastId + 1 \in Nat /\ MaxLastId + 1 < IdSpace
      BY <1>1, <2>6
    <3> QED
      BY <1>1, <3>1, <3>2, SmallModulo
  <2>8. ASSUME NEW j \in 1..NumFuns, NEW i \in 1..Len(OptIds(j))
        PROVE  OptIds(j)[i] \in Nat /\ OptIds(j)[i] <= MaxLastId
    <3>1. /\ OptIds(j) # <<>> /\ OptIds(j)[Len(OptIds(j))] \in Nat
          /\ OptIds(j)[i] <= OptIds(j)[Len(OptIds(j))]
      BY BelowLastId
    <3>2. OptIds(j)[Len(OptIds(j))] <= MaxLastId
      BY <1>1, <2>3, <3>1, LastIdsFacts
    <3>3. OptIds(j)[i] \in Nat
      BY IdRanges
    <3> QED
      BY <2>6, <3>1, <3>2, <3>3
  <2>9. \A x \in LastIds : x \in Nat
    <3>1. ASSUME NEW x \in LastIds
          PROVE  x \in Nat
      <4>1. PICK j \in 1..NumFuns : OptIds(j) # <<>> /\ x = OptIds(j)[Len(OptIds(j))]
        BY <1>1, LastIdsFacts
      <4>2. Len(OptIds(j)) \in 1..Len(OptIds(j))
        BY <1>1, <4>1, EntryFacts
      <4> QED
        BY <4>1, <4>2, BelowLastId
    <3> QED
      BY <3>1
  <2>10. CASE OptIds(k) = <<>>
    <3>1. id = (MaxLastId + 2) % IdSpace
      <4>1. id = (BaseId(FunName) + 1) % IdSpace
        BY <1>2, <2>10 DEF getNextPatchpointID, IsNewFunction
      <4> QED
        BY <4>1, <2>6, <2>7
    <3>2. id = MaxLastId + 2
      <4>1. MaxLastId + 2 \in Nat /\ MaxLastId + 2 < IdSpace
        BY <1>1, <2>6
      <4> QED
        BY <1>1, <3>1, <4>1, SmallModulo
    <3>3. \A j \in 1..NumFuns : \A i \in 1..Len(OptIds(j)) : OptIds(j)[i] + 2 <= id
      BY <2>6, <2>8, <3>2
    <3>4. \A x \in LastIds : x <= id
      BY <2>3, <2>6, <2>9, <3>2
    <3> HIDE DEF id
    <3>5. id \in 1..(2 * allocated + 2)
      BY <1>1, <2>6, <3>2
    <3> USE DEF id
    <3> QED
      BY <2>10, <3>3, <3>4, <3>5
  <2>11. CASE OptIds(k) # <<>>
    <3>1. id = MaxLastId + 1
      BY <1>2, <2>7, <2>11 DEF getNextPatchpointID, IsNewFunction
    <3>2. /\ Len(OptIds(k)) \in Nat /\ Len(OptIds(k)) \in 1..Len(OptIds(k))
          /\ 1 \in 1..Len(OptIds(k))
      BY <1>1, <2>11, EntryFacts
    <3>3. /\ OptIds(k)[Len(OptIds(k))] \in Nat /\ OptIds(k)[1] \in Nat
          /\ OptIds(k)[Len(OptIds(k))] = OptIds(k)[1] + Len(OptIds(k)) - 1
      BY <3>2, IdRanges DEF IInv, OptIdsInv
    <3>4. ASSUME NEW j \in 1..NumFuns, NEW i \in 1..Len(OptIds(j)), j < k
          PROVE  OptIds(j)[i] + 2 <= OptIds(k)[Len(OptIds(k))]
      BY <3>2, <3>4 DEF IInv, GapInv
    <3>5. l = k
      <4>1. OptIds(k)[Len(OptIds(k))] <= MaxLastId
        BY <2>8, <3>2
      <4>2. l < k => MaxLastId + 2 <= OptIds(k)[Len(OptIds(k))]
        BY <2>4, <2>5, <3>4
      <4> QED
        BY <1>1, <2>4, <2>6, <3>3, <4>1, <4>2
    <3>6. id = OptIds(k)[1] + Len(OptIds(k))
      <4> HIDE DEF id
      <4> QED
        BY <2>4, <3>1, <3>2, <3>3, <3>5
    <3>7. \A j \in 1..NumFuns : \A i \in 1..Len(OptIds(j)) : j < k => OptIds(j)[i] + 2 <= id
      <4> HIDE DEF id
      <4> QED
        BY <2>4, <2>6, <2>8, <3>1, <3>4, <3>5
    <3>8. \A x \in LastIds : x <= id
      <4> HIDE DEF id
      <4> QED
        BY <2>3, <2>6, <2>9, <3>1
    <3>9. id \in 1..(2 * allocated + 2)
      <4> HIDE DEF id
      <4> QED
        BY <1>1, <2>6, <3>1
    <3> QED
      BY <3>6, <3>7, <3>8, <3>9
  <2> QED
    BY <2>10, <2>11
<1> QED
  BY <1>3, <1>4

-----------------------------------------------------------------------------
\* Before the passes run there are no sites, and the list holds the originals.
LEMMA InitInv ==
  ASSUME Init
  PROVE  IInv
<1>1. mod \in Modules /\ SourceModule(mod) /\ mod.order \in Seq(Functions)
  BY ModuleAssumption DEF Init, SourceModule
<1>2. TypeOK
  <2>1. funs \in Seq(Names) /\ Len(funs) \in Nat
    BY <1>1 DEF Init, Names
  <2>2. stackMaps \in [Names -> Seq(0..(IdSpace - 1))] /\ sites \in [Names -> Seq(SiteRecords)]
    BY DEF Init
  <2>3. allocated \in 0..MaxSites
    BY IdAssumption DEF Init
  <2> QED
    BY <1>1, <2>1, <2>2, <2>3 DEF Init, TypeOK
<1>3. \A k \in 1..NumFuns : /\ OptIds(k) = <<>> /\ OptSites(k) = <<>>
                            /\ UnoptIds(k) = <<>> /\ UnoptSites(k) = <<>>
  BY <1>2, NameFacts DEF Init, OptIds, OptSites, UnoptIds, UnoptSites
<1>4. ListInv
  BY <1>1 DEF Init, ListInv, NumFuns, Fun
<1>5. SameIds
  BY DEF Init, SameIds
<1>6. ASSUME NEW k \in 1..NumFuns
      PROVE  OptSitesInv(k) /\ UnoptSitesInv(k) /\ OptIdsInv(k)
  <2>1. VisitedOpt(k) = 1
    BY <1>2, ModuleFacts DEF Init, VisitedOpt, Visited
  <2>2. OptSitesInv(k)
    BY <1>3, <2>1 DEF OptSitesInv
  <2>3. UnoptSitesInv(k) /\ OptIdsInv(k)
    BY <1>3 DEF UnoptSitesInv, OptIdsInv
  <2> QED
    BY <2>2, <2>3
<1>7. \A k, l \in 1..NumFuns : GapInv(k, l)
  BY <1>3 DEF GapInv
<1>8. MaxInv
  BY DEF Init, MaxInv, LastIds, HasEntry
<1> QED
  BY <1>2, <1>4, <1>5, <1>6, <1>7, <1>8 DEF IInv

\* What is known of a function stays known while its entries stay the same.
LEMMA SameFunction ==
  ASSUME NEW k, mod' = mod, OptSites(k)' = OptSites(k), VisitedOpt(k)' = VisitedOpt(k),
         UnoptSites(k)' = UnoptSites(k), VisitedUnopt(k)' = VisitedUnopt(k)
  PROVE  /\ OptSitesInv(k) => OptSitesInv(k)'
         /\ UnoptSitesInv(k) => UnoptSitesInv(k)'
<1>1. Fun(k)' = Fun(k)
  BY DEF Fun
<1>2. OptSitesInv(k) => OptSitesInv(k)'
  BY <1>1 DEF OptSitesInv
<1>3. UnoptSitesInv(k) => UnoptSitesInv(k)'
  BY <1>1 DEF UnoptSitesInv
<1> QED
  BY <1>2, <1>3

\* A step that changes no IDs and no sites, and visits no site, keeps them.
LEMMA SameEntries ==
  ASSUME IInv, UNCHANGED <<mod, stackMaps, sites, allocated>>
  PROVE  /\ SameIds'
         /\ \A k \in 1..NumFuns : OptIdsInv(k)'
         /\ \A k, l \in 1..NumFuns : GapInv(k, l)'
         /\ LastIds' = LastIds
         /\ NumFuns' = NumFuns
         /\ \A k : /\ OptSites(k)' = OptSites(k) /\ UnoptSites(k)' = UnoptSites(k)
                   /\ Fun(k)' = Fun(k) /\ OptIds(k)' = OptIds(k)
<1>1. \A k : /\ OptSites(k)' = OptSites(k) /\ UnoptSites(k)' = UnoptSites(k)
             /\ Fun(k)' = Fun(k) /\ OptIds(k)' = OptIds(k)
  BY DEF OptSites, UnoptSites, OptIds, Fun
<1>2. SameIds'
  BY DEF IInv, SameIds
<1>3. \A k \in 1..NumFuns : OptIdsInv(k)'
  BY <1>1 DEF IInv, OptIdsInv
<1>4. \A k, l \in 1..NumFuns : GapInv(k, l)'
  BY <1>1 DEF IInv, GapInv
<1>5. LastIds' = LastIds /\ NumFuns' = NumFuns
  BY DEF LastIds, HasEntry, LastIdOf, NumFuns
<1> QED
  BY <1>1, <1>2, <1>3, <1>4, <1>5

\* Cloning appends one clone for each function and records nothing.
LEMMA InitializationStep ==
  ASSUME IInv, doInitialization
  PROVE  IInv'
<1> USE DEF doInitialization
<1>1. /\ TypeOK /\ ListInv /\ NumFuns \in Nat
      /\ funs \in Seq(Names) /\ Len(funs) = NumFuns /\ cur = 1 /\ pos = 1
  BY ModuleFacts DEF IInv, ListInv, TypeOK
<1>2. /\ funs' \in Seq(Names) /\ Len(funs') = 2 * NumFuns
      /\ \A k \in 1..NumFuns : funs'[k] = <<"opt", Fun(k)>> /\ funs'[k + NumFuns] = <<"unopt", Fun(k)>>
  <2>1. Clones \in Seq(Names) /\ Len(Clones) = NumFuns
    BY <1>1 DEF Clones, getTwinName, TwinVersion, Names
  <2>2. \A k \in 1..NumFuns : Clones[k] = <<"unopt", Fun(k)>>
    BY <1>1 DEF ListInv, Clones, getTwinName, TwinVersion
  <2>3. funs' = funs \o Clones
    BY DEF FunctionsAfterCloning
  <2>4. \A k \in 1..NumFuns : (funs \o Clones)[k] = funs[k]
                               /\ (funs \o Clones)[k + NumFuns] = Clones[k]
    BY <1>1, <2>1
  <2>5. \A k \in 1..NumFuns : funs[k] = <<"opt", Fun(k)>>
    BY <1>1 DEF ListInv
  <2>6. funs \o Clones \in Seq(Names) /\ Len(funs \o Clones) = NumFuns + NumFuns
    BY <1>1, <2>1
  <2> QED
    BY <1>1, <2>2, <2>3, <2>4, <2>5, <2>6
<1>3. TypeOK'
  BY <1>1, <1>2 DEF TypeOK
<1>4. ListInv'
  BY <1>2 DEF ListInv, NumFuns, Fun
<1>5. MaxInv'
  BY SameEntries DEF IInv, MaxInv
<1>6. ASSUME NEW k \in 1..NumFuns
      PROVE  OptSitesInv(k)' /\ UnoptSitesInv(k)'
  <2>1. VisitedOpt(k)' = VisitedOpt(k) /\ VisitedUnopt(k)' = VisitedUnopt(k)
    BY SameEntries DEF VisitedOpt, VisitedUnopt, Visited
  <2> QED
    BY <2>1, SameEntries, SameFunction DEF IInv
<1> QED
  BY <1>3, <1>4, <1>5, <1>6, SameEntries DEF IInv

\* The end of the compilation, and stuttering, record nothing.
LEMMA FinishStep ==
  ASSUME IInv, Finish \/ UNCHANGED vars
  PROVE  IInv'
<1>1. UNCHANGED <<mod, funs, cur, pos, stackMaps, sites, allocated>>
  BY DEF Finish, vars
<1>2. TypeOK'
  BY <1>1 DEF IInv, TypeOK, Finish, vars
<1>3. ListInv'
  BY <1>1 DEF IInv, ListInv, NumFuns, Fun, Finish, vars
<1>4. MaxInv'
  BY <1>1, SameEntries DEF IInv, MaxInv
<1>5. ASSUME NEW k \in 1..NumFuns
      PROVE  OptSitesInv(k)' /\ UnoptSitesInv(k)'
  <2>1. VisitedOpt(k)' = VisitedOpt(k) /\ VisitedUnopt(k)' = VisitedUnopt(k)
    BY <1>1, SameEntries DEF VisitedOpt, VisitedUnopt, Visited
  <2> QED
    BY <1>1, <2>1, SameEntries, SameFunction DEF IInv
<1> QED
  BY <1>1, <1>2, <1>3, <1>4, <1>5, SameEntries DEF IInv

\* A step within the current function visits no other one.
LEMMA OtherFunctions ==
  ASSUME TypeOK, cur' = cur, mod' = mod, NEW j \in 1..NumFuns
  PROVE  /\ cur # j => VisitedOpt(j)' = VisitedOpt(j)
         /\ cur # j + NumFuns => VisitedUnopt(j)' = VisitedUnopt(j)
         /\ cur = j => VisitedOpt(j) = pos /\ VisitedOpt(j)' = pos'
         /\ cur = j + NumFuns => VisitedUnopt(j) = pos /\ VisitedUnopt(j)' = pos'
<1>1. NumFuns \in Nat /\ cur \in Nat /\ NumFuns' = NumFuns /\ Fun(j)' = Fun(j)
  BY ModuleFacts DEF TypeOK, NumFuns, Fun
<1> QED
  BY <1>1 DEF VisitedOpt, VisitedUnopt, Visited

\* An instruction that is not a site extends the visited part only.
LEMMA VisitOtherStep ==
  ASSUME IInv, VisitOther
  PROVE  IInv'
<1>1. /\ Visiting /\ ~IsSite(FunName[2], Body[pos]) /\ pos' = pos + 1
      /\ UNCHANGED <<mod, phase, funs, cur, stackMaps, sites, allocated>>
  BY DEF VisitOther
<1>2. TypeOK /\ ListInv /\ pos \in Nat \ {0} /\ phase = "run" /\ cur <= Len(funs)
  BY <1>1 DEF IInv, TypeOK, Visiting
<1>3. TypeOK'
  BY <1>1, <1>2 DEF TypeOK
<1>4. ListInv' /\ MaxInv'
  BY <1>1, <1>2, SameEntries DEF IInv, ListInv, MaxInv, NumFuns, Fun
<1>5. PICK k \in 1..NumFuns : \/ cur = k /\ FunName = <<"opt", Fun(k)>>
                              \/ cur = k + NumFuns /\ FunName = <<"unopt", Fun(k)>>
  BY <1>2, CurrentFunction
<1>6. /\ ~IsSite(Fun(k), mod.body[Fun(k)][pos])
      /\ NumFuns \in Nat /\ cur \in Nat
  <2>1. ~IsSite(Fun(k), mod.body[Fun(k)][pos])
    BY <1>1, <1>5 DEF Body
  <2>2. NumFuns \in Nat /\ cur \in Nat
    BY <1>2, ModuleFacts DEF TypeOK
  <2> QED
    BY <2>1, <2>2
<1>7. ASSUME NEW j \in 1..NumFuns
      PROVE  OptSitesInv(j)' /\ UnoptSitesInv(j)'
  <2>1. OptSitesInv(j) /\ UnoptSitesInv(j)
    BY DEF IInv
  <2>2. OptSites(j)' = OptSites(j) /\ UnoptSites(j)' = UnoptSites(j) /\ Fun(j)' = Fun(j)
    BY <1>1, SameEntries
  <2>3. CASE cur # j /\ cur # j + NumFuns
    BY <1>1, <1>2, <2>1, <2>2, <2>3, OtherFunctions, SameFunction
  <2>4. CASE cur = j
    <3>1. j = k /\ VisitedUnopt(j)' = VisitedUnopt(j) /\ VisitedOpt(j) = pos /\ VisitedOpt(j)' = pos + 1
      BY <1>1, <1>2, <1>5, <1>6, <2>4, OtherFunctions
    <3>2. OptSitesInv(j)'
      <4> DEFINE s == OptSites(j)
                 body == mod.body[Fun(j)]
      <4>1. \A i \in 1..Len(s) :
              /\ s[i].at \in 1..Len(body)
              /\ s[i].at < pos + 1
              /\ IsSite(Fun(j), body[s[i].at])
              /\ s[i].target = TargetOf("opt", Fun(j), body[s[i].at])
        BY <1>2, <2>1, <3>1 DEF OptSitesInv
      <4>2. \A i, n \in 1..Len(s) : i < n => s[i].at < s[n].at
        BY <2>1 DEF OptSitesInv
      <4>3. \A p \in 1..Len(body) :
              p < pos + 1 /\ IsSite(Fun(j), body[p]) => \E i \in 1..Len(s) : s[i].at = p
        BY <1>2, <1>6, <2>1, <3>1 DEF OptSitesInv
      <4> QED
        BY <1>1, <2>2, <3>1, <4>1, <4>2, <4>3 DEF OptSitesInv
    <3>3. UnoptSitesInv(j)'
      BY <1>1, <2>1, <2>2, <3>1 DEF UnoptSitesInv
    <3> QED
      BY <3>2, <3>3
  <2>5. CASE cur = j + NumFuns
    <3>1. /\ j = k /\ VisitedOpt(j)' = VisitedOpt(j)
          /\ VisitedUnopt(j) = pos /\ VisitedUnopt(j)' = pos + 1
      BY <1>1, <1>2, <1>5, <1>6, <2>5, OtherFunctions
    <3>2. OptSitesInv(j)'
      BY <1>1, <2>1, <2>2, <3>1 DEF OptSitesInv
    <3>3. UnoptSitesInv(j)'
      <4> DEFINE o == OptSites(j)
                 u == UnoptSites(j)
                 body == mod.body[Fun(j)]
      <4>1. Len(o) \in Nat /\ Len(u) \in Nat /\ Len(u) <= Len(o)
        BY <1>2, <2>1, EntryFacts DEF UnoptSitesInv
      <4>2. ASSUME NEW i \in 1..Len(u)
            PROVE  /\ u[i].at = o[i].at
                   /\ u[i].at < pos + 1
                   /\ u[i].target = TargetOf("unopt", Fun(j), body[u[i].at])
                   /\ u[i].id = Negate(o[i].id)
        <5>1. u[i].at = o[i].at /\ u[i].at < pos
          BY <2>1, <3>1 DEF UnoptSitesInv
        <5>2. o[i].at \in Nat
          BY <2>1, <4>1 DEF OptSitesInv
        <5> QED
          BY <1>2, <2>1, <5>1, <5>2 DEF UnoptSitesInv
      <4>3. ASSUME Len(u) < Len(o)
            PROVE  o[Len(u) + 1].at >= pos + 1
        <5>1. Len(u) + 1 \in 1..Len(o)
          BY <4>1, <4>3
        <5>2. o[Len(u) + 1].at \in Nat /\ IsSite(Fun(j), body[o[Len(u) + 1].at])
          BY <2>1, <5>1 DEF OptSitesInv
        <5>3. o[Len(u) + 1].at >= pos /\ o[Len(u) + 1].at # pos
          BY <1>6, <2>1, <3>1, <4>3, <5>2 DEF UnoptSitesInv
        <5> QED
          BY <1>2, <5>2, <5>3
      <4> QED
        BY <1>1, <2>2, <3>1, <4>1, <4>2, <4>3 DEF UnoptSitesInv
    <3> QED
      BY <3>2, <3>3
  <2> QED
    BY <2>3, <2>4, <2>5
<1> QED
  BY <1>1, <1>3, <1>4, <1>7, SameEntries DEF IInv

\* UnoptimizedCopyPass finds nothing left to replace.
LEMMA RetargetChangesNothing ==
  ASSUME IInv, EndFunction
  PROVE  sites' = sites
<1>1. /\ TypeOK /\ ListInv /\ phase = "run" /\ cur <= Len(funs)
      /\ sites \in [Names -> Seq(SiteRecords)]
      /\ sites' = [sites EXCEPT ![FunName] =
                    [i \in 1..Len(sites[FunName]) |-> Retarget(FunName, sites[FunName][i])]]
  BY DEF IInv, TypeOK, EndFunction
<1>2. PICK k \in 1..NumFuns : \/ cur = k /\ FunName = <<"opt", Fun(k)>>
                              \/ cur = k + NumFuns /\ FunName = <<"unopt", Fun(k)>>
  BY <1>1, CurrentFunction
<1>3. ASSUME NEW i \in 1..Len(sites[FunName])
      PROVE  Retarget(FunName, sites[FunName][i]) = sites[FunName][i]
  <2>1. CASE FunName = <<"opt", Fun(k)>>
    BY <2>1 DEF Retarget
  <2>2. CASE FunName = <<"unopt", Fun(k)>>
    <3>1. \E ins : UnoptSites(k)[i].target = TargetOf("unopt", Fun(k), ins)
      BY <2>2, <1>3 DEF IInv, UnoptSitesInv, UnoptSites
    <3>2. UnoptSites(k)[i].target[1] # "opt"
      BY <3>1 DEF TargetOf, NoCallback
    <3> QED
      BY <2>2, <3>2 DEF Retarget, UnoptSites
  <2> QED
    BY <1>2, <2>1, <2>2
<1>4. [i \in 1..Len(sites[FunName]) |-> Retarget(FunName, sites[FunName][i])] = sites[FunName]
  <2>1. sites[FunName] \in Seq(SiteRecords)
    BY <1>1, <1>2, NameFacts
  <2> QED
    BY <1>3, <2>1
<1> QED
  BY <1>1, <1>4

\* The retargeting at the end of a function finds nothing to change.
LEMMA EndFunctionStep ==
  ASSUME IInv, EndFunction
  PROVE  IInv'
<1>1. /\ phase = "run" /\ cur <= Len(funs) /\ pos = Len(Body) + 1
      /\ cur' = cur + 1 /\ pos' = 1
      /\ UNCHANGED <<mod, phase, funs, stackMaps, sites, allocated>>
  BY RetargetChangesNothing DEF EndFunction
<1>2. TypeOK /\ ListInv /\ NumFuns \in Nat /\ cur \in Nat /\ Len(funs) \in Nat
  BY ModuleFacts DEF IInv, TypeOK
<1>3. TypeOK'
  BY <1>1, <1>2 DEF TypeOK
<1>4. ListInv'
  BY <1>1, <1>2 DEF ListInv, NumFuns, Fun
<1>5. MaxInv'
  BY <1>1, <1>2, SameEntries DEF IInv, MaxInv
<1>6. PICK k \in 1..NumFuns : \/ cur = k /\ FunName = <<"opt", Fun(k)>>
                              \/ cur = k + NumFuns /\ FunName = <<"unopt", Fun(k)>>
  BY <1>1, <1>2, CurrentFunction
<1>7. pos = Len(mod.body[Fun(k)]) + 1
  BY <1>1, <1>6 DEF Body
<1>8. ASSUME NEW j \in 1..NumFuns
      PROVE  OptSitesInv(j)' /\ UnoptSitesInv(j)'
  <2>1. Fun(j)' = Fun(j) /\ NumFuns' = NumFuns
    BY <1>1 DEF Fun, NumFuns
  <2>2. VisitedOpt(j)' = VisitedOpt(j)
    BY <1>1, <1>2, <1>6, <1>7, <2>1 DEF VisitedOpt, Visited
  <2>3. VisitedUnopt(j)' = VisitedUnopt(j)
    BY <1>1, <1>2, <1>6, <1>7, <2>1 DEF VisitedUnopt, Visited
  <2> QED
    BY <1>1, <2>2, <2>3, SameEntries, SameFunction DEF IInv
<1> QED
  BY <1>1, <1>3, <1>4, <1>5, <1>8, SameEntries DEF IInv

-----------------------------------------------------------------------------
\* The call inserted for the instruction at pos.
NewSite(kind, target) ==
  [at |-> pos, id |-> getNextPatchpointID(FunName), kind |-> kind, target |-> target]

\* Recording a site appends to the entries of the current function alone.
LEMMA RecordFacts ==
  ASSUME TypeOK, FunName \in Names, getNextPatchpointID(FunName) \in 0..(IdSpace - 1),
         NEW kind \in {"stackmap", "patchpoint"}, NEW target \in Targets, Record(kind, target)
  PROVE  /\ stackMaps' = [stackMaps EXCEPT ![FunName] =
                            Append(stackMaps[FunName], getNextPatchpointID(FunName))]
         /\ sites' = [sites EXCEPT ![FunName] = Append(sites[FunName], NewSite(kind, target))]
         /\ NewSite(kind, target) \in SiteRecords
         /\ NewSite(kind, target).at = pos
         /\ NewSite(kind, target).id = getNextPatchpointID(FunName)
         /\ NewSite(kind, target).target = target
         /\ stackMaps' \in [Names -> Seq(0..(IdSpace - 1))]
         /\ sites' \in [Names -> Seq(SiteRecords)]
         /\ pos' = pos + 1 /\ UNCHANGED <<mod, phase, funs, cur>>
<1> DEFINE id  == getNextPatchpointID(FunName)
           rec == NewSite(kind, target)
<1>1. rec \in SiteRecords /\ rec.at = pos /\ rec.id = id /\ rec.target = target
  BY IdAssumption DEF SiteRecords, TypeOK, NewSite
<1>2. /\ stackMaps' = [stackMaps EXCEPT ![FunName] = Append(stackMaps[FunName], id)]
      /\ sites' = [sites EXCEPT ![FunName] = Append(sites[FunName], rec)]
      /\ pos' = pos + 1 /\ UNCHANGED <<mod, phase, funs, cur>>
  BY DEF Record, NewSite
<1>3. stackMaps \in [Names -> Seq(0..(IdSpace - 1))] /\ sites \in [Names -> Seq(SiteRecords)]
  BY DEF TypeOK
<1>4. id \in 0..(IdSpace - 1)
  OBVIOUS
<1> HIDE DEF id, rec
<1>5. /\ Append(stackMaps[FunName], id) \in Seq(0..(IdSpace - 1))
      /\ Append(sites[FunName], rec) \in Seq(SiteRecords)
  BY <1>1, <1>3, <1>4
<1>6. stackMaps' \in [Names -> Seq(0..(IdSpace - 1))] /\ sites' \in [Names -> Seq(SiteRecords)]
  BY <1>2, <1>3, <1>5
<1> QED
  BY <1>1, <1>2, <1>6 DEF id, rec

\* An ID stored together with its call keeps the two tables equal.
LEMMA RecordKeepsSameIds ==
  ASSUME TypeOK, SameIds, NEW n \in Names,
         NEW id \in 0..(IdSpace - 1), NEW rec \in SiteRecords, rec.id = id,
         stackMaps' = [stackMaps EXCEPT ![n] = Append(stackMaps[n], id)],
         sites' = [sites EXCEPT ![n] = Append(sites[n], rec)]
  PROVE  SameIds'
<1> SUFFICES ASSUME NEW m \in Names
             PROVE  /\ Len(sites'[m]) = Len(stackMaps'[m])
                    /\ \A i \in 1..Len(sites'[m]) : sites'[m][i].id = stackMaps'[m][i]
  BY DEF SameIds
<1>1. /\ stackMaps \in [Names -> Seq(0..(IdSpace - 1))] /\ sites \in [Names -> Seq(SiteRecords)]
  BY DEF TypeOK
<1>2. CASE m # n
  BY <1>1, <1>2 DEF SameIds
<1>3. CASE m = n
  <2>1. /\ stackMaps'[m] = Append(stackMaps[n], id) /\ sites'[m] = Append(sites[n], rec)
        /\ Len(sites[n]) = Len(stackMaps[n]) /\ Len(sites[n]) \in Nat
        /\ \A i \in 1..Len(sites[n]) : sites[n][i].id = stackMaps[n][i]
    BY <1>1, <1>3 DEF SameIds
  <2>2. stackMaps[n] \in Seq(0..(IdSpace - 1)) /\ sites[n] \in Seq(SiteRecords)
    BY <1>1
  <2>3. /\ Len(sites'[m]) = Len(sites[n]) + 1 /\ Len(stackMaps'[m]) = Len(sites[n]) + 1
        /\ sites'[m][Len(sites[n]) + 1] = rec /\ stackMaps'[m][Len(sites[n]) + 1] = id
        /\ \A i \in 1..Len(sites[n]) : sites'[m][i] = sites[n][i] /\ stackMaps'[m][i] = stackMaps[n][i]
    BY <2>1, <2>2
  <2>4. ASSUME NEW i \in 1..Len(sites'[m])
        PROVE  sites'[m][i].id = stackMaps'[m][i]
    <3>1. i \in 1..Len(sites[n]) \/ i = Len(sites[n]) + 1
      BY <2>1, <2>3
    <3> QED
      BY <2>1, <2>3, <3>1
  <2> QED
    BY <2>3, <2>4
<1> QED
  BY <1>2, <1>3

\* The function called at a site is one of the module, or the handler.
LEMMA TargetType ==
  ASSUME TypeOK, NEW v \in {"opt", "unopt"}, NEW k \in 1..NumFuns,
         NEW p \in 1..Len(mod.body[Fun(k)]), IsSite(Fun(k), mod.body[Fun(k)][p])
  PROVE  TargetOf(v, Fun(k), mod.body[Fun(k)][p]) \in Targets
<1>1. mod.body[Fun(k)][p] \in Instructions
  BY ModuleFacts
<1>2. mod.body[Fun(k)][p].callee \in Functions \cup {External}
  BY <1>1 DEF Instructions
<1> QED
  BY <1>2 DEF IsSite, IsCallSite, TargetOf, Targets, Names

\* Recording a site of an original: its ID follows all those given before.
LEMMA RecordOptStep ==
  ASSUME IInv, Visiting, NEW k \in 1..NumFuns, cur = k, FunName = <<"opt", Fun(k)>>,
         IsSite(Fun(k), mod.body[Fun(k)][pos]), NEW kind \in {"stackmap", "patchpoint"},
         Record(kind, TargetOf("opt", Fun(k), mod.body[Fun(k)][pos]))
  PROVE  IInv'
<1> DEFINE body   == mod.body[Fun(k)]
           target == TargetOf("opt", Fun(k), body[pos])
           id     == getNextPatchpointID(FunName)
           rec    == NewSite(kind, target)
           name   == <<"opt", Fun(k)>>
<1>1. /\ TypeOK /\ ListInv /\ SameIds /\ NumFuns \in Nat /\ cur \in Nat /\ cur <= NumFuns
      /\ allocated \in Nat /\ allocated < MaxSites /\ allocated' = allocated + 1
      /\ IdSpace \in Nat /\ MaxSites \in Nat /\ 4 * MaxSites + 4 < IdSpace
      /\ pos \in 1..Len(body) /\ Len(body) \in Nat
  <2>1. body \in Seq(Instructions) /\ NumFuns \in Nat /\ TypeOK
    BY ModuleFacts DEF IInv
  <2>2. pos <= Len(body) /\ allocated < MaxSites /\ allocated' = allocated + 1
    BY DEF Visiting, Body, Record
  <2> QED
    BY <2>1, <2>2, IdAssumption DEF IInv, TypeOK
<1>2. /\ id \in 1..(2 * allocated + 2)
      /\ OptIds(k) # <<>> => id = OptIds(k)[1] + Len(OptIds(k))
      /\ \A l \in 1..NumFuns : \A i \in 1..Len(OptIds(l)) : l < k => OptIds(l)[i] + 2 <= id
      /\ \A x \in LastIds : x <= id
  BY <1>1, NextOptId
<1>3. target \in Targets
  BY <1>1, TargetType
<1>4. id \in 0..(IdSpace - 1) /\ name = <<"opt", Fun(k)>> /\ name \in Names
  <2>1. name = <<"opt", Fun(k)>> /\ name \in Names
    BY <1>1, NameFacts
  <2> HIDE DEF id
  <2>2. id \in 0..(IdSpace - 1)
    BY <1>1, <1>2
  <2> QED
    BY <2>1, <2>2
<1>5. /\ stackMaps' = [stackMaps EXCEPT ![name] = Append(stackMaps[name], id)]
      /\ sites' = [sites EXCEPT ![name] = Append(sites[name], rec)]
      /\ name \in Names /\ rec \in SiteRecords
      /\ rec.at = pos /\ rec.id = id /\ rec.target = target
      /\ stackMaps' \in [Names -> Seq(0..(IdSpace - 1))]
      /\ sites' \in [Names -> Seq(SiteRecords)]
      /\ pos' = pos + 1 /\ UNCHANGED <<mod, phase, funs, cur>>
  <2>1. Record(kind, target) /\ FunName = name
    OBVIOUS
  <2> HIDE DEF target, name
  <2>2. /\ stackMaps' = [stackMaps EXCEPT ![FunName] = Append(stackMaps[FunName], id)]
        /\ sites' = [sites EXCEPT ![FunName] = Append(sites[FunName], rec)]
        /\ rec \in SiteRecords /\ rec.at = pos /\ rec.id = id /\ rec.target = target
        /\ stackMaps' \in [Names -> Seq(0..(IdSpace - 1))]
        /\ sites' \in [Names -> Seq(SiteRecords)]
        /\ pos' = pos + 1 /\ UNCHANGED <<mod, phase, funs, cur>>
    BY <1>1, <1>3, <1>4, <2>1, RecordFacts
  <2> HIDE DEF id, rec
  <2> QED
    BY <1>4, <2>1, <2>2
<1> HIDE DEF id, rec, target, name
<1>6. TypeOK'
  <2> HIDE DEF body
  <2>1. pos' \in Nat \ {0} /\ allocated' \in 0..MaxSites
    BY <1>1, <1>5
  <2> QED
    BY <1>1, <1>5, <2>1 DEF TypeOK
<1>7. ListInv'
  BY <1>1, <1>5 DEF ListInv, NumFuns, Fun, Visiting
<1>8. SameIds'
  BY <1>1, <1>4, <1>5, RecordKeepsSameIds
<1>9. /\ OptIds(k)' = Append(OptIds(k), id) /\ OptSites(k)' = Append(OptSites(k), rec)
      /\ \A j \in 1..NumFuns :
           /\ UnoptSites(j)' = UnoptSites(j)
           /\ j # k => OptIds(j)' = OptIds(j) /\ OptSites(j)' = OptSites(j)
  <2>1. \A j : Fun(j)' = Fun(j)
    BY <1>5 DEF Fun
  <2>2. OptIds(k)' = Append(OptIds(k), id) /\ OptSites(k)' = Append(OptSites(k), rec)
    BY <1>1, <1>4, <1>5, <2>1 DEF OptIds, OptSites, TypeOK
  <2>3. ASSUME NEW j \in 1..NumFuns
        PROVE  UnoptSites(j)' = UnoptSites(j)
    <3>1. <<"unopt", Fun(j)>> # name
      BY <1>4
    <3> QED
      BY <1>1, <1>5, <2>1, <3>1, NameFacts DEF UnoptSites, TypeOK
  <2>4. ASSUME NEW j \in 1..NumFuns, j # k
        PROVE  OptIds(j)' = OptIds(j) /\ OptSites(j)' = OptSites(j)
    <3>1. <<"opt", Fun(j)>> # name
      BY <1>1, <1>4, <2>4, ModuleFacts
    <3> QED
      BY <1>1, <1>5, <2>1, <3>1, NameFacts DEF OptIds, OptSites, TypeOK
  <2> QED
    BY <2>2, <2>3, <2>4
<1>10. /\ Len(OptIds(k)) \in Nat /\ Len(OptSites(k)) = Len(OptIds(k))
       /\ OptIds(k) \in Seq(0..(IdSpace - 1)) /\ OptSites(k) \in Seq(SiteRecords)
  <2>1. Len(OptSites(k)) = Len(OptIds(k))
    BY <1>1, <1>4, <1>5 DEF SameIds, OptSites, OptIds
  <2>2. OptIds(k) \in Seq(0..(IdSpace - 1)) /\ OptSites(k) \in Seq(SiteRecords)
    BY <1>1, EntryFacts
  <2> QED
    BY <2>1, <2>2
<1>11. /\ Len(OptIds(k)') = Len(OptIds(k)) + 1 /\ Len(OptSites(k)') = Len(OptIds(k)) + 1
       /\ OptIds(k)'[Len(OptIds(k)) + 1] = id /\ OptSites(k)'[Len(OptIds(k)) + 1] = rec
       /\ \A i \in 1..Len(OptIds(k)) :
            OptIds(k)'[i] = OptIds(k)[i] /\ OptSites(k)'[i] = OptSites(k)[i]
  BY <1>4, <1>5, <1>9, <1>10
<1>12. \A i \in 1..Len(OptIds(k)') : i \in 1..Len(OptIds(k)) \/ i = Len(OptIds(k)) + 1
  BY <1>10, <1>11
<1>13. ASSUME NEW j \in 1..NumFuns
       PROVE  OptSitesInv(j)'
  <2>1. OptSitesInv(j) /\ UnoptSitesInv(j)
    BY DEF IInv
  <2>2. CASE j # k
    BY <1>1, <1>5, <1>9, <2>1, <2>2, OtherFunctions DEF OptSitesInv, Fun
  <2>3. CASE j = k
    <3>1. VisitedOpt(k) = pos /\ VisitedOpt(k)' = pos + 1 /\ Fun(k)' = Fun(k)
      BY <1>1, <1>5, OtherFunctions DEF Fun
    <3> DEFINE s == OptSites(k)
               t == OptSites(k)'
    <3>2. /\ \A i \in 1..Len(s) :
               /\ s[i].at \in 1..Len(body)
               /\ s[i].at < pos
               /\ IsSite(Fun(k), body[s[i].at])
               /\ s[i].target = TargetOf("opt", Fun(k), body[s[i].at])
          /\ \A i, n \in 1..Len(s) : i < n => s[i].at < s[n].at
          /\ \A p \in 1..Len(body) :
               p < pos /\ IsSite(Fun(k), body[p]) => \E i \in 1..Len(s) : s[i].at = p
      BY <2>1, <2>3, <3>1 DEF OptSitesInv
    <3>3. /\ Len(t) = Len(s) + 1 /\ Len(s) \in Nat /\ t[Len(s) + 1].at = pos
          /\ t[Len(s) + 1].target = TargetOf("opt", Fun(k), body[pos])
          /\ \A i \in 1..Len(s) : t[i] = s[i]
          /\ \A i \in 1..Len(t) : i \in 1..Len(s) \/ i = Len(s) + 1
      BY <1>5, <1>10, <1>11, <1>12 DEF target
    <3> HIDE DEF s, t
    <3>4. \A i \in 1..Len(t) :
            /\ t[i].at \in 1..Len(body)
            /\ t[i].at < pos + 1
            /\ IsSite(Fun(k), body[t[i].at])
            /\ t[i].target = TargetOf("opt", Fun(k), body[t[i].at])
      <4>1. \A i \in 1..Len(s) : s[i].at < pos + 1
        BY <1>1, <3>2
      <4>2. ASSUME NEW i \in 1..Len(t)
            PROVE  /\ t[i].at \in 1..Len(body)
                   /\ t[i].at < pos + 1
                   /\ IsSite(Fun(k), body[t[i].at])
                   /\ t[i].target = TargetOf("opt", Fun(k), body[t[i].at])
        <5>1. CASE i \in 1..Len(s)
          BY <3>2, <3>3, <4>1, <5>1
        <5>2. CASE i = Len(s) + 1
          BY <1>1, <3>3, <5>2
        <5> QED
          BY <3>3, <5>1, <5>2
      <4> QED
        BY <4>2
    <3>5. ASSUME NEW i \in 1..Len(t), NEW n \in 1..Len(t), i < n
          PROVE  t[i].at < t[n].at
      <4>1. i \in 1..Len(s) /\ t[i] = s[i] /\ s[i].at < pos
        <5>1. i \in 1..Len(s)
          BY <3>3, <3>5
        <5> QED
          BY <3>2, <3>3, <5>1
      <4>2. CASE n \in 1..Len(s)
        BY <3>2, <3>3, <3>5, <4>1, <4>2
      <4>3. CASE n = Len(s) + 1
        BY <3>3, <4>1, <4>3
      <4> QED
        BY <3>3, <4>2, <4>3
    <3>6. ASSUME NEW p \in 1..Len(body), p < pos + 1, IsSite(Fun(k), body[p])
          PROVE  \E i \in 1..Len(t) : t[i].at = p
      <4>1. CASE p < pos
        <5>1. PICK i \in 1..Len(s) : s[i].at = p
          BY <3>2, <3>6, <4>1
        <5> QED
          BY <3>3, <5>1
      <4>2. CASE p = pos
        BY <3>3, <4>2
      <4> QED
        BY <1>1, <3>6, <4>1, <4>2
    <3> QED
      BY <1>5, <2>3, <3>1, <3>4, <3>5, <3>6 DEF OptSitesInv, t
  <2> QED
    BY <2>2, <2>3
<1>14. ASSUME NEW j \in 1..NumFuns
       PROVE  UnoptSitesInv(j)'
  <2>1. OptSitesInv(j) /\ UnoptSitesInv(j)
    BY DEF IInv
  <2>2. VisitedUnopt(j)' = VisitedUnopt(j) /\ Fun(j)' = Fun(j)
    BY <1>1, <1>5, OtherFunctions DEF Fun
  <2>3. CASE j # k
    BY <1>5, <1>9, <2>1, <2>2, <2>3 DEF UnoptSitesInv
  <2>4. CASE j = k
    <3>1. UnoptIds(k) = <<>> /\ VisitedUnopt(k) = 1
      BY <1>1, UnreachedEmpty DEF VisitedUnopt, Visited
    <3>2. Len(UnoptSites(k)) = 0
      BY <1>1, <3>1, NameFacts DEF SameIds, UnoptSites, UnoptIds
    <3>3. 1 \in 1..Len(OptSites(k)') /\ OptSites(k)'[1].at >= 1
      <4>1. OptSitesInv(k)' /\ 1 \in 1..Len(OptSites(k)')
        BY <1>10, <1>11, <1>13
      <4> QED
        BY <4>1 DEF OptSitesInv
    <3> QED
      BY <1>9, <1>10, <1>11, <2>2, <2>4, <3>1, <3>2, <3>3 DEF UnoptSitesInv
  <2> QED
    BY <2>3, <2>4
<1>15. ASSUME NEW j \in 1..NumFuns
       PROVE  OptIdsInv(j)'
  <2>1. OptIdsInv(j)
    BY DEF IInv
  <2>2. CASE j # k
    BY <1>1, <1>9, <2>1, <2>2 DEF OptIdsInv
  <2>3. CASE j = k
    <3>1. CASE OptIds(k) = <<>>
      <4>1. Len(OptIds(k)) = 0
        BY <3>1
      <4>2. Len(OptIds(k)') = 1 /\ OptIds(k)'[1] = id
        BY <1>11, <4>1
      <4>3. id = id + 1 - 1 /\ id \in 1..(2 * allocated')
        BY <1>1, <1>2
      <4> QED
        BY <2>3, <4>2, <4>3 DEF OptIdsInv
    <3>2. CASE OptIds(k) # <<>>
      <4>1. /\ 1 \in 1..Len(OptIds(k)) /\ OptIds(k)'[1] = OptIds(k)[1] /\ OptIds(k)[1] \in Nat
            /\ id = OptIds(k)[1] + Len(OptIds(k))
        <5>1. 1 \in 1..Len(OptIds(k))
          BY <1>10, <3>2
        <5> QED
          BY <1>2, <1>11, <3>2, <5>1, IdRanges
      <4>2. ASSUME NEW i \in 1..Len(OptIds(k)')
            PROVE  /\ OptIds(k)'[i] = OptIds(k)'[1] + i - 1
                   /\ OptIds(k)'[i] \in 1..(2 * allocated')
        <5>1. CASE i \in 1..Len(OptIds(k))
          <6>1. OptIds(k)[i] = OptIds(k)[1] + i - 1 /\ OptIds(k)[i] \in 1..(2 * allocated)
            BY <2>1, <2>3, <5>1 DEF OptIdsInv
          <6> QED
            BY <1>1, <1>11, <4>1, <5>1, <6>1
        <5>2. CASE i = Len(OptIds(k)) + 1
          BY <1>1, <1>2, <1>10, <1>11, <4>1, <5>2
        <5> QED
          BY <1>12, <5>1, <5>2
      <4> QED
        BY <2>3, <4>2 DEF OptIdsInv
    <3> QED
      BY <3>1, <3>2
  <2> QED
    BY <2>2, <2>3
<1>16. ASSUME NEW j \in 1..NumFuns, NEW l \in 1..NumFuns, j < l,
              NEW a \in 1..Len(OptIds(j)'), NEW b \in 1..Len(OptIds(l)')
       PROVE  OptIds(j)'[a] + 2 <= OptIds(l)'[b]
  <2>1. CASE j # k /\ l # k
    BY <1>9, <1>16, <2>1 DEF IInv, GapInv
  <2>2. CASE l = k
    <3>1. j # k /\ OptIds(j)' = OptIds(j)
      BY <1>1, <1>9, <1>16, <2>2
    <3>2. CASE b \in 1..Len(OptIds(k))
      BY <1>11, <1>16, <2>2, <3>1, <3>2 DEF IInv, GapInv
    <3>3. CASE b = Len(OptIds(k)) + 1
      BY <1>2, <1>11, <1>16, <2>2, <3>1, <3>3
    <3> QED
      BY <1>12, <2>2, <3>2, <3>3
  <2>3. CASE j = k
    <3>1. l > cur /\ l # k
      BY <1>1, <1>16, <2>3
    <3>2. OptIds(l)' = <<>>
      BY <1>9, <3>1, UnreachedEmpty
    <3> QED
      BY <3>2
  <2> QED
    BY <2>1, <2>2, <2>3
<1>17. MaxInv'
  <2>1. id \in LastIds'
    <3>1. stackMaps'[name] = OptIds(k)'
      BY <1>4, <1>5 DEF OptIds, Fun
    <3>2. stackMaps'[name] # <<>> /\ stackMaps'[name][Len(stackMaps'[name])] = id
      BY <1>10, <1>11, <3>1
    <3> QED
      BY <1>5, <3>2 DEF LastIds, HasEntry, LastIdOf
  <2>2. ASSUME NEW x \in LastIds'
        PROVE  x <= id
    <3>1. PICK n \in Names : stackMaps'[n] # <<>> /\ x = stackMaps'[n][Len(stackMaps'[n])]
      BY <2>2 DEF LastIds, HasEntry, LastIdOf
    <3>2. CASE n = name
      <4>1. stackMaps'[n] = OptIds(k)'
        BY <1>4, <1>5, <3>2 DEF OptIds, Fun
      <4> QED
        BY <1>1, <1>2, <1>11, <3>1, <4>1
    <3>3. CASE n # name
      <4>1. stackMaps'[n] = stackMaps[n]
        BY <1>1, <1>5, <3>3 DEF TypeOK
      <4>2. x \in LastIds
        BY <3>1, <4>1 DEF LastIds, HasEntry, LastIdOf
      <4> QED
        BY <1>2, <4>2
    <3> QED
      BY <3>2, <3>3
  <2> QED
    BY <2>1, <2>2 DEF MaxInv
<1>18. NumFuns' = NumFuns
  BY <1>5 DEF NumFuns
<1>19. \A j, l \in 1..NumFuns : GapInv(j, l)'
  BY <1>16 DEF GapInv
<1> QED
  BY <1>6, <1>7, <1>8, <1>13, <1>14, <1>15, <1>17, <1>18, <1>19 DEF IInv

\* The next ID of a clone is the complement of the one its original has there.
LEMMA NextUnoptId ==
  ASSUME IInv, NEW k \in 1..NumFuns, cur = k + NumFuns, FunName = <<"unopt", Fun(k)>>,
         pos <= Len(mod.body[Fun(k)]), IsSite(Fun(k), mod.body[Fun(k)][pos])
  PROVE  /\ Len(UnoptSites(k)) + 1 \in 1..Len(OptSites(k))
         /\ OptSites(k)[Len(UnoptSites(k)) + 1].at = pos
         /\ getNextPatchpointID(FunName) = Negate(OptSites(k)[Len(UnoptSites(k)) + 1].id)
         /\ getNextPatchpointID(FunName) \in 0..(IdSpace - 1)
<1>1. TypeOK /\ SameIds /\ OptSitesInv(k) /\ UnoptSitesInv(k)
  BY DEF IInv
<1>2. Len(UnoptSites(k)) < Len(OptSites(k)) /\ OptSites(k)[Len(UnoptSites(k)) + 1].at = pos
  BY <1>1, NextTwinSite
<1>3. Len(UnoptSites(k)) + 1 \in 1..Len(OptSites(k)) /\ Len(OptSites(k)) \in Nat
  BY <1>1, <1>2, EntryFacts
<1>4. /\ Len(OptSites(k)) = Len(OptIds(k)) /\ Len(UnoptSites(k)) = Len(UnoptIds(k))
      /\ \A i \in 1..Len(OptSites(k)) : OptSites(k)[i].id = OptIds(k)[i]
  BY <1>1, NameFacts DEF SameIds, OptSites, OptIds, UnoptSites, UnoptIds
<1>5. OptIds(k) # <<>>
  BY <1>3, <1>4
<1>6. getTwinName(FunName) = <<"opt", Fun(k)>>
  BY DEF getTwinName, TwinVersion
<1>7. HasEntry(getTwinName(FunName)) /\ <<"opt", Fun(k)>> \in Names
  BY <1>1, <1>5, <1>6, NameFacts DEF HasEntry, OptIds
<1>8. TwinId(FunName) = OptSites(k)[Len(UnoptSites(k)) + 1].id
  BY <1>3, <1>4, <1>6 DEF TwinId, OptIds, UnoptIds
<1>9. getNextPatchpointID(FunName) = Negate(TwinId(FunName))
  BY <1>6, <1>7 DEF getNextPatchpointID, IsNewFunction, BaseId
<1>10. TwinId(FunName) \in 1..(2 * allocated)
  BY <1>3, <1>4, <1>8, IdRanges
<1>11. Negate(TwinId(FunName)) \in 0..(IdSpace - 1)
  BY <1>1, <1>10, IdAssumption DEF Negate, TypeOK
<1> QED
  BY <1>2, <1>3, <1>8, <1>9, <1>11

\* Recording a site of a clone: its ID is the complement of its twin's.
LEMMA RecordUnoptStep ==
  ASSUME IInv, Visiting, NEW k \in 1..NumFuns, cur = k + NumFuns, FunName = <<"unopt", Fun(k)>>,
         IsSite(Fun(k), mod.body[Fun(k)][pos]), NEW kind \in {"stackmap", "patchpoint"},
         Record(kind, TargetOf("unopt", Fun(k), mod.body[Fun(k)][pos]))
  PROVE  IInv'
<1> DEFINE body   == mod.body[Fun(k)]
           target == TargetOf("unopt", Fun(k), body[pos])
           id     == getNextPatchpointID(FunName)
           rec    == NewSite(kind, target)
           name   == <<"unopt", Fun(k)>>
           o      == OptSites(k)
           u      == UnoptSites(k)
<1>1. /\ TypeOK /\ ListInv /\ SameIds /\ NumFuns \in Nat /\ cur \in Nat
      /\ allocated' = allocated /\ pos \in 1..Len(body) /\ Len(body) \in Nat
  <2>1. body \in Seq(Instructions) /\ NumFuns \in Nat /\ TypeOK
    BY ModuleFacts DEF IInv
  <2>2. pos <= Len(body) /\ allocated' = allocated
    BY DEF Visiting, Body, Record
  <2>3. ListInv /\ SameIds
    BY DEF IInv
  <2>4. pos \in Nat \ {0} /\ cur \in Nat
    BY <2>1 DEF TypeOK
  <2> HIDE DEF body
  <2>5. Len(body) \in Nat
    BY <2>1
  <2>6. pos \in 1..Len(body)
    BY <2>2, <2>4, <2>5
  <2> QED
    BY <2>1, <2>2, <2>3, <2>4, <2>5, <2>6
<1>2. /\ Len(u) + 1 \in 1..Len(o) /\ o[Len(u) + 1].at = pos
      /\ id = Negate(o[Len(u) + 1].id) /\ id \in 0..(IdSpace - 1)
  BY <1>1, NextUnoptId
<1>3. target \in Targets
  BY <1>1, TargetType
<1>4. name = <<"unopt", Fun(k)>> /\ name \in Names /\ FunName = name /\ Record(kind, target)
  BY <1>1, NameFacts
<1> HIDE DEF target, name
<1>5. /\ stackMaps' = [stackMaps EXCEPT ![name] = Append(stackMaps[name], id)]
      /\ sites' = [sites EXCEPT ![name] = Append(sites[name], rec)]
      /\ rec \in SiteRecords /\ rec.at = pos /\ rec.id = id /\ rec.target = target
      /\ stackMaps' \in [Names -> Seq(0..(IdSpace - 1))]
      /\ sites' \in [Names -> Seq(SiteRecords)]
      /\ pos' = pos + 1 /\ UNCHANGED <<mod, phase, funs, cur>>
  <2> HIDE DEF body
  <2>1. TypeOK /\ id \in 0..(IdSpace - 1) /\ FunName \in Names
    BY <1>1, <1>2, <1>4
  <2>2. /\ stackMaps' = [stackMaps EXCEPT ![FunName] = Append(stackMaps[FunName], id)]
        /\ sites' = [sites EXCEPT ![FunName] = Append(sites[FunName], rec)]
        /\ rec \in SiteRecords /\ rec.at = pos /\ rec.id = id /\ rec.target = target
        /\ stackMaps' \in [Names -> Seq(0..(IdSpace - 1))]
        /\ sites' \in [Names -> Seq(SiteRecords)]
        /\ pos' = pos + 1 /\ UNCHANGED <<mod, phase, funs, cur>>
    BY <1>3, <1>4, <2>1, RecordFacts
  <2> HIDE DEF id, rec
  <2> QED
    BY <1>4, <2>2
<1> HIDE DEF id, rec
<1>6. TypeOK'
  <2> HIDE DEF body
  <2>1. pos' \in Nat \ {0}
    BY <1>1, <1>5
  <2> QED
    BY <1>1, <1>5, <2>1 DEF TypeOK
<1>7. ListInv' /\ NumFuns' = NumFuns
  BY <1>1, <1>5 DEF ListInv, NumFuns, Fun, Visiting
<1>8. SameIds'
  BY <1>1, <1>2, <1>4, <1>5, RecordKeepsSameIds
<1>9. /\ UnoptSites(k)' = Append(u, rec)
      /\ \A j \in 1..NumFuns :
           /\ OptIds(j)' = OptIds(j) /\ OptSites(j)' = OptSites(j)
           /\ j # k => UnoptSites(j)' = UnoptSites(j)
  <2>1. \A j : Fun(j)' = Fun(j)
    BY <1>5 DEF Fun
  <2>2. UnoptSites(k)' = Append(u, rec)
    BY <1>1, <1>4, <1>5, <2>1 DEF UnoptSites, TypeOK
  <2>3. ASSUME NEW j \in 1..NumFuns
        PROVE  OptIds(j)' = OptIds(j) /\ OptSites(j)' = OptSites(j)
    <3>1. <<"opt", Fun(j)>> # name
      BY <1>4
    <3> QED
      BY <1>1, <1>5, <2>1, <3>1, NameFacts DEF OptIds, OptSites, TypeOK
  <2>4. ASSUME NEW j \in 1..NumFuns, j # k
        PROVE  UnoptSites(j)' = UnoptSites(j)
    <3>1. <<"unopt", Fun(j)>> # name
      BY <1>1, <1>4, <2>4, ModuleFacts
    <3> QED
      BY <1>1, <1>5, <2>1, <3>1, NameFacts DEF UnoptSites, TypeOK
  <2> QED
    BY <2>2, <2>3, <2>4
<1>10. ASSUME NEW j \in 1..NumFuns
       PROVE  OptSitesInv(j)'
  <2>0. cur # j
    BY <1>1
  <2>1. OptSitesInv(j) /\ VisitedOpt(j)' = VisitedOpt(j) /\ Fun(j)' = Fun(j)
    BY <1>1, <1>5, <2>0, OtherFunctions DEF IInv, Fun
  <2> QED
    BY <1>5, <1>9, <2>1 DEF OptSitesInv
<1>11. ASSUME NEW j \in 1..NumFuns
       PROVE  UnoptSitesInv(j)'
  <2>1. OptSitesInv(j) /\ UnoptSitesInv(j) /\ Fun(j)' = Fun(j)
    BY <1>5 DEF IInv, Fun
  <2>2. CASE j # k
    <3>1. VisitedUnopt(j)' = VisitedUnopt(j)
      BY <1>1, <1>5, <2>2, OtherFunctions
    <3> QED
      BY <1>5, <1>9, <2>1, <2>2, <3>1 DEF UnoptSitesInv
  <2>3. CASE j = k
    <3> DEFINE w == UnoptSites(k)'
    <3>1. VisitedUnopt(k) = pos /\ VisitedUnopt(k)' = pos + 1 /\ OptSites(k)' = o
      BY <1>1, <1>5, <1>9, OtherFunctions
    <3>2. u \in Seq(SiteRecords) /\ o \in Seq(SiteRecords) /\ Len(u) \in Nat /\ Len(o) \in Nat
      BY <1>1, EntryFacts
    <3>3. /\ Len(w) = Len(u) + 1 /\ w[Len(u) + 1] = rec
          /\ \A i \in 1..Len(u) : w[i] = u[i]
      BY <1>5, <1>9, <3>2
    <3>4. /\ \A i \in 1..Len(u) :
               /\ u[i].at = o[i].at
               /\ u[i].at < pos
               /\ u[i].target = TargetOf("unopt", Fun(k), body[u[i].at])
               /\ u[i].id = Negate(o[i].id)
      BY <2>1, <2>3, <3>1 DEF UnoptSitesInv
    <3>5. \A i \in 1..Len(o) : o[i].at \in 1..Len(body)
      BY <2>1, <2>3 DEF OptSitesInv
    <3>6. \A i, n \in 1..Len(o) : i < n => o[i].at < o[n].at
      BY <2>1, <2>3 DEF OptSitesInv
    <3> HIDE DEF o, u, w
    <3>7. Len(w) <= Len(o)
      BY <1>2, <3>2, <3>3
    <3>8. ASSUME NEW i \in 1..Len(w)
          PROVE  /\ w[i].at = o[i].at
                 /\ w[i].at < pos + 1
                 /\ w[i].target = TargetOf("unopt", Fun(k), body[w[i].at])
                 /\ w[i].id = Negate(o[i].id)
      <4>1. CASE i \in 1..Len(u)
        <5>1. i \in 1..Len(o)
          BY <1>2, <3>2, <4>1
        <5>2. w[i] = u[i] /\ u[i].at = o[i].at /\ u[i].at < pos /\ o[i].at \in Nat
          BY <3>3, <3>4, <3>5, <4>1, <5>1
        <5>3. w[i].at < pos + 1
          BY <1>1, <5>2
        <5> QED
          BY <3>4, <4>1, <5>2, <5>3
      <4>2. CASE i = Len(u) + 1
        <5>1. w[i].at = pos /\ w[i].id = Negate(o[i].id) /\ w[i].target = target /\ o[i].at = pos
          BY <1>2, <1>5, <3>3, <4>2
        <5>2. pos < pos + 1
          BY <1>1
        <5>3. target = TargetOf("unopt", Fun(k), body[pos])
          BY DEF target
        <5> QED
          BY <5>1, <5>2, <5>3
      <4> QED
        BY <3>2, <3>3, <4>1, <4>2
    <3>9. ASSUME Len(w) < Len(o)
          PROVE  o[Len(w) + 1].at >= pos + 1
      <4>1. Len(u) + 2 \in 1..Len(o) /\ Len(w) + 1 = Len(u) + 2
        BY <3>2, <3>3, <3>9
      <4>2. o[Len(u) + 1].at < o[Len(u) + 2].at
        BY <1>2, <3>2, <3>6, <4>1
      <4> QED
        BY <1>1, <1>2, <3>5, <4>1, <4>2
    <3> QED
      BY <1>5, <2>1, <2>3, <3>1, <3>7, <3>8, <3>9 DEF UnoptSitesInv, w
  <2> QED
    BY <2>2, <2>3
<1>12. \A j \in 1..NumFuns : OptIdsInv(j)'
  BY <1>1, <1>9 DEF IInv, OptIdsInv
<1>13. \A j, l \in 1..NumFuns : GapInv(j, l)'
  BY <1>9 DEF IInv, GapInv
<1>14. MaxInv'
  BY <1>1, <1>5, <1>7 DEF MaxInv
<1> QED
  BY <1>6, <1>7, <1>8, <1>10, <1>11, <1>12, <1>13, <1>14 DEF IInv

-----------------------------------------------------------------------------
\* A site of the current function is recorded as RecordOptStep or
\* RecordUnoptStep assume it: with the target its version calls.
LEMMA SiteStep ==
  ASSUME IInv, Visiting, IsSite(FunName[2], Body[pos]),
         NEW kind \in {"stackmap", "patchpoint"}, NEW target, Record(kind, target),
         target = TargetOf(FunName[1], FunName[2], Body[pos])
  PROVE  IInv'
<1>1. TypeOK /\ ListInv /\ phase = "run" /\ cur <= Len(funs)
  BY DEF IInv, Visiting
<1>2. PICK k \in 1..NumFuns : \/ cur = k /\ FunName = <<"opt", Fun(k)>>
                              \/ cur = k + NumFuns /\ FunName = <<"unopt", Fun(k)>>
  BY <1>1, CurrentFunction
<1>3. CASE cur = k /\ FunName = <<"opt", Fun(k)>>
  <2>1. /\ IsSite(Fun(k), mod.body[Fun(k)][pos])
        /\ Record(kind, TargetOf("opt", Fun(k), mod.body[Fun(k)][pos]))
    BY <1>3 DEF Body
  <2> QED
    BY <1>3, <2>1, RecordOptStep
<1>4. CASE cur = k + NumFuns /\ FunName = <<"unopt", Fun(k)>>
  <2>1. /\ IsSite(Fun(k), mod.body[Fun(k)][pos])
        /\ Record(kind, TargetOf("unopt", Fun(k), mod.body[Fun(k)][pos]))
    BY <1>4 DEF Body
  <2> QED
    BY <1>4, <2>1, RecordUnoptStep
<1> QED
  BY <1>2, <1>3, <1>4

\* Visiting a guard of either version preserves the invariant.
LEMMA VisitGuardStep ==
  ASSUME IInv, VisitGuard
  PROVE  IInv'
<1>1. /\ Visiting /\ IsGuardSite(FunName[2], Body[pos])
      /\ Record("patchpoint", GuardCallback(FunName))
  BY DEF VisitGuard
<1>2. GuardCallback(FunName) = TargetOf(FunName[1], FunName[2], Body[pos])
  BY <1>1 DEF GuardCallback, TargetOf
<1>3. IsSite(FunName[2], Body[pos])
  BY <1>1 DEF IsSite
<1> QED
  BY <1>1, <1>2, <1>3, SiteStep

\* Visiting a call of either version preserves the invariant.
LEMMA VisitCallStep ==
  ASSUME IInv, VisitCall
  PROVE  IInv'
<1>1. /\ Visiting /\ IsCallSite(Body[pos]) /\ ~IsGuardSite(FunName[2], Body[pos])
      /\ IsSite(FunName[2], Body[pos])
  BY DEF VisitCall, IsSite
<1>2. TargetOf(FunName[1], FunName[2], Body[pos]) = <<FunName[1], Body[pos].callee>>
  BY <1>1 DEF TargetOf
<1>3. CASE FunName[1] = "opt" /\ Record("stackmap", <<"opt", Body[pos].callee>>)
  BY <1>1, <1>2, <1>3, SiteStep
<1>4. CASE /\ FunName[1] = "unopt"
           /\ Record("patchpoint", getTwinName(<<"opt", Body[pos].callee>>))
  <2>1. getTwinName(<<"opt", Body[pos].callee>>) = <<"unopt", Body[pos].callee>>
    BY DEF getTwinName, TwinVersion
  <2> QED
    BY <1>1, <1>2, <1>4, <2>1, SiteStep
<1> QED
  BY <1>3, <1>4 DEF VisitCall

\* Every step of the passes preserves the invariant.
LEMMA NextStep ==
  ASSUME IInv, [Next]_vars
  PROVE  IInv'
<1>1. CASE doInitialization
  BY <1>1, InitializationStep
<1>2. CASE VisitGuard
  BY <1>2, VisitGuardStep
<1>3. CASE VisitCall
  BY <1>3, VisitCallStep
<1>4. CASE VisitOther
  BY <1>4, VisitOtherStep
<1>5. CASE EndFunction
  BY <1>5, EndFunctionStep
<1>6. CASE Finish \/ Terminated \/ UNCHANGED vars
  BY <1>6, FinishStep DEF Terminated
<1> QED
  BY <1>1, <1>2, <1>3, <1>4, <1>5, <1>6 DEF Next

-----------------------------------------------------------------------------
(***************************************************************************)
(* IInv is an inductive invariant of the two passes.                       *)
(***************************************************************************)
THEOREM Invariance == Spec => []IInv
<1>1. Init => IInv
  BY InitInv
<1>2. IInv /\ [Next]_vars => IInv'
  BY NextStep
<1> QED
  BY <1>1, <1>2, PTL DEF Spec

(***************************************************************************)
(* Every ID the pass stores in a vector of stackMaps is a value of a       *)
(* uint64_t, the complements included, and every site it inserts calls a   *)
(* function of the module, the handler, or nothing.                        *)
(***************************************************************************)
THEOREM TypeCorrect == Spec => []TypeOK
<1>1. IInv => TypeOK
  BY DEF IInv
<1> QED
  BY <1>1, Invariance, PTL

(***************************************************************************)
(* getNextPatchpointID gives no ID twice, for any number of functions and  *)
(* sites the ID space has room for.                                        *)
(***************************************************************************)
THEOREM IdsUnique == Spec => []UniqueIds
<1>1. IInv => UniqueIds
  BY UniqueIdsFromInv
<1> QED
  BY <1>1, Invariance, PTL

(***************************************************************************)
(* At the end, the sites of each function and of its clone are at the same *)
(* instructions, with complementary IDs and twin callees: what             *)
(* __guard_failure assumes when it negates an ID.                          *)
(***************************************************************************)
THEOREM TwinsCorrespond == Spec => []SitesPaired
<1>1. IInv => SitesPaired
  BY SitesPairedFromInv
<1> QED
  BY <1>1, Invariance, PTL

(***************************************************************************)
(* The IDs below one of an optimized function are its own earlier ones and *)
(* then an ID of no site: get_next_patchpoint never counts into another    *)
(* function.                                                               *)
(***************************************************************************)
THEOREM CountingDown == Spec => []CountingDownStaysInFunction
<1>1. IInv => CountingDownStaysInFunction
  BY CountingDownFromInv
<1> QED
  BY <1>1, Invariance, PTL

(***************************************************************************)
(* getNextPatchpointID never reads past the end of the twin's vector.      *)
(***************************************************************************)
THEOREM TwinIdAlwaysExists == Spec => []TwinIdExists
<1>1. IInv => TwinIdExists
  BY TwinIdExistsFromInv
<1> QED
  BY <1>1, Invariance, PTL
=============================================================================
