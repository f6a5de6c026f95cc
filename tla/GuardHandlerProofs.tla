------------------------- MODULE GuardHandlerProofs -------------------------
(***************************************************************************)
(* Proofs about GuardHandler: if the lookups find in the stack map what    *)
(* belongs to each site (Supported), the handler makes one frame for each  *)
(* activation of the source program, never crashes on the way, and does    *)
(* not damage its own frame; and up to the jump the program does what its  *)
(* source says.                                                            *)
(*                                                                         *)
(* The parts of the invariant are stated of a binary b, a stack of frames  *)
(* ph and frames of the handler fs, so that they can be used of a state    *)
(* and of the next one.                                                    *)
(***************************************************************************)
EXTENDS GuardHandler, SequenceLemmas

\* The records the state is made of.
IsAct(a)   == a = [fun |-> a.fun, at |-> a.at, vals |-> a.vals]
IsFrame(p) == p = [fun |-> p.fun, bp |-> p.bp, acts |-> p.acts, regs |-> p.regs]
IsCpu(c)   == c = [rip |-> c.rip, rbp |-> c.rbp, rsp |-> c.rsp, regs |-> c.regs]
IsCopy(c)  == c = [shared |-> c.shared, old |-> c.old, depth |-> c.depth]
IsRegs(g)  == g = [d \in RegNums |-> g[d]]
IsMem(m)   == m = [a \in Stack \cup Heap |-> m[a]]

IsEntry(fr) ==
  fr = [ret_addr |-> fr.ret_addr, stored_ret_addr |-> fr.stored_ret_addr,
        size |-> fr.size, bp |-> fr.bp, real_bp |-> fr.real_bp,
        registers |-> fr.registers, record |-> fr.record,
        real_record |-> fr.real_record, inlined |-> fr.inlined]

-----------------------------------------------------------------------------
(***************************************************************************)
(* The stack of the optimized program: the activations of a frame are      *)
(* those of its function and of the calls inlined in it, one in the other, *)
(* and a frame calls the next one.                                         *)
(***************************************************************************)
PathTo(acts, k) == [n \in 1..k |-> <<acts[n].fun, acts[n].at>>]

InlinedNext(b, f, acts, k) ==
  /\ PathTo(acts, k) \in SitePaths(b, f)
  /\ acts[k].fun \in DOMAIN b.prog.body
  /\ acts[k].at \in 1..Len(b.prog.body[acts[k].fun])
  /\ IsInlined(b.prog.body[acts[k].fun][acts[k].at])
  /\ b.prog.body[acts[k].fun][acts[k].at].callee = acts[k + 1].fun

ActsOK(b, f, acts) ==
  /\ IsSeq(acts) /\ Len(acts) >= 1
  /\ \A k \in 1..Len(acts) : IsAct(acts[k])
  /\ acts[1].fun = f
  /\ \A k \in 1..(Len(acts) - 1) : InlinedNext(b, f, acts, k)
  /\ Last(acts).fun \in DOMAIN b.prog.body
  /\ Last(acts).at \in 1..(Len(b.prog.body[Last(acts).fun]) + 1)

FrameOK(b, p) ==
  /\ IsFrame(p)
  /\ p.fun \in FunctionsRun(b)
  /\ ActsOK(b, p.fun, p.acts)
  /\ IsRegs(p.regs)
  /\ p.bp \in Int
  /\ p.regs[RBP] = p.bp
  /\ p.regs[RSP] = p.bp - (StackSize(b, p.fun) - 1)

\* The frame is at a site of the given kind.
AtSiteOf(b, p, kind) ==
  /\ Last(p.acts).at <= Len(b.prog.body[Last(p.acts).fun])
  /\ b.prog.body[Last(p.acts).fun][Last(p.acts).at].kind = kind

CallsFrame(b, p, q) ==
  /\ AtSiteOf(b, p, "call")
  /\ b.prog.body[Last(p.acts).fun][Last(p.acts).at].callee = q.fun
  /\ q.bp = p.bp - StackSize(b, p.fun) - 1

\* The activations of the first n frames.
ActsIn(ph, n) == FlattenSeq([k \in 1..n |-> ph[k].acts])

StackOK(b, ph) ==
  /\ IsSeq(ph) /\ Len(ph) >= 1
  /\ \A m \in 1..Len(ph) : FrameOK(b, ph[m])
  /\ \A m \in 1..(Len(ph) - 1) : CallsFrame(b, ph[m], ph[m + 1])
  /\ ph[1].fun = "main" /\ ph[1].bp = MainBp
  /\ \A m, n \in 1..Len(ph) : m <= n => ph[n].bp <= ph[m].bp
  /\ Len(ActsIn(ph, Len(ph))) <= MaxDepth

\* The address to which the frame that p calls returns.
CallAddr(b, p) == OptAddr(b, p.fun, Path(p.acts))

ReturnsOK(b, ph, m) ==
  \A n \in 2..Len(ph) : m[ph[n].bp + 1] = CallAddr(b, ph[n - 1])

-----------------------------------------------------------------------------
(***************************************************************************)
(* The guard that failed, and the frame of the handler.                    *)
(***************************************************************************)
SiteIn(p) == <<Last(p.acts).fun, Last(p.acts).at>>

FailureOK(b, ph, id, rt) ==
  /\ AtSiteOf(b, Last(ph), "guard")
  /\ id = IdAt(b, SiteIn(Last(ph)))
  /\ rt = CallAddr(b, Last(ph)) + PATCHPOINT_CALL_SIZE

HandlerOK(b, ph, c, m, rt) ==
  /\ IsCpu(c)
  /\ c.rbp = Last(ph).bp - StackSize(b, Last(ph).fun) - 1
  /\ m[c.rbp] = Last(ph).bp
  /\ m[c.rbp + 1] = rt

(***************************************************************************)
(* The frames of the handler while it collects records: frame k was read   *)
(* from frame n of the stack, and its record is looked up for frame n - 1. *)
(***************************************************************************)
ReadFrom(fr, p) ==
  /\ IsEntry(fr)
  /\ fr.bp = p.bp /\ fr.real_bp = p.bp /\ fr.ret_addr = p.bp + 1
  /\ fr.registers = p.regs
  /\ fr.inlined = FALSE

Collected(b, fr, p) ==
  LET id == IdAt(b, SiteIn(p)) IN
  /\ fr.record = stmap_get_map_record(b.sm, id)
  /\ fr.real_record = stmap_get_map_record_after_addr(b.sm, id, CallAddr(b, p))
  /\ fr.size = StackSize(b, SiteIn(p)[1])

CollectOK(b, ph, fs, m, i) ==
  LET D == Len(ph) IN
  /\ IsSeq(fs) /\ Len(fs) = D
  /\ i \in 1..D
  /\ \A k \in 1..D : ReadFrom(fs[k], ph[(D + 1) - k])
  /\ \A k \in 1..(D - 1) :
       /\ fs[k].stored_ret_addr = CallAddr(b, ph[D - k])
       /\ k < i => Collected(b, fs[k], ph[D - k])
       /\ k >= i => m[fs[k].ret_addr] = CallAddr(b, ph[D - k])

(***************************************************************************)
(* Frames fs for the activations acts, the innermost first, and the frame  *)
(* of optimized main at the end.                                           *)
(***************************************************************************)
FrameFor(b, fr, act) ==
  LET id == IdAt(b, <<act.fun, act.at>>) IN
  /\ IsEntry(fr)
  /\ act.fun \in DOMAIN b.prog.body
  /\ act.at \in 1..Len(b.prog.body[act.fun])
  /\ b.sm.recs[fr.record].patchpoint_id = id
  /\ fr.real_record \in 1..Len(b.sm.recs)
  /\ b.sm.recs[fr.real_record].patchpoint_id = id
  /\ fr.size = StackSize(b, act.fun)

\* The frame of optimized main.
IsMain(fr) ==
  /\ IsEntry(fr)
  /\ fr.bp = MainBp /\ fr.ret_addr = MainBp + 1
  /\ fr.registers[RBP] = MainBp

Matches(b, fs, acts) ==
  /\ IsSeq(fs) /\ Len(fs) = Len(acts) + 1
  /\ \A k \in 1..Len(acts) : FrameFor(b, fs[k], acts[(Len(acts) + 1) - k])
  /\ IsMain(fs[Len(acts) + 1])

\* Nothing was inlined below frame n of the stack.
Single(ph, n) == \A k \in 1..n : Len(ph[k].acts) = 1

\* frames after collect_inlined_frames; inl tells whether something was inlined.
BelowOK(b, ph, fs, inl) ==
  /\ Matches(b, fs, ActsIn(ph, Len(ph) - 1))
  /\ fs[1].real_bp = Last(ph).bp
  /\ ~inl => /\ Single(ph, Len(ph) - 1)
             /\ \A k \in 1..Len(ph) : fs[k].bp = ph[(Len(ph) + 1) - k].bp

\* Where the frames are when their variables are restored.
PlacesOK(b, ph, fs, inl) ==
  IF inl
  THEN \A k \in 1..(Len(fs) - 1) : fs[k].bp \in Nat /\ fs[k].bp >= HeapBase + (fs[k].size - 1)
  ELSE /\ Single(ph, Len(ph))
       /\ fs[1].bp = Last(ph).bp
       /\ \A k \in 2..Len(ph) : fs[k].bp = ph[(Len(ph) + 2) - k].bp

\* The segment can be copied over the stack.
SegmentOK(s) == s.total_size \in Nat /\ MainBp + s.total_size <= StackTop + 1

-----------------------------------------------------------------------------
(***************************************************************************)
(* The inductive invariant.                                                *)
(***************************************************************************)
PcInv ==
  /\ pc \in HandlerPoints \cup {"opt", "unopt", "done", "exited", "crashed", "overflow"}
  /\ pc \in {"unopt", "crashed", "done"} => phys = <<>>

StackInv == pc \in HandlerPoints \cup {"opt"} => IsMem(mem) /\ StackOK(img, phys)

OptInv == pc = "opt" => IsCpu(cpu) /\ inlined = FALSE /\ ReturnsOK(img, phys, mem)

FailureInv == pc \in HandlerPoints => FailureOK(img, phys, sm_id, ret)

CollectInv ==
  pc = "collect" => CollectOK(img, phys, frames, mem, idx) /\ inlined = FALSE

InlineInv ==
  pc = "inline" =>
    /\ IsCopy(copy) /\ copy.depth = Len(phys)
    /\ idx \in 1..Len(phys)
    /\ idx < Len(phys) => /\ CollectOK(img, phys, frames, mem, Len(phys))
                          /\ copy.shared /\ inlined = FALSE
                          /\ \A k \in 1..(idx - 1) : Len(phys[Len(phys) - k].acts) = 1
    /\ idx = Len(phys) => BelowOK(img, phys, frames, inlined)

FailInv == pc = "fail" => BelowOK(img, phys, frames, inlined)

MatchInv ==
  pc \in {"segment", "read", "restore", "jmp_to_addr", "jump_inlined"} =>
    Matches(img, frames, ActsIn(phys, Len(phys)))

SegmentInv ==
  /\ pc \in {"read", "restore"} =>
       /\ PlacesOK(img, phys, frames, inlined)
       /\ inlined => SegmentOK(seg)
  /\ pc = "segment" => inlined
  /\ pc = "restore" => idx \in Nat \ {0}
  /\ pc = "jump_inlined" => SegmentOK(seg)

IInv ==
  /\ Supported(img)
  /\ PcInv /\ StackInv /\ OptInv /\ FailureInv /\ CollectInv /\ InlineInv /\ FailInv
  /\ MatchInv /\ SegmentInv

-----------------------------------------------------------------------------
(***************************************************************************)
(* Records and functions after an assignment to one of their places.       *)
(***************************************************************************)
LEMMA RegsExcept ==
  ASSUME NEW g, IsRegs(g), NEW d, NEW v
  PROVE  /\ IsRegs([g EXCEPT ![d] = v])
         /\ d \in RegNums => [g EXCEPT ![d] = v][d] = v
         /\ \A e \in RegNums : e # d => [g EXCEPT ![d] = v][e] = g[e]
<1> DEFINE h == [g EXCEPT ![d] = v]
<1>1. DOMAIN g = RegNums
  BY Zenon DEF IsRegs
<1>2. h = [e \in RegNums |-> IF e = d THEN v ELSE g[e]]
  BY <1>1
<1> HIDE DEF h
<1>3. \A e \in RegNums : h[e] = IF e = d THEN v ELSE g[e]
  BY <1>2
<1>4. h = [e \in RegNums |-> h[e]]
  BY <1>2
<1> QED BY <1>3, <1>4 DEF IsRegs, h

\* A store changes one word.
LEMMA MemExcept ==
  ASSUME NEW m, IsMem(m), NEW a, NEW v
  PROVE  /\ IsMem([m EXCEPT ![a] = v])
         /\ a \in Stack \cup Heap => [m EXCEPT ![a] = v][a] = v
         /\ \A x \in Stack \cup Heap : x # a => [m EXCEPT ![a] = v][x] = m[x]
<1> DEFINE h == [m EXCEPT ![a] = v]
           S == Stack \cup Heap
<1>1. m = [x \in S |-> m[x]]
  BY DEF IsMem
<1> HIDE DEF S
<1>2. h = [x \in S |-> IF x = a THEN v ELSE m[x]]
  BY <1>1
<1> HIDE DEF h
<1>3. \A x \in S : h[x] = IF x = a THEN v ELSE m[x]
  BY <1>2
<1>4. h = [x \in S |-> h[x]]
  BY <1>2
<1> QED BY <1>3, <1>4 DEF IsMem, h, S

\* Write changes the words it is given and no other.
LEMMA MemWrite ==
  ASSUME NEW m, IsMem(m), NEW f
  PROVE  /\ IsMem(Write(m, f))
         /\ \A x \in Stack \cup Heap : x \notin DOMAIN f => Write(m, f)[x] = m[x]
         /\ \A x \in Stack \cup Heap : x \in DOMAIN f => Write(m, f)[x] = f[x]
<1> DEFINE h == Write(m, f)
           S == Stack \cup Heap
<1>1. DOMAIN m = S
  BY Zenon DEF IsMem
<1> HIDE DEF S
<1>2. h = [x \in S |-> IF x \in DOMAIN f THEN f[x] ELSE m[x]]
  BY <1>1 DEF Write
<1> HIDE DEF h
<1>3. \A x \in S : h[x] = IF x \in DOMAIN f THEN f[x] ELSE m[x]
  BY <1>2
<1>4. h = [x \in S |-> h[x]]
  BY <1>2
<1> QED BY <1>3, <1>4 DEF IsMem, h, S

\* An activation that goes on keeps its function and its variables.
LEMMA ActAt ==
  ASSUME NEW a, IsAct(a), NEW v
  PROVE  /\ IsAct([a EXCEPT !.at = v])
         /\ [a EXCEPT !.at = v].fun = a.fun
         /\ [a EXCEPT !.at = v].at = v
         /\ [a EXCEPT !.at = v].vals = a.vals
<1>1. [a EXCEPT !.at = v] = [fun |-> a.fun, at |-> v, vals |-> a.vals]
  BY DEF IsAct
<1> QED BY <1>1 DEF IsAct

\* A sequence with another last element.
LEMMA LastChanged ==
  ASSUME NEW s, IsSeq(s), Len(s) >= 1, NEW e
  PROVE  /\ IsSeq([s EXCEPT ![Len(s)] = e])
         /\ Len([s EXCEPT ![Len(s)] = e]) = Len(s)
         /\ \A i \in 1..(Len(s) - 1) : [s EXCEPT ![Len(s)] = e][i] = s[i]
         /\ [s EXCEPT ![Len(s)] = e][Len(s)] = e
<1> DEFINE n == Len(s)
           t == [s EXCEPT ![n] = e]
<1>1. n \in Nat /\ n >= 1 /\ s = [i \in 1..n |-> s[i]]
  BY DEF IsSeq
<1> HIDE DEF n
<1>2. t = [i \in 1..n |-> IF i = n THEN e ELSE s[i]]
  BY <1>1
<1> HIDE DEF t
<1>3. /\ t = [i \in 1..n |-> t[i]]
      /\ \A i \in 1..(n - 1) : t[i] = s[i]
      /\ t[n] = e
  BY <1>1, <1>2
<1>4. IsSeq(t) /\ Len(t) = n
  BY <1>1, <1>3, FunctionIsSeq
<1> QED BY <1>3, <1>4 DEF n, t

\* A sequence without its last element.
LEMMA FrontAny ==
  ASSUME NEW s, IsSeq(s), Len(s) >= 1
  PROVE  /\ IsSeq(Front(s)) /\ Len(Front(s)) = Len(s) - 1
         /\ \A i \in 1..(Len(s) - 1) : Front(s)[i] = s[i]
<1> DEFINE n == Len(s)
<1>1. n \in Nat /\ n >= 1
  BY DEF IsSeq
<1> HIDE DEF n
<1>2. 1 \in Nat \ {0} /\ n - 1 \in Nat /\ 1 <= (n - 1) + 1
  BY <1>1
<1>3. /\ IsSeq(SubSeq(s, 1, n - 1))
      /\ Len(SubSeq(s, 1, n - 1)) = ((n - 1) + 1) - 1
      /\ \A i \in 1..(((n - 1) + 1) - 1) : SubSeq(s, 1, n - 1)[i] = s[(1 + i) - 1]
  BY <1>2, SubSeqAny
<1>4. ((n - 1) + 1) - 1 = n - 1 /\ \A i \in 1..(n - 1) : (1 + i) - 1 = i
  BY <1>1
<1> QED BY <1>3, <1>4 DEF Front, n

\* The first element found is one of those searched.
LEMMA FirstOfIn ==
  ASSUME NEW S \in SUBSET Nat, FirstOf(S) # NULL
  PROVE  FirstOf(S) \in S
<1>1. S # {}
  BY DEF FirstOf
<1>2. PICK x \in S : \A y \in S : x <= y
  BY <1>1, LeastNatural
<1> QED BY <1>1, <1>2 DEF FirstOf

\* What the lookups by ID find.
LEMMA MapRecordFound ==
  ASSUME NEW s, NEW id, stmap_get_map_record(s, id) # NULL
  PROVE  /\ stmap_get_map_record(s, id) \in 1..Len(s.recs)
         /\ s.recs[stmap_get_map_record(s, id)].patchpoint_id = id
<1> DEFINE T == {i \in 1..Len(s.recs) : s.recs[i].patchpoint_id = id}
<1>1. T \in SUBSET Nat
  OBVIOUS
<1>2. FirstOf(T) # NULL
  BY DEF stmap_get_map_record
<1> HIDE DEF T
<1>3. FirstOf(T) \in T
  BY <1>1, <1>2, FirstOfIn
<1> QED BY <1>3 DEF T, stmap_get_map_record

\* What the lookup by ID and address finds.
LEMMA RecordAfterFound ==
  ASSUME NEW s, NEW id, NEW addr, stmap_get_map_record_after_addr(s, id, addr) # NULL
  PROVE  /\ stmap_get_map_record_after_addr(s, id, addr) \in 1..Len(s.recs)
         /\ s.recs[stmap_get_map_record_after_addr(s, id, addr)].patchpoint_id = id
<1> DEFINE T == {i \in 1..Len(s.recs) :
                   /\ s.recs[i].patchpoint_id = id
                   /\ AddrOf(s, i) >= addr
                   /\ addr >= FunAddrOf(s, i)
                   /\ addr < get_sym_end(s, FunAddrOf(s, i))}
<1>1. T \in SUBSET Nat
  OBVIOUS
<1>2. FirstOf(T) # NULL
  BY DEF stmap_get_map_record_after_addr
<1>3. T \subseteq {i \in 1..Len(s.recs) : s.recs[i].patchpoint_id = id}
  OBVIOUS
<1> HIDE DEF T
<1>4. FirstOf(T) \in T
  BY <1>1, <1>2, FirstOfIn
<1> QED BY <1>3, <1>4 DEF T, stmap_get_map_record_after_addr

-----------------------------------------------------------------------------
(***************************************************************************)
(* The activations of a stack, frame by frame.                             *)
(***************************************************************************)
LEMMA PrefixSeq ==
  ASSUME NEW ph, NEW n \in Nat
  PROVE  IsSeq([k \in 1..n |-> ph[k].acts]) /\ Len([k \in 1..n |-> ph[k].acts]) = n
<1> DEFINE ss == [k \in 1..n |-> ph[k].acts]
<1>1. ss = [k \in 1..n |-> ss[k]]
  OBVIOUS
<1> HIDE DEF ss
<1> QED BY <1>1, FunctionIsSeq DEF ss

\* The activations of one more frame come last.
LEMMA ActsInStep ==
  ASSUME NEW ph, NEW n \in Nat \ {0}, \A k \in 1..n : IsSeq(ph[k].acts)
  PROVE  ActsIn(ph, n) = ActsIn(ph, n - 1) \o ph[n].acts
<1> DEFINE ss == [k \in 1..n |-> ph[k].acts]
           tt == [k \in 1..(n - 1) |-> ph[k].acts]
<1>1. /\ n \in Nat /\ n - 1 \in Nat
      /\ IsSeq(ss) /\ Len(ss) = n /\ IsSeq(tt) /\ Len(tt) = n - 1
  BY PrefixSeq
<1>2. \A k \in 1..n : ss[k] = ph[k].acts
  OBVIOUS
<1>3. \A k \in 1..(n - 1) : tt[k] = ph[k].acts /\ k \in 1..n
  BY <1>1
<1>4. ActsIn(ph, n) = FlattenSeq(ss) /\ ActsIn(ph, n - 1) = FlattenSeq(tt)
  BY DEF ActsIn
<1> HIDE DEF ss, tt
<1>5. PICK p : /\ p = [i \in 1..Len(ss) |-> IF i = 1 THEN ss[i] ELSE p[i - 1] \o ss[i]]
               /\ Len(ss) # 0 => FlattenSeq(ss) = p[Len(ss)]
  BY Zenon, <1>1, FlattenPrefixes
<1>6. PICK q : /\ q = [i \in 1..Len(tt) |-> IF i = 1 THEN tt[i] ELSE q[i - 1] \o tt[i]]
               /\ Len(tt) # 0 => FlattenSeq(tt) = q[Len(tt)]
  BY Zenon, <1>1, FlattenPrefixes
<1>7. \A i \in 1..n : p[i] = IF i = 1 THEN ss[i] ELSE p[i - 1] \o ss[i]
  <2> DEFINE Def(i) == IF i = 1 THEN ss[i] ELSE p[i - 1] \o ss[i]
  <2>1. p = [i \in 1..n |-> Def(i)]
    BY Zenon, <1>1, <1>5
  <2> HIDE DEF Def
  <2>2. \A i \in 1..n : p[i] = Def(i)
    BY <2>1
  <2> QED BY <2>2 DEF Def
<1>8. \A i \in 1..(n - 1) : q[i] = IF i = 1 THEN tt[i] ELSE q[i - 1] \o tt[i]
  <2> DEFINE Def(i) == IF i = 1 THEN tt[i] ELSE q[i - 1] \o tt[i]
  <2>1. q = [i \in 1..(n - 1) |-> Def(i)]
    BY Zenon, <1>1, <1>6
  <2> HIDE DEF Def
  <2>2. \A i \in 1..(n - 1) : q[i] = Def(i)
    BY <2>1
  <2> QED BY <2>2 DEF Def
<1>9. CASE n = 1
  <2>1. FlattenSeq(ss) = ph[1].acts
    BY <1>1, <1>2, <1>5, <1>7, <1>9
  <2>2. FlattenSeq(tt) = tt /\ Len(tt) = 0
    BY <1>1, <1>9 DEF FlattenSeq
  <2>3. IsSeq(ph[1].acts)
    BY <1>9
  <2>4. /\ IsSeq(tt \o ph[1].acts) /\ Len(tt \o ph[1].acts) = Len(tt) + Len(ph[1].acts)
        /\ \A i \in 1..Len(ph[1].acts) : (tt \o ph[1].acts)[Len(tt) + i] = ph[1].acts[i]
    BY <1>1, <2>3, ConcatAny
  <2>5. /\ Len(tt \o ph[1].acts) = Len(ph[1].acts)
        /\ \A i \in 1..Len(ph[1].acts) : (tt \o ph[1].acts)[i] = ph[1].acts[i]
    BY <2>2, <2>3, <2>4 DEF IsSeq
  <2>6. tt \o ph[1].acts = ph[1].acts
    BY <2>3, <2>4, <2>5, SeqsEqual
  <2> QED BY <1>4, <1>9, <2>1, <2>2, <2>6
<1>10. CASE n # 1
  <2> DEFINE P == {i \in 1..(n - 1) : p[i] = q[i]}
  <2>1. 1 \in P
    BY <1>1, <1>2, <1>3, <1>7, <1>8, <1>10
  <2>2. ASSUME NEW i \in 1..((n - 1) - 1), i \in P PROVE i + 1 \in P
    <3>1. i + 1 \in 1..n /\ i + 1 \in 1..(n - 1) /\ i + 1 # 1 /\ (i + 1) - 1 = i
      BY <1>1, <1>10
    <3>2. p[i + 1] = p[i] \o ss[i + 1] /\ q[i + 1] = q[i] \o tt[i + 1]
      BY <1>7, <1>8, <3>1
    <3>3. ss[i + 1] = tt[i + 1]
      BY <1>2, <1>3, <3>1
    <3> QED BY <2>2, <3>1, <3>2, <3>3
  <2>3. 1 \in Nat
    OBVIOUS
  <2> HIDE DEF P
  <2>4. \A i \in 1..(n - 1) : i \in P
    BY <1>1, <2>1, <2>2, <2>3, IntervalInduction
  <2>5. n - 1 \in 1..(n - 1) /\ n \in 1..n /\ n # 0 /\ n - 1 # 0
    BY <1>1, <1>10
  <2>6. p[n - 1] = q[n - 1]
    BY <2>4, <2>5 DEF P
  <2>7. p[n] = p[n - 1] \o ph[n].acts
    BY <1>2, <1>7, <1>10, <2>5
  <2>8. FlattenSeq(ss) = p[n] /\ FlattenSeq(tt) = q[n - 1]
    BY <1>1, <1>5, <1>6, <2>5
  <2> QED BY <1>4, <2>6, <2>7, <2>8
<1> QED BY <1>9, <1>10

\* They are a sequence.
LEMMA ActsInSeq ==
  ASSUME NEW ph, NEW n \in Nat, \A k \in 1..n : IsSeq(ph[k].acts)
  PROVE  IsSeq(ActsIn(ph, n))
<1> DEFINE ss == [k \in 1..n |-> ph[k].acts]
<1>1. IsSeq(ss) /\ Len(ss) = n
  BY PrefixSeq
<1>2. \A k \in 1..n : IsSeq(ss[k])
  OBVIOUS
<1>3. ActsIn(ph, n) = FlattenSeq(ss)
  BY DEF ActsIn
<1> HIDE DEF ss
<1>4. IsFlattened(ss, FlattenSeq(ss), Starts(ss))
  BY <1>1, <1>2, FlattenLayout
<1> QED BY <1>3, <1>4 DEF IsFlattened

\* Only the frames that are counted matter.
LEMMA ActsInSame ==
  ASSUME NEW ph, NEW ph2, NEW n, \A k \in 1..n : ph[k].acts = ph2[k].acts
  PROVE  ActsIn(ph, n) = ActsIn(ph2, n)
<1>1. [k \in 1..n |-> ph[k].acts] = [k \in 1..n |-> ph2[k].acts]
  OBVIOUS
<1> QED BY Zenon, <1>1 DEF ActsIn

\* No frame is without an activation.
LEMMA ActsInCount ==
  ASSUME NEW ph, NEW N \in Nat, \A k \in 1..N : IsSeq(ph[k].acts) /\ Len(ph[k].acts) >= 1
  PROVE  \A n \in 0..N : Len(ActsIn(ph, n)) >= n
<1> DEFINE P == {n \in 0..N : Len(ActsIn(ph, n)) >= n}
<1>1. \A n \in 0..N : /\ IsSeq(ActsIn(ph, n)) /\ Len(ActsIn(ph, n)) \in Nat
  <2> TAKE n \in 0..N
  <2>1. n \in Nat /\ \A k \in 1..n : IsSeq(ph[k].acts)
    OBVIOUS
  <2>2. IsSeq(ActsIn(ph, n))
    BY <2>1, ActsInSeq
  <2> QED BY <2>2 DEF IsSeq
<1>2. 0 \in P
  BY <1>1
<1>3. ASSUME NEW n \in 0..(N - 1), n \in P PROVE n + 1 \in P
  <2>1. /\ n + 1 \in Nat \ {0} /\ (n + 1) - 1 = n /\ n + 1 \in 0..N /\ n \in 0..N
        /\ n + 1 \in 1..N /\ \A k \in 1..(n + 1) : IsSeq(ph[k].acts)
    OBVIOUS
  <2>2. ActsIn(ph, n + 1) = ActsIn(ph, n) \o ph[n + 1].acts
    BY <2>1, ActsInStep
  <2>3. Len(ActsIn(ph, n + 1)) = Len(ActsIn(ph, n)) + Len(ph[n + 1].acts)
    BY <1>1, <2>1, <2>2, ConcatAny
  <2>4. Len(ph[n + 1].acts) \in Nat /\ Len(ph[n + 1].acts) >= 1
    BY <2>1 DEF IsSeq
  <2>5. Len(ActsIn(ph, n)) \in Nat /\ Len(ActsIn(ph, n)) >= n
    BY <1>1, <1>3, <2>1
  <2>6. Len(ActsIn(ph, n + 1)) >= n + 1
    BY <2>3, <2>4, <2>5
  <2> QED BY <2>1, <2>6
<1>4. 0 \in Nat
  OBVIOUS
<1> HIDE DEF P
<1>5. \A n \in 0..N : n \in P
  BY <1>2, <1>3, <1>4, IntervalInduction
<1> QED BY <1>5 DEF P

-----------------------------------------------------------------------------
(***************************************************************************)
(* The functions that run, and the sites their frames can be at.           *)
(***************************************************************************)
LEMMA MainRuns ==
  ASSUME NEW b, ProgramOK(b)
  PROVE  "main" \in FunctionsRun(b)
BY DEF ProgramOK, FunctionsRun, CallsStayIn

\* A function called by one that runs runs too.
LEMMA CalleeRuns ==
  ASSUME NEW b, NEW f \in FunctionsRun(b), NEW w \in SitePaths(b, f),
         SiteOf(b, w).kind = "call", SiteOf(b, w).callee \in DOMAIN b.prog.body
  PROVE  SiteOf(b, w).callee \in FunctionsRun(b)
<1> SUFFICES ASSUME NEW F \in SUBSET DOMAIN b.prog.body, CallsStayIn(b, F)
             PROVE  SiteOf(b, w).callee \in F
  BY DEF FunctionsRun
<1>1. f \in F
  BY DEF FunctionsRun
<1> QED BY <1>1 DEF CallsStayIn

\* A function that runs is in the program.
LEMMA RunsInBody ==
  ASSUME NEW b, NEW f \in FunctionsRun(b)
  PROVE  f \in DOMAIN b.prog.body
BY DEF FunctionsRun

\* Paths, element by element.
LEMMA PathSeq ==
  ASSUME NEW acts, NEW k \in Nat
  PROVE  /\ IsSeq(PathTo(acts, k)) /\ Len(PathTo(acts, k)) = k
         /\ \A n \in 1..k : PathTo(acts, k)[n] = <<acts[n].fun, acts[n].at>>
<1> DEFINE w == PathTo(acts, k)
<1>1. w = [n \in 1..k |-> w[n]] /\ \A n \in 1..k : w[n] = <<acts[n].fun, acts[n].at>>
  BY DEF PathTo
<1> HIDE DEF w
<1> QED BY <1>1, FunctionIsSeq DEF w

\* A path is that of all activations of the frame.
LEMMA PathIsPathTo ==
  ASSUME NEW acts
  PROVE  Path(acts) = PathTo(acts, Len(acts))
BY DEF Path, PathTo

\* The outermost activation alone.
LEMMA PathOne ==
  ASSUME NEW acts
  PROVE  PathTo(acts, 1) = <<<<acts[1].fun, acts[1].at>>>>
<1> DEFINE s == <<acts[1].fun, acts[1].at>>
<1>1. /\ IsSeq(PathTo(acts, 1)) /\ Len(PathTo(acts, 1)) = 1
      /\ PathTo(acts, 1)[1] = s
  <2>1. 1 \in Nat /\ 1 \in 1..1
    OBVIOUS
  <2> QED BY Zenon, <2>1, PathSeq
<1> HIDE DEF s
<1>2. IsSeq(<<s>>) /\ Len(<<s>>) = 1 /\ <<s>>[1] = s
  BY TupleIsSeq
<1>3. \A i \in 1..1 : PathTo(acts, 1)[i] = <<s>>[i]
  BY <1>1, <1>2
<1> QED BY <1>1, <1>2, <1>3, SeqsEqual DEF s

\* One activation more makes the path one site longer.
LEMMA PathAppend ==
  ASSUME NEW acts, NEW k \in Nat
  PROVE  PathTo(acts, k + 1) = Append(PathTo(acts, k), <<acts[k + 1].fun, acts[k + 1].at>>)
<1> DEFINE s == <<acts[k + 1].fun, acts[k + 1].at>>
           v == PathTo(acts, k + 1)
           w == PathTo(acts, k)
<1>1. /\ IsSeq(v) /\ Len(v) = k + 1 /\ v[k + 1] = s
      /\ \A n \in 1..(k + 1) : v[n] = <<acts[n].fun, acts[n].at>>
  BY PathSeq
<1>2. /\ IsSeq(w) /\ Len(w) = k
      /\ \A n \in 1..k : w[n] = <<acts[n].fun, acts[n].at>>
  BY PathSeq
<1> HIDE DEF s, v, w
<1>3. /\ IsSeq(Append(w, s)) /\ Len(Append(w, s)) = k + 1
      /\ \A i \in 1..k : Append(w, s)[i] = w[i]
      /\ Append(w, s)[k + 1] = s
  BY <1>2, AppendAny
<1>4. \A i \in 1..(k + 1) : v[i] = Append(w, s)[i]
  BY <1>1, <1>2, <1>3
<1> QED BY <1>1, <1>3, <1>4, SeqsEqual DEF s, v, w

\* A frame whose innermost activation is at a site is at the copy of the
\* site in its code.
LEMMA PathAtSite ==
  ASSUME NEW b, CodeOK(b), NEW f \in FunctionsRun(b), NEW acts, ActsOK(b, f, acts),
         Last(acts).at <= Len(b.prog.body[Last(acts).fun])
  PROVE  /\ Path(acts) \in SitePaths(b, f)
         /\ Last(Path(acts)) = <<Last(acts).fun, Last(acts).at>>
         /\ SiteOf(b, Path(acts)) = b.prog.body[Last(acts).fun][Last(acts).at]
         /\ IsSeq(Path(acts)) /\ Len(Path(acts)) = Len(acts)
         /\ \A n \in 1..Len(acts) : Path(acts)[n] = <<acts[n].fun, acts[n].at>>
<1> DEFINE N == Len(acts)
           a == Last(acts)
<1>1. N \in Nat /\ N >= 1 /\ a = acts[N] /\ acts[1].fun = f
  BY DEF ActsOK, IsSeq, Last
<1>2. /\ a.at \in 1..(Len(b.prog.body[a.fun]) + 1) /\ a.at <= Len(b.prog.body[a.fun])
      /\ a.at \in 1..Len(b.prog.body[a.fun])
  BY DEF ActsOK
<1>3. /\ IsSeq(Path(acts)) /\ Len(Path(acts)) = N
      /\ \A n \in 1..N : Path(acts)[n] = <<acts[n].fun, acts[n].at>>
  BY <1>1, PathSeq, PathIsPathTo
<1>4. Last(Path(acts)) = <<a.fun, a.at>>
  BY <1>1, <1>3 DEF Last
<1>5. SiteOf(b, Path(acts)) = b.prog.body[a.fun][a.at]
  BY <1>4 DEF SiteOf
<1>6. Path(acts) \in SitePaths(b, f)
  <2>1. CASE N = 1
    <3>1. Path(acts) = <<<<f, a.at>>>>
      BY <1>1, <2>1, PathOne, PathIsPathTo
    <3>2. a.fun = f
      BY <1>1, <2>1
    <3> QED BY <1>2, <3>1, <3>2 DEF CodeOK
  <2>2. CASE N # 1
    <3> DEFINE k == N - 1
               w == PathTo(acts, k)
    <3>1. k \in Nat /\ k \in 1..(N - 1) /\ k + 1 = N /\ k \in 1..k
      <4>1. N \in Nat /\ N >= 1 /\ N # 1
        BY <1>1, <2>2
      <4> HIDE DEF N
      <4> QED BY <4>1
    <3>2. Path(acts) = Append(w, <<a.fun, a.at>>)
      BY <1>1, <3>1, PathAppend, PathIsPathTo
    <3>3. InlinedNext(b, f, acts, k) /\ a = acts[k + 1]
      BY <1>1, <3>1 DEF ActsOK
    <3>4. Last(w) = <<acts[k].fun, acts[k].at>>
      BY <3>1, PathSeq DEF Last
    <3>5. SiteOf(b, w) = b.prog.body[acts[k].fun][acts[k].at]
      BY <3>4 DEF SiteOf
    <3>6. w \in SitePaths(b, f) /\ IsInlined(SiteOf(b, w)) /\ SiteOf(b, w).callee = a.fun
      BY <3>3, <3>5 DEF InlinedNext
    <3> HIDE DEF w, a
    <3> QED BY <1>2, <3>2, <3>6 DEF CodeOK
  <2> QED BY <2>1, <2>2
<1> QED BY <1>1, <1>3, <1>4, <1>5, <1>6

-----------------------------------------------------------------------------
(***************************************************************************)
(* There is room for the frames.                                           *)
(***************************************************************************)
LEMMA Products ==
  ASSUME NEW s \in Nat
  PROVE  /\ \A m \in Nat : (m + 1) * s = m * s + s
         /\ \A m, n \in Nat : m <= n => m * s <= n * s
OBVIOUS

\* Frame m of the stack is at most m - 1 frames below main.
LEMMA StackLow ==
  ASSUME NEW b, NEW size \in Nat, RoomFor(b, size), FramesOK(b), NEW ph, StackOK(b, ph)
  PROVE  \A m \in 1..Len(ph) : ph[m].bp \in Int /\ ph[m].bp >= MainBp - (m - 1) * (size + 1)
<1> DEFINE N == Len(ph)
           P == {m \in 1..N : ph[m].bp >= MainBp - (m - 1) * (size + 1)}
<1>1. N \in Nat /\ N >= 1 /\ \A m \in 1..N : ph[m].bp \in Int
  BY DEF StackOK, IsSeq, FrameOK
<1>2. 1 \in P
  <2>1. (1 - 1) * (size + 1) = 0 /\ ph[1].bp = MainBp /\ MainBp \in Int
    BY MemoryAssumption DEF StackOK
  <2> QED BY <1>1, <2>1
<1>3. ASSUME NEW m \in 1..(N - 1), m \in P PROVE m + 1 \in P
  <2>1. m \in 1..N /\ m + 1 \in 1..N /\ (m + 1) - 1 = m /\ m - 1 \in Nat /\ (m - 1) + 1 = m
    BY <1>1
  <2>2. ph[m + 1].bp = ph[m].bp - StackSize(b, ph[m].fun) - 1
    BY DEF StackOK, CallsFrame
  <2>3. ph[m].fun \in DOMAIN b.prog.body
    BY <2>1, RunsInBody DEF StackOK, FrameOK
  <2>4. StackSize(b, ph[m].fun) \in Nat /\ StackSize(b, ph[m].fun) <= size
    BY <2>3 DEF RoomFor, FramesOK
  <2>5. m * (size + 1) = (m - 1) * (size + 1) + (size + 1)
    <3>1. size + 1 \in Nat
      OBVIOUS
    <3>2. ((m - 1) + 1) * (size + 1) = (m - 1) * (size + 1) + (size + 1)
      BY ONLY <2>1, <3>1, Products
    <3> QED BY <2>1, <3>2
  <2> DEFINE x == (m - 1) * (size + 1)
             y == m * (size + 1)
  <2>6. x \in Int /\ y \in Int /\ y = x + (size + 1)
    BY <2>1, <2>5
  <2>7. ph[m].bp >= MainBp - x /\ ph[m].bp \in Int /\ MainBp \in Int
    BY <1>1, <1>3, <2>1, MemoryAssumption
  <2> HIDE DEF x, y
  <2>8. ph[m + 1].bp >= MainBp - y
    BY <2>2, <2>4, <2>6, <2>7
  <2> QED BY <2>1, <2>8 DEF y
<1> HIDE DEF P
<1>4. \A m \in 1..N : m \in P
  BY <1>1, <1>2, <1>3, IntervalInduction
<1> QED BY <1>1, <1>4 DEF P

\* Every frame, and what it calls, is inside the stack.
LEMMA StackRoom ==
  ASSUME NEW b, Supported(b), NEW ph, StackOK(b, ph), NEW m \in 1..Len(ph)
  PROVE  /\ ph[m].bp \in Int /\ ph[m].bp <= MainBp
         /\ StackSize(b, ph[m].fun) \in Nat \ {0}
         /\ ph[m].bp - StackSize(b, ph[m].fun) - 1 > 2
         /\ MainBp + 1 \in Stack
<1>1. PICK size \in 1..StackTop : RoomFor(b, size)
  BY DEF Supported
<1> DEFINE N == Len(ph)
<1>2. N \in Nat /\ \A k \in 1..N : IsSeq(ph[k].acts) /\ Len(ph[k].acts) >= 1
  BY DEF StackOK, IsSeq, FrameOK, ActsOK
<1>3. N <= MaxDepth
  <2>1. N \in 0..N
    BY <1>2
  <2>2. Len(ActsIn(ph, N)) >= N
    BY <1>2, <2>1, ActsInCount
  <2>3. Len(ActsIn(ph, N)) \in Nat /\ Len(ActsIn(ph, N)) <= MaxDepth
    BY <1>2, ActsInSeq DEF IsSeq, StackOK
  <2> QED BY <1>2, <2>2, <2>3, MemoryAssumption
<1>4. ph[m].bp \in Int /\ ph[m].bp >= MainBp - (m - 1) * (size + 1)
  BY <1>1, StackLow DEF Supported
<1>5. ph[m].fun \in DOMAIN b.prog.body
  BY RunsInBody DEF StackOK, FrameOK
<1>6. StackSize(b, ph[m].fun) \in Nat \ {0} /\ StackSize(b, ph[m].fun) <= size
  BY <1>1, <1>5 DEF RoomFor, Supported, FramesOK
<1> DEFINE x == (m - 1) * (size + 1)
           y == m * (size + 1)
           z == MaxDepth * (size + 1)
<1>7. x \in Int /\ y \in Int /\ z \in Int /\ y = x + (size + 1) /\ y <= z /\ size + 1 <= z
  <2>1. /\ size + 1 \in Nat /\ m - 1 \in Nat /\ (m - 1) + 1 = m /\ m \in Nat /\ m <= MaxDepth
        /\ MaxDepth \in Nat /\ 1 \in Nat /\ 1 <= MaxDepth
    BY <1>2, <1>3, MemoryAssumption
  <2>2. ((m - 1) + 1) * (size + 1) = (m - 1) * (size + 1) + (size + 1)
    BY ONLY <2>1, Products
  <2>3. m * (size + 1) <= MaxDepth * (size + 1) /\ 1 * (size + 1) <= MaxDepth * (size + 1)
    BY ONLY <2>1, Products
  <2> QED BY <2>1, <2>2, <2>3
<1>8. z + 2 < MainBp /\ MainBp + z <= StackTop + 1
  BY <1>1 DEF RoomFor
<1>9. ph[m].bp <= MainBp
  BY DEF StackOK
<1>10. ph[m].bp >= MainBp - x
  BY <1>4
<1>11. MainBp \in Nat /\ StackTop \in Nat /\ size \in Nat /\ size >= 1
  BY MemoryAssumption
<1> HIDE DEF x, y, z
<1>12. ph[m].bp - StackSize(b, ph[m].fun) - 1 > 2
  BY <1>4, <1>6, <1>7, <1>8, <1>10, <1>11
<1>13. MainBp + 1 \in 1..StackTop
  BY <1>7, <1>8, <1>11
<1> QED BY <1>4, <1>6, <1>9, <1>12, <1>13 DEF Stack

-----------------------------------------------------------------------------
(***************************************************************************)
(* ph2 is the first n frames of ph with other activations in the last one. *)
(***************************************************************************)
ChangedAt(ph, ph2, n) ==
  /\ n \in 1..Len(ph)
  /\ IsSeq(ph2) /\ Len(ph2) = n
  /\ \A m \in 1..(n - 1) : ph2[m] = ph[m]
  /\ ph2[n].fun = ph[n].fun /\ ph2[n].bp = ph[n].bp

LastActs(ph, n) ==
  /\ ActsIn(ph, n) = ActsIn(ph, n - 1) \o ph[n].acts
  /\ IsSeq(ActsIn(ph, n - 1))
  /\ Len(ActsIn(ph, n)) = Len(ActsIn(ph, n - 1)) + Len(ph[n].acts)

\* Only the last part of the activations changes.
LEMMA ActsChanged ==
  ASSUME NEW b, NEW ph, StackOK(b, ph), NEW ph2, NEW n, ChangedAt(ph, ph2, n),
         IsSeq(ph2[n].acts)
  PROVE  /\ LastActs(ph, n) /\ LastActs(ph2, n)
         /\ ActsIn(ph2, n - 1) = ActsIn(ph, n - 1)
<1>1. n \in Nat \ {0} /\ n - 1 \in Nat /\ n \in 1..n
  BY DEF ChangedAt
<1>2. \A k \in 1..n : IsSeq(ph[k].acts)
  <2> TAKE k \in 1..n
  <2>1. k \in 1..Len(ph)
    <3>1. Len(ph) \in Nat /\ n \in 1..Len(ph)
      BY DEF ChangedAt, StackOK, IsSeq
    <3> QED BY <3>1
  <2> QED BY <2>1 DEF StackOK, FrameOK, ActsOK
<1>3. \A k \in 1..n : IsSeq(ph2[k].acts)
  <2> TAKE k \in 1..n
  <2>1. CASE k = n
    BY <2>1
  <2>2. CASE k # n
    <3>1. k \in 1..(n - 1)
      BY <1>1, <2>2
    <3> QED BY <1>2, <3>1 DEF ChangedAt
  <2> QED BY <2>1, <2>2
<1>4. ActsIn(ph2, n) = ActsIn(ph2, n - 1) \o ph2[n].acts
  BY <1>1, <1>3, ActsInStep
<1>5. ActsIn(ph, n) = ActsIn(ph, n - 1) \o ph[n].acts
  BY <1>1, <1>2, ActsInStep
<1>6. ActsIn(ph2, n - 1) = ActsIn(ph, n - 1)
  <2>1. \A k \in 1..(n - 1) : ph2[k].acts = ph[k].acts
    BY DEF ChangedAt
  <2> QED BY Zenon, <2>1, ActsInSame
<1>7. IsSeq(ActsIn(ph, n - 1))
  <2>1. \A k \in 1..(n - 1) : IsSeq(ph[k].acts)
    BY <1>1, <1>2
  <2> QED BY <1>1, <2>1, ActsInSeq
<1>8. IsSeq(ph[n].acts)
  BY <1>1, <1>2
<1>9. /\ Len(ActsIn(ph, n - 1) \o ph2[n].acts) = Len(ActsIn(ph, n - 1)) + Len(ph2[n].acts)
      /\ Len(ActsIn(ph, n - 1) \o ph[n].acts) = Len(ActsIn(ph, n - 1)) + Len(ph[n].acts)
  BY <1>7, <1>8, ConcatAny
<1> QED BY <1>4, <1>5, <1>6, <1>7, <1>9 DEF LastActs

\* The stack is still in order after such a change.
LEMMA StackChanged ==
  ASSUME NEW b, NEW ph, StackOK(b, ph), NEW ph2, NEW n, ChangedAt(ph, ph2, n),
         FrameOK(b, ph2[n]), Len(ActsIn(ph2, n)) <= MaxDepth
  PROVE  StackOK(b, ph2)
<1>1. n \in Nat /\ n >= 1 /\ Len(ph) \in Nat /\ n <= Len(ph)
  BY DEF ChangedAt, StackOK, IsSeq
<1>2. IsSeq(ph2) /\ Len(ph2) = n /\ Len(ph2) >= 1
  BY <1>1 DEF ChangedAt
<1>3. \A m \in 1..n : ph2[m].fun = ph[m].fun /\ ph2[m].bp = ph[m].bp
  <2> TAKE m \in 1..n
  <2>1. m = n \/ m \in 1..(n - 1)
    BY <1>1
  <2> QED BY <2>1 DEF ChangedAt
<1>4. \A m \in 1..n : FrameOK(b, ph2[m])
  <2> TAKE m \in 1..n
  <2>1. m = n \/ (m \in 1..(n - 1) /\ m \in 1..Len(ph))
    BY <1>1
  <2> QED BY <2>1 DEF ChangedAt, StackOK
<1>5. \A m \in 1..(n - 1) : CallsFrame(b, ph2[m], ph2[m + 1])
  <2> TAKE m \in 1..(n - 1)
  <2>1. m + 1 \in 1..n /\ m \in 1..(Len(ph) - 1)
    BY <1>1
  <2>2. ph2[m] = ph[m] /\ CallsFrame(b, ph[m], ph[m + 1])
    BY <2>1 DEF ChangedAt, StackOK
  <2> QED BY <1>3, <2>1, <2>2 DEF CallsFrame
<1>6. ph2[1].fun = "main" /\ ph2[1].bp = MainBp
  BY <1>1, <1>3 DEF StackOK
<1>7. \A m, k \in 1..n : m <= k => ph2[k].bp <= ph2[m].bp
  BY <1>1, <1>3 DEF StackOK
<1> QED BY <1>2, <1>4, <1>5, <1>6, <1>7 DEF StackOK

\* And the return addresses stay what they were.
LEMMA ReturnsChanged ==
  ASSUME NEW b, NEW ph, NEW ph2, NEW n, ChangedAt(ph, ph2, n),
         NEW m, ReturnsOK(b, ph, m), Len(ph) \in Nat
  PROVE  ReturnsOK(b, ph2, m)
<1> SUFFICES ASSUME NEW k \in 2..n
             PROVE  m[ph2[k].bp + 1] = CallAddr(b, ph2[k - 1])
  BY DEF ChangedAt, ReturnsOK
<1>1. k - 1 \in 1..(n - 1) /\ (k = n \/ k \in 1..(n - 1)) /\ k \in 2..Len(ph)
  BY DEF ChangedAt
<1>2. ph2[k - 1] = ph[k - 1] /\ ph2[k].bp = ph[k].bp
  BY <1>1 DEF ChangedAt
<1> QED BY <1>1, <1>2 DEF ReturnsOK

\* A call pushes a frame below all others.
LEMMA StackPushed ==
  ASSUME NEW b, Supported(b), NEW ph, StackOK(b, ph), NEW p, FrameOK(b, p),
         CallsFrame(b, Last(ph), p), Len(p.acts) = 1,
         Len(ActsIn(ph, Len(ph))) < MaxDepth
  PROVE  StackOK(b, Append(ph, p))
<1> DEFINE N == Len(ph)
           q == Append(ph, p)
<1>1. N \in Nat /\ N >= 1 /\ IsSeq(ph)
  BY DEF StackOK, IsSeq
<1>2. /\ IsSeq(q) /\ Len(q) = N + 1
      /\ \A i \in 1..N : q[i] = ph[i]
      /\ q[N + 1] = p
  BY <1>1, AppendAny
<1> HIDE DEF q
<1>3. \A m \in 1..(N + 1) : FrameOK(b, q[m])
  <2> TAKE m \in 1..(N + 1)
  <2>1. m \in 1..N \/ m = N + 1
    BY <1>1
  <2> QED BY <1>2, <2>1 DEF StackOK
<1>4. \A m \in 1..N : CallsFrame(b, q[m], q[m + 1])
  <2> TAKE m \in 1..N
  <2>1. CASE m = N
    BY <1>2, <2>1 DEF Last
  <2>2. CASE m # N
    <3>1. m \in 1..(N - 1) /\ m + 1 \in 1..N
      BY <1>1, <2>2
    <3> QED BY <1>2, <3>1 DEF StackOK
  <2> QED BY <2>1, <2>2
<1>5. q[1].fun = "main" /\ q[1].bp = MainBp
  BY <1>1, <1>2 DEF StackOK
<1>6. \A m \in 1..N : p.bp <= ph[m].bp /\ ph[m].bp \in Int /\ p.bp \in Int
  <2> TAKE m \in 1..N
  <2>1. N \in 1..N
    BY <1>1
  <2>2. ph[N].bp <= ph[m].bp /\ ph[m].bp \in Int /\ ph[N].bp \in Int
    BY <1>1, <2>1 DEF StackOK, FrameOK
  <2>3. p.bp = ph[N].bp - StackSize(b, ph[N].fun) - 1 /\ StackSize(b, ph[N].fun) \in Nat
    BY Zenon, <2>1, StackRoom DEF CallsFrame, Last
  <2> QED BY <2>2, <2>3
<1>7. \A m, k \in 1..(N + 1) : m <= k => q[k].bp <= q[m].bp
  <2> TAKE m, k \in 1..(N + 1)
  <2>1. (m \in 1..N \/ m = N + 1) /\ (k \in 1..N \/ k = N + 1)
    BY <1>1
  <2>2. CASE k \in 1..N
    <3>1. m <= k => m \in 1..N
      BY <1>1, <2>2
    <3> QED BY <1>2, <2>2, <3>1 DEF StackOK
  <2>3. CASE k = N + 1 /\ m \in 1..N
    BY <1>2, <1>6, <2>3
  <2>4. CASE k = N + 1 /\ m = N + 1
    BY <1>1, <1>2, <1>6, <2>4
  <2> QED BY <2>1, <2>2, <2>3, <2>4
<1>8. Len(ActsIn(q, N + 1)) <= MaxDepth
  <2>1. \A k \in 1..N : q[k].acts = ph[k].acts /\ IsSeq(ph[k].acts)
    BY <1>2 DEF StackOK, FrameOK, ActsOK
  <2>2. IsSeq(p.acts)
    BY DEF FrameOK, ActsOK
  <2>3. \A k \in 1..(N + 1) : IsSeq(q[k].acts)
    <3> TAKE k \in 1..(N + 1)
    <3>1. k \in 1..N \/ k = N + 1
      BY <1>1
    <3> QED BY <1>2, <2>1, <2>2, <3>1
  <2>4. ActsIn(q, N + 1) = ActsIn(q, N) \o p.acts
    <3>1. N + 1 \in Nat \ {0} /\ (N + 1) - 1 = N
      BY <1>1
    <3> QED BY <1>2, <2>3, <3>1, ActsInStep
  <2>5. ActsIn(q, N) = ActsIn(ph, N)
    BY Zenon, <2>1, ActsInSame
  <2>6. IsSeq(ActsIn(ph, N))
    BY <1>1, <2>1, ActsInSeq
  <2>7. Len(ActsIn(q, N + 1)) = Len(ActsIn(ph, N)) + 1
    <3>1. Len(ActsIn(ph, N) \o p.acts) = Len(ActsIn(ph, N)) + Len(p.acts)
      BY Zenon, <2>2, <2>6, ConcatAny
    <3> QED BY <2>4, <2>5, <3>1
  <2>8. Len(ActsIn(ph, N)) \in Nat
    BY <2>6 DEF IsSeq
  <2> QED BY <2>7, <2>8, MemoryAssumption
<1>9. Len(q) - 1 = N /\ Len(q) >= 1
  BY <1>1, <1>2
<1> QED BY <1>2, <1>3, <1>4, <1>5, <1>7, <1>8, <1>9 DEF StackOK, q

-----------------------------------------------------------------------------
(***************************************************************************)
(* The activations of a frame while optimized code runs in it.             *)
(***************************************************************************)
LEMMA PathToSame ==
  ASSUME NEW acts, NEW acts2, NEW k, \A n \in 1..k : acts2[n] = acts[n]
  PROVE  PathTo(acts2, k) = PathTo(acts, k)
<1>1. \A n \in 1..k : <<acts2[n].fun, acts2[n].at>> = <<acts[n].fun, acts[n].at>>
  OBVIOUS
<1>2. [n \in 1..k |-> <<acts2[n].fun, acts2[n].at>>] = [n \in 1..k |-> <<acts[n].fun, acts[n].at>>]
  BY Zenon, <1>1
<1> QED BY Zenon, <1>2 DEF PathTo

\* Every activation is one of a function of the program.
LEMMA ActsInBody ==
  ASSUME NEW b, NEW f, NEW acts, ActsOK(b, f, acts), NEW n \in 1..Len(acts)
  PROVE  /\ acts[n].fun \in DOMAIN b.prog.body
         /\ n < Len(acts) => acts[n].at \in 1..Len(b.prog.body[acts[n].fun])
<1>1. Len(acts) \in Nat /\ Last(acts) = acts[Len(acts)]
  BY DEF ActsOK, IsSeq, Last
<1>2. CASE n = Len(acts)
  BY <1>1, <1>2 DEF ActsOK
<1>3. CASE n # Len(acts)
  <2>1. n \in 1..(Len(acts) - 1)
    BY <1>1, <1>3
  <2> QED BY <2>1 DEF ActsOK, InlinedNext
<1> QED BY <1>2, <1>3

\* The first activations of a frame, the last of them at another site.
LEMMA ActsCut ==
  ASSUME NEW b, NEW f, NEW acts, ActsOK(b, f, acts),
         NEW acts2, IsSeq(acts2), Len(acts2) \in 1..Len(acts),
         \A k \in 1..(Len(acts2) - 1) : acts2[k] = acts[k],
         IsAct(acts2[Len(acts2)]),
         acts2[Len(acts2)].fun = acts[Len(acts2)].fun,
         acts2[Len(acts2)].at \in 1..(Len(b.prog.body[acts[Len(acts2)].fun]) + 1)
  PROVE  ActsOK(b, f, acts2)
<1> DEFINE N == Len(acts)
           n == Len(acts2)
<1>1. N \in Nat /\ n \in Nat /\ n >= 1 /\ n <= N /\ n \in 1..N
  BY DEF ActsOK, IsSeq
<1>2. Last(acts2) = acts2[n]
  BY DEF Last
<1>3. acts[n].fun \in DOMAIN b.prog.body
  BY <1>1, ActsInBody
<1>4. \A k \in 1..n : IsAct(acts2[k]) /\ acts2[k].fun = acts[k].fun
  <2> TAKE k \in 1..n
  <2>1. k = n \/ (k \in 1..(n - 1) /\ k \in 1..N)
    BY <1>1
  <2> QED BY <2>1 DEF ActsOK
<1>5. acts2[1].fun = f
  <2>1. 1 \in 1..n
    BY <1>1
  <2> QED BY <1>4, <2>1 DEF ActsOK
<1>6. \A k \in 1..(n - 1) : InlinedNext(b, f, acts2, k)
  <2> TAKE k \in 1..(n - 1)
  <2>1. k \in 1..(N - 1) /\ k + 1 \in 1..n
    BY <1>1
  <2>2. InlinedNext(b, f, acts, k)
    BY <2>1 DEF ActsOK
  <2>3. PathTo(acts2, k) = PathTo(acts, k)
    <3>1. \A m \in 1..k : acts2[m] = acts[m]
      BY <1>1
    <3> QED BY <3>1, PathToSame
  <2>4. acts2[k] = acts[k] /\ acts2[k + 1].fun = acts[k + 1].fun
    BY <1>4, <2>1
  <2> QED BY Zenon, <2>2, <2>3, <2>4 DEF InlinedNext
<1> HIDE DEF n
<1>7. n >= 1 /\ Last(acts2).fun = acts[n].fun
  BY <1>1, <1>2, <1>4
<1> QED BY <1>2, <1>3, <1>4, <1>5, <1>6, <1>7 DEF ActsOK, n

\* The innermost activation goes on after its site.
LEMMA AdvancedActs ==
  ASSUME NEW acts, IsSeq(acts), Len(acts) >= 1, \A k \in 1..Len(acts) : IsAct(acts[k])
  PROVE  /\ IsSeq(Advanced(acts)) /\ Len(Advanced(acts)) = Len(acts)
         /\ \A k \in 1..(Len(acts) - 1) : Advanced(acts)[k] = acts[k]
         /\ IsAct(Advanced(acts)[Len(acts)])
         /\ Advanced(acts)[Len(acts)].fun = acts[Len(acts)].fun
         /\ Advanced(acts)[Len(acts)].at = acts[Len(acts)].at + 1
         /\ Advanced(acts)[Len(acts)].vals = acts[Len(acts)].vals
<1> DEFINE n == Len(acts)
           a == acts[n]
           a2 == [a EXCEPT !.at = a.at + 1]
<1>1. Advanced(acts) = [acts EXCEPT ![n] = a2]
  BY DEF Advanced
<1>2. n \in 1..n /\ IsAct(a)
  BY DEF IsSeq
<1>3. IsAct(a2) /\ a2.fun = a.fun /\ a2.at = a.at + 1 /\ a2.vals = a.vals
  BY <1>2, ActAt
<1> HIDE DEF a2
<1>4. /\ IsSeq([acts EXCEPT ![n] = a2]) /\ Len([acts EXCEPT ![n] = a2]) = n
      /\ \A i \in 1..(n - 1) : [acts EXCEPT ![n] = a2][i] = acts[i]
      /\ [acts EXCEPT ![n] = a2][n] = a2
  BY LastChanged
<1> QED BY Zenon, <1>1, <1>3, <1>4

\* They still belong to the function of the frame.
LEMMA AdvancedOK ==
  ASSUME NEW b, ProgramOK(b), NEW f, NEW acts, ActsOK(b, f, acts),
         Last(acts).at <= Len(b.prog.body[Last(acts).fun])
  PROVE  ActsOK(b, f, Advanced(acts))
<1> DEFINE n == Len(acts)
<1>1. n \in Nat /\ n >= 1 /\ n \in 1..n /\ Last(acts) = acts[n]
  BY DEF ActsOK, IsSeq, Last
<1>2. /\ IsSeq(Advanced(acts)) /\ Len(Advanced(acts)) = n
      /\ \A k \in 1..(n - 1) : Advanced(acts)[k] = acts[k]
      /\ IsAct(Advanced(acts)[n])
      /\ Advanced(acts)[n].fun = acts[n].fun
      /\ Advanced(acts)[n].at = acts[n].at + 1
  BY AdvancedActs DEF ActsOK
<1>3. Len(b.prog.body[acts[n].fun]) \in Nat
  BY <1>1, ActsInBody DEF ProgramOK
<1>4. acts[n].at + 1 \in 1..(Len(b.prog.body[acts[n].fun]) + 1)
  BY <1>1, <1>3 DEF ActsOK
<1> HIDE DEF n
<1> QED BY <1>1, <1>2, <1>4, ActsCut DEF n

\* An inlined function returns into the one it was inlined in.
LEMMA ReturnedOK ==
  ASSUME NEW b, ProgramOK(b), NEW f, NEW acts, ActsOK(b, f, acts), Len(acts) > 1
  PROVE  /\ ActsOK(b, f, Advanced(Front(acts)))
         /\ Len(Advanced(Front(acts))) = Len(acts) - 1
         /\ \A k \in 1..(Len(acts) - 2) : Advanced(Front(acts))[k] = acts[k]
         /\ LET n == Len(acts) - 1 IN
            /\ Advanced(Front(acts))[n].fun = acts[n].fun
            /\ Advanced(Front(acts))[n].at = acts[n].at + 1
            /\ Advanced(Front(acts))[n].vals = acts[n].vals
<1> DEFINE N == Len(acts)
           n == N - 1
           fr == Front(acts)
           acts2 == Advanced(fr)
<1>1. N \in Nat /\ n \in Nat /\ n >= 1 /\ n \in 1..N /\ n < N /\ n \in 1..n /\ n - 1 = N - 2
  BY DEF ActsOK, IsSeq
<1>2. IsSeq(acts) /\ N >= 1 /\ \A k \in 1..N : IsAct(acts[k])
  BY DEF ActsOK
<1>3. IsSeq(fr) /\ Len(fr) = n /\ \A k \in 1..n : fr[k] = acts[k]
  BY <1>2, FrontAny
<1> HIDE DEF fr
<1>4. /\ IsSeq(acts2) /\ Len(acts2) = n
      /\ \A k \in 1..(n - 1) : acts2[k] = fr[k]
      /\ IsAct(acts2[n])
      /\ acts2[n].fun = fr[n].fun /\ acts2[n].at = fr[n].at + 1 /\ acts2[n].vals = fr[n].vals
  <2>1. \A k \in 1..n : IsAct(fr[k])
    BY <1>1, <1>2, <1>3
  <2> QED BY Zenon, <1>1, <1>3, <2>1, AdvancedActs
<1> HIDE DEF acts2
<1>5. /\ \A k \in 1..(n - 1) : acts2[k] = acts[k]
      /\ acts2[n].fun = acts[n].fun /\ acts2[n].at = acts[n].at + 1
      /\ acts2[n].vals = acts[n].vals
  BY <1>1, <1>3, <1>4
<1>6. acts[n].fun \in DOMAIN b.prog.body /\ acts[n].at \in 1..Len(b.prog.body[acts[n].fun])
  BY <1>1, ActsInBody
<1>7. Len(b.prog.body[acts[n].fun]) \in Nat
  BY <1>6 DEF ProgramOK
<1>8. acts2[n].at \in 1..(Len(b.prog.body[acts[n].fun]) + 1)
  BY <1>5, <1>6, <1>7
<1>9. ActsOK(b, f, acts2)
  <2> HIDE DEF n, N
  <2>1. Len(acts2) \in 1..Len(acts)
    BY <1>1, <1>4 DEF N
  <2> QED BY <1>4, <1>5, <1>8, <2>1, ActsCut
<1> QED BY <1>1, <1>4, <1>5, <1>9 DEF acts2, fr

\* An inlined call starts an activation in the same frame.
LEMMA PushedActs ==
  ASSUME NEW b, ProgramOK(b), CodeOK(b), NEW f \in FunctionsRun(b),
         NEW acts, ActsOK(b, f, acts),
         Last(acts).at <= Len(b.prog.body[Last(acts).fun]),
         IsInlined(b.prog.body[Last(acts).fun][Last(acts).at]),
         NEW a, IsAct(a), a.at = 1,
         a.fun = b.prog.body[Last(acts).fun][Last(acts).at].callee
  PROVE  /\ ActsOK(b, f, Append(acts, a))
         /\ Path(Append(acts, a)) \in EntryPaths(b, f)
         /\ Last(Path(Append(acts, a)))[1] = a.fun
         /\ Last(Append(acts, a)) = a
         /\ Len(Append(acts, a)) = Len(acts) + 1
<1> DEFINE N == Len(acts)
           acts2 == Append(acts, a)
           l == Last(acts)
<1>1. N \in Nat /\ N >= 1 /\ l = acts[N] /\ IsSeq(acts)
  BY DEF ActsOK, IsSeq, Last
<1>2. /\ IsSeq(acts2) /\ Len(acts2) = N + 1
      /\ \A k \in 1..N : acts2[k] = acts[k]
      /\ acts2[N + 1] = a
  BY <1>1, AppendAny
<1> HIDE DEF acts2
<1>3. \A k \in 0..N : PathTo(acts2, k) = PathTo(acts, k)
  <2> TAKE k \in 0..N
  <2>1. \A n \in 1..k : acts2[n] = acts[n]
    BY <1>1, <1>2
  <2> QED BY <2>1, PathToSame
<1>4. /\ l.fun \in DOMAIN b.prog.body /\ l.at \in 1..Len(b.prog.body[l.fun])
      /\ a.fun \in DOMAIN b.prog.body /\ Len(b.prog.body[a.fun]) \in Nat
  <2>1. l.fun \in DOMAIN b.prog.body /\ l.at \in 1..Len(b.prog.body[l.fun])
    BY DEF ActsOK
  <2>2. ~IsGuard(b.prog.body[l.fun][l.at])
    BY DEF IsGuard, IsInlined
  <2> QED BY <2>1, <2>2 DEF ProgramOK
<1>5. /\ Path(acts) \in SitePaths(b, f)
      /\ SiteOf(b, Path(acts)) = b.prog.body[l.fun][l.at]
      /\ Path(acts) = PathTo(acts, N)
  BY PathAtSite, PathIsPathTo
<1>6. \A k \in 1..N : InlinedNext(b, f, acts2, k)
  <2> TAKE k \in 1..N
  <2>1. k \in 0..N /\ PathTo(acts2, k) = PathTo(acts, k) /\ acts2[k] = acts[k]
    BY <1>1, <1>2, <1>3
  <2>2. CASE k = N
    <3>1. PathTo(acts2, k) \in SitePaths(b, f) /\ acts2[k] = l /\ acts2[k + 1] = a
      BY <1>1, <1>2, <1>5, <2>1, <2>2
    <3> QED BY <1>4, <3>1 DEF InlinedNext
  <2>3. CASE k # N
    <3>1. k \in 1..(N - 1) /\ k + 1 \in 1..N
      BY <1>1, <2>3
    <3>2. InlinedNext(b, f, acts, k) /\ acts2[k + 1] = acts[k + 1]
      BY <1>2, <3>1 DEF ActsOK
    <3> QED BY Zenon, <2>1, <3>2 DEF InlinedNext
  <2> QED BY <2>2, <2>3
<1>7. \A k \in 1..(N + 1) : IsAct(acts2[k])
  <2> TAKE k \in 1..(N + 1)
  <2>1. k \in 1..N \/ k = N + 1
    BY <1>1
  <2> QED BY <1>2, <2>1 DEF ActsOK
<1>8. acts2[1].fun = f
  <2>1. 1 \in 1..N
    BY <1>1
  <2> QED BY <1>2, <2>1 DEF ActsOK
<1>9. Last(acts2) = a
  BY <1>2 DEF Last
<1>10. ActsOK(b, f, acts2)
  <2>1. Len(acts2) >= 1 /\ Len(acts2) - 1 = N
    BY <1>1, <1>2
  <2>2. a.at \in 1..(Len(b.prog.body[a.fun]) + 1)
    <3>1. \A n \in Nat : 1 \in 1..(n + 1)
      OBVIOUS
    <3> QED BY Zenon, <1>4, <3>1
  <2> QED BY <1>2, <1>4, <1>6, <1>7, <1>8, <1>9, <2>1, <2>2 DEF ActsOK
<1>11. Path(acts2) = Append(Path(acts), <<a.fun, 1>>)
  <2>1. PathTo(acts2, N + 1) = Append(PathTo(acts2, N), <<a.fun, a.at>>)
    BY <1>1, <1>2, PathAppend
  <2>2. PathTo(acts2, N) = Path(acts)
    BY <1>1, <1>3, <1>5
  <2> QED BY <1>2, <2>1, <2>2, PathIsPathTo
<1>12. Path(acts2) \in EntryPaths(b, f)
  BY Zenon, <1>5, <1>11 DEF EntryPaths
<1>13. Last(Path(acts2))[1] = a.fun
  <2>1. /\ Len(Path(acts2)) = N + 1
        /\ Path(acts2)[N + 1] = <<acts2[N + 1].fun, acts2[N + 1].at>>
    <3>1. N + 1 \in Nat /\ N + 1 \in 1..(N + 1)
      BY <1>1
    <3> QED BY <1>2, <3>1, PathSeq, PathIsPathTo
  <2> QED BY <1>2, <2>1 DEF Last
<1> QED BY <1>2, <1>9, <1>10, <1>12, <1>13 DEF acts2

\* A frame starts with one activation, of its function.
LEMMA FirstAct ==
  ASSUME NEW b, ProgramOK(b), NEW f \in FunctionsRun(b), NEW a, IsAct(a), a.at = 1, a.fun = f
  PROVE  /\ ActsOK(b, f, <<a>>)
         /\ Path(<<a>>) \in EntryPaths(b, f)
         /\ Last(Path(<<a>>))[1] = a.fun
         /\ Last(<<a>>) = a
         /\ Len(<<a>>) = 1
<1> DEFINE acts == <<a>>
<1>1. IsSeq(acts) /\ Len(acts) = 1 /\ acts[1] = a /\ Last(acts) = a
  BY TupleIsSeq DEF Last
<1> HIDE DEF acts
<1>2. f \in DOMAIN b.prog.body /\ Len(b.prog.body[f]) \in Nat
  BY RunsInBody DEF ProgramOK
<1>3. ActsOK(b, f, acts)
  <2>1. a.at \in 1..(Len(b.prog.body[f]) + 1)
    BY <1>2
  <2> QED BY <1>1, <1>2, <2>1 DEF ActsOK
<1>4. Path(acts) = <<<<f, 1>>>>
  <2>1. PathTo(acts, 1) = <<<<acts[1].fun, acts[1].at>>>>
    BY Zenon, PathOne
  <2> QED BY <1>1, <2>1, PathIsPathTo
<1>5. Path(acts) \in EntryPaths(b, f)
  BY <1>4 DEF EntryPaths
<1>6. Last(Path(acts))[1] = f
  <2>1. Len(<<<<f, 1>>>>) = 1 /\ <<<<f, 1>>>>[1] = <<f, 1>>
    OBVIOUS
  <2>2. Last(<<<<f, 1>>>>) = <<f, 1>>
    BY <2>1 DEF Last
  <2> QED BY <1>4, <2>2
<1> QED BY <1>1, <1>3, <1>5, <1>6 DEF acts
-----------------------------------------------------------------------------
(***************************************************************************)
(* The variables of an activation that starts are inside its frame.        *)
(***************************************************************************)
LEMMA RegistersKept ==
  ASSUME FramesOK(img), NEW f \in FunctionsRun(img), NEW acts, Path(acts) \in EntryPaths(img, f),
         NEW g, IsRegs(g)
  PROVE  /\ IsRegs(InRegister(f, acts, g))
         /\ InRegister(f, acts, g)[RBP] = g[RBP]
         /\ InRegister(f, acts, g)[RSP] = g[RSP]
<1> DEFINE d == OptRegister(ItemsOf(f), Path(acts))
           js == {j \in 1..Len(Last(acts).vals) :
                    img.prog.locals[Last(acts).fun][j].opt = "register"}
           v == Last(acts).vals[CHOOSE j \in js : TRUE]
<1>1. d \notin {RBP, RSP}
  BY DEF FramesOK, ItemsOf
<1>2. InRegister(f, acts, g) = IF js = {} THEN g ELSE [g EXCEPT ![d] = v]
  BY Zenon DEF InRegister
<1>3. RBP \in RegNums /\ RSP \in RegNums
  BY DEF RBP, RSP, RegNums, REGISTER_COUNT
<1> HIDE DEF d, js, v
<1>4. /\ IsRegs([g EXCEPT ![d] = v])
      /\ [g EXCEPT ![d] = v][RBP] = g[RBP]
      /\ [g EXCEPT ![d] = v][RSP] = g[RSP]
  BY <1>1, <1>3, RegsExcept
<1> QED BY Zenon, <1>2, <1>4

\* The slots of an activation that starts lie in the frame.
LEMMA SlotsInside ==
  ASSUME FramesOK(img), NEW f \in FunctionsRun(img), NEW acts, Path(acts) \in EntryPaths(img, f),
         Last(Path(acts))[1] = Last(acts).fun,
         Len(Last(acts).vals) = NumLocals(img.prog, Last(acts).fun),
         NEW bp \in Int
  PROVE  \A a \in DOMAIN Slots(f, bp, acts) : a \in (bp + 1 - StackSize(img, f))..(bp - 1)
<1> DEFINE act == Last(acts)
           isDirect == {j \in 1..Len(act.vals) : img.prog.locals[act.fun][j].opt = "direct"}
           slot == [j \in isDirect |-> bp + OptOffset(img.prog, ItemsOf(f), Path(acts), j)]
           value(a) == act.vals[CHOOSE j \in isDirect : slot[j] = a]
<1>1. Slots(f, bp, acts) = [a \in {slot[j] : j \in isDirect} |-> value(a)]
  BY Zenon DEF Slots
<1>2. StackSize(img, f) \in Nat
  BY RunsInBody DEF FramesOK
<1>3. \A j \in isDirect : slot[j] \in (bp + 1 - StackSize(img, f))..(bp - 1)
  <2> TAKE j \in isDirect
  <2>1. j \in 1..NumLocals(img.prog, Last(Path(acts))[1])
    OBVIOUS
  <2>2. OptOffset(img.prog, ItemsOf(f), Path(acts), j) \in (1 - StackSize(img, f))..(-1)
    BY <2>1 DEF FramesOK, ItemsOf
  <2>3. slot[j] = bp + OptOffset(img.prog, ItemsOf(f), Path(acts), j)
    OBVIOUS
  <2> QED BY <1>2, <2>2, <2>3
<1> HIDE DEF value, slot, isDirect
<1>4. DOMAIN Slots(f, bp, acts) = {slot[j] : j \in isDirect}
  BY <1>1
<1> QED BY <1>3, <1>4

\* An activation that starts is at its first site and has all its variables.
LEMMA NewActOK ==
  ASSUME FramesOK(img), NEW g \in DOMAIN img.prog.body, NEW n
  PROVE  /\ IsAct(NewAct(g, n))
         /\ NewAct(g, n).fun = g /\ NewAct(g, n).at = 1
         /\ Len(NewAct(g, n).vals) = NumLocals(img.prog, g)
<1>1. NewAct(g, n) = [fun |-> g, at |-> 1, vals |-> NewVals(g, n)]
  BY DEF NewAct
<1>2. NumLocals(img.prog, g) \in Nat
  BY DEF FramesOK
<1>3. Len(NewVals(g, n)) = NumLocals(img.prog, g)
  <2> DEFINE N == NumLocals(img.prog, g)
             s == NewVals(g, n)
  <2>1. s = [j \in 1..N |-> s[j]]
    BY DEF NewVals
  <2> HIDE DEF s, N
  <2>2. N \in Nat
    BY <1>2 DEF N
  <2> QED BY <2>1, <2>2, FunctionIsSeq DEF s, N
<1> QED BY <1>1, <1>3 DEF IsAct

\* A frame has its base pointer and stack pointer among its registers.
LEMMA FrameRegs ==
  ASSUME NEW g, IsRegs(g), NEW x, NEW y
  PROVE  /\ IsRegs([g EXCEPT ![RBP] = x, ![RSP] = y])
         /\ [g EXCEPT ![RBP] = x, ![RSP] = y][RBP] = x
         /\ [g EXCEPT ![RBP] = x, ![RSP] = y][RSP] = y
<1> DEFINE g2 == [g EXCEPT ![RBP] = x]
           g3 == [g2 EXCEPT ![RSP] = y]
<1>1. RBP \in RegNums /\ RSP \in RegNums /\ RBP # RSP
  BY DEF RBP, RSP, RegNums, REGISTER_COUNT
<1>2. IsRegs(g2)
  BY RegsExcept
<1>3. DOMAIN g = RegNums /\ DOMAIN g2 = RegNums
  BY Zenon, <1>2 DEF IsRegs
<1>4. g2[RBP] = x
  BY <1>1, <1>3
<1> HIDE DEF g2
<1>5. IsRegs(g3)
  BY <1>2, RegsExcept
<1>6. g3[RSP] = y /\ g3[RBP] = g2[RBP]
  BY <1>1, <1>3
<1> HIDE DEF g3
<1>7. IsRegs(g3) /\ g3[RBP] = x /\ g3[RSP] = y
  BY Zenon, <1>4, <1>5, <1>6
<1> QED BY Zenon, <1>7 DEF g2, g3

\* The frame that a call makes, and where its variables are.
LEMMA NewFrameOK ==
  ASSUME Supported(img), NEW f \in FunctionsRun(img), NEW n, NEW bp \in Int,
         NEW g, IsRegs(g)
  PROVE  /\ FrameOK(img, NewFrame(f, n, bp, g))
         /\ NewFrame(f, n, bp, g).fun = f
         /\ NewFrame(f, n, bp, g).bp = bp
         /\ NewFrame(f, n, bp, g).acts = <<NewAct(f, n)>>
         /\ \A a \in DOMAIN Slots(f, bp, <<NewAct(f, n)>>) :
              a \in (bp + 1 - StackSize(img, f))..(bp - 1)
<1> DEFINE p == NewFrame(f, n, bp, g)
           a == NewAct(f, n)
           rsp == bp - (StackSize(img, f) - ADDR_SIZE)
           g1 == InRegister(f, <<a>>, g)
           g3 == [g1 EXCEPT ![RBP] = bp, ![RSP] = rsp]
<1>1. ProgramOK(img) /\ CodeOK(img) /\ FramesOK(img) /\ f \in DOMAIN img.prog.body
  BY RunsInBody DEF Supported
<1>2. /\ IsAct(a) /\ a.fun = f /\ a.at = 1
      /\ Len(a.vals) = NumLocals(img.prog, f)
  BY <1>1, NewActOK
<1>3. /\ ActsOK(img, f, <<a>>) /\ Path(<<a>>) \in EntryPaths(img, f)
      /\ Last(Path(<<a>>))[1] = a.fun /\ Last(<<a>>) = a
  BY <1>1, <1>2, FirstAct
<1>4. p = [fun |-> f, bp |-> bp, acts |-> <<a>>, regs |-> g3]
  BY DEF NewFrame
<1>5. \A x \in DOMAIN Slots(f, bp, <<a>>) : x \in (bp + 1 - StackSize(img, f))..(bp - 1)
  BY <1>1, <1>2, <1>3, SlotsInside
<1> HIDE DEF a
<1>6. IsRegs(g1)
  BY <1>1, <1>3, RegistersKept
<1> HIDE DEF g1
<1>7. IsRegs(g3) /\ g3[RBP] = bp /\ g3[RSP] = rsp
  <2> HIDE DEF rsp
  <2>1. IsRegs(g3)
    BY Zenon, <1>6, FrameRegs
  <2>2. DOMAIN g1 = RegNums
    BY Zenon, <1>6 DEF IsRegs
  <2>3. g3[RBP] = bp /\ g3[RSP] = rsp
    BY <2>2 DEF RBP, RSP, RegNums, REGISTER_COUNT
  <2> QED BY <2>1, <2>3
<1> HIDE DEF g3
<1>8. rsp = bp - (StackSize(img, f) - 1)
  BY DEF ADDR_SIZE
<1> HIDE DEF rsp
<1>9. FrameOK(img, p)
  <2>1. /\ p.fun = f /\ p.bp = bp /\ p.acts = <<a>> /\ p.regs = g3
        /\ IsFrame(p)
    BY <1>4 DEF IsFrame
  <2> HIDE DEF p
  <2> QED BY <1>3, <1>7, <1>8, <2>1 DEF FrameOK
<1> QED BY <1>4, <1>5, <1>9 DEF a
-----------------------------------------------------------------------------
(***************************************************************************)
(* The steps of the optimized program.                                     *)
(***************************************************************************)
TwoWritten(m, y1, u, y, v) == [m EXCEPT ![y1] = u, ![y] = v]

\* The two words that a call or the failure of a guard pushes.
LEMMA MemTwo ==
  ASSUME NEW m, IsMem(m), NEW y1 \in Stack \cup Heap, NEW y \in Stack \cup Heap, y # y1,
         NEW u, NEW v
  PROVE  /\ IsMem(TwoWritten(m, y1, u, y, v))
         /\ TwoWritten(m, y1, u, y, v)[y1] = u
         /\ TwoWritten(m, y1, u, y, v)[y] = v
         /\ \A x \in Stack \cup Heap : x # y1 /\ x # y =>
              TwoWritten(m, y1, u, y, v)[x] = m[x]
<1> DEFINE S == Stack \cup Heap
           m2 == TwoWritten(m, y1, u, y, v)
<1>1. m = [x \in S |-> m[x]]
  BY DEF IsMem
<1> HIDE DEF S
<1>2. m2 = [x \in S |-> IF x = y THEN v ELSE IF x = y1 THEN u ELSE m[x]]
  BY <1>1 DEF TwoWritten
<1>3. y \in S /\ y1 \in S
  BY DEF S
<1> HIDE DEF m2
<1>4. \A x \in S : m2[x] = IF x = y THEN v ELSE IF x = y1 THEN u ELSE m[x]
  BY <1>2
<1>5. m2 = [x \in S |-> m2[x]]
  BY <1>2
<1>6. IsMem(m2)
  BY <1>5 DEF IsMem, S
<1>7. m2[y1] = u /\ m2[y] = v /\ \A x \in S : x # y1 /\ x # y => m2[x] = m[x]
  BY <1>3, <1>4
<1> QED BY Zenon, <1>6, <1>7 DEF m2, S

\* The invariant holds while optimized code runs.
LEMMA OptState ==
  ASSUME IInv, img' = img, pc' = "opt", inlined' = FALSE, IsCpu(cpu'), IsMem(mem'),
         StackOK(img, phys'), ReturnsOK(img, phys', mem')
  PROVE  IInv'
<1>1. Supported(img')
  BY DEF IInv
<1>2. PcInv'
  BY DEF PcInv
<1>3. StackInv' /\ OptInv'
  BY DEF StackInv, OptInv
<1>4. FailureInv'
  BY DEF FailureInv, HandlerPoints
<1>5. CollectInv' /\ InlineInv' /\ FailInv' /\ MatchInv' /\ SegmentInv'
  BY DEF CollectInv, InlineInv, FailInv, MatchInv, SegmentInv
<1> QED BY <1>1, <1>2, <1>3, <1>4, <1>5 DEF IInv

\* What is known of the frame on top of the stack of optimized code.
LEMMA TopOK ==
  ASSUME Supported(img), StackOK(img, phys)
  PROVE  /\ Len(phys) \in Nat /\ Len(phys) >= 1 /\ Len(phys) \in 1..Len(phys) /\ IsSeq(phys)
         /\ TopFrame = phys[Len(phys)] /\ FrameOK(img, TopFrame)
         /\ TopFrame.fun \in FunctionsRun(img)
         /\ TopFrame.bp \in Int /\ TopFrame.bp <= MainBp
         /\ StackSize(img, TopFrame.fun) \in Nat \ {0}
         /\ TopFrame.bp - StackSize(img, TopFrame.fun) - 1 > 2
         /\ TopFrame.regs[RSP] - 2 = TopFrame.bp - StackSize(img, TopFrame.fun) - 1
         /\ TopFrame.regs[RSP] - 1 = (TopFrame.regs[RSP] - 2) + 1
         /\ TopFrame.regs[RSP] - 2 \in Stack /\ TopFrame.regs[RSP] - 1 \in Stack
         /\ \A m \in 1..Len(phys) :
              /\ phys[m].bp + 1 \in Stack
              /\ phys[m].bp + 1 > TopFrame.regs[RSP] - 1
<1> DEFINE N == Len(phys)
           p == TopFrame
           s == StackSize(img, p.fun)
<1>1. N \in Nat /\ N >= 1 /\ N \in 1..N /\ p = phys[N] /\ IsSeq(phys)
  BY DEF StackOK, IsSeq, TopFrame, Last
<1>2. FrameOK(img, p) /\ p.fun \in FunctionsRun(img) /\ p.regs[RSP] = p.bp - (s - 1)
  BY <1>1 DEF StackOK, FrameOK
<1>3. \A m \in 1..N : /\ phys[m].bp \in Int /\ phys[m].bp <= MainBp /\ MainBp + 1 \in Stack
                      /\ phys[m].bp - StackSize(img, phys[m].fun) - 1 > 2
                      /\ StackSize(img, phys[m].fun) \in Nat \ {0}
                      /\ p.bp <= phys[m].bp
  BY <1>1, StackRoom DEF StackOK
<1>4. /\ p.bp \in Int /\ p.bp <= MainBp /\ s \in Nat \ {0} /\ p.bp - s - 1 > 2
      /\ MainBp + 1 \in Stack
  BY <1>1, <1>3
<1> HIDE DEF s
<1>5. p.regs[RSP] \in Int /\ p.regs[RSP] = p.bp - s + 1
  BY <1>2, <1>4
<1>6. MainBp \in Nat /\ StackTop \in Nat
  BY MemoryAssumption
<1>7. /\ p.regs[RSP] - 2 = p.bp - s - 1
      /\ p.regs[RSP] - 1 = (p.regs[RSP] - 2) + 1
      /\ p.regs[RSP] - 2 \in Stack /\ p.regs[RSP] - 1 \in Stack
  BY <1>4, <1>5, <1>6 DEF Stack
<1>8. ASSUME NEW m \in 1..N
      PROVE  phys[m].bp + 1 \in Stack /\ phys[m].bp + 1 > p.regs[RSP] - 1
  <2> HIDE DEF p, N
  <2>1. /\ phys[m].bp \in Int /\ phys[m].bp <= MainBp /\ p.bp <= phys[m].bp
    BY <1>3
  <2>2. phys[m].bp + 1 > p.regs[RSP] - 1
    BY <1>4, <1>5, <2>1
  <2>3. MainBp + 1 <= StackTop
    BY <1>4, <1>6 DEF Stack
  <2> QED BY <1>4, <1>6, <2>1, <2>2, <2>3 DEF Stack
<1> QED BY <1>1, <1>2, <1>4, <1>7, <1>8 DEF s

\* The site that the top frame is at.
LEMMA TopSiteOK ==
  ASSUME Supported(img), StackOK(img, phys), AtOptSite
  PROVE  /\ TopAct = Last(TopFrame.acts)
         /\ TopAct.fun \in DOMAIN img.prog.body
         /\ TopAct.at \in 1..Len(img.prog.body[TopAct.fun])
         /\ Path(TopFrame.acts) \in SitePaths(img, TopFrame.fun)
         /\ SiteOf(img, Path(TopFrame.acts)) = TopSite
         /\ Last(Path(TopFrame.acts)) = SiteIn(TopFrame)
         /\ AtSiteOf(img, TopFrame, TopSite.kind)
         /\ ~IsGuard(TopSite) => TopSite.callee \in DOMAIN img.prog.body \ {"main"}
         /\ TopSite.kind = "call" => TopSite.callee \in FunctionsRun(img)
         /\ CallAddr(img, TopFrame) = OptAddr(img, TopFrame.fun, Path(TopFrame.acts))
<1> DEFINE p == TopFrame
<1>1. ProgramOK(img) /\ CodeOK(img)
  BY DEF Supported
<1>2. FrameOK(img, p) /\ p.fun \in FunctionsRun(img) /\ ActsOK(img, p.fun, p.acts)
  BY TopOK DEF FrameOK
<1>3. TopAct = Last(p.acts) /\ TopAct.at <= Len(img.prog.body[TopAct.fun])
  BY DEF TopAct, AtOptSite
<1>4. TopAct.fun \in DOMAIN img.prog.body /\ TopAct.at \in 1..Len(img.prog.body[TopAct.fun])
  BY <1>2, <1>3 DEF ActsOK
<1>5. /\ Path(p.acts) \in SitePaths(img, p.fun)
      /\ Last(Path(p.acts)) = <<TopAct.fun, TopAct.at>>
      /\ SiteOf(img, Path(p.acts)) = TopSite
  BY <1>1, <1>2, <1>3, PathAtSite DEF TopSite
<1>6. ~IsGuard(TopSite) => TopSite.callee \in DOMAIN img.prog.body \ {"main"}
  BY <1>1, <1>4 DEF ProgramOK, TopSite
<1>7. TopSite.kind = "call" => TopSite.callee \in FunctionsRun(img)
  <2> HAVE TopSite.kind = "call"
  <2>1. TopSite.callee \in DOMAIN img.prog.body
    BY <1>6 DEF IsGuard
  <2> QED BY <1>2, <1>5, <2>1, CalleeRuns
<1> QED BY <1>3, <1>4, <1>5, <1>6, <1>7 DEF SiteIn, AtSiteOf, TopSite, CallAddr

\* A call keeps the invariant: its frame is below all others.
LEMMA OptCallStep ==
  ASSUME IInv, OptCall, UNCHANGED <<failVars, handlerVars>>
  PROVE  IInv'
<1> DEFINE p == TopFrame
           N == Len(phys)
           rsp == p.regs[RSP]
           frame == NewFrame(TopSite.callee, calls + 1, rsp - 2, p.regs)
           back == OptAddr(img, p.fun, Path(p.acts))
           slots == Slots(frame.fun, frame.bp, frame.acts)
<1>1. /\ AtOptSite /\ TopSite.kind = "call" /\ Depth < MaxDepth
      /\ phys' = Append(phys, frame)
      /\ mem' = [Write(mem, slots) EXCEPT ![rsp - 1] = back, ![rsp - 2] = p.bp]
      /\ img' = img /\ pc' = pc /\ cpu' = cpu /\ inlined' = inlined
  BY Zenon DEF OptCall, handlerVars
<1>2. pc = "opt"
  BY <1>1 DEF AtOptSite
<1>3. /\ Supported(img) /\ StackOK(img, phys) /\ IsMem(mem) /\ IsCpu(cpu) /\ inlined = FALSE
      /\ ReturnsOK(img, phys, mem)
  BY <1>2 DEF IInv, StackInv, OptInv
<1>4. /\ N \in Nat /\ N >= 1 /\ N \in 1..N /\ IsSeq(phys) /\ p = phys[N] /\ FrameOK(img, p)
      /\ rsp - 2 \in Stack /\ rsp - 1 \in Stack /\ rsp - 1 = (rsp - 2) + 1
      /\ rsp - 2 = p.bp - StackSize(img, p.fun) - 1
      /\ \A m \in 1..N : phys[m].bp + 1 \in Stack /\ phys[m].bp + 1 > rsp - 1
  BY <1>3, TopOK
<1>5. /\ TopSite.callee \in FunctionsRun(img) /\ back = CallAddr(img, p)
      /\ AtSiteOf(img, p, "call") /\ TopAct = Last(p.acts)
  BY <1>1, <1>3, TopSiteOK
<1>6. /\ FrameOK(img, frame) /\ frame.fun = TopSite.callee /\ frame.bp = rsp - 2
      /\ frame.acts = <<NewAct(TopSite.callee, calls + 1)>>
      /\ \A a \in DOMAIN slots : a \in (rsp - 2 + 1 - StackSize(img, frame.fun))..(rsp - 2 - 1)
  <2>1. rsp - 2 \in Int /\ IsRegs(p.regs)
    BY <1>4 DEF FrameOK, Stack
  <2>2. /\ FrameOK(img, frame) /\ frame.fun = TopSite.callee /\ frame.bp = rsp - 2
        /\ frame.acts = <<NewAct(TopSite.callee, calls + 1)>>
        /\ \A a \in DOMAIN Slots(TopSite.callee, rsp - 2, <<NewAct(TopSite.callee, calls + 1)>>) :
             a \in (rsp - 2 + 1 - StackSize(img, TopSite.callee))..(rsp - 2 - 1)
    <3> HIDE DEF rsp, p
    <3> QED BY <1>3, <1>5, <2>1, NewFrameOK
  <2> HIDE DEF frame
  <2> QED BY <2>2
<1> HIDE DEF frame, slots, back
<1>7. StackOK(img, phys')
  <2>1. CallsFrame(img, Last(phys), frame)
    BY Zenon, <1>4, <1>5, <1>6 DEF CallsFrame, TopFrame, TopSite
  <2>2. Len(frame.acts) = 1
    BY <1>6
  <2>3. Len(ActsIn(phys, N)) < MaxDepth
    BY <1>1 DEF Depth, ActsIn
  <2> QED BY Zenon, <1>1, <1>3, <1>6, <2>1, <2>2, <2>3, StackPushed
<1>8. /\ IsMem(mem') /\ mem'[rsp - 1] = back
      /\ \A x \in Stack : x > rsp - 1 => mem'[x] = mem[x]
  <2> DEFINE m1 == Write(mem, slots)
  <2>1. IsMem(m1) /\ \A x \in Stack \cup Heap : x \notin DOMAIN slots => m1[x] = mem[x]
    BY <1>3, MemWrite
  <2>2. /\ rsp - 1 \in Stack \cup Heap /\ rsp - 2 \in Stack \cup Heap /\ rsp - 2 # rsp - 1
    BY <1>4 DEF Stack
  <2> HIDE DEF m1
  <2>3. /\ IsMem(mem') /\ mem'[rsp - 1] = back
        /\ \A x \in Stack \cup Heap : x # rsp - 1 /\ x # rsp - 2 => mem'[x] = m1[x]
    <3>1. mem' = [m1 EXCEPT ![rsp - 1] = back, ![rsp - 2] = p.bp]
      BY <1>1 DEF m1
    <3> HIDE DEF rsp, p
    <3> DEFINE y == rsp - 2
               y1 == rsp - 1
    <3>2. y \in Stack \cup Heap /\ y1 \in Stack \cup Heap /\ y # y1
      BY <2>2
    <3>3. mem' = TwoWritten(m1, y1, back, y, p.bp)
      BY Zenon, <3>1 DEF TwoWritten
    <3> HIDE DEF y, y1
    <3> DEFINE m2 == TwoWritten(m1, y1, back, y, p.bp)
    <3>4. /\ IsMem(m2) /\ m2[y1] = back
          /\ \A x \in Stack \cup Heap : x # y1 /\ x # y => m2[x] = m1[x]
      BY <2>1, <3>2, MemTwo
    <3> HIDE DEF m2
    <3>5. mem' = m2
      BY Zenon, <3>3 DEF m2
    <3> QED BY <3>4, <3>5 DEF y, y1
  <2>4. \A x \in Stack : x > rsp - 1 => x \notin DOMAIN slots /\ x # rsp - 1 /\ x # rsp - 2
    <3>1. rsp - 2 \in Int /\ rsp - 1 = (rsp - 2) + 1
      BY <1>4 DEF Stack
    <3> QED BY <1>6, <3>1 DEF Stack
  <2> QED BY <2>1, <2>3, <2>4
<1>9. ReturnsOK(img, phys', mem')
  <2>1. /\ Len(phys') = N + 1 /\ phys'[N + 1] = frame
        /\ \A i \in 1..N : phys'[i] = phys[i]
    BY <1>1, <1>4, AppendAny
  <2> SUFFICES ASSUME NEW n \in 2..(N + 1)
               PROVE  mem'[phys'[n].bp + 1] = CallAddr(img, phys'[n - 1])
    BY <2>1 DEF ReturnsOK
  <2>2. CASE n = N + 1
    <3>1. phys'[n - 1] = p /\ phys'[n].bp + 1 = rsp - 1
      BY <1>4, <1>6, <2>1, <2>2
    <3> QED BY <1>5, <1>8, <3>1
  <2>3. CASE n # N + 1
    <3>1. n \in 2..N /\ n \in 1..N /\ n - 1 \in 1..N
      BY <1>4, <2>3
    <3>2. mem'[phys[n].bp + 1] = mem[phys[n].bp + 1]
      BY <1>4, <1>8, <3>1
    <3>3. phys'[n] = phys[n] /\ phys'[n - 1] = phys[n - 1]
      BY <2>1, <3>1
    <3> QED BY <1>3, <3>1, <3>2, <3>3 DEF ReturnsOK
  <2> QED BY <2>2, <2>3
<1> QED BY <1>1, <1>2, <1>3, <1>7, <1>8, <1>9, OptState
\* The invariant holds when neither optimized code nor the handler runs.
LEMMA RestState ==
  ASSUME Supported(img), img' = img,
         pc' \in {"unopt", "done", "exited", "crashed", "overflow"},
         pc' \in {"unopt", "crashed", "done"} => phys' = <<>>
  PROVE  IInv'
<1>1. Supported(img') /\ PcInv'
  BY DEF PcInv
<1>2. pc' \notin HandlerPoints \cup {"opt"}
  BY DEF HandlerPoints
<1>3. StackInv' /\ OptInv' /\ FailureInv'
  BY <1>2 DEF StackInv, OptInv, FailureInv
<1>4. CollectInv' /\ InlineInv' /\ FailInv' /\ MatchInv' /\ SegmentInv'
  BY DEF CollectInv, InlineInv, FailInv, MatchInv, SegmentInv
<1> QED BY <1>1, <1>3, <1>4 DEF IInv

NewActs(p, acts) == [p EXCEPT !.acts = acts]

\* A frame with other activations of its function.
LEMMA FrameActs ==
  ASSUME NEW b, NEW p, FrameOK(b, p), NEW acts, ActsOK(b, p.fun, acts)
  PROVE  /\ FrameOK(b, NewActs(p, acts))
         /\ NewActs(p, acts).fun = p.fun
         /\ NewActs(p, acts).bp = p.bp
         /\ NewActs(p, acts).acts = acts
<1> DEFINE q == NewActs(p, acts)
<1>1. q = [fun |-> p.fun, bp |-> p.bp, acts |-> acts, regs |-> p.regs]
  BY DEF FrameOK, IsFrame, NewActs
<1>2. IsFrame(q) /\ q.fun = p.fun /\ q.bp = p.bp /\ q.acts = acts /\ q.regs = p.regs
  BY <1>1 DEF IsFrame
<1> HIDE DEF q
<1>3. FrameOK(b, q)
  BY <1>2 DEF FrameOK
<1> QED BY <1>2, <1>3 DEF q

\* The stack when the top frame changes.
LEMMA TopChanged ==
  ASSUME Supported(img), StackOK(img, phys), NEW q, FrameOK(img, q),
         q.fun = TopFrame.fun, q.bp = TopFrame.bp,
         Depth - Len(TopFrame.acts) + Len(q.acts) <= MaxDepth,
         NEW ph2, ph2 = [phys EXCEPT ![Len(phys)] = q]
  PROVE  ChangedAt(phys, ph2, Len(phys)) /\ StackOK(img, ph2)
<1> DEFINE N == Len(phys)
<1>1. N \in Nat /\ N >= 1 /\ N \in 1..N /\ IsSeq(phys) /\ TopFrame = phys[N]
  BY TopOK
<1>2. /\ IsSeq(ph2) /\ Len(ph2) = N
      /\ \A i \in 1..(N - 1) : ph2[i] = phys[i]
      /\ ph2[N] = q
  BY Zenon, <1>1, LastChanged
<1>3. ChangedAt(phys, ph2, N)
  BY Zenon, <1>1, <1>2 DEF ChangedAt
<1>4. IsSeq(q.acts) /\ IsSeq(TopFrame.acts)
  BY <1>1 DEF FrameOK, ActsOK, StackOK
<1>5. /\ Len(ActsIn(ph2, N)) = Len(ActsIn(phys, N - 1)) + Len(q.acts)
      /\ Len(ActsIn(phys, N)) = Len(ActsIn(phys, N - 1)) + Len(TopFrame.acts)
      /\ Len(ActsIn(phys, N - 1)) \in Nat
  <2>1. IsSeq(ph2[N].acts)
    BY Zenon, <1>2, <1>4
  <2>2. N \in 1..Len(phys) /\ StackOK(img, phys)
    BY <1>1
  <2>3. /\ LastActs(phys, N) /\ LastActs(ph2, N)
        /\ ActsIn(ph2, N - 1) = ActsIn(phys, N - 1)
    BY <1>3, <2>1, <2>2, ActsChanged
  <2> QED BY <1>1, <1>2, <2>3 DEF IsSeq, LastActs
<1>6. Depth = Len(ActsIn(phys, N))
  BY DEF Depth, ActsIn
<1>7. Len(ActsIn(ph2, N)) <= MaxDepth
  <2>1. Len(q.acts) \in Nat /\ Len(TopFrame.acts) \in Nat /\ MaxDepth \in Nat
    BY <1>4, MemoryAssumption DEF IsSeq
  <2>2. Depth - Len(TopFrame.acts) + Len(q.acts) <= MaxDepth
    OBVIOUS
  <2> DEFINE d == Depth
             l == Len(ActsIn(phys, N - 1))
             l2 == Len(ActsIn(ph2, N))
             x == Len(q.acts)
             y == Len(TopFrame.acts)
  <2>3. /\ l2 = l + x /\ d = l + y /\ l \in Nat /\ x \in Nat /\ y \in Nat
        /\ (d - y) + x <= MaxDepth /\ MaxDepth \in Nat
    BY <1>5, <1>6, <2>1, <2>2
  <2> HIDE DEF d, l, l2, x, y
  <2>4. l2 <= MaxDepth
    BY <2>3
  <2> QED BY <2>4 DEF l2
<1>8. FrameOK(img, ph2[N])
  BY <1>2
<1> QED BY <1>3, <1>7, <1>8, StackChanged

\* An inlined call keeps the invariant: it stays in its frame.
LEMMA OptInlinedCallStep ==
  ASSUME IInv, OptInlinedCall, UNCHANGED <<failVars, handlerVars>>
  PROVE  IInv'
<1> DEFINE p == TopFrame
           N == Len(phys)
           a == NewAct(TopSite.callee, calls + 1)
           acts == Append(p.acts, a)
           regs == InRegister(p.fun, acts, p.regs)
           q == [fun |-> p.fun, bp |-> p.bp, acts |-> acts, regs |-> regs]
           slots == Slots(p.fun, p.bp, acts)
<1>1. /\ AtOptSite /\ TopSite.kind = "inlined" /\ Depth < MaxDepth
      /\ phys' = [phys EXCEPT ![N] = q]
      /\ mem' = Write(mem, slots)
      /\ img' = img /\ pc' = pc /\ cpu' = cpu /\ inlined' = inlined
  BY Zenon DEF OptInlinedCall, handlerVars
<1>2. pc = "opt"
  BY <1>1 DEF AtOptSite
<1>3. /\ Supported(img) /\ StackOK(img, phys) /\ IsMem(mem) /\ IsCpu(cpu) /\ inlined = FALSE
      /\ ReturnsOK(img, phys, mem)
      /\ ProgramOK(img) /\ CodeOK(img) /\ FramesOK(img)
  BY <1>2 DEF IInv, StackInv, OptInv, Supported
<1>4. /\ N \in Nat /\ N \in 1..N /\ p = phys[N] /\ FrameOK(img, p) /\ IsSeq(phys)
      /\ p.fun \in FunctionsRun(img) /\ p.bp \in Int
      /\ StackSize(img, p.fun) \in Nat \ {0}
  BY <1>3, TopOK
<1>5. /\ ActsOK(img, p.fun, p.acts) /\ IsRegs(p.regs)
      /\ p.regs[RBP] = p.bp /\ p.regs[RSP] = p.bp - (StackSize(img, p.fun) - 1)
  BY <1>4 DEF FrameOK
<1>6. /\ TopAct = Last(p.acts) /\ TopAct.at <= Len(img.prog.body[TopAct.fun])
      /\ TopSite.callee \in DOMAIN img.prog.body /\ IsInlined(TopSite)
  BY <1>1, <1>3, TopSiteOK DEF AtOptSite, IsGuard, IsInlined
<1>7. /\ IsAct(a) /\ a.at = 1 /\ a.fun = TopSite.callee
      /\ Len(a.vals) = NumLocals(img.prog, TopSite.callee)
  BY <1>3, <1>6, NewActOK
<1> HIDE DEF a
<1>8. /\ ActsOK(img, p.fun, acts) /\ Path(acts) \in EntryPaths(img, p.fun)
      /\ Last(Path(acts))[1] = a.fun /\ Last(acts) = a /\ Len(acts) = Len(p.acts) + 1
  <2>1. TopSite = img.prog.body[Last(p.acts).fun][Last(p.acts).at]
    BY <1>6 DEF TopSite
  <2>2. /\ a.fun = img.prog.body[Last(p.acts).fun][Last(p.acts).at].callee
        /\ IsInlined(img.prog.body[Last(p.acts).fun][Last(p.acts).at])
        /\ Last(p.acts).at <= Len(img.prog.body[Last(p.acts).fun])
    BY <1>6, <1>7, <2>1
  <2>3. /\ ActsOK(img, p.fun, Append(p.acts, a))
        /\ Path(Append(p.acts, a)) \in EntryPaths(img, p.fun)
        /\ Last(Path(Append(p.acts, a)))[1] = a.fun
        /\ Last(Append(p.acts, a)) = a
        /\ Len(Append(p.acts, a)) = Len(p.acts) + 1
    <3> DEFINE f == p.fun
               as == p.acts
    <3>1. f \in FunctionsRun(img) /\ ActsOK(img, f, as)
      BY <1>4, <1>5
    <3>2. /\ a.fun = img.prog.body[Last(as).fun][Last(as).at].callee
          /\ IsInlined(img.prog.body[Last(as).fun][Last(as).at])
          /\ Last(as).at <= Len(img.prog.body[Last(as).fun])
          /\ IsAct(a) /\ a.at = 1
      BY <1>7, <2>2
    <3> HIDE DEF f, as
    <3>3. /\ ActsOK(img, f, Append(as, a))
          /\ Path(Append(as, a)) \in EntryPaths(img, f)
          /\ Last(Path(Append(as, a)))[1] = a.fun
          /\ Last(Append(as, a)) = a
          /\ Len(Append(as, a)) = Len(as) + 1
      BY Zenon, <1>3, <3>1, <3>2, PushedActs
    <3> QED BY <3>3 DEF f, as
  <2> QED BY <2>3
<1> HIDE DEF acts
<1>9. IsRegs(regs) /\ regs[RBP] = p.regs[RBP] /\ regs[RSP] = p.regs[RSP]
  BY <1>3, <1>4, <1>5, <1>8, RegistersKept
<1> HIDE DEF regs
<1>10. FrameOK(img, q) /\ q.fun = p.fun /\ q.bp = p.bp /\ q.acts = acts
  <2>1. q.fun = p.fun /\ q.bp = p.bp /\ q.acts = acts /\ q.regs = regs /\ IsFrame(q)
    BY DEF IsFrame
  <2> HIDE DEF q
  <2> QED BY <1>4, <1>5, <1>8, <1>9, <2>1 DEF FrameOK
<1>11. phys' = [phys EXCEPT ![N] = q]
  BY <1>1 DEF regs
<1> HIDE DEF q
<1>12. ChangedAt(phys, phys', N) /\ StackOK(img, phys')
  <2>1. Depth - Len(p.acts) + Len(q.acts) <= MaxDepth
    <3>1. Len(p.acts) \in Nat /\ Len(q.acts) = Len(p.acts) + 1
      BY <1>5, <1>8, <1>10 DEF ActsOK, IsSeq
    <3>2. Depth \in Nat
      <4>1. \A k \in 1..N : IsSeq(phys[k].acts)
        BY <1>3 DEF StackOK, FrameOK, ActsOK
      <4> QED BY <1>4, <4>1, ActsInSeq DEF Depth, ActsIn, IsSeq
    <3> QED BY <1>1, <3>1, <3>2, MemoryAssumption
  <2> QED BY <1>3, <1>10, <1>11, <2>1, TopChanged
<1>13. IsMem(mem') /\ ReturnsOK(img, phys, mem')
  <2>1. /\ IsMem(mem')
        /\ \A x \in Stack \cup Heap : x \notin DOMAIN slots => mem'[x] = mem[x]
    BY <1>1, <1>3, MemWrite
  <2>2. \A x \in DOMAIN slots : x \in (p.bp + 1 - StackSize(img, p.fun))..(p.bp - 1)
    BY <1>3, <1>4, <1>7, <1>8, SlotsInside
  <2>3. ASSUME NEW n \in 2..N PROVE mem'[phys[n].bp + 1] = mem[phys[n].bp + 1]
    <3>1. n \in 1..N
      BY <1>4
    <3>2. phys[n].bp + 1 \in Stack /\ phys[n].bp \in Int /\ p.bp <= phys[n].bp
      <4>1. phys[n].bp + 1 \in Stack
        BY <1>3, <3>1, TopOK
      <4>2. phys[n].bp \in Int
        BY <1>3, <3>1 DEF StackOK, FrameOK
      <4>3. n <= N
        BY <1>4
      <4>4. phys[N].bp <= phys[n].bp
        BY <1>3, <1>4, <3>1, <4>3 DEF StackOK
      <4> QED BY <1>4, <4>1, <4>2, <4>4
    <3>3. phys[n].bp + 1 \notin DOMAIN slots
      BY <1>4, <2>2, <3>2
    <3> QED BY <2>1, <3>2, <3>3
  <2> QED BY <1>3, <2>1, <2>3 DEF ReturnsOK
<1>14. ReturnsOK(img, phys', mem')
  BY <1>4, <1>12, <1>13, ReturnsChanged
<1> QED BY <1>1, <1>2, <1>3, <1>12, <1>13, <1>14, OptState

NewTop(ph, acts) == [ph EXCEPT ![Len(ph)].acts = acts]

\* The top activation goes on in its frame.
LEMMA TopActsStep ==
  ASSUME IInv, pc = "opt", NEW acts, ActsOK(img, TopFrame.fun, acts),
         Len(acts) <= Len(TopFrame.acts),
         phys' = NewTop(phys, acts),
         UNCHANGED <<img, pc, mem, cpu, inlined>>
  PROVE  IInv'
<1> DEFINE p == TopFrame
           N == Len(phys)
           q == NewActs(p, acts)
<1>1. /\ Supported(img) /\ StackOK(img, phys) /\ IsMem(mem) /\ IsCpu(cpu) /\ inlined = FALSE
      /\ ReturnsOK(img, phys, mem)
  BY DEF IInv, StackInv, OptInv
<1>2. N \in Nat /\ p = phys[N] /\ FrameOK(img, p)
  BY <1>1, TopOK
<1>3. FrameOK(img, q) /\ q.fun = p.fun /\ q.bp = p.bp /\ q.acts = acts
  BY <1>2, FrameActs
<1>4. phys' = [phys EXCEPT ![N] = q]
  BY Zenon, <1>2 DEF NewTop, NewActs
<1> HIDE DEF q
<1>5. Depth - Len(p.acts) + Len(q.acts) <= MaxDepth
  <2>1. Len(p.acts) \in Nat /\ Len(q.acts) \in Nat /\ Len(q.acts) <= Len(p.acts)
    BY <1>2, <1>3 DEF FrameOK, ActsOK, IsSeq
  <2>2. Depth <= MaxDepth /\ Depth \in Nat
    <3>1. \A k \in 1..N : IsSeq(phys[k].acts)
      BY <1>1 DEF StackOK, FrameOK, ActsOK
    <3> QED BY <1>1, <1>2, <3>1, ActsInSeq DEF Depth, ActsIn, IsSeq, StackOK
  <2> QED BY <2>1, <2>2, MemoryAssumption
<1>6. ChangedAt(phys, phys', N) /\ StackOK(img, phys')
  BY <1>1, <1>3, <1>4, <1>5, TopChanged
<1>7. ReturnsOK(img, phys', mem')
  BY <1>1, <1>2, <1>6, ReturnsChanged
<1> QED BY <1>1, <1>6, <1>7, OptState

\* A branch keeps the invariant.
LEMMA OptBranchStep ==
  ASSUME IInv, OptBranch, UNCHANGED <<failVars, handlerVars>>
  PROVE  IInv'
<1> DEFINE acts == Advanced(TopFrame.acts)
<1>1. /\ AtOptSite /\ UNCHANGED <<img, pc, mem, cpu, inlined>>
      /\ phys' = [phys EXCEPT ![Len(phys)].acts = Advanced(@)]
  BY Zenon DEF OptBranch, handlerVars
<1>2. pc = "opt" /\ TopAct.at <= Len(img.prog.body[TopAct.fun])
  BY <1>1 DEF AtOptSite
<1>3. Supported(img) /\ StackOK(img, phys) /\ ProgramOK(img)
  BY <1>2 DEF IInv, StackInv, Supported
<1>4. TopFrame = phys[Len(phys)] /\ FrameOK(img, TopFrame)
  BY <1>3, TopOK
<1>5. ActsOK(img, TopFrame.fun, acts)
  BY <1>2, <1>3, <1>4, AdvancedOK DEF FrameOK, TopAct
<1>6. Len(acts) = Len(TopFrame.acts) /\ Len(TopFrame.acts) \in Nat
  BY <1>4, AdvancedActs DEF FrameOK, ActsOK, IsSeq
<1>7. phys' = NewTop(phys, acts)
  BY Zenon, <1>1, <1>4 DEF NewTop
<1> HIDE DEF acts
<1> QED BY <1>1, <1>2, <1>5, <1>6, <1>7, TopActsStep
\* A return keeps the invariant, be it to a frame or within one.
LEMMA OptReturnStep ==
  ASSUME IInv, OptReturn, UNCHANGED <<failVars, handlerVars>>
  PROVE  IInv'
<1> DEFINE p == TopFrame
           N == Len(phys)
<1>1. /\ pc = "opt" /\ UNCHANGED <<img, mem, cpu, inlined>>
      /\ TopAct.at = Len(img.prog.body[TopAct.fun]) + 1
  BY DEF OptReturn, handlerVars
<1>2. /\ Supported(img) /\ StackOK(img, phys) /\ IsMem(mem) /\ IsCpu(cpu) /\ inlined = FALSE
      /\ ReturnsOK(img, phys, mem) /\ ProgramOK(img)
  BY <1>1 DEF IInv, StackInv, OptInv, Supported
<1>3. /\ N \in Nat /\ N >= 1 /\ N \in 1..N /\ p = phys[N] /\ FrameOK(img, p) /\ IsSeq(phys)
  BY <1>2, TopOK
<1>4. ActsOK(img, p.fun, p.acts) /\ Len(p.acts) \in Nat
  BY <1>3 DEF FrameOK, ActsOK, IsSeq
<1>5. CASE /\ Len(p.acts) > 1
           /\ phys' = [phys EXCEPT ![Len(phys)].acts = Advanced(Front(@))]
           /\ pc' = pc
  <2> DEFINE acts == Advanced(Front(p.acts))
  <2>1. ActsOK(img, p.fun, acts) /\ Len(acts) = Len(p.acts) - 1
    BY Zenon, <1>2, <1>4, <1>5, ReturnedOK
  <2>2. phys' = NewTop(phys, acts)
    BY Zenon, <1>3, <1>5 DEF NewTop
  <2> HIDE DEF acts
  <2>3. Len(acts) <= Len(TopFrame.acts)
    BY <1>4, <2>1
  <2> QED BY <1>1, <1>5, <2>1, <2>2, <2>3, TopActsStep
<1>6. CASE /\ Len(p.acts) = 1 /\ N > 1
           /\ phys' = LET below == Front(phys) IN
                      [below EXCEPT ![Len(below)].acts = Advanced(@)]
           /\ pc' = pc
  <2> DEFINE n == N - 1
             acts == Advanced(phys[n].acts)
             q == NewActs(phys[n], acts)
             below == Front(phys)
  <2>1. n \in Nat \ {0} /\ n \in 1..N /\ n \in 1..(N - 1) /\ n + 1 = N /\ n >= 1 /\ n \in 1..n
    BY <1>3, <1>6
  <2>2. FrameOK(img, phys[n]) /\ CallsFrame(img, phys[n], phys[n + 1])
    BY <1>2, <2>1 DEF StackOK
  <2>3. /\ ActsOK(img, phys[n].fun, phys[n].acts)
        /\ Last(phys[n].acts).at <= Len(img.prog.body[Last(phys[n].acts).fun])
    BY <2>2 DEF FrameOK, CallsFrame, AtSiteOf
  <2>4. ActsOK(img, phys[n].fun, acts) /\ Len(acts) = Len(phys[n].acts)
    BY <1>2, <2>3, AdvancedOK, AdvancedActs DEF ActsOK
  <2> HIDE DEF acts
  <2>5. FrameOK(img, q) /\ q.fun = phys[n].fun /\ q.bp = phys[n].bp /\ q.acts = acts
    BY <2>2, <2>4, FrameActs
  <2>6. IsSeq(below) /\ Len(below) = n /\ \A i \in 1..n : below[i] = phys[i]
    BY <1>3, FrontAny
  <2>7. phys' = [below EXCEPT ![n] = q]
    <3>1. phys' = [below EXCEPT ![Len(below)].acts = Advanced(@)]
      BY <1>6
    <3>2. below[n] = phys[n] /\ Len(below) = n
      BY <2>1, <2>6
    <3> HIDE DEF n, below
    <3> QED BY Zenon, <3>1, <3>2 DEF NewActs, acts
  <2> HIDE DEF q, below, n
  <2>8. /\ IsSeq(phys') /\ Len(phys') = n
        /\ \A i \in 1..(n - 1) : phys'[i] = below[i]
        /\ phys'[n] = q
    <3>1. phys' = [below EXCEPT ![Len(below)] = q] /\ Len(below) >= 1
      BY <2>1, <2>6, <2>7
    <3> DEFINE t == [below EXCEPT ![Len(below)] = q]
    <3>2. /\ IsSeq(t) /\ Len(t) = Len(below)
          /\ \A i \in 1..(Len(below) - 1) : t[i] = below[i]
          /\ t[Len(below)] = q
      BY <2>6, <3>1, LastChanged
    <3>3. phys' = t
      BY <3>1
    <3> HIDE DEF t
    <3> QED BY Zenon, <2>6, <3>2, <3>3
  <2>9. ChangedAt(phys, phys', n)
    <3>1. \A i \in 1..(n - 1) : phys'[i] = phys[i]
      BY <2>1, <2>6, <2>8
    <3> QED BY <2>1, <2>5, <2>8, <3>1 DEF ChangedAt
  <2>10. Len(ActsIn(phys', n)) <= MaxDepth
    <3>1. IsSeq(phys'[n].acts) /\ Len(phys'[n].acts) = Len(phys[n].acts)
      BY <2>4, <2>5, <2>8 DEF ActsOK
    <3>2. LastActs(phys, n) /\ LastActs(phys', n) /\ ActsIn(phys', n - 1) = ActsIn(phys, n - 1)
      BY <1>2, <2>9, <3>1, ActsChanged
    <3>3. Len(ActsIn(phys', n)) = Len(ActsIn(phys, n))
      BY <3>1, <3>2 DEF LastActs
    <3>4. \A k \in 1..N : IsSeq(phys[k].acts)
      BY <1>2 DEF StackOK, FrameOK, ActsOK
    <3>5. IsSeq(ActsIn(phys, n))
      <4>1. \A k \in 1..n : IsSeq(phys[k].acts)
        BY <2>1, <3>4
      <4> QED BY <2>1, <4>1, ActsInSeq
    <3>6. ActsIn(phys, N) = ActsIn(phys, n) \o p.acts
      <4>1. N \in Nat \ {0} /\ n = N - 1
        BY <1>3 DEF n
      <4> QED BY Zenon, <1>3, <3>4, <4>1, ActsInStep
    <3>7. Len(ActsIn(phys, N)) = Len(ActsIn(phys, n)) + 1
      <4>1. Len(ActsIn(phys, n) \o p.acts) = Len(ActsIn(phys, n)) + Len(p.acts)
        BY <1>4, <3>5, ConcatAny DEF ActsOK
      <4> QED BY <1>6, <3>6, <4>1
    <3>8. Len(ActsIn(phys, N)) <= MaxDepth /\ Len(ActsIn(phys, n)) \in Nat
      BY <1>2, <3>5 DEF StackOK, IsSeq
    <3> QED BY <3>3, <3>7, <3>8, MemoryAssumption
  <2>11. StackOK(img, phys')
    BY <1>2, <2>5, <2>8, <2>9, <2>10, StackChanged
  <2>12. ReturnsOK(img, phys', mem')
    BY <1>1, <1>2, <1>3, <2>9, ReturnsChanged
  <2> QED BY <1>1, <1>2, <1>6, <2>11, <2>12, OptState
<1>7. CASE phys' = <<>> /\ pc' = "done"
  BY <1>1, <1>2, <1>7, RestState
<1> QED BY <1>5, <1>6, <1>7 DEF OptReturn

\* Unoptimized code leaves the handler alone.
LEMMA UnoptStepRests ==
  ASSUME IInv, UnoptStep
  PROVE  IInv'
<1>1. /\ pc = "unopt" /\ UNCHANGED <<img, phys>>
      /\ pc' \in {"unopt", "done", "crashed"}
  BY DEF UnoptStep, UnoptAdvance, UnoptReturn, UnoptCall, AtUnoptSite
<1>2. Supported(img) /\ phys = <<>>
  BY <1>1 DEF IInv, PcInv
<1> QED BY <1>1, <1>2, RestState

-----------------------------------------------------------------------------
(***************************************************************************)
(* The guard fails: the frames are those of the stack.                     *)
(***************************************************************************)
LEMMA FailureState ==
  ASSUME IInv, GuardFailure
  PROVE  /\ pc' = "collect" /\ idx' = 1
         /\ Supported(img) /\ StackOK(img, phys)
         /\ UNCHANGED <<img, phys, inlined>> /\ inlined = FALSE
         /\ IsMem(mem')
         /\ FailureOK(img, phys, sm_id', ret')
         /\ HandlerOK(img, phys, cpu', mem', ret')
         /\ CollectOK(img, phys, frames', mem', 1)
<1> DEFINE p == TopFrame
           N == Len(phys)
           rsp == p.regs[RSP]
           id == PatchpointId(img.prog, TopAct.fun, TopAct.at)
           opt   == stmap_get_map_record(sm, id)
           unopt == stmap_get_map_record(sm, Negate(id))
           back == OptAddr(img, p.fun, Path(p.acts)) + PATCHPOINT_CALL_SIZE
<1>1. /\ AtOptSite /\ TopSite.kind = "guard"
      /\ sm_id' = id /\ ret' = back
      /\ mem' = [mem EXCEPT ![rsp - 1] = back, ![rsp - 2] = p.bp]
      /\ cpu' = [cpu EXCEPT !.rbp = rsp - 2, !.rsp = rsp - 2 - HandlerFrame]
      /\ frames' = get_call_stack_state
      /\ pc' = IF opt = NULL \/ unopt = NULL THEN "exited" ELSE "collect"
      /\ idx' = 1
      /\ UNCHANGED <<img, phys, inlined>>
  BY Zenon DEF GuardFailure
<1>2. pc = "opt"
  BY <1>1 DEF AtOptSite
<1>3. /\ Supported(img) /\ StackOK(img, phys) /\ IsMem(mem) /\ IsCpu(cpu) /\ inlined = FALSE
      /\ ReturnsOK(img, phys, mem)
  BY <1>2 DEF IInv, StackInv, OptInv
<1>4. /\ N \in Nat /\ N >= 1 /\ N \in 1..N /\ p = phys[N] /\ p = Last(phys)
      /\ rsp - 2 \in Stack /\ rsp - 1 \in Stack /\ rsp - 1 = (rsp - 2) + 1
      /\ rsp - 2 = p.bp - StackSize(img, p.fun) - 1
      /\ \A m \in 1..N : phys[m].bp + 1 \in Stack /\ phys[m].bp + 1 > rsp - 1
  BY <1>3, TopOK DEF TopFrame
<1>5. /\ AtSiteOf(img, p, "guard") /\ CallAddr(img, p) = OptAddr(img, p.fun, Path(p.acts))
      /\ TopAct = Last(p.acts) /\ TopAct.fun \in DOMAIN img.prog.body
      /\ TopAct.at \in 1..Len(img.prog.body[TopAct.fun])
  BY <1>1, <1>3, TopSiteOK
<1>6. id = IdAt(img, SiteIn(p)) /\ opt # NULL /\ unopt # NULL
  <2>1. id = IdAt(img, <<TopAct.fun, TopAct.at>>)
    BY DEF IdAt
  <2>2. RecordOK(img, <<TopAct.fun, TopAct.at>>)
    BY <1>3, <1>5 DEF Supported, RecordsOK
  <2> QED BY <1>5, <2>1, <2>2 DEF SiteIn, RecordOK, sm
<1>7. pc' = "collect"
  BY <1>1, <1>6
<1> HIDE DEF id, opt, unopt
<1>8. FailureOK(img, phys, sm_id', ret')
  BY <1>1, <1>4, <1>5, <1>6 DEF FailureOK
<1> HIDE DEF back, rsp, p
<1>9. /\ IsMem(mem') /\ mem'[rsp - 1] = back /\ mem'[rsp - 2] = p.bp
      /\ \A x \in Stack : x > rsp - 1 => mem'[x] = mem[x]
  <2> DEFINE y == rsp - 2
             y1 == rsp - 1
             m2 == TwoWritten(mem, y1, back, y, p.bp)
  <2>1. y \in Stack \cup Heap /\ y1 \in Stack \cup Heap /\ y # y1 /\ y \in Int /\ y1 = y + 1
    BY <1>4 DEF Stack
  <2>2. mem' = m2
    BY Zenon, <1>1 DEF TwoWritten, rsp, p
  <2> HIDE DEF y, y1
  <2>3. /\ IsMem(m2) /\ m2[y1] = back /\ m2[y] = p.bp
        /\ \A x \in Stack \cup Heap : x # y1 /\ x # y => m2[x] = mem[x]
    BY <1>3, <2>1, MemTwo
  <2> HIDE DEF m2
  <2>4. \A x \in Stack : x > y1 => mem'[x] = mem[x]
    BY <2>1, <2>2, <2>3 DEF Stack
  <2> QED BY <2>2, <2>3, <2>4 DEF y, y1
<1>10. HandlerOK(img, phys, cpu', mem', ret')
  <2>1. cpu' = [rip |-> cpu.rip, rbp |-> rsp - 2, rsp |-> rsp - 2 - HandlerFrame,
                regs |-> cpu.regs]
    BY <1>1, <1>3 DEF IsCpu, rsp, p
  <2>2. IsCpu(cpu') /\ cpu'.rbp = rsp - 2
    BY <2>1 DEF IsCpu
  <2>3. /\ cpu'.rbp = Last(phys).bp - StackSize(img, Last(phys).fun) - 1
        /\ mem'[cpu'.rbp] = Last(phys).bp
        /\ mem'[cpu'.rbp + 1] = ret'
    BY <1>1, <1>4, <1>9, <2>2 DEF back, rsp, p
  <2> QED BY <2>2, <2>3 DEF HandlerOK
<1>11. CollectOK(img, phys, frames', mem', 1)
  <2> DEFINE fs == frames'
             entry(k) == LET f == phys[Len(phys) + 1 - k] IN
               [ret_addr |-> f.bp + ADDR_SIZE, stored_ret_addr |-> mem[f.bp + ADDR_SIZE],
                size |-> Junk, bp |-> f.bp, real_bp |-> f.bp, registers |-> f.regs,
                record |-> NULL, real_record |-> NULL, inlined |-> FALSE]
  <2>1. fs = [k \in 1..N |-> entry(k)]
    BY <1>1 DEF get_call_stack_state
  <2> HIDE DEF entry
  <2>2. fs = [k \in 1..N |-> fs[k]] /\ \A k \in 1..N : fs[k] = entry(k)
    BY <2>1
  <2>3. IsSeq(fs) /\ Len(fs) = N
    BY <1>4, <2>2, FunctionIsSeq
  <2>4. \A k \in 1..N : /\ ReadFrom(fs[k], phys[(N + 1) - k])
                        /\ fs[k].stored_ret_addr = mem[phys[(N + 1) - k].bp + 1]
                        /\ fs[k].ret_addr = phys[(N + 1) - k].bp + 1
    BY <2>2 DEF entry, ReadFrom, IsEntry, ADDR_SIZE
  <2> HIDE DEF fs
  <2>5. ASSUME NEW k \in 1..(N - 1)
        PROVE  /\ fs[k].stored_ret_addr = CallAddr(img, phys[N - k])
               /\ ~(k < 1)
               /\ k >= 1 => mem'[fs[k].ret_addr] = CallAddr(img, phys[N - k])
    <3>1. k \in 1..N /\ (N + 1) - k \in 2..N /\ ((N + 1) - k) - 1 = N - k /\ (N + 1) - k \in 1..N
      BY <1>4
    <3>2. mem[phys[(N + 1) - k].bp + 1] = CallAddr(img, phys[((N + 1) - k) - 1])
      BY <1>3, <3>1 DEF ReturnsOK
    <3>3. mem[phys[(N + 1) - k].bp + 1] = CallAddr(img, phys[N - k])
      BY <3>1, <3>2
    <3>4. mem'[phys[(N + 1) - k].bp + 1] = mem[phys[(N + 1) - k].bp + 1]
      BY <1>4, <1>9, <3>1
    <3>5. ~(k < 1)
      OBVIOUS
    <3> QED BY <2>4, <3>1, <3>3, <3>4, <3>5
  <2>6. 1 \in 1..N
    BY <1>4
  <2> QED BY <2>3, <2>4, <2>5, <2>6 DEF CollectOK, fs
<1> QED BY <1>1, <1>3, <1>7, <1>8, <1>9, <1>10, <1>11

\* The failure of the guard establishes what collect_map_records needs.
LEMMA GuardFailureStep ==
  ASSUME IInv, GuardFailure
  PROVE  IInv'
<1>1. /\ pc' = "collect" /\ idx' = 1 /\ Supported(img) /\ StackOK(img, phys)
      /\ UNCHANGED <<img, phys, inlined>> /\ inlined = FALSE /\ IsMem(mem')
      /\ FailureOK(img, phys, sm_id', ret')
      /\ CollectOK(img, phys, frames', mem', 1)
  BY FailureState
<1>2. Supported(img') /\ PcInv' /\ OptInv'
  BY <1>1 DEF PcInv, OptInv, HandlerPoints
<1>3. StackInv' /\ FailureInv' /\ CollectInv'
  BY <1>1 DEF StackInv, FailureInv, CollectInv
<1>4. InlineInv' /\ FailInv' /\ MatchInv' /\ SegmentInv'
  BY <1>1 DEF InlineInv, FailInv, MatchInv, SegmentInv
<1> QED BY <1>2, <1>3, <1>4 DEF IInv
-----------------------------------------------------------------------------
(***************************************************************************)
(* The handler keeps its own frame intact when it writes above it.         *)
(***************************************************************************)
\* On the path without inlining the variables of a caller are written relative
\* to the base pointer of its callee: none of them lies below the callee's frame.
FitsCallee(b) ==
  \A f \in FunctionsRun(b) : \A w \in SitePaths(b, f) :
    (Len(w) = 1 /\ SiteOf(b, w).kind = "call") =>
      StackOffsets(b, stmap_get_map_record(b.sm, Negate(IdAt(b, Last(w))))) \subseteq
        (1 - StackSize(b, SiteOf(b, w).callee))..(-1)

HandlerInv ==
  (/\ pc \in HandlerPoints
   /\ pc \in {"restore", "jmp_to_addr", "jump_inlined"} => inlined \/ FitsCallee(img)) =>
    HandlerOK(img, phys, cpu, mem, ret)

\* Writing above the lowest frame of optimized code leaves that of the handler alone.
LEMMA HandlerKept ==
  ASSUME NEW b, Supported(b), NEW ph, StackOK(b, ph), NEW c, NEW m, NEW rt,
         HandlerOK(b, ph, c, m, rt), NEW c2, IsCpu(c2), c2.rbp = c.rbp, NEW m2,
         \A x \in Stack : x <= Last(ph).bp - StackSize(b, Last(ph).fun) => m2[x] = m[x]
  PROVE  HandlerOK(b, ph, c2, m2, rt)
<1> DEFINE p == Last(ph)
           s == StackSize(b, p.fun)
<1>1. p = ph[Len(ph)] /\ Len(ph) \in 1..Len(ph)
  BY DEF Last, StackOK, IsSeq
<1>2. p.bp \in Int /\ s \in Nat \ {0} /\ p.bp - s - 1 > 2 /\ p.bp <= MainBp /\ MainBp \in 1..StackTop
  BY <1>1, StackRoom, MemoryAssumption
<1>3. c.rbp = p.bp - s - 1 /\ m[c.rbp] = p.bp /\ m[c.rbp + 1] = rt
  BY DEF HandlerOK
<1> HIDE DEF p, s
<1>4. /\ c.rbp \in Stack /\ c.rbp <= p.bp - s
      /\ c.rbp + 1 \in Stack /\ c.rbp + 1 <= p.bp - s
  BY <1>2, <1>3, MemoryAssumption DEF Stack
<1>5. m2[c.rbp] = p.bp /\ m2[c.rbp + 1] = rt
  BY <1>3, <1>4 DEF p, s
<1> QED BY <1>3, <1>5 DEF HandlerOK, p, s

\* A callee is strictly below its caller.
LEMMA StackStrict ==
  ASSUME NEW b, Supported(b), NEW ph, StackOK(b, ph), NEW m \in 1..Len(ph), NEW n \in 1..Len(ph),
         m < n
  PROVE  ph[n].bp \in Int /\ ph[m].bp \in Int /\ ph[n].bp < ph[m].bp
<1>1. m + 1 \in 1..Len(ph) /\ m \in 1..(Len(ph) - 1) /\ m + 1 <= n
  BY DEF StackOK, IsSeq
<1>2. ph[n].bp <= ph[m + 1].bp /\ CallsFrame(b, ph[m], ph[m + 1])
  BY <1>1 DEF StackOK
<1>3. ph[m].bp \in Int /\ ph[n].bp \in Int /\ StackSize(b, ph[m].fun) \in Nat
  BY StackRoom
<1>4. ph[m + 1].bp = ph[m].bp - StackSize(b, ph[m].fun) - 1
  BY <1>2 DEF CallsFrame
<1> QED BY <1>2, <1>3, <1>4

\* The frame below one that was called is at a call.
LEMMA CallerSite ==
  ASSUME NEW b, Supported(b), NEW ph, StackOK(b, ph), NEW n \in 1..(Len(ph) - 1)
  PROVE  /\ ph[n].fun \in FunctionsRun(b)
         /\ Path(ph[n].acts) \in SitePaths(b, ph[n].fun)
         /\ Last(Path(ph[n].acts)) = SiteIn(ph[n])
         /\ Len(Path(ph[n].acts)) = Len(ph[n].acts)
         /\ \A k \in 1..Len(ph[n].acts) :
              Path(ph[n].acts)[k] = <<ph[n].acts[k].fun, ph[n].acts[k].at>>
         /\ SiteIn(ph[n])[1] \in DOMAIN b.prog.body
         /\ SiteIn(ph[n])[2] \in 1..Len(b.prog.body[SiteIn(ph[n])[1]])
         /\ SiteOf(b, Path(ph[n].acts)).kind = "call"
         /\ SiteOf(b, Path(ph[n].acts)).callee = ph[n + 1].fun
         /\ CallOK(b, ph[n].fun, Path(ph[n].acts))
         /\ RecordOK(b, SiteIn(ph[n]))
<1> DEFINE p == ph[n]
<1>1. ProgramOK(b) /\ CodeOK(b) /\ RecordsOK(b) /\ LookupsOK(b)
  BY DEF Supported
<1>2. /\ FrameOK(b, p) /\ CallsFrame(b, p, ph[n + 1]) /\ p.fun \in FunctionsRun(b)
      /\ ActsOK(b, p.fun, p.acts)
  <2>1. n \in 1..Len(ph)
    BY DEF StackOK, IsSeq
  <2> QED BY <2>1 DEF StackOK, FrameOK
<1> HIDE DEF p
<1>3. /\ Last(p.acts).at <= Len(b.prog.body[Last(p.acts).fun])
      /\ b.prog.body[Last(p.acts).fun][Last(p.acts).at].kind = "call"
      /\ b.prog.body[Last(p.acts).fun][Last(p.acts).at].callee = ph[n + 1].fun
  BY <1>2 DEF CallsFrame, AtSiteOf
<1>4. /\ Path(p.acts) \in SitePaths(b, p.fun)
      /\ Last(Path(p.acts)) = <<Last(p.acts).fun, Last(p.acts).at>>
      /\ SiteOf(b, Path(p.acts)) = b.prog.body[Last(p.acts).fun][Last(p.acts).at]
      /\ Len(Path(p.acts)) = Len(p.acts)
      /\ \A k \in 1..Len(p.acts) : Path(p.acts)[k] = <<p.acts[k].fun, p.acts[k].at>>
  BY <1>1, <1>2, <1>3, PathAtSite
<1>5. CallOK(b, p.fun, Path(p.acts))
  BY <1>1, <1>2, <1>3, <1>4 DEF LookupsOK
<1>6. /\ Last(p.acts).fun \in DOMAIN b.prog.body
      /\ Last(p.acts).at \in 1..Len(b.prog.body[Last(p.acts).fun])
  BY <1>2, <1>3 DEF ActsOK
<1>7. /\ SiteIn(p) = <<Last(p.acts).fun, Last(p.acts).at>>
      /\ SiteIn(p)[1] = Last(p.acts).fun /\ SiteIn(p)[2] = Last(p.acts).at
  BY DEF SiteIn
<1>8. RecordOK(b, SiteIn(p))
  BY <1>1, <1>6, <1>7 DEF RecordsOK
<1> QED BY Zenon, <1>2, <1>3, <1>4, <1>5, <1>6, <1>7, <1>8 DEF p

-----------------------------------------------------------------------------
(***************************************************************************)
(* collect_map_records.                                                    *)
(***************************************************************************)
Changed(s, i, e) == [s EXCEPT ![i] = e]

\* An assignment to one element of an array.
LEMMA ElementChanged ==
  ASSUME NEW s, IsSeq(s), NEW i \in 1..Len(s), NEW e
  PROVE  /\ IsSeq(Changed(s, i, e)) /\ Len(Changed(s, i, e)) = Len(s)
         /\ Changed(s, i, e)[i] = e
         /\ \A k \in 1..Len(s) : k # i => Changed(s, i, e)[k] = s[k]
<1> DEFINE n == Len(s)
           t == Changed(s, i, e)
<1>1. n \in Nat /\ s = [k \in 1..n |-> s[k]] /\ i \in 1..n
  BY DEF IsSeq
<1> HIDE DEF n
<1>2. t = [k \in 1..n |-> IF k = i THEN e ELSE s[k]]
  BY <1>1 DEF Changed
<1> HIDE DEF t
<1>3. t = [k \in 1..n |-> t[k]] /\ t[i] = e /\ \A k \in 1..n : k # i => t[k] = s[k]
  BY <1>1, <1>2
<1>4. IsSeq(t) /\ Len(t) = n
  BY <1>1, <1>3, FunctionIsSeq
<1> QED BY <1>3, <1>4 DEF n, t

WithRecords(fr, opt, real, size) ==
  [fr EXCEPT !.record = opt, !.real_record = real, !.size = size]

\* collect_map_records sets three members of a frame and no other.
LEMMA RecordsSet ==
  ASSUME NEW fr, IsEntry(fr), NEW opt, NEW real, NEW size
  PROVE  LET g == WithRecords(fr, opt, real, size) IN
         /\ IsEntry(g)
         /\ g.record = opt /\ g.real_record = real /\ g.size = size
         /\ g.ret_addr = fr.ret_addr /\ g.stored_ret_addr = fr.stored_ret_addr
         /\ g.bp = fr.bp /\ g.real_bp = fr.real_bp /\ g.registers = fr.registers
         /\ g.inlined = fr.inlined
<1> DEFINE g1 == [fr EXCEPT !.record = opt]
           g2 == [g1 EXCEPT !.real_record = real]
           g3 == [g2 EXCEPT !.size = size]
           Rec(a, b, c) ==
             [ret_addr |-> fr.ret_addr, stored_ret_addr |-> fr.stored_ret_addr,
              size |-> a, bp |-> fr.bp, real_bp |-> fr.real_bp,
              registers |-> fr.registers, record |-> b,
              real_record |-> c, inlined |-> fr.inlined]
<1>1. g1 = Rec(fr.size, opt, fr.real_record)
  BY DEF IsEntry
<1> HIDE DEF g1
<1>2. g2 = Rec(fr.size, opt, real)
  BY <1>1
<1> HIDE DEF g2
<1>3. g3 = Rec(size, opt, real)
  BY <1>2
<1>4. WithRecords(fr, opt, real, size) = g3
  BY Zenon DEF WithRecords, g1, g2
<1> HIDE DEF g3
<1> QED BY <1>3, <1>4 DEF IsEntry

\* collect_map_records, for one frame, keeps the invariant: it finds the records of
\* the call and writes only to the return address of the frame, above the handler.
LEMMA CollectStep ==
  ASSUME IInv, collect_map_records
  PROVE  IInv' /\ (HandlerInv => HandlerInv')
<1> DEFINE D == Len(phys)
           i == idx
           p == phys[D - i]
           back == CallAddr(img, p)
           id == IdAt(img, SiteIn(p))
           unopt == stmap_get_unopt_return_addr(sm, mem[frames[i].ret_addr])
           opt == stmap_get_map_record(sm, id)
           real == stmap_get_map_record_after_addr(sm, id, back)
           size == sm.funcs[stmap_get_size_record(sm, opt)].stack_size
           target == AddrOf(sm, unopt) + PATCHPOINT_CALL_SIZE
           e == WithRecords(frames[i], opt, real, size)
<1>1. /\ pc = "collect" /\ i <= Len(frames) - 1
      /\ UNCHANGED <<img, calls, sm_id, ret, phys, cpu, locs, seg, r>>
  BY DEF collect_map_records, LastIdx, failVars
<1>2. /\ Supported(img) /\ StackOK(img, phys) /\ IsMem(mem)
      /\ FailureOK(img, phys, sm_id, ret)
      /\ CollectOK(img, phys, frames, mem, i) /\ inlined = FALSE
  BY <1>1 DEF IInv, StackInv, FailureInv, CollectInv, HandlerPoints
<1>3. D \in Nat /\ Len(frames) = D /\ IsSeq(frames) /\ i \in 1..D /\ i \in 1..(D - 1)
  BY <1>1, <1>2 DEF CollectOK, StackOK, IsSeq
<1>4. D - i \in 1..(D - 1) /\ (D - i) + 1 = (D + 1) - i /\ (D + 1) - i \in 1..D
  BY <1>3
<1>5. /\ CallOK(img, p.fun, Path(p.acts)) /\ RecordOK(img, SiteIn(p))
      /\ Last(Path(p.acts)) = SiteIn(p)
  BY <1>2, <1>4, CallerSite
<1>6. /\ mem[frames[i].ret_addr] = back /\ frames[i].stored_ret_addr = back
      /\ frames[i].ret_addr = phys[(D + 1) - i].bp + 1
      /\ IsEntry(frames[i])
  BY <1>2, <1>3 DEF CollectOK, ReadFrom
<1>7. /\ unopt \notin {NoPosition, NotFound} /\ Negate(sm.recs[unopt].patchpoint_id) = id
      /\ real # NULL
  BY <1>5, <1>6 DEF CallOK, CallAddr, sm
<1>8. size = StackSize(img, SiteIn(p)[1])
  BY <1>5 DEF RecordOK, sm
<1> HIDE DEF p, back, id, unopt
<1>9. /\ mem' = [mem EXCEPT ![frames[i].ret_addr] = target]
      /\ frames' = Changed(frames, i, e)
      /\ idx' = i + 1 /\ pc' = "collect" /\ inlined' = inlined
  <2>1. CollectRecord(i, unopt)
    BY <1>7 DEF collect_map_records, unopt
  <2>2. stmap_get_map_record_after_addr(sm, Negate(sm.recs[unopt].patchpoint_id),
          frames[i].stored_ret_addr) = real
    BY <1>6, <1>7
  <2>3. /\ mem' = [mem EXCEPT ![frames[i].ret_addr] = AddrOf(sm, unopt) + PATCHPOINT_CALL_SIZE]
        /\ frames' = [frames EXCEPT ![i] = [frames[i] EXCEPT
             !.record = stmap_get_map_record(sm, Negate(sm.recs[unopt].patchpoint_id)),
             !.real_record = stmap_get_map_record_after_addr(sm,
                Negate(sm.recs[unopt].patchpoint_id), frames[i].stored_ret_addr),
             !.size = sm.funcs[stmap_get_size_record(sm,
                stmap_get_map_record(sm, Negate(sm.recs[unopt].patchpoint_id)))].stack_size]]
        /\ idx' = idx + 1 /\ pc' = pc /\ inlined' = inlined
    BY Zenon, <1>7, <2>1, <2>2 DEF CollectRecord
  <2>4. frames' = Changed(frames, i, e)
    BY Zenon, <1>7, <2>2, <2>3 DEF Changed, WithRecords
  <2> QED BY <1>1, <2>3, <2>4
<1> HIDE DEF real, opt, size, target
<1>10. /\ IsEntry(e) /\ e.record = opt /\ e.real_record = real /\ e.size = size
       /\ e.ret_addr = frames[i].ret_addr /\ e.stored_ret_addr = frames[i].stored_ret_addr
       /\ e.bp = frames[i].bp /\ e.real_bp = frames[i].real_bp
       /\ e.registers = frames[i].registers /\ e.inlined = frames[i].inlined
  BY <1>6, RecordsSet
<1> HIDE DEF e
<1>11. /\ IsSeq(frames') /\ Len(frames') = D /\ frames'[i] = e
       /\ \A k \in 1..D : k # i => frames'[k] = frames[k]
  BY <1>3, <1>9, ElementChanged
<1>12. IsMem(mem') /\ \A x \in Stack \cup Heap : x # frames[i].ret_addr => mem'[x] = mem[x]
  <2> DEFINE a == frames[i].ret_addr
             m2 == [mem EXCEPT ![a] = target]
  <2>1. mem' = m2
    BY <1>9
  <2> HIDE DEF a
  <2>2. IsMem(m2) /\ \A x \in Stack \cup Heap : x # a => m2[x] = mem[x]
    BY <1>2, MemExcept
  <2> HIDE DEF m2
  <2> QED BY Zenon, <2>1, <2>2 DEF a
<1>13. \A k \in 1..D : ReadFrom(frames'[k], phys[(D + 1) - k])
  <2> TAKE k \in 1..D
  <2>1. ReadFrom(frames[k], phys[(D + 1) - k])
    BY <1>2 DEF CollectOK
  <2>2. CASE k = i
    BY <1>10, <1>11, <2>1, <2>2 DEF ReadFrom
  <2>3. CASE k # i
    BY <1>11, <2>1, <2>3
  <2> QED BY <2>2, <2>3
<1>14. \A k \in 1..(D - 1) :
         /\ frames'[k].stored_ret_addr = CallAddr(img, phys[D - k])
         /\ k < i + 1 => Collected(img, frames'[k], phys[D - k])
         /\ k >= i + 1 => mem'[frames'[k].ret_addr] = CallAddr(img, phys[D - k])
  <2> TAKE k \in 1..(D - 1)
  <2>1. /\ frames[k].stored_ret_addr = CallAddr(img, phys[D - k])
        /\ k < i => Collected(img, frames[k], phys[D - k])
        /\ k >= i => mem[frames[k].ret_addr] = CallAddr(img, phys[D - k])
        /\ k \in 1..D
    BY <1>2, <1>3 DEF CollectOK
  <2>2. CASE k = i
    <3>1. Collected(img, e, phys[D - k])
      BY <1>8, <1>10, <2>2 DEF Collected, id, opt, real, back, p, sm
    <3>2. ~(k >= i + 1)
      BY <1>3, <2>2
    <3> QED BY <1>10, <1>11, <2>1, <2>2, <3>1, <3>2
  <2>3. CASE k # i
    <3>1. frames'[k] = frames[k]
      BY <1>11, <2>1, <2>3
    <3>2. (k < i + 1 => k < i) /\ (k >= i + 1 => k >= i /\ k > i)
      BY <1>3, <2>3
    <3>3. ASSUME k > i PROVE mem'[frames[k].ret_addr] = mem[frames[k].ret_addr]
      <4>1. frames[k].ret_addr = phys[(D + 1) - k].bp + 1
        BY <1>2, <2>1 DEF CollectOK, ReadFrom
      <4>2. (D + 1) - k \in 1..D /\ (D + 1) - k < (D + 1) - i
        BY <1>3, <2>1, <3>3
      <4>3. /\ phys[(D + 1) - i].bp < phys[(D + 1) - k].bp
            /\ phys[(D + 1) - i].bp \in Int /\ phys[(D + 1) - k].bp \in Int
        BY <1>2, <1>4, <4>2, StackStrict
      <4>4. phys[(D + 1) - k].bp + 1 \in Stack
        BY <1>2, <4>2, TopOK
      <4>5. frames[k].ret_addr # frames[i].ret_addr
        BY <1>6, <4>1, <4>3
      <4> QED BY <1>12, <4>1, <4>4, <4>5
    <3> QED BY <2>1, <3>1, <3>2, <3>3
  <2> QED BY <2>2, <2>3
<1>15. CollectOK(img, phys, frames', mem', i + 1)
  <2>1. i + 1 \in 1..D
    BY <1>3
  <2> QED BY <1>11, <1>13, <1>14, <2>1 DEF CollectOK
<1>16. IInv'
  <2>1. Supported(img') /\ PcInv' /\ OptInv'
    BY <1>1, <1>2, <1>9 DEF PcInv, OptInv, HandlerPoints
  <2>2. StackInv' /\ FailureInv' /\ CollectInv'
    BY <1>1, <1>2, <1>9, <1>12, <1>15 DEF StackInv, FailureInv, CollectInv
  <2>3. InlineInv' /\ FailInv' /\ MatchInv' /\ SegmentInv'
    BY <1>9 DEF InlineInv, FailInv, MatchInv, SegmentInv
  <2> QED BY <2>1, <2>2, <2>3 DEF IInv
<1>17. ASSUME HandlerInv PROVE HandlerInv'
  <2>1. HandlerOK(img, phys, cpu, mem, ret)
    BY <1>1, <1>17 DEF HandlerInv, HandlerPoints
  <2>2. \A x \in Stack : x <= Last(phys).bp - StackSize(img, Last(phys).fun) => mem'[x] = mem[x]
    <3>1. /\ TopFrame = Last(phys) /\ TopFrame.bp \in Int
          /\ StackSize(img, TopFrame.fun) \in Nat \ {0}
          /\ TopFrame.regs[RSP] - 1 = (TopFrame.regs[RSP] - 2) + 1
          /\ TopFrame.regs[RSP] - 2 = TopFrame.bp - StackSize(img, TopFrame.fun) - 1
      BY <1>2, TopOK DEF TopFrame
    <3>2. phys[(D + 1) - i].bp + 1 > TopFrame.regs[RSP] - 1
      BY <1>2, <1>4, TopOK
    <3>3. phys[(D + 1) - i].bp \in Int
      BY <1>2, <1>4, StackRoom
    <3>4. phys[(D + 1) - i].bp + 1 > Last(phys).bp - StackSize(img, Last(phys).fun)
      BY <3>1, <3>2, <3>3
    <3> QED BY <1>6, <1>12, <3>1, <3>3, <3>4 DEF Stack
  <2>3. HandlerOK(img, phys, cpu, mem', ret)
    BY <1>2, <2>1, <2>2, HandlerKept DEF HandlerOK
  <2> QED BY <1>1, <2>3 DEF HandlerInv
<1> QED BY <1>16, <1>17
-----------------------------------------------------------------------------
(***************************************************************************)
(* collect_inlined_frames.                                                 *)
(***************************************************************************)
\* u is t after s.
Joined(s, t, u) ==
  /\ IsSeq(u) /\ Len(u) = Len(s) + Len(t)
  /\ \A i \in 1..Len(s) : u[i] = s[i]
  /\ \A i \in 1..Len(t) : u[Len(s) + i] = t[i]

\* What a concatenation holds.
LEMMA ConcatJoins ==
  ASSUME NEW s, NEW t, IsSeq(s), IsSeq(t), NEW u, u = s \o t
  PROVE  Joined(s, t, u)
<1> DEFINE S == {s[i] : i \in 1..Len(s)} \cup {t[i] : i \in 1..Len(t)}
<1>1. s \in Seq(S) /\ t \in Seq(S)
  BY SeqOverElements
<1> HIDE DEF S
<1>2. /\ s \o t \in Seq(S)
      /\ Len(s \o t) = Len(s) + Len(t)
      /\ \A i \in 1..(Len(s) + Len(t)) :
           (s \o t)[i] = IF i <= Len(s) THEN s[i] ELSE t[i - Len(s)]
  BY <1>1, ConcatProperties
<1>3. Len(s) \in Nat /\ Len(t) \in Nat
  BY DEF IsSeq
<1>4. /\ u \in Seq(S)
      /\ Len(u) = Len(s) + Len(t)
      /\ \A i \in 1..(Len(s) + Len(t)) :
           u[i] = IF i <= Len(s) THEN s[i] ELSE t[i - Len(s)]
  BY Zenon, <1>2
<1>5. IsSeq(u)
  BY <1>4, IsSeqOfSeq
<1>6. \A i \in 1..Len(s) : u[i] = s[i]
  BY <1>3, <1>4
<1>7. ASSUME NEW i \in 1..Len(t) PROVE u[Len(s) + i] = t[i]
  <2>1. /\ Len(s) + i \in 1..(Len(s) + Len(t)) /\ ~(Len(s) + i <= Len(s))
        /\ (Len(s) + i) - Len(s) = i
    BY <1>3
  <2> QED BY <1>4, <2>1
<1> QED BY <1>4, <1>5, <1>6, <1>7 DEF Joined

\* new is inserted into s after its first n elements.
Inserted(s, n, new, t) ==
  /\ IsSeq(t) /\ Len(t) = Len(s) + Len(new)
  /\ \A i \in 1..n : t[i] = s[i]
  /\ \A j \in 1..Len(new) : t[n + j] = new[j]
  /\ \A j \in 1..(Len(s) - n) : t[(n + Len(new)) + j] = s[n + j]

\* What insert_frames makes.
LEMMA InsertFrames ==
  ASSUME NEW s, IsSeq(s), NEW n \in 0..Len(s), NEW new, IsSeq(new)
  PROVE  Inserted(s, n, new, insert_frames(s, n, new))
<1> DEFINE N == Len(s)
           M == Len(new)
           u == SubSeq(s, 1, n)
           v == SubSeq(s, n + 1, N)
           t == (u \o new) \o v
<1>1. N \in Nat /\ M \in Nat /\ n \in Nat /\ n <= N
  BY DEF IsSeq
<1> HIDE DEF N
<1>2. IsSeq(u) /\ Len(u) = n /\ \A i \in 1..n : u[i] = s[i]
  <2>1. 1 \in Nat \ {0} /\ n \in Nat /\ 1 <= n + 1 /\ (n + 1) - 1 = n
    BY <1>1
  <2>2. /\ IsSeq(SubSeq(s, 1, n)) /\ Len(SubSeq(s, 1, n)) = (n + 1) - 1
        /\ \A i \in 1..((n + 1) - 1) : SubSeq(s, 1, n)[i] = s[(1 + i) - 1]
    BY Zenon, <2>1, SubSeqAny
  <2>3. \A i \in 1..n : (1 + i) - 1 = i
    BY <1>1
  <2> QED BY <2>1, <2>2, <2>3
<1>3. IsSeq(v) /\ Len(v) = N - n /\ \A j \in 1..(N - n) : v[j] = s[n + j]
  <2> DEFINE m == n + 1
  <2>1. m \in Nat \ {0} /\ N \in Nat /\ m <= N + 1 /\ (N + 1) - m = N - n
    BY <1>1
  <2>2. \A j \in 1..(N - n) : (m + j) - 1 = n + j
    BY <1>1
  <2> HIDE DEF m
  <2>3. /\ IsSeq(SubSeq(s, m, N)) /\ Len(SubSeq(s, m, N)) = (N + 1) - m
        /\ \A i \in 1..((N + 1) - m) : SubSeq(s, m, N)[i] = s[(m + i) - 1]
    BY Zenon, <2>1, SubSeqAny
  <2>4. v = SubSeq(s, m, N)
    BY DEF m
  <2> HIDE DEF v
  <2> QED BY <2>1, <2>2, <2>3, <2>4
<1> HIDE DEF u, v
<1>4. /\ IsSeq(u \o new) /\ Len(u \o new) = n + M
      /\ \A i \in 1..n : (u \o new)[i] = u[i]
      /\ \A j \in 1..M : (u \o new)[n + j] = new[j]
  BY <1>2, ConcatAny
<1> DEFINE x == u \o new
<1> HIDE DEF x
<1>5. /\ IsSeq(x) /\ Len(x) = n + M /\ \A i \in 1..n : x[i] = u[i]
      /\ \A j \in 1..M : x[n + j] = new[j]
  BY <1>4 DEF x
<1> HIDE DEF M
<1>6. Joined(x, v, x \o v)
  BY <1>3, <1>5, ConcatJoins
<1>7. insert_frames(s, n, new) = x \o v
  BY DEF insert_frames, x, u, v, N
<1> DEFINE y == x \o v
<1> HIDE DEF y
<1>8. /\ IsSeq(y) /\ Len(y) = (n + M) + (N - n)
      /\ \A i \in 1..(n + M) : y[i] = x[i]
      /\ \A j \in 1..(N - n) : y[(n + M) + j] = v[j]
  BY <1>3, <1>5, <1>6 DEF y, Joined
<1>9. (n + M) + (N - n) = N + M
  BY <1>1
<1>10. \A i \in 1..n : y[i] = s[i]
  BY <1>1, <1>2, <1>5, <1>8
<1>11. \A j \in 1..M : y[n + j] = new[j]
  <2> TAKE j \in 1..M
  <2>1. n + j \in 1..(n + M)
    BY <1>1
  <2> QED BY <1>5, <1>8, <2>1
<1>12. \A j \in 1..(N - n) : y[(n + M) + j] = s[n + j]
  BY <1>3, <1>8
<1>13. Inserted(s, n, new, y)
  BY <1>8, <1>9, <1>10, <1>11, <1>12 DEF Inserted, N, M
<1> QED BY <1>7, <1>13 DEF y

\* The activations when only main has inlined calls in it.
MainActsAre(ph, n) ==
  /\ IsSeq(ActsIn(ph, n))
  /\ Len(ActsIn(ph, n)) = Len(ph[1].acts) + (n - 1)
  /\ \A i \in 1..Len(ph[1].acts) : ActsIn(ph, n)[i] = ph[1].acts[i]
  /\ \A j \in 1..(n - 1) : ActsIn(ph, n)[Len(ph[1].acts) + j] = ph[1 + j].acts[1]

\* No frames, no activations.
LEMMA NoActs ==
  ASSUME NEW ph
  PROVE  Len(ActsIn(ph, 0)) = 0 /\ IsSeq(ActsIn(ph, 0))
<1>1. 0 \in Nat /\ \A k \in 1..0 : IsSeq(ph[k].acts)
  OBVIOUS
<1>2. IsSeq(ActsIn(ph, 0))
  BY <1>1, ActsInSeq
<1> DEFINE ss == [k \in 1..0 |-> ph[k].acts]
<1>3. IsSeq(ss) /\ Len(ss) = 0
  BY <1>1, PrefixSeq
<1>4. ActsIn(ph, 0) = FlattenSeq(ss)
  BY DEF ActsIn
<1> HIDE DEF ss
<1>5. IsFlattened(ss, FlattenSeq(ss), Starts(ss))
  <2>1. \A i \in 1..Len(ss) : IsSeq(ss[i])
    BY <1>3
  <2> QED BY <1>3, <2>1, FlattenLayout
<1> QED BY <1>2, <1>3, <1>4, <1>5 DEF IsFlattened

\* When each other frame has one activation, those of main come first.
LEMMA MainActs ==
  ASSUME NEW ph, NEW n \in Nat \ {0},
         \A k \in 1..n : IsSeq(ph[k].acts) /\ Len(ph[k].acts) >= 1,
         \A k \in 2..n : Len(ph[k].acts) = 1
  PROVE  MainActsAre(ph, n)
<1> DEFINE P == {m \in 1..n : MainActsAre(ph, m)}
           M == Len(ph[1].acts)
<1>1. IsSeq(ph[1].acts) /\ M \in Nat /\ M >= 1
  BY DEF IsSeq
<1>2. 1 \in P
  <2>1. 1 \in Nat \ {0} /\ 1 - 1 = 0 /\ \A k \in 1..1 : IsSeq(ph[k].acts)
    BY <1>1
  <2>2. ActsIn(ph, 1) = ActsIn(ph, 1 - 1) \o ph[1].acts
    BY Zenon, <2>1, ActsInStep
  <2> DEFINE e == ActsIn(ph, 0)
             t == ActsIn(ph, 1)
  <2>3. IsSeq(e) /\ Len(e) = 0 /\ t = e \o ph[1].acts
    BY <2>1, <2>2, NoActs
  <2> HIDE DEF e, t
  <2>4. /\ IsSeq(t) /\ Len(t) = 0 + M
        /\ \A i \in 1..M : t[0 + i] = ph[1].acts[i]
    BY <1>1, <2>3, ConcatAny
  <2>5. Len(t) = M + (1 - 1) /\ \A i \in 1..M : t[i] = ph[1].acts[i]
    BY <1>1, <2>4
  <2>6. MainActsAre(ph, 1)
    BY <2>4, <2>5 DEF MainActsAre, t
  <2> QED BY <2>6
<1>3. ASSUME NEW m \in 1..(n - 1), m \in P PROVE m + 1 \in P
  <2>1. m + 1 \in Nat \ {0} /\ (m + 1) - 1 = m /\ m + 1 \in 2..n /\ m + 1 \in 1..n /\ m \in 1..n
    OBVIOUS
  <2>2. \A k \in 1..(m + 1) : IsSeq(ph[k].acts)
    BY <2>1
  <2>3. ActsIn(ph, m + 1) = ActsIn(ph, m) \o ph[m + 1].acts
    BY <2>1, <2>2, ActsInStep
  <2> DEFINE s == ActsIn(ph, m)
             t == ActsIn(ph, m + 1)
             a == ph[m + 1].acts
  <2>4. /\ IsSeq(s) /\ Len(s) = M + (m - 1)
        /\ \A i \in 1..M : s[i] = ph[1].acts[i]
        /\ \A j \in 1..(m - 1) : s[M + j] = ph[1 + j].acts[1]
    BY <1>3 DEF MainActsAre
  <2>5. IsSeq(a) /\ Len(a) = 1 /\ t = s \o a /\ a[1] = ph[1 + m].acts[1]
    BY <2>1, <2>3
  <2> HIDE DEF s, t, a, M
  <2>6. /\ IsSeq(t) /\ Len(t) = Len(s) + Len(a)
        /\ \A i \in 1..Len(s) : t[i] = s[i]
        /\ \A i \in 1..Len(a) : t[Len(s) + i] = a[i]
    <3>1. Joined(s, a, t)
      BY <2>4, <2>5, ConcatJoins
    <3> QED BY <3>1 DEF Joined
  <2>7. Len(t) = M + ((m + 1) - 1)
    BY <1>1, <2>1, <2>4, <2>5, <2>6
  <2>8. \A i \in 1..M : t[i] = ph[1].acts[i]
    <3> TAKE i \in 1..M
    <3>1. i \in 1..Len(s)
      BY <1>1, <2>1, <2>4
    <3> QED BY <2>4, <2>6, <3>1
  <2>9. \A j \in 1..((m + 1) - 1) : t[M + j] = ph[1 + j].acts[1]
    <3> TAKE j \in 1..((m + 1) - 1)
    <3>1. CASE j = m
      <4>1. M + j = Len(s) + 1 /\ 1 \in 1..Len(a)
        BY <1>1, <2>1, <2>4, <2>5, <3>1
      <4>2. t[M + j] = a[1]
        BY <2>6, <4>1
      <4> QED BY <2>5, <3>1, <4>2
    <3>2. CASE j # m
      <4>1. j \in 1..(m - 1) /\ M + j \in 1..Len(s)
        BY <1>1, <2>1, <2>4, <3>2
      <4> QED BY <2>4, <2>6, <4>1
    <3> QED BY <3>1, <3>2
  <2>10. MainActsAre(ph, m + 1)
    BY <2>6, <2>7, <2>8, <2>9 DEF MainActsAre, t, M
  <2> QED BY <2>1, <2>10
<1> HIDE DEF P
<1>4. 1 \in Nat /\ n \in Nat /\ n \in 1..n
  OBVIOUS
<1>5. \A m \in 1..n : m \in P
  BY <1>2, <1>3, <1>4, IntervalInduction
<1> QED BY <1>4, <1>5 DEF P

\* The frames that get_restored_state makes of the functions on a path.
RestoredFor(acts, gs) ==
  /\ IsSeq(gs) /\ Len(gs) = Len(acts) - 1
  /\ \A k \in 1..Len(gs) : FrameFor(img, gs[k], acts[Len(acts) - k])

\* get_restored_state makes a frame for each enclosing activation.
LEMMA RestoredFrames ==
  ASSUME Supported(img), NEW f, NEW acts, ActsOK(img, f, acts), NEW start, NEW ppid,
         Len(Path(acts)) = Len(acts),
         \A k \in 1..Len(acts) : Path(acts)[k] = <<acts[k].fun, acts[k].at>>,
         EnclosingFound(img, Path(acts), start, ppid), NEW real_bp, NEW registers
  PROVE  RestoredFor(acts, get_restored_state(start, ppid, real_bp, registers))
<1> DEFINE recs == RestoredRecords(sm, start, ppid)
           L == Len(acts)
           Id(k) == sm.recs[recs[k]].patchpoint_id
           entry(k) ==
             [ret_addr |-> AddrOf(sm, stmap_get_map_record(sm, Negate(Id(k)))) + PATCHPOINT_CALL_SIZE,
              stored_ret_addr |-> Junk,
              size |-> sm.funcs[stmap_get_size_record(sm,
                        stmap_get_map_record(sm, Negate(Id(k))))].stack_size,
              bp |-> Junk, real_bp |-> real_bp, registers |-> registers,
              record |-> recs[k],
              real_record |-> stmap_get_map_record_after_addr(sm, Id(k), start),
              inlined |-> TRUE]
           gs == get_restored_state(start, ppid, real_bp, registers)
<1>1. L \in Nat /\ L >= 1
  BY DEF ActsOK, IsSeq
<1>2. /\ Len(recs) = L - 1
      /\ \A k \in 1..Len(recs) :
           /\ Id(k) = IdAt(img, Path(acts)[L - k])
           /\ stmap_get_map_record_after_addr(sm, IdAt(img, Path(acts)[L - k]), start) # NULL
  BY DEF EnclosingFound, sm
<1>3. gs = [k \in 1..Len(recs) |-> entry(k)]
  BY DEF get_restored_state
<1> HIDE DEF entry, recs, gs
<1>4. gs = [k \in 1..(L - 1) |-> gs[k]] /\ \A k \in 1..(L - 1) : gs[k] = entry(k)
  BY <1>2, <1>3
<1>5. IsSeq(gs) /\ Len(gs) = L - 1
  <2>1. L - 1 \in Nat
    BY <1>1
  <2> QED BY <1>4, <2>1, FunctionIsSeq
<1>6. ASSUME NEW k \in 1..(L - 1) PROVE FrameFor(img, gs[k], acts[L - k])
  <2> DEFINE act == acts[L - k]
             s == <<act.fun, act.at>>
             id == IdAt(img, s)
  <2>1. L - k \in 1..L /\ L - k < L
    BY <1>1
  <2>2. act.fun \in DOMAIN img.prog.body /\ act.at \in 1..Len(img.prog.body[act.fun])
    BY <2>1, ActsInBody
  <2>3. Path(acts)[L - k] = s
    BY <2>1
  <2>4. Id(k) = id /\ stmap_get_map_record_after_addr(sm, id, start) # NULL
    BY <1>2, <2>3
  <2>5. RecordOK(img, s) /\ s[1] = act.fun
    BY <2>2 DEF Supported, RecordsOK
  <2>6. /\ IsEntry(gs[k])
        /\ gs[k].record = recs[k]
        /\ gs[k].real_record = stmap_get_map_record_after_addr(sm, Id(k), start)
        /\ gs[k].size = sm.funcs[stmap_get_size_record(sm,
                          stmap_get_map_record(sm, Negate(Id(k))))].stack_size
    BY <1>4 DEF entry, IsEntry
  <2>7. gs[k].size = StackSize(img, act.fun)
    BY Zenon, <2>4, <2>5, <2>6 DEF RecordOK, sm
  <2>8. /\ gs[k].real_record \in 1..Len(sm.recs)
        /\ sm.recs[gs[k].real_record].patchpoint_id = id
    BY <2>4, <2>6, RecordAfterFound
  <2>9. sm.recs[gs[k].record].patchpoint_id = id
    BY <2>4, <2>6
  <2> QED BY <2>2, <2>6, <2>7, <2>8, <2>9 DEF FrameFor, sm
<1> QED BY <1>5, <1>6 DEF RestoredFor, gs
-----------------------------------------------------------------------------
(***************************************************************************)
(* The end of collect_map_records.                                         *)
(***************************************************************************)
\* The last frame that is read is the one of main.
LEMMA MainRead ==
  ASSUME NEW b, NEW ph, StackOK(b, ph), NEW fs, NEW m, NEW i, CollectOK(b, ph, fs, m, i)
  PROVE  IsMain(fs[Len(ph)]) /\ Len(fs) = Len(ph) /\ Len(ph) \in Nat /\ Len(ph) >= 1
<1> DEFINE D == Len(ph)
<1>1. D \in Nat /\ D >= 1 /\ D \in 1..D /\ (D + 1) - D = 1 /\ 1 \in 1..D
  BY DEF StackOK, IsSeq
<1>2. ReadFrom(fs[D], ph[1]) /\ Len(fs) = D
  BY <1>1 DEF CollectOK
<1>3. ph[1].bp = MainBp /\ ph[1].regs[RBP] = ph[1].bp
  BY <1>1 DEF StackOK, FrameOK
<1> QED BY <1>1, <1>2, <1>3 DEF ReadFrom, IsMain

\* A frame for which the records were found.
LEMMA CollectedFrame ==
  ASSUME NEW b, Supported(b), NEW ph, StackOK(b, ph), NEW fs, NEW m,
         CollectOK(b, ph, fs, m, Len(ph)), NEW k \in 1..(Len(ph) - 1)
  PROVE  FrameFor(b, fs[k], Last(ph[Len(ph) - k].acts))
<1> DEFINE D == Len(ph)
           q == D - k
           p == ph[q]
           s == SiteIn(p)
           act == Last(p.acts)
<1>1. D \in Nat /\ q \in 1..(Len(ph) - 1) /\ k < D /\ k \in 1..D
  BY DEF StackOK, IsSeq
<1>2. Collected(b, fs[k], p) /\ ReadFrom(fs[k], ph[(D + 1) - k])
  BY <1>1 DEF CollectOK
<1> HIDE DEF q
<1>3. /\ s[1] \in DOMAIN b.prog.body /\ s[2] \in 1..Len(b.prog.body[s[1]])
      /\ RecordOK(b, s)
      /\ CallOK(b, p.fun, Path(p.acts)) /\ Last(Path(p.acts)) = s
  BY <1>1, CallerSite
<1>4. s = <<act.fun, act.at>> /\ s[1] = act.fun /\ s[2] = act.at
  BY DEF SiteIn
<1> DEFINE id == IdAt(b, s)
<1>5. /\ fs[k].record = stmap_get_map_record(b.sm, id)
      /\ fs[k].real_record = stmap_get_map_record_after_addr(b.sm, id, CallAddr(b, p))
      /\ fs[k].size = StackSize(b, s[1])
  BY <1>2 DEF Collected
<1>6. /\ stmap_get_map_record(b.sm, id) # NULL
      /\ stmap_get_map_record_after_addr(b.sm, id, CallAddr(b, p)) # NULL
  BY <1>3 DEF RecordOK, CallOK, CallAddr
<1> HIDE DEF id
<1>7. b.sm.recs[fs[k].record].patchpoint_id = id
  BY <1>5, <1>6, MapRecordFound
<1>8. /\ fs[k].real_record \in 1..Len(b.sm.recs)
      /\ b.sm.recs[fs[k].real_record].patchpoint_id = id
  BY <1>5, <1>6, RecordAfterFound
<1>9. IsEntry(fs[k])
  BY <1>2 DEF ReadFrom
<1>10. id = IdAt(b, <<act.fun, act.at>>)
  BY Zenon, <1>4 DEF id
<1> HIDE DEF s, act
<1>11. FrameFor(b, fs[k], act)
  BY <1>3, <1>4, <1>5, <1>7, <1>8, <1>9, <1>10 DEF FrameFor
<1> QED BY <1>11 DEF act, q

\* One element.
LEMMA SingletonSeq ==
  ASSUME NEW e
  PROVE  IsSeq(<<e>>)
<1> DEFINE s == <<e>>
<1>1. Len(s) = 1 /\ s = [i \in 1..1 |-> s[i]]
  OBVIOUS
<1> QED BY <1>1 DEF IsSeq

\* One activation for each frame.
LEMMA SingleCount ==
  ASSUME NEW ph, IsSeq(ph), Len(ph) >= 1,
         \A k \in 1..Len(ph) : IsSeq(ph[k].acts) /\ Len(ph[k].acts) >= 1,
         NEW n \in 0..Len(ph), Single(ph, n)
  PROVE  /\ Len(ActsIn(ph, n)) = n
         /\ \A k \in 1..n : ActsIn(ph, n)[k] = ph[k].acts[1]
<1> DEFINE acts == ActsIn(ph, n)
<1>1. n \in Nat /\ \A k \in 1..n : k \in 1..Len(ph)
  BY DEF IsSeq
<1>2. CASE n = 0
  <2>1. Len(acts) = 0
    BY <1>2, NoActs
  <2> QED BY <1>2, <2>1
<1>3. CASE n # 0
  <2>1. n \in Nat \ {0}
    BY <1>1, <1>3
  <2>2. /\ \A k \in 1..n : IsSeq(ph[k].acts) /\ Len(ph[k].acts) >= 1 /\ Len(ph[k].acts) = 1
        /\ \A k \in 2..n : Len(ph[k].acts) = 1
    BY <1>1, <2>1 DEF Single
  <2>3. MainActsAre(ph, n)
    BY <2>1, <2>2, MainActs
  <2>4. Len(ph[1].acts) = 1 /\ 1 \in 1..n
    BY <2>1, <2>2
  <2> HIDE DEF acts
  <2>5. /\ Len(acts) = 1 + (n - 1) /\ acts[1] = ph[1].acts[1]
        /\ \A j \in 1..(n - 1) : acts[1 + j] = ph[1 + j].acts[1]
    BY <2>3, <2>4 DEF MainActsAre, acts
  <2>6. ASSUME NEW k \in 1..n PROVE acts[k] = ph[k].acts[1]
    <3>1. CASE k = 1
      BY <2>5, <3>1
    <3>2. CASE k # 1
      <4>1. k - 1 \in 1..(n - 1) /\ 1 + (k - 1) = k
        BY <2>1, <3>2
      <4> QED BY <2>5, <4>1
    <3> QED BY <3>1, <3>2
  <2>7. Len(acts) = n
    BY <2>1, <2>5
  <2> QED BY <2>6, <2>7 DEF acts
<1> QED BY <1>2, <1>3

\* What the frames are when nothing was inlined below the function that failed.
LEMMA NothingInlined ==
  ASSUME NEW b, NEW ph, StackOK(b, ph), NEW fs, NEW m,
         CollectOK(b, ph, fs, m, Len(ph)), Single(ph, Len(ph) - 1), Supported(b)
  PROVE  BelowOK(b, ph, fs, FALSE)
<1> DEFINE D == Len(ph)
           n == D - 1
           acts == ActsIn(ph, n)
<1>1. D \in Nat /\ D >= 1 /\ n \in Nat /\ IsSeq(ph) /\ n + 1 = D
  BY DEF StackOK, IsSeq
<1>9. Single(ph, n)
  OBVIOUS
<1> HIDE DEF n
<1>2. \A k \in 1..D : IsSeq(ph[k].acts) /\ Len(ph[k].acts) >= 1
  BY DEF StackOK, FrameOK, ActsOK
<1>3. IsSeq(fs) /\ Len(fs) = D /\ IsMain(fs[D])
  <2>1. IsMain(fs[Len(ph)]) /\ Len(fs) = Len(ph)
    BY Zenon, MainRead
  <2> QED BY <2>1 DEF CollectOK
<1>4. Len(acts) = n /\ \A k \in 1..n : acts[k] = ph[k].acts[1] /\ Len(ph[k].acts) = 1
  <2>1. n \in 0..Len(ph)
    BY <1>1 DEF n
  <2>2. Len(acts) = n /\ \A k \in 1..n : acts[k] = ph[k].acts[1]
    BY <1>1, <1>2, <1>9, <2>1, SingleCount
  <2> QED BY <1>9, <2>2 DEF Single
<1> HIDE DEF acts
<1>5. ASSUME NEW k \in 1..n PROVE FrameFor(b, fs[k], acts[(n + 1) - k])
  <2>1. D - k \in 1..n /\ (n + 1) - k = D - k /\ k \in 1..(Len(ph) - 1)
    BY <1>1 DEF n
  <2>2. FrameFor(b, fs[k], Last(ph[Len(ph) - k].acts))
    BY <2>1, CollectedFrame
  <2>3. acts[D - k] = Last(ph[D - k].acts)
    BY <1>4, <2>1 DEF Last
  <2> QED BY <2>1, <2>2, <2>3
<1>6. Matches(b, fs, acts)
  <2>1. Len(fs) = Len(acts) + 1 /\ Len(acts) + 1 = D /\ Len(acts) = n
    BY <1>1, <1>3, <1>4
  <2> QED BY <1>3, <1>5, <2>1 DEF Matches
<1>7. fs[1].real_bp = Last(ph).bp
  <2>1. 1 \in 1..D /\ (D + 1) - 1 = D
    BY <1>1
  <2>2. ReadFrom(fs[1], ph[D])
    BY <2>1 DEF CollectOK
  <2> QED BY <2>2 DEF ReadFrom, Last
<1>8. \A k \in 1..D : fs[k].bp = ph[(D + 1) - k].bp
  BY DEF CollectOK, ReadFrom
<1> QED BY <1>6, <1>7, <1>8 DEF BelowOK, acts, n

\* The end of collect_map_records keeps the invariant.
LEMMA CollectEndStep ==
  ASSUME IInv, CollectMapRecordsEnd
  PROVE  IInv' /\ (HandlerInv => HandlerInv')
<1> DEFINE D == Len(phys)
<1>1. /\ pc = "collect" /\ idx > Len(frames) - 1
      /\ pc' = "inline" /\ idx' = 1 /\ inlined' = FALSE
      /\ copy' = [shared |-> TRUE, old |-> <<>>, depth |-> Len(frames)]
      /\ UNCHANGED <<img, calls, sm_id, ret, phys, mem, cpu, frames, locs, seg, r>>
  BY DEF CollectMapRecordsEnd, LastIdx, failVars
<1>2. /\ Supported(img) /\ StackOK(img, phys) /\ IsMem(mem)
      /\ FailureOK(img, phys, sm_id, ret)
      /\ CollectOK(img, phys, frames, mem, idx)
  BY <1>1 DEF IInv, StackInv, FailureInv, CollectInv, HandlerPoints
<1>3. D \in Nat /\ D >= 1 /\ Len(frames) = D
  BY <1>2, MainRead
<1>4. idx = D
  BY <1>1, <1>2, <1>3 DEF CollectOK
<1>5. CollectOK(img, phys, frames, mem, D)
  BY <1>2, <1>4
<1>6. D = 1 => BelowOK(img, phys, frames, FALSE)
  <2>1. D = 1 => Single(phys, D - 1)
    BY DEF Single
  <2> QED BY <1>2, <1>5, <2>1, NothingInlined
<1>7. copy'.shared = TRUE /\ copy'.depth = D /\ IsCopy(copy')
  BY <1>1, <1>3 DEF IsCopy
<1>8. \A k \in 1..(1 - 1) : Len(phys[D - k].acts) = 1
  OBVIOUS
<1>9. InlineInv'
  <2>1. /\ IsCopy(copy') /\ copy'.depth = D /\ idx' = 1 /\ 1 \in 1..D /\ copy'.shared
        /\ inlined' = FALSE /\ phys' = phys /\ frames' = frames /\ mem' = mem /\ img' = img
    BY <1>1, <1>3, <1>7
  <2> HIDE DEF D
  <2>2. 1 < D => \A k \in 1..(1 - 1) : Len(phys[D - k].acts) = 1
    OBVIOUS
  <2> QED BY <1>5, <1>6, <2>1, <2>2 DEF InlineInv, D
<1>10. Supported(img') /\ PcInv' /\ OptInv'
  BY <1>1, <1>2 DEF PcInv, OptInv, HandlerPoints
<1>11. StackInv' /\ FailureInv' /\ CollectInv' /\ FailInv' /\ MatchInv' /\ SegmentInv'
  BY <1>1, <1>2 DEF StackInv, FailureInv, CollectInv, FailInv, MatchInv, SegmentInv
<1>12. IInv'
  BY <1>9, <1>10, <1>11 DEF IInv
<1>13. HandlerInv => HandlerInv'
  BY <1>1 DEF HandlerInv, HandlerPoints
<1> QED BY <1>12, <1>13

-----------------------------------------------------------------------------
(***************************************************************************)
(* collect_inlined_frames.                                                 *)
(***************************************************************************)
\* The frames when calls were inlined in main, and only there.
LEMMA InlinedBelow ==
  ASSUME Supported(img), StackOK(img, phys), Len(phys) >= 2,
         CollectOK(img, phys, frames, mem, Len(phys)),
         \A k \in 1..(Len(phys) - 2) : Len(phys[Len(phys) - k].acts) = 1,
         NEW gs, RestoredFor(phys[1].acts, gs),
         NEW t, Inserted(frames, Len(phys) - 1, gs, t)
  PROVE  BelowOK(img, phys, t, TRUE)
<1> DEFINE D == Len(phys)
           n == D - 1
           A == ActsIn(phys, n)
           a == phys[1].acts
           L == Len(a)
<1>1. /\ D \in Nat /\ D >= 2 /\ n \in Nat \ {0} /\ n + 1 = D /\ n - 1 = D - 2
      /\ 1 \in 1..n /\ D - n = 1 /\ 1 \in 1..(D - 1)
  BY DEF StackOK, IsSeq
<1>2. \A k \in 1..D : IsSeq(phys[k].acts) /\ Len(phys[k].acts) >= 1
  BY DEF StackOK, FrameOK, ActsOK
<1>3. IsSeq(a) /\ L \in Nat /\ L >= 1
  <2>1. 1 \in 1..D
    BY <1>1
  <2> QED BY <1>2, <2>1 DEF IsSeq
<1>4. Len(frames) = D /\ IsMain(frames[D])
  <2>1. IsMain(frames[Len(phys)]) /\ Len(frames) = Len(phys)
    BY Zenon, MainRead
  <2> QED BY <2>1
<1>5. IsSeq(gs) /\ Len(gs) = L - 1 /\ \A k \in 1..(L - 1) : FrameFor(img, gs[k], a[L - k])
  BY DEF RestoredFor
<1>6. /\ IsSeq(t) /\ Len(t) = D + (L - 1)
      /\ \A i \in 1..n : t[i] = frames[i]
      /\ \A j \in 1..(L - 1) : t[n + j] = gs[j]
      /\ t[(n + (L - 1)) + 1] = frames[D]
  <2>1. /\ IsSeq(t) /\ Len(t) = Len(frames) + Len(gs)
        /\ \A i \in 1..n : t[i] = frames[i]
        /\ \A j \in 1..Len(gs) : t[n + j] = gs[j]
        /\ \A j \in 1..(Len(frames) - n) : t[(n + Len(gs)) + j] = frames[n + j]
    BY DEF Inserted
  <2>2. 1 \in 1..(Len(frames) - n)
    BY <1>1, <1>4
  <2> HIDE DEF n, D, L
  <2>3. t[(n + Len(gs)) + 1] = frames[n + 1]
    BY <2>1, <2>2
  <2> QED BY <1>1, <1>4, <1>5, <2>1, <2>3
<1>7. MainActsAre(phys, n)
  <2>1. \A k \in 2..n : Len(phys[k].acts) = 1
    <3> TAKE k \in 2..n
      <3>1. D - k \in 1..(D - 2) /\ D - (D - k) = k
        BY <1>1
      <3> QED BY <3>1
  <2>2. \A k \in 1..n : IsSeq(phys[k].acts) /\ Len(phys[k].acts) >= 1
    BY <1>1, <1>2
  <2> HIDE DEF n
  <2> QED BY <1>1, <2>1, <2>2, MainActs
<1>8. /\ IsSeq(A) /\ Len(A) = L + (n - 1)
      /\ \A i \in 1..L : A[i] = a[i]
      /\ \A j \in 1..(n - 1) : A[L + j] = phys[1 + j].acts[1]
  BY <1>7 DEF MainActsAre
<1>9. \A k \in 1..n : FrameFor(img, frames[k], Last(phys[D - k].acts))
  BY CollectedFrame
<1>10. \A k \in 1..(n - 1) : Len(phys[D - k].acts) = 1
  BY <1>1
<1>11. /\ frames[1].real_bp = Last(phys).bp
  <2>1. 1 \in 1..D /\ (D + 1) - 1 = D
    BY <1>1
  <2>2. ReadFrom(frames[1], phys[D])
    BY <2>1 DEF CollectOK
  <2> QED BY <2>2 DEF ReadFrom, Last
<1> HIDE DEF n, A, a, L, D
<1>12. ASSUME NEW k \in 1..Len(A) PROVE FrameFor(img, t[k], A[(Len(A) + 1) - k])
  <2>1. k \in Nat /\ k >= 1 /\ k <= L + (n - 1) /\ Len(A) = L + (n - 1)
    BY <1>1, <1>3, <1>8
  <2>2. CASE k \in 1..n
    <3>1. A[(Len(A) + 1) - k] = Last(phys[D - k].acts)
      <4>1. CASE k = n
        <5>1. (Len(A) + 1) - k = L /\ D - k = 1 /\ L \in 1..L
          BY <1>1, <1>3, <2>1, <4>1
        <5>2. A[L] = a[L]
          BY <1>8, <5>1
        <5> QED BY <5>1, <5>2 DEF a, L, Last
      <4>2. CASE k # n
        <5> DEFINE j == (n - 1) - (k - 1)
        <5>1. /\ (Len(A) + 1) - k = L + j /\ j \in 1..(n - 1) /\ 1 + j = D - k
              /\ k \in 1..(n - 1)
          BY <1>1, <1>3, <2>1, <2>2, <4>2
        <5> HIDE DEF j
        <5>2. A[L + j] = phys[D - k].acts[1] /\ Len(phys[D - k].acts) = 1
          BY <1>8, <1>10, <5>1
        <5> QED BY <5>1, <5>2 DEF Last
      <4> QED BY <4>1, <4>2
    <3>2. t[k] = frames[k]
      BY <1>6, <2>2
    <3> QED BY Zenon, <1>9, <2>2, <3>1, <3>2
  <2>3. CASE k \notin 1..n
    <3> DEFINE j == k - n
    <3>1. /\ j \in 1..(L - 1) /\ n + j = k /\ (Len(A) + 1) - k = L - j
          /\ L - j \in 1..L
      BY <1>1, <1>3, <2>1, <2>3
    <3> HIDE DEF j
    <3>2. t[k] = gs[j] /\ A[L - j] = a[L - j]
      BY <1>6, <1>8, <3>1
    <3> QED BY <1>5, <3>1, <3>2
  <2> QED BY <2>2, <2>3
<1>13. Len(t) = Len(A) + 1 /\ IsMain(t[Len(A) + 1])
  <2>1. Len(A) + 1 = (n + (L - 1)) + 1 /\ Len(A) + 1 = D + (L - 1)
    BY <1>1, <1>3, <1>8
  <2> QED BY <1>4, <1>6, <2>1
<1>14. Matches(img, t, A)
  BY <1>6, <1>12, <1>13 DEF Matches
<1>15. t[1].real_bp = Last(phys).bp
  <2>1. 1 \in 1..n
    BY <1>1
  <2> QED BY <1>6, <1>11, <2>1
<1> QED BY <1>14, <1>15 DEF BelowOK, A, n, D

\* state_copy keeps its depth when its array is replaced.
LEMMA CopyChanged ==
  ASSUME NEW c, IsCopy(c), NEW s, NEW o
  PROVE  /\ IsCopy([c EXCEPT !.shared = s, !.old = o])
         /\ [c EXCEPT !.shared = s, !.old = o].depth = c.depth
<1> DEFINE c1 == [c EXCEPT !.shared = s]
           c2 == [c1 EXCEPT !.old = o]
<1>1. c1 = [shared |-> s, old |-> c.old, depth |-> c.depth]
  BY DEF IsCopy
<1> HIDE DEF c1
<1>2. c2 = [shared |-> s, old |-> o, depth |-> c.depth]
  BY <1>1
<1>3. [c EXCEPT !.shared = s, !.old = o] = c2
  BY Zenon DEF c1
<1> HIDE DEF c2
<1> QED BY <1>2, <1>3 DEF IsCopy

\* state_copy keeps its depth when the array of state is moved.
LEMMA CopyKept ==
  ASSUME IsCopy(copy), realloc_frames
  PROVE  IsCopy(copy') /\ copy'.depth = copy.depth
<1> DEFINE c(o) == [copy EXCEPT !.shared = FALSE, !.old = o]
<1>1. \A o : IsCopy(c(o)) /\ c(o).depth = copy.depth
  BY Zenon, CopyChanged
<1>2. copy' = copy \/ copy' = c(frames) \/ copy' = c(Garbage)
  BY Zenon DEF realloc_frames
<1> HIDE DEF c
<1>3. CASE copy' = copy
  BY Zenon, <1>3
<1>4. CASE copy' = c(frames)
  BY Zenon, <1>1, <1>4
<1>5. CASE copy' = c(Garbage)
  BY Zenon, <1>1, <1>5
<1> QED BY <1>2, <1>3, <1>4, <1>5

\* collect_inlined_frames, for one frame, keeps the invariant: main is the last frame
\* looked at, so nothing is read from the copy after the array has been moved.
LEMMA InlineStep ==
  ASSUME IInv, collect_inlined_frames
  PROVE  IInv' /\ (HandlerInv => HandlerInv')
<1> DEFINE D == Len(phys)
           i == idx
           q == D - i
           p == phys[q]
           w == Path(p.acts)
           back == CallAddr(img, p)
           fr == frames[i]
<1>1. /\ pc = "inline" /\ i < copy.depth
      /\ UNCHANGED <<img, calls, sm_id, ret, phys, cpu, locs, seg, r>>
  BY DEF collect_inlined_frames, failVars
<1>2. /\ Supported(img) /\ StackOK(img, phys) /\ IsMem(mem)
      /\ FailureOK(img, phys, sm_id, ret)
      /\ IsCopy(copy) /\ copy.depth = D /\ i \in 1..D
  BY <1>1 DEF IInv, StackInv, FailureInv, InlineInv, HandlerPoints
<1>3. /\ CollectOK(img, phys, frames, mem, D) /\ copy.shared /\ inlined = FALSE
      /\ \A k \in 1..(i - 1) : Len(phys[D - k].acts) = 1
  BY <1>1, <1>2 DEF IInv, InlineInv
<1>4. /\ D \in Nat /\ i \in 1..(D - 1) /\ q \in 1..(D - 1) /\ i \in 1..D /\ i < D
      /\ q = D - i
  BY <1>1, <1>2 DEF StackOK, IsSeq
<1> HIDE DEF q
<1>5. CopyOf(i) = fr /\ CopyOf(i + 1) = frames[i + 1]
  BY <1>3 DEF CopyOf
<1>6. /\ p.fun \in FunctionsRun(img) /\ w \in SitePaths(img, p.fun) /\ Last(w) = SiteIn(p)
      /\ CallOK(img, p.fun, w) /\ RecordOK(img, SiteIn(p))
  BY <1>2, <1>4, CallerSite
<1>14. Len(w) = Len(p.acts)
  BY <1>2, <1>4, CallerSite
<1>15. \A k \in 1..Len(p.acts) : w[k] = <<p.acts[k].fun, p.acts[k].at>>
  <2> HIDE DEF p
  <2> QED BY DEF Path
<1>7. /\ Collected(img, fr, p) /\ fr.stored_ret_addr = back
  <2>1. i \in 1..(D - 1) /\ i < D
    BY <1>4
  <2> QED BY <1>3, <2>1 DEF CollectOK, q
<1>8. /\ fr.record = stmap_get_map_record(sm, IdAt(img, Last(w)))
      /\ fr.record # NULL
  BY <1>6, <1>7 DEF Collected, RecordOK, sm
<1>9. InFunction(sm, back, FunAddrOf(sm, fr.record)) <=> Len(p.acts) = 1
  BY <1>6, <1>8, <1>14 DEF CallOK, CallAddr, sm
<1>10. ActsOK(img, p.fun, p.acts) /\ Len(p.acts) \in Nat /\ Len(p.acts) >= 1
  <2>1. q \in 1..Len(phys)
    BY <1>4
  <2>2. FrameOK(img, p)
    BY <1>2, <2>1 DEF StackOK
  <2> HIDE DEF p
  <2> QED BY <2>2 DEF FrameOK, ActsOK, IsSeq
<1>11. IF InFunction(sm, fr.stored_ret_addr, FunAddrOf(sm, fr.record))
       THEN idx' = idx + 1 /\ UNCHANGED <<pc, mem, frames, copy, inlined>>
       ELSE CollectInlined(fr, frames[i + 1])
  <2>1. IF fr.record = NULL THEN Stop("crashed")
        ELSE IF InFunction(sm, fr.stored_ret_addr, FunAddrOf(sm, fr.record))
        THEN idx' = idx + 1 /\ UNCHANGED <<pc, mem, frames, copy, inlined>>
        ELSE CollectInlined(fr, CopyOf(i + 1))
    BY Zenon, <1>5 DEF collect_inlined_frames
  <2> QED BY Zenon, <1>5, <1>8, <2>1
<1>12. CASE Len(p.acts) = 1
  <2>1. idx' = i + 1 /\ UNCHANGED <<pc, mem, frames, copy, inlined>>
    BY Zenon, <1>7, <1>9, <1>11, <1>12
  <2>2. ASSUME NEW k \in 1..i PROVE Len(phys[D - k].acts) = 1
    <3>1. CASE k = i
      BY <1>12, <3>1 DEF q
    <3>2. CASE k # i
      <4>1. k \in 1..(i - 1)
        BY <1>4, <3>2
      <4> QED BY <1>3, <4>1
    <3> QED BY <3>1, <3>2
  <2>3. i + 1 \in 1..D /\ (i + 1) - 1 = i
    BY <1>4
  <2>4. i + 1 = D => BelowOK(img, phys, frames, inlined)
    <3> SUFFICES ASSUME i + 1 = D PROVE BelowOK(img, phys, frames, inlined)
      OBVIOUS
    <3>1. ASSUME NEW k \in 1..(D - 1) PROVE Len(phys[k].acts) = 1
      <4>1. D - k \in 1..i /\ D - (D - k) = k
        BY <1>4
      <4> QED BY <2>2, <4>1
    <3>2. Single(phys, D - 1)
      BY <3>1 DEF Single
    <3>3. BelowOK(img, phys, frames, FALSE)
      BY <1>2, <1>3, <3>2, NothingInlined
    <3> QED BY <1>3, <3>3
  <2> HIDE DEF D
  <2>5. InlineInv'
    BY <1>1, <1>2, <1>3, <2>1, <2>2, <2>3, <2>4 DEF InlineInv, D
  <2>6. Supported(img') /\ PcInv' /\ OptInv'
    BY <1>1, <1>2, <2>1 DEF PcInv, OptInv, HandlerPoints
  <2>7. StackInv' /\ FailureInv' /\ CollectInv' /\ FailInv' /\ MatchInv' /\ SegmentInv'
    BY <1>1, <1>2, <2>1 DEF StackInv, FailureInv, CollectInv, FailInv, MatchInv, SegmentInv
  <2>8. IInv'
    BY <2>5, <2>6, <2>7 DEF IInv
  <2>9. HandlerInv => HandlerInv'
    BY <1>1, <2>1 DEF HandlerInv, HandlerPoints
  <2> QED BY <2>8, <2>9
<1>13. CASE Len(p.acts) # 1
  <2> DEFINE next == back + PATCHPOINT_CALL_SIZE + 1
             size_rec == stmap_get_size_record_in_func(sm, get_sym_start(sm, next))
             addr == sm.funcs[size_rec].fun_addr + sm.recs[fr.record].instr_offset
             ppid == get_next_patchpoint(sm, addr, size_rec)
             gs == get_restored_state(next, ppid, frames[i + 1].real_bp,
                                      frames[i + 1].registers)
  <2>1. /\ p.fun = "main" /\ size_rec # NULL
        /\ EnclosingFound(img, w, next, ppid)
    <3> DEFINE opt == stmap_get_map_record(sm, IdAt(img, Last(w)))
               at(rec) == sm.funcs[size_rec].fun_addr + sm.recs[rec].instr_offset
    <3>1. Len(w) > 1
      <4> HIDE DEF w, p
      <4> QED BY <1>10, <1>13, <1>14
    <3>2. /\ p.fun = "main" /\ size_rec # NULL
          /\ EnclosingFound(img, w, next, get_next_patchpoint(sm, at(opt), size_rec))
      BY Zenon, <1>6, <3>1 DEF CallOK, CallAddr, sm
    <3>3. addr = at(opt)
      BY Zenon, <1>8
    <3> HIDE DEF at, addr
    <3> QED BY Zenon, <3>2, <3>3
  <2>2. q = 1
    <3> SUFFICES ASSUME q # 1 PROVE FALSE
      OBVIOUS
    <3> DEFINE n == q - 1
    <3>1. n \in 1..(Len(phys) - 1) /\ n + 1 = q
      BY <1>4
    <3> HIDE DEF n
    <3>2. /\ SiteOf(img, Path(phys[n].acts)).kind = "call"
          /\ SiteOf(img, Path(phys[n].acts)).callee = phys[n + 1].fun
          /\ Last(Path(phys[n].acts)) = SiteIn(phys[n])
          /\ SiteIn(phys[n])[1] \in DOMAIN img.prog.body
          /\ SiteIn(phys[n])[2] \in 1..Len(img.prog.body[SiteIn(phys[n])[1]])
      BY <1>2, <3>1, CallerSite
    <3>3. phys[n + 1].fun # "main"
      BY <1>2, <3>2 DEF Supported, ProgramOK, SiteOf, IsGuard
    <3> QED BY <2>1, <3>1, <3>3
  <2>3. i = D - 1 /\ i + 1 = D /\ Len(phys) >= 2
    BY <1>4, <2>2
  <2>4. /\ frames' = insert_frames(frames, i, gs)
        /\ realloc_frames /\ inlined' = TRUE /\ idx' = i + 1 /\ UNCHANGED <<pc, mem>>
    <3>1. CollectInlined(fr, frames[i + 1])
      BY Zenon, <1>7, <1>9, <1>11, <1>13
    <3> HIDE DEF fr
    <3> QED BY Zenon, <1>7, <2>1, <3>1 DEF CollectInlined
  <2>5. RestoredFor(phys[1].acts, gs)
    <3>1. p = phys[1]
      BY <2>2
    <3>2. RestoredFor(p.acts, gs)
      <4> HIDE DEF p, next, ppid
      <4> QED BY <1>2, <1>10, <1>14, <1>15, <2>1, RestoredFrames DEF w
    <3> QED BY <3>1, <3>2
  <2> HIDE DEF gs
  <2>6. Inserted(frames, D - 1, gs, frames')
    <3>1. IsSeq(gs)
      BY <2>5 DEF RestoredFor
    <3>2. IsSeq(frames) /\ i \in 0..Len(frames)
      BY <1>3, <1>4 DEF CollectOK
    <3>3. Inserted(frames, i, gs, insert_frames(frames, i, gs))
      BY <3>1, <3>2, InsertFrames
    <3> QED BY <2>3, <2>4, <3>3
  <2>7. BelowOK(img, phys, frames', TRUE)
    <3>1. \A k \in 1..(D - 2) : Len(phys[D - k].acts) = 1
      <4>1. D - 2 = i - 1
        BY <1>4, <2>3
      <4> QED BY <1>3, <4>1
    <3> QED BY <1>2, <1>3, <2>3, <2>5, <2>6, <3>1, InlinedBelow
  <2>8. IsCopy(copy') /\ copy'.depth = D
    BY <1>2, <2>4, CopyKept
  <2>9. idx' = D /\ D \in 1..D
    BY <1>4, <2>3, <2>4
  <2> HIDE DEF D
  <2>10. InlineInv'
    <3>1. ~(D < D)
      BY <2>9
    <3> QED BY <1>1, <2>4, <2>7, <2>8, <2>9, <3>1 DEF InlineInv, D
  <2>11. Supported(img') /\ PcInv' /\ OptInv'
    BY <1>1, <1>2, <2>4 DEF PcInv, OptInv, HandlerPoints
  <2>12. StackInv' /\ FailureInv' /\ CollectInv' /\ FailInv' /\ MatchInv' /\ SegmentInv'
    BY <1>1, <1>2, <2>4 DEF StackInv, FailureInv, CollectInv, FailInv, MatchInv, SegmentInv
  <2>13. IInv'
    BY <2>10, <2>11, <2>12 DEF IInv
  <2>14. HandlerInv => HandlerInv'
    BY <1>1, <2>4 DEF HandlerInv, HandlerPoints
  <2> QED BY <2>13, <2>14
<1> QED BY <1>12, <1>13

\* The end of collect_inlined_frames.
LEMMA InlineEndStep ==
  ASSUME IInv, CollectInlinedFramesEnd
  PROVE  IInv' /\ (HandlerInv => HandlerInv')
<1>1. /\ pc = "inline" /\ idx >= copy.depth /\ pc' = "fail"
      /\ UNCHANGED <<img, calls, sm_id, ret, phys, mem, cpu, frames, inlined, locs, seg, r>>
  BY DEF CollectInlinedFramesEnd, failVars
<1>2. /\ Supported(img) /\ StackOK(img, phys) /\ IsMem(mem)
      /\ FailureOK(img, phys, sm_id, ret)
      /\ copy.depth = Len(phys) /\ idx \in 1..Len(phys)
      /\ idx = Len(phys) => BelowOK(img, phys, frames, inlined)
  BY <1>1 DEF IInv, StackInv, FailureInv, InlineInv, HandlerPoints
<1>3. BelowOK(img, phys, frames, inlined)
  <2>1. Len(phys) \in Nat
    BY <1>2 DEF StackOK, IsSeq
  <2> QED BY <1>1, <1>2, <2>1
<1>4. Supported(img') /\ PcInv' /\ OptInv'
  BY <1>1, <1>2 DEF PcInv, OptInv, HandlerPoints
<1>5. StackInv' /\ FailureInv' /\ CollectInv' /\ InlineInv'
  BY <1>1, <1>2 DEF StackInv, FailureInv, CollectInv, InlineInv
<1>6. FailInv' /\ MatchInv' /\ SegmentInv'
  BY <1>1, <1>3 DEF FailInv, MatchInv, SegmentInv
<1>7. HandlerInv => HandlerInv'
  BY <1>1 DEF HandlerInv, HandlerPoints
<1> QED BY <1>4, <1>5, <1>6, <1>7 DEF IInv

-----------------------------------------------------------------------------
(***************************************************************************)
(* insert_fail_frame.                                                      *)
(***************************************************************************)
\* What is looked up for the guard that failed.
LEMMA GuardSite ==
  ASSUME Supported(img), StackOK(img, phys), FailureOK(img, phys, sm_id, ret)
  PROVE  /\ Last(phys).fun \in FunctionsRun(img)
         /\ ActsOK(img, Last(phys).fun, Last(phys).acts)
         /\ Last(Path(Last(phys).acts)) = SiteIn(Last(phys))
         /\ Len(Path(Last(phys).acts)) = Len(Last(phys).acts)
         /\ SiteIn(Last(phys))[1] \in DOMAIN img.prog.body
         /\ SiteIn(Last(phys))[2] \in 1..Len(img.prog.body[SiteIn(Last(phys))[1]])
         /\ GuardOK(img, Last(phys).fun, Path(Last(phys).acts))
         /\ RecordOK(img, SiteIn(Last(phys)))
<1> DEFINE p == Last(phys)
<1>1. ProgramOK(img) /\ CodeOK(img) /\ RecordsOK(img) /\ LookupsOK(img)
  BY DEF Supported
<1>2. FrameOK(img, p) /\ p.fun \in FunctionsRun(img) /\ ActsOK(img, p.fun, p.acts)
  <2>1. Len(phys) \in 1..Len(phys)
    BY DEF StackOK, IsSeq
  <2> QED BY <2>1 DEF StackOK, FrameOK, Last
<1>3. /\ Last(p.acts).at <= Len(img.prog.body[Last(p.acts).fun])
      /\ img.prog.body[Last(p.acts).fun][Last(p.acts).at].kind = "guard"
  BY DEF FailureOK, AtSiteOf
<1> HIDE DEF p
<1>4. /\ Path(p.acts) \in SitePaths(img, p.fun)
      /\ Last(Path(p.acts)) = <<Last(p.acts).fun, Last(p.acts).at>>
      /\ SiteOf(img, Path(p.acts)) = img.prog.body[Last(p.acts).fun][Last(p.acts).at]
      /\ Len(Path(p.acts)) = Len(p.acts)
  BY <1>1, <1>2, <1>3, PathAtSite
<1>5. GuardOK(img, p.fun, Path(p.acts))
  BY <1>1, <1>2, <1>3, <1>4 DEF LookupsOK
<1>6. /\ Last(p.acts).fun \in DOMAIN img.prog.body
      /\ Last(p.acts).at \in 1..Len(img.prog.body[Last(p.acts).fun])
  BY <1>2, <1>3 DEF ActsOK
<1>7. /\ SiteIn(p) = <<Last(p.acts).fun, Last(p.acts).at>>
      /\ SiteIn(p)[1] = Last(p.acts).fun /\ SiteIn(p)[2] = Last(p.acts).at
  BY DEF SiteIn
<1>8. RecordOK(img, SiteIn(p))
  BY <1>1, <1>6, <1>7 DEF RecordsOK
<1> QED BY <1>2, <1>4, <1>5, <1>6, <1>7, <1>8 DEF p

\* The frame of the function that failed.
LEMMA FailFrameOK ==
  ASSUME Supported(img), StackOK(img, phys), FailureOK(img, phys, sm_id, ret), NEW x
  PROVE  /\ FrameFor(img, FailFrame(x), Last(Last(phys).acts))
         /\ FailFrame(x).bp = frames[1].real_bp
<1> DEFINE p == Last(phys)
           s == SiteIn(p)
           act == Last(p.acts)
           fr == FailFrame(x)
<1>1. s[1] \in DOMAIN img.prog.body /\ s[2] \in 1..Len(img.prog.body[s[1]]) /\ RecordOK(img, s)
  BY GuardSite
<1>2. sm_id = IdAt(img, s)
  BY DEF FailureOK
<1>3. s = <<act.fun, act.at>> /\ s[1] = act.fun /\ s[2] = act.at
  BY DEF SiteIn
<1>4. /\ IsEntry(fr) /\ fr.bp = frames[1].real_bp
      /\ fr.record = stmap_get_map_record(sm, sm_id)
      /\ fr.real_record = stmap_get_map_record(sm, sm_id)
      /\ fr.size = sm.funcs[stmap_get_size_record(sm,
                     stmap_get_map_record(sm, Negate(sm_id)))].stack_size
  BY DEF FailFrame, IsEntry
<1> HIDE DEF fr
<1>5. /\ stmap_get_map_record(sm, sm_id) \in 1..Len(sm.recs)
      /\ sm.recs[stmap_get_map_record(sm, sm_id)].patchpoint_id = sm_id
  <2>1. stmap_get_map_record(sm, sm_id) # NULL
    BY <1>1, <1>2 DEF RecordOK, sm
  <2> QED BY <2>1, MapRecordFound
<1>6. fr.size = StackSize(img, s[1])
  BY <1>1, <1>2, <1>4 DEF RecordOK, sm
<1>7. sm_id = IdAt(img, <<act.fun, act.at>>)
  BY Zenon, <1>2, <1>3
<1> HIDE DEF s, act, p
<1>8. FrameFor(img, fr, act)
  BY <1>1, <1>3, <1>4, <1>5, <1>6, <1>7 DEF FrameFor, sm
<1> QED BY <1>4, <1>8 DEF act, p, fr

\* With the frame of the guard and those it was inlined in, all activations are matched.
LEMMA FailFrames ==
  ASSUME Supported(img), StackOK(img, phys),
         Matches(img, frames, ActsIn(phys, Len(phys) - 1)),
         NEW gs, RestoredFor(Last(phys).acts, gs),
         NEW fr, FrameFor(img, fr, Last(Last(phys).acts)),
         NEW u, Inserted(frames, 0, gs, u), NEW t, Inserted(u, 0, <<fr>>, t)
  PROVE  /\ Matches(img, t, ActsIn(phys, Len(phys)))
         /\ t[1] = fr
<1> DEFINE D == Len(phys)
           A == ActsIn(phys, D - 1)
           B == ActsIn(phys, D)
           a == Last(phys).acts
           L == Len(a)
           N == Len(A)
<1>1. D \in Nat \ {0} /\ D - 1 \in Nat
  BY DEF StackOK, IsSeq
<1>2. \A k \in 1..D : IsSeq(phys[k].acts) /\ Len(phys[k].acts) >= 1
  BY DEF StackOK, FrameOK, ActsOK
<1>3. IsSeq(a) /\ L \in Nat /\ L >= 1
  <2>1. D \in 1..D /\ a = phys[D].acts
    BY <1>1 DEF Last
  <2> QED BY <1>2, <2>1 DEF IsSeq
<1>4. IsSeq(A) /\ N \in Nat
  <2>1. \A k \in 1..(D - 1) : IsSeq(phys[k].acts)
    BY <1>1, <1>2
  <2>2. IsSeq(A)
    BY <1>1, <2>1, ActsInSeq
  <2> QED BY <2>2 DEF IsSeq
<1>5. Joined(A, a, B)
  <2>1. B = A \o phys[D].acts
    BY <1>1, <1>2, ActsInStep
  <2>2. B = A \o a
    BY Zenon, <2>1 DEF Last
  <2> HIDE DEF A, B, a
  <2> QED BY <1>3, <1>4, <2>2, ConcatJoins
<1>6. /\ IsSeq(B) /\ Len(B) = N + L
      /\ \A i \in 1..N : B[i] = A[i]
      /\ \A i \in 1..L : B[N + i] = a[i]
  BY <1>5 DEF Joined
<1>7. /\ Len(frames) = N + 1
      /\ \A k \in 1..N : FrameFor(img, frames[k], A[(N + 1) - k])
      /\ IsMain(frames[N + 1])
  BY DEF Matches
<1>8. Len(gs) = L - 1 /\ \A k \in 1..(L - 1) : FrameFor(img, gs[k], a[L - k])
  BY DEF RestoredFor
<1>9. FrameFor(img, fr, a[L])
  BY DEF Last
<1> HIDE DEF A, B, a, L, N, D
<1>10. /\ Len(u) = (N + 1) + (L - 1)
       /\ \A j \in 1..(L - 1) : u[j] = gs[j]
       /\ \A j \in 1..(N + 1) : u[(L - 1) + j] = frames[j]
  <2>1. /\ Len(u) = Len(frames) + Len(gs)
        /\ \A j \in 1..Len(gs) : u[0 + j] = gs[j]
        /\ \A j \in 1..(Len(frames) - 0) : u[(0 + Len(gs)) + j] = frames[0 + j]
    BY DEF Inserted
  <2>2. \A j \in 1..(L - 1) : u[j] = gs[j]
    BY <1>3, <1>8, <2>1
  <2>3. ASSUME NEW j \in 1..(N + 1) PROVE u[(L - 1) + j] = frames[j]
    <3>1. j \in 1..(Len(frames) - 0) /\ (0 + Len(gs)) + j = (L - 1) + j /\ 0 + j = j
      BY <1>3, <1>4, <1>7, <1>8
    <3> QED BY <2>1, <3>1
  <2> QED BY <1>7, <1>8, <2>1, <2>2, <2>3
<1>11. /\ IsSeq(t) /\ Len(t) = (N + 1) + L
       /\ t[1] = fr
       /\ \A j \in 1..((N + 1) + (L - 1)) : t[1 + j] = u[j]
  <2>1. Len(<<fr>>) = 1 /\ <<fr>>[1] = fr
    OBVIOUS
  <2>2. /\ IsSeq(t) /\ Len(t) = Len(u) + 1
        /\ \A j \in 1..1 : t[0 + j] = <<fr>>[j]
        /\ \A j \in 1..(Len(u) - 0) : t[(0 + 1) + j] = u[0 + j]
    BY <2>1 DEF Inserted
  <2>3. t[1] = fr
    BY <2>1, <2>2
  <2>4. ASSUME NEW j \in 1..((N + 1) + (L - 1)) PROVE t[1 + j] = u[j]
    <3>1. j \in 1..(Len(u) - 0) /\ (0 + 1) + j = 1 + j /\ 0 + j = j
      BY <1>3, <1>4, <1>10
    <3> QED BY <2>2, <3>1
  <2>5. Len(t) = (N + 1) + L
    BY <1>3, <1>4, <1>10, <2>2
  <2> QED BY <2>2, <2>3, <2>4, <2>5
<1>12. ASSUME NEW k \in 1..Len(B) PROVE FrameFor(img, t[k], B[(Len(B) + 1) - k])
  <2>1. k \in Nat /\ k >= 1 /\ k <= N + L /\ Len(B) = N + L
    BY <1>3, <1>4, <1>6
  <2>2. CASE k = 1
    <3>1. (Len(B) + 1) - k = N + L /\ L \in 1..L
      BY <1>3, <1>4, <2>1, <2>2
    <3>2. B[N + L] = a[L] /\ t[k] = fr
      BY <1>6, <1>11, <2>2, <3>1
    <3> QED BY Zenon, <1>9, <3>1, <3>2
  <2>3. CASE k \in 2..L
    <3> DEFINE j == k - 1
    <3>1. /\ j \in 1..(L - 1) /\ 1 + j = k /\ (Len(B) + 1) - k = N + (L - j)
          /\ L - j \in 1..L /\ j \in 1..((N + 1) + (L - 1))
      BY <1>3, <1>4, <2>1, <2>3
    <3> HIDE DEF j
    <3>2. t[k] = gs[j]
      BY <1>10, <1>11, <3>1
    <3>3. B[N + (L - j)] = a[L - j]
      BY <1>6, <3>1
    <3> QED BY Zenon, <1>8, <3>1, <3>2, <3>3
  <2>4. CASE k > L
    <3> DEFINE j == k - L
    <3>1. /\ j \in 1..N /\ j \in 1..(N + 1) /\ k = 1 + ((L - 1) + j)
          /\ (Len(B) + 1) - k = (N + 1) - j
          /\ (N + 1) - j \in 1..N /\ (L - 1) + j \in 1..((N + 1) + (L - 1))
      BY <1>3, <1>4, <2>1, <2>4
    <3> HIDE DEF j
    <3>2. t[k] = u[(L - 1) + j]
      BY <1>11, <3>1
    <3>3. u[(L - 1) + j] = frames[j]
      BY <1>10, <3>1
    <3>4. B[(N + 1) - j] = A[(N + 1) - j]
      BY <1>6, <3>1
    <3> QED BY Zenon, <1>7, <3>1, <3>2, <3>3, <3>4
  <2>5. k = 1 \/ k \in 2..L \/ k > L
    BY <1>3, <2>1
  <2> QED BY <2>2, <2>3, <2>4, <2>5
<1>13. Len(t) = Len(B) + 1 /\ IsMain(t[Len(B) + 1])
  <2>1. /\ Len(B) + 1 = 1 + ((L - 1) + (N + 1)) /\ N + 1 \in 1..(N + 1)
        /\ (L - 1) + (N + 1) \in 1..((N + 1) + (L - 1)) /\ (N + 1) + L = Len(B) + 1
    BY <1>3, <1>4, <1>6
  <2>2. t[1 + ((L - 1) + (N + 1))] = frames[N + 1]
    BY <1>10, <1>11, <2>1
  <2> QED BY <1>7, <1>11, <2>1, <2>2
<1>14. Matches(img, t, B)
  BY <1>11, <1>12, <1>13 DEF Matches
<1> QED BY <1>11, <1>14 DEF B, D

\* What insert_fail_frame leaves in frames.
LEMMA FailStepFrames ==
  ASSUME IInv, InsertFailFrame
  PROVE  /\ UNCHANGED <<img, sm_id, ret, phys, mem, cpu, copy, idx>>
         /\ Matches(img, frames', ActsIn(phys, Len(phys)))
         /\ \/ pc' = "segment" /\ inlined'
            \/ pc' = "read" /\ ~inlined' /\ PlacesOK(img, phys, frames', FALSE)
<1> DEFINE D == Len(phys)
           p == Last(phys)
           w == Path(p.acts)
           opt == stmap_get_map_record(sm, sm_id)
           simple == insert_frames(frames, 0, <<FailFrame(FALSE)>>)
           size_rec == stmap_get_size_record_in_func(sm, get_sym_start(sm, ret))
           ppid == get_next_patchpoint(sm, ret, size_rec)
           gs == get_restored_state(ret, ppid, frames[1].real_bp, frames[1].registers)
           u == insert_frames(frames, 0, gs)
           full == insert_frames(u, 0, <<FailFrame(TRUE)>>)
<1>1. /\ pc = "fail"
      /\ UNCHANGED <<img, sm_id, ret, phys, cpu>>
      /\ IF InFunction(sm, ret, FunAddrOf(sm, opt))
         THEN /\ frames' = simple
              /\ pc' = IF inlined THEN "segment" ELSE "read"
              /\ UNCHANGED <<mem, copy, idx, inlined>>
         ELSE IF size_rec = NULL THEN Stop("crashed")
         ELSE /\ frames' = full
              /\ inlined' = TRUE
              /\ pc' = "segment"
              /\ UNCHANGED <<mem, copy, idx>>
  BY Zenon DEF InsertFailFrame, failVars
<1>2. /\ Supported(img) /\ StackOK(img, phys)
      /\ FailureOK(img, phys, sm_id, ret)
      /\ BelowOK(img, phys, frames, inlined)
  BY <1>1 DEF IInv, StackInv, FailureInv, FailInv, HandlerPoints
<1>3. /\ Last(w) = SiteIn(p) /\ Len(w) = Len(p.acts)
      /\ ActsOK(img, p.fun, p.acts)
      /\ GuardOK(img, p.fun, w)
  BY <1>2, GuardSite
<1>4. sm_id = IdAt(img, Last(w)) /\ ret = OptAddr(img, p.fun, w) + PATCHPOINT_CALL_SIZE
  BY <1>2, <1>3 DEF FailureOK, CallAddr
<1>5. Len(p.acts) \in Nat /\ Len(p.acts) >= 1
  <2> HIDE DEF p
  <2> QED BY <1>3 DEF ActsOK, IsSeq
<1> HIDE DEF p, w
<1>6. /\ InFunction(sm, ret, FunAddrOf(sm, opt)) <=> Len(p.acts) = 1
      /\ Len(p.acts) # 1 => size_rec # NULL /\ EnclosingFound(img, w, ret, ppid)
  <2>1. Len(p.acts) # 1 => Len(w) > 1
    <3>1. Len(w) = Len(p.acts)
      BY <1>3
    <3>2. ASSUME NEW x, x \in Nat, x >= 1, x # 1 PROVE x > 1
      BY <3>2
    <3> QED BY Zenon, <1>5, <3>1, <3>2
  <2> QED BY <1>3, <1>4, <2>1 DEF GuardOK, sm
<1>7. /\ Matches(img, frames, ActsIn(phys, D - 1)) /\ IsSeq(frames)
      /\ frames[1].real_bp = Last(phys).bp
      /\ ~inlined => /\ Single(phys, D - 1)
                     /\ \A k \in 1..D : frames[k].bp = phys[(D + 1) - k].bp
  BY <1>2 DEF BelowOK, Matches
<1>8. \A x : /\ FrameFor(img, FailFrame(x), Last(Last(phys).acts))
             /\ FailFrame(x).bp = frames[1].real_bp
  BY <1>2, FailFrameOK
<1>9. CASE Len(p.acts) = 1
  <2>1. /\ frames' = simple /\ pc' = (IF inlined THEN "segment" ELSE "read")
        /\ UNCHANGED <<mem, copy, idx, inlined>>
    BY Zenon, <1>1, <1>6, <1>9
  <2> DEFINE fr == FailFrame(FALSE)
             none == [j \in 1..0 |-> fr]
  <2>2. IsSeq(none) /\ Len(none) = 0
    BY FunctionIsSeq
  <2> HIDE DEF none
  <2>3. RestoredFor(Last(phys).acts, none)
    BY <1>9, <2>2 DEF RestoredFor, p
  <2>4. Inserted(frames, 0, none, frames)
    <3>1. Len(frames) \in Nat
      BY <1>7 DEF IsSeq
    <3>2. Len(frames) = Len(frames) + Len(none)
      BY <2>2, <3>1
    <3>3. \A j \in 1..(Len(frames) - 0) : frames[(0 + Len(none)) + j] = frames[0 + j]
      BY <2>2
    <3> QED BY <1>7, <2>2, <3>2, <3>3 DEF Inserted
  <2>5. FrameFor(img, fr, Last(Last(phys).acts)) /\ fr.bp = frames[1].real_bp
    BY <1>8
  <2> HIDE DEF fr
  <2>6. Inserted(frames, 0, <<fr>>, frames')
    <3>1. IsSeq(<<fr>>)
      BY SingletonSeq
    <3>2. 0 \in 0..Len(frames)
      BY <1>7 DEF IsSeq
    <3>3. Inserted(frames, 0, <<fr>>, insert_frames(frames, 0, <<fr>>))
      BY <1>7, <3>1, <3>2, InsertFrames
    <3> QED BY Zenon, <2>1, <3>3 DEF fr
  <2>7. Matches(img, frames', ActsIn(phys, Len(phys))) /\ frames'[1] = fr
    BY <1>2, <1>7, <2>3, <2>4, <2>5, <2>6, FailFrames
  <2>8. CASE inlined
    BY <1>1, <2>1, <2>7, <2>8
  <2>9. CASE ~inlined
    <3>1. D \in Nat /\ D >= 1
      BY <1>2 DEF StackOK, IsSeq
    <3>2. Len(frames) = D
      <4>1. Len(ActsIn(phys, D - 1)) = D - 1
        <5>1. /\ IsSeq(phys) /\ Len(phys) >= 1 /\ D - 1 \in 0..Len(phys)
              /\ \A k \in 1..Len(phys) : IsSeq(phys[k].acts) /\ Len(phys[k].acts) >= 1
          BY <1>2, <3>1 DEF StackOK, FrameOK, ActsOK
        <5>2. Single(phys, D - 1)
          BY <1>7, <2>9
        <5> QED BY <5>1, <5>2, SingleCount
      <4> QED BY <1>7, <3>1, <4>1 DEF Matches
    <3>3. Single(phys, D)
      <4>1. \A k \in 1..D : k \in 1..(D - 1) \/ k = D
        BY <3>1
      <4> QED BY <1>7, <1>9, <2>9, <4>1 DEF Single, p, Last
    <3>4. frames'[1].bp = Last(phys).bp
      BY <1>7, <2>5, <2>7
    <3>5. ASSUME NEW k \in 2..D PROVE frames'[k].bp = phys[(D + 2) - k].bp
      <4> DEFINE j == k - 1
      <4>1. j \in 1..D /\ 1 + j = k /\ (D + 1) - j = (D + 2) - k /\ j \in 1..Len(frames)
        BY <3>1, <3>2
      <4>2. frames'[1 + j] = frames[j]
        <5>1. /\ Len(<<fr>>) = 1
              /\ j \in 1..(Len(frames) - 0) /\ (0 + 1) + j = 1 + j /\ 0 + j = j
          BY <3>2, <4>1
        <5> HIDE DEF j
        <5> QED BY <2>6, <5>1 DEF Inserted
      <4> HIDE DEF j
      <4> QED BY <1>7, <2>9, <4>1, <4>2
    <3>6. PlacesOK(img, phys, frames', FALSE)
      BY <3>3, <3>4, <3>5 DEF PlacesOK
    <3> QED BY <1>1, <2>1, <2>7, <2>9, <3>6
  <2> QED BY <2>8, <2>9
<1>10. CASE Len(p.acts) # 1
  <2>1. /\ frames' = full /\ inlined' = TRUE /\ pc' = "segment"
        /\ UNCHANGED <<mem, copy, idx>>
    BY Zenon, <1>1, <1>6, <1>10
  <2>2. RestoredFor(p.acts, gs)
    <3>1. \A k \in 1..Len(p.acts) : w[k] = <<p.acts[k].fun, p.acts[k].at>>
      BY DEF Path, w
    <3>2. EnclosingFound(img, w, ret, ppid)
      BY <1>6, <1>10
    <3> HIDE DEF ppid
    <3> QED BY <1>2, <1>3, <3>1, <3>2, RestoredFrames DEF w
  <2> DEFINE fr == FailFrame(TRUE)
  <2>3. FrameFor(img, fr, Last(Last(phys).acts))
    BY <1>8
  <2>4. full = insert_frames(u, 0, <<fr>>)
    OBVIOUS
  <2> HIDE DEF fr, gs, full
  <2>5. Inserted(frames, 0, gs, u)
    <3>1. IsSeq(gs)
      BY <2>2 DEF RestoredFor
    <3>2. 0 \in 0..Len(frames)
      BY <1>7 DEF IsSeq
    <3> QED BY <1>7, <3>1, <3>2, InsertFrames
  <2> HIDE DEF u
  <2>6. Inserted(u, 0, <<fr>>, full)
    <3>1. IsSeq(<<fr>>)
      BY SingletonSeq
    <3>2. IsSeq(u)
      BY <2>5 DEF Inserted
    <3>3. 0 \in 0..Len(u)
      BY <3>2 DEF IsSeq
    <3>4. Inserted(u, 0, <<fr>>, insert_frames(u, 0, <<fr>>))
      BY <3>1, <3>2, <3>3, InsertFrames
    <3> QED BY Zenon, <2>4, <3>4
  <2>7. Matches(img, full, ActsIn(phys, Len(phys)))
    BY <1>2, <1>7, <2>2, <2>3, <2>5, <2>6, FailFrames DEF p
  <2> QED BY <1>1, <2>1, <2>7
<1> QED BY <1>9, <1>10

\* The insertion of the frame of the guard keeps the invariant.
LEMMA InsertFailStep ==
  ASSUME IInv, InsertFailFrame
  PROVE  IInv' /\ (HandlerInv => HandlerInv')
<1>1. /\ UNCHANGED <<img, sm_id, ret, phys, mem, cpu, copy, idx>>
      /\ Matches(img, frames', ActsIn(phys, Len(phys)))
      /\ \/ pc' = "segment" /\ inlined'
         \/ pc' = "read" /\ ~inlined' /\ PlacesOK(img, phys, frames', FALSE)
  BY FailStepFrames
<1>2. pc = "fail"
  BY DEF InsertFailFrame
<1>3. /\ Supported(img) /\ StackOK(img, phys) /\ IsMem(mem)
      /\ FailureOK(img, phys, sm_id, ret)
  BY <1>2 DEF IInv, StackInv, FailureInv, HandlerPoints
<1>4. Supported(img') /\ PcInv' /\ OptInv'
  BY <1>1, <1>3 DEF PcInv, OptInv, HandlerPoints
<1>5. StackInv' /\ FailureInv' /\ CollectInv' /\ InlineInv' /\ FailInv'
  BY <1>1, <1>3 DEF StackInv, FailureInv, CollectInv, InlineInv, FailInv
<1>6. MatchInv'
  BY <1>1 DEF MatchInv
<1>7. SegmentInv'
  <2>1. CASE pc' = "segment" /\ inlined'
    BY <2>1 DEF SegmentInv
  <2>2. CASE pc' = "read" /\ ~inlined' /\ PlacesOK(img, phys, frames', FALSE)
    <3>1. PlacesOK(img, phys, frames', inlined')
      BY <2>2 DEF PlacesOK
    <3> QED BY <1>1, <2>2, <3>1 DEF SegmentInv
  <2> QED BY <1>1, <2>1, <2>2
<1>8. HandlerInv => HandlerInv'
  BY <1>1, <1>2 DEF HandlerInv, HandlerPoints
<1> QED BY <1>4, <1>5, <1>6, <1>7, <1>8 DEF IInv

-----------------------------------------------------------------------------
(***************************************************************************)
(* The segment: SegmentBp and get_total_stack_size are partial sums of     *)
(* the sizes of the frames.                                                *)
(***************************************************************************)
Counts == [k \in 1..LastIdx |-> frames[k].size + 1]

SizesKnown == LastIdx \in Nat /\ \A k \in 1..LastIdx : frames[k].size \in Nat \ {0}

\* The running sums of the sizes.
LEMMA CountSums ==
  ASSUME SizesKnown
  PROVE  /\ \A k \in 0..LastIdx : Sums(Counts)[k] \in Nat
         /\ Sums(Counts)[0] = 0
         /\ \A k \in 1..LastIdx : Sums(Counts)[k] = Sums(Counts)[k - 1] + (frames[k].size + 1)
<1> DEFINE N == LastIdx
           c == Counts
<1>1. N \in Nat /\ \A k \in 1..N : frames[k].size \in Nat \ {0}
  BY DEF SizesKnown
<1> HIDE DEF N
<1>2. /\ c = [k \in 1..N |-> frames[k].size + 1]
      /\ \A k \in 1..N : c[k] = frames[k].size + 1 /\ c[k] \in Nat
  BY <1>1 DEF Counts, N
<1> HIDE DEF c
<1>3. IsSeq(c) /\ Len(c) = N
  <2>1. c = [k \in 1..N |-> c[k]]
    BY <1>2
  <2> QED BY <1>1, <2>1, FunctionIsSeq
<1>4. \A k \in 1..Len(c) : c[k] \in Nat
  BY <1>2, <1>3
<1> DEFINE S == Sums(c)
<1>5. /\ S \in [0..N -> Nat] /\ S[0] = 0
      /\ \A i \in 1..N : S[i] = S[i - 1] + c[i]
  <2>1. /\ Sums(c) \in [0..Len(c) -> Nat]
        /\ Sums(c)[0] = 0
        /\ \A i \in 1..Len(c) : Sums(c)[i] = Sums(c)[i - 1] + c[i]
    BY <1>3, <1>4, SumsProperties
  <2> QED BY <1>3, <2>1
<1> HIDE DEF S
<1>6. /\ \A k \in 0..N : S[k] \in Nat
      /\ \A k \in 1..N : S[k] = S[k - 1] + (frames[k].size + 1)
  BY <1>2, <1>5
<1> QED BY <1>5, <1>6 DEF S, c, N

\* The base pointer of frame k in a segment, as a sum of sizes.
LEMMA SegmentBpIs ==
  ASSUME SizesKnown, NEW start \in Nat, NEW k \in 1..LastIdx
  PROVE  SegmentBp(start, k) = (start + Sums(Counts)[k]) - 2
<1> DEFINE S == Sums(Counts)
           N == LastIdx
           Def(f, n) == IF n = 1 THEN start + frames[1].size - ADDR_SIZE
                        ELSE f[n - 1] + frames[n].size + ADDR_SIZE
           g == [n \in 1..k |-> (start + S[n]) - 2]
           bp == CHOOSE f : f = [n \in 1..k |-> Def(f, n)]
<1>1. N \in Nat /\ \A n \in 1..N : frames[n].size \in Nat \ {0}
  BY DEF SizesKnown
<1>2. /\ \A n \in 0..N : S[n] \in Nat
      /\ S[0] = 0
      /\ \A n \in 1..N : S[n] = S[n - 1] + (frames[n].size + 1)
  BY CountSums
<1> HIDE DEF S, N
<1>3. k \in 1..N /\ ADDR_SIZE = 1
  BY DEF N, ADDR_SIZE
<1>4. SegmentBp(start, k) = bp[k]
  BY DEF SegmentBp
<1>5. ASSUME NEW n \in 1..k PROVE g[n] = Def(g, n)
  <2>1. n \in 1..N /\ n \in 0..N /\ n - 1 \in 0..N /\ (n # 1 => n - 1 \in 1..k)
    BY <1>1, <1>3
  <2>2. /\ S[n] = S[n - 1] + (frames[n].size + 1) /\ S[n - 1] \in Nat /\ S[n] \in Nat
        /\ frames[n].size \in Nat
    BY <1>1, <1>2, <2>1
  <2>3. CASE n = 1
    <3>1. S[n] = frames[1].size + 1
      BY <1>2, <2>2, <2>3
    <3>2. g[n] = (start + S[n]) - 2
      OBVIOUS
    <3>3. Def(g, n) = start + frames[1].size - ADDR_SIZE
      BY <2>3
    <3> QED BY <1>3, <2>2, <2>3, <3>1, <3>2, <3>3
  <2>4. CASE n # 1
    <3>1. g[n] = (start + S[n]) - 2 /\ g[n - 1] = (start + S[n - 1]) - 2
      BY <2>1, <2>4
    <3>2. Def(g, n) = g[n - 1] + frames[n].size + ADDR_SIZE
      BY <2>4
    <3> HIDE DEF g, Def
    <3> QED BY <1>3, <2>2, <3>1, <3>2
  <2> QED BY <2>3, <2>4
<1>6. g = [n \in 1..k |-> g[n]]
  OBVIOUS
<1>7. ASSUME NEW f, f = [n \in 1..k |-> Def(f, n)]
      PROVE  \A n \in 1..k : f[n] = (start + S[n]) - 2
  <2> DEFINE P == {n \in 1..k : f[n] = (start + S[n]) - 2}
  <2>1. ASSUME NEW n \in 1..k PROVE f[n] = Def(f, n)
    <3> HIDE DEF Def
    <3> QED BY Zenon, <1>7
  <2>2. 1 \in P
    <3>1. 1 \in 1..k /\ 1 \in 1..N /\ 1 \in 0..N /\ 1 - 1 = 0
      BY <1>1, <1>3
    <3>2. f[1] = start + frames[1].size - ADDR_SIZE
      BY <2>1, <3>1
    <3>3. S[1] = S[1 - 1] + (frames[1].size + 1) /\ frames[1].size \in Nat
      BY <1>1, <1>2, <3>1
    <3>4. S[1] = frames[1].size + 1
      BY <1>2, <3>3
    <3> QED BY <1>3, <3>1, <3>2, <3>3, <3>4
  <2>3. ASSUME NEW n \in 1..(k - 1), n \in P PROVE n + 1 \in P
    <3>1. /\ n + 1 \in 1..k /\ n + 1 \in 1..N /\ n \in 1..k /\ n \in 0..N /\ (n + 1) - 1 = n
          /\ n + 1 # 1
      BY <1>1, <1>3
    <3>2. f[n + 1] = f[(n + 1) - 1] + frames[n + 1].size + ADDR_SIZE
      BY <2>1, <3>1
    <3>3. /\ S[n + 1] = S[(n + 1) - 1] + (frames[n + 1].size + 1)
          /\ frames[n + 1].size \in Nat /\ S[n] \in Nat
      BY <1>1, <1>2, <3>1
    <3>4. f[n] = (start + S[n]) - 2
      BY <2>3
    <3>5. f[n + 1] = (start + S[n + 1]) - 2
      BY <1>3, <3>1, <3>2, <3>3, <3>4
    <3> QED BY <3>1, <3>5
  <2> HIDE DEF P, Def
  <2>4. 1 \in Nat /\ k \in Nat
    OBVIOUS
  <2>5. \A n \in 1..k : n \in P
    BY Zenon, <2>2, <2>3, <2>4, IntervalInduction
  <2> QED BY Zenon, <2>5 DEF P
<1> HIDE DEF g, Def
<1>8. g = [n \in 1..k |-> Def(g, n)]
  <2>1. [n \in 1..k |-> g[n]] = [n \in 1..k |-> Def(g, n)]
    BY <1>5
  <2> QED BY Zenon, <1>6, <2>1
<1>9. bp = [n \in 1..k |-> Def(bp, n)]
  <2>1. \E f : f = [n \in 1..k |-> Def(f, n)]
    BY Zenon, <1>8
  <2> QED BY Zenon, <2>1
<1> HIDE DEF bp
<1>10. k \in 1..k
  OBVIOUS
<1>11. bp[k] = (start + S[k]) - 2
  BY Zenon, <1>7, <1>9, <1>10
<1> QED BY Zenon, <1>4, <1>11 DEF S

\* The size of the segment is the sum of all sizes.
LEMMA TotalSizeIs ==
  ASSUME SizesKnown
  PROVE  get_total_stack_size = Sums(Counts)[LastIdx]
<1> DEFINE S == Sums(Counts)
           N == LastIdx
           Def(f, n) == IF n = 0 THEN 0 ELSE f[n - 1] + frames[n].size + ADDR_SIZE
           g == [n \in 0..N |-> S[n]]
           total == CHOOSE f : f = [n \in 0..N |-> Def(f, n)]
<1>1. N \in Nat /\ \A n \in 1..N : frames[n].size \in Nat \ {0}
  BY DEF SizesKnown
<1>2. /\ \A n \in 0..N : S[n] \in Nat
      /\ S[0] = 0
      /\ \A n \in 1..N : S[n] = S[n - 1] + (frames[n].size + 1)
  BY CountSums
<1>3. get_total_stack_size = total[N]
  BY DEF get_total_stack_size
<1> HIDE DEF S, N
<1>4. ADDR_SIZE = 1
  BY DEF ADDR_SIZE
<1>5. ASSUME NEW n \in 0..N PROVE g[n] = Def(g, n)
  <2>1. CASE n = 0
    BY <1>2, <2>1
  <2>2. CASE n # 0
    <3>1. n \in 1..N /\ n - 1 \in 0..N
      BY <1>1, <2>2
    <3>2. g[n] = S[n] /\ g[n - 1] = S[n - 1] /\ Def(g, n) = g[n - 1] + frames[n].size + ADDR_SIZE
      BY <2>2, <3>1
    <3>3. /\ S[n] = S[n - 1] + (frames[n].size + 1) /\ S[n - 1] \in Nat
          /\ frames[n].size \in Nat
      BY <1>1, <1>2, <3>1
    <3> HIDE DEF g, Def
    <3> QED BY <1>4, <3>2, <3>3
  <2> QED BY <2>1, <2>2
<1>6. g = [n \in 0..N |-> g[n]]
  OBVIOUS
<1>7. ASSUME NEW f, f = [n \in 0..N |-> Def(f, n)]
      PROVE  \A n \in 0..N : f[n] = S[n]
  <2> DEFINE P == {n \in 0..N : f[n] = S[n]}
  <2>1. ASSUME NEW n \in 0..N PROVE f[n] = Def(f, n)
    <3> HIDE DEF Def
    <3> QED BY Zenon, <1>7
  <2>2. 0 \in P
    <3>1. 0 \in 0..N
      BY <1>1
    <3>2. f[0] = 0
      BY <2>1, <3>1
    <3> QED BY <1>2, <3>1, <3>2
  <2>3. ASSUME NEW n \in 0..(N - 1), n \in P PROVE n + 1 \in P
    <3>1. n + 1 \in 1..N /\ n + 1 \in 0..N /\ n \in 0..N /\ (n + 1) - 1 = n /\ n + 1 # 0
      BY <1>1
    <3>2. f[n + 1] = f[(n + 1) - 1] + frames[n + 1].size + ADDR_SIZE
      BY <2>1, <3>1
    <3>3. /\ S[n + 1] = S[(n + 1) - 1] + (frames[n + 1].size + 1)
          /\ frames[n + 1].size \in Nat /\ S[n] \in Nat
      BY <1>1, <1>2, <3>1
    <3>4. f[n] = S[n]
      BY <2>3
    <3>5. f[n + 1] = S[n + 1]
      BY <1>4, <3>1, <3>2, <3>3, <3>4
    <3> QED BY <3>1, <3>5
  <2> HIDE DEF P, Def
  <2>4. 0 \in Nat /\ N \in Nat
    BY <1>1
  <2>5. \A n \in 0..N : n \in P
    BY Zenon, <2>2, <2>3, <2>4, IntervalInduction
  <2> QED BY Zenon, <2>5 DEF P
<1> HIDE DEF g, Def
<1>8. g = [n \in 0..N |-> Def(g, n)]
  <2>1. [n \in 0..N |-> g[n]] = [n \in 0..N |-> Def(g, n)]
    BY <1>5
  <2> QED BY Zenon, <1>6, <2>1
<1>9. total = [n \in 0..N |-> Def(total, n)]
  <2>1. \E f : f = [n \in 0..N |-> Def(f, n)]
    BY Zenon, <1>8
  <2> QED BY Zenon, <2>1
<1> HIDE DEF total
<1>10. N \in 0..N
  BY <1>1
<1>11. total[N] = S[N]
  BY Zenon, <1>7, <1>9, <1>10
<1> QED BY Zenon, <1>3, <1>11 DEF S, N

\* No frame is bigger than size.
LEMMA SumsBound ==
  ASSUME SizesKnown, NEW size \in Nat, \A k \in 1..LastIdx : frames[k].size <= size
  PROVE  \A k \in 0..LastIdx : Sums(Counts)[k] <= k * (size + 1)
<1> DEFINE S == Sums(Counts)
           N == LastIdx
           P == {k \in 0..N : S[k] <= k * (size + 1)}
<1>1. N \in Nat /\ \A n \in 1..N : frames[n].size \in Nat \ {0} /\ frames[n].size <= size
  BY DEF SizesKnown
<1>2. /\ \A n \in 0..N : S[n] \in Nat
      /\ S[0] = 0
      /\ \A n \in 1..N : S[n] = S[n - 1] + (frames[n].size + 1)
  BY CountSums
<1> HIDE DEF S, N
<1>3. 0 \in P
  <2>1. 0 * (size + 1) = 0 /\ 0 \in 0..N
    BY <1>1
  <2> QED BY <1>2, <2>1
<1>4. ASSUME NEW k \in 0..(N - 1), k \in P PROVE k + 1 \in P
  <2>1. k + 1 \in 1..N /\ k + 1 \in 0..N /\ k \in 0..N /\ (k + 1) - 1 = k /\ k \in Nat
    BY <1>1
  <2>2. /\ S[k + 1] = S[(k + 1) - 1] + (frames[k + 1].size + 1) /\ S[k] \in Nat
        /\ frames[k + 1].size \in Nat /\ frames[k + 1].size <= size
    BY <1>1, <1>2, <2>1
  <2>3. (k + 1) * (size + 1) = k * (size + 1) + (size + 1)
    <3>1. size + 1 \in Nat
      OBVIOUS
    <3> QED BY ONLY <2>1, <3>1, Products
  <2> DEFINE x == k * (size + 1)
             y == (k + 1) * (size + 1)
  <2>4. x \in Int /\ y = x + (size + 1)
    BY <2>1, <2>3
  <2>5. S[k] <= x
    BY <1>4
  <2> HIDE DEF x, y
  <2>6. S[k + 1] <= y
    BY <2>1, <2>2, <2>4, <2>5
  <2> QED BY <2>1, <2>6 DEF y
<1> HIDE DEF P
<1>5. \A k \in 0..N : k \in P
  <2>1. 0 \in Nat
    OBVIOUS
  <2> QED BY Zenon, <1>1, <1>3, <1>4, <2>1, IntervalInduction
<1> QED BY <1>5 DEF P, S, N

\* The frames that belong to activations have the sizes of frames.
LEMMA MatchedSizes ==
  ASSUME Supported(img), StackOK(img, phys), Matches(img, frames, ActsIn(phys, Len(phys)))
  PROVE  /\ SizesKnown
         /\ LastIdx = Len(ActsIn(phys, Len(phys))) /\ LastIdx <= MaxDepth
         /\ Len(frames) = LastIdx + 1
         /\ IsMain(frames[LastIdx + 1])
         /\ \A size : RoomFor(img, size) => \A k \in 1..LastIdx : frames[k].size <= size
<1> DEFINE acts == ActsIn(phys, Len(phys))
           N == Len(acts)
<1>1. N \in Nat /\ N <= MaxDepth
  <2>1. Len(phys) \in Nat /\ \A k \in 1..Len(phys) : IsSeq(phys[k].acts)
    BY DEF StackOK, FrameOK, ActsOK, IsSeq
  <2>2. IsSeq(acts)
    BY <2>1, ActsInSeq
  <2> QED BY <2>2 DEF StackOK, IsSeq
<1>2. /\ Len(frames) = N + 1 /\ IsMain(frames[N + 1])
      /\ \A k \in 1..N : FrameFor(img, frames[k], acts[(N + 1) - k])
  BY DEF Matches
<1> HIDE DEF N, acts
<1>3. LastIdx = N
  BY <1>1, <1>2 DEF LastIdx
<1>4. ASSUME NEW k \in 1..N
      PROVE  /\ frames[k].size \in Nat \ {0}
             /\ \A size : RoomFor(img, size) => frames[k].size <= size
  <2> DEFINE f == acts[(N + 1) - k].fun
  <2>1. f \in DOMAIN img.prog.body /\ frames[k].size = StackSize(img, f)
    BY <1>2 DEF FrameFor
  <2>2. FramesOK(img)
    BY DEF Supported
  <2> HIDE DEF f
  <2> QED BY <2>1, <2>2 DEF FramesOK, RoomFor
<1>5. SizesKnown
  BY <1>1, <1>3, <1>4 DEF SizesKnown
<1>6. \A size : RoomFor(img, size) => \A k \in 1..LastIdx : frames[k].size <= size
  BY Zenon, <1>3, <1>4
<1> QED BY <1>1, <1>2, <1>3, <1>5, <1>6 DEF N, acts

\* Where the frames of the segment are.
LEMMA SegmentLow ==
  ASSUME SizesKnown, NEW start \in Nat, NEW k \in 1..LastIdx
  PROVE  /\ SegmentBp(start, k) \in Nat
         /\ SegmentBp(start, k) >= start + (frames[k].size - 1)
<1> DEFINE S == Sums(Counts)
<1>1. SegmentBp(start, k) = (start + S[k]) - 2
  BY SegmentBpIs
<1>2. k \in 0..LastIdx /\ k - 1 \in 0..LastIdx /\ frames[k].size \in Nat \ {0}
  BY DEF SizesKnown
<1>3. S[k] = S[k - 1] + (frames[k].size + 1) /\ S[k - 1] \in Nat
  BY <1>2, CountSums
<1> HIDE DEF S
<1> QED BY <1>1, <1>2, <1>3

\* The segment can be copied over the stack.
LEMMA SegmentFits ==
  ASSUME Supported(img), StackOK(img, phys), Matches(img, frames, ActsIn(phys, Len(phys)))
  PROVE  get_total_stack_size \in Nat /\ MainBp + get_total_stack_size <= StackTop + 1
<1>1. SizesKnown /\ LastIdx <= MaxDepth /\ LastIdx \in Nat
  BY MatchedSizes DEF SizesKnown
<1>2. PICK size \in 1..StackTop : RoomFor(img, size)
  BY DEF Supported
<1>3. \A k \in 1..LastIdx : frames[k].size <= size
  BY <1>2, MatchedSizes
<1>4. LastIdx \in 0..LastIdx /\ size \in Nat /\ size + 1 \in Nat /\ MaxDepth \in Nat
  BY <1>1, MemoryAssumption
<1> DEFINE T == Sums(Counts)[LastIdx]
           x == LastIdx * (size + 1)
           y == MaxDepth * (size + 1)
<1>5. T \in Nat /\ T <= x
  <2>1. T \in Nat
    BY <1>1, <1>4, CountSums
  <2>2. T <= x
    BY <1>1, <1>3, <1>4, SumsBound
  <2> QED BY <2>1, <2>2
<1>6. x <= y
  BY ONLY <1>1, <1>4, Products
<1>7. MainBp + y <= StackTop + 1
  BY <1>2 DEF RoomFor
<1>8. get_total_stack_size = T
  BY <1>1, TotalSizeIs
<1>9. x \in Int /\ y \in Int
  BY <1>1, <1>4
<1> HIDE DEF T, x, y
<1> QED BY <1>5, <1>6, <1>7, <1>8, <1>9, MemoryAssumption

Placed(fr, bp) == [fr EXCEPT !.bp = bp, !.ret_addr = bp + ADDR_SIZE]

\* A frame moved to the segment keeps what is read with it.
LEMMA PlacedFrame ==
  ASSUME NEW fr, IsEntry(fr), NEW bp
  PROVE  /\ IsEntry(Placed(fr, bp)) /\ Placed(fr, bp).bp = bp
         /\ Placed(fr, bp).size = fr.size /\ Placed(fr, bp).record = fr.record
         /\ Placed(fr, bp).real_record = fr.real_record
         /\ Placed(fr, bp).real_bp = fr.real_bp /\ Placed(fr, bp).registers = fr.registers
<1> DEFINE g1 == [fr EXCEPT !.bp = bp]
           ra == bp + ADDR_SIZE
           g2 == [g1 EXCEPT !.ret_addr = ra]
           Rec(a, b) ==
             [ret_addr |-> a, stored_ret_addr |-> fr.stored_ret_addr,
              size |-> fr.size, bp |-> b, real_bp |-> fr.real_bp,
              registers |-> fr.registers, record |-> fr.record,
              real_record |-> fr.real_record, inlined |-> fr.inlined]
<1>1. g1 = Rec(fr.ret_addr, bp)
  BY DEF IsEntry
<1>2. Placed(fr, bp) = g2
  BY Zenon DEF Placed
<1> HIDE DEF g1, ra
<1>3. g2 = Rec(ra, bp)
  BY <1>1
<1> HIDE DEF g2
<1> QED BY <1>2, <1>3 DEF IsEntry

\* The writes to the stack that insert_real_addresses makes.
LEMMA AddressesWritten ==
  ASSUME Supported(img), StackOK(img, phys), Matches(img, frames, ActsIn(phys, Len(phys))),
         IsMem(mem), insert_real_addresses
  PROVE  /\ IsMem(mem')
         /\ \A x \in Stack : x < MainBp => mem'[x] = mem[x]
<1> DEFINE bp == [k \in 1..LastIdx |-> SegmentBp(HeapBase, k)]
           main == frames[Len(frames)]
           links == [a \in {bp[k] : k \in 1..(LastIdx - 1)} |->
                      bp[1 + CHOOSE k \in 1..LastIdx : bp[k] = a]]
           returns == [a \in {bp[k] + ADDR_SIZE : k \in 1..LastIdx} |->
                        ReturnAddress(CHOOSE k \in 1..LastIdx : bp[k] + ADDR_SIZE = a)]
           junk == [a \in Heap |-> Junk]
           a1 == main.ret_addr
           v1 == mem[main.registers[RBP] + ADDR_SIZE]
           a2 == main.bp
           v2 == main.registers[RBP]
           m1 == Write(mem, junk)
           m2 == Write(m1, returns)
           m3 == Write(m2, links)
           m5 == [m3 EXCEPT ![a1] = v1, ![a2] = v2]
<1>1. mem' = m5
  <2> HIDE DEF bp, links, returns, junk, a1, v1, a2, v2
  <2>1. mem' = [Write(Write(Write(mem, junk), returns), links) EXCEPT ![a1] = v1, ![a2] = v2]
    BY Zenon DEF insert_real_addresses, links, returns, junk, bp, a1, v1, a2, v2
  <2> QED BY Zenon, <2>1
<1>2. /\ HeapBase \in Nat /\ HeapBase > StackTop /\ StackTop \in Nat
      /\ MainBp \in 1..StackTop /\ HeapWords \in Nat
  BY MemoryAssumption
<1>3. \A k \in 1..LastIdx : bp[k] \in Nat /\ bp[k] >= HeapBase
  <2> TAKE k \in 1..LastIdx
  <2>1. SizesKnown
    BY MatchedSizes
  <2>2. SegmentBp(HeapBase, k) \in Nat /\ SegmentBp(HeapBase, k) >= HeapBase + (frames[k].size - 1)
    BY <1>2, <2>1, SegmentLow
  <2>3. frames[k].size \in Nat \ {0}
    BY <2>1 DEF SizesKnown
  <2>4. bp[k] = SegmentBp(HeapBase, k)
    OBVIOUS
  <2> HIDE DEF bp
  <2> QED BY <1>2, <2>2, <2>3, <2>4
<1>4. LastIdx \in Nat /\ IsMain(main)
  <2>1. SizesKnown /\ Len(frames) = LastIdx + 1 /\ IsMain(frames[LastIdx + 1])
    BY MatchedSizes
  <2> QED BY <2>1 DEF SizesKnown
<1>5. a1 = MainBp + 1 /\ a2 = MainBp
  BY <1>4 DEF IsMain
<1> HIDE DEF bp, main, a1, v1, a2, v2
<1>6. \A x \in Stack : x \notin DOMAIN junk /\ x \notin DOMAIN returns /\ x \notin DOMAIN links
  <2> TAKE x \in Stack
  <2>1. x \in Nat /\ x <= StackTop
    BY <1>2 DEF Stack
  <2>2. x \notin Heap
    BY <1>2, <2>1 DEF Heap
  <2>3. \A k \in 1..LastIdx : x # bp[k] /\ x # bp[k] + ADDR_SIZE
    BY <1>2, <1>3, <2>1 DEF ADDR_SIZE
  <2>4. \A k \in 1..(LastIdx - 1) : k \in 1..LastIdx
    BY <1>4
  <2> QED BY <2>2, <2>3, <2>4
<1> HIDE DEF junk, returns, links
<1>7. IsMem(m1) /\ \A x \in Stack : m1[x] = mem[x]
  BY <1>6, MemWrite
<1> HIDE DEF m1
<1>8. IsMem(m2) /\ \A x \in Stack : m2[x] = m1[x]
  BY <1>6, <1>7, MemWrite
<1> HIDE DEF m2
<1>9. IsMem(m3) /\ \A x \in Stack : m3[x] = m2[x]
  BY <1>6, <1>8, MemWrite
<1> HIDE DEF m3
<1>10. a1 \in Stack \cup Heap /\ a2 \in Stack \cup Heap /\ a1 # a2
  <2>1. MainBp + 1 \in Stack
    <3>1. 1 \in 1..Len(phys)
      BY DEF StackOK, IsSeq
    <3> QED BY <3>1, StackRoom
  <2> QED BY <1>2, <1>5, <2>1 DEF Stack
<1>11. IsMem(m5) /\ \A x \in Stack : x # a1 /\ x # a2 => m5[x] = m3[x]
  <2>1. m5 = TwoWritten(m3, a1, v1, a2, v2)
    BY Zenon DEF TwoWritten
  <2> HIDE DEF m5
  <2> DEFINE m6 == TwoWritten(m3, a1, v1, a2, v2)
  <2>2. IsMem(m6) /\ \A x \in Stack \cup Heap : x # a1 /\ x # a2 => m6[x] = m3[x]
    BY <1>9, <1>10, MemTwo
  <2> HIDE DEF m6
  <2>3. m5 = m6
    BY <2>1 DEF m6
  <2> QED BY <2>2, <2>3
<1> HIDE DEF m5
<1>12. \A x \in Stack : x < MainBp => m5[x] = mem[x]
  <2> TAKE x \in Stack
  <2>1. x < MainBp => x # a1 /\ x # a2
    BY <1>2, <1>5 DEF Stack
  <2> QED BY <1>7, <1>8, <1>9, <1>11, <2>1
<1> QED BY Zenon, <1>1, <1>11, <1>12

\* insert_real_addresses keeps the invariant: what it writes is in the heap or at main.
LEMMA BuildStep ==
  ASSUME IInv, BuildSegment
  PROVE  IInv' /\ (HandlerInv => HandlerInv')
<1> DEFINE N == LastIdx
           acts == ActsIn(phys, Len(phys))
           bp == [k \in 1..LastIdx |-> SegmentBp(HeapBase, k)]
<1>1. /\ pc = "segment" /\ pc' = "read"
      /\ seg' = [start_addr |-> HeapBase, total_size |-> get_total_stack_size]
      /\ insert_real_addresses
      /\ UNCHANGED <<img, calls, sm_id, ret, phys, cpu, copy, idx, inlined, locs, r>>
  BY DEF BuildSegment, failVars
<1>2. /\ Supported(img) /\ StackOK(img, phys) /\ IsMem(mem)
      /\ FailureOK(img, phys, sm_id, ret) /\ inlined
      /\ Matches(img, frames, acts)
  BY <1>1 DEF IInv, StackInv, FailureInv, MatchInv, SegmentInv, HandlerPoints
<1>3. /\ SizesKnown /\ N = Len(acts) /\ Len(frames) = N + 1 /\ N \in Nat
      /\ \A k \in 1..N : frames[k].size \in Nat \ {0}
  BY <1>2, MatchedSizes DEF SizesKnown
<1>4. IsMem(mem') /\ \A x \in Stack : x < MainBp => mem'[x] = mem[x]
  BY <1>1, <1>2, AddressesWritten
<1>5. frames' = [k \in 1..Len(frames) |->
                  IF k <= N THEN Placed(frames[k], bp[k]) ELSE frames[k]]
  BY Zenon, <1>1 DEF insert_real_addresses, Placed
<1>6. \A k \in 1..N : bp[k] \in Nat /\ bp[k] >= HeapBase + (frames[k].size - 1)
  <2> TAKE k \in 1..N
  <2>1. HeapBase \in Nat
    BY MemoryAssumption
  <2>2. SegmentBp(HeapBase, k) \in Nat /\ SegmentBp(HeapBase, k) >= HeapBase + (frames[k].size - 1)
    BY <1>3, <2>1, SegmentLow
  <2> QED BY <2>2
<1>7. /\ IsSeq(frames) /\ IsMain(frames[N + 1])
      /\ \A k \in 1..N : FrameFor(img, frames[k], acts[(N + 1) - k])
  BY <1>2, <1>3 DEF Matches
<1> HIDE DEF N, acts, bp
<1>8. /\ frames' = [k \in 1..(N + 1) |-> frames'[k]]
      /\ \A k \in 1..N : frames'[k] = Placed(frames[k], bp[k])
      /\ frames'[N + 1] = frames[N + 1]
  BY <1>3, <1>5
<1>9. IsSeq(frames') /\ Len(frames') = N + 1
  <2>1. N + 1 \in Nat
    BY <1>3
  <2> QED BY <1>8, <2>1, FunctionIsSeq
<1>10. ASSUME NEW k \in 1..N
       PROVE  /\ FrameFor(img, frames'[k], acts[(N + 1) - k])
              /\ frames'[k].bp = bp[k] /\ frames'[k].size = frames[k].size
  <2>1. IsEntry(frames[k]) /\ frames'[k] = Placed(frames[k], bp[k])
    BY <1>7, <1>8 DEF FrameFor
  <2>2. /\ IsEntry(frames'[k]) /\ frames'[k].bp = bp[k]
        /\ frames'[k].size = frames[k].size /\ frames'[k].record = frames[k].record
        /\ frames'[k].real_record = frames[k].real_record
    BY <2>1, PlacedFrame
  <2> QED BY <1>7, <2>2 DEF FrameFor
<1>11. Matches(img, frames', acts)
  BY <1>3, <1>7, <1>8, <1>9, <1>10 DEF Matches
<1>12. PlacesOK(img, phys, frames', TRUE)
  <2>1. \A k \in 1..N : /\ frames'[k].bp \in Nat
                        /\ frames'[k].bp >= HeapBase + (frames'[k].size - 1)
    BY <1>6, <1>10
  <2>2. Len(frames') - 1 = N
    BY <1>3, <1>9
  <2> QED BY <2>1, <2>2 DEF PlacesOK
<1>13. SegmentOK(seg')
  <2>1. seg'.total_size = get_total_stack_size
    BY <1>1
  <2>2. get_total_stack_size \in Nat /\ MainBp + get_total_stack_size <= StackTop + 1
    BY <1>2, SegmentFits DEF acts
  <2> QED BY Zenon, <2>1, <2>2 DEF SegmentOK
<1>14. Supported(img') /\ PcInv' /\ OptInv'
  BY <1>1, <1>2 DEF PcInv, OptInv, HandlerPoints
<1>15. StackInv' /\ FailureInv' /\ CollectInv' /\ InlineInv' /\ FailInv'
  BY <1>1, <1>2, <1>4 DEF StackInv, FailureInv, CollectInv, InlineInv, FailInv
<1>16. MatchInv'
  BY <1>1, <1>11 DEF MatchInv, acts
<1>17. SegmentInv'
  <2>1. PlacesOK(img, phys, frames', inlined')
    BY <1>1, <1>2, <1>12 DEF PlacesOK
  <2> QED BY <1>1, <1>13, <2>1 DEF SegmentInv
<1>18. ASSUME HandlerInv PROVE HandlerInv'
  <2>1. HandlerOK(img, phys, cpu, mem, ret)
    BY <1>1, <1>18 DEF HandlerInv, HandlerPoints
  <2>2. \A x \in Stack : x <= Last(phys).bp - StackSize(img, Last(phys).fun) => mem'[x] = mem[x]
    <3>1. /\ Last(phys).bp \in Int /\ Last(phys).bp <= MainBp
          /\ StackSize(img, Last(phys).fun) \in Nat \ {0}
      BY <1>2, TopOK DEF TopFrame
    <3>2. MainBp \in Nat
      BY MemoryAssumption
    <3> QED BY <1>4, <3>1, <3>2 DEF Stack
  <2>3. HandlerOK(img, phys, cpu, mem', ret)
    BY <1>2, <2>1, <2>2, HandlerKept DEF HandlerOK
  <2> QED BY <1>1, <2>3 DEF HandlerInv
<1> QED BY <1>14, <1>15, <1>16, <1>17, <1>18 DEF IInv

-----------------------------------------------------------------------------
(***************************************************************************)
(* restore_unopt_stack.                                                    *)
(***************************************************************************)
\* The locations of frame k, before and after.
LEMMA FrameLocations ==
  ASSUME Supported(img), NEW acts, Matches(img, frames, acts), NEW k \in 1..Len(acts)
  PROVE  LET act == acts[(Len(acts) + 1) - k]
             id == IdAt(img, <<act.fun, act.at>>)
             unopt == stmap_get_map_record(img.sm, Negate(id))
         IN  /\ UnoptLocations(k) = img.sm.recs[unopt].locations
             /\ Len(OptLocations(k)) = Len(UnoptLocations(k))
             /\ \A j \in DirectLocations(UnoptLocations(k)) :
                  /\ UnoptLocations(k)[j].offset \in StackOffsets(img, unopt)
                  /\ UnoptLocations(k)[j].offset \in (1 - frames[k].size)..(-1)
             /\ frames[k].size = StackSize(img, act.fun)
             /\ frames[k].size \in Nat \ {0}
<1> DEFINE act == acts[(Len(acts) + 1) - k]
           s == <<act.fun, act.at>>
           id == IdAt(img, s)
           unopt == stmap_get_map_record(img.sm, Negate(id))
<1>1. FrameFor(img, frames[k], act)
  BY DEF Matches
<1>2. /\ act.fun \in DOMAIN img.prog.body
      /\ act.at \in 1..Len(img.prog.body[act.fun])
      /\ sm.recs[frames[k].record].patchpoint_id = id
      /\ frames[k].real_record \in 1..Len(sm.recs)
      /\ sm.recs[frames[k].real_record].patchpoint_id = id
      /\ frames[k].size = StackSize(img, act.fun)
  BY <1>1 DEF FrameFor, sm
<1>3. RecordOK(img, s) /\ s[1] = act.fun /\ FramesOK(img)
  BY <1>2 DEF Supported, RecordsOK
<1> HIDE DEF act, s
<1>4. UnoptLocations(k) = img.sm.recs[unopt].locations
  BY Zenon, <1>2 DEF UnoptLocations, LocationsOf, sm
<1>5. /\ StackOffsets(img, unopt) \subseteq (1 - StackSize(img, act.fun))..(-1)
      /\ \A i \in 1..Len(img.sm.recs) : img.sm.recs[i].patchpoint_id = id =>
           Len(img.sm.recs[i].locations) = Len(img.sm.recs[unopt].locations)
  BY <1>3 DEF RecordOK
<1> HIDE DEF unopt, id
<1>6. Len(OptLocations(k)) = Len(UnoptLocations(k))
  BY <1>2, <1>4, <1>5 DEF OptLocations, LocationsOf, sm
<1>7. \A j \in DirectLocations(UnoptLocations(k)) :
        UnoptLocations(k)[j].offset \in StackOffsets(img, unopt)
  BY <1>4 DEF DirectLocations, StackOffsets
<1>8. \A j \in DirectLocations(UnoptLocations(k)) :
        UnoptLocations(k)[j].offset \in (1 - frames[k].size)..(-1)
  BY <1>2, <1>5, <1>7
<1>9. frames[k].size \in Nat \ {0}
  BY <1>2, <1>3 DEF FramesOK
<1> QED BY Zenon, <1>2, <1>4, <1>6, <1>7, <1>8, <1>9 DEF unopt, id, s, act

\* get_locations keeps the invariant: the lists of locations have equal lengths.
LEMMA GetLocationsStep ==
  ASSUME IInv, get_locations
  PROVE  IInv' /\ (HandlerInv => HandlerInv')
<1> DEFINE acts == ActsIn(phys, Len(phys))
<1>1. /\ pc = "read" /\ idx' = 1
      /\ UNCHANGED <<img, calls, sm_id, ret, phys, mem, cpu, frames, copy, inlined, seg, r>>
  BY DEF get_locations, failVars
<1>2. /\ Supported(img) /\ StackOK(img, phys) /\ IsMem(mem)
      /\ FailureOK(img, phys, sm_id, ret)
      /\ Matches(img, frames, acts)
      /\ PlacesOK(img, phys, frames, inlined)
      /\ inlined => SegmentOK(seg)
  BY <1>1 DEF IInv, StackInv, FailureInv, MatchInv, SegmentInv, HandlerPoints
<1>3. LastIdx = Len(acts)
  BY <1>2, MatchedSizes
<1>4. \A k \in 1..LastIdx : Len(OptLocations(k)) = Len(UnoptLocations(k))
  BY <1>2, <1>3, FrameLocations
<1>5. pc' \in {"exited", "restore"}
  BY <1>4 DEF get_locations
<1>6. CASE pc' = "exited"
  <2>1. IInv'
    BY <1>1, <1>2, <1>6, RestState
  <2>2. HandlerInv'
    BY <1>6 DEF HandlerInv, HandlerPoints
  <2> QED BY <2>1, <2>2
<1>7. CASE pc' = "restore"
  <2>1. Supported(img') /\ PcInv' /\ OptInv'
    BY <1>1, <1>2, <1>7 DEF PcInv, OptInv, HandlerPoints
  <2>2. StackInv' /\ FailureInv' /\ CollectInv' /\ InlineInv' /\ FailInv'
    BY <1>1, <1>2, <1>7 DEF StackInv, FailureInv, CollectInv, InlineInv, FailInv
  <2>3. MatchInv' /\ SegmentInv'
    BY <1>1, <1>2, <1>7 DEF MatchInv, SegmentInv
  <2>4. HandlerInv => HandlerInv'
    BY <1>1 DEF HandlerInv, HandlerPoints
  <2> QED BY <2>1, <2>2, <2>3, <2>4 DEF IInv
<1> QED BY <1>5, <1>6, <1>7

\* The variables of frame k are written above the frame of the handler.
LEMMA SlotsAbove ==
  ASSUME Supported(img), StackOK(img, phys), Matches(img, frames, ActsIn(phys, Len(phys))),
         PlacesOK(img, phys, frames, inlined), inlined \/ FitsCallee(img),
         NEW k \in 1..LastIdx, NEW j \in DirectLocations(UnoptLocations(k)),
         NEW x \in Stack, x <= Last(phys).bp - StackSize(img, Last(phys).fun)
  PROVE  x # RestoreBase(k) + UnoptLocations(k)[j].offset
<1> DEFINE D == Len(phys)
           acts == ActsIn(phys, D)
           N == Len(acts)
           p == Last(phys)
           act == acts[(N + 1) - k]
           s == <<act.fun, act.at>>
           id == IdAt(img, s)
           unopt == stmap_get_map_record(img.sm, Negate(id))
           off == UnoptLocations(k)[j].offset
<1>1. LastIdx = N /\ Len(frames) = LastIdx + 1 /\ k \in 1..N /\ LastIdx \in Nat
  BY MatchedSizes DEF SizesKnown
<1>2. /\ off \in StackOffsets(img, unopt) /\ off \in (1 - frames[k].size)..(-1)
      /\ frames[k].size = StackSize(img, act.fun) /\ frames[k].size \in Nat \ {0}
  BY <1>1, FrameLocations
<1>3. /\ D \in Nat /\ D >= 1 /\ D \in 1..D /\ p = phys[D] /\ IsSeq(phys)
      /\ \A m \in 1..D : FrameOK(img, phys[m]) /\ ActsOK(img, phys[m].fun, phys[m].acts)
      /\ \A m \in 1..D : IsSeq(phys[m].acts) /\ Len(phys[m].acts) >= 1
  BY DEF StackOK, FrameOK, ActsOK, IsSeq, Last
<1>4. /\ p.bp \in Int /\ StackSize(img, p.fun) \in Nat \ {0}
      /\ \A m \in 1..D : phys[m].bp \in Int /\ StackSize(img, phys[m].fun) \in Nat \ {0}
  BY <1>3, StackRoom
<1>5. x \in Int /\ x <= StackTop /\ StackTop \in Nat /\ HeapBase \in Nat /\ HeapBase > StackTop
  BY MemoryAssumption DEF Stack
<1> HIDE DEF off, unopt
<1>6. CASE inlined
  <2>1. frames[k].bp \in Nat /\ frames[k].bp >= HeapBase + (frames[k].size - 1)
    <3>1. k \in 1..(Len(frames) - 1)
      BY <1>1
    <3> QED BY <1>6, <3>1 DEF PlacesOK
  <2>2. off \in Int /\ off >= 1 - frames[k].size
    BY <1>2
  <2>3. x # frames[k].bp + off
    BY <1>2, <1>5, <2>1, <2>2
  <2> QED BY <2>3 DEF RestoreBase, off
<1>7. CASE ~inlined
  <2>1. Single(phys, D) /\ frames[1].bp = p.bp
    BY <1>7 DEF PlacesOK
  <2>2. N = D /\ \A n \in 1..D : acts[n] = phys[n].acts[1] /\ Len(phys[n].acts) = 1
    <3>1. D \in 0..Len(phys)
      BY <1>3
    <3>2. Len(ActsIn(phys, D)) = D /\ \A n \in 1..D : ActsIn(phys, D)[n] = phys[n].acts[1]
      BY <1>3, <2>1, <3>1, SingleCount
    <3> QED BY <2>1, <3>2 DEF Single
  <2> HIDE DEF N, acts, D
  <2>3. CASE k = 1
    <3>1. act = phys[D].acts[1]
      BY <1>3, <2>2, <2>3
    <3>2. act.fun = p.fun
      BY <1>3, <3>1 DEF ActsOK
    <3>3. off \in Int /\ off >= 1 - StackSize(img, p.fun)
      <4>1. frames[k].size = StackSize(img, p.fun)
        BY <1>2, <3>2
      <4> QED BY <1>2, <4>1
    <3>4. x # p.bp + off
      BY <1>4, <1>5, <3>3
    <3> QED BY <2>1, <2>3, <3>4 DEF RestoreBase, off
  <2>4. CASE k # 1
    <3> DEFINE n == (D + 1) - k
               q == phys[n + 1]
    <3>1. /\ n \in 1..(D - 1) /\ n \in 1..D /\ n + 1 \in 1..D /\ k \in 2..D
          /\ (N + 1) - k = n /\ (D + 2) - k = n + 1
      BY <1>1, <1>3, <2>2, <2>4
    <3>2. act = phys[n].acts[1] /\ Len(phys[n].acts) = 1
      BY <2>2, <3>1
    <3>3. frames[k].bp = q.bp
      <4>1. frames[k].bp = phys[(D + 2) - k].bp
        BY <1>7, <3>1 DEF PlacesOK, D
      <4> QED BY <3>1, <4>1
    <3> HIDE DEF n
    <3>4. /\ phys[n].fun \in FunctionsRun(img)
          /\ Path(phys[n].acts) \in SitePaths(img, phys[n].fun)
          /\ Last(Path(phys[n].acts)) = SiteIn(phys[n])
          /\ Len(Path(phys[n].acts)) = Len(phys[n].acts)
          /\ SiteOf(img, Path(phys[n].acts)).kind = "call"
          /\ SiteOf(img, Path(phys[n].acts)).callee = q.fun
      BY <3>1, CallerSite DEF D
    <3>5. SiteIn(phys[n]) = s
      BY <3>2 DEF SiteIn, Last
    <3>6. StackOffsets(img, unopt) \subseteq (1 - StackSize(img, q.fun))..(-1)
      <4> DEFINE w == Path(phys[n].acts)
      <4>1. FitsCallee(img) /\ Len(w) = 1
        BY <1>7, <3>2, <3>4
      <4>2. unopt = stmap_get_map_record(img.sm, Negate(IdAt(img, Last(w))))
        BY Zenon, <3>4, <3>5 DEF unopt
      <4>3. StackOffsets(img, stmap_get_map_record(img.sm, Negate(IdAt(img, Last(w))))) \subseteq
              (1 - StackSize(img, SiteOf(img, w).callee))..(-1)
        <5> HIDE DEF w
        <5> QED BY <3>4, <4>1 DEF FitsCallee, w
      <4>4. SiteOf(img, w).callee = q.fun
        BY <3>4
      <4> QED BY Zenon, <4>2, <4>3, <4>4
    <3>7. /\ q.bp \in Int /\ StackSize(img, q.fun) \in Nat
          /\ p.bp - StackSize(img, p.fun) <= q.bp - StackSize(img, q.fun)
      <4>1. q.bp \in Int /\ StackSize(img, q.fun) \in Nat \ {0}
        BY <1>4, <3>1
      <4>2. CASE n + 1 = D
        BY <1>3, <1>4, <4>1, <4>2
      <4>3. CASE n + 1 # D
        <5> DEFINE m == n + 1
        <5>1. m \in 1..(D - 1) /\ m + 1 \in 1..D /\ m + 1 <= D
          BY <1>3, <3>1, <4>3
        <5> HIDE DEF m
        <5>2. phys[m + 1].bp = phys[m].bp - StackSize(img, phys[m].fun) - 1
          BY <5>1 DEF StackOK, CallsFrame, D
        <5>3. phys[D].bp <= phys[m + 1].bp
          BY <1>3, <5>1 DEF StackOK, D
        <5>4. phys[m + 1].bp = q.bp - StackSize(img, q.fun) - 1
          BY <5>2 DEF m
        <5>5. phys[m + 1].bp \in Int
          BY <1>4, <5>1
        <5> HIDE DEF q
        <5> QED BY <1>3, <1>4, <4>1, <5>3, <5>4, <5>5
      <4> QED BY <4>1, <4>2, <4>3
    <3> HIDE DEF q
    <3>8. off \in Int /\ off >= 1 - StackSize(img, q.fun)
      BY <1>2, <3>6, <3>7
    <3>9. x # q.bp + off
      BY <1>4, <1>5, <3>7, <3>8
    <3> QED BY <3>3, <3>9 DEF RestoreBase, off
  <2> QED BY <2>3, <2>4
<1> QED BY <1>6, <1>7

WithRegisters(fr, g) == [fr EXCEPT !.registers = g]

\* A frame with other registers.
LEMMA RegistersSet ==
  ASSUME NEW fr, IsEntry(fr), NEW g
  PROVE  /\ IsEntry(WithRegisters(fr, g))
         /\ WithRegisters(fr, g).size = fr.size /\ WithRegisters(fr, g).bp = fr.bp
         /\ WithRegisters(fr, g).record = fr.record
         /\ WithRegisters(fr, g).real_record = fr.real_record
<1> DEFINE h == WithRegisters(fr, g)
<1>1. h = [ret_addr |-> fr.ret_addr, stored_ret_addr |-> fr.stored_ret_addr,
           size |-> fr.size, bp |-> fr.bp, real_bp |-> fr.real_bp,
           registers |-> g, record |-> fr.record,
           real_record |-> fr.real_record, inlined |-> fr.inlined]
  BY DEF IsEntry, WithRegisters
<1> HIDE DEF h
<1> QED BY <1>1 DEF IsEntry, h

\* restore_unopt_stack, for one frame, keeps the invariant, and the frame of the
\* handler when the variables fit in the frame of the callee.
LEMMA RestoreStep ==
  ASSUME IInv, RestoreFrame
  PROVE  IInv' /\ (HandlerInv => HandlerInv')
<1> DEFINE acts == ActsIn(phys, Len(phys))
           N == Len(acts)
           loc == UnoptLocations(idx)
           slot == [j \in DirectLocations(loc) |-> RestoreBase(idx) + loc[j].offset]
           written == [a \in {slot[j] : j \in DOMAIN slot} |->
                        locs[idx][CHOOSE j \in DOMAIN slot : slot[j] = a]]
           inRegister == OfKind(loc, "register")
           g == [d \in RegNums |->
                  IF \E j \in inRegister : loc[j].offset = d
                  THEN locs[idx][CHOOSE j \in inRegister : loc[j].offset = d]
                  ELSE frames[idx].registers[d]]
<1>1. /\ pc = "restore" /\ idx <= LastIdx /\ idx' = idx + 1
      /\ mem' = Write(mem, written)
      /\ pc' \in {"exited", "restore"}
      /\ UNCHANGED <<img, calls, sm_id, ret, phys, cpu, copy, inlined, locs, seg, r>>
  BY DEF RestoreFrame, failVars
<1>2. /\ Supported(img) /\ StackOK(img, phys) /\ IsMem(mem)
      /\ FailureOK(img, phys, sm_id, ret)
      /\ Matches(img, frames, acts)
      /\ PlacesOK(img, phys, frames, inlined)
      /\ inlined => SegmentOK(seg)
      /\ idx \in Nat \ {0}
  BY <1>1 DEF IInv, StackInv, FailureInv, MatchInv, SegmentInv, HandlerPoints
<1>3. /\ LastIdx = N /\ N \in Nat /\ Len(frames) = N + 1 /\ idx \in 1..N
      /\ idx \in 1..(N + 1) /\ IsSeq(frames)
  <2>1. LastIdx = N /\ LastIdx \in Nat /\ Len(frames) = LastIdx + 1
    BY <1>2, MatchedSizes DEF SizesKnown
  <2> QED BY <1>1, <1>2, <2>1 DEF Matches
<1>4. IsMem(mem') /\ \A x \in Stack : x \notin DOMAIN written => mem'[x] = mem[x]
  <2> HIDE DEF written
  <2>1. /\ IsMem(Write(mem, written))
        /\ \A x \in Stack \cup Heap : x \notin DOMAIN written => Write(mem, written)[x] = mem[x]
    BY <1>2, MemWrite
  <2> QED BY <1>1, <2>1
<1>5. CASE pc' = "exited"
  <2>1. IInv'
    BY <1>1, <1>2, <1>5, RestState
  <2>2. HandlerInv'
    BY <1>5 DEF HandlerInv, HandlerPoints
  <2> QED BY <2>1, <2>2
<1>6. CASE pc' = "restore"
  <2> DEFINE fr == WithRegisters(frames[idx], frames'[idx].registers)
  <2>1. frames' = Changed(frames, idx, fr)
    <3>1. frames' = [frames EXCEPT ![idx].registers =
                        [d \in RegNums |->
                          IF \E j \in inRegister : loc[j].offset = d
                          THEN locs[idx][CHOOSE j \in inRegister : loc[j].offset = d]
                          ELSE @[d]]]
      BY Zenon DEF RestoreFrame
    <3> DEFINE G == [d \in RegNums |->
                      IF \E j \in inRegister : loc[j].offset = d
                      THEN locs[idx][CHOOSE j \in inRegister : loc[j].offset = d]
                      ELSE frames[idx].registers[d]]
               e == WithRegisters(frames[idx], G)
    <3>2. frames' = Changed(frames, idx, e)
      BY Zenon, <3>1 DEF Changed, WithRegisters
    <3> HIDE DEF G
    <3>3. IsEntry(frames[idx])
      BY <1>2, <1>3 DEF Matches, FrameFor
    <3>4. e.registers = G
      BY <3>3 DEF WithRegisters, IsEntry
    <3> HIDE DEF e
    <3>5. frames'[idx] = e
      BY <1>3, <3>2, ElementChanged
    <3>6. frames'[idx].registers = G
      BY Zenon, <3>4, <3>5
    <3> QED BY Zenon, <3>2, <3>6 DEF e
  <2> HIDE DEF fr
  <2>2. /\ IsSeq(frames') /\ Len(frames') = N + 1 /\ frames'[idx] = fr
        /\ \A k \in 1..(N + 1) : k # idx => frames'[k] = frames[k]
    BY <1>3, <2>1, ElementChanged
  <2> HIDE DEF acts, N
  <2>3. ASSUME NEW k \in 1..(N + 1)
        PROVE  /\ k <= N => FrameFor(img, frames'[k], acts[(N + 1) - k])
               /\ frames'[k].bp = frames[k].bp
               /\ k <= N => frames'[k].size = frames[k].size
    <3>1. k <= N => k \in 1..N
      BY <1>3
    <3>2. k <= N => FrameFor(img, frames[k], acts[(N + 1) - k])
      BY <1>2, <3>1 DEF Matches, acts, N
    <3>3. CASE k = idx
      <4>1. FrameFor(img, frames[k], acts[(N + 1) - k]) /\ IsEntry(frames[k])
        BY <1>1, <1>3, <3>2, <3>3 DEF FrameFor
      <4>2. /\ IsEntry(fr) /\ fr.size = frames[k].size /\ fr.bp = frames[k].bp
            /\ fr.record = frames[k].record /\ fr.real_record = frames[k].real_record
        BY <3>3, <4>1, RegistersSet DEF fr
      <4> QED BY <2>2, <3>3, <4>1, <4>2 DEF FrameFor
    <3>4. CASE k # idx
      BY <2>2, <3>2, <3>4
    <3> QED BY <3>3, <3>4
  <2>4. Matches(img, frames', acts)
    <3>1. IsMain(frames'[N + 1])
      <4>1. N + 1 # idx /\ N + 1 \in 1..(N + 1)
        BY <1>3
      <4>2. frames'[N + 1] = frames[N + 1]
        BY <2>2, <4>1
      <4> QED BY <1>2, <4>2 DEF Matches, N
    <3>2. \A k \in 1..N : k \in 1..(N + 1) /\ k <= N
      BY <1>3
    <3>3. \A k \in 1..N : FrameFor(img, frames'[k], acts[(N + 1) - k])
      BY <2>3, <3>2
    <3> QED BY <2>2, <3>1, <3>3 DEF Matches, N
  <2>5. PlacesOK(img, phys, frames', inlined)
    <3>1. CASE inlined
      <4>1. \A k \in 1..N : k \in 1..(N + 1) /\ k <= N /\ k \in 1..(Len(frames) - 1)
        BY <1>3
      <4>2. \A k \in 1..N : /\ frames'[k].bp \in Nat
                            /\ frames'[k].bp >= HeapBase + (frames'[k].size - 1)
        BY <1>2, <2>3, <3>1, <4>1 DEF PlacesOK
      <4>3. Len(frames') - 1 = N
        BY <1>3, <2>2
      <4> QED BY <3>1, <4>2, <4>3 DEF PlacesOK
    <3>2. CASE ~inlined
      <4>1. /\ Single(phys, Len(phys)) /\ frames[1].bp = Last(phys).bp
            /\ \A k \in 2..Len(phys) : frames[k].bp = phys[(Len(phys) + 2) - k].bp
        BY <1>2, <3>2 DEF PlacesOK
      <4>2. Len(phys) = N /\ Len(phys) \in Nat
        <5>1. /\ IsSeq(phys) /\ Len(phys) >= 1 /\ Len(phys) \in 0..Len(phys)
              /\ \A k \in 1..Len(phys) : IsSeq(phys[k].acts) /\ Len(phys[k].acts) >= 1
          BY <1>2 DEF StackOK, FrameOK, ActsOK, IsSeq
        <5> QED BY <4>1, <5>1, SingleCount DEF N, acts, IsSeq
      <4>3. 1 \in 1..(N + 1) /\ \A k \in 2..Len(phys) : k \in 1..(N + 1)
        BY <1>3, <4>2
      <4>4. frames'[1].bp = frames[1].bp
        BY <2>3, <4>3
      <4>5. \A k \in 2..Len(phys) : frames'[k].bp = frames[k].bp
        BY <2>3, <4>3
      <4> QED BY <3>2, <4>1, <4>4, <4>5 DEF PlacesOK
    <3> QED BY <3>1, <3>2
  <2>6. Supported(img') /\ PcInv' /\ OptInv'
    BY <1>1, <1>2, <1>6 DEF PcInv, OptInv, HandlerPoints
  <2>7. StackInv' /\ FailureInv' /\ CollectInv' /\ InlineInv' /\ FailInv'
    BY <1>1, <1>2, <1>4, <1>6 DEF StackInv, FailureInv, CollectInv, InlineInv, FailInv
  <2>8. MatchInv'
    BY <1>1, <1>6, <2>4 DEF MatchInv, acts
  <2>9. SegmentInv'
    <3>1. PlacesOK(img', phys', frames', inlined') /\ (inlined' => SegmentOK(seg'))
      BY Zenon, <1>1, <1>2, <2>5
    <3>2. idx' \in Nat \ {0}
      BY <1>1, <1>2
    <3> QED BY <1>6, <3>1, <3>2 DEF SegmentInv
  <2>10. ASSUME HandlerInv, inlined \/ FitsCallee(img)
         PROVE  HandlerOK(img, phys, cpu, mem', ret)
    <3>1. HandlerOK(img, phys, cpu, mem, ret)
      BY <1>1, <2>10 DEF HandlerInv, HandlerPoints
    <3>2. ASSUME NEW x \in Stack, x <= Last(phys).bp - StackSize(img, Last(phys).fun)
          PROVE  mem'[x] = mem[x]
      <4>1. \A j \in DirectLocations(loc) : x # RestoreBase(idx) + loc[j].offset
        BY <1>2, <1>3, <2>10, <3>2, SlotsAbove DEF acts
      <4>2. x \notin DOMAIN written
        BY <4>1
      <4> QED BY <1>4, <4>2
    <3> QED BY <1>2, <3>1, <3>2, HandlerKept DEF HandlerOK
  <2>11. HandlerInv => HandlerInv'
    BY <1>1, <1>6, <2>10 DEF HandlerInv
  <2> QED BY <2>6, <2>7, <2>8, <2>9, <2>11 DEF IInv
<1> QED BY <1>1, <1>5, <1>6

CpuAt(c, rip, rsp) == [c EXCEPT !.rip = rip, !.rsp = rsp]

\* Setting rip and rsp leaves rbp alone.
LEMMA CpuSet ==
  ASSUME NEW c, IsCpu(c), NEW rip, NEW rsp
  PROVE  /\ IsCpu(CpuAt(c, rip, rsp)) /\ CpuAt(c, rip, rsp).rbp = c.rbp
         /\ IsCpu([c EXCEPT !.rsp = rsp]) /\ [c EXCEPT !.rsp = rsp].rbp = c.rbp
<1> DEFINE c1 == [c EXCEPT !.rip = rip]
           c2 == [c1 EXCEPT !.rsp = rsp]
           c3 == [c EXCEPT !.rsp = rsp]
<1>1. c1 = [rip |-> rip, rbp |-> c.rbp, rsp |-> c.rsp, regs |-> c.regs]
  BY DEF IsCpu
<1>2. CpuAt(c, rip, rsp) = c2
  BY Zenon DEF CpuAt
<1> HIDE DEF c1
<1>3. c2 = [rip |-> rip, rbp |-> c.rbp, rsp |-> rsp, regs |-> c.regs]
  BY <1>1
<1>4. c3 = [rip |-> c.rip, rbp |-> c.rbp, rsp |-> rsp, regs |-> c.regs]
  BY DEF IsCpu
<1> HIDE DEF c2, c3
<1>5. IsCpu(c2) /\ c2.rbp = c.rbp
  BY <1>3 DEF IsCpu
<1>6. IsCpu(c3) /\ c3.rbp = c.rbp
  BY <1>4 DEF IsCpu
<1> QED BY <1>2, <1>5, <1>6 DEF c3

-----------------------------------------------------------------------------
(***************************************************************************)
(* restore_register_state and the jumps.                                   *)
(***************************************************************************)
LEMMA RegisterStateStep ==
  ASSUME IInv, restore_register_state
  PROVE  IInv' /\ (HandlerInv => HandlerInv')
<1> DEFINE rip == AddrOf(sm, stmap_get_map_record(sm, Negate(sm_id)))
           rsp == IF inlined THEN cpu.rsp - JumpFrame ELSE cpu.rsp
<1>1. /\ pc = "restore"
      /\ pc' = IF inlined THEN "jump_inlined" ELSE "jmp_to_addr"
      /\ UNCHANGED <<img, calls, sm_id, ret, phys, mem, frames, copy, idx, inlined, locs, seg>>
  BY DEF restore_register_state, failVars
<1>2. cpu' = CpuAt(cpu, rip, rsp)
  BY Zenon DEF restore_register_state, CpuAt
<1>3. /\ Supported(img) /\ StackOK(img, phys) /\ IsMem(mem)
      /\ FailureOK(img, phys, sm_id, ret)
      /\ Matches(img, frames, ActsIn(phys, Len(phys)))
      /\ inlined => SegmentOK(seg)
  BY <1>1 DEF IInv, StackInv, FailureInv, MatchInv, SegmentInv, HandlerPoints
<1>4. pc' \in {"jump_inlined", "jmp_to_addr"} /\ (pc' = "jump_inlined" => inlined)
  BY <1>1
<1>5. Supported(img') /\ PcInv' /\ OptInv'
  BY <1>1, <1>3, <1>4 DEF PcInv, OptInv, HandlerPoints
<1>6. StackInv' /\ FailureInv' /\ CollectInv' /\ InlineInv' /\ FailInv'
  BY <1>1, <1>3, <1>4 DEF StackInv, FailureInv, CollectInv, InlineInv, FailInv
<1>7. MatchInv'
  BY <1>1, <1>3, <1>4 DEF MatchInv
<1>8. SegmentInv'
  BY <1>1, <1>3, <1>4 DEF SegmentInv
<1>9. ASSUME HandlerInv, inlined \/ FitsCallee(img)
      PROVE  HandlerOK(img, phys, cpu', mem, ret)
  <2>1. HandlerOK(img, phys, cpu, mem, ret)
    BY <1>1, <1>9 DEF HandlerInv, HandlerPoints
  <2> HIDE DEF rip, rsp
  <2>2. IsCpu(cpu') /\ cpu'.rbp = cpu.rbp
    BY Zenon, <1>2, <2>1, CpuSet DEF HandlerOK
  <2> QED BY <2>1, <2>2 DEF HandlerOK
<1>10. HandlerInv => HandlerInv'
  BY <1>1, <1>4, <1>9 DEF HandlerInv
<1> QED BY <1>5, <1>6, <1>7, <1>8, <1>10 DEF IInv

\* jmp_to_addr ends the handler.
LEMMA JmpStep ==
  ASSUME IInv, jmp_to_addr
  PROVE  IInv' /\ HandlerInv'
<1>1. pc' = "unopt" /\ phys' = <<>> /\ img' = img
  BY DEF jmp_to_addr, Resume
<1>2. Supported(img)
  BY DEF IInv
<1>3. IInv'
  BY <1>1, <1>2, RestState
<1>4. HandlerInv'
  BY <1>1 DEF HandlerInv, HandlerPoints
<1> QED BY <1>3, <1>4

\* jump_inlined keeps the invariant when it calls itself.
LEMMA GrowStep ==
  ASSUME IInv, GrowStack
  PROVE  IInv' /\ (HandlerInv => HandlerInv')
<1>1. /\ pc = "jump_inlined"
      /\ cpu' = [cpu EXCEPT !.rsp = cpu.rsp - JumpFrame]
      /\ pc' \in {"jump_inlined", "overflow"}
      /\ UNCHANGED <<img, calls, sm_id, ret, phys, mem>>
      /\ UNCHANGED handlerVars
  BY DEF GrowStack, failVars
<1>2. /\ Supported(img) /\ StackOK(img, phys) /\ IsMem(mem)
      /\ FailureOK(img, phys, sm_id, ret)
      /\ Matches(img, frames, ActsIn(phys, Len(phys)))
      /\ SegmentOK(seg)
  BY <1>1 DEF IInv, StackInv, FailureInv, MatchInv, SegmentInv, HandlerPoints
<1>3. CASE pc' = "overflow"
  <2>1. IInv'
    BY <1>1, <1>2, <1>3, RestState
  <2>2. HandlerInv'
    BY <1>3 DEF HandlerInv, HandlerPoints
  <2> QED BY <2>1, <2>2
<1>4. CASE pc' = "jump_inlined"
  <2>1. UNCHANGED <<frames, seg, inlined>>
    BY <1>1 DEF handlerVars
  <2>2. Supported(img') /\ PcInv' /\ OptInv'
    BY <1>1, <1>2, <1>4 DEF PcInv, OptInv, HandlerPoints
  <2>3. StackInv' /\ FailureInv' /\ CollectInv' /\ InlineInv' /\ FailInv'
    BY <1>1, <1>2, <1>4 DEF StackInv, FailureInv, CollectInv, InlineInv, FailInv
  <2>4. MatchInv' /\ SegmentInv'
    BY <1>1, <1>2, <1>4, <2>1 DEF MatchInv, SegmentInv
  <2>5. ASSUME HandlerInv, inlined \/ FitsCallee(img)
        PROVE  HandlerOK(img, phys, cpu', mem, ret)
    <3>1. HandlerOK(img, phys, cpu, mem, ret)
      BY <1>1, <2>5 DEF HandlerInv, HandlerPoints
    <3>2. IsCpu(cpu') /\ cpu'.rbp = cpu.rbp
      BY <1>1, <3>1, CpuSet DEF HandlerOK
    <3> QED BY <3>1, <3>2 DEF HandlerOK
  <2>6. HandlerInv => HandlerInv'
    BY <1>1, <1>4, <2>1, <2>5 DEF HandlerInv
  <2> QED BY <2>2, <2>3, <2>4, <2>6 DEF IInv
<1> QED BY <1>1, <1>3, <1>4

\* The segment fits on the stack, so jump_inlined ends the handler.
LEMMA JumpInlinedStep ==
  ASSUME IInv, jump_inlined
  PROVE  IInv' /\ HandlerInv'
<1>1. pc = "jump_inlined"
  BY DEF jump_inlined
<1>2. /\ Supported(img) /\ StackOK(img, phys)
      /\ Matches(img, frames, ActsIn(phys, Len(phys)))
      /\ SegmentOK(seg)
  BY <1>1 DEF IInv, StackInv, MatchInv, SegmentInv, HandlerPoints
<1>3. main_bp_of_state = MainBp
  <2>1. IsMain(frames[Len(frames)])
    BY <1>2, MatchedSizes
  <2> QED BY <2>1 DEF IsMain, main_bp_of_state
<1>4. main_bp_of_state..(main_bp_of_state + seg.total_size - 1) \subseteq Stack
  <2>1. MainBp \in Nat /\ MainBp >= 1 /\ StackTop \in Nat
    BY MemoryAssumption
  <2> QED BY <1>2, <1>3, <2>1 DEF SegmentOK, Stack
<1>5. pc' = "unopt" /\ phys' = <<>> /\ img' = img
  BY <1>4 DEF jump_inlined, Resume
<1>6. IInv'
  BY <1>2, <1>5, RestState
<1>7. HandlerInv'
  BY <1>5 DEF HandlerInv, HandlerPoints
<1> QED BY <1>6, <1>7

-----------------------------------------------------------------------------
(***************************************************************************)
(* The program starts with the frame of main.                              *)
(***************************************************************************)
\* A stack that has only the frame of main.
LEMMA MainAlone ==
  ASSUME NEW b, NEW ph, IsSeq(ph), Len(ph) = 1, FrameOK(b, ph[1]),
         ph[1].fun = "main", ph[1].bp = MainBp, Len(ph[1].acts) = 1
  PROVE  StackOK(b, ph)
<1>1. \A k \in 1..Len(ph) : FrameOK(b, ph[k])
  OBVIOUS
<1>2. \A k \in 1..Len(ph) : IsSeq(ph[k].acts) /\ Len(ph[k].acts) >= 1
  BY <1>1 DEF FrameOK, ActsOK
<1>3. 1 \in 0..Len(ph) /\ Len(ph) >= 1 /\ Single(ph, 1)
  BY DEF Single
<1>4. Len(ActsIn(ph, 1)) = 1
  BY <1>2, <1>3, SingleCount
<1>5. Len(ActsIn(ph, Len(ph))) <= MaxDepth
  <2>1. Len(ActsIn(ph, Len(ph))) = 1
    BY Zenon, <1>4
  <2>2. 1 <= MaxDepth
    BY MemoryAssumption
  <2> QED BY <2>1, <2>2
<1>6. \A m \in 1..(Len(ph) - 1) : CallsFrame(b, ph[m], ph[m + 1])
  OBVIOUS
<1>7. \A m, n \in 1..Len(ph) : m <= n => ph[n].bp <= ph[m].bp
  BY MemoryAssumption
<1> QED BY <1>1, <1>3, <1>5, <1>6, <1>7 DEF StackOK

\* The invariant holds in the initial states.
LEMMA InitIInv ==
  ASSUME Init, Supported(img)
  PROVE  IInv /\ HandlerInv
<1> DEFINE p == NewFrame("main", 0, MainBp, InitialRegs)
           a == NewAct("main", 0)
           blank == [x \in Stack \cup Heap |-> Junk]
           f == Slots("main", MainBp, phys[1].acts)
           y == MainBp
           y1 == MainBp + ADDR_SIZE
           m2 == [Write(blank, f) EXCEPT ![y] = LibcBp, ![y1] = LibcRet]
           c == [rip |-> 0, rbp |-> 0, rsp |-> 0, regs |-> InitialRegs]
<1>1. pc = "opt" /\ phys = <<p>> /\ mem = m2 /\ cpu = c /\ inlined = FALSE
  BY DEF Init, InitMachine
<1>2. IsRegs(InitialRegs)
  <2>1. \A d \in RegNums : InitialRegs[d] = 2000 + d
    BY DEF InitialRegs
  <2> QED BY <2>1 DEF IsRegs, InitialRegs
<1>3. ProgramOK(img) /\ "main" \in FunctionsRun(img) /\ MainBp \in Int
  BY MainRuns, MemoryAssumption DEF Supported
<1>4. FrameOK(img, p) /\ p.fun = "main" /\ p.bp = MainBp /\ p.acts = <<a>>
  <2> DEFINE f0 == "main"
             n0 == 0
             q == NewFrame(f0, n0, MainBp, InitialRegs)
  <2>1. f0 \in FunctionsRun(img)
    BY <1>3
  <2> HIDE DEF f0, n0
  <2>2. FrameOK(img, q) /\ q.fun = f0 /\ q.bp = MainBp /\ q.acts = <<NewAct(f0, n0)>>
    <3>1. FrameOK(img, q)
      BY <1>2, <1>3, <2>1, NewFrameOK
    <3>2. q.fun = f0 /\ q.bp = MainBp /\ q.acts = <<NewAct(f0, n0)>>
      BY DEF NewFrame
    <3> QED BY <3>1, <3>2
  <2> QED BY Zenon, <2>2 DEF f0, n0
<1> HIDE DEF p, a
<1>5. IsSeq(phys) /\ Len(phys) = 1 /\ phys[1] = p /\ Len(p.acts) = 1
  BY <1>1, <1>4, TupleIsSeq
<1>6. StackOK(img, phys)
  BY <1>4, <1>5, MainAlone
<1>7. IsMem(mem)
  <2>1. IsMem(blank)
    <3>1. \A x \in Stack \cup Heap : blank[x] = Junk
      OBVIOUS
    <3>2. blank = [x \in Stack \cup Heap |-> blank[x]]
      BY <3>1
    <3> QED BY Zenon, <3>2 DEF IsMem
  <2> HIDE DEF blank, f
  <2>2. IsMem(Write(blank, f))
    BY <2>1, MemWrite
  <2> DEFINE m1 == [Write(blank, f) EXCEPT ![y] = LibcBp]
             m3 == [m1 EXCEPT ![y1] = LibcRet]
  <2> HIDE DEF y, y1
  <2>3. IsMem(m1)
    BY Zenon, <2>2, MemExcept
  <2> HIDE DEF m1
  <2>4. IsMem(m3)
    BY Zenon, <2>3, MemExcept
  <2>5. m2 = m3
    BY DEF m1
  <2> QED BY Zenon, <1>1, <2>4, <2>5
<1> HIDE DEF m2
<1>8. IsCpu(cpu)
  BY <1>1 DEF IsCpu
<1>9. ReturnsOK(img, phys, mem)
  BY <1>5 DEF ReturnsOK
<1>10. PcInv /\ StackInv /\ OptInv
  BY <1>1, <1>6, <1>7, <1>8, <1>9 DEF PcInv, StackInv, OptInv
<1>11. FailureInv /\ HandlerInv
  BY <1>1 DEF FailureInv, HandlerInv, HandlerPoints
<1>12. CollectInv /\ InlineInv /\ FailInv /\ MatchInv /\ SegmentInv
  BY <1>1 DEF CollectInv, InlineInv, FailInv, MatchInv, SegmentInv
<1> QED BY <1>10, <1>11, <1>12 DEF IInv

-----------------------------------------------------------------------------
(***************************************************************************)
(* The invariant, one step for each action.                                *)
(***************************************************************************)
\* Optimized code runs outside of the handler.
LEMMA OptStepOutside ==
  ASSUME OptStep
  PROVE  HandlerInv'
<1>1. CASE OptCall
  BY <1>1 DEF OptCall, AtOptSite, HandlerInv, HandlerPoints
<1>2. CASE OptInlinedCall
  BY <1>2 DEF OptInlinedCall, AtOptSite, HandlerInv, HandlerPoints
<1>3. CASE OptBranch
  BY <1>3 DEF OptBranch, AtOptSite, HandlerInv, HandlerPoints
<1>4. CASE OptReturn
  <2>1. pc' \in {"opt", "done"}
    BY <1>4 DEF OptReturn
  <2> QED BY <2>1 DEF HandlerInv, HandlerPoints
<1> QED BY <1>1, <1>2, <1>3, <1>4 DEF OptStep

\* The invariant depends on nothing but the state.
LEMMA StutterStep ==
  ASSUME IInv, UNCHANGED vars
  PROVE  IInv' /\ (HandlerInv => HandlerInv')
<1>1. UNCHANGED <<img, pc, phys, mem, cpu, sm_id, ret>>
  BY DEF vars, machineVars, failVars
<1>2. UNCHANGED <<frames, copy, idx, inlined, seg>>
  BY DEF vars, handlerVars
<1>3. Supported(img)' /\ PcInv' /\ StackInv' /\ OptInv'
  BY <1>1, <1>2 DEF IInv, PcInv, StackInv, OptInv
<1>4. FailureInv' /\ CollectInv'
  BY <1>1, <1>2 DEF IInv, FailureInv, CollectInv
<1>5. InlineInv'
  BY <1>1, <1>2 DEF IInv, InlineInv
<1>6. FailInv' /\ MatchInv' /\ SegmentInv'
  BY <1>1, <1>2 DEF IInv, FailInv, MatchInv, SegmentInv
<1>7. HandlerInv => HandlerInv'
  BY <1>1, <1>2 DEF HandlerInv
<1> QED BY <1>3, <1>4, <1>5, <1>6, <1>7 DEF IInv

\* Every step keeps the invariant.
LEMMA NextIInv ==
  ASSUME IInv, HandlerInv, [Next]_vars
  PROVE  IInv' /\ HandlerInv'
<1>1. CASE OptStep /\ UNCHANGED <<failVars, handlerVars>>
  <2>1. CASE OptCall
    BY Zenon, <1>1, <2>1, OptCallStep, OptStepOutside
  <2>2. CASE OptInlinedCall
    BY Zenon, <1>1, <2>2, OptInlinedCallStep, OptStepOutside
  <2>3. CASE OptBranch
    BY Zenon, <1>1, <2>3, OptBranchStep, OptStepOutside
  <2>4. CASE OptReturn
    BY Zenon, <1>1, <2>4, OptReturnStep, OptStepOutside
  <2> QED BY Zenon, <1>1, <2>1, <2>2, <2>3, <2>4 DEF OptStep
<1>2. CASE UnoptStep
  <2>1. IInv'
    BY Zenon, <1>2, UnoptStepRests
  <2>2. pc' \in {"unopt", "done", "crashed"}
    BY <1>2 DEF UnoptStep, UnoptAdvance, UnoptReturn, UnoptCall, AtUnoptSite
  <2>3. HandlerInv'
    BY <2>2 DEF HandlerInv, HandlerPoints
  <2> QED BY <2>1, <2>3
<1>3. CASE GuardFailure
  <2>1. IInv'
    BY Zenon, <1>3, GuardFailureStep
  <2>2. HandlerOK(img, phys, cpu', mem', ret') /\ UNCHANGED <<img, phys>>
    BY Zenon, <1>3, FailureState
  <2>3. HandlerInv'
    BY <2>2 DEF HandlerInv
  <2> QED BY <2>1, <2>3
<1>4. CASE collect_map_records
  BY Zenon, <1>4, CollectStep
<1>5. CASE CollectMapRecordsEnd
  BY Zenon, <1>5, CollectEndStep
<1>6. CASE collect_inlined_frames
  BY Zenon, <1>6, InlineStep
<1>7. CASE CollectInlinedFramesEnd
  BY Zenon, <1>7, InlineEndStep
<1>8. CASE InsertFailFrame
  BY Zenon, <1>8, InsertFailStep
<1>9. CASE BuildSegment
  BY Zenon, <1>9, BuildStep
<1>10. CASE get_locations
  BY Zenon, <1>10, GetLocationsStep
<1>11. CASE RestoreFrame
  BY Zenon, <1>11, RestoreStep
<1>12. CASE restore_register_state
  BY Zenon, <1>12, RegisterStateStep
<1>13. CASE jmp_to_addr
  BY Zenon, <1>13, JmpStep
<1>14. CASE GrowStack
  BY Zenon, <1>14, GrowStep
<1>15. CASE jump_inlined
  BY Zenon, <1>15, JumpInlinedStep
<1>16. CASE UNCHANGED vars
  BY Zenon, <1>16, StutterStep
<1>17. CASE HandlerStep
  BY Zenon, <1>4, <1>5, <1>6, <1>7, <1>8, <1>9, <1>10, <1>11, <1>12, <1>13, <1>14,
     <1>15, <1>17 DEF HandlerStep
<1> QED BY Zenon, <1>1, <1>2, <1>3, <1>16, <1>17 DEF Next, ProgramStep, Ended

\* The invariant holds in every reachable state of a supported binary.
THEOREM Invariance == Spec /\ Supported(img) => [](IInv /\ HandlerInv)
<1>1. Init /\ Supported(img) => IInv /\ HandlerInv
  BY InitIInv
<1>2. (IInv /\ HandlerInv) /\ [Next]_vars => (IInv /\ HandlerInv)'
  BY NextIInv
<1> QED BY <1>1, <1>2, PTL DEF Spec

-----------------------------------------------------------------------------
(***************************************************************************)
(* What the invariant says.                                                *)
(***************************************************************************)
\* Frames that match the activations match them in the order of the property.
LEMMA MatchesActivations ==
  ASSUME Supported(img), StackOK(img, phys), Matches(img, frames, ActsIn(phys, Len(phys)))
  PROVE  /\ LastIdx = Len(Activations)
         /\ \A k \in 1..LastIdx :
              /\ sm.recs[frames[k].record].patchpoint_id =
                   PatchpointId(img.prog, Activations[k].fun, Activations[k].at)
              /\ frames[k].size = StackSize(img, Activations[k].fun)
<1> DEFINE acts == ActsIn(phys, Len(phys))
           N == Len(acts)
<1>1. LastIdx = N /\ N \in Nat
  <2>1. LastIdx = N
    BY MatchedSizes
  <2>2. Len(phys) \in Nat /\ \A k \in 1..Len(phys) : IsSeq(phys[k].acts)
    BY DEF StackOK, FrameOK, ActsOK, IsSeq
  <2>3. IsSeq(acts)
    BY <2>2, ActsInSeq
  <2> QED BY <2>1, <2>3 DEF IsSeq
<1>2. \A k \in 1..N : FrameFor(img, frames[k], acts[(N + 1) - k])
  BY DEF Matches
<1>3. Activations = Reverse(acts)
  BY DEF Activations, ActsIn
<1> HIDE DEF acts
<1>4. Activations = [k \in 1..N |-> acts[(N - k) + 1]]
  BY <1>3 DEF Reverse
<1> HIDE DEF N
<1>5. Activations = [k \in 1..N |-> Activations[k]] /\ \A k \in 1..N : Activations[k] = acts[(N - k) + 1]
  BY <1>4
<1>6. Len(Activations) = N
  BY <1>1, <1>5, FunctionIsSeq
<1>7. ASSUME NEW k \in 1..N
      PROVE  /\ sm.recs[frames[k].record].patchpoint_id =
                  PatchpointId(img.prog, Activations[k].fun, Activations[k].at)
             /\ frames[k].size = StackSize(img, Activations[k].fun)
  <2>1. (N - k) + 1 = (N + 1) - k
    BY <1>1
  <2>2. FrameFor(img, frames[k], Activations[k])
    BY <1>2, <1>5, <2>1
  <2> DEFINE act == Activations[k]
             s == <<act.fun, act.at>>
  <2>3. IdAt(img, s) = PatchpointId(img.prog, act.fun, act.at)
    BY DEF IdAt
  <2>4. img.sm.recs[frames[k].record].patchpoint_id = IdAt(img, s)
    BY <2>2 DEF FrameFor
  <2>5. frames[k].size = StackSize(img, act.fun)
    BY <2>2 DEF FrameFor
  <2> QED BY <2>3, <2>4, <2>5 DEF sm
<1> QED BY <1>1, <1>6, <1>7

\* FramesMatchActivations is a consequence of the invariant.
LEMMA FramesFromIInv ==
  ASSUME IInv
  PROVE  FramesMatchActivations
<1> SUFFICES ASSUME pc \in {"segment", "read", "crashed"}, phys # <<>>
             PROVE  /\ pc # "crashed"
                    /\ LastIdx = Len(Activations)
                    /\ \A k \in 1..LastIdx :
                         LET act == Activations[k] IN
                         /\ sm.recs[frames[k].record].patchpoint_id =
                              PatchpointId(img.prog, act.fun, act.at)
                         /\ frames[k].size = StackSize(img, act.fun)
  BY Zenon DEF FramesMatchActivations
<1>1. pc # "crashed"
  BY DEF IInv, PcInv
<1>2. Supported(img) /\ StackOK(img, phys) /\ Matches(img, frames, ActsIn(phys, Len(phys)))
  BY <1>1 DEF IInv, StackInv, MatchInv, HandlerPoints
<1> QED BY Zenon, <1>1, <1>2, MatchesActivations

\* HandlerFrameIntact is a consequence of the invariant if nothing is written
\* outside of the frames of the callees.
LEMMA IntactFromHandlerInv ==
  ASSUME HandlerInv, inlined \/ FitsCallee(img)
  PROVE  HandlerFrameIntact
<1>1. pc \in HandlerPoints => HandlerOK(img, phys, cpu, mem, ret)
  BY DEF HandlerInv
<1> QED BY <1>1 DEF HandlerFrameIntact, HandlerOK, TopFrame, ADDR_SIZE

(***************************************************************************)
(* For every program, stack and heap: if the lookups find what belongs to  *)
(* each site, the handler never crashes, and when it has collected its     *)
(* frames (collect_map_records, collect_inlined_frames and the insertion   *)
(* of the frame of the guard) there is one for each activation of the      *)
(* source program, with its site and the size of its frame.                *)
(***************************************************************************)
THEOREM FramesFollowActivations == Spec /\ Supported(img) => []FramesMatchActivations
<1>1. IInv => FramesMatchActivations
  BY FramesFromIInv
<1> QED BY <1>1, Invariance, PTL

(***************************************************************************)
(* What collect_map_records, insert_real_addresses and restore_unopt_stack *)
(* write leaves the base pointer and the return address of __guard_failure *)
(* on the stack alone, when something was inlined, for the segment is in   *)
(* the heap; and when nothing was, if unoptimized variables of a caller    *)
(* fit in the frame of its callee, relative to which they are written.     *)
(***************************************************************************)
THEOREM HandlerFrameKept ==
  Spec /\ Supported(img) => []((inlined \/ FitsCallee(img)) => HandlerFrameIntact)
<1>1. HandlerInv => ((inlined \/ FitsCallee(img)) => HandlerFrameIntact)
  BY IntactFromHandlerInv
<1> QED BY <1>1, Invariance, PTL

-----------------------------------------------------------------------------
(***************************************************************************)
(* Sequences of activations.                                               *)
(***************************************************************************)
\* a, gone on after the site it was at.
GoneOn(a) == [a EXCEPT !.at = a.at + 1]

\* Only the last activation goes on.
LEMMA AdvancedLast ==
  ASSUME NEW s, IsSeq(s), Len(s) >= 1
  PROVE  /\ IsSeq(Advanced(s)) /\ Len(Advanced(s)) = Len(s)
         /\ \A i \in 1..(Len(s) - 1) : Advanced(s)[i] = s[i]
         /\ Advanced(s)[Len(s)] = GoneOn(s[Len(s)])
<1> DEFINE e == GoneOn(s[Len(s)])
           t == [s EXCEPT ![Len(s)] = e]
<1>1. Advanced(s) = t
  BY DEF Advanced, GoneOn
<1> HIDE DEF e
<1>2. /\ IsSeq(t) /\ Len(t) = Len(s)
      /\ \A i \in 1..(Len(s) - 1) : t[i] = s[i]
      /\ t[Len(s)] = e
  BY LastChanged
<1> HIDE DEF t
<1> QED BY Zenon, <1>1, <1>2 DEF e

\* The last activation of a concatenation is the last one of its end.
LEMMA ConcatAdvanced ==
  ASSUME NEW p, IsSeq(p), NEW s, IsSeq(s), Len(s) >= 1
  PROVE  p \o Advanced(s) = Advanced(p \o s)
<1> DEFINE u == p \o s
           v == p \o Advanced(s)
           w == Advanced(u)
           m == Len(p)
           n == Len(s)
<1>1. m \in Nat /\ n \in Nat /\ n >= 1
  BY DEF IsSeq
<1>2. /\ IsSeq(u) /\ Len(u) = m + n
      /\ \A i \in 1..m : u[i] = p[i]
      /\ \A i \in 1..n : u[m + i] = s[i]
  BY ConcatAny
<1>3. /\ IsSeq(Advanced(s)) /\ Len(Advanced(s)) = n
      /\ \A i \in 1..(n - 1) : Advanced(s)[i] = s[i]
      /\ Advanced(s)[n] = GoneOn(s[n])
  BY AdvancedLast
<1>4. /\ IsSeq(v) /\ Len(v) = m + n
      /\ \A i \in 1..m : v[i] = p[i]
      /\ \A i \in 1..n : v[m + i] = Advanced(s)[i]
  <2> DEFINE t == Advanced(s)
  <2>1. IsSeq(t) /\ Len(t) = n
    BY <1>3
  <2> HIDE DEF t
  <2>2. Joined(p, t, v)
    <3>1. v = p \o t
      BY DEF t
    <3> HIDE DEF v
    <3> QED BY <2>1, <3>1, ConcatJoins
  <2> HIDE DEF v
  <2> QED BY Zenon, <2>1, <2>2 DEF Joined, t
<1> HIDE DEF u, v
<1>5. /\ IsSeq(w) /\ Len(w) = m + n
      /\ \A i \in 1..((m + n) - 1) : w[i] = u[i]
      /\ w[m + n] = GoneOn(u[m + n])
  BY <1>1, <1>2, AdvancedLast
<1> HIDE DEF w, m, n
<1>6. ASSUME NEW i \in 1..(m + n) PROVE v[i] = w[i]
  <2>1. CASE i \in 1..m
    <3>1. i \in 1..((m + n) - 1)
      BY <1>1, <2>1
    <3> QED BY <1>2, <1>4, <1>5, <2>1, <3>1
  <2>2. CASE i = m + n
    <3>1. n \in 1..n
      BY <1>1
    <3> QED BY <1>2, <1>3, <1>4, <1>5, <2>2, <3>1
  <2>3. CASE i \notin 1..m /\ i # m + n
    <3> DEFINE j == i - m
    <3>1. j \in 1..n /\ j \in 1..(n - 1) /\ i = m + j /\ i \in 1..((m + n) - 1)
      BY <1>1, <2>3
    <3> HIDE DEF j
    <3> QED BY <1>2, <1>3, <1>4, <1>5, <3>1
  <2> QED BY <2>1, <2>2, <2>3
<1>7. v = w
  BY <1>4, <1>5, <1>6, SeqsEqual
<1> QED BY <1>7 DEF v, w, u

\* Without its last activation, a concatenation has its end without it.
LEMMA ConcatFront ==
  ASSUME NEW p, IsSeq(p), NEW s, IsSeq(s), Len(s) >= 1
  PROVE  /\ p \o Front(s) = Front(p \o s)
         /\ Len(s) = 1 => Front(p \o s) = p
<1> DEFINE u == p \o s
           v == p \o Front(s)
           w == Front(u)
           m == Len(p)
           n == Len(s)
<1>1. m \in Nat /\ n \in Nat /\ n >= 1
  BY DEF IsSeq
<1>2. /\ IsSeq(u) /\ Len(u) = m + n
      /\ \A i \in 1..m : u[i] = p[i]
      /\ \A i \in 1..n : u[m + i] = s[i]
  BY ConcatAny
<1>3. /\ IsSeq(Front(s)) /\ Len(Front(s)) = n - 1
      /\ \A i \in 1..(n - 1) : Front(s)[i] = s[i]
  BY FrontAny
<1>4. /\ IsSeq(v) /\ Len(v) = m + (n - 1)
      /\ \A i \in 1..m : v[i] = p[i]
      /\ \A i \in 1..(n - 1) : v[m + i] = Front(s)[i]
  BY <1>3, ConcatAny
<1> HIDE DEF u, v
<1>5. /\ IsSeq(w) /\ Len(w) = (m + n) - 1
      /\ \A i \in 1..((m + n) - 1) : w[i] = u[i]
  <2>1. Len(u) >= 1
    BY <1>1, <1>2
  <2>2. /\ IsSeq(w) /\ Len(w) = Len(u) - 1
        /\ \A i \in 1..(Len(u) - 1) : w[i] = u[i]
    BY Zenon, <1>2, <2>1, FrontAny
  <2> QED BY Zenon, <1>2, <2>2
<1> HIDE DEF w, m, n
<1>6. ASSUME NEW i \in 1..((m + n) - 1) PROVE v[i] = w[i]
  <2>1. CASE i \in 1..m
    BY <1>2, <1>4, <1>5, <2>1
  <2>2. CASE i \notin 1..m
    <3> DEFINE j == i - m
    <3>1. j \in 1..n /\ j \in 1..(n - 1) /\ i = m + j
      BY <1>1, <2>2
    <3> HIDE DEF j
    <3> QED BY <1>2, <1>3, <1>4, <1>5, <3>1
  <2> QED BY <2>1, <2>2
<1>7. Len(v) = (m + n) - 1 /\ Len(w) = (m + n) - 1
  BY <1>1, <1>4, <1>5
<1>8. v = w
  BY <1>4, <1>5, <1>6, <1>7, SeqsEqual
<1>9. n = 1 => w = p
  <2> HAVE n = 1
  <2>1. Len(w) = m /\ \A i \in 1..m : w[i] = p[i] /\ i \in 1..((m + n) - 1)
    BY <1>1, <1>2, <1>5
  <2>2. \A i \in 1..Len(w) : w[i] = p[i]
    BY <2>1
  <2> QED BY <1>5, <2>1, <2>2, SeqsEqual DEF m
<1> QED BY <1>8, <1>9 DEF v, w, u, n

\* A callee is on top of its caller.
LEMMA PushedLast ==
  ASSUME NEW s, IsSeq(s), NEW e
  PROVE  /\ Len(Append(s, e)) = Len(s) + 1
         /\ Append(s, e)[Len(Append(s, e))] = e
         /\ SubSeq(Append(s, e), 1, Len(Append(s, e)) - 1) = s
         /\ s \o <<e>> = Append(s, e)
<1> DEFINE t == Append(s, e)
           n == Len(s)
           u == SubSeq(t, 1, n)
           v == s \o <<e>>
<1>1. n \in Nat
  BY DEF IsSeq
<1>2. /\ IsSeq(t) /\ Len(t) = n + 1 /\ t[n + 1] = e
      /\ \A i \in 1..n : t[i] = s[i]
  BY AppendAny
<1> HIDE DEF t
<1>3. u = s
  <2>1. /\ IsSeq(u) /\ Len(u) = (n + 1) - 1
        /\ \A i \in 1..((n + 1) - 1) : u[i] = t[(1 + i) - 1]
    <3>1. n \in Nat /\ 1 \in Nat \ {0} /\ 1 <= n + 1
      BY <1>1
    <3> QED BY Zenon, <3>1, SubSeqAny
  <2> HIDE DEF u
  <2>2. (n + 1) - 1 = n /\ \A i \in 1..n : (1 + i) - 1 = i
    BY <1>1
  <2>3. Len(u) = n /\ \A i \in 1..n : u[i] = s[i]
    BY <1>2, <2>1, <2>2
  <2>4. \A i \in 1..Len(u) : u[i] = s[i]
    BY <2>3
  <2> QED BY <2>1, <2>3, <2>4, SeqsEqual DEF n
<1> HIDE DEF u
<1>4. v = t
  <2> DEFINE o == <<e>>
  <2>1. IsSeq(o) /\ Len(o) = 1 /\ o[1] = e
    BY TupleIsSeq
  <2> HIDE DEF o
  <2> DEFINE x == s \o o
  <2> HIDE DEF x
  <2>2. /\ IsSeq(x) /\ Len(x) = n + 1
        /\ \A i \in 1..n : x[i] = s[i]
        /\ \A i \in 1..1 : x[n + i] = o[i]
    <3>1. Joined(s, o, x)
      BY <2>1, ConcatJoins DEF x
    <3> QED BY <2>1, <3>1 DEF Joined
  <2>3. ASSUME NEW i \in 1..(n + 1) PROVE x[i] = t[i]
    <3>1. i \in 1..n \/ i = n + 1
      BY <1>1
    <3> QED BY <1>2, <2>1, <2>2, <3>1
  <2>4. x = t
    BY <1>2, <2>2, <2>3, SeqsEqual
  <2> QED BY <2>4 DEF x, o
<1> HIDE DEF v
<1>5. Len(t) - 1 = n
  BY <1>1, <1>2
<1> QED BY Zenon, <1>2, <1>3, <1>4, <1>5 DEF t, u, v, n

\* Appending to the end of a concatenation.
LEMMA ConcatPushed ==
  ASSUME NEW p, IsSeq(p), NEW s, IsSeq(s), NEW e
  PROVE  p \o Append(s, e) = Append(p \o s, e)
<1> DEFINE u == p \o s
           a == Append(s, e)
           v == p \o a
           w == Append(u, e)
           m == Len(p)
           n == Len(s)
<1>1. m \in Nat /\ n \in Nat
  BY DEF IsSeq
<1>2. /\ IsSeq(u) /\ Len(u) = m + n
      /\ \A i \in 1..m : u[i] = p[i]
      /\ \A i \in 1..n : u[m + i] = s[i]
  BY ConcatAny
<1>3. /\ IsSeq(a) /\ Len(a) = n + 1
      /\ \A i \in 1..n : a[i] = s[i]
      /\ a[n + 1] = e
  BY AppendAny
<1> HIDE DEF a
<1>4. /\ IsSeq(v) /\ Len(v) = m + (n + 1)
      /\ \A i \in 1..m : v[i] = p[i]
      /\ \A i \in 1..(n + 1) : v[m + i] = a[i]
  BY <1>3, ConcatAny
<1> HIDE DEF u, v
<1>5. /\ IsSeq(w) /\ Len(w) = (m + n) + 1
      /\ \A i \in 1..(m + n) : w[i] = u[i]
      /\ w[(m + n) + 1] = e
  BY <1>2, AppendAny
<1> HIDE DEF w, m, n
<1>6. ASSUME NEW i \in 1..((m + n) + 1) PROVE v[i] = w[i]
  <2>1. CASE i \in 1..m
    <3>1. i \in 1..(m + n)
      BY <1>1, <2>1
    <3> QED BY <1>2, <1>4, <1>5, <2>1, <3>1
  <2>2. CASE i \notin 1..m
    <3> DEFINE j == i - m
    <3>1. j \in 1..(n + 1) /\ i = m + j /\ (j \in 1..n => i \in 1..(m + n))
          /\ (j \notin 1..n => j = n + 1 /\ i = (m + n) + 1)
      BY <1>1, <2>2
    <3> HIDE DEF j
    <3>2. v[i] = a[j]
      BY <1>4, <3>1
    <3>3. CASE j \in 1..n
      BY <1>2, <1>3, <1>5, <3>1, <3>2, <3>3
    <3>4. CASE j \notin 1..n
      BY <1>3, <1>5, <3>1, <3>2, <3>4
    <3> QED BY <3>3, <3>4
  <2> QED BY <2>1, <2>2
<1>7. Len(v) = (m + n) + 1
  BY <1>1, <1>4
<1>8. v = w
  BY <1>4, <1>5, <1>6, <1>7, SeqsEqual
<1> QED BY <1>8 DEF v, w, u, a

-----------------------------------------------------------------------------
(***************************************************************************)
(* Optimized code and the handler do what the source program does.         *)
(***************************************************************************)
\* The stack of the source program while optimized code or the handler runs.
Acts == ActsIn(phys, Len(phys))

\* At each point, the stack that the source program sees.
LEMMA SourceStackIs ==
  /\ pc \in HandlerPoints \cup {"opt", "overflow"} => SourceStack = Acts
  /\ (pc \in HandlerPoints \cup {"opt", "overflow"} => SourceStack = Acts)'
  /\ (pc \in {"done", "exited", "crashed"} => SourceStack = <<>>)'
BY DEF SourceStack, Acts, ActsIn, HandlerPoints

\* A stack with an activation.
LEMMA NotEmpty ==
  ASSUME NEW s, Len(s) >= 1
  PROVE  s # <<>> /\ Source!Top(s) = s[Len(s)]
BY DEF Source!Top

\* Its last activation is the one that runs.
LEMMA ActsTop ==
  ASSUME Supported(img), StackOK(img, phys)
  PROVE  /\ Len(phys) \in Nat /\ Len(phys) >= 1
         /\ \A k \in 1..Len(phys) : IsSeq(phys[k].acts) /\ Len(phys[k].acts) >= 1
         /\ TopFrame = phys[Len(phys)]
         /\ IsSeq(ActsIn(phys, Len(phys) - 1))
         /\ Acts = ActsIn(phys, Len(phys) - 1) \o TopFrame.acts
         /\ IsSeq(Acts) /\ Len(Acts) >= 1
         /\ Acts[Len(Acts)] = TopAct
<1> DEFINE N == Len(phys)
           u == ActsIn(phys, N - 1)
           s == TopFrame.acts
<1>1. N \in Nat /\ N >= 1 /\ TopFrame = phys[N] /\ N \in 1..N
  BY TopOK
<1>2. \A k \in 1..N : IsSeq(phys[k].acts) /\ Len(phys[k].acts) >= 1
  BY DEF StackOK, FrameOK, ActsOK
<1>3. IsSeq(u)
  <2>1. N - 1 \in Nat /\ \A k \in 1..(N - 1) : IsSeq(phys[k].acts)
    BY <1>1, <1>2
  <2> QED BY <2>1, ActsInSeq
<1>4. Acts = u \o s
  <2>1. N \in Nat \ {0} /\ \A k \in 1..N : IsSeq(phys[k].acts)
    BY <1>1, <1>2
  <2>2. ActsIn(phys, N) = ActsIn(phys, N - 1) \o phys[N].acts
    BY Zenon, <2>1, ActsInStep
  <2> QED BY Zenon, <1>1, <2>2 DEF Acts
<1>5. IsSeq(s) /\ Len(s) >= 1 /\ Len(s) \in Nat /\ TopAct = s[Len(s)]
  BY <1>1, <1>2 DEF IsSeq, TopAct, Last
<1> HIDE DEF u, s
<1>6. Joined(u, s, Acts)
  BY <1>3, <1>4, <1>5, ConcatJoins
<1>7. Len(u) \in Nat /\ Len(s) \in 1..Len(s)
  BY <1>3, <1>5 DEF IsSeq
<1>8. IsSeq(Acts) /\ Len(Acts) >= 1 /\ Acts[Len(Acts)] = s[Len(s)]
  BY <1>5, <1>6, <1>7 DEF Joined
<1> QED BY <1>1, <1>2, <1>3, <1>4, <1>5, <1>8 DEF u, s

\* A step of the stack of optimized code is a step of the source program.
LEMMA SourceSteps ==
  ASSUME NEW s, NEW t, SourceStack = s, SourceStack' = t, img' = img,
         \/ Source!Calls(s, t)
         \/ Source!Advances(s, t)
         \/ Source!Returns(s, t)
  PROVE  Source!Next
BY DEF Source!Next

\* A call starts the callee.
LEMMA CallFollows ==
  ASSUME Supported(img), StackOK(img, phys), AtOptSite, ~IsGuard(TopSite),
         NEW a, a.fun = TopSite.callee, a.at = 1
  PROVE  Source!Calls(Acts, Append(Acts, a))
<1>1. IsSeq(Acts) /\ Len(Acts) >= 1 /\ Acts[Len(Acts)] = TopAct
  BY ActsTop
<1>2. Acts # <<>>
  BY <1>1, NotEmpty
<1>3. Source!Top(Acts) = TopAct
  BY <1>1, NotEmpty
<1>4. Source!AtSite(Acts) /\ Source!Site(Acts) = TopSite
  BY <1>2, <1>3 DEF Source!AtSite, Source!Site, AtOptSite, TopSite
<1> DEFINE t == Append(Acts, a)
<1>5. /\ Len(t) = Len(Acts) + 1
      /\ t[Len(t)] = a
      /\ SubSeq(t, 1, Len(t) - 1) = Acts
  BY <1>1, PushedLast
<1> HIDE DEF t
<1>6. Source!Below(t) = Acts /\ Source!Top(t) = a
  BY Zenon, <1>5 DEF Source!Below, Source!Top
<1> QED BY <1>4, <1>5, <1>6 DEF Source!Calls, IsGuard, t

\* A call of optimized code is a call of the source program.
LEMMA OptCallFollows ==
  ASSUME IInv, OptCall
  PROVE  Source!Next
<1> DEFINE N == Len(phys)
           frame == NewFrame(TopSite.callee, calls + 1, TopFrame.regs[RSP] - 2, TopFrame.regs)
           a == NewAct(TopSite.callee, calls + 1)
           ph2 == Append(phys, frame)
<1>1. /\ AtOptSite /\ TopSite.kind = "call"
      /\ phys' = ph2 /\ img' = img /\ pc' = pc
  BY Zenon DEF OptCall
<1>2. pc = "opt" /\ pc' = "opt"
  BY <1>1 DEF AtOptSite
<1>3. Supported(img) /\ StackOK(img, phys)
  BY <1>2 DEF IInv, StackInv
<1>4. /\ N \in Nat /\ N >= 1
      /\ \A k \in 1..N : IsSeq(phys[k].acts) /\ Len(phys[k].acts) >= 1
      /\ IsSeq(Acts)
  BY <1>3, ActsTop
<1>5. frame.acts = <<a>> /\ a.fun = TopSite.callee /\ a.at = 1
  BY DEF NewFrame, NewAct
<1> HIDE DEF frame, a
<1>6. /\ IsSeq(ph2) /\ Len(ph2) = N + 1
      /\ \A i \in 1..N : ph2[i] = phys[i]
      /\ ph2[N + 1] = frame
  BY <1>3, AppendAny DEF StackOK
<1> HIDE DEF ph2
<1>7. ActsIn(ph2, N + 1) = ActsIn(ph2, N) \o <<a>>
  <2>1. \A k \in 1..(N + 1) : IsSeq(ph2[k].acts)
    <3> TAKE k \in 1..(N + 1)
    <3>1. k \in 1..N \/ k = N + 1
      BY <1>4
    <3>2. IsSeq(<<a>>)
      BY SingletonSeq
    <3> QED BY <1>4, <1>5, <1>6, <3>1, <3>2
  <2>2. N + 1 \in Nat \ {0} /\ (N + 1) - 1 = N
    BY <1>4
  <2>3. ActsIn(ph2, N + 1) = ActsIn(ph2, (N + 1) - 1) \o ph2[N + 1].acts
    BY <2>1, <2>2, ActsInStep
  <2> QED BY Zenon, <1>5, <1>6, <2>2, <2>3
<1>8. ActsIn(ph2, N) = Acts
  <2>1. \A k \in 1..N : ph2[k].acts = phys[k].acts
    BY <1>6
  <2> QED BY Zenon, <2>1, ActsInSame DEF Acts
<1>9. Acts' = Append(Acts, a)
  <2>1. Acts \o <<a>> = Append(Acts, a)
    BY Zenon, <1>4, PushedLast
  <2>2. Acts' = ActsIn(ph2, N + 1)
    BY Zenon, <1>1, <1>6 DEF Acts
  <2> QED BY Zenon, <1>7, <1>8, <2>1, <2>2
<1>10. Source!Calls(Acts, Append(Acts, a))
  BY <1>1, <1>3, <1>5, CallFollows DEF IsGuard
<1>11. SourceStack = Acts /\ SourceStack' = Acts'
  BY <1>2, SourceStackIs
<1> QED BY Zenon, <1>1, <1>9, <1>10, <1>11, SourceSteps

\* What the stack of the source program is when the top frame has other
\* activations.
LEMMA TopActsAre ==
  ASSUME Supported(img), StackOK(img, phys), NEW q, IsSeq(q.acts),
         phys' = [phys EXCEPT ![Len(phys)] = q]
  PROVE  Acts' = ActsIn(phys, Len(phys) - 1) \o q.acts
<1> DEFINE N == Len(phys)
           ph2 == [phys EXCEPT ![N] = q]
<1>1. /\ N \in Nat /\ N >= 1 /\ N - 1 \in Nat /\ IsSeq(phys) /\ N \in Nat \ {0}
      /\ \A k \in 1..N : IsSeq(phys[k].acts)
  <2>1. /\ N \in Nat /\ N >= 1 /\ IsSeq(phys)
        /\ \A k \in 1..N : IsSeq(phys[k].acts) /\ Len(phys[k].acts) >= 1
    BY Zenon, ActsTop DEF StackOK
  <2> QED BY <2>1
<1>2. /\ IsSeq(ph2) /\ Len(ph2) = N
      /\ \A i \in 1..(N - 1) : ph2[i] = phys[i]
      /\ ph2[N] = q
  BY <1>1, LastChanged
<1>3. phys' = ph2
  OBVIOUS
<1> HIDE DEF ph2
<1>4. \A k \in 1..N : IsSeq(ph2[k].acts)
  <2> TAKE k \in 1..N
  <2>1. k \in 1..(N - 1) \/ k = N
    BY <1>1
  <2> QED BY <1>1, <1>2, <2>1
<1>5. ActsIn(ph2, N) = ActsIn(ph2, N - 1) \o ph2[N].acts
  BY <1>1, <1>4, ActsInStep
<1>6. ActsIn(ph2, N - 1) = ActsIn(phys, N - 1)
  <2>1. \A k \in 1..(N - 1) : ph2[k].acts = phys[k].acts
    BY <1>2
  <2> QED BY Zenon, <2>1, ActsInSame
<1>7. Acts' = ActsIn(ph2, N)
  BY Zenon, <1>2, <1>3 DEF Acts
<1> QED BY Zenon, <1>2, <1>5, <1>6, <1>7

\* So is a call that was inlined.
LEMMA OptInlinedCallFollows ==
  ASSUME IInv, OptInlinedCall
  PROVE  Source!Next
<1> DEFINE p == TopFrame
           a == NewAct(TopSite.callee, calls + 1)
           acts == Append(p.acts, a)
           q == [fun |-> p.fun, bp |-> p.bp, acts |-> acts,
                 regs |-> InRegister(p.fun, acts, p.regs)]
           u == ActsIn(phys, Len(phys) - 1)
<1>1. /\ AtOptSite /\ TopSite.kind = "inlined"
      /\ phys' = [phys EXCEPT ![Len(phys)] = q] /\ img' = img /\ pc' = pc
  BY Zenon DEF OptInlinedCall
<1>2. pc = "opt" /\ pc' = "opt"
  BY <1>1 DEF AtOptSite
<1>3. Supported(img) /\ StackOK(img, phys)
  BY <1>2 DEF IInv, StackInv
<1>4. /\ IsSeq(u) /\ IsSeq(p.acts) /\ Acts = u \o p.acts
  <2>1. Len(phys) \in 1..Len(phys)
    BY <1>3, TopOK
  <2> QED BY <1>3, <2>1, ActsTop
<1>5. a.fun = TopSite.callee /\ a.at = 1
  BY DEF NewAct
<1>6. q.acts = acts
  OBVIOUS
<1> HIDE DEF a, q
<1>7. IsSeq(acts)
  BY <1>4, AppendAny
<1>8. Acts' = u \o acts
  <2>1. Acts' = u \o q.acts
    <3>1. IsSeq(q.acts)
      BY Zenon, <1>6, <1>7
    <3> QED BY Zenon, <1>1, <1>3, <3>1, TopActsAre
  <2> QED BY Zenon, <1>6, <2>1
<1>9. Acts' = Append(Acts, a)
  <2> DEFINE s == p.acts
  <2>1. IsSeq(u) /\ IsSeq(s)
    BY <1>4
  <2> HIDE DEF u, s
  <2>2. u \o Append(s, a) = Append(u \o s, a)
    BY <2>1, ConcatPushed
  <2> QED BY Zenon, <1>4, <1>8, <2>2 DEF s
<1>10. Source!Calls(Acts, Append(Acts, a))
  BY <1>1, <1>3, <1>5, CallFollows DEF IsGuard
<1>11. SourceStack = Acts /\ SourceStack' = Acts'
  BY <1>2, SourceStackIs
<1> QED BY Zenon, <1>1, <1>9, <1>10, <1>11, SourceSteps

\* The source program goes past a site as Advanced does.
LEMMA PastSiteIs ==
  ASSUME NEW s
  PROVE  Source!PastSite(s) = Advanced(s) /\ Source!Below(s) = Front(s)
BY DEF Source!PastSite, Advanced, Source!Below, Front

\* A branch goes past a site of the source program.
LEMMA OptBranchFollows ==
  ASSUME IInv, OptBranch
  PROVE  Source!Next
<1> DEFINE p == TopFrame
           q == NewActs(p, Advanced(p.acts))
           u == ActsIn(phys, Len(phys) - 1)
<1>1. /\ AtOptSite /\ img' = img /\ pc' = pc
      /\ phys' = [phys EXCEPT ![Len(phys)].acts = Advanced(@)]
  BY Zenon DEF OptBranch
<1>2. pc = "opt" /\ pc' = "opt" /\ TopAct.at <= Len(img.prog.body[TopAct.fun])
  BY <1>1 DEF AtOptSite
<1>3. Supported(img) /\ StackOK(img, phys)
  BY <1>2 DEF IInv, StackInv
<1>4. /\ IsSeq(u) /\ IsSeq(p.acts) /\ Len(p.acts) >= 1 /\ Acts = u \o p.acts
      /\ Len(Acts) >= 1 /\ Acts[Len(Acts)] = TopAct /\ p = phys[Len(phys)] /\ FrameOK(img, p)
  <2>1. Len(phys) \in 1..Len(phys) /\ FrameOK(img, p)
    BY <1>3, TopOK
  <2> QED BY <1>3, <2>1, ActsTop
<1>5. q.acts = Advanced(p.acts)
  <2>1. p = [fun |-> p.fun, bp |-> p.bp, acts |-> p.acts, regs |-> p.regs]
    BY <1>4 DEF FrameOK, IsFrame
  <2> QED BY <2>1 DEF NewActs
<1>6. phys' = [phys EXCEPT ![Len(phys)] = q]
  BY Zenon, <1>1, <1>4 DEF NewActs
<1> HIDE DEF q
<1>7. IsSeq(q.acts)
  BY <1>4, <1>5, AdvancedLast
<1>8. Acts' = Advanced(Acts)
  <2>1. Acts' = u \o q.acts
    BY Zenon, <1>3, <1>6, <1>7, TopActsAre
  <2> QED BY Zenon, <1>4, <1>5, <2>1, ConcatAdvanced
<1>9. Source!Advances(Acts, Advanced(Acts))
  <2>1. Acts # <<>> /\ Source!Top(Acts) = TopAct
    BY <1>4, NotEmpty
  <2> QED BY <1>2, <2>1, PastSiteIs DEF Source!Advances, Source!AtSite
<1>10. SourceStack = Acts /\ SourceStack' = Acts'
  BY <1>2, SourceStackIs
<1> QED BY Zenon, <1>1, <1>8, <1>9, <1>10, SourceSteps

\* A return is one of the source program, also when only an inlined function returns.
LEMMA OptReturnFollows ==
  ASSUME IInv, OptReturn
  PROVE  Source!Next
<1> DEFINE p == TopFrame
           N == Len(phys)
           u == ActsIn(phys, N - 1)
<1>1. /\ pc = "opt" /\ img' = img
      /\ TopAct.at = Len(img.prog.body[TopAct.fun]) + 1
  BY DEF OptReturn
<1>2. Supported(img) /\ StackOK(img, phys)
  BY <1>1 DEF IInv, StackInv
<1>3. /\ IsSeq(u) /\ IsSeq(p.acts) /\ Len(p.acts) >= 1 /\ Acts = u \o p.acts
      /\ IsSeq(Acts) /\ Len(Acts) >= 1 /\ Acts[Len(Acts)] = TopAct
      /\ p = phys[N] /\ FrameOK(img, p)
      /\ N \in Nat /\ N >= 1 /\ IsSeq(phys)
      /\ \A k \in 1..N : IsSeq(phys[k].acts) /\ Len(phys[k].acts) >= 1
  <2>1. N \in 1..N /\ FrameOK(img, p) /\ IsSeq(phys)
    BY <1>2, TopOK
  <2> QED BY <1>2, <2>1, ActsTop
<1>4. SourceStack = Acts /\ Acts # <<>> /\ Source!Top(Acts) = TopAct
  BY <1>1, <1>3, SourceStackIs, NotEmpty
<1>5. IsSeq(Front(Acts)) /\ Len(Front(Acts)) = Len(Acts) - 1 /\ Len(Acts) \in Nat
  BY <1>3, FrontAny DEF IsSeq
<1>6. ASSUME Len(Front(Acts)) >= 1, SourceStack' = Advanced(Front(Acts))
      PROVE  Source!Next
  <2>1. Front(Acts) # <<>>
    BY <1>6
  <2>2. Source!Returns(Acts, Advanced(Front(Acts)))
    BY <1>1, <1>4, <2>1, PastSiteIs DEF Source!Returns
  <2> QED BY Zenon, <1>1, <1>4, <1>6, <2>2, SourceSteps
<1>7. CASE /\ Len(p.acts) > 1
           /\ phys' = [phys EXCEPT ![Len(phys)].acts = Advanced(Front(@))]
           /\ pc' = pc
  <2> DEFINE f == Front(p.acts)
             q == NewActs(p, Advanced(f))
  <2>1. IsSeq(f) /\ Len(f) >= 1
    <3>1. IsSeq(f) /\ Len(f) = Len(p.acts) - 1 /\ Len(p.acts) \in Nat
      BY <1>3, FrontAny DEF IsSeq
    <3> QED BY <1>7, <3>1
  <2>2. q.acts = Advanced(f)
    <3>1. p = [fun |-> p.fun, bp |-> p.bp, acts |-> p.acts, regs |-> p.regs]
      BY <1>3 DEF FrameOK, IsFrame
    <3> QED BY <3>1 DEF NewActs
  <2>3. phys' = [phys EXCEPT ![N] = q]
    BY Zenon, <1>3, <1>7 DEF NewActs
  <2> HIDE DEF q
  <2>4. u \o f = Front(Acts)
    BY Zenon, <1>3, ConcatFront
  <2> HIDE DEF f
  <2>5. IsSeq(Advanced(f))
    BY <2>1, AdvancedLast
  <2>6. Acts' = Advanced(Front(Acts))
    <3>1. Acts' = u \o q.acts
      <4>1. IsSeq(q.acts)
        BY Zenon, <2>2, <2>5
      <4> QED BY Zenon, <1>2, <2>3, <4>1, TopActsAre
    <3> QED BY Zenon, <1>3, <2>1, <2>2, <2>4, <3>1, ConcatAdvanced
  <2>7. Len(Front(Acts)) >= 1
    <3>1. Joined(u, f, Front(Acts))
      BY <1>3, <2>1, <2>4, ConcatJoins
    <3>2. Len(u) \in Nat
      BY <1>3 DEF IsSeq
    <3> QED BY <2>1, <3>1, <3>2 DEF Joined
  <2>8. SourceStack' = Acts'
    BY <1>1, <1>7, SourceStackIs
  <2> QED BY Zenon, <1>6, <2>6, <2>7, <2>8
<1>8. CASE /\ Len(p.acts) = 1 /\ N > 1
           /\ phys' = LET below == Front(phys) IN
                      [below EXCEPT ![Len(below)].acts = Advanced(@)]
           /\ pc' = pc
  <2> DEFINE n == N - 1
             below == Front(phys)
             s == phys[n].acts
             q == NewActs(phys[n], Advanced(s))
             ph2 == [below EXCEPT ![n] = q]
  <2>1. n \in Nat \ {0} /\ n \in 1..N /\ n \in 1..n /\ n >= 1 /\ n - 1 \in Nat
        /\ \A i \in 1..n : i \in 1..N
    BY <1>3, <1>8
  <2>2. IsSeq(below) /\ Len(below) = n /\ \A i \in 1..n : below[i] = phys[i]
    BY <1>3, FrontAny
  <2>3. q.acts = Advanced(s)
    <3>1. FrameOK(img, phys[n])
      BY <1>2, <2>1 DEF StackOK
    <3> DEFINE pn == phys[n]
    <3>2. pn = [fun |-> pn.fun, bp |-> pn.bp, acts |-> pn.acts, regs |-> pn.regs]
      BY <3>1 DEF FrameOK, IsFrame
    <3> QED BY <3>2 DEF NewActs
  <2>4. phys' = ph2
    <3>1. phys' = [below EXCEPT ![Len(below)].acts = Advanced(@)]
      BY <1>8
    <3>2. below[n] = phys[n] /\ Len(below) = n
      BY <2>1, <2>2
    <3> HIDE DEF n, below
    <3> QED BY Zenon, <3>1, <3>2 DEF NewActs
  <2>5. IsSeq(s) /\ Len(s) >= 1
    BY <1>3, <2>1
  <2> HIDE DEF s, q, below, n
  <2>6. /\ IsSeq(ph2) /\ Len(ph2) = n
        /\ \A i \in 1..(n - 1) : ph2[i] = below[i]
        /\ ph2[n] = q
    <3> DEFINE t == [below EXCEPT ![Len(below)] = q]
    <3>1. Len(below) >= 1 /\ IsSeq(below)
      BY <2>1, <2>2
    <3>2. /\ IsSeq(t) /\ Len(t) = Len(below)
          /\ \A i \in 1..(Len(below) - 1) : t[i] = below[i]
          /\ t[Len(below)] = q
      BY <3>1, LastChanged
    <3>3. ph2 = t
      BY <2>2
    <3> HIDE DEF t, ph2
    <3> QED BY Zenon, <2>2, <3>2, <3>3
  <2> HIDE DEF ph2
  <2>7. IsSeq(Advanced(s))
    BY <2>5, AdvancedLast
  <2>8. \A k \in 1..n : IsSeq(ph2[k].acts)
    <3> TAKE k \in 1..n
    <3>1. k = n \/ k \in 1..(n - 1)
      BY <2>1
    <3>2. CASE k = n
      BY <2>3, <2>6, <2>7, <3>2
    <3>3. CASE k \in 1..(n - 1)
      BY <1>3, <2>1, <2>2, <2>6, <3>3
    <3> QED BY <3>1, <3>2, <3>3
  <2>9. ActsIn(ph2, n) = ActsIn(ph2, n - 1) \o Advanced(s)
    <3>1. ActsIn(ph2, n) = ActsIn(ph2, n - 1) \o ph2[n].acts
      BY Zenon, <2>1, <2>8, ActsInStep
    <3> QED BY Zenon, <2>3, <2>6, <3>1
  <2>10. ActsIn(ph2, n - 1) = ActsIn(phys, n - 1)
    <3>1. \A k \in 1..(n - 1) : ph2[k].acts = phys[k].acts
      BY <2>1, <2>2, <2>6
    <3> QED BY Zenon, <3>1, ActsInSame
  <2>11. ActsIn(phys, n) = ActsIn(phys, n - 1) \o s
    <3>1. \A k \in 1..n : IsSeq(phys[k].acts)
      BY <1>3, <2>1
    <3>2. ActsIn(phys, n) = ActsIn(phys, n - 1) \o phys[n].acts
      BY Zenon, <2>1, <3>1, ActsInStep
    <3> QED BY Zenon, <3>2 DEF s
  <2>12. IsSeq(ActsIn(phys, n - 1))
    <3>1. \A k \in 1..(n - 1) : IsSeq(phys[k].acts)
      BY <1>3, <2>1
    <3> QED BY <2>1, <3>1, ActsInSeq
  <2>13. Front(Acts) = ActsIn(phys, n)
    <3>1. Len(p.acts) = 1
      BY <1>8
    <3>2. Front(u \o p.acts) = u
      BY Zenon, <1>3, <3>1, ConcatFront
    <3> QED BY Zenon, <1>3, <3>2 DEF n
  <2>14. Acts' = Advanced(Front(Acts))
    <3>1. Acts' = ActsIn(ph2, n)
      BY Zenon, <2>4, <2>6 DEF Acts
    <3>2. ActsIn(phys, n - 1) \o Advanced(s) = Advanced(ActsIn(phys, n - 1) \o s)
      BY Zenon, <2>5, <2>12, ConcatAdvanced
    <3> QED BY Zenon, <2>9, <2>10, <2>11, <2>13, <3>1, <3>2
  <2>15. Len(Front(Acts)) >= 1
    <3>1. Joined(ActsIn(phys, n - 1), s, Front(Acts))
      BY <2>5, <2>11, <2>12, <2>13, ConcatJoins
    <3>2. Len(ActsIn(phys, n - 1)) \in Nat
      BY <2>12 DEF IsSeq
    <3>3. Len(s) \in Nat
      BY <2>5 DEF IsSeq
    <3> QED BY <2>5, <3>1, <3>2, <3>3 DEF Joined
  <2>16. SourceStack' = Acts'
    BY <1>1, <1>8, SourceStackIs
  <2> QED BY Zenon, <1>6, <2>14, <2>15, <2>16
<1>9. CASE Len(p.acts) = 1 /\ N = 1 /\ phys' = <<>> /\ pc' = "done"
  <2>1. SourceStack' = <<>>
    BY <1>9, SourceStackIs
  <2>2. Front(Acts) = u
    <3>1. Len(p.acts) = 1
      BY <1>9
    <3> QED BY Zenon, <1>3, <3>1, ConcatFront
  <2>3. u = <<>>
    <3>1. u = ActsIn(phys, 0)
      BY <1>9
    <3>2. Len(u) = 0 /\ IsSeq(u)
      BY <3>1, NoActs
    <3> HIDE DEF u
    <3>3. u \in Seq({})
      BY <3>2, SeqOverElements
    <3> QED BY <3>2, <3>3
  <2>4. Source!Returns(Acts, <<>>)
    BY <1>1, <1>4, <2>2, <2>3, PastSiteIs DEF Source!Returns
  <2> QED BY Zenon, <1>1, <1>4, <2>1, <2>4, SourceSteps
<1> QED BY <1>7, <1>8, <1>9 DEF OptReturn

-----------------------------------------------------------------------------
(***************************************************************************)
(* A step that ends neither in unoptimized code nor in an exit is one of   *)
(* the source program, or one that it does not see.                        *)
(***************************************************************************)
FollowsSource ==
  (pc # "unopt" /\ pc' \notin {"unopt", "exited"}) => [Source!Next]_(Source!vars)

\* What the source program sees does not change while img and phys stay.
LEMMA SourceStutters ==
  ASSUME UNCHANGED <<img, phys>>,
         \/ /\ pc \in HandlerPoints \cup {"opt", "overflow"}
            /\ pc' \in HandlerPoints \cup {"opt", "overflow"}
         \/ pc' = pc
            /\ pc \in {"done", "exited", "crashed"}
  PROVE  UNCHANGED Source!vars
<1>1. CASE /\ pc \in HandlerPoints \cup {"opt", "overflow"}
           /\ pc' \in HandlerPoints \cup {"opt", "overflow"}
  <2>1. SourceStack = Acts /\ SourceStack' = Acts'
    BY <1>1, SourceStackIs
  <2>2. Acts' = Acts
    BY DEF Acts, ActsIn
  <2> QED BY <2>1, <2>2 DEF Source!vars
<1>2. CASE pc' = pc /\ pc \in {"done", "exited", "crashed"}
  <2>1. SourceStack = <<>> /\ SourceStack' = <<>>
    BY <1>2 DEF SourceStack
  <2> QED BY <2>1 DEF Source!vars
<1> QED BY <1>1, <1>2

\* The handler does not go on with optimized code, and it changes the stack of
\* the source program only by its jump.
LEMMA HandlerPlaces ==
  ASSUME GuardFailure \/ HandlerStep
  PROVE  /\ pc \in HandlerPoints \cup {"opt"}
         /\ img' = img
         /\ pc' # "unopt" => phys' = phys
         /\ pc' \in HandlerPoints \cup {"exited", "crashed", "overflow", "unopt"}
<1>1. CASE GuardFailure
  BY <1>1 DEF GuardFailure, AtOptSite, HandlerPoints
<1>2. CASE collect_map_records
  BY <1>2 DEF collect_map_records, CollectRecord, Stop, HandlerPoints
<1>3. CASE CollectMapRecordsEnd
  BY <1>3 DEF CollectMapRecordsEnd, HandlerPoints
<1>4. CASE collect_inlined_frames
  <2>1. pc = "inline" /\ img' = img /\ phys' = phys
    BY <1>4 DEF collect_inlined_frames
  <2>2. pc' \in {"inline", "crashed"}
    BY <1>4 DEF collect_inlined_frames, CollectInlined, Stop
  <2> QED BY <2>1, <2>2 DEF HandlerPoints
<1>5. CASE CollectInlinedFramesEnd
  BY <1>5 DEF CollectInlinedFramesEnd, HandlerPoints
<1>6. CASE InsertFailFrame
  <2>1. pc = "fail" /\ img' = img /\ phys' = phys
    BY <1>6 DEF InsertFailFrame
  <2>2. pc' \in {"segment", "read", "crashed"}
    BY <1>6 DEF InsertFailFrame, Stop
  <2> QED BY <2>1, <2>2 DEF HandlerPoints
<1>7. CASE BuildSegment
  BY <1>7 DEF BuildSegment, HandlerPoints
<1>8. CASE get_locations
  BY <1>8 DEF get_locations, HandlerPoints
<1>9. CASE RestoreFrame
  BY <1>9 DEF RestoreFrame, HandlerPoints
<1>10. CASE restore_register_state
  BY <1>10 DEF restore_register_state, HandlerPoints
<1>11. CASE jmp_to_addr
  BY <1>11 DEF jmp_to_addr, Resume, HandlerPoints
<1>12. CASE GrowStack
  BY <1>12 DEF GrowStack, HandlerPoints
<1>13. CASE jump_inlined
  BY <1>13 DEF jump_inlined, Resume, HandlerPoints
<1> QED BY <1>1, <1>2, <1>3, <1>4, <1>5, <1>6, <1>7, <1>8, <1>9, <1>10, <1>11, <1>12,
           <1>13 DEF HandlerStep

\* Every step of a supported binary follows the source program up to the jump.
LEMMA NextFollows ==
  ASSUME IInv, IInv', [Next]_vars
  PROVE  FollowsSource
<1> SUFFICES ASSUME pc # "unopt", pc' \notin {"unopt", "exited"}
             PROVE  Source!Next \/ UNCHANGED Source!vars
  BY DEF FollowsSource
<1>1. CASE OptCall
  BY Zenon, <1>1, OptCallFollows
<1>2. CASE OptInlinedCall
  BY Zenon, <1>2, OptInlinedCallFollows
<1>3. CASE OptBranch
  BY Zenon, <1>3, OptBranchFollows
<1>4. CASE OptReturn
  BY Zenon, <1>4, OptReturnFollows
<1>5. CASE UnoptStep
  BY <1>5 DEF UnoptStep, UnoptAdvance, UnoptReturn, UnoptCall, AtUnoptSite
<1>6. CASE GuardFailure \/ HandlerStep
  <2>1. /\ pc \in HandlerPoints \cup {"opt"}
        /\ UNCHANGED <<img, phys>>
        /\ pc' \in HandlerPoints \cup {"exited", "crashed", "overflow", "unopt"}
    BY <1>6, HandlerPlaces
  <2>2. pc' # "crashed"
    <3> SUFFICES ASSUME pc' = "crashed" PROVE FALSE
      OBVIOUS
    <3>1. phys' = <<>>
      BY DEF IInv, PcInv
    <3>2. StackOK(img, phys)
      BY <2>1 DEF IInv, StackInv
    <3>3. Len(phys) >= 1
      BY <3>2 DEF StackOK
    <3> QED BY <2>1, <3>1, <3>3
  <2>3. pc' \in HandlerPoints \cup {"opt", "overflow"}
    BY <2>1, <2>2
  <2> QED BY <2>1, <2>3, SourceStutters
<1>7. CASE UNCHANGED vars
  <2>1. UNCHANGED <<img, phys, pc>>
    BY <1>7 DEF vars, machineVars
  <2>2. pc \in HandlerPoints \cup {"opt", "overflow"} \cup {"done", "exited", "crashed"}
    BY DEF IInv, PcInv
  <2> QED BY <2>1, <2>2, SourceStutters
<1> QED BY Zenon, <1>1, <1>2, <1>3, <1>4, <1>5, <1>6, <1>7
           DEF Next, ProgramStep, OptStep, Ended

\* The program starts as its source does.
LEMMA InitFollows ==
  ASSUME Init
  PROVE  Source!Init
<1> DEFINE p == NewFrame("main", 0, MainBp, InitialRegs)
           a == NewAct("main", 0)
<1>1. pc = "opt" /\ phys = <<p>>
  BY DEF Init, InitMachine
<1>2. p.acts = <<a>> /\ a.fun = "main" /\ a.at = 1
  BY DEF NewFrame, NewAct
<1> HIDE DEF p, a
<1>3. IsSeq(phys) /\ Len(phys) = 1 /\ phys[1] = p
  BY <1>1, TupleIsSeq
<1>4. \A k \in 1..1 : IsSeq(phys[k].acts) /\ Len(phys[k].acts) = 1
  <2>1. IsSeq(<<a>>) /\ Len(<<a>>) = 1
    BY TupleIsSeq
  <2> QED BY <1>2, <1>3, <2>1
<1>5. /\ Len(ActsIn(phys, 1)) = 1
      /\ ActsIn(phys, 1)[1] = a
  <2>1. 1 \in 0..Len(phys) /\ Single(phys, 1) /\ 1 \in 1..1
    BY <1>3, <1>4 DEF Single
  <2>2. /\ Len(ActsIn(phys, 1)) = 1
        /\ \A k \in 1..1 : ActsIn(phys, 1)[k] = phys[k].acts[1]
    BY <1>3, <1>4, <2>1, SingleCount
  <2> QED BY <1>2, <1>3, <2>1, <2>2
<1>6. SourceStack = ActsIn(phys, 1)
  BY <1>1, <1>3, SourceStackIs DEF Acts
<1> QED BY <1>2, <1>5, <1>6 DEF Source!Init

(***************************************************************************)
(* Up to its jump, the compiled program refines its source: optimized code *)
(* calls, returns and branches as the source does, whatever was inlined in *)
(* it, and the handler keeps the activations there were when the guard     *)
(* failed, while it reads and rewrites the stack.  The jump itself is left *)
(* to BehavesAsSource, as is an exit for a location the handler cannot     *)
(* restore.                                                                *)
(***************************************************************************)
THEOREM FollowsSourceUpToJump ==
  Spec /\ Supported(img) => Source!Init /\ [][FollowsSource]_vars
<1>1. Init => Source!Init
  BY InitFollows
<1>2. IInv /\ IInv' /\ [Next]_vars => [FollowsSource]_vars
  BY NextFollows
<1> QED BY <1>1, <1>2, Invariance, PTL DEF Spec

-----------------------------------------------------------------------------
(***************************************************************************)
(* The values of the variables.  Up to the handler, every variable is in   *)
(* the place where the code of its frame keeps it; a record that describes *)
(* this place is the one with which it is read.                            *)
(***************************************************************************)
\* What is in a place.
ValueIn(m, l, g, bp) ==
  CASE l.kind = "register" -> g[l.offset]
    [] l.kind = "direct"   -> m[bp + l.offset]
    [] l.kind = "constant" -> l.offset

\* The path of activation k when it started, and the places of its variables.
EntryTo(acts, k) == [n \in 1..k |-> <<acts[n].fun, IF n = k THEN 1 ELSE acts[n].at>>]

HomesOf(b, f, acts, k) == VariablesAt(b, f, EntryTo(acts, k))

Holds(m, hs, g, bp, vals) == vals = [j \in 1..Len(hs) |-> ValueIn(m, hs[j], g, bp)]

\* The variables of activation k of frame p, with registers g.
Kept(b, m, p, k, g) == Holds(m, HomesOf(b, p.fun, p.acts, k), g, p.bp, p.acts[k].vals)

\* The registers of a caller are also those of its callee.
ValuesKept(b, ph, m) ==
  /\ \A n \in 1..Len(ph) : \A k \in 1..Len(ph[n].acts) : Kept(b, m, ph[n], k, ph[n].regs)
  /\ \A n \in 1..(Len(ph) - 1) : Kept(b, m, ph[n], Len(ph[n].acts), ph[n + 1].regs)

\* Places in a frame of f.
HomesOK(b, f, hs) ==
  /\ IsSeq(hs)
  /\ \A j \in 1..Len(hs) :
       /\ hs[j].kind \in {"direct", "register", "constant"}
       /\ hs[j].kind = "direct"   => hs[j].offset \in (1 - StackSize(b, f))..(-1)
       /\ hs[j].kind = "register" => hs[j].offset \in RegNums \ {RBP, RSP}

\* A frame has a last activation.
LEMMA LastAct ==
  ASSUME NEW b, NEW f, NEW acts, ActsOK(b, f, acts)
  PROVE  /\ Len(acts) \in Nat /\ Len(acts) \in 1..Len(acts)
         /\ Last(acts) = acts[Len(acts)]
BY DEF ActsOK, IsSeq, Last

\* An activation of a frame started on a path on which one can start.
LEMMA EntryToPath ==
  ASSUME NEW b, NEW f, NEW acts, ActsOK(b, f, acts), NEW k \in 1..Len(acts)
  PROVE  /\ EntryTo(acts, k) \in EntryPaths(b, f)
         /\ Len(EntryTo(acts, k)) = k
         /\ Last(EntryTo(acts, k))[1] = acts[k].fun
         /\ EntryAt(Path(acts), k) = EntryTo(acts, k)
<1> DEFINE v == EntryTo(acts, k)
<1>1. Len(acts) \in Nat /\ k \in Nat
  BY DEF ActsOK, IsSeq
<1>2. /\ v = [n \in 1..k |-> v[n]]
      /\ \A n \in 1..k : v[n] = <<acts[n].fun, IF n = k THEN 1 ELSE acts[n].at>>
  BY DEF EntryTo
<1> HIDE DEF v
<1>3. IsSeq(v) /\ Len(v) = k
  BY <1>1, <1>2, FunctionIsSeq
<1>4. Last(v)[1] = acts[k].fun
  <2>1. Last(v) = v[k] /\ k \in 1..k
    BY <1>1, <1>3 DEF Last
  <2> QED BY <1>2, <2>1
<1>5. EntryAt(Path(acts), k) = v
  <2>1. \A n \in 1..k : Path(acts)[n] = <<acts[n].fun, acts[n].at>>
    BY <1>1 DEF Path
  <2>2. EntryAt(Path(acts), k) =
          [n \in 1..k |-> <<Path(acts)[n][1], IF n = k THEN 1 ELSE Path(acts)[n][2]>>]
    BY Zenon DEF EntryAt
  <2>3. \A n \in 1..k : <<Path(acts)[n][1], IF n = k THEN 1 ELSE Path(acts)[n][2]>> = v[n]
    BY <1>2, <2>1
  <2> QED BY <1>2, <2>2, <2>3
<1>6. v \in EntryPaths(b, f)
  <2>1. CASE k = 1
    <3>1. v[1] = <<f, 1>>
      BY <1>2, <2>1 DEF ActsOK
    <3>2. v = <<v[1]>>
      <4>1. IsSeq(<<v[1]>>) /\ Len(<<v[1]>>) = 1 /\ <<v[1]>>[1] = v[1]
        BY TupleIsSeq
      <4> HIDE DEF v
      <4> DEFINE u == <<v[1]>>
      <4>2. IsSeq(u) /\ Len(u) = 1 /\ u[1] = v[1]
        BY <4>1
      <4> HIDE DEF u
      <4>3. \A i \in 1..Len(v) : v[i] = u[i]
        BY <1>3, <2>1, <4>2
      <4>4. v = u
        BY <1>3, <2>1, <4>2, <4>3, SeqsEqual
      <4> QED BY <4>4 DEF u
    <3> QED BY <3>1, <3>2 DEF EntryPaths
  <2>2. CASE k # 1
    <3> DEFINE w == PathTo(acts, k - 1)
               u == Append(w, <<acts[k].fun, 1>>)
    <3>1. k - 1 \in 1..(Len(acts) - 1) /\ k - 1 \in Nat /\ (k - 1) + 1 = k
      BY <1>1, <2>2
    <3>2. InlinedNext(b, f, acts, k - 1)
      BY <3>1 DEF ActsOK
    <3>3. /\ IsSeq(w) /\ Len(w) = k - 1
          /\ \A n \in 1..(k - 1) : w[n] = <<acts[n].fun, acts[n].at>>
      BY <3>1, PathSeq
    <3> HIDE DEF w
    <3>4. /\ IsSeq(u) /\ Len(u) = k /\ u[k] = <<acts[k].fun, 1>>
          /\ \A n \in 1..(k - 1) : u[n] = w[n]
      BY <3>1, <3>3, AppendAny
    <3>5. Last(w) = <<acts[k - 1].fun, acts[k - 1].at>>
      BY <3>1, <3>3 DEF Last
    <3>6. /\ w \in SitePaths(b, f) /\ IsInlined(SiteOf(b, w))
          /\ SiteOf(b, w).callee = acts[k].fun
      BY <3>1, <3>2, <3>5 DEF InlinedNext, SiteOf, w
    <3> HIDE DEF u
    <3>7. \A n \in 1..Len(v) : v[n] = u[n]
      <4> TAKE n \in 1..Len(v)
      <4>1. n = k \/ (n \in 1..(k - 1) /\ n # k)
        BY <1>1, <1>3
      <4> QED BY <1>2, <1>3, <3>3, <3>4, <4>1
    <3>8. v = u
      BY <1>3, <3>4, <3>7, SeqsEqual
    <3> QED BY <3>6, <3>8 DEF EntryPaths, u
  <2> QED BY <2>1, <2>2
<1> QED BY <1>3, <1>4, <1>5, <1>6 DEF v

\* Where the variables of an activation are.
LEMMA HomesInFrame ==
  ASSUME NEW b, FramesOK(b), VariablesOK(b), NEW f \in FunctionsRun(b),
         NEW acts, ActsOK(b, f, acts), NEW k \in 1..Len(acts)
  PROVE  /\ HomesOK(b, f, HomesOf(b, f, acts, k))
         /\ Len(HomesOf(b, f, acts, k)) = NumLocals(b.prog, acts[k].fun)
         /\ \A j \in 1..NumLocals(b.prog, acts[k].fun) :
              /\ HomesOf(b, f, acts, k)[j].kind = b.prog.locals[acts[k].fun][j].opt
              /\ HomesOf(b, f, acts, k)[j].kind = "direct" =>
                   HomesOf(b, f, acts, k)[j].offset =
                     OptOffset(b.prog, CodeOf(b, "opt", f).items, EntryTo(acts, k), j)
              /\ HomesOf(b, f, acts, k)[j].kind = "register" =>
                   HomesOf(b, f, acts, k)[j].offset =
                     OptRegister(CodeOf(b, "opt", f).items, EntryTo(acts, k))
              /\ HomesOf(b, f, acts, k)[j].kind = "constant" =>
                   HomesOf(b, f, acts, k)[j].offset = ConstantOf(b.prog, acts[k].fun, j)
<1> DEFINE v == EntryTo(acts, k)
           g == acts[k].fun
           items == CodeOf(b, "opt", f).items
           N == NumLocals(b.prog, g)
           hs == HomesOf(b, f, acts, k)
           kind(j) == b.prog.locals[g][j].opt
           slot(j) == OptOffset(b.prog, items, v, j)
           reg == OptRegister(items, v)
           con(j) == ConstantOf(b.prog, g, j)
<1>1. v \in EntryPaths(b, f) /\ Last(v)[1] = g
  BY EntryToPath
<1>2. g \in DOMAIN b.prog.body /\ N \in Nat
  BY ActsInBody DEF FramesOK
<1>3. \A j \in 1..N : /\ kind(j) \in {"direct", "register", "constant"}
                      /\ slot(j) \in (1 - StackSize(b, f))..(-1)
  BY <1>1, <1>2 DEF FramesOK, VariablesOK
<1>4. reg \in RegNums \ {RBP, RSP}
  BY <1>1 DEF FramesOK, VariablesOK
<1>5. hs = [j \in 1..N |-> Location(kind(j), slot(j), reg, con(j))]
  BY <1>1 DEF HomesOf, VariablesAt
<1> HIDE DEF hs, v, g, items, N, kind, slot, reg, con
<1>6. hs = [j \in 1..N |-> hs[j]] /\ \A j \in 1..N : hs[j] = Location(kind(j), slot(j), reg, con(j))
  BY <1>5
<1>7. IsSeq(hs) /\ Len(hs) = N
  BY <1>2, <1>6, FunctionIsSeq
<1>8. ASSUME NEW j \in 1..N
      PROVE  /\ hs[j].kind = kind(j)
             /\ hs[j].kind = "direct" => hs[j].offset = slot(j)
             /\ hs[j].kind = "register" => hs[j].offset = reg
             /\ hs[j].kind = "constant" => hs[j].offset = con(j)
  <2>1. hs[j] = [kind |-> kind(j), offset |->
                   CASE kind(j) = "direct" -> slot(j)
                     [] kind(j) = "register" -> reg
                     [] kind(j) = "constant" -> con(j)
                     [] kind(j) = "indirect" -> slot(j)]
    BY <1>6 DEF Location
  <2> QED BY <1>3, <2>1
<1>9. HomesOK(b, f, hs)
  BY <1>3, <1>4, <1>7, <1>8 DEF HomesOK
<1> QED BY <1>7, <1>8, <1>9 DEF hs, v, g, items, N, kind, slot, reg, con

\* Variables stay where they are if what is in their places stays.
LEMMA HoldsSame ==
  ASSUME NEW b, NEW f, NEW hs, HomesOK(b, f, hs), NEW m, NEW g, NEW bp, NEW vals,
         Holds(m, hs, g, bp, vals), NEW m2, NEW g2,
         \A j \in 1..Len(hs) : hs[j].kind = "direct" =>
           m2[bp + hs[j].offset] = m[bp + hs[j].offset],
         \A j \in 1..Len(hs) : hs[j].kind = "register" => g2[hs[j].offset] = g[hs[j].offset]
  PROVE  Holds(m2, hs, g2, bp, vals)
<1>1. ASSUME NEW j \in 1..Len(hs) PROVE ValueIn(m, hs[j], g, bp) = ValueIn(m2, hs[j], g2, bp)
  <2>1. hs[j].kind \in {"direct", "register", "constant"}
    BY DEF HomesOK
  <2> QED BY <2>1 DEF ValueIn
<1> QED BY <1>1 DEF Holds

\* The places of the variables of an activation are its own in the frame.
LEMMA HomesApart ==
  ASSUME NEW b, VariablesOK(b), NEW f \in FunctionsRun(b), NEW acts, ActsOK(b, f, acts),
         Path(acts) = EntryTo(acts, Len(acts)),
         NEW k \in 1..Len(acts),
         NEW i \in 1..Len(HomesOf(b, f, acts, Len(acts))),
         NEW j \in 1..Len(HomesOf(b, f, acts, k)),
         Clash(HomesOf(b, f, acts, Len(acts))[i], HomesOf(b, f, acts, k)[j])
  PROVE  k = Len(acts) /\ i = j
<1> DEFINE N == Len(acts)
           v == Path(acts)
<1>1. N \in 1..N /\ N \in Nat
  BY DEF ActsOK, IsSeq
<1>2. v \in EntryPaths(b, f) /\ Len(v) = N
  BY <1>1, EntryToPath
<1>3. VariablesApart(b, f, v)
  BY <1>2 DEF VariablesOK
<1>4. EntryAt(v, N) = EntryTo(acts, N) /\ EntryAt(v, k) = EntryTo(acts, k)
  BY <1>1, EntryToPath
<1> HIDE DEF v, N
<1> DEFINE own == VariablesAt(b, f, EntryAt(v, Len(v)))
           other == VariablesAt(b, f, EntryAt(v, k))
<1>5. k \in 1..Len(v) /\ k \in 1..N
  BY <1>2 DEF N
<1>6. \A x \in 1..Len(own) : \A y \in 1..Len(other) : Clash(own[x], other[y]) => k = Len(v) /\ x = y
  BY <1>3, <1>5 DEF VariablesApart
<1>7. own = HomesOf(b, f, acts, N) /\ other = HomesOf(b, f, acts, k)
  BY <1>2, <1>4 DEF HomesOf
<1>8. i \in 1..Len(own) /\ j \in 1..Len(other) /\ Clash(own[i], other[j])
  BY <1>7 DEF N
<1> HIDE DEF own, other
<1> QED BY <1>2, <1>6, <1>8 DEF N

\* An activation that has started, and what it needs.
Started(f, acts, n) ==
  /\ ActsOK(img, f, acts)
  /\ Path(acts) \in EntryPaths(img, f)
  /\ Last(Path(acts))[1] = Last(acts).fun
  /\ Last(acts) = NewAct(Last(acts).fun, n)

\* Its path is the one on which it started.
LEMMA StartedPath ==
  ASSUME NEW f, NEW acts, NEW n, Started(f, acts, n)
  PROVE  /\ Path(acts) = EntryTo(acts, Len(acts))
         /\ Len(acts) \in Nat /\ Len(acts) \in 1..Len(acts)
         /\ Last(acts) = acts[Len(acts)]
<1>1. Len(acts) \in Nat /\ Len(acts) \in 1..Len(acts) /\ Last(acts) = acts[Len(acts)]
  BY DEF Started, ActsOK, IsSeq, Last
<1>2. acts[Len(acts)].at = 1
  <2>1. Last(acts).at = 1
    BY DEF Started, NewAct
  <2> QED BY <1>1, <2>1
<1>3. Path(acts) = EntryTo(acts, Len(acts))
  <2>1. \A i \in 1..Len(acts) :
          <<acts[i].fun, acts[i].at>> = <<acts[i].fun, IF i = Len(acts) THEN 1 ELSE acts[i].at>>
    BY <1>2
  <2> QED BY Zenon, <2>1 DEF Path, EntryTo
<1> QED BY <1>1, <1>3

\* Words and registers that are places of variables.
WordsOf(hs, bp, words) ==
  \A x \in words : \E j \in 1..Len(hs) : hs[j].kind = "direct" /\ x = bp + hs[j].offset

RegistersOf(hs, g, g2) ==
  \A d \in RegNums : g2[d] # g[d] =>
    \E j \in 1..Len(hs) : hs[j].kind = "register" /\ d = hs[j].offset

\* The words and the register that the start of an activation changes are
\* places of its variables.
LEMMA StartedWrites ==
  ASSUME Supported(img), VariablesOK(img), NEW f \in FunctionsRun(img),
         NEW acts, NEW n, Started(f, acts, n), NEW bp \in Int, NEW g, IsRegs(g)
  PROVE  /\ WordsOf(HomesOf(img, f, acts, Len(acts)), bp, DOMAIN Slots(f, bp, acts))
         /\ RegistersOf(HomesOf(img, f, acts, Len(acts)), g, InRegister(f, acts, g))
<1> DEFINE N == Len(acts)
           a == Last(acts)
           M == NumLocals(img.prog, a.fun)
           hs == HomesOf(img, f, acts, N)
           v == Path(acts)
           items == ItemsOf(f)
<1>1. v = EntryTo(acts, N) /\ N \in 1..N /\ a = acts[N]
  BY StartedPath
<1>2. ActsOK(img, f, acts) /\ FramesOK(img)
  BY DEF Started, Supported
<1>3. a.fun \in DOMAIN img.prog.body
  BY <1>1, <1>2, ActsInBody
<1>4. /\ Len(hs) = M
      /\ \A j \in 1..M :
           /\ hs[j].kind = img.prog.locals[a.fun][j].opt
           /\ hs[j].kind = "direct" => hs[j].offset = OptOffset(img.prog, items, v, j)
           /\ hs[j].kind = "register" => hs[j].offset = OptRegister(items, v)
  BY <1>1, <1>2, HomesInFrame DEF ItemsOf
<1>5. Len(a.vals) = M
  <2>1. a = NewAct(a.fun, n)
    BY DEF Started
  <2> HIDE DEF a
  <2>2. Len(NewAct(a.fun, n).vals) = NumLocals(img.prog, a.fun)
    BY <1>2, <1>3, NewActOK
  <2> QED BY <2>1, <2>2
<1> DEFINE isDirect == {j \in 1..Len(a.vals) : img.prog.locals[a.fun][j].opt = "direct"}
           slot == [j \in isDirect |-> bp + OptOffset(img.prog, items, v, j)]
           value(x) == a.vals[CHOOSE j \in isDirect : slot[j] = x]
           js == {j \in 1..Len(a.vals) : img.prog.locals[a.fun][j].opt = "register"}
           d1 == OptRegister(items, v)
           w == a.vals[CHOOSE j \in js : TRUE]
<1>6. Slots(f, bp, acts) = [x \in {slot[j] : j \in isDirect} |-> value(x)]
  BY Zenon DEF Slots
<1>7. InRegister(f, acts, g) = IF js = {} THEN g ELSE [g EXCEPT ![d1] = w]
  BY Zenon DEF InRegister
<1> HIDE DEF hs, a, M, v, items, N, w
<1>8. ASSUME NEW x \in DOMAIN Slots(f, bp, acts)
      PROVE  \E j \in 1..Len(hs) : hs[j].kind = "direct" /\ x = bp + hs[j].offset
  <2> HIDE DEF value
  <2>1. DOMAIN Slots(f, bp, acts) = {slot[j] : j \in isDirect}
    BY Zenon, <1>6
  <2>2. PICK j \in isDirect : x = slot[j]
    BY Zenon, <2>1
  <2>3. j \in 1..Len(hs) /\ hs[j].kind = "direct" /\ hs[j].offset = OptOffset(img.prog, items, v, j)
    BY <1>4, <1>5, <2>2
  <2>4. slot[j] = bp + OptOffset(img.prog, items, v, j)
    BY <2>2
  <2> QED BY Zenon, <2>2, <2>3, <2>4
<1>9. ASSUME NEW d \in RegNums, InRegister(f, acts, g)[d] # g[d]
      PROVE  \E j \in 1..Len(hs) : hs[j].kind = "register" /\ d = hs[j].offset
  <2>1. js # {}
    BY <1>7, <1>9
  <2>2. InRegister(f, acts, g) = [g EXCEPT ![d1] = w]
    BY <1>7, <2>1
  <2>3. d = d1
    <3> HIDE DEF d1
    <3>1. d # d1 => [g EXCEPT ![d1] = w][d] = g[d]
      BY RegsExcept
    <3> QED BY <1>9, <2>2, <3>1
  <2>4. PICK j \in js : TRUE
    BY <2>1
  <2>5. j \in 1..Len(hs) /\ hs[j].kind = "register" /\ hs[j].offset = d1
    BY <1>4, <1>5, <2>4
  <2> QED BY <2>3, <2>5
<1>10. WordsOf(hs, bp, DOMAIN Slots(f, bp, acts)) /\ RegistersOf(hs, g, InRegister(f, acts, g))
  BY Zenon, <1>8, <1>9 DEF WordsOf, RegistersOf
<1> QED BY <1>10 DEF hs, N

\* It finds its variables there.
LEMMA StartedHolds ==
  ASSUME Supported(img), VariablesOK(img), NEW f \in FunctionsRun(img),
         NEW acts, NEW n, Started(f, acts, n), NEW bp \in Int, NEW g, IsRegs(g),
         NEW m2, \A x \in DOMAIN Slots(f, bp, acts) : m2[x] = Slots(f, bp, acts)[x],
         NEW g2, \A d \in RegNums \ {RBP, RSP} : g2[d] = InRegister(f, acts, g)[d]
  PROVE  Holds(m2, HomesOf(img, f, acts, Len(acts)), g2, bp, Last(acts).vals)
<1> DEFINE N == Len(acts)
           a == Last(acts)
           M == NumLocals(img.prog, a.fun)
           hs == HomesOf(img, f, acts, N)
           v == Path(acts)
           items == ItemsOf(f)
<1>1. v = EntryTo(acts, N) /\ N \in 1..N /\ a = acts[N]
  BY StartedPath
<1>2. ActsOK(img, f, acts) /\ FramesOK(img)
  BY DEF Started, Supported
<1>3. a.fun \in DOMAIN img.prog.body
  BY <1>1, <1>2, ActsInBody
<1>4. /\ Len(hs) = M
      /\ HomesOK(img, f, hs)
      /\ \A j \in 1..M :
           /\ hs[j].kind = img.prog.locals[a.fun][j].opt
           /\ hs[j].kind = "direct" => hs[j].offset = OptOffset(img.prog, items, v, j)
           /\ hs[j].kind = "register" => hs[j].offset = OptRegister(items, v)
           /\ hs[j].kind = "constant" => hs[j].offset = ConstantOf(img.prog, a.fun, j)
  BY <1>1, <1>2, HomesInFrame DEF ItemsOf
<1>5. /\ a.vals = [j \in 1..M |-> a.vals[j]] /\ Len(a.vals) = M
      /\ \A j \in 1..M : img.prog.locals[a.fun][j].opt = "constant" =>
                           a.vals[j] = ConstantOf(img.prog, a.fun, j)
  <2>1. a = NewAct(a.fun, n)
    BY DEF Started
  <2> HIDE DEF a
  <2>2. Len(NewAct(a.fun, n).vals) = NumLocals(img.prog, a.fun)
    BY <1>2, <1>3, NewActOK
  <2>3. a.vals = NewVals(a.fun, n)
    BY <2>1 DEF NewAct
  <2> DEFINE vals == NewVals(a.fun, n)
  <2>4. /\ vals = [j \in 1..M |-> vals[j]]
        /\ \A j \in 1..M : img.prog.locals[a.fun][j].opt = "constant" =>
                             vals[j] = ConstantOf(img.prog, a.fun, j)
    BY DEF NewVals
  <2> QED BY <2>1, <2>2, <2>3, <2>4
<1>6. \A i, j \in 1..M : Clash(hs[i], hs[j]) => i = j
  BY <1>1, <1>2, <1>4, HomesApart
<1> DEFINE isDirect == {j \in 1..Len(a.vals) : img.prog.locals[a.fun][j].opt = "direct"}
           slot == [j \in isDirect |-> bp + OptOffset(img.prog, items, v, j)]
           value(x) == a.vals[CHOOSE j \in isDirect : slot[j] = x]
           js == {j \in 1..Len(a.vals) : img.prog.locals[a.fun][j].opt = "register"}
           d1 == OptRegister(items, v)
           w == a.vals[CHOOSE j \in js : TRUE]
<1>7. Slots(f, bp, acts) = [x \in {slot[j] : j \in isDirect} |-> value(x)]
  BY Zenon DEF Slots
<1>8. InRegister(f, acts, g) = IF js = {} THEN g ELSE [g EXCEPT ![d1] = w]
  BY Zenon DEF InRegister
<1> HIDE DEF hs, a, M, v, items, N
<1>9. ASSUME NEW j \in 1..M PROVE a.vals[j] = ValueIn(m2, hs[j], g2, bp)
  <2>1. CASE hs[j].kind = "direct"
    <3>1. j \in isDirect /\ slot[j] = bp + hs[j].offset
      BY <1>4, <1>5, <2>1
    <3>2. \A i \in isDirect : slot[i] = slot[j] => i = j
      <4> TAKE i \in isDirect
      <4> HAVE slot[i] = slot[j]
      <4>1. /\ i \in 1..M /\ hs[i].kind = "direct"
            /\ slot[i] = bp + hs[i].offset
        BY Zenon, <1>4, <1>5
      <4>2. hs[i].offset \in Int /\ hs[j].offset \in Int
        <5>1. i \in 1..Len(hs) /\ j \in 1..Len(hs)
          BY Zenon, <1>4, <4>1
        <5>2. /\ hs[i].offset \in (1 - StackSize(img, f))..(-1)
              /\ hs[j].offset \in (1 - StackSize(img, f))..(-1)
          BY Zenon, <1>4, <2>1, <4>1, <5>1 DEF HomesOK
        <5> QED BY <5>2
      <4> HIDE DEF slot, isDirect
      <4>3. hs[i].offset = hs[j].offset
        BY <3>1, <4>1, <4>2
      <4>4. Clash(hs[i], hs[j])
        BY <2>1, <4>1, <4>3 DEF Clash
      <4> QED BY <1>6, <4>1, <4>4
    <3>3. (CHOOSE i \in isDirect : slot[i] = slot[j]) = j
      <4> HIDE DEF slot, isDirect
      <4> QED BY <3>1, <3>2
    <3>4. slot[j] \in DOMAIN Slots(f, bp, acts) /\ Slots(f, bp, acts)[slot[j]] = value(slot[j])
      <4> HIDE DEF slot, isDirect, value
      <4> QED BY <1>7, <3>1
    <3>5. m2[slot[j]] = a.vals[j]
      <4> HIDE DEF slot, isDirect
      <4> QED BY <3>3, <3>4
    <3> HIDE DEF slot
    <3> QED BY <2>1, <3>1, <3>5 DEF ValueIn
  <2>2. CASE hs[j].kind = "register"
    <3>1. j \in js /\ d1 = hs[j].offset
      BY <1>4, <1>5, <2>2
    <3>2. d1 \in RegNums \ {RBP, RSP}
      BY <1>4, <2>2, <3>1 DEF HomesOK
    <3>3. \A i \in js : i = j
      <4> TAKE i \in js
      <4>1. i \in 1..M /\ hs[i].kind = "register" /\ hs[i].offset = d1
        BY <1>4, <1>5
      <4>2. Clash(hs[i], hs[j])
        BY <2>2, <3>1, <4>1 DEF Clash
      <4> QED BY <1>6, <4>1, <4>2
    <3>4. w = a.vals[j]
      <4> HIDE DEF js
      <4>1. (CHOOSE i \in js : TRUE) \in js
        BY <3>1
      <4>2. (CHOOSE i \in js : TRUE) = j
        BY <3>3, <4>1
      <4> QED BY <4>2
    <3>5. InRegister(f, acts, g) = [g EXCEPT ![d1] = w]
      BY Zenon, <1>8, <3>1
    <3> HIDE DEF d1, w
    <3>6. [g EXCEPT ![d1] = w][d1] = w
      <4>1. DOMAIN g = RegNums
        BY Zenon DEF IsRegs
      <4> QED BY <3>2, <4>1
    <3>7. g2[hs[j].offset] = a.vals[j]
      BY <3>1, <3>2, <3>4, <3>5, <3>6
    <3> QED BY <2>2, <3>7 DEF ValueIn
  <2>3. CASE hs[j].kind = "constant"
    <3>1. a.vals[j] = hs[j].offset
      BY <1>4, <1>5, <2>3
    <3> QED BY <2>3, <3>1 DEF ValueIn
  <2>4. hs[j].kind \in {"direct", "register", "constant"}
    BY <1>4 DEF HomesOK
  <2> QED BY <2>1, <2>2, <2>3, <2>4
<1>10. Holds(m2, hs, g2, bp, a.vals)
  BY <1>4, <1>5, <1>9 DEF Holds
<1> QED BY <1>10 DEF hs, a, N

-----------------------------------------------------------------------------
(***************************************************************************)
(* The values of variables while optimized code runs.                      *)
(***************************************************************************)
\* The places of an activation do not depend on the sites after its start.
LEMMA HomesSame ==
  ASSUME NEW acts, NEW acts2, NEW k \in Nat, \A n \in 1..(k - 1) : acts2[n] = acts[n],
         acts2[k].fun = acts[k].fun
  PROVE  EntryTo(acts2, k) = EntryTo(acts, k)
<1>1. \A n \in 1..k : <<acts2[n].fun, IF n = k THEN 1 ELSE acts2[n].at>>
                        = <<acts[n].fun, IF n = k THEN 1 ELSE acts[n].at>>
  <2> TAKE n \in 1..k
  <2>1. n = k \/ (n # k /\ n \in 1..(k - 1))
    OBVIOUS
  <2> QED BY <2>1
<1> QED BY Zenon, <1>1 DEF EntryTo

\* What is known of the places of a frame of the stack.
LEMMA FrameHomes ==
  ASSUME NEW b, Supported(b), VariablesOK(b), NEW ph, StackOK(b, ph), NEW n \in 1..Len(ph),
         NEW k \in 1..Len(ph[n].acts)
  PROVE  /\ ActsOK(b, ph[n].fun, ph[n].acts) /\ ph[n].fun \in FunctionsRun(b)
         /\ HomesOK(b, ph[n].fun, HomesOf(b, ph[n].fun, ph[n].acts, k))
<1>1. FrameOK(b, ph[n])
  BY DEF StackOK
<1>2. ActsOK(b, ph[n].fun, ph[n].acts) /\ ph[n].fun \in FunctionsRun(b)
  BY <1>1 DEF FrameOK
<1>3. FramesOK(b)
  BY DEF Supported
<1> QED BY <1>2, <1>3, HomesInFrame

\* The words of frame n that hold variables, and all other words in use.
LEMMA FrameWords ==
  ASSUME NEW b, Supported(b), NEW ph, StackOK(b, ph), NEW n \in 1..Len(ph),
         NEW d \in (1 - StackSize(b, ph[n].fun))..(-1)
  PROVE  LET x == ph[n].bp + d IN
         /\ x \in Stack /\ x < MainBp
         /\ x > Last(ph).bp - StackSize(b, Last(ph).fun)
         /\ n < Len(ph) => x > Last(ph).bp + 1
         /\ \A i \in 1..Len(ph) : x # ph[i].bp + 1
<1> DEFINE N == Len(ph)
           x == ph[n].bp + d
           size == StackSize(b, ph[n].fun)
<1>1. N \in Nat /\ N \in 1..N /\ Last(ph) = ph[N]
  BY DEF StackOK, IsSeq, Last
<1>2. ph[n].bp \in Int /\ ph[n].bp <= MainBp /\ size \in Nat \ {0} /\ ph[n].bp - size - 1 > 2
  BY StackRoom
<1>3. x \in Int /\ x > ph[n].bp - size /\ x < ph[n].bp
  BY <1>2
<1>4. \A i \in 1..N : ph[i].bp \in Int
  BY StackRoom
<1>5. \A i \in 1..n : ph[i].bp >= ph[n].bp
  <2> TAKE i \in 1..n
  <2>1. i \in 1..N /\ i <= n
    BY <1>1
  <2> QED BY <2>1 DEF StackOK
<1>6. \A i \in (n + 1)..N : ph[i].bp <= ph[n].bp - size - 1
  <2> TAKE i \in (n + 1)..N
  <2>1. n \in 1..(N - 1) /\ n + 1 \in 1..N /\ i \in 1..N /\ n + 1 <= i
    BY <1>1
  <2>2. CallsFrame(b, ph[n], ph[n + 1])
    BY <2>1 DEF StackOK
  <2>3. ph[n + 1].bp = ph[n].bp - size - 1
    BY <2>2 DEF CallsFrame
  <2>4. ph[i].bp <= ph[n + 1].bp
    BY <2>1 DEF StackOK
  <2> QED BY <2>3, <2>4
<1>7. StackSize(b, ph[N].fun) \in Nat
  BY <1>1, StackRoom
<1> HIDE DEF size
<1>8. x > ph[N].bp - StackSize(b, ph[N].fun) /\ (n < N => x > ph[N].bp + 1)
  <2>1. CASE n = N
    BY <1>3, <2>1 DEF size
  <2>2. CASE n # N
    <3>1. N \in (n + 1)..N
      BY <1>1, <2>2
    <3>2. ph[N].bp <= ph[n].bp - size - 1
      BY <1>6, <3>1
    <3> HIDE DEF x
    <3> QED BY <1>1, <1>2, <1>3, <1>4, <1>7, <3>2
  <2> QED BY <2>1, <2>2
<1>9. \A i \in 1..N : x # ph[i].bp + 1
  <2> TAKE i \in 1..N
  <2>1. CASE i \in 1..n
    <3>1. ph[i].bp >= ph[n].bp /\ ph[i].bp \in Int
      BY <1>4, <1>5, <2>1
    <3> HIDE DEF x
    <3> QED BY <1>2, <1>3, <3>1
  <2>2. CASE i \in (n + 1)..N
    <3>1. ph[i].bp <= ph[n].bp - size - 1 /\ ph[i].bp \in Int
      BY <1>4, <1>6, <2>2
    <3> HIDE DEF x
    <3> QED BY <1>2, <1>3, <3>1
  <2> QED BY <1>1, <2>1, <2>2
<1>10. x \in Stack /\ x < MainBp
  <2>1. x >= 1 /\ x < MainBp
    BY <1>2, <1>3, MemoryAssumption
  <2> QED BY <1>3, <2>1, MemoryAssumption DEF Stack
<1> QED BY <1>1, <1>8, <1>9, <1>10

\* Variables of a frame stay where they are if the words of the frame stay.
LEMMA KeptWords ==
  ASSUME NEW b, Supported(b), VariablesOK(b), NEW ph, StackOK(b, ph), NEW n \in 1..Len(ph),
         NEW k \in 1..Len(ph[n].acts), NEW m, NEW g, Kept(b, m, ph[n], k, g), NEW m2,
         \A d \in (1 - StackSize(b, ph[n].fun))..(-1) : m2[ph[n].bp + d] = m[ph[n].bp + d]
  PROVE  Kept(b, m2, ph[n], k, g)
<1> DEFINE hs == HomesOf(b, ph[n].fun, ph[n].acts, k)
           vals == ph[n].acts[k].vals
           bp == ph[n].bp
           f == ph[n].fun
<1>1. HomesOK(b, f, hs)
  BY FrameHomes
<1>2. Holds(m, hs, g, bp, vals)
  BY DEF Kept
<1>3. \A j \in 1..Len(hs) : hs[j].kind = "direct" => m2[bp + hs[j].offset] = m[bp + hs[j].offset]
  <2> HIDE DEF hs
  <2> QED BY <1>1 DEF HomesOK
<1> HIDE DEF hs, bp, vals, f
<1>4. Holds(m2, hs, g, bp, vals)
  BY <1>1, <1>2, <1>3, HoldsSame
<1> QED BY <1>4 DEF Kept, hs, bp, vals, f

\* What is written outside of the frames changes no variable.
LEMMA ValuesElsewhere ==
  ASSUME NEW b, Supported(b), VariablesOK(b), NEW ph, StackOK(b, ph), NEW m, ValuesKept(b, ph, m),
         NEW m2,
         \A x \in Stack : /\ x > Last(ph).bp - StackSize(b, Last(ph).fun) /\ x < MainBp
                          /\ \A i \in 2..Len(ph) : x # ph[i].bp + 1
                          => m2[x] = m[x]
  PROVE  ValuesKept(b, ph, m2)
<1>1. Len(ph) \in Nat
  BY DEF StackOK, IsSeq
<1>2. ASSUME NEW n \in 1..Len(ph), NEW k \in 1..Len(ph[n].acts), NEW g, Kept(b, m, ph[n], k, g)
      PROVE  Kept(b, m2, ph[n], k, g)
  <2>1. ASSUME NEW d \in (1 - StackSize(b, ph[n].fun))..(-1)
        PROVE  m2[ph[n].bp + d] = m[ph[n].bp + d]
    <3> DEFINE x == ph[n].bp + d
    <3>1. /\ x \in Stack /\ x < MainBp
          /\ x > Last(ph).bp - StackSize(b, Last(ph).fun)
          /\ \A i \in 1..Len(ph) : x # ph[i].bp + 1
      BY FrameWords
    <3>2. \A i \in 2..Len(ph) : x # ph[i].bp + 1
      BY <1>1, <3>1
    <3> HIDE DEF x
    <3>3. m2[x] = m[x]
      BY <3>1, <3>2
    <3> QED BY <3>3 DEF x
  <2> QED BY <1>2, <2>1, KeptWords
<1>3. \A n \in 1..Len(ph) : \A k \in 1..Len(ph[n].acts) : Kept(b, m2, ph[n], k, ph[n].regs)
  BY <1>2 DEF ValuesKept
<1>4. \A n \in 1..(Len(ph) - 1) : Kept(b, m2, ph[n], Len(ph[n].acts), ph[n + 1].regs)
  <2> TAKE n \in 1..(Len(ph) - 1)
  <2>1. n \in 1..Len(ph)
    BY <1>1
  <2>2. Len(ph[n].acts) \in 1..Len(ph[n].acts)
    <3>1. ActsOK(b, ph[n].fun, ph[n].acts)
      BY <2>1 DEF StackOK, FrameOK
    <3> QED BY <3>1 DEF ActsOK, IsSeq
  <2>3. Kept(b, m, ph[n], Len(ph[n].acts), ph[n + 1].regs)
    BY DEF ValuesKept
  <2> QED BY <1>2, <2>1, <2>2, <2>3
<1> QED BY <1>3, <1>4 DEF ValuesKept

\* The stack ph2 is ph up to frame M, whose last activation may go on or end.
CutTo(ph, ph2, M) ==
  /\ Len(ph2) = M /\ M \in 1..Len(ph)
  /\ \A i \in 1..(M - 1) : ph2[i] = ph[i]
  /\ ph2[M].fun = ph[M].fun /\ ph2[M].bp = ph[M].bp /\ ph2[M].regs = ph[M].regs
  /\ LET K == Len(ph2[M].acts) IN
     /\ K \in 1..Len(ph[M].acts)
     /\ \A k \in 1..(K - 1) : ph2[M].acts[k] = ph[M].acts[k]
     /\ ph2[M].acts[K].fun = ph[M].acts[K].fun /\ ph2[M].acts[K].vals = ph[M].acts[K].vals

\* Then its variables are where they were.
LEMMA ValuesCut ==
  ASSUME NEW b, NEW ph, StackOK(b, ph), NEW m, ValuesKept(b, ph, m), NEW ph2, NEW M,
         CutTo(ph, ph2, M)
  PROVE  ValuesKept(b, ph2, m)
<1> DEFINE K == Len(ph2[M].acts)
<1>1. Len(ph) \in Nat /\ M \in 1..Len(ph) /\ Len(ph2) = M /\ M \in Nat
  BY DEF StackOK, IsSeq, CutTo
<1>2. Len(ph[M].acts) \in Nat /\ K \in 1..Len(ph[M].acts) /\ K \in Nat
  BY <1>1 DEF StackOK, FrameOK, ActsOK, IsSeq, CutTo
<1>3. \A k \in 1..K : Kept(b, m, ph2[M], k, ph2[M].regs)
  <2> TAKE k \in 1..K
  <2> DEFINE acts == ph[M].acts
             acts2 == ph2[M].acts
  <2>1. \A i \in 1..(K - 1) : acts2[i] = acts[i]
    BY DEF CutTo
  <2>2. acts2[k].fun = acts[k].fun /\ acts2[k].vals = acts[k].vals
    <3>1. k = K \/ k \in 1..(K - 1)
      BY <1>2
    <3>2. acts2[K].fun = acts[K].fun /\ acts2[K].vals = acts[K].vals
      BY DEF CutTo
    <3> QED BY <2>1, <3>1, <3>2
  <2>3. k \in Nat /\ \A i \in 1..(k - 1) : acts2[i] = acts[i]
    BY <1>2, <2>1
  <2> HIDE DEF acts, acts2
  <2>4. EntryTo(acts2, k) = EntryTo(acts, k)
    BY <2>2, <2>3, HomesSame
  <2>5. Kept(b, m, ph[M], k, ph[M].regs)
    BY <1>1, <1>2 DEF ValuesKept
  <2>6. ph2[M].fun = ph[M].fun /\ ph2[M].bp = ph[M].bp /\ ph2[M].regs = ph[M].regs
    BY DEF CutTo
  <2> QED BY <2>2, <2>4, <2>5, <2>6 DEF Kept, HomesOf, acts, acts2
<1>4. \A n \in 1..(M - 1) : ph2[n] = ph[n] /\ n \in 1..Len(ph) /\ n \in 1..(Len(ph) - 1)
  BY <1>1 DEF CutTo
<1>5. \A n \in 1..M : \A k \in 1..Len(ph2[n].acts) : Kept(b, m, ph2[n], k, ph2[n].regs)
  <2> TAKE n \in 1..M
  <2>1. n = M \/ n \in 1..(M - 1)
    BY <1>1
  <2>2. CASE n = M
    BY <1>3, <2>2
  <2>3. CASE n \in 1..(M - 1)
    BY <1>4, <2>3 DEF ValuesKept
  <2> QED BY <2>1, <2>2, <2>3
<1>6. \A n \in 1..(M - 1) : Kept(b, m, ph2[n], Len(ph2[n].acts), ph2[n + 1].regs)
  <2> TAKE n \in 1..(M - 1)
  <2>1. ph2[n + 1].regs = ph[n + 1].regs
    <3>1. n + 1 = M \/ n + 1 \in 1..(M - 1)
      BY <1>1
    <3> QED BY <3>1 DEF CutTo
  <2>2. ph2[n] = ph[n] /\ n \in 1..(Len(ph) - 1)
    BY <1>4
  <2> QED BY <2>1, <2>2 DEF ValuesKept
<1> QED BY <1>1, <1>5, <1>6 DEF ValuesKept

\* No register is in both lists.
RegistersApart(own, other) ==
  \A i \in 1..Len(own) : \A j \in 1..Len(other) :
    own[i].kind = "register" /\ other[j].kind = "register" => own[i].offset # other[j].offset

\* A callee keeps no variable in a register in which its caller keeps one.
LEMMA CallerApart ==
  ASSUME NEW b, Supported(b), VariablesOK(b), NEW p, FrameOK(b, p), AtSiteOf(b, p, "call"),
         NEW g, g = b.prog.body[Last(p.acts).fun][Last(p.acts).at].callee,
         NEW acts, ActsOK(b, g, acts), NEW k \in 1..Len(acts)
  PROVE  RegistersApart(HomesOf(b, p.fun, p.acts, Len(p.acts)), HomesOf(b, g, acts, k))
<1> DEFINE w == Path(p.acts)
           v == EntryTo(acts, k)
           own == HomesOf(b, p.fun, p.acts, Len(p.acts))
           other == HomesOf(b, g, acts, k)
<1>1. ActsOK(b, p.fun, p.acts) /\ p.fun \in FunctionsRun(b) /\ CodeOK(b)
  BY DEF FrameOK, Supported
<1>2. Len(p.acts) \in 1..Len(p.acts)
  BY <1>1, LastAct
<1>3. /\ w \in SitePaths(b, p.fun) /\ Len(w) = Len(p.acts)
      /\ SiteOf(b, w).kind = "call" /\ SiteOf(b, w).callee = g
  BY Zenon, <1>1, PathAtSite DEF AtSiteOf
<1>4. CallSaves(b, p.fun, w)
  BY Zenon, <1>1, <1>3 DEF VariablesOK, CallVariables
<1>5. own = VariablesAt(b, p.fun, EntryAt(w, Len(w)))
  <2>1. EntryAt(w, Len(p.acts)) = EntryTo(p.acts, Len(p.acts))
    <3> DEFINE as == p.acts
               f == p.fun
    <3>1. ActsOK(b, f, as) /\ Len(as) \in 1..Len(as)
      BY <1>1, <1>2
    <3> HIDE DEF as, f
    <3>2. EntryAt(Path(as), Len(as)) = EntryTo(as, Len(as))
      BY Zenon, <3>1, EntryToPath
    <3> QED BY <3>2 DEF as
  <2> HIDE DEF w
  <2> QED BY Zenon, <1>3, <2>1 DEF HomesOf
<1>6. v \in EntryPaths(b, g)
  BY Zenon, EntryToPath
<1>7. other = VariablesAt(b, g, v)
  BY DEF HomesOf
<1> HIDE DEF v, w, own, other
<1>8. \A i \in 1..Len(own) : \A j \in 1..Len(other) :
        own[i].kind = "register" => ~Clash(own[i], other[j])
  <2> DEFINE own1 == VariablesAt(b, p.fun, EntryAt(w, Len(w)))
             other1 == VariablesAt(b, SiteOf(b, w).callee, v)
  <2>1. v \in EntryPaths(b, SiteOf(b, w).callee)
    BY Zenon, <1>3, <1>6
  <2>2. \A i \in 1..Len(own1) : \A j \in 1..Len(other1) :
          own1[i].kind = "register" => ~Clash(own1[i], other1[j])
    BY Zenon, <1>4, <2>1 DEF CallSaves
  <2>3. own1 = own /\ other1 = other
    BY Zenon, <1>3, <1>5, <1>7
  <2> HIDE DEF own1, other1
  <2> QED BY <2>2, <2>3
<1>9. \A i \in 1..Len(own) : \A j \in 1..Len(other) :
        own[i].kind = "register" /\ other[j].kind = "register" => own[i].offset # other[j].offset
  <2> TAKE i \in 1..Len(own)
  <2> TAKE j \in 1..Len(other)
  <2>1. own[i].kind = "register" => ~Clash(own[i], other[j])
    BY <1>8
  <2> QED BY <2>1 DEF Clash
<1>10. RegistersApart(own, other)
  BY Zenon, <1>9 DEF RegistersApart
<1> QED BY Zenon, <1>10 DEF own, other

\* The registers of a frame that a call makes.
LEMMA NewFrameRegs ==
  ASSUME NEW f, NEW n, NEW bp, NEW g, IsRegs(InRegister(f, <<NewAct(f, n)>>, g))
  PROVE  \A d \in RegNums \ {RBP, RSP} :
           NewFrame(f, n, bp, g).regs[d] = InRegister(f, <<NewAct(f, n)>>, g)[d]
<1> DEFINE g1 == InRegister(f, <<NewAct(f, n)>>, g)
           rsp == bp - (StackSize(img, f) - ADDR_SIZE)
           g3 == [g1 EXCEPT ![RBP] = bp, ![RSP] = rsp]
<1>1. NewFrame(f, n, bp, g).regs = g3
  BY DEF NewFrame
<1>2. DOMAIN g1 = RegNums
  BY Zenon DEF IsRegs
<1> HIDE DEF g1, rsp
<1>3. \A d \in RegNums \ {RBP, RSP} : g3[d] = g1[d]
  BY <1>2
<1> QED BY <1>1, <1>3 DEF g1

\* What OptCall does to memory.
LEMMA CallWrites ==
  ASSUME Supported(img), StackOK(img, phys), StackOK(img, phys'), IsMem(mem), OptCall
  PROVE  LET rsp == TopFrame.regs[RSP]
             frame == NewFrame(TopSite.callee, calls + 1, rsp - 2, TopFrame.regs)
             slots == Slots(frame.fun, frame.bp, frame.acts)
         IN  /\ img' = img /\ phys' = Append(phys, frame)
             /\ TopSite.callee \in FunctionsRun(img)
             /\ AtSiteOf(img, TopFrame, "call")
             /\ TopSite = img.prog.body[Last(TopFrame.acts).fun][Last(TopFrame.acts).at]
             /\ rsp - 2 \in Int
             /\ frame.fun = TopSite.callee /\ frame.bp = rsp - 2
             /\ frame.acts = <<NewAct(TopSite.callee, calls + 1)>>
             /\ \A x \in DOMAIN slots : mem'[x] = slots[x]
             /\ \A x \in Stack : x > rsp - 1 => mem'[x] = mem[x]
<1> DEFINE p == TopFrame
           N == Len(phys)
           rsp == p.regs[RSP]
           frame == NewFrame(TopSite.callee, calls + 1, rsp - 2, p.regs)
           back == OptAddr(img, p.fun, Path(p.acts))
           slots == Slots(frame.fun, frame.bp, frame.acts)
           size == StackSize(img, frame.fun)
<1>1. /\ AtOptSite /\ TopSite.kind = "call"
      /\ img' = img /\ phys' = Append(phys, frame)
      /\ mem' = [Write(mem, slots) EXCEPT ![rsp - 1] = back, ![rsp - 2] = p.bp]
  BY Zenon DEF OptCall
<1>2. /\ N \in 1..N /\ p = phys[N] /\ FrameOK(img, p)
      /\ rsp - 2 \in Stack /\ rsp - 1 \in Stack /\ rsp - 1 = (rsp - 2) + 1
  BY TopOK
<1>3. /\ TopSite.callee \in FunctionsRun(img) /\ AtSiteOf(img, p, "call") /\ TopAct = Last(p.acts)
  BY <1>1, TopSiteOK
<1>4. /\ frame.fun = TopSite.callee /\ frame.bp = rsp - 2
      /\ frame.acts = <<NewAct(TopSite.callee, calls + 1)>>
      /\ \A a \in DOMAIN slots : a \in (rsp - 2 + 1 - size)..(rsp - 2 - 1)
  <2>1. rsp - 2 \in Int /\ IsRegs(p.regs)
    BY <1>2 DEF FrameOK, Stack
  <2>2. /\ frame.fun = TopSite.callee /\ frame.bp = rsp - 2
        /\ frame.acts = <<NewAct(TopSite.callee, calls + 1)>>
        /\ \A a \in DOMAIN Slots(TopSite.callee, rsp - 2, <<NewAct(TopSite.callee, calls + 1)>>) :
             a \in (rsp - 2 + 1 - StackSize(img, TopSite.callee))..(rsp - 2 - 1)
    <3> HIDE DEF rsp, p
    <3> QED BY <1>3, <2>1, NewFrameOK
  <2> HIDE DEF frame
  <2> QED BY <2>2
<1> HIDE DEF frame, back
<1>5. \A a \in DOMAIN slots : a \in Stack
  <2>3. StackOK(img, phys')
    OBVIOUS
  <2>4. /\ Len(phys') = N + 1 /\ phys'[N + 1] = frame /\ N + 1 \in 1..Len(phys')
    <3>1. IsSeq(phys) /\ N \in Nat
      BY DEF StackOK, IsSeq
    <3> QED BY <1>1, <3>1, AppendAny
  <2>5. frame.bp - size - 1 > 2 /\ frame.bp <= MainBp /\ size \in Nat /\ frame.bp \in Int
    BY <2>3, <2>4, StackRoom
  <2> HIDE DEF size
  <2>6. \A a \in DOMAIN slots : a \in 1..MainBp
    <3> TAKE a \in DOMAIN slots
    <3>1. a \in (frame.bp + 1 - size)..(frame.bp - 1)
      BY <1>4 DEF size
    <3> HIDE DEF slots
    <3> QED BY <2>5, <3>1, MemoryAssumption
  <2> QED BY <2>6, MemoryAssumption DEF Stack
<1> HIDE DEF slots
<1> DEFINE m1 == Write(mem, slots)
<1>6. /\ IsMem(m1)
      /\ \A x \in Stack \cup Heap : x \notin DOMAIN slots => m1[x] = mem[x]
      /\ \A x \in Stack \cup Heap : x \in DOMAIN slots => m1[x] = slots[x]
  BY MemWrite
<1> HIDE DEF m1
<1>7. \A x \in Stack \cup Heap : x # rsp - 1 /\ x # rsp - 2 => mem'[x] = m1[x]
  <2>1. mem' = [m1 EXCEPT ![rsp - 1] = back, ![rsp - 2] = p.bp]
    BY <1>1 DEF m1
  <2> DEFINE y == rsp - 2
             y1 == rsp - 1
  <2>2. y \in Stack \cup Heap /\ y1 \in Stack \cup Heap /\ y # y1
    BY <1>2 DEF Stack
  <2>3. mem' = TwoWritten(m1, y1, back, y, p.bp)
    BY Zenon, <2>1 DEF TwoWritten
  <2> HIDE DEF y, y1
  <2> DEFINE m2 == TwoWritten(m1, y1, back, y, p.bp)
  <2>4. \A x \in Stack \cup Heap : x # y1 /\ x # y => m2[x] = m1[x]
    BY <1>6, <2>2, MemTwo
  <2> HIDE DEF m2
  <2>5. mem' = m2
    BY Zenon, <2>3 DEF m2
  <2> QED BY <2>4, <2>5 DEF y, y1
<1>8. \A x \in DOMAIN slots : mem'[x] = slots[x]
  <2> TAKE x \in DOMAIN slots
  <2>1. x \in Stack /\ x \in Int /\ x < rsp - 2
    <3>1. x \in (rsp - 2 + 1 - size)..(rsp - 2 - 1)
      BY <1>4 DEF slots
    <3> HIDE DEF size
    <3> QED BY <1>2, <1>5, <3>1 DEF Stack
  <2>2. x # rsp - 1 /\ x # rsp - 2
    <3> HIDE DEF rsp
    <3> QED BY <1>2, <2>1 DEF Stack
  <2> QED BY <1>6, <1>7, <2>1, <2>2
<1>9. \A x \in Stack : x > rsp - 1 => mem'[x] = mem[x]
  <2> TAKE x \in Stack
  <2> HAVE x > rsp - 1
  <2>1. x # rsp - 1 /\ x # rsp - 2 /\ x \notin DOMAIN slots
    <3>1. x \in DOMAIN slots => x \in (rsp - 2 + 1 - size)..(rsp - 2 - 1)
      BY <1>4 DEF slots
    <3> HIDE DEF rsp, size
    <3> QED BY <1>2, <3>1 DEF Stack
  <2> QED BY <1>6, <1>7, <2>1
<1>10. rsp - 2 \in Int
  BY <1>2 DEF Stack
<1> HIDE DEF rsp
<1> QED BY Zenon, <1>1, <1>3, <1>4, <1>8, <1>9, <1>10 DEF rsp, frame, slots, TopSite

\* What a callee starts with leaves the variables of its caller alone.
LEMMA CallerKept ==
  ASSUME Supported(img), VariablesOK(img), NEW p, FrameOK(img, p), AtSiteOf(img, p, "call"),
         NEW f \in FunctionsRun(img),
         f = img.prog.body[Last(p.acts).fun][Last(p.acts).at].callee,
         NEW acts, NEW n, Started(f, acts, n), NEW g, IsRegs(g),
         NEW g2, \A d \in RegNums \ {RBP, RSP} : g2[d] = InRegister(f, acts, g)[d],
         NEW m, Kept(img, m, p, Len(p.acts), g)
  PROVE  Kept(img, m, p, Len(p.acts), g2)
<1> DEFINE K == Len(p.acts)
           e == p.fun
           hs == HomesOf(img, e, p.acts, K)
           vals == p.acts[K].vals
           bp == p.bp
           other == HomesOf(img, f, acts, Len(acts))
<1>1. K \in 1..K /\ ActsOK(img, e, p.acts) /\ e \in FunctionsRun(img) /\ FramesOK(img)
  <2>1. ActsOK(img, p.fun, p.acts) /\ p.fun \in FunctionsRun(img) /\ FramesOK(img)
    BY Zenon DEF FrameOK, Supported
  <2> QED BY Zenon, <2>1, LastAct
<1>2. HomesOK(img, e, hs)
  <2> HIDE DEF e
  <2> QED BY Zenon, <1>1, HomesInFrame
<1>3. ActsOK(img, f, acts) /\ Len(acts) \in 1..Len(acts)
  BY Zenon, StartedPath DEF Started
<1>4. RegistersApart(hs, other)
  BY Zenon, <1>3, CallerApart
<1> HIDE DEF hs, K, e
<1>5. ASSUME NEW i \in 1..Len(hs), hs[i].kind = "register"
      PROVE  g2[hs[i].offset] = g[hs[i].offset]
  <2> DEFINE d == hs[i].offset
  <2>1. d \in RegNums \ {RBP, RSP}
    BY Zenon, <1>2, <1>5 DEF HomesOK
  <2>2. g2[d] = InRegister(f, acts, g)[d]
    BY Zenon, <2>1
  <2>3. InRegister(f, acts, g)[d] # g[d] =>
          \E j \in 1..Len(other) : other[j].kind = "register" /\ d = other[j].offset
    <3> DEFINE z == p.bp
    <3>1. z \in Int /\ d \in RegNums
      BY Zenon, <2>1 DEF FrameOK
    <3> HIDE DEF z, d
    <3>2. RegistersOf(other, g, InRegister(f, acts, g))
      BY Zenon, <3>1, StartedWrites
    <3> QED BY Zenon, <3>1, <3>2 DEF RegistersOf
  <2> HIDE DEF other
  <2>4. \A j \in 1..Len(other) : other[j].kind = "register" => d # other[j].offset
    BY Zenon, <1>4, <1>5 DEF RegistersApart
  <2> QED BY Zenon, <2>2, <2>3, <2>4
<1>6. Holds(m, hs, g, bp, vals)
  BY Zenon DEF Kept, hs, K, e
<1> HIDE DEF vals, bp
<1>7. Holds(m, hs, g2, bp, vals)
  BY Zenon, <1>2, <1>5, <1>6, HoldsSame
<1> QED BY Zenon, <1>7 DEF Kept, hs, K, e, vals, bp

\* A call leaves the variables of the other frames alone.
LEMMA CallValues ==
  ASSUME Supported(img), VariablesOK(img), StackOK(img, phys), StackOK(img, phys'), IsMem(mem),
         ValuesKept(img, phys, mem), OptCall
  PROVE  ValuesKept(img, phys', mem')
<1> DEFINE p == TopFrame
           N == Len(phys)
           rsp == p.regs[RSP]
           g == TopSite.callee
           frame == NewFrame(g, calls + 1, rsp - 2, p.regs)
           slots == Slots(frame.fun, frame.bp, frame.acts)
           a == NewAct(g, calls + 1)
           acts == <<a>>
<1>1. /\ phys' = Append(phys, frame)
      /\ g \in FunctionsRun(img) /\ AtSiteOf(img, p, "call")
      /\ g = img.prog.body[Last(p.acts).fun][Last(p.acts).at].callee
      /\ rsp - 2 \in Int
      /\ frame.fun = g /\ frame.bp = rsp - 2 /\ frame.acts = acts
      /\ \A x \in DOMAIN slots : mem'[x] = slots[x]
      /\ \A x \in Stack : x > rsp - 1 => mem'[x] = mem[x]
  BY CallWrites
<1>2. /\ N \in Nat /\ N \in 1..N /\ IsSeq(phys) /\ p = phys[N] /\ FrameOK(img, p)
      /\ rsp - 2 = p.bp - StackSize(img, p.fun) - 1 /\ rsp - 1 = (rsp - 2) + 1
      /\ p.bp \in Int /\ StackSize(img, p.fun) \in Nat
  BY TopOK
<1>3. ValuesKept(img, phys, mem')
  <2>1. Last(phys) = p
    BY <1>2 DEF Last
  <2>2. ASSUME NEW x \in Stack, x > Last(phys).bp - StackSize(img, Last(phys).fun)
        PROVE  mem'[x] = mem[x]
    <3>1. x > rsp - 1
      <4>1. x > p.bp - StackSize(img, p.fun)
        BY <2>1, <2>2
      <4> DEFINE y == rsp - 2
                 z == rsp - 1
                 u == p.bp
                 s == StackSize(img, p.fun)
      <4>2. y = (u - s) - 1 /\ z = y + 1 /\ u \in Int /\ s \in Nat /\ x > u - s
        BY <1>2, <4>1
      <4>3. x \in Int
        BY DEF Stack
      <4> HIDE DEF y, z, u, s
      <4>4. x > z
        BY <4>2, <4>3
      <4> QED BY <4>4 DEF z
    <3> QED BY Zenon, <1>1, <3>1
  <2> QED BY <2>2, ValuesElsewhere
<1>4. /\ Len(phys') = N + 1 /\ phys'[N + 1] = frame
      /\ \A i \in 1..N : phys'[i] = phys[i]
  <2>1. phys' = Append(phys, frame) /\ IsSeq(phys)
    BY Zenon, <1>1, <1>2
  <2> HIDE DEF frame
  <2> QED BY <2>1, AppendAny
<1>5. /\ Started(g, acts, calls + 1) /\ Len(acts) = 1 /\ Last(acts) = a /\ acts[1] = a
      /\ IsRegs(InRegister(g, acts, p.regs)) /\ IsRegs(p.regs)
  <2>1. FramesOK(img) /\ ProgramOK(img) /\ g \in DOMAIN img.prog.body
    BY Zenon, <1>1, RunsInBody DEF Supported
  <2>2. IsAct(a) /\ a.fun = g /\ a.at = 1
    <3> HIDE DEF g
    <3> QED BY <2>1, NewActOK
  <2>3. a = NewAct(a.fun, calls + 1)
    <3> HIDE DEF g
    <3> QED BY <2>2
  <2> HIDE DEF a, g
  <2>4. /\ ActsOK(img, g, acts) /\ Path(acts) \in EntryPaths(img, g)
        /\ Last(Path(acts))[1] = a.fun /\ Last(acts) = a /\ Len(acts) = 1
    BY Zenon, <1>1, <2>1, <2>2, FirstAct
  <2>5. Started(g, acts, calls + 1)
    BY <2>3, <2>4 DEF Started
  <2>6. IsRegs(p.regs)
    BY <1>2 DEF FrameOK
  <2> HIDE DEF p
  <2>7. IsRegs(InRegister(g, acts, p.regs))
    BY Zenon, <1>1, <2>1, <2>4, <2>6, RegistersKept
  <2> QED BY <2>4, <2>5, <2>6, <2>7
<1>6. \A d \in RegNums \ {RBP, RSP} : frame.regs[d] = InRegister(g, acts, p.regs)[d]
  <2> HIDE DEF g, p, rsp
  <2> QED BY <1>5, NewFrameRegs
<1> HIDE DEF frame
<1>7. Kept(img, mem', frame, 1, frame.regs)
  <2> DEFINE bp == rsp - 2
             g0 == p.regs
             g2 == frame.regs
  <2>1. \A x \in DOMAIN Slots(g, bp, acts) : mem'[x] = Slots(g, bp, acts)[x]
    BY Zenon, <1>1
  <2>2. bp \in Int /\ IsRegs(g0) /\ \A d \in RegNums \ {RBP, RSP} : g2[d] = InRegister(g, acts, g0)[d]
    BY Zenon, <1>1, <1>5, <1>6
  <2> HIDE DEF bp, g0, g2, g, acts
  <2>3. Holds(mem', HomesOf(img, g, acts, Len(acts)), g2, bp, Last(acts).vals)
    <3> DEFINE m2 == mem'
    <3>1. \A x \in DOMAIN Slots(g, bp, acts) : m2[x] = Slots(g, bp, acts)[x]
      BY <2>1
    <3>2. g \in FunctionsRun(img) /\ Started(g, acts, calls + 1)
      BY Zenon, <1>1, <1>5
    <3> HIDE DEF m2
    <3>3. Holds(m2, HomesOf(img, g, acts, Len(acts)), g2, bp, Last(acts).vals)
      BY <2>2, <3>1, <3>2, StartedHolds
    <3> QED BY <3>3 DEF m2
  <2>4. Last(acts).vals = frame.acts[1].vals
    BY Zenon, <1>1, <1>5
  <2> QED BY Zenon, <1>1, <1>5, <2>3, <2>4 DEF Kept, bp, g2
<1>8. Kept(img, mem', p, Len(p.acts), frame.regs)
  <2> DEFINE m2 == mem'
             g0 == p.regs
             g2 == frame.regs
  <2>1. Kept(img, m2, p, Len(p.acts), g0)
    <3>1. Len(p.acts) \in 1..Len(p.acts)
      <4>1. ActsOK(img, p.fun, p.acts)
        BY <1>2 DEF FrameOK
      <4> QED BY <4>1, LastAct
    <3> QED BY <1>2, <1>3, <3>1 DEF ValuesKept
  <2>2. \A d \in RegNums \ {RBP, RSP} : g2[d] = InRegister(g, acts, g0)[d]
    BY <1>6
  <2>3. /\ IsRegs(g0) /\ Started(g, acts, calls + 1) /\ g \in FunctionsRun(img)
        /\ FrameOK(img, p) /\ AtSiteOf(img, p, "call")
        /\ g = img.prog.body[Last(p.acts).fun][Last(p.acts).at].callee
    BY Zenon, <1>1, <1>2, <1>5
  <2> HIDE DEF m2, g0, g2, g, acts, p
  <2>4. Kept(img, m2, p, Len(p.acts), g2)
    BY Zenon, <2>1, <2>2, <2>3, CallerKept
  <2> QED BY <2>4 DEF m2, g2
<1> HIDE DEF p, g, acts, a, rsp
<1>9. \A n \in 1..(N + 1) : \A k \in 1..Len(phys'[n].acts) : Kept(img, mem', phys'[n], k, phys'[n].regs)
  <2> TAKE n \in 1..(N + 1)
  <2> TAKE k \in 1..Len(phys'[n].acts)
  <2>1. CASE n = N + 1
    <3>1. phys'[n] = frame /\ k \in 1..1
      BY Zenon, <1>1, <1>4, <1>5, <2>1
    <3>2. k = 1
      BY <3>1
    <3> QED BY <1>7, <3>1, <3>2
  <2>2. CASE n # N + 1
    <3>1. n \in 1..N
      BY <1>2, <2>2
    <3> QED BY <1>3, <1>4, <3>1 DEF ValuesKept
  <2> QED BY <2>1, <2>2
<1>10. \A n \in 1..N : Kept(img, mem', phys'[n], Len(phys'[n].acts), phys'[n + 1].regs)
  <2> TAKE n \in 1..N
  <2>1. CASE n = N
    BY <1>2, <1>4, <1>8, <2>1
  <2>2. CASE n # N
    <3>1. n \in 1..(N - 1) /\ n + 1 \in 1..N
      BY <1>2, <2>2
    <3>2. phys'[n + 1] = phys[n + 1] /\ phys'[n] = phys[n]
      BY <1>4, <3>1
    <3> QED BY <1>3, <3>1, <3>2 DEF ValuesKept
  <2> QED BY <2>1, <2>2
<1>11. Len(phys') = N + 1 /\ Len(phys') - 1 = N
  BY <1>2, <1>4
<1> QED BY <1>9, <1>10, <1>11 DEF ValuesKept

\* What OptInlinedCall does to the top frame and to memory.
InlinedCallDone(p, q) ==
  /\ q.fun = p.fun /\ q.bp = p.bp
  /\ q.acts = Append(p.acts, NewAct(TopSite.callee, calls + 1))
  /\ q.regs = InRegister(p.fun, q.acts, p.regs)
  /\ Started(p.fun, q.acts, calls + 1)
  /\ \A x \in DOMAIN Slots(p.fun, p.bp, q.acts) :
       mem'[x] = Slots(p.fun, p.bp, q.acts)[x] /\ x < p.bp
  /\ \A x \in Stack : x \notin DOMAIN Slots(p.fun, p.bp, q.acts) => mem'[x] = mem[x]

LEMMA InlinedCallWrites ==
  ASSUME Supported(img), StackOK(img, phys), IsMem(mem), OptInlinedCall
  PROVE  /\ img' = img /\ Len(phys') = Len(phys)
         /\ \A i \in 1..(Len(phys) - 1) : phys'[i] = phys[i]
         /\ InlinedCallDone(TopFrame, phys'[Len(phys)])
<1> DEFINE p == TopFrame
           N == Len(phys)
           n == calls + 1
           a == NewAct(TopSite.callee, n)
           acts == Append(p.acts, a)
           regs == InRegister(p.fun, acts, p.regs)
           q == [fun |-> p.fun, bp |-> p.bp, acts |-> acts, regs |-> regs]
           slots == Slots(p.fun, p.bp, acts)
<1>1. /\ AtOptSite /\ TopSite.kind = "inlined"
      /\ phys' = [phys EXCEPT ![N] = q]
      /\ mem' = Write(mem, slots)
      /\ img' = img
  BY Zenon DEF OptInlinedCall
<1>2. /\ N \in Nat /\ N >= 1 /\ N \in 1..N /\ p = phys[N] /\ FrameOK(img, p) /\ IsSeq(phys)
      /\ p.fun \in FunctionsRun(img) /\ p.bp \in Int /\ p.bp <= MainBp
      /\ StackSize(img, p.fun) \in Nat \ {0} /\ p.bp - StackSize(img, p.fun) - 1 > 2
      /\ ProgramOK(img) /\ CodeOK(img) /\ FramesOK(img)
  BY TopOK DEF Supported
<1>3. ActsOK(img, p.fun, p.acts)
  BY <1>2 DEF FrameOK
<1>4. /\ TopAct = Last(p.acts) /\ TopAct.at <= Len(img.prog.body[TopAct.fun])
      /\ TopSite.callee \in DOMAIN img.prog.body /\ IsInlined(TopSite)
  BY <1>1, TopSiteOK DEF AtOptSite, IsGuard, IsInlined
<1>5. /\ IsAct(a) /\ a.at = 1 /\ a.fun = TopSite.callee
      /\ Len(a.vals) = NumLocals(img.prog, a.fun) /\ a = NewAct(a.fun, n)
  <2> DEFINE c == TopSite.callee
  <2>1. /\ IsAct(NewAct(c, n)) /\ NewAct(c, n).at = 1 /\ NewAct(c, n).fun = c
        /\ Len(NewAct(c, n).vals) = NumLocals(img.prog, c)
    BY <1>2, <1>4, NewActOK
  <2> HIDE DEF c
  <2>2. NewAct(c, n) = NewAct(NewAct(c, n).fun, n)
    BY <2>1
  <2> QED BY <2>1, <2>2 DEF c
<1> HIDE DEF a
<1>6. /\ ActsOK(img, p.fun, acts) /\ Path(acts) \in EntryPaths(img, p.fun)
      /\ Last(Path(acts))[1] = a.fun /\ Last(acts) = a
  <2> DEFINE f == p.fun
             as == p.acts
  <2>1. TopSite = img.prog.body[Last(as).fun][Last(as).at]
    BY <1>4 DEF TopSite
  <2>2. f \in FunctionsRun(img) /\ ActsOK(img, f, as)
    BY <1>2, <1>3
  <2>3. /\ a.fun = img.prog.body[Last(as).fun][Last(as).at].callee
        /\ IsInlined(img.prog.body[Last(as).fun][Last(as).at])
        /\ Last(as).at <= Len(img.prog.body[Last(as).fun])
        /\ IsAct(a) /\ a.at = 1
    BY Zenon, <1>4, <1>5, <2>1
  <2>5. ProgramOK(img) /\ CodeOK(img)
    BY <1>2
  <2> HIDE DEF f, as
  <2>4. /\ ActsOK(img, f, Append(as, a))
        /\ Path(Append(as, a)) \in EntryPaths(img, f)
        /\ Last(Path(Append(as, a)))[1] = a.fun
        /\ Last(Append(as, a)) = a
        /\ Len(Append(as, a)) = Len(as) + 1
    BY Zenon, <2>2, <2>3, <2>5, PushedActs
  <2> QED BY <2>4 DEF f, as
<1>7. Started(p.fun, acts, n)
  <2> HIDE DEF acts, n
  <2> QED BY <1>5, <1>6 DEF Started
<1>8. \A x \in DOMAIN slots : x \in Stack /\ x < p.bp
  <2> DEFINE f == p.fun
             bp == p.bp
             size == StackSize(img, f)
  <2>1. /\ f \in FunctionsRun(img) /\ bp \in Int /\ Path(acts) \in EntryPaths(img, f)
        /\ Last(Path(acts))[1] = Last(acts).fun
        /\ Len(Last(acts).vals) = NumLocals(img.prog, Last(acts).fun)
        /\ bp <= MainBp /\ size \in Nat /\ bp - size - 1 > 2
    BY <1>2, <1>5, <1>6
  <2> HIDE DEF f, bp, acts
  <2>2. \A x \in DOMAIN Slots(f, bp, acts) : x \in (bp + 1 - size)..(bp - 1)
    BY <1>2, <2>1, SlotsInside
  <2> HIDE DEF size
  <2>3. \A x \in (bp + 1 - size)..(bp - 1) : x \in Stack /\ x < bp
    BY <2>1, MemoryAssumption DEF Stack
  <2>4. \A x \in DOMAIN Slots(f, bp, acts) : x \in Stack /\ x < bp
    BY <2>2, <2>3
  <2> QED BY <2>4 DEF f, bp, acts
<1> HIDE DEF slots, regs, acts
<1>9. /\ \A x \in DOMAIN slots : mem'[x] = slots[x]
      /\ \A x \in Stack : x \notin DOMAIN slots => mem'[x] = mem[x]
  <2>1. /\ \A x \in Stack \cup Heap : x \notin DOMAIN slots => Write(mem, slots)[x] = mem[x]
        /\ \A x \in Stack \cup Heap : x \in DOMAIN slots => Write(mem, slots)[x] = slots[x]
    BY MemWrite
  <2> QED BY <1>1, <1>8, <2>1
<1>10. /\ q.fun = p.fun /\ q.bp = p.bp /\ q.acts = acts /\ q.regs = regs
  OBVIOUS
<1> HIDE DEF q
<1>11. /\ Len(phys') = N /\ \A i \in 1..(N - 1) : phys'[i] = phys[i]
       /\ phys'[N] = q
  BY <1>1, <1>2, LastChanged
<1>12. InlinedCallDone(p, q)
  <2>1. q.acts = Append(p.acts, NewAct(TopSite.callee, calls + 1))
    BY <1>10 DEF acts, a
  <2>2. slots = Slots(p.fun, p.bp, q.acts) /\ regs = InRegister(p.fun, q.acts, p.regs)
    BY <1>10 DEF slots, regs
  <2>3. Started(p.fun, q.acts, calls + 1)
    BY <1>7, <1>10
  <2> HIDE DEF p
  <2> QED BY <1>8, <1>9, <1>10, <2>1, <2>2, <2>3 DEF InlinedCallDone
<1> QED BY <1>1, <1>11, <1>12

\* The variables of the activations in the frame of an inlined call.
LEMMA InlinedFrameKept ==
  ASSUME Supported(img), VariablesOK(img), NEW p, FrameOK(img, p), NEW q, InlinedCallDone(p, q),
         NEW k \in 1..Len(q.acts), k # Len(q.acts) => Kept(img, mem, p, k, p.regs),
         \A d \in (1 - StackSize(img, p.fun))..(-1) : p.bp + d \in Stack
  PROVE  Kept(img, mem', q, k, q.regs)
<1> DEFINE f == p.fun
           bp == p.bp
           acts == q.acts
           K == Len(acts)
           g == p.regs
           g2 == q.regs
           m2 == mem'
           own == HomesOf(img, f, acts, K)
           hs == HomesOf(img, f, acts, k)
<1>1. /\ q.fun = f /\ q.bp = bp /\ g2 = InRegister(f, acts, g)
      /\ Started(f, acts, calls + 1)
      /\ \A x \in DOMAIN Slots(f, bp, acts) : m2[x] = Slots(f, bp, acts)[x]
      /\ \A x \in Stack : x \notin DOMAIN Slots(f, bp, acts) => m2[x] = mem[x]
      /\ acts = Append(p.acts, NewAct(TopSite.callee, calls + 1))
  BY Zenon DEF InlinedCallDone
<1>2. /\ f \in FunctionsRun(img) /\ bp \in Int /\ IsRegs(g) /\ ActsOK(img, f, p.acts)
      /\ FramesOK(img) /\ ActsOK(img, f, acts)
  BY <1>1 DEF FrameOK, Supported, Started
<1>3. Path(acts) = EntryTo(acts, K) /\ K \in 1..K /\ Last(acts) = acts[K] /\ K \in Nat
  <2> HIDE DEF f, acts
  <2> QED BY <1>1, StartedPath
<1>4. k \in 1..K
  OBVIOUS
<1>5. HomesOK(img, f, hs)
  <2> HIDE DEF f, acts
  <2> QED BY <1>2, <1>4, HomesInFrame
<1>6. CASE k = K
  <2> HIDE DEF f, bp, acts, g, g2, m2
  <2>1. Holds(m2, HomesOf(img, f, acts, Len(acts)), g2, bp, Last(acts).vals)
    BY <1>1, <1>2, StartedHolds
  <2>2. Holds(m2, HomesOf(img, f, acts, k), g2, bp, acts[k].vals)
    BY <1>3, <1>6, <2>1
  <2> QED BY <1>1, <2>2 DEF Kept, acts, g2, m2
<1>7. CASE k # K
  <2>1. /\ k \in Nat /\ \A i \in 1..k : acts[i] = p.acts[i]
    <3>1. IsSeq(p.acts) /\ Len(p.acts) \in Nat
      BY <1>2 DEF ActsOK, IsSeq
    <3> DEFINE e == NewAct(TopSite.callee, calls + 1)
               as == p.acts
    <3> HIDE DEF e, as
    <3>2. Len(acts) = Len(as) + 1 /\ \A i \in 1..Len(as) : acts[i] = as[i]
      <4>1. IsSeq(as) /\ acts = Append(as, e)
        BY <1>1, <3>1 DEF e, as
      <4> HIDE DEF acts
      <4> QED BY <4>1, AppendAny
    <3>3. k \in 1..Len(as) /\ \A i \in 1..k : i \in 1..Len(as)
      BY <1>3, <1>4, <1>7, <3>1, <3>2 DEF as
    <3> HIDE DEF acts
    <3> QED BY <3>2, <3>3 DEF as
  <2>2. EntryTo(acts, k) = EntryTo(p.acts, k)
    <3> DEFINE as == p.acts
    <3>1. k \in Nat /\ acts[k].fun = as[k].fun /\ \A i \in 1..(k - 1) : acts[i] = as[i]
      BY <2>1
    <3> HIDE DEF acts, as
    <3>2. EntryTo(acts, k) = EntryTo(as, k)
      BY <3>1, HomesSame
    <3> QED BY <3>2 DEF as
  <2>3. Holds(mem, hs, g, bp, acts[k].vals)
    <3>1. Kept(img, mem, p, k, p.regs)
      BY <1>7
    <3>2. acts[k] = p.acts[k] /\ hs = HomesOf(img, f, p.acts, k)
      BY <2>1, <2>2 DEF HomesOf
    <3> QED BY <3>1, <3>2 DEF Kept
  <2>4. \A i \in 1..Len(own) : \A j \in 1..Len(hs) : ~Clash(own[i], hs[j])
    <3> SUFFICES ASSUME NEW i \in 1..Len(own), NEW j \in 1..Len(hs), Clash(own[i], hs[j])
                 PROVE  FALSE
      OBVIOUS
    <3> HIDE DEF f, acts
    <3>1. k = Len(acts)
      BY <1>2, <1>3, <1>4, HomesApart
    <3> QED BY <1>7, <3>1
  <2>5. /\ \A x \in DOMAIN Slots(f, bp, acts) :
             \E i \in 1..Len(own) : own[i].kind = "direct" /\ x = bp + own[i].offset
        /\ \A d \in RegNums : g2[d] # g[d] =>
             \E i \in 1..Len(own) : own[i].kind = "register" /\ d = own[i].offset
    <3> DEFINE g1 == InRegister(f, acts, g)
    <3>1. g2 = g1
      BY <1>1
    <3> HIDE DEF f, acts, g, g2, bp
    <3>2. WordsOf(own, bp, DOMAIN Slots(f, bp, acts)) /\ RegistersOf(own, g, g1)
      BY <1>1, <1>2, StartedWrites
    <3> HIDE DEF g1, own
    <3> QED BY <3>1, <3>2 DEF WordsOf, RegistersOf
  <2>6. HomesOK(img, f, own)
    <3> HIDE DEF f, acts
    <3> QED BY <1>2, <1>3, HomesInFrame
  <2>7. \A d \in (1 - StackSize(img, f))..(-1) : bp + d \in Stack
    OBVIOUS
  <2> DEFINE words == DOMAIN Slots(f, bp, acts)
             vals == acts[k].vals
  <2>8. /\ \A x \in words : \E i \in 1..Len(own) : own[i].kind = "direct" /\ x = bp + own[i].offset
        /\ \A x \in Stack : x \notin words => m2[x] = mem[x]
    BY <1>1, <2>5
  <2> HIDE DEF own, hs, f, bp, g, g2, m2, words
  <2>9. ASSUME NEW j \in 1..Len(hs), hs[j].kind = "direct"
        PROVE  m2[bp + hs[j].offset] = mem[bp + hs[j].offset]
    <3> DEFINE x == bp + hs[j].offset
    <3>1. x \in Stack
      BY <1>5, <2>7, <2>9 DEF HomesOK
    <3>2. x \notin words
      <4> SUFFICES ASSUME x \in words PROVE FALSE
        OBVIOUS
      <4>1. PICK i \in 1..Len(own) : own[i].kind = "direct" /\ x = bp + own[i].offset
        BY <2>8
      <4>2. own[i].offset \in Int /\ hs[j].offset \in Int
        <5>1. /\ own[i].offset \in (1 - StackSize(img, f))..(-1)
              /\ hs[j].offset \in (1 - StackSize(img, f))..(-1)
          BY <1>5, <2>6, <2>9, <4>1 DEF HomesOK
        <5> QED BY <5>1
      <4>3. own[i].offset = hs[j].offset
        BY <1>2, <4>1, <4>2
      <4> QED BY <2>4, <2>9, <4>1, <4>3 DEF Clash
    <3> QED BY <2>8, <3>1, <3>2
  <2>10. ASSUME NEW j \in 1..Len(hs), hs[j].kind = "register"
         PROVE  g2[hs[j].offset] = g[hs[j].offset]
    <3> DEFINE d == hs[j].offset
    <3>1. d \in RegNums
      BY <1>5, <2>10 DEF HomesOK
    <3>2. ASSUME NEW i \in 1..Len(own), own[i].kind = "register" PROVE d # own[i].offset
      BY <2>4, <2>10, <3>2 DEF Clash
    <3> QED BY <2>5, <3>1, <3>2
  <2> HIDE DEF acts, vals
  <2>11. Holds(m2, hs, g2, bp, vals)
    <3> DEFINE m1 == mem
    <3>1. Holds(m1, hs, g, bp, vals)
      BY <2>3 DEF vals
    <3>2. \A j \in 1..Len(hs) : hs[j].kind = "direct" =>
            m2[bp + hs[j].offset] = m1[bp + hs[j].offset]
      BY <2>9
    <3> HIDE DEF m1
    <3> QED BY <1>5, <2>10, <3>1, <3>2, HoldsSame
  <2> QED BY <1>1, <2>11 DEF Kept, acts, g2, m2, hs, vals
<1> QED BY <1>6, <1>7

\* An inlined call leaves the variables of all other activations alone.
LEMMA InlinedCallValues ==
  ASSUME Supported(img), VariablesOK(img), StackOK(img, phys), IsMem(mem),
         ValuesKept(img, phys, mem), OptInlinedCall
  PROVE  ValuesKept(img, phys', mem')
<1> DEFINE p == TopFrame
           N == Len(phys)
           q == phys'[N]
           m2 == mem'
<1>1. /\ Len(phys') = N /\ \A i \in 1..(N - 1) : phys'[i] = phys[i]
      /\ InlinedCallDone(p, q)
  BY InlinedCallWrites
<1>2. /\ N \in Nat /\ N >= 1 /\ N \in 1..N /\ p = phys[N] /\ Last(phys) = p /\ FrameOK(img, p)
      /\ p.fun \in FunctionsRun(img)
  BY TopOK DEF TopFrame
<1>3. /\ q.fun = p.fun /\ q.bp = p.bp
      /\ q.acts = Append(p.acts, NewAct(TopSite.callee, calls + 1))
      /\ q.regs = InRegister(p.fun, q.acts, p.regs)
      /\ Started(p.fun, q.acts, calls + 1)
      /\ \A x \in DOMAIN Slots(p.fun, p.bp, q.acts) : x < p.bp
      /\ \A x \in Stack : x \notin DOMAIN Slots(p.fun, p.bp, q.acts) => m2[x] = mem[x]
  BY Zenon, <1>1 DEF InlinedCallDone
<1>4. Len(q.acts) = Len(p.acts) + 1 /\ Len(p.acts) \in Nat
  <2>1. IsSeq(p.acts) /\ Len(p.acts) \in Nat
    BY <1>2 DEF FrameOK, ActsOK, IsSeq
  <2> DEFINE as == p.acts
             e == NewAct(TopSite.callee, calls + 1)
             as2 == q.acts
  <2>2. IsSeq(as) /\ as2 = Append(as, e)
    BY <1>3, <2>1
  <2> HIDE DEF as, as2, e
  <2>3. Len(as2) = Len(as) + 1
    BY <2>2, AppendAny
  <2> QED BY <2>1, <2>3 DEF as, as2
<1>5. \A k \in 1..Len(q.acts) : Kept(img, m2, q, k, q.regs)
  <2> TAKE k \in 1..Len(q.acts)
  <2>1. \A d \in (1 - StackSize(img, p.fun))..(-1) : p.bp + d \in Stack
    BY <1>2, FrameWords
  <2>2. k # Len(q.acts) => Kept(img, mem, p, k, p.regs)
    <3> SUFFICES ASSUME k # Len(q.acts) PROVE Kept(img, mem, p, k, p.regs)
      OBVIOUS
    <3>1. k \in 1..Len(p.acts)
      <4> HIDE DEF p, q
      <4> QED BY <1>4
    <3> QED BY <1>2, <3>1 DEF ValuesKept
  <2> HIDE DEF p, q
  <2>3. Kept(img, mem', q, k, q.regs)
    BY <1>1, <1>2, <2>1, <2>2, InlinedFrameKept
  <2> QED BY <2>3
<1>6. ASSUME NEW n \in 1..(N - 1), NEW k \in 1..Len(phys[n].acts), NEW g,
             Kept(img, mem, phys[n], k, g)
      PROVE  Kept(img, m2, phys[n], k, g)
  <2>1. n \in 1..Len(phys) /\ n < Len(phys)
    BY <1>2
  <2>2. ASSUME NEW d \in (1 - StackSize(img, phys[n].fun))..(-1)
        PROVE  m2[phys[n].bp + d] = mem[phys[n].bp + d]
    <3> DEFINE x == phys[n].bp + d
    <3>1. x \in Stack /\ x > Last(phys).bp + 1
      BY <2>1, FrameWords
    <3>2. x > p.bp + 1 /\ p.bp \in Int /\ x \in Int
      BY <1>2, <3>1 DEF FrameOK, Stack
    <3> HIDE DEF x, m2, p, q
    <3>3. x \notin DOMAIN Slots(p.fun, p.bp, q.acts)
      <4> DEFINE words == DOMAIN Slots(p.fun, p.bp, q.acts)
      <4>1. \A y \in words : y < p.bp
        BY <1>3
      <4> HIDE DEF words
      <4>2. x \notin words
        BY <3>2, <4>1
      <4> QED BY <4>2 DEF words
    <3>4. m2[x] = mem[x]
      BY <1>3, <3>1, <3>3
    <3> QED BY <3>4 DEF x
  <2> HIDE DEF m2
  <2> QED BY <1>6, <2>1, <2>2, KeptWords
<1>7. ASSUME NEW n \in 1..(N - 1), n = N - 1
      PROVE  Kept(img, m2, phys[n], Len(phys[n].acts), q.regs)
  <2> DEFINE c == phys[n]
             as == q.acts
             f == p.fun
             g == p.regs
             g2 == q.regs
             t == calls + 1
  <2>1. n + 1 = N /\ n \in 1..N /\ n \in 1..(Len(phys) - 1)
    BY <1>2, <1>7
  <2>2. FrameOK(img, c) /\ CallsFrame(img, c, p)
    BY <1>2, <2>1 DEF StackOK
  <2>3. /\ AtSiteOf(img, c, "call")
        /\ f = img.prog.body[Last(c.acts).fun][Last(c.acts).at].callee
    BY <2>2 DEF CallsFrame
  <2>4. Kept(img, m2, c, Len(c.acts), g)
    <3>1. Len(c.acts) \in 1..Len(c.acts)
      <4>1. ActsOK(img, c.fun, c.acts)
        BY <2>2 DEF FrameOK
      <4> QED BY <4>1, LastAct
    <3>2. Kept(img, mem, phys[n], Len(phys[n].acts), phys[n + 1].regs)
      BY <2>1 DEF ValuesKept
    <3>3. phys[n + 1].regs = g
      BY <1>2, <2>1
    <3> HIDE DEF g, m2
    <3> QED BY <1>6, <3>1, <3>2, <3>3
  <2>5. /\ f \in FunctionsRun(img) /\ Started(f, as, t) /\ IsRegs(g)
        /\ g2 = InRegister(f, as, g)
    BY <1>2, <1>3 DEF FrameOK
  <2> HIDE DEF c, as, f, g, g2, t, m2
  <2>6. \A d \in RegNums \ {RBP, RSP} : g2[d] = InRegister(f, as, g)[d]
    BY <2>5
  <2>7. Kept(img, m2, c, Len(c.acts), g2)
    BY Zenon, <2>2, <2>3, <2>4, <2>5, <2>6, CallerKept
  <2> QED BY <2>7 DEF c, g2
<1> HIDE DEF p, m2
<1>8. \A n \in 1..N : \A k \in 1..Len(phys'[n].acts) : Kept(img, m2, phys'[n], k, phys'[n].regs)
  <2> TAKE n \in 1..N
  <2>1. CASE n = N
    BY <1>5, <2>1
  <2>2. CASE n # N
    <3>1. n \in 1..(N - 1) /\ n \in 1..Len(phys)
      BY <1>2, <2>2
    <3>2. phys'[n] = phys[n]
      BY <1>1, <3>1
    <3>3. \A k \in 1..Len(phys[n].acts) : Kept(img, m2, phys[n], k, phys[n].regs)
      BY <1>6, <3>1 DEF ValuesKept
    <3> QED BY <3>2, <3>3
  <2> QED BY <2>1, <2>2
<1>9. \A n \in 1..(N - 1) : Kept(img, m2, phys'[n], Len(phys'[n].acts), phys'[n + 1].regs)
  <2> TAKE n \in 1..(N - 1)
  <2>1. phys'[n] = phys[n]
    BY <1>1
  <2>2. CASE n = N - 1
    <3>1. n + 1 = N
      BY <1>2, <2>2
    <3> QED BY <1>7, <2>1, <2>2, <3>1
  <2>3. CASE n # N - 1
    <3>1. n + 1 \in 1..(N - 1) /\ n \in 1..(Len(phys) - 1) /\ n \in 1..Len(phys)
      BY <1>2, <2>3
    <3>2. phys'[n + 1] = phys[n + 1]
      BY <1>1, <3>1
    <3>3. Len(phys[n].acts) \in 1..Len(phys[n].acts)
      <4>1. ActsOK(img, phys[n].fun, phys[n].acts)
        BY <3>1 DEF StackOK, FrameOK
      <4> QED BY <4>1, LastAct
    <3>4. Kept(img, mem, phys[n], Len(phys[n].acts), phys[n + 1].regs)
      BY <3>1 DEF ValuesKept
    <3>5. Kept(img, m2, phys[n], Len(phys[n].acts), phys[n + 1].regs)
      BY <1>6, <3>3, <3>4
    <3> QED BY <2>1, <3>2, <3>5
  <2> QED BY <2>2, <2>3
<1>10. ValuesKept(img, phys', m2)
  BY <1>1, <1>8, <1>9 DEF ValuesKept
<1> QED BY <1>10 DEF m2

\* The activations that are left when some have returned and the last one goes on.
CutActs(acts, acts2) ==
  LET K == Len(acts2) IN
  /\ K \in 1..Len(acts)
  /\ \A k \in 1..(K - 1) : acts2[k] = acts[k]
  /\ acts2[K].fun = acts[K].fun /\ acts2[K].vals = acts[K].vals

\* The stack when some frames have returned, and activations in the last one.
LEMMA StackCut ==
  ASSUME NEW b, NEW ph, StackOK(b, ph), NEW M \in 1..Len(ph), NEW below, IsSeq(below),
         Len(below) = M, \A i \in 1..M : below[i] = ph[i], NEW acts, CutActs(ph[M].acts, acts)
  PROVE  CutTo(ph, NewTop(below, acts), M)
<1> DEFINE q == NewActs(ph[M], acts)
           ph2 == [below EXCEPT ![M] = q]
<1>1. M \in 1..M /\ M >= 1
  OBVIOUS
<1>2. q = [fun |-> ph[M].fun, bp |-> ph[M].bp, acts |-> acts, regs |-> ph[M].regs]
  <2> DEFINE p == ph[M]
  <2>1. IsFrame(p)
    BY DEF StackOK, FrameOK
  <2> HIDE DEF p
  <2>2. NewActs(p, acts) = [fun |-> p.fun, bp |-> p.bp, acts |-> acts, regs |-> p.regs]
    BY <2>1 DEF IsFrame, NewActs
  <2> QED BY <2>2 DEF p
<1>3. q.fun = ph[M].fun /\ q.bp = ph[M].bp /\ q.regs = ph[M].regs /\ q.acts = acts
  BY <1>2
<1>4. NewTop(below, acts) = ph2
  BY Zenon, <1>1 DEF NewTop, NewActs
<1> HIDE DEF q
<1>5. Len(ph2) = M /\ ph2[M] = q /\ \A i \in 1..(M - 1) : ph2[i] = below[i]
  BY <1>1, LastChanged
<1> HIDE DEF ph2
<1>6. \A i \in 1..(M - 1) : ph2[i] = ph[i]
  BY <1>5
<1>7. CutActs(ph[M].acts, ph2[M].acts)
  BY <1>3, <1>5
<1> QED BY <1>3, <1>4, <1>5, <1>6, <1>7 DEF CutTo, CutActs

\* A return inside of a frame.
LEMMA ReturnedCut ==
  ASSUME NEW b, ProgramOK(b), NEW f, NEW acts, ActsOK(b, f, acts), Len(acts) > 1
  PROVE  CutActs(acts, Advanced(Front(acts)))
<1> DEFINE n == Len(acts) - 1
           acts2 == Advanced(Front(acts))
<1>1. /\ ActsOK(b, f, Advanced(Front(acts)))
      /\ Len(Advanced(Front(acts))) = Len(acts) - 1
      /\ \A k \in 1..(Len(acts) - 2) : Advanced(Front(acts))[k] = acts[k]
      /\ Advanced(Front(acts))[n].fun = acts[n].fun
      /\ Advanced(Front(acts))[n].at = acts[n].at + 1
      /\ Advanced(Front(acts))[n].vals = acts[n].vals
  BY ReturnedOK
<1>2. Len(acts) \in Nat
  BY DEF ActsOK, IsSeq
<1>3. /\ Len(acts2) = Len(acts) - 1 /\ \A k \in 1..(Len(acts) - 2) : acts2[k] = acts[k]
      /\ acts2[Len(acts) - 1].fun = acts[Len(acts) - 1].fun
      /\ acts2[Len(acts) - 1].vals = acts[Len(acts) - 1].vals
  BY <1>1
<1> HIDE DEF acts2
<1>4. CutActs(acts, acts2)
  BY <1>2, <1>3 DEF CutActs
<1> QED BY <1>4 DEF acts2

\* A branch and a return leave all variables alone.
LEMMA BranchReturnValues ==
  ASSUME Supported(img), StackOK(img, phys), ValuesKept(img, phys, mem),
         OptBranch \/ OptReturn, pc' = "opt", pc = "opt"
  PROVE  ValuesKept(img, phys', mem')
<1> DEFINE p == TopFrame
           N == Len(phys)
<1>1. mem' = mem
  BY DEF OptBranch, OptReturn
<1>2. /\ N \in Nat /\ N >= 1 /\ N \in 1..N /\ p = phys[N] /\ FrameOK(img, p) /\ IsSeq(phys)
      /\ ProgramOK(img)
  BY TopOK DEF Supported
<1>3. /\ ActsOK(img, p.fun, p.acts) /\ Len(p.acts) \in Nat /\ Len(p.acts) >= 1
      /\ IsSeq(p.acts) /\ \A k \in 1..Len(p.acts) : IsAct(p.acts[k])
  BY <1>2 DEF FrameOK, ActsOK, IsSeq
<1>4. SUFFICES \E M : CutTo(phys, phys', M)
  BY <1>1, ValuesCut
<1>5. ASSUME NEW acts, CutActs(p.acts, acts), phys' = NewTop(phys, acts)
      PROVE  CutTo(phys, phys', N)
  BY <1>2, <1>5, StackCut
<1>6. CASE OptBranch
  <2> DEFINE acts == Advanced(p.acts)
  <2>1. phys' = NewTop(phys, acts)
    <3>1. phys' = [phys EXCEPT ![Len(phys)].acts = Advanced(@)]
      BY Zenon, <1>6 DEF OptBranch
    <3> QED BY Zenon, <1>2, <3>1 DEF NewTop
  <2>2. CutActs(p.acts, acts)
    <3> HIDE DEF p
    <3> QED BY <1>3, AdvancedActs DEF CutActs
  <2> HIDE DEF acts
  <2> QED BY <1>5, <2>1, <2>2
<1>7. CASE OptReturn
  <2>1. CASE /\ Len(p.acts) > 1
             /\ phys' = [phys EXCEPT ![Len(phys)].acts = Advanced(Front(@))]
    <3> DEFINE acts == Advanced(Front(p.acts))
               f == p.fun
               as == p.acts
    <3>1. phys' = NewTop(phys, acts)
      BY Zenon, <1>2, <2>1 DEF NewTop
    <3>2. ActsOK(img, f, as) /\ Len(as) > 1
      BY <1>3, <2>1
    <3> HIDE DEF p, f, as
    <3>5. CutActs(as, Advanced(Front(as)))
      BY <1>2, <3>2, ReturnedCut
    <3>6. CutActs(p.acts, acts)
      BY <3>5 DEF as
    <3> HIDE DEF acts
    <3> QED BY <1>5, <3>1, <3>6
  <2>2. CASE /\ Len(p.acts) = 1 /\ N > 1
             /\ phys' = LET below == Front(phys) IN
                        [below EXCEPT ![Len(below)].acts = Advanced(@)]
    <3> DEFINE n == N - 1
               acts == Advanced(phys[n].acts)
               below == Front(phys)
    <3>1. n \in 1..N /\ n \in Nat /\ n >= 1 /\ n \in 1..n
      BY <1>2, <2>2
    <3>2. IsSeq(below) /\ Len(below) = n /\ \A i \in 1..n : below[i] = phys[i]
      BY <1>2, FrontAny
    <3>3. /\ IsSeq(phys[n].acts) /\ Len(phys[n].acts) >= 1 /\ Len(phys[n].acts) \in Nat
          /\ \A k \in 1..Len(phys[n].acts) : IsAct(phys[n].acts[k])
      BY <3>1 DEF StackOK, FrameOK, ActsOK, IsSeq
    <3>4. phys' = NewTop(below, acts)
      <4>1. phys' = [below EXCEPT ![Len(below)].acts = Advanced(@)]
        BY <2>2
      <4>2. below[n] = phys[n] /\ Len(below) = n
        BY <3>1, <3>2
      <4> HIDE DEF n, below
      <4> QED BY Zenon, <4>1, <4>2 DEF NewTop
    <3>5. CutActs(phys[n].acts, acts)
      <4> HIDE DEF n
      <4> QED BY <3>3, AdvancedActs DEF CutActs
    <3> HIDE DEF acts, below, n
    <3> QED BY <3>1, <3>2, <3>4, <3>5, StackCut
  <2>3. CASE pc' = "done"
    BY <2>3
  <2> QED BY <1>7, <2>1, <2>2, <2>3 DEF OptReturn
<1> QED BY <1>6, <1>7

\* main starts with its variables in their places.
LEMMA InitValues ==
  ASSUME Init, Supported(img), VariablesOK(img)
  PROVE  ValuesKept(img, phys, mem)
<1> DEFINE g0 == InitialRegs
           bp == MainBp
           q == NewFrame("main", 0, bp, g0)
           a == NewAct("main", 0)
           acts == <<a>>
           slots == Slots("main", bp, acts)
           m0 == [x \in Stack \cup Heap |-> Junk]
           m1 == Write(m0, slots)
<1>1. /\ phys = <<q>>
      /\ mem = [Write(m0, Slots("main", MainBp, phys[1].acts)) EXCEPT
                  ![MainBp] = LibcBp, ![MainBp + ADDR_SIZE] = LibcRet]
  BY Zenon DEF Init, InitMachine
<1>2. /\ "main" \in FunctionsRun(img) /\ FramesOK(img) /\ ProgramOK(img)
      /\ "main" \in DOMAIN img.prog.body
  BY MainRuns, RunsInBody DEF Supported
<1>3. IsRegs(g0) /\ bp \in Int
  <2>1. g0 = [d \in RegNums |-> g0[d]]
    BY DEF InitialRegs
  <2> HIDE DEF g0
  <2> QED BY <2>1, MemoryAssumption DEF IsRegs
<1>4. q.bp = bp /\ q.acts = acts /\ q.fun = "main"
  <2> DEFINE f == "main"
             n == 0
  <2>1. f \in FunctionsRun(img)
    BY <1>2
  <2> HIDE DEF bp, g0, f, n
  <2>2. /\ FrameOK(img, NewFrame(f, n, bp, g0))
        /\ NewFrame(f, n, bp, g0).fun = f
        /\ NewFrame(f, n, bp, g0).bp = bp
        /\ NewFrame(f, n, bp, g0).acts = <<NewAct(f, n)>>
        /\ \A x \in DOMAIN Slots(f, bp, <<NewAct(f, n)>>) :
             x \in (bp + 1 - StackSize(img, f))..(bp - 1)
    BY <1>3, <2>1, NewFrameOK
  <2> QED BY <2>2 DEF f, n
<1>5. /\ Started("main", acts, 0) /\ Len(acts) = 1 /\ Last(acts) = a /\ acts[1] = a
      /\ IsRegs(InRegister("main", acts, g0))
  <2>1. IsAct(a) /\ a.fun = "main" /\ a.at = 1
    BY <1>2, NewActOK
  <2>2. a = NewAct(a.fun, 0)
    BY <2>1
  <2> HIDE DEF a
  <2>3. /\ ActsOK(img, "main", acts) /\ Path(acts) \in EntryPaths(img, "main")
        /\ Last(Path(acts))[1] = a.fun /\ Last(acts) = a /\ Len(acts) = 1
    BY <1>2, <2>1, FirstAct
  <2>4. Started("main", acts, 0)
    BY <2>2, <2>3 DEF Started
  <2> HIDE DEF g0
  <2>5. IsRegs(InRegister("main", acts, g0))
    BY <1>2, <1>3, <2>3, RegistersKept
  <2> QED BY <2>3, <2>4, <2>5
<1>6. \A d \in RegNums \ {RBP, RSP} : q.regs[d] = InRegister("main", acts, g0)[d]
  <2> HIDE DEF bp, g0
  <2> QED BY <1>5, NewFrameRegs
<1>7. \A x \in DOMAIN slots : x \in Stack /\ x < MainBp
  <2>1. /\ bp - StackSize(img, "main") - 1 > 2 /\ StackSize(img, "main") \in Nat \ {0}
    <3>1. StackOK(img, phys)
      BY InitIInv DEF IInv, StackInv, Init, InitMachine
    <3>2. 1 \in 1..Len(phys) /\ phys[1].bp = bp /\ phys[1].fun = "main"
      BY <3>1 DEF StackOK, IsSeq
    <3> QED BY <3>1, <3>2, StackRoom
  <2>2. \A x \in DOMAIN slots : x \in (bp + 1 - StackSize(img, "main"))..(bp - 1)
    <3>1. Path(acts) \in EntryPaths(img, "main") /\ Last(Path(acts))[1] = Last(acts).fun
      BY <1>5 DEF Started
    <3>2. Len(Last(acts).vals) = NumLocals(img.prog, Last(acts).fun)
      BY <1>2, <1>5, NewActOK
    <3> HIDE DEF bp, acts
    <3> QED BY <1>2, <1>3, <3>1, <3>2, SlotsInside
  <2> HIDE DEF slots
  <2> QED BY <2>1, <2>2, MemoryAssumption DEF Stack
<1>8. \A x \in DOMAIN slots : mem[x] = slots[x]
  <2>1. phys[1].acts = acts
    BY <1>1, <1>4
  <2>2. mem = TwoWritten(m1, MainBp, LibcBp, MainBp + ADDR_SIZE, LibcRet)
    <3>1. mem = [m1 EXCEPT ![MainBp] = LibcBp, ![MainBp + ADDR_SIZE] = LibcRet]
      BY Zenon, <1>1, <2>1
    <3> QED BY Zenon, <3>1 DEF TwoWritten
  <2> HIDE DEF slots
  <2>3. IsMem(m0)
    BY DEF IsMem
  <2> HIDE DEF m0
  <2>4. IsMem(m1) /\ \A x \in Stack \cup Heap : x \in DOMAIN slots => m1[x] = slots[x]
    BY <2>3, MemWrite
  <2> HIDE DEF m1
  <2> DEFINE y1 == MainBp
             y == MainBp + ADDR_SIZE
             m2 == TwoWritten(m1, y1, LibcBp, y, LibcRet)
  <2>5. /\ y1 \in Stack \cup Heap /\ y \in Stack \cup Heap /\ y # y1 /\ y1 \in Int
        /\ \A x \in DOMAIN slots : x # y1 /\ x # y
    <3>1. MainBp + 1 \in Stack
      <4>1. StackOK(img, phys)
        BY InitIInv DEF IInv, StackInv, Init, InitMachine
      <4>2. 1 \in 1..Len(phys)
        BY <4>1 DEF StackOK, IsSeq
      <4> QED BY <4>1, <4>2, StackRoom
    <3> QED BY <1>7, <3>1, MemoryAssumption DEF Stack, ADDR_SIZE
  <2> HIDE DEF y1, y
  <2>6. \A x \in Stack \cup Heap : x # y1 /\ x # y => m2[x] = m1[x]
    BY <2>4, <2>5, MemTwo
  <2>7. mem = m2
    BY <2>2 DEF y, y1
  <2> HIDE DEF m2
  <2> QED BY <1>7, <2>4, <2>5, <2>6, <2>7
<1>9. Holds(mem, HomesOf(img, "main", acts, Len(acts)), q.regs, bp, Last(acts).vals)
  <2> DEFINE m2 == mem
             g2 == q.regs
             f == "main"
  <2>1. \A x \in DOMAIN Slots(f, bp, acts) : m2[x] = Slots(f, bp, acts)[x]
    BY <1>8
  <2>2. f \in FunctionsRun(img) /\ Started(f, acts, 0)
    BY <1>2, <1>5
  <2>3. \A d \in RegNums \ {RBP, RSP} : g2[d] = InRegister(f, acts, g0)[d]
    BY <1>6
  <2> HIDE DEF m2, g2, f, bp, acts, g0
  <2>4. Holds(m2, HomesOf(img, f, acts, Len(acts)), g2, bp, Last(acts).vals)
    BY <1>3, <2>1, <2>2, <2>3, StartedHolds
  <2> QED BY <2>4 DEF m2, g2, f
<1> HIDE DEF q, a, acts, slots, bp
<1>10. Len(phys) = 1 /\ phys[1] = q
  BY <1>1
<1>11. Kept(img, mem, q, 1, q.regs)
  BY <1>4, <1>5, <1>9 DEF Kept
<1>12. \A n \in 1..1 : \A k \in 1..Len(phys[n].acts) : Kept(img, mem, phys[n], k, phys[n].regs)
  <2>1. Len(phys[1].acts) = 1
    BY <1>4, <1>5, <1>10
  <2>2. \A k \in 1..Len(phys[1].acts) : k = 1
    BY <2>1
  <2> QED BY <1>10, <1>11, <2>2
<1> QED BY <1>10, <1>12 DEF ValuesKept

-----------------------------------------------------------------------------
(***************************************************************************)
(* What get_locations reads for a frame of the handler: the values of the  *)
(* activation it stands for, from words that the handler does not write    *)
(* to before.                                                              *)
(***************************************************************************)
PlacesBelow(hs, base) ==
  \A j \in 1..Len(hs) :
    /\ hs[j].kind \in {"direct", "register", "constant"}
    /\ hs[j].kind = "direct" => base + hs[j].offset \in Stack /\ base + hs[j].offset < MainBp

ReadsFrom(b, m, fr, base, act) ==
  LET hs == b.sm.recs[fr.real_record].locations IN
  Holds(m, hs, fr.registers, base, act.vals) /\ PlacesBelow(hs, base)

\* The variables of frame k are relative to the frame below.
AllRead(b, m, fs, acts) ==
  \A k \in 1..Len(acts) : ReadsFrom(b, m, fs[k], fs[k + 1].real_bp, acts[(Len(acts) + 1) - k])

\* A frame reads the values of an activation if its record describes it.
LEMMA FrameReads ==
  ASSUME NEW b, Supported(b), VariablesOK(b), NEW ph, StackOK(b, ph), NEW n \in 1..Len(ph),
         NEW k \in 1..Len(ph[n].acts), NEW m, NEW fr,
         RecordFor(b, fr.real_record, ph[n].fun, Path(ph[n].acts), k),
         Kept(b, m, ph[n], k, fr.registers)
  PROVE  ReadsFrom(b, m, fr, ph[n].bp, ph[n].acts[k])
<1> DEFINE f == ph[n].fun
           acts == ph[n].acts
           bp == ph[n].bp
           hs == HomesOf(b, f, acts, k)
           hs2 == b.sm.recs[fr.real_record].locations
<1>1. ActsOK(b, f, acts) /\ HomesOK(b, f, hs)
  BY FrameHomes
<1>2. EntryAt(Path(acts), k) = EntryTo(acts, k)
  <2> HIDE DEF f, acts
  <2>1. k \in 1..Len(acts)
    BY DEF acts
  <2> QED BY <1>1, <2>1, EntryToPath
<1>3. hs2 = hs
  <2>1. hs2 = VariablesAt(b, f, EntryAt(Path(acts), k))
    BY DEF RecordFor
  <2> QED BY Zenon, <1>2, <2>1 DEF HomesOf
<1>4. Holds(m, hs, fr.registers, bp, acts[k].vals)
  BY DEF Kept
<1>5. PlacesBelow(hs, bp)
  <2>1. ASSUME NEW j \in 1..Len(hs), hs[j].kind = "direct"
        PROVE  bp + hs[j].offset \in Stack /\ bp + hs[j].offset < MainBp
    <3> DEFINE d == hs[j].offset
    <3>1. d \in (1 - StackSize(b, ph[n].fun))..(-1)
      <4> HIDE DEF hs
      <4> QED BY <1>1, <2>1 DEF HomesOK
    <3> HIDE DEF d
    <3>2. ph[n].bp + d \in Stack /\ ph[n].bp + d < MainBp
      BY <3>1, FrameWords
    <3> QED BY <3>2 DEF d
  <2> HIDE DEF hs, bp
  <2> QED BY <1>1, <2>1 DEF PlacesBelow, HomesOK
<1> HIDE DEF hs, hs2
<1> QED BY <1>3, <1>4, <1>5 DEF ReadsFrom, hs2

\* It still reads them when only words above the frames have changed.
LEMMA ReadsSame ==
  ASSUME NEW b, NEW m, NEW fr, NEW base, NEW act, ReadsFrom(b, m, fr, base, act),
         NEW m2, \A x \in Stack : x < MainBp => m2[x] = m[x],
         NEW fr2, fr2.real_record = fr.real_record, fr2.registers = fr.registers
  PROVE  ReadsFrom(b, m2, fr2, base, act)
<1> DEFINE hs == b.sm.recs[fr.real_record].locations
           g == fr.registers
<1>1. Holds(m, hs, g, base, act.vals) /\ PlacesBelow(hs, base)
  BY DEF ReadsFrom
<1> HIDE DEF hs, g
<1>2. ASSUME NEW j \in 1..Len(hs) PROVE ValueIn(m2, hs[j], g, base) = ValueIn(m, hs[j], g, base)
  <2>1. /\ hs[j].kind \in {"direct", "register", "constant"}
        /\ hs[j].kind = "direct" => base + hs[j].offset \in Stack /\ base + hs[j].offset < MainBp
    BY <1>1 DEF PlacesBelow
  <2> QED BY <2>1 DEF ValueIn
<1>3. Holds(m2, hs, g, base, act.vals)
  BY <1>1, <1>2 DEF Holds
<1> QED BY <1>1, <1>3 DEF ReadsFrom, hs, g

\* The call of a frame of the stack.
LEMMA CallerVariables ==
  ASSUME NEW b, Supported(b), VariablesOK(b), NEW ph, StackOK(b, ph), NEW n \in 1..(Len(ph) - 1)
  PROVE  CallVariables(b, ph[n].fun, Path(ph[n].acts))
<1> DEFINE w == Path(ph[n].acts)
           f == ph[n].fun
<1>1. f \in FunctionsRun(b) /\ w \in SitePaths(b, f) /\ SiteOf(b, w).kind = "call"
  BY CallerSite
<1> HIDE DEF f, w
<1>2. CallVariables(b, f, w)
  BY <1>1 DEF VariablesOK
<1> QED BY <1>2 DEF f, w

\* A frame that was read from the stack reads the values of its caller's site.
LEMMA CollectedReads ==
  ASSUME NEW b, Supported(b), VariablesOK(b), NEW ph, StackOK(b, ph), NEW m,
         ValuesKept(b, ph, m), NEW fs, NEW m2, CollectOK(b, ph, fs, m2, Len(ph)),
         NEW k \in 1..(Len(ph) - 1)
  PROVE  ReadsFrom(b, m, fs[k], fs[k + 1].real_bp, Last(ph[Len(ph) - k].acts))
<1> DEFINE D == Len(ph)
           n == D - k
           p == ph[n]
           K == Len(p.acts)
           id == IdAt(b, SiteIn(p))
<1>1. D \in Nat /\ n \in 1..(Len(ph) - 1) /\ n \in 1..Len(ph) /\ k < D /\ k \in 1..D
      /\ k + 1 \in 1..D /\ (D + 1) - (k + 1) = n /\ (D + 1) - k = n + 1 /\ k \in 1..(D - 1)
  BY DEF StackOK, IsSeq
<1>2. Collected(b, fs[k], p) /\ ReadFrom(fs[k], ph[n + 1]) /\ ReadFrom(fs[k + 1], p)
  <2>1. ReadFrom(fs[k], ph[(D + 1) - k]) /\ ReadFrom(fs[k + 1], ph[(D + 1) - (k + 1)])
    BY <1>1 DEF CollectOK
  <2>2. Collected(b, fs[k], ph[D - k])
    BY <1>1 DEF CollectOK
  <2> QED BY <1>1, <2>1, <2>2
<1> HIDE DEF n, D
<1>3. fs[k].registers = ph[n + 1].regs /\ fs[k + 1].real_bp = p.bp
  BY <1>2 DEF ReadFrom
<1>4. fs[k].real_record = stmap_get_map_record_after_addr(b.sm, id, CallAddr(b, p))
  BY <1>2 DEF Collected
<1>5. CallVariables(b, p.fun, Path(p.acts)) /\ Last(Path(p.acts)) = SiteIn(p) /\ Len(Path(p.acts)) = K
  BY <1>1, CallerVariables, CallerSite
<1>6. K \in 1..Len(p.acts) /\ Last(p.acts) = p.acts[K]
  <2>1. ActsOK(b, p.fun, p.acts)
    BY <1>1 DEF StackOK, FrameOK
  <2> HIDE DEF p
  <2> QED BY <2>1, LastAct
<1>7. RecordFor(b, fs[k].real_record, p.fun, Path(p.acts), K)
  <2> HIDE DEF p, K, id
  <2> QED BY Zenon, <1>4, <1>5 DEF CallVariables, CallAddr, id
<1>8. Kept(b, m, p, K, ph[n + 1].regs)
  BY <1>1 DEF ValuesKept
<1>9. ReadsFrom(b, m, fs[k], ph[n].bp, ph[n].acts[K])
  <2> HIDE DEF K
  <2> QED BY <1>1, <1>3, <1>6, <1>7, <1>8, FrameReads
<1> QED BY <1>3, <1>6, <1>9 DEF n, D

\* The frames that get_restored_state makes read the values of the enclosing activations.
RestoredRead(b, m, p, gs) ==
  \A k \in 1..(Len(p.acts) - 1) :
    gs[k].real_bp = p.bp /\ ReadsFrom(b, m, gs[k], p.bp, p.acts[Len(p.acts) - k])

LEMMA RestoredReads ==
  ASSUME Supported(img), VariablesOK(img), StackOK(img, phys), NEW n \in 1..Len(phys),
         NEW m, ValuesKept(img, phys, m), NEW start, NEW ppid,
         Len(Path(phys[n].acts)) = Len(phys[n].acts),
         EnclosingFound(img, Path(phys[n].acts), start, ppid),
         EnclosingRecords(img, phys[n].fun, Path(phys[n].acts), start)
  PROVE  RestoredRead(img, m, phys[n],
                      get_restored_state(start, ppid, phys[n].bp, phys[n].regs))
<1> DEFINE p == phys[n]
           acts == p.acts
           w == Path(acts)
           L == Len(acts)
           recs == RestoredRecords(sm, start, ppid)
           Id(k) == sm.recs[recs[k]].patchpoint_id
           entry(k) ==
             [ret_addr |-> AddrOf(sm, stmap_get_map_record(sm, Negate(Id(k)))) + PATCHPOINT_CALL_SIZE,
              stored_ret_addr |-> Junk,
              size |-> sm.funcs[stmap_get_size_record(sm,
                        stmap_get_map_record(sm, Negate(Id(k))))].stack_size,
              bp |-> Junk, real_bp |-> p.bp, registers |-> p.regs,
              record |-> recs[k],
              real_record |-> stmap_get_map_record_after_addr(sm, Id(k), start),
              inlined |-> TRUE]
           gs == get_restored_state(start, ppid, p.bp, p.regs)
<1>1. ActsOK(img, p.fun, acts)
  BY DEF StackOK, FrameOK
<1>2. L \in Nat /\ L >= 1
  <2> HIDE DEF p
  <2> QED BY <1>1 DEF ActsOK, IsSeq
<1>3. Len(w) = L
  OBVIOUS
<1>4. Len(recs) = L - 1 /\ \A k \in 1..Len(recs) : Id(k) = IdAt(img, w[L - k])
  <2>1. EnclosingFound(img, w, start, ppid)
    OBVIOUS
  <2> HIDE DEF w, L
  <2> QED BY <1>3, <2>1 DEF EnclosingFound, sm
<1>5. \A k \in 1..(L - 1) :
        RecordFor(img, stmap_get_map_record_after_addr(sm, IdAt(img, w[k]), start), p.fun, w, k)
  <2>1. EnclosingRecords(img, p.fun, w, start)
    OBVIOUS
  <2> HIDE DEF w, L
  <2> QED BY <1>3, <2>1 DEF EnclosingRecords, sm
<1>6. gs = [k \in 1..Len(recs) |-> entry(k)]
  BY DEF get_restored_state
<1> HIDE DEF entry, recs, gs
<1>7. \A k \in 1..(L - 1) : gs[k] = entry(k)
  BY <1>4, <1>6
<1>8. ASSUME NEW k \in 1..(L - 1)
      PROVE  gs[k].real_bp = p.bp /\ ReadsFrom(img, m, gs[k], p.bp, acts[L - k])
  <2>1. L - k \in 1..(L - 1) /\ L - k \in 1..L
    BY <1>2
  <2>2. /\ gs[k].real_bp = p.bp /\ gs[k].registers = p.regs
        /\ gs[k].real_record = stmap_get_map_record_after_addr(sm, Id(k), start)
    <3>1. gs[k] = entry(k)
      BY <1>7
    <3> HIDE DEF p, Id, w, L
    <3> QED BY <3>1 DEF entry
  <2>3. Id(k) = IdAt(img, w[L - k])
    BY <1>4
  <2>4. RecordFor(img, gs[k].real_record, p.fun, w, L - k)
    <3> HIDE DEF p, w, L, Id
    <3> QED BY <1>5, <2>1, <2>2, <2>3
  <2>5. Kept(img, m, p, L - k, p.regs)
    BY <2>1 DEF ValuesKept
  <2> DEFINE i == L - k
             fr == gs[k]
  <2>6. i \in 1..Len(phys[n].acts) /\ RecordFor(img, fr.real_record, phys[n].fun, Path(phys[n].acts), i)
        /\ Kept(img, m, phys[n], i, fr.registers)
    BY <2>1, <2>2, <2>4, <2>5
  <2> HIDE DEF i, fr
  <2>7. ReadsFrom(img, m, fr, phys[n].bp, phys[n].acts[i])
    BY <2>6, FrameReads
  <2> QED BY <2>2, <2>7 DEF i, fr
<1> QED BY <1>8 DEF RestoredRead, gs

\* Nothing was inlined below: each frame reads the values of one activation.
LEMMA NothingReads ==
  ASSUME NEW b, Supported(b), VariablesOK(b), NEW ph, StackOK(b, ph), NEW m,
         ValuesKept(b, ph, m), NEW fs, NEW m2, CollectOK(b, ph, fs, m2, Len(ph)),
         Single(ph, Len(ph) - 1)
  PROVE  AllRead(b, m, fs, ActsIn(ph, Len(ph) - 1))
<1> DEFINE D == Len(ph)
           n == D - 1
           acts == ActsIn(ph, n)
<1>1. D \in Nat /\ D >= 1 /\ n \in Nat /\ IsSeq(ph) /\ n + 1 = D
  BY DEF StackOK, IsSeq
<1>2. Single(ph, n)
  OBVIOUS
<1> HIDE DEF n
<1>3. \A k \in 1..D : IsSeq(ph[k].acts) /\ Len(ph[k].acts) >= 1
  BY DEF StackOK, FrameOK, ActsOK
<1>4. Len(acts) = n /\ \A k \in 1..n : acts[k] = ph[k].acts[1] /\ Len(ph[k].acts) = 1
  <2>1. n \in 0..Len(ph)
    BY <1>1 DEF n
  <2>2. Len(acts) = n /\ \A k \in 1..n : acts[k] = ph[k].acts[1]
    BY <1>1, <1>2, <1>3, <2>1, SingleCount
  <2> QED BY <1>2, <2>2 DEF Single
<1> HIDE DEF acts
<1>5. ASSUME NEW k \in 1..n PROVE ReadsFrom(b, m, fs[k], fs[k + 1].real_bp, acts[(n + 1) - k])
  <2>1. D - k \in 1..n /\ (n + 1) - k = D - k /\ k \in 1..(Len(ph) - 1)
    BY <1>1 DEF n
  <2>2. ReadsFrom(b, m, fs[k], fs[k + 1].real_bp, Last(ph[Len(ph) - k].acts))
    BY <2>1, CollectedReads
  <2>3. acts[D - k] = Last(ph[D - k].acts)
    BY <1>4, <2>1 DEF Last
  <2> QED BY <2>1, <2>2, <2>3
<1>6. AllRead(b, m, fs, acts)
  BY <1>4, <1>5 DEF AllRead
<1> QED BY <1>6 DEF acts, n

\* Calls were inlined in main, and only there.
LEMMA InlinedReads ==
  ASSUME Supported(img), VariablesOK(img), StackOK(img, phys), Len(phys) >= 2,
         ValuesKept(img, phys, mem), CollectOK(img, phys, frames, mem, Len(phys)),
         \A k \in 1..(Len(phys) - 2) : Len(phys[Len(phys) - k].acts) = 1,
         NEW gs, IsSeq(gs), Len(gs) = Len(phys[1].acts) - 1,
         RestoredRead(img, mem, phys[1], gs),
         NEW t, Inserted(frames, Len(phys) - 1, gs, t)
  PROVE  AllRead(img, mem, t, ActsIn(phys, Len(phys) - 1))
<1> DEFINE D == Len(phys)
           n == D - 1
           A == ActsIn(phys, n)
           a == phys[1].acts
           L == Len(a)
           low == phys[1].bp
<1>1. /\ D \in Nat /\ D >= 2 /\ n \in Nat \ {0} /\ n + 1 = D /\ n - 1 = D - 2
      /\ 1 \in 1..n /\ D - n = 1 /\ 1 \in 1..(D - 1)
  BY DEF StackOK, IsSeq
<1>2. \A k \in 1..D : IsSeq(phys[k].acts) /\ Len(phys[k].acts) >= 1
  BY DEF StackOK, FrameOK, ActsOK
<1>3. IsSeq(a) /\ L \in Nat /\ L >= 1
  <2>1. 1 \in 1..D
    BY <1>1
  <2> QED BY <1>2, <2>1 DEF IsSeq
<1>4. Len(frames) = D /\ frames[D].real_bp = low
  <2>1. Len(frames) = D /\ D \in 1..D /\ (D + 1) - D = 1
    BY <1>1 DEF CollectOK
  <2>2. ReadFrom(frames[D], phys[1])
    BY <2>1 DEF CollectOK
  <2> QED BY <2>1, <2>2 DEF ReadFrom
<1>5. /\ Len(gs) = L - 1
      /\ \A k \in 1..(L - 1) : gs[k].real_bp = low /\ ReadsFrom(img, mem, gs[k], low, a[L - k])
  BY DEF RestoredRead
<1>6. /\ IsSeq(t) /\ Len(t) = D + (L - 1)
      /\ \A i \in 1..n : t[i] = frames[i]
      /\ \A j \in 1..(L - 1) : t[n + j] = gs[j]
      /\ t[(n + (L - 1)) + 1] = frames[D]
  <2>1. /\ IsSeq(t) /\ Len(t) = Len(frames) + Len(gs)
        /\ \A i \in 1..n : t[i] = frames[i]
        /\ \A j \in 1..Len(gs) : t[n + j] = gs[j]
        /\ \A j \in 1..(Len(frames) - n) : t[(n + Len(gs)) + j] = frames[n + j]
    BY DEF Inserted
  <2>2. 1 \in 1..(Len(frames) - n)
    BY <1>1, <1>4
  <2> HIDE DEF n, D, L, low
  <2>3. t[(n + Len(gs)) + 1] = frames[n + 1]
    BY <2>1, <2>2
  <2> QED BY <1>1, <1>4, <1>5, <2>1, <2>3
<1>7. MainActsAre(phys, n)
  <2>1. \A k \in 2..n : Len(phys[k].acts) = 1
    <3> TAKE k \in 2..n
      <3>1. D - k \in 1..(D - 2) /\ D - (D - k) = k
        BY <1>1
      <3> QED BY <3>1
  <2>2. \A k \in 1..n : IsSeq(phys[k].acts) /\ Len(phys[k].acts) >= 1
    BY <1>1, <1>2
  <2> HIDE DEF n
  <2> QED BY <1>1, <2>1, <2>2, MainActs
<1>8. /\ IsSeq(A) /\ Len(A) = L + (n - 1)
      /\ \A i \in 1..L : A[i] = a[i]
      /\ \A j \in 1..(n - 1) : A[L + j] = phys[1 + j].acts[1]
  BY <1>7 DEF MainActsAre
<1>9. \A k \in 1..n : ReadsFrom(img, mem, frames[k], frames[k + 1].real_bp, Last(phys[D - k].acts))
  BY CollectedReads
<1>10. \A k \in 1..(n - 1) : Len(phys[D - k].acts) = 1
  BY <1>1
<1> HIDE DEF n, A, a, L, D, low
\* The frames from the first restored one on are relative to the frame of main.
<1>11. ASSUME NEW j \in 1..L PROVE t[n + j].real_bp = low
  <2>1. CASE j \in 1..(L - 1)
    BY <1>5, <1>6, <2>1
  <2>2. CASE j = L
    <3>1. n + L = (n + (L - 1)) + 1
      BY <1>1, <1>3
    <3> QED BY <1>4, <1>6, <2>2, <3>1
  <2> QED BY <1>3, <2>1, <2>2
<1>12. ASSUME NEW k \in 1..Len(A)
       PROVE  ReadsFrom(img, mem, t[k], t[k + 1].real_bp, A[(Len(A) + 1) - k])
  <2>1. k \in Nat /\ k >= 1 /\ k <= L + (n - 1) /\ Len(A) = L + (n - 1)
    BY <1>1, <1>3, <1>8
  <2>2. CASE k = n
    <3>1. (Len(A) + 1) - k = L /\ D - k = 1 /\ L \in 1..L /\ 1 \in 1..L /\ n + 1 = D /\ n \in 1..n
      BY <1>1, <1>3, <2>1, <2>2
    <3>2. A[L] = a[L] /\ a[L] = Last(phys[1].acts)
      BY <1>8, <3>1 DEF a, L, Last
    <3>3. t[n + 1].real_bp = low /\ frames[n + 1].real_bp = low
      BY <1>4, <1>11, <3>1
    <3>4. ReadsFrom(img, mem, frames[n], frames[n + 1].real_bp, Last(phys[D - n].acts))
      BY <1>9, <3>1
    <3>5. t[n] = frames[n]
      BY <1>6, <3>1
    <3> QED BY <1>1, <2>2, <3>1, <3>2, <3>3, <3>4, <3>5
  <2>3. CASE k \in 1..(n - 1)
    <3> DEFINE j == (n - 1) - (k - 1)
    <3>1. /\ (Len(A) + 1) - k = L + j /\ j \in 1..(n - 1) /\ 1 + j = D - k
          /\ k \in 1..n /\ k + 1 \in 1..n
      BY <1>1, <1>3, <2>1, <2>3
    <3> HIDE DEF j
    <3>2. A[L + j] = phys[D - k].acts[1] /\ Len(phys[D - k].acts) = 1
      BY <1>8, <1>10, <2>3, <3>1
    <3>3. A[L + j] = Last(phys[D - k].acts)
      BY <3>2 DEF Last
    <3>4. t[k] = frames[k] /\ t[k + 1] = frames[k + 1]
      BY <1>6, <3>1
    <3>5. ReadsFrom(img, mem, frames[k], frames[k + 1].real_bp, Last(phys[D - k].acts))
      BY <1>9, <3>1
    <3> QED BY <3>1, <3>3, <3>4, <3>5
  <2>4. CASE k > n
    <3> DEFINE j == k - n
    <3>1. /\ j \in 1..(L - 1) /\ n + j = k /\ (Len(A) + 1) - k = L - j
          /\ L - j \in 1..L /\ j + 1 \in 1..L /\ n + (j + 1) = k + 1
      BY <1>1, <1>3, <2>1, <2>4
    <3> HIDE DEF j
    <3>2. t[k] = gs[j] /\ A[L - j] = a[L - j] /\ t[n + (j + 1)].real_bp = low
      BY <1>6, <1>8, <1>11, <3>1
    <3> QED BY <1>5, <3>1, <3>2
  <2>5. k = n \/ k \in 1..(n - 1) \/ k > n
    BY <1>1, <2>1
  <2> QED BY <2>2, <2>3, <2>4, <2>5
<1>13. AllRead(img, mem, t, A)
  BY <1>12 DEF AllRead
<1> QED BY <1>13 DEF A, n, D

\* With the frame of the guard and those it was inlined in, all values are read.
LEMMA FailReads ==
  ASSUME Supported(img), StackOK(img, phys),
         Matches(img, frames, ActsIn(phys, Len(phys) - 1)),
         AllRead(img, mem, frames, ActsIn(phys, Len(phys) - 1)),
         frames[1].real_bp = Last(phys).bp,
         NEW gs, Len(gs) = Len(Last(phys).acts) - 1, RestoredRead(img, mem, Last(phys), gs),
         NEW fr, ReadsFrom(img, mem, fr, Last(phys).bp, Last(Last(phys).acts)),
         NEW u, Inserted(frames, 0, gs, u), NEW t, Inserted(u, 0, <<fr>>, t)
  PROVE  AllRead(img, mem, t, ActsIn(phys, Len(phys)))
<1> DEFINE D == Len(phys)
           A == ActsIn(phys, D - 1)
           B == ActsIn(phys, D)
           a == Last(phys).acts
           L == Len(a)
           N == Len(A)
           low == Last(phys).bp
<1>1. D \in Nat \ {0} /\ D - 1 \in Nat
  BY DEF StackOK, IsSeq
<1>2. \A k \in 1..D : IsSeq(phys[k].acts) /\ Len(phys[k].acts) >= 1
  BY DEF StackOK, FrameOK, ActsOK
<1>3. IsSeq(a) /\ L \in Nat /\ L >= 1
  <2>1. D \in 1..D /\ a = phys[D].acts
    BY <1>1 DEF Last
  <2> QED BY <1>2, <2>1 DEF IsSeq
<1>4. IsSeq(A) /\ N \in Nat
  <2>1. \A k \in 1..(D - 1) : IsSeq(phys[k].acts)
    BY <1>1, <1>2
  <2>2. IsSeq(A)
    BY <1>1, <2>1, ActsInSeq
  <2> QED BY <2>2 DEF IsSeq
<1>5. Joined(A, a, B)
  <2>1. B = A \o phys[D].acts
    BY <1>1, <1>2, ActsInStep
  <2>2. B = A \o a
    BY Zenon, <2>1 DEF Last
  <2> HIDE DEF A, B, a
  <2> QED BY <1>3, <1>4, <2>2, ConcatJoins
<1>6. /\ IsSeq(B) /\ Len(B) = N + L
      /\ \A i \in 1..N : B[i] = A[i]
      /\ \A i \in 1..L : B[N + i] = a[i]
  BY <1>5 DEF Joined
<1>7. /\ Len(frames) = N + 1
      /\ \A k \in 1..N : ReadsFrom(img, mem, frames[k], frames[k + 1].real_bp, A[(N + 1) - k])
  BY DEF Matches, AllRead
<1>8. /\ Len(gs) = L - 1
      /\ \A k \in 1..(L - 1) : gs[k].real_bp = low /\ ReadsFrom(img, mem, gs[k], low, a[L - k])
  BY DEF RestoredRead
<1>9. ReadsFrom(img, mem, fr, low, a[L])
  BY DEF Last
<1> HIDE DEF A, B, a, L, N, D, low
<1>10. /\ Len(u) = (N + 1) + (L - 1)
       /\ \A j \in 1..(L - 1) : u[j] = gs[j]
       /\ \A j \in 1..(N + 1) : u[(L - 1) + j] = frames[j]
  <2>1. /\ Len(u) = Len(frames) + Len(gs)
        /\ \A j \in 1..Len(gs) : u[0 + j] = gs[j]
        /\ \A j \in 1..(Len(frames) - 0) : u[(0 + Len(gs)) + j] = frames[0 + j]
    BY DEF Inserted
  <2>2. \A j \in 1..(L - 1) : u[j] = gs[j]
    BY <1>3, <1>8, <2>1
  <2>3. ASSUME NEW j \in 1..(N + 1) PROVE u[(L - 1) + j] = frames[j]
    <3>1. j \in 1..(Len(frames) - 0) /\ (0 + Len(gs)) + j = (L - 1) + j /\ 0 + j = j
      <4>1. Len(frames) = N + 1 /\ Len(gs) = L - 1
        BY <1>7, <1>8
      <4> QED BY <1>3, <1>4, <4>1
    <3> QED BY <2>1, <3>1
  <2> QED BY <1>7, <1>8, <2>1, <2>2, <2>3
<1>11. t[1] = fr /\ \A j \in 1..((N + 1) + (L - 1)) : t[1 + j] = u[j]
  <2>1. Len(<<fr>>) = 1 /\ <<fr>>[1] = fr
    OBVIOUS
  <2>2. /\ \A j \in 1..1 : t[0 + j] = <<fr>>[j]
        /\ \A j \in 1..(Len(u) - 0) : t[(0 + 1) + j] = u[0 + j]
    BY <2>1 DEF Inserted
  <2>3. t[1] = fr
    BY <2>1, <2>2
  <2>4. ASSUME NEW j \in 1..((N + 1) + (L - 1)) PROVE t[1 + j] = u[j]
    <3>1. j \in 1..(Len(u) - 0) /\ (0 + 1) + j = 1 + j /\ 0 + j = j
      BY <1>3, <1>4, <1>10
    <3> QED BY <2>2, <3>1
  <2> QED BY <2>3, <2>4
\* The frames after the first are relative to the frame of the function that failed.
<1>12. ASSUME NEW j \in 1..L PROVE t[1 + j].real_bp = low
  <2>1. j \in 1..((N + 1) + (L - 1))
    BY <1>3, <1>4
  <2>2. CASE j \in 1..(L - 1)
    BY <1>8, <1>10, <1>11, <2>1, <2>2
  <2>3. CASE j = L
    <3>1. 1 \in 1..(N + 1) /\ (L - 1) + 1 = L
      BY <1>3, <1>4
    <3>2. u[L] = frames[1]
      BY <1>10, <3>1
    <3> QED BY <1>11, <2>1, <2>3, <3>2 DEF low
  <2> QED BY <1>3, <2>2, <2>3
<1>13. ASSUME NEW k \in 1..Len(B)
       PROVE  ReadsFrom(img, mem, t[k], t[k + 1].real_bp, B[(Len(B) + 1) - k])
  <2>1. k \in Nat /\ k >= 1 /\ k <= N + L /\ Len(B) = N + L
    BY <1>3, <1>4, <1>6
  <2>2. CASE k = 1
    <3>1. (Len(B) + 1) - k = N + L /\ L \in 1..L /\ 1 \in 1..L
      BY <1>3, <1>4, <2>1, <2>2
    <3>2. B[N + L] = a[L] /\ t[1] = fr /\ t[1 + 1].real_bp = low
      BY <1>6, <1>11, <1>12, <3>1
    <3> QED BY <1>9, <2>2, <3>1, <3>2
  <2>3. CASE k \in 2..L
    <3> DEFINE j == k - 1
    <3>1. /\ j \in 1..(L - 1) /\ 1 + j = k /\ (Len(B) + 1) - k = N + (L - j)
          /\ L - j \in 1..L /\ j \in 1..((N + 1) + (L - 1)) /\ k \in 1..L /\ 1 + k = k + 1
      BY <1>3, <1>4, <2>1, <2>3
    <3> HIDE DEF j
    <3>2. t[k] = gs[j]
      BY <1>10, <1>11, <3>1
    <3>3. B[N + (L - j)] = a[L - j] /\ t[1 + k].real_bp = low
      BY <1>6, <1>12, <3>1
    <3> QED BY <1>8, <3>1, <3>2, <3>3
  <2>4. CASE k > L
    <3> DEFINE j == k - L
    <3>1. /\ j \in 1..N /\ j \in 1..(N + 1) /\ k = 1 + ((L - 1) + j)
          /\ j + 1 \in 1..(N + 1) /\ k + 1 = 1 + ((L - 1) + (j + 1))
          /\ (Len(B) + 1) - k = (N + 1) - j
          /\ (N + 1) - j \in 1..N /\ (L - 1) + j \in 1..((N + 1) + (L - 1))
          /\ (L - 1) + (j + 1) \in 1..((N + 1) + (L - 1))
      BY <1>3, <1>4, <2>1, <2>4
    <3> HIDE DEF j
    <3>2. t[k] = u[(L - 1) + j] /\ t[k + 1] = u[(L - 1) + (j + 1)]
      BY <1>11, <3>1
    <3>3. u[(L - 1) + j] = frames[j] /\ u[(L - 1) + (j + 1)] = frames[j + 1]
      BY <1>10, <3>1
    <3>4. B[(N + 1) - j] = A[(N + 1) - j]
      BY <1>6, <3>1
    <3>5. ReadsFrom(img, mem, frames[j], frames[j + 1].real_bp, A[(N + 1) - j])
      BY <1>7, <3>1
    <3> QED BY Zenon, <3>1, <3>2, <3>3, <3>4, <3>5
  <2>5. k = 1 \/ k \in 2..L \/ k > L
    BY <1>3, <2>1
  <2> QED BY <2>2, <2>3, <2>4, <2>5
<1>14. AllRead(img, mem, t, B)
  BY <1>13 DEF AllRead
<1> QED BY <1>14 DEF B, D

-----------------------------------------------------------------------------
(***************************************************************************)
(* The invariant of the values: optimized code and the handler leave the   *)
(* variables where they are until get_locations has read them.             *)
(***************************************************************************)
KeptInv == pc \in {"opt", "collect", "inline", "fail"} => ValuesKept(img, phys, mem)

\* What frames reads when collect_inlined_frames is done.
BelowRead ==
  /\ AllRead(img, mem, frames, ActsIn(phys, Len(phys) - 1))
  /\ frames[1].registers = Last(phys).regs

BelowInv == (pc = "inline" /\ idx = Len(phys)) \/ pc = "fail" => BelowRead

ReadInv == pc \in {"segment", "read"} => AllRead(img, mem, frames, ActsIn(phys, Len(phys)))

ValuesInv == VariablesOK(img) /\ KeptInv /\ BelowInv /\ ReadInv /\ ValuesRead

\* While optimized code runs.
LEMMA OptValues ==
  ASSUME IInv, IInv', ValuesInv, OptStep
  PROVE  ValuesInv'
<1>1. pc = "opt" /\ pc' \in {"opt", "done", "overflow"} /\ img' = img
  BY DEF OptStep, OptCall, OptInlinedCall, OptBranch, OptReturn, AtOptSite
<1>2. /\ Supported(img) /\ StackOK(img, phys) /\ IsMem(mem)
      /\ VariablesOK(img) /\ ValuesKept(img, phys, mem)
  BY <1>1 DEF IInv, StackInv, ValuesInv, KeptInv
<1>3. ASSUME pc' = "opt" PROVE ValuesKept(img, phys', mem')
  <2>1. StackOK(img, phys')
    BY <1>1, <1>3 DEF IInv, StackInv
  <2>2. CASE OptCall
    BY <1>2, <2>1, <2>2, CallValues
  <2>3. CASE OptInlinedCall
    BY <1>2, <2>3, InlinedCallValues
  <2>4. CASE OptBranch \/ OptReturn
    BY <1>1, <1>2, <1>3, <2>4, BranchReturnValues
  <2> QED BY <2>2, <2>3, <2>4 DEF OptStep
<1>4. VariablesOK(img')
  BY <1>1, <1>2
<1>5. KeptInv'
  BY <1>1, <1>3 DEF KeptInv
<1>6. BelowInv' /\ ReadInv' /\ ValuesRead'
  BY <1>1 DEF BelowInv, ReadInv, ValuesRead
<1> QED BY <1>4, <1>5, <1>6 DEF ValuesInv

\* The call of the handler pushes below the frame of the guard.
LEMMA FailureValues ==
  ASSUME IInv, ValuesInv, GuardFailure
  PROVE  ValuesInv'
<1> DEFINE p == TopFrame
           N == Len(phys)
           rsp == p.regs[RSP]
           y == rsp - 2
           y1 == rsp - 1
           back == OptAddr(img, p.fun, Path(p.acts)) + PATCHPOINT_CALL_SIZE
           m2 == TwoWritten(mem, y1, back, y, p.bp)
<1>1. /\ AtOptSite /\ mem' = [mem EXCEPT ![rsp - 1] = back, ![rsp - 2] = p.bp]
      /\ pc' \in {"exited", "collect"} /\ UNCHANGED <<img, phys>>
  BY Zenon DEF GuardFailure
<1>2. pc = "opt"
  BY <1>1 DEF AtOptSite
<1>3. /\ Supported(img) /\ StackOK(img, phys) /\ IsMem(mem)
      /\ VariablesOK(img) /\ ValuesKept(img, phys, mem)
  BY <1>2 DEF IInv, StackInv, ValuesInv, KeptInv
<1>4. /\ p = Last(phys) /\ y \in Stack /\ y1 \in Stack /\ y1 = y + 1
      /\ y = p.bp - StackSize(img, p.fun) - 1
      /\ p.bp \in Int /\ StackSize(img, p.fun) \in Nat \ {0}
  BY <1>3, TopOK DEF TopFrame
<1>5. mem' = m2
  BY Zenon, <1>1 DEF TwoWritten
<1> HIDE DEF y, y1, back, p
<1>6. y \in Stack \cup Heap /\ y1 \in Stack \cup Heap /\ y # y1 /\ y \in Int
  BY <1>4 DEF Stack
<1>7. \A x \in Stack \cup Heap : x # y1 /\ x # y => m2[x] = mem[x]
  BY <1>3, <1>6, MemTwo
<1> HIDE DEF m2
<1>8. \A x \in Stack : x > Last(phys).bp - StackSize(img, Last(phys).fun) => mem'[x] = mem[x]
  BY <1>4, <1>5, <1>6, <1>7 DEF Stack
<1>9. ValuesKept(img, phys, mem')
  BY <1>3, <1>8, ValuesElsewhere
<1>10. KeptInv' /\ VariablesOK(img')
  BY <1>1, <1>3, <1>9 DEF KeptInv
<1>11. BelowInv' /\ ReadInv' /\ ValuesRead'
  BY <1>1 DEF BelowInv, ReadInv, ValuesRead
<1> QED BY <1>10, <1>11 DEF ValuesInv

\* collect_map_records writes to return addresses, where no variable is.
LEMMA CollectValues ==
  ASSUME IInv, ValuesInv, collect_map_records
  PROVE  ValuesInv'
<1> DEFINE D == Len(phys)
           i == idx
           a == frames[i].ret_addr
<1>1. /\ pc = "collect" /\ i <= Len(frames) - 1 /\ UNCHANGED <<img, phys>>
  BY DEF collect_map_records, LastIdx
<1>2. /\ Supported(img) /\ StackOK(img, phys) /\ IsMem(mem)
      /\ VariablesOK(img) /\ ValuesKept(img, phys, mem)
      /\ CollectOK(img, phys, frames, mem, i)
  BY <1>1 DEF IInv, StackInv, CollectInv, HandlerPoints, ValuesInv, KeptInv
<1>3. pc' \in {"collect", "crashed", "exited"} /\ \E v : mem' = mem \/ mem' = [mem EXCEPT ![a] = v]
  BY <1>1 DEF collect_map_records, CollectRecord, Stop
<1>4. D \in Nat /\ i \in 1..(D - 1) /\ i \in 1..D /\ (D + 1) - i \in 2..D
  BY <1>1, <1>2 DEF CollectOK, StackOK, IsSeq
<1>5. a = phys[(D + 1) - i].bp + 1
  BY <1>2, <1>4 DEF CollectOK, ReadFrom
<1> HIDE DEF a
<1>6. \A x \in Stack : x # a => mem'[x] = mem[x]
  <2>1. PICK v : mem' = mem \/ mem' = [mem EXCEPT ![a] = v]
    BY <1>3
  <2>2. \A x \in Stack \cup Heap : x # a => [mem EXCEPT ![a] = v][x] = mem[x]
    BY <1>2, MemExcept
  <2> QED BY <2>1, <2>2
<1>7. \A x \in Stack : (\A n \in 2..D : x # phys[n].bp + 1) => mem'[x] = mem[x]
  BY <1>4, <1>5, <1>6
<1>8. ValuesKept(img, phys, mem')
  BY <1>2, <1>7, ValuesElsewhere
<1>9. KeptInv' /\ VariablesOK(img')
  BY <1>1, <1>2, <1>8 DEF KeptInv
<1>10. BelowInv' /\ ReadInv' /\ ValuesRead'
  BY <1>3 DEF BelowInv, ReadInv, ValuesRead
<1> QED BY <1>9, <1>10 DEF ValuesInv

\* The first frame has the registers of the function that failed.
LEMMA FirstRegisters ==
  ASSUME NEW b, NEW ph, StackOK(b, ph), NEW fs, NEW m, NEW i, CollectOK(b, ph, fs, m, i)
  PROVE  fs[1].registers = Last(ph).regs
<1> DEFINE D == Len(ph)
<1>1. 1 \in 1..D /\ (D + 1) - 1 = D
  BY DEF StackOK, IsSeq
<1>2. ReadFrom(fs[1], ph[D])
  <2>1. ReadFrom(fs[1], ph[(D + 1) - 1])
    BY <1>1 DEF CollectOK
  <2> QED BY <1>1, <2>1
<1> QED BY <1>2 DEF ReadFrom, Last

\* All records have been collected.
LEMMA CollectEndValues ==
  ASSUME IInv, ValuesInv, CollectMapRecordsEnd
  PROVE  ValuesInv'
<1> DEFINE D == Len(phys)
<1>1. /\ pc = "collect" /\ idx > Len(frames) - 1 /\ pc' = "inline" /\ idx' = 1
      /\ UNCHANGED <<img, phys, mem, frames>>
  BY DEF CollectMapRecordsEnd, LastIdx
<1>2. /\ Supported(img) /\ StackOK(img, phys)
      /\ VariablesOK(img) /\ ValuesKept(img, phys, mem)
      /\ CollectOK(img, phys, frames, mem, idx)
  BY <1>1 DEF IInv, StackInv, CollectInv, HandlerPoints, ValuesInv, KeptInv
<1>3. D \in Nat /\ D >= 1 /\ Len(frames) = D
  BY <1>2, MainRead
<1>4. CollectOK(img, phys, frames, mem, D)
  <2>1. idx = D
    BY <1>1, <1>2, <1>3 DEF CollectOK
  <2> QED BY <1>2, <2>1
<1>5. ASSUME D = 1 PROVE BelowRead
  <2>1. Single(phys, D - 1)
    BY <1>5 DEF Single
  <2> QED BY <1>2, <1>4, <2>1, NothingReads, FirstRegisters DEF BelowRead
<1>6. KeptInv' /\ VariablesOK(img')
  BY <1>1, <1>2 DEF KeptInv
<1>7. BelowInv'
  BY <1>1, <1>5 DEF BelowInv, BelowRead
<1>8. ReadInv' /\ ValuesRead'
  BY <1>1 DEF ReadInv, ValuesRead
<1> QED BY <1>6, <1>7, <1>8 DEF ValuesInv

\* collect_inlined_frames writes nothing to memory, and ends with all frames but those
\* of the guard.
LEMMA InlineEndValues ==
  ASSUME IInv, ValuesInv, CollectInlinedFramesEnd
  PROVE  ValuesInv'
<1>1. /\ pc = "inline" /\ idx >= copy.depth /\ pc' = "fail"
      /\ UNCHANGED <<img, phys, mem, frames>>
  BY DEF CollectInlinedFramesEnd
<1>2. /\ StackOK(img, phys) /\ copy.depth = Len(phys) /\ idx \in 1..Len(phys)
      /\ VariablesOK(img) /\ ValuesKept(img, phys, mem)
  BY <1>1 DEF IInv, StackInv, InlineInv, HandlerPoints, ValuesInv, KeptInv
<1>3. idx = Len(phys)
  <2>1. Len(phys) \in Nat
    BY <1>2 DEF StackOK, IsSeq
  <2> QED BY <1>1, <1>2, <2>1
<1>4. BelowRead
  BY <1>1, <1>3 DEF ValuesInv, BelowInv
<1>5. KeptInv' /\ VariablesOK(img')
  BY <1>1, <1>2 DEF KeptInv
<1>6. BelowInv'
  BY <1>1, <1>4 DEF BelowInv, BelowRead
<1>7. ReadInv' /\ ValuesRead'
  BY <1>1 DEF ReadInv, ValuesRead
<1> QED BY <1>5, <1>6, <1>7 DEF ValuesInv

\* collect_inlined_frames, for one frame: the frames it inserts read the variables of main.
LEMMA InlineValues ==
  ASSUME IInv, IInv', ValuesInv, collect_inlined_frames
  PROVE  ValuesInv'
<1> DEFINE D == Len(phys)
           i == idx
           p == phys[D - i]
           w == Path(p.acts)
           back == CallAddr(img, p)
           fr == frames[i]
<1>1. pc = "inline" /\ i < copy.depth /\ UNCHANGED <<img, phys>>
  BY DEF collect_inlined_frames
<1>2. /\ Supported(img) /\ StackOK(img, phys) /\ copy.depth = D /\ i \in 1..D
      /\ VariablesOK(img) /\ ValuesKept(img, phys, mem)
  BY <1>1 DEF IInv, StackInv, InlineInv, HandlerPoints, ValuesInv, KeptInv
<1>3. /\ CollectOK(img, phys, frames, mem, D) /\ copy.shared /\ inlined = FALSE
      /\ \A k \in 1..(i - 1) : Len(phys[D - k].acts) = 1
  BY <1>1, <1>2 DEF IInv, InlineInv
<1>4. /\ D \in Nat /\ i \in 1..(D - 1) /\ D - i \in 1..(D - 1) /\ i \in 1..D /\ i < D
  BY <1>1, <1>2 DEF StackOK, IsSeq
<1>5. CopyOf(i) = fr /\ CopyOf(i + 1) = frames[i + 1]
  BY <1>3 DEF CopyOf
<1>6. \/ pc' \in {"crashed", "exited"} /\ mem' = mem
      \/ idx' = i + 1 /\ UNCHANGED <<pc, mem, frames, copy, inlined>>
      \/ /\ ~InFunction(sm, fr.stored_ret_addr, FunAddrOf(sm, fr.record))
         /\ CollectInlined(fr, frames[i + 1])
         /\ pc' = pc
  <2> HIDE DEF fr
  <2>1. IF fr.record = NULL THEN Stop("crashed")
        ELSE IF InFunction(sm, fr.stored_ret_addr, FunAddrOf(sm, fr.record))
        THEN idx' = idx + 1 /\ UNCHANGED <<pc, mem, frames, copy, inlined>>
        ELSE CollectInlined(fr, CopyOf(i + 1))
    BY Zenon, <1>5 DEF collect_inlined_frames
  <2>2. CollectInlined(fr, frames[i + 1]) => (pc' = pc \/ (pc' = "crashed" /\ mem' = mem))
    BY DEF CollectInlined, Stop
  <2> QED BY <1>5, <2>1, <2>2 DEF Stop
<1>7. SUFFICES ASSUME pc' = pc PROVE mem' = mem /\ (idx' = D => BelowRead')
  <2>1. VariablesOK(img')
    BY <1>1, <1>2
  <2>2. CASE pc' = pc
    <3>1. mem' = mem /\ (idx' = D => BelowRead')
      BY <1>7, <2>2
    <3>2. KeptInv'
      BY <1>1, <1>2, <3>1 DEF KeptInv
    <3>3. BelowInv' /\ ReadInv' /\ ValuesRead'
      BY <1>1, <2>2, <3>1 DEF BelowInv, ReadInv, ValuesRead
    <3> QED BY <2>1, <3>2, <3>3 DEF ValuesInv
  <2>3. CASE pc' # pc
    <3>1. pc' \in {"crashed", "exited"}
      BY <1>6, <2>3
    <3>2. KeptInv' /\ BelowInv' /\ ReadInv' /\ ValuesRead'
      BY <3>1 DEF KeptInv, BelowInv, ReadInv, ValuesRead
    <3> QED BY <2>1, <3>2 DEF ValuesInv
  <2> QED BY <2>2, <2>3
<1>8. CASE idx' = i + 1 /\ UNCHANGED <<pc, mem, frames, copy, inlined>>
  <2> SUFFICES ASSUME idx' = D PROVE BelowRead'
    BY <1>8
  <2>1. BelowOK(img, phys, frames, FALSE)
    BY <1>1, <1>3, <1>8 DEF IInv, InlineInv
  <2>2. Single(phys, D - 1)
    BY <2>1 DEF BelowOK
  <2>3. BelowRead
    BY <1>2, <1>3, <2>2, NothingReads, FirstRegisters DEF BelowRead
  <2> QED BY <1>1, <1>8, <2>3 DEF BelowRead
<1>9. CASE /\ ~InFunction(sm, fr.stored_ret_addr, FunAddrOf(sm, fr.record))
           /\ CollectInlined(fr, frames[i + 1])
  <2> DEFINE next == back + PATCHPOINT_CALL_SIZE + 1
             size_rec == stmap_get_size_record_in_func(sm, get_sym_start(sm, next))
             addr == sm.funcs[size_rec].fun_addr + sm.recs[fr.record].instr_offset
             ppid == get_next_patchpoint(sm, addr, size_rec)
             gs == get_restored_state(next, ppid, frames[i + 1].real_bp,
                                      frames[i + 1].registers)
  <2>1. /\ Collected(img, fr, p) /\ fr.stored_ret_addr = back
    BY <1>3, <1>4 DEF CollectOK
  <2>2. /\ mem' = mem /\ idx' = i + 1 /\ frames' = insert_frames(frames, i, gs)
    <3> HIDE DEF fr
    <3>1. IF size_rec = NULL THEN Stop("crashed")
          ELSE /\ frames' = insert_frames(frames, i, gs)
               /\ idx' = i + 1 /\ UNCHANGED <<pc, mem>>
      BY Zenon, <1>9, <2>1 DEF CollectInlined
    <3>2. Stop("crashed") => pc' = "crashed"
      BY DEF Stop
    <3>3. pc' # "crashed"
      BY <1>1, <1>7
    <3> QED BY Zenon, <3>1, <3>2, <3>3
  <2> SUFFICES ASSUME i + 1 = D PROVE BelowRead'
    BY <2>2
  <2>3. /\ D - i = 1 /\ D >= 2 /\ D - 1 = i /\ D - 2 = i - 1 /\ 1 \in 1..D /\ p = phys[1]
        /\ (D + 1) - D = 1 /\ D \in 1..D /\ 1 \in 1..(D - 1)
    BY <1>4
  <2>4. /\ w \in SitePaths(img, p.fun) /\ Last(w) = SiteIn(p) /\ Len(w) = Len(p.acts)
        /\ CallOK(img, p.fun, w) /\ RecordOK(img, SiteIn(p))
        /\ CallVariables(img, p.fun, w)
    BY <1>2, <1>4, CallerSite, CallerVariables
  <2>5. fr.record = stmap_get_map_record(sm, IdAt(img, Last(w)))
    BY <2>1, <2>4 DEF Collected, sm
  <2>6. Len(p.acts) \in Nat /\ Len(p.acts) >= 1
    <3>1. FrameOK(img, p)
      BY <1>2, <2>3 DEF StackOK
    <3> HIDE DEF p
    <3> QED BY <3>1 DEF FrameOK, ActsOK, IsSeq
  <2> HIDE DEF w
  <2>7. Len(w) > 1
    <3>1. InFunction(sm, back, FunAddrOf(sm, fr.record)) <=> Len(w) = 1
      BY <2>4, <2>5 DEF CallOK, CallAddr, sm, w
    <3>2. Len(w) # 1
      BY Zenon, <1>9, <2>1, <3>1
    <3>3. ASSUME NEW x, x \in Nat, x >= 1, x # 1 PROVE x > 1
      BY <3>3
    <3> HIDE DEF p
    <3> QED BY Zenon, <2>4, <2>6, <3>2, <3>3
  <2>8. EnclosingFound(img, w, next, ppid)
    <3> DEFINE opt == stmap_get_map_record(sm, IdAt(img, Last(w)))
               at(rec) == sm.funcs[size_rec].fun_addr + sm.recs[rec].instr_offset
    <3>1. EnclosingFound(img, w, next, get_next_patchpoint(sm, at(opt), size_rec))
      BY Zenon, <2>4, <2>7 DEF CallOK, CallAddr, sm, w
    <3>2. addr = at(opt)
      BY Zenon, <2>5
    <3> HIDE DEF at, addr
    <3> QED BY Zenon, <3>1, <3>2
  <2>9. EnclosingRecords(img, p.fun, w, next)
    BY Zenon, <2>4 DEF CallVariables, CallAddr, w
  <2>10. frames[i + 1].real_bp = phys[1].bp /\ frames[i + 1].registers = phys[1].regs
    <3>1. ReadFrom(frames[D], phys[1])
      BY <1>3, <2>3 DEF CollectOK
    <3> QED BY <3>1 DEF ReadFrom
  <2>11. gs = get_restored_state(next, ppid, phys[1].bp, phys[1].regs)
    BY Zenon, <2>10
  <2>12. RestoredRead(img, mem, phys[1], gs) /\ RestoredFor(phys[1].acts, gs)
    <3> DEFINE start == next
               last == ppid
    <3>1. /\ Len(Path(phys[1].acts)) = Len(phys[1].acts)
          /\ EnclosingFound(img, Path(phys[1].acts), start, last)
          /\ EnclosingRecords(img, phys[1].fun, Path(phys[1].acts), start)
      BY <2>3, <2>4, <2>8, <2>9 DEF w
    <3>2. /\ ActsOK(img, phys[1].fun, phys[1].acts)
          /\ \A k \in 1..Len(phys[1].acts) :
               Path(phys[1].acts)[k] = <<phys[1].acts[k].fun, phys[1].acts[k].at>>
      BY <1>2, <2>3 DEF StackOK, FrameOK, Path
    <3> HIDE DEF start, last, next, ppid, gs
    <3>3. RestoredRead(img, mem, phys[1], get_restored_state(start, last, phys[1].bp, phys[1].regs))
      BY <1>2, <2>3, <3>1, RestoredReads
    <3>4. RestoredFor(phys[1].acts, get_restored_state(start, last, phys[1].bp, phys[1].regs))
      BY <1>2, <3>1, <3>2, RestoredFrames
    <3> QED BY <2>11, <3>3, <3>4 DEF start, last
  <2> HIDE DEF gs, p
  <2>13. Inserted(frames, D - 1, gs, frames')
    <3>1. IsSeq(gs)
      BY <2>12 DEF RestoredFor
    <3>2. IsSeq(frames) /\ i \in 0..Len(frames)
      BY <1>3, <1>4 DEF CollectOK
    <3>3. Inserted(frames, i, gs, insert_frames(frames, i, gs))
      BY <3>1, <3>2, InsertFrames
    <3> QED BY <2>2, <2>3, <3>3
  <2>14. AllRead(img, mem, frames', ActsIn(phys, D - 1))
    <3>1. \A k \in 1..(D - 2) : Len(phys[D - k].acts) = 1
      BY <1>3, <2>3
    <3>2. IsSeq(gs) /\ Len(gs) = Len(phys[1].acts) - 1
      BY <2>12 DEF RestoredFor
    <3> QED BY <1>2, <1>3, <2>3, <2>12, <2>13, <3>1, <3>2, InlinedReads
  <2>15. frames'[1].registers = Last(phys).regs
    <3>1. frames'[1] = frames[1]
      BY <2>3, <2>13 DEF Inserted
    <3> QED BY <1>2, <1>3, <3>1, FirstRegisters
  <2> QED BY <1>1, <2>2, <2>14, <2>15 DEF BelowRead
<1>10. pc' \notin {"crashed", "exited"}
  BY <1>1, <1>7
<1> QED BY <1>6, <1>8, <1>9, <1>10

\* The records of the guard that failed describe its variables.
LEMMA GuardVariablesOf ==
  ASSUME Supported(img), VariablesOK(img), StackOK(img, phys), FailureOK(img, phys, sm_id, ret)
  PROVE  GuardVariables(img, Last(phys).fun, Path(Last(phys).acts))
<1> DEFINE p == Last(phys)
           f == p.fun
           w == Path(p.acts)
<1>1. CodeOK(img) /\ f \in FunctionsRun(img) /\ ActsOK(img, f, p.acts)
  BY GuardSite DEF Supported
<1>2. /\ Last(p.acts).at <= Len(img.prog.body[Last(p.acts).fun])
      /\ img.prog.body[Last(p.acts).fun][Last(p.acts).at].kind = "guard"
  BY DEF FailureOK, AtSiteOf
<1>3. w \in SitePaths(img, f) /\ SiteOf(img, w) = img.prog.body[Last(p.acts).fun][Last(p.acts).at]
  <2> HIDE DEF p
  <2> QED BY <1>1, <1>2, PathAtSite DEF Supported
<1> HIDE DEF w, f, p
<1>4. GuardVariables(img, f, w)
  BY <1>1, <1>2, <1>3 DEF VariablesOK
<1> QED BY <1>4 DEF w, f, p

\* The frame of the guard reads the variables of its function.
LEMMA FailFrameReads ==
  ASSUME Supported(img), VariablesOK(img), StackOK(img, phys),
         FailureOK(img, phys, sm_id, ret), ValuesKept(img, phys, mem),
         frames[1].registers = Last(phys).regs, NEW x
  PROVE  ReadsFrom(img, mem, FailFrame(x), Last(phys).bp, Last(Last(phys).acts))
<1> DEFINE D == Len(phys)
           p == phys[D]
           K == Len(p.acts)
           fr == FailFrame(x)
<1>1. D \in 1..D /\ D \in Nat /\ Last(phys) = p
  BY DEF StackOK, IsSeq, Last
<1>2. /\ Last(Path(p.acts)) = SiteIn(p) /\ Len(Path(p.acts)) = K
      /\ sm_id = IdAt(img, SiteIn(p)) /\ GuardVariables(img, p.fun, Path(p.acts))
      /\ ActsOK(img, p.fun, p.acts)
  BY <1>1, GuardSite, GuardVariablesOf DEF FailureOK
<1>3. K \in 1..K /\ Last(p.acts) = p.acts[K]
  <2> HIDE DEF p
  <2> QED BY <1>2, LastAct
<1>4. fr.real_record = stmap_get_map_record(sm, sm_id) /\ fr.registers = p.regs
  BY <1>1 DEF FailFrame
<1> HIDE DEF fr
<1>5. RecordFor(img, fr.real_record, p.fun, Path(p.acts), K)
  <2> HIDE DEF p, K
  <2> QED BY <1>2, <1>4 DEF GuardVariables, sm
<1>6. Kept(img, mem, p, K, fr.registers)
  BY <1>1, <1>3, <1>4 DEF ValuesKept
<1>7. /\ D \in 1..Len(phys) /\ K \in 1..Len(phys[D].acts)
      /\ RecordFor(img, fr.real_record, phys[D].fun, Path(phys[D].acts), K)
      /\ Kept(img, mem, phys[D], K, fr.registers)
  BY <1>1, <1>3, <1>5, <1>6
<1>8. Last(phys).bp = phys[D].bp /\ Last(Last(phys).acts) = phys[D].acts[K]
  BY <1>1, <1>3
<1> HIDE DEF K, D
<1>9. ReadsFrom(img, mem, fr, phys[D].bp, phys[D].acts[K])
  BY <1>7, FrameReads
<1> QED BY Zenon, <1>8, <1>9 DEF fr

\* insert_fail_frame: the frames of the guard and of the activations it was inlined in.
LEMMA FailValues ==
  ASSUME IInv, ValuesInv, InsertFailFrame
  PROVE  ValuesInv'
<1> DEFINE D == Len(phys)
           p == Last(phys)
           w == Path(p.acts)
           opt == stmap_get_map_record(sm, sm_id)
           simple == insert_frames(frames, 0, <<FailFrame(FALSE)>>)
           size_rec == stmap_get_size_record_in_func(sm, get_sym_start(sm, ret))
           ppid == get_next_patchpoint(sm, ret, size_rec)
           gs == get_restored_state(ret, ppid, frames[1].real_bp, frames[1].registers)
           u == insert_frames(frames, 0, gs)
           full == insert_frames(u, 0, <<FailFrame(TRUE)>>)
<1>1. /\ pc = "fail"
      /\ UNCHANGED <<img, sm_id, ret, phys, mem>>
      /\ pc' \in {"segment", "read"}
  BY FailStepFrames DEF InsertFailFrame
<1>2. /\ Supported(img) /\ StackOK(img, phys)
      /\ FailureOK(img, phys, sm_id, ret)
      /\ BelowOK(img, phys, frames, inlined)
      /\ VariablesOK(img) /\ ValuesKept(img, phys, mem) /\ BelowRead
  BY <1>1 DEF IInv, StackInv, FailureInv, FailInv, HandlerPoints, ValuesInv, KeptInv, BelowInv
<1>3. /\ IF InFunction(sm, ret, FunAddrOf(sm, opt))
         THEN frames' = simple
         ELSE IF size_rec = NULL THEN Stop("crashed")
         ELSE frames' = full
  BY Zenon DEF InsertFailFrame
<1>4. /\ Last(w) = SiteIn(p) /\ Len(w) = Len(p.acts)
      /\ ActsOK(img, p.fun, p.acts)
      /\ GuardOK(img, p.fun, w)
  BY <1>2, GuardSite
<1>5. sm_id = IdAt(img, Last(w)) /\ ret = OptAddr(img, p.fun, w) + PATCHPOINT_CALL_SIZE
  BY <1>2, <1>4 DEF FailureOK, CallAddr
<1>6. GuardVariables(img, p.fun, w)
  BY <1>2, GuardVariablesOf
<1>7. /\ Matches(img, frames, ActsIn(phys, D - 1)) /\ IsSeq(frames)
      /\ AllRead(img, mem, frames, ActsIn(phys, D - 1))
      /\ frames[1].real_bp = Last(phys).bp /\ frames[1].registers = Last(phys).regs
  BY <1>2 DEF BelowOK, Matches, BelowRead
<1>8. \A x : ReadsFrom(img, mem, FailFrame(x), Last(phys).bp, Last(Last(phys).acts))
  BY <1>2, <1>7, FailFrameReads
<1>9. Len(p.acts) \in Nat /\ Len(p.acts) >= 1
  <2> HIDE DEF p
  <2> QED BY <1>4 DEF ActsOK, IsSeq
<1>10. AllRead(img, mem, frames', ActsIn(phys, D))
  <2>1. /\ InFunction(sm, ret, FunAddrOf(sm, opt)) <=> Len(p.acts) = 1
        /\ Len(p.acts) # 1 => size_rec # NULL /\ EnclosingFound(img, w, ret, ppid)
    <3> HIDE DEF p, w
    <3>1. Len(p.acts) # 1 => Len(w) > 1
      <4>1. ASSUME NEW x, x \in Nat, x >= 1, x # 1 PROVE x > 1
        BY <4>1
      <4> QED BY Zenon, <1>4, <1>9, <4>1
    <3> QED BY <1>4, <1>5, <3>1 DEF GuardOK, sm
  <2>2. 0 \in 0..Len(frames) /\ Len(frames) \in Nat
    BY <1>7 DEF IsSeq
  <2>3. CASE Len(p.acts) = 1
    <3>1. frames' = simple
      BY Zenon, <1>3, <2>1, <2>3
    <3> DEFINE fr == FailFrame(FALSE)
               none == [j \in 1..0 |-> fr]
    <3>2. IsSeq(none) /\ Len(none) = 0
      BY FunctionIsSeq
    <3>3. ReadsFrom(img, mem, fr, Last(phys).bp, Last(Last(phys).acts))
      BY <1>8
    <3> HIDE DEF none, fr
    <3>4. Len(none) = Len(Last(phys).acts) - 1
      BY <2>3, <3>2
    <3>5. RestoredRead(img, mem, Last(phys), none)
      BY <2>3 DEF RestoredRead
    <3>6. Inserted(frames, 0, none, frames)
      <4>1. Len(frames) = Len(frames) + Len(none)
        BY <2>2, <3>2
      <4>2. \A j \in 1..(Len(frames) - 0) : frames[(0 + Len(none)) + j] = frames[0 + j]
        BY <3>2
      <4> QED BY <1>7, <3>2, <4>1, <4>2 DEF Inserted
    <3>7. Inserted(frames, 0, <<fr>>, frames')
      <4>1. IsSeq(<<fr>>)
        BY SingletonSeq
      <4>2. Inserted(frames, 0, <<fr>>, insert_frames(frames, 0, <<fr>>))
        BY <1>7, <2>2, <4>1, InsertFrames
      <4> QED BY Zenon, <3>1, <4>2 DEF fr
    <3> HIDE DEF p
    <3> QED BY <1>2, <1>7, <3>3, <3>4, <3>5, <3>6, <3>7, FailReads
  <2>4. CASE Len(p.acts) # 1
    <3>1. frames' = full
      BY Zenon, <1>3, <2>1, <2>4
    <3>2. EnclosingFound(img, w, ret, ppid) /\ EnclosingRecords(img, p.fun, w, ret)
      BY <1>5, <1>6, <2>1, <2>4 DEF GuardVariables
    <3>3. gs = get_restored_state(ret, ppid, p.bp, p.regs)
      BY <1>7
    <3>4. RestoredRead(img, mem, p, gs) /\ RestoredFor(p.acts, gs)
      <4>1. D \in 1..Len(phys) /\ p = phys[D]
        BY <1>2 DEF StackOK, IsSeq, Last
      <4>2. \A k \in 1..Len(p.acts) : w[k] = <<p.acts[k].fun, p.acts[k].at>>
        BY DEF Path, w
      <4> HIDE DEF ppid, gs
      <4>3. RestoredFor(p.acts, get_restored_state(ret, ppid, p.bp, p.regs))
        <5> HIDE DEF p
        <5> QED BY <1>2, <1>4, <3>2, <4>2, RestoredFrames DEF w
      <4>4. /\ Len(Path(phys[D].acts)) = Len(phys[D].acts)
            /\ EnclosingFound(img, Path(phys[D].acts), ret, ppid)
            /\ EnclosingRecords(img, phys[D].fun, Path(phys[D].acts), ret)
        BY <1>4, <3>2, <4>1
      <4> HIDE DEF D
      <4>5. RestoredRead(img, mem, phys[D], get_restored_state(ret, ppid, phys[D].bp, phys[D].regs))
        BY <1>2, <4>1, <4>4, RestoredReads
      <4> HIDE DEF p
      <4> QED BY Zenon, <3>3, <4>1, <4>3, <4>5
    <3> DEFINE fr == FailFrame(TRUE)
    <3>5. ReadsFrom(img, mem, fr, Last(phys).bp, Last(Last(phys).acts))
      BY <1>8
    <3>6. full = insert_frames(u, 0, <<fr>>)
      OBVIOUS
    <3> HIDE DEF fr, gs, full
    <3>7. Inserted(frames, 0, gs, u)
      <4>1. IsSeq(gs)
        BY <3>4 DEF RestoredFor
      <4> QED BY <1>7, <2>2, <4>1, InsertFrames
    <3> HIDE DEF u
    <3>8. Inserted(u, 0, <<fr>>, full)
      <4>1. IsSeq(<<fr>>)
        BY SingletonSeq
      <4>2. IsSeq(u)
        BY <3>7 DEF Inserted
      <4>3. 0 \in 0..Len(u)
        BY <4>2 DEF IsSeq
      <4>4. Inserted(u, 0, <<fr>>, insert_frames(u, 0, <<fr>>))
        BY <4>1, <4>2, <4>3, InsertFrames
      <4> QED BY Zenon, <3>6, <4>4
    <3>9. Len(gs) = Len(Last(phys).acts) - 1
      BY <3>4 DEF RestoredFor
    <3>10. RestoredRead(img, mem, Last(phys), gs)
      BY <3>4
    <3>11. AllRead(img, mem, full, ActsIn(phys, Len(phys)))
      <4> HIDE DEF p
      <4> QED BY <1>2, <1>7, <3>5, <3>7, <3>8, <3>9, <3>10, FailReads
    <3> QED BY <3>1, <3>11
  <2> QED BY <2>3, <2>4
<1>11. VariablesOK(img') /\ ReadInv'
  BY <1>1, <1>2, <1>10 DEF ReadInv
<1>12. KeptInv' /\ BelowInv' /\ ValuesRead'
  BY <1>1 DEF KeptInv, BelowInv, ValuesRead
<1> QED BY <1>11, <1>12 DEF ValuesInv

\* insert_real_addresses writes nothing that get_locations reads.
LEMMA BuildValues ==
  ASSUME IInv, ValuesInv, BuildSegment
  PROVE  ValuesInv'
<1> DEFINE N == LastIdx
           acts == ActsIn(phys, Len(phys))
           bp == [k \in 1..LastIdx |-> SegmentBp(HeapBase, k)]
<1>1. /\ pc = "segment" /\ pc' = "read" /\ insert_real_addresses /\ UNCHANGED <<img, phys>>
  BY DEF BuildSegment
<1>2. /\ Supported(img) /\ StackOK(img, phys) /\ IsMem(mem)
      /\ Matches(img, frames, acts) /\ VariablesOK(img) /\ AllRead(img, mem, frames, acts)
  BY <1>1 DEF IInv, StackInv, MatchInv, HandlerPoints, ValuesInv, ReadInv
<1>3. N = Len(acts) /\ Len(frames) = N + 1 /\ N \in Nat
  BY <1>2, MatchedSizes DEF SizesKnown
<1>4. \A x \in Stack : x < MainBp => mem'[x] = mem[x]
  BY <1>1, <1>2, AddressesWritten
<1>5. frames' = [k \in 1..Len(frames) |->
                  IF k <= N THEN Placed(frames[k], bp[k]) ELSE frames[k]]
  BY Zenon, <1>1 DEF insert_real_addresses, Placed
<1>6. \A k \in 1..N : FrameFor(img, frames[k], acts[(N + 1) - k])
  BY <1>2, <1>3 DEF Matches
<1> HIDE DEF N, acts, bp
<1>7. /\ \A k \in 1..N : frames'[k] = Placed(frames[k], bp[k])
      /\ frames'[N + 1] = frames[N + 1]
  BY <1>3, <1>5
<1>8. ASSUME NEW k \in 1..N
      PROVE  /\ frames'[k].real_record = frames[k].real_record
             /\ frames'[k].registers = frames[k].registers
             /\ frames'[k].real_bp = frames[k].real_bp
  <2>1. IsEntry(frames[k]) /\ frames'[k] = Placed(frames[k], bp[k])
    BY <1>6, <1>7 DEF FrameFor
  <2> QED BY <2>1, PlacedFrame
<1>9. \A k \in 1..(N + 1) : frames'[k].real_bp = frames[k].real_bp
  <2>1. \A k \in 1..(N + 1) : k \in 1..N \/ k = N + 1
    BY <1>3
  <2> QED BY <1>7, <1>8, <2>1
<1>10. ASSUME NEW k \in 1..N
       PROVE  ReadsFrom(img, mem', frames'[k], frames'[k + 1].real_bp, acts[(N + 1) - k])
  <2> DEFINE fr == frames[k]
             fr2 == frames'[k]
             base == frames[k + 1].real_bp
             act == acts[(N + 1) - k]
  <2>1. ReadsFrom(img, mem, fr, base, act)
    BY <1>2, <1>3 DEF AllRead
  <2>2. frames'[k + 1].real_bp = base
    <3>1. k + 1 \in 1..(N + 1)
      BY <1>3
    <3> QED BY <1>9, <3>1
  <2>3. fr2.real_record = fr.real_record /\ fr2.registers = fr.registers
    BY <1>8
  <2> HIDE DEF fr, fr2, base, act
  <2>4. ReadsFrom(img, mem', fr2, base, act)
    BY <1>4, <2>1, <2>3, ReadsSame
  <2> QED BY <2>2, <2>4 DEF fr2, act
<1>11. AllRead(img, mem', frames', acts)
  BY <1>3, <1>10 DEF AllRead
<1>12. VariablesOK(img') /\ ReadInv'
  BY <1>1, <1>2, <1>11 DEF ReadInv, acts
<1>13. KeptInv' /\ BelowInv' /\ ValuesRead'
  BY <1>1 DEF KeptInv, BelowInv, ValuesRead
<1> QED BY <1>12, <1>13 DEF ValuesInv

\* The k-th activation from the innermost one.
LEMMA ActivationsReversed ==
  ASSUME Supported(img), StackOK(img, phys), Matches(img, frames, ActsIn(phys, Len(phys))),
         NEW k \in 1..LastIdx
  PROVE  Activations[k] = ActsIn(phys, Len(phys))[(LastIdx + 1) - k]
<1> DEFINE acts == ActsIn(phys, Len(phys))
           N == Len(acts)
<1>1. LastIdx = N /\ N \in Nat
  BY MatchedSizes DEF SizesKnown
<1>2. Activations = Reverse(acts)
  BY DEF Activations, ActsIn
<1> HIDE DEF acts
<1>3. Activations = [n \in 1..N |-> acts[(N - n) + 1]]
  BY <1>2 DEF Reverse
<1> HIDE DEF N
<1>4. k \in 1..N /\ (N - k) + 1 = (N + 1) - k
  BY <1>1
<1> QED BY <1>1, <1>3, <1>4 DEF acts

\* get_locations reads the values of all activations.
LEMMA LocationsValues ==
  ASSUME IInv, ValuesInv, get_locations
  PROVE  ValuesInv'
<1> DEFINE N == LastIdx
           acts == ActsIn(phys, Len(phys))
<1>1. /\ pc = "read" /\ pc' \in {"crashed", "exited", "restore"}
      /\ UNCHANGED <<img, phys, frames>>
      /\ pc' = "restore" =>
           locs' = [k \in 1..LastIdx |-> [j \in 1..Len(OptLocations(k)) |->
                     stmap_get_location_value(OptLocations(k)[j],
                                              frames[k].registers, ReadBase(k))]]
  BY DEF get_locations
<1>2. /\ Supported(img) /\ StackOK(img, phys)
      /\ Matches(img, frames, acts) /\ VariablesOK(img) /\ AllRead(img, mem, frames, acts)
  BY <1>1 DEF IInv, StackInv, MatchInv, HandlerPoints, ValuesInv, ReadInv
<1>3. N = Len(acts)
  BY <1>2, MatchedSizes
<1>4. ASSUME pc' = "restore", NEW k \in 1..N PROVE locs'[k] = Activations[k].vals
  <2> DEFINE fr == frames[k]
             hs == OptLocations(k)
             base == ReadBase(k)
             act == acts[(N + 1) - k]
  <2>1. ReadsFrom(img, mem, fr, frames[k + 1].real_bp, act)
    BY <1>2, <1>3 DEF AllRead
  <2>2. hs = img.sm.recs[fr.real_record].locations /\ base = frames[k + 1].real_bp
    BY DEF OptLocations, LocationsOf, sm, ReadBase
  <2>3. act = Activations[k]
    BY <1>2, ActivationsReversed
  <2>4. locs'[k] = [j \in 1..Len(hs) |-> stmap_get_location_value(hs[j], fr.registers, base)]
    BY <1>1, <1>4
  <2> HIDE DEF hs, base, act, fr
  <2>5. Holds(mem, hs, fr.registers, base, act.vals)
    BY Zenon, <2>1, <2>2 DEF ReadsFrom
  <2>6. act.vals = [j \in 1..Len(hs) |-> ValueIn(mem, hs[j], fr.registers, base)]
    BY <2>5 DEF Holds
  <2>7. ASSUME NEW l, NEW g, NEW b PROVE stmap_get_location_value(l, g, b) = ValueIn(mem, l, g, b)
    BY DEF stmap_get_location_value, ValueIn
  <2>8. locs'[k] = act.vals
    BY <2>4, <2>6, <2>7
  <2> QED BY <2>3, <2>8
<1>5. ValuesRead'
  <2> SUFFICES ASSUME pc' = "restore"
               PROVE  \A k \in 1..LastIdx' : (locs')[k] = (Activations')[k].vals
    BY Zenon DEF ValuesRead
  <2>1. LastIdx' = LastIdx /\ Activations' = Activations
    BY <1>1 DEF LastIdx, Activations
  <2> QED BY <1>4, <2>1
<1>6. VariablesOK(img') /\ KeptInv' /\ BelowInv' /\ ReadInv'
  BY <1>1, <1>2 DEF KeptInv, BelowInv, ReadInv
<1> QED BY <1>5, <1>6 DEF ValuesInv

\* Writing the values to their places does not change what was read.
LEMMA RestoreValues ==
  ASSUME ValuesInv, RestoreFrame
  PROVE  ValuesInv'
<1>1. /\ pc = "restore" /\ pc' \in {"exited", "restore"} /\ UNCHANGED <<img, phys, locs>>
      /\ \E f : frames' = [frames EXCEPT ![idx].registers = f]
  BY DEF RestoreFrame
<1>2. VariablesOK(img') /\ ValuesRead
  BY <1>1 DEF ValuesInv
<1>3. ValuesRead'
  <2> SUFFICES ASSUME pc' = "restore"
               PROVE  \A k \in 1..LastIdx' : (locs')[k] = (Activations')[k].vals
    BY Zenon DEF ValuesRead
  <2>1. Activations' = Activations
    BY <1>1 DEF Activations
  <2>2. Len(frames') = Len(frames)
    BY <1>1
  <2>3. LastIdx' = LastIdx
    BY <2>2 DEF LastIdx
  <2> QED BY <1>1, <1>2, <2>1, <2>3 DEF ValuesRead
<1>4. KeptInv' /\ BelowInv' /\ ReadInv'
  BY <1>1 DEF KeptInv, BelowInv, ReadInv
<1> QED BY <1>2, <1>3, <1>4 DEF ValuesInv

\* Nothing is asked of the values elsewhere.
LEMMA ElsewhereValues ==
  ASSUME VariablesOK(img), UNCHANGED img,
         pc' \notin {"opt", "collect", "inline", "fail", "segment", "read", "restore"}
  PROVE  ValuesInv'
<1>1. VariablesOK(img')
  OBVIOUS
<1>2. KeptInv' /\ BelowInv' /\ ReadInv' /\ ValuesRead'
  BY DEF KeptInv, BelowInv, ReadInv, ValuesRead
<1> QED BY <1>1, <1>2 DEF ValuesInv

\* The invariant of the values depends on nothing but the state.
LEMMA StutterValues ==
  ASSUME ValuesInv, UNCHANGED vars
  PROVE  ValuesInv'
<1>1. UNCHANGED <<img, pc, phys, mem, frames, idx, locs>>
  BY DEF vars, machineVars, failVars, handlerVars
<1>2. VariablesOK(img') /\ KeptInv' /\ ReadInv'
  BY <1>1 DEF ValuesInv, KeptInv, ReadInv
<1>3. BelowInv'
  BY <1>1 DEF ValuesInv, BelowInv, BelowRead
<1>4. ValuesRead'
  BY <1>1 DEF ValuesInv, ValuesRead, LastIdx, Activations
<1> QED BY <1>2, <1>3, <1>4 DEF ValuesInv

\* The values are kept and read by every step.
LEMMA NextValues ==
  ASSUME IInv, IInv', ValuesInv, [Next]_vars
  PROVE  ValuesInv'
<1>1. VariablesOK(img)
  BY DEF ValuesInv
<1>2. CASE OptStep
  BY Zenon, <1>2, OptValues
<1>3. CASE UnoptStep
  <2>1. UNCHANGED img /\ pc' \in {"unopt", "done", "crashed"}
    BY <1>3 DEF UnoptStep, UnoptAdvance, UnoptReturn, UnoptCall, AtUnoptSite
  <2> QED BY <1>1, <2>1, ElsewhereValues
<1>4. CASE GuardFailure
  BY Zenon, <1>4, FailureValues
<1>5. CASE collect_map_records
  BY Zenon, <1>5, CollectValues
<1>6. CASE CollectMapRecordsEnd
  BY Zenon, <1>6, CollectEndValues
<1>7. CASE collect_inlined_frames
  BY Zenon, <1>7, InlineValues
<1>8. CASE CollectInlinedFramesEnd
  BY Zenon, <1>8, InlineEndValues
<1>9. CASE InsertFailFrame
  BY Zenon, <1>9, FailValues
<1>10. CASE BuildSegment
  BY Zenon, <1>10, BuildValues
<1>11. CASE get_locations
  BY Zenon, <1>11, LocationsValues
<1>12. CASE RestoreFrame
  BY Zenon, <1>12, RestoreValues
<1>13. CASE restore_register_state
  <2>1. UNCHANGED img /\ pc' \in {"jmp_to_addr", "jump_inlined"}
    BY <1>13 DEF restore_register_state
  <2> QED BY <1>1, <2>1, ElsewhereValues
<1>14. CASE jmp_to_addr
  <2>1. UNCHANGED img /\ pc' = "unopt"
    BY <1>14 DEF jmp_to_addr, Resume
  <2> QED BY <1>1, <2>1, ElsewhereValues
<1>15. CASE GrowStack
  <2>1. UNCHANGED img /\ pc' \in {"jump_inlined", "overflow"}
    BY <1>15 DEF GrowStack
  <2> QED BY <1>1, <2>1, ElsewhereValues
<1>16. CASE jump_inlined
  <2>1. UNCHANGED img /\ pc' \in {"unopt", "crashed"}
    BY <1>16 DEF jump_inlined, Resume
  <2> QED BY <1>1, <2>1, ElsewhereValues
<1>17. CASE UNCHANGED vars
  BY Zenon, <1>17, StutterValues
<1>18. CASE HandlerStep
  BY Zenon, <1>5, <1>6, <1>7, <1>8, <1>9, <1>10, <1>11, <1>12, <1>13, <1>14, <1>15,
     <1>16, <1>18 DEF HandlerStep
<1> QED BY Zenon, <1>2, <1>3, <1>4, <1>17, <1>18 DEF Next, ProgramStep, Ended

(***************************************************************************)
(* For every program, stack and heap: if the lookups also find the records *)
(* that describe the variables, and no two activations share a place, then *)
(* get_locations reads the values of the variables of every activation of  *)
(* the source program, inlined or not.                                     *)
(***************************************************************************)
THEOREM ValuesReadFollow ==
  Spec /\ Supported(img) /\ VariablesOK(img) => []ValuesRead
<1>1. Init /\ Supported(img) /\ VariablesOK(img) => ValuesInv
  <2> SUFFICES ASSUME Init, Supported(img), VariablesOK(img) PROVE ValuesInv
    OBVIOUS
  <2>1. pc = "opt"
    BY DEF Init, InitMachine
  <2>2. KeptInv
    BY InitValues DEF KeptInv
  <2>3. BelowInv /\ ReadInv /\ ValuesRead
    BY <2>1 DEF BelowInv, ReadInv, ValuesRead
  <2> QED BY <2>2, <2>3 DEF ValuesInv
<1>2. IInv /\ IInv' /\ ValuesInv /\ [Next]_vars => ValuesInv'
  BY NextValues
<1>3. ValuesInv => ValuesRead
  BY DEF ValuesInv
<1> QED BY <1>1, <1>2, <1>3, Invariance, PTL DEF Spec
=============================================================================
