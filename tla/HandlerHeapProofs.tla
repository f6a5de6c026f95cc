------------------------- MODULE HandlerHeapProofs -------------------------
(***************************************************************************)
(* Proofs of the properties of HandlerHeap, for every depth of the call    *)
(* stack and any number of restored frames and variables.                  *)
(*                                                                         *)
(* The invariant is one of ownership: each pointer of the handler owns     *)
(* some blocks while the handler is in certain steps, the blocks of two    *)
(* owners are disjoint, and the allocated blocks are those that have an    *)
(* owner.  It holds on every stack, whatever was inlined.  Only the copy   *)
(* that collect_inlined_frames works on shares the array of another owner, *)
(* and this is safe if nothing is read from it once that array was         *)
(* reallocated.                                                            *)
(***************************************************************************)
EXTENDS HandlerHeap, SequenceTheorems, TLAPS

Steps ==
  {"start", "collect", "inline", "insert", "free", "fail", "guard", "insert_guard",
   "free_guard", "insert_fail", "free_fail", "locations", "restore", "registers",
   "jump_inlined", "jmp_to_addr", "resumed"}

Owners == {"sm", "state", "copy", "res", "fail", "locs", "segment"}

\* When the handler is to free what it has a pointer to.
Holds(h) ==
  CASE h = "sm"      -> step \notin {"start", "jump_inlined", "jmp_to_addr", "resumed"}
    [] h = "state"   -> step \notin {"start", "resumed"}
    [] h = "copy"    -> step \in {"inline", "insert", "free"}
    [] h = "res"     -> step \in {"insert", "free", "insert_guard", "free_guard"}
    [] h = "fail"    -> step \in {"guard", "insert_guard", "free_guard", "insert_fail", "free_fail"}
    [] h = "locs"    -> step = "restore"
    [] h = "segment" ->
         step \in {"locations", "restore", "registers", "jump_inlined", "jmp_to_addr"}

\* The blocks of a pointer.
Pointed(h) ==
  CASE h = "sm"      -> sm
    [] h = "state"   -> Owned(state)
    [] h = "copy"    -> copy.self
    [] h = "res"     -> Owned(res)
    [] h = "fail"    -> Owned(fail)
    [] h = "locs"    -> locs
    [] h = "segment" -> segment

Owns(h) == IF Holds(h) THEN ToSet(Pointed(h)) ELSE {}

-----------------------------------------------------------------------------
BlockSeq == Seq(Nat)

StateType == [self : BlockSeq, frames : BlockSeq, regs : BlockSeq]

TypeInv ==
  /\ shape \in Stacks
  /\ step \in Steps
  /\ idx \in Nat \ {0}
  /\ fresh \in Nat
  /\ fault \in BOOLEAN
  /\ sm \in BlockSeq /\ locs \in BlockSeq /\ segment \in BlockSeq
  /\ state \in StateType /\ res \in StateType /\ fail \in StateType
  /\ copy \in [self : BlockSeq, frames : BlockSeq, depth : Nat]

ControlInv ==
  /\ step # "start" => Len(state.regs) >= shape.depth
  /\ step = "collect" => Len(state.regs) = shape.depth
  /\ step \in {"inline", "insert", "free"} => copy.depth = shape.depth
  /\ step \in {"insert", "free"} => idx < copy.depth /\ idx \in shape.inlinedAt

\* Each allocated block has one owner, and the next ones to be allocated have none.
OwnerInv ==
  /\ \A h \in Owners : IsInjective(Pointed(h))
  /\ live = UNION {Owns(h) : h \in Owners}
  /\ \A g, h \in Owners : g # h => Owns(g) \cap Owns(h) = {}
  /\ live \subseteq 0..(fresh - 1)

\* Only functions inlined into main have to be restored, apart from the guard.
InlinedIntoMain == shape.inlinedAt \subseteq {shape.depth - 1}

FaultInv ==
  InlinedIntoMain =>
    /\ ~fault
    /\ step = "inline" /\ idx < copy.depth => copy.frames = state.frames

IInv == TypeInv /\ ControlInv /\ OwnerInv /\ FaultInv

-----------------------------------------------------------------------------
\* What a concatenation of sequences of blocks contains.
LEMMA ConcatBlocks ==
  ASSUME NEW s \in BlockSeq, NEW t \in BlockSeq
  PROVE  /\ s \o t \in BlockSeq
         /\ ToSet(s \o t) = ToSet(s) \cup ToSet(t)
<1> USE DEF BlockSeq
<1>1. /\ s \o t \in Seq(Nat) /\ Len(s \o t) = Len(s) + Len(t)
      /\ \A i \in 1..(Len(s) + Len(t)) :
           (s \o t)[i] = IF i <= Len(s) THEN s[i] ELSE t[i - Len(s)]
  BY ConcatProperties
<1>2. /\ DOMAIN s = 1..Len(s) /\ DOMAIN t = 1..Len(t)
      /\ DOMAIN (s \o t) = 1..(Len(s) + Len(t))
      /\ Len(s) \in Nat /\ Len(t) \in Nat
  BY <1>1
<1>3. ASSUME NEW b \in ToSet(s \o t) PROVE b \in ToSet(s) \cup ToSet(t)
  <2>1. PICK i \in 1..(Len(s) + Len(t)) : b = (s \o t)[i]
    BY <1>2 DEF ToSet
  <2>2. CASE i <= Len(s)
    BY <1>1, <1>2, <2>1, <2>2 DEF ToSet
  <2>3. CASE i > Len(s)
    <3>1. i - Len(s) \in DOMAIN t /\ b = t[i - Len(s)]
      BY <1>1, <1>2, <2>1, <2>3
    <3> QED BY <3>1 DEF ToSet
  <2> QED BY <1>2, <2>2, <2>3
<1>4. ASSUME NEW b \in ToSet(s) PROVE b \in ToSet(s \o t)
  <2>1. PICK i \in 1..Len(s) : b = s[i]
    BY <1>2 DEF ToSet
  <2>2. i \in DOMAIN (s \o t) /\ (s \o t)[i] = b
    BY <1>1, <1>2, <2>1
  <2> QED BY <2>2 DEF ToSet
<1>5. ASSUME NEW b \in ToSet(t) PROVE b \in ToSet(s \o t)
  <2>1. PICK i \in 1..Len(t) : b = t[i]
    BY <1>2 DEF ToSet
  <2>2. i + Len(s) \in DOMAIN (s \o t) /\ (s \o t)[i + Len(s)] = b
    BY <1>1, <1>2, <2>1
  <2> QED BY <2>2 DEF ToSet
<1> QED
  BY <1>1, <1>3, <1>4, <1>5

\* A concatenation has no block twice iff its parts have none, and none in common.
LEMMA ConcatInjective ==
  ASSUME NEW s \in BlockSeq, NEW t \in BlockSeq
  PROVE  IsInjective(s \o t) <=>
           IsInjective(s) /\ IsInjective(t) /\ ToSet(s) \cap ToSet(t) = {}
<1> USE DEF BlockSeq
<1>1. /\ s \o t \in Seq(Nat) /\ Len(s \o t) = Len(s) + Len(t)
      /\ \A i \in 1..(Len(s) + Len(t)) :
           (s \o t)[i] = IF i <= Len(s) THEN s[i] ELSE t[i - Len(s)]
  BY ConcatProperties
<1>2. /\ DOMAIN s = 1..Len(s) /\ DOMAIN t = 1..Len(t)
      /\ DOMAIN (s \o t) = 1..(Len(s) + Len(t))
      /\ Len(s) \in Nat /\ Len(t) \in Nat
  BY <1>1
<1>3. ASSUME NEW i \in 1..Len(s) PROVE i \in DOMAIN (s \o t) /\ (s \o t)[i] = s[i]
  BY <1>1, <1>2
<1>4. ASSUME NEW i \in 1..Len(t)
      PROVE  i + Len(s) \in DOMAIN (s \o t) /\ (s \o t)[i + Len(s)] = t[i]
  BY <1>1, <1>2
<1>5. ASSUME IsInjective(s \o t)
      PROVE  IsInjective(s) /\ IsInjective(t) /\ ToSet(s) \cap ToSet(t) = {}
  <2>1. IsInjective(s)
    BY <1>2, <1>3, <1>5 DEF IsInjective
  <2>2. IsInjective(t)
    <3> SUFFICES ASSUME NEW a \in 1..Len(t), NEW b \in 1..Len(t), t[a] = t[b] PROVE a = b
      BY <1>2 DEF IsInjective
    <3>1. a + Len(s) = b + Len(s)
      BY <1>4, <1>5 DEF IsInjective
    <3> QED BY <1>2, <3>1
  <2>3. ASSUME NEW x \in ToSet(s), x \in ToSet(t) PROVE FALSE
    <3>1. PICK i \in 1..Len(s) : x = s[i]
      BY <1>2 DEF ToSet
    <3>2. PICK j \in 1..Len(t) : x = t[j]
      BY <1>2, <2>3 DEF ToSet
    <3>3. i = j + Len(s)
      BY <1>3, <1>4, <1>5, <3>1, <3>2 DEF IsInjective
    <3> QED BY <1>2, <3>3
  <2> QED BY <2>1, <2>2, <2>3
<1>6. ASSUME IsInjective(s), IsInjective(t), ToSet(s) \cap ToSet(t) = {}
      PROVE  IsInjective(s \o t)
  <2> SUFFICES ASSUME NEW a \in 1..(Len(s) + Len(t)), NEW b \in 1..(Len(s) + Len(t)),
                      (s \o t)[a] = (s \o t)[b]
               PROVE  a = b
    BY <1>2 DEF IsInjective
  <2>1. ASSUME NEW i \in 1..(Len(s) + Len(t)), NEW j \in 1..(Len(s) + Len(t)),
               i <= Len(s), j > Len(s)
        PROVE  (s \o t)[i] # (s \o t)[j]
    <3>0. i \in DOMAIN s /\ (s \o t)[i] = s[i]
      BY <1>1, <1>2, <2>1
    <3>1. (s \o t)[i] \in ToSet(s)
      BY <3>0 DEF ToSet
    <3>2. j - Len(s) \in DOMAIN t /\ (s \o t)[j] = t[j - Len(s)]
      BY <1>1, <1>2, <2>1
    <3>3. (s \o t)[j] \in ToSet(t)
      BY <3>2 DEF ToSet
    <3> QED BY <1>6, <3>1, <3>3
  <2>2. CASE a <= Len(s) /\ b <= Len(s)
    <3>1. /\ a \in DOMAIN s /\ (s \o t)[a] = s[a]
          /\ b \in DOMAIN s /\ (s \o t)[b] = s[b]
      BY <1>1, <1>2, <2>2
    <3> QED BY <1>6, <3>1 DEF IsInjective
  <2>3. CASE a > Len(s) /\ b > Len(s)
    <3>1. /\ a - Len(s) \in DOMAIN t /\ (s \o t)[a] = t[a - Len(s)]
          /\ b - Len(s) \in DOMAIN t /\ (s \o t)[b] = t[b - Len(s)]
      BY <1>1, <1>2, <2>3
    <3>2. a - Len(s) = b - Len(s)
      BY <1>6, <3>1 DEF IsInjective
    <3> QED BY <1>2, <3>2
  <2> QED BY <1>2, <2>1, <2>2, <2>3
<1> QED
  BY <1>5, <1>6

\* The blocks that free_call_stack_state frees.
LEMMA OwnedBlocks ==
  ASSUME NEW s \in StateType
  PROVE  /\ Owned(s) \in BlockSeq
         /\ ToSet(Owned(s)) = ToSet(s.regs) \cup ToSet(s.frames) \cup ToSet(s.self)
         /\ IsInjective(Owned(s)) <=>
              /\ IsInjective(s.regs) /\ IsInjective(s.frames) /\ IsInjective(s.self)
              /\ ToSet(s.regs) \cap ToSet(s.frames) = {}
              /\ ToSet(s.regs) \cap ToSet(s.self) = {}
              /\ ToSet(s.frames) \cap ToSet(s.self) = {}
<1>1. s.regs \in BlockSeq /\ s.frames \in BlockSeq /\ s.self \in BlockSeq
  BY DEF StateType
<1> DEFINE u == s.regs \o s.frames
<1>2. /\ u \in BlockSeq /\ ToSet(u) = ToSet(s.regs) \cup ToSet(s.frames)
      /\ IsInjective(u) <=> IsInjective(s.regs) /\ IsInjective(s.frames)
                              /\ ToSet(s.regs) \cap ToSet(s.frames) = {}
  BY <1>1, ConcatBlocks, ConcatInjective
<1> HIDE DEF u
<1>3. /\ u \o s.self \in BlockSeq /\ ToSet(u \o s.self) = ToSet(u) \cup ToSet(s.self)
      /\ IsInjective(u \o s.self) <=> IsInjective(u) /\ IsInjective(s.self)
                                        /\ ToSet(u) \cap ToSet(s.self) = {}
  BY <1>1, <1>2, ConcatBlocks, ConcatInjective
<1>4. Owned(s) = u \o s.self
  BY DEF Owned, u
<1> QED
  BY <1>2, <1>3, <1>4

\* New blocks are new and all different.
LEMMA NewBlocks ==
  ASSUME fresh \in Nat, NEW n \in Nat, NEW m \in Nat
  PROVE  /\ New(n, m) \in BlockSeq
         /\ Len(New(n, m)) = m
         /\ ToSet(New(n, m)) = (fresh + n)..(fresh + n + m - 1)
         /\ IsInjective(New(n, m))
<1>1. DOMAIN New(n, m) = 1..m /\ \A k \in 1..m : New(n, m)[k] = fresh + n + k - 1
  BY DEF New
<1>2. New(n, m) \in BlockSeq /\ Len(New(n, m)) = m
  BY DEF New, BlockSeq
<1>3. IsInjective(New(n, m))
  BY <1>1 DEF IsInjective
<1>4. ASSUME NEW b \in (fresh + n)..(fresh + n + m - 1) PROVE b \in ToSet(New(n, m))
  <2>1. b - fresh - n + 1 \in 1..m /\ b = fresh + n + (b - fresh - n + 1) - 1
    OBVIOUS
  <2> QED BY <1>1, <2>1 DEF ToSet
<1>5. ASSUME NEW b \in ToSet(New(n, m)) PROVE b \in (fresh + n)..(fresh + n + m - 1)
  <2>1. PICK k \in 1..m : b = fresh + n + k - 1
    BY <1>1 DEF ToSet
  <2> QED BY <2>1
<1> QED
  BY <1>2, <1>3, <1>4, <1>5

\* Frames inserted after frame at keep the others: none is lost or doubled.
LEMMA InsertBlocks ==
  ASSUME NEW s \in BlockSeq, NEW t \in BlockSeq, NEW at \in 0..Len(s)
  PROVE  LET r == SubSeq(s, 1, at) \o t \o SubSeq(s, at + 1, Len(s)) IN
         /\ r \in BlockSeq
         /\ Len(r) = Len(s) + Len(t)
         /\ ToSet(r) = ToSet(s) \cup ToSet(t)
         /\ IsInjective(s) /\ IsInjective(t) /\ ToSet(s) \cap ToSet(t) = {} => IsInjective(r)
<1> DEFINE a == SubSeq(s, 1, at)
           c == SubSeq(s, at + 1, Len(s))
<1>1. Len(s) \in Nat /\ \A i \in 1..Len(s) : s[i] \in Nat
  BY DEF BlockSeq
<1>2. a \in BlockSeq /\ Len(a) = at
  <2>1. \A i \in 1..at : s[i] \in Nat
    BY <1>1
  <2> QED BY <1>1, <2>1, SubSeqProperties DEF BlockSeq
<1>3. c \in BlockSeq /\ Len(c) = Len(s) - at
  <2>1. (\A i \in (at + 1)..Len(s) : s[i] \in Nat) /\ at + 1 \in Int /\ Len(s) \in Int
    BY <1>1
  <2>2. c \in Seq(Nat) /\ Len(c) = IF at + 1 <= Len(s) THEN Len(s) - (at + 1) + 1 ELSE 0
    BY <2>1, SubSeqProperties
  <2> QED BY <1>1, <2>2 DEF BlockSeq
<1>4. a \o c = s
  <2>1. a \o c = SubSeq(s, 1, Len(s))
    <3>1. s \in Seq(Nat) /\ 1 \in 1..(Len(s) + 1) /\ at \in (1 - 1)..Len(s) /\ Len(s) \in at..Len(s)
      BY <1>1 DEF BlockSeq
    <3>2. SubSeq(s, 1, at) \o SubSeq(s, at + 1, Len(s)) = SubSeq(s, 1, Len(s))
      BY <3>1, ConcatAdjacentSubSeq
    <3> QED BY <3>2
  <2>2. SubSeq(s, 1, Len(s)) = s
    BY SubSeqFull DEF BlockSeq
  <2> QED BY <2>1, <2>2
<1> HIDE DEF a, c
<1>5. /\ ToSet(s) = ToSet(a) \cup ToSet(c)
      /\ IsInjective(s) <=> IsInjective(a) /\ IsInjective(c) /\ ToSet(a) \cap ToSet(c) = {}
  BY <1>2, <1>3, <1>4, ConcatBlocks, ConcatInjective
<1>6. /\ a \o t \in BlockSeq /\ Len(a \o t) = at + Len(t)
      /\ ToSet(a \o t) = ToSet(a) \cup ToSet(t)
      /\ IsInjective(a \o t) <=> IsInjective(a) /\ IsInjective(t) /\ ToSet(a) \cap ToSet(t) = {}
  <2>1. Len(a \o t) = Len(a) + Len(t)
    BY <1>2, ConcatProperties DEF BlockSeq
  <2> QED BY <1>2, <2>1, ConcatBlocks, ConcatInjective
<1>7. /\ (a \o t) \o c \in BlockSeq /\ Len((a \o t) \o c) = at + Len(t) + Len(s) - at
      /\ ToSet((a \o t) \o c) = ToSet(a \o t) \cup ToSet(c)
      /\ IsInjective((a \o t) \o c)
           <=> IsInjective(a \o t) /\ IsInjective(c) /\ ToSet(a \o t) \cap ToSet(c) = {}
  <2>1. Len((a \o t) \o c) = Len(a \o t) + Len(c)
    BY <1>3, <1>6, ConcatProperties DEF BlockSeq
  <2>2. Len(t) \in Nat
    BY DEF BlockSeq
  <2>3. Len((a \o t) \o c) = at + Len(t) + Len(s) - at
    BY <1>1, <1>3, <1>6, <2>1, <2>2
  <2> QED BY <1>3, <1>6, <2>3, ConcatBlocks, ConcatInjective
<1>8. /\ (a \o t) \o c \in BlockSeq
      /\ Len((a \o t) \o c) = Len(s) + Len(t)
      /\ ToSet((a \o t) \o c) = ToSet(s) \cup ToSet(t)
      /\ IsInjective(s) /\ IsInjective(t) /\ ToSet(s) \cap ToSet(t) = {}
           => IsInjective((a \o t) \o c)
  <2>1. Len(t) \in Nat
    BY DEF BlockSeq
  <2>2. at + Len(t) + Len(s) - at = Len(s) + Len(t)
    BY <1>1, <2>1
  <2> QED BY <1>5, <1>6, <1>7, <2>2
<1> QED
  BY <1>8 DEF a, c

-----------------------------------------------------------------------------
\* A sequence of blocks that are all in S.
Within(s, S) == s \in BlockSeq /\ ToSet(s) \subseteq S

\* A concatenation holds what its parts hold.
LEMMA WithinConcat ==
  ASSUME NEW S, NEW s, NEW t, Within(s, S), Within(t, S)
  PROVE  Within(s \o t, S)
BY ConcatBlocks DEF Within

\* The empty sequence holds nothing.
LEMMA WithinEmpty == \A S : Within(<<>>, S)
BY DEF Within, BlockSeq, ToSet

\* An element of a sequence is in what holds the sequence.
LEMMA WithinElement ==
  ASSUME NEW S, NEW s, Within(s, S), NEW k \in 1..Len(s)
  PROVE  Within(<<s[k]>>, S)
<1>1. s[k] \in Nat /\ s[k] \in S
  BY DEF Within, BlockSeq, ToSet
<1>2. <<s[k]>> \in Seq(Nat) /\ ToSet(<<s[k]>>) = {s[k]}
  BY <1>1 DEF ToSet
<1> QED
  BY <1>1, <1>2 DEF Within, BlockSeq

\* What the handler holds is allocated.
LEMMA HeldAllocated ==
  ASSUME TypeInv, OwnerInv
  PROVE  /\ \A h \in Owners : Pointed(h) \in BlockSeq
         /\ \A h \in Owners : Holds(h) => Within(Pointed(h), live)
<1>1. \A h \in Owners : Pointed(h) \in BlockSeq
  BY OwnedBlocks DEF TypeInv, Owners, Pointed
<1>2. ASSUME NEW h \in Owners, Holds(h) PROVE ToSet(Pointed(h)) \subseteq live
  BY <1>2 DEF OwnerInv, Owns
<1> QED
  BY <1>1, <1>2 DEF Within

\* A state that is held: its parts are allocated.
LEMMA PartsWithin ==
  ASSUME NEW s \in StateType, NEW S, Within(Owned(s), S)
  PROVE  Within(s.self, S) /\ Within(s.frames, S) /\ Within(s.regs, S)
BY OwnedBlocks DEF Within, StateType

\* No fault: what is used and freed is allocated and freed once.
LEMMA HeapNoFault ==
  ASSUME NEW uses, NEW frees, NEW n, Heap(uses, frees, n), TypeInv,
         Within(uses, live), Within(frees, live), IsInjective(frees)
  PROVE  fault' = fault
<1>1. Within(uses \o frees, live)
  BY WithinConcat
<1> QED
  BY <1>1 DEF Heap, Within, TypeInv

\* The handler starts without blocks.
LEMMA InitIInv == HeapInit => IInv
<1> SUFFICES ASSUME HeapInit PROVE IInv
  OBVIOUS
<1>1. <<>> \in BlockSeq /\ ToSet(<<>>) = {} /\ IsInjective(<<>>)
  BY DEF BlockSeq, ToSet, IsInjective
<1>2. Nothing \in StateType /\ Owned(Nothing) = <<>>
  BY <1>1 DEF Nothing, StateType, Owned
<1>3. TypeInv
  <2>1. copy \in [self : BlockSeq, frames : BlockSeq, depth : Nat]
    BY <1>1 DEF HeapInit
  <2>2. step \in Steps /\ idx \in Nat \ {0} /\ fresh \in Nat
    BY DEF HeapInit, Steps
  <2>3. fault \in BOOLEAN
    BY DEF HeapInit
  <2> QED BY <1>1, <1>2, <2>1, <2>2, <2>3 DEF HeapInit, TypeInv
<1>4. \A h \in Owners : Pointed(h) = <<>>
  BY <1>2 DEF HeapInit, Owners, Pointed
<1>5. \A h \in Owners : Owns(h) = {}
  BY <1>1, <1>4 DEF Owns
<1>6. OwnerInv
  BY <1>1, <1>4, <1>5 DEF OwnerInv, HeapInit
<1> QED
  BY <1>3, <1>6 DEF IInv, ControlInv, FaultInv, HeapInit

(***************************************************************************)
(* A step that frees the blocks freed and gives each owner h the new       *)
(* blocks given[h].                                                        *)
(***************************************************************************)
LEMMA OwnersStep ==
  ASSUME OwnerInv, fresh \in Nat, NEW n \in Nat, NEW freed, NEW given,
         live' = (live \ freed) \cup (fresh..(fresh + n - 1)),
         fresh' = fresh + n,
         \A h \in Owners : IsInjective(Pointed(h)'),
         \A h \in Owners : Owns(h)' = (Owns(h) \ freed) \cup given[h],
         \A g, h \in Owners : g # h => given[g] \cap given[h] = {},
         UNION {given[h] : h \in Owners} = fresh..(fresh + n - 1)
  PROVE  OwnerInv'
<1>0. /\ live = UNION {Owns(h) : h \in Owners}
      /\ \A g, h \in Owners : g # h => Owns(g) \cap Owns(h) = {}
      /\ live \subseteq 0..(fresh - 1)
  BY DEF OwnerInv
<1>1. ASSUME NEW h \in Owners
      PROVE  given[h] \subseteq fresh..(fresh + n - 1) /\ Owns(h) \subseteq live
  BY <1>0
<1>2. live \cap (fresh..(fresh + n - 1)) = {}
  BY <1>0
<1>3. live' = UNION {Owns(h)' : h \in Owners}
  <2>1. ASSUME NEW b \in live' PROVE \E h \in Owners : b \in Owns(h)'
    <3>1. CASE b \in live /\ b \notin freed
      BY <1>0, <3>1
    <3>2. CASE b \in fresh..(fresh + n - 1)
      <4>1. PICK h \in Owners : b \in given[h]
        BY <3>2
      <4> QED BY <4>1
    <3> QED BY <3>1, <3>2
  <2>2. ASSUME NEW h \in Owners, NEW b \in Owns(h)' PROVE b \in live'
    <3>1. b \in Owns(h) \ freed \/ b \in given[h]
      BY <2>2
    <3> QED BY <1>1, <3>1
  <2> QED BY <2>1, <2>2
<1>4. ASSUME NEW g \in Owners, NEW h \in Owners, g # h PROVE Owns(g)' \cap Owns(h)' = {}
  <2>1. Owns(g) \cap Owns(h) = {} /\ given[g] \cap given[h] = {}
    BY <1>0, <1>4
  <2>2. Owns(g) \cap given[h] = {} /\ Owns(h) \cap given[g] = {}
    BY <1>1, <1>2
  <2> QED BY <2>1, <2>2
<1>5. live' \subseteq 0..(fresh' - 1)
  <2> SUFFICES ASSUME NEW b \in live' PROVE b \in 0..(fresh' - 1)
    OBVIOUS
  <2>1. b \in 0..(fresh - 1) \/ b \in fresh..(fresh + n - 1)
    BY <1>0
  <2> QED BY <2>1
<1> QED
  BY <1>3, <1>4, <1>5 DEF OwnerInv

\* The same if one owner loses the freed blocks and gets the new ones.
LEMMA OneOwnerStep ==
  ASSUME OwnerInv, fresh \in Nat, NEW n \in Nat, NEW freed, NEW g \in Owners,
         live' = (live \ freed) \cup (fresh..(fresh + n - 1)),
         fresh' = fresh + n,
         \A h \in Owners : h # g => Pointed(h)' = Pointed(h) /\ Owns(h)' = Owns(h),
         IsInjective(Pointed(g)'),
         freed \subseteq Owns(g),
         Owns(g)' = (Owns(g) \ freed) \cup (fresh..(fresh + n - 1))
  PROVE  OwnerInv'
<1> DEFINE given == [h \in Owners |-> IF h = g THEN fresh..(fresh + n - 1) ELSE {}]
<1>1. \A h \in Owners : Owns(h)' = (Owns(h) \ freed) \cup given[h]
  <2>1. \A h \in Owners : h # g => Owns(h) \cap Owns(g) = {}
    BY DEF OwnerInv
  <2> QED BY <2>1
<1>2. \A h, k \in Owners : h # k => given[h] \cap given[k] = {}
  OBVIOUS
<1>3. UNION {given[h] : h \in Owners} = fresh..(fresh + n - 1)
  OBVIOUS
<1>4. \A h \in Owners : IsInjective(Pointed(h)')
  BY DEF OwnerInv
<1> HIDE DEF given
<1> QED
  BY <1>1, <1>2, <1>3, <1>4, OwnersStep

\* What Heap does, when all is right.
LEMMA HeapStep ==
  ASSUME NEW uses, NEW frees, NEW n \in Nat, Heap(uses, frees, n), TypeInv
  PROVE  /\ fresh' = fresh + n /\ fresh' \in Nat /\ fault' \in BOOLEAN
         /\ live' = (live \ ToSet(frees)) \cup (fresh..(fresh + n - 1))
         /\ Within(uses, live) /\ Within(frees, live) /\ IsInjective(frees) => fault' = fault
<1>1. fresh \in Nat /\ fault \in BOOLEAN
  BY DEF TypeInv
<1>2. ToSet(New(0, n)) = fresh..(fresh + n - 1)
  <2>1. ToSet(New(0, n)) = (fresh + 0)..(fresh + 0 + n - 1)
    BY <1>1, NewBlocks
  <2> QED BY <1>1, <2>1
<1>3. ASSUME Within(uses, live), Within(frees, live), IsInjective(frees) PROVE fault' = fault
  BY <1>3, HeapNoFault
<1> QED
  BY <1>1, <1>2, <1>3 DEF Heap

\* Nothing is used or freed.
LEMMA EmptyFacts ==
  /\ ToSet(<<>>) = {} /\ IsInjective(<<>>) /\ <<>> \in BlockSeq /\ Len(<<>>) = 0
  /\ \A S : Within(<<>>, S)
BY WithinEmpty DEF ToSet, IsInjective, BlockSeq

\* HeldAllocated, pointer by pointer.
LEMMA Held ==
  ASSUME TypeInv, OwnerInv
  PROVE  /\ step \notin {"start", "jump_inlined", "jmp_to_addr", "resumed"} => Within(sm, live)
         /\ step \notin {"start", "resumed"} =>
              /\ Within(Owned(state), live) /\ Within(state.self, live)
              /\ Within(state.frames, live) /\ Within(state.regs, live)
         /\ step \in {"inline", "insert", "free"} => Within(copy.self, live)
         /\ step \in {"insert", "free", "insert_guard", "free_guard"} =>
              /\ Within(Owned(res), live) /\ Within(res.frames, live) /\ Within(res.regs, live)
         /\ step \in {"guard", "insert_guard", "free_guard", "insert_fail", "free_fail"} =>
              /\ Within(Owned(fail), live) /\ Within(fail.frames, live) /\ Within(fail.regs, live)
         /\ step = "restore" => Within(locs, live)
         /\ step \in {"locations", "restore", "registers", "jump_inlined", "jmp_to_addr"} =>
              Within(segment, live)
         /\ IsInjective(sm) /\ IsInjective(copy.self) /\ IsInjective(locs) /\ IsInjective(segment)
         /\ IsInjective(Owned(state)) /\ IsInjective(Owned(res)) /\ IsInjective(Owned(fail))
<1>1. state \in StateType /\ res \in StateType /\ fail \in StateType
  BY DEF TypeInv
<1>2. /\ Holds("sm") => Within(sm, live)
      /\ Holds("state") => Within(Owned(state), live)
      /\ Holds("copy") => Within(copy.self, live)
      /\ Holds("res") => Within(Owned(res), live)
      /\ Holds("fail") => Within(Owned(fail), live)
      /\ Holds("locs") => Within(locs, live)
      /\ Holds("segment") => Within(segment, live)
  BY HeldAllocated DEF Owners, Pointed
<1>3. /\ IsInjective(sm) /\ IsInjective(copy.self) /\ IsInjective(locs) /\ IsInjective(segment)
      /\ IsInjective(Owned(state)) /\ IsInjective(Owned(res)) /\ IsInjective(Owned(fail))
  BY DEF OwnerInv, Owners, Pointed
<1> QED
  BY <1>1, <1>2, <1>3, PartsWithin DEF Holds

-----------------------------------------------------------------------------
\* stmap_create and get_call_stack_state allocate for two owners.
LEMMA ReadStackStep == IInv /\ ReadStack => IInv'
<1> SUFFICES ASSUME IInv, ReadStack PROVE IInv'
  OBVIOUS
<1> DEFINE n == 4 + 2 * shape.num_rec
           d == shape.depth
<1>1. TypeInv /\ OwnerInv /\ FaultInv /\ step = "start" /\ step' = "collect"
  BY DEF IInv, ReadStack
<1>2. n \in Nat /\ d \in Nat \ {0} /\ fresh \in Nat /\ n + 2 + d \in Nat
  BY <1>1, HeapAssumption DEF TypeInv
<1>3. /\ sm' = New(0, n)
      /\ state' = [self |-> New(n, 1), frames |-> New(n + 1, 1), regs |-> New(n + 2, d)]
      /\ Heap(<<>>, <<>>, n + 2 + d)
      /\ UNCHANGED <<shape, idx, copy, res, fail, locs, segment>>
  BY DEF ReadStack
<1> HIDE DEF n, d
<1>4. /\ sm' \in BlockSeq /\ IsInjective(sm') /\ ToSet(sm') = fresh..(fresh + n - 1)
      /\ state'.self \in BlockSeq /\ IsInjective(state'.self)
      /\ ToSet(state'.self) = (fresh + n)..(fresh + n)
      /\ state'.frames \in BlockSeq /\ IsInjective(state'.frames)
      /\ ToSet(state'.frames) = (fresh + n + 1)..(fresh + n + 1)
      /\ state'.regs \in BlockSeq /\ IsInjective(state'.regs) /\ Len(state'.regs) = d
      /\ ToSet(state'.regs) = (fresh + n + 2)..(fresh + n + 2 + d - 1)
  <2>0. 0 \in Nat /\ 1 \in Nat /\ n + 1 \in Nat /\ n + 2 \in Nat /\ d \in Nat
    BY <1>2
  <2>1. /\ New(0, n) \in BlockSeq /\ IsInjective(New(0, n))
        /\ ToSet(New(0, n)) = (fresh + 0)..(fresh + 0 + n - 1)
    BY <1>2, <2>0, NewBlocks
  <2>2. /\ New(n, 1) \in BlockSeq /\ IsInjective(New(n, 1))
        /\ ToSet(New(n, 1)) = (fresh + n)..(fresh + n + 1 - 1)
    BY <1>2, <2>0, NewBlocks
  <2>3. /\ New(n + 1, 1) \in BlockSeq /\ IsInjective(New(n + 1, 1))
        /\ ToSet(New(n + 1, 1)) = (fresh + (n + 1))..(fresh + (n + 1) + 1 - 1)
    BY <1>2, <2>0, NewBlocks
  <2>4. /\ New(n + 2, d) \in BlockSeq /\ IsInjective(New(n + 2, d)) /\ Len(New(n + 2, d)) = d
        /\ ToSet(New(n + 2, d)) = (fresh + (n + 2))..(fresh + (n + 2) + d - 1)
    BY <1>2, <2>0, NewBlocks
  <2>5. /\ fresh + 0 = fresh /\ fresh + n + 1 - 1 = fresh + n /\ fresh + 0 + n - 1 = fresh + n - 1
        /\ fresh + (n + 1) = fresh + n + 1 /\ fresh + (n + 1) + 1 - 1 = fresh + n + 1
        /\ fresh + (n + 2) = fresh + n + 2 /\ fresh + (n + 2) + d - 1 = fresh + n + 2 + d - 1
    BY <1>2
  <2> QED BY <1>3, <2>1, <2>2, <2>3, <2>4, <2>5
<1>5. state' \in StateType
  BY <1>3, <1>4 DEF StateType
<1>6. ToSet(Owned(state')) = (fresh + n)..(fresh + n + 2 + d - 1) /\ IsInjective(Owned(state'))
  <2>1. /\ ToSet(state'.regs) \cap ToSet(state'.frames) = {}
        /\ ToSet(state'.regs) \cap ToSet(state'.self) = {}
        /\ ToSet(state'.frames) \cap ToSet(state'.self) = {}
        /\ ToSet(state'.regs) \cup ToSet(state'.frames) \cup ToSet(state'.self)
             = (fresh + n)..(fresh + n + 2 + d - 1)
    BY <1>2, <1>4
  <2> QED BY <1>4, <1>5, <2>1, OwnedBlocks
<1>7. /\ fault' = fault /\ fresh' = fresh + (n + 2 + d) /\ fresh' \in Nat
      /\ live' = (live \ {}) \cup fresh..(fresh + (n + 2 + d) - 1)
  BY <1>1, <1>2, <1>3, HeapStep, EmptyFacts
<1>8. TypeInv'
  BY <1>1, <1>3, <1>4, <1>5, <1>7 DEF TypeInv, Steps
<1>9. OwnerInv'
  <2>1. \A h \in Owners : IsInjective(Pointed(h)')
    BY <1>1, <1>3, <1>4, <1>6 DEF Owners, Pointed, OwnerInv
  <2> DEFINE given == [h \in Owners |-> CASE h = "sm" -> fresh..(fresh + n - 1)
                                          [] h = "state" -> (fresh + n)..(fresh + n + 2 + d - 1)
                                          [] OTHER -> {}]
  <2>2. \A h \in Owners : Owns(h)' = (Owns(h) \ {}) \cup given[h]
    <3>1. \A h \in Owners : h \notin {"sm", "state"} => ~Holds(h) /\ ~Holds(h)'
      BY <1>1 DEF Owners, Holds
    <3>2. Owns("sm") = {} /\ Owns("state") = {}
      BY <1>1 DEF Owners, Owns, Holds
    <3>3. Owns("sm")' = given["sm"] /\ Owns("state")' = given["state"]
      BY <1>1, <1>4, <1>6 DEF Owners, Owns, Holds, Pointed
    <3> QED BY <3>1, <3>2, <3>3 DEF Owns
  <2>3. \A g, h \in Owners : g # h => given[g] \cap given[h] = {}
    BY <1>2
  <2>4. UNION {given[h] : h \in Owners} = fresh..(fresh + (n + 2 + d) - 1)
    <3>1. UNION {given[h] : h \in Owners} = given["sm"] \cup given["state"]
      BY DEF Owners
    <3>2. given["sm"] = fresh..(fresh + n - 1) /\ given["state"] = (fresh + n)..(fresh + n + 2 + d - 1)
      BY DEF Owners
    <3>3. (fresh..(fresh + n - 1)) \cup ((fresh + n)..(fresh + n + 2 + d - 1))
            = fresh..(fresh + (n + 2 + d) - 1)
      BY <1>2
    <3> QED BY <3>1, <3>2, <3>3
  <2> HIDE DEF given
  <2> QED BY <1>1, <1>2, <1>7, <2>1, <2>2, <2>3, <2>4, OwnersStep
<1>10. ControlInv'
  BY <1>1, <1>2, <1>3, <1>4 DEF ControlInv, d
<1>11. FaultInv'
  BY <1>1, <1>3, <1>7 DEF FaultInv, InlinedIntoMain
<1> QED
  BY <1>8, <1>9, <1>10, <1>11 DEF IInv

\* get_state_copy allocates the copy; its array is the one of the state.
LEMMA CollectRecordsStep == IInv /\ CollectRecords => IInv'
<1> SUFFICES ASSUME IInv, CollectRecords PROVE IInv'
  OBVIOUS
<1>1. /\ TypeInv /\ ControlInv /\ OwnerInv /\ FaultInv
      /\ step = "collect" /\ step' = "inline" /\ idx' = 1
      /\ copy' = [self |-> New(0, 1), frames |-> state.frames, depth |-> Len(state.regs)]
      /\ Heap(sm \o state.self \o state.frames, <<>>, 1)
      /\ UNCHANGED <<shape, sm, state, res, fail, locs, segment>>
  BY DEF IInv, CollectRecords
<1>2. fresh \in Nat /\ state \in StateType
  BY <1>1 DEF TypeInv
<1>3. New(0, 1) \in BlockSeq /\ IsInjective(New(0, 1)) /\ ToSet(New(0, 1)) = fresh..(fresh + 1 - 1)
  <2>1. /\ New(0, 1) \in BlockSeq /\ IsInjective(New(0, 1))
        /\ ToSet(New(0, 1)) = (fresh + 0)..(fresh + 0 + 1 - 1)
    BY <1>2, NewBlocks
  <2> QED BY <1>2, <2>1
<1>4. Within(sm \o state.self \o state.frames, live)
  <2>1. Within(sm, live) /\ Within(state.self, live) /\ Within(state.frames, live)
    BY <1>1, Held
  <2> QED BY <2>1, WithinConcat
<1>5. /\ fault' = fault /\ fresh' = fresh + 1 /\ fresh' \in Nat
      /\ live' = (live \ {}) \cup fresh..(fresh + 1 - 1)
  BY <1>1, <1>2, <1>4, HeapStep, EmptyFacts
<1>6. TypeInv'
  <2>1. copy' \in [self : BlockSeq, frames : BlockSeq, depth : Nat]
    BY <1>1, <1>2, <1>3 DEF StateType, BlockSeq
  <2> QED BY <1>1, <1>5, <2>1 DEF TypeInv, Steps
<1>7. OwnerInv'
  <2>1. "copy" \in Owners /\ Owns("copy") = {}
    BY <1>1 DEF Owners, Owns, Holds
  <2>2. \A h \in Owners : h # "copy" => Pointed(h)' = Pointed(h) /\ Owns(h)' = Owns(h)
    <3>1. \A h \in Owners : h # "copy" => Pointed(h)' = Pointed(h)
      BY <1>1 DEF Owners, Pointed
    <3>2. \A h \in Owners : h # "copy" => Holds(h)' = Holds(h)
      BY <1>1 DEF Owners, Holds
    <3> QED BY <3>1, <3>2 DEF Owns
  <2>3. IsInjective(Pointed("copy")') /\ Owns("copy")' = fresh..(fresh + 1 - 1)
    BY <1>1, <1>3 DEF Owns, Holds, Pointed
  <2> QED BY <1>1, <1>2, <1>5, <2>1, <2>2, <2>3, OneOwnerStep
<1>8. ControlInv'
  BY <1>1 DEF ControlInv
<1>9. FaultInv'
  BY <1>1, <1>5 DEF FaultInv, InlinedIntoMain
<1> QED
  BY <1>6, <1>7, <1>8, <1>9 DEF IInv

\* get_restored_state allocates for res, which it leaves to its caller.
LEMMA RestoredOwned ==
  ASSUME NEW uses, get_restored_state(uses), TypeInv, OwnerInv, ~Holds("res"), Holds("res")',
         \A h \in Owners : h # "res" => Pointed(h)' = Pointed(h) /\ Owns(h)' = Owns(h)
  PROVE  /\ res' \in StateType /\ fresh' \in Nat /\ fault' \in BOOLEAN
         /\ OwnerInv'
         /\ Within(sm, live) /\ Within(uses, live) => fault' = fault
<1>1. fresh \in Nat /\ MaxRestored \in Nat
  BY HeapAssumption DEF TypeInv
<1>2. PICK n \in 0..MaxRestored :
        LET array == IF n = 0 THEN 0 ELSE 1 IN
        /\ res' = [self |-> New(0, 1), frames |-> New(1, array), regs |-> New(1 + array, n)]
        /\ Heap(sm \o uses, <<>>, 1 + array + n)
  BY DEF get_restored_state
<1> DEFINE array == IF n = 0 THEN 0 ELSE 1
<1>3. /\ res' = [self |-> New(0, 1), frames |-> New(1, array), regs |-> New(1 + array, n)]
      /\ Heap(sm \o uses, <<>>, 1 + array + n)
  BY <1>2
<1>4. array \in Nat /\ n \in Nat /\ 1 + array \in Nat /\ 1 + array + n \in Nat
  BY <1>1
<1> HIDE DEF array
<1>5. /\ res'.self \in BlockSeq /\ IsInjective(res'.self) /\ ToSet(res'.self) = fresh..fresh
      /\ res'.frames \in BlockSeq /\ IsInjective(res'.frames)
      /\ ToSet(res'.frames) = (fresh + 1)..(fresh + 1 + array - 1)
      /\ res'.regs \in BlockSeq /\ IsInjective(res'.regs)
      /\ ToSet(res'.regs) = (fresh + 1 + array)..(fresh + 1 + array + n - 1)
  <2>1. /\ New(0, 1) \in BlockSeq /\ IsInjective(New(0, 1))
        /\ ToSet(New(0, 1)) = (fresh + 0)..(fresh + 0 + 1 - 1)
    BY <1>1, NewBlocks
  <2>2. /\ New(1, array) \in BlockSeq /\ IsInjective(New(1, array))
        /\ ToSet(New(1, array)) = (fresh + 1)..(fresh + 1 + array - 1)
    BY <1>1, <1>4, NewBlocks
  <2>3. /\ New(1 + array, n) \in BlockSeq /\ IsInjective(New(1 + array, n))
        /\ ToSet(New(1 + array, n)) = (fresh + (1 + array))..(fresh + (1 + array) + n - 1)
    BY <1>1, <1>4, NewBlocks
  <2>4. /\ fresh + 0 = fresh /\ fresh + 0 + 1 - 1 = fresh
        /\ fresh + (1 + array) = fresh + 1 + array
        /\ fresh + (1 + array) + n - 1 = fresh + 1 + array + n - 1
    BY <1>1, <1>4
  <2> QED BY <1>3, <2>1, <2>2, <2>3, <2>4
<1>6. res' \in StateType
  BY <1>3, <1>5 DEF StateType
<1>7. /\ ToSet(Owned(res')) = fresh..(fresh + (1 + array + n) - 1)
      /\ IsInjective(Owned(res'))
  <2>1. /\ ToSet(res'.regs) \cap ToSet(res'.frames) = {}
        /\ ToSet(res'.regs) \cap ToSet(res'.self) = {}
        /\ ToSet(res'.frames) \cap ToSet(res'.self) = {}
        /\ ToSet(res'.regs) \cup ToSet(res'.frames) \cup ToSet(res'.self)
             = fresh..(fresh + (1 + array + n) - 1)
    BY <1>1, <1>4, <1>5
  <2> QED BY <1>5, <1>6, <2>1, OwnedBlocks
<1>8. /\ fresh' = fresh + (1 + array + n) /\ fresh' \in Nat /\ fault' \in BOOLEAN
      /\ live' = (live \ {}) \cup fresh..(fresh + (1 + array + n) - 1)
      /\ Within(sm \o uses, live) => fault' = fault
  BY <1>1, <1>3, <1>4, HeapStep, EmptyFacts
<1>9. "res" \in Owners /\ Owns("res") = {}
  BY DEF Owners, Owns
<1>10. IsInjective(Pointed("res")') /\ Owns("res")' = fresh..(fresh + (1 + array + n) - 1)
  BY <1>7 DEF Owns, Pointed
<1>11. OwnerInv'
  BY <1>1, <1>4, <1>8, <1>9, <1>10, OneOwnerStep
<1> QED
  BY <1>6, <1>8, <1>11, WithinConcat

\* One iteration of collect_inlined_frames, up to the insertion of frames.
LEMMA CollectInlinedStep == IInv /\ CollectInlined => IInv'
<1> SUFFICES ASSUME IInv, CollectInlined PROVE IInv'
  OBVIOUS
<1>1. /\ TypeInv /\ ControlInv /\ OwnerInv /\ FaultInv
      /\ step = "inline" /\ idx < copy.depth
      /\ UNCHANGED <<shape, sm, state, copy, fail, locs, segment>>
  BY DEF IInv, CollectInlined
<1>2. /\ fresh \in Nat /\ state \in StateType /\ idx \in Nat \ {0}
      /\ copy.depth = shape.depth /\ shape.depth \in Nat /\ shape.depth <= Len(state.regs)
      /\ Len(state.regs) \in Nat
  <2>1. fresh \in Nat /\ state \in StateType /\ idx \in Nat \ {0}
    BY <1>1 DEF TypeInv
  <2>2. state.regs \in Seq(Nat)
    BY <2>1 DEF StateType, BlockSeq
  <2>3. copy.depth = shape.depth /\ shape.depth <= Len(state.regs)
    BY <1>1 DEF ControlInv
  <2>4. shape.depth \in Nat
    BY <1>1, HeapAssumption DEF TypeInv
  <2> QED BY <2>1, <2>2, <2>3, <2>4
<1>3. Within(sm, live) /\ Within(copy.self, live) /\ Within(state.regs, live)
        /\ Within(state.frames, live)
  BY <1>1, Held
<1>4. InlinedIntoMain => copy.frames = state.frames /\ fault = FALSE
  BY <1>1 DEF FaultInv
<1>5. CASE /\ idx \notin shape.inlinedAt
           /\ Heap(sm \o copy.self \o copy.frames, <<>>, 0)
           /\ idx' = idx + 1
           /\ UNCHANGED <<step, res>>
  <2>1. InlinedIntoMain => Within(sm \o copy.self \o copy.frames, live)
    BY <1>3, <1>4, WithinConcat
  <2>2. /\ fresh' = fresh + 0 /\ fresh' \in Nat /\ fault' \in BOOLEAN
        /\ live' = (live \ {}) \cup (fresh..(fresh + 0 - 1))
        /\ InlinedIntoMain => fault' = fault
    BY <1>1, <1>5, <2>1, HeapStep, EmptyFacts
  <2>3. fresh' = fresh /\ live' = live
    BY <1>2, <2>2
  <2>4. TypeInv'
    BY <1>1, <1>2, <1>5, <2>2 DEF TypeInv
  <2>5. \A h \in Owners : Pointed(h)' = Pointed(h) /\ Owns(h)' = Owns(h)
    BY <1>1, <1>5 DEF Owners, Owns, Holds, Pointed
  <2>6. OwnerInv'
    BY <1>1, <2>3, <2>5 DEF OwnerInv
  <2>7. ControlInv'
    BY <1>1, <1>5 DEF ControlInv
  <2>8. FaultInv'
    BY <1>1, <1>4, <1>5, <2>2 DEF FaultInv, InlinedIntoMain
  <2> QED BY <2>4, <2>6, <2>7, <2>8 DEF IInv
<1>6. CASE /\ idx \in shape.inlinedAt
           /\ get_restored_state(copy.self \o copy.frames \o <<state.regs[idx + 1]>>)
           /\ step' = "insert"
           /\ UNCHANGED idx
  <2>1. ~Holds("res") /\ Holds("res")'
    BY <1>1, <1>6 DEF Holds
  <2>2. \A h \in Owners : h # "res" => Pointed(h)' = Pointed(h) /\ Owns(h)' = Owns(h)
    <3>1. \A h \in Owners : h # "res" => Pointed(h)' = Pointed(h)
      BY <1>1, <1>6 DEF Owners, Pointed
    <3>2. \A h \in Owners : h # "res" => Holds(h)' = Holds(h)
      BY <1>1, <1>6 DEF Owners, Holds
    <3> QED BY <3>1, <3>2 DEF Owns
  <2> DEFINE uses == copy.self \o copy.frames \o <<state.regs[idx + 1]>>
  <2>3. InlinedIntoMain => Within(uses, live)
    <3>1. idx + 1 \in 1..Len(state.regs)
      BY <1>1, <1>2
    <3>2. Within(<<state.regs[idx + 1]>>, live)
      BY <1>3, <3>1, WithinElement
    <3> QED BY <1>3, <1>4, <3>2, WithinConcat
  <2>4. get_restored_state(uses)
    BY <1>6
  <2> HIDE DEF uses
  <2>5. /\ res' \in StateType /\ fresh' \in Nat /\ fault' \in BOOLEAN
        /\ OwnerInv'
        /\ InlinedIntoMain => fault' = fault
    BY <1>1, <1>3, <2>1, <2>2, <2>3, <2>4, RestoredOwned
  <2>6. TypeInv'
    BY <1>1, <1>6, <2>5 DEF TypeInv, Steps
  <2>7. ControlInv'
    BY <1>1, <1>6 DEF ControlInv
  <2>8. FaultInv'
    BY <1>1, <1>4, <1>6, <2>5 DEF FaultInv, InlinedIntoMain
  <2> QED BY <2>5, <2>6, <2>7, <2>8 DEF IInv
<1> QED
  BY <1>5, <1>6 DEF CollectInlined

\* A step that frees what one pointer owns.
LEMMA FreeOwned ==
  ASSUME NEW uses, NEW g \in Owners, Heap(uses, Pointed(g), 0), TypeInv, OwnerInv,
         Holds(g), ~Holds(g)', Pointed(g)' = Pointed(g), Within(uses, live),
         \A h \in Owners : h # g => Pointed(h)' = Pointed(h) /\ Owns(h)' = Owns(h)
  PROVE  OwnerInv' /\ fault' = fault /\ fresh' = fresh
<1>1. fresh \in Nat /\ Within(Pointed(g), live) /\ IsInjective(Pointed(g))
  BY HeldAllocated DEF TypeInv, OwnerInv
<1>2. /\ fresh' = fresh + 0 /\ fault' = fault
      /\ live' = (live \ ToSet(Pointed(g))) \cup (fresh..(fresh + 0 - 1))
  BY <1>1, HeapStep
<1>3. Owns(g) = ToSet(Pointed(g)) /\ Owns(g)' = {}
  BY DEF Owns
<1>4. Owns(g)' = (Owns(g) \ ToSet(Pointed(g))) \cup (fresh..(fresh + 0 - 1))
  BY <1>1, <1>3
<1>5. OwnerInv'
  <2>1. IsInjective(Pointed(g)')
    BY <1>1
  <2>2. ToSet(Pointed(g)) \subseteq Owns(g) /\ 0 \in Nat
    BY <1>3
  <2> QED BY <1>1, <1>2, <1>4, <2>1, <2>2, OneOwnerStep
<1> QED
  BY <1>1, <1>2, <1>5

\* collect_inlined_frames frees its copy, but not the shared array.
LEMMA CollectInlinedEndStep == IInv /\ CollectInlinedEnd => IInv'
<1> SUFFICES ASSUME IInv, CollectInlinedEnd PROVE IInv'
  OBVIOUS
<1>1. /\ TypeInv /\ ControlInv /\ OwnerInv /\ FaultInv
      /\ step = "inline" /\ step' = "fail" /\ Heap(<<>>, copy.self, 0)
      /\ UNCHANGED <<shape, idx, sm, state, copy, res, fail, locs, segment>>
  BY DEF IInv, CollectInlinedEnd, pointers
<1>2. /\ "copy" \in Owners /\ Pointed("copy") = copy.self /\ Pointed("copy")' = Pointed("copy")
      /\ Holds("copy") /\ ~Holds("copy")'
  BY <1>1 DEF Owners, Pointed, Holds
<1>3. \A h \in Owners : h # "copy" => Pointed(h)' = Pointed(h) /\ Owns(h)' = Owns(h)
  <2>1. \A h \in Owners : h # "copy" => Pointed(h)' = Pointed(h)
    BY <1>1 DEF Owners, Pointed
  <2>2. \A h \in Owners : h # "copy" => Holds(h)' = Holds(h)
    BY <1>1 DEF Owners, Holds
  <2> QED BY <2>1, <2>2 DEF Owns
<1>4. OwnerInv' /\ fault' = fault /\ fresh' = fresh
  BY <1>1, <1>2, <1>3, FreeOwned, EmptyFacts
<1>5. TypeInv'
  BY <1>1, <1>4 DEF TypeInv, Steps
<1>6. ControlInv' /\ FaultInv'
  BY <1>1, <1>4 DEF ControlInv, FaultInv, InlinedIntoMain
<1> QED
  BY <1>4, <1>5, <1>6 DEF IInv

(***************************************************************************)
(* insert_frames gives the state a register array for each frame of src,   *)
(* and possibly another array of frames.                                   *)
(***************************************************************************)
LEMMA InsertOwned ==
  ASSUME NEW src \in StateType, NEW at \in 0..Len(state.regs), insert_frames(at, src),
         TypeInv, OwnerInv, Holds("state"), Holds("state")',
         Within(src.frames, live), Within(src.regs, live),
         \A h \in Owners : h # "state" => Pointed(h)' = Pointed(h) /\ Owns(h)' = Owns(h)
  PROVE  /\ OwnerInv' /\ fault' = fault /\ fresh' \in Nat
         /\ state' \in StateType /\ Len(state'.regs) = Len(state.regs) + Len(src.regs)
<1> DEFINE m == Len(src.regs)
<1>1. /\ fresh \in Nat /\ state \in StateType /\ m \in Nat /\ Len(state.regs) \in Nat
      /\ state.self \in BlockSeq /\ state.frames \in BlockSeq /\ state.regs \in BlockSeq
  <2>1. fresh \in Nat /\ state \in StateType
    BY DEF TypeInv
  <2>2. state.self \in BlockSeq /\ state.frames \in BlockSeq /\ state.regs \in BlockSeq
    BY <2>1 DEF StateType
  <2>3. src.regs \in BlockSeq
    BY DEF StateType
  <2> QED BY <2>1, <2>2, <2>3 DEF BlockSeq
<1>2. PICK moved \in 0..1 :
        /\ state' = [state EXCEPT !.frames = IF moved = 1 THEN New(0, 1) ELSE @,
                                  !.regs = SubSeq(@, 1, at) \o New(moved, m)
                                             \o SubSeq(@, at + 1, Len(@))]
        /\ Heap(state.self \o src.frames \o src.regs \o state.frames,
                IF moved = 1 THEN state.frames ELSE <<>>, moved + m)
  BY DEF insert_frames, NewRegisters
<1> DEFINE array == IF moved = 1 THEN New(0, 1) ELSE state.frames
           frees == IF moved = 1 THEN state.frames ELSE <<>>
           regs  == SubSeq(state.regs, 1, at) \o New(moved, m)
                      \o SubSeq(state.regs, at + 1, Len(state.regs))
<1>3. /\ state'.self = state.self /\ state'.frames = array /\ state'.regs = regs
      /\ state' = [self |-> state.self, frames |-> array, regs |-> regs]
      /\ Heap(state.self \o src.frames \o src.regs \o state.frames, frees, moved + m)
  BY <1>1, <1>2 DEF StateType
<1>4. /\ Within(state.self, live) /\ Within(state.frames, live) /\ Within(state.regs, live)
      /\ Within(Owned(state), live) /\ IsInjective(Owned(state))
  BY HeldAllocated, PartsWithin, <1>1 DEF Owners, Pointed, OwnerInv
<1>5. /\ IsInjective(state.regs) /\ IsInjective(state.frames) /\ IsInjective(state.self)
      /\ ToSet(state.regs) \cap ToSet(state.frames) = {}
      /\ ToSet(state.regs) \cap ToSet(state.self) = {}
      /\ ToSet(state.frames) \cap ToSet(state.self) = {}
      /\ ToSet(Owned(state)) = ToSet(state.regs) \cup ToSet(state.frames) \cup ToSet(state.self)
  BY <1>1, <1>4, OwnedBlocks
<1>6. moved + m \in Nat /\ moved \in Nat
  BY <1>1
<1>7. /\ Within(state.self \o src.frames \o src.regs \o state.frames, live)
      /\ Within(frees, live) /\ IsInjective(frees)
  BY <1>4, <1>5, WithinConcat, EmptyFacts
<1>8. /\ fault' = fault /\ fresh' = fresh + (moved + m) /\ fresh' \in Nat
      /\ live' = (live \ ToSet(frees)) \cup (fresh..(fresh + (moved + m) - 1))
  BY <1>3, <1>6, <1>7, HeapStep
<1>9. /\ New(moved, m) \in BlockSeq /\ IsInjective(New(moved, m)) /\ Len(New(moved, m)) = m
      /\ ToSet(New(moved, m)) = (fresh + moved)..(fresh + moved + m - 1)
  BY <1>1, <1>6, NewBlocks
<1>10. live \subseteq 0..(fresh - 1)
  BY DEF OwnerInv
<1>11. /\ array \in BlockSeq /\ IsInjective(array)
       /\ ToSet(array) = (ToSet(state.frames) \ ToSet(frees)) \cup (fresh..(fresh + moved - 1))
  <2>1. CASE moved = 1
    <3>1. /\ New(0, 1) \in BlockSeq /\ IsInjective(New(0, 1))
          /\ ToSet(New(0, 1)) = (fresh + 0)..(fresh + 0 + 1 - 1)
      BY <1>1, NewBlocks
    <3>2. fresh + 0 = fresh /\ fresh + 0 + 1 - 1 = fresh + moved - 1
      BY <1>1, <2>1
    <3> QED BY <2>1, <3>1, <3>2
  <2>2. CASE moved = 0
    <3>1. fresh..(fresh + moved - 1) = {} /\ frees = <<>>
      BY <1>1, <2>2
    <3> QED BY <1>1, <1>5, <2>2, <3>1, EmptyFacts
  <2> QED BY <2>1, <2>2
<1>12. ToSet(frees) \subseteq ToSet(state.frames)
  BY EmptyFacts
<1> HIDE DEF m, array, frees
<1>13. /\ regs \in BlockSeq /\ Len(regs) = Len(state.regs) + m
       /\ ToSet(regs) = ToSet(state.regs) \cup ToSet(New(moved, m)) /\ IsInjective(regs)
  <2>1. ToSet(state.regs) \cap ToSet(New(moved, m)) = {}
    BY <1>1, <1>4, <1>6, <1>9, <1>10 DEF Within
  <2> QED BY <1>1, <1>5, <1>9, <2>1, InsertBlocks
<1> HIDE DEF regs
<1>14. state' \in StateType
  BY <1>1, <1>3, <1>11, <1>13 DEF StateType
<1>15. /\ IsInjective(Owned(state'))
       /\ ToSet(Owned(state')) = (ToSet(Owned(state)) \ ToSet(frees))
                                   \cup (fresh..(fresh + (moved + m) - 1))
  <2>1. (fresh..(fresh + moved - 1)) \cup ((fresh + moved)..(fresh + moved + m - 1))
           = fresh..(fresh + (moved + m) - 1)
    BY <1>1, <1>6
  <2>2. /\ \A b \in ToSet(state.regs) \cup ToSet(state.frames) \cup ToSet(state.self) :
             b \notin fresh..(fresh + moved - 1) /\ b \notin (fresh + moved)..(fresh + moved + m - 1)
        /\ (fresh..(fresh + moved - 1)) \cap ((fresh + moved)..(fresh + moved + m - 1)) = {}
    BY <1>1, <1>4, <1>6, <1>10 DEF Within
  <2>3. /\ ToSet(regs) \cap ToSet(array) = {}
        /\ ToSet(regs) \cap ToSet(state.self) = {}
        /\ ToSet(array) \cap ToSet(state.self) = {}
    BY <1>5, <1>9, <1>11, <1>13, <2>2
  <2>4. ToSet(regs) \cup ToSet(array) \cup ToSet(state.self)
          = (ToSet(Owned(state)) \ ToSet(frees)) \cup (fresh..(fresh + (moved + m) - 1))
    BY <1>5, <1>9, <1>11, <1>12, <1>13, <2>1
  <2> QED BY <1>3, <1>5, <1>11, <1>13, <1>14, <2>3, <2>4, OwnedBlocks
<1>16. OwnerInv'
  <2>1. "state" \in Owners /\ Owns("state") = ToSet(Owned(state))
    BY DEF Owners, Owns, Pointed
  <2>2. IsInjective(Pointed("state")') /\ Owns("state")' = ToSet(Owned(state'))
    BY <1>15 DEF Owns, Pointed
  <2>3. ToSet(frees) \subseteq Owns("state")
    BY <1>5, <1>12, <2>1
  <2> QED BY <1>1, <1>6, <1>8, <1>15, <2>1, <2>2, <2>3, OneOwnerStep
<1> QED
  BY <1>3, <1>8, <1>13, <1>14, <1>16 DEF m

\* The frames of res or fail are inserted, and their source stays owned.
LEMMA InsertRestoredStep == IInv /\ InsertRestored => IInv'
<1> SUFFICES ASSUME IInv, InsertRestored PROVE IInv'
  OBVIOUS
<1>1. /\ TypeInv /\ ControlInv /\ OwnerInv /\ FaultInv
      /\ step \in {"insert", "insert_guard"}
      /\ step' = IF step = "insert" THEN "free" ELSE "free_guard"
      /\ insert_frames(IF step = "insert" THEN idx ELSE 0, res)
      /\ UNCHANGED <<shape, idx, sm, copy, res, fail, locs, segment>>
  BY DEF IInv, InsertRestored
<1> DEFINE at == IF step = "insert" THEN idx ELSE 0
<1>2. /\ res \in StateType /\ idx \in Nat /\ shape.depth \in Nat /\ copy.depth \in Nat
      /\ Len(state.regs) \in Nat /\ Len(res.regs) \in Nat
  <2>1. res \in StateType /\ state \in StateType /\ idx \in Nat /\ copy.depth \in Nat
    BY <1>1 DEF TypeInv
  <2>2. res.regs \in Seq(Nat) /\ state.regs \in Seq(Nat)
    BY <2>1 DEF StateType, BlockSeq
  <2>3. shape.depth \in Nat
    BY <1>1, HeapAssumption DEF TypeInv
  <2> QED BY <2>1, <2>2, <2>3
<1>3. at \in 0..Len(state.regs)
  BY <1>1, <1>2 DEF ControlInv
<1>4. /\ Holds("state") /\ Holds("state")'
      /\ \A h \in Owners : h # "state" => Pointed(h)' = Pointed(h) /\ Owns(h)' = Owns(h)
  BY <1>1 DEF Owners, Owns, Holds, Pointed
<1>5. Within(res.frames, live) /\ Within(res.regs, live)
  BY <1>1, Held
<1> HIDE DEF at
<1>6. insert_frames(at, res)
  BY <1>1 DEF at
<1>7. /\ OwnerInv' /\ fault' = fault /\ fresh' \in Nat
      /\ state' \in StateType /\ Len(state'.regs) = Len(state.regs) + Len(res.regs)
  BY <1>1, <1>2, <1>3, <1>4, <1>5, <1>6, InsertOwned
<1>8. TypeInv'
  BY <1>1, <1>7 DEF TypeInv, Steps
<1>9. ControlInv'
  <2>1. Len(state.regs) >= shape.depth
    BY <1>1 DEF ControlInv
  <2>2. Len(state'.regs) >= shape.depth
    <3>1. \A k, l, m \in Nat : k >= m => k + l >= m
      OBVIOUS
    <3>2. Len(state'.regs) = Len(state.regs) + Len(res.regs)
      BY <1>7
    <3> QED BY <1>2, <2>1, <3>1, <3>2
  <2> QED BY <1>1, <2>2 DEF ControlInv
<1>10. FaultInv'
  BY <1>1, <1>7 DEF FaultInv, InlinedIntoMain
<1> QED
  BY <1>7, <1>8, <1>9, <1>10 DEF IInv

(***************************************************************************)
(* free_call_stack_state releases res.  If the copy is still to be read    *)
(* after this, its array may be gone: this needs InlinedIntoMain.          *)
(***************************************************************************)
LEMMA FreeRestoredStep == IInv /\ FreeRestored => IInv'
<1> SUFFICES ASSUME IInv, FreeRestored PROVE IInv'
  OBVIOUS
<1>1. /\ TypeInv /\ ControlInv /\ OwnerInv /\ FaultInv
      /\ step \in {"free", "free_guard"}
      /\ step' = IF step = "free" THEN "inline" ELSE "insert_fail"
      /\ idx' = IF step = "free" THEN idx + 1 ELSE idx
      /\ Heap(<<>>, Owned(res), 0)
      /\ UNCHANGED <<shape, sm, state, copy, res, fail, locs, segment>>
  BY DEF IInv, FreeRestored, pointers
<1>2. /\ "res" \in Owners /\ Pointed("res") = Owned(res) /\ Pointed("res")' = Pointed("res")
      /\ Holds("res") /\ ~Holds("res")'
  BY <1>1 DEF Owners, Pointed, Holds
<1>3. \A h \in Owners : h # "res" => Pointed(h)' = Pointed(h) /\ Owns(h)' = Owns(h)
  <2>1. \A h \in Owners : Pointed(h)' = Pointed(h)
    BY <1>1 DEF Owners, Pointed
  <2>2. \A h \in Owners : h # "res" => Holds(h)' = Holds(h)
    <3>1. CASE step = "free"
      BY <1>1, <3>1 DEF Owners, Holds
    <3>2. CASE step = "free_guard"
      BY <1>1, <3>2 DEF Owners, Holds
    <3> QED BY <1>1, <3>1, <3>2
  <2> QED BY <2>1, <2>2 DEF Owns
<1>4. OwnerInv' /\ fault' = fault /\ fresh' = fresh
  BY <1>1, <1>2, <1>3, FreeOwned, EmptyFacts
<1>5. TypeInv'
  <2>1. idx' \in Nat \ {0}
    BY <1>1 DEF TypeInv
  <2> QED BY <1>1, <1>4, <2>1 DEF TypeInv, Steps
<1>6. ControlInv'
  BY <1>1 DEF ControlInv
<1>7. FaultInv'
  <2>1. InlinedIntoMain' = InlinedIntoMain
    BY <1>1 DEF InlinedIntoMain
  <2>2. step = "free" /\ InlinedIntoMain => idx = shape.depth - 1 /\ copy.depth = shape.depth
    BY <1>1 DEF InlinedIntoMain, ControlInv
  <2>3. shape.depth \in Nat
    BY <1>1, HeapAssumption DEF TypeInv
  <2>4. InlinedIntoMain => ~(step' = "inline" /\ idx' < copy'.depth)
    BY <1>1, <2>2, <2>3
  <2> QED BY <1>1, <1>4, <2>1, <2>4 DEF FaultInv
<1> QED
  BY <1>4, <1>5, <1>6, <1>7 DEF IInv

\* The first frame of the new stack is allocated.
LEMMA AllocFailFrameStep == IInv /\ AllocFailFrame => IInv'
<1> SUFFICES ASSUME IInv, AllocFailFrame PROVE IInv'
  OBVIOUS
<1>1. /\ TypeInv /\ ControlInv /\ OwnerInv /\ FaultInv
      /\ step = "fail" /\ step' \in {"guard", "insert_fail"}
      /\ fail' = [self |-> <<>>, frames |-> New(0, 1), regs |-> New(1, 1)]
      /\ Heap(sm \o state.frames \o <<state.regs[1]>>, <<>>, 2)
      /\ UNCHANGED <<shape, idx, sm, state, copy, res, locs, segment>>
  BY DEF IInv, AllocFailFrame
<1>2. fresh \in Nat /\ state \in StateType /\ 1 \in 1..Len(state.regs)
  <2>1. fresh \in Nat /\ state \in StateType
    BY <1>1 DEF TypeInv
  <2>2. state.regs \in Seq(Nat)
    BY <2>1 DEF StateType, BlockSeq
  <2>3. shape.depth \in Nat \ {0} /\ shape.depth <= Len(state.regs)
    BY <1>1, HeapAssumption DEF TypeInv, ControlInv
  <2> QED BY <2>1, <2>2, <2>3
<1>3. Within(sm \o state.frames \o <<state.regs[1]>>, live)
  <2>1. Within(sm, live) /\ Within(state.frames, live) /\ Within(state.regs, live)
    BY <1>1, Held
  <2>2. Within(<<state.regs[1]>>, live)
    BY <1>2, <2>1, WithinElement
  <2> QED BY <2>1, <2>2, WithinConcat
<1>4. /\ fault' = fault /\ fresh' = fresh + 2 /\ fresh' \in Nat
      /\ live' = (live \ {}) \cup fresh..(fresh + 2 - 1)
  BY <1>1, <1>3, HeapStep, EmptyFacts
<1>5. /\ fail' \in StateType /\ IsInjective(Owned(fail'))
      /\ ToSet(Owned(fail')) = fresh..(fresh + 2 - 1)
  <2>1. /\ New(0, 1) \in BlockSeq /\ IsInjective(New(0, 1))
        /\ ToSet(New(0, 1)) = (fresh + 0)..(fresh + 0 + 1 - 1)
    BY <1>2, NewBlocks
  <2>2. /\ New(1, 1) \in BlockSeq /\ IsInjective(New(1, 1))
        /\ ToSet(New(1, 1)) = (fresh + 1)..(fresh + 1 + 1 - 1)
    BY <1>2, NewBlocks
  <2>3. fail' \in StateType
    BY <1>1, <2>1, <2>2, EmptyFacts DEF StateType
  <2>4. /\ ToSet(New(0, 1)) \cap ToSet(New(1, 1)) = {}
        /\ ToSet(New(1, 1)) \cup ToSet(New(0, 1)) \cup {} = fresh..(fresh + 2 - 1)
    BY <1>2, <2>1, <2>2
  <2>5. fail'.self = <<>> /\ fail'.frames = New(0, 1) /\ fail'.regs = New(1, 1)
    BY <1>1
  <2> QED BY <2>1, <2>2, <2>3, <2>4, <2>5, OwnedBlocks, EmptyFacts
<1>6. TypeInv'
  BY <1>1, <1>4, <1>5 DEF TypeInv, Steps
<1>7. OwnerInv'
  <2>1. "fail" \in Owners /\ Owns("fail") = {}
    BY <1>1 DEF Owners, Owns, Holds
  <2>2. \A h \in Owners : h # "fail" => Pointed(h)' = Pointed(h) /\ Owns(h)' = Owns(h)
    <3>1. \A h \in Owners : h # "fail" => Pointed(h)' = Pointed(h)
      BY <1>1 DEF Owners, Pointed
    <3>2. \A h \in Owners : h # "fail" => Holds(h)' = Holds(h)
      BY <1>1 DEF Owners, Holds
    <3> QED BY <3>1, <3>2 DEF Owns
  <2>3. IsInjective(Pointed("fail")') /\ Owns("fail")' = fresh..(fresh + 2 - 1)
    BY <1>1, <1>5 DEF Owns, Holds, Pointed
  <2> QED BY <1>1, <1>2, <1>4, <2>1, <2>2, <2>3, OneOwnerStep
<1>8. ControlInv' /\ FaultInv'
  BY <1>1, <1>4 DEF ControlInv, FaultInv, InlinedIntoMain
<1> QED
  BY <1>6, <1>7, <1>8 DEF IInv

\* The frames of an inlined guard are restored.
LEMMA RestoreGuardStep == IInv /\ RestoreGuard => IInv'
<1> SUFFICES ASSUME IInv, RestoreGuard PROVE IInv'
  OBVIOUS
<1>1. /\ TypeInv /\ ControlInv /\ OwnerInv /\ FaultInv
      /\ step = "guard" /\ step' = "insert_guard" /\ get_restored_state(Owned(fail))
      /\ UNCHANGED <<shape, idx, sm, state, copy, fail, locs, segment>>
  BY DEF IInv, RestoreGuard
<1>2. ~Holds("res") /\ Holds("res")'
  BY <1>1 DEF Holds
<1>3. \A h \in Owners : h # "res" => Pointed(h)' = Pointed(h) /\ Owns(h)' = Owns(h)
  <2>1. \A h \in Owners : h # "res" => Pointed(h)' = Pointed(h)
    BY <1>1 DEF Owners, Pointed
  <2>2. \A h \in Owners : h # "res" => Holds(h)' = Holds(h)
    BY <1>1 DEF Owners, Holds
  <2> QED BY <2>1, <2>2 DEF Owns
<1>4. Within(sm, live) /\ Within(Owned(fail), live)
  BY <1>1, Held
<1>5. /\ res' \in StateType /\ fresh' \in Nat /\ OwnerInv' /\ fault' = fault
  BY <1>1, <1>2, <1>3, <1>4, RestoredOwned
<1>6. TypeInv'
  BY <1>1, <1>5 DEF TypeInv, Steps
<1>7. ControlInv' /\ FaultInv'
  BY <1>1, <1>5 DEF ControlInv, FaultInv, InlinedIntoMain
<1> QED
  BY <1>5, <1>6, <1>7 DEF IInv

\* The first frame is inserted before all others.
LEMMA InsertFailFrameStep == IInv /\ InsertFailFrame => IInv'
<1> SUFFICES ASSUME IInv, InsertFailFrame PROVE IInv'
  OBVIOUS
<1>1. /\ TypeInv /\ ControlInv /\ OwnerInv /\ FaultInv
      /\ step = "insert_fail" /\ step' = "free_fail" /\ insert_frames(0, fail)
      /\ UNCHANGED <<shape, idx, sm, copy, res, fail, locs, segment>>
  BY DEF IInv, InsertFailFrame
<1>2. /\ fail \in StateType /\ Len(state.regs) \in Nat /\ Len(fail.regs) \in Nat
      /\ shape.depth \in Nat
  BY <1>1, HeapAssumption DEF TypeInv, StateType, BlockSeq
<1>3. /\ Holds("state") /\ Holds("state")'
      /\ \A h \in Owners : h # "state" => Pointed(h)' = Pointed(h) /\ Owns(h)' = Owns(h)
  BY <1>1 DEF Owners, Owns, Holds, Pointed
<1>4. Within(fail.frames, live) /\ Within(fail.regs, live)
  BY <1>1, Held
<1>5. /\ OwnerInv' /\ fault' = fault /\ fresh' \in Nat
      /\ state' \in StateType /\ Len(state'.regs) = Len(state.regs) + Len(fail.regs)
  <2>1. 0 \in 0..Len(state.regs)
    BY <1>2
  <2> QED BY <1>1, <1>2, <1>3, <1>4, <2>1, InsertOwned
<1>6. TypeInv'
  BY <1>1, <1>5 DEF TypeInv, Steps
<1>7. ControlInv'
  <2>1. Len(state.regs) >= shape.depth
    BY <1>1 DEF ControlInv
  <2>2. Len(state'.regs) >= shape.depth
    <3>1. \A k, l, m \in Nat : k >= m => k + l >= m
      OBVIOUS
    <3>2. Len(state'.regs) = Len(state.regs) + Len(fail.regs)
      BY <1>5
    <3> QED BY <1>2, <2>1, <3>1, <3>2
  <2> QED BY <1>1, <2>2 DEF ControlInv
<1>8. FaultInv'
  BY <1>1, <1>5 DEF FaultInv, InlinedIntoMain
<1> QED
  BY <1>5, <1>6, <1>7, <1>8 DEF IInv

\* free_frames releases the first frame's source, and malloc gives the segment.
LEMMA FreeFailFrameStep == IInv /\ FreeFailFrame => IInv'
<1> SUFFICES ASSUME IInv, FreeFailFrame PROVE IInv'
  OBVIOUS
<1> DEFINE n == IF Inlined THEN 1 ELSE 0
<1>1. /\ TypeInv /\ ControlInv /\ OwnerInv /\ FaultInv
      /\ step = "free_fail" /\ step' = "locations"
      /\ segment' = New(0, n) /\ Heap(<<>>, Owned(fail), Len(segment'))
      /\ UNCHANGED <<shape, idx, sm, state, copy, res, fail, locs>>
  BY DEF IInv, FreeFailFrame
<1>2. fresh \in Nat /\ n \in Nat
  BY <1>1 DEF TypeInv
<1> HIDE DEF n
<1>3. /\ segment' \in BlockSeq /\ Len(segment') = n /\ IsInjective(segment')
      /\ ToSet(segment') = fresh..(fresh + n - 1)
  <2>1. /\ New(0, n) \in BlockSeq /\ Len(New(0, n)) = n /\ IsInjective(New(0, n))
        /\ ToSet(New(0, n)) = (fresh + 0)..(fresh + 0 + n - 1)
    BY <1>2, NewBlocks
  <2> QED BY <1>1, <1>2, <2>1
<1>4. Within(Owned(fail), live) /\ IsInjective(Owned(fail))
  BY <1>1, Held
<1>5. /\ fault' = fault /\ fresh' = fresh + n /\ fresh' \in Nat
      /\ live' = (live \ ToSet(Owned(fail))) \cup (fresh..(fresh + n - 1))
  BY <1>1, <1>2, <1>3, <1>4, HeapStep, EmptyFacts
<1>6. TypeInv'
  BY <1>1, <1>3, <1>5 DEF TypeInv, Steps
<1>7. OwnerInv'
  <2>1. \A h \in Owners : IsInjective(Pointed(h)')
    BY <1>1, <1>3 DEF Owners, Pointed, OwnerInv
  <2> DEFINE given == [h \in Owners |-> IF h = "segment" THEN fresh..(fresh + n - 1) ELSE {}]
  <2>2. /\ "fail" \in Owners /\ "segment" \in Owners
        /\ Owns("fail") = ToSet(Owned(fail)) /\ Owns("fail")' = {}
        /\ Owns("segment") = {} /\ Owns("segment")' = fresh..(fresh + n - 1)
    BY <1>1, <1>3 DEF Owners, Owns, Holds, Pointed
  <2>3. \A h \in Owners : h \notin {"fail", "segment"} => Owns(h)' = Owns(h)
    BY <1>1 DEF Owners, Owns, Holds, Pointed
  <2>4. \A h \in Owners : h # "fail" => Owns(h) \cap Owns("fail") = {}
    BY <1>1, <2>2 DEF OwnerInv
  <2>5. \A h \in Owners : Owns(h)' = (Owns(h) \ ToSet(Owned(fail))) \cup given[h]
    BY <2>2, <2>3, <2>4
  <2>6. \A g, h \in Owners : g # h => given[g] \cap given[h] = {}
    OBVIOUS
  <2>7. UNION {given[h] : h \in Owners} = fresh..(fresh + n - 1)
    BY <2>2
  <2> HIDE DEF given
  <2> QED BY <1>1, <1>2, <1>5, <2>1, <2>5, <2>6, <2>7, OwnersStep
<1>8. ControlInv' /\ FaultInv'
  BY <1>1, <1>5 DEF ControlInv, FaultInv, InlinedIntoMain
<1> QED
  BY <1>6, <1>7, <1>8 DEF IInv

\* get_locations allocates an array, and a value and a size for each variable.
LEMMA GetLocationsStep == IInv /\ get_locations => IInv'
<1> SUFFICES ASSUME IInv, get_locations PROVE IInv'
  OBVIOUS
<1>1. /\ TypeInv /\ ControlInv /\ OwnerInv /\ FaultInv
      /\ step = "locations" /\ step' = "restore"
      /\ Heap(sm \o state.self \o state.frames \o state.regs, <<>>, Len(locs'))
      /\ UNCHANGED <<shape, idx, sm, state, copy, res, fail, segment>>
  BY DEF IInv, get_locations
<1>2. PICK n \in 0..MaxPairs : locs' = New(0, 1 + 2 * n)
  BY DEF get_locations
<1> DEFINE m == 1 + 2 * n
<1>3. fresh \in Nat /\ m \in Nat /\ locs' = New(0, m)
  BY <1>1, <1>2, HeapAssumption DEF TypeInv
<1> HIDE DEF m
<1>4. /\ locs' \in BlockSeq /\ Len(locs') = m /\ IsInjective(locs')
      /\ ToSet(locs') = fresh..(fresh + m - 1)
  <2>1. /\ New(0, m) \in BlockSeq /\ Len(New(0, m)) = m /\ IsInjective(New(0, m))
        /\ ToSet(New(0, m)) = (fresh + 0)..(fresh + 0 + m - 1)
    BY <1>3, NewBlocks
  <2> QED BY <1>3, <2>1
<1>5. Within(sm \o state.self \o state.frames \o state.regs, live)
  <2>1. /\ Within(sm, live) /\ Within(state.self, live)
        /\ Within(state.frames, live) /\ Within(state.regs, live)
    BY <1>1, Held
  <2> QED BY <2>1, WithinConcat
<1>6. /\ fault' = fault /\ fresh' = fresh + m /\ fresh' \in Nat
      /\ live' = (live \ {}) \cup (fresh..(fresh + m - 1))
  BY <1>1, <1>3, <1>4, <1>5, HeapStep, EmptyFacts
<1>7. TypeInv'
  BY <1>1, <1>4, <1>6 DEF TypeInv, Steps
<1>8. OwnerInv'
  <2>1. "locs" \in Owners /\ Owns("locs") = {}
    BY <1>1 DEF Owners, Owns, Holds
  <2>2. \A h \in Owners : h # "locs" => Pointed(h)' = Pointed(h) /\ Owns(h)' = Owns(h)
    <3>1. \A h \in Owners : h # "locs" => Pointed(h)' = Pointed(h)
      BY <1>1 DEF Owners, Pointed
    <3>2. \A h \in Owners : h # "locs" => Holds(h)' = Holds(h)
      BY <1>1 DEF Owners, Holds
    <3> QED BY <3>1, <3>2 DEF Owns
  <2>3. IsInjective(Pointed("locs")') /\ Owns("locs")' = fresh..(fresh + m - 1)
    BY <1>1, <1>4 DEF Owns, Holds, Pointed
  <2> QED BY <1>1, <1>3, <1>6, <2>1, <2>2, <2>3, OneOwnerStep
<1>9. ControlInv' /\ FaultInv'
  BY <1>1, <1>6 DEF ControlInv, FaultInv, InlinedIntoMain
<1> QED
  BY <1>7, <1>8, <1>9 DEF IInv

\* restore_unopt_stack uses everything, and its caller frees the locations.
LEMMA RestoreStep == IInv /\ restore_unopt_stack => IInv'
<1> SUFFICES ASSUME IInv, restore_unopt_stack PROVE IInv'
  OBVIOUS
<1>1. /\ TypeInv /\ ControlInv /\ OwnerInv /\ FaultInv
      /\ step = "restore" /\ step' = "registers"
      /\ Heap(locs \o sm \o state.self \o state.frames \o state.regs \o segment, locs, 0)
      /\ UNCHANGED <<shape, idx, sm, state, copy, res, fail, locs, segment>>
  BY DEF IInv, restore_unopt_stack, free_locations, pointers
<1>2. /\ "locs" \in Owners /\ Pointed("locs") = locs /\ Pointed("locs")' = Pointed("locs")
      /\ Holds("locs") /\ ~Holds("locs")'
  BY <1>1 DEF Owners, Pointed, Holds
<1>3. \A h \in Owners : h # "locs" => Pointed(h)' = Pointed(h) /\ Owns(h)' = Owns(h)
  <2>1. \A h \in Owners : h # "locs" => Pointed(h)' = Pointed(h)
    BY <1>1 DEF Owners, Pointed
  <2>2. \A h \in Owners : h # "locs" => Holds(h)' = Holds(h)
    BY <1>1 DEF Owners, Holds
  <2> QED BY <2>1, <2>2 DEF Owns
<1>4. Within(locs \o sm \o state.self \o state.frames \o state.regs \o segment, live)
  <2>1. /\ Within(locs, live) /\ Within(sm, live) /\ Within(state.self, live)
        /\ Within(state.frames, live) /\ Within(state.regs, live) /\ Within(segment, live)
    BY <1>1, Held
  <2> QED BY <2>1, WithinConcat
<1>5. OwnerInv' /\ fault' = fault /\ fresh' = fresh
  BY <1>1, <1>2, <1>3, <1>4, FreeOwned
<1>6. TypeInv'
  BY <1>1, <1>5 DEF TypeInv, Steps
<1>7. ControlInv' /\ FaultInv'
  BY <1>1, <1>5 DEF ControlInv, FaultInv, InlinedIntoMain
<1> QED
  BY <1>5, <1>6, <1>7 DEF IInv

\* stmap_free releases the stack map after its last use.
LEMMA FreeStackMapStep == IInv /\ FreeStackMap => IInv'
<1> SUFFICES ASSUME IInv, FreeStackMap PROVE IInv'
  OBVIOUS
<1>1. /\ TypeInv /\ ControlInv /\ OwnerInv /\ FaultInv
      /\ step = "registers" /\ step' \in {"jump_inlined", "jmp_to_addr"}
      /\ Heap(state.frames \o <<state.regs[1]>> \o sm, sm, 0)
      /\ UNCHANGED <<shape, idx, sm, state, copy, res, fail, locs, segment>>
  BY DEF IInv, FreeStackMap, pointers
<1>2. /\ "sm" \in Owners /\ Pointed("sm") = sm /\ Pointed("sm")' = Pointed("sm")
      /\ Holds("sm") /\ ~Holds("sm")'
  BY <1>1 DEF Owners, Pointed, Holds
<1>3. \A h \in Owners : h # "sm" => Pointed(h)' = Pointed(h) /\ Owns(h)' = Owns(h)
  <2>1. \A h \in Owners : h # "sm" => Pointed(h)' = Pointed(h)
    BY <1>1 DEF Owners, Pointed
  <2>2. \A h \in Owners : h # "sm" => Holds(h)' = Holds(h)
    BY <1>1 DEF Owners, Holds
  <2> QED BY <2>1, <2>2 DEF Owns
<1>4. Within(state.frames \o <<state.regs[1]>> \o sm, live)
  <2>1. Within(sm, live) /\ Within(state.frames, live) /\ Within(state.regs, live)
    BY <1>1, Held
  <2>2. 1 \in 1..Len(state.regs)
    BY <1>1, HeapAssumption DEF TypeInv, ControlInv, StateType, BlockSeq
  <2>3. Within(<<state.regs[1]>>, live)
    BY <2>1, <2>2, WithinElement
  <2> QED BY <2>1, <2>3, WithinConcat
<1>5. OwnerInv' /\ fault' = fault /\ fresh' = fresh
  BY <1>1, <1>2, <1>3, <1>4, FreeOwned
<1>6. TypeInv'
  BY <1>1, <1>5 DEF TypeInv, Steps
<1>7. ControlInv' /\ FaultInv'
  BY <1>1, <1>5 DEF ControlInv, FaultInv, InlinedIntoMain
<1> QED
  BY <1>5, <1>6, <1>7 DEF IInv

\* The jump releases the state and the segment: the last two owners.
LEMMA JumpStep == IInv /\ Jump => IInv'
<1> SUFFICES ASSUME IInv, Jump PROVE IInv'
  OBVIOUS
<1>1. /\ TypeInv /\ ControlInv /\ OwnerInv /\ FaultInv
      /\ step \in {"jump_inlined", "jmp_to_addr"} /\ step' = "resumed"
      /\ Heap(state.frames \o <<Last(state.regs)>> \o segment, Owned(state) \o segment, 0)
      /\ UNCHANGED <<shape, idx, sm, state, copy, res, fail, locs, segment>>
  BY DEF IInv, Jump, pointers
<1>2. /\ fresh \in Nat /\ Within(Owned(state), live) /\ Within(segment, live)
      /\ Within(state.frames, live) /\ Within(state.regs, live)
      /\ IsInjective(Owned(state)) /\ IsInjective(segment)
  BY <1>1, Held DEF TypeInv
<1>3. Within(state.frames \o <<Last(state.regs)>> \o segment, live)
  <2>1. Len(state.regs) \in 1..Len(state.regs)
    <3>1. state \in StateType
      BY <1>1 DEF TypeInv
    <3>2. state.regs \in Seq(Nat)
      BY <3>1 DEF StateType, BlockSeq
    <3>3. shape.depth \in Nat \ {0} /\ shape.depth <= Len(state.regs)
      BY <1>1, HeapAssumption DEF TypeInv, ControlInv
    <3> QED BY <3>2, <3>3
  <2>2. Within(<<Last(state.regs)>>, live)
    BY <1>2, <2>1, WithinElement DEF Last
  <2> QED BY <1>2, <2>2, WithinConcat
<1>4. /\ "state" \in Owners /\ Owns("state") = ToSet(Owned(state)) /\ Owns("state")' = {}
      /\ "segment" \in Owners /\ Owns("segment") = ToSet(segment) /\ Owns("segment")' = {}
      /\ \A h \in Owners : h \notin {"state", "segment"} => Owns(h)' = Owns(h)
      /\ \A h \in Owners : Pointed(h)' = Pointed(h)
  BY <1>1 DEF Owners, Owns, Holds, Pointed
<1>5. \A g, h \in Owners : g # h => Owns(g) \cap Owns(h) = {}
  BY <1>1 DEF OwnerInv
<1>6. /\ Within(Owned(state) \o segment, live) /\ IsInjective(Owned(state) \o segment)
      /\ ToSet(Owned(state) \o segment) = Owns("state") \cup Owns("segment")
  <2>1. Owned(state) \in BlockSeq /\ segment \in BlockSeq
    BY <1>2 DEF Within
  <2>2. ToSet(Owned(state)) \cap ToSet(segment) = {}
    BY <1>4, <1>5
  <2> QED BY <1>2, <1>4, <2>1, <2>2, WithinConcat, ConcatBlocks, ConcatInjective
<1> DEFINE freed == ToSet(Owned(state) \o segment)
           given == [h \in Owners |-> {}]
<1>7. /\ fault' = fault /\ fresh' = fresh + 0
      /\ live' = (live \ freed) \cup (fresh..(fresh + 0 - 1))
  BY <1>1, <1>3, <1>6, HeapStep
<1>8. OwnerInv'
  <2>1. \A h \in Owners : IsInjective(Pointed(h)')
    BY <1>1, <1>4 DEF OwnerInv
  <2>2. \A h \in Owners : Owns(h)' = (Owns(h) \ freed) \cup given[h]
    BY <1>4, <1>5, <1>6
  <2>3. UNION {given[h] : h \in Owners} = fresh..(fresh + 0 - 1)
    BY <1>2
  <2>4. \A g, h \in Owners : g # h => given[g] \cap given[h] = {}
    OBVIOUS
  <2>5. 0 \in Nat
    OBVIOUS
  <2> HIDE DEF freed, given
  <2> QED BY <1>1, <1>2, <1>7, <2>1, <2>2, <2>3, <2>4, <2>5, OwnersStep
<1>9. TypeInv'
  BY <1>1, <1>2, <1>7 DEF TypeInv, Steps
<1>10. ControlInv' /\ FaultInv'
  BY <1>1, <1>7 DEF ControlInv, FaultInv, InlinedIntoMain
<1> QED
  BY <1>8, <1>9, <1>10 DEF IInv

\* IInv is inductive.
LEMMA NextIInv == IInv /\ [HeapNext]_heapVars => IInv'
<1> SUFFICES ASSUME IInv, [HeapNext]_heapVars PROVE IInv'
  OBVIOUS
<1>1. CASE UNCHANGED heapVars
  <2>1. \A h \in Owners : Pointed(h)' = Pointed(h) /\ Owns(h)' = Owns(h)
    BY <1>1 DEF heapVars, pointers, Owners, Owns, Holds, Pointed
  <2>2. OwnerInv'
    BY <1>1, <2>1 DEF IInv, OwnerInv, heapVars
  <2>3. TypeInv' /\ ControlInv' /\ FaultInv'
    BY <1>1 DEF IInv, TypeInv, ControlInv, FaultInv, InlinedIntoMain, heapVars, pointers
  <2> QED BY <2>2, <2>3 DEF IInv
<1>2. CASE HeapNext
  BY <1>1, <1>2, ReadStackStep, CollectRecordsStep, CollectInlinedStep, InsertRestoredStep,
     FreeRestoredStep, CollectInlinedEndStep, AllocFailFrameStep, RestoreGuardStep,
     InsertFailFrameStep, FreeFailFrameStep, GetLocationsStep, RestoreStep, FreeStackMapStep,
     JumpStep DEF HeapNext, Resumed
<1> QED
  BY <1>1, <1>2

-----------------------------------------------------------------------------
\* Every allocated block has exactly one owner, in every step of the handler.
THEOREM Invariance == HeapSpec => []IInv
BY InitIInv, NextIInv, PTL DEF HeapSpec

(***************************************************************************)
(* Everything is released before the handler jumps away, whatever was      *)
(* inlined and wherever realloc moves the array of frames.                 *)
(***************************************************************************)
THEOREM AllReleased == HeapSpec => []NothingLost
<1>1. IInv => NothingLost
  <2> SUFFICES ASSUME IInv, step = "resumed" PROVE live = {}
    BY DEF NothingLost
  <2>1. \A h \in Owners : Owns(h) = {}
    BY DEF Owners, Owns, Holds
  <2> QED BY <2>1 DEF IInv, OwnerInv
<1> QED
  BY <1>1, Invariance, PTL

(***************************************************************************)
(* No block is used after it was freed and none is freed twice, on every   *)
(* stack on which functions were inlined into main alone.  The condition   *)
(* is needed: collect_inlined_frames goes on reading the array that        *)
(* insert_frames may have reallocated.                                     *)
(***************************************************************************)
THEOREM NoFaultIntoMain == HeapSpec => [](InlinedIntoMain => NoFault)
<1>1. IInv => (InlinedIntoMain => NoFault)
  BY DEF IInv, FaultInv, NoFault
<1> QED
  BY <1>1, Invariance, PTL
=============================================================================
