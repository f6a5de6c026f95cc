---------------------------- MODULE HandlerHeap ----------------------------
(***************************************************************************)
(* The heap blocks of the guard failure handler: who owns the register     *)
(* arrays of the frames while frames are copied from one call stack state  *)
(* to another, and what has been released when the handler jumps away.     *)
(*                                                                         *)
(* A block is a number, and a sequence of blocks stands for pointers, of   *)
(* which NULL is the empty one.  A call_stack_state_t has the block it is  *)
(* in, its array of frames and the register array of each frame.           *)
(***************************************************************************)
EXTENDS Integers, Sequences, SequencesExt, Functions

CONSTANTS
  Stacks,       \* the stacks considered
  MaxRestored,  \* bound on the frames made for one inlined call
  MaxPairs      \* bound on the variables restored

ASSUME HeapAssumption ==
  /\ \A s \in Stacks : s.depth \in Nat \ {0} /\ s.num_rec \in Nat /\ s.guardInlined \in BOOLEAN
  /\ MaxRestored \in Nat
  /\ MaxPairs \in Nat

VARIABLES
  shape,   \* of the stack: depth, its frames; inlinedAt, those that return to
           \* inlined code; guardInlined; num_rec, the records of the stack map
  step,    \* what the handler does next
  idx,     \* loop counter of collect_inlined_frames
  live,    \* the blocks that are allocated
  fresh,   \* the next block
  fault,   \* whether a block was used or freed that was not allocated
  sm, state, copy, res, fail, locs, segment   \* what the handler points to

pointers == <<sm, state, copy, res, fail, locs, segment>>
heapVars == <<shape, step, idx, live, fresh, fault, pointers>>

New(n, m) == [k \in 1..m |-> fresh + n + k - 1]

\* A step that uses some blocks, then frees some and allocates n new ones.
Heap(uses, frees, n) ==
  /\ fault' = (fault \/ ~(ToSet(uses \o frees) \subseteq live) \/ ~IsInjective(frees))
  /\ live' = (live \ ToSet(frees)) \cup ToSet(New(0, n))
  /\ fresh' = fresh + n

Nothing == [self |-> <<>>, frames |-> <<>>, regs |-> <<>>]

\* What free_call_stack_state and free_frames free.
Owned(s) == s.regs \o s.frames \o s.self

-----------------------------------------------------------------------------
\* stmap_create, and get_call_stack_state.
ReadStack ==
  /\ step = "start"
  /\ LET n == 4 + 2 * shape.num_rec IN
     /\ sm' = New(0, n)
     /\ state' = [self |-> New(n, 1), frames |-> New(n + 1, 1), regs |-> New(n + 2, shape.depth)]
     /\ Heap(<<>>, <<>>, n + 2 + shape.depth)
  /\ step' = "collect"
  /\ UNCHANGED <<shape, idx, copy, res, fail, locs, segment>>

\* collect_map_records, and get_state_copy: the copy shares the frames.
CollectRecords ==
  /\ step = "collect"
  /\ copy' = [self |-> New(0, 1), frames |-> state.frames, depth |-> Len(state.regs)]
  /\ Heap(sm \o state.self \o state.frames, <<>>, 1)
  /\ idx' = 1
  /\ step' = "inline"
  /\ UNCHANGED <<shape, sm, state, res, fail, locs, segment>>

\* get_restored_state, and the register arrays its caller gives to the frames.
get_restored_state(uses) ==
  \E n \in 0..MaxRestored : LET array == IF n = 0 THEN 0 ELSE 1 IN
    /\ res' = [self |-> New(0, 1), frames |-> New(1, array), regs |-> New(1 + array, n)]
    /\ Heap(sm \o uses, <<>>, 1 + array + n)

\* One iteration of collect_inlined_frames, which reads the copy.
CollectInlined ==
  /\ step = "inline"
  /\ idx < copy.depth
  /\ \/ /\ idx \notin shape.inlinedAt
        /\ Heap(sm \o copy.self \o copy.frames, <<>>, 0)
        /\ idx' = idx + 1
        /\ UNCHANGED <<step, res>>
     \/ /\ idx \in shape.inlinedAt
        /\ get_restored_state(copy.self \o copy.frames \o <<state.regs[idx + 1]>>)
        /\ step' = "insert"
        /\ UNCHANGED idx
  /\ UNCHANGED <<shape, sm, state, copy, fail, locs, segment>>

CollectInlinedEnd ==
  /\ step = "inline"
  /\ idx >= copy.depth
  /\ Heap(<<>>, copy.self, 0)
  /\ step' = "fail"
  /\ UNCHANGED <<shape, idx, pointers>>

(***************************************************************************)
(* insert_frames: realloc may move the array, and the inserted frames get  *)
(* register arrays of their own; in the mutant they keep those of the      *)
(* frames they are copies of.                                              *)
(***************************************************************************)
NewRegisters_mutant(src, n) == src.regs

NewRegisters(src, n) == New(n, Len(src.regs))

insert_frames(at, src) ==
  \E moved \in 0..1 :
    /\ state' = [state EXCEPT !.frames = IF moved = 1 THEN New(0, 1) ELSE @,
                              !.regs = SubSeq(@, 1, at) \o NewRegisters(src, moved)
                                         \o SubSeq(@, at + 1, Len(@))]
    /\ Heap(state.self \o src.frames \o src.regs \o state.frames,
            IF moved = 1 THEN state.frames ELSE <<>>, moved + Len(src.regs))

\* The restored frames follow frame idx, or come first if the guard was inlined.
InsertRestored ==
  /\ step \in {"insert", "insert_guard"}
  /\ insert_frames(IF step = "insert" THEN idx ELSE 0, res)
  /\ step' = IF step = "insert" THEN "free" ELSE "free_guard"
  /\ UNCHANGED <<shape, idx, sm, copy, res, fail, locs, segment>>

FreeRestored ==
  /\ step \in {"free", "free_guard"}
  /\ Heap(<<>>, Owned(res), 0)
  /\ step' = IF step = "free" THEN "inline" ELSE "insert_fail"
  /\ idx' = IF step = "free" THEN idx + 1 ELSE idx
  /\ UNCHANGED <<shape, pointers>>

-----------------------------------------------------------------------------
\* alloc_empty_frames(1), and the registers of the first frame.
AllocFailFrame ==
  /\ step = "fail"
  /\ fail' = [self |-> <<>>, frames |-> New(0, 1), regs |-> New(1, 1)]
  /\ Heap(sm \o state.frames \o <<state.regs[1]>>, <<>>, 2)
  /\ step' = IF shape.guardInlined THEN "guard" ELSE "insert_fail"
  /\ UNCHANGED <<shape, idx, sm, state, copy, res, locs, segment>>

RestoreGuard ==
  /\ step = "guard"
  /\ get_restored_state(Owned(fail))
  /\ step' = "insert_guard"
  /\ UNCHANGED <<shape, idx, sm, state, copy, fail, locs, segment>>

InsertFailFrame ==
  /\ step = "insert_fail"
  /\ insert_frames(0, fail)
  /\ step' = "free_fail"
  /\ UNCHANGED <<shape, idx, sm, copy, res, fail, locs, segment>>

Inlined == shape.guardInlined \/ shape.inlinedAt # {}

\* free_frames; then the segment, if there was any inlining.
FreeFailFrame ==
  /\ step = "free_fail"
  /\ segment' = New(0, IF Inlined THEN 1 ELSE 0)
  /\ Heap(<<>>, Owned(fail), Len(segment'))
  /\ step' = "locations"
  /\ UNCHANGED <<shape, idx, sm, state, copy, res, fail, locs>>

\* get_locations: an array, and a value and a size for each variable.
get_locations ==
  /\ step = "locations"
  /\ \E n \in 0..MaxPairs : locs' = New(0, 1 + 2 * n)
  /\ Heap(sm \o state.self \o state.frames \o state.regs, <<>>, Len(locs'))
  /\ step' = "restore"
  /\ UNCHANGED <<shape, idx, sm, state, copy, res, fail, segment>>

\* free_locations; the mutant takes the number of variables for that of blocks.
free_locations_mutant == SubSeq(locs, 1, 1 + (Len(locs) - 1) \div 2)

free_locations == locs

restore_unopt_stack ==
  /\ step = "restore"
  /\ Heap(locs \o sm \o state.self \o state.frames \o state.regs \o segment, free_locations, 0)
  /\ step' = "registers"
  /\ UNCHANGED <<shape, idx, pointers>>

(***************************************************************************)
(* restore_register_state, the address to jump to, which is read from the  *)
(* stack map, and stmap_free.                                              *)
(***************************************************************************)
FreeStackMap ==
  /\ step = "registers"
  /\ Heap(state.frames \o <<state.regs[1]>> \o sm, sm, 0)
  /\ step' = IF Inlined THEN "jump_inlined" ELSE "jmp_to_addr"
  /\ UNCHANGED <<shape, idx, pointers>>

\* The frames are linked, then the state and the segment are released.
Jump ==
  /\ step \in {"jump_inlined", "jmp_to_addr"}
  /\ Heap(state.frames \o <<Last(state.regs)>> \o segment, Owned(state) \o segment, 0)
  /\ step' = "resumed"
  /\ UNCHANGED <<shape, idx, pointers>>

HeapInit ==
  /\ shape \in Stacks
  /\ step = "start"
  /\ idx = 1
  /\ live = {} /\ fresh = 1 /\ fault = FALSE
  /\ sm = <<>> /\ locs = <<>> /\ segment = <<>>
  /\ state = Nothing /\ res = Nothing /\ fail = Nothing
  /\ copy = [self |-> <<>>, frames |-> <<>>, depth |-> 0]

Resumed == step = "resumed" /\ UNCHANGED heapVars

HeapNext ==
  \/ ReadStack \/ CollectRecords \/ CollectInlined \/ InsertRestored \/ FreeRestored
  \/ CollectInlinedEnd \/ AllocFailFrame \/ RestoreGuard \/ InsertFailFrame \/ FreeFailFrame
  \/ get_locations \/ restore_unopt_stack \/ FreeStackMap \/ Jump \/ Resumed

HeapSpec == HeapInit /\ [][HeapNext]_heapVars

-----------------------------------------------------------------------------
(***************************************************************************)
(* No block is used after it has been freed or freed twice, although       *)
(* frames are copied with their pointers and the handler works on a copy   *)
(* of a state whose array is reallocated.                                  *)
(***************************************************************************)
NoFault == ~fault

(***************************************************************************)
(* The handler never returns, and whatever it has not freed when it jumps  *)
(* to the unoptimized code is lost: nothing is.                            *)
(***************************************************************************)
NothingLost == step = "resumed" => live = {}
=============================================================================
