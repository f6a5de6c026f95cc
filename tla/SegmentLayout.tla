--------------------------- MODULE SegmentLayout ---------------------------
(***************************************************************************)
(* The new call stack that the handler builds when functions were inlined, *)
(* loop iteration by loop iteration: get_total_stack_size measures it,     *)
(* insert_real_addresses fills a segment of the heap, and jump_inlined     *)
(* links its frames for the place it is copied to.  The three loops add up *)
(* the same frame sizes in different ways; GuardHandler has each of them   *)
(* as one step.                                                            *)
(*                                                                         *)
(* Frames are numbered from the innermost one, 1, to the unoptimized main, *)
(* Depth.  The last entry of the handler's array, the frame of the         *)
(* optimized main, has no size.  Sizes and addresses are in words.         *)
(***************************************************************************)
EXTENDS Integers

CONSTANTS
  Depth,     \* number of frames to build
  Sizes,     \* possible frame sizes
  Junk,      \* possible contents of the size nobody sets
  Start,     \* address of the segment
  MainBp     \* base pointer of the optimized main

ASSUME SegmentAssumption ==
  /\ Depth \in Nat \ {0}
  /\ Sizes \subseteq Nat \ {0}
  /\ Junk \subseteq Nat /\ Junk # {}
  /\ Start \in Nat
  /\ MainBp \in Nat

VARIABLES
  size,     \* size of each frame, its saved base pointer included
  loop,     \* "total", "insert", "link", "copy" or "done"
  i,        \* loop counter
  total,    \* total_size, as far as it has been computed
  cur_bp,   \* the variable of that name in the second and third loop
  bp,       \* base pointer of each frame in the segment
  seg,      \* the words of the segment that have been written
  stack,    \* the words copied to the stack
  counted   \* history: total before the size of each frame was added

segmentVars == <<size, loop, i, total, cur_bp, bp, seg, stack, counted>>

Frames == 1..Depth

ADDR_SIZE == 1

\* The return address frame k is given, where frame k + 1 goes on: a number
\* that is not the address of a word of the stack.
Return(k) == -(k + 1)

Set(f, k, v) == [x \in DOMAIN f \cup {k} |-> IF x = k THEN v ELSE f[x]]

-----------------------------------------------------------------------------
\* Space for the return address; the mutant forgets it.
FrameTotal_mutant(k) == size[k]

FrameTotal(k) == size[k] + ADDR_SIZE

get_total_stack_size ==
  /\ loop = "total"
  /\ counted' = [counted EXCEPT ![i] = total]
  /\ total' = total + FrameTotal(i)
  /\ i' = IF i = Depth THEN 1 ELSE i + 1
  /\ loop' = IF i = Depth THEN "insert" ELSE loop
  /\ cur_bp' = IF i = Depth THEN Start + size[1] - ADDR_SIZE ELSE cur_bp
  /\ UNCHANGED <<size, bp, seg, stack>>

\* The next frame; the mutant leaves no room for the return address.
Above_mutant(s) == cur_bp + s

Above(s) == cur_bp + s + ADDR_SIZE

(***************************************************************************)
(* One iteration of insert_real_addresses.  The last one also adds the     *)
(* size of the frame of the optimized main, which is not initialised.  The *)
(* two writes to that frame after the loop are in GuardHandler.            *)
(***************************************************************************)
insert_real_addresses ==
  /\ loop = "insert"
  /\ bp' = [bp EXCEPT ![i] = cur_bp]
  /\ seg' = LET returned == Set(seg, cur_bp + ADDR_SIZE, Return(i))
            IN  IF i > 1 THEN Set(returned, bp[i - 1], cur_bp) ELSE returned
  /\ IF i < Depth
     THEN /\ i' = i + 1
          /\ loop' = loop
          /\ cur_bp' = Above(size[i + 1])
     ELSE /\ i' = 2
          /\ loop' = "link"
          /\ \E s \in Junk : cur_bp' = Above(s)
  /\ UNCHANGED <<size, total, stack, counted>>

\* Where the first frame will be; the mutant counts the base pointer twice.
restored_bp_mutant == MainBp + size[1]

restored_bp == MainBp + size[1] - ADDR_SIZE

\* One iteration of jump_inlined, and its first assignment to cur_bp.
jump_inlined ==
  /\ loop = "link"
  /\ i <= Depth
  /\ LET next == (IF i = 2 THEN restored_bp ELSE cur_bp) + size[i] + ADDR_SIZE
     IN  /\ cur_bp' = next
         /\ seg' = Set(seg, bp[i - 1], next)
  /\ i' = i + 1
  /\ UNCHANGED <<size, loop, total, bp, stack, counted>>

CopySegment ==
  /\ loop = "link"
  /\ i > Depth
  /\ stack' = [a \in {MainBp + (x - Start) : x \in DOMAIN seg} |-> seg[Start + (a - MainBp)]]
  /\ loop' = "done"
  /\ UNCHANGED <<size, i, total, cur_bp, bp, seg, counted>>

SegmentInit ==
  /\ size \in [Frames -> Sizes]
  /\ loop = "total"
  /\ i = 1
  /\ total = 0
  /\ cur_bp = 0
  /\ bp = [k \in Frames |-> 0]
  /\ seg = [x \in {} |-> 0]
  /\ stack = [x \in {} |-> 0]
  /\ counted = [k \in Frames |-> 0]

Done == loop = "done" /\ UNCHANGED segmentVars

SegmentNext ==
  get_total_stack_size \/ insert_real_addresses \/ jump_inlined \/ CopySegment \/ Done

SegmentSpec == SegmentInit /\ [][SegmentNext]_segmentVars

-----------------------------------------------------------------------------
(***************************************************************************)
(* Nothing is written outside the segment, whose size was computed before  *)
(* by another loop: malloc gave total_size bytes.                          *)
(***************************************************************************)
WritesInSegment == \A a \in DOMAIN seg : Start <= a /\ a < Start + total

(***************************************************************************)
(* The frames lie side by side: frame k begins where the first loop had    *)
(* counted to, and its variables, base pointer and return address end      *)
(* where the next frame begins.                                            *)
(***************************************************************************)
FramesSideBySide ==
  loop \in {"link", "done"} =>
    \A k \in Frames :
      /\ bp[k] - (size[k] - ADDR_SIZE) = Start + counted[k]
      /\ k < Depth => bp[k] + 2 * ADDR_SIZE = Start + counted[k + 1]
      /\ k = Depth => bp[k] + 2 * ADDR_SIZE = Start + total

(***************************************************************************)
(* On the stack, every frame is found from the one it called: the saved    *)
(* base pointer of frame k is the base pointer of frame k + 1, and above   *)
(* it is the return address of frame k.  The links were computed from the  *)
(* sizes again and not from the segment.                                   *)
(***************************************************************************)
OnStack(k) == MainBp + (bp[k] - Start)

FramesLinked ==
  loop = "done" =>
    /\ OnStack(1) = restored_bp
    /\ \A k \in Frames :
         /\ stack[OnStack(k) + ADDR_SIZE] = Return(k)
         /\ k < Depth => stack[OnStack(k)] = OnStack(k + 1)
=============================================================================
