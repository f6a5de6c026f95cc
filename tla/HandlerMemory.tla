--------------------------- MODULE HandlerMemory ---------------------------
(***************************************************************************)
(* What __guard_failure does to memory, composed of the three models of    *)
(* its parts: the blocks of the heap (HandlerHeap), the segment in which   *)
(* the new call stack is laid out (SegmentLayout), and the values that are *)
(* read and restored (LocationValues).  The steps of HandlerHeap are the   *)
(* order of the handler; some of them are a loop in one of the others.     *)
(* When nothing was inlined, there is no segment.                          *)
(*                                                                         *)
(* The variables of a site stand for those of the whole stack, and Depth   *)
(* for the number of its frames, whatever the shape of the stack is.       *)
(***************************************************************************)
EXTENDS HandlerHeap, LocationValues, SegmentLayout

memoryVars == <<heapVars, vars, segmentVars>>

\* The steps that only allocate, use or free blocks.
HandleBlocks ==
  /\ \/ ReadStack \/ CollectRecords \/ CollectInlined \/ InsertRestored \/ FreeRestored
     \/ CollectInlinedEnd \/ AllocFailFrame \/ RestoreGuard \/ InsertFailFrame \/ FreeStackMap
  /\ UNCHANGED <<vars, segmentVars>>

\* The stack is measured if there was any inlining.
MeasureStack ==
  /\ step = "free_fail" /\ Inlined
  /\ get_total_stack_size
  /\ UNCHANGED <<heapVars, vars>>

\* The size of the block of the segment is total, so total has been computed.
AllocateSegment ==
  /\ FreeFailFrame
  /\ Inlined => loop = "insert"
  /\ UNCHANGED <<vars, segmentVars>>

FillSegment ==
  /\ step = "locations"
  /\ insert_real_addresses
  /\ UNCHANGED <<heapVars, vars>>

\* Two blocks for each variable, allocated one by one while they are read.
AllocateLocations ==
  /\ loop # "insert"
  /\ get_locations
  /\ Len(locs') = 1 + 2 * Len(site)
  /\ UNCHANGED <<vars, segmentVars>>

RestoreVariables ==
  /\ step = "restore"
  /\ get_location \/ restore_location
  /\ UNCHANGED <<heapVars, segmentVars>>

FreeLocations ==
  /\ pc = "done"
  /\ restore_unopt_stack
  /\ UNCHANGED <<vars, segmentVars>>

LinkFrames ==
  /\ step = "jump_inlined"
  /\ jump_inlined
  /\ UNCHANGED <<heapVars, vars>>

\* jump_inlined copies the segment after it has freed the frames.
JumpAway ==
  /\ Jump
  /\ IF Inlined THEN CopySegment ELSE UNCHANGED segmentVars
  /\ UNCHANGED vars

\* The handler has jumped away, or it ended the process.
HandlerEnded == (step = "resumed" \/ pc \in {"exited", "crashed"}) /\ UNCHANGED memoryVars

MemoryInit == HeapInit /\ Init /\ SegmentInit

MemoryNext ==
  \/ HandleBlocks \/ MeasureStack \/ AllocateSegment \/ FillSegment \/ AllocateLocations
  \/ RestoreVariables \/ FreeLocations \/ LinkFrames \/ JumpAway \/ HandlerEnded

MemorySpec == MemoryInit /\ [][MemoryNext]_memoryVars
=============================================================================
