------------------------------ MODULE Barrier ------------------------------
(***************************************************************************)
(* BarrierPass: after the optimizer, the basic blocks of a function are    *)
(* split around its sites.  The pass is given one block at a time and adds *)
(* blocks to the list it is being led along, so it visits its own blocks   *)
(* too.                                                                    *)
(*                                                                         *)
(* A block is a sequence of instructions, of which the last one is its     *)
(* terminator.  An instruction has a unique id.                            *)
(***************************************************************************)
EXTENDS Integers, Sequences, SequencesExt

CONSTANTS
  Functions,   \* the functions considered: sequences of blocks
  MaxBlocks    \* bound on the number of blocks

\* The instructions that belong to a site, none of which ends a block.
SiteOps == {"asm", "call", "stackmap", "patchpoint"}

(***************************************************************************)
(* A function as the other passes leave it: CheckPointPass has put an asm  *)
(* block in front of each call and a stackmap after it.                    *)
(***************************************************************************)
ASSUME FunctionsAssumption ==
  \A f \in Functions :
    /\ f \in Seq(ToSet(f)) /\ Len(f) > 0
    /\ \A k \in 1..Len(f) :
         /\ f[k] \in Seq(ToSet(f[k])) /\ Len(f[k]) > 0
         /\ f[k][Len(f[k])].op \notin SiteOps
         /\ \A i \in 1..Len(f[k]) :
              /\ f[k][i].id \in Nat \ {0}
              /\ f[k][i].op = "call" =>
                   i > 1 /\ f[k][i - 1].op = "asm" /\ f[k][i + 1].op = "stackmap"
    /\ \A k, l \in 1..Len(f) : \A i \in 1..Len(f[k]) : \A j \in 1..Len(f[l]) :
         f[k][i].id = f[l][j].id => k = l /\ i = j

VARIABLES
  blocks,      \* the blocks of the function, in the order of its list
  cur,         \* the block being visited
  phase,       \* "collect" or "split"
  callInsts    \* the instructions in front of which to split

vars == <<blocks, cur, phase, callInsts>>

Visiting == cur <= Len(blocks)

-----------------------------------------------------------------------------
(***************************************************************************)
(* The calls that make records.  The mutant forgets the patchpoints.       *)
(***************************************************************************)
producesStackmapRecords_mutant(inst) == inst.op = "stackmap"

producesStackmapRecords(inst) == inst.op \in {"stackmap", "patchpoint"}

(***************************************************************************)
(* The split points of one instruction of a block: an asm block unless it  *)
(* is the first instruction, which the mutant misses, and the instruction  *)
(* after a site.                                                           *)
(***************************************************************************)
AsmSplit_mutant(b, i) == TRUE

AsmSplit(b, i) == i > 1

SplitPoints(b, i) ==
  CASE b[i].op = "asm" /\ AsmSplit(b, i)                  -> <<b[i].id>>
    [] producesStackmapRecords(b[i]) /\ i + 1 \in DOMAIN b -> <<b[i + 1].id>>
    [] OTHER                                               -> <<>>

\* The first loop of runOnBasicBlock.
Collect ==
  /\ Visiting
  /\ phase = "collect"
  /\ LET b == blocks[cur]
     IN  callInsts' = FlattenSeq([i \in 1..Len(b) |-> SplitPoints(b, i)])
  /\ phase' = "split"
  /\ UNCHANGED <<blocks, cur>>

(***************************************************************************)
(* BasicBlock::splitBasicBlock: the instructions from inst on move to a    *)
(* new block, which follows in the list, and the block branches to it.     *)
(***************************************************************************)
getParent(inst) ==
  CHOOSE k \in 1..Len(blocks) : \E i \in 1..Len(blocks[k]) : blocks[k][i].id = inst

splitBasicBlock(k, inst) ==
  LET b  == blocks[k]
      at == CHOOSE i \in 1..Len(b) : b[i].id = inst
      br == [op |-> "br", id |-> -Len(blocks)]
  IN  SubSeq(blocks, 1, k - 1)
        \o <<Append(SubSeq(b, 1, at - 1), br), SubSeq(b, at, Len(b))>>
        \o SubSeq(blocks, k + 1, Len(blocks))

\* One step of the second loop.  An instruction may be a split point twice.
Split ==
  /\ Visiting
  /\ phase = "split"
  /\ callInsts # <<>>
  /\ Len(blocks) < MaxBlocks
  /\ blocks' = splitBasicBlock(getParent(Head(callInsts)), Head(callInsts))
  /\ callInsts' = Tail(callInsts)
  /\ UNCHANGED <<cur, phase>>

\* The pass manager goes on to the next block of the list.
NextBlock ==
  /\ Visiting
  /\ phase = "split"
  /\ callInsts = <<>>
  /\ cur' = cur + 1
  /\ phase' = "collect"
  /\ UNCHANGED <<blocks, callInsts>>

Init ==
  /\ blocks \in Functions
  /\ cur = 1
  /\ phase = "collect"
  /\ callInsts = <<>>

Next == Collect \/ Split \/ NextBlock

(***************************************************************************)
(* The pass is a sequential program that clang runs to its end.            *)
(***************************************************************************)
Spec == Init /\ [][Next]_vars /\ WF_vars(Next)

-----------------------------------------------------------------------------
\* What blocks contain apart from their terminators.
Body(b) == [i \in 1..(Len(b) - 1) |-> b[i].op]

(***************************************************************************)
(* The promise in the pass's comment: at the end the asm block, the call   *)
(* and the site of a call are alone in their block, so that nothing can be *)
(* moved between or across them, and nothing follows a site in its block.  *)
(***************************************************************************)
IsolatedIn(b) ==
  \A i \in 1..Len(b) :
    /\ b[i].op = "call" => Body(b) = <<"asm", "call", "stackmap">>
    /\ b[i].op = "asm" => i = 1
    /\ b[i].op \in {"stackmap", "patchpoint"} => i = Len(b) - 1

SitesIsolated == ~Visiting => \A k \in 1..Len(blocks) : IsolatedIn(blocks[k])

(***************************************************************************)
(* The pass comes to an end although it visits the blocks it creates.      *)
(***************************************************************************)
PassEnds == <>(~Visiting)
=============================================================================
