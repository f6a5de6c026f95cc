-------------------------- MODULE MCHandlerMemory --------------------------
(***************************************************************************)
(* The handler on stacks of up to four frames, with any sizes of five      *)
(* frames to build, and with one or two variables in any places.  No part  *)
(* reads what the others compute, so one of the three varies at a time.    *)
(*                                                                         *)
(* collect_inlined_frames is right if only its last iteration inserts      *)
(* frames: MCInlinedBelowMain shows what happens otherwise.                *)
(***************************************************************************)
EXTENDS HandlerMemory, MCLocationValues

MCStacks ==
  UNION {{[depth |-> d, inlinedAt |-> a, guardInlined |-> g, num_rec |-> r] :
            a \in {{}} \cup {{k} : k \in {d - 1} \ {0}}, g \in BOOLEAN, r \in {2, 4}} : d \in 1..4}

\* One variable on the stack, and two that change places.
FewSites ==
  {<<Var(2, Loc("DIRECT", 0), Loc("DIRECT", 4))>>,
   <<Var(2, Loc("DIRECT", 0), Loc("DIRECT", 2)), Var(2, Loc("DIRECT", 2), Loc("DIRECT", 0))>>}

SmallestStack(guardInlined) ==
  [depth |-> 1, inlinedAt |-> {}, guardInlined |-> guardInlined, num_rec |-> 2]

FewSizes == {[k \in Frames |-> 2]}

MCMemoryInit ==
  /\ \/ shape \in Stacks /\ site \in FewSites /\ size \in FewSizes
     \/ shape = SmallestStack(TRUE) /\ site \in FewSites /\ size \in [Frames -> Sizes]
     \/ shape = SmallestStack(FALSE) /\ size \in FewSizes
  /\ MemoryInit

MCMemorySpec == MCMemoryInit /\ [][MemoryNext]_memoryVars
=============================================================================
