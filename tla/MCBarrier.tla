----------------------------- MODULE MCBarrier -----------------------------
(***************************************************************************)
(* Functions of two blocks with up to three pieces of code: a call with    *)
(* its asm block and its site, the same after inlining of the callee, a    *)
(* call in a clone, a guard, and anything else.                            *)
(***************************************************************************)
EXTENDS Barrier

Pieces ==
  {<<"other">>, <<"patchpoint">>, <<"asm", "patchpoint">>,
   <<"asm", "call", "stackmap">>,
   <<"asm", "stackmap">>, <<"asm", "other", "stackmap">>,
   <<"asm", "asm", "call", "stackmap", "stackmap">>}

Pieced(n) == {FlattenSeq(p) : p \in SeqOf(Pieces, n)}

Numbered(base, ops) == [i \in 1..Len(ops) |-> [op |-> ops[i], id |-> base + i]]

MCFunctions ==
  {<<Numbered(0, Append(a, "br")), Numbered(100, Append(b, "ret"))>> :
     a \in Pieced(3), b \in Pieced(1)}
=============================================================================
