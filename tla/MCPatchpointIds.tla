-------------------------- MODULE MCPatchpointIds --------------------------
(***************************************************************************)
(* Every module of three functions whose bodies have at most two           *)
(* instructions: calls to a function of the module or to an external one,  *)
(* and a return, which is a guard in "more_indirection".                   *)
(***************************************************************************)
EXTENDS PatchpointIds

Call(f) == [op |-> "call", callee |-> f]
Ret     == [op |-> "ret", callee |-> External]

MCFunctions == {"more_indirection", "get_number", "main"}
MCGuardFuns == {"more_indirection"}

Calls == {Call(f) : f \in MCFunctions \ {"main"}} \cup {Call(External)}

Bodies ==
  {<<Ret>>} \cup {<<c, Ret>> : c \in Calls}
            \cup {<<c, d, Ret>> : c \in Calls, d \in Calls}

Orders == {<<"more_indirection", "get_number", "main">>,
           <<"main", "more_indirection", "get_number">>}

MCModules ==
  {[order |-> o,
    body  |-> [f \in MCFunctions |->
                 IF f = "more_indirection" THEN b
                 ELSE IF f = "get_number" THEN c ELSE d]] :
     o \in Orders, b \in {<<Ret>>, <<Call("get_number"), Ret>>},
     c \in Bodies, d \in Bodies}

-----------------------------------------------------------------------------
(***************************************************************************)
(* The IDs that end up in the optimized functions are those the model of   *)
(* the binary gives to their sites, so what is shown of the runtime with   *)
(* that model is about the IDs that CheckPointPass makes.                  *)
(***************************************************************************)
B == INSTANCE Binary WITH Gap <- 1, CodeBase <- 100, LibcRet <- 50

IdsAsInBinary ==
  phase = "done" =>
    LET opt == [f \in Functions |-> stackMaps[<<"opt", f>>]] IN
    \A f \in Functions : \A i \in 1..Len(opt[f]) :
      opt[f][i] = B!PatchpointId([order |-> mod.order, body |-> opt], f, i)
=============================================================================
