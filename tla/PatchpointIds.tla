--------------------------- MODULE PatchpointIds ---------------------------
(***************************************************************************)
(* The part of the compile-time pipeline that gives every call site and    *)
(* every guard its patchpoint ID: UnoptimizedCopyPass clones each function *)
(* of the module, then clang runs CheckPointPass and UnoptimizedCopyPass   *)
(* on one function after the other, in the order of the module's list.     *)
(*                                                                         *)
(* The runtime finds the unoptimized twin of a site by negating its ID,    *)
(* and finds the next site of a function by counting IDs down, so it       *)
(* depends on how IDs of different functions relate.                       *)
(***************************************************************************)
EXTENDS Integers, Sequences

CONSTANTS
  Functions,   \* the functions defined in the source module
  GuardFuns,   \* those whose name ends with "more_indirection"
  External,    \* stands for any callee the passes skip
  Modules,     \* the source modules considered
  IdSpace,     \* number of values of a uint64_t ID
  MaxSites     \* bound on the sites of the source module

Instructions == [op : {"call", "ret", "other"}, callee : Functions \cup {External}]

(***************************************************************************)
(* A source module: the list of its functions and their instructions.      *)
(***************************************************************************)
SourceModule(m) ==
  /\ m.order \in Seq(Functions)
  /\ \A f \in Functions : \E i \in 1..Len(m.order) : m.order[i] = f
  /\ \A i, j \in 1..Len(m.order) : m.order[i] = m.order[j] => i = j
  /\ m.body \in [Functions -> Seq(Instructions)]

ASSUME ModuleAssumption ==
  /\ External \notin Functions
  /\ GuardFuns \subseteq Functions
  /\ \A m \in Modules : SourceModule(m)

ASSUME IdAssumption ==
  /\ MaxSites \in Nat
  /\ IdSpace \in Nat
  /\ IdSpace > 4 * MaxSites + 4

(***************************************************************************)
(* A function name is a version and a source function: <<"unopt", f>> is   *)
(* the name of f with the prefix "__unopt_".                               *)
(***************************************************************************)
Names == {"opt", "unopt"} \X Functions

GuardHandler == <<"ext", "__guard_failure">>
NoCallback   == <<"ext", "null">>

Targets == Names \cup {GuardHandler, NoCallback}

(***************************************************************************)
(* A stackmap or patchpoint call in the output: the instruction of the     *)
(* source it marks, its ID, and the function called at this site.          *)
(***************************************************************************)
SiteRecords ==
  [at : Nat, id : Nat, kind : {"stackmap", "patchpoint"}, target : Targets]

VARIABLES
  mod,         \* the module being compiled
  phase,       \* "init", "run" or "done"
  funs,        \* the function list of the module
  cur,         \* position in funs of the function being compiled
  pos,         \* position in its body of the next instruction
  stackMaps,   \* CheckPointPass::stackMaps; <<>> for a name without entry
  sites,       \* the stackmap/patchpoint calls inserted in each function
  allocated    \* number of IDs given to sites of optimized functions

vars == <<mod, phase, funs, cur, pos, stackMaps, sites, allocated>>

-----------------------------------------------------------------------------

TwinVersion(v) == IF v = "unopt" THEN "opt" ELSE "unopt"

getTwinName(name) == <<TwinVersion(name[1]), name[2]>>

\* The bitwise complement of a uint64_t; the mutant keeps the ID signed.
Negate_mutant(id) == -1 - id

Negate(id) == IdSpace - 1 - id

HasEntry(name) == stackMaps[name] # <<>>

LastIdOf(name) == stackMaps[name][Len(stackMaps[name])]

(***************************************************************************)
(* The last IDs of all entries, and the greatest one: std::max_element.    *)
(***************************************************************************)
LastIds == {LastIdOf(name) : name \in {n \in Names : HasEntry(n)}}

MaxLastId == CHOOSE m \in LastIds : \A k \in LastIds : k <= m

(***************************************************************************)
(* Mutants of getNextPatchpointID: no gap before a new function; minus     *)
(* instead of complement; no complement; a different first ID.             *)
(***************************************************************************)
IsNewFunction_mutant(name) == FALSE

MutantId(first, name, twin_id) ==
  IF \A n \in Names : ~HasEntry(n) THEN first
  ELSE IF ~HasEntry(getTwinName(name)) THEN (MaxLastId + 1) % IdSpace
  ELSE twin_id

TwinId(name) == stackMaps[getTwinName(name)][Len(stackMaps[name]) + 1]

BaseId_minus_mutant(name) == MutantId(0, name, IdSpace - TwinId(name))
BaseId_same_mutant(name)  == MutantId(0, name, TwinId(name))
BaseId_first_mutant(name) == MutantId(1, name, Negate(TwinId(name)))

BaseId(name) ==
  IF \A n \in Names : ~HasEntry(n) THEN 0
  ELSE IF ~HasEntry(getTwinName(name)) THEN (MaxLastId + 1) % IdSpace
  ELSE Negate(TwinId(name))

IsNewFunction(name) == ~HasEntry(name) /\ ~HasEntry(getTwinName(name))

getNextPatchpointID(name) ==
  IF IsNewFunction(name) THEN (BaseId(name) + 1) % IdSpace ELSE BaseId(name)

-----------------------------------------------------------------------------

Init ==
  /\ mod \in Modules
  /\ phase = "init"
  /\ funs = [i \in 1..Len(mod.order) |-> <<"opt", mod.order[i]>>]
  /\ cur = 1
  /\ pos = 1
  /\ stackMaps = [n \in Names |-> <<>>]
  /\ sites = [n \in Names |-> <<>>]
  /\ allocated = 0

(***************************************************************************)
(* CloneFunction appends the clone to the function list while the list is  *)
(* being traversed, so the clones of all functions follow the originals.   *)
(* The mutant inserts each clone before its original.                      *)
(***************************************************************************)
Clones == [i \in 1..Len(funs) |-> getTwinName(funs[i])]

FunctionsAfterCloning_mutant ==
  [i \in 1..(2 * Len(funs)) |->
    IF i % 2 = 0 THEN funs[i \div 2] ELSE getTwinName(funs[(i + 1) \div 2])]

FunctionsAfterCloning == funs \o Clones

doInitialization ==
  /\ phase = "init"
  /\ phase' = "run"
  /\ funs' = FunctionsAfterCloning
  /\ UNCHANGED <<mod, cur, pos, stackMaps, sites, allocated>>

FunName == funs[cur]

Body == mod.body[FunName[2]]

Visiting == phase = "run" /\ cur <= Len(funs) /\ pos <= Len(Body)

IsGuardSite(f, ins) == f \in GuardFuns /\ ins.op = "ret"

IsCallSite(ins) == ins.op = "call" /\ ins.callee # External

IsSite(f, ins) == IsGuardSite(f, ins) \/ IsCallSite(ins)

(***************************************************************************)
(* Insert a stackmap/patchpoint call for the instruction at pos.           *)
(***************************************************************************)
Record(kind, target) ==
  LET id == getNextPatchpointID(FunName) IN
  /\ FunName[1] = "opt" => allocated < MaxSites
  /\ stackMaps' = [stackMaps EXCEPT ![FunName] = Append(@, id)]
  /\ sites' = [sites EXCEPT ![FunName] =
       Append(@, [at |-> pos, id |-> id, kind |-> kind, target |-> target])]
  /\ allocated' = IF FunName[1] = "opt" THEN allocated + 1 ELSE allocated
  /\ pos' = pos + 1
  /\ UNCHANGED <<mod, phase, funs, cur>>

(***************************************************************************)
(* The guard of an optimized function calls the handler; in an unoptimized *)
(* function the patchpoint has no callback.                                *)
(***************************************************************************)
GuardCallback(name) == IF name[1] = "opt" THEN GuardHandler ELSE NoCallback

VisitGuard ==
  /\ Visiting
  /\ IsGuardSite(FunName[2], Body[pos])
  /\ Record("patchpoint", GuardCallback(FunName))

(***************************************************************************)
(* A call in an optimized function is followed by a stackmap call; in an   *)
(* unoptimized function it becomes a patchpoint whose callback is the      *)
(* unoptimized version of the callee.                                      *)
(***************************************************************************)
VisitCall ==
  /\ Visiting
  /\ IsCallSite(Body[pos])
  /\ ~IsGuardSite(FunName[2], Body[pos])
  /\ \/ /\ FunName[1] = "opt"
        /\ Record("stackmap", <<"opt", Body[pos].callee>>)
     \/ /\ FunName[1] = "unopt"
        /\ Record("patchpoint", getTwinName(<<"opt", Body[pos].callee>>))

VisitOther ==
  /\ Visiting
  /\ ~IsSite(FunName[2], Body[pos])
  /\ pos' = pos + 1
  /\ UNCHANGED <<mod, phase, funs, cur, stackMaps, sites, allocated>>

(***************************************************************************)
(* UnoptimizedCopyPass::runOnFunction, the last function pass: the         *)
(* callbacks of an unoptimized function that are neither the handler nor   *)
(* already unoptimized are replaced by their twins.                        *)
(***************************************************************************)
Retarget(name, s) ==
  IF name[1] = "unopt" /\ s.kind = "patchpoint" /\ s.target[1] = "opt"
  THEN [s EXCEPT !.target = getTwinName(s.target)]
  ELSE s

EndFunction ==
  /\ phase = "run"
  /\ cur <= Len(funs)
  /\ pos = Len(Body) + 1
  /\ sites' = [sites EXCEPT ![FunName] =
       [i \in 1..Len(@) |-> Retarget(FunName, @[i])]]
  /\ cur' = cur + 1
  /\ pos' = 1
  /\ UNCHANGED <<mod, phase, funs, stackMaps, allocated>>

Finish ==
  /\ phase = "run"
  /\ cur = Len(funs) + 1
  /\ phase' = "done"
  /\ UNCHANGED <<mod, funs, cur, pos, stackMaps, sites, allocated>>

Terminated == phase = "done" /\ UNCHANGED vars

Next ==
  \/ doInitialization
  \/ VisitGuard
  \/ VisitCall
  \/ VisitOther
  \/ EndFunction
  \/ Finish
  \/ Terminated

Spec == Init /\ [][Next]_vars

-----------------------------------------------------------------------------
(***************************************************************************)
(* Types: IDs are values of a uint64_t, and each name of the list is an    *)
(* optimized or unoptimized function.                                      *)
(***************************************************************************)
TypeOK ==
  /\ mod \in Modules
  /\ phase \in {"init", "run", "done"}
  /\ funs \in Seq(Names)
  /\ cur \in 1..(Len(funs) + 1)
  /\ pos \in Nat \ {0}
  /\ stackMaps \in [Names -> Seq(0..(IdSpace - 1))]
  /\ sites \in [Names -> Seq(SiteRecords)]
  /\ allocated \in 0..MaxSites

(***************************************************************************)
(* When compilation ends, the i-th site of a function and the i-th site of *)
(* its clone mark the same instruction, their IDs are each other's         *)
(* negation, the clone calls the clone of what the original calls, and     *)
(* the handler is only called by optimized code.  __guard_failure,         *)
(* stmap_get_unopt_return_addr and get_restored_state negate IDs on the    *)
(* strength of this.                                                       *)
(***************************************************************************)
PairedSite(o, u) ==
  /\ u.at = o.at
  /\ u.id = Negate(o.id)
  /\ u.target = IF o.target = GuardHandler THEN NoCallback ELSE getTwinName(o.target)

SitesPaired ==
  phase = "done" =>
    \A f \in Functions :
      LET opt   == sites[<<"opt", f>>]
          unopt == sites[<<"unopt", f>>]
      IN  /\ Len(opt) = Len(unopt)
          /\ \A i \in 1..Len(opt) : PairedSite(opt[i], unopt[i])

(***************************************************************************)
(* No two sites of the module, optimized or not, have the same ID:         *)
(* stmap_get_map_record(~id) has one answer.                               *)
(***************************************************************************)
UniqueIds ==
  \A m, n \in Names :
    \A i \in 1..Len(stackMaps[m]), j \in 1..Len(stackMaps[n]) :
      stackMaps[m][i] = stackMaps[n][j] => m = n /\ i = j

(***************************************************************************)
(* Counting down from an ID of a function, as get_next_patchpoint does,    *)
(* meets the function's own sites in order and then an ID nobody has: the  *)
(* gap left by the increment at a function's first ID.                     *)
(***************************************************************************)
CountingDownStaysInFunction ==
  \A f \in Functions :
    LET own == stackMaps[<<"opt", f>>] IN
    \A i \in 1..Len(own) :
      /\ i > 1 => own[i - 1] = own[i] - 1
      /\ i = 1 => \A n \in Names : \A j \in 1..Len(stackMaps[n]) :
                    stackMaps[n][j] # own[1] - 1

(***************************************************************************)
(* An ID is read from the twin's vector only at an index it has:           *)
(* stackMaps[twinFun][lastIndex] in getNextPatchpointID is never past the  *)
(* end, which in C++ would be undefined behaviour.                         *)
(***************************************************************************)
TwinIdExists ==
  (Visiting /\ FunName[1] = "unopt" /\ IsSite(FunName[2], Body[pos])) =>
    Len(stackMaps[FunName]) < Len(stackMaps[getTwinName(FunName)])
=============================================================================
