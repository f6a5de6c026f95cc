--------------------------- MODULE LiveVariables ---------------------------
(***************************************************************************)
(* What the function passes do to the code of one function and of its      *)
(* clone: CheckPointPass marks the sites, then LiveVariablesPass adds the  *)
(* live variables to every stackmap and patchpoint call, in the order of   *)
(* the code.  The handler copies the i-th location of a site in optimized  *)
(* code to the i-th location of its twin, so both must record the same     *)
(* variables in the same order.                                            *)
(*                                                                         *)
(* A function is a control flow graph over blocks 1..n, of which 1 is the  *)
(* entry, and a sequence of instructions for each block.  An instruction   *)
(* has the value it defines, the values it uses, and the number of the     *)
(* call or return of the source that it marks.  CloneFunction gives the    *)
(* clone the same code, and both are still as clang emitted them.          *)
(***************************************************************************)
EXTENDS Integers, Sequences, SequencesExt, Graphs

CONSTANTS
  Functions,   \* the functions considered
  None         \* the value of an instruction that defines none

Versions == {"opt", "unopt"}

VARIABLES
  fn,        \* the function: its graph cfg, its code, and whether it has the guard
  version,   \* the version being compiled
  phase,     \* "checkpoint", "live" or "done"
  code,      \* its code
  next,      \* position of the next instruction in it
  records    \* the locations passed to the sites of each version, by site

vars == <<fn, version, phase, code, next, records>>

-----------------------------------------------------------------------------
(***************************************************************************)
(* Dominance: DominatorTree::dominates, for blocks and for instructions.   *)
(* A position is a block and an index in it.                               *)
(***************************************************************************)
Entry == 1

Without(cfg, b) ==
  [node |-> cfg.node \ {b}, edge |-> {e \in cfg.edge : e[1] # b /\ e[2] # b}]

Reachable(cfg, b) == ConnectionsIn(cfg)[Entry, b]

BlockDominates(cfg, a, b) ==
  \/ a = b
  \/ a = Entry
  \/ ~ConnectionsIn(Without(cfg, a))[Entry, b]

\* Which blocks dominate which, and which are reachable.
Dominators(cfg) ==
  [reachable |-> {b \in cfg.node : Reachable(cfg, b)},
   dom |-> {p \in cfg.node \X cfg.node : BlockDominates(cfg, p[1], p[2])}]

Dominates(DT, def, user) ==
  \/ user[1] \notin DT.reachable
  \/ /\ def[1] \in DT.reachable
     /\ def # user
     /\ IF def[1] = user[1] THEN def[2] < user[2] ELSE <<def[1], user[1]>> \in DT.dom

Positions(c) == UNION {{<<b, i>> : i \in 1..Len(c[b])} : b \in 1..Len(c)}

At(c, p) == c[p[1]][p[2]]

producesStackmapRecords(ins) == ins.op \in {"stackmap", "patchpoint"}

Users(c, v) == {p \in Positions(c) : v \in At(c, p).uses}

-----------------------------------------------------------------------------
(***************************************************************************)
(* CheckPointPass::runOnFunction, as far as values are concerned.  In a    *)
(* clone a call becomes a patchpoint, whose i64 result is converted to the *)
(* type of the call unless it has it already: the uses of the call are now *)
(* uses of the converted value.                                            *)
(***************************************************************************)
Raw(v)     == <<"i64", v>>
Pointer(v) == <<"ptr", v>>

Instr(op, val, uses, at) == [op |-> op, val |-> val, uses |-> uses, at |-> at]

Asm(ins) == Instr("asm", None, {}, ins.at)

Converted(ins) ==
  CASE ins.ty \in {"void", "i64"} -> <<>>
    [] ins.ty = "int"   -> <<Instr("trunc", ins.val, {Raw(ins.val)}, ins.at)>>
    [] ins.ty = "float" -> <<Instr("inttoptr", Pointer(ins.val), {Raw(ins.val)}, ins.at),
                             Instr("load", ins.val, {Pointer(ins.val)}, ins.at)>>

PatchpointFor(ins) ==
  Instr("patchpoint", IF ins.ty \in {"int", "float"} THEN Raw(ins.val) ELSE ins.val,
        ins.uses, ins.at)

Marked(v, hasGuard, ins) ==
  CASE ins.op \in {"ret", "retconst"} /\ hasGuard ->
         <<Instr("patchpoint", None, {}, ins.at), ins>>
    [] ins.op = "call" /\ v = "opt" ->
         <<Asm(ins), ins, Instr("stackmap", None, {}, ins.at)>>
    [] ins.op = "call" /\ v = "unopt" ->
         <<Asm(ins), PatchpointFor(ins)>> \o Converted(ins)
    [] OTHER -> <<ins>>

CheckPointed(v, f) ==
  [b \in 1..Len(f.code) |->
    FlattenSeq([i \in 1..Len(f.code[b]) |-> Marked(v, f.hasGuard, f.code[b][i])])]

(***************************************************************************)
(* The code that clang gives to the passes: every value has one definition *)
(* and is defined above its uses, none is one of those that the pass will  *)
(* make, and calls and returns are numbered.                               *)
(***************************************************************************)
DefsDominateUses(c, cfg) ==
  LET DT == Dominators(cfg) IN
  \A p \in Positions(c) : At(c, p).val # None =>
    \A u \in Users(c, At(c, p).val) : Dominates(DT, p, u)

ASSUME FunctionsAssumption ==
  \A f \in Functions :
    /\ f.code \in Seq(ToSet(f.code))
    /\ \A b \in 1..Len(f.code) : f.code[b] \in Seq(ToSet(f.code[b]))
    /\ f.hasGuard \in BOOLEAN
    /\ DefsDominateUses(f.code, f.cfg)
    /\ \A p \in Positions(f.code) :
         LET ins == At(f.code, p) IN
         /\ ~producesStackmapRecords(ins)
         /\ ins.op \in {"ret", "retconst"} => ins.val = None
         /\ ins.op = "call" =>
              /\ ins.ty \in {"void", "i64", "int", "float"}
              /\ ins.ty \in {"int", "float"} => ins.val # None
         /\ \A q \in Positions(f.code) :
              /\ ins.val = At(f.code, q).val /\ ins.val # None => p = q
              /\ {Raw(At(f.code, q).val), Pointer(At(f.code, q).val)}
                   \cap ({ins.val} \cup ins.uses) = {}
              /\ /\ {ins.op, At(f.code, q).op} \subseteq {"call", "ret", "retconst"}
                 /\ ins.at = At(f.code, q).at
                 => p = q

CheckPointPass ==
  /\ phase = "checkpoint"
  /\ code' = CheckPointed(version, fn)
  /\ phase' = "live"
  /\ next' = <<1, 1>>
  /\ UNCHANGED <<fn, version, records>>

-----------------------------------------------------------------------------
(***************************************************************************)
(* getLiveRegisters: the values defined above instr and used by something  *)
(* that is not above it, and the constants that the function returns, each *)
(* followed by its size.                                                   *)
(***************************************************************************)
\* The mutant does not ask whether the value is defined above.
Defined_mutant(DT, def, instr) == def # instr

Defined(DT, def, instr) == Dominates(DT, def, instr)

\* The mutant wants all uses below.
UsedBelow_mutant(c, DT, v, instr) == \A u \in Users(c, v) : ~Dominates(DT, u, instr)

UsedBelow(c, DT, v, instr) == \E u \in Users(c, v) : ~Dominates(DT, u, instr)

Pair(v) == <<<<"value", v>>, <<"size", v>>>>

LocationsFor(c, DT, p, instr) ==
  LET ins == At(c, p) IN
  IF ins.val # None /\ Users(c, ins.val) # {} /\ Defined(DT, p, instr)
  THEN IF UsedBelow(c, DT, ins.val, instr) THEN Pair(ins.val) ELSE <<>>
  ELSE IF ins.op = "retconst" THEN Pair(<<"const", ins.at>>)
  ELSE <<>>

getLiveRegisters(c, cfg, instr) ==
  LET DT == Dominators(cfg) IN
  FlattenSeq([b \in 1..Len(c) |->
    FlattenSeq([i \in 1..Len(c[b]) |-> LocationsFor(c, DT, <<b, i>>, instr)])])

(***************************************************************************)
(* A stackmap call describes the state at the call before it; the mutant   *)
(* takes the state at the stackmap call itself.                            *)
(***************************************************************************)
LivePoint_mutant(c, p) == p

LivePoint(c, p) ==
  IF At(c, p).op = "stackmap" /\ p[2] > 1 THEN <<p[1], p[2] - 1>> ELSE p

\* The values among the locations, which become arguments of the new call.
Values(locs) == {l[2] : l \in {x \in ToSet(locs) : x[1] = "value" /\ x[2][1] # "const"}}

\* The two loops of runOnFunction, over blocks and over the instructions of one.
InFunction == next[1] <= Len(code)
InBlock    == InFunction /\ next[2] <= Len(code[next[1]])

Ins == At(code, next)

\* The records with the locations of one more site.
WithRecord(R, at, locs) == [a \in DOMAIN R \cup {at} |-> IF a = at THEN locs ELSE R[a]]

VisitSite ==
  /\ phase = "live"
  /\ InBlock
  /\ producesStackmapRecords(Ins)
  /\ LET live == getLiveRegisters(code, fn.cfg, LivePoint(code, next))
     IN  /\ code' = [code EXCEPT ![next[1]][next[2]].uses = @ \cup Values(live)]
         /\ records' = [records EXCEPT ![version] = WithRecord(@, Ins.at, live)]
  /\ next' = <<next[1], next[2] + 1>>
  /\ UNCHANGED <<fn, version, phase>>

VisitOther ==
  /\ phase = "live"
  /\ InBlock
  /\ ~producesStackmapRecords(Ins)
  /\ next' = <<next[1], next[2] + 1>>
  /\ UNCHANGED <<fn, version, phase, code, records>>

EndBlock ==
  /\ phase = "live"
  /\ InFunction /\ ~InBlock
  /\ next' = <<next[1] + 1, 1>>
  /\ UNCHANGED <<fn, version, phase, code, records>>

\* The clone is compiled after the function.
EndFunction ==
  /\ phase = "live"
  /\ ~InFunction
  /\ \/ /\ version = "opt"
        /\ version' = "unopt"
        /\ phase' = "checkpoint"
     \/ /\ version = "unopt"
        /\ phase' = "done"
        /\ UNCHANGED version
  /\ UNCHANGED <<fn, code, next, records>>

Init ==
  /\ fn \in Functions
  /\ version = "opt"
  /\ phase = "checkpoint"
  /\ code = fn.code
  /\ next = <<1, 1>>
  /\ records = [v \in Versions |-> <<>>]

Terminated == phase = "done" /\ UNCHANGED vars

Next == CheckPointPass \/ VisitSite \/ VisitOther \/ EndBlock \/ EndFunction \/ Terminated

Spec == Init /\ [][Next]_vars

-----------------------------------------------------------------------------
(***************************************************************************)
(* A site of a function and its twin in the clone record the same variables *)
(* in the same order, each with its size, although a call and its result   *)
(* are other instructions in the clone and every record adds uses to the   *)
(* code the next one is computed from.  get_locations asserts that both    *)
(* have equally many locations, and restore_unopt_stack pairs them by      *)
(* position.                                                               *)
(***************************************************************************)
SameLocations == phase = "done" => records["opt"] = records["unopt"]

(***************************************************************************)
(* The code stays valid: every value is defined before each of its uses,   *)
(* those as arguments of stackmap and patchpoint calls included.           *)
(***************************************************************************)
CodeValid == DefsDominateUses(code, fn.cfg)

(***************************************************************************)
(* The reference: a value is live at a site of the source if some use can  *)
(* be reached from the site without passing the definition of the value.   *)
(* A call has been made when its activation goes on, while the return of a *)
(* guard is still to come.                                                 *)
(***************************************************************************)
InstrGraph(f) ==
  LET P == Positions(f.code)
      IsLast(p) == p[2] = Len(f.code[p[1]])
  IN  [node |-> P,
       edge |-> {e \in P \X P :
                  \/ e[1][1] = e[2][1] /\ e[2][2] = e[1][2] + 1
                  \/ IsLast(e[1]) /\ e[2][2] = 1 /\ <<e[1][1], e[2][1]>> \in f.cfg.edge}]

LiveAt(f, p) ==
  LET G    == InstrGraph(f)
      from == IF At(f.code, p).op = "call" THEN Successors(G, p) ELSE {p}
  IN  {At(f.code, d).val : d \in {q \in G.node \ {p} :
         LET H == Without(G, q)
             R == ConnectionsIn(H)
         IN  /\ At(f.code, q).val # None
             /\ \E s \in from \cap H.node :
                  \E u \in Users(f.code, At(f.code, q).val) \cap H.node : R[s, u]}}

SiteOf(f, at) == CHOOSE p \in Positions(f.code) : At(f.code, p).at = at

(***************************************************************************)
(* Every variable that is live at a site is passed to it, so that the      *)
(* handler restores it (LiveVariablesPass.cpp, its first comment).  A site *)
(* that cannot be reached never runs.                                      *)
(***************************************************************************)
LiveRecorded ==
  phase = "done" =>
    \A v \in Versions : \A at \in DOMAIN records[v] :
      LET site == SiteOf(fn, at) IN
      Reachable(fn.cfg, site[1]) => LiveAt(fn, site) \subseteq Values(records[v][at])

(***************************************************************************)
(* The same for functions without loops: above and below a site, as        *)
(* getLiveRegisters understands them, are then before and after it.        *)
(***************************************************************************)
LiveRecordedWithoutLoops == HasCycle(fn.cfg) \/ LiveRecorded
=============================================================================
