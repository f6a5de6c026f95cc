----------------------------- MODULE Execution -----------------------------
(***************************************************************************)
(* The processor running the compiled program: its optimized code until a  *)
(* guard fails, and its unoptimized code after the handler has rewritten   *)
(* the call stack.  The stack and the segment built by the handler are     *)
(* words of memory; a word holds an address or the value of a variable.    *)
(* The compiled code itself comes from LLVM, which is external.            *)
(***************************************************************************)
EXTENDS Binary

CONSTANTS
  Programs,    \* the source programs considered
  StackTop,    \* the stack is words 1..StackTop
  MainBp,      \* base pointer of main
  LibcBp,      \* base pointer of main's caller
  HeapBase,    \* the segment is allocated from this address
  HeapWords,   \* words of the heap
  MaxDepth,    \* bound on the activations of the source program
  Junk         \* content of uninitialized memory

ASSUME MemoryAssumption ==
  /\ StackTop \in Nat
  /\ MainBp \in 1..StackTop
  /\ HeapBase \in Nat
  /\ HeapBase > StackTop
  /\ HeapWords \in Nat
  /\ MaxDepth \in Nat \ {0}

Stack == 1..StackTop
Heap  == HeapBase..(HeapBase + HeapWords - 1)

VARIABLES
  img,     \* the binary
  pc,      \* "opt", a point of the handler, "unopt", or how the run ended
  phys,    \* the frames of optimized code, main first
  mem,     \* the stack and the heap
  cpu,     \* rip, rbp, rsp and the other registers
  calls    \* number of calls made

machineVars == <<img, pc, phys, mem, cpu, calls>>

-----------------------------------------------------------------------------
(***************************************************************************)
(* Registers, by DWARF number: get_registers.  Optimized code keeps        *)
(* variables in the callee-saved registers R12 to R15, which libunwind     *)
(* recovers for every frame.                                               *)
(***************************************************************************)
REGISTER_COUNT == 16
RegNums == 0..(REGISTER_COUNT - 1)
RBP == 6
RSP == 7

InitialRegs == [d \in RegNums |-> 2000 + d]

\* mem with the words of a function f from addresses to values written to it.
Write(m, f) == [a \in DOMAIN m |-> IF a \in DOMAIN f THEN f[a] ELSE m[a]]

\* The values of the variables of f in its activation by the n-th call.
NewVals(f, n) ==
  [j \in 1..NumLocals(img.prog, f) |->
    IF img.prog.locals[f][j].opt = "constant" THEN ConstantOf(img.prog, f, j)
    ELSE 1000 + 10 * n + j]

-----------------------------------------------------------------------------
(***************************************************************************)
(* Optimized code.  A frame runs the activation of its function and those  *)
(* of the calls inlined in it, which have no frame of their own.           *)
(***************************************************************************)
Path(acts) == [k \in 1..Len(acts) |-> <<acts[k].fun, acts[k].at>>]

TopFrame == Last(phys)
TopAct   == Last(TopFrame.acts)
TopSite  == img.prog.body[TopAct.fun][TopAct.at]

\* The items of a frame's function, and the slots of its innermost activation.
ItemsOf(f) == CodeOf(img, "opt", f).items

\* acts with the innermost activation past its site.
Advanced(acts) == [acts EXCEPT ![Len(acts)].at = @ + 1]

\* The words that hold the variables of the innermost activation.
Slots(fun, bp, acts) ==
  LET act   == Last(acts)
      items == ItemsOf(fun)
      isDirect == {j \in 1..Len(act.vals) : img.prog.locals[act.fun][j].opt = "direct"}
      \* any path that ends in the activation names its block of slots
      slot  == [j \in isDirect |-> bp + OptOffset(img.prog, items, Path(acts), j)]
  IN  [a \in {slot[j] : j \in isDirect} |-> act.vals[CHOOSE j \in isDirect : slot[j] = a]]

InRegister(fun, acts, regs) ==
  LET act == Last(acts)
      d   == OptRegister(ItemsOf(fun), Path(acts))
      js  == {j \in 1..Len(act.vals) : img.prog.locals[act.fun][j].opt = "register"}
  IN  IF js = {} THEN regs ELSE [regs EXCEPT ![d] = act.vals[CHOOSE j \in js : TRUE]]

NewAct(f, n) == [fun |-> f, at |-> 1, vals |-> NewVals(f, n)]

NewFrame(f, n, bp, regs) ==
  LET acts == <<NewAct(f, n)>>
      rsp  == bp - (StackSize(img, f) - ADDR_SIZE)
  IN  [fun |-> f, bp |-> bp, acts |-> acts,
       regs |-> [InRegister(f, acts, regs) EXCEPT ![RBP] = bp, ![RSP] = rsp]]

Depth == Len(FlattenSeq([k \in 1..Len(phys) |-> phys[k].acts]))

AtOptSite == pc = "opt" /\ TopAct.at <= Len(img.prog.body[TopAct.fun])

OptCall ==
  /\ AtOptSite
  /\ TopSite.kind = "call"
  /\ Depth < MaxDepth
  /\ LET rsp   == TopFrame.regs[RSP]
         frame == NewFrame(TopSite.callee, calls + 1, rsp - 2, TopFrame.regs)
         back  == OptAddr(img, TopFrame.fun, Path(TopFrame.acts))
     IN  /\ phys' = Append(phys, frame)
         /\ mem' = [Write(mem, Slots(frame.fun, frame.bp, frame.acts)) EXCEPT
                      ![rsp - 1] = back, ![rsp - 2] = TopFrame.bp]
  /\ calls' = calls + 1
  /\ UNCHANGED <<img, pc, cpu>>

OptInlinedCall ==
  /\ AtOptSite
  /\ TopSite.kind = "inlined"
  /\ Depth < MaxDepth
  /\ LET acts == Append(TopFrame.acts, NewAct(TopSite.callee, calls + 1)) IN
       /\ phys' = [phys EXCEPT ![Len(phys)] =
            [fun |-> TopFrame.fun, bp |-> TopFrame.bp, acts |-> acts,
             regs |-> InRegister(TopFrame.fun, acts, TopFrame.regs)]]
       /\ mem' = Write(mem, Slots(TopFrame.fun, TopFrame.bp, acts))
  /\ calls' = calls + 1
  /\ UNCHANGED <<img, pc, cpu>>

\* A branch goes around a site.
OptBranch ==
  /\ AtOptSite
  /\ phys' = [phys EXCEPT ![Len(phys)].acts = Advanced(@)]
  /\ UNCHANGED <<img, pc, mem, cpu, calls>>

OptReturn ==
  /\ pc = "opt"
  /\ TopAct.at = Len(img.prog.body[TopAct.fun]) + 1
  /\ \/ /\ Len(TopFrame.acts) > 1
        /\ phys' = [phys EXCEPT ![Len(phys)].acts = Advanced(Front(@))]
        /\ pc' = pc
     \/ /\ Len(TopFrame.acts) = 1
        /\ Len(phys) > 1
        /\ phys' = LET below == Front(phys) IN
                   [below EXCEPT ![Len(below)].acts = Advanced(@)]
        /\ pc' = pc
     \/ /\ Len(TopFrame.acts) = 1
        /\ Len(phys) = 1
        /\ phys' = <<>>
        /\ pc' = "done"
  /\ UNCHANGED <<img, mem, cpu, calls>>

-----------------------------------------------------------------------------
(***************************************************************************)
(* Unoptimized code.  Every call is a patchpoint, so the return address of *)
(* site i is PATCHPOINT_CALL_SIZE bytes after it.                          *)
(***************************************************************************)
UnoptOf(a) ==
  FirstOf({k \in 1..Len(img.code) :
             /\ img.code[k].version = "unopt"
             /\ img.code[k].addr <= a
             /\ a < img.code[k].addr + img.code[k].len})

Nowhere == [fun |-> "none", at |-> NULL]

\* The function that contains address a, and the next site it runs from a on.
Running(a) ==
  LET c == img.code[UnoptOf(a)]
  IN  IF UnoptOf(a) = NULL THEN Nowhere
      ELSE [fun |-> c.fun, at |-> FirstOf({i \in 1..Len(c.off) : c.addr + c.off[i] >= a})]

\* The function to which a is a return address, and the site that called.
Calling(a) ==
  LET c == img.code[UnoptOf(a)]
  IN  IF UnoptOf(a) = NULL THEN Nowhere
      ELSE [fun |-> c.fun, at |-> FirstOf({i \in 1..Len(c.recs) :
                                      c.addr + c.off[i] + PATCHPOINT_CALL_SIZE = a})]

Now == Running(cpu.rip)

UnoptSite == img.prog.body[Now.fun][Now.at]

AtUnoptSite == pc = "unopt" /\ Now.at <= Len(img.prog.body[Now.fun])

\* Where unoptimized f keeps its variables.
LocalsOf(f) == CodeOf(img, "unopt", f).locals

InSlot(f) == {j \in 1..Len(LocalsOf(f)) : LocalsOf(f)[j].kind = "direct"}

UnoptSlot(f, bp, j) == bp + LocalsOf(f)[j].offset

UnoptSlots(f, bp, vals) ==
  LET slot == [j \in InSlot(f) |-> UnoptSlot(f, bp, j)]
  IN  [a \in {slot[j] : j \in InSlot(f)} |-> vals[CHOOSE j \in InSlot(f) : slot[j] = a]]

UnoptRegs(f, vals) ==
  LET js == {j \in 1..Len(vals) : LocalsOf(f)[j].kind = "register"}
  IN  IF js = {} THEN cpu.regs ELSE [cpu.regs EXCEPT ![RBX] = vals[CHOOSE j \in js : TRUE]]

(***************************************************************************)
(* The call stack found by following the saved base pointers, main first.  *)
(* It ends in Lost where an address is not one the program can return to.  *)
(***************************************************************************)
ValueAt(loc, bp) ==
  CASE loc.kind = "direct"   -> mem[bp + loc.offset]
    [] loc.kind = "constant" -> loc.offset
    [] loc.kind = "register" -> cpu.regs[loc.offset]

Lost == [fun |-> "lost", at |-> 0, vals |-> <<>>]

UnoptAct(where, bp) ==
  IF where.at = NULL \/ ~({bp, bp + ADDR_SIZE} \subseteq Stack) THEN Lost
  ELSE LET locals == LocalsOf(where.fun)
       IN  [fun |-> where.fun, at |-> where.at,
            vals |-> [j \in 1..Len(locals) |-> ValueAt(locals[j], bp)]]

UnoptStack ==
  LET Walk[d \in 0..(MaxDepth + 1), rip \in Nat, bp \in Nat] ==
        IF rip = LibcRet THEN <<>>
        ELSE LET act == UnoptAct(Calling(rip), bp) IN
             IF d = 0 \/ act = Lost THEN <<Lost>>
             ELSE Append(Walk[d - 1, mem[bp + ADDR_SIZE], mem[bp]], act)
      top == UnoptAct(Now, cpu.rbp)
  IN  IF top = Lost THEN <<Lost>>
      ELSE Append(Walk[MaxDepth + 1, mem[cpu.rbp + ADDR_SIZE], mem[cpu.rbp]], top)

UnoptCall ==
  /\ AtUnoptSite
  /\ UnoptSite.kind \in {"call", "inlined"}
  /\ Len(UnoptStack) < MaxDepth
  /\ LET f    == UnoptSite.callee
         vals == NewVals(f, calls + 1)
         bp   == cpu.rsp - 2
     IN  /\ mem' = [Write(mem, UnoptSlots(f, bp, vals)) EXCEPT
                      ![cpu.rsp - 1] = UnoptAddr(img, Now.fun, Now.at) + PATCHPOINT_CALL_SIZE,
                      ![bp] = cpu.rbp]
         /\ cpu' = [rip |-> UnoptAddr(img, f, 1), rbp |-> bp,
                    rsp |-> bp - (StackSize(img, f) - ADDR_SIZE),
                    regs |-> UnoptRegs(f, vals)]
  /\ calls' = calls + 1
  /\ UNCHANGED <<img, pc, phys>>

\* A branch goes around a site, or the patchpoint of a guard does nothing.
UnoptAdvance ==
  /\ AtUnoptSite
  /\ cpu' = [cpu EXCEPT !.rip = UnoptAddr(img, Now.fun, Now.at + 1)]
  /\ UNCHANGED <<img, pc, phys, mem, calls>>

(***************************************************************************)
(* The epilogue adds the frame size to rsp, pops rbp and returns.          *)
(***************************************************************************)
UnoptReturn ==
  /\ pc = "unopt"
  /\ Now.at = Len(img.prog.body[Now.fun]) + 1
  /\ LET sp == cpu.rsp + StackSize(img, Now.fun) - ADDR_SIZE IN
     IF {sp, sp + ADDR_SIZE} \subseteq Stack
     THEN /\ cpu' = [cpu EXCEPT !.rip = mem[sp + ADDR_SIZE], !.rbp = mem[sp], !.rsp = sp + 2]
          /\ pc' = IF mem[sp + ADDR_SIZE] = LibcRet THEN "done"
                   ELSE IF UnoptOf(mem[sp + ADDR_SIZE]) = NULL THEN "crashed"
                   ELSE "unopt"
     ELSE pc' = "crashed" /\ UNCHANGED cpu
  /\ UNCHANGED <<img, phys, mem, calls>>

-----------------------------------------------------------------------------

InitMachine ==
  /\ \E p \in Programs : img = Image(p)
  /\ pc = "opt"
  /\ calls = 0
  /\ phys = <<NewFrame("main", 0, MainBp, InitialRegs)>>
  /\ mem = [Write([a \in Stack \cup Heap |-> Junk], Slots("main", MainBp, phys[1].acts))
              EXCEPT ![MainBp] = LibcBp, ![MainBp + ADDR_SIZE] = LibcRet]
  /\ cpu = [rip |-> 0, rbp |-> 0, rsp |-> 0, regs |-> InitialRegs]

OptStep == OptCall \/ OptInlinedCall \/ OptBranch \/ OptReturn

UnoptStep == UnoptAdvance \/ UnoptReturn \/ UnoptCall
=============================================================================
