------------------------------- MODULE Binary -------------------------------
(***************************************************************************)
(* The binary that the passes, clang -O3 and llc make of a source program: *)
(* the code layout of the optimized and unoptimized functions, their stack *)
(* maps and their frames.  The inliner and the code generator are external *)
(* to the repository; they are modelled by what the runtime relies on.     *)
(*                                                                         *)
(* A source program is a record                                            *)
(*   order   the functions in the order of the source file;                *)
(*   body    for each function, its sites in program order: a site is a    *)
(*           guard or a call, and a call may be inlined by the optimizer;  *)
(*   locals  for each function, where its live variables are in the        *)
(*           optimized and in the unoptimized code.                        *)
(* The inliner works bottom-up, so an inlined copy of a function has the   *)
(* same inlined calls as the function itself.                              *)
(***************************************************************************)
EXTENDS StackMap, SequencesExt

CONSTANTS
  Gap,        \* bytes of code between the shadow of a site and the next site
  CodeBase,   \* address of the first function
  LibcRet     \* address in libc to which main returns

ASSUME LayoutAssumption ==
  /\ Gap \in Nat
  /\ LibcRet \in Nat \ {0}
  /\ CodeBase \in Nat
  /\ CodeBase > LibcRet

PATCHPOINT_CALL_SIZE == 13
ADDR_SIZE == 1     \* the stack is addressed in words

CallSize     == 5
PrologueSize == 4
EpilogueSize == 2

IsGuard(site)   == site.kind = "guard"
IsInlined(site) == site.kind = "inlined"

-----------------------------------------------------------------------------
(***************************************************************************)
(* The sites in the optimized code of each function.  An item has the path *)
(* of inlined calls that leads to its site: <<s>> is a site of the         *)
(* function itself, <<c, s>> the copy of site s inlined at call c.  An     *)
(* inlined body is followed by the stackmap call of the inlined call site. *)
(***************************************************************************)
Items(p) ==
  LET SiteItems(f, i, callee_items) ==
        LET site == p.body[f][i]
            own  == [path |-> <<<<f, i>>>>, kind |-> site.kind]
            copy == [k \in 1..Len(callee_items) |->
                      [callee_items[k] EXCEPT !.path = <<<<f, i>>>> \o @]]
        IN  IF IsInlined(site) THEN Append(copy, own) ELSE <<own>>
      Expand[d \in 0..Len(p.order)] ==
        [f \in DOMAIN p.body |->
          FlattenSeq([i \in 1..Len(p.body[f]) |->
            SiteItems(f, i,
              IF d > 0 /\ IsInlined(p.body[f][i])
              THEN Expand[d - 1][p.body[f][i].callee] ELSE <<>>)])]
  IN  Expand[Len(p.order)]

\* Bytes of code of an item, and the offset in them its record describes.
ItemSize(item) ==
  (IF item.kind = "call" THEN CallSize ELSE 0) + PATCHPOINT_CALL_SIZE + Gap

RecordOffset(item) == IF item.kind = "call" THEN CallSize ELSE 0

\* Offsets[k] is the offset of item k; the last one is that of the epilogue.
Offsets(items) ==
  LET off[k \in 1..(Len(items) + 1)] ==
        IF k = 1 THEN PrologueSize ELSE off[k - 1] + ItemSize(items[k - 1])
  IN  [k \in 1..(Len(items) + 1) |-> off[k]]

CodeSize(items) == Last(Offsets(items)) + EpilogueSize

-----------------------------------------------------------------------------
(***************************************************************************)
(* Frames.  Every activation inlined in a frame has a block of slots below *)
(* the base pointer; the unoptimized function keeps its own variables at   *)
(* the other end of the frame.  The custom llc gives both versions of a    *)
(* function the same frame size, which counts the saved base pointer.      *)
(***************************************************************************)
NumLocals(p, f) == Len(p.locals[f])

InlinedPaths(items) ==
  LET calls == SelectSeq(items, LAMBDA it : it.kind = "inlined")
  IN  [k \in 1..Len(calls) |-> calls[k].path]

BlockSize(p) == Max({NumLocals(p, f) : f \in DOMAIN p.body})

LocalWords(p, items) == BlockSize(p) * (1 + Len(InlinedPaths(items))) + 1

FrameSize(p, items) == LocalWords(p, items) + 1

\* The block of the activation that executes the site at the end of a path.
Block(items, path) ==
  LET paths == InlinedPaths(items)
  IN  IF Len(path) = 1 THEN 0
      ELSE CHOOSE k \in 1..Len(paths) : paths[k] = Front(path)

OptOffset(p, items, path, j) == -(Block(items, path) * BlockSize(p) + j)

UnoptOffset(p, items, j) == -(LocalWords(p, items) + 1 - j)

\* The value of a variable that the optimizer proved to be constant.
ConstantOf(p, f, j) == 900 + 10 * SelectInSeq(p.order, LAMBDA g : g = f) + j

\* Optimized code keeps variables in the callee-saved registers from R12 on.
RBX == 3
R12 == 12

OptRegister(items, path) == R12 + (Block(items, path) % 4)

\* A location; offset is an offset, a register number or a constant.
Location(kind, slot, reg, constant) ==
  [kind   |-> kind,
   offset |-> CASE kind = "direct"   -> slot
                [] kind = "register" -> reg
                [] kind = "constant" -> constant
                [] kind = "indirect" -> slot]

-----------------------------------------------------------------------------
(***************************************************************************)
(* The ID that getNextPatchpointID gives to site i of f: IDs count up from *)
(* 1, and one ID is left out at the first site of each further function.   *)
(***************************************************************************)
PatchpointId(p, f, i) ==
  LET Before(acc, g) ==
        IF acc.found \/ g = f THEN [acc EXCEPT !.found = TRUE]
        ELSE IF p.body[g] = <<>> THEN acc
        ELSE [acc EXCEPT !.n = @ + Len(p.body[g]) + 1]
  IN  FoldLeft(Before, [n |-> 0, found |-> FALSE], p.order).n + i

OptRecord(p, items, k, off) ==
  LET path == items[k].path
      f    == Last(path)[1]
  IN  [patchpoint_id |-> PatchpointId(p, f, Last(path)[2]),
       instr_offset  |-> off[k] + RecordOffset(items[k]),
       locations     |-> [j \in 1..NumLocals(p, f) |->
         Location(p.locals[f][j].opt, OptOffset(p, items, path, j),
                  OptRegister(items, path), ConstantOf(p, f, j))]]

\* The variables of unoptimized f; they do not move.
UnoptLocals(p, f, items) ==
  [j \in 1..NumLocals(p, f) |->
    Location(p.locals[f][j].unopt, UnoptOffset(p, items, j), RBX, ConstantOf(p, f, j))]

UnoptRecord(p, f, i, off, items) ==
  [patchpoint_id |-> Negate(PatchpointId(p, f, i)),
   instr_offset  |-> off[i],
   locations     |-> UnoptLocals(p, f, items)]

\* In unoptimized code every site is a patchpoint.
UnoptItems(p, f) ==
  [i \in 1..Len(p.body[f]) |-> [path |-> <<<<f, i>>>>, kind |-> "patchpoint"]]

(***************************************************************************)
(* The image of a program.  code lists, in the order of the binary, every  *)
(* function with its address, the offset of each site and its records.     *)
(***************************************************************************)
Code(p) ==
  LET all == Items(p)
      Opt(f) ==
        LET items == all[f]  off == Offsets(items)
        IN  [version |-> "opt", fun |-> f, items |-> items, off |-> off,
             len |-> CodeSize(items), stack_size |-> FrameSize(p, items), locals |-> <<>>,
             recs |-> [k \in 1..Len(items) |-> OptRecord(p, items, k, off)]]
      Unopt(f) ==
        LET items == UnoptItems(p, f)  off == Offsets(items)
        IN  [version |-> "unopt", fun |-> f, items |-> items, off |-> off,
             len |-> CodeSize(items), stack_size |-> FrameSize(p, all[f]),
             locals |-> UnoptLocals(p, f, all[f]),
             recs |-> [i \in 1..Len(items) |-> UnoptRecord(p, f, i, off, all[f])]]
      n == Len(p.order)
      list == [k \in 1..(2 * n) |->
                IF k <= n THEN Opt(p.order[k]) ELSE Unopt(p.order[k - n])]
      addr[k \in 1..(2 * n)] ==
        IF k = 1 THEN CodeBase ELSE addr[k - 1] + list[k - 1].len
  IN  [k \in 1..(2 * n) |-> list[k] @@ [addr |-> addr[k]]]

Image(p) ==
  LET code    == Code(p)
      mapped  == SelectSeq(code, LAMBDA c : c.recs # <<>>)
      index   == [v \in {"opt", "unopt"} |-> [f \in DOMAIN p.body |->
                   SelectInSeq(code, LAMBDA c : c.version = v /\ c.fun = f)]]
  IN  [prog  |-> p,
       code  |-> code,
       index |-> index,
       sm    |-> [funcs |-> [k \in 1..Len(mapped) |->
                              [fun_addr     |-> mapped[k].addr,
                               stack_size   |-> mapped[k].stack_size,
                               record_count |-> Len(mapped[k].recs)]],
                  recs  |-> FlattenSeq([k \in 1..Len(mapped) |-> mapped[k].recs]),
                  syms  |-> [k \in 1..Len(code) |->
                              [value |-> code[k].addr, size |-> code[k].len]]]]

-----------------------------------------------------------------------------

CodeOf(img, v, f) == img.code[img.index[v][f]]

\* The address of the record of the site at the end of a path in optimized f.
OptAddr(img, f, path) ==
  LET c == CodeOf(img, "opt", f)
      k == SelectInSeq(c.items, LAMBDA it : it.path = path)
  IN  c.addr + c.recs[k].instr_offset

\* The address of site i of unoptimized f, or of its epilogue.
UnoptAddr(img, f, i) ==
  LET c == CodeOf(img, "unopt", f) IN c.addr + c.off[i]

StackSize(img, f) == CodeOf(img, "opt", f).stack_size
=============================================================================
