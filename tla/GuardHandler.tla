---------------------------- MODULE GuardHandler ----------------------------
(***************************************************************************)
(* The handler __guard_failure (guard.c, call_stack_state.c, jump.s),      *)
(* composed with the program whose guard fails.  The handler finds the     *)
(* site at which each activation is, builds the call stack that the        *)
(* unoptimized code would have, and jumps into the unoptimized code.       *)
(*                                                                         *)
(* The array frames of call_stack_state_t is a sequence: frames[1] is      *)
(* state->frames[0], the frame of the function that called the handler,    *)
(* and the last one is the frame of main.                                  *)
(***************************************************************************)
EXTENDS Execution

CONSTANTS
  HandlerFrame,   \* words below the base pointer of __guard_failure
  JumpFrame       \* words of stack that a call of jump_inlined takes

ASSUME HandlerAssumption ==
  /\ HandlerFrame \in Nat
  /\ JumpFrame \in Nat \ {0}

VARIABLES
  sm_id,     \* argument of __guard_failure
  ret,       \* its return address
  frames,    \* state->frames
  copy,      \* state_copy->frames in collect_inlined_frames
  idx,       \* loop counter of the handler, from 1
  inlined,   \* did inlining happen?
  locs,      \* the values read by get_locations, frame by frame
  seg,       \* the restored segment
  r          \* the register array read by jump.s

failVars    == <<sm_id, ret>>
handlerVars == <<frames, copy, idx, inlined, locs, seg, r>>
vars        == <<machineVars, failVars, handlerVars>>

sm == img.sm

-----------------------------------------------------------------------------
(***************************************************************************)
(* The patchpoint of a guard calls the handler, which looks up the records *)
(* of the guard and reads the call stack: get_call_stack_state.            *)
(***************************************************************************)
get_call_stack_state ==
  [k \in 1..Len(phys) |->
    LET f == phys[Len(phys) + 1 - k] IN
    [ret_addr |-> f.bp + ADDR_SIZE, stored_ret_addr |-> mem[f.bp + ADDR_SIZE],
     size |-> Junk, bp |-> f.bp, real_bp |-> f.bp, registers |-> f.regs,
     record |-> NULL, real_record |-> NULL, inlined |-> FALSE]]

GuardFailure ==
  /\ AtOptSite
  /\ TopSite.kind = "guard"
  /\ LET rsp == TopFrame.regs[RSP]
         id  == PatchpointId(img.prog, TopAct.fun, TopAct.at)
         opt   == stmap_get_map_record(sm, id)
         unopt == stmap_get_map_record(sm, Negate(id))
         back  == OptAddr(img, TopFrame.fun, Path(TopFrame.acts)) + PATCHPOINT_CALL_SIZE
     IN  /\ sm_id' = id
         /\ ret' = back
         /\ mem' = [mem EXCEPT ![rsp - 1] = back, ![rsp - 2] = TopFrame.bp]
         /\ cpu' = [cpu EXCEPT !.rbp = rsp - 2, !.rsp = rsp - 2 - HandlerFrame]
         /\ frames' = get_call_stack_state
         /\ pc' = IF opt = NULL \/ unopt = NULL THEN "exited" ELSE "collect"
  /\ idx' = 1
  /\ UNCHANGED <<img, calls, phys, copy, inlined, locs, seg, r>>

-----------------------------------------------------------------------------

\* The loops of the handler run over all frames but the last one, main's.
LastIdx == Len(frames) - 1

\* The handler ends by errx, or by undefined behaviour that stops the program.
Stop(how) == pc' = how /\ UNCHANGED <<mem, frames, copy, idx, inlined>>

(***************************************************************************)
(* collect_map_records, for one frame: find the site in the caller from    *)
(* the return address, and redirect the return address to the unoptimized  *)
(* call of that site.                                                      *)
(***************************************************************************)
CollectRecord(i, unopt) ==
  LET id   == Negate(sm.recs[unopt].patchpoint_id)
      opt  == stmap_get_map_record(sm, id)
      real == stmap_get_map_record_after_addr(sm, id, frames[i].stored_ret_addr)
  IN  IF real = NULL THEN Stop("crashed")
      ELSE /\ mem' = [mem EXCEPT ![frames[i].ret_addr] =
                        AddrOf(sm, unopt) + PATCHPOINT_CALL_SIZE]
           /\ frames' = [frames EXCEPT ![i] = [frames[i] EXCEPT
                !.record = opt, !.real_record = real,
                !.size = sm.funcs[stmap_get_size_record(sm, opt)].stack_size]]
           /\ idx' = idx + 1
           /\ UNCHANGED <<pc, copy, inlined>>

collect_map_records ==
  /\ pc = "collect"
  /\ idx <= LastIdx
  /\ LET unopt == stmap_get_unopt_return_addr(sm, mem[frames[idx].ret_addr]) IN
       IF unopt = NoPosition THEN Stop("crashed")
       ELSE IF unopt = NotFound THEN Stop("exited")
       ELSE CollectRecord(idx, unopt)
  /\ UNCHANGED <<img, calls, failVars, phys, cpu, locs, seg, r>>

\* get_state_copy copies the pointer to the frames and the depth.
CollectMapRecordsEnd ==
  /\ pc = "collect"
  /\ idx > LastIdx
  /\ pc' = "inline"
  /\ idx' = 1
  /\ inlined' = FALSE
  /\ copy' = [shared |-> TRUE, old |-> <<>>, depth |-> Len(frames)]
  /\ UNCHANGED <<img, calls, failVars, phys, mem, cpu, frames, locs, seg, r>>

-----------------------------------------------------------------------------
(***************************************************************************)
(* get_restored_state: the records found from start_addr on become frames  *)
(* of inlined functions.  Their real_bp and registers are set by the       *)
(* caller.                                                                 *)
(***************************************************************************)
get_restored_state(start_addr, ppid, real_bp, registers) ==
  LET recs == RestoredRecords(sm, start_addr, ppid) IN
  [k \in 1..Len(recs) |->
    LET id    == sm.recs[recs[k]].patchpoint_id
        unopt == stmap_get_map_record(sm, Negate(id))
    IN  [ret_addr |-> AddrOf(sm, unopt) + PATCHPOINT_CALL_SIZE,
         stored_ret_addr |-> Junk,
         size |-> sm.funcs[stmap_get_size_record(sm, unopt)].stack_size,
         bp |-> Junk, real_bp |-> real_bp, registers |-> registers,
         record |-> recs[k],
         real_record |-> stmap_get_map_record_after_addr(sm, id, start_addr),
         inlined |-> TRUE]]

insert_frames(s, index, new) ==
  SubSeq(s, 1, index) \o new \o SubSeq(s, index + 1, Len(s))

(***************************************************************************)
(* What state_copy->frames holds.  It is the array of state itself, until  *)
(* the realloc of insert_frames moves the array: then it is freed memory,  *)
(* which keeps its content until it is allocated again.                    *)
(***************************************************************************)
CopyOf(k) == IF copy.shared THEN frames[k] ELSE copy.old[k]

Garbage == [k \in 1..Len(frames) |-> [frames[k] EXCEPT !.record = NULL]]

realloc_frames ==
  \/ copy' = copy
  \/ copy.shared /\ copy' = [copy EXCEPT !.shared = FALSE, !.old = frames]
  \/ copy.shared /\ copy' = [copy EXCEPT !.shared = FALSE, !.old = Garbage]

(***************************************************************************)
(* collect_inlined_frames, for one frame: if it does not return into the   *)
(* function of its record, the call was inlined, and the frames up to the  *)
(* next site of the function it was inlined in are added.                  *)
(***************************************************************************)
CollectInlined(frame, caller) ==
  LET next_addr == frame.stored_ret_addr + PATCHPOINT_CALL_SIZE + 1
      size_rec  == stmap_get_size_record_in_func(sm, get_sym_start(sm, next_addr))
  IN  IF size_rec = NULL THEN Stop("crashed")
      ELSE LET addr == sm.funcs[size_rec].fun_addr + sm.recs[frame.record].instr_offset
               last_ppid == get_next_patchpoint(sm, addr, size_rec)
           IN  /\ frames' = insert_frames(frames, idx,
                    get_restored_state(next_addr, last_ppid, caller.real_bp,
                                       caller.registers))
               /\ realloc_frames
               /\ inlined' = TRUE
               /\ idx' = idx + 1
               /\ UNCHANGED <<pc, mem>>

collect_inlined_frames ==
  /\ pc = "inline"
  /\ idx < copy.depth
  /\ LET frame == CopyOf(idx) IN
       IF frame.record = NULL THEN Stop("crashed")
       ELSE IF InFunction(sm, frame.stored_ret_addr, FunAddrOf(sm, frame.record))
       THEN idx' = idx + 1 /\ UNCHANGED <<pc, mem, frames, copy, inlined>>
       ELSE CollectInlined(frame, CopyOf(idx + 1))
  /\ UNCHANGED <<img, calls, failVars, phys, cpu, locs, seg, r>>

CollectInlinedFramesEnd ==
  /\ pc = "inline"
  /\ idx >= copy.depth
  /\ pc' = "fail"
  /\ idx' = 1
  /\ copy' = [copy EXCEPT !.shared = FALSE, !.old = <<>>]
  /\ UNCHANGED <<img, calls, failVars, phys, mem, cpu, frames, inlined, locs, seg, r>>

-----------------------------------------------------------------------------
(***************************************************************************)
(* The frame of the function in which the guard failed, and the frames of  *)
(* the functions it was inlined in.                                        *)
(***************************************************************************)
FailFrame(is_inlined) ==
  LET opt   == stmap_get_map_record(sm, sm_id)
      unopt == stmap_get_map_record(sm, Negate(sm_id))
  IN  [ret_addr |-> AddrOf(sm, opt), stored_ret_addr |-> 0,
       size |-> sm.funcs[stmap_get_size_record(sm, unopt)].stack_size,
       bp |-> frames[1].real_bp, real_bp |-> frames[1].real_bp,
       registers |-> frames[1].registers, record |-> opt, real_record |-> opt,
       inlined |-> is_inlined]

InsertFailFrame ==
  /\ pc = "fail"
  /\ IF InFunction(sm, ret, FunAddrOf(sm, stmap_get_map_record(sm, sm_id)))
     THEN /\ frames' = insert_frames(frames, 0, <<FailFrame(FALSE)>>)
          /\ pc' = IF inlined THEN "segment" ELSE "read"
          /\ UNCHANGED <<mem, copy, idx, inlined>>
     ELSE LET size_rec == stmap_get_size_record_in_func(sm, get_sym_start(sm, ret)) IN
          IF size_rec = NULL THEN Stop("crashed")
          ELSE LET next_ppid == get_next_patchpoint(sm, ret, size_rec)
                   restored  == get_restored_state(ret, next_ppid, frames[1].real_bp,
                                                   frames[1].registers)
               IN  /\ frames' = insert_frames(insert_frames(frames, 0, restored), 0,
                                              <<FailFrame(TRUE)>>)
                   /\ inlined' = TRUE
                   /\ pc' = "segment"
                   /\ UNCHANGED <<mem, copy, idx>>
  /\ UNCHANGED <<img, calls, failVars, phys, cpu, locs, seg, r>>

-----------------------------------------------------------------------------
(***************************************************************************)
(* The segment.  SegmentBp[k] is the base pointer of frame k if the frames *)
(* are laid out from address start on.                                     *)
(***************************************************************************)
SegmentBp(start, k) ==
  LET bp[n \in 1..k] ==
        IF n = 1 THEN start + frames[1].size - ADDR_SIZE
        ELSE bp[n - 1] + frames[n].size + ADDR_SIZE
  IN  bp[k]

get_total_stack_size ==
  LET total[k \in 0..LastIdx] ==
        IF k = 0 THEN 0 ELSE total[k - 1] + frames[k].size + ADDR_SIZE
  IN  total[LastIdx]

\* The return address that insert_real_addresses stores in frame k.
ReturnAddress_mutant(k) ==
  IF frames[k].inlined THEN frames[k].ret_addr ELSE mem[frames[k].ret_addr]

ReturnAddress(k) ==
  IF frames[k + 1].inlined THEN frames[k + 1].ret_addr ELSE mem[frames[k + 1].ret_addr]

insert_real_addresses ==
  LET start   == HeapBase
      bp      == [k \in 1..LastIdx |-> SegmentBp(start, k)]
      main    == frames[Len(frames)]
      main_bp == main.registers[RBP]
      links   == [a \in {bp[k] : k \in 1..(LastIdx - 1)} |->
                   bp[1 + CHOOSE k \in 1..LastIdx : bp[k] = a]]
      returns == [a \in {bp[k] + ADDR_SIZE : k \in 1..LastIdx} |->
                   ReturnAddress(CHOOSE k \in 1..LastIdx : bp[k] + ADDR_SIZE = a)]
      junk    == [a \in Heap |-> Junk]
  IN  /\ frames' = [k \in 1..Len(frames) |->
                     IF k <= LastIdx
                     THEN [frames[k] EXCEPT !.bp = bp[k], !.ret_addr = bp[k] + ADDR_SIZE]
                     ELSE frames[k]]
      /\ mem' = [Write(Write(Write(mem, junk), returns), links) EXCEPT
                   ![main.ret_addr] = mem[main_bp + ADDR_SIZE], ![main.bp] = main_bp]

BuildSegment ==
  /\ pc = "segment"
  /\ seg' = [start_addr |-> HeapBase, total_size |-> get_total_stack_size]
  /\ insert_real_addresses
  /\ pc' = "read"
  /\ UNCHANGED <<img, calls, failVars, phys, cpu, copy, idx, inlined, locs, r>>

-----------------------------------------------------------------------------
(***************************************************************************)
(* restore_unopt_stack: get_locations reads the live variables of all      *)
(* frames, then they are written to the places where the unoptimized code  *)
(* expects them.  The variables of frame k are read relative to the        *)
(* real_bp of frame k + 1 and with the registers of frame k.               *)
(***************************************************************************)
stmap_get_location_value(loc, registers, bp) ==
  CASE loc.kind = "register" -> registers[loc.offset]
    [] loc.kind = "direct"   -> mem[bp + loc.offset]
    [] loc.kind = "constant" -> loc.offset

LocationsOf(rec) == sm.recs[rec].locations

OptLocations(k) == LocationsOf(frames[k].real_record)

UnoptLocations(k) ==
  LocationsOf(stmap_get_map_record(sm, Negate(sm.recs[frames[k].record].patchpoint_id)))

OfKind(locations, kind) == {j \in 1..Len(locations) : locations[j].kind = kind}

ReadBase_mutant(k) == frames[k].bp

ReadBase(k) == frames[k + 1].real_bp

get_locations ==
  /\ pc = "read"
  /\ IF \E k \in 1..LastIdx : Len(OptLocations(k)) # Len(UnoptLocations(k))
     THEN pc' = "crashed" /\ UNCHANGED locs
     ELSE IF \E k \in 1..LastIdx : OfKind(OptLocations(k), "indirect") # {}
     THEN pc' = "exited" /\ UNCHANGED locs
     ELSE /\ locs' = [k \in 1..LastIdx |-> [j \in 1..Len(OptLocations(k)) |->
                       stmap_get_location_value(OptLocations(k)[j],
                                                frames[k].registers, ReadBase(k))]]
          /\ pc' = "restore"
  /\ idx' = 1
  /\ UNCHANGED <<img, calls, failVars, phys, mem, cpu, frames, copy, inlined, seg, r>>

\* The mutant places the variables relative to the stack pointer.
RestoreBase_mutant(k) == frames[k].registers[RSP]

\* This one takes the frame that an inlined function had in the optimized code.
RestoreBase_real_mutant(k) == frames[k].real_bp

RestoreBase(k) == frames[k].bp

\* The locations that are written to the stack.
DirectLocations(loc) == OfKind(loc, "direct")

RestoreFrame ==
  /\ pc = "restore"
  /\ idx <= LastIdx
  /\ LET loc  == UnoptLocations(idx)
         slot == [j \in DirectLocations(loc) |-> RestoreBase(idx) + loc[j].offset]
         inRegister == OfKind(loc, "register")
     IN  /\ mem' = Write(mem, [a \in {slot[j] : j \in DOMAIN slot} |->
                                locs[idx][CHOOSE j \in DOMAIN slot : slot[j] = a]])
         /\ frames' = [frames EXCEPT ![idx].registers =
                        [d \in RegNums |->
                          IF \E j \in inRegister : loc[j].offset = d
                          THEN locs[idx][CHOOSE j \in inRegister : loc[j].offset = d]
                          ELSE @[d]]]
  /\ pc' = IF OfKind(UnoptLocations(idx), "indirect") # {} THEN "exited" ELSE pc
  /\ idx' = idx + 1
  /\ UNCHANGED <<img, calls, failVars, phys, cpu, copy, inlined, locs, seg, r>>

restore_register_state ==
  /\ pc = "restore"
  /\ idx > LastIdx
  /\ r' = frames[1].registers
  /\ pc' = IF inlined THEN "jump_inlined" ELSE "jmp_to_addr"
  /\ cpu' = [cpu EXCEPT !.rip = AddrOf(sm, stmap_get_map_record(sm, Negate(sm_id))),
                        !.rsp = IF inlined THEN @ - JumpFrame ELSE @]
  /\ UNCHANGED <<img, calls, failVars, phys, mem, frames, copy, idx, inlined, locs, seg>>

-----------------------------------------------------------------------------
(***************************************************************************)
(* jump.s loads the registers from r in the order of their encoding in     *)
(* machine code, while r is in DWARF order.                                *)
(***************************************************************************)
LoadSlot(d) ==
  CASE d = 1 -> 2      \* rdx is loaded from r+0x10
    [] d = 2 -> 1      \* rcx is loaded from r+0x8
    [] d = 4 -> 6      \* rsi is loaded from r+0x30
    [] d = 5 -> 7      \* rdi is loaded from r+0x38
    [] OTHER -> d

\* The mutant forgets the last register.
LoadRegisters_mutant == [d \in RegNums \ {15} |-> r[LoadSlot(d)]]

LoadRegisters == [d \in RegNums |-> r[LoadSlot(d)]]

\* The handler forgets its state.
Resume ==
  /\ pc' = "unopt"
  /\ phys' = <<>>
  /\ frames' = <<>>
  /\ locs' = <<>>
  /\ idx' = 1
  /\ UNCHANGED <<img, calls, failVars, copy, inlined, seg, r>>

\* Drop the frame of __guard_failure and go on with that of its caller.
jmp_to_addr ==
  /\ pc = "jmp_to_addr"
  /\ cpu' = [cpu EXCEPT !.rbp = mem[cpu.rbp], !.rsp = cpu.rbp + 2, !.regs = LoadRegisters]
  /\ mem' = mem
  /\ Resume

main_bp_of_state == frames[Len(frames)].registers[RBP]

\* The mutant compares with the base pointer of main instead of rsp.
MustGrow_mutant == main_bp_of_state - seg.total_size < main_bp_of_state

MustGrow == main_bp_of_state - seg.total_size < cpu.rsp

\* jump_inlined calls itself to grow the stack, which may run out.
GrowStack ==
  /\ pc = "jump_inlined"
  /\ MustGrow
  /\ cpu' = [cpu EXCEPT !.rsp = @ - JumpFrame]
  /\ pc' = IF cpu.rsp - JumpFrame \in Stack THEN pc ELSE "overflow"
  /\ UNCHANGED <<img, calls, failVars, phys, mem, handlerVars>>

\* Relocate the saved base pointers, and copy the segment over the stack.
RestoredBp(k) == SegmentBp(main_bp_of_state, k)

\* The mutant counts the saved base pointer twice.
RestoredRsp_mutant == RestoredBp(1) - frames[1].size

RestoredRsp == RestoredBp(1) - (frames[1].size - ADDR_SIZE)

LinkedSegment ==
  Write(mem, [a \in {frames[k].bp : k \in 1..(LastIdx - 1)} |->
               RestoredBp(1 + CHOOSE k \in 1..LastIdx : frames[k].bp = a)])

jump_inlined ==
  /\ pc = "jump_inlined"
  /\ ~MustGrow
  /\ LET main_bp == main_bp_of_state
         target  == main_bp..(main_bp + seg.total_size - 1)
     IN  IF target \subseteq Stack
         THEN /\ mem' = [a \in DOMAIN mem |->
                          IF a \in target THEN LinkedSegment[seg.start_addr + (a - main_bp)]
                          ELSE IF a \in Heap THEN Junk ELSE mem[a]]
              /\ cpu' = [cpu EXCEPT !.rbp = RestoredBp(1),
                          !.rsp = RestoredRsp,
                          !.regs = LoadRegisters]
              /\ Resume
         ELSE /\ pc' = "crashed"
              /\ UNCHANGED <<img, calls, failVars, phys, mem, cpu, handlerVars>>

-----------------------------------------------------------------------------

Init ==
  /\ InitMachine
  /\ sm_id = 0
  /\ ret = 0
  /\ frames = <<>>
  /\ copy = [shared |-> FALSE, old |-> <<>>, depth |-> 0]
  /\ idx = 1
  /\ inlined = FALSE
  /\ locs = <<>>
  /\ seg = [start_addr |-> 0, total_size |-> 0]
  /\ r = InitialRegs

ProgramStep == (OptStep \/ UnoptStep) /\ UNCHANGED <<failVars, handlerVars>>

HandlerStep ==
  \/ collect_map_records \/ CollectMapRecordsEnd
  \/ collect_inlined_frames \/ CollectInlinedFramesEnd
  \/ InsertFailFrame \/ BuildSegment
  \/ get_locations \/ RestoreFrame \/ restore_register_state
  \/ jmp_to_addr \/ GrowStack \/ jump_inlined

Ended == pc \in {"done", "exited", "crashed", "overflow"} /\ UNCHANGED vars

Next == ProgramStep \/ GuardFailure \/ HandlerStep \/ Ended

Spec == Init /\ [][Next]_vars

(***************************************************************************)
(* The process goes on from the failure of the guard to the end of main:   *)
(* the handler is sequential code that waits for nothing and that nothing  *)
(* runs beside, and then the processor runs the unoptimized code, which    *)
(* has no loops and recurses to MaxDepth at most.  This is weak fairness   *)
(* of Next at these points with its enabling condition written out, since  *)
(* a step is possible at each of them.  Nothing is assumed of the          *)
(* optimized code, whose guard need not fail.                              *)
(***************************************************************************)
HandlerPoints ==
  {"collect", "inline", "fail", "segment", "read", "restore", "jmp_to_addr", "jump_inlined"}

GoesOn == pc \in HandlerPoints \cup {"unopt"}

Fairness == []<>~GoesOn \/ []<><<GoesOn>>_<<pc, idx, cpu>>

FairSpec == Spec /\ Fairness

-----------------------------------------------------------------------------
(***************************************************************************)
(* What the handler needs of a binary b.  Every part of this is about the  *)
(* binary alone: what the lookups find in its stack map, where its code    *)
(* keeps variables and how much stack there is.                            *)
(*                                                                         *)
(* A site of optimized code is denoted by its path, as in Items.           *)
(***************************************************************************)
SitePaths(b, f) == {it.path : it \in Range(CodeOf(b, "opt", f).items)}

SiteOf(b, w) == b.prog.body[Last(w)[1]][Last(w)[2]]

IdAt(b, s) == PatchpointId(b.prog, s[1], s[2])

\* The functions that have frames of their own: the least set that has main
\* and the functions called in it.
CallsStayIn(b, F) ==
  /\ "main" \in F
  /\ \A f \in F : \A w \in SitePaths(b, f) :
       SiteOf(b, w).kind = "call" => SiteOf(b, w).callee \in F

FunctionsRun(b) ==
  {f \in DOMAIN b.prog.body :
     \A F \in SUBSET DOMAIN b.prog.body : CallsStayIn(b, F) => f \in F}

ProgramOK(b) ==
  /\ "main" \in DOMAIN b.prog.body
  /\ \A f \in DOMAIN b.prog.body :
       LET sites == b.prog.body[f] IN
       /\ Len(sites) \in Nat
       /\ \A i \in 1..Len(sites) :
            ~IsGuard(sites[i]) => sites[i].callee \in DOMAIN b.prog.body \ {"main"}

\* Optimized code has a copy of every site that can be reached in it.
CodeOK(b) ==
  \A f \in FunctionsRun(b) :
    /\ \A i \in 1..Len(b.prog.body[f]) : <<<<f, i>>>> \in SitePaths(b, f)
    /\ \A w \in SitePaths(b, f) : IsInlined(SiteOf(b, w)) =>
         LET g == SiteOf(b, w).callee IN
         \A i \in 1..Len(b.prog.body[g]) : Append(w, <<g, i>>) \in SitePaths(b, f)

\* The paths of the activations that can start in a frame of f.
EntryPaths(b, f) ==
  {<<<<f, 1>>>>} \cup
  {Append(w, <<SiteOf(b, w).callee, 1>>) :
     w \in {v \in SitePaths(b, f) : IsInlined(SiteOf(b, v))}}

\* Variables are kept inside the frame and not in rbp or rsp.
FramesOK(b) ==
  /\ \A f \in DOMAIN b.prog.body :
       StackSize(b, f) \in Nat \ {0} /\ NumLocals(b.prog, f) \in Nat
  /\ \A f \in FunctionsRun(b) : \A w \in EntryPaths(b, f) :
       LET items == CodeOf(b, "opt", f).items IN
       /\ OptRegister(items, w) \notin {RBP, RSP}
       /\ \A j \in 1..NumLocals(b.prog, Last(w)[1]) :
            OptOffset(b.prog, items, w, j) \in (1 - StackSize(b, f))..(-1)

\* The stack has room for MaxDepth frames on either side of main's base pointer.
RoomFor(b, size) ==
  /\ \A f \in DOMAIN b.prog.body : StackSize(b, f) <= size
  /\ MaxDepth * (size + 1) + 2 < MainBp
  /\ MainBp + MaxDepth * (size + 1) <= StackTop + 1

\* Where record i has variables on the stack.
StackOffsets(b, i) ==
  {b.sm.recs[i].locations[j].offset : j \in OfKind(b.sm.recs[i].locations, "direct")}

(***************************************************************************)
(* The first record with the ID of a site is in the function of the site,  *)
(* and so is the record of its twin, whose variables are inside the frame; *)
(* all records with that ID have as many locations as the twin.            *)
(***************************************************************************)
RecordOK(b, s) ==
  LET id    == IdAt(b, s)
      opt   == stmap_get_map_record(b.sm, id)
      unopt == stmap_get_map_record(b.sm, Negate(id))
  IN  /\ opt # NULL
      /\ unopt # NULL
      /\ \A i \in {opt, unopt} :
           b.sm.funcs[stmap_get_size_record(b.sm, i)].stack_size = StackSize(b, s[1])
      /\ StackOffsets(b, unopt) \subseteq (1 - StackSize(b, s[1]))..(-1)
      /\ \A i \in 1..Len(b.sm.recs) : b.sm.recs[i].patchpoint_id = id =>
           Len(b.sm.recs[i].locations) = Len(b.sm.recs[unopt].locations)

RecordsOK(b) ==
  \A f \in DOMAIN b.prog.body : \A i \in 1..Len(b.prog.body[f]) : RecordOK(b, <<f, i>>)

\* From start_addr on, the records of the calls at which the functions on
\* path w were inlined are found, the innermost first.
EnclosingFound(b, w, start_addr, ppid) ==
  LET recs == RestoredRecords(b.sm, start_addr, ppid) IN
  /\ Len(recs) = Len(w) - 1
  /\ \A k \in 1..Len(recs) :
       LET id == IdAt(b, w[Len(w) - k]) IN
       /\ b.sm.recs[recs[k]].patchpoint_id = id
       /\ stmap_get_map_record_after_addr(b.sm, id, start_addr) # NULL

\* What collect_map_records and collect_inlined_frames look up for a call.
CallOK(b, f, w) ==
  LET id    == IdAt(b, Last(w))
      back  == OptAddr(b, f, w)
      opt   == stmap_get_map_record(b.sm, id)
      unopt == stmap_get_unopt_return_addr(b.sm, back)
      next_addr == back + PATCHPOINT_CALL_SIZE + 1
      size_rec  == stmap_get_size_record_in_func(b.sm, get_sym_start(b.sm, next_addr))
      addr      == b.sm.funcs[size_rec].fun_addr + b.sm.recs[opt].instr_offset
  IN  /\ unopt \notin {NoPosition, NotFound}
      /\ Negate(b.sm.recs[unopt].patchpoint_id) = id
      /\ stmap_get_map_record_after_addr(b.sm, id, back) # NULL
      /\ InFunction(b.sm, back, FunAddrOf(b.sm, opt)) <=> Len(w) = 1
      /\ Len(w) > 1 =>
           /\ f = "main"
           /\ size_rec # NULL
           /\ EnclosingFound(b, w, next_addr, get_next_patchpoint(b.sm, addr, size_rec))

\* What the handler looks up for the guard that failed.
GuardOK(b, f, w) ==
  LET back == OptAddr(b, f, w) + PATCHPOINT_CALL_SIZE
      opt  == stmap_get_map_record(b.sm, IdAt(b, Last(w)))
      size_rec == stmap_get_size_record_in_func(b.sm, get_sym_start(b.sm, back))
  IN  /\ InFunction(b.sm, back, FunAddrOf(b.sm, opt)) <=> Len(w) = 1
      /\ Len(w) > 1 =>
           /\ size_rec # NULL
           /\ EnclosingFound(b, w, back, get_next_patchpoint(b.sm, back, size_rec))

LookupsOK(b) ==
  \A f \in FunctionsRun(b) : \A w \in SitePaths(b, f) :
    /\ SiteOf(b, w).kind = "call"  => CallOK(b, f, w)
    /\ SiteOf(b, w).kind = "guard" => GuardOK(b, f, w)

Supported(b) ==
  /\ ProgramOK(b) /\ CodeOK(b) /\ FramesOK(b) /\ RecordsOK(b) /\ LookupsOK(b)
  /\ \E size \in 1..StackTop : RoomFor(b, size)

(***************************************************************************)
(* The binaries give the handler what it needs: the lookups in stmap.c and *)
(* utils.c find the records that belong to a return address, for every     *)
(* site of the optimized code, whatever was inlined in it.  The binary     *)
(* never changes, so it is looked at while main has made no call.          *)
(***************************************************************************)
LookupsSupported == (pc = "opt" /\ calls = 0) => Supported(img)

(***************************************************************************)
(* What the handler needs to read the variables.  EntryAt(w, k) is the     *)
(* path of the k-th activation on path w when it starts, and VariablesAt   *)
(* lists the places where optimized f keeps the variables of an activation *)
(* that starts on path v.                                                  *)
(***************************************************************************)
EntryAt(w, k) == [n \in 1..k |-> <<w[n][1], IF n = k THEN 1 ELSE w[n][2]>>]

VariablesAt(b, f, v) ==
  LET items == CodeOf(b, "opt", f).items
      g     == Last(v)[1]
  IN  [j \in 1..NumLocals(b.prog, g) |->
        Location(b.prog.locals[g][j].opt, OptOffset(b.prog, items, v, j),
                 OptRegister(items, v), ConstantOf(b.prog, g, j))]

\* One value would overwrite the other.
Clash(l1, l2) ==
  l1.kind = l2.kind /\ l1.kind \in {"direct", "register"} /\ l1.offset = l2.offset

\* The variables of an activation have places of their own in its frame.
VariablesApart(b, f, v) ==
  LET own == VariablesAt(b, f, EntryAt(v, Len(v))) IN
  \A k \in 1..Len(v) : LET other == VariablesAt(b, f, EntryAt(v, k)) IN
    \A i \in 1..Len(own) : \A j \in 1..Len(other) :
      Clash(own[i], other[j]) => k = Len(v) /\ i = j

\* A callee uses no register in which its caller keeps a variable.
CallSaves(b, f, w) ==
  LET g   == SiteOf(b, w).callee
      own == VariablesAt(b, f, EntryAt(w, Len(w)))
  IN  \A v \in EntryPaths(b, g) : LET other == VariablesAt(b, g, v) IN
        \A i \in 1..Len(own) : \A j \in 1..Len(other) :
          own[i].kind = "register" => ~Clash(own[i], other[j])

\* Record i describes the variables of the k-th activation on path w.
RecordFor(b, i, f, w, k) == b.sm.recs[i].locations = VariablesAt(b, f, EntryAt(w, k))

EnclosingRecords(b, f, w, start_addr) ==
  \A k \in 1..(Len(w) - 1) :
    RecordFor(b, stmap_get_map_record_after_addr(b.sm, IdAt(b, w[k]), start_addr), f, w, k)

\* The records the handler reads the variables of a call and of a guard with.
CallVariables(b, f, w) ==
  LET back == OptAddr(b, f, w)
      real == stmap_get_map_record_after_addr(b.sm, IdAt(b, Last(w)), back)
  IN  /\ RecordFor(b, real, f, w, Len(w))
      /\ EnclosingRecords(b, f, w, back + PATCHPOINT_CALL_SIZE + 1)
      /\ CallSaves(b, f, w)

GuardVariables(b, f, w) ==
  /\ RecordFor(b, stmap_get_map_record(b.sm, IdAt(b, Last(w))), f, w, Len(w))
  /\ EnclosingRecords(b, f, w, OptAddr(b, f, w) + PATCHPOINT_CALL_SIZE)

VariablesOK(b) ==
  /\ \A f \in DOMAIN b.prog.body : \A j \in 1..NumLocals(b.prog, f) :
       b.prog.locals[f][j].opt \in {"direct", "register", "constant"}
  /\ \A f \in FunctionsRun(b) :
       /\ \A v \in EntryPaths(b, f) :
            /\ OptRegister(CodeOf(b, "opt", f).items, v) \in RegNums
            /\ VariablesApart(b, f, v)
       /\ \A w \in SitePaths(b, f) :
            /\ SiteOf(b, w).kind = "call"  => CallVariables(b, f, w)
            /\ SiteOf(b, w).kind = "guard" => GuardVariables(b, f, w)

(***************************************************************************)
(* The records that the lookups in stmap.c find for a return address tell  *)
(* where the optimized code keeps the variables of the site, and no other  *)
(* activation uses these places meanwhile.                                 *)
(***************************************************************************)
VariablesFound == (pc = "opt" /\ calls = 0) => VariablesOK(img)


-----------------------------------------------------------------------------
(***************************************************************************)
(* The activations of the source program.  While the handler runs, they    *)
(* are still those of the optimized code; a run that ends has none.        *)
(***************************************************************************)
SourceStack ==
  IF pc \in {"done", "exited", "crashed"} THEN <<>>
  ELSE IF pc = "unopt" THEN UnoptStack
  ELSE FlattenSeq([k \in 1..Len(phys) |-> phys[k].acts])

Source == INSTANCE SourceProgram WITH body <- img.prog.body, stack <- SourceStack

(***************************************************************************)
(* The program behaves as its source says, before, during and after the    *)
(* handler: every activation returns to the site that called it, goes on   *)
(* after that site and has its variables, and the handler itself is        *)
(* invisible.  This is what tests/test_output.py compares.                 *)
(***************************************************************************)
BehavesAsSource == Source!Spec

(***************************************************************************)
(* Types: frames refer to records of the stack map, and every register     *)
(* array has all 16 registers.                                             *)
(***************************************************************************)
TypeOK ==
  /\ pc \in HandlerPoints \cup {"opt", "unopt", "done", "exited", "crashed", "overflow"}
  /\ mem \in [Stack \cup Heap -> Nat]
  /\ cpu.regs \in [RegNums -> Nat]
  /\ r \in [RegNums -> Nat]
  /\ \A k \in 1..Len(frames) :
       /\ {frames[k].record, frames[k].real_record} \subseteq 0..Len(sm.recs)
       /\ frames[k].registers \in [RegNums -> Nat]
       /\ frames[k].inlined \in BOOLEAN
  /\ idx \in 1..(Len(frames) + 1)
  /\ inlined \in BOOLEAN
  /\ seg.total_size \in 0..HeapWords

(***************************************************************************)
(* Once the handler has collected its frames, there is one for each        *)
(* activation of the source program, from the innermost one to main, with  *)
(* the site the activation is at and the size of its frame, although the   *)
(* stack it read has no frames for inlined calls.                          *)
(***************************************************************************)
Activations == Reverse(FlattenSeq([k \in 1..Len(phys) |-> phys[k].acts]))

FramesMatchActivations ==
  (pc \in {"segment", "read", "crashed"} /\ phys # <<>>) =>
    /\ pc # "crashed"
    /\ LastIdx = Len(Activations)
    /\ \A k \in 1..LastIdx :
         LET act == Activations[k] IN
         /\ sm.recs[frames[k].record].patchpoint_id =
              PatchpointId(img.prog, act.fun, act.at)
         /\ frames[k].size = StackSize(img, act.fun)

(***************************************************************************)
(* get_locations reads the values that the variables of each activation    *)
(* have, wherever the optimized code keeps them.                           *)
(***************************************************************************)
ValuesRead ==
  pc = "restore" =>
    \A k \in 1..LastIdx : locs[k] = Activations[k].vals

(***************************************************************************)
(* When the stack is to be replaced, restore_unopt_stack has put the       *)
(* variables of every activation, inlined or not, into its frame of the    *)
(* segment, where the unoptimized code of its function expects them; no    *)
(* frame is written over another one.                                      *)
(***************************************************************************)
VariablesInSegment ==
  pc = "jump_inlined" =>
    \A k \in 1..LastIdx :
      LET act == Activations[k] IN
      \A j \in InSlot(act.fun) : mem[UnoptSlot(act.fun, frames[k].bp, j)] = act.vals[j]

(***************************************************************************)
(* On the path without inlining, restore_unopt_stack leaves the variables  *)
(* of every activation where the unoptimized code of its function expects  *)
(* them: call_stack_state.h says that it restores "the values in each of   *)
(* the stack frames stored in `state`".  The code does so for the function *)
(* whose guard failed; the variables of its callers go to the frames of    *)
(* their callees.                                                          *)
(***************************************************************************)
ValuesRestored ==
  pc = "jmp_to_addr" =>
    \A k \in 1..Len(phys) :
      LET act == phys[k].acts[1] IN
      \A j \in InSlot(act.fun) : mem[UnoptSlot(act.fun, phys[k].bp, j)] = act.vals[j]

(***************************************************************************)
(* The handler does not overwrite its own frame while it writes to the     *)
(* stack: jmp_to_addr pops the base pointer saved there.                   *)
(***************************************************************************)
HandlerFrameIntact ==
  pc \in HandlerPoints =>
    /\ mem[cpu.rbp] = TopFrame.bp
    /\ mem[cpu.rbp + ADDR_SIZE] = ret

(***************************************************************************)
(* The epilogue of every unoptimized function finds the saved base pointer *)
(* by adding the frame size to rsp, so rsp and rbp must agree on where the *)
(* frame is, also in the frames made by the handler.                       *)
(***************************************************************************)
EpilogueFindsFrame ==
  (pc = "unopt" /\ Now.at = Len(img.prog.body[Now.fun]) + 1) =>
    cpu.rsp + StackSize(img, Now.fun) - ADDR_SIZE = cpu.rbp

(***************************************************************************)
(* When the guard has failed, the handler resumes the program: it does not *)
(* exit, crash or grow the stack for ever, and from the stack it leaves    *)
(* the unoptimized code runs to the end of main.                           *)
(***************************************************************************)
HandlerResumes == pc = "collect" ~> pc = "done"

(***************************************************************************)
(* main returns to its caller with the stack pointer and the base pointer  *)
(* its caller had, as if the frames made by the handler had always         *)
(* existed on the stack (guard.c, jump_inlined).                           *)
(***************************************************************************)
MainReturnsToItsCaller ==
  (pc = "done" /\ sm_id # 0) => cpu.rsp = MainBp + 2 /\ cpu.rbp = LibcBp

(***************************************************************************)
(* The registers are those of the last frame when the unoptimized code     *)
(* starts (call_stack_state.h, restore_register_state).                    *)
(***************************************************************************)
RegistersOfLastFrame ==
  pc = "unopt" => \A d \in RegNums \ {RBX, RBP, RSP} : cpu.regs[d] = r[d]
=============================================================================
