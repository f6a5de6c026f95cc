# A TLA+ model of llvm-guard-handler

llvm-guard-handler lets an optimized program go on in its unoptimized version
when a guard fails.  Compiler passes put a clone of every function into the
binary and mark call sites and guards with stack map IDs; at run time the guard
failure handler reads the stack map, rewrites the call stack into the one the
unoptimized code would have, and jumps.  This directory models both halves, the
program between them, and what the whole promises: the program cannot tell that
anything happened.

Source paths below are relative to `src/src/`.

## Inventory

| Component | State | Operations | Modelled in |
|---|---|---|---|
| CheckPointPass (`passes/function_passes/CheckPointPass.cpp`) | `stackMaps`: function name to IDs | visit of each instruction, `getNextPatchpointID` | `PatchpointIds` (IDs), `LiveVariables` (instructions) |
| UnoptimizedCopyPass (`UnoptimizedCopyPass.cpp`, `passes/Utils`) | the module's function list | cloning, retargeting of callbacks | `PatchpointIds` |
| LiveVariablesPass (`passes/function_passes/LiveVariablesPass.cpp`) | none; the code it rewrites | visit of each site, `getLiveRegisters` | `LiveVariables` |
| BarrierPass (`passes/basic_block_passes/BarrierPass.cpp`) | `callInsts`; the list of blocks | collect split points, split | `Barrier` |
| Stack map (`stackmap_checker/stmap.c`) | parsed tables, read-only | lookups; `stmap_create`; `stmap_get_location_value`; `stmap_free` | `StackMap`, `StackMapParser`, `LocationValues`, `HandlerHeap` |
| Symbols (`utils.c`) | none (ELF file) | `get_sym_start`, `get_sym_end`; ELF input | `StackMap` (lookups) |
| Call stack state (`call_stack_state.c`) | `frames`, `depth`, the copy of both | collect records, collect inlined frames, segment, variables, registers | `GuardHandler`; details in `LocationValues`, `HandlerHeap`, `SegmentLayout`, composed in `HandlerMemory` |
| Handler (`guard.c`) | `addr`, `r`, `restored_*`, `seg` | `__guard_failure`, `jump_inlined` | `GuardHandler`, `HandlerMemory` |
| Jump stubs (`jump.s`) | machine registers | `jmp_to_addr`, `restore_inlined` | `GuardHandler` |
| Compiled program (clang, custom `llc`, processor) | code layout, memory, registers | call, inlined call, return | `Binary`, `Execution` (external) |

Interaction: the passes and the handler share the stack map: IDs and locations.
The handler negates an ID to get from optimized to unoptimized code, counts IDs
down to find the next site of a function, and pairs the locations of a site and
its twin by position.  The handler and the program share the stack:
the handler reads frames through libunwind, overwrites return addresses and
variables in place, and on the inlining path replaces the stack by a segment
built on the heap.

What is hard here is not concurrency (the program is single-threaded) but state
that is rewritten while it is still needed: return addresses that are
overwritten and later read, a copy of an array that is moved, frames of calls
that were inlined and have to be guessed from the order of records, word counts
of frames that do not exist yet, and a recursion that grows the stack on which
it will overwrite its callers.  `PROJECT.json` lists these hazards with their
lines.

What makes each component correct:

* passes: the sites of a function and of its clone correspond (`SitesPaired`),
  no two sites share an ID (`UniqueIds`), counting down stays in a function
  (`CountingDownStaysInFunction`), and no vector is read past its end
  (`TwinIdExists`);
* LiveVariablesPass: both versions of a site record the same variables in the
  same order (`SameLocations`), in valid code (`CodeValid`), and all that are live
  (`LiveRecorded`, which loops break; `LiveRecordedWithoutLoops`);
* BarrierPass: it ends (`PassEnds`) with every site in a block of its own
  (`SitesIsolated`);
* stack map: what was written is read (`TablesRead`, `RecordsAligned`,
  `InSection`);
* handler: one frame per source-level activation (`FramesMatchActivations`), the
  right values read (`ValuesRead`) and written (`VariablesInSegment` where inlined
  calls are undone, `ValuesRestored` where none are, which the code breaks), its own frame
  intact (`HandlerFrameIntact`), frames that epilogues can pop
  (`EpilogueFindsFrame`), and termination (`HandlerResumes`); in detail, variables
  of any size and place (`VariablesRestored`, `NeighboursKept`; `SizesRead`, which the code breaks), heap
  blocks (`NoFault`, `NothingLost`) and the layout of the new call stack
  (`WritesInSegment`, `FramesSideBySide`, `FramesLinked`);
* the whole: the program behaves as its source says (`BehavesAsSource`).

## Modules

**`PatchpointIds`** – one action per kind of instruction the pass visits
(`VisitGuard`, `VisitCall`, `VisitOther`), plus `doInitialization` (cloning) and
`EndFunction` (the last pass on a function, then the next function).  `funs` is
the module's function list, `cur`/`pos` the iterators, `stackMaps` the static map
of the pass, `sites` the calls inserted in the output.  IDs are values of a type
of `IdSpace` values, and `Negate` is the complement in it.

**`StackMap`** – the lookups of `stmap.c` and `utils.c`, `get_next_patchpoint` and
the search of `get_restored_state`, as operators on the tables, with the source's
names.  A record is its index and `NULL` is 0.

**`Binary`** (external) – the image of a program: which calls are inlined, code
layout and offsets of records, frame layout, locations of variables.  IDs are
those of `PatchpointIds` (run `MCPatchpointIds`, property `IdsAsInBinary`).

**`Execution`** (external) – the processor: optimized code as frames that hold the
activations inlined in them (`phys`), unoptimized code as `rip`, `rbp`, `rsp`,
registers and words of memory.  `UnoptStack` reads the activations back from
memory by following the saved base pointers.

**`GuardHandler`** – the handler, composed with `Execution`.  The points of `pc`
follow `__guard_failure`: `collect` (collect_map_records, one frame a step),
`inline` (collect_inlined_frames, one frame a step), `fail` (the fail frame and
the frames it is inlined in), `segment` (insert_real_addresses), `read`
(get_locations), `restore` (restore_unopt_stack, one frame a step, then
restore_register_state), and the two jumps.  `frames[1]` is `state->frames[0]`.
`realloc` of an array that is still referenced by the copy is a choice between
an array that stays, one that moves with its old content readable, and one whose
old memory is overwritten.  `errx` ends a run as `exited`, a null dereference or a
failed assertion as `crashed`, the end of the stack as `overflow`.

**`SourceProgram`** – the abstract specification: a stack of activations that run
the sites of their functions.  `BehavesAsSource` instantiates it with the
activations found in optimized frames, or in memory after the handler has run.

The following modules take one part each out of the composition and model it
at the grain at which it can go wrong.

**`LiveVariables`** – a function and its clone as control flow graphs of
instructions.  `CheckPointPass` inserts and replaces instructions (one step a
version: it only reads what it does not change), then `VisitSite`, `VisitOther` and
`EndBlock` follow the two loops of LiveVariablesPass; each record adds uses to
`code`, from which the next one is computed.  Dominance is that of LLVM's
`DominatorTree`, unreachable blocks included.  The reference definition of
liveness (`LiveAt`) is reachability of a use from the site.

**`Barrier`** – the block list, the block being visited and the collected split
points; `NextBlock` is the pass manager, which is led along the growing list.

**`StackMapParser`** – the cursor of `stmap_create` on a section laid out by LLVM's
rules: fields with sizes and alignments, against which the reader's own padding
has to be right.  A read where no such field starts is garbage.

**`LocationValues`** – `get_locations` and `restore_unopt_stack` in units of four
bytes, one variable a step, for variables whose optimized and unoptimized places
overlap.  `Beyond` and `AfterBlock` are what may lie in memory behind a
`location_t` and behind a heap block.

**`HandlerHeap`** – which block every pointer of the handler points to.  A step uses
blocks, frees some and allocates some; using or freeing one that is not
allocated sets `fault`.

**`SegmentLayout`** – the loops of `get_total_stack_size`, `insert_real_addresses`
and `jump_inlined`, one iteration a step.  The last iteration of the second loop
adds a size nobody has set (`Junk`).

**`HandlerMemory`** – composes the last three in the order of `__guard_failure`: the steps
of `HandlerHeap`, some of which are a loop in one of the other two.  The stack is
measured before the block of the segment is allocated, and the segment filled before
variables are restored; the frames are linked once `stmap_free` has run, and the segment
is copied before it is freed.  Without inlining there is no segment.  An error path of
`LocationValues` ends the handler.  The parts have variables and specifications with
names of their own, and no part reads what another one computes: the sizes of the frames
and the variables are inputs, and are not derived from the shape of the stack.

A module named `XProofs` has the theorems about `X` and their proofs,
**`MemoryProofs`** those about `LocationValues`, `SegmentLayout` and `HandlerMemory`, and
**`SequenceLemmas`** what all of them need of sequences, of `FlattenSeq` and of sums.  The
modules whose names start with `MC` are instances.

Abstractions: the stack is addressed in words (`ADDR_SIZE == 1`), each variable
is one word, and a location pair (value and size) is one location; code addresses
keep their byte offsets, since the handler does arithmetic with the 13 bytes of
a patchpoint.  In `LiveVariables` there are no phi instructions, and values have
no types but those that decide how a result is converted.

## Runs

| Run | Shows |
|---|---|
| `MCPatchpointIds` | all modules of three functions with up to two calls each, two orders: the four ID properties and agreement with `Binary` |
| `MCGuardHandler` | 102 programs: the safety properties of the handler, `LookupsSupported` and `VariablesFound` (the stack map has what the theorems about the handler assume), `BehavesAsSource`, and `HandlerResumes`, from the failure of the guard to the end of main |
| `MCLiveVariables` | functions with a branch, a loop or an unreachable block: `SameLocations`, `CodeValid`, `LiveRecordedWithoutLoops` |
| `MCBarrier` | up to three pieces of code with sites in a block, inlined ones included: `SitesIsolated`, `PassEnds` |
| `MCStackMapParser` | all parities of table lengths: `TablesRead`, `RecordsAligned`, `InSection` |
| `MCHandlerMemory` | the handler's memory, from `stmap_create` to the jump.  Stacks of one to four frames: `NoFault`, `NothingLost`; variables in all kinds of locations and overlaps, with anything behind a `location_t`: `VariablesRestored`, `NeighboursKept`; all sizes of five frames: `WritesInSegment`, `FramesSideBySide`, `FramesLinked` |
| `MCInlinedBelowMain` | violation: the shallow copy is used after the array has moved |
| `MCInlining` | violation: main does not return with its caller's rsp and rbp |
| `MCPlain` | violation: jump.s loads four registers from other slots |
| `MCLoopVariable` | violation: a variable used at the head of a loop is not recorded in its body |
| `MCCallerVariable` | violation of `ValuesRestored`: without inlining, a caller's variables go to its callee's frame (`call_stack_state.c:365`) |
| `MCSizeOfConstant` | violation of `SizesRead`: eight bytes of a size are copied from a field of four (`stmap.c:143`) |

The violation runs show where the code disagrees with its own comments, which
`findings` in `PROJECT.json` quotes.

The passing runs of the handler quantify over the programs it is right for.
`ControlOK` and `LocalsOK` in `MCGuardHandler` state, condition by condition, what
it needs of the optimizer.  In particular, callers that called without inlining have no
variable in memory: `VariablesInSegment` says that all variables are restored where inlined
calls are undone, and `MCCallerVariable` that those of callers are not where none are.

The passing run `MCHandlerMemory` leaves out 64-bit constants recorded as an
`int32_t`, whose upper half the handler does not restore, as with the size in
`MCSizeOfConstant`.  It assumes nothing of what follows a `location_t` in
memory.  If that is not zero, the size of a variable, read eight bytes wide from a field
of four, is 4 GiB or more (`MCSizeOfConstant`); the copy of the value then leaves the
memory of the process, which is `pc = "crashed"`, and the run shows that the handler restores
the right values whenever it goes on.

For each of the other conditions there is a configuration that drops it and violates one
property.  They are beside the runs, to be checked by hand (`tlc -config X.cfg M`):

| Configuration | Module | Violates | Because |
|---|---|---|---|
| `MCRepeatedGuard` | `MCGuardHandler` | `FramesMatchActivations` | `get_restored_state` makes frames of records of sites not yet reached (`call_stack_state.c:240`) |
| `MCSecondSite` | `MCGuardHandler` | `FramesMatchActivations` | an offset of one function is applied to another (`call_stack_state.c:191`) |
| `MCCalleeLast` | `MCGuardHandler` | `FramesMatchActivations` | the first record with an ID is that of an inlined copy (`guard.c:85`) |
| `MCAdjacentSites` | `MCGuardHandler` | `FramesMatchActivations` | with no code between two sites, the search starts one byte behind the next record (`call_stack_state.c:187`) |
| `MCGuardVariable` | `MCGuardHandler` | `ValuesRead` | the variables of an inlined guard are read at the offsets of the original function (`guard.c:114`) |
| `MCCallerRegister` | `MCGuardHandler` | `ValuesRead` | a caller's register is read from its callee's frame (`call_stack_state.c:329`) |
| `MCNegativeConstant` | `MCLocationValues` | `VariablesRestored` | a 64-bit constant recorded in four bytes is not sign-extended, even with zeros behind it (`stmap.c:143`) |

### Bounds

* `MCPatchpointIds`: three functions give an original before, between and after
  others; up to two calls, and a guard, give first, middle and last sites; a
  function without a site (no entry in `stackMaps`) occurs.  `IdSpace = 64` leaves
  room for `MaxSites = 12` IDs, their gaps and their complements.
* `MCGuardHandler`: four functions in the shape of the test programs, every call
  real or inlined, one function that calls itself, one or two sites a function,
  both definition orders.  `MaxDepth = 5` activations let recursion happen beside
  the deepest chain of calls.  Variables are in stack slots, registers or
  constants.  The stack (`StackTop`, `MainBp`) leaves room for the deepest chain,
  the handler and the segment above main.  `Gap = 1` byte between a site's shadow
  and the next site; `HeapWords = 60` holds the largest segment, which `TypeOK`
  checks.  `HandlerFrame` and `JumpFrame` are small frames, so that
  `jump_inlined` recurses several times.  `MCAdjacentSites` has `Gap = 0`.
* `MCLiveVariables`: four blocks give a branch that joins and a loop with an exit;
  each block has a use, a call of each return type, or both, and values of other
  blocks are used where they are defined.  x is live nowhere, before, across or
  after a site.
* `MCBarrier`: three pieces put a site first, in the middle and last in a block, and
  next to another one.  `MaxBlocks = 40` is more blocks than any of these functions
  is split into, so that only a pass that does not end reaches it: it would then
  stop short of the end, which `PassEnds` reports.
* `MCStackMapParser`: lengths 0..3 and 0..2 give every case of both paddings, for a
  first and a second record.
* `MCHandlerMemory`: as no part reads what the others compute, one varies at a time,
  over one or two values of the other two (`MCMemoryInit`).
  * Stacks of up to four frames, of which only the last iteration of
    `collect_inlined_frames` inserts frames, as in `ControlOK`.  Up to three restored frames
    (`MaxRestored`).
  * One variable in any place, or two of which one is restored to a place where the other
    one was; pairs that do not meet add nothing to single variables.  Eight units of
    memory hold two variables of up to three units in every order and overlap.
    `Beyond = {0, 5}`: what follows a `location_t` is zero, so that a size is read
    correctly, or not, so that it is 4 GiB or more.  `AfterBlock = {0, 5}`, two values, so
    that a copy that is too long changes what it overwrites.  `MaxPairs = 2` is the number
    of variables.
  * Five frames give a first, a last and several in between; a size of 1 is a frame
    without variables.

The theorems below hold without the bounds of the runs.  For what they state, the
runs remain as a check of the statements (each was checked by TLC before it was
proved), of the assumptions on constants, and of the hypotheses `Supported` and
`VariablesOK` of the theorems about the handler.  The properties that rest on the runs alone are listed
under "Only model-checked".

### Fairness

`HandlerResumes` assumes that the process goes on from the failure of the guard to
the end of main: `__guard_failure` is sequential and waits for nothing, nothing
else runs in the process, and the processor then runs the unoptimized code, which
has no loops here and recurses to `MaxDepth` at most.  This is weak fairness of
`Next` at these points; `Fairness` has the points (`GoesOn`) in place of `ENABLED`,
which is slow to evaluate for these steps.  A step is possible at each of them:
otherwise the run would report a deadlock.  Nothing is assumed of the optimized
code, whose guard need not be reached.

`PassEnds` assumes weak fairness of the next step of BarrierPass, a sequential
program that clang runs to its end.  `MCBarrier` does not check deadlock, because
the pass stops.

## Proofs

The theorems are about every value of the constants.  Each rests on an inductive
invariant `IInv` (`LocationInv` and `SegmentInv` in `MemoryProofs`), with a lemma for
`Init`, one per action and the theorem `Invariance`; TLC has checked each of them on
the run of its module, those of `GuardHandler` (`IInv`, `HandlerInv` and `ValuesInv`) too.  The named
assumptions on constants are in the modules that declare them, and TLC evaluates
them on those runs.

| Theorem | Module | States |
|---|---|---|
| `TypeCorrect`, `IdsUnique`, `TwinsCorrespond`, `CountingDown`, `TwinIdAlwaysExists` | `PatchpointIdsProofs` | the five properties of the IDs |
| `TwinsRecordSame`, `CodeAlwaysValid` | `LiveVariablesProofs` | `SameLocations`, `CodeValid` |
| `AllSitesIsolated` | `BarrierProofs` | `SitesIsolated` |
| `TablesReadBack`, `RecordsStartAligned`, `ReaderInSection` | `StackMapParserProofs` | `TablesRead`, `RecordsAligned`, `InSection` |
| `FramesFollowActivations` | `GuardHandlerProofs` | `FramesMatchActivations`, for binaries that are `Supported` |
| `HandlerFrameKept` | `GuardHandlerProofs` | `HandlerFrameIntact`, for binaries that are `Supported` and, without inlining, `FitsCallee` |
| `ValuesReadFollow` | `GuardHandlerProofs` | `ValuesRead`, for binaries that are `Supported` and `VariablesOK` |
| `FollowsSourceUpToJump` | `GuardHandlerProofs` | the refinement of `SourceProgram` up to the jump, for binaries that are `Supported` |
| `WellFormedRestored`, `OnlyVariablesWritten` | `MemoryProofs` | `VariablesRestored` for sites that are `WellFormed`, `NeighboursKept` |
| `NoFaultIntoMain`, `AllReleased` | `HandlerHeapProofs` | `NoFault` under a condition, `NothingLost` |
| `SegmentNotOverrun`, `SegmentTiled`, `StackLinked` | `MemoryProofs` | `WritesInSegment`, `FramesSideBySide`, `FramesLinked` |
| `PartsImplemented` | `MemoryProofs` | the handler's memory as a whole implements the specifications of `HandlerHeap`, `LocationValues` and `SegmentLayout` |

### PatchpointIds

`PatchpointIdsProofs` proves, for every set of functions, every source module and
every ID space with `IdSpace > 4 * MaxSites + 4`:

* `TypeCorrect`, `IdsUnique`, `TwinsCorrespond`, `CountingDown`,
  `TwinIdAlwaysExists`: `Spec => []P` for the five properties of the component.

Assumptions, evaluated by TLC on `MCPatchpointIds`: the module lists every
function once (`ModuleAssumption`), and the ID space has room for the sites
(`IdAssumption`; 64 bits are far more than any module has).

None of the properties is inductive: that a clone reads an existing ID of its
twin depends on both having visited the same instructions, and uniqueness depends
on how far IDs have been given.  The inductive invariant `IInv` says, for the k-th
function of the module:

* `OptSitesInv`: its recorded sites are exactly those of the instructions visited
  so far, in order;
* `UnoptSitesInv`: its clone has a prefix of them, with complementary IDs and twin
  callees, and the next one is not before the current position;
* `OptIdsInv`: its IDs are consecutive and at most twice the number given;
* `GapInv`: they are at least 2 above those of all functions before it;
* `ListInv`, `SameIds`, `MaxInv`: clones follow originals in the list, `stackMaps`
  and the inserted calls agree, and `std::max_element` has a maximum.

`NextOptId` computes the next ID of an original from `MaxInv`, `OptIdsInv` and
`GapInv`; `NextUnoptId` that of a clone from `NextTwinSite`.  `RecordOptStep` and
`RecordUnoptStep` show that a site recorded with that ID preserves each part;
`NextStep` combines one lemma per action.  Uniqueness across versions follows from
ranges: originals have IDs up to `2 * allocated`, complements are above.

### LiveVariables

Assumption, evaluated by TLC on `MCLiveVariables`: the code is what clang may give
to the passes (`FunctionsAssumption`): every value has one definition, above all
of its uses, the values that CheckPointPass makes are new, and calls and returns
are numbered.  Nothing is assumed of the graph, which may have loops and
unreachable blocks.

`SameLocations` compares the ends of two runs of the pass over different code, so
the invariant needs a description that both have in common.  `SrcLive` is one: what
a site records, in terms of the source and of the records of the sites before it.
`CodeIs` says that the code is that of CheckPointPass plus the values recorded so
far, `Solves` that the records made so far are those of `SrcLive`.  The steps of
the argument:

* `PieceFacts`: what CheckPointPass makes of an instruction, and where in it are its
  value, its uses, its site and the point at which the site looks for variables;
  `Places`, `PlaceDominates`: these pieces are laid out in the order of the source,
  so that dominance between pieces is dominance in the source;
* `UsedBelowPoint`: a value of the source is used below a site if it is in the
  source or some earlier site has recorded it; `NoAuxBelow`: the values made to
  convert a result are never live at a site, since they are used up before the next;
* `LiveRegisters`: therefore `getLiveRegisters` is `SrcLive`;
* `RecordCode`: a record preserves `CodeIs` and `Solves`, as `SrcLive` depends on
  earlier sites only (`SrcLiveSame`);
* `SolvesUnique`: two solutions are equal, by the first site at which they differ.

`CodeValid` follows from `CodeIs` and from `SrcLiveValues`: only values of the source
are recorded, and only at sites below their definition.

### Barrier

Assumption: the blocks are as CheckPointPass leaves them, with an asm block in
front of every call and a stackmap behind it, a terminator that is no site, and
unique instructions (`FunctionsAssumption`).  `SitesIsolated` is about the end of
the pass; on the way there an asm block or a site in the visited block that is not
yet separated must still be among `callInsts`.  It need not stay in that block: an
earlier split point moves it to the next one, and it is then split there.
Therefore `PendingInv` allows split points in the visited block or later ones,
`CurInv` says that what is left in the visited block has a split point left, and
`DoneInv` that the blocks before it are separated and stay so.  `IdInv` (the
branches a split adds have the ids -1, -2, ...) makes `getParent` unique.
`SplitLayout` computes a split; `SplitSource` and `SplitTarget` say where every
instruction comes from and goes to, from which the other lemmas follow.  A split
point is always at a place where no call loses its asm block or site
(`MaySplit`).

### StackMapParser

Assumption: the tables are sequences (`TablesAssumption`).  The invariant: what
has been read is a prefix of the tables, and the cursor is at the end of the field
with a certain index, at a multiple of 8 while records are read.  A read is right
because fields have positive sizes, so that at most one starts at an address
(`EndsProperties` and the lemmas on arrays), and the next cursor is right because
of the arithmetic of the two paddings (`Padding`).  Where the fields of a function
or a record are in the section is `EmittedLayout`, from the layout of nested
sequences that are flattened (`FlattenLayout`).

### GuardHandler

`GuardHandlerProofs` is about the composition of the handler with optimized code, for
every program, layout of the stack, depth and size of the handler's frames.

*Hypotheses.*  What the handler does is right or wrong depending on what it finds in
the stack map, and the violation runs show binaries for which it is wrong.  The
theorems have the form `Spec /\ Supported(img) => ...`.  `Supported`, in `GuardHandler`, says
of a binary: calls go to functions of the program; optimized code has a copy of
every site reachable in it; variables have their places inside the frame and not in
`rbp` or `rsp`; the first record with the ID of a site, and that of its twin, are of
functions with the frame size of the site's function (`RecordOK`); for each return
address the lookups of `collect_map_records` and `collect_inlined_frames` find the record
of the call and those of the calls it was inlined in (`CallOK`), for each guard those
of `__guard_failure` do (`GuardOK`); and the stack has room for `MaxDepth` frames on both
sides of main's.  It is a condition on the tables and addresses of a fixed binary, one
site at a time; it says nothing of states, of the call stack or of what the handler
does with what it has found.  The invariant `LookupsSupported` of `MCGuardHandler` checks
that all 102 programs satisfy it.  The binaries of `MCInlinedBelowMain`,
`MCRepeatedGuard`, `MCSecondSite` and `MCCalleeLast` do not: each fails in one of the
conditions on lookups, which is the defect it shows.

`HandlerFrameKept` has a second hypothesis for the path without inlining, `FitsCallee`: there
the variables of a caller are written relative to the base pointer of its callee
(the defect of `MCCallerVariable`), and they must not be further from it than that
frame is large, or they would reach the frame of the handler.  90 of the 102 programs
satisfy it.

`ValuesReadFollow` has the hypothesis `VariablesOK`, of the same kind as `Supported`: for each
call and guard of optimized code, the records that the handler reads variables with
describe those of the activation, `real_record` of the frame itself and of those it was
inlined in (`CallVariables`, `GuardVariables`); the variables of a frame's activations have
places of their own (`VariablesApart`); and a callee uses no register in which its caller
keeps a variable (`CallSaves`).  It says where variables are, and nothing of their
values.  The invariant `VariablesFound` checks that all 102 programs satisfy it; those of
`MCGuardVariable` and `MCCallerRegister` do not, which are the two runs that violate
`ValuesRead`.

*The invariant* relates the handler's `frames` to the frames on the stack, `phys`, and
to the activations in each of these.

* `StackInv` (`StackOK`): a frame's activations are those of its function and of the
  calls inlined in it, each at the site at which the next one was inlined
  (`InlinedNext`), so that their path is one of the sites of the binary; each frame is
  called by the one below it and lies directly under it on the stack.
* `OptInv` (`ReturnsOK`), `FailureInv`: every return address on the stack is that of the
  call its frame is at; the handler knows the failed guard and where it returns to.
* `CollectInv` (`CollectOK`): the frames collected so far have the record and the size of
  the frames of `phys`, and only their return addresses have been overwritten.
* `InlineInv`, `FailInv` (`BelowOK`): the inlined frames that were inserted are those of the
  activations, and until the last iteration nothing is inserted, since only a call in main
  is inlined into a caller (`CallOK`); that is why the shared copy does no harm.
* `MatchInv` (`Matches`): from then on there is one frame for each activation, with its
  record and size, which is `FramesMatchActivations`.
* `SegmentInv`, `PlacesOK`: where the base pointers of these frames lie, on the stack or in
  the segment, and that the segment is within the heap.
* `PcInv`: the handler does not dereference null and fails no assertion.
* `HandlerInv` (`HandlerOK`): the saved base pointer and the return address in the frame of
  the handler; every write of `collect`, `inline`, `fail` and `restore` is above them.

*The values* have an invariant of their own, `ValuesInv`, which rests on the one above.

* `KeptInv` (`ValuesKept`): while optimized code runs and the handler collects its frames,
  each variable of each activation has its value in the place that the code of the
  frame's function gives it, with the registers of the frame, and for the activation
  that called the next frame with those of its callee too, since that is what
  `get_locations` reads.  A call writes below the frames, a branch to the places of one
  activation, which no other shares; `collect_map_records` writes to return addresses only.
* `BelowInv`, `ReadInv` (`AllRead`): for each frame of the handler, what its record, its
  registers and the base pointer of the next frame lead to are the values of its
  activation, in words that `insert_real_addresses` does not write to.

`get_locations` then reads these values, and the steps of `restore_unopt_stack` leave them
alone.

There is a lemma for each action: for a frame whose call was not inlined and one whose
call was, for each outcome of `realloc`, and for the frames of the guard.  The longest
part is that inserting the frames of `get_restored_state` in reverse gives the
activations of the frame in the order of the stack.

*Refinement.*  `FollowsSourceUpToJump` states that the first state maps to an initial state of
`SourceProgram` and that each step, as long as the unoptimized code does not run, is a
step of `SourceProgram` or leaves its variables unchanged (`FollowsSource`): optimized code
does what the source says, calls, inlined calls and returns over several inlined
activations included, and no step of the handler is visible to the program.  The step to
unoptimized code and what follows is `BehavesAsSource`, which TLC checks.

### LocationValues

Assumption: sizes are natural numbers and offsets integers (`SiteAssumption`).
Reading comes before the first write, so all values read are those at the start;
a variable that was restored stays so, because no other is restored to its place.
`NeighboursKept` needs no condition.  `VariablesRestored` needs `WellFormed`: the
compiler does not put two variables of a frame in the same place or one of more
than 8 bytes in a register, and no constant recorded as an `int32_t` is wider than one.
The last part is no guarantee of the compiler: `MCNegativeConstant` violates the property
without it.  Nothing is assumed of what follows a `location_t` in memory (`Beyond` is any
set): a wrong size ends the handler before anything is written.

### HandlerHeap

Assumption: depths and numbers are natural numbers (`HeapAssumption`).  The
invariant is one of ownership: each of seven pointers owns certain blocks while
the handler is in certain steps (`Holds`), no block has two owners, and exactly
the blocks with an owner are allocated.  `NothingLost` follows for every stack,
since the last step leaves no owner.  `NoFault` needs `InlinedIntoMain`: that only
the last iteration of `collect_inlined_frames` inserts frames.  Without it the copy
is read after the array was reallocated, which is what `MCInlinedBelowMain` shows;
the theorem says that this is the only misuse of memory.

### SegmentLayout

Assumption: a frame has a size (`SegmentAssumption`).  The three loops compute the
same sums in different ways, and no property speaks of a loop in the middle.
`SumInv` states the sums through the history variable `counted`, without recursion:
the frames are disjoint intervals.  `BpInv` puts the base pointers of all loops at
the same place in these intervals, and `WordsInv` and `StackInv` say which words have
been written, which later iterations leave alone because of disjointness.

### HandlerMemory

`PartsImplemented` carries the theorems about the three parts over to their composition: each
of its steps is a step of a part or leaves the variables of that part as they are
(`PartsStep`).  `HandlerMemorySafe` states `NeighboursKept`, `WritesInSegment`,
`FramesSideBySide` and `FramesLinked` of the whole.

### Induction

The library's induction theorems take an operator as a parameter, which no prover
in use instantiates.  `SequenceLemmas` has induction over an interval for a set
instead (`IntervalInduction`, by the least counterexample): what a recursive
function computes is proved by applying it to the set of indices for which the
claim holds.  `FlattenLayout`, `SumsProperties` and `EndsProperties` are proved this
way.

## Only model-checked

* `VariablesInSegment`: a theorem would need, beside `VariablesOK`, that the records of the
  unoptimized code describe its frames, and that the base pointers of the segment are apart
  while the frames are still being placed.
* `TypeOK`, `EpilogueFindsFrame` and `BehavesAsSource` after the jump: they are about the
  unoptimized code, whose state is words of memory without a history of frames.
* That a binary is `Supported` and `VariablesOK`: conditions on the code that a compiler has
  laid out.
* `LiveRecordedWithoutLoops`: its reference is reachability in a graph, which would need a
  theory of paths and dominators.
* `IdsAsInBinary`: it compares two models of the same numbering, one of them a fold over
  the program.
* All liveness, `HandlerResumes` and `PassEnds`: liveness under fairness (and `ENABLED`) is
  outside the reach of the proof system in use.

## Not modelled

* The ELF input of `utils.c` (`get_elf_header`, `free_header`, `get_addr`,
  `get_binary_path`): each call maps, searches and unmaps the file and leaves no
  state; the symbol tables they give access to are in `StackMap`.
* The effect of BarrierPass on the optimizer: that no code moves across a site is
  built into `Binary`.
* phi instructions in LiveVariablesPass (clang emits them for `&&`, `||` and `?:`).
* Indirect calls and callbacks from library code, for which the passes and the
  handler have no records; several translation units (each starts with an empty
  `stackMaps`, so the IDs of two units are not unique; the tests have one unit).
* The LLVM submodule with the custom `llc` (empty in this repository).

## History

1. `PatchpointIds` and its proofs.  2. `StackMap`, `Binary`, `Execution`,
`SourceProgram`, `GuardHandler` and their runs.  3. `LiveVariables`, `Barrier`,
`StackMapParser`, `LocationValues`, `HandlerHeap`, `SegmentLayout`, the boundary
`Gap = 0`, and liveness to the end of the program.  4. Proofs of `SegmentLayout`,
`HandlerHeap`, `LocationValues`, `StackMapParser`, `Barrier` and `LiveVariables`.
5. Proofs of `GuardHandler`.  6. `HandlerMemory`, and runs for the variables of callers and
for constants of 64 bits.

What could follow: an invariant of the unoptimized code, for the steps after the jump.
