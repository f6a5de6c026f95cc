--------------------------- MODULE LocationValues ---------------------------
(***************************************************************************)
(* Reading and restoring live variables, in units of four bytes: what      *)
(* stmap_get_location_value copies from a location of each kind, and what  *)
(* restore_unopt_stack writes.  GuardHandler has the same steps with one   *)
(* word for each variable, and the frames they belong to.                  *)
(*                                                                         *)
(* A variable has a size in units, a location in the optimized code and    *)
(* one in the unoptimized code.  Its size is recorded as a location too, a *)
(* constant.  Addresses are absolute and a unit is an int32_t.             *)
(***************************************************************************)
EXTENDS Integers, Sequences, SequencesExt

CONSTANTS
  Sites,      \* the sequences of variables considered
  Memory,     \* the addresses of units of the stack
  Beyond,     \* what may follow the offset of a location_t in memory
  AfterBlock  \* what may follow a block of the heap

ASSUME SiteAssumption ==
  \A s \in Sites :
    /\ Len(s) \in Nat \ {0}
    /\ \A j \in 1..Len(s) : /\ s[j].size \in Nat
                            /\ s[j].opt.offset \in Int /\ s[j].unopt.offset \in Int

VARIABLES
  site,       \* the variables of the frames
  constants,  \* the table of large constants of the stack map
  mem,        \* the stack
  registers,  \* the 16 registers, of two units each, one after the other
  before,     \* mem and registers when the handler started
  pc,         \* "read", "restore", "done", "exited" or "crashed"
  sizes,      \* the sizes read so far
  values,     \* the values read so far
  written     \* how many of them have been restored

vars == <<site, constants, mem, registers, before, pc, sizes, values, written>>

REGISTER_COUNT == 16

Register(reg) == 2 * reg

\* The two units of a register or of an uint64_t.
sizeof_uint64_t == 2

-----------------------------------------------------------------------------
(***************************************************************************)
(* stmap_get_location_value: size units from a location.  A CONSTANT is    *)
(* the int32_t offset of the location_t, and what follows it in memory is  *)
(* read when the size is greater.                                          *)
(***************************************************************************)
assert_valid_reg_num(loc) == loc.kind = "REGISTER" => loc.offset \in 0..(REGISTER_COUNT - 1)

Implemented(loc) ==
  loc.kind \in {"REGISTER", "DIRECT", "CONST_INDEX", "CONSTANT"} /\ assert_valid_reg_num(loc)

Units(loc, size, beyond) ==
  [k \in 1..size |->
    CASE loc.kind = "REGISTER"    -> registers[Register(loc.offset) + k - 1]
      [] loc.kind = "DIRECT"      -> mem[loc.offset + k - 1]
      [] loc.kind = "CONST_INDEX" -> constants[loc.offset + 1][k]
      [] loc.kind = "CONSTANT"    -> IF k = 1 THEN loc.offset ELSE beyond]

\* The location that holds the size of a variable.
SizeLocation(j) == [kind |-> "CONSTANT", offset |-> site[j].size]

(***************************************************************************)
(* One step of get_locations: a size of eight bytes, then as many of the   *)
(* value.  What follows the offset is the upper half of the size: unless   *)
(* it is zero, the size is 4 GiB or more, and the copy of the value leaves *)
(* the memory of the process.                                              *)
(***************************************************************************)
get_location ==
  /\ pc = "read"
  /\ LET j   == Len(values) + 1
         opt == site[j].opt
     IN  \E b1, b2 \in Beyond :
           LET loc_size == Units(SizeLocation(j), sizeof_uint64_t, b1)
               fits     == loc_size[2] = 0
           IN  /\ sizes' = Append(sizes, loc_size)
               /\ values' = IF fits /\ Implemented(opt)
                            THEN Append(values, Units(opt, loc_size[1], b2)) ELSE values
               /\ pc' = CASE ~Implemented(opt)           -> "exited"
                          [] Implemented(opt) /\ ~fits -> "crashed"
                          [] OTHER -> IF j = Len(site) THEN "restore" ELSE "read"
  /\ UNCHANGED <<site, constants, mem, registers, before, written>>

-----------------------------------------------------------------------------
(***************************************************************************)
(* The copy of a value to the stack; the mutant copies whole words.        *)
(***************************************************************************)
CopySize_mutant(j) == sizeof_uint64_t * ((sizes[j][1] + 1) \div 2)

CopySize(j) == sizes[j][1]

\* What a copy of n units reads: beyond the value, it may be anything.
Copied(j, k, beyond) == IF k <= Len(values[j]) THEN values[j][k] ELSE beyond

Put(f, at, n, j, beyond) ==
  [a \in DOMAIN f |-> IF a \in at..(at + n - 1) THEN Copied(j, a - at + 1, beyond) ELSE f[a]]

(***************************************************************************)
(* Variables are restored when all have been read.  The mutant restores    *)
(* each one as soon as it has been read.                                   *)
(***************************************************************************)
MayRestore_mutant == pc \in {"read", "restore"} /\ written < Len(values)

MayRestore == pc = "restore"

\* One step of restore_unopt_stack.
restore_location ==
  /\ MayRestore
  /\ LET j     == written + 1
         unopt == site[j].unopt
     IN  /\ \/ /\ unopt.kind = "DIRECT"
               /\ \E b \in AfterBlock : mem' = Put(mem, unopt.offset, CopySize(j), j, b)
               /\ UNCHANGED registers
            \/ /\ unopt.kind = "REGISTER"
               /\ assert_valid_reg_num(unopt)
               /\ \E b \in AfterBlock :
                    registers' = Put(registers, Register(unopt.offset), sizeof_uint64_t, j, b)
               /\ UNCHANGED mem
            \/ /\ unopt.kind \in {"CONSTANT", "CONST_INDEX"} \/ ~Implemented(unopt)
               /\ UNCHANGED <<mem, registers>>
         /\ pc' = IF ~Implemented(unopt) THEN "exited"
                  ELSE IF j = Len(site) THEN "done" ELSE pc
         /\ written' = j
  /\ UNCHANGED <<site, constants, before, sizes, values>>

Init ==
  /\ site \in Sites
  /\ constants = <<<<11, 12>>, <<21, 22>>>>
  /\ mem = [a \in Memory |-> 100 + a]
  /\ registers = [a \in 0..(2 * REGISTER_COUNT - 1) |-> 200 + a]
  /\ before = [mem |-> mem, registers |-> registers]
  /\ pc = "read"
  /\ sizes = <<>>
  /\ values = <<>>
  /\ written = 0

Ended == pc \in {"done", "exited", "crashed"} /\ UNCHANGED vars

Next == get_location \/ restore_location \/ Ended

Spec == Init /\ [][Next]_vars

-----------------------------------------------------------------------------
(***************************************************************************)
(* Each size read is the size of its variable, all eight bytes of it:      *)
(* get_locations reads "a `uint64_t` value, because `LiveVariablesPass`    *)
(* records location sizes as 64-bit values".  The location_t it is read    *)
(* from has four bytes.                                                    *)
(***************************************************************************)
SizesRead == \A j \in 1..Len(sizes) : sizes[j] = <<site[j].size, 0>>

(***************************************************************************)
(* The value a variable had when the handler started.  LLVM records a      *)
(* constant as an int32_t if the sign-extended int32_t is its value.       *)
(***************************************************************************)
ValueBefore(var) ==
  [k \in 1..var.size |->
    CASE var.opt.kind = "REGISTER"    -> before.registers[Register(var.opt.offset) + k - 1]
      [] var.opt.kind = "DIRECT"      -> before.mem[var.opt.offset + k - 1]
      [] var.opt.kind = "CONST_INDEX" -> constants[var.opt.offset + 1][k]
      [] var.opt.kind = "CONSTANT"    -> IF k = 1 THEN var.opt.offset
                                         ELSE IF var.opt.offset < 0 THEN -1 ELSE 0]

ValueNow(var) ==
  [k \in 1..var.size |->
    IF var.unopt.kind = "REGISTER" THEN registers[Register(var.unopt.offset) + k - 1]
    ELSE mem[var.unopt.offset + k - 1]]

(***************************************************************************)
(* In the end every variable is where the unoptimized code expects it with *)
(* the value it had, although the place of one may be where another one    *)
(* was.                                                                    *)
(***************************************************************************)
VariablesRestored ==
  pc = "done" =>
    \A j \in 1..Len(site) :
      site[j].unopt.kind \in {"DIRECT", "REGISTER"} => ValueNow(site[j]) = ValueBefore(site[j])

(***************************************************************************)
(* Only the bytes of variables are written on the stack: what lies beside  *)
(* a variable (another variable, a saved base pointer or a return address) *)
(* stays as it is.                                                         *)
(***************************************************************************)
NeighboursKept ==
  \A a \in Memory :
    (\A j \in 1..Len(site) : site[j].unopt.kind = "DIRECT" =>
       a \notin site[j].unopt.offset..(site[j].unopt.offset + site[j].size - 1))
    => mem[a] = before.mem[a]
=============================================================================
