---------------------------- MODULE MemoryProofs ----------------------------
(***************************************************************************)
(* Proofs about the memory that the handler writes word by word: the live  *)
(* variables that it reads and restores (LocationValues) and the new call  *)
(* stack that it builds (SegmentLayout); and about their composition with  *)
(* the blocks of the heap (HandlerMemory).                                 *)
(***************************************************************************)
EXTENDS HandlerMemory, SequenceLemmas, TLAPS

-----------------------------------------------------------------------------
(***************************************************************************)
(* LocationValues, for every number of variables, all sizes and all places *)
(* of them.                                                                *)
(*                                                                         *)
(* The values that have been read are those at the start of the handler,   *)
(* because nothing is written before all have been read; and a variable    *)
(* that has been restored stays so, because no other one is restored to    *)
(* its place.  The conditions that this needs are those of WellFormed.     *)
(***************************************************************************)
Variable == 1..Len(site)

\* Where a variable is restored to.
Direct(j)     == site[j].unopt.kind = "DIRECT"
InRegister(j) == site[j].unopt.kind = "REGISTER"
Slots(j)      == site[j].unopt.offset..(site[j].unopt.offset + site[j].size - 1)

(***************************************************************************)
(* What the compiler guarantees for the variables of a site: they are on   *)
(* the stack or fit in a register, and no two of them are in the same      *)
(* place.  Beyond that, what the code needs, since it does not extend the  *)
(* sign of a constant: one that is recorded as an int32_t is no wider.     *)
(* Nothing is assumed of what follows it in memory.                        *)
(***************************************************************************)
WellFormed ==
  /\ \A j \in Variable :
       /\ Direct(j) => Slots(j) \subseteq Memory
       /\ InRegister(j) => site[j].size <= 2
       /\ site[j].opt.kind = "CONSTANT" => site[j].size <= 1
  /\ \A m, j \in Variable : m # j =>
       /\ Direct(m) /\ Direct(j) => Slots(m) \cap Slots(j) = {}
       /\ InRegister(m) /\ InRegister(j) => site[m].unopt.offset # site[j].unopt.offset

-----------------------------------------------------------------------------
LocationTypeInv ==
  /\ site \in Sites
  /\ pc \in {"read", "restore", "done", "exited", "crashed"}
  /\ mem = [a \in Memory |-> mem[a]]
  /\ registers = [a \in 0..(2 * REGISTER_COUNT - 1) |-> registers[a]]
  /\ IsSeq(sizes) /\ IsSeq(values)
  /\ written \in Nat

PhaseInv ==
  /\ Len(values) <= Len(sizes) /\ Len(sizes) <= Len(site)
  /\ pc = "read" => /\ Len(sizes) = Len(values) /\ Len(values) < Len(site) /\ written = 0
                    /\ mem = before.mem /\ registers = before.registers
  /\ pc = "restore" => Len(values) = Len(site) /\ written < Len(site)
  /\ pc = "done" => Len(values) = Len(site) /\ written = Len(site)
  /\ pc \in {"restore", "done"} => \A j \in 1..written : Implemented(site[j].unopt)

\* What has been read.
SizeInv ==
  \A j \in 1..Len(sizes) :
    sizes[j][1] = site[j].size /\ \E b \in Beyond : sizes[j] = <<site[j].size, b>>

ValueInv ==
  \A j \in 1..Len(values) :
    /\ Len(values[j]) = site[j].size
    /\ WellFormed => \A k \in 1..site[j].size : values[j][k] = ValueBefore(site[j])[k]

\* What has been restored.
RestoredInv ==
  WellFormed /\ pc \in {"restore", "done"} =>
    \A j \in 1..written : Direct(j) \/ InRegister(j) =>
      \A k \in 1..site[j].size : ValueNow(site[j])[k] = ValueBefore(site[j])[k]

LocationInv == LocationTypeInv /\ PhaseInv /\ SizeInv /\ ValueInv /\ RestoredInv /\ NeighboursKept

-----------------------------------------------------------------------------
\* The types of the variables of a site.
LEMMA SiteTypes ==
  ASSUME LocationTypeInv
  PROVE  /\ Len(site) \in Nat \ {0}
         /\ \A j \in Variable : /\ site[j].size \in Nat
                                /\ site[j].opt.offset \in Int
                                /\ site[j].unopt.offset \in Int
BY SiteAssumption DEF LocationTypeInv, Variable

\* No variable has been read or restored.
LEMMA InitLocationInv == Init => LocationInv
<1> SUFFICES ASSUME Init PROVE LocationInv
  OBVIOUS
<1>1. IsSeq(<<>>) /\ Len(<<>>) = 0
  BY DEF IsSeq
<1>2. LocationTypeInv
  BY <1>1 DEF Init, LocationTypeInv
<1>3. Len(site) \in Nat \ {0}
  BY <1>2, SiteTypes
<1>4. PhaseInv
  BY <1>1, <1>3 DEF Init, PhaseInv
<1>5. SizeInv /\ ValueInv /\ RestoredInv
  BY <1>1 DEF Init, SizeInv, ValueInv, RestoredInv
<1>6. NeighboursKept
  BY DEF Init, NeighboursKept
<1> QED
  BY <1>2, <1>4, <1>5, <1>6 DEF LocationInv

(***************************************************************************)
(* One step of get_locations: memory is still as it was, so the value read *)
(* is the one the variable had.                                            *)
(***************************************************************************)
LEMMA ReadStep == LocationInv /\ get_location => LocationInv'
<1> SUFFICES ASSUME LocationInv, get_location PROVE LocationInv'
  OBVIOUS
<1> DEFINE j   == Len(values) + 1
           opt == site[j].opt
<1>1. /\ LocationTypeInv /\ PhaseInv /\ SizeInv /\ ValueInv /\ NeighboursKept
      /\ pc = "read" /\ UNCHANGED <<site, constants, mem, registers, before, written>>
  BY DEF LocationInv, get_location
<1>2. PICK b1 \in Beyond, b2 \in Beyond :
        LET loc_size == Units(SizeLocation(j), sizeof_uint64_t, b1)
            fits     == loc_size[2] = 0
        IN  /\ sizes' = Append(sizes, loc_size)
            /\ values' = IF fits /\ Implemented(opt)
                         THEN Append(values, Units(opt, loc_size[1], b2)) ELSE values
            /\ pc' = CASE ~Implemented(opt)           -> "exited"
                       [] Implemented(opt) /\ ~fits -> "crashed"
                       [] OTHER -> IF j = Len(site) THEN "restore" ELSE "read"
  BY DEF get_location
<1> DEFINE loc_size == Units(SizeLocation(j), sizeof_uint64_t, b1)
           fits     == loc_size[2] = 0
           read     == Units(opt, loc_size[1], b2)
<1>3. /\ sizes' = Append(sizes, loc_size)
      /\ fits /\ Implemented(opt) =>
           values' = Append(values, read) /\ pc' = IF j = Len(site) THEN "restore" ELSE "read"
      /\ ~(fits /\ Implemented(opt)) => values' = values /\ pc' \in {"crashed", "exited"}
  BY <1>2
<1>4. /\ Len(site) \in Nat \ {0} /\ Len(values) \in Nat /\ Len(sizes) = Len(values)
      /\ j \in Variable /\ j \in 1..Len(site) /\ IsSeq(sizes) /\ IsSeq(values)
      /\ site[j].size \in Nat /\ opt.offset \in Int /\ written = 0
      /\ mem = before.mem /\ registers = before.registers
  <2>1. /\ Len(site) \in Nat \ {0} /\ Len(values) \in Nat /\ Len(sizes) = Len(values)
        /\ Len(values) < Len(site) /\ written = 0 /\ IsSeq(sizes) /\ IsSeq(values)
        /\ mem = before.mem /\ registers = before.registers
    BY <1>1, SiteTypes DEF LocationTypeInv, PhaseInv, IsSeq
  <2>2. j \in Variable /\ j \in 1..Len(site)
    BY <2>1 DEF Variable
  <2> QED BY <1>1, <2>1, <2>2, SiteTypes
<1>5. loc_size[1] = site[j].size /\ loc_size = <<site[j].size, b1>>
  <2>1. SizeLocation(j).kind = "CONSTANT" /\ SizeLocation(j).offset = site[j].size
    BY DEF SizeLocation
  <2>2. sizeof_uint64_t \in Nat /\ 1 \in 1..sizeof_uint64_t
    BY DEF sizeof_uint64_t
  <2>3. loc_size = [k \in 1..2 |-> IF k = 1 THEN site[j].size ELSE b1]
    BY <2>1 DEF Units, sizeof_uint64_t
  <2> HIDE DEF loc_size
  <2> QED BY <2>3
<1>6. Len(read) = site[j].size
  <2>1. read = Units(opt, site[j].size, b2)
    BY <1>5
  <2> HIDE DEF read, opt
  <2> QED BY <1>4, <2>1 DEF Units
<1>7. ASSUME WellFormed, Implemented(opt), NEW k \in 1..site[j].size
      PROVE  read[k] = ValueBefore(site[j])[k]
  <2>1. opt.kind \in {"REGISTER", "DIRECT", "CONST_INDEX", "CONSTANT"}
    BY <1>7 DEF Implemented
  <2>2. read = Units(opt, site[j].size, b2)
    BY <1>5
  <2>3. opt.kind = "CONSTANT" => k = 1
    BY <1>4, <1>7 DEF WellFormed
  <2>4. CASE opt.kind = "CONSTANT"
    <3>1. read[k] = IF k = 1 THEN opt.offset ELSE b2
      BY <2>2, <2>4 DEF Units
    <3>2. ValueBefore(site[j])[k] = IF k = 1 THEN opt.offset ELSE IF opt.offset < 0 THEN -1 ELSE 0
      BY <2>4 DEF ValueBefore
    <3> QED BY <1>4, <2>3, <2>4, <3>1, <3>2
  <2>5. CASE opt.kind # "CONSTANT"
    <3>1. read[k] = Units(opt, site[j].size, b2)[k]
      BY <2>2
    <3> HIDE DEF read
    <3> QED BY <1>4, <2>1, <2>5, <3>1 DEF Units, ValueBefore
  <2> QED BY <2>4, <2>5
<1> HIDE DEF loc_size, fits, read
<1> HIDE DEF opt
<1>8. /\ IsSeq(sizes') /\ Len(sizes') = j /\ sizes'[j] = loc_size
      /\ \A m \in 1..Len(sizes) : sizes'[m] = sizes[m]
  BY <1>3, <1>4, AppendAny
<1>9. /\ fits /\ Implemented(opt) =>
           /\ IsSeq(values') /\ Len(values') = j /\ values'[j] = read
           /\ \A m \in 1..Len(values) : values'[m] = values[m]
      /\ ~(fits /\ Implemented(opt)) => values' = values
  <2>1. CASE fits /\ Implemented(opt)
    <3>1. values' = Append(values, read)
      BY <1>3, <2>1
    <3> QED BY <1>4, <2>1, <3>1, AppendAny
  <2>2. CASE ~(fits /\ Implemented(opt))
    BY <1>3, <2>2
  <2> QED BY <2>1, <2>2
<1>10. LocationTypeInv'
  BY <1>1, <1>3, <1>4, <1>8, <1>9 DEF LocationTypeInv
<1>11. PhaseInv'
  <2>1. Len(values') <= Len(sizes') /\ Len(sizes') <= Len(site)
    BY <1>4, <1>8, <1>9
  <2>2. CASE fits /\ Implemented(opt)
    BY <1>1, <1>3, <1>4, <1>8, <1>9, <2>1, <2>2 DEF PhaseInv
  <2>3. CASE ~(fits /\ Implemented(opt))
    BY <1>1, <1>3, <2>1, <2>3 DEF PhaseInv
  <2> QED BY <2>2, <2>3
<1>12. SizeInv'
  <2> SUFFICES ASSUME NEW m \in 1..Len(sizes')
               PROVE  /\ sizes'[m][1] = site[m].size
                      /\ \E b \in Beyond : sizes'[m] = <<site[m].size, b>>
    BY <1>1 DEF SizeInv
  <2>1. CASE m = j
    BY <1>5, <1>8, <2>1
  <2>2. CASE m # j
    <3>1. m \in 1..Len(sizes)
      BY <1>4, <1>8, <2>2
    <3> QED BY <1>1, <1>8, <3>1 DEF SizeInv
  <2> QED BY <2>1, <2>2
<1>13. \A v : ValueBefore(v)' = ValueBefore(v)
  BY <1>1 DEF ValueBefore
<1>14. WellFormed' = WellFormed
  BY <1>1 DEF WellFormed, Variable, Direct, InRegister, Slots
<1>15. ValueInv'
  <2> SUFFICES ASSUME NEW m \in 1..Len(values')
               PROVE  /\ Len(values'[m]) = site[m].size
                      /\ WellFormed => \A k \in 1..site[m].size :
                                         values'[m][k] = ValueBefore(site[m])[k]
    BY <1>1, <1>13, <1>14 DEF ValueInv
  <2>1. CASE m \in 1..Len(values)
    <3>1. values'[m] = values[m]
      BY <1>9, <2>1
    <3> QED BY <1>1, <2>1, <3>1 DEF ValueInv
  <2>2. CASE m \notin 1..Len(values)
    <3>1. fits /\ Implemented(opt) /\ m = j
      BY <1>4, <1>9, <2>2
    <3>2. values'[m] = read
      BY <1>9, <3>1
    <3> QED BY <1>6, <1>7, <3>1, <3>2
  <2> QED BY <2>1, <2>2
<1>16. RestoredInv'
  BY <1>1, <1>4 DEF RestoredInv
<1>17. NeighboursKept'
  BY <1>1 DEF NeighboursKept
<1> QED
  BY <1>10, <1>11, <1>12, <1>15, <1>16, <1>17 DEF LocationInv

(***************************************************************************)
(* One step of restore_unopt_stack: it changes the place of one variable,  *)
(* in which no other variable is.                                          *)
(***************************************************************************)
LEMMA RestoreStep == LocationInv /\ restore_location => LocationInv'
<1> SUFFICES ASSUME LocationInv, restore_location PROVE LocationInv'
  OBVIOUS
<1> DEFINE j     == written + 1
           unopt == site[j].unopt
<1>1. /\ LocationTypeInv /\ PhaseInv /\ SizeInv /\ ValueInv /\ RestoredInv /\ NeighboursKept
      /\ pc = "restore" /\ written' = j
      /\ pc' = IF ~Implemented(unopt) THEN "exited" ELSE IF j = Len(site) THEN "done" ELSE pc
      /\ UNCHANGED <<site, constants, before, sizes, values>>
  BY DEF LocationInv, restore_location, MayRestore
<1>2. /\ Len(site) \in Nat \ {0} /\ Len(values) = Len(site) /\ Len(sizes) = Len(site)
      /\ written \in Nat /\ j \in 1..Len(site) /\ Variable = 1..Len(site)
      /\ \A m \in 1..Len(site) : site[m].size \in Nat /\ site[m].unopt.offset \in Int
      /\ \A m \in 1..written : Implemented(site[m].unopt)
  <2>1. /\ Len(site) \in Nat \ {0} /\ written \in Nat /\ written < Len(site)
        /\ Len(values) = Len(site) /\ Len(values) <= Len(sizes) /\ Len(sizes) <= Len(site)
        /\ Len(sizes) \in Nat /\ \A m \in 1..written : Implemented(site[m].unopt)
    BY <1>1, SiteTypes DEF LocationTypeInv, PhaseInv, IsSeq
  <2>2. \A m \in 1..Len(site) : site[m].size \in Nat /\ site[m].unopt.offset \in Int
    BY <1>1, SiteTypes DEF Variable
  <2> QED BY <2>1, <2>2 DEF Variable
<1>3. CopySize(j) = site[j].size
  BY <1>1, <1>2 DEF CopySize, SizeInv
<1>4. DOMAIN mem = Memory /\ DOMAIN registers = 0..31
  BY <1>1 DEF LocationTypeInv, REGISTER_COUNT
<1>5. ASSUME WellFormed, NEW k \in 1..site[j].size, NEW b
      PROVE  Copied(j, k, b) = ValueBefore(site[j])[k]
  <2>1. Len(values[j]) = site[j].size /\ values[j][k] = ValueBefore(site[j])[k]
    BY <1>1, <1>2, <1>5 DEF ValueInv
  <2> QED BY <1>2, <2>1 DEF Copied
<1>6. \A v : ValueBefore(v)' = ValueBefore(v)
  BY <1>1 DEF ValueBefore
<1>7. /\ WellFormed' = WellFormed
      /\ \A m : Direct(m)' = Direct(m) /\ InRegister(m)' = InRegister(m)
  BY <1>1 DEF WellFormed, Variable, Direct, InRegister, Slots
<1>8. SizeInv' /\ ValueInv'
  BY <1>1, <1>6, <1>7 DEF SizeInv, ValueInv
<1>9. PhaseInv'
  <2>1. pc' \in {"restore", "done"} => \A m \in 1..j : Implemented(site[m].unopt)
    <3>1. pc' \in {"restore", "done"} => Implemented(unopt)
      BY <1>1
    <3>2. \A m \in 1..j : m = j \/ m \in 1..written
      BY <1>2
    <3> QED BY <1>2, <3>1, <3>2
  <2> QED BY <1>1, <1>2, <2>1 DEF PhaseInv, Implemented, assert_valid_reg_num
<1>10. \A m \in 1..written : WellFormed /\ (Direct(m) \/ InRegister(m)) =>
         \A k \in 1..site[m].size : ValueNow(site[m])[k] = ValueBefore(site[m])[k]
  BY <1>1 DEF RestoredInv
<1>11. \A m : ~(Direct(m) /\ InRegister(m))
  BY DEF Direct, InRegister
<1>12. \A m : \A k \in 1..site[m].size :
         /\ Direct(m) => /\ ValueNow(site[m])[k] = mem[site[m].unopt.offset + k - 1]
                         /\ ValueNow(site[m])'[k] = mem'[site[m].unopt.offset + k - 1]
         /\ InRegister(m) =>
              /\ ValueNow(site[m])[k] = registers[2 * site[m].unopt.offset + k - 1]
              /\ ValueNow(site[m])'[k] = registers'[2 * site[m].unopt.offset + k - 1]
  BY <1>1 DEF ValueNow, Direct, InRegister, Register
<1> DEFINE Kept == \A m \in 1..j : Direct(m) \/ InRegister(m) =>
                     \A k \in 1..site[m].size : ValueNow(site[m])'[k] = ValueBefore(site[m])[k]
<1> DEFINE Goal == LocationTypeInv' /\ NeighboursKept' /\ (WellFormed /\ Implemented(unopt) => Kept)
<1>13. ASSUME unopt.kind = "DIRECT",
              \E b \in AfterBlock : mem' = Put(mem, unopt.offset, CopySize(j), j, b),
              UNCHANGED registers
       PROVE  Goal
  <2>1. PICK b \in AfterBlock : mem' = Put(mem, unopt.offset, site[j].size, j, b)
    BY <1>3, <1>13
  <2>2. /\ DOMAIN mem' = Memory /\ mem' = [a \in Memory |-> mem'[a]]
        /\ \A a \in Memory : /\ a \in Slots(j) => mem'[a] = Copied(j, a - unopt.offset + 1, b)
                             /\ a \notin Slots(j) => mem'[a] = mem[a]
    BY <1>4, <2>1 DEF Put, Slots
  <2>3. LocationTypeInv'
    BY <1>1, <1>2, <1>13, <2>2 DEF LocationTypeInv
  <2>4. NeighboursKept'
    <3> SUFFICES ASSUME NEW a \in Memory,
                        \A m \in 1..Len(site) : site[m].unopt.kind = "DIRECT" => a \notin Slots(m)
                 PROVE  mem'[a] = before.mem[a]
      BY <1>1 DEF NeighboursKept, Slots
    <3>1. a \notin Slots(j)
      BY <1>2, <1>13
    <3>2. mem[a] = before.mem[a]
      BY <1>1 DEF NeighboursKept, Slots
    <3> QED BY <2>2, <3>1, <3>2
  <2>5. ASSUME WellFormed, NEW m \in 1..j, Direct(m) \/ InRegister(m), NEW k \in 1..site[m].size
        PROVE  ValueNow(site[m])'[k] = ValueBefore(site[m])[k]
    <3>0. Direct(j) /\ m \in 1..Len(site)
      BY <1>2, <1>13 DEF Direct
    <3> DEFINE a == site[m].unopt.offset + k - 1
    <3>1. Direct(m) => a \in Slots(m) /\ a \in Memory
      BY <1>2, <2>5, <3>0 DEF Slots, WellFormed
    <3>2. CASE m = j
      <4>1. mem'[a] = Copied(j, a - unopt.offset + 1, b)
        BY <2>2, <3>0, <3>1, <3>2
      <4>2. a - unopt.offset + 1 = k
        BY <1>2, <3>0, <3>2
      <4> QED BY <1>5, <1>12, <2>5, <3>0, <3>2, <4>1, <4>2
    <3>3. CASE m # j /\ Direct(m)
      <4>1. a \notin Slots(j)
        BY <1>2, <2>5, <3>0, <3>1, <3>3 DEF WellFormed
      <4>2. mem'[a] = mem[a]
        BY <2>2, <3>1, <3>3, <4>1
      <4>3. m \in 1..written
        BY <1>2, <3>3
      <4> QED BY <1>10, <1>12, <2>5, <3>3, <4>2, <4>3
    <3>4. CASE m # j /\ InRegister(m)
      <4>1. m \in 1..written /\ registers' = registers
        BY <1>2, <1>13, <3>4
      <4> QED BY <1>10, <1>12, <2>5, <3>4, <4>1
    <3> QED BY <2>5, <3>2, <3>3, <3>4
  <2>6. WellFormed => Kept
    BY <2>5
  <2> QED BY <2>3, <2>4, <2>6
<1>14. ASSUME unopt.kind = "REGISTER",
              assert_valid_reg_num(unopt),
              \E b \in AfterBlock :
                registers' = Put(registers, Register(unopt.offset), sizeof_uint64_t, j, b),
              UNCHANGED mem
       PROVE  Goal
  <2> DEFINE at == 2 * unopt.offset
  <2>1. PICK b \in AfterBlock : registers' = Put(registers, at, 2, j, b)
    BY <1>14 DEF Register, sizeof_uint64_t
  <2>2. /\ DOMAIN registers' = 0..31 /\ registers' = [a \in 0..31 |-> registers'[a]]
        /\ \A a \in 0..31 :
             /\ a \in at..(at + 1) => registers'[a] = Copied(j, a - at + 1, b)
             /\ a \notin at..(at + 1) => registers'[a] = registers[a]
    <3>1. unopt.offset \in Int
      BY <1>2
    <3>2. at..(at + 2 - 1) = at..(at + 1)
      BY <3>1
    <3> QED BY <1>4, <2>1, <3>2 DEF Put
  <2>3. LocationTypeInv'
    <3>1. 2 * REGISTER_COUNT - 1 = 31
      BY DEF REGISTER_COUNT
    <3>2. registers' = [a \in 0..(2 * REGISTER_COUNT - 1) |-> registers'[a]]
      BY Zenon, <2>2, <3>1
    <3>3. pc' \in {"read", "restore", "done", "exited", "crashed"} /\ written' \in Nat
      BY <1>1, <1>2
    <3> QED BY Zenon, <1>1, <1>14, <3>2, <3>3 DEF LocationTypeInv, IsSeq
  <2>4. NeighboursKept'
    BY <1>1, <1>14 DEF NeighboursKept
  <2>5. ASSUME WellFormed, NEW m \in 1..j, Direct(m) \/ InRegister(m), NEW k \in 1..site[m].size
        PROVE  ValueNow(site[m])'[k] = ValueBefore(site[m])[k]
    <3>0. InRegister(j) /\ m \in 1..Len(site) /\ unopt.offset \in 0..15
      BY <1>2, <1>14 DEF InRegister, assert_valid_reg_num, REGISTER_COUNT
    <3> DEFINE o == site[m].unopt.offset
               a == 2 * o + k - 1
    <3>1. InRegister(m) => site[m].unopt.offset \in 0..15 /\ k \in 1..2
      <4>1. CASE m = j
        BY <1>2, <2>5, <3>0, <4>1 DEF WellFormed
      <4>2. CASE m # j
        <5>1. m \in 1..written
          BY <1>2, <4>2
        <5>2. Implemented(site[m].unopt)
          BY <1>2, <5>1
        <5>3. InRegister(m) => site[m].unopt.offset \in 0..15
          BY <5>2 DEF Implemented, assert_valid_reg_num, InRegister, REGISTER_COUNT
        <5> QED BY <1>2, <2>5, <3>0, <5>3 DEF WellFormed
      <4> QED BY <4>1, <4>2
    <3>2. InRegister(m) => a \in 0..31
      <4> SUFFICES ASSUME InRegister(m) PROVE a \in 0..31
        OBVIOUS
      <4>1. o \in 0..15 /\ k \in 1..2
        BY <3>1
      <4> HIDE DEF o
      <4> QED BY <4>1
    <3>3. CASE m = j
      <4>1. a \in at..(at + 1) /\ a - at + 1 = k
        <5>1. at = 2 * o /\ o \in 0..15 /\ k \in 1..2
          BY <3>0, <3>1, <3>3
        <5> HIDE DEF at, o
        <5> QED BY <5>1
      <4>2. registers'[a] = Copied(j, k, b)
        BY <2>2, <3>0, <3>2, <3>3, <4>1
      <4> QED BY <1>5, <1>12, <2>5, <3>0, <3>3, <4>2
    <3>4. CASE m # j /\ InRegister(m)
      <4>1. site[m].unopt.offset # unopt.offset
        BY <1>2, <2>5, <3>0, <3>4 DEF WellFormed
      <4>2. a \notin at..(at + 1)
        <5> DEFINE u == unopt.offset
        <5>1. u \in 0..15 /\ o \in 0..15 /\ o # u /\ k \in 1..2 /\ at = 2 * u
          BY <3>0, <3>1, <3>4, <4>1
        <5> HIDE DEF at, o, u
        <5> QED BY <5>1
      <4>3. registers'[a] = registers[a]
        <5> HIDE DEF a, at
        <5> QED BY <2>2, <3>2, <3>4, <4>2
      <4>4. m \in 1..written
        BY <1>2, <3>4
      <4> QED BY <1>10, <1>12, <2>5, <3>4, <4>3, <4>4
    <3>5. CASE m # j /\ Direct(m)
      <4>1. m \in 1..written /\ mem' = mem
        BY <1>2, <1>14, <3>5
      <4> QED BY <1>10, <1>12, <2>5, <3>5, <4>1
    <3> QED BY <2>5, <3>3, <3>4, <3>5
  <2>6. WellFormed => Kept
    BY <2>5
  <2> QED BY <2>3, <2>4, <2>6
<1>15. ASSUME unopt.kind \in {"CONSTANT", "CONST_INDEX"} \/ ~Implemented(unopt),
              UNCHANGED <<mem, registers>>
       PROVE  Goal
  <2>1. LocationTypeInv'
    BY <1>1, <1>2, <1>15 DEF LocationTypeInv
  <2>2. NeighboursKept'
    BY <1>1, <1>15 DEF NeighboursKept
  <2>3. ASSUME WellFormed, Implemented(unopt), NEW m \in 1..j, Direct(m) \/ InRegister(m),
               NEW k \in 1..site[m].size
        PROVE  ValueNow(site[m])'[k] = ValueBefore(site[m])[k]
    <3>1. m # j
      BY <1>15, <2>3 DEF Direct, InRegister
    <3>2. m \in 1..written
      BY <1>2, <3>1
    <3> QED BY <1>10, <1>12, <1>15, <2>3, <3>2
  <2>4. WellFormed /\ Implemented(unopt) => Kept
    BY <2>3
  <2> QED BY <2>1, <2>2, <2>4
<1>16. Goal
  BY <1>13, <1>14, <1>15 DEF restore_location
<1>17. RestoredInv'
  <2> SUFFICES ASSUME WellFormed, pc' \in {"restore", "done"} PROVE Kept
    BY <1>1, <1>6, <1>7 DEF RestoredInv
  <2>1. Implemented(unopt)
    BY <1>1
  <2> QED BY <1>16, <2>1
<1> QED
  BY <1>8, <1>9, <1>16, <1>17 DEF LocationInv

\* Every step keeps the invariant.
LEMMA NextLocationInv == LocationInv /\ [Next]_vars => LocationInv'
<1> SUFFICES ASSUME LocationInv, [Next]_vars PROVE LocationInv'
  OBVIOUS
<1>1. CASE get_location
  BY <1>1, ReadStep
<1>2. CASE restore_location
  BY <1>2, RestoreStep
<1>3. CASE UNCHANGED vars
  <2>1. \A v : ValueBefore(v)' = ValueBefore(v) /\ ValueNow(v)' = ValueNow(v)
    BY <1>3 DEF vars, ValueBefore, ValueNow
  <2>2. /\ WellFormed' = WellFormed
        /\ \A m : Direct(m)' = Direct(m) /\ InRegister(m)' = InRegister(m)
    BY <1>3 DEF vars, WellFormed, Variable, Direct, InRegister, Slots
  <2>3. LocationTypeInv' /\ PhaseInv' /\ SizeInv' /\ NeighboursKept'
    BY <1>3 DEF vars, LocationInv, LocationTypeInv, PhaseInv, SizeInv, NeighboursKept
  <2>4. ValueInv' /\ RestoredInv'
    BY <1>3, <2>1, <2>2 DEF vars, LocationInv, ValueInv, RestoredInv
  <2> QED BY <2>3, <2>4 DEF LocationInv
<1> QED
  BY <1>1, <1>2, <1>3 DEF Next, Ended

(***************************************************************************)
(* While get_locations reads the variables and restore_unopt_stack writes  *)
(* them, the values read are those at the start and the variables restored *)
(* keep them.                                                              *)
(***************************************************************************)
THEOREM LocationInvariance == Spec => []LocationInv
<1>1. Init => LocationInv
  BY InitLocationInv
<1>2. LocationInv /\ [Next]_vars => LocationInv'
  BY NextLocationInv
<1> QED
  BY <1>1, <1>2, PTL DEF Spec

(***************************************************************************)
(* restore_unopt_stack writes nothing on the stack but the variables, also *)
(* when their places overlap or are not in the memory of the stack.        *)
(***************************************************************************)
THEOREM OnlyVariablesWritten == Spec => []NeighboursKept
<1>1. LocationInv => NeighboursKept
  BY DEF LocationInv
<1> QED
  BY <1>1, LocationInvariance, PTL

(***************************************************************************)
(* If the sites are as the compiler should make them, every variable has   *)
(* its old value in its new place when restore_unopt_stack returns,        *)
(* although it may have overwritten the old places of others.              *)
(***************************************************************************)
THEOREM WellFormedRestored == Spec => [](WellFormed => VariablesRestored)
<1>1. LocationInv => (WellFormed => VariablesRestored)
  <2> SUFFICES ASSUME LocationInv, WellFormed, pc = "done", NEW j \in 1..Len(site),
                      site[j].unopt.kind \in {"DIRECT", "REGISTER"}
               PROVE  ValueNow(site[j]) = ValueBefore(site[j])
    BY DEF VariablesRestored
  <2>1. written = Len(site)
    BY DEF LocationInv, PhaseInv
  <2>2. \A k \in 1..site[j].size : ValueNow(site[j])[k] = ValueBefore(site[j])[k]
    BY <2>1 DEF LocationInv, RestoredInv, Direct, InRegister
  <2>3. /\ ValueNow(site[j]) = [k \in 1..site[j].size |-> ValueNow(site[j])[k]]
        /\ ValueBefore(site[j]) = [k \in 1..site[j].size |-> ValueBefore(site[j])[k]]
    <3> DEFINE var == site[j]
               old(k) == CASE var.opt.kind = "REGISTER"    -> before.registers[Register(var.opt.offset) + k - 1]
                           [] var.opt.kind = "DIRECT"      -> before.mem[var.opt.offset + k - 1]
                           [] var.opt.kind = "CONST_INDEX" -> constants[var.opt.offset + 1][k]
                           [] var.opt.kind = "CONSTANT"    -> IF k = 1 THEN var.opt.offset
                                                              ELSE IF var.opt.offset < 0 THEN -1 ELSE 0
    <3>1. ValueBefore(site[j]) = [k \in 1..site[j].size |-> old(k)]
      BY Zenon DEF ValueBefore
    <3> HIDE DEF old, var
    <3> QED BY <3>1 DEF ValueNow
  <2> QED BY Zenon, <2>2, <2>3
<1> QED
  BY <1>1, LocationInvariance, PTL

-----------------------------------------------------------------------------
(***************************************************************************)
(* SegmentLayout, for every number of frames and all frame sizes.          *)
(*                                                                         *)
(* The inductive invariant says what each of the three loops has achieved  *)
(* in terms of the sums that the first one went through: frame k of the    *)
(* segment is the interval of FrameTotal(k) words that starts counted[k]   *)
(* words above Start.  The intervals are disjoint, so that no write of one *)
(* iteration can undo one of another iteration.                            *)
(***************************************************************************)
\* The frames whose size has been added, and those that have a base pointer.
Measured == IF loop = "total" THEN i - 1 ELSE Depth
Placed   == CASE loop = "total" -> 0 [] loop = "insert" -> i - 1 [] OTHER -> Depth

\* The base pointer that frame k is to have in the segment.
BpOf(k) == Start + counted[k] + size[k] - ADDR_SIZE

-----------------------------------------------------------------------------
SegmentTypeInv ==
  /\ size \in [Frames -> Sizes]
  /\ loop \in {"total", "insert", "link", "done"}
  /\ i \in Nat
  /\ total \in Nat
  /\ cur_bp \in Int
  /\ bp \in [Frames -> Int]
  /\ counted \in [Frames -> Nat]
  /\ DOMAIN seg \subseteq Int

LoopInv ==
  /\ loop \in {"total", "insert"} => i \in Frames
  /\ loop = "link" => i \in 2..(Depth + 1)
  /\ loop = "done" => i = Depth + 1

\* The sums of the first loop: the intervals of the frames are disjoint.
SumInv ==
  /\ 0 < Measured => counted[1] = 0
  /\ \A k, l \in 1..Measured : k < l => counted[k] + FrameTotal(k) <= counted[l]
  /\ \A k \in 1..Measured : k < Measured => counted[k + 1] = counted[k] + FrameTotal(k)
  /\ \A k \in 1..Measured : counted[k] + FrameTotal(k) <= total
  /\ total = IF Measured = 0 THEN 0 ELSE counted[Measured] + FrameTotal(Measured)

\* The base pointers of the second loop, and the one it or the third goes on from.
BpInv ==
  /\ \A k \in 1..Placed : bp[k] = BpOf(k)
  /\ loop = "insert" => cur_bp = BpOf(i)
  /\ loop = "link" /\ i > 2 => cur_bp = OnStack(i - 1)

\* The words written: a return address and, unless it is the last, a link.
WordsInv ==
  /\ \A a \in DOMAIN seg : \E k \in 1..Placed : a \in {bp[k], bp[k] + ADDR_SIZE}
  /\ \A k \in 1..Placed : /\ bp[k] + ADDR_SIZE \in DOMAIN seg
                          /\ seg[bp[k] + ADDR_SIZE] = Return(k)
  /\ \A k \in 1..Placed : k < Placed => bp[k] \in DOMAIN seg
  /\ loop \in {"link", "done"} =>
       \A k \in Frames : k < i - 1 => seg[bp[k]] = OnStack(k + 1)

StackInv ==
  loop = "done" => \A a \in DOMAIN seg : stack[MainBp + (a - Start)] = seg[a]

SegmentInv == SegmentTypeInv /\ LoopInv /\ SumInv /\ BpInv /\ WordsInv /\ StackInv
-----------------------------------------------------------------------------
\* Sizes of frames are positive numbers.
LEMMA SizeTypes ==
  ASSUME SegmentTypeInv
  PROVE  \A k \in Frames : /\ size[k] \in Nat \ {0}
                           /\ counted[k] \in Nat
                           /\ bp[k] \in Int
                           /\ FrameTotal(k) = size[k] + 1
                           /\ BpOf(k) = Start + counted[k] + size[k] - 1
                           /\ BpOf(k) \in Int
<1> TAKE k \in Frames
<1>1. size[k] \in Sizes /\ counted[k] \in Nat /\ bp[k] \in Int
  BY DEF SegmentTypeInv
<1>2. size[k] \in Nat \ {0} /\ Start \in Nat
  BY <1>1, SegmentAssumption
<1> QED
  BY <1>1, <1>2 DEF FrameTotal, BpOf, ADDR_SIZE

\* The words that two frames use for links and return addresses differ.
LEMMA FramesApart ==
  ASSUME SegmentTypeInv, SumInv,
         NEW k \in 1..Measured, NEW l \in 1..Measured, k < l, Measured \in 0..Depth
  PROVE  BpOf(k) + 1 < BpOf(l)
<1>1. counted[k] + FrameTotal(k) <= counted[l]
  BY DEF SumInv
<1>2. k \in Frames /\ l \in Frames
  BY SegmentAssumption DEF Frames
<1> QED
  BY <1>1, <1>2, SizeTypes, SegmentAssumption

-----------------------------------------------------------------------------
\* Before the loops nothing is counted or written.
LEMMA InitSegmentInv == SegmentInit => SegmentInv
<1> SUFFICES ASSUME SegmentInit PROVE SegmentInv
  OBVIOUS
<1> USE SegmentAssumption DEF SegmentInit
<1>1. SegmentTypeInv
  BY DEF SegmentTypeInv, Frames
<1>2. LoopInv
  BY DEF LoopInv, Frames
<1>3. Measured = 0 /\ Placed = 0 /\ 1..0 = {}
  BY DEF Measured, Placed
<1>4. SumInv
  BY <1>3 DEF SumInv
<1>5. BpInv
  BY <1>3 DEF BpInv
<1>6. WordsInv
  BY <1>3 DEF WordsInv
<1> QED
  BY <1>1, <1>2, <1>4, <1>5, <1>6 DEF SegmentInv, StackInv

\* One iteration of the first loop adds one interval above the others.
LEMMA TotalStep == SegmentInv /\ get_total_stack_size => SegmentInv'
<1> SUFFICES ASSUME SegmentInv, get_total_stack_size PROVE SegmentInv'
  OBVIOUS
<1> USE SegmentAssumption
<1>1. /\ SegmentTypeInv /\ LoopInv /\ SumInv /\ BpInv /\ WordsInv
      /\ loop = "total" /\ i \in 1..Depth /\ Measured = i - 1 /\ Placed = 0
  BY DEF SegmentInv, LoopInv, Measured, Placed, get_total_stack_size, Frames
<1>2. /\ FrameTotal(i) = size[i] + 1 /\ size[i] \in Nat \ {0}
      /\ size[1] \in Nat \ {0}
  BY <1>1, SizeTypes DEF Frames
<1>3. SegmentTypeInv'
  <2>1. /\ size' = size /\ bp' = bp /\ seg' = seg
        /\ counted' = [counted EXCEPT ![i] = total] /\ total' = total + FrameTotal(i)
        /\ loop' \in {"total", "insert"} /\ i' \in {1, i + 1}
        /\ cur_bp' \in {cur_bp, Start + size[1] - 1}
    BY <1>1 DEF get_total_stack_size, ADDR_SIZE
  <2>2. counted' \in [Frames -> Nat]
    BY <1>1, <2>1 DEF SegmentTypeInv
  <2>3. i' \in Nat /\ total' \in Nat /\ cur_bp' \in Int
    BY <1>1, <1>2, <2>1 DEF SegmentTypeInv
  <2> QED BY <1>1, <2>1, <2>2, <2>3 DEF SegmentTypeInv
<1>4. LoopInv'
  BY <1>1 DEF LoopInv, get_total_stack_size, Frames
<1>5. Measured' = i /\ Placed' = 0
  BY <1>1 DEF Measured, Placed, get_total_stack_size
<1>6. /\ counted'[i] = total
      /\ \A k \in 1..(i - 1) : counted'[k] = counted[k]
      /\ total' = total + FrameTotal(i)
      /\ \A k \in Frames : FrameTotal(k)' = FrameTotal(k)
  BY <1>1 DEF get_total_stack_size, SegmentTypeInv, Frames, FrameTotal
<1>7. SumInv'
  <2>1. counted'[1] = 0
    <3>1. CASE i = 1
      BY <1>1, <1>6, <3>1 DEF SumInv
    <3>2. CASE i > 1
      BY <1>1, <1>6, <3>2 DEF SumInv
    <3> QED BY <1>1, <3>1, <3>2
  <2>2. ASSUME NEW k \in 1..i
        PROVE  /\ counted'[k] \in Nat /\ FrameTotal(k) \in Nat
               /\ k < i => counted'[k] + FrameTotal(k) <= counted'[i]
               /\ counted'[k] + FrameTotal(k) <= total'
    <3>0. k \in Frames /\ total \in Nat
      BY <1>1 DEF Frames, SegmentTypeInv
    <3>1. counted[k] \in Nat /\ FrameTotal(k) \in Nat /\ total \in Nat
      BY <1>1, <3>0, SizeTypes
    <3>2. k < i => counted[k] + FrameTotal(k) <= total
      BY <1>1 DEF SumInv
    <3> QED BY <1>1, <1>2, <1>6, <3>1, <3>2
  <2>3. ASSUME NEW k \in 1..i, NEW l \in 1..i, k < l
        PROVE  counted'[k] + FrameTotal(k) <= counted'[l]
    <3>1. CASE l = i
      BY <2>2, <2>3, <3>1
    <3>2. CASE l < i
      BY <1>1, <1>6, <2>3, <3>2 DEF SumInv
    <3> QED BY <1>1, <3>1, <3>2
  <2>4. ASSUME NEW k \in 1..i, k < i
        PROVE  counted'[k + 1] = counted'[k] + FrameTotal(k)
    <3>1. CASE k = i - 1
      BY <1>1, <1>6, <2>4, <3>1 DEF SumInv
    <3>2. CASE k < i - 1
      BY <1>1, <1>6, <2>4, <3>2 DEF SumInv
    <3> QED BY <1>1, <2>4, <3>1, <3>2
  <2>5. \A k \in 1..i : FrameTotal(k)' = FrameTotal(k)
    BY <1>1, <1>6 DEF Frames
  <2> QED
    BY <1>1, <1>5, <1>6, <2>1, <2>2, <2>3, <2>4, <2>5 DEF SumInv
<1>8. BpInv'
  <2>1. ASSUME loop' = "insert" PROVE cur_bp' = BpOf(i)'
    <3>1. i' = 1 /\ cur_bp' = Start + size[1] - ADDR_SIZE /\ size' = size
      BY <1>1, <2>1 DEF get_total_stack_size
    <3>2. counted'[1] = 0
      BY <1>1, <1>5, <1>7 DEF SumInv
    <3> QED BY <1>2, <3>1, <3>2 DEF BpOf
  <2>2. loop' # "link"
    BY <1>1 DEF get_total_stack_size
  <2> QED BY <1>5, <2>1, <2>2 DEF BpInv
<1>9. WordsInv' /\ StackInv'
  <2>1. loop' \notin {"link", "done"} /\ seg' = seg
    BY <1>1 DEF get_total_stack_size
  <2> QED BY <1>1, <1>5, <2>1 DEF WordsInv, StackInv
<1> QED
  BY <1>3, <1>4, <1>7, <1>8, <1>9 DEF SegmentInv

\* One iteration of the second loop fills the next interval.
LEMMA InsertStep == SegmentInv /\ insert_real_addresses => SegmentInv'
<1> SUFFICES ASSUME SegmentInv, insert_real_addresses PROVE SegmentInv'
  OBVIOUS
<1> USE SegmentAssumption
<1>1. /\ SegmentTypeInv /\ LoopInv /\ SumInv /\ BpInv /\ WordsInv
      /\ loop = "insert" /\ i \in 1..Depth /\ Measured = Depth /\ Placed = i - 1
  BY DEF SegmentInv, LoopInv, Measured, Placed, insert_real_addresses, Frames
<1>2. Frames = 1..Depth /\ 1..Measured = Frames /\ ADDR_SIZE = 1
  BY <1>1 DEF Frames, ADDR_SIZE
<1>3. /\ cur_bp \in Int
      /\ size' = size /\ counted' = counted /\ total' = total
      /\ bp' = [bp EXCEPT ![i] = cur_bp]
      /\ IF i < Depth THEN i' = i + 1 /\ loop' = "insert"
                      ELSE i' = 2 /\ loop' = "link"
  BY <1>1 DEF SegmentTypeInv, insert_real_addresses
<1>4. Measured' = Depth /\ Placed' = i
  BY <1>1, <1>3 DEF Measured, Placed
<1>5. /\ bp' \in [Frames -> Int]
      /\ \A k \in Frames : bp'[k] = IF k = i THEN cur_bp ELSE bp[k]
  BY <1>1, <1>2, <1>3 DEF SegmentTypeInv
<1>6. \A k \in Frames : BpOf(k)' = BpOf(k) /\ FrameTotal(k)' = FrameTotal(k)
  BY <1>3 DEF BpOf, FrameTotal
<1>7. \A k \in 1..i : bp'[k] = BpOf(k) /\ bp'[k] \in Int
  <2>1. cur_bp = BpOf(i) /\ \A k \in 1..(i - 1) : bp[k] = BpOf(k)
    BY <1>1 DEF BpInv
  <2> QED BY <1>1, <1>2, <1>5, <2>1
<1>8. \A k, l \in 1..i : k < l => bp'[k] + 1 < bp'[l]
  BY <1>1, <1>2, <1>7, FramesApart
<1>9. i < Depth => cur_bp' = BpOf(i + 1)
  <2> SUFFICES ASSUME i < Depth PROVE cur_bp' = BpOf(i + 1)
    OBVIOUS
  <2>1. cur_bp' = cur_bp + size[i + 1] + 1 /\ cur_bp = BpOf(i)
    BY <1>1, <1>2 DEF insert_real_addresses, Above, BpInv
  <2>2. counted[i + 1] = counted[i] + FrameTotal(i)
    BY <1>1, <1>2 DEF SumInv
  <2>3. i \in Frames /\ i + 1 \in Frames
    BY <1>1, <1>2
  <2>4. /\ size[i] \in Nat /\ counted[i] \in Nat /\ size[i + 1] \in Nat
        /\ FrameTotal(i) = size[i] + 1
        /\ BpOf(i) = Start + counted[i] + size[i] - 1
        /\ BpOf(i + 1) = Start + counted[i + 1] + size[i + 1] - 1
    BY <1>1, <2>3, SizeTypes
  <2> QED BY <2>1, <2>2, <2>4
<1>10. cur_bp' \in Int
  <2>1. CASE i < Depth
    BY <1>1, <1>2, <1>9, <2>1, SizeTypes
  <2>2. CASE ~(i < Depth)
    <3>1. PICK s \in Junk : cur_bp' = Above(s)
      BY <2>2 DEF insert_real_addresses
    <3>2. s \in Nat
      BY <3>1
    <3> QED BY <1>2, <1>3, <3>1, <3>2 DEF Above
  <2> QED BY <2>1, <2>2
<1> DEFINE ret == Set(seg, cur_bp + 1, Return(i))
<1>11. seg' = IF i > 1 THEN Set(ret, bp[i - 1], cur_bp) ELSE ret
  BY <1>1, <1>2 DEF insert_real_addresses
<1> HIDE DEF ret
<1>12. /\ DOMAIN ret = DOMAIN seg \cup {cur_bp + 1}
       /\ ret[cur_bp + 1] = Return(i)
       /\ \A a \in DOMAIN seg : a # cur_bp + 1 => ret[a] = seg[a]
  BY Zenon DEF ret, Set
<1>13. /\ DOMAIN seg' = DOMAIN ret \cup (IF i > 1 THEN {bp[i - 1]} ELSE {})
       /\ \A a \in DOMAIN ret : (i > 1 => a # bp[i - 1]) => seg'[a] = ret[a]
  <2>1. CASE i > 1
    BY Zenon, <1>11, <2>1 DEF Set
  <2>2. CASE ~(i > 1)
    BY <1>11, <2>2
  <2> QED BY <2>1, <2>2
<1>14. SegmentTypeInv'
  <2>1. DOMAIN seg' \subseteq Int
    <3>1. i > 1 => bp[i - 1] \in Int
      BY <1>1, <1>2 DEF SegmentTypeInv
    <3>2. DOMAIN seg \subseteq Int /\ cur_bp + 1 \in Int
      BY <1>1, <1>3 DEF SegmentTypeInv
    <3> QED BY <1>12, <1>13, <3>1, <3>2
  <2>2. loop' \in {"insert", "link"} /\ i' \in Nat
    BY <1>1, <1>3
  <2> QED BY <1>1, <1>3, <1>5, <1>10, <2>1, <2>2 DEF SegmentTypeInv
<1>15. LoopInv'
  BY <1>1, <1>2, <1>3 DEF LoopInv, Frames
<1>16. SumInv'
  BY <1>1, <1>2, <1>3, <1>4, <1>6 DEF SumInv
<1>17. BpInv'
  <2>1. \A k \in 1..i : bp'[k] = BpOf(k)'
    BY <1>1, <1>2, <1>6, <1>7
  <2>2. loop' = "insert" => cur_bp' = BpOf(i)'
    <3>1. loop' = "insert" => i < Depth /\ i' = i + 1
      BY <1>3
    <3> QED BY <1>3, <1>9, <3>1 DEF BpOf
  <2>3. ~(loop' = "link" /\ i' > 2)
    BY <1>1, <1>3
  <2> QED BY <1>4, <2>1, <2>2, <2>3 DEF BpInv
<1>18. WordsInv'
  <2>1. ASSUME NEW a \in DOMAIN seg'
        PROVE  \E k \in 1..i : a \in {bp'[k], bp'[k] + 1}
    <3>1. CASE a \in DOMAIN seg
      <4>1. PICK k \in 1..(i - 1) : a \in {bp[k], bp[k] + 1}
        BY <1>1, <1>2, <3>1 DEF WordsInv
      <4>2. k \in 1..i /\ bp'[k] = bp[k]
        BY <1>1, <1>2, <1>5
      <4> QED BY <4>1, <4>2
    <3>2. CASE a = cur_bp + 1
      BY <1>1, <1>2, <1>5, <3>2
    <3>3. CASE i > 1 /\ a = bp[i - 1]
      <4>1. i - 1 \in 1..i /\ bp'[i - 1] = bp[i - 1]
        BY <1>1, <1>2, <1>5, <3>3
      <4> QED BY <3>3, <4>1
    <3> QED BY <1>12, <1>13, <3>1, <3>2, <3>3
  <2>2. ASSUME NEW k \in 1..i
        PROVE  bp'[k] + 1 \in DOMAIN seg' /\ seg'[bp'[k] + 1] = Return(k)
    <3>1. i > 1 => bp[i - 1] = bp'[i - 1] /\ bp'[k] + 1 # bp[i - 1]
      BY <1>1, <1>2, <1>5, <1>7, <1>8
    <3>2. CASE k = i
      BY <1>1, <1>2, <1>5, <1>12, <1>13, <3>1, <3>2
    <3>3. CASE k < i
      <4>1. k \in 1..(i - 1) /\ bp'[k] = bp[k] /\ bp'[i] = cur_bp
        BY <1>1, <1>2, <1>5, <3>3
      <4>2. bp[k] + 1 \in DOMAIN seg /\ seg[bp[k] + 1] = Return(k)
        BY <1>1, <1>2, <4>1 DEF WordsInv
      <4>3. bp[k] + 1 # cur_bp + 1
        BY <1>1, <1>7, <1>8, <3>3, <4>1
      <4> QED BY <1>12, <1>13, <3>1, <4>1, <4>2, <4>3
    <3> QED BY <1>1, <3>2, <3>3
  <2>3. ASSUME NEW k \in 1..i, k < i PROVE bp'[k] \in DOMAIN seg'
    <3>1. bp'[k] = bp[k]
      BY <1>1, <1>2, <1>5, <2>3
    <3>2. CASE k = i - 1
      BY <1>1, <1>13, <2>3, <3>1, <3>2
    <3>3. CASE k < i - 1
      <4>1. bp[k] \in DOMAIN seg
        BY <1>1, <2>3, <3>3 DEF WordsInv
      <4> QED BY <1>12, <1>13, <3>1, <4>1
    <3> QED BY <1>1, <2>3, <3>2, <3>3
  <2>4. loop' \in {"link", "done"} => i' - 1 = 1
    BY <1>3
  <2> QED BY <1>2, <1>4, <2>1, <2>2, <2>3, <2>4 DEF WordsInv, Return
<1>19. StackInv'
  BY <1>3 DEF StackInv
<1> QED
  BY <1>14, <1>15, <1>16, <1>17, <1>18, <1>19 DEF SegmentInv

\* One iteration of the third loop replaces one link.
LEMMA LinkStep == SegmentInv /\ jump_inlined => SegmentInv'
<1> SUFFICES ASSUME SegmentInv, jump_inlined PROVE SegmentInv'
  OBVIOUS
<1> USE SegmentAssumption
<1>1. /\ SegmentTypeInv /\ LoopInv /\ SumInv /\ BpInv /\ WordsInv
      /\ loop = "link" /\ i \in 2..Depth /\ Measured = Depth /\ Placed = Depth
  BY DEF SegmentInv, LoopInv, Measured, Placed, jump_inlined, Frames
<1>2. Frames = 1..Depth /\ ADDR_SIZE = 1 /\ i \in Frames /\ i - 1 \in Frames /\ 1 \in Frames
  BY <1>1 DEF Frames, ADDR_SIZE
<1>3. /\ size' = size /\ loop' = loop /\ total' = total /\ bp' = bp /\ counted' = counted
      /\ i' = i + 1
      /\ seg' = Set(seg, bp[i - 1], cur_bp')
      /\ cur_bp' = (IF i = 2 THEN restored_bp ELSE cur_bp) + size[i] + 1
  BY <1>2 DEF jump_inlined
<1>4. Measured' = Depth /\ Placed' = Depth
  BY <1>1, <1>3 DEF Measured, Placed
<1>5. \A k \in Frames : /\ BpOf(k)' = BpOf(k)
                        /\ FrameTotal(k)' = FrameTotal(k)
                        /\ OnStack(k)' = OnStack(k)
  BY <1>3 DEF BpOf, FrameTotal, OnStack
<1>6. \A k \in Frames : /\ bp[k] = BpOf(k) /\ bp[k] \in Int
                        /\ OnStack(k) = MainBp + counted[k] + size[k] - 1
                        /\ counted[k] \in Nat /\ size[k] \in Nat
  <2> TAKE k \in Frames
  <2>1. bp[k] = BpOf(k)
    BY <1>1, <1>2 DEF BpInv
  <2>2. /\ counted[k] \in Nat /\ size[k] \in Nat
        /\ BpOf(k) = Start + counted[k] + size[k] - 1
    BY <1>1, SizeTypes
  <2> QED BY <2>1, <2>2 DEF OnStack
<1>7. \A k, l \in Frames : k < l => bp[k] + 1 < bp[l]
  <2>1. 1..Measured = Frames /\ Measured \in 0..Depth
    BY <1>1, <1>2
  <2> QED BY <1>1, <1>6, <2>1, FramesApart
<1>8. cur_bp' = OnStack(i)
  <2>1. counted[i] = counted[i - 1] + size[i - 1] + 1
    <3>1. counted[i] = counted[i - 1] + FrameTotal(i - 1)
      BY <1>1, <1>2 DEF SumInv
    <3> QED BY <1>1, <1>2, <3>1, SizeTypes
  <2>2. (IF i = 2 THEN restored_bp ELSE cur_bp) = OnStack(i - 1)
    <3>1. CASE i = 2
      <4>1. counted[1] = 0
        BY <1>1 DEF SumInv
      <4>2. restored_bp = MainBp + size[1] - 1
        BY <1>2 DEF restored_bp
      <4> QED BY <1>2, <1>6, <3>1, <4>1, <4>2
    <3>2. CASE i > 2
      BY <1>1, <3>2 DEF BpInv
    <3> QED BY <1>1, <3>1, <3>2
  <2>3. cur_bp' = OnStack(i - 1) + size[i] + 1
    BY <1>3, <2>2
  <2>4. /\ OnStack(i - 1) = MainBp + counted[i - 1] + size[i - 1] - 1
        /\ OnStack(i) = MainBp + counted[i] + size[i] - 1
        /\ counted[i - 1] \in Nat /\ size[i - 1] \in Nat /\ size[i] \in Nat
    BY <1>2, <1>6
  <2> QED BY <2>1, <2>3, <2>4
<1>9. bp[i - 1] \in DOMAIN seg
  BY <1>1, <1>2 DEF WordsInv
<1>10. /\ DOMAIN seg' = DOMAIN seg
       /\ seg'[bp[i - 1]] = cur_bp'
       /\ \A a \in DOMAIN seg : a # bp[i - 1] => seg'[a] = seg[a]
  BY Zenon, <1>3, <1>9 DEF Set
<1>11. SegmentTypeInv'
  <2>1. cur_bp' \in Int /\ i' \in Nat
    BY <1>1, <1>2, <1>3, <1>6, <1>8
  <2> QED BY <1>1, <1>3, <1>10, <2>1 DEF SegmentTypeInv
<1>12. LoopInv'
  BY <1>1, <1>3 DEF LoopInv
<1>13. SumInv'
  BY <1>1, <1>2, <1>3, <1>4, <1>5 DEF SumInv
<1>14. BpInv'
  <2>1. \A k \in 1..Depth : bp'[k] = BpOf(k)'
    BY <1>2, <1>3, <1>5, <1>6
  <2>2. cur_bp' = OnStack(i - 1)'
    BY <1>1, <1>2, <1>3, <1>8 DEF OnStack
  <2> QED BY <1>1, <1>3, <1>4, <2>1, <2>2 DEF BpInv
<1>15. WordsInv'
  <2>1. ASSUME NEW a \in DOMAIN seg'
        PROVE  \E k \in 1..Depth : a \in {bp'[k], bp'[k] + ADDR_SIZE}
    BY <1>1, <1>3, <1>10 DEF WordsInv
  <2>2. ASSUME NEW k \in 1..Depth
        PROVE  bp'[k] + ADDR_SIZE \in DOMAIN seg' /\ seg'[bp'[k] + ADDR_SIZE] = Return(k)
    <3>1. bp[k] + 1 \in DOMAIN seg /\ seg[bp[k] + 1] = Return(k)
      BY <1>1, <1>2 DEF WordsInv
    <3>2. bp[k] + 1 # bp[i - 1]
      BY <1>1, <1>2, <1>6, <1>7
    <3> QED BY <1>2, <1>3, <1>10, <3>1, <3>2
  <2>3. ASSUME NEW k \in 1..Depth, k < Depth PROVE bp'[k] \in DOMAIN seg'
    BY <1>1, <1>3, <1>10, <2>3 DEF WordsInv
  <2>4. ASSUME NEW k \in Frames, k < i' - 1 PROVE seg'[bp'[k]] = OnStack(k + 1)'
    <3>1. k + 1 \in Frames /\ k \in 1..Depth /\ k < Depth
      BY <1>1, <1>2, <1>3, <2>4
    <3>2. CASE k = i - 1
      BY <1>1, <1>3, <1>5, <1>8, <1>10, <3>1, <3>2
    <3>3. CASE k < i - 1
      <4>1. seg[bp[k]] = OnStack(k + 1) /\ bp[k] \in DOMAIN seg
        BY <1>1, <3>1, <3>3 DEF WordsInv
      <4>2. bp[k] # bp[i - 1]
        BY <1>2, <1>6, <1>7, <3>1, <3>3
      <4> QED BY <1>3, <1>5, <1>10, <3>1, <4>1, <4>2
    <3> QED BY <1>1, <1>2, <1>3, <2>4, <3>2, <3>3
  <2> QED BY <1>4, <2>1, <2>2, <2>3, <2>4 DEF WordsInv, Return
<1>16. StackInv'
  BY <1>1, <1>3 DEF StackInv
<1> QED
  BY <1>11, <1>12, <1>13, <1>14, <1>15, <1>16 DEF SegmentInv

\* The copy moves every word by the same distance.
LEMMA CopyStep == SegmentInv /\ CopySegment => SegmentInv'
<1> SUFFICES ASSUME SegmentInv, CopySegment PROVE SegmentInv'
  OBVIOUS
<1> USE SegmentAssumption
<1>1. /\ SegmentTypeInv /\ LoopInv /\ SumInv /\ BpInv /\ WordsInv
      /\ loop = "link" /\ loop' = "done" /\ i = Depth + 1
      /\ UNCHANGED <<size, i, total, cur_bp, bp, seg, counted>>
  BY DEF SegmentInv, LoopInv, CopySegment
<1>2. Measured' = Measured /\ Placed' = Placed
  BY <1>1 DEF Measured, Placed
<1>3. \A k : /\ BpOf(k)' = BpOf(k) /\ FrameTotal(k)' = FrameTotal(k)
            /\ OnStack(k)' = OnStack(k) /\ Return(k)' = Return(k)
  BY <1>1 DEF BpOf, FrameTotal, OnStack, Return
<1>4. SegmentTypeInv' /\ LoopInv'
  BY <1>1 DEF SegmentTypeInv, LoopInv
<1>5. SumInv' /\ BpInv'
  BY <1>1, <1>2, <1>3 DEF SumInv, BpInv
<1>6. WordsInv'
  BY <1>1, <1>2, <1>3 DEF WordsInv
<1>7. StackInv'
  <2> SUFFICES ASSUME NEW a \in DOMAIN seg PROVE stack'[MainBp + (a - Start)] = seg[a]
    BY <1>1 DEF StackInv
  <2>1. a \in Int
    BY <1>1 DEF SegmentTypeInv
  <2>2. stack'[MainBp + (a - Start)] = seg[Start + ((MainBp + (a - Start)) - MainBp)]
    BY DEF CopySegment
  <2>3. Start + ((MainBp + (a - Start)) - MainBp) = a
    BY <2>1
  <2> QED BY <2>2, <2>3
<1> QED
  BY <1>4, <1>5, <1>6, <1>7 DEF SegmentInv

\* Every iteration of the three loops keeps the invariant.
LEMMA NextSegmentInv == SegmentInv /\ [SegmentNext]_segmentVars => SegmentInv'
<1> SUFFICES ASSUME SegmentInv, [SegmentNext]_segmentVars PROVE SegmentInv'
  OBVIOUS
<1>1. CASE get_total_stack_size
  BY <1>1, TotalStep
<1>2. CASE insert_real_addresses
  BY <1>2, InsertStep
<1>3. CASE jump_inlined
  BY <1>3, LinkStep
<1>4. CASE CopySegment
  BY <1>4, CopyStep
<1>5. CASE UNCHANGED segmentVars
  BY <1>5 DEF segmentVars, SegmentInv, SegmentTypeInv, LoopInv, SumInv, BpInv, WordsInv, StackInv,
              Measured, Placed, BpOf, FrameTotal, OnStack, Return
<1> QED
  BY <1>1, <1>2, <1>3, <1>4, <1>5 DEF SegmentNext, Done

-----------------------------------------------------------------------------
\* The inductive invariant holds in all states of all three loops.
THEOREM SegmentInvariance == SegmentSpec => []SegmentInv
BY InitSegmentInv, NextSegmentInv, PTL DEF SegmentSpec

\* Writes at or above the sum of the sizes below stay in the segment.
LEMMA WritesInSegmentFollows == SegmentInv => WritesInSegment
<1> SUFFICES ASSUME SegmentInv, NEW a \in DOMAIN seg PROVE Start <= a /\ a < Start + total
  BY DEF WritesInSegment
<1> USE SegmentAssumption
<1>1. PICK k \in 1..Placed : a \in {bp[k], bp[k] + 1}
  BY DEF SegmentInv, WordsInv, ADDR_SIZE
<1>2. k \in Frames /\ k \in 1..Measured
  BY DEF SegmentInv, LoopInv, SegmentTypeInv, Placed, Measured, Frames
<1>3. bp[k] = BpOf(k) /\ counted[k] + FrameTotal(k) <= total /\ total \in Nat
  BY <1>2 DEF SegmentInv, BpInv, SumInv, SegmentTypeInv
<1>4. /\ counted[k] \in Nat /\ size[k] \in Nat \ {0} /\ FrameTotal(k) = size[k] + 1
      /\ BpOf(k) = Start + counted[k] + size[k] - 1
  BY <1>2, SizeTypes DEF SegmentInv
<1> QED
  BY <1>1, <1>3, <1>4

(***************************************************************************)
(* insert_real_addresses and jump_inlined write only to the bytes that     *)
(* get_total_stack_size had counted and malloc was asked for.              *)
(***************************************************************************)
THEOREM SegmentNotOverrun == SegmentSpec => []WritesInSegment
BY SegmentInvariance, WritesInSegmentFollows, PTL

\* Frames that start where the sizes before them add up to tile the segment.
LEMMA FramesSideBySideFollows == SegmentInv => FramesSideBySide
<1> SUFFICES ASSUME SegmentInv, loop \in {"link", "done"}, NEW k \in Frames
             PROVE  /\ bp[k] - (size[k] - 1) = Start + counted[k]
                    /\ k < Depth => bp[k] + 2 = Start + counted[k + 1]
                    /\ k = Depth => bp[k] + 2 = Start + total
  BY DEF FramesSideBySide, ADDR_SIZE
<1> USE SegmentAssumption
<1>1. Measured = Depth /\ Placed = Depth /\ k \in 1..Depth
  BY DEF Measured, Placed, Frames
<1>2. /\ bp[k] = BpOf(k)
      /\ k < Depth => counted[k + 1] = counted[k] + FrameTotal(k)
      /\ k = Depth => total = counted[k] + FrameTotal(k)
  BY <1>1 DEF SegmentInv, BpInv, SumInv
<1>3. /\ counted[k] \in Nat /\ size[k] \in Nat \ {0} /\ FrameTotal(k) = size[k] + 1
      /\ BpOf(k) = Start + counted[k] + size[k] - 1
  BY SizeTypes DEF SegmentInv
<1> QED
  BY <1>1, <1>2, <1>3

\* The frames in the segment tile it: no gap, no overlap, nothing left over.
THEOREM SegmentTiled == SegmentSpec => []FramesSideBySide
BY SegmentInvariance, FramesSideBySideFollows, PTL

\* Saved base pointers at the ends of the frames link them.
LEMMA FramesLinkedFollows == SegmentInv => FramesLinked
<1> SUFFICES ASSUME SegmentInv, loop = "done"
             PROVE  /\ OnStack(1) = restored_bp
                    /\ \A k \in Frames :
                         /\ stack[OnStack(k) + 1] = Return(k)
                         /\ k < Depth => stack[OnStack(k)] = OnStack(k + 1)
  BY DEF FramesLinked, ADDR_SIZE
<1> USE SegmentAssumption
<1>1. Measured = Depth /\ Placed = Depth /\ Frames = 1..Depth /\ i = Depth + 1
  BY DEF Measured, Placed, Frames, SegmentInv, LoopInv
<1>2. OnStack(1) = restored_bp
  <2>1. counted[1] = 0 /\ bp[1] = BpOf(1) /\ 1 \in Frames
    BY <1>1 DEF SegmentInv, SumInv, BpInv
  <2>2. size[1] \in Nat /\ BpOf(1) = Start + counted[1] + size[1] - 1
    BY <2>1, SizeTypes DEF SegmentInv
  <2> QED BY <2>1, <2>2 DEF OnStack, restored_bp, ADDR_SIZE
<1>3. ASSUME NEW k \in Frames
      PROVE  /\ stack[OnStack(k) + 1] = Return(k)
             /\ k < Depth => stack[OnStack(k)] = OnStack(k + 1)
  <2>1. /\ bp[k] + 1 \in DOMAIN seg /\ seg[bp[k] + 1] = Return(k)
        /\ k < Depth => bp[k] \in DOMAIN seg /\ seg[bp[k]] = OnStack(k + 1)
    BY <1>1 DEF SegmentInv, WordsInv, ADDR_SIZE
  <2>2. \A a \in DOMAIN seg : stack[MainBp + (a - Start)] = seg[a]
    BY DEF SegmentInv, StackInv
  <2>3. bp[k] \in Int
    BY SizeTypes DEF SegmentInv
  <2>4. MainBp + ((bp[k] + 1) - Start) = OnStack(k) + 1
    BY <2>3 DEF OnStack
  <2> QED BY <2>1, <2>2, <2>4 DEF OnStack
<1> QED
  BY <1>2, <1>3

(***************************************************************************)
(* The chain of saved base pointers that jump_inlined leaves on the stack  *)
(* leads from the innermost frame to the outermost one, for every number   *)
(* of inlined calls and whatever the uninitialised size of the frame of    *)
(* the optimized main is.                                                  *)
(***************************************************************************)
THEOREM StackLinked == SegmentSpec => []FramesLinked
BY SegmentInvariance, FramesLinkedFollows, PTL

-----------------------------------------------------------------------------
(***************************************************************************)
(* The composition does what each of its parts may do: a step of the       *)
(* handler is a step of HandlerHeap, of LocationValues and of              *)
(* SegmentLayout, or it leaves the variables of that part as they are.     *)
(***************************************************************************)
LEMMA PartsStep ==
  ASSUME [MemoryNext]_memoryVars
  PROVE  [HeapNext]_heapVars /\ [Next]_vars /\ [SegmentNext]_segmentVars
<1>1. CASE HandleBlocks
  BY <1>1 DEF HandleBlocks, HeapNext
<1>2. CASE MeasureStack
  BY <1>2 DEF MeasureStack, SegmentNext
<1>3. CASE AllocateSegment
  BY <1>3 DEF AllocateSegment, HeapNext
<1>4. CASE FillSegment
  BY <1>4 DEF FillSegment, SegmentNext
<1>5. CASE AllocateLocations
  BY <1>5 DEF AllocateLocations, HeapNext
<1>6. CASE RestoreVariables
  BY <1>6 DEF RestoreVariables, Next
<1>7. CASE FreeLocations
  BY <1>7 DEF FreeLocations, HeapNext
<1>8. CASE LinkFrames
  BY <1>8 DEF LinkFrames, SegmentNext
<1>9. CASE JumpAway
  BY <1>9 DEF JumpAway, HeapNext, SegmentNext
<1>10. CASE UNCHANGED memoryVars
  BY <1>10 DEF memoryVars
<1> QED
  BY <1>1, <1>2, <1>3, <1>4, <1>5, <1>6, <1>7, <1>8, <1>9, <1>10 DEF MemoryNext, HandlerEnded

(***************************************************************************)
(* The handler, with all it does to memory, implements each of the three   *)
(* specifications, so that all theorems about them are theorems about it.  *)
(***************************************************************************)
THEOREM PartsImplemented == MemorySpec => HeapSpec /\ Spec /\ SegmentSpec
<1>1. MemoryInit => HeapInit /\ Init /\ SegmentInit
  BY DEF MemoryInit
<1> QED
  BY <1>1, PartsStep, PTL DEF MemorySpec, HeapSpec, Spec, SegmentSpec

(***************************************************************************)
(* In the handler as a whole, restoring the variables writes to their      *)
(* places alone, and the new call stack is laid out and linked correctly.  *)
(***************************************************************************)
THEOREM HandlerMemorySafe ==
  MemorySpec => [](NeighboursKept /\ WritesInSegment /\ FramesSideBySide /\ FramesLinked)
BY PartsImplemented, OnlyVariablesWritten, SegmentNotOverrun, SegmentTiled, StackLinked, PTL
=============================================================================
