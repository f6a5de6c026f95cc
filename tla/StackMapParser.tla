--------------------------- MODULE StackMapParser ---------------------------
(***************************************************************************)
(* stmap_create: the section .llvm_stackmaps is read into the tables in    *)
(* which all lookups search.  The reader follows the section with a cursor *)
(* and works out the padding from the lengths it has read, while LLVM pads *)
(* to an alignment of the section.                                         *)
(*                                                                         *)
(* tables is what LLVM has to write: functions, constants and records with *)
(* their locations and live-out registers, all values of these opaque.     *)
(***************************************************************************)
EXTENDS Integers, Sequences, SequencesExt

CONSTANTS
  Tables,    \* the tables considered
  Garbage    \* what is read where no field of that size starts

ASSUME TablesAssumption ==
  /\ Garbage \notin Nat
  /\ \A t \in Tables :
       /\ t.funcs \in Seq(ToSet(t.funcs))
       /\ t.constants \in Seq(ToSet(t.constants))
       /\ t.recs \in Seq(ToSet(t.recs))
       /\ \A k \in 1..Len(t.recs) :
            /\ t.recs[k].locations \in Seq(ToSet(t.recs[k].locations))
            /\ t.recs[k].liveouts \in Seq(ToSet(t.recs[k].liveouts))

VARIABLES
  tables,    \* the tables in the section
  pc,        \* "header", "functions", "constants", "records" or "done"
  addr,      \* the cursor, as an offset in the section
  sm         \* the stack map read so far

vars == <<tables, pc, addr, sm>>

-----------------------------------------------------------------------------
(***************************************************************************)
(* The section, as LLVM's StackMaps::serializeToStackMapSection emits it:  *)
(* a sequence of fields, each with its size in bytes, and paddings.        *)
(***************************************************************************)
sizeof_uint16_t   == 2
sizeof_uint32_t   == 4
sizeof_uint64_t   == 8
sizeof_location_t == 12
sizeof_liveout_t  == 4

Field(size, val) == [size |-> size, val |-> val]
Align8           == Field(0, Garbage)

Fields(size, vals) == [k \in 1..Len(vals) |-> Field(size, vals[k])]

EmitHeader(t) ==
  <<Field(1, 3), Field(1, 0), Field(2, 0)>>
    \o Fields(sizeof_uint32_t, <<Len(t.funcs), Len(t.constants), Len(t.recs)>>)

EmitRecord(rec) ==
  <<Field(sizeof_uint64_t, rec.patchpoint_id), Field(sizeof_uint32_t, rec.instr_offset),
    Field(sizeof_uint16_t, 0), Field(sizeof_uint16_t, Len(rec.locations))>>
    \o Fields(sizeof_location_t, rec.locations) \o <<Align8>>
    \o <<Field(sizeof_uint16_t, 0), Field(sizeof_uint16_t, Len(rec.liveouts))>>
    \o Fields(sizeof_liveout_t, rec.liveouts) \o <<Align8>>

EmitFunction(f) ==
  Fields(sizeof_uint64_t, <<f.fun_addr, f.stack_size, f.record_count>>)

Emitted(t) ==
  EmitHeader(t)
    \o FlattenSeq([k \in 1..Len(t.funcs) |-> EmitFunction(t.funcs[k])])
    \o Fields(sizeof_uint64_t, t.constants)
    \o FlattenSeq([k \in 1..Len(t.recs) |-> EmitRecord(t.recs[k])])

\* Where each field ends, if the first one is at 0.
Ends(fields) ==
  LET end[k \in 0..Len(fields)] ==
        IF k = 0 THEN 0
        ELSE end[k - 1] + (IF fields[k] = Align8 THEN (-end[k - 1]) % 8 ELSE fields[k].size)
  IN  end

\* Where the fields start, and where the section ends.
Section(t) ==
  LET emitted == Emitted(t)
      end     == Ends(emitted)
  IN  [fields |-> {[at |-> end[k - 1], size |-> emitted[k].size, val |-> emitted[k].val] :
                     k \in {j \in 1..Len(emitted) : emitted[j] # Align8}},
       end    |-> end[Len(emitted)]]

section == Section(tables)

-----------------------------------------------------------------------------
(***************************************************************************)
(* Reading.  A memcpy to a structure or an array reads its fields one      *)
(* after the other.                                                        *)
(***************************************************************************)
Read(at, size) ==
  LET found == {f \in section.fields : f.at = at /\ f.size = size}
  IN  IF found = {} THEN Garbage ELSE (CHOOSE f \in found : TRUE).val

\* A count that is garbage makes the reader run wild; none is read then.
Count(n) == IF n = Garbage THEN 0 ELSE n

ReadArray(at, size, n) == [k \in 1..Count(n) |-> Read(at + (k - 1) * size, size)]

header_size == 2 * 1 + sizeof_uint16_t + 3 * sizeof_uint32_t

ReadHeader ==
  /\ pc = "header"
  /\ sm' = [num_func  |-> Read(addr + 4, sizeof_uint32_t),
            num_const |-> Read(addr + 8, sizeof_uint32_t),
            num_rec   |-> Read(addr + 12, sizeof_uint32_t),
            stk_size_records |-> <<>>, constants |-> <<>>, stk_map_records |-> <<>>]
  /\ addr' = addr + header_size
  /\ pc' = "functions"
  /\ UNCHANGED tables

\* The index is a field of the structure, but the section has none (mutant).
sizeof_stack_size_record_t == 4 * sizeof_uint64_t

size_record_bytes_mutant == sizeof_stack_size_record_t

size_record_bytes == sizeof_stack_size_record_t - sizeof_uint64_t

ReadSizeRecord ==
  /\ pc = "functions"
  /\ Len(sm.stk_size_records) < Count(sm.num_func)
  /\ sm' = [sm EXCEPT !.stk_size_records = Append(@,
              [fun_addr     |-> Read(addr, sizeof_uint64_t),
               stack_size   |-> Read(addr + 8, sizeof_uint64_t),
               record_count |-> Read(addr + 16, sizeof_uint64_t),
               index        |-> Len(@)])]
  /\ addr' = addr + size_record_bytes
  /\ UNCHANGED <<tables, pc>>

ReadConstants ==
  /\ pc = "functions"
  /\ Len(sm.stk_size_records) = Count(sm.num_func)
  /\ sm' = [sm EXCEPT !.constants = ReadArray(addr, sizeof_uint64_t, sm.num_const)]
  /\ addr' = addr + sizeof_uint64_t * Count(sm.num_const)
  /\ pc' = "records"
  /\ UNCHANGED tables

-----------------------------------------------------------------------------
rec_header_size == sizeof_uint64_t + sizeof_uint32_t + 2 * sizeof_uint16_t

\* The padding after n locations; the mutant has none.
location_padding_mutant(n) == 0

location_padding(n) ==
  IF (n * sizeof_location_t) % 8 # 0 THEN sizeof_uint32_t ELSE 0

\* The padding after n live-outs and their count, which the mutant forgets.
liveout_padding_mutant(n) ==
  IF (sizeof_liveout_t * n) % 8 # 0 THEN sizeof_uint32_t ELSE 0

liveout_padding(n) ==
  IF (2 * sizeof_uint16_t + sizeof_liveout_t * n) % 8 # 0 THEN sizeof_uint32_t ELSE 0

ReadRecord ==
  /\ pc = "records"
  /\ Len(sm.stk_map_records) < Count(sm.num_rec)
  /\ LET num_locations == Read(addr + 14, sizeof_uint16_t)
         locations     == addr + rec_header_size
         padding       == locations + Count(num_locations) * sizeof_location_t
                            + location_padding(Count(num_locations))
         num_liveouts  == Read(padding + sizeof_uint16_t, sizeof_uint16_t)
         liveouts      == padding + 2 * sizeof_uint16_t
     IN  /\ sm' = [sm EXCEPT !.stk_map_records = Append(@,
                     [patchpoint_id |-> Read(addr, sizeof_uint64_t),
                      instr_offset  |-> Read(addr + 8, sizeof_uint32_t),
                      locations     |-> ReadArray(locations, sizeof_location_t, num_locations),
                      liveouts      |-> ReadArray(liveouts, sizeof_liveout_t, num_liveouts),
                      index         |-> Len(@)])]
         /\ addr' = liveouts + sizeof_liveout_t * Count(num_liveouts)
                      + liveout_padding(Count(num_liveouts))
  /\ UNCHANGED <<tables, pc>>

Return ==
  /\ pc = "records"
  /\ Len(sm.stk_map_records) = Count(sm.num_rec)
  /\ pc' = "done"
  /\ UNCHANGED <<tables, addr, sm>>

Init ==
  /\ tables \in Tables
  /\ pc = "header"
  /\ addr = 0
  /\ sm = Garbage

Returned == pc = "done" /\ UNCHANGED vars

Next == ReadHeader \/ ReadSizeRecord \/ ReadConstants \/ ReadRecord \/ Return \/ Returned

Spec == Init /\ [][Next]_vars

-----------------------------------------------------------------------------
IndexedFunctions(s) ==
  [k \in 1..Len(s) |->
    [fun_addr |-> s[k].fun_addr, stack_size |-> s[k].stack_size,
     record_count |-> s[k].record_count, index |-> k - 1]]

IndexedRecords(s) ==
  [k \in 1..Len(s) |->
    [patchpoint_id |-> s[k].patchpoint_id, instr_offset |-> s[k].instr_offset,
     locations |-> s[k].locations, liveouts |-> s[k].liveouts, index |-> k - 1]]

(***************************************************************************)
(* The tables read are those written, with the index of each entry, and    *)
(* the cursor ends at the end of the section.                              *)
(***************************************************************************)
TablesRead ==
  pc = "done" =>
    /\ sm.stk_size_records = IndexedFunctions(tables.funcs)
    /\ sm.constants = tables.constants
    /\ sm.stk_map_records = IndexedRecords(tables.recs)
    /\ addr = section.end

(***************************************************************************)
(* Every record starts at a multiple of 8 bytes: only then is the padding  *)
(* that stmap_create works out from lengths the one that LLVM inserts.     *)
(***************************************************************************)
RecordsAligned == pc = "records" => addr % 8 = 0

\* The reader stays within the section, whatever it has read so far.
InSection == addr <= section.end
=============================================================================
