------------------------------ MODULE StackMap ------------------------------
(***************************************************************************)
(* Lookups in the stack map of a binary (stmap.c) and in its symbol table  *)
(* (utils.c).  A stack map sm has three sequences:                         *)
(*   sm.funcs  the stack size records, one for each function that has a    *)
(*             stackmap or patchpoint call;                                *)
(*   sm.recs   the stack map records, grouped by function in the order of  *)
(*             sm.funcs;                                                   *)
(*   sm.syms   the symbols of the binary.                                  *)
(* A record is denoted by its index and NULL by 0.                         *)
(***************************************************************************)
EXTENDS Integers, Sequences

CONSTANT IdSpace   \* number of values of a uint64_t ID

NULL == 0

\* The bitwise complement of a uint64_t.
Negate(id) == IdSpace - 1 - id

\* The least element of S, or NULL if there is none.
FirstOf(S) == IF S = {} THEN NULL ELSE CHOOSE i \in S : \A j \in S : i <= j

-----------------------------------------------------------------------------

RecordsBefore(sm, k) ==
  LET sum[n \in 1..k] == IF n = 1 THEN 0 ELSE sum[n - 1] + sm.funcs[n - 1].record_count
  IN  sum[k]

\* The function a record belongs to, found by counting records.
stmap_get_size_record(sm, i) ==
  FirstOf({k \in 1..Len(sm.funcs) :
             /\ i > RecordsBefore(sm, k)
             /\ i <= RecordsBefore(sm, k) + sm.funcs[k].record_count})

FunAddrOf(sm, i) == sm.funcs[stmap_get_size_record(sm, i)].fun_addr

\* The address of the stackmap or patchpoint call of a record.
AddrOf(sm, i) == FunAddrOf(sm, i) + sm.recs[i].instr_offset

stmap_get_size_record_in_func(sm, addr) ==
  FirstOf({k \in 1..Len(sm.funcs) : sm.funcs[k].fun_addr = addr})

stmap_get_map_record(sm, id) ==
  FirstOf({i \in 1..Len(sm.recs) : sm.recs[i].patchpoint_id = id})

stmap_get_map_record_in_func(sm, id, fun_addr) ==
  FirstOf({i \in 1..Len(sm.recs) :
             sm.recs[i].patchpoint_id = id /\ FunAddrOf(sm, i) = fun_addr})

\* The record with the greatest address in function k.
stmap_get_last_record(sm, k) ==
  LET own == {i \in 1..Len(sm.recs) : stmap_get_size_record(sm, i) = k}
  IN  FirstOf({i \in own : \A j \in own : AddrOf(sm, j) <= AddrOf(sm, i)})

(***************************************************************************)
(* The first record at or after addr in a function that contains addr.     *)
(***************************************************************************)
stmap_first_rec_after_addr(sm, addr) ==
  FirstOf({i \in 1..Len(sm.recs) :
             LET last == stmap_get_last_record(sm, stmap_get_size_record(sm, i)) IN
             /\ addr <= AddrOf(sm, last)
             /\ AddrOf(sm, i) >= addr
             /\ addr > FunAddrOf(sm, i)})

-----------------------------------------------------------------------------
(***************************************************************************)
(* The symbol table.  get_sym_end uses the first symbol with the given     *)
(* value, and get_sym_start the first symbol whose extent, computed by     *)
(* get_sym_end, contains the address.                                      *)
(***************************************************************************)
get_sym_end(sm, start) ==
  LET k == FirstOf({j \in 1..Len(sm.syms) : sm.syms[j].value = start})
  IN  IF k = NULL THEN 0 ELSE start + sm.syms[k].size

get_sym_start(sm, addr) ==
  LET k == FirstOf({j \in 1..Len(sm.syms) :
                      /\ sm.syms[j].value <= addr
                      /\ addr < get_sym_end(sm, sm.syms[j].value)})
  IN  IF k = NULL THEN 0 ELSE sm.syms[k].value

InFunction(sm, addr, start) == addr >= start /\ addr < get_sym_end(sm, start)

\* The mutant takes the first record in the function.
stmap_get_map_record_after_addr_mutant(sm, id, addr) ==
  FirstOf({i \in 1..Len(sm.recs) :
             /\ sm.recs[i].patchpoint_id = id
             /\ addr >= FunAddrOf(sm, i)
             /\ addr < get_sym_end(sm, FunAddrOf(sm, i))})

stmap_get_map_record_after_addr(sm, id, addr) ==
  FirstOf({i \in 1..Len(sm.recs) :
             /\ sm.recs[i].patchpoint_id = id
             /\ AddrOf(sm, i) >= addr
             /\ addr >= FunAddrOf(sm, i)
             /\ addr < get_sym_end(sm, FunAddrOf(sm, i))})

-----------------------------------------------------------------------------
(***************************************************************************)
(* The record of the unoptimized call that corresponds to an optimized     *)
(* return address.  NoPosition is the NULL returned when no record follows *)
(* the address, and NotFound the exit with "(Unopt) map record not found". *)
(***************************************************************************)
NoPosition == NULL
NotFound   == -1

stmap_get_unopt_return_addr(sm, return_addr) ==
  LET call_rec == stmap_first_rec_after_addr(sm, return_addr) IN
  IF call_rec = NULL THEN NoPosition
  ELSE LET unopt == stmap_get_map_record(sm, Negate(sm.recs[call_rec].patchpoint_id))
       IN  IF unopt = NULL THEN NotFound ELSE unopt

(***************************************************************************)
(* get_next_patchpoint (call_stack_state.c): start at the last record of   *)
(* function k and count IDs down as long as function k has a record with   *)
(* that ID which is not before addr.  A null size record is the read       *)
(* through a null pointer in stmap_get_last_record's argument.             *)
(***************************************************************************)
get_next_patchpoint_mutant(sm, addr, k) ==
  sm.recs[stmap_get_last_record(sm, k)].patchpoint_id

get_next_patchpoint(sm, addr, k) ==
  LET last == sm.recs[stmap_get_last_record(sm, k)].patchpoint_id
      Continues(id) ==
        LET i == stmap_get_map_record_in_func(sm, id, sm.funcs[k].fun_addr)
        IN  i # NULL /\ AddrOf(sm, i) >= addr
  IN  FirstOf({q \in 1..last : \A id \in q..(last - 1) : Continues(id)})

(***************************************************************************)
(* The records get_restored_state (call_stack_state.c) makes frames of:    *)
(* those from start_addr on, up to the one with the ID ppid or the last    *)
(* one of the function.                                                    *)
(***************************************************************************)
RestoredRecords(sm, start_addr, ppid) ==
  LET from[i \in 0..Len(sm.recs)] ==
        IF i = NULL THEN <<>>
        ELSE IF sm.recs[i].patchpoint_id = ppid THEN <<i>>
        ELSE <<i>> \o from[stmap_first_rec_after_addr(sm, AddrOf(sm, i) + 1)]
  IN  from[stmap_first_rec_after_addr(sm, start_addr)]
=============================================================================
