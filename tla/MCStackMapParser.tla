-------------------------- MODULE MCStackMapParser --------------------------
(***************************************************************************)
(* Sections of up to two functions, two constants and two records with     *)
(* up to three locations and two live-outs: every combination of odd       *)
(* and even lengths.  All values in a section differ.                      *)
(***************************************************************************)
EXTENDS StackMapParser

Function(k) == [fun_addr |-> 100 * k, stack_size |-> 100 * k + 1, record_count |-> 100 * k + 2]

Rec(k, nloc, nlive) ==
  [patchpoint_id |-> 1000 * k, instr_offset |-> 1000 * k + 1,
   locations |-> [j \in 1..nloc |-> 1000 * k + 100 + j],
   liveouts  |-> [j \in 1..nlive |-> 1000 * k + 200 + j]]

RecordLists ==
  UNION {{[k \in 1..n |-> Rec(k, len[k][1], len[k][2])] :
            len \in [1..n -> (0..3) \X (0..2)]} : n \in 0..2}

MCTables ==
  {[funcs |-> [k \in 1..f |-> Function(k)], constants |-> [k \in 1..c |-> 50 + k], recs |-> rs] :
     f \in 0..2, c \in 0..2, rs \in RecordLists}
=============================================================================
