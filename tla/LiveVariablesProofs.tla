------------------------ MODULE LiveVariablesProofs ------------------------
(***************************************************************************)
(* Proofs that a site and its twin record the same variables in the same   *)
(* order, and that the code stays valid, for every function that clang may *)
(* emit: any graph, any number of instructions and sites.                  *)
(*                                                                         *)
(* The argument: CheckPointPass replaces every instruction of the source   *)
(* by a few, which differ between the versions but stay in its place.  The *)
(* variables that getLiveRegisters finds at a site can therefore be        *)
(* described in terms of the source and of what the sites before it have   *)
(* recorded (SrcLive), for both versions alike.                            *)
(***************************************************************************)
EXTENDS LiveVariables, SequenceLemmas

HasSite(f, ins) ==
  ins.op = "call" \/ (ins.op \in {"ret", "retconst"} /\ f.hasGuard)

(***************************************************************************)
(* The instructions that replace one of the source, and where among them   *)
(* are its value, its uses, its site and the point at which the site looks *)
(* for variables.                                                          *)
(***************************************************************************)
Piece(v, f, ins) == Marked(v, f.hasGuard, ins)

ValAt(v, f, ins) ==
  IF ~HasSite(f, ins) THEN 1
  ELSE IF ins.op # "call" \/ v = "opt" \/ ins.ty \in {"void", "i64"} THEN 2
  ELSE IF ins.ty = "int" THEN 3 ELSE 4

UseAt(v, f, ins) == IF HasSite(f, ins) THEN 2 ELSE 1

SiteAt(v, f, ins) ==
  IF ins.op # "call" THEN 1 ELSE IF v = "opt" THEN 3 ELSE 2

PointAt(v, f, ins) == IF ins.op # "call" THEN 1 ELSE 2

\* Where they are in the block.
Pieces(v, f, b) == [i \in 1..Len(f.code[b]) |-> Piece(v, f, f.code[b][i])]
Place(v, f, p, m) == <<p[1], Starts(Pieces(v, f, p[1]))[p[2] - 1] + m>>

-----------------------------------------------------------------------------
(***************************************************************************)
(* What a site of the source records, given what those before it have.     *)
(***************************************************************************)
Before(p, q) == p[1] < q[1] \/ (p[1] = q[1] /\ p[2] < q[2])

SrcAt(f, p) == At(f.code, p)

SrcSites(f) == {p \in Positions(f.code) : HasSite(f, SrcAt(f, p))}

SrcUses(f, R, w, u, s) ==
  \/ w \in SrcAt(f, u).uses
  \/ u \in SrcSites(f) /\ Before(u, s) /\ w \in Values(R[SrcAt(f, u).at])

SrcLocations(f, R, d, s) ==
  LET ins == SrcAt(f, d) IN
  IF /\ ins.val # None
     /\ Dominates(Dominators(f.cfg), d, s)
     /\ \E u \in Positions(f.code) :
          SrcUses(f, R, ins.val, u, s) /\ ~Dominates(Dominators(f.cfg), u, s)
  THEN Pair(ins.val)
  ELSE IF ins.op = "retconst" THEN Pair(<<"const", ins.at>>)
  ELSE <<>>

SrcLive(f, R, s) ==
  FlattenSeq([b \in 1..Len(f.code) |->
    FlattenSeq([i \in 1..Len(f.code[b]) |-> SrcLocations(f, R, <<b, i>>, s)])])

\* R has what the sites in S record, which are all up to some point of the code.
Solves(f, R, S) ==
  /\ R = [at \in {SrcAt(f, s).at : s \in S} |-> R[at]]
  /\ \A s \in S : R[SrcAt(f, s).at] = SrcLive(f, R, s)

-----------------------------------------------------------------------------
(***************************************************************************)
(* The inductive invariant.                                                *)
(***************************************************************************)
TypeInv ==
  /\ fn \in Functions
  /\ version \in Versions
  /\ phase \in {"checkpoint", "live", "done"}
  /\ records = [v \in Versions |-> records[v]]

\* The place of a site.
SitePlace(v, f, s) == Place(v, f, s, SiteAt(v, f, SrcAt(f, s)))

\* The sites of the source that are before a place.
Visited(v, f, nx) == {s \in SrcSites(f) : Before(SitePlace(v, f, s), nx)}

Recorded(c, R, nx, b, j) ==
  IF producesStackmapRecords(c[b][j]) /\ Before(<<b, j>>, nx)
  THEN Values(R[c[b][j].at]) ELSE {}

\* The instruction has all its fields.
Whole(ins) == {"op", "val", "uses", "at"} \subseteq DOMAIN ins

\* The code is that of CheckPointPass, apart from the recorded values.
CodeIs(c, v, f, R, nx) ==
  LET k == CheckPointed(v, f) IN
  /\ IsSeq(c) /\ Len(c) = Len(k)
  /\ \A b \in 1..Len(k) :
       /\ IsSeq(c[b]) /\ Len(c[b]) = Len(k[b])
       /\ \A j \in 1..Len(k[b]) :
            /\ c[b][j].op = k[b][j].op
            /\ c[b][j].val = k[b][j].val
            /\ c[b][j].at = k[b][j].at
            /\ c[b][j].uses = k[b][j].uses \cup Recorded(c, R, nx, b, j)
            /\ producesStackmapRecords(k[b][j]) => Whole(c[b][j])

LiveInv ==
  phase = "live" =>
    /\ next \in (Nat \ {0}) \X (Nat \ {0})
    /\ CodeIs(code, version, fn, records[version], next)
    /\ Solves(fn, records[version], Visited(version, fn, next))

DoneInv ==
  /\ phase = "checkpoint" => records[version] = <<>>
  /\ version = "opt" => records["unopt"] = <<>> /\ phase # "done"
  /\ version = "unopt" => Solves(fn, records["opt"], SrcSites(fn))
  /\ phase = "done" => Solves(fn, records["unopt"], SrcSites(fn))

IInv == TypeInv /\ LiveInv /\ DoneInv /\ CodeValid

-----------------------------------------------------------------------------
(***************************************************************************)
(* The instructions that replace one.                                      *)
(***************************************************************************)
InsOK(ins) ==
  /\ ~producesStackmapRecords(ins)
  /\ ins.op \in {"ret", "retconst"} => ins.val = None
  /\ ins.op = "call" => /\ ins.ty \in {"void", "i64", "int", "float"}
                        /\ ins.ty \in {"int", "float"} => ins.val # None

\* The values made to convert a result: the second and the third instruction define them.
Aux(w, m) == IF m = 2 THEN Raw(w) ELSE Pointer(w)

PieceOK(f, ins, piece, val, use, site, point) ==
  /\ IsSeq(piece)
  /\ val \in 1..Len(piece) /\ use \in 1..Len(piece)
  /\ HasSite(f, ins) => /\ site \in 1..Len(piece)
                        /\ point \in Nat /\ point <= val /\ point <= use /\ point <= site
                        /\ point \in 1..Len(piece) /\ (point = use \/ point = 1)
  /\ piece[val].val = ins.val /\ piece[val].at = ins.at /\ piece[use].uses = ins.uses
  /\ ins.op = "retconst" => piece[val].op = "retconst"
  /\ \A m \in 1..Len(piece) :
       /\ \/ piece[m].val = None
          \/ m = val
          \/ m < val /\ m \in {2, 3} /\ ins.val # None /\ piece[m].val = Aux(ins.val, m)
       /\ \A w \in piece[m].uses :
            (m = use /\ w \in ins.uses) \/ (m - 1 \in {2, 3} /\ ins.val # None /\ w = Aux(ins.val, m - 1))
       /\ piece[m].op = "retconst" => m = val /\ ins.op = "retconst"
       /\ producesStackmapRecords(piece[m]) <=> HasSite(f, ins) /\ m = site
       /\ producesStackmapRecords(piece[m]) =>
            /\ piece[m].at = ins.at /\ Whole(piece[m])
            /\ point = IF piece[m].op = "stackmap" THEN m - 1 ELSE m

\* Two instructions and one or two more.
LEMMA ConcatPair ==
  ASSUME NEW p, NEW q, NEW r, IsSeq(p), IsSeq(q), IsSeq(r), Len(p) = 2,
         Len(q) \in {1, 2}, Len(r) = 2 + Len(q), r[1] = p[1], r[2] = p[2], r[3] = q[1],
         Len(q) = 2 => r[4] = q[2]
  PROVE  p \o q = r
<1> DEFINE t == p \o q
<1>1. /\ IsSeq(t) /\ Len(t) = 2 + Len(q)
      /\ \A i \in 1..2 : t[i] = p[i]
      /\ \A i \in 1..Len(q) : t[2 + i] = q[i]
  <2>1. /\ IsSeq(t) /\ Len(t) = Len(p) + Len(q)
        /\ \A i \in 1..Len(p) : t[i] = p[i]
        /\ \A i \in 1..Len(q) : t[Len(p) + i] = q[i]
    <3>1. IsSeq(p) /\ IsSeq(q)
      OBVIOUS
    <3> QED BY ONLY <3>1, ConcatAny
  <2> HIDE DEF t
  <2> QED BY <2>1
<1> HIDE DEF t
<1>2. t[1] = p[1] /\ t[2] = p[2] /\ t[3] = q[1] /\ (Len(q) = 2 => t[4] = q[2])
  <2>1. 1 \in 1..2 /\ 2 \in 1..2 /\ 1 \in 1..Len(q) /\ (Len(q) = 2 => 2 \in 1..Len(q)) /\ 2 + 1 = 3 /\ 2 + 2 = 4
    OBVIOUS
  <2> QED BY <1>1, <2>1
<1>3. \A i \in 1..Len(t) : i = 1 \/ i = 2 \/ i = 3 \/ (Len(q) = 2 /\ i = 4)
  BY <1>1
<1>4. \A i \in 1..Len(t) : t[i] = r[i]
  BY <1>2, <1>3
<1>5. t = r
  BY <1>1, <1>4, SeqsEqual
<1> QED BY <1>5 DEF t

\* What CheckPointPass makes of an instruction.
LEMMA PieceFacts ==
  ASSUME NEW v \in Versions, NEW f, f.hasGuard \in BOOLEAN, NEW ins, InsOK(ins)
  PROVE  PieceOK(f, ins, Piece(v, f, ins), ValAt(v, f, ins), UseAt(v, f, ins),
                 SiteAt(v, f, ins), PointAt(v, f, ins))
<1> DEFINE piece == Piece(v, f, ins)
<1>1. CASE ~HasSite(f, ins)
  <2>1. /\ piece = <<ins>> /\ ValAt(v, f, ins) = 1 /\ UseAt(v, f, ins) = 1
    <3>1. ~(ins.op \in {"ret", "retconst"} /\ f.hasGuard) /\ ins.op # "call"
      BY <1>1 DEF HasSite
    <3>2. piece = <<ins>>
      BY <3>1, Zenon DEF Piece, Marked
    <3>3. ValAt(v, f, ins) = 1
      BY <1>1, Zenon DEF ValAt
    <3> QED BY <1>1, <3>2, <3>3 DEF UseAt
  <2>2. IsSeq(<<ins>>) /\ Len(<<ins>>) = 1 /\ <<ins>>[1] = ins
    BY TupleIsSeq
  <2>3. \A m \in 1..1 : m = 1
    OBVIOUS
  <2> QED BY <1>1, <2>1, <2>2, <2>3 DEF PieceOK, InsOK
<1>2. CASE HasSite(f, ins) /\ ins.op # "call"
  <2> DEFINE e == Instr("patchpoint", None, {}, ins.at)
  <2>1. /\ piece = <<e, ins>> /\ ValAt(v, f, ins) = 2 /\ UseAt(v, f, ins) = 2
        /\ SiteAt(v, f, ins) = 1 /\ PointAt(v, f, ins) = 1
    <3>1. (ins.op \in {"ret", "retconst"} /\ f.hasGuard) /\ ins.op # "call"
      BY <1>2 DEF HasSite
    <3> HIDE DEF e
    <3>2. Marked(v, f.hasGuard, ins) = <<e, ins>>
      BY <3>1, Zenon DEF Marked, e
    <3>3. ValAt(v, f, ins) = 2
      BY <1>2 DEF ValAt
    <3> QED BY <1>2, <3>2, <3>3 DEF UseAt, SiteAt, PointAt, Piece
  <2>2. IsSeq(<<e, ins>>) /\ Len(<<e, ins>>) = 2 /\ <<e, ins>>[1] = e /\ <<e, ins>>[2] = ins
    BY TupleIsSeq
  <2>3. /\ e.op = "patchpoint" /\ e.val = None /\ e.uses = {} /\ e.at = ins.at /\ Whole(e)
    BY DEF Instr, Whole
  <2>4. \A m \in 1..2 : m = 1 \/ m = 2
    OBVIOUS
  <2>5. producesStackmapRecords(e)
    BY <2>3 DEF producesStackmapRecords
  <2> HIDE DEF e
  <2> QED BY <1>2, <2>1, <2>2, <2>3, <2>4, <2>5 DEF PieceOK, InsOK
<1>3. CASE ins.op = "call" /\ v = "opt"
  <2> DEFINE a == Asm(ins)
             e == Instr("stackmap", None, {}, ins.at)
             p == <<a, ins, e>>
  <2>1. /\ piece = p /\ ValAt(v, f, ins) = 2 /\ UseAt(v, f, ins) = 2 /\ HasSite(f, ins)
        /\ SiteAt(v, f, ins) = 3 /\ PointAt(v, f, ins) = 2
    <3>1. ~(ins.op \in {"ret", "retconst"}) /\ HasSite(f, ins)
      BY <1>3 DEF HasSite
    <3> HIDE DEF a, e
    <3>2. Marked(v, f.hasGuard, ins) = p
      BY <1>3, <3>1, Zenon DEF Marked, a, e
    <3>3. ValAt(v, f, ins) = 2
      BY <1>3, <3>1 DEF ValAt
    <3> QED BY <1>3, <3>1, <3>2, <3>3 DEF UseAt, SiteAt, PointAt, Piece
  <2>2. IsSeq(p) /\ Len(p) = 3 /\ p[1] = a /\ p[2] = ins /\ p[3] = e
    BY TupleIsSeq
  <2>3. /\ e.op = "stackmap" /\ e.val = None /\ e.uses = {} /\ e.at = ins.at /\ Whole(e)
        /\ a.op = "asm" /\ a.val = None /\ a.uses = {}
    BY DEF Instr, Asm, Whole
  <2>4. \A m \in 1..3 : m = 1 \/ m = 2 \/ m = 3
    OBVIOUS
  <2>5. /\ producesStackmapRecords(e) /\ ~producesStackmapRecords(a)
        /\ ~producesStackmapRecords(ins) /\ ins.op # "retconst"
    BY <1>3, <2>3 DEF producesStackmapRecords, InsOK
  <2> HIDE DEF e, a, p
  <2>6. PieceOK(f, ins, p, 2, 2, 3, 2)
    BY <2>1, <2>2, <2>3, <2>4, <2>5 DEF PieceOK
  <2> QED BY <2>1, <2>6
<1>4. CASE ins.op = "call" /\ v = "unopt"
  <2> DEFINE a == Asm(ins)
             e == PatchpointFor(ins)
  <2>1. /\ piece = <<a, e>> \o Converted(ins) /\ HasSite(f, ins) /\ UseAt(v, f, ins) = 2
        /\ SiteAt(v, f, ins) = 2 /\ PointAt(v, f, ins) = 2
    BY <1>4 DEF Piece, Marked, HasSite, UseAt, SiteAt, PointAt
  <2>2. /\ e.op = "patchpoint" /\ e.uses = ins.uses /\ e.at = ins.at /\ Whole(e)
        /\ a.op = "asm" /\ a.val = None /\ a.uses = {} 
        /\ producesStackmapRecords(e) /\ ~producesStackmapRecords(a)
    BY DEF Instr, Asm, PatchpointFor, producesStackmapRecords, Whole
  <2>3. CASE ins.ty \in {"void", "i64"}
    <3> DEFINE p == <<a, e>>
    <3>1. Converted(ins) = <<>> /\ e.val = ins.val /\ ValAt(v, f, ins) = 2
      BY <1>4, <2>3 DEF Converted, PatchpointFor, Instr, ValAt, HasSite
    <3>2. piece = p
      <4>1. p \in Seq({a, e})
        OBVIOUS
      <4>2. p \o <<>> = p
        BY <4>1
      <4> QED BY <2>1, <3>1, <4>2
    <3>3. IsSeq(p) /\ Len(p) = 2 /\ p[1] = a /\ p[2] = e
      BY TupleIsSeq
    <3>4. \A m \in 1..2 : m = 1 \/ m = 2
      OBVIOUS
    <3> HIDE DEF e, a, p
    <3> QED BY <1>4, <2>1, <2>2, <3>1, <3>2, <3>3, <3>4 DEF PieceOK, InsOK
  <2>4. CASE ins.ty = "int"
    <3> DEFINE t == Instr("trunc", ins.val, {Raw(ins.val)}, ins.at)
               p == <<a, e, t>>
    <3>1. /\ Converted(ins) = <<t>> /\ e.val = Raw(ins.val) /\ ValAt(v, f, ins) = 3
          /\ ins.val # None
      BY <1>4, <2>4 DEF Converted, PatchpointFor, Instr, ValAt, HasSite, InsOK
    <3>2. piece = p
      <4> HIDE DEF a, e, t
      <4> DEFINE p1 == <<a, e>>
                 p2 == <<t>>
      <4>1. /\ IsSeq(p1) /\ Len(p1) = 2 /\ p1[1] = a /\ p1[2] = e
            /\ IsSeq(p2) /\ Len(p2) = 1 /\ p2[1] = t
            /\ IsSeq(p) /\ Len(p) = 3 /\ p[1] = a /\ p[2] = e /\ p[3] = t
        BY TupleIsSeq
      <4> HIDE DEF p1, p2, p
      <4>2. p1 \o p2 = p
        <5>1. /\ Len(p2) \in {1, 2} /\ Len(p) = 2 + Len(p2) /\ p[1] = p1[1] /\ p[2] = p1[2]
              /\ p[3] = p2[1] /\ (Len(p2) = 2 => p[4] = p2[2]) /\ Len(p1) = 2
          BY <4>1
        <5> QED BY <4>1, <5>1, ConcatPair
      <4> QED BY <2>1, <3>1, <4>2 DEF p1, p2
    <3>3. IsSeq(p) /\ Len(p) = 3 /\ p[1] = a /\ p[2] = e /\ p[3] = t
      BY TupleIsSeq
    <3>4. \A m \in 1..3 : m = 1 \/ m = 2 \/ m = 3
      OBVIOUS
    <3>5. /\ t.op = "trunc" /\ t.val = ins.val /\ t.uses = {Aux(ins.val, 2)} /\ t.at = ins.at
          /\ ~producesStackmapRecords(t) /\ e.val = Aux(ins.val, 2)
      BY <3>1 DEF Instr, Aux, producesStackmapRecords
    <3> HIDE DEF e, a, p, t
    <3> QED BY <1>4, <2>1, <2>2, <3>1, <3>2, <3>3, <3>4, <3>5 DEF PieceOK, InsOK
  <2>5. CASE ins.ty = "float"
    <3> DEFINE t == Instr("inttoptr", Pointer(ins.val), {Raw(ins.val)}, ins.at)
               l == Instr("load", ins.val, {Pointer(ins.val)}, ins.at)
               p == <<a, e, t, l>>
    <3>1. /\ Converted(ins) = <<t, l>> /\ e.val = Raw(ins.val) /\ ValAt(v, f, ins) = 4
          /\ ins.val # None
      BY <1>4, <2>5 DEF Converted, PatchpointFor, Instr, ValAt, HasSite, InsOK
    <3>2. piece = p
      <4> HIDE DEF a, e, t, l
      <4> DEFINE p1 == <<a, e>>
                 p2 == <<t, l>>
      <4>1. /\ IsSeq(p1) /\ Len(p1) = 2 /\ p1[1] = a /\ p1[2] = e
            /\ IsSeq(p2) /\ Len(p2) = 2 /\ p2[1] = t /\ p2[2] = l
            /\ IsSeq(p) /\ Len(p) = 4 /\ p[1] = a /\ p[2] = e /\ p[3] = t /\ p[4] = l
        BY TupleIsSeq
      <4> HIDE DEF p1, p2, p
      <4>2. p1 \o p2 = p
        <5>1. /\ Len(p2) \in {1, 2} /\ Len(p) = 2 + Len(p2) /\ p[1] = p1[1] /\ p[2] = p1[2]
              /\ p[3] = p2[1] /\ (Len(p2) = 2 => p[4] = p2[2]) /\ Len(p1) = 2
          BY <4>1
        <5> QED BY <4>1, <5>1, ConcatPair
      <4> QED BY <2>1, <3>1, <4>2 DEF p1, p2
    <3>3. IsSeq(p) /\ Len(p) = 4 /\ p[1] = a /\ p[2] = e /\ p[3] = t /\ p[4] = l
      BY TupleIsSeq
    <3>4. \A m \in 1..4 : m = 1 \/ m = 2 \/ m = 3 \/ m = 4
      OBVIOUS
    <3>5. /\ t.op = "inttoptr" /\ t.val = Aux(ins.val, 3) /\ t.uses = {Aux(ins.val, 2)}
          /\ l.op = "load" /\ l.val = ins.val /\ l.uses = {Aux(ins.val, 3)} /\ l.at = ins.at
          /\ ~producesStackmapRecords(t) /\ ~producesStackmapRecords(l) /\ e.val = Aux(ins.val, 2)
      BY <3>1 DEF Instr, Aux, producesStackmapRecords
    <3> HIDE DEF e, a, p, t, l
    <3> QED BY <1>4, <2>1, <2>2, <3>1, <3>2, <3>3, <3>4, <3>5 DEF PieceOK, InsOK
  <2> QED BY <1>4, <2>3, <2>4, <2>5 DEF InsOK
<1> QED BY <1>1, <1>2, <1>3, <1>4 DEF Versions

-----------------------------------------------------------------------------
(***************************************************************************)
(* Where the instructions are.                                             *)
(***************************************************************************)

\* The positions of some code.
LEMMA PositionsOf ==
  ASSUME NEW c
  PROVE  /\ \A b \in 1..Len(c) : \A i \in 1..Len(c[b]) : <<b, i>> \in Positions(c)
         /\ \A p \in Positions(c) : /\ p[1] \in 1..Len(c) /\ p[2] \in 1..Len(c[p[1]])
                                    /\ p = <<p[1], p[2]>>
<1>1. ASSUME NEW b \in 1..Len(c), NEW i \in 1..Len(c[b]) PROVE <<b, i>> \in Positions(c)
  BY DEF Positions
<1>2. ASSUME NEW p \in Positions(c)
      PROVE  p[1] \in 1..Len(c) /\ p[2] \in 1..Len(c[p[1]]) /\ p = <<p[1], p[2]>>
  <2>1. PICK b \in 1..Len(c) : p \in {<<b, i>> : i \in 1..Len(c[b])}
    BY DEF Positions
  <2>2. PICK i \in 1..Len(c[b]) : p = <<b, i>>
    BY <2>1
  <2> QED BY <2>2
<1> QED BY <1>1, <1>2

\* What is assumed of a function.
FunOK(f) ==
  /\ IsSeq(f.code) /\ \A b \in 1..Len(f.code) : IsSeq(f.code[b])
  /\ f.hasGuard \in BOOLEAN
  /\ DefsDominateUses(f.code, f.cfg)
  /\ \A p \in Positions(f.code) : InsOK(SrcAt(f, p))
  /\ \A p, q \in Positions(f.code) :
       /\ SrcAt(f, p).val = SrcAt(f, q).val /\ SrcAt(f, p).val # None => p = q
       /\ \A m : Aux(SrcAt(f, q).val, m) # SrcAt(f, p).val /\ Aux(SrcAt(f, q).val, m) \notin SrcAt(f, p).uses
  /\ \A p, q \in SrcSites(f) : SrcAt(f, p).at = SrcAt(f, q).at => p = q

\* The assumption on the constants gives it.
LEMMA FunctionOK ==
  ASSUME NEW f \in Functions
  PROVE  FunOK(f)
<1>1. IsSeq(f.code) /\ \A b \in 1..Len(f.code) : IsSeq(f.code[b])
  BY FunctionsAssumption, IsSeqOfSeq
<1>2. f.hasGuard \in BOOLEAN /\ DefsDominateUses(f.code, f.cfg)
  BY FunctionsAssumption
<1>3. ASSUME NEW p \in Positions(f.code) PROVE InsOK(SrcAt(f, p))
  BY FunctionsAssumption DEF InsOK, SrcAt
<1>4. ASSUME NEW p \in Positions(f.code), NEW q \in Positions(f.code)
      PROVE  /\ SrcAt(f, p).val = SrcAt(f, q).val /\ SrcAt(f, p).val # None => p = q
             /\ {Raw(SrcAt(f, q).val), Pointer(SrcAt(f, q).val)}
                  \cap ({SrcAt(f, p).val} \cup SrcAt(f, p).uses) = {}
  <2> HIDE DEF Raw, Pointer
  <2> QED BY FunctionsAssumption DEF SrcAt
<1>5. ASSUME NEW p \in Positions(f.code), NEW q \in Positions(f.code), NEW m
      PROVE  Aux(SrcAt(f, q).val, m) # SrcAt(f, p).val /\ Aux(SrcAt(f, q).val, m) \notin SrcAt(f, p).uses
  <2> DEFINE w == SrcAt(f, q).val
             x == SrcAt(f, p)
  <2>1. {Raw(w), Pointer(w)} \cap ({x.val} \cup x.uses) = {}
    BY <1>4
  <2>2. Aux(w, m) = Raw(w) \/ Aux(w, m) = Pointer(w)
    BY DEF Aux
  <2> HIDE DEF w, x
  <2>3. Aux(w, m) # x.val /\ Aux(w, m) \notin x.uses
    BY <2>1, <2>2
  <2> QED BY <2>3 DEF w, x
<1>6. ASSUME NEW p \in SrcSites(f), NEW q \in SrcSites(f), SrcAt(f, p).at = SrcAt(f, q).at
      PROVE  p = q
  <2>1. /\ p \in Positions(f.code) /\ q \in Positions(f.code)
        /\ {SrcAt(f, p).op, SrcAt(f, q).op} \subseteq {"call", "ret", "retconst"}
    BY DEF SrcSites, HasSite
  <2> QED BY <1>6, <2>1, FunctionsAssumption DEF SrcAt
<1> QED BY <1>1, <1>2, <1>3, <1>4, <1>5, <1>6 DEF FunOK

Off(v, f, b) == Starts(Pieces(v, f, b))

PieceAt(v, f, p) == Piece(v, f, SrcAt(f, p))

ValOf(v, f, p)   == ValAt(v, f, SrcAt(f, p))
UseOf(v, f, p)   == UseAt(v, f, SrcAt(f, p))
MarkOf(v, f, p)  == SiteAt(v, f, SrcAt(f, p))
PointOf(v, f, p) == PointAt(v, f, SrcAt(f, p))

\* The pieces of a function.
LEMMA PieceAtFacts ==
  ASSUME NEW v \in Versions, NEW f, FunOK(f), NEW p \in Positions(f.code)
  PROVE  PieceOK(f, SrcAt(f, p), PieceAt(v, f, p), ValOf(v, f, p), UseOf(v, f, p),
                 MarkOf(v, f, p), PointOf(v, f, p))
<1>1. InsOK(SrcAt(f, p)) /\ f.hasGuard \in BOOLEAN
  BY DEF FunOK
<1> QED BY <1>1, PieceFacts DEF PieceAt, ValOf, UseOf, MarkOf, PointOf

\* A block after CheckPointPass.
LEMMA BlockLayout ==
  ASSUME NEW v \in Versions, NEW f, FunOK(f), NEW b \in 1..Len(f.code)
  PROVE  /\ IsFlattened(Pieces(v, f, b), CheckPointed(v, f)[b], Off(v, f, b))
         /\ Len(Pieces(v, f, b)) = Len(f.code[b])
         /\ Len(f.code[b]) \in Nat
         /\ \A i \in 1..Len(f.code[b]) : /\ Pieces(v, f, b)[i] = PieceAt(v, f, <<b, i>>)
                                         /\ Len(PieceAt(v, f, <<b, i>>)) \in Nat
<1> DEFINE n == Len(f.code[b])
           P == Pieces(v, f, b)
<1>1. n \in Nat
  BY DEF FunOK, IsSeq
<1>2. P = [i \in 1..n |-> P[i]] /\ \A i \in 1..n : P[i] = PieceAt(v, f, <<b, i>>)
  BY DEF Pieces, PieceAt, SrcAt, At
<1>3. CheckPointed(v, f)[b] = FlattenSeq(P)
  BY DEF CheckPointed, Pieces, Piece
<1> HIDE DEF P
<1>4. IsSeq(P) /\ Len(P) = n
  <2> HIDE DEF n
  <2> QED BY <1>1, <1>2, FunctionIsSeq
<1>5. ASSUME NEW i \in 1..n PROVE IsSeq(P[i]) /\ Len(PieceAt(v, f, <<b, i>>)) \in Nat
  <2>1. <<b, i>> \in Positions(f.code)
    BY PositionsOf
  <2>2. IsSeq(PieceAt(v, f, <<b, i>>))
    BY <2>1, PieceAtFacts DEF PieceOK
  <2> QED BY <1>2, <2>2 DEF IsSeq
<1>6. IsFlattened(P, FlattenSeq(P), Starts(P))
  <2>1. \A i \in 1..Len(P) : IsSeq(P[i])
    BY <1>4, <1>5
  <2> QED BY <1>4, <2>1, FlattenLayout
<1> QED BY <1>1, <1>2, <1>3, <1>4, <1>5, <1>6 DEF P, Off

\* Every instruction of a block is in a piece.
Covered(v, f, b) ==
  \A k \in 1..Len(CheckPointed(v, f)[b]) :
    \E i \in 1..Len(f.code[b]) : \E m \in 1..Len(PieceAt(v, f, <<b, i>>)) :
      k = Off(v, f, b)[i - 1] + m

\* The instructions of p are in the block of p, in order and after those before p.
LEMMA Offsets ==
  ASSUME NEW v \in Versions, NEW f, FunOK(f), NEW b \in 1..Len(f.code)
  PROVE  /\ \A i \in 0..Len(f.code[b]) : Off(v, f, b)[i] \in Nat
         /\ Off(v, f, b)[0] = 0
         /\ Off(v, f, b)[Len(f.code[b])] = Len(CheckPointed(v, f)[b])
         /\ IsSeq(CheckPointed(v, f)[b])
         /\ \A i \in 1..Len(f.code[b]) :
              /\ Off(v, f, b)[i] = Off(v, f, b)[i - 1] + Len(PieceAt(v, f, <<b, i>>))
              /\ \A m \in 1..Len(PieceAt(v, f, <<b, i>>)) :
                   CheckPointed(v, f)[b][Off(v, f, b)[i - 1] + m] = PieceAt(v, f, <<b, i>>)[m]
         /\ \A i, j \in 0..Len(f.code[b]) : i <= j => Off(v, f, b)[i] <= Off(v, f, b)[j]
         /\ Covered(v, f, b)
<1> DEFINE n == Len(f.code[b])
           P == Pieces(v, f, b)
           A == Off(v, f, b)
           s == CheckPointed(v, f)[b]
           Q(i) == PieceAt(v, f, <<b, i>>)
<1>1. IsFlattened(P, s, A) /\ Len(P) = n /\ n \in Nat /\ \A i \in 1..n : P[i] = Q(i)
  BY BlockLayout
<1> HIDE DEF n, P, A, s, Q
<1>2. /\ IsSeq(s)
      /\ Len(s) = A[Len(P)]
      /\ \A i \in 1..Len(P) : \A m \in 1..Len(P[i]) : s[A[i - 1] + m] = P[i][m]
      /\ \A k \in 1..Len(s) : \E i \in 1..Len(P) : \E m \in 1..Len(P[i]) : k = A[i - 1] + m
      /\ \A i \in 0..Len(P) : A[i] \in Nat
      /\ A[0] = 0
      /\ \A i \in 1..Len(P) : A[i] = A[i - 1] + Len(P[i])
      /\ \A i, j \in 0..Len(P) : i <= j => A[i] <= A[j]
  BY <1>1 DEF IsFlattened
<1>3. /\ \A i \in 0..n : A[i] \in Nat
      /\ A[0] = 0 /\ A[n] = Len(s) /\ IsSeq(s)
      /\ \A i \in 1..n : /\ A[i] = A[i - 1] + Len(Q(i))
                         /\ \A m \in 1..Len(Q(i)) : s[A[i - 1] + m] = Q(i)[m]
      /\ \A i, j \in 0..n : i <= j => A[i] <= A[j]
      /\ \A k \in 1..Len(s) : \E i \in 1..n : \E m \in 1..Len(Q(i)) : k = A[i - 1] + m
  <2>1. /\ IsSeq(s)
        /\ Len(s) = A[n]
        /\ \A i \in 1..n : \A m \in 1..Len(P[i]) : s[A[i - 1] + m] = P[i][m]
        /\ \A k \in 1..Len(s) : \E i \in 1..n : \E m \in 1..Len(P[i]) : k = A[i - 1] + m
        /\ \A i \in 0..n : A[i] \in Nat
        /\ A[0] = 0
        /\ \A i \in 1..n : A[i] = A[i - 1] + Len(P[i])
        /\ \A i, j \in 0..n : i <= j => A[i] <= A[j]
    <3>1. n = Len(P)
      BY <1>1
    <3> QED BY ONLY <1>2, <3>1
  <2>2. ASSUME NEW k \in 1..Len(s) PROVE \E i \in 1..n : \E m \in 1..Len(Q(i)) : k = A[i - 1] + m
    <3>1. PICK i \in 1..n : \E m \in 1..Len(P[i]) : k = A[i - 1] + m
      BY <2>1
    <3>2. P[i] = Q(i)
      BY <1>1
    <3> QED BY <3>1, <3>2
  <2>3. ASSUME NEW i \in 1..n
        PROVE  A[i] = A[i - 1] + Len(Q(i)) /\ \A m \in 1..Len(Q(i)) : s[A[i - 1] + m] = Q(i)[m]
    <3>1. P[i] = Q(i)
      BY <1>1
    <3>2. A[i] = A[i - 1] + Len(P[i]) /\ \A m \in 1..Len(P[i]) : s[A[i - 1] + m] = P[i][m]
      BY <2>1
    <3> QED BY Zenon, <3>1, <3>2
  <2>4. /\ \A i \in 0..n : A[i] \in Nat
        /\ A[0] = 0 /\ A[n] = Len(s) /\ IsSeq(s)
        /\ \A i, j \in 0..n : i <= j => A[i] <= A[j]
    BY <2>1
  <2> QED BY Zenon, <2>2, <2>3, <2>4
<1>4. Covered(v, f, b)
  BY <1>3 DEF n, A, s, Q, Covered
<1> QED BY <1>3, <1>4 DEF n, A, s, Q

\* The code after CheckPointPass, by pieces.
LEMMA Places ==
  ASSUME NEW v \in Versions, NEW f, FunOK(f)
  PROVE  LET c == CheckPointed(v, f) IN
         /\ IsSeq(c) /\ Len(c) = Len(f.code)
         /\ \A b \in 1..Len(c) : IsSeq(c[b])
         /\ \A p \in Positions(f.code) : \A m \in 1..Len(PieceAt(v, f, p)) :
              Place(v, f, p, m) \in Positions(c) /\ At(c, Place(v, f, p, m)) = PieceAt(v, f, p)[m]
         /\ \A x \in Positions(c) : \E p \in Positions(f.code) :
              \E m \in 1..Len(PieceAt(v, f, p)) : x = Place(v, f, p, m)
<1>0. ASSUME NEW b \in 1..Len(f.code)
      PROVE  \A k \in 1..Len(CheckPointed(v, f)[b]) :
               \E i \in 1..Len(f.code[b]) : \E m \in 1..Len(PieceAt(v, f, <<b, i>>)) :
                 k = Off(v, f, b)[i - 1] + m
  <2>1. Covered(v, f, b)
    BY Offsets
  <2> QED BY <2>1 DEF Covered
<1> DEFINE c == CheckPointed(v, f)
<1>1. Len(f.code) \in Nat /\ c = [b \in 1..Len(f.code) |-> c[b]]
  BY DEF FunOK, IsSeq, CheckPointed
<1>2. IsSeq(c) /\ Len(c) = Len(f.code)
  <2> HIDE DEF c
  <2> QED BY <1>1, FunctionIsSeq
<1>3. ASSUME NEW b \in 1..Len(f.code) PROVE IsSeq(c[b])
  BY Offsets
<1>4. ASSUME NEW p \in Positions(f.code), NEW m \in 1..Len(PieceAt(v, f, p))
      PROVE  Place(v, f, p, m) \in Positions(c) /\ At(c, Place(v, f, p, m)) = PieceAt(v, f, p)[m]
  <2> DEFINE b == p[1]
             i == p[2]
             A == Off(v, f, b)
             n == Len(f.code[b])
  <2>1. b \in 1..Len(f.code) /\ i \in 1..n /\ p = <<b, i>> /\ n \in Nat
    BY PositionsOf DEF FunOK, IsSeq
  <2> HIDE DEF b, i
  <2>2. /\ A[i] = A[i - 1] + Len(PieceAt(v, f, p)) /\ c[b][A[i - 1] + m] = PieceAt(v, f, p)[m]
        /\ A[n] = Len(c[b]) /\ \A k \in 0..n : A[k] \in Nat
        /\ \A k, l \in 0..n : k <= l => A[k] <= A[l]
    BY <2>1, Offsets
  <2>3. Place(v, f, p, m) = <<b, A[i - 1] + m>>
    BY DEF Place, Off, b, i
  <2> HIDE DEF A, c, n
  <2>4. i - 1 \in 0..n /\ i \in 0..n /\ n \in 0..n /\ i <= n
    BY <2>1
  <2>5. A[i - 1] \in Nat /\ A[i] \in Nat /\ A[i] <= A[n] /\ A[n] \in Nat
    BY <2>2, <2>4
  <2>6. A[i - 1] + m \in 1..Len(c[b])
    BY <2>2, <2>5
  <2>7. <<b, A[i - 1] + m>> \in Positions(c)
    BY <1>2, <2>1, <2>6, PositionsOf
  <2>8. At(c, <<b, A[i - 1] + m>>) = c[b][A[i - 1] + m]
    BY DEF At
  <2> QED BY <2>2, <2>3, <2>7, <2>8
<1>5. ASSUME NEW x \in Positions(c)
      PROVE  \E p \in Positions(f.code) :
               \E m \in 1..Len(PieceAt(v, f, p)) : x = Place(v, f, p, m)
  <2> DEFINE b == x[1]
             A == Off(v, f, b)
  <2>1. b \in 1..Len(f.code) /\ x[2] \in 1..Len(c[b]) /\ x = <<b, x[2]>>
    <3> HIDE DEF c
    <3> QED BY <1>2, PositionsOf
  <2> HIDE DEF b
  <2>2. PICK i \in 1..Len(f.code[b]) : \E m \in 1..Len(PieceAt(v, f, <<b, i>>)) : x[2] = A[i - 1] + m
    <3>1. \A k \in 1..Len(c[b]) :
            \E i \in 1..Len(f.code[b]) : \E m \in 1..Len(PieceAt(v, f, <<b, i>>)) : k = A[i - 1] + m
      BY <1>0, <2>1
    <3> HIDE DEF A, c
    <3> QED BY <2>1, <3>1
  <2>3. PICK m \in 1..Len(PieceAt(v, f, <<b, i>>)) : x[2] = A[i - 1] + m
    BY <2>2
  <2>4. <<b, i>> \in Positions(f.code)
    BY <2>1, PositionsOf
  <2>5. Place(v, f, <<b, i>>, m) = <<b, A[i - 1] + m>>
    BY DEF Place, Off
  <2> QED BY <2>1, <2>3, <2>4, <2>5
<1> QED BY <1>2, <1>3, <1>4, <1>5

\* The order of instructions.
LEMMA PlaceOrder ==
  ASSUME NEW v \in Versions, NEW f, FunOK(f),
         NEW p \in Positions(f.code), NEW m \in 1..Len(PieceAt(v, f, p)),
         NEW q \in Positions(f.code), NEW n \in 1..Len(PieceAt(v, f, q))
  PROVE  /\ Place(v, f, p, m)[1] = p[1]
         /\ Place(v, f, p, m)[2] \in Nat
         /\ p[1] = q[1] /\ p[2] < q[2] => Place(v, f, p, m)[2] < Place(v, f, q, n)[2]
         /\ p = q => (Place(v, f, p, m)[2] < Place(v, f, q, n)[2] <=> m < n)
<1> DEFINE b == p[1]
           A == Off(v, f, b)
           N == Len(f.code[b])
           i == p[2]
           j == q[2]
<1>1. b \in 1..Len(f.code) /\ i \in 1..N /\ p = <<b, i>> /\ q = <<q[1], j>> /\ N \in Nat
      /\ (q[1] = b => j \in 1..N)
  BY PositionsOf DEF FunOK, IsSeq
<1>2. /\ \A k \in 0..N : A[k] \in Nat
      /\ \A k, l \in 0..N : k <= l => A[k] <= A[l]
      /\ A[i] = A[i - 1] + Len(PieceAt(v, f, p))
  <2>1. p = <<b, i>> /\ b \in 1..Len(f.code) /\ i \in 1..Len(f.code[b])
    BY <1>1
  <2> HIDE DEF b, i
  <2>2. /\ \A k \in 0..Len(f.code[b]) : Off(v, f, b)[k] \in Nat
        /\ \A k, l \in 0..Len(f.code[b]) : k <= l => Off(v, f, b)[k] <= Off(v, f, b)[l]
        /\ Off(v, f, b)[i] = Off(v, f, b)[i - 1] + Len(PieceAt(v, f, <<b, i>>))
    BY <2>1, Offsets
  <2> QED BY <2>1, <2>2
<1>3. Place(v, f, p, m) = <<b, A[i - 1] + m>> /\ (q[1] = b => Place(v, f, q, n) = <<b, A[j - 1] + n>>)
  BY DEF Place, Off
<1> HIDE DEF b, A, N, i, j
<1>4. i - 1 \in 0..N /\ i \in 0..N /\ A[i - 1] \in Nat /\ A[i] \in Nat
  <2>1. i - 1 \in 0..N /\ i \in 0..N
    BY <1>1
  <2> QED BY <1>2, <2>1
<1>5. ASSUME q[1] = b, i < j PROVE A[i - 1] + m < A[j - 1] + n
  <2>1. j - 1 \in 0..N /\ i <= j - 1
    BY <1>1, <1>5
  <2>2. A[j - 1] \in Nat /\ A[i] <= A[j - 1]
    BY <1>2, <1>4, <2>1
  <2>3. m \in Nat /\ n \in Nat /\ n >= 1 /\ m <= Len(PieceAt(v, f, p)) /\ Len(PieceAt(v, f, p)) = A[i] - A[i - 1]
    <3>1. Len(PieceAt(v, f, p)) \in Nat
      BY PieceAtFacts DEF PieceOK, IsSeq
    <3> QED BY <1>2, <1>4, <3>1
  <2> QED BY <1>4, <2>2, <2>3
<1>6. p = q => (A[i - 1] + m < A[j - 1] + n <=> m < n)
  BY <1>1, <1>4 DEF i, j
<1>7. p = q => q[1] = b
  BY DEF b
<1> QED BY <1>3, <1>4, <1>5, <1>6, <1>7 DEF b, i, j

\* What is above what, and what comes before what, is the same in the source and in the code.
LEMMA PlaceDominates ==
  ASSUME NEW v \in Versions, NEW f, FunOK(f), NEW D,
         NEW p \in Positions(f.code), NEW m \in 1..Len(PieceAt(v, f, p)),
         NEW q \in Positions(f.code), NEW n \in 1..Len(PieceAt(v, f, q))
  PROVE  /\ p # q => (Dominates(D, Place(v, f, p, m), Place(v, f, q, n)) <=> Dominates(D, p, q))
         /\ p = q => (Dominates(D, Place(v, f, p, m), Place(v, f, q, n)) <=>
                        p[1] \notin D.reachable \/ m < n)
         /\ p # q => (Before(Place(v, f, p, m), Place(v, f, q, n)) <=> Before(p, q))
         /\ p = q => (Before(Place(v, f, p, m), Place(v, f, q, n)) <=> m < n)
<1> DEFINE x == Place(v, f, p, m)
           y == Place(v, f, q, n)
<1>1. /\ x[1] = p[1] /\ x[2] \in Nat /\ y[1] = q[1] /\ y[2] \in Nat
      /\ p[1] = q[1] /\ p[2] < q[2] => x[2] < y[2]
      /\ p[1] = q[1] /\ q[2] < p[2] => y[2] < x[2]
      /\ p = q => (x[2] < y[2] <=> m < n)
  BY PlaceOrder
<1>2. /\ p = <<p[1], p[2]>> /\ q = <<q[1], q[2]>> /\ p[2] \in Nat /\ q[2] \in Nat
      /\ p[1] \in Nat /\ q[1] \in Nat
  BY PositionsOf
<1> HIDE DEF x, y
<1>3. CASE p[1] = q[1] /\ p # q
  <2>1. p[2] # q[2]
    BY <1>2, <1>3
  <2>2. x[2] < y[2] <=> p[2] < q[2]
    BY <1>1, <1>2, <1>3, <2>1
  <2>3. x # y
    BY <1>1, <1>2, <1>3, <2>1
  <2>4. ~(p[1] < q[1]) /\ ~(x[1] < y[1])
    BY <1>1, <1>2, <1>3
  <2> QED BY <1>1, <1>3, <2>2, <2>3, <2>4 DEF Dominates, Before, x, y
<1>4. CASE p[1] # q[1]
  <2>1. x # y /\ p # q
    BY <1>1, <1>4
  <2> QED BY <1>1, <1>4, <2>1 DEF Dominates, Before, x, y
<1>5. CASE p = q
  <2>1. x[2] < y[2] <=> m < n
    BY <1>1, <1>5
  <2>2. m < n => x # y
    BY <1>1, <2>1
  <2>3. x[1] = p[1] /\ y[1] = p[1] /\ ~(p[1] < p[1])
    BY <1>1, <1>2, <1>5
  <2>4. Dominates(D, x, y) <=> p[1] \notin D.reachable \/ m < n
    BY <2>1, <2>2, <2>3 DEF Dominates
  <2>5. Before(x, y) <=> m < n
    BY <2>1, <2>3 DEF Before
  <2> QED BY <1>5, <2>4, <2>5 DEF x, y
<1> QED BY <1>3, <1>4, <1>5

\* An instruction belongs to one piece only.
LEMMA PlaceUnique ==
  ASSUME NEW v \in Versions, NEW f, FunOK(f),
         NEW p \in Positions(f.code), NEW m \in 1..Len(PieceAt(v, f, p)),
         NEW q \in Positions(f.code), NEW n \in 1..Len(PieceAt(v, f, q)),
         Place(v, f, p, m) = Place(v, f, q, n)
  PROVE  p = q /\ m = n
<1> DEFINE x == Place(v, f, p, m)
           y == Place(v, f, q, n)
<1>1. /\ x[1] = p[1] /\ x[2] \in Nat /\ y[1] = q[1] /\ y[2] \in Nat
      /\ p[1] = q[1] /\ p[2] < q[2] => x[2] < y[2]
      /\ p[1] = q[1] /\ q[2] < p[2] => y[2] < x[2]
      /\ p = q => (x[2] < y[2] <=> m < n)
      /\ p = q => (y[2] < x[2] <=> n < m)
  BY PlaceOrder
<1>2. /\ p = <<p[1], p[2]>> /\ q = <<q[1], q[2]>> /\ p[2] \in Nat /\ q[2] \in Nat
  BY PositionsOf
<1>3. x = y
  OBVIOUS
<1>4. m \in Int /\ n \in Int
  OBVIOUS
<1> HIDE DEF x, y
<1>5. p[1] = q[1] /\ ~(x[2] < y[2]) /\ ~(y[2] < x[2])
  BY <1>1, <1>3
<1>6. p[2] = q[2]
  BY <1>1, <1>2, <1>5
<1>7. p = q
  BY <1>2, <1>5, <1>6
<1>8. ~(m < n) /\ ~(n < m)
  BY <1>1, <1>5, <1>7
<1> QED BY <1>4, <1>7, <1>8

-----------------------------------------------------------------------------
(***************************************************************************)
(* The code while LiveVariablesPass goes over it.                          *)
(***************************************************************************)

\* What the m-th instruction for p is in c.
IsPiece(c, v, f, R, nx, p, m) ==
  LET x   == Place(v, f, p, m)
      ins == PieceAt(v, f, p)[m]
  IN  /\ x \in Positions(c)
      /\ At(c, x).op = ins.op /\ At(c, x).val = ins.val /\ At(c, x).at = ins.at
      /\ At(c, x).uses = ins.uses \cup
           IF producesStackmapRecords(ins) /\ Before(x, nx) THEN Values(R[ins.at]) ELSE {}
      /\ producesStackmapRecords(ins) => Whole(At(c, x))

\* Every instruction of c is in a piece.
InPieces(c, v, f) ==
  \A x \in Positions(c) : \E p \in Positions(f.code) :
    \E m \in 1..Len(PieceAt(v, f, p)) : x = Place(v, f, p, m)

LEMMA CodePlaces ==
  ASSUME NEW c, NEW v \in Versions, NEW f, FunOK(f), NEW R, NEW nx, CodeIs(c, v, f, R, nx)
  PROVE  /\ IsSeq(c) /\ Len(c) = Len(f.code)
         /\ \A b \in 1..Len(c) : IsSeq(c[b]) /\ Len(c[b]) = Len(CheckPointed(v, f)[b])
         /\ \A p \in Positions(f.code) : \A m \in 1..Len(PieceAt(v, f, p)) :
              IsPiece(c, v, f, R, nx, p, m)
         /\ InPieces(c, v, f)
<1> DEFINE k == CheckPointed(v, f)
<1>1. /\ Len(k) = Len(f.code)
      /\ \A p \in Positions(f.code) : \A m \in 1..Len(PieceAt(v, f, p)) :
           Place(v, f, p, m) \in Positions(k) /\ At(k, Place(v, f, p, m)) = PieceAt(v, f, p)[m]
      /\ \A x \in Positions(k) : \E p \in Positions(f.code) :
           \E m \in 1..Len(PieceAt(v, f, p)) : x = Place(v, f, p, m)
  BY Places
<1>2. /\ IsSeq(c) /\ Len(c) = Len(k)
      /\ \A b \in 1..Len(k) :
           /\ IsSeq(c[b]) /\ Len(c[b]) = Len(k[b])
           /\ \A j \in 1..Len(k[b]) :
                /\ c[b][j].op = k[b][j].op
                /\ c[b][j].val = k[b][j].val
                /\ c[b][j].at = k[b][j].at
                /\ c[b][j].uses = k[b][j].uses \cup Recorded(c, R, nx, b, j)
                /\ producesStackmapRecords(k[b][j]) => Whole(c[b][j])
  BY DEF CodeIs
<1> HIDE DEF k
<1>3. Positions(c) = Positions(k)
  <2>1. ASSUME NEW x \in Positions(c) PROVE x \in Positions(k)
    <3>1. x[1] \in 1..Len(c) /\ x[2] \in 1..Len(c[x[1]]) /\ x = <<x[1], x[2]>>
      BY PositionsOf
    <3>2. x[1] \in 1..Len(k) /\ x[2] \in 1..Len(k[x[1]])
      BY <1>2, <3>1
    <3> QED BY <3>1, <3>2, PositionsOf
  <2>2. ASSUME NEW x \in Positions(k) PROVE x \in Positions(c)
    <3>1. x[1] \in 1..Len(k) /\ x[2] \in 1..Len(k[x[1]]) /\ x = <<x[1], x[2]>>
      BY PositionsOf
    <3>2. x[1] \in 1..Len(c) /\ x[2] \in 1..Len(c[x[1]])
      BY <1>2, <3>1
    <3> QED BY <3>1, <3>2, PositionsOf
  <2> QED BY <2>1, <2>2
<1>4. ASSUME NEW p \in Positions(f.code), NEW m \in 1..Len(PieceAt(v, f, p))
      PROVE  IsPiece(c, v, f, R, nx, p, m)
  <2> DEFINE x == Place(v, f, p, m)
             ins == PieceAt(v, f, p)[m]
             b == x[1]
             j == x[2]
  <2>1. x \in Positions(k) /\ At(k, x) = ins /\ x \in Positions(c)
    BY <1>1, <1>3
  <2> HIDE DEF x, ins
  <2>2. b \in 1..Len(k) /\ j \in 1..Len(k[b]) /\ x = <<b, j>>
    BY <2>1, PositionsOf
  <2>3. At(c, x) = c[b][j] /\ ins = k[b][j]
    BY <2>1 DEF At
  <2> HIDE DEF b, j
  <2>4. /\ c[b][j].op = k[b][j].op
        /\ c[b][j].val = k[b][j].val
        /\ c[b][j].at = k[b][j].at
        /\ c[b][j].uses = k[b][j].uses \cup Recorded(c, R, nx, b, j)
        /\ producesStackmapRecords(k[b][j]) => Whole(c[b][j])
    BY <1>2, <2>2
  <2>5. Recorded(c, R, nx, b, j) =
          IF producesStackmapRecords(ins) /\ Before(x, nx) THEN Values(R[ins.at]) ELSE {}
    <3>1. c[b][j].op = ins.op /\ c[b][j].at = ins.at
      BY <2>3, <2>4
    <3>2. producesStackmapRecords(c[b][j]) <=> producesStackmapRecords(ins)
      BY <3>1 DEF producesStackmapRecords
    <3> QED BY Zenon, <2>2, <3>1, <3>2 DEF Recorded
  <2>6. /\ At(c, x).op = ins.op /\ At(c, x).val = ins.val /\ At(c, x).at = ins.at
        /\ At(c, x).uses = ins.uses \cup
             IF producesStackmapRecords(ins) /\ Before(x, nx) THEN Values(R[ins.at]) ELSE {}
        /\ producesStackmapRecords(ins) => Whole(At(c, x))
    <3> HIDE DEF At
    <3> QED BY Zenon, <2>3, <2>4, <2>5
  <2> QED BY Zenon, <2>1, <2>6 DEF IsPiece, x, ins
<1>5. /\ IsSeq(c) /\ Len(c) = Len(f.code)
      /\ \A b \in 1..Len(c) : IsSeq(c[b]) /\ Len(c[b]) = Len(CheckPointed(v, f)[b])
  BY <1>1, <1>2 DEF k
<1>6. InPieces(c, v, f)
  BY Zenon, <1>1, <1>3 DEF InPieces
<1> QED BY <1>4, <1>5, <1>6

\* A site of the source and its instruction.
LEMMA SiteFacts ==
  ASSUME NEW v \in Versions, NEW f, FunOK(f), NEW s \in SrcSites(f)
  PROVE  /\ s \in Positions(f.code) /\ HasSite(f, SrcAt(f, s))
         /\ MarkOf(v, f, s) \in 1..Len(PieceAt(v, f, s))
         /\ PointOf(v, f, s) \in 1..Len(PieceAt(v, f, s))
         /\ PointOf(v, f, s) \in {1, 2}
         /\ SitePlace(v, f, s) = Place(v, f, s, MarkOf(v, f, s))
         /\ producesStackmapRecords(PieceAt(v, f, s)[MarkOf(v, f, s)])
         /\ PieceAt(v, f, s)[MarkOf(v, f, s)].at = SrcAt(f, s).at
<1>1. s \in Positions(f.code) /\ HasSite(f, SrcAt(f, s))
  BY DEF SrcSites
<1>2. PointOf(v, f, s) \in {1, 2}
  BY DEF PointOf, PointAt
<1>3. SitePlace(v, f, s) = Place(v, f, s, MarkOf(v, f, s))
  BY DEF SitePlace, MarkOf
<1>4. PieceOK(f, SrcAt(f, s), PieceAt(v, f, s), ValOf(v, f, s), UseOf(v, f, s),
                 MarkOf(v, f, s), PointOf(v, f, s))
  BY <1>1, PieceAtFacts
<1>5. /\ MarkOf(v, f, s) \in 1..Len(PieceAt(v, f, s))
      /\ PointOf(v, f, s) \in 1..Len(PieceAt(v, f, s))
  BY <1>1, <1>4 DEF PieceOK
<1>6. /\ producesStackmapRecords(PieceAt(v, f, s)[MarkOf(v, f, s)])
      /\ PieceAt(v, f, s)[MarkOf(v, f, s)].at = SrcAt(f, s).at
  BY <1>1, <1>4, <1>5 DEF PieceOK
<1> QED BY <1>1, <1>2, <1>3, <1>5, <1>6

\* The uses of an instruction: those of its piece and what its site has recorded.
LEMMA CodeUses ==
  ASSUME NEW c, NEW v \in Versions, NEW f, FunOK(f), NEW R, NEW nx, CodeIs(c, v, f, R, nx),
         NEW u \in Positions(f.code), NEW k \in 1..Len(PieceAt(v, f, u)), NEW w
  PROVE  w \in At(c, Place(v, f, u, k)).uses <=>
           \/ w \in PieceAt(v, f, u)[k].uses
           \/ /\ u \in Visited(v, f, nx) /\ k = MarkOf(v, f, u)
              /\ w \in Values(R[SrcAt(f, u).at])
<1> DEFINE x == Place(v, f, u, k)
           ins == PieceAt(v, f, u)[k]
           site == HasSite(f, SrcAt(f, u)) /\ k = MarkOf(v, f, u)
<1>1. At(c, x).uses = ins.uses \cup
        IF producesStackmapRecords(ins) /\ Before(x, nx) THEN Values(R[ins.at]) ELSE {}
  <2>1. IsPiece(c, v, f, R, nx, u, k)
    BY CodePlaces
  <2> QED BY <2>1 DEF IsPiece
<1>2. producesStackmapRecords(ins) <=> site
  BY PieceAtFacts DEF PieceOK
<1>3. producesStackmapRecords(ins) => ins.at = SrcAt(f, u).at
  BY PieceAtFacts DEF PieceOK
<1>4. site /\ Before(x, nx) <=> u \in Visited(v, f, nx) /\ k = MarkOf(v, f, u)
  <2>1. k = MarkOf(v, f, u) => x = SitePlace(v, f, u)
    BY DEF SitePlace, MarkOf
  <2>2. u \in SrcSites(f) <=> HasSite(f, SrcAt(f, u))
    BY DEF SrcSites
  <2> HIDE DEF x
  <2> QED BY Zenon, <2>1, <2>2 DEF Visited
<1> HIDE DEF x, ins, site
<1>5. w \in At(c, x).uses <=>
        \/ w \in ins.uses
        \/ producesStackmapRecords(ins) /\ Before(x, nx) /\ w \in Values(R[ins.at])
  BY <1>1
<1>6. w \in At(c, x).uses <=>
        \/ w \in ins.uses
        \/ site /\ Before(x, nx) /\ w \in Values(R[SrcAt(f, u).at])
  BY Zenon, <1>2, <1>3, <1>5
<1> QED BY Zenon, <1>4, <1>6 DEF x, ins

\* The uses of a value of the source.
LEMMA SourceUses ==
  ASSUME NEW c, NEW v \in Versions, NEW f, FunOK(f), NEW R, NEW nx, CodeIs(c, v, f, R, nx),
         NEW u \in Positions(f.code), NEW k \in 1..Len(PieceAt(v, f, u)),
         NEW d \in Positions(f.code)
  PROVE  SrcAt(f, d).val \in At(c, Place(v, f, u, k)).uses <=>
           \/ k = UseOf(v, f, u) /\ SrcAt(f, d).val \in SrcAt(f, u).uses
           \/ /\ u \in Visited(v, f, nx) /\ k = MarkOf(v, f, u)
              /\ SrcAt(f, d).val \in Values(R[SrcAt(f, u).at])
<1> DEFINE w == SrcAt(f, d).val
           piece == PieceAt(v, f, u)
<1>1. w \in piece[k].uses => k = UseOf(v, f, u) /\ w \in SrcAt(f, u).uses
  <2>1. w \in piece[k].uses =>
          \/ k = UseOf(v, f, u) /\ w \in SrcAt(f, u).uses
          \/ w = Aux(SrcAt(f, u).val, k - 1)
    BY PieceAtFacts DEF PieceOK
  <2>2. w # Aux(SrcAt(f, u).val, k - 1)
    BY DEF FunOK
  <2> QED BY <2>1, <2>2
<1>2. k = UseOf(v, f, u) => piece[k].uses = SrcAt(f, u).uses
  BY PieceAtFacts DEF PieceOK
<1>3. w \in At(c, Place(v, f, u, k)).uses <=>
           \/ w \in piece[k].uses
           \/ /\ u \in Visited(v, f, nx) /\ k = MarkOf(v, f, u)
              /\ w \in Values(R[SrcAt(f, u).at])
  BY CodeUses
<1> HIDE DEF w, piece
<1>4. w \in piece[k].uses <=> k = UseOf(v, f, u) /\ w \in SrcAt(f, u).uses
  BY <1>1, <1>2
<1> QED BY Zenon, <1>3, <1>4 DEF w

\* Only values of the source are recorded, those defined above their site.
OnlySource(f, R, S) ==
  \A s \in S : \A w \in Values(R[SrcAt(f, s).at]) :
    \E d \in Positions(f.code) : /\ w = SrcAt(f, d).val /\ w # None
                                 /\ Dominates(Dominators(f.cfg), d, s)

\* The values made to convert different results differ.
LEMMA AuxInjective ==
  ASSUME NEW a, NEW b, NEW m \in {2, 3}, NEW n \in {2, 3}, Aux(a, m) = Aux(b, n)
  PROVE  a = b /\ m = n
BY DEF Aux, Raw, Pointer

\* A value made to convert a result is used by the next instruction only.
LEMMA AuxUses ==
  ASSUME NEW c, NEW v \in Versions, NEW f, FunOK(f), NEW R, NEW nx, CodeIs(c, v, f, R, nx),
         OnlySource(f, R, Visited(v, f, nx)),
         NEW u \in Positions(f.code), NEW k \in 1..Len(PieceAt(v, f, u)),
         NEW d \in Positions(f.code), NEW m \in {2, 3}, SrcAt(f, d).val # None,
         Aux(SrcAt(f, d).val, m) \in At(c, Place(v, f, u, k)).uses
  PROVE  u = d /\ k = m + 1
<1> DEFINE w == Aux(SrcAt(f, d).val, m)
           piece == PieceAt(v, f, u)
<1>1. ~(u \in Visited(v, f, nx) /\ w \in Values(R[SrcAt(f, u).at]))
  <2>1. SUFFICES ASSUME u \in Visited(v, f, nx), w \in Values(R[SrcAt(f, u).at]) PROVE FALSE
    OBVIOUS
  <2>2. PICK e \in Positions(f.code) : w = SrcAt(f, e).val
    BY <2>1 DEF OnlySource
  <2> QED BY <2>2 DEF FunOK
<1>2. w \in piece[k].uses
  <2>1. w \in At(c, Place(v, f, u, k)).uses
    OBVIOUS
  <2> HIDE DEF w
  <2>2. w \in At(c, Place(v, f, u, k)).uses <=>
           \/ w \in piece[k].uses
           \/ /\ u \in Visited(v, f, nx) /\ k = MarkOf(v, f, u)
              /\ w \in Values(R[SrcAt(f, u).at])
    BY CodeUses
  <2> QED BY Zenon, <1>1, <2>1, <2>2
<1>3. \/ w \in SrcAt(f, u).uses
      \/ k - 1 \in {2, 3} /\ SrcAt(f, u).val # None /\ w = Aux(SrcAt(f, u).val, k - 1)
  <2> HIDE DEF w
  <2> QED BY <1>2, PieceAtFacts DEF PieceOK
<1>4. w \notin SrcAt(f, u).uses
  BY DEF FunOK
<1>5. SrcAt(f, d).val = SrcAt(f, u).val /\ m = k - 1
  BY <1>3, <1>4, AuxInjective
<1>6. u = d
  BY <1>5 DEF FunOK
<1> QED BY <1>5, <1>6

-----------------------------------------------------------------------------
(***************************************************************************)
(* What getLiveRegisters finds at a site.                                  *)
(***************************************************************************)

\* The site that is visited next.
AtSite(v, f, nx, s) == s \in SrcSites(f) /\ nx = SitePlace(v, f, s)

PointPlace(v, f, s) == Place(v, f, s, PointOf(v, f, s))

\* The sites visited before s are those before it in the source.
LEMMA VisitedBefore ==
  ASSUME NEW v \in Versions, NEW f, FunOK(f), NEW s, NEW nx, AtSite(v, f, nx, s)
  PROVE  \A t \in SrcSites(f) : t \in Visited(v, f, nx) <=> Before(t, s)
<1> SUFFICES ASSUME NEW t \in SrcSites(f)
             PROVE  t \in Visited(v, f, nx) <=> Before(t, s)
  OBVIOUS
<1>1. s \in SrcSites(f) /\ nx = SitePlace(v, f, s)
  BY DEF AtSite
<1> DEFINE m == MarkOf(v, f, t)
           n == MarkOf(v, f, s)
<1>2. /\ t \in Positions(f.code) /\ m \in 1..Len(PieceAt(v, f, t)) /\ SitePlace(v, f, t) = Place(v, f, t, m)
      /\ s \in Positions(f.code) /\ n \in 1..Len(PieceAt(v, f, s)) /\ SitePlace(v, f, s) = Place(v, f, s, n)
  BY <1>1, SiteFacts
<1> HIDE DEF m, n
<1>3. /\ t # s => (Before(Place(v, f, t, m), Place(v, f, s, n)) <=> Before(t, s))
      /\ t = s => (Before(Place(v, f, t, m), Place(v, f, s, n)) <=> m < n)
  BY <1>2, PlaceDominates
<1>4. t = s => ~(m < n) /\ ~Before(t, s)
  <2>1. ~(m < m)
    BY <1>2
  <2>2. t[1] \in Nat /\ t[2] \in Nat
    BY <1>2, PositionsOf
  <2> QED BY <2>1, <2>2 DEF Before, m, n
<1>5. Before(SitePlace(v, f, t), nx) <=> Before(t, s)
  BY <1>1, <1>2, <1>3, <1>4
<1> QED BY <1>5 DEF Visited

\* LivePoint is in the piece of the site.
LEMMA LivePointPlace ==
  ASSUME NEW c, NEW v \in Versions, NEW f, FunOK(f), NEW R, NEW nx, CodeIs(c, v, f, R, nx),
         NEW s, AtSite(v, f, nx, s)
  PROVE  LivePoint(c, nx) = PointPlace(v, f, s)
<1> DEFINE m == MarkOf(v, f, s)
           n == PointOf(v, f, s)
           A == Off(v, f, s[1])
           o == A[s[2] - 1]
<1>1. s \in SrcSites(f) /\ nx = SitePlace(v, f, s)
  BY DEF AtSite
<1>2. /\ s \in Positions(f.code) /\ m \in 1..Len(PieceAt(v, f, s)) /\ nx = Place(v, f, s, m)
      /\ producesStackmapRecords(PieceAt(v, f, s)[m]) /\ n \in {1, 2}
  BY <1>1, SiteFacts
<1>3. n = IF PieceAt(v, f, s)[m].op = "stackmap" THEN m - 1 ELSE m
  <2> HIDE DEF m, n
  <2> QED BY <1>2, PieceAtFacts DEF PieceOK, m, n
<1>4. At(c, nx).op = PieceAt(v, f, s)[m].op
  <2>1. IsPiece(c, v, f, R, nx, s, m)
    BY <1>2, CodePlaces
  <2> HIDE DEF m
  <2> QED BY <1>2, <2>1 DEF IsPiece
<1>5. nx = <<s[1], o + m>> /\ PointPlace(v, f, s) = <<s[1], o + n>>
  BY <1>2 DEF Place, PointPlace, Off
<1>6. o \in Nat
  <2>1. s[1] \in 1..Len(f.code) /\ s[2] \in 1..Len(f.code[s[1]]) /\ Len(f.code[s[1]]) \in Nat
    BY <1>2, PositionsOf DEF FunOK, IsSeq
  <2>2. s[2] - 1 \in 0..Len(f.code[s[1]])
    BY <2>1
  <2> QED BY <2>1, <2>2, Offsets
<1> HIDE DEF m, n, o
<1>7. m \in Nat /\ nx[1] = s[1] /\ nx[2] = o + m
  BY <1>2, <1>5
<1>8. CASE PieceAt(v, f, s)[m].op = "stackmap"
  <2>1. n = m - 1 /\ m > 1
    BY <1>2, <1>3, <1>7, <1>8
  <2>2. nx[2] > 1 /\ nx[2] - 1 = o + n
    BY <1>6, <1>7, <2>1
  <2> QED BY <1>4, <1>5, <1>7, <1>8, <2>2 DEF LivePoint
<1>9. CASE PieceAt(v, f, s)[m].op # "stackmap"
  BY <1>3, <1>4, <1>5, <1>9 DEF LivePoint
<1> QED BY <1>8, <1>9

\* What is above the point of a site.
LEMMA AbovePoint ==
  ASSUME NEW v \in Versions, NEW f, FunOK(f), NEW D, NEW s \in SrcSites(f),
         NEW d \in Positions(f.code), NEW m \in 1..Len(PieceAt(v, f, d)),
         d = s => ~(m < PointOf(v, f, s))
  PROVE  Dominates(D, Place(v, f, d, m), PointPlace(v, f, s)) <=> Dominates(D, d, s)
<1>1. s \in Positions(f.code) /\ PointOf(v, f, s) \in 1..Len(PieceAt(v, f, s))
  BY SiteFacts
<1>2. /\ d # s => (Dominates(D, Place(v, f, d, m), PointPlace(v, f, s)) <=> Dominates(D, d, s))
      /\ d = s => (Dominates(D, Place(v, f, d, m), PointPlace(v, f, s)) <=>
                     d[1] \notin D.reachable \/ m < PointOf(v, f, s))
  BY <1>1, PlaceDominates DEF PointPlace
<1>3. d = s => (Dominates(D, d, s) <=> d[1] \notin D.reachable)
  BY DEF Dominates
<1> QED BY Zenon, <1>2, <1>3

\* The value and the uses of an instruction with a site are at or below the point of the site.
LEMMA PointFirst ==
  ASSUME NEW v \in Versions, NEW f, FunOK(f), NEW s \in SrcSites(f)
  PROVE  ~(ValOf(v, f, s) < PointOf(v, f, s)) /\ ~(UseOf(v, f, s) < PointOf(v, f, s))
<1>1. s \in Positions(f.code) /\ HasSite(f, SrcAt(f, s)) /\ PointOf(v, f, s) \in {1, 2}
  BY SiteFacts
<1>2. PieceOK(f, SrcAt(f, s), PieceAt(v, f, s), ValOf(v, f, s), UseOf(v, f, s),
                 MarkOf(v, f, s), PointOf(v, f, s))
  BY <1>1, PieceAtFacts
<1>3. /\ PointOf(v, f, s) <= ValOf(v, f, s) /\ PointOf(v, f, s) <= UseOf(v, f, s)
      /\ ValOf(v, f, s) \in Int /\ UseOf(v, f, s) \in Int
  BY <1>1, <1>2 DEF PieceOK
<1> QED BY <1>1, <1>3

\* Whether a value of the source is used below the point of a site.
LEMMA UsedBelowPoint ==
  ASSUME NEW c, NEW v \in Versions, NEW f, FunOK(f), NEW R, NEW nx, CodeIs(c, v, f, R, nx),
         NEW s, AtSite(v, f, nx, s), NEW d \in Positions(f.code), NEW D
  PROVE  UsedBelow(c, D, SrcAt(f, d).val, PointPlace(v, f, s)) <=>
           \E u \in Positions(f.code) : SrcUses(f, R, SrcAt(f, d).val, u, s) /\ ~Dominates(D, u, s)
<1> DEFINE w == SrcAt(f, d).val
           z == PointPlace(v, f, s)
<1>1. s \in SrcSites(f)
  BY DEF AtSite
<1>2. ASSUME NEW u \in Positions(f.code), NEW k \in 1..Len(PieceAt(v, f, u))
      PROVE  w \in At(c, Place(v, f, u, k)).uses <=>
               \/ k = UseOf(v, f, u) /\ w \in SrcAt(f, u).uses
               \/ /\ u \in Visited(v, f, nx) /\ k = MarkOf(v, f, u)
                  /\ w \in Values(R[SrcAt(f, u).at])
  BY SourceUses
<1>3. \A t \in SrcSites(f) : t \in Visited(v, f, nx) <=> Before(t, s)
  BY VisitedBefore
<1>4. ~Before(s, s)
  <2>1. s[1] \in Nat /\ s[2] \in Nat
    BY <1>1, SiteFacts, PositionsOf
  <2> QED BY <2>1 DEF Before
<1>5. ASSUME NEW u \in Positions(f.code), NEW k \in 1..Len(PieceAt(v, f, u)),
             u = s => ~(k < PointOf(v, f, s))
      PROVE  Dominates(D, Place(v, f, u, k), z) <=> Dominates(D, u, s)
  BY <1>1, <1>5, AbovePoint
<1>6. ASSUME NEW u \in Positions(f.code)
      PROVE  UseOf(v, f, u) \in 1..Len(PieceAt(v, f, u))
  BY PieceAtFacts DEF PieceOK
<1>7. ~(UseOf(v, f, s) < PointOf(v, f, s))
  BY <1>1, PointFirst
<1> HIDE DEF z
<1>8. ASSUME UsedBelow(c, D, w, z)
      PROVE  \E u \in Positions(f.code) : SrcUses(f, R, w, u, s) /\ ~Dominates(D, u, s)
  <2>1. PICK x \in Positions(c) : w \in At(c, x).uses /\ ~Dominates(D, x, z)
    BY <1>8 DEF UsedBelow, Users
  <2>0. PICK u \in Positions(f.code) : \E k \in 1..Len(PieceAt(v, f, u)) : x = Place(v, f, u, k)
    <3>1. InPieces(c, v, f)
      BY CodePlaces
    <3> QED BY <3>1 DEF InPieces
  <2>2. PICK k \in 1..Len(PieceAt(v, f, u)) : x = Place(v, f, u, k)
    BY <2>0
  <2>3. CASE k = UseOf(v, f, u) /\ w \in SrcAt(f, u).uses
    <3>1. ~Dominates(D, u, s)
      BY <1>5, <1>7, <2>1, <2>2, <2>3
    <3> QED BY <2>3, <3>1 DEF SrcUses
  <2>4. CASE u \in Visited(v, f, nx) /\ w \in Values(R[SrcAt(f, u).at])
    <3>1. u \in SrcSites(f) /\ Before(u, s)
      BY <1>3, <2>4 DEF Visited
    <3>2. u # s
      BY <1>4, <3>1
    <3>3. ~Dominates(D, u, s)
      BY <1>5, <2>1, <2>2, <3>2
    <3> QED BY <2>4, <3>1, <3>3 DEF SrcUses
  <2> QED BY <1>2, <2>1, <2>2, <2>3, <2>4
<1>9. ASSUME NEW u \in Positions(f.code), SrcUses(f, R, w, u, s), ~Dominates(D, u, s)
      PROVE  UsedBelow(c, D, w, z)
  <2>1. ASSUME NEW k \in 1..Len(PieceAt(v, f, u)), w \in At(c, Place(v, f, u, k)).uses,
               ~Dominates(D, Place(v, f, u, k), z)
        PROVE  UsedBelow(c, D, w, z)
    <3>1. Place(v, f, u, k) \in Positions(c)
      <4>1. IsPiece(c, v, f, R, nx, u, k)
        BY CodePlaces
      <4> QED BY <4>1 DEF IsPiece
    <3> QED BY <2>1, <3>1 DEF UsedBelow, Users
  <2>2. CASE w \in SrcAt(f, u).uses
    <3> DEFINE k == UseOf(v, f, u)
    <3>1. k \in 1..Len(PieceAt(v, f, u))
      BY <1>6
    <3>2. w \in At(c, Place(v, f, u, k)).uses
      BY <1>2, <2>2, <3>1
    <3>3. ~Dominates(D, Place(v, f, u, k), z)
      BY <1>5, <1>7, <1>9, <3>1
    <3> QED BY <2>1, <3>1, <3>2, <3>3
  <2>3. CASE u \in SrcSites(f) /\ Before(u, s) /\ w \in Values(R[SrcAt(f, u).at])
    <3> DEFINE k == MarkOf(v, f, u)
    <3>1. k \in 1..Len(PieceAt(v, f, u)) /\ u # s /\ u \in Visited(v, f, nx)
      BY <1>3, <1>4, <2>3, SiteFacts
    <3>2. w \in At(c, Place(v, f, u, k)).uses
      BY <1>2, <2>3, <3>1
    <3>3. ~Dominates(D, Place(v, f, u, k), z)
      BY <1>5, <1>9, <3>1
    <3> QED BY <2>1, <3>1, <3>2, <3>3
  <2> QED BY <1>9, <2>2, <2>3 DEF SrcUses
<1> QED BY <1>8, <1>9 DEF z

\* A value made to convert a result is not used below the point of a site that it is above.
LEMMA NoAuxBelow ==
  ASSUME NEW c, NEW v \in Versions, NEW f, FunOK(f), NEW R, NEW nx, CodeIs(c, v, f, R, nx),
         OnlySource(f, R, Visited(v, f, nx)),
         NEW s, AtSite(v, f, nx, s), NEW D,
         NEW d \in Positions(f.code), NEW m \in {2, 3}, m \in 1..Len(PieceAt(v, f, d)),
         SrcAt(f, d).val # None,
         Dominates(D, Place(v, f, d, m), PointPlace(v, f, s))
  PROVE  ~UsedBelow(c, D, Aux(SrcAt(f, d).val, m), PointPlace(v, f, s))
<1> DEFINE w == Aux(SrcAt(f, d).val, m)
           z == PointPlace(v, f, s)
<1>1. SUFFICES ASSUME UsedBelow(c, D, w, z) PROVE FALSE
  OBVIOUS
<1>2. s \in SrcSites(f) /\ PointOf(v, f, s) \in {1, 2}
  BY SiteFacts DEF AtSite
<1>3. PICK x \in Positions(c) : w \in At(c, x).uses /\ ~Dominates(D, x, z)
  <2> HIDE DEF w, z
  <2> QED BY <1>1 DEF UsedBelow, Users
<1>0. PICK u \in Positions(f.code) : \E k \in 1..Len(PieceAt(v, f, u)) : x = Place(v, f, u, k)
  <2>1. InPieces(c, v, f)
    BY CodePlaces
  <2> QED BY <2>1 DEF InPieces
<1>4. PICK k \in 1..Len(PieceAt(v, f, u)) : x = Place(v, f, u, k)
  BY <1>0
<1>5. u = d /\ k = m + 1
  BY <1>3, <1>4, AuxUses
<1>6. ~(m < PointOf(v, f, s)) /\ ~(m + 1 < PointOf(v, f, s))
  BY <1>2
<1>7. Dominates(D, d, s)
  BY <1>2, <1>6, AbovePoint
<1>8. Dominates(D, x, z)
  BY <1>2, <1>4, <1>5, <1>6, <1>7, AbovePoint
<1> QED BY <1>3, <1>8

\* What getLiveRegisters adds for the m-th instruction for d.
LEMMA PlaceLocations ==
  ASSUME NEW c, NEW v \in Versions, NEW f, FunOK(f), NEW R, NEW nx, CodeIs(c, v, f, R, nx),
         OnlySource(f, R, Visited(v, f, nx)),
         NEW s, AtSite(v, f, nx, s),
         NEW d \in Positions(f.code), NEW m \in 1..Len(PieceAt(v, f, d))
  PROVE  LocationsFor(c, Dominators(f.cfg), Place(v, f, d, m), PointPlace(v, f, s)) =
           IF m = ValOf(v, f, d) THEN SrcLocations(f, R, d, s) ELSE <<>>
<1> DEFINE D == Dominators(f.cfg)
           x == Place(v, f, d, m)
           z == PointPlace(v, f, s)
           src == SrcAt(f, d)
           piece == PieceAt(v, f, d)
           L == LocationsFor(c, D, x, z)
           w == piece[m].val
<1>1. At(c, x).op = piece[m].op /\ At(c, x).val = w /\ At(c, x).at = piece[m].at
  <2>1. IsPiece(c, v, f, R, nx, d, m)
    BY CodePlaces
  <2> QED BY <2>1 DEF IsPiece
<1>2. PieceOK(f, src, piece, ValOf(v, f, d), UseOf(v, f, d), MarkOf(v, f, d), PointOf(v, f, d))
  BY PieceAtFacts
<1>3. s \in SrcSites(f)
  BY DEF AtSite
<1>4. InsOK(src)
  BY DEF FunOK
<1> HIDE DEF D, x, z, src, piece, w
<1>5. L = IF w # None /\ Users(c, w) # {} /\ Dominates(D, x, z)
          THEN IF UsedBelow(c, D, w, z) THEN Pair(w) ELSE <<>>
          ELSE IF piece[m].op = "retconst" THEN Pair(<<"const", piece[m].at>>)
          ELSE <<>>
  BY <1>1 DEF LocationsFor, Defined
<1>6. UsedBelow(c, D, w, z) => Users(c, w) # {}
  BY DEF UsedBelow
<1>7. CASE m = ValOf(v, f, d)
  <2> DEFINE used == \E u \in Positions(f.code) : SrcUses(f, R, w, u, s) /\ ~Dominates(D, u, s)
  <2>1. /\ w = src.val /\ piece[m].at = src.at /\ m \in 1..Len(piece)
        /\ piece[m].op = "retconst" <=> src.op = "retconst"
    BY <1>2, <1>7 DEF PieceOK, piece, w
  <2>2. src.op = "retconst" => w = None
    BY <1>4, <2>1 DEF InsOK
  <2>3. d = s => ~(m < PointOf(v, f, s))
    BY <1>3, <1>7, PointFirst
  <2>4. Dominates(D, x, z) <=> Dominates(D, d, s)
    BY <1>3, <2>3, AbovePoint DEF x, z
  <2>5. UsedBelow(c, D, w, z) <=> used
    <3>1. UsedBelow(c, D, src.val, z) <=>
            \E u \in Positions(f.code) : SrcUses(f, R, src.val, u, s) /\ ~Dominates(D, u, s)
      BY UsedBelowPoint DEF src, z
    <3> QED BY <2>1, <3>1
  <2>6. SrcLocations(f, R, d, s) =
          IF w # None /\ Dominates(D, d, s) /\ used THEN Pair(w)
          ELSE IF src.op = "retconst" THEN Pair(<<"const", src.at>>)
          ELSE <<>>
    BY <2>1 DEF SrcLocations, D, src
  <2> HIDE DEF used, L
  <2>7. L = SrcLocations(f, R, d, s)
    BY Zenon, <1>5, <1>6, <2>1, <2>2, <2>4, <2>5, <2>6
  <2> QED BY <1>7, <2>7 DEF L, D, x, z
<1>8. CASE m # ValOf(v, f, d)
  <2>1. /\ piece[m].op # "retconst"
        /\ w = None \/ (m \in {2, 3} /\ src.val # None /\ w = Aux(src.val, m))
    BY <1>2, <1>8 DEF PieceOK, piece, w
  <2>2. ASSUME m \in {2, 3}, src.val # None, w = Aux(src.val, m), Dominates(D, x, z)
        PROVE  ~UsedBelow(c, D, w, z)
    BY <2>2, NoAuxBelow DEF x, z, src
  <2> HIDE DEF L
  <2>3. L = <<>>
    BY Zenon, <1>5, <2>1, <2>2
  <2> QED BY <1>8, <2>3 DEF L, D, x, z
<1> QED BY <1>7, <1>8

\* What getLiveRegisters finds is what the source and the sites before say.
LEMMA LiveRegisters ==
  ASSUME NEW c, NEW v \in Versions, NEW f, FunOK(f), NEW R, NEW nx, CodeIs(c, v, f, R, nx),
         OnlySource(f, R, Visited(v, f, nx)),
         NEW s, AtSite(v, f, nx, s)
  PROVE  getLiveRegisters(c, f.cfg, LivePoint(c, nx)) = SrcLive(f, R, s)
<1> DEFINE D == Dominators(f.cfg)
           z == PointPlace(v, f, s)
           Loc(b, j) == LocationsFor(c, D, <<b, j>>, z)
           Src(b, i) == SrcLocations(f, R, <<b, i>>, s)
           ss(b) == [j \in 1..Len(c[b]) |-> Loc(b, j)]
           tt(b) == [i \in 1..Len(f.code[b]) |-> Src(b, i)]
<1>1. LivePoint(c, nx) = z
  BY LivePointPlace
<1>2. ASSUME NEW d \in Positions(f.code), NEW m \in 1..Len(PieceAt(v, f, d))
      PROVE  LocationsFor(c, D, Place(v, f, d, m), z) =
               IF m = ValOf(v, f, d) THEN SrcLocations(f, R, d, s) ELSE <<>>
  BY PlaceLocations
<1>3. Len(c) = Len(f.code) /\ \A b \in 1..Len(c) : IsSeq(c[b]) /\ Len(c[b]) = Len(CheckPointed(v, f)[b])
  BY CodePlaces
<1>4. ASSUME NEW b \in 1..Len(f.code)
      PROVE  FlattenSeq(ss(b)) = FlattenSeq(tt(b))
  <2> DEFINE S == ss(b)
             T == tt(b)
             n == Len(f.code[b])
             N == Len(c[b])
             g == Off(v, f, b)
             val(i) == ValOf(v, f, <<b, i>>)
             len(i) == Len(PieceAt(v, f, <<b, i>>))
             q == [i \in 1..n |-> g[i - 1] + val(i)]
  <2>1. /\ \A i \in 0..n : g[i] \in Nat
        /\ g[0] = 0 /\ g[n] = N
        /\ \A i \in 1..n : g[i] = g[i - 1] + len(i)
        /\ \A i, j \in 0..n : i <= j => g[i] <= g[j]
        /\ Covered(v, f, b)
    BY <1>3, Offsets
  <2>2. n \in Nat /\ N \in Nat
    BY <1>3 DEF FunOK, IsSeq
  <2>3. S = [j \in 1..N |-> S[j]] /\ T = [i \in 1..n |-> T[i]]
    OBVIOUS
  <2>4. (\A j \in 1..N : S[j] = Loc(b, j)) /\ (\A i \in 1..n : T[i] = Src(b, i))
    OBVIOUS
  <2>5. IsSeq(S) /\ Len(S) = N /\ IsSeq(T) /\ Len(T) = n
    <3> HIDE DEF S, T, n, N
    <3> QED BY <2>2, <2>3, FunctionIsSeq
  <2>6. ASSUME NEW i \in 1..n
        PROVE  val(i) \in 1..len(i) /\ len(i) \in Nat /\ <<b, i>> \in Positions(f.code)
    <3>1. <<b, i>> \in Positions(f.code)
      BY PositionsOf
    <3> QED BY <3>1, PieceAtFacts DEF PieceOK, IsSeq
  <2>7. ASSUME NEW i \in 1..n, NEW m \in 1..len(i)
        PROVE  Loc(b, g[i - 1] + m) = IF m = val(i) THEN Src(b, i) ELSE <<>>
    <3>1. Place(v, f, <<b, i>>, m) = <<b, g[i - 1] + m>>
      BY DEF Place, Off
    <3> QED BY <1>2, <2>6, <3>1
  <2>8. ASSUME NEW i \in 1..n PROVE IsSeq(T[i])
    <3>1. IsSeq(<<>>)
      <4>1. <<>> \in Seq({})
        OBVIOUS
      <4> QED BY <4>1, IsSeqOfSeq
    <3>2. \A w : IsSeq(Pair(w))
      BY TupleIsSeq DEF Pair
    <3>3. T[i] = <<>> \/ \E w : T[i] = Pair(w)
      <4>1. T[i] = SrcLocations(f, R, <<b, i>>, s)
        OBVIOUS
      <4> HIDE DEF T
      <4> QED BY <4>1 DEF SrcLocations
    <3> HIDE DEF T
    <3> QED BY Zenon, <3>1, <3>2, <3>3
  <2>9. \A k \in 1..N : \E i \in 1..n : \E m \in 1..len(i) : k = g[i - 1] + m
    BY <1>3, <2>1 DEF Covered
  <2> HIDE DEF S, T, n, N, g, Loc, Src, val, len
  <2>10. ASSUME NEW i \in 1..n
         PROVE  /\ i - 1 \in 0..n /\ g[i - 1] \in Nat /\ g[i] \in Nat
                /\ q[i] = g[i - 1] + val(i) /\ g[i] = g[i - 1] + len(i)
                /\ g[i] <= N
    <3>1. i - 1 \in 0..n /\ i \in 0..n /\ n \in 0..n /\ i <= n
      BY <2>2
    <3> QED BY <2>1, <3>1
  <2>11. ASSUME NEW i \in 1..n
         PROVE  q[i] \in Nat /\ g[i - 1] < q[i] /\ q[i] <= g[i] /\ g[i] <= N
    <3>1. val(i) \in 1..len(i) /\ len(i) \in Nat
      BY <2>6
    <3>2. /\ g[i - 1] \in Nat /\ g[i] \in Nat
          /\ q[i] = g[i - 1] + val(i) /\ g[i] = g[i - 1] + len(i) /\ g[i] <= N
      BY <2>10
    <3> HIDE DEF q
    <3> QED BY ONLY <3>1, <3>2
  <2>12. ASSUME NEW i \in 1..n PROVE S[q[i]] = T[i]
    <3>1. q[i] \in 1..N
      <4>1. q[i] \in Nat /\ g[i - 1] < q[i] /\ q[i] <= g[i] /\ g[i] <= N /\ g[i - 1] \in Nat /\ g[i] \in Nat
        BY <2>10, <2>11
      <4> HIDE DEF q
      <4> QED BY ONLY <2>2, <4>1
    <3>2. S[q[i]] = Loc(b, q[i])
      BY <2>4, <3>1
    <3>3. Loc(b, g[i - 1] + val(i)) = Src(b, i)
      BY <2>6, <2>7
    <3>4. q[i] = g[i - 1] + val(i)
      BY <2>10
    <3> HIDE DEF q
    <3> QED BY <2>4, <3>2, <3>3, <3>4
  <2>13. ASSUME NEW i \in 1..n, NEW k \in 1..N, g[i - 1] < k, k <= g[i], k # q[i]
         PROVE  S[k] = <<>>
    <3> DEFINE m == k - g[i - 1]
    <3>1. m \in 1..len(i) /\ k = g[i - 1] + m /\ m # val(i)
      <4>1. val(i) \in 1..len(i) /\ len(i) \in Nat
        BY <2>6
      <4>2. /\ g[i - 1] \in Nat /\ g[i] \in Nat
            /\ q[i] = g[i - 1] + val(i) /\ g[i] = g[i - 1] + len(i) /\ g[i] <= N
        BY <2>10
      <4>3. g[i - 1] < k /\ k <= g[i] /\ k # q[i] /\ k \in Int
        BY <2>2, <2>13
      <4> HIDE DEF q
      <4> QED BY ONLY <4>1, <4>2, <4>3
    <3> HIDE DEF m
    <3>2. S[k] = Loc(b, k)
      BY <2>4
    <3>3. Loc(b, g[i - 1] + m) = <<>>
      BY <2>7, <3>1
    <3> QED BY <3>1, <3>2, <3>3
  <2>14. ASSUME NEW k \in 1..N
         PROVE  \E i \in 1..n : g[i - 1] < k /\ k <= g[i]
    <3>1. PICK i \in 1..n : \E m \in 1..len(i) : k = g[i - 1] + m
      BY <2>9
    <3>2. PICK m \in 1..len(i) : k = g[i - 1] + m
      BY <3>1
    <3>3. g[i - 1] < k /\ k <= g[i]
      <4>1. len(i) \in Nat
        BY <2>6
      <4>2. g[i - 1] \in Nat /\ g[i] = g[i - 1] + len(i)
        BY <2>10
      <4> QED BY ONLY <3>2, <4>1, <4>2, m \in 1..len(i)
    <3> QED BY <3>3
  <2> HIDE DEF q
  <2>15. Padded(S, T, g, q)
    <3>1. g[0] = 0 /\ g[n] = N /\ \A k \in 0..n : g[k] \in Nat
      BY <2>1
    <3>2. \A k \in 1..n : \A j \in 1..N : g[k - 1] < j /\ j <= g[k] /\ j # q[k] => S[j] = <<>>
      BY <2>13
    <3>3. \A k \in 1..n :
            /\ q[k] \in Nat /\ g[k - 1] < q[k] /\ q[k] <= g[k] /\ g[k] <= N
            /\ S[q[k]] = T[k]
            /\ \A j \in 1..N : g[k - 1] < j /\ j <= g[k] /\ j # q[k] => S[j] = <<>>
      BY <2>11, <2>12, <3>2
    <3>4. (\A k \in 1..n : IsSeq(T[k])) /\ \A j \in 1..N : \E k \in 1..n : g[k - 1] < j /\ j <= g[k]
      BY <2>8, <2>14
    <3>5. Len(S) = N /\ Len(T) = n /\ IsSeq(S) /\ IsSeq(T)
      BY <2>5
    <3> QED BY ONLY <3>1, <3>3, <3>4, <3>5 DEF Padded
  <2>16. FlattenSeq(S) = FlattenSeq(T)
    BY <2>15, FlattenPadded
  <2> QED BY <2>16 DEF S, T, Loc, Src
<1>5. [b \in 1..Len(c) |-> FlattenSeq(ss(b))] = [b \in 1..Len(f.code) |-> FlattenSeq(tt(b))]
  <2> HIDE DEF ss, tt
  <2> QED BY <1>3, <1>4
<1>6. getLiveRegisters(c, f.cfg, z) = FlattenSeq([b \in 1..Len(c) |-> FlattenSeq(ss(b))])
  BY DEF getLiveRegisters
<1>7. SrcLive(f, R, s) = FlattenSeq([b \in 1..Len(f.code) |-> FlattenSeq(tt(b))])
  BY DEF SrcLive
<1> QED BY ONLY <1>1, <1>5, <1>6, <1>7

-----------------------------------------------------------------------------
(***************************************************************************)
(* What the sites of the source record.                                    *)
(***************************************************************************)

\* It depends on what the sites before have recorded, and on nothing else.
LEMMA SrcLiveSame ==
  ASSUME NEW f, NEW s, NEW R, NEW Q,
         \A t \in SrcSites(f) : Before(t, s) => R[SrcAt(f, t).at] = Q[SrcAt(f, t).at]
  PROVE  SrcLive(f, R, s) = SrcLive(f, Q, s)
<1>1. ASSUME NEW w, NEW u PROVE SrcUses(f, R, w, u, s) <=> SrcUses(f, Q, w, u, s)
  BY Zenon DEF SrcUses
<1>2. ASSUME NEW d PROVE SrcLocations(f, R, d, s) = SrcLocations(f, Q, d, s)
  <2> DEFINE U(X) == \E u \in Positions(f.code) :
                       SrcUses(f, X, SrcAt(f, d).val, u, s) /\ ~Dominates(Dominators(f.cfg), u, s)
  <2>1. U(R) <=> U(Q)
    BY <1>1
  <2> HIDE DEF U
  <2> QED BY Zenon, <2>1 DEF SrcLocations, U
<1>3. ASSUME NEW b
      PROVE  [i \in 1..Len(f.code[b]) |-> SrcLocations(f, R, <<b, i>>, s)] =
             [i \in 1..Len(f.code[b]) |-> SrcLocations(f, Q, <<b, i>>, s)]
  BY <1>2
<1> DEFINE L(X, b) == FlattenSeq([i \in 1..Len(f.code[b]) |-> SrcLocations(f, X, <<b, i>>, s)])
<1>4. ASSUME NEW b PROVE L(R, b) = L(Q, b)
  BY <1>3
<1>5. /\ SrcLive(f, R, s) = FlattenSeq([b \in 1..Len(f.code) |-> L(R, b)])
      /\ SrcLive(f, Q, s) = FlattenSeq([b \in 1..Len(f.code) |-> L(Q, b)])
  BY DEF SrcLive
<1> HIDE DEF L
<1>6. [b \in 1..Len(f.code) |-> L(R, b)] = [b \in 1..Len(f.code) |-> L(Q, b)]
  BY <1>4
<1> QED BY ONLY <1>5, <1>6

\* The elements of a flattened sequence.
LEMMA InFlattened ==
  ASSUME NEW n \in Nat, NEW ss, ss = [i \in 1..n |-> ss[i]], \A i \in 1..n : IsSeq(ss[i])
  PROVE  /\ IsSeq(FlattenSeq(ss))
         /\ \A e \in ToSet(FlattenSeq(ss)) : \E i \in 1..n : e \in ToSet(ss[i])
<1>1. IsSeq(ss) /\ Len(ss) = n
  BY FunctionIsSeq
<1> DEFINE t == FlattenSeq(ss)
           A == Starts(ss)
<1>2. IsFlattened(ss, t, A)
  BY <1>1, FlattenLayout
<1> HIDE DEF t, A
<1>3. /\ IsSeq(t)
      /\ \A i \in 1..Len(ss) : \A m \in 1..Len(ss[i]) : t[A[i - 1] + m] = ss[i][m]
      /\ \A k \in 1..Len(t) : \E i \in 1..Len(ss) : \E m \in 1..Len(ss[i]) : k = A[i - 1] + m
  BY <1>2 DEF IsFlattened
<1>4. ASSUME NEW e \in ToSet(t) PROVE \E i \in 1..n : e \in ToSet(ss[i])
  <2>1. DOMAIN t = 1..Len(t)
    BY <1>3 DEF IsSeq
  <2>2. PICK k \in 1..Len(t) : e = t[k]
    BY <2>1 DEF ToSet
  <2>3. PICK i \in 1..Len(ss) : \E m \in 1..Len(ss[i]) : k = A[i - 1] + m
    BY <1>3
  <2>4. PICK m \in 1..Len(ss[i]) : k = A[i - 1] + m
    BY <2>3
  <2>5. e = ss[i][m]
    BY <1>3, <2>2, <2>4
  <2>6. i \in 1..n /\ DOMAIN ss[i] = 1..Len(ss[i])
    BY <1>1 DEF IsSeq
  <2>7. e \in ToSet(ss[i])
    BY <2>5, <2>6 DEF ToSet
  <2> QED BY <2>6, <2>7
<1> QED BY <1>3, <1>4 DEF t

\* It has only values of the source, defined above the site.
LEMMA SrcLiveValues ==
  ASSUME NEW f, FunOK(f), NEW R, NEW s, NEW w \in Values(SrcLive(f, R, s))
  PROVE  \E d \in Positions(f.code) : /\ w = SrcAt(f, d).val /\ w # None
                                      /\ Dominates(Dominators(f.cfg), d, s)
<1> DEFINE N == Len(f.code)
           tt(b) == [i \in 1..Len(f.code[b]) |-> SrcLocations(f, R, <<b, i>>, s)]
           T == [b \in 1..N |-> FlattenSeq(tt(b))]
<1>1. N \in Nat /\ \A b \in 1..N : Len(f.code[b]) \in Nat
  BY DEF FunOK, IsSeq
<1>2. ASSUME NEW b, NEW i PROVE IsSeq(SrcLocations(f, R, <<b, i>>, s))
  <2>1. IsSeq(<<>>)
    <3>1. <<>> \in Seq({})
      OBVIOUS
    <3> QED BY <3>1, IsSeqOfSeq
  <2>2. \A x : IsSeq(Pair(x))
    BY TupleIsSeq DEF Pair
  <2>3. SrcLocations(f, R, <<b, i>>, s) = <<>> \/ \E x : SrcLocations(f, R, <<b, i>>, s) = Pair(x)
    BY DEF SrcLocations
  <2> QED BY Zenon, <2>1, <2>2, <2>3
<1>3. ASSUME NEW b \in 1..N
      PROVE  /\ IsSeq(FlattenSeq(tt(b)))
             /\ \A e \in ToSet(FlattenSeq(tt(b))) : \E i \in 1..Len(f.code[b]) :
                  e \in ToSet(SrcLocations(f, R, <<b, i>>, s))
  <2> DEFINE n == Len(f.code[b])
             X == tt(b)
  <2>1. X = [i \in 1..n |-> X[i]] /\ \A i \in 1..n : X[i] = SrcLocations(f, R, <<b, i>>, s)
    OBVIOUS
  <2>2. n \in Nat
    BY <1>1
  <2> HIDE DEF n, X
  <2>3. \A i \in 1..n : IsSeq(X[i])
    BY <1>2, <2>1
  <2>4. IsSeq(FlattenSeq(X)) /\ \A e \in ToSet(FlattenSeq(X)) : \E i \in 1..n : e \in ToSet(X[i])
    BY <2>1, <2>2, <2>3, InFlattened
  <2>5. \A e \in ToSet(FlattenSeq(X)) : \E i \in 1..n : e \in ToSet(SrcLocations(f, R, <<b, i>>, s))
    BY <2>1, <2>4
  <2> QED BY <2>4, <2>5 DEF X, n
<1>4. T = [b \in 1..N |-> T[b]] /\ \A b \in 1..N : T[b] = FlattenSeq(tt(b))
  OBVIOUS
<1>5. SrcLive(f, R, s) = FlattenSeq(T)
  BY DEF SrcLive
<1> HIDE DEF tt, T, N
<1>6. PICK l \in ToSet(FlattenSeq(T)) : l[1] = "value" /\ l[2][1] # "const" /\ w = l[2]
  BY <1>5 DEF Values
<1>7. PICK b \in 1..N : l \in ToSet(T[b])
  <2>1. \A b \in 1..N : IsSeq(T[b])
    BY <1>3, <1>4
  <2>2. \A e \in ToSet(FlattenSeq(T)) : \E b \in 1..N : e \in ToSet(T[b])
    BY <1>1, <1>4, <2>1, InFlattened
  <2> QED BY <2>2
<1>8. PICK i \in 1..Len(f.code[b]) : l \in ToSet(SrcLocations(f, R, <<b, i>>, s))
  BY <1>3, <1>4, <1>7
<1> DEFINE d == <<b, i>>
           ins == SrcAt(f, d)
           L == SrcLocations(f, R, d, s)
           D == Dominators(f.cfg)
<1>9. d \in Positions(f.code)
  BY PositionsOf DEF N
<1> HIDE DEF d
<1>10. ASSUME NEW x, L = Pair(x) PROVE l[1] = "value" => l[2] = x
  <2>1. ToSet(Pair(x)) = {<<"value", x>>, <<"size", x>>}
    <3>1. DOMAIN Pair(x) = {1, 2} /\ Pair(x)[1] = <<"value", x>> /\ Pair(x)[2] = <<"size", x>>
      BY DEF Pair
    <3> QED BY <3>1 DEF ToSet
  <2>2. l \in ToSet(Pair(x))
    BY <1>8, <1>10 DEF d
  <2> QED BY <2>1, <2>2
<1>11. L # <<>>
  <2>1. ToSet(<<>>) = {}
    BY DEF ToSet
  <2> QED BY <1>8, <2>1 DEF d
<1> DEFINE cond == /\ ins.val # None /\ Dominates(D, d, s)
                   /\ \E u \in Positions(f.code) : SrcUses(f, R, ins.val, u, s) /\ ~Dominates(D, u, s)
<1>12. L = IF cond THEN Pair(ins.val)
           ELSE IF ins.op = "retconst" THEN Pair(<<"const", ins.at>>) ELSE <<>>
  BY DEF SrcLocations
<1>13. cond => ins.val # None /\ Dominates(D, d, s)
  OBVIOUS
<1> HIDE DEF L, cond
<1>14. cond /\ L = Pair(ins.val)
  <2>1. L # Pair(<<"const", ins.at>>)
    BY <1>6, <1>10
  <2> QED BY <1>11, <1>12, <2>1
<1>15. w = ins.val
  BY <1>6, <1>10, <1>14
<1> QED BY <1>9, <1>13, <1>14, <1>15

\* Records that solve the equations have only such values.
LEMMA SolvesOnlySource ==
  ASSUME NEW f, FunOK(f), NEW R, NEW S, Solves(f, R, S)
  PROVE  OnlySource(f, R, S)
<1>1. ASSUME NEW s \in S, NEW w \in Values(R[SrcAt(f, s).at])
      PROVE  \E d \in Positions(f.code) : /\ w = SrcAt(f, d).val /\ w # None
                                          /\ Dominates(Dominators(f.cfg), d, s)
  <2>1. R[SrcAt(f, s).at] = SrcLive(f, R, s)
    BY DEF Solves
  <2>2. w \in Values(SrcLive(f, R, s))
    BY <2>1
  <2> QED BY <2>2, SrcLiveValues
<1> QED BY <1>1 DEF OnlySource

\* What the sites record is determined by the source.
LEMMA SolvesUnique ==
  ASSUME NEW f, FunOK(f), NEW R, NEW Q,
         Solves(f, R, SrcSites(f)), Solves(f, Q, SrcSites(f))
  PROVE  R = Q
<1> DEFINE at(s) == SrcAt(f, s).at
           T == {s \in SrcSites(f) : R[at(s)] # Q[at(s)]}
<1>1. \A s \in SrcSites(f) : s[1] \in Nat /\ s[2] \in Nat
  BY PositionsOf DEF SrcSites
<1>2. T = {}
  <2>1. SUFFICES ASSUME T # {} PROVE FALSE
    OBVIOUS
  <2> DEFINE B == {s[1] : s \in T}
  <2>2. B \in SUBSET Nat /\ B # {}
    BY <1>1, <2>1
  <2> HIDE DEF B
  <2>3. PICK b \in B : \A a \in B : b <= a
    BY <2>2, LeastNatural
  <2> DEFINE I == {s[2] : s \in {t \in T : t[1] = b}}
  <2>4. I \in SUBSET Nat /\ I # {}
    BY <1>1 DEF B
  <2> HIDE DEF I
  <2>5. PICK i \in I : \A j \in I : i <= j
    BY <2>4, LeastNatural
  <2>6. PICK s \in T : s[1] = b /\ s[2] = i
    BY DEF I
  <2>7. ASSUME NEW t \in SrcSites(f), Before(t, s) PROVE R[at(t)] = Q[at(t)]
    <3>1. SUFFICES ASSUME t \in T PROVE FALSE
      OBVIOUS
    <3> HIDE DEF T
    <3>2. t[1] \in Nat /\ t[2] \in Nat /\ b \in Nat /\ i \in Nat
      BY <1>1, <2>2, <2>4
    <3>3. t[1] \in B /\ b <= t[1]
      BY <2>3, <3>1 DEF B
    <3>4. t[1] = b /\ t[2] < i
      BY <2>6, <2>7, <3>2, <3>3 DEF Before
    <3>5. t[2] \in I
      BY <3>1, <3>4 DEF I
    <3> QED BY <2>5, <3>2, <3>4, <3>5
  <2>8. SrcLive(f, R, s) = SrcLive(f, Q, s)
    BY <2>7, SrcLiveSame
  <2>9. R[at(s)] = SrcLive(f, R, s) /\ Q[at(s)] = SrcLive(f, Q, s)
    BY DEF Solves
  <2> QED BY <2>8, <2>9
<1>3. \A s \in SrcSites(f) : R[at(s)] = Q[at(s)]
  BY <1>2
<1> DEFINE A == {at(s) : s \in SrcSites(f)}
<1>4. R = [a \in A |-> R[a]] /\ Q = [a \in A |-> Q[a]]
  BY DEF Solves
<1>5. \A a \in A : R[a] = Q[a]
  BY <1>3
<1> HIDE DEF A
<1>6. [a \in A |-> R[a]] = [a \in A |-> Q[a]]
  BY <1>5
<1> QED BY Zenon, <1>4, <1>6

-----------------------------------------------------------------------------
(***************************************************************************)
(* The code stays valid.                                                   *)
(***************************************************************************)
LEMMA ValidCode ==
  ASSUME NEW c, NEW v \in Versions, NEW f, FunOK(f), NEW R, NEW nx, CodeIs(c, v, f, R, nx),
         OnlySource(f, R, Visited(v, f, nx))
  PROVE  DefsDominateUses(c, f.cfg)
<1> DEFINE D == Dominators(f.cfg)
<1>1. SUFFICES ASSUME NEW x \in Positions(c), At(c, x).val # None,
                      NEW y \in Positions(c), At(c, x).val \in At(c, y).uses
               PROVE  Dominates(D, x, y)
  BY DEF DefsDominateUses, Users
<1>2. InPieces(c, v, f)
  BY CodePlaces
<1>3. PICK d \in Positions(f.code) : \E m \in 1..Len(PieceAt(v, f, d)) : x = Place(v, f, d, m)
  BY <1>2 DEF InPieces
<1>4. PICK m \in 1..Len(PieceAt(v, f, d)) : x = Place(v, f, d, m)
  BY <1>3
<1>5. PICK u \in Positions(f.code) : \E k \in 1..Len(PieceAt(v, f, u)) : y = Place(v, f, u, k)
  BY <1>2 DEF InPieces
<1>6. PICK k \in 1..Len(PieceAt(v, f, u)) : y = Place(v, f, u, k)
  BY <1>5
<1> DEFINE w == PieceAt(v, f, d)[m].val
<1>7. At(c, x).val = w /\ w # None /\ w \in At(c, y).uses
  <2>1. IsPiece(c, v, f, R, nx, d, m)
    BY CodePlaces
  <2>2. At(c, x).val = w
    BY <1>4, <2>1 DEF IsPiece
  <2> QED BY <1>1, <2>2
<1>8. /\ d # u => (Dominates(D, x, y) <=> Dominates(D, d, u))
      /\ d = u => (Dominates(D, x, y) <=> d[1] \notin D.reachable \/ m < k)
  BY <1>4, <1>6, PlaceDominates
<1>9. Dominates(D, d, u) => Dominates(D, x, y)
  <2>1. d = u /\ Dominates(D, d, u) => d[1] \notin D.reachable
    BY DEF Dominates
  <2> QED BY Zenon, <1>8, <2>1
<1>10. CASE m = ValOf(v, f, d)
  <2>1. w = SrcAt(f, d).val
    BY <1>10, PieceAtFacts DEF PieceOK
  <2>2. \/ w \in SrcAt(f, u).uses
        \/ u \in Visited(v, f, nx) /\ w \in Values(R[SrcAt(f, u).at])
    BY <1>6, <1>7, <2>1, SourceUses
  <2>3. CASE w \in SrcAt(f, u).uses
    <3>1. Dominates(D, d, u)
      <4>1. DefsDominateUses(f.code, f.cfg)
        BY DEF FunOK
      <4> QED BY <1>7, <2>1, <2>3, <4>1 DEF DefsDominateUses, Users, SrcAt
    <3> QED BY <1>9, <3>1
  <2>4. CASE u \in Visited(v, f, nx) /\ w \in Values(R[SrcAt(f, u).at])
    <3>1. PICK e \in Positions(f.code) : w = SrcAt(f, e).val /\ Dominates(D, e, u)
      BY <2>4 DEF OnlySource
    <3>2. e = d
      BY <1>7, <2>1, <3>1 DEF FunOK
    <3> QED BY <1>9, <3>1, <3>2
  <2> QED BY <2>2, <2>3, <2>4
<1>11. CASE m # ValOf(v, f, d)
  <2>1. m \in {2, 3} /\ SrcAt(f, d).val # None /\ w = Aux(SrcAt(f, d).val, m)
    BY <1>7, <1>11, PieceAtFacts DEF PieceOK
  <2>2. u = d /\ k = m + 1
    BY <1>6, <1>7, <2>1, AuxUses
  <2>3. m < k
    BY <2>1, <2>2
  <2> QED BY <1>8, <2>2, <2>3
<1> QED BY <1>10, <1>11

-----------------------------------------------------------------------------
(***************************************************************************)
(* The steps of LiveVariablesPass.                                         *)
(***************************************************************************)

\* Code is described by its pieces.
LEMMA CodeFromPlaces ==
  ASSUME NEW c, NEW v \in Versions, NEW f, FunOK(f), NEW R, NEW nx,
         IsSeq(c), Len(c) = Len(CheckPointed(v, f)),
         \A b \in 1..Len(c) : IsSeq(c[b]) /\ Len(c[b]) = Len(CheckPointed(v, f)[b]),
         \A p \in Positions(f.code) : \A m \in 1..Len(PieceAt(v, f, p)) :
           IsPiece(c, v, f, R, nx, p, m)
  PROVE  CodeIs(c, v, f, R, nx)
<1> DEFINE k == CheckPointed(v, f)
<1>1. ASSUME NEW b \in 1..Len(k), NEW j \in 1..Len(k[b])
      PROVE  /\ c[b][j].op = k[b][j].op
             /\ c[b][j].val = k[b][j].val
             /\ c[b][j].at = k[b][j].at
             /\ c[b][j].uses = k[b][j].uses \cup Recorded(c, R, nx, b, j)
             /\ producesStackmapRecords(k[b][j]) => Whole(c[b][j])
  <2> DEFINE x == <<b, j>>
  <2>1. x \in Positions(k)
    <3> HIDE DEF k
    <3> QED BY PositionsOf
  <2> HIDE DEF x
  <2>2. PICK p \in Positions(f.code) : \E m \in 1..Len(PieceAt(v, f, p)) : x = Place(v, f, p, m)
    BY <2>1, Places
  <2>3. PICK m \in 1..Len(PieceAt(v, f, p)) : x = Place(v, f, p, m)
    BY <2>2
  <2> DEFINE ins == PieceAt(v, f, p)[m]
  <2>4. At(k, x) = ins
    BY <2>3, Places
  <2>5. IsPiece(c, v, f, R, nx, p, m)
    OBVIOUS
  <2> HIDE DEF k, ins
  <2>6. /\ At(c, x).op = ins.op /\ At(c, x).val = ins.val /\ At(c, x).at = ins.at
        /\ At(c, x).uses = ins.uses \cup
             IF producesStackmapRecords(ins) /\ Before(x, nx) THEN Values(R[ins.at]) ELSE {}
        /\ producesStackmapRecords(ins) => Whole(At(c, x))
    BY <2>3, <2>5 DEF IsPiece, ins
  <2>7. At(c, x) = c[b][j] /\ ins = k[b][j]
    BY <2>4 DEF At, x
  <2>8. /\ c[b][j].op = ins.op /\ c[b][j].val = ins.val /\ c[b][j].at = ins.at
        /\ c[b][j].uses = ins.uses \cup
             IF producesStackmapRecords(ins) /\ Before(x, nx) THEN Values(R[ins.at]) ELSE {}
        /\ producesStackmapRecords(ins) => Whole(c[b][j])
    BY ONLY <2>6, <2>7
  <2>9. producesStackmapRecords(c[b][j]) <=> producesStackmapRecords(ins)
    BY <2>8 DEF producesStackmapRecords
  <2>10. Recorded(c, R, nx, b, j) =
          IF producesStackmapRecords(ins) /\ Before(x, nx) THEN Values(R[ins.at]) ELSE {}
    BY Zenon, <2>8, <2>9 DEF Recorded, x
  <2> QED BY Zenon, <2>7, <2>8, <2>10
<1> HIDE DEF k
<1>2. Len(c) = Len(k) /\ \A b \in 1..Len(k) : IsSeq(c[b]) /\ Len(c[b]) = Len(k[b])
  BY DEF k
<1> QED BY <1>1, <1>2 DEF CodeIs, k

\* What CheckPointPass leaves.
LEMMA FirstCode ==
  ASSUME NEW v \in Versions, NEW f, FunOK(f), NEW R
  PROVE  CodeIs(CheckPointed(v, f), v, f, R, <<1, 1>>) /\ Visited(v, f, <<1, 1>>) = {}
<1> DEFINE k == CheckPointed(v, f)
<1>1. ASSUME NEW x \in Positions(k) PROVE ~Before(x, <<1, 1>>)
  <2> HIDE DEF k
  <2>1. x[1] \in 1..Len(k) /\ x[2] \in 1..Len(k[x[1]])
    BY PositionsOf
  <2>2. x[1] >= 1 /\ x[2] >= 1 /\ x[1] \in Int /\ x[2] \in Int
    BY <2>1
  <2> QED BY <2>2 DEF Before
<1>2. ASSUME NEW p \in Positions(f.code), NEW m \in 1..Len(PieceAt(v, f, p))
      PROVE  IsPiece(k, v, f, R, <<1, 1>>, p, m)
  <2> DEFINE x == Place(v, f, p, m)
             ins == PieceAt(v, f, p)[m]
  <2>1. x \in Positions(k) /\ At(k, x) = ins
    BY Places
  <2>2. producesStackmapRecords(ins) => Whole(ins)
    BY PieceAtFacts DEF PieceOK
  <2>3. ~Before(x, <<1, 1>>)
    BY <1>1, <2>1
  <2> HIDE DEF x, ins, k
  <2>4. ins.uses = ins.uses \cup {}
    OBVIOUS
  <2> QED BY Zenon, <2>1, <2>2, <2>3, <2>4 DEF IsPiece, x, ins
<1>3. IsSeq(k) /\ \A b \in 1..Len(k) : IsSeq(k[b])
  BY Places
<1>4. CodeIs(k, v, f, R, <<1, 1>>)
  BY <1>2, <1>3, CodeFromPlaces
<1>5. ASSUME NEW s \in SrcSites(f) PROVE ~Before(SitePlace(v, f, s), <<1, 1>>)
  <2>1. SitePlace(v, f, s) \in Positions(k)
    BY SiteFacts, Places
  <2> QED BY <1>1, <2>1
<1> QED BY <1>4, <1>5 DEF Visited

\* The instructions with records are those of the sites.
LEMMA SitePlaces ==
  ASSUME NEW c, NEW v \in Versions, NEW f, FunOK(f), NEW R, NEW nx, CodeIs(c, v, f, R, nx)
  PROVE  /\ \A s \in SrcSites(f) : /\ SitePlace(v, f, s) \in Positions(c)
                                   /\ producesStackmapRecords(At(c, SitePlace(v, f, s)))
                                   /\ At(c, SitePlace(v, f, s)).at = SrcAt(f, s).at
                                   /\ Whole(At(c, SitePlace(v, f, s)))
         /\ \A x \in Positions(c) : producesStackmapRecords(At(c, x)) =>
              \E s \in SrcSites(f) : x = SitePlace(v, f, s)
<1>1. ASSUME NEW s \in SrcSites(f)
      PROVE  /\ SitePlace(v, f, s) \in Positions(c)
             /\ producesStackmapRecords(At(c, SitePlace(v, f, s)))
             /\ At(c, SitePlace(v, f, s)).at = SrcAt(f, s).at
             /\ Whole(At(c, SitePlace(v, f, s)))
  <2> DEFINE m == MarkOf(v, f, s)
             ins == PieceAt(v, f, s)[m]
             x == SitePlace(v, f, s)
  <2>1. /\ s \in Positions(f.code) /\ m \in 1..Len(PieceAt(v, f, s)) /\ x = Place(v, f, s, m)
        /\ producesStackmapRecords(ins) /\ ins.at = SrcAt(f, s).at
    BY SiteFacts
  <2>2. IsPiece(c, v, f, R, nx, s, m)
    BY <2>1, CodePlaces
  <2> HIDE DEF m, ins, x
  <2>3. /\ x \in Positions(c) /\ At(c, x).op = ins.op /\ At(c, x).at = ins.at
        /\ producesStackmapRecords(ins) => Whole(At(c, x))
    BY <2>1, <2>2 DEF IsPiece, ins
  <2>4. producesStackmapRecords(At(c, x))
    BY <2>1, <2>3 DEF producesStackmapRecords
  <2> QED BY <2>1, <2>3, <2>4 DEF x
<1>2. ASSUME NEW x \in Positions(c), producesStackmapRecords(At(c, x))
      PROVE  \E s \in SrcSites(f) : x = SitePlace(v, f, s)
  <2>1. InPieces(c, v, f)
    BY CodePlaces
  <2>2. PICK p \in Positions(f.code) : \E m \in 1..Len(PieceAt(v, f, p)) : x = Place(v, f, p, m)
    BY <2>1 DEF InPieces
  <2>3. PICK m \in 1..Len(PieceAt(v, f, p)) : x = Place(v, f, p, m)
    BY <2>2
  <2>4. IsPiece(c, v, f, R, nx, p, m)
    BY CodePlaces
  <2>5. At(c, x).op = PieceAt(v, f, p)[m].op
    BY <2>3, <2>4 DEF IsPiece
  <2>6. producesStackmapRecords(PieceAt(v, f, p)[m])
    BY <1>2, <2>5 DEF producesStackmapRecords
  <2>7. HasSite(f, SrcAt(f, p)) /\ m = MarkOf(v, f, p)
    BY <2>6, PieceAtFacts DEF PieceOK
  <2>8. p \in SrcSites(f) /\ x = SitePlace(v, f, p)
    BY <2>3, <2>7 DEF SrcSites, SitePlace, MarkOf
  <2> QED BY <2>8
<1> QED BY <1>1, <1>2

\* The number of a site.
LEMMA SiteNumber ==
  ASSUME NEW c, NEW v \in Versions, NEW f, FunOK(f), NEW R, NEW nx, CodeIs(c, v, f, R, nx),
         NEW s \in SrcSites(f)
  PROVE  At(c, SitePlace(v, f, s)).at = SrcAt(f, s).at
<1> DEFINE m == MarkOf(v, f, s)
           x == SitePlace(v, f, s)
<1>1. /\ s \in Positions(f.code) /\ m \in 1..Len(PieceAt(v, f, s)) /\ x = Place(v, f, s, m)
      /\ PieceAt(v, f, s)[m].at = SrcAt(f, s).at
  BY SiteFacts
<1>2. IsPiece(c, v, f, R, nx, s, m)
  BY <1>1, CodePlaces
<1> HIDE DEF m, x
<1>3. At(c, x).at = PieceAt(v, f, s)[m].at
  BY <1>1, <1>2 DEF IsPiece
<1> QED BY <1>1, <1>3 DEF x

\* Instructions without records make no difference.
LEMMA SkipCode ==
  ASSUME NEW c, NEW v \in Versions, NEW f, FunOK(f), NEW R, NEW nx, CodeIs(c, v, f, R, nx), NEW ny,
         \A x \in Positions(c) : producesStackmapRecords(At(c, x)) => (Before(x, nx) <=> Before(x, ny))
  PROVE  CodeIs(c, v, f, R, ny) /\ Visited(v, f, ny) = Visited(v, f, nx)
<1>1. \A s \in SrcSites(f) : Before(SitePlace(v, f, s), nx) <=> Before(SitePlace(v, f, s), ny)
  BY SitePlaces
<1>2. Visited(v, f, ny) = Visited(v, f, nx)
  BY <1>1 DEF Visited
<1>3. ASSUME NEW p \in Positions(f.code), NEW m \in 1..Len(PieceAt(v, f, p))
      PROVE  IsPiece(c, v, f, R, ny, p, m)
  <2> DEFINE x == Place(v, f, p, m)
             ins == PieceAt(v, f, p)[m]
  <2>1. IsPiece(c, v, f, R, nx, p, m)
    BY CodePlaces
  <2>2. x \in Positions(c) /\ At(c, x).op = ins.op
    BY <2>1 DEF IsPiece
  <2>3. producesStackmapRecords(ins) => (Before(x, nx) <=> Before(x, ny))
    BY <2>2 DEF producesStackmapRecords
  <2> QED BY Zenon, <2>1, <2>3 DEF IsPiece
<1>4. /\ IsSeq(c) /\ Len(c) = Len(CheckPointed(v, f))
      /\ \A b \in 1..Len(c) : IsSeq(c[b]) /\ Len(c[b]) = Len(CheckPointed(v, f)[b])
  BY DEF CodeIs
<1>5. CodeIs(c, v, f, R, ny)
  BY <1>3, <1>4, CodeFromPlaces
<1> QED BY <1>2, <1>5

\* Code with more uses at one place.
WithUses(c, b, j, V) == [c EXCEPT ![b][j].uses = @ \cup V]

LEMMA NewUses ==
  ASSUME NEW c, IsSeq(c), NEW b \in 1..Len(c), IsSeq(c[b]), NEW j \in 1..Len(c[b]), Whole(c[b][j]),
         NEW V, NEW d, d = WithUses(c, b, j, V)
  PROVE  /\ IsSeq(d) /\ Len(d) = Len(c)
         /\ \A a \in 1..Len(c) : a # b => d[a] = c[a]
         /\ IsSeq(d[b]) /\ Len(d[b]) = Len(c[b])
         /\ \A i \in 1..Len(c[b]) : i # j => d[b][i] = c[b][i]
         /\ d[b][j].op = c[b][j].op /\ d[b][j].val = c[b][j].val /\ d[b][j].at = c[b][j].at
         /\ d[b][j].uses = c[b][j].uses \cup V
         /\ Whole(d[b][j])
<1> DEFINE s == c[b]
           e == s[j]
           e2 == [e EXCEPT !.uses = @ \cup V]
           s2 == [s EXCEPT ![j] = e2]
<1>1. d = [c EXCEPT ![b] = s2]
  BY DEF WithUses
<1>2. /\ e2.op = e.op /\ e2.val = e.val /\ e2.at = e.at /\ e2.uses = e.uses \cup V /\ Whole(e2)
  <2>1. {"op", "val", "uses", "at"} \subseteq DOMAIN e
    BY DEF Whole
  <2> HIDE DEF e
  <2> QED BY <2>1 DEF Whole
<1>3. DOMAIN s = 1..Len(s) /\ DOMAIN c = 1..Len(c) /\ Len(s) \in Nat /\ Len(c) \in Nat
  BY DEF IsSeq
<1> HIDE DEF e2, e
<1>4. /\ s2 = [i \in 1..Len(s) |-> s2[i]] /\ s2[j] = e2
      /\ \A i \in 1..Len(s) : i # j => s2[i] = s[i]
  BY <1>3
<1> HIDE DEF s2, s
<1>5. IsSeq(s2) /\ Len(s2) = Len(s)
  BY <1>3, <1>4, FunctionIsSeq
<1>6. /\ d = [a \in 1..Len(c) |-> d[a]] /\ d[b] = s2
      /\ \A a \in 1..Len(c) : a # b => d[a] = c[a]
  BY <1>1, <1>3
<1>7. IsSeq(d) /\ Len(d) = Len(c)
  <2>1. Len(c) \in Nat
    BY <1>3
  <2>2. d = [a \in 1..Len(c) |-> d[a]]
    BY <1>6
  <2> QED BY ONLY <2>1, <2>2, FunctionIsSeq
<1> QED BY <1>2, <1>4, <1>5, <1>6, <1>7 DEF s, e

\* The records with one more.
IsOn(R, A) == R = [x \in A |-> R[x]]

LEMMA NewRecord ==
  ASSUME NEW A, NEW R, IsOn(R, A), NEW a, NEW live, NEW Q, Q = WithRecord(R, a, live)
  PROVE  /\ IsOn(Q, A \cup {a}) /\ Q[a] = live
         /\ \A x \in A : x # a => Q[x] = R[x]
<1>1. DOMAIN R = A
  BY DEF IsOn
<1> QED BY <1>1 DEF WithRecord, IsOn

\* Places one after the other.
LEMMA NextPlace ==
  ASSUME NEW x, NEW nx, x = <<x[1], x[2]>>, x[1] \in Nat, x[2] \in Nat,
         nx = <<nx[1], nx[2]>>, nx[1] \in Nat, nx[2] \in Nat
  PROVE  Before(x, <<nx[1], nx[2] + 1>>) <=> Before(x, nx) \/ x = nx
<1>1. x = nx <=> x[1] = nx[1] /\ x[2] = nx[2]
  OBVIOUS
<1>2. x[2] < nx[2] + 1 <=> x[2] < nx[2] \/ x[2] = nx[2]
  OBVIOUS
<1>3. ~(nx[1] < nx[1])
  OBVIOUS
<1> QED BY <1>1, <1>2, <1>3 DEF Before

\* Before is a strict order.
LEMMA BeforeTransitive ==
  ASSUME NEW x, NEW y, NEW z, x[1] \in Nat, x[2] \in Nat, y[1] \in Nat, y[2] \in Nat,
         z[1] \in Nat, z[2] \in Nat, Before(x, y), Before(y, z)
  PROVE  Before(x, z) /\ ~Before(x, x) /\ ~Before(y, x)
BY DEF Before

\* A site records what is live.
LEMMA RecordCode ==
  ASSUME NEW c, NEW v \in Versions, NEW f, FunOK(f), NEW R, NEW nx, CodeIs(c, v, f, R, nx),
         Solves(f, R, Visited(v, f, nx)),
         NEW s, AtSite(v, f, nx, s),
         NEW d, d = WithUses(c, nx[1], nx[2], Values(SrcLive(f, R, s))),
         NEW Q, Q = WithRecord(R, SrcAt(f, s).at, SrcLive(f, R, s)),
         NEW ny, ny = <<nx[1], nx[2] + 1>>
  PROVE  CodeIs(d, v, f, Q, ny) /\ Solves(f, Q, Visited(v, f, ny))
<1> DEFINE live == SrcLive(f, R, s)
           a == SrcAt(f, s).at
           b == nx[1]
           j == nx[2]
           k == CheckPointed(v, f)
           at(t) == SrcAt(f, t).at
           S == Visited(v, f, nx)
           A == {at(t) : t \in S}
<1>1. s \in SrcSites(f) /\ nx = SitePlace(v, f, s)
  BY DEF AtSite
<1>2. nx \in Positions(c) /\ producesStackmapRecords(At(c, nx)) /\ At(c, nx).at = a /\ Whole(At(c, nx))
  BY <1>1, SitePlaces
<1>3. /\ b \in 1..Len(c) /\ j \in 1..Len(c[b]) /\ nx = <<b, j>>
      /\ b \in Nat /\ j \in Nat /\ Whole(c[b][j])
  BY <1>2, PositionsOf DEF At
<1>4. /\ IsSeq(c) /\ Len(c) = Len(k) /\ \A i \in 1..Len(c) : IsSeq(c[i]) /\ Len(c[i]) = Len(k[i])
  BY DEF CodeIs
<1> HIDE DEF live, a, b, j, k, A
<1>5. /\ IsSeq(d) /\ Len(d) = Len(c)
      /\ \A i \in 1..Len(c) : i # b => d[i] = c[i]
      /\ IsSeq(d[b]) /\ Len(d[b]) = Len(c[b])
      /\ \A i \in 1..Len(c[b]) : i # j => d[b][i] = c[b][i]
      /\ d[b][j].op = c[b][j].op /\ d[b][j].val = c[b][j].val /\ d[b][j].at = c[b][j].at
      /\ d[b][j].uses = c[b][j].uses \cup Values(live)
      /\ Whole(d[b][j])
  <2>1. d = WithUses(c, b, j, Values(live))
    BY DEF b, j, live
  <2>2. IsSeq(c) /\ b \in 1..Len(c) /\ IsSeq(c[b]) /\ j \in 1..Len(c[b]) /\ Whole(c[b][j])
    BY <1>3, <1>4
  <2> QED BY ONLY <2>1, <2>2, NewUses
<1>6. \A i \in 1..Len(c) : IsSeq(d[i]) /\ Len(d[i]) = Len(c[i])
  BY <1>4, <1>5
<1>7. Positions(d) = Positions(c)
  <2>1. ASSUME NEW x \in Positions(d) PROVE x \in Positions(c)
    <3>1. x[1] \in 1..Len(d) /\ x[2] \in 1..Len(d[x[1]]) /\ x = <<x[1], x[2]>>
      BY PositionsOf
    <3>2. x[1] \in 1..Len(c) /\ x[2] \in 1..Len(c[x[1]])
      BY <1>5, <1>6, <3>1
    <3> QED BY <3>1, <3>2, PositionsOf
  <2>2. ASSUME NEW x \in Positions(c) PROVE x \in Positions(d)
    <3>1. x[1] \in 1..Len(c) /\ x[2] \in 1..Len(c[x[1]]) /\ x = <<x[1], x[2]>>
      BY PositionsOf
    <3>2. x[1] \in 1..Len(d) /\ x[2] \in 1..Len(d[x[1]])
      BY <1>5, <1>6, <3>1
    <3> QED BY <3>1, <3>2, PositionsOf
  <2> QED BY <2>1, <2>2
<1>8. ASSUME NEW x \in Positions(c)
      PROVE  /\ x = <<x[1], x[2]>> /\ x[1] \in Nat /\ x[2] \in Nat
             /\ x # nx => At(d, x) = At(c, x)
             /\ Before(x, ny) <=> Before(x, nx) \/ x = nx
  <2>1. x[1] \in 1..Len(c) /\ x[2] \in 1..Len(c[x[1]]) /\ x = <<x[1], x[2]>>
    BY PositionsOf
  <2>2. x[1] \in Nat /\ x[2] \in Nat
    BY <2>1
  <2>3. ASSUME x # nx PROVE d[x[1]][x[2]] = c[x[1]][x[2]]
    <3>1. x[1] # b \/ x[2] # j
      BY <1>3, <2>1, <2>3
    <3>2. CASE x[1] # b
      BY <1>5, <2>1, <3>2
    <3>3. CASE x[1] = b /\ x[2] # j
      BY <1>5, <2>1, <3>3
    <3> QED BY <3>1, <3>2, <3>3
  <2>4. Before(x, ny) <=> Before(x, nx) \/ x = nx
    BY <1>3, <2>1, <2>2, NextPlace DEF b, j
  <2> QED BY <2>1, <2>2, <2>3, <2>4 DEF At
<1>9. /\ At(d, nx).op = At(c, nx).op /\ At(d, nx).val = At(c, nx).val /\ At(d, nx).at = At(c, nx).at
      /\ At(d, nx).uses = At(c, nx).uses \cup Values(live) /\ Whole(At(d, nx))
  <2>1. At(d, nx) = d[b][j] /\ At(c, nx) = c[b][j]
    BY DEF At, b, j
  <2> QED BY ONLY <1>5, <2>1
<1>10. /\ IsOn(Q, A \cup {a}) /\ Q[a] = live
       /\ \A x \in A : x # a => Q[x] = R[x]
  <2>1. IsOn(R, A)
    BY DEF Solves, A, IsOn
  <2>2. Q = WithRecord(R, a, live)
    BY DEF a, live
  <2> QED BY ONLY <2>1, <2>2, NewRecord
<1>11. ASSUME NEW t \in SrcSites(f) PROVE SitePlace(v, f, t) = nx <=> t = s
  <2>1. /\ t \in Positions(f.code) /\ MarkOf(v, f, t) \in 1..Len(PieceAt(v, f, t))
        /\ SitePlace(v, f, t) = Place(v, f, t, MarkOf(v, f, t))
        /\ s \in Positions(f.code) /\ MarkOf(v, f, s) \in 1..Len(PieceAt(v, f, s))
        /\ SitePlace(v, f, s) = Place(v, f, s, MarkOf(v, f, s))
    BY <1>1, SiteFacts
  <2>2. SitePlace(v, f, t) = nx => t = s
    BY <1>1, <2>1, PlaceUnique
  <2> QED BY <1>1, <2>2
<1>12. Visited(v, f, ny) = S \cup {s}
  <2>1. ASSUME NEW t \in SrcSites(f)
        PROVE  Before(SitePlace(v, f, t), ny) <=> Before(SitePlace(v, f, t), nx) \/ t = s
    <3>1. SitePlace(v, f, t) \in Positions(c)
      BY SitePlaces
    <3> QED BY <1>8, <1>11, <3>1
  <2> QED BY <1>1, <2>1 DEF Visited
<1>13. \A t \in SrcSites(f) : t \in S <=> Before(t, s)
  BY VisitedBefore
<1>14. ASSUME NEW t \in S PROVE t \in SrcSites(f) /\ t # s /\ at(t) # a /\ Q[at(t)] = R[at(t)]
  <2>1. t \in SrcSites(f) /\ Before(t, s)
    BY <1>13 DEF Visited
  <2>2. t # s
    <3>1. s[1] \in Nat /\ s[2] \in Nat
      BY <1>1, SiteFacts, PositionsOf
    <3>2. ~Before(s, s)
      BY <3>1 DEF Before
    <3> QED BY <2>1, <3>2
  <2>3. at(t) # a
    BY <1>1, <2>1, <2>2 DEF FunOK, a
  <2>4. at(t) \in A
    BY DEF A
  <2> QED BY <1>10, <2>1, <2>2, <2>3, <2>4
<1>15. Solves(f, Q, S \cup {s})
  <2>1. A \cup {a} = {at(t) : t \in S \cup {s}}
    BY DEF A, a
  <2>2. \A t \in S : Q[at(t)] = R[at(t)] /\ R[at(t)] = SrcLive(f, R, t)
    BY <1>14 DEF Solves
  <2>3. ASSUME NEW t \in S \cup {s} PROVE SrcLive(f, R, t) = SrcLive(f, Q, t)
    <3>1. ASSUME NEW r \in SrcSites(f), Before(r, t) PROVE R[at(r)] = Q[at(r)]
      <4>1. (t = s \/ Before(t, s)) /\ t \in SrcSites(f)
        BY <1>1, <1>13, <1>14
      <4>2. /\ r[1] \in Nat /\ r[2] \in Nat /\ s[1] \in Nat /\ s[2] \in Nat
            /\ t[1] \in Nat /\ t[2] \in Nat
        BY <1>1, <4>1, SiteFacts, PositionsOf
      <4>3. Before(r, s)
        BY <3>1, <4>1, <4>2, BeforeTransitive
      <4> QED BY <1>13, <1>14, <4>3
    <3> HIDE DEF S
    <3> QED BY <3>1, SrcLiveSame
  <2>4. Q[at(s)] = SrcLive(f, Q, s)
    BY <1>10, <2>3 DEF a, live
  <2>5. \A t \in S \cup {s} : Q[at(t)] = SrcLive(f, Q, t)
    BY <2>2, <2>3, <2>4
  <2>6. Q = [x \in {at(t) : t \in S \cup {s}} |-> Q[x]]
    BY ONLY <1>10, <2>1 DEF IsOn
  <2> HIDE DEF S
  <2> QED BY <2>5, <2>6 DEF Solves
<1>16. ASSUME NEW p \in Positions(f.code), NEW m \in 1..Len(PieceAt(v, f, p))
       PROVE  IsPiece(d, v, f, Q, ny, p, m)
  <2> DEFINE x == Place(v, f, p, m)
             ins == PieceAt(v, f, p)[m]
             Rec(X, n) == IF producesStackmapRecords(ins) /\ Before(x, n) THEN Values(X[ins.at]) ELSE {}
  <2>1. IsPiece(c, v, f, R, nx, p, m)
    BY CodePlaces
  <2>2. /\ x \in Positions(c)
        /\ At(c, x).op = ins.op /\ At(c, x).val = ins.val /\ At(c, x).at = ins.at
        /\ At(c, x).uses = ins.uses \cup Rec(R, nx)
        /\ producesStackmapRecords(ins) => Whole(At(c, x))
    BY <2>1 DEF IsPiece
  <2> HIDE DEF x, ins
  <2>3. producesStackmapRecords(ins) <=> producesStackmapRecords(At(c, x))
    BY <2>2 DEF producesStackmapRecords
  <2>4. CASE x = nx
    <3>1. producesStackmapRecords(ins) /\ ins.at = a /\ Before(x, ny)
      BY <1>2, <1>8, <2>2, <2>3, <2>4
    <3>2. Rec(Q, ny) = Values(live)
      BY <1>10, <3>1
    <3>3. ~Before(x, nx)
      <4>1. x[1] \in Nat /\ x[2] \in Nat
        BY <1>8, <2>2
      <4> QED BY <2>4, <4>1 DEF Before
    <3>4. Rec(R, nx) = {}
      BY <3>3
    <3> HIDE DEF Rec
    <3>5. At(d, x).uses = ins.uses \cup Rec(Q, ny)
      BY <1>9, <2>2, <2>4, <3>2, <3>4
    <3>6. /\ x \in Positions(d)
          /\ At(d, x).op = ins.op /\ At(d, x).val = ins.val /\ At(d, x).at = ins.at
          /\ Whole(At(d, x))
      BY Zenon, <1>7, <1>9, <2>2, <2>4
    <3> QED BY Zenon, <3>5, <3>6 DEF IsPiece, Rec, x, ins
  <2>5. CASE x # nx
    <3>1. At(d, x) = At(c, x) /\ x \in Positions(d) /\ (Before(x, ny) <=> Before(x, nx))
      BY <1>7, <1>8, <2>2, <2>5
    <3>2. ASSUME producesStackmapRecords(ins), Before(x, nx) PROVE Q[ins.at] = R[ins.at]
      <4>1. PICK t \in SrcSites(f) : x = SitePlace(v, f, t)
        BY <2>2, <2>3, <3>2, SitePlaces
      <4>2. t \in S
        BY <3>2, <4>1 DEF Visited
      <4>3. ins.at = at(t)
        BY <2>2, <4>1, SitePlaces
      <4> QED BY <1>14, <4>2, <4>3
    <3>3. Rec(Q, ny) = Rec(R, nx)
      BY Zenon, <3>1, <3>2
    <3> HIDE DEF Rec
    <3> QED BY Zenon, <2>2, <3>1, <3>3 DEF IsPiece, Rec, x, ins
  <2> QED BY <2>4, <2>5
<1>17. CodeIs(d, v, f, Q, ny)
  <2>1. /\ IsSeq(d) /\ Len(d) = Len(k)
        /\ \A i \in 1..Len(d) : IsSeq(d[i]) /\ Len(d[i]) = Len(k[i])
    BY <1>4, <1>5, <1>6
  <2> QED BY <1>16, <2>1, CodeFromPlaces DEF k
<1> QED BY <1>12, <1>15, <1>17

-----------------------------------------------------------------------------
(***************************************************************************)
(* The invariant holds initially and every step keeps it.                  *)
(***************************************************************************)
\* When clang calls the passes.
LEMMA Initially ==
  ASSUME Init
  PROVE  IInv
<1>1. fn \in Functions /\ version = "opt" /\ phase = "checkpoint" /\ code = fn.code
  BY DEF Init
<1>2. /\ records = [v \in Versions |-> records[v]] /\ records["opt"] = <<>>
      /\ records["unopt"] = <<>>
  BY DEF Init, Versions
<1>3. CodeValid
  BY <1>1, FunctionOK DEF FunOK, CodeValid
<1> QED BY <1>1, <1>2, <1>3 DEF IInv, TypeInv, LiveInv, DoneInv, Versions

\* CheckPointPass sets up the code, without records.
LEMMA CheckPointStep ==
  ASSUME IInv, CheckPointPass
  PROVE  IInv'
<1> DEFINE k == CheckPointed(version, fn)
<1>1. /\ phase = "checkpoint" /\ code' = k /\ phase' = "live" /\ next' = <<1, 1>>
      /\ fn' = fn /\ version' = version /\ records' = records
  BY DEF CheckPointPass
<1>2. fn \in Functions /\ version \in Versions /\ records[version] = <<>> /\ TypeInv /\ DoneInv
  BY <1>1 DEF IInv, TypeInv, DoneInv
<1>3. FunOK(fn)
  BY <1>2, FunctionOK
<1>4. CodeIs(k, version, fn, <<>>, <<1, 1>>) /\ Visited(version, fn, <<1, 1>>) = {}
  BY <1>2, <1>3, FirstCode
<1>5. Solves(fn, <<>>, {})
  <2>1. <<>> = [at \in {} |-> <<>>[at]]
    OBVIOUS
  <2>2. {SrcAt(fn, s).at : s \in {}} = {}
    OBVIOUS
  <2> QED BY <2>1, <2>2 DEF Solves
<1>6. LiveInv'
  <2>1. records'[version'] = <<>> /\ <<1, 1>> \in (Nat \ {0}) \X (Nat \ {0})
    BY <1>1, <1>2
  <2> HIDE DEF k
  <2> QED BY <1>1, <1>4, <1>5, <2>1 DEF LiveInv
<1>7. CodeValid'
  <2>1. OnlySource(fn, <<>>, {})
    BY DEF OnlySource
  <2>2. DefsDominateUses(k, fn.cfg)
    BY <1>2, <1>3, <1>4, <2>1, ValidCode
  <2> HIDE DEF k
  <2> QED BY <1>1, <2>2 DEF CodeValid
<1>8. TypeInv' /\ DoneInv'
  BY <1>1, <1>2 DEF TypeInv, DoneInv
<1> QED BY <1>6, <1>7, <1>8 DEF IInv

\* What is known while LiveVariablesPass runs.
LEMMA WhileLive ==
  ASSUME IInv, phase = "live"
  PROVE  /\ fn \in Functions /\ version \in Versions /\ FunOK(fn)
         /\ next = <<next[1], next[2]>> /\ next[1] \in Nat \ {0} /\ next[2] \in Nat \ {0}
         /\ CodeIs(code, version, fn, records[version], next)
         /\ Solves(fn, records[version], Visited(version, fn, next))
         /\ OnlySource(fn, records[version], Visited(version, fn, next))
<1>1. /\ fn \in Functions /\ version \in Versions
      /\ CodeIs(code, version, fn, records[version], next)
      /\ Solves(fn, records[version], Visited(version, fn, next))
      /\ next \in (Nat \ {0}) \X (Nat \ {0})
  BY DEF IInv, TypeInv, LiveInv
<1>2. FunOK(fn)
  BY <1>1, FunctionOK
<1>3. OnlySource(fn, records[version], Visited(version, fn, next))
  BY <1>1, <1>2, SolvesOnlySource
<1>4. next = <<next[1], next[2]>> /\ next[1] \in Nat \ {0} /\ next[2] \in Nat \ {0}
  BY <1>1
<1> QED BY <1>1, <1>2, <1>3, <1>4

\* A step that goes on without changing the code.
LEMMA SkipStep ==
  ASSUME IInv, phase = "live", UNCHANGED <<fn, version, phase, code, records>>,
         next' \in (Nat \ {0}) \X (Nat \ {0}),
         \A x \in Positions(code) :
           producesStackmapRecords(At(code, x)) => (Before(x, next) <=> Before(x, next'))
  PROVE  IInv'
<1>1. /\ fn \in Functions /\ version \in Versions /\ FunOK(fn)
      /\ CodeIs(code, version, fn, records[version], next)
      /\ Solves(fn, records[version], Visited(version, fn, next))
  BY WhileLive
<1>2. CodeIs(code, version, fn, records[version], next') /\ Visited(version, fn, next') = Visited(version, fn, next)
  BY <1>1, SkipCode
<1>3. Solves(fn, records[version], Visited(version, fn, next'))
  BY <1>1, <1>2
<1>4. LiveInv'
  BY <1>2, <1>3 DEF LiveInv
<1>5. TypeInv' /\ DoneInv' /\ CodeValid'
  BY DEF IInv, TypeInv, DoneInv, CodeValid
<1> QED BY <1>4, <1>5 DEF IInv

\* An instruction that is no site.
LEMMA VisitOtherStep ==
  ASSUME IInv, VisitOther
  PROVE  IInv'
<1>1. /\ phase = "live" /\ InBlock /\ ~producesStackmapRecords(Ins)
      /\ next' = <<next[1], next[2] + 1>> /\ UNCHANGED <<fn, version, phase, code, records>>
  BY DEF VisitOther
<1>2. next = <<next[1], next[2]>> /\ next[1] \in Nat \ {0} /\ next[2] \in Nat \ {0}
  BY <1>1, WhileLive
<1>3. next' \in (Nat \ {0}) \X (Nat \ {0})
  BY <1>1, <1>2
<1>4. ASSUME NEW x \in Positions(code), producesStackmapRecords(At(code, x))
      PROVE  Before(x, next) <=> Before(x, next')
  <2>1. x # next
    BY <1>1, <1>4 DEF Ins
  <2>2. x = <<x[1], x[2]>> /\ x[1] \in Nat /\ x[2] \in Nat
    BY PositionsOf
  <2>3. Before(x, <<next[1], next[2] + 1>>) <=> Before(x, next) \/ x = next
    BY <1>2, <2>2, NextPlace
  <2> QED BY <1>1, <2>1, <2>3
<1> QED BY <1>1, <1>3, <1>4, SkipStep

\* From a block to the next.
LEMMA EndBlockStep ==
  ASSUME IInv, EndBlock
  PROVE  IInv'
<1>1. /\ phase = "live" /\ InFunction /\ ~InBlock
      /\ next' = <<next[1] + 1, 1>> /\ UNCHANGED <<fn, version, phase, code, records>>
  BY DEF EndBlock
<1>2. next = <<next[1], next[2]>> /\ next[1] \in Nat \ {0} /\ next[2] \in Nat \ {0}
  BY <1>1, WhileLive
<1>3. next' \in (Nat \ {0}) \X (Nat \ {0})
  BY <1>1, <1>2
<1>4. /\ ~(next[2] <= Len(code[next[1]]))
      /\ next'[1] = next[1] + 1 /\ next'[2] = 1
  BY <1>1 DEF InBlock
<1>5. ASSUME NEW x \in Positions(code)
      PROVE  Before(x, next) <=> Before(x, next')
  <2>1. x[1] \in 1..Len(code) /\ x[2] \in 1..Len(code[x[1]])
    BY PositionsOf
  <2>2. x[1] \in Nat /\ x[2] \in Nat /\ ~(x[2] < 1)
    BY <2>1
  <2>3. IsSeq(code) /\ \A b \in 1..Len(code) : IsSeq(code[b])
    <3>1. CodeIs(code, version, fn, records[version], next) /\ version \in Versions /\ FunOK(fn)
      BY <1>1, WhileLive
    <3> QED BY <3>1, CodePlaces
  <2>4. Len(code[x[1]]) \in Nat
    BY <2>1, <2>3 DEF IsSeq
  <2>5. x[1] = next[1] => x[2] < next[2]
    BY <1>2, <1>4, <2>1, <2>2, <2>4
  <2>6. x[1] < next[1] + 1 <=> x[1] < next[1] \/ x[1] = next[1]
    BY <1>2, <2>2
  <2> QED BY <1>4, <2>2, <2>5, <2>6 DEF Before
<1> QED BY <1>1, <1>3, <1>5, SkipStep

\* A site records its live variables, and they become uses.
LEMMA VisitSiteStep ==
  ASSUME IInv, VisitSite
  PROVE  IInv'
<1> DEFINE R == records[version]
           live == getLiveRegisters(code, fn.cfg, LivePoint(code, next))
<1>1. /\ phase = "live" /\ InBlock /\ producesStackmapRecords(Ins)
      /\ code' = WithUses(code, next[1], next[2], Values(live))
      /\ records' = [records EXCEPT ![version] = WithRecord(R, Ins.at, live)]
      /\ next' = <<next[1], next[2] + 1>> /\ UNCHANGED <<fn, version, phase>>
  <2> HIDE DEF Ins, InBlock, getLiveRegisters, LivePoint, Values, producesStackmapRecords
  <2> QED BY DEF VisitSite, WithUses
<1>2. /\ fn \in Functions /\ version \in Versions /\ FunOK(fn)
      /\ next = <<next[1], next[2]>> /\ next[1] \in Nat \ {0} /\ next[2] \in Nat \ {0}
      /\ CodeIs(code, version, fn, R, next)
      /\ Solves(fn, R, Visited(version, fn, next))
      /\ OnlySource(fn, R, Visited(version, fn, next))
  BY <1>1, WhileLive
<1>3. next \in Positions(code)
  <2>1. next[1] <= Len(code) /\ next[2] <= Len(code[next[1]])
    BY <1>1 DEF InBlock, InFunction
  <2>2. IsSeq(code) /\ \A b \in 1..Len(code) : IsSeq(code[b])
    BY <1>2, CodePlaces
  <2>3. next[1] \in 1..Len(code)
    BY <1>2, <2>1, <2>2 DEF IsSeq
  <2>4. next[2] \in 1..Len(code[next[1]])
    BY <1>2, <2>1, <2>2, <2>3 DEF IsSeq
  <2> QED BY <1>2, <2>3, <2>4, PositionsOf
<1>4. PICK s \in SrcSites(fn) : next = SitePlace(version, fn, s)
  BY <1>1, <1>2, <1>3, SitePlaces DEF Ins
<1>5. AtSite(version, fn, next, s)
  BY <1>4 DEF AtSite
<1>6. Ins.at = SrcAt(fn, s).at
  <2>1. At(code, SitePlace(version, fn, s)).at = SrcAt(fn, s).at
    BY <1>2, SiteNumber
  <2> QED BY Zenon, <1>4, <2>1 DEF Ins
<1>7. live = SrcLive(fn, R, s)
  BY <1>2, <1>5, LiveRegisters
<1> DEFINE Q == WithRecord(R, Ins.at, live)
<1> HIDE DEF live
<1>8. /\ CodeIs(code', version, fn, Q, next')
      /\ Solves(fn, Q, Visited(version, fn, next'))
  <2>1. Q = WithRecord(R, SrcAt(fn, s).at, SrcLive(fn, R, s))
    BY <1>6, <1>7
  <2>2. code' = WithUses(code, next[1], next[2], Values(SrcLive(fn, R, s)))
    BY <1>1, <1>7
  <2> HIDE DEF Q, R
  <2> QED BY <1>1, <1>2, <1>5, <2>1, <2>2, RecordCode
<1>9. records = [v \in Versions |-> records[v]]
  BY DEF IInv, TypeInv
<1> HIDE DEF Q
<1>10. /\ records' = [v \in Versions |-> records'[v]] /\ records'[version] = Q
       /\ \A v \in Versions : v # version => records'[v] = records[v]
  <2>1. records' = [records EXCEPT ![version] = Q]
    BY <1>1 DEF Q
  <2> QED BY <1>2, <1>9, <2>1
<1>11. next' \in (Nat \ {0}) \X (Nat \ {0})
  BY <1>1, <1>2
<1>12. LiveInv'
  BY <1>1, <1>8, <1>10, <1>11 DEF LiveInv
<1>13. CodeValid'
  <2>1. OnlySource(fn, Q, Visited(version, fn, next'))
    BY <1>2, <1>8, SolvesOnlySource
  <2>2. DefsDominateUses(code', fn.cfg)
    BY <1>2, <1>8, <2>1, ValidCode
  <2> QED BY <1>1, <2>2 DEF CodeValid
<1>14. TypeInv'
  BY <1>1, <1>2, <1>10 DEF TypeInv
<1>15. DoneInv'
  <2>1. version = "opt" => records'["unopt"] = records["unopt"]
    BY <1>10 DEF Versions
  <2>2. version = "unopt" => records'["opt"] = records["opt"]
    BY <1>10 DEF Versions
  <2> QED BY <1>1, <2>1, <2>2 DEF DoneInv, IInv
<1> QED BY <1>12, <1>13, <1>14, <1>15 DEF IInv

\* At the end of a version all of its sites have been visited.
LEMMA EndFunctionStep ==
  ASSUME IInv, EndFunction
  PROVE  IInv'
<1>1. /\ phase = "live" /\ ~InFunction /\ UNCHANGED <<fn, code, next, records>>
      /\ \/ version = "opt" /\ version' = "unopt" /\ phase' = "checkpoint"
         \/ version = "unopt" /\ version' = "unopt" /\ phase' = "done"
  BY DEF EndFunction
<1>2. /\ fn \in Functions /\ version \in Versions /\ FunOK(fn)
      /\ next[1] \in Nat \ {0}
      /\ CodeIs(code, version, fn, records[version], next)
      /\ Solves(fn, records[version], Visited(version, fn, next))
  BY <1>1, WhileLive
<1>3. Visited(version, fn, next) = SrcSites(fn)
  <2>1. ASSUME NEW s \in SrcSites(fn) PROVE Before(SitePlace(version, fn, s), next)
    <3> DEFINE x == SitePlace(version, fn, s)
    <3>1. x \in Positions(code)
      BY <1>2, SitePlaces
    <3> HIDE DEF x
    <3>2. x[1] \in 1..Len(code)
      BY <3>1, PositionsOf
    <3>3. ~(next[1] <= Len(code)) /\ Len(code) \in Nat
      BY <1>1, <1>2, CodePlaces DEF InFunction, IsSeq
    <3>4. x[1] < next[1]
      BY <1>2, <3>2, <3>3
    <3> QED BY <3>4 DEF Before, x
  <2> QED BY <2>1 DEF Visited
<1>4. Solves(fn, records[version], SrcSites(fn))
  BY <1>2, <1>3
<1>5. DoneInv'
  BY <1>1, <1>4 DEF DoneInv, IInv
<1>6. TypeInv' /\ LiveInv' /\ CodeValid'
  BY <1>1 DEF IInv, TypeInv, LiveInv, CodeValid, Versions
<1> QED BY <1>5, <1>6 DEF IInv

\* The invariant is one of the specification.
THEOREM Invariance == Spec => []IInv
<1>1. Init => IInv
  BY Initially
<1>2. IInv /\ [Next]_vars => IInv'
  <2> SUFFICES ASSUME IInv, [Next]_vars PROVE IInv'
    OBVIOUS
  <2>1. CASE CheckPointPass
    BY <2>1, CheckPointStep
  <2>2. CASE VisitSite
    BY <2>2, VisitSiteStep
  <2>3. CASE VisitOther
    BY <2>3, VisitOtherStep
  <2>4. CASE EndBlock
    BY <2>4, EndBlockStep
  <2>5. CASE EndFunction
    BY <2>5, EndFunctionStep
  <2>6. CASE UNCHANGED vars
    BY <2>6 DEF vars, IInv, TypeInv, LiveInv, DoneInv, CodeValid
  <2> QED BY <2>1, <2>2, <2>3, <2>4, <2>5, <2>6 DEF Next, Terminated
<1> QED BY <1>1, <1>2, PTL DEF Spec

(***************************************************************************)
(* The code that LiveVariablesPass leaves after each of its steps defines  *)
(* every value above its uses, for any control flow graph: no stackmap or  *)
(* patchpoint call gets an argument that is not defined there.             *)
(***************************************************************************)
THEOREM CodeAlwaysValid == Spec => []CodeValid
<1>1. IInv => CodeValid
  BY DEF IInv
<1> QED BY <1>1, Invariance, PTL

(***************************************************************************)
(* A site and its twin record the same variables in the same order,        *)
(* whatever the function, its graph and the number of its sites.           *)
(***************************************************************************)
THEOREM TwinsRecordSame == Spec => []SameLocations
<1>1. IInv => SameLocations
  <2> SUFFICES ASSUME IInv, phase = "done" PROVE records["opt"] = records["unopt"]
    BY DEF SameLocations
  <2>1. /\ fn \in Functions
        /\ Solves(fn, records["opt"], SrcSites(fn)) /\ Solves(fn, records["unopt"], SrcSites(fn))
    BY DEF IInv, TypeInv, DoneInv, Versions
  <2>2. FunOK(fn)
    BY <2>1, FunctionOK
  <2> QED BY <2>1, <2>2, SolvesUnique
<1> QED BY <1>1, Invariance, PTL
=============================================================================
