-------------------------- MODULE MCLocationValues --------------------------
(***************************************************************************)
(* One or two variables of 4, 8 and 12 bytes in locations of every kind.   *)
(* The stack has 8 units, so that the variables of the optimized and the   *)
(* unoptimized code overlap in every way.  What follows the offset of a    *)
(* location_t is zero or not, so a constant that is recorded there has 4   *)
(* bytes, and one of 8 bytes is in the table of large constants.           *)
(***************************************************************************)
EXTENDS LocationValues

MCMemory == 0..7

Loc(kind, offset) == [kind |-> kind, offset |-> offset]

Var(size, opt, unopt) == [size |-> size, opt |-> opt, unopt |-> unopt]

StackPlaces(size) == {Loc("DIRECT", a) : a \in {b \in MCMemory : b + size - 1 \in MCMemory}}
InRegister      == {Loc("REGISTER", 3), Loc("REGISTER", 15)}
Constants(size) == IF size = 1 THEN {Loc("CONSTANT", 7)} ELSE {Loc("CONST_INDEX", 1)}
ErrorPaths      == {Loc("INDIRECT", 0), Loc("REGISTER", 17)}

OptLocations(size) ==
  StackPlaces(size) \cup IF size <= 2 THEN InRegister \cup Constants(size) \cup ErrorPaths ELSE {}

UnoptLocations(size) ==
  StackPlaces(size) \cup IF size <= 2 THEN {Loc("REGISTER", 3), Loc("CONSTANT", 7)} \cup ErrorPaths ELSE {}

Variables == UNION {{Var(s, o, u) : o \in OptLocations(s), u \in UnoptLocations(s)} : s \in 1..3}

\* Where a variable is in the optimized or unoptimized code.
Place(loc, size) ==
  CASE loc.kind = "DIRECT"   -> {<<"mem", a>> : a \in loc.offset..(loc.offset + size - 1)}
    [] loc.kind = "REGISTER" -> {<<"reg", loc.offset>>}
    [] OTHER -> {}

\* Two variables are never in the same place.
Apart(v, w) ==
  /\ Place(v.opt, v.size) \cap Place(w.opt, w.size) = {}
  /\ Place(v.unopt, v.size) \cap Place(w.unopt, w.size) = {}

\* One variable is restored to a place where the other one was.
Overlap(v, w) ==
  \/ Place(v.unopt, v.size) \cap Place(w.opt, w.size) # {}
  \/ Place(w.unopt, w.size) \cap Place(v.opt, v.size) # {}

Pairs == {p \in Variables \X Variables : Apart(p[1], p[2]) /\ Overlap(p[1], p[2])}

MCSites == {<<v>> : v \in Variables} \cup Pairs

-----------------------------------------------------------------------------
\* A 64-bit variable that the optimizer knows to be -1.
NegativeConstant == {<<Var(2, Loc("CONSTANT", -1), Loc("DIRECT", 0))>>}

\* A variable of eight bytes on the stack.
OneVariable == {<<Var(2, Loc("DIRECT", 0), Loc("DIRECT", 4))>>}
=============================================================================
