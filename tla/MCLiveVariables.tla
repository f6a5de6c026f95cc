-------------------------- MODULE MCLiveVariables --------------------------
(***************************************************************************)
(* Functions of up to four blocks: a branch, a loop, and a block that      *)
(* cannot be reached.  x is a variable of the function; each block may use *)
(* x, make a call, use the result of its call or that of another block.    *)
(***************************************************************************)
EXTENDS LiveVariables

Graph(n, edges) == [node |-> 1..n, edge |-> edges]

Branch      == Graph(4, {<<1, 2>>, <<1, 3>>, <<2, 4>>, <<3, 4>>})
Loop        == Graph(4, {<<1, 2>>, <<2, 3>>, <<3, 2>>, <<2, 4>>})
Unreachable == Graph(3, {<<1, 2>>, <<3, 2>>})

X        == <<"var", 0>>
Result(b) == <<"res", b>>

Def           == Instr("alloca", X, {}, 0)
Use(v)        == Instr("other", None, {v}, 0)
Br            == Instr("br", None, {}, 0)
CallTo(b, ty, args) ==
  [ty |-> ty] @@ Instr("call", IF ty = "void" THEN None ELSE Result(b), args, 10 * b)

\* The contents of block b; the last block also returns.
Contents(b) ==
  {<<>>, <<Use(X)>>,
   <<CallTo(b, "int", {})>>,
   <<CallTo(b, "void", {X})>>,
   <<CallTo(b, "i64", {}), Use(Result(b))>>,
   <<CallTo(b, "float", {X}), Use(Result(b))>>}
    \cup {<<Use(Result(c))>> : c \in 1..(b - 1)}
    \cup {<<CallTo(b, "int", {}), Use(Result(c))>> : c \in 1..(b - 1)}

Returns(n) == {Instr("ret", None, {X}, 10 * n + 1), Instr("ret", None, {}, 10 * n + 1),
               Instr("retconst", None, {}, 10 * n + 1)}

Code(first, second, third, last, ret) ==
  <<<<Def>> \o first \o <<Br>>, second \o <<Br>>, third \o <<Br>>, last \o <<ret>>>>

\* Every value that is used is defined, and above its use.
Valid(f) ==
  /\ \A p \in Positions(f.code) : \A v \in At(f.code, p).uses :
       \E d \in Positions(f.code) : At(f.code, d).val = v
  /\ DefsDominateUses(f.code, f.cfg)

Fun(cfg, c, g) == [cfg |-> cfg, code |-> c, hasGuard |-> g]

FourBlocks(cfg) ==
  {Fun(cfg, Code(a, b, c, <<>>, r), g) :
     a \in Contents(1), b \in Contents(2), c \in Contents(3), r \in Returns(4), g \in BOOLEAN}

ThreeBlocks(cfg) ==
  {Fun(cfg, <<<<Def>> \o a \o <<Br>>, b \o <<r>>, c \o <<Br>>>>, g) :
     a \in Contents(1), b \in Contents(2), c \in Contents(3), r \in Returns(2), g \in BOOLEAN}

MCFunctions ==
  {f \in FourBlocks(Branch) \cup FourBlocks(Loop) \cup ThreeBlocks(Unreachable) : Valid(f)}

\* x is used at the head of a loop whose body makes a call.
LoopVariable == {Fun(Loop, Code(<<>>, <<Use(X)>>, <<CallTo(3, "void", {})>>, <<>>,
                                Instr("ret", None, {}, 41)), FALSE)}
=============================================================================
