--------------------------- MODULE MCGuardHandler ---------------------------
(***************************************************************************)
(* Programs with the functions of the test programs: main calls trace,     *)
(* trace calls get_number, get_number may call itself and calls            *)
(* more_indirection, whose guard fails.  Every call may be inlined.        *)
(***************************************************************************)
EXTENDS GuardHandler

G == "more_indirection"
N == "get_number"
T == "trace"
M == "main"

Guard     == [kind |-> "guard",   callee |-> "none"]
Call(f)   == [kind |-> "call",    callee |-> f]
Inline(f) == [kind |-> "inlined", callee |-> f]
Either(f) == {Call(f), Inline(f)}

Body(n, t, m) == (G :> <<Guard>>) @@ (N :> n) @@ (T :> t) @@ (M :> m)

One(S)    == {<<a>> : a \in S}
Two(S, U) == {<<a, b>> : a \in S, b \in U}

Bodies ==
  {Body(n, t, m) :
     n \in One(Either(G)) \cup Two({Inline(G), Call(N)}, Either(G)),
     t \in One(Either(N)) \cup Two(Either(N), Either(N)),
     m \in One(Either(T)) \cup Two(Either(T), {Call(G)})}

Orders == {<<G, N, T, M>>, <<M, T, N, G>>}

Direct     == [opt |-> "direct",   unopt |-> "direct"]
Register   == [opt |-> "register", unopt |-> "direct"]
InReg      == [opt |-> "register", unopt |-> "register"]
Constant   == [opt |-> "constant", unopt |-> "direct"]
Folded     == [opt |-> "constant", unopt |-> "constant"]

-----------------------------------------------------------------------------
(***************************************************************************)
(* The programs the handler is right for.  What it needs of the optimizer  *)
(* is stated here, and the runs with one program each show what happens    *)
(* without it.                                                             *)
(***************************************************************************)
Sites(p) == {<<f, i>> \in (DOMAIN p.body) \X (1..2) : i <= Len(p.body[f])}

Position(p, f) == SelectInSeq(p.order, LAMBDA h : h = f)

(***************************************************************************)
(* stmap_get_map_record returns the first record with an ID, which must be *)
(* the one in the function itself and not in an inlined copy.              *)
(***************************************************************************)
InlinedCalleesFirst(p) ==
  \A s \in Sites(p) : LET site == p.body[s[1]][s[2]] IN
    IsInlined(site) => Position(p, site.callee) < Position(p, s[1])

(***************************************************************************)
(* get_restored_state makes a frame of every record from the site at which *)
(* an activation is to the site of the function it was inlined in, so      *)
(* there may be no records of other sites in between.                      *)
(***************************************************************************)
OnlyEnclosingSitesFollow(items, k) ==
  LET own == SelectInSeq(items, LAMBDA it : it.path = <<items[k].path[1]>>)
  IN  \A n \in (k + 1)..own : IsPrefix(items[n].path, items[k].path)

\* The functions that have frames of their own.
FunctionsIn(p) ==
  LET items == Items(p)
      Callees(f) == {p.body[Last(it.path)[1]][Last(it.path)[2]].callee :
                       it \in {x \in ToSet(items[f]) : x.kind = "call"}}
      Run[d \in 0..Len(p.order)] ==
        IF d = 0 THEN {M} ELSE Run[d - 1] \cup UNION {Callees(f) : f \in Run[d - 1]}
  IN  Run[Len(p.order)]

(***************************************************************************)
(* collect_inlined_frames may insert frames only in its last iteration,    *)
(* and it is sure to find the site inlined in main if that is the first.   *)
(***************************************************************************)
InlinedSiteFound(f, item) ==
  (item.kind = "call" /\ Len(item.path) > 1) => f = M /\ item.path[1][2] = 1

ControlOK(p) ==
  /\ InlinedCalleesFirst(p)
  /\ \A f \in FunctionsIn(p) : LET items == Items(p)[f] IN
       \A k \in 1..Len(items) :
         /\ items[k].kind # "inlined" => OnlyEnclosingSitesFollow(items, k)
         /\ InlinedSiteFound(f, items[k])

(***************************************************************************)
(* Without inlining, restore_unopt_stack writes the variables of a caller  *)
(* to the frame of its callee, so callers on such a path have no variables *)
(* to restore; the variables of an inlined guard are looked for in the     *)
(* wrong place, so they are constants; and a register is read from the     *)
(* frame of the callee, so a function that calls itself keeps none there.  *)
(***************************************************************************)
CallsReal(p, f, g) == \E i \in 1..Len(p.body[f]) : p.body[f][i] = Call(g)

RealPath(p) ==
  UNION {{c[k] : k \in 1..(Len(c) - 1)} :
           c \in {d \in {<<M, G>>, <<M, T, N, G>>} :
                    \A k \in 1..(Len(d) - 1) : CallsReal(p, d[k], d[k + 1])}}

GuardInlined(p) == \E s \in Sites(p) : p.body[s[1]][s[2]] = Inline(G)

LocalsOK(p) ==
  LET Choice(g, n) ==
        [f \in DOMAIN p.body |->
           CASE f = G /\ GuardInlined(p)   -> <<Constant>>
             [] f = G /\ ~GuardInlined(p)  -> <<g>>
             [] f # G /\ f \in RealPath(p) -> <<Folded>>
             [] f = N /\ f \notin RealPath(p) -> IF CallsReal(p, N, N) THEN <<Direct>> ELSE n
             [] OTHER -> <<Direct>>]
  IN  {Choice(Direct, <<Direct, Register>>), Choice(InReg, <<Direct>>)}

Structures == {[order |-> o, body |-> b] : o \in Orders, b \in Bodies}

MCPrograms ==
  UNION {{p @@ [locals |-> l] : l \in LocalsOK(p)} : p \in {q \in Structures : ControlOK(q)}}

-----------------------------------------------------------------------------
\* Nothing is inlined, and everything is.
AllCalls   == Body(<<Call(G)>>, <<Call(N)>>, <<Call(T)>>)
AllInlined == Body(<<Inline(G)>>, <<Inline(N)>>, <<Inline(T)>>)

-----------------------------------------------------------------------------
(***************************************************************************)
(* Programs outside the domain, one for each disagreement.                 *)
(***************************************************************************)
NoLocals == [f \in {G, N, T, M} |-> <<>>]

Program(b, l) == [order |-> <<G, N, T, M>>, body |-> b, locals |-> l]

\* An inlined function has a second site after the one that is running.
RepeatedGuard == {Program(Body(<<Inline(G), Inline(G)>>, <<Inline(N)>>, <<Call(T)>>), NoLocals)}

\* A real call from code inlined in trace, which main calls.
InlinedBelowMain == {Program(Body(<<Call(G)>>, <<Inline(N)>>, <<Call(T)>>), NoLocals)}

\* A real call from code inlined at the second of three sites of main.
SecondSite ==
  {Program(Body(<<Call(G)>>, <<Call(N)>>, <<Call(G), Inline(T), Call(G)>>), NoLocals)}

\* A real call is the last thing in code inlined in main: with Gap = 0, the
\* record of the inlined call follows at once.
AdjacentSites == {Program(Body(<<Call(G)>>, <<Call(N)>>, <<Inline(T)>>), NoLocals)}

\* The guard is inlined in a function defined before it.
CalleeLast == {[order |-> <<M, T, N, G>>, body |-> AllInlined, locals |-> NoLocals]}

\* main has a variable, and nothing is inlined.
CallerVariable == {Program(AllCalls, [NoLocals EXCEPT ![M] = <<Direct>>])}

\* The inlined guard has a variable on the stack.
GuardVariable == {Program(AllInlined, [NoLocals EXCEPT ![G] = <<Direct>>])}

\* Two functions keep a variable in the same register.
CallerRegister ==
  {Program(Body(<<Call(G)>>, <<Call(N)>>, <<Inline(T)>>),
           [NoLocals EXCEPT ![N] = <<Register>>, ![G] = <<Register>>])}

Plain    == {Program(AllCalls, NoLocals)}
Inlining == {Program(AllInlined, NoLocals)}
=============================================================================
