--------------------------- MODULE SourceProgram ---------------------------
(***************************************************************************)
(* What a source program does when nothing is optimized: a stack of        *)
(* activations that run the sites of their functions in order.  This is    *)
(* the behaviour the tests of the repository expect, since they compare    *)
(* the output of each program with its output when compiled by plain       *)
(* clang.  A guard is not visible at this level.                           *)
(*                                                                         *)
(* An activation is a function, the site it runs next (or is calling       *)
(* from) and the values of its variables.                                  *)
(***************************************************************************)
EXTENDS Integers, Sequences

VARIABLES
  body,    \* the sites of each function
  stack    \* the activations, main first

vars == <<body, stack>>

Init ==
  /\ Len(stack) = 1
  /\ stack[1].fun = "main"
  /\ stack[1].at = 1

-----------------------------------------------------------------------------
(***************************************************************************)
(* What may follow a stack s: a stack t.                                   *)
(***************************************************************************)
Top(s) == s[Len(s)]

AtSite(s) == s # <<>> /\ Top(s).at <= Len(body[Top(s).fun])

Site(s) == body[Top(s).fun][Top(s).at]

Below(s) == SubSeq(s, 1, Len(s) - 1)

\* The top activation goes on after the site it is at.
PastSite(s) == [s EXCEPT ![Len(s)].at = @ + 1]

\* The callee starts at its first site; its variables get any values.
Calls(s, t) ==
  /\ AtSite(s)
  /\ Site(s).kind # "guard"
  /\ Len(t) = Len(s) + 1
  /\ Below(t) = s
  /\ Top(t).fun = Site(s).callee
  /\ Top(t).at = 1

\* A guard is passed, or a branch goes around a site.
Advances(s, t) == AtSite(s) /\ t = PastSite(s)

Returns(s, t) ==
  /\ s # <<>>
  /\ Top(s).at = Len(body[Top(s).fun]) + 1
  /\ t = IF Below(s) = <<>> THEN <<>> ELSE PastSite(Below(s))

Next ==
  /\ \E s \in {stack}, t \in {stack'} : Calls(s, t) \/ Advances(s, t) \/ Returns(s, t)
  /\ UNCHANGED body

Spec == Init /\ [][Next]_vars
=============================================================================
