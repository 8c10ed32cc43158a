------------------------------- MODULE Programs -------------------------------
(***************************************************************************)
(* Small functions for the code generator: the shapes of the test programs *)
(* of the repository (quadratic.c, fibonacci-loop.c, the loops over     *)
(* memory of matrix_multiply.c), reduced to a few instructions.            *)
(***************************************************************************)
EXTENDS TLC, Sequences

I(n, o, a)     == [name |-> n, op |-> o, args |-> a, blocks |-> <<>>]
Phi(n, a, b)   == [name |-> n, op |-> "phi", args |-> a, blocks |-> b]
Jump(n, d)     == [name |-> n, op |-> "br", args |-> <<>>, blocks |-> <<d>>]
If(n, c, d, e) == [name |-> n, op |-> "br", args |-> <<c>>, blocks |-> <<d, e>>]

Literals == ("0" :> 0) @@ ("1" :> 1) @@ ("2" :> 2)

\* An expression over two arguments, one of them used twice.
Straight ==
  [args |-> <<"x", "y">>, consts |-> Literals,
   body |-> << <<I("a", "add", <<"x", "1">>), I("b", "add", <<"x", "y">>),
                 I("c", "add", <<"a", "b">>), I("r", "ret", <<"c">>)>> >>]

\* A conditional with a phi that merges an argument and a computed value.
Conditional ==
  [args |-> <<"x">>, consts |-> Literals,
   body |-> << <<I("c", "lt", <<"x", "1">>), If("t1", "c", 2, 3)>>,
               <<I("a", "add", <<"x", "2">>), Jump("t2", 3)>>,
               <<Phi("p", <<"x", "a">>, <<1, 2>>), I("r", "ret", <<"p">>)>> >>]

\* A counted loop carrying two values, whose phis read each other.
Loop ==
  [args |-> <<"n">>, consts |-> Literals,
   body |-> << <<I("k", "add", <<"n", "1">>), Jump("t1", 2)>>,
               <<Phi("i", <<"0", "j">>, <<1, 2>>), Phi("s", <<"k", "i">>, <<1, 2>>),
                 I("j", "add", <<"i", "1">>), I("c", "lt", <<"j", "2">>),
                 If("t2", "c", 2, 3)>>,
               <<I("d", "add", <<"s", "k">>), I("r", "ret", <<"d">>)>> >>]

\* A loop that accumulates in memory and returns nothing.
Accumulate ==
  [args |-> <<>>, consts |-> Literals,
   body |-> << <<I("m", "alloca", <<>>), I("z", "store", <<"0", "m">>), Jump("t1", 2)>>,
               <<Phi("i", <<"0", "j">>, <<1, 2>>), I("l", "load", <<"m">>),
                 I("a", "add", <<"l", "i">>), I("w", "store", <<"a", "m">>),
                 I("j", "add", <<"i", "1">>), I("c", "lt", <<"j", "2">>),
                 If("t2", "c", 2, 3)>>,
               <<I("r", "ret", <<>>)>> >>]

\* Two returns, one of them of an argument, and a call.
TwoReturns ==
  [args |-> <<"x">>, consts |-> Literals,
   body |-> << <<I("c", "lt", <<"0", "x">>), If("t1", "c", 3, 2)>>,
               <<I("r1", "ret", <<"x">>)>>,
               <<I("a", "add", <<"x", "x">>), I("o", "call", <<"a">>),
                 I("r2", "ret", <<"a">>)>> >>]

\* A branch on an argument.
ArgumentBranch ==
  [args |-> <<"x">>, consts |-> Literals,
   body |-> << <<I("a", "add", <<"x", "1">>), If("t1", "x", 2, 3)>>,
               <<I("r1", "ret", <<"a">>)>>, <<I("r2", "ret", <<"x">>)>> >>]

\* Two calls with visible effects.
TwoCalls ==
  [args |-> <<>>, consts |-> Literals,
   body |-> << <<I("o1", "call", <<"1">>), I("o2", "call", <<"2">>),
                 I("r", "ret", <<>>)>> >>]

\* A return of a literal on one of two paths.
LiteralReturn ==
  [args |-> <<"x">>, consts |-> Literals,
   body |-> << <<I("c", "lt", <<"x", "1">>), If("t1", "c", 2, 3)>>,
               <<I("r1", "ret", <<"0">>)>>, <<I("r2", "ret", <<"x">>)>> >>]

\* A call of a function that is neither partitioned nor external.
UnavailableCall ==
  [args |-> <<"x">>, consts |-> Literals,
   body |-> << <<I("a", "add", <<"x", "1">>), I("o", "call_unavailable", <<"a">>),
                 I("r", "ret", <<"a">>)>> >>]
===============================================================================
