----------------------------- MODULE MCPartition -----------------------------
(***************************************************************************)
(* Functions and grids for Partition.                                      *)
(***************************************************************************)
EXTENDS Partition

\* A load, an operation on it, and one that is independent.
Expression ==
  [blocks |-> <<{"a", "b", "c"}>>,
   opcode |-> [a |-> "load", b |-> "add", c |-> "fmul"],
   operands |-> [a |-> {"argument"}, b |-> {"a", "constant"}, c |-> {"argument"}],
   pointers |-> {}]

\* The second block uses a value of the first.
TwoBlocks ==
  [blocks |-> <<{"a"}, {"d", "e", "f"}>>,
   opcode |-> [a |-> "add", d |-> "add", e |-> "fmul", f |-> "store"],
   operands |-> [a |-> {"argument"}, d |-> {"a"}, e |-> {"argument"}, f |-> {"argument", "global"}],
   pointers |-> {}]

\* A pointer computed in one block and used in the next.
Pointers ==
  [blocks |-> <<{"g"}, {"l", "x"}>>,
   opcode |-> [g |-> "getelementptr", l |-> "load", x |-> "fmul"],
   operands |-> [g |-> {"argument"}, l |-> {"g"}, x |-> {"argument"}],
   pointers |-> {"g"}]

\* A loop whose body is laid out before the block that defines what it uses; the
\* header is a phi and a cast.
Loop ==
  [blocks |-> <<{"u", "v"}, {"p", "z"}, {"d"}>>,
   opcode |-> [u |-> "add", v |-> "fmul", p |-> "phi", z |-> "zext", d |-> "add"],
   operands |-> [u |-> {"d"}, v |-> {"argument"}, p |-> {"u", "constant"}, z |-> {"p"}, d |-> {"z"}],
   pointers |-> {}]

\* Two operations on a chain, where a partition at a distance costs more.
Chain ==
  [blocks |-> <<{"m", "n"}>>,
   opcode |-> [m |-> "add", n |-> "fsub"],
   operands |-> [m |-> {"argument"}, n |-> {"m"}],
   pointers |-> {}]

MCFunctions == {Expression, TwoBlocks, Pointers, Loop, Chain}

MCConfigs == {[rows |-> 1, cols |-> 2, debug |-> d] : d \in BOOLEAN}

PointerFunctions == {Pointers}

DefaultConfigs == {[rows |-> 2, cols |-> 2, debug |-> FALSE]}
==============================================================================
