---------------------------- MODULE SortBlocksSpec ----------------------------
(***************************************************************************)
(* What the code generator relies on when it visits the blocks in the      *)
(* order of SortBlocks: a value is defined before it is used.  LLVM's SSA  *)
(* form lets an instruction use the values of the blocks that dominate its *)
(* own; replace_operand leaves an operand that has no copy yet alone, so   *)
(* an order that puts a block before one of its dominators would silently  *)
(* emit a reference to the function being compiled.                        *)
(***************************************************************************)
EXTENDS SortBlocks, FiniteSets

CONSTANTS NumBlocks,     \* bound on the blocks of a graph
          Terminators(_) \* the successor lists of a block, given the blocks

ASSUME TerminatorsAssumption ==
  /\ NumBlocks \in Nat
  /\ \A n \in 1 .. NumBlocks : \A t \in Terminators(2 .. n) : t \in Seq(2 .. n)

VARIABLES cfg,     \* the control flow graph
          sorted,  \* the result
          outcome  \* "start", "sorted" or "failed"

sortVars == <<cfg, sorted, outcome>>

\* No branch goes back to the entry block.
SortInit == /\ \E n \in 1 .. NumBlocks : cfg \in [1 .. n -> Terminators(2 .. n)]
            /\ sorted = <<>>
            /\ outcome = "start"

\* sort_blocks, or its assertion.
Sort == /\ outcome = "start"
        /\ sorted' = Dfs(cfg)
        /\ outcome' = IF AllSorted(cfg) THEN "sorted" ELSE "failed"
        /\ UNCHANGED cfg

SortSpec == SortInit /\ [][Sort]_sortVars

------------------------------------------------------------------------------
\* Every block comes after all blocks that dominate it.
DominatorsFirst ==
  outcome = "sorted" =>
    \A m, n \in DOMAIN sorted : Dominates(cfg, sorted[m], sorted[n]) => m <= n

\* The order contains every block once, unless a block is unreachable: then
\* the assertion stops the compiler before it drops the block.
NothingDropped ==
  /\ outcome = "sorted" => ToSet(sorted) = DOMAIN cfg /\ Len(sorted) = Cardinality(DOMAIN cfg)
  /\ outcome = "failed" => Reachable(cfg) # DOMAIN cfg
===============================================================================
