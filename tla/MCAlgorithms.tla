----------------------------- MODULE MCAlgorithms -----------------------------
(***************************************************************************)
(* The two sequential algorithms of the compilers for TLC: a behaviour is  *)
(* one of GoalSearch, for every block and every answer of the solver, or   *)
(* one of SortBlocksSpec, for every control flow graph of up to NumBlocks  *)
(* blocks whose terminators are ret, br and conditional br.                *)
(***************************************************************************)
EXTENDS GoalSearch, SortBlocksSpec

UpToTwo(blocks) == {<<>>} \cup {<<b>> : b \in blocks} \cup {<<b, c>> : b, c \in blocks}

NoSort == cfg = <<>> /\ sorted = <<>> /\ outcome = "none"

NoSearch == /\ strategy = "linear" /\ sequential = 0 /\ critical = 0 /\ optimum = 0
            /\ lower = 0 /\ upper = 0 /\ best = None
            /\ queries = 0 /\ timedOut = FALSE /\ phase = "done"

Searching == Next /\ UNCHANGED sortVars
Sorting   == Sort /\ UNCHANGED vars

AlgorithmsSpec == /\ (Init /\ NoSort) \/ (SortInit /\ NoSearch)
                  /\ [][Searching \/ Sorting]_<<vars, sortVars>>
                  /\ WF_vars(Searching)
===============================================================================
