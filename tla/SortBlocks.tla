------------------------------ MODULE SortBlocks ------------------------------
(***************************************************************************)
(* The order in which emit_llvm visits the basic blocks of a function:     *)
(* src/sort_basic_blocks.ml.  A control flow graph is a sequence that gives *)
(* each block the sequence of its successors; block 1 is the entry.        *)
(***************************************************************************)
EXTENDS Naturals, Sequences, SequencesExt

\* S holds the entry, unless that is d, and no edge leaves S but to d.
Closed(g, d, S) ==
  /\ 1 \in S \cup {d}
  /\ \A a \in S : \A b \in ToSet(g[a]) : b \in S \cup {d}

\* The blocks that can be reached from the entry without entering block d.
ReachedWithout(g, d) ==
  {b \in DOMAIN g : \A S \in SUBSET DOMAIN g : d \notin S /\ Closed(g, d, S) => b \in S}

Reachable(g)       == ReachedWithout(g, 0)
Dominates(g, d, b) == b \in Reachable(g) /\ b \notin ReachedWithout(g, d)

------------------------------------------------------------------------------
\* List.fold_left step start xs.
Fold(step, start, xs) ==
  LET after[n \in 0 .. Len(xs)] == IF n = 0 THEN start ELSE step[after[n - 1]][xs[n]]
  IN  after[Len(xs)]

\* Mutant: only the first successor is explored.
OutgoingEdgesFirst(cfg, node) == IF cfg[node] = <<>> THEN <<>> ELSE <<Head(cfg[node])>>

\* The successors of a block, without the block itself (List.filter).
OutgoingEdges(cfg, node) ==
  Fold([kept \in Seq(DOMAIN cfg) |-> [n \in DOMAIN cfg |->
          IF n # node THEN Append(kept, n) ELSE kept]], <<>>, cfg[node])

\* Mutant: a block is added after the blocks it leads to.
ExploreAppending(cfg) ==
  LET explore[path \in SUBSET DOMAIN cfg] ==
        [visited \in Seq(DOMAIN cfg) |-> [node \in DOMAIN cfg |->
           IF node \in ToSet(visited) \cup path
           THEN visited
           ELSE Append(Fold(explore[path \cup {node}], visited, OutgoingEdges(cfg, node)), node)]]
  IN  explore

\* explore path visited node: the blocks visited so far, the latest first,
\* after node; path holds the blocks whose exploration is under way.
Explore(cfg) ==
  LET explore[path \in SUBSET DOMAIN cfg] ==
        [visited \in Seq(DOMAIN cfg) |-> [node \in DOMAIN cfg |->
           IF node \in ToSet(visited) \cup path
           THEN visited
           ELSE <<node>> \o Fold(explore[path \cup {node}], visited, OutgoingEdges(cfg, node))]]
  IN  explore

Dfs(cfg) == Explore(cfg)[{}][<<>>][1]

\* sort_blocks asserts this: it fails on a graph with unreachable blocks.
AllSorted(cfg) == Len(Dfs(cfg)) = Len(cfg)
===============================================================================
