----------------------------- MODULE MCRunEmitted -----------------------------
(***************************************************************************)
(* RunEmitted for TLC.  All the small functions are compiled, placed on    *)
(* three partitions in every way.  Those that make at most one external    *)
(* call are called, too: without a loop wherever they are placed, with a   *)
(* loop when they are placed on the first two partitions.  LoopOnly runs   *)
(* in a module in which another function uses a partition more.            *)
(***************************************************************************)
EXTENDS RunEmitted, Programs

Branching    == {Straight, Conditional, TwoReturns}
LoopOnly     == {Loop}
AllFunctions == Branching \cup LoopOnly
                \cup {Accumulate, ArgumentBranch, TwoCalls, LiteralReturn, UnavailableCall}

Callable == \/ fn \in Branching
            \/ fn \in {Loop, Accumulate} /\ AllPartitions \subseteq {0, 1}

\* The steps of Next, with calls of the functions above only.
FewNext == \/ EmitNext /\ UNCHANGED runVars
           \/ Call /\ Callable /\ UNCHANGED emitVars
           \/ Running /\ UNCHANGED emitVars

FewSpec == Init /\ [][FewNext]_allVars /\ WF_runVars(Running /\ UNCHANGED emitVars)
===============================================================================
