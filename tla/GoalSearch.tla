------------------------------ MODULE GoalSearch ------------------------------
(***************************************************************************)
(* The search for a short schedule of one basic block.  The compiler asks  *)
(* the SMT solver for a placement that ends within a goal and tightens the *)
(* goal with each answer.  There are three such loops:                     *)
(*   incremental  incrememntal_solve_loop in src/partition.ml              *)
(*   linear       linearSearch in LLVMSupport/SMTConstraintGenerator.cpp   *)
(*   binary       binarySearch in the same file                            *)
(* The solver is a black box: a placement ends at optimum at the earliest, *)
(* latest_time is only bounded from below by the ends of the instructions, *)
(* so every later time has a model too, and any query may time out.        *)
(***************************************************************************)
EXTENDS Integers

CONSTANT MaxTime    \* bound on the times considered

ASSUME MaxTimeAssumption == MaxTime \in Nat

VARIABLES strategy,   \* the loop that runs
          sequential, \* the time of the block on one partition
          critical,   \* its longest dependency path
          optimum,    \* the least latest_time the constraints allow
          lower,      \* lowerBound
          upper,      \* upperBound, goal
          best,       \* latest_time of the best model, or None
          queries,    \* the queries made
          timedOut,   \* some query has timed out
          phase       \* "start", "search" or "done"

block == <<strategy, sequential, critical, optimum>>
vars  == <<block, lower, upper, best, queries, timedOut, phase>>

None  == -1
Times == 0 .. MaxTime

TypeOK == /\ strategy \in {"incremental", "linear", "binary"}
          /\ sequential \in Times
          /\ critical \in Times
          /\ optimum \in Times
          /\ lower \in Times
          /\ upper \in Times
          /\ best \in Times \cup {None}
          /\ queries \in Nat
          /\ timedOut \in BOOLEAN
          /\ phase \in {"start", "search", "done"}

\* No schedule is shorter than the longest path; communication costs may make
\* every schedule longer than sequential.
Init == /\ strategy \in {"incremental", "linear", "binary"}
        /\ sequential \in Times
        /\ critical \in IF sequential = 0 THEN {0} ELSE 1 .. sequential
        /\ optimum \in critical .. MaxTime
        /\ lower = critical
        /\ upper = sequential
        /\ best = None
        /\ queries = 0
        /\ timedOut = FALSE
        /\ phase = "start"

------------------------------------------------------------------------------
\* solve_dfg and incrementalPartitioning do not search a block whose bounds
\* leave no room.
Hopeless == IF strategy = "incremental" THEN upper < 1 ELSE upper <= lower

Start == /\ phase = "start"
         /\ phase' = IF Hopeless THEN "done" ELSE "search"
         /\ UNCHANGED <<block, lower, upper, best, queries, timedOut>>

\* solve_for_goal asserts latest_time <= goal; attemptPartitioningForGoal
\* asserts latestTime < goal.
Goal == IF strategy = "binary" THEN lower + (upper - lower) \div 2 ELSE upper

Within(time) == IF strategy = "incremental" THEN time <= Goal ELSE time < Goal

Answers == {time \in Times : optimum <= time /\ Within(time)}

\* Mutant: the binary search stops a step too soon.
SettledEarly(lo, up) == strategy = "binary" /\ up - lo < 3

Settled(lo, up) == strategy = "binary" /\ up - lo < 2

\* Mutant: the goal skips a time.
TightenedTwice(time) == time - 2

\* Mutant: the goal is not tightened.
TightenedNot(time) == upper

\* The new bound after a model that ends at time.
Tightened(time) == IF strategy = "incremental" THEN time - 1 ELSE time

\* Sat: the model becomes the best one.
Sat == /\ phase = "search"
       /\ \E time \in Answers :
            /\ best' = time
            /\ upper' = Tightened(time)
            /\ phase' = IF Settled(lower, Tightened(time)) THEN "done" ELSE "search"
       /\ queries' = queries + 1
       /\ UNCHANGED <<block, lower, timedOut>>

\* Mutant: the binary search keeps its lower bound and asks again.
GiveUpStuck == /\ phase' = IF strategy = "binary" THEN "search" ELSE "done"
               /\ queries' = IF strategy = "binary" THEN queries ELSE queries + 1
               /\ UNCHANGED <<block, lower, upper, best>>

\* No model: the binary search goes on above the goal, the others end.
GiveUp == /\ lower' = IF strategy = "binary" THEN Goal ELSE lower
          /\ phase' = IF strategy = "binary" /\ ~Settled(Goal, upper)
                      THEN "search" ELSE "done"
          /\ queries' = queries + 1
          /\ UNCHANGED <<block, upper, best>>

Unsat == /\ phase = "search"
         /\ Answers = {}
         /\ GiveUp
         /\ UNCHANGED timedOut

Timeout == /\ phase = "search"
           /\ GiveUp
           /\ timedOut' = TRUE

Next == Start \/ Sat \/ Unsat \/ Timeout

Safety == Init /\ [][Next]_vars

\* Every query is answered or times out.
Spec == Safety /\ WF_vars(Next)

------------------------------------------------------------------------------
(* Properties. *)

\* Whatever times out, a model that is kept fits the constraints and beats the
\* time of the block on one partition (incremental: is as good).
NeverWorse == best # None => /\ optimum <= best
                             /\ best <= sequential
                             /\ strategy # "incremental" => best < sequential

\* Linear and incremental search end with an optimal model if no query timed
\* out, and end without a model only if there is none that would be kept.
Exact == (phase = "done" /\ ~timedOut /\ strategy # "binary") =>
           IF best = None
           THEN optimum >= sequential /\ (strategy = "incremental" /\ sequential > 0
                                            => optimum > sequential)
           ELSE best = optimum

\* Binary search misses the optimum by at most one.
NearlyExact == (phase = "done" /\ ~timedOut /\ strategy = "binary") =>
                 (IF best = None THEN sequential ELSE best) <= optimum + 1
                 \/ optimum >= sequential

\* Every model that replaces another one is strictly better.
Improves == [][best # None => best' = best \/ best' < best]_vars

\* 2 ^ h.
Power[h \in Times] == IF h = 0 THEN 1 ELSE 2 * Power[h - 1]

\* No search asks more than once for each time between its bounds and once or
\* twice more, and binary search not more often than it can halve them.
QueryBound ==
  /\ queries <= sequential - critical + 2
  /\ strategy = "binary" =>
       \A h \in Times : sequential - critical <= Power[h] => queries <= h + 1

\* Every search ends, however the solver answers.
Ends == <>(phase = "done")
===============================================================================
