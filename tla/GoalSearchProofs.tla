--------------------------- MODULE GoalSearchProofs ---------------------------
(***************************************************************************)
(* What the three searches of GoalSearch find, for every bound on the      *)
(* times, every block and every behaviour of the solver.                   *)
(***************************************************************************)
EXTENDS GoalSearch, WellFoundedInduction, TLAPS

\* Induction over the times, stated of sets.
LEMMA UpToMaxTime ==
  ASSUME NEW S, 0 \in S, \A n \in Times : n + 1 \in Times /\ n \in S => n + 1 \in S
  PROVE  \A n \in Times : n \in S
<1> USE MaxTimeAssumption DEF Times
<1> DEFINE Bad == {n \in Times : n \notin S}
<1> SUFFICES ASSUME Bad # {} PROVE FALSE
  OBVIOUS
<1>1. IsWellFoundedOn(OpToRel(<, Nat), Nat)
  BY NatLessThanWellFounded
<1>2. Bad \subseteq Nat
  OBVIOUS
<1>3. PICK k \in Bad : \A j \in Bad : ~(<<j, k>> \in OpToRel(<, Nat))
  <2> HIDE DEF Bad
  <2> QED BY <1>1, <1>2, WFMin
<1>4. k \in Nat /\ k # 0 /\ k - 1 \in Times /\ k = (k - 1) + 1
  OBVIOUS
<1>5. k - 1 \in S => FALSE
  BY <1>4
<1>6. <<k - 1, k>> \in OpToRel(<, Nat)
  BY <1>4 DEF OpToRel
<1> QED BY <1>3, <1>4, <1>5, <1>6

\* The recursive definition of Power defines a function.
LEMMA Powers ==
  /\ Power[0] = 1
  /\ \A h \in Times : h # 0 => Power[h] = 2 * Power[h - 1]
  /\ \A h \in Times : Power[h] \in Nat
<1> USE MaxTimeAssumption DEF Times
<1> DEFINE run(n, a) == a = [h \in 0 .. n |-> IF h = 0 THEN 1 ELSE 2 * a[h - 1]]
           Runs == {n \in Nat : \E a \in [0 .. n -> Nat] : run(n, a)}
<1>1. 0 \in Runs
  <2> DEFINE a == [h \in 0 .. 0 |-> 1]
  <2>1. a \in [0 .. 0 -> Nat] /\ run(0, a)
    OBVIOUS
  <2> QED BY <2>1
<1>2. ASSUME NEW n \in Times, n + 1 \in Times, n \in Runs PROVE n + 1 \in Runs
  <2>1. PICK a \in [0 .. n -> Nat] : run(n, a)
    BY <1>2
  <2> DEFINE b == [h \in 0 .. n + 1 |-> IF h = n + 1 THEN 2 * a[n] ELSE a[h]]
  <2>2. n \in Nat /\ n + 1 \in Nat /\ n \in 0 .. n /\ 2 * a[n] \in Nat
    BY <1>2
  <2>3. b \in [0 .. n + 1 -> Nat]
    BY <2>2
  <2>4. \A h \in 0 .. n : a[h] = IF h = 0 THEN 1 ELSE 2 * a[h - 1]
    BY <2>1
  <2>5. \A h \in 0 .. n : b[h] = a[h]
    BY <2>2
  <2>6. \A h \in 0 .. n + 1 : b[h] = IF h = 0 THEN 1 ELSE 2 * b[h - 1]
    <3> TAKE h \in 0 .. n + 1
    <3>1. CASE h = n + 1
      <4>1. b[h] = 2 * a[n] /\ b[h - 1] = a[n]
        BY <2>2, <2>5, <3>1
      <4> QED BY <2>2, <3>1, <4>1
    <3>2. CASE h = 0
      BY <2>2, <2>4, <2>5, <3>2
    <3>3. CASE h \in 1 .. n
      <4>1. h \in 0 .. n /\ h - 1 \in 0 .. n /\ h # 0
        BY <2>2, <3>3
      <4> QED BY <2>4, <2>5, <4>1
    <3> QED BY <2>2, <3>1, <3>2, <3>3
  <2>7. run(n + 1, b)
    <3>1. b = [h \in 0 .. n + 1 |-> b[h]]
      OBVIOUS
    <3> HIDE DEF b
    <3> QED BY <2>6, <3>1
  <2> QED BY <2>2, <2>3, <2>7
<1>3. MaxTime \in Runs
  <2> HIDE DEF Runs
  <2> QED BY <1>1, <1>2, UpToMaxTime
<1>4. PICK a \in [0 .. MaxTime -> Nat] : run(MaxTime, a)
  BY <1>3
<1>5. run(MaxTime, Power)
  BY <1>4 DEF Power
<1>6. /\ Power[0] = 1
      /\ \A h \in Times : h # 0 => Power[h] = 2 * Power[h - 1]
  <2>1. \A h \in 0 .. MaxTime : Power[h] = IF h = 0 THEN 1 ELSE 2 * Power[h - 1]
    BY <1>5
  <2>2. 0 \in 0 .. MaxTime
    OBVIOUS
  <2> QED BY <2>1, <2>2
<1> DEFINE Typed == {h \in Times : Power[h] \in Nat}
<1>7. 0 \in Typed
  BY <1>6
<1>8. ASSUME NEW n \in Times, n + 1 \in Times, n \in Typed PROVE n + 1 \in Typed
  <2>1. n + 1 # 0 /\ n + 1 - 1 = n
    BY <1>8
  <2>2. Power[n + 1] = 2 * Power[n]
    BY <1>6, <1>8, <2>1
  <2> QED BY <1>8, <2>2
<1>9. \A h \in Times : h \in Typed
  <2> HIDE DEF Typed
  <2> QED BY <1>7, <1>8, UpToMaxTime
<1> QED BY <1>6, <1>9

\* The bounds of the block itself.
BlockInv == /\ critical <= sequential
            /\ critical <= optimum
            /\ sequential > 0 => critical > 0

\* How the upper bound follows from the best model.
UpperInv == /\ best = None => upper = sequential
            /\ best # None => /\ upper = Tightened(best)
                              /\ optimum <= best
                              /\ best <= sequential
                              /\ strategy # "incremental" => best < sequential

\* The binary search raises its lower bound to a goal without a model.
LowerInv == /\ strategy # "binary" => lower = critical
            /\ lower <= sequential
            /\ strategy = "binary" /\ ~timedOut => lower <= optimum

\* What is left to search.
PhaseInv == /\ phase = "start" => best = None /\ lower = critical
            /\ phase = "search" => /\ sequential > 0
                                   /\ strategy = "linear" => critical < sequential
                                   /\ strategy = "binary" => lower < upper

IInv == TypeOK /\ BlockInv /\ UpperInv /\ LowerInv /\ PhaseInv /\ Exact /\ NearlyExact

\* What is left to search shrinks by a time with every query, in the binary
\* search by half.
Halved(h) == queries <= h /\ upper - lower <= Power[h - queries]

CountInv ==
  /\ phase = "start" => queries = 0
  /\ phase = "search" =>
       IF strategy = "binary"
       THEN /\ queries + (upper - lower) <= sequential - critical
            /\ \A h \in Times : sequential - critical <= Power[h] => Halved(h)
       ELSE queries + upper <= sequential
  /\ phase = "done" => QueryBound

LEMMA InitInv == Init => IInv
<1> SUFFICES ASSUME Init PROVE IInv
  OBVIOUS
<1> USE MaxTimeAssumption DEF Init, Times, None
<1>1. TypeOK
  <2>1. sequential \in 0 .. MaxTime
    OBVIOUS
  <2>2. critical \in 0 .. sequential
    BY <2>1
  <2>3. critical \in 0 .. MaxTime /\ optimum \in 0 .. MaxTime
    BY <2>1, <2>2
  <2>4. timedOut \in BOOLEAN
    OBVIOUS
  <2> QED BY <2>1, <2>3, <2>4 DEF TypeOK
<1>2. BlockInv /\ UpperInv /\ LowerInv /\ PhaseInv
  BY DEF BlockInv, UpperInv, LowerInv, PhaseInv
<1>3. Exact /\ NearlyExact
  BY DEF Exact, NearlyExact
<1> QED BY <1>1, <1>2, <1>3 DEF IInv

\* The goal of a query lies within its bounds.
LEMMA GoalBounds == ASSUME IInv, phase = "search"
                    PROVE  /\ Goal \in Int
                           /\ strategy = "binary" => /\ lower <= Goal
                                                     /\ Goal < upper
                           /\ strategy # "binary" => Goal = upper
<1>1. lower \in Int /\ upper \in Int
  BY MaxTimeAssumption DEF IInv, TypeOK, Times
<1>2. CASE strategy = "binary"
  <2>1. lower < upper
    BY <1>2 DEF IInv, PhaseInv
  <2>2. (upper - lower) \div 2 \in Int
        /\ 0 <= (upper - lower) \div 2 /\ (upper - lower) \div 2 < upper - lower
    BY <1>1, <2>1
  <2> QED BY <1>1, <1>2, <2>2 DEF Goal
<1>3. CASE strategy # "binary"
  BY <1>1, <1>3 DEF Goal
<1> QED BY <1>2, <1>3

LEMMA StartInv == IInv /\ Start => IInv'
<1> SUFFICES ASSUME IInv, Start PROVE IInv'
  OBVIOUS
<1> USE DEF IInv, Start, block, None, Times
<1>1. TypeOK'
  BY DEF TypeOK
<1>2. BlockInv' /\ UpperInv' /\ LowerInv'
  BY DEF BlockInv, UpperInv, LowerInv, Tightened
<1>3. PhaseInv'
  BY DEF PhaseInv, Hopeless, UpperInv, TypeOK
<1>4. Exact' /\ NearlyExact'
  BY DEF Exact, NearlyExact, PhaseInv, BlockInv, UpperInv, TypeOK, Hopeless
<1> QED BY <1>1, <1>2, <1>3, <1>4

\* A model ends below the goal, and not before the optimum.
LEMMA SatInv == IInv /\ Sat => IInv'
<1> SUFFICES ASSUME IInv, Sat PROVE IInv'
  OBVIOUS
<1> PICK time \in Answers : /\ best' = time
                            /\ upper' = Tightened(time)
                            /\ phase' = IF Settled(lower, Tightened(time)) THEN "done" ELSE "search"
  BY DEF Sat
<1>0. phase = "search" /\ queries' = queries + 1 /\ UNCHANGED <<block, lower, timedOut>>
  BY DEF Sat
<1>1. /\ time \in Times /\ optimum <= time /\ Within(time)
      /\ Goal \in Int
      /\ strategy = "binary" => lower <= Goal /\ Goal < upper
      /\ strategy # "binary" => Goal = upper
  BY <1>0, GoalBounds DEF Answers
<1> USE MaxTimeAssumption DEF block, None, Times
<1>2. TypeOK'
  BY <1>0, <1>1 DEF IInv, TypeOK, BlockInv, PhaseInv, Tightened, Settled
<1>3. BlockInv' /\ LowerInv'
  BY <1>0 DEF IInv, BlockInv, LowerInv
<1>4. UpperInv'
  BY <1>0, <1>1 DEF IInv, UpperInv, Tightened, Within, TypeOK
<1>5. PhaseInv'
  BY <1>0, <1>1 DEF IInv, PhaseInv, Settled, Tightened, TypeOK
<1>6. Exact'
  BY <1>0, <1>1 DEF IInv, Exact, Settled
<1>7. NearlyExact'
  BY <1>0, <1>1 DEF IInv, NearlyExact, Settled, Tightened, LowerInv, TypeOK
<1> QED BY <1>2, <1>3, <1>4, <1>5, <1>6, <1>7 DEF IInv

\* Without a model the binary search goes on with the upper half; the goal of
\* an unsatisfiable query is a lower bound of the optimum.
LEMMA GiveUpInv == ASSUME IInv, phase = "search", GiveUp,
                          \/ Answers = {} /\ timedOut' = timedOut
                          \/ timedOut' = TRUE
                   PROVE  IInv'
<1>1. /\ Goal \in Int
      /\ strategy = "binary" => lower <= Goal /\ Goal < upper
      /\ strategy # "binary" => Goal = upper
  BY GoalBounds
<1>2. ~timedOut' => ~timedOut /\ ~(optimum \in Times /\ Within(optimum))
  BY DEF Answers, IInv, TypeOK, Times
<1> USE MaxTimeAssumption DEF block, None, Times, GiveUp
<1>3. TypeOK'
  <2>1. timedOut' \in BOOLEAN
    BY DEF IInv, TypeOK
  <2>2. lower' \in 0 .. MaxTime
    BY <1>1 DEF IInv, TypeOK
  <2> QED BY <2>1, <2>2 DEF IInv, TypeOK
<1>4. BlockInv' /\ UpperInv'
  BY DEF IInv, BlockInv, UpperInv, Tightened
<1>5. LowerInv'
  BY <1>1, <1>2 DEF IInv, LowerInv, UpperInv, Tightened, Within, TypeOK
<1>6. PhaseInv'
  BY <1>1 DEF IInv, PhaseInv, Settled, TypeOK
<1>7. Exact'
  BY <1>1, <1>2 DEF IInv, Exact, UpperInv, Tightened, Within, TypeOK
<1>8. NearlyExact'
  BY <1>1, <1>2 DEF IInv, NearlyExact, UpperInv, Tightened, Within, Settled, TypeOK
<1> QED BY <1>3, <1>4, <1>5, <1>6, <1>7, <1>8 DEF IInv

LEMMA NextInv == IInv /\ [Next]_vars => IInv'
<1> SUFFICES ASSUME IInv, [Next]_vars PROVE IInv'
  OBVIOUS
<1>1. CASE Start
  BY <1>1, StartInv
<1>2. CASE Sat
  BY <1>2, SatInv
<1>3. CASE Unsat
  BY <1>3, GiveUpInv DEF Unsat
<1>4. CASE Timeout
  BY <1>4, GiveUpInv DEF Timeout
<1>5. CASE UNCHANGED vars
  BY <1>5 DEF vars, block, IInv, TypeOK, BlockInv, UpperInv, LowerInv, PhaseInv, Exact, NearlyExact,
              Tightened
<1> QED BY <1>1, <1>2, <1>3, <1>4, <1>5 DEF Next

\* The inductive invariant holds of every search.
THEOREM Invariance == Safety => []IInv
<1>1. Init => IInv
  BY InitInv
<1>2. IInv /\ [Next]_vars => IInv'
  BY NextInv
<1> QED BY <1>1, <1>2, PTL DEF Safety

\* Whatever times out, a kept model is no longer than the block on one
\* partition.
THEOREM Bounding == Safety => []NeverWorse
<1>1. IInv => NeverWorse
  BY DEF IInv, UpperInv, NeverWorse
<1> QED BY <1>1, Invariance, PTL

\* Linear and incremental search find the optimum unless a query times out.
THEOREM Exactness == Safety => []Exact
<1>1. IInv => Exact
  BY DEF IInv
<1> QED BY <1>1, Invariance, PTL

\* Binary search misses it by at most one.
THEOREM NearExactness == Safety => []NearlyExact
<1>1. IInv => NearlyExact
  BY DEF IInv
<1> QED BY <1>1, Invariance, PTL

\* A model is only replaced by a better one.
THEOREM Improvement == Safety => Improves
<1>1. IInv /\ [Next]_vars => [best # None => best' = best \/ best' < best]_vars
  <2> SUFFICES ASSUME IInv, Next, best # None PROVE best' = best \/ best' < best
    OBVIOUS
  <2>1. CASE Sat
    <3>1. PICK time \in Answers : best' = time
      BY <2>1 DEF Sat
    <3>2. phase = "search" /\ Within(time) /\ time \in Times
      BY <2>1, <3>1 DEF Sat, Answers
    <3>3. Goal \in Int /\ Goal <= upper /\ (strategy = "binary" => Goal < upper)
      BY <3>2, GoalBounds DEF IInv, TypeOK, Times
    <3> QED BY <3>1, <3>2, <3>3 DEF IInv, UpperInv, Within, Tightened, TypeOK, Times, None
  <2>2. CASE ~Sat
    BY <2>2 DEF Next, Start, Unsat, Timeout, GiveUp
  <2> QED BY <2>1, <2>2
<1> QED BY <1>1, Invariance, PTL DEF Safety, Improves

------------------------------------------------------------------------------
(* The number of queries. *)

LEMMA CountStart == IInv /\ CountInv /\ Start => CountInv'
<1> SUFFICES ASSUME IInv, CountInv, Start PROVE CountInv'
  OBVIOUS
<1> USE MaxTimeAssumption DEF Times, block, None
<1>1. /\ queries = 0 /\ queries' = 0 /\ upper = sequential /\ lower = critical
      /\ critical \in Nat /\ sequential \in Nat /\ critical <= sequential
      /\ UNCHANGED <<block, upper, lower>>
  BY DEF Start, IInv, CountInv, PhaseInv, UpperInv, BlockInv, TypeOK
<1>2. \A h \in Times : /\ h \in Nat /\ h - 0 = h
                        /\ sequential - critical <= Power[h] => Halved(h)'
  BY <1>1 DEF Halved
<1>3. QueryBound'
  BY <1>1, <1>2 DEF QueryBound
<1>4. phase' \in {"search", "done"}
  BY DEF Start
<1> QED BY <1>1, <1>2, <1>3, <1>4 DEF CountInv

\* A query that ends the search is the last one counted.
LEMMA LastQuery ==
  ASSUME IInv, CountInv, phase = "search", queries' = queries + 1, UNCHANGED block
  PROVE  QueryBound'
<1> USE MaxTimeAssumption DEF Times, block, None
<1>1. /\ queries \in Nat /\ upper \in Int /\ lower \in Int
      /\ critical \in Nat /\ sequential \in Nat /\ critical <= sequential
  BY DEF IInv, TypeOK, BlockInv
<1>2. CASE strategy = "binary"
  <2>1. /\ queries + (upper - lower) <= sequential - critical
        /\ \A h \in Times : sequential - critical <= Power[h] => queries <= h
        /\ lower < upper
    BY <1>2 DEF CountInv, Halved, IInv, PhaseInv
  <2> QED BY <1>1, <1>2, <2>1 DEF QueryBound
<1>3. CASE strategy # "binary"
  <2>1. queries + upper <= sequential
    BY <1>3 DEF CountInv
  <2>2. upper >= critical - 1
    BY <1>1 DEF IInv, UpperInv, BlockInv, Tightened, TypeOK
  <2> QED BY <1>1, <1>3, <2>1, <2>2 DEF QueryBound
<1> QED BY <1>2, <1>3

\* One that leaves a range of at least two times has halved it.
LEMMA Halving ==
  ASSUME IInv, CountInv, phase = "search", strategy = "binary",
         queries' = queries + 1, UNCHANGED block, phase' = "search",
         upper' \in Int, lower' \in Int, upper' - lower' >= 2,
         upper' - lower' <= (upper - lower) - (upper - lower) \div 2
  PROVE  CountInv'
<1> USE MaxTimeAssumption DEF Times, block, None
<1>1. /\ queries \in Nat /\ upper \in Int /\ lower \in Int /\ lower < upper
      /\ critical \in Nat /\ sequential \in Nat
  BY DEF IInv, TypeOK, PhaseInv
<1> DEFINE w == upper - lower
           u == upper' - lower'
<1>2. w \in Nat /\ u \in Nat /\ u >= 2 /\ u <= w - w \div 2
  <2>1. u >= 2 /\ u <= w - w \div 2
    OBVIOUS
  <2>2. w \in Nat
    BY <1>1
  <2>3. u \in Int
    OBVIOUS
  <2> HIDE DEF w, u
  <2> QED BY <2>1, <2>2, <2>3
<1>3. u < w /\ 2 * u <= w + 1
  <2> HIDE DEF w, u
  <2> QED BY <1>2
<1>4. queries + w <= sequential - critical
  BY DEF CountInv
<1>5. queries' + u <= sequential - critical
  <2> HIDE DEF w, u
  <2> QED BY <1>1, <1>2, <1>3, <1>4
<1>6. ASSUME NEW h \in Times, sequential - critical <= Power[h]
      PROVE  Halved(h)'
  <2>1. queries <= h /\ w <= Power[h - queries]
    BY <1>6 DEF CountInv, Halved
  <2>2. h - queries \in Times
    BY <1>1, <2>1
  <2>3. h - queries # 0
    <3>1. Power[0] = 1
      BY Powers
    <3> HIDE DEF w, u
    <3> QED BY <1>2, <1>3, <2>1, <3>1
  <2>4. /\ Power[h - queries] = 2 * Power[h - queries - 1]
        /\ h - queries - 1 \in Times
        /\ Power[h - queries - 1] \in Nat
    <3>1. h - queries - 1 \in Times
      BY <2>2, <2>3
    <3> QED BY <2>2, <2>3, <3>1, Powers
  <2>5. u <= Power[h - queries - 1]
    <3> HIDE DEF w, u
    <3> QED BY <1>2, <1>3, <2>1, <2>4
  <2>6. h - queries' = h - queries - 1 /\ queries' <= h
    BY <1>1, <2>1, <2>2, <2>3
  <2> QED BY <2>5, <2>6 DEF Halved
<1>7. strategy' = "binary" /\ sequential' = sequential /\ critical' = critical
  OBVIOUS
<1> QED BY <1>5, <1>6, <1>7 DEF CountInv

LEMMA CountSat == IInv /\ CountInv /\ Sat => CountInv'
<1> SUFFICES ASSUME IInv, CountInv, Sat PROVE CountInv'
  OBVIOUS
<1> PICK time \in Answers : /\ upper' = Tightened(time)
                            /\ phase' = IF Settled(lower, Tightened(time)) THEN "done" ELSE "search"
  BY DEF Sat
<1>1. /\ phase = "search" /\ queries' = queries + 1
      /\ UNCHANGED block /\ UNCHANGED lower
  BY DEF Sat
<1>2. /\ time \in Times /\ Within(time) /\ Goal \in Int
      /\ strategy # "binary" => Goal = upper
  BY <1>1, GoalBounds DEF Answers
<1>3. time \in Int /\ upper \in Int /\ lower \in Int /\ queries \in Int /\ sequential \in Int
  BY <1>2, MaxTimeAssumption DEF IInv, TypeOK, Times
<1>4. CASE phase' = "done"
  BY <1>1, <1>4, LastQuery DEF CountInv
<1>5. CASE phase' # "done" /\ strategy = "binary"
  <2>1. /\ phase' = "search" /\ ~Settled(lower, Tightened(time)) /\ upper' = time
        /\ time < Goal
    BY <1>2, <1>5 DEF Tightened, Within
  <2>2. upper' - lower' >= 2
    BY <1>1, <1>3, <1>5, <2>1 DEF Settled, Tightened
  <2>3. Goal = lower + (upper - lower) \div 2 /\ lower < upper
    BY <1>1, <1>5 DEF Goal, IInv, PhaseInv
  <2>4. upper' - lower' <= (upper - lower) - (upper - lower) \div 2
    BY <1>1, <1>3, <2>1, <2>3
  <2> QED BY <1>1, <1>3, <1>5, <2>1, <2>2, <2>4, Halving
<1>6. CASE phase' # "done" /\ strategy # "binary"
  <2>1. queries + upper <= sequential
    BY <1>1, <1>6 DEF CountInv
  <2>2. upper' < upper
    BY <1>2, <1>3, <1>6 DEF Tightened, Within
  <2>3. phase' = "search" /\ strategy' # "binary" /\ sequential' = sequential
    BY <1>1, <1>6 DEF block
  <2>4. upper' \in Int
    BY <1>3 DEF Tightened
  <2>5. queries' + upper' <= sequential'
    BY <1>1, <1>3, <2>1, <2>2, <2>3, <2>4
  <2> QED BY <2>3, <2>5 DEF CountInv
<1> QED BY <1>4, <1>5, <1>6

LEMMA CountGiveUp ==
  ASSUME IInv, CountInv, phase = "search", GiveUp
  PROVE  CountInv'
<1>1. queries' = queries + 1 /\ UNCHANGED <<block, upper>>
  BY DEF GiveUp
<1>2. CASE phase' = "done"
  BY <1>1, <1>2, LastQuery DEF CountInv
<1>3. CASE phase' # "done"
  <2>1. strategy = "binary" /\ lower' = Goal /\ phase' = "search" /\ ~Settled(Goal, upper)
    BY <1>3 DEF GiveUp
  <2>2. upper \in Int /\ lower \in Int /\ Goal \in Int
    BY MaxTimeAssumption, GoalBounds DEF IInv, TypeOK, Times
  <2>3. upper' - lower' >= 2
    BY <1>1, <2>1, <2>2 DEF Settled
  <2>4. Goal = lower + (upper - lower) \div 2 /\ lower < upper
    BY <2>1 DEF Goal, IInv, PhaseInv
  <2>5. upper' - lower' <= (upper - lower) - (upper - lower) \div 2
    BY <1>1, <2>1, <2>2, <2>4
  <2> QED BY <1>1, <2>1, <2>2, <2>3, <2>5, Halving
<1> QED BY <1>2, <1>3

\* A search asks at most two queries more than there are times between its
\* bounds, binary search one more than it takes to halve them down to one.
THEOREM Bounded == Safety => []QueryBound
<1>1. Init => CountInv
  BY DEF Init, CountInv
<1>2. IInv /\ CountInv /\ [Next]_vars => CountInv'
  <2> SUFFICES ASSUME IInv, CountInv, [Next]_vars PROVE CountInv'
    OBVIOUS
  <2>1. CASE Start
    BY <2>1, CountStart
  <2>2. CASE Sat
    BY <2>2, CountSat
  <2>3. CASE Unsat \/ Timeout
    BY <2>3, CountGiveUp DEF Unsat, Timeout
  <2>4. CASE UNCHANGED vars
    BY <2>4 DEF vars, block, CountInv, Halved, QueryBound
  <2> QED BY <2>1, <2>2, <2>3, <2>4 DEF Next
<1>3. IInv /\ CountInv => QueryBound
  <2> SUFFICES ASSUME IInv, CountInv PROVE QueryBound
    OBVIOUS
  <2> USE MaxTimeAssumption DEF Times, block, None
  <2>1. /\ queries \in Nat /\ upper \in Int /\ lower \in Int
        /\ critical \in Nat /\ sequential \in Nat /\ critical <= sequential
    BY DEF IInv, TypeOK, BlockInv
  <2>2. CASE phase = "start"
    BY <2>1, <2>2 DEF CountInv, QueryBound
  <2>3. CASE phase = "search" /\ strategy = "binary"
    <3>1. /\ queries + (upper - lower) <= sequential - critical /\ lower < upper
          /\ \A h \in Times : sequential - critical <= Power[h] => queries <= h
      BY <2>3 DEF CountInv, Halved, IInv, PhaseInv
    <3> QED BY <2>1, <3>1 DEF QueryBound
  <2>4. CASE phase = "search" /\ strategy # "binary"
    <3>1. queries + upper <= sequential
      BY <2>4 DEF CountInv
    <3>2. upper >= critical - 1
      BY <2>1 DEF IInv, UpperInv, BlockInv, Tightened, TypeOK
    <3> QED BY <2>1, <2>4, <3>1, <3>2 DEF QueryBound
  <2>5. CASE phase = "done"
    BY <2>5 DEF CountInv
  <2> QED BY <2>2, <2>3, <2>4, <2>5 DEF IInv, TypeOK
<1> QED BY <1>1, <1>2, <1>3, Invariance, PTL DEF Safety
==============================================================================
