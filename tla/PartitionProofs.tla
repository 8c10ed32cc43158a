--------------------------- MODULE PartitionProofs ---------------------------
(***************************************************************************)
(* Proofs about Partition, for every function, grid, and behaviour of the  *)
(* solver.                                                                 *)
(***************************************************************************)
EXTENDS Partition, TLAPS, NaturalsInduction, WellFoundedInduction

\* The blocks of a function share no instruction.
LEMMA Blocks ==
  ASSUME NEW f \in Functions
  PROVE  /\ Len(f.blocks) \in Nat
         /\ DOMAIN f.blocks = 1 .. Len(f.blocks)
         /\ \A b, c \in 1 .. Len(f.blocks) : b # c => f.blocks[b] \cap f.blocks[c] = {}
         /\ \A b \in 1 .. Len(f.blocks) : f.blocks[b] \cap OtherOperands = {}
<1>1. /\ f.blocks \in Seq(SUBSET Instructions(f))
      /\ \A b, c \in DOMAIN f.blocks : b # c => f.blocks[b] \cap f.blocks[c] = {}
      /\ Instructions(f) \cap OtherOperands = {}
  BY FunctionsAssumption
<1>2. Len(f.blocks) \in Nat /\ DOMAIN f.blocks = 1 .. Len(f.blocks)
  BY <1>1
<1>3. \A b \in 1 .. Len(f.blocks) : f.blocks[b] \in SUBSET Instructions(f)
  BY <1>1, <1>2
<1> QED BY <1>1, <1>2, <1>3

\* What is known while a block is searched.
LEMMA Searching ==
  ASSUME Covers, ~Done
  PROVE  /\ block \in Nat /\ block \in 1 .. Len(fn.blocks) /\ fn \in Functions
         /\ Graph \cap DOMAIN placements = {}
         /\ Graph \cap OtherOperands = {}
         /\ \A b \in Solved : b \in 1 .. Len(fn.blocks) /\ b # block /\ b < block
         /\ \A b \in Solved : fn.blocks[b] \subseteq DOMAIN placements
<1>1. fn \in Functions /\ block \in 1 .. Len(fn.blocks) + 1 /\ Len(fn.blocks) \in Nat
  BY Blocks DEF Covers
<1>2. block \in Nat /\ block \in 1 .. Len(fn.blocks)
  BY <1>1 DEF Done
<1>3. \A b \in Solved : b \in 1 .. Len(fn.blocks) /\ b # block /\ b < block
  BY <1>1, <1>2 DEF Solved
<1>4. \A b \in Solved : fn.blocks[b] \subseteq DOMAIN placements
  BY DEF Covers
<1>5. Graph \cap DOMAIN placements = {}
  <2> SUFFICES ASSUME NEW i \in Graph, NEW b \in Solved, i \in fn.blocks[b] PROVE FALSE
    BY DEF Covers
  <2> QED BY <1>1, <1>2, <1>3, Blocks DEF Graph
<1>6. Graph \cap OtherOperands = {}
  BY <1>1, <1>2, Blocks DEF Graph
<1> QED BY <1>1, <1>2, <1>3, <1>4, <1>5, <1>6

\* The table after a block is placed.
LEMMA Placed ==
  ASSUME Covers, ~Done, NEW a, DOMAIN a = Graph, placements' = Placing(a)
  PROVE  /\ DOMAIN placements' = DOMAIN placements \cup Graph
         /\ \A i \in Graph : placements'[i] = a[i]
         /\ \A i \in DOMAIN placements : placements'[i] = placements[i]
BY Searching DEF Placing

\* Placing a block keeps the table in step with the blocks solved.
LEMMA CoversNext ==
  ASSUME Covers, ~Done, NEW a, DOMAIN a = Graph, placements' = Placing(a),
         block' = block + 1, fn' = fn, phase' = "start",
         found' = found \/ found' = found \cup {block}
  PROVE  Covers' /\ Solved' = Solved \cup {block}
<1>1. block \in Nat /\ block \in 1 .. Len(fn.blocks) /\ Len(fn.blocks) \in Nat
  BY Searching, Blocks
<1>2. Solved' = Solved \cup {block}
  BY <1>1 DEF Solved
<1>3. DOMAIN placements' = DOMAIN placements \cup fn.blocks[block]
  BY Placed DEF Graph
<1>4. DOMAIN placements' = UNION {fn.blocks[b] : b \in Solved'}
  BY <1>2, <1>3 DEF Covers
<1>5. block' \in 1 .. Len(fn.blocks) + 1
  BY <1>1
<1> QED BY <1>2, <1>4, <1>5 DEF Covers

\* What has been placed stays placed.
LEMMA OldBlocks ==
  ASSUME IInv, ~Done, NEW a, DOMAIN a = Graph, placements' = Placing(a), fn' = fn,
         config' = config
  PROVE  /\ \A b \in Solved : \A i \in fn.blocks[b] : placements'[i] = placements[i]
         /\ \A b \in Solved : \A i, j \in fn.blocks[b] :
              i # j => Apart(placements'[i], placements'[j])
         /\ \A i \in DOMAIN placements :
              fn.opcode[i] \in Memory \/ "global" \in Included(i) => placements'[i].partition = 0
         /\ \A b \in found : \A i \in fn.blocks[b] : \A o \in Included(i) :
              (\E c \in 1 .. b : o \in fn.blocks[c]) =>
                After(placements'[i], placements'[o], o \in fn.pointers)
<1>1. \A b \in Solved : \A i \in fn.blocks[b] :
        i \in DOMAIN placements /\ placements'[i] = placements[i]
  BY Placed, Searching DEF IInv
<1>2. \A b \in Solved : \A i, j \in fn.blocks[b] :
        i # j => Apart(placements'[i], placements'[j])
  BY <1>1 DEF IInv, Exclusive
<1>3. \A i \in DOMAIN placements :
        fn.opcode[i] \in Memory \/ "global" \in Included(i) => placements'[i].partition = 0
  BY Placed DEF IInv, MemoryOnZero
<1>4. ASSUME NEW b \in found, NEW i \in fn.blocks[b], NEW o \in Included(i),
             NEW c \in 1 .. b, o \in fn.blocks[c]
      PROVE  After(placements'[i], placements'[o], o \in fn.pointers)
  <2>1. b \in Solved /\ c \in Solved
    BY Searching DEF IInv, Covers, Solved
  <2>2. placements'[i] = placements[i] /\ placements'[o] = placements[o]
    BY <1>1, <1>4, <2>1
  <2>3. After(placements[i], placements[o], o \in fn.pointers)
    BY <1>4 DEF IInv, Respected
  <2> QED BY <2>2, <2>3
<1> QED BY <1>1, <1>2, <1>3, <1>4

\* The fallback: everything on partition 0, at no time.
LEMMA InvFallback ==
  ASSUME IInv, ~Done, placements' = Placing(no_partitioning), block' = block + 1,
         phase' = "start", UNCHANGED <<fn, config, found>>
  PROVE  IInv'
<1> DEFINE a == no_partitioning
<1>1. DOMAIN a = Graph /\ \A i \in Graph : a[i] = Zero
  BY DEF no_partitioning
<1> HIDE DEF a
<1>2. placements' = Placing(a)
  BY DEF a
<1>3. Covers' /\ Solved' = Solved \cup {block}
  BY <1>1, <1>2, CoversNext DEF IInv
<1>4. /\ DOMAIN placements' = DOMAIN placements \cup Graph
      /\ \A i \in Graph : placements'[i] = Zero
  BY <1>1, <1>2, Placed DEF IInv
<1>5. MemoryOnZero'
  BY <1>1, <1>2, <1>4, OldBlocks DEF MemoryOnZero, Included, Zero
<1>6. Exclusive'
  <2>1. Apart(Zero, Zero)
    BY DEF Apart, Zero
  <2> QED BY <1>1, <1>2, <1>3, <1>4, <2>1, OldBlocks DEF Exclusive, Graph, Apart
<1>7. Respected'
  BY <1>1, <1>2, OldBlocks DEF Respected, Included, After, time_for_comms, Distance, Coordinates
<1>8. ModelKept'
  BY DEF ModelKept
<1> QED BY <1>3, <1>5, <1>6, <1>7, <1>8 DEF IInv

\* A model entered into the table satisfies, with respect to the new table, the
\* constraints that were built from the old one.
LEMMA InvModel ==
  ASSUME IInv, ~Done, NEW a, Satisfies(a), placements' = Placing(a), block' = block + 1,
         phase' = "start", found' = found \cup {block}, UNCHANGED <<fn, config>>
  PROVE  IInv'
<1>1. /\ DOMAIN a = Graph
      /\ \A i, j \in Graph : i # j => Apart(a[i], a[j])
      /\ \A i \in Graph : fn.opcode[i] \in Memory => a[i].partition = 0
      /\ \A i \in Graph : \A o \in Included(i) : constrain_per_operand(a, i, o)
  BY DEF Satisfies, constrain_overlapping_times, constrain_per_instruction
<1>2. Covers' /\ Solved' = Solved \cup {block}
  BY <1>1, CoversNext DEF IInv
<1>3. /\ DOMAIN placements' = DOMAIN placements \cup Graph
      /\ \A i \in Graph : placements'[i] = a[i]
      /\ \A i \in DOMAIN placements : placements'[i] = placements[i]
  BY <1>1, Placed DEF IInv
<1>4. MemoryOnZero'
  <2>1. \A i \in Graph : "global" \in Included(i) => a[i].partition = 0
    BY <1>1 DEF constrain_per_operand
  <2> QED BY <1>1, <1>3, <2>1, OldBlocks DEF MemoryOnZero, Included
<1>5. Exclusive'
  BY <1>1, <1>2, <1>3, OldBlocks DEF Exclusive, Graph, Apart
<1>6. ASSUME NEW i \in Graph, NEW o \in Included(i), NEW c \in 1 .. block, o \in fn.blocks[c]
      PROVE  After(placements'[i], placements'[o], o \in fn.pointers)
  <2>1. o \notin OtherOperands
    <3>1. c \in 1 .. Len(fn.blocks) /\ fn \in Functions
      BY Searching DEF IInv
    <3> QED BY <1>6, <3>1, Blocks
  <2>2. After(a[i], OperandPlacement(a, o), o \in fn.pointers)
    BY <1>1, <1>6, <2>1 DEF constrain_per_operand
  <2>3. OperandPlacement(a, o) = placements'[o]
    <3>1. CASE o \in Graph
      BY <1>1, <1>3, <3>1 DEF OperandPlacement
    <3>2. CASE o \notin Graph
      <4>1. c \in Solved
        BY <1>6, <3>2, Searching DEF Graph, Solved, IInv
      <4>2. o \in DOMAIN placements
        BY <1>6, <4>1, Searching DEF IInv
      <4> QED BY <1>1, <1>3, <3>2, <4>2 DEF OperandPlacement
    <3> QED BY <3>1, <3>2
  <2> QED BY <1>3, <2>2, <2>3
<1>7. Respected'
  BY <1>1, <1>6, OldBlocks
     DEF Respected, Included, After, time_for_comms, Distance, Coordinates, Graph
<1>8. ModelKept'
  BY DEF ModelKept
<1> QED BY <1>2, <1>4, <1>5, <1>7, <1>8 DEF IInv

\* A step that leaves the table alone.
LEMMA InvTableKept ==
  ASSUME IInv, UNCHANGED <<fn, config, block, placements, found>>,
         phase' # "start" => ~Done, ModelKept'
  PROVE  IInv'
<1>1. Covers' /\ Solved' = Solved
  BY DEF IInv, Covers, Solved, Done
<1>2. MemoryOnZero' /\ Exclusive'
  BY <1>1 DEF IInv, MemoryOnZero, Exclusive, Included
<1>3. Respected'
  BY DEF IInv, Respected, Included, After, time_for_comms, Distance, Coordinates
<1> QED BY <1>1, <1>2, <1>3 DEF IInv

\* The constraints depend on the table and the block only.
LEMMA SatisfiesKept ==
  ASSUME NEW a, Satisfies(a), UNCHANGED <<fn, config, block, placements>>
  PROVE  Satisfies(a)'
BY DEF Satisfies, constrain_overlapping_times, constrain_per_instruction,
       constrain_per_operand, OperandPlacement, Included, After, time_for_comms, Distance,
       Coordinates, Graph

\* A model of the solver satisfies the constraints.
LEMMA ModelSatisfies ==
  ASSUME NEW latest, NEW a \in Models(latest)
  PROVE  Satisfies(a)
<1>1. a \in Schedules(latest)
  BY DEF Models
<1>2. DOMAIN a = Graph
  BY <1>1 DEF Schedules
<1> QED BY <1>2 DEF Models, Satisfies

LEMMA InvNext == IInv /\ [Next]_vars => IInv'
<1> SUFFICES ASSUME IInv, [Next]_vars PROVE IInv'
  OBVIOUS
<1>1. CASE Skip
  BY <1>1, InvFallback DEF Skip
<1>2. CASE Start
  <2>1. ModelKept'
    BY <1>2 DEF Start, ModelKept
  <2> QED BY <1>2, <2>1, InvTableKept DEF Start
<1>3. CASE Sat
  <2>1. ~Done /\ UNCHANGED <<fn, config, block, placements, found, phase>>
    BY <1>3 DEF Sat, IInv, Covers
  <2>2. PICK a \in Models(goal), latest \in 0 .. goal : best' = [place |-> a, latest |-> latest]
    BY <1>3 DEF Sat
  <2>3. Satisfies(a)'
    BY <2>1, <2>2, ModelSatisfies, SatisfiesKept
  <2>4. ModelKept'
    <3>1. best'.place = a
      BY <2>2
    <3> QED BY <2>3, <3>1 DEF ModelKept, Satisfies
  <2> QED BY <2>1, <2>4, InvTableKept
<1>4. ASSUME phase = "search", phase' = "commit",
             UNCHANGED <<fn, config, block, placements, best, found>>
      PROVE  IInv'
  <2>1. ~Done
    BY <1>4 DEF IInv, Covers
  <2>2. ModelKept'
    <3>1. best # None => Satisfies(best.place)
      BY <1>4 DEF IInv, ModelKept
    <3>2. best # None => Satisfies(best.place)'
      BY <1>4, <3>1 DEF Satisfies, constrain_overlapping_times, constrain_per_instruction,
         constrain_per_operand, OperandPlacement, Included, After, time_for_comms, Distance,
         Coordinates, Graph
    <3> QED BY <1>4, <3>2 DEF ModelKept
  <2> QED BY <1>4, <2>1, <2>2, InvTableKept
<1>5. CASE Unsat
  BY <1>4, <1>5 DEF Unsat
<1>6. CASE Timeout
  BY <1>4, <1>6 DEF Timeout
<1>7. CASE Commit
  <2>1. /\ ~Done /\ block' = block + 1 /\ phase' = "start" /\ UNCHANGED <<fn, config>>
    BY <1>7 DEF Commit, IInv, Covers
  <2>2. CASE best = None
    BY <1>7, <2>1, <2>2, InvFallback DEF Commit
  <2>3. CASE best # None
    <3>1. Satisfies(best.place) /\ placements' = Placing(best.place)
          /\ found' = found \cup {block}
      BY <1>7, <2>3 DEF Commit, IInv, ModelKept
    <3> QED BY <2>1, <3>1, InvModel
  <2> QED BY <2>2, <2>3
<1>8. CASE UNCHANGED vars
  <2>1. UNCHANGED <<fn, config, block, placements, found, best, phase>>
    BY <1>8 DEF vars
  <2>2. ModelKept'
    <3>1. phase # "start" /\ best # None => Satisfies(best.place)'
      BY <2>1 DEF IInv, ModelKept, Satisfies, constrain_overlapping_times,
         constrain_per_instruction, constrain_per_operand, OperandPlacement, Included, After,
         time_for_comms, Distance, Coordinates, Graph
    <3> QED BY <2>1, <3>1 DEF ModelKept
  <2> QED BY <2>1, <2>2, InvTableKept DEF IInv, Covers
<1> QED BY <1>1, <1>2, <1>3, <1>5, <1>6, <1>7, <1>8 DEF Next

LEMMA InvInit == Init => IInv
<1> SUFFICES ASSUME Init PROVE IInv
  OBVIOUS
<1>1. Solved = {}
  BY DEF Init, Solved
<1>2. DOMAIN placements = {}
  BY DEF Init
<1>3. Covers
  BY <1>1, <1>2, Blocks DEF Init, Covers
<1> QED BY <1>1, <1>2, <1>3 DEF Init, IInv, ModelKept, MemoryOnZero, Exclusive, Respected

------------------------------------------------------------------------------
(* The search in a block. *)

LEMMA LeastOf ==
  ASSUME NEW S \in SUBSET Nat, S # {}
  PROVE  Min(S) \in S /\ \A x \in S : Min(S) <= x
<1>1. PICK k \in S : \A j \in S : ~(<<j, k>> \in OpToRel(<, Nat))
  BY NatLessThanWellFounded, WFMin
<1>2. \A j \in S : k <= j
  <2> TAKE j \in S
  <2>1. j \in Nat /\ k \in Nat
    OBVIOUS
  <2>2. j < k => <<j, k>> \in OpToRel(<, Nat)
    BY <2>1 DEF OpToRel
  <2>3. ~(j < k)
    BY <1>1, <2>2
  <2> QED BY <2>1, <2>3
<1> QED BY <1>2 DEF Min

LEMMA GreatestOf ==
  ASSUME NEW S \in SUBSET Nat, NEW bound \in Nat, \A x \in S : x <= bound
  PROVE  /\ Max({0} \cup S) \in {0} \cup S
         /\ Max({0} \cup S) \in Nat
         /\ Max({0} \cup S) <= bound
         /\ \A x \in S : x <= Max({0} \cup S)
<1> DEFINE All == {0} \cup S
           Above == {n \in Nat : \A x \in All : x <= n}
<1>1. All \in SUBSET Nat /\ \A x \in All : x <= bound
  OBVIOUS
<1>2. Above \in SUBSET Nat /\ Above # {}
  <2>1. bound \in Above
    BY <1>1
  <2> QED BY <2>1
<1>3. Min(Above) \in Above /\ \A n \in Above : Min(Above) <= n
  <2> HIDE DEF Above
  <2> QED BY <1>2, LeastOf
<1> DEFINE top == Min(Above)
<1>4. top \in Nat /\ \A x \in All : x <= top
  BY <1>3
<1>5. top \in All
  <2> SUFFICES ASSUME top \notin All PROVE FALSE
    OBVIOUS
  <2>1. 0 \in All /\ top # 0 /\ top - 1 \in Nat
    BY <1>4
  <2>2. \A x \in All : x <= top - 1
    <3> TAKE x \in All
    <3>1. x \in Nat /\ x <= top /\ x # top
      BY <1>1, <1>4
    <3>2. top \in Nat
      BY <1>4
    <3> HIDE DEF top, All
    <3> QED BY <3>1, <3>2
  <2>3. top - 1 \in Above
    <3> HIDE DEF top
    <3> QED BY <2>1, <2>2
  <2>4. top <= top - 1
    BY <1>3, <2>3
  <2> HIDE DEF top
  <2> QED BY <1>4, <2>4
<1> HIDE DEF top
<1>6. Max(All) \in All /\ \A x \in All : x <= Max(All)
  <2>1. top \in All /\ \A x \in All : top >= x
    BY <1>1, <1>4, <1>5
  <2> HIDE DEF All
  <2>2. Max(All) \in All /\ \A x \in All : Max(All) >= x
    BY <2>1 DEF Max
  <2> QED BY <1>1, <2>2
<1> QED BY <1>1, <1>6

LEMMA Costs == \A i : Cost(i) \in Nat
BY DEF Cost, opcode_cost

\* A block is being solved, and how long it takes on one partition.
InBlock == fn \in Functions /\ block \in 1 .. Len(fn.blocks)

LEMMA BlockTime ==
  ASSUME InBlock
  PROVE  Sequential(block) \in Nat /\ Sequential(block) <= MaxTime /\ MaxTime \in Nat
<1>1. block \in DOMAIN fn.blocks
  BY Blocks DEF InBlock
<1>2. sequential_time(fn, block) \in 0 .. MaxTime /\ MaxTime \in Nat
  BY <1>1, MaxTimeAssumption DEF InBlock
<1> QED BY <1>2 DEF Sequential

\* The times in a model.
LEMMA ModelTimes ==
  ASSUME NEW latest \in Nat, NEW a \in Models(latest)
  PROVE  /\ DOMAIN a = Graph
         /\ \A i \in Graph : /\ a[i].start_time \in Nat /\ a[i].end_time \in Nat
                             /\ a[i].end_time = a[i].start_time + Cost(i)
                             /\ a[i].end_time <= latest
<1>1. PICK s \in [Graph -> Partitions \X (0 .. latest)] :
        a = [i \in Graph |-> [partition |-> s[i][1], start_time |-> s[i][2],
                              end_time |-> s[i][2] + Cost(i)]]
  BY DEF Models, Schedules
<1>2. DOMAIN a = Graph
  BY <1>1
<1>3. ASSUME NEW i \in Graph
      PROVE  a[i].start_time \in Nat /\ a[i].end_time = a[i].start_time + Cost(i)
  <2>1. s[i][2] \in 0 .. latest
    OBVIOUS
  <2> QED BY <1>1, <2>1
<1>4. \A i \in Graph : a[i].end_time <= latest
  BY DEF Models
<1> QED BY <1>2, <1>3, <1>4, Costs

LEMMA LastEndOf ==
  ASSUME NEW latest \in Nat, NEW a \in Models(latest)
  PROVE  /\ LastEnd(a) \in Nat /\ LastEnd(a) <= latest
         /\ \A i \in Graph : a[i].end_time <= LastEnd(a)
<1> DEFINE S == {a[i].end_time : i \in DOMAIN a}
<1>1. S \in SUBSET Nat /\ \A x \in S : x <= latest
  BY ModelTimes
<1>2. /\ LastEnd(a) \in Nat /\ LastEnd(a) <= latest
      /\ \A x \in S : x <= LastEnd(a)
  <2>1. LastEnd(a) = Max({0} \cup S)
    BY DEF LastEnd
  <2> HIDE DEF S
  <2> QED BY <1>1, <2>1, GreatestOf
<1>3. \A i \in Graph : a[i].end_time \in S
  BY ModelTimes
<1> QED BY <1>2, <1>3

\* A model is one for every time that no end exceeds.
LEMMA WithinTime ==
  ASSUME NEW latest \in Nat, NEW a \in Models(latest), NEW other \in Nat,
         \A i \in Graph : a[i].end_time <= other
  PROVE  a \in Models(other)
<1>1. PICK s \in [Graph -> Partitions \X (0 .. latest)] :
        a = [i \in Graph |-> [partition |-> s[i][1], start_time |-> s[i][2],
                              end_time |-> s[i][2] + Cost(i)]]
  BY DEF Models, Schedules
<1>2. \A i \in Graph : a[i].end_time <= other /\ a[i].start_time <= other
  <2> TAKE i \in Graph
  <2>1. /\ a[i].start_time \in Nat /\ a[i].end_time \in Nat /\ Cost(i) \in Nat
        /\ a[i].end_time = a[i].start_time + Cost(i)
        /\ a[i].end_time <= other
    BY ModelTimes, Costs
  <2> QED BY <2>1
<1>3. s \in [Graph -> Partitions \X (0 .. other)]
  <2>1. \A i \in Graph : s[i][1] \in Partitions /\ s[i][2] \in 0 .. latest /\ s[i] = <<s[i][1], s[i][2]>>
    OBVIOUS
  <2>2. \A i \in Graph : s[i][2] = a[i].start_time
    BY <1>1
  <2>3. \A i \in Graph : s[i][2] \in 0 .. other
    BY <1>2, <2>1, <2>2
  <2>4. \A i \in Graph : s[i] \in Partitions \X (0 .. other)
    BY <2>1, <2>3
  <2> QED BY <2>4
<1>4. a \in Schedules(other)
  BY <1>1, <1>3 DEF Schedules
<1> QED BY <1>2, <1>4 DEF Models

LEMMA ModelFor ==
  ASSUME NEW latest \in Nat, NEW a \in Models(latest), NEW other \in Nat, LastEnd(a) <= other
  PROVE  a \in Models(other)
<1>1. \A i \in Graph : a[i].end_time <= other
  <2> TAKE i \in Graph
  <2>1. a[i].end_time \in Nat /\ a[i].end_time <= LastEnd(a) /\ LastEnd(a) \in Nat
    BY ModelTimes, LastEndOf
  <2> QED BY <2>1
<1> QED BY <1>1, WithinTime

\* What optimum says of the models of the block.
OptimumKnown ==
  /\ optimum \in Nat
  /\ \A latest \in 0 .. Sequential(block) : Models(latest) # {} <=> optimum <= latest

LEMMA OptimumIs == InBlock /\ optimum = Optimum => OptimumKnown
<1> SUFFICES ASSUME InBlock, optimum = Optimum PROVE OptimumKnown
  OBVIOUS
<1> DEFINE T == Sequential(block)
           fit == Models(T)
           S == {LastEnd(a) : a \in fit}
<1>1. T \in Nat
  BY BlockTime
<1>2. ASSUME NEW latest \in 0 .. T, NEW a \in Models(latest)
      PROVE  a \in fit
  <2>1. latest \in Nat /\ LastEnd(a) \in Nat /\ LastEnd(a) <= latest /\ latest <= T
    <3>1. latest \in Nat /\ latest <= T
      <4> HIDE DEF T
      <4> QED BY <1>1
    <3> HIDE DEF T
    <3> QED BY <3>1, LastEndOf
  <2>2. LastEnd(a) <= T
    <3> HIDE DEF T
    <3> QED BY <1>1, <2>1
  <2> HIDE DEF T
  <2> QED BY <1>1, <2>1, <2>2, ModelFor
<1>3. CASE fit = {}
  <2>1. optimum = T + 1
    BY <1>3 DEF Optimum
  <2>2. \A latest \in 0 .. T : Models(latest) = {}
    <3> HIDE DEF fit
    <3> QED BY <1>2, <1>3
  <2>3. optimum \in Nat
    <3> HIDE DEF T
    <3> QED BY <1>1, <2>1
  <2>4. \A latest \in 0 .. T : ~(optimum <= latest)
    <3> HIDE DEF T
    <3> QED BY <1>1, <2>1
  <2> QED BY <1>1, <2>2, <2>3, <2>4 DEF OptimumKnown
<1>4. CASE fit # {}
  <2>1. optimum = Min(S)
    BY <1>4 DEF Optimum
  <2>2. S \in SUBSET Nat /\ S # {}
    <3>1. \A a \in fit : LastEnd(a) \in Nat
      <4> HIDE DEF T
      <4> QED BY <1>1, LastEndOf
    <3> HIDE DEF fit
    <3> QED BY <1>4, <3>1
  <2>3. optimum \in S /\ \A x \in S : optimum <= x
    <3> HIDE DEF S
    <3> QED BY <2>1, <2>2, LeastOf
  <2>4. PICK b \in fit : optimum = LastEnd(b)
    BY <2>3
  <2>5. optimum \in Nat
    <3> HIDE DEF T
    <3> QED BY <1>1, <2>4, LastEndOf
  <2>6. ASSUME NEW latest \in 0 .. T, optimum <= latest PROVE Models(latest) # {}
    <3>1. latest \in Nat
      <4> HIDE DEF T
      <4> QED BY <1>1
    <3>2. b \in Models(latest)
      <4> HIDE DEF T
      <4> QED BY <1>1, <2>4, <2>6, <3>1, ModelFor
    <3> QED BY <3>2
  <2>7. ASSUME NEW latest \in 0 .. T, NEW a \in Models(latest) PROVE optimum <= latest
    <3>1. LastEnd(a) \in S
      <4>1. a \in fit
        BY <1>2, <2>7
      <4> HIDE DEF fit
      <4> QED BY <4>1
    <3>2. latest \in Nat
      <4> HIDE DEF T
      <4> QED BY <1>1
    <3>3. LastEnd(a) \in Nat /\ LastEnd(a) <= latest
      BY <3>2, LastEndOf
    <3>4. optimum <= LastEnd(a)
      <4> HIDE DEF S
      <4> QED BY <2>3, <3>1
    <3> QED BY <2>5, <3>2, <3>3, <3>4
  <2>8. \A latest \in 0 .. T : Models(latest) # {} <=> optimum <= latest
    <3> HIDE DEF T
    <3> QED BY <2>6, <2>7
  <2> QED BY <1>1, <2>5, <2>8 DEF OptimumKnown
<1> QED BY <1>3, <1>4

\* While the block and the table stay, so does the problem.
LEMMA ProblemKept ==
  ASSUME UNCHANGED <<fn, config, block, placements>>
  PROVE  /\ Sequential(block)' = Sequential(block)
         /\ \A latest : Models(latest)' = Models(latest)
<1>1. Sequential(block)' = Sequential(block) /\ Graph' = Graph
  BY DEF Sequential, Graph
<1>2. \A latest : Schedules(latest)' = Schedules(latest)
  BY <1>1 DEF Schedules, Partitions, Cost
<1>3. \A latest : Models(latest)' = Models(latest)
  BY <1>1, <1>2 DEF Models, constrain_overlapping_times, constrain_per_instruction,
     constrain_per_operand, OperandPlacement, Included, After, Apart, time_for_comms, Distance,
     Coordinates
<1> QED BY <1>1, <1>3

\* In the search the goal is no later than the time on one partition, and optimum
\* tells which goals have a model.
Seeking == /\ InBlock /\ OptimumKnown
           /\ goal \in Int /\ goal <= Sequential(block)

SearchInv == phase = "search" => Seeking

LEMMA SearchInit == Init => SearchInv
BY DEF Init, SearchInv

LEMMA SeekingKept ==
  ASSUME UNCHANGED <<fn, config, block, placements, optimum>>, Seeking,
         goal' \in Int, goal' <= goal
  PROVE  Seeking'
<1>1. InBlock' /\ OptimumKnown'
  BY ProblemKept DEF Seeking, InBlock, OptimumKnown
<1>2. Sequential(block)' = Sequential(block) /\ Sequential(block) \in Nat
  BY ProblemKept, BlockTime DEF Seeking
<1> HIDE DEF InBlock, OptimumKnown
<1> QED BY <1>1, <1>2 DEF Seeking

LEMMA SearchNext == IInv /\ SearchInv /\ [Next]_vars => SearchInv'
<1> SUFFICES ASSUME IInv, SearchInv, [Next]_vars, phase' = "search" PROVE Seeking'
  BY DEF SearchInv
<1>1. CASE Start
  <2>1. ~Done /\ UNCHANGED <<fn, config, block, placements>>
    BY <1>1 DEF Start
  <2>2. InBlock /\ InBlock'
    BY <2>1, Searching DEF IInv, InBlock
  <2>3. optimum' = Optimum' /\ goal' = Sequential(block)'
    <3>1. optimum' = Optimum /\ goal' = Sequential(block)
      BY <1>1 DEF Start
    <3> QED BY <2>1, <3>1, ProblemKept DEF Optimum
  <2>4. OptimumKnown'
    <3>1. (InBlock /\ optimum = Optimum)' => OptimumKnown'
      BY OptimumIs, PTL
    <3> QED BY <2>2, <2>3, <3>1
  <2>5. Sequential(block)' \in Nat
    BY <2>1, <2>2, BlockTime, ProblemKept
  <2> HIDE DEF InBlock, OptimumKnown
  <2> QED BY <2>2, <2>3, <2>4, <2>5 DEF Seeking
<1>2. CASE Sat
  <2>1. Seeking
    BY <1>2 DEF Sat, SearchInv
  <2>2. goal' \in Int /\ goal' <= goal
    BY <1>2, <2>1 DEF Sat, Seeking
  <2> QED BY <1>2, <2>1, <2>2, SeekingKept DEF Sat
<1>3. CASE UNCHANGED vars
  <2>1. UNCHANGED <<fn, config, block, placements, optimum, goal, phase>>
    BY <1>3 DEF vars
  <2>2. Seeking
    BY <2>1 DEF SearchInv
  <2>3. goal' \in Int /\ goal' <= goal
    BY <2>1, <2>2 DEF Seeking
  <2> QED BY <2>1, <2>2, <2>3, SeekingKept
<1>4. CASE Skip \/ Unsat \/ Timeout \/ Commit
  BY <1>4 DEF Skip, Unsat, Timeout, Commit
<1> QED BY <1>1, <1>2, <1>3, <1>4 DEF Next

\* A step in the search is one of GoalSearch.
LEMMA SearchSteps ==
  ASSUME SearchInv, phase = "search", Next
  PROVE  Search!Next
<1>1. Seeking
  BY DEF SearchInv
<1>2. /\ goal \in Int /\ goal <= Sequential(block) /\ Sequential(block) \in Nat
      /\ Sequential(block) <= MaxTime /\ MaxTime \in Nat /\ optimum \in Nat
  BY <1>1, BlockTime DEF Seeking, OptimumKnown
<1>3. \A latest \in 0 .. Sequential(block) : Models(latest) # {} <=> optimum <= latest
  BY <1>1 DEF Seeking, OptimumKnown
<1>4. Search!Answers = {latest \in 0 .. goal : optimum <= latest}
  BY <1>2 DEF Search!Answers, Search!Within, Search!Times, Search!Goal
<1>5. \A lo, up : ~Search!Settled(lo, up)
  BY DEF Search!Settled
<1>6. UNCHANGED <<fn, config, block, placements, optimum>> => UNCHANGED Search!block
  BY ProblemKept DEF Search!block
<1>7. CASE Sat
  <2>1. PICK a \in Models(goal), latest \in 0 .. goal :
          /\ \A i \in Graph : a[i].end_time <= latest
          /\ best' = [place |-> a, latest |-> latest]
          /\ goal' = latest - 1
    BY <1>7 DEF Sat
  <2>2. goal \in Nat /\ latest \in Nat /\ latest \in 0 .. Sequential(block)
    BY <1>2
  <2>3. a \in Models(latest)
    <3>1. \A i \in Graph : a[i].start_time \in Nat /\ a[i].end_time \in Nat
      BY <2>2, ModelTimes
    <3> QED BY <2>1, <2>2, WithinTime
  <2>4. latest \in Search!Answers
    BY <1>3, <1>4, <2>2, <2>3
  <2>5. Search!Tightened(latest) = latest - 1
    BY DEF Search!Tightened
  <2> QED BY <1>5, <1>6, <1>7, <2>1, <2>4, <2>5 DEF Sat, Search!Next, Search!Sat
<1>8. UNCHANGED <<fn, config, block, placements, optimum, goal, best>> /\ phase' = "commit"
      /\ queries' = queries + 1 => Search!GiveUp
  BY <1>5, <1>6 DEF Search!GiveUp
<1>9. CASE Unsat
  <2>1. Models(goal) = {}
    BY <1>9 DEF Unsat
  <2>2. Search!Answers = {}
    <3> SUFFICES ASSUME NEW latest \in 0 .. goal, optimum <= latest PROVE FALSE
      BY <1>4
    <3>1. goal \in 0 .. Sequential(block) /\ optimum <= goal
      BY <1>2
    <3> QED BY <1>3, <2>1, <3>1
  <2> QED BY <1>8, <1>9, <2>2 DEF Unsat, Search!Next, Search!Unsat
<1>10. CASE Timeout
  BY <1>8, <1>10 DEF Timeout, Search!Next, Search!Timeout
<1>11. ~Skip /\ ~Start /\ ~Commit
  BY DEF Skip, Start, Commit
<1> QED BY <1>7, <1>9, <1>10, <1>11 DEF Next

------------------------------------------------------------------------------
\* The table covers the blocks solved, and the last model of the block searched
\* satisfies its constraints.
THEOREM Invariance == Safety => []IInv
BY InvInit, InvNext, PTL DEF Safety

\* Whatever the solver answers, and where it fails, memory and globals are
\* touched on partition 0 only.
THEOREM MemoryPlacement == Safety => []MemoryOnZero
<1>1. IInv => MemoryOnZero
  BY DEF IInv
<1> QED BY <1>1, Invariance, PTL

\* No partition executes two instructions of a block at the same time.
THEOREM Exclusion == Safety => []Exclusive
<1>1. IInv => Exclusive
  BY DEF IInv
<1> QED BY <1>1, Invariance, PTL

\* The constraints between an instruction and its operands, in this block and in
\* earlier ones, hold of the table however many blocks are added to it.
THEOREM Respecting == Safety => []Respected
<1>1. IInv => Respected
  BY DEF IInv
<1> QED BY <1>1, Invariance, PTL

\* The incremental search of a block is the one GoalSearch specifies, with the
\* solver as the oracle that knows the least time of the block.
THEOREM Refinement == Safety => IsGoalSearch
<1>1. SearchInv /\ [Next]_vars => [phase = "search" => Search!Next]_vars
  BY SearchSteps
<1> QED BY <1>1, Invariance, SearchInit, SearchNext, PTL DEF Safety, IsGoalSearch
==============================================================================
