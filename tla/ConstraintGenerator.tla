-------------------------- MODULE ConstraintGenerator --------------------------
(***************************************************************************)
(* The C++ partitioner (LLVMSupport/SMTConstraintGenerator.cpp).  The      *)
(* blocks of the functions to partition are handed to the SMT solver one   *)
(* after the other, each with the table of the placements before it.  The  *)
(* search for a short schedule is linear or binary; a block without a      *)
(* model goes to partition 0.  It differs from Partition in what it        *)
(* constrains: memory, pointers, communication and phis.                   *)
(*                                                                         *)
(* The solver is an oracle: it answers with any model of its constraints,  *)
(* and any query may time out.                                             *)
(***************************************************************************)
EXTENDS Integers, SequencesExt

CONSTANTS Files,    \* what a file holds: functions, and of each instruction the
                    \* opcode, the operands and what it aliases
          Remains,  \* what may be read of the placement of an operand after its
                    \* two expressions are destroyed
          MaxTime   \* longer than every block on one partition

VARIABLES md,                 \* the file with the module
          config,             \* rows, columns, strategy, timeout
          block,              \* the block to place, past the last one at the end
          previousPlacements, \* the table: instruction -> placement
          recalled,           \* what the solver is told of the operands of earlier blocks
          lowerBound,
          upperBound,
          bestModel,          \* the last model and its latestTime, or None
          time,               \* where the next instruction without a model starts
          phase,              \* "start", "search" or "commit"
          found,              \* history: the blocks placed by a model
          queries,            \* history: the queries for this block
          timedOut,           \* history: a query for this block timed out
          optimum             \* history: the least latestTime the constraints allow

search == <<lowerBound, upperBound, bestModel, queries, timedOut>>
genVars == <<md, config, block, previousPlacements, recalled, search, time, phase, found,
             optimum>>

None == [latest |-> -1]

NoPlacements == [i \in {} |-> 0]

------------------------------------------------------------------------------
(* What is partitioned. *)

\* A name is the sequence of its parts; main has no prefix either.
includeFunction(f) == f.name # <<"main">> /\ IsPrefix(<<"_p_">>, f.name)

\* The instructions of a block in program order, without branches.
Included(m, b) == SelectSeq(b, LAMBDA i : m.opcode[i] # "br")

\* The blocks of the included functions, each function in reverse post order.
Blocks ==
  [file \in DOMAIN Files |->
     LET functions == SelectSeq(Files[file].functions, includeFunction)
     IN  FlattenSeq([f \in DOMAIN functions |->
           [b \in DOMAIN functions[f].blocks |->
              Included(Files[file], functions[f].blocks[b])]])]

ASSUME FilesAssumption ==
  \A file \in DOMAIN Files :
    /\ Files[file].functions \in Seq(ToSet(Files[file].functions))
    /\ Blocks[file] \in Seq(Seq(DOMAIN Files[file].opcode))
    /\ \A b, c \in DOMAIN Blocks[file] :
         b # c => ToSet(Blocks[file][b]) \cap ToSet(Blocks[file][c]) = {}

ASSUME RemainsAssumption == Remains \subseteq [partition : Int, endTime : Int]

opcode       == Files[md].opcode
operands     == Files[md].operands
pointers     == Files[md].pointers
instructions == Blocks[md][block]
Placing      == ToSet(instructions)

------------------------------------------------------------------------------
(* The costs and the bounds of the search. *)

costForOpcode(op) ==
  CASE op \in {"ret", "br", "phi", "bitcast", "trunc", "zext"} -> 0
    [] op \in {"fmul", "fsub"} -> 2
    [] op \in {"fdiv", "call"} -> 30
    [] OTHER -> 1

costForInstruction(i) == costForOpcode(opcode[i])

\* The time block b of a file takes on one partition.
timeOf(file, b) ==
  LET sum[n \in 0 .. Len(b)] ==
        IF n = 0 THEN 0 ELSE sum[n - 1] + costForOpcode(Files[file].opcode[b[n]])
  IN  sum[Len(b)]

ASSUME MaxTimeAssumption ==
  /\ MaxTime \in Nat
  /\ \A file \in DOMAIN Files : \A b \in DOMAIN Blocks[file] :
       timeOf(file, Blocks[file][b]) <= MaxTime

sumTotalTime == timeOf(md, instructions)

\* Bug: every operand is taken to be sent.
startCostSent(pathCost, i) == Max({0} \cup {1 + pathCost[o] : o \in operands[i] \cap Placing})

\* Operands not seen yet, as those of the phi of a loop, do not count: their
\* cost is still 0.
startCost(pathCost, i) == Max({0} \cup {pathCost[o] : o \in operands[i] \cap Placing})

\* The longest path.
criticalPath ==
  LET pathCost[n \in 0 .. Len(instructions)] ==
        IF n = 0 THEN [i \in Placing |-> 0]
        ELSE [pathCost[n - 1] EXCEPT ![instructions[n]] =
                startCost(pathCost[n - 1], instructions[n]) + costForInstruction(instructions[n])]
      costs == pathCost[Len(instructions)]
  IN  Max({0} \cup {costs[i] : i \in Placing})

------------------------------------------------------------------------------
(* The constraints on a placement of the instructions of the block. *)

Partitions == 0 .. (config.rows * config.columns - 1)

\* constructSymbolicPlacements: any partition and start; the end is the cost later.
Schedules(latest) ==
  { [i \in Placing |-> [partition |-> s[i][1],
                        startTime |-> s[i][2],
                        endTime   |-> s[i][2] + costForInstruction(i)]] :
      s \in [Placing -> Partitions \X (0 .. latest)] }

Apart(p, q) == p.partition = q.partition =>
                 p.endTime <= q.startTime \/ p.startTime >= q.endTime

constrainOverlappingTimes(a) == \A i, j \in DOMAIN a : i # j => Apart(a[i], a[j])

\* A call has no location of its own: what MemoryLocation::get makes of it is
\* undefined, and aliases then stands for the answer of the build.
mayReadOrWriteMemory(i) == opcode[i] \in {"load", "store", "call"}

\* Alias analysis: one of the two touches the alias set of the other.
aliases(i, j) == {i, j} \in Files[md].aliases

\* Bug: only instructions of the same kind are looked at.
constrainMemoryKind(a, i) ==
  mayReadOrWriteMemory(i) =>
    \A pi \in DOMAIN previousPlacements :
      mayReadOrWriteMemory(pi) /\ aliases(i, pi) /\ opcode[i] = opcode[pi] =>
        a[i].partition = previousPlacements[pi].partition

\* The other memory instructions of this block are not in the table yet.
constrainMemoryInstruction(a, i) ==
  mayReadOrWriteMemory(i) =>
    \A pi \in DOMAIN previousPlacements :
      mayReadOrWriteMemory(pi) /\ aliases(i, pi) =>
        a[i].partition = previousPlacements[pi].partition

\* costForCommunication returns a term of the solver, which is stored in an int:
\* that it is not null is 1, whatever the two partitions.
comms == 1

\* A pointer stays on its partition, any other value is sent.
constrainCurrent(a, i, o) ==
  IF o \in pointers
  THEN a[i].partition = a[o].partition /\ a[i].startTime >= a[o].endTime
  ELSE a[i].startTime >= a[o].endTime + comms

\* The partition of an operand of an earlier block and its end time, meant to be 0,
\* are expressions that are destroyed before they are read.
constrainPrevious(a, i, o) ==
  LET placement == recalled[<<i, o>>]
  IN  IF o \in pointers
      THEN a[i].partition = placement.partition /\ a[i].startTime >= placement.endTime
      ELSE a[i].startTime >= placement.endTime + comms

\* Bug: the operands of this block are taken from the table, too.
constrainOperandPrevious(a, i, o) ==
  o \in DOMAIN previousPlacements => constrainPrevious(a, i, o)

\* Constants, arguments and operands not placed yet are not constrained.
constrainOperand(a, i, o) ==
  /\ o \in DOMAIN a => constrainCurrent(a, i, o)
  /\ o \in DOMAIN previousPlacements => constrainPrevious(a, i, o)

constrainInstruction(a, i) == /\ constrainMemoryInstruction(a, i)
                              /\ \A o \in operands[i] : constrainOperand(a, i, o)

\* The placements that satisfy the constraints and end by latestTime.
Models(latestTime) ==
  { a \in Schedules(latestTime) :
      /\ \A i \in DOMAIN a : a[i].endTime <= latestTime
      /\ constrainOverlappingTimes(a)
      /\ \A i \in DOMAIN a : constrainInstruction(a, i) }

LastEnd(a) == Max({0} \cup {a[i].endTime : i \in DOMAIN a})

\* As the search begins: the earliest end within the first upper bound.
Optimum == LET fit == Models(upperBound) IN
           IF fit = {} THEN upperBound + 1 ELSE Min({LastEnd(a) : a \in fit})

------------------------------------------------------------------------------
(* partitionInstructionsInBlock. *)

Done == block > Len(Blocks[md])

\* The module and the configuration are given to the constructor.
GenInit == /\ block = 1
           /\ previousPlacements = NoPlacements
           /\ recalled = NoPlacements
           /\ lowerBound = 0
           /\ upperBound = 0
           /\ bestModel = None
           /\ time = 0
           /\ phase = "start"
           /\ found = {}
           /\ queries = 0
           /\ timedOut = FALSE
           /\ optimum = 0

\* The uses in the block of what is placed already.
Recalled == UNION {{i} \X (operands[i] \cap DOMAIN previousPlacements) : i \in Placing}

\* Push the constraints of the block; each use reads what remains.  A block whose
\* bounds leave no room is not searched.
Start == /\ phase = "start" /\ ~Done
         /\ recalled' \in [Recalled -> Remains]
         /\ lowerBound' = criticalPath
         /\ upperBound' = sumTotalTime
         /\ bestModel' = None
         /\ time' = 0
         /\ phase' = IF sumTotalTime <= criticalPath THEN "commit" ELSE "search"
         /\ queries' = 0
         /\ timedOut' = FALSE
         /\ UNCHANGED <<md, config, block, previousPlacements, found>>
         /\ optimum' = Optimum'

\* The goal of linearSearch and of binarySearch; latestTime has to be below it.
Goal == IF config.strategy = "binary"
        THEN lowerBound + (upperBound - lowerBound) \div 2
        ELSE upperBound

Settled(lower, upper) == config.strategy = "binary" /\ upper - lower < 2

\* Bug: the goal is taken for the time of the model.
SatGoal == /\ phase = "search"
           /\ \E latest \in 0 .. Goal - 1 : \E a \in Models(latest) :
                /\ bestModel' = [place |-> a, latest |-> latest]
                /\ upperBound' = Goal - 1
                /\ phase' = IF Settled(lowerBound, Goal - 1) THEN "commit" ELSE "search"
           /\ queries' = queries + 1
           /\ UNCHANGED <<md, config, block, previousPlacements, recalled, lowerBound, time,
                          found, timedOut, optimum>>

\* A model; its latestTime, the new upper bound, is no earlier than any end.
Sat == /\ phase = "search"
       /\ \E latest \in 0 .. Goal - 1 : \E a \in Models(latest) :
            /\ bestModel' = [place |-> a, latest |-> latest]
            /\ upperBound' = latest
            /\ phase' = IF Settled(lowerBound, latest) THEN "commit" ELSE "search"
       /\ queries' = queries + 1
       /\ UNCHANGED <<md, config, block, previousPlacements, recalled, lowerBound, time,
                      found, timedOut, optimum>>

\* Bug: binary search keeps its lower bound and asks again.
GiveUpStuck == /\ phase = "search"
               /\ phase' = IF config.strategy = "binary" THEN "search" ELSE "commit"
               /\ UNCHANGED <<md, config, block, previousPlacements, recalled, lowerBound,
                              upperBound, bestModel, time, found, queries, optimum>>

\* No model: binary search goes on above the goal, linear search ends.
GiveUp == /\ phase = "search"
          /\ lowerBound' = IF config.strategy = "binary" THEN Goal ELSE lowerBound
          /\ phase' = IF config.strategy = "binary" /\ ~Settled(Goal, upperBound)
                      THEN "search" ELSE "commit"
          /\ queries' = queries + 1
          /\ UNCHANGED <<md, config, block, previousPlacements, recalled, upperBound,
                         bestModel, time, found, optimum>>

Unsat == GiveUp /\ Models(Goal - 1) = {} /\ UNCHANGED timedOut

Timeout == GiveUp /\ timedOut' = TRUE

\* The table with the placements a added; an entry is never replaced.
Adding(a) == [i \in DOMAIN previousPlacements \cup DOMAIN a |->
                IF i \in DOMAIN previousPlacements THEN previousPlacements[i] ELSE a[i]]

NextBlock == block' = block + 1 /\ phase' = "start"

\* addConcretePlacements with a model.
CommitModel == /\ phase = "commit" /\ bestModel # None
               /\ previousPlacements' = Adding(bestModel.place)
               /\ found' = found \cup {block}
               /\ NextBlock
               /\ UNCHANGED <<md, config, recalled, search, time, optimum>>

\* Bug: the instructions without a model all start together.
CommitFallbackAtOnce ==
  /\ phase = "commit" /\ bestModel = None
  /\ \E i \in Placing \ DOMAIN previousPlacements :
       previousPlacements' = Adding(i :> [partition |-> 0,
                                          startTime |-> 0,
                                          endTime   |-> costForInstruction(i)])
  /\ UNCHANGED <<md, config, block, recalled, search, time, phase, found, optimum>>

\* addConcretePlacements without a model: partition 0, one after the other in the
\* order of their addresses in memory.
CommitFallback ==
  /\ phase = "commit" /\ bestModel = None
  /\ \E i \in Placing \ DOMAIN previousPlacements :
       /\ previousPlacements' =
            Adding([j \in {i} |-> [partition |-> 0,
                                   startTime |-> time,
                                   endTime   |-> time + costForInstruction(i)]])
       /\ time' = time + costForInstruction(i)
  /\ UNCHANGED <<md, config, block, recalled, search, phase, found, optimum>>

\* All instructions of the block are placed.
EndFallback == /\ phase = "commit" /\ bestModel = None
               /\ Placing \subseteq DOMAIN previousPlacements
               /\ NextBlock
               /\ UNCHANGED <<md, config, previousPlacements, recalled, search, time, found,
                              optimum>>

GenNext == Start \/ Sat \/ Unsat \/ Timeout \/ CommitModel \/ CommitFallback \/ EndFallback

GenSafety == GenInit /\ md \in DOMAIN Files /\ [][GenNext /\ UNCHANGED <<md, config>>]_genVars

------------------------------------------------------------------------------
(* Properties. *)

\* The instructions of the blocks placed so far.
Earlier == 1 .. block - 1

At(b) == ToSet(Blocks[md][b])

\* A partition executes one instruction of a block at a time, also when the
\* solver has no model and the times are made up (SMTConstraintGenerator.cpp:163,
\* 303).
Exclusive ==
  \A b \in Earlier : \A i, j \in At(b) :
    i # j => Apart(previousPlacements[i], previousPlacements[j])

\* In a block placed by a model an instruction starts after its operands of the
\* same block: after the time to send a value, on the same partition as a pointer
\* (SMTConstraintGenerator.cpp:201).
OperandsInTime ==
  \A b \in found : \A i \in At(b) : \A o \in operands[i] \cap At(b) :
    constrainCurrent(previousPlacements, i, o)

\* In a block placed by a model a pointer of an earlier block is used where it is,
\* and any other value of an earlier block is given the time to be sent
\* (SMTConstraintGenerator.cpp:232, 241).
EarlierOperands ==
  \A b \in found, c \in Earlier : \A i \in At(b) : \A o \in operands[i] \cap At(c) :
    c < b =>
      IF o \in pointers
      THEN previousPlacements[i].partition = previousPlacements[o].partition
      ELSE previousPlacements[i].startTime >= comms

\* Memory that an earlier block has touched is touched on the same partition by
\* every block placed by a model (SMTConstraintGenerator.cpp:170).
AliasesTogether ==
  \A b \in found, c \in Earlier : \A i \in At(b), j \in At(c) :
    /\ c < b
    /\ mayReadOrWriteMemory(i) /\ mayReadOrWriteMemory(j) /\ aliases(i, j)
    => previousPlacements[i].partition = previousPlacements[j].partition

\* No model ends before the longest path that the search starts from
\* (SMTConstraintGenerator.cpp:355).
CriticalBound == phase = "search" => criticalPath <= optimum

------------------------------------------------------------------------------
(* Why the first three hold: the table covers the blocks before this one, its *)
(* entries stay, and what enters it satisfies the constraints.                *)

Placed == DOMAIN previousPlacements

\* The fallback has placed a part of the block.
Falling == phase = "commit" /\ bestModel = None

Covers ==
  /\ block \in Nat \ {0}
  /\ phase \in {"start", "search", "commit"}
  /\ phase # "start" \/ block > 1 => md \in DOMAIN Files /\ block <= Len(Blocks[md]) + 1
  /\ phase # "start" => ~Done
  /\ found \subseteq Earlier
  /\ \A b \in Earlier : At(b) \subseteq Placed
  /\ \A i \in Placed : \/ \E b \in Earlier : i \in At(b)
                       \/ Falling /\ i \in Placing

Satisfies(a) == /\ DOMAIN a = Placing
                /\ constrainOverlappingTimes(a)
                /\ \A i \in DOMAIN a : constrainInstruction(a, i)

ModelKept == phase # "start" /\ bestModel # None => Satisfies(bestModel.place)

\* Without a model: all on partition 0, before the next.
FallbackKept ==
  /\ phase # "start" => time \in Nat
  /\ Falling => /\ \A i \in Placing \cap Placed :
                     /\ previousPlacements[i].startTime \in Nat
                     /\ previousPlacements[i].endTime \in Nat
                     /\ previousPlacements[i].endTime <= time
                /\ \A i, j \in Placing \cap Placed :
                     i # j => Apart(previousPlacements[i], previousPlacements[j])

GenInv == /\ Covers /\ ModelKept /\ FallbackKept
          /\ Exclusive /\ OperandsInTime /\ AliasesTogether

------------------------------------------------------------------------------
\* The search in a block is the linear or binary search of GoalSearch for the
\* least latestTime the constraints allow.
Search == INSTANCE GoalSearch
            WITH strategy <- config.strategy, best <- bestModel.latest,
                 sequential <- sumTotalTime, critical <- criticalPath,
                 lower <- lowerBound, upper <- upperBound,
                 phase <- IF phase = "commit" THEN "done" ELSE phase

IsGoalSearch == [][phase = "search" => Search!Next]_genVars
==============================================================================
