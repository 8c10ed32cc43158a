------------------------------ MODULE Partition ------------------------------
(***************************************************************************)
(* The partitioner (src/partition.ml).  The blocks of the functions are    *)
(* handed to the SMT solver one after the other.  For each instruction the *)
(* solver finds a partition and a start and end time that satisfy the      *)
(* constraints; the operands defined in blocks solved before are looked up *)
(* in the table of placements.  The goal is tightened with each model; if  *)
(* there is none the whole block goes to partition 0.                      *)
(*                                                                         *)
(* The solver is an oracle: it answers with any model of its constraints,  *)
(* and any query may time out.                                             *)
(***************************************************************************)
EXTENDS Integers, Sequences, FiniteSetsExt

CONSTANTS Functions,  \* what may be compiled: the blocks, and the opcode, the
                      \* operands and the type of each instruction
          Configs,    \* the options: rows, cols and debug
          MaxTime     \* longer than every block on one partition

\* A function is a record.  An operand is an instruction or a kind of value.
OtherOperands == {"argument", "constant", "global", "function"}

\* The instructions of a function.
Instructions(f) == DOMAIN f.opcode

ASSUME FunctionsAssumption ==
  \A f \in Functions :
    /\ Instructions(f) \cap OtherOperands = {}
    /\ f.blocks \in Seq(SUBSET Instructions(f))
    /\ \A b, c \in DOMAIN f.blocks : b # c => f.blocks[b] \cap f.blocks[c] = {}
    /\ \A b \in DOMAIN f.blocks : IsFiniteSet(f.blocks[b])
    /\ f.operands \in [Instructions(f) -> SUBSET (Instructions(f) \cup OtherOperands)]
    /\ f.pointers \subseteq Instructions(f)

ASSUME ConfigsAssumption ==
  Configs \subseteq [rows : Nat \ {0}, cols : Nat \ {0}, debug : BOOLEAN]

VARIABLES fn,          \* the function
          config,      \* the options
          block,       \* the block to solve, past the last one at the end
          placements,  \* the table: instruction -> placement
          goal,        \* the latest time asked for
          best,        \* the last model and its latest_time, or None
          phase,       \* "start", "search" or "commit"
          found,       \* history: the blocks placed by a model
          queries,     \* history: the queries for this block
          timedOut,    \* history: a query for this block timed out
          optimum      \* history: the least latest_time the constraints allow

vars == <<fn, config, block, placements, goal, best, phase, found, queries, timedOut,
          optimum>>

None == [latest |-> -1]

Init == /\ fn \in Functions
        /\ config \in Configs
        /\ block = 1
        /\ placements = [i \in {} |-> 0]
        /\ goal = 0
        /\ best = None
        /\ phase = "start"
        /\ found = {}
        /\ queries = 0
        /\ timedOut = FALSE
        /\ optimum = 0

------------------------------------------------------------------------------
(* The costs. *)

opcode_cost(opcode) ==
  CASE opcode \in {"br", "phi", "ret", "bitcast", "trunc", "zext"} -> 0
    [] opcode \in {"fmul", "fsub"} -> 2
    [] opcode \in {"fdiv", "call"} -> 30
    [] OTHER -> 1

Cost(i) == opcode_cost(fn.opcode[i])

\* The time of a block on one partition.
sequential_time(f, b) == MapThenSumSet(LAMBDA i : opcode_cost(f.opcode[i]), f.blocks[b])

ASSUME MaxTimeAssumption ==
  /\ MaxTime \in Nat
  /\ \A f \in Functions : \A b \in DOMAIN f.blocks : sequential_time(f, b) \in 0 .. MaxTime

Abs(n) == IF n < 0 THEN -n ELSE n

\* The column and the row of p in a grid with n to a row.
Coordinates(p, n) == <<p % n, p \div n>>

Distance(p, q, n) == Abs(Coordinates(p, n)[1] - Coordinates(q, n)[1])
                     + Abs(Coordinates(p, n)[2] - Coordinates(q, n)[2])

\* The lookup table, or with -d the distance computed by the solver.
time_for_comms(p, q) == IF config.debug THEN Distance(p, q, config.cols)
                        ELSE 1 + Distance(p, q, config.rows) \div 5

------------------------------------------------------------------------------
(* The constraints on a placement of the instructions of the block. *)

Graph == fn.blocks[block]

Sequential(b) == sequential_time(fn, b)

Partitions == 0 .. (config.rows * config.cols - 1)

Zero == [partition |-> 0, start_time |-> 0, end_time |-> 0]

\* Bug: operands of other blocks are not looked up.
OperandPlacementLocal(a, o) == IF o \in DOMAIN a THEN a[o] ELSE Zero

\* Where an operand is: in this block, in the table, or else the stopgap.
OperandPlacement(a, o) == CASE o \in DOMAIN a          -> a[o]
                            [] o \in DOMAIN placements -> placements[o]
                            [] OTHER                   -> Zero

\* A pointer has to be on the partition that uses it; any other value arrives
\* after the time for its communication.
After(p, q, pointer) ==
  IF pointer THEN p.partition = q.partition /\ p.start_time >= q.end_time
             ELSE p.start_time >= q.end_time + time_for_comms(p.partition, q.partition)

constrain_per_operand(a, i, o) ==
  /\ o = "global" => a[i].partition = 0
  /\ o \notin OtherOperands => After(a[i], OperandPlacement(a, o), o \in fn.pointers)

\* The operands of a phi are left out.
Included(i) == IF fn.opcode[i] = "phi" THEN {} ELSE fn.operands[i]

Memory == {"alloca", "load", "store"}

\* Bug: loads are placed anywhere.
constrain_per_instruction_loads(a, i) ==
  /\ fn.opcode[i] \in Memory \ {"load"} => a[i].partition = 0
  /\ \A o \in Included(i) : constrain_per_operand(a, i, o)

constrain_per_instruction(a, i) ==
  /\ fn.opcode[i] \in Memory => a[i].partition = 0
  /\ \A o \in Included(i) : constrain_per_operand(a, i, o)

Apart(p, q) == p.partition = q.partition =>
                 q.start_time >= p.end_time \/ q.end_time <= p.start_time

\* Bug: instructions may start together.
constrain_overlapping_starts(a) ==
  \A i, j \in DOMAIN a : i # j /\ a[i].start_time # a[j].start_time => Apart(a[i], a[j])

constrain_overlapping_times(a) == \A i, j \in DOMAIN a : i # j => Apart(a[i], a[j])

\* Any partition and start time; an instruction ends its cost later.
Schedules(latest) ==
  { [i \in Graph |-> [partition  |-> s[i][1],
                      start_time |-> s[i][2],
                      end_time   |-> s[i][2] + Cost(i)]] :
      s \in [Graph -> Partitions \X (0 .. latest)] }

\* The placements that satisfy the constraints and end by the goal.
Models(latest) ==
  { a \in Schedules(latest) :
      /\ \A i \in Graph : a[i].end_time <= latest
      /\ constrain_overlapping_times(a)
      /\ \A i \in Graph : constrain_per_instruction(a, i) }

LastEnd(a) == Max({0} \cup {a[i].end_time : i \in DOMAIN a})

Optimum == LET fit == Models(Sequential(block)) IN
           IF fit = {} THEN Sequential(block) + 1 ELSE Min({LastEnd(a) : a \in fit})

------------------------------------------------------------------------------
(* solve_dfg for one block. *)

\* The table with the placements of a block added.
Placing(a) == [i \in DOMAIN placements \cup DOMAIN a |->
                 IF i \in DOMAIN a THEN a[i] ELSE placements[i]]

\* Everything on partition 0, at no time.
no_partitioning == [i \in Graph |-> Zero]

Done == block > Len(fn.blocks)

\* Bug: a block that costs nothing is left out of the table.
SkipUnplaced == /\ phase = "start" /\ ~Done
                /\ Sequential(block) < 1
                /\ block' = block + 1
                /\ UNCHANGED <<fn, config, placements, goal, best, phase, found, queries,
                               timedOut, optimum>>

\* A block that costs nothing is not searched.
Skip == /\ phase = "start" /\ ~Done
        /\ Sequential(block) < 1
        /\ placements' = Placing(no_partitioning)
        /\ block' = block + 1
        /\ UNCHANGED <<fn, config, goal, best, phase, found, queries, timedOut, optimum>>

\* The search begins with the time on one partition as its goal.
Start == /\ phase = "start" /\ ~Done
         /\ Sequential(block) >= 1
         /\ goal' = Sequential(block)
         /\ best' = None
         /\ phase' = "search"
         /\ queries' = 0
         /\ timedOut' = FALSE
         /\ optimum' = Optimum
         /\ UNCHANGED <<fn, config, block, placements, found>>

\* Bug: a time is left out.
SatSkipping == /\ phase = "search"
               /\ \E a \in Models(goal), latest \in 0 .. goal :
                    /\ \A i \in Graph : a[i].end_time <= latest
                    /\ best' = [place |-> a, latest |-> latest]
                    /\ goal' = latest - 2
               /\ queries' = queries + 1
               /\ UNCHANGED <<fn, config, block, placements, phase, found, timedOut, optimum>>

\* Sat: the solver's latest_time is no earlier than any end, and the next goal
\* is below it.
Sat == /\ phase = "search"
       /\ \E a \in Models(goal), latest \in 0 .. goal :
            /\ \A i \in Graph : a[i].end_time <= latest
            /\ best' = [place |-> a, latest |-> latest]
            /\ goal' = latest - 1
       /\ queries' = queries + 1
       /\ UNCHANGED <<fn, config, block, placements, phase, found, timedOut, optimum>>

Unsat == /\ phase = "search"
         /\ Models(goal) = {}
         /\ phase' = "commit"
         /\ queries' = queries + 1
         /\ UNCHANGED <<fn, config, block, placements, goal, best, found, timedOut, optimum>>

Timeout == /\ phase = "search"
           /\ phase' = "commit"
           /\ queries' = queries + 1
           /\ timedOut' = TRUE
           /\ UNCHANGED <<fn, config, block, placements, goal, best, found, optimum>>

\* The best model is entered into the table, or else the fallback.
Commit == /\ phase = "commit"
          /\ placements' = Placing(IF best = None THEN no_partitioning ELSE best.place)
          /\ found' = IF best = None THEN found ELSE found \cup {block}
          /\ block' = block + 1
          /\ phase' = "start"
          /\ UNCHANGED <<fn, config, goal, best, queries, timedOut, optimum>>

Next == Skip \/ Start \/ Sat \/ Unsat \/ Timeout \/ Commit

Safety == Init /\ [][Next]_vars

\* Every query is answered or times out.
Spec == Safety /\ WF_vars(Next)

------------------------------------------------------------------------------
(* Properties. *)

Placements == [partition : Nat, start_time : Nat, end_time : Nat]

OnGrid(p) == p \in Placements /\ p.partition < config.rows * config.cols

TypeOK == /\ fn \in Functions
          /\ config \in Configs
          /\ block \in 1 .. Len(fn.blocks) + 1
          /\ DOMAIN placements = UNION {fn.blocks[b] : b \in 1 .. block - 1}
          /\ \A i \in DOMAIN placements : OnGrid(placements[i])
          /\ goal \in Int
          /\ best # None => /\ best.latest \in Nat
                            /\ phase # "start" => DOMAIN best.place = Graph
                            /\ \A i \in DOMAIN best.place : OnGrid(best.place[i])
          /\ phase \in {"start", "search", "commit"}
          /\ Done => phase = "start"
          /\ found \subseteq 1 .. block - 1
          /\ queries \in Nat
          /\ timedOut \in BOOLEAN
          /\ optimum \in Nat

\* The blocks solved so far.
Solved == 1 .. block - 1

\* Memory is one: what touches it is on partition 0, placed by the solver or not.
MemoryOnZero ==
  \A i \in DOMAIN placements :
    fn.opcode[i] \in Memory \/ "global" \in Included(i) => placements[i].partition = 0

\* A partition executes one instruction of a block at a time.
Exclusive ==
  \A b \in Solved : \A i, j \in fn.blocks[b] : i # j => Apart(placements[i], placements[j])

\* "The starting time must be after the ending time of each incoming node": in
\* a block placed by a model every operand of this block or of an earlier one is
\* on time, with respect to the table as it is after all later blocks.
Respected ==
  \A b \in found : \A i \in fn.blocks[b] : \A o \in Included(i) :
    (\E c \in 1 .. b : o \in fn.blocks[c]) =>
      After(placements[i], placements[o], o \in fn.pointers)

\* "For now, pointers can not be sent across partitions."
PointersLocal ==
  \A i \in DOMAIN placements : \A o \in Included(i) \cap fn.pointers :
    o \in DOMAIN placements => placements[i].partition = placements[o].partition

------------------------------------------------------------------------------
(* Why they hold: the table covers just the blocks solved, which share no     *)
(* instruction with the block searched, and the last model satisfies the      *)
(* constraints that were built from that table.                               *)

Covers == /\ fn \in Functions
          /\ block \in 1 .. Len(fn.blocks) + 1
          /\ DOMAIN placements = UNION {fn.blocks[b] : b \in Solved}
          /\ found \subseteq Solved
          /\ phase # "start" => ~Done

Satisfies(a) == /\ DOMAIN a = Graph
                /\ constrain_overlapping_times(a)
                /\ \A i \in Graph : constrain_per_instruction(a, i)

ModelKept == phase # "start" /\ best # None => Satisfies(best.place)

\* The inductive invariant.
IInv == Covers /\ ModelKept /\ MemoryOnZero /\ Exclusive /\ Respected

------------------------------------------------------------------------------
\* Every block is placed.
AllPlaced == <>(DOMAIN placements = UNION {fn.blocks[b] : b \in DOMAIN fn.blocks})

\* The search in a block is the incremental search of GoalSearch for the least
\* latest_time the constraints allow.
Search == INSTANCE GoalSearch
            WITH strategy <- "incremental",
                 sequential <- Sequential(block), critical <- 1,
                 lower <- 1, upper <- goal, best <- best.latest,
                 phase <- IF phase = "commit" THEN "done" ELSE phase

IsGoalSearch == [][phase = "search" => Search!Next]_vars
==============================================================================
