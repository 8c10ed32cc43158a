# A verification project for the Hyacinth compiler

Hyacinth (`README.md`, `src/`, `bin/`) takes a C function as LLVM IR, assigns
every instruction of it to a core of a spatial machine, and emits one function
per core ("partition") with the communication calls that connect them, and a
`replace_` function that runs the whole on the host. Two runtimes implement the
calls: threads on a shared memory (`src/pthreads`) and the bsg_manycore
hardware (`src/bsg_manycore`). This directory holds TLA+ models of the parts of
the compiler and of its runtime whose correctness tests hardly reach, what TLC
finds when it explores them on small instances, and proofs checked by TLAPS of
the facts that hold for every instance.

The question behind all of it: **does the partitioned program compute what the
function computed, on every placement, for every interleaving of the threads,
and does it finish?**

## 1. Inventory

### Components

| component | source | state it keeps | operations |
|---|---|---|---|
| pthreads runtime, one address | `src/pthreads/communication.c` | a struct `{ value, ready_flag }` per address | `send`, `receive`, `free_comms`, `send_argument`, `receive_argument`, `send_return`, `receive_return`, `volatile_copy`, `send_token`, `receive_token` |
| pthreads runtime, threads | same | the thread ids | `call_partitioned_functions`, `_call_function`, `join_partitioned_functions` |
| bsg_manycore runtime | `src/bsg_manycore/*.c` | a struct per address on the owning tile, a local copy of it on the others; `return_struct` and the globals in DRAM | the same calls over remote loads and stores; on the host `init`, `send_argument`, `start_device_execution`, `receive_return`, `retrieve_global`, `end_device_execution`; on the tiles `call_partitioned_functions` |
| block order | `src/sort_basic_blocks.ml` | none (a function) | `dfs`, `sort_blocks` |
| code generator | `src/emit_llvm.ml`, `src/emit_utils.ml`, `src/llvm_shared.ml` | `instruction_map`, `arg_map`, `fun_map`, `block_map`, the counters `comms_id` and `arg_id`, the module under construction | the three walks over a function, `replace_operand`, `repair_phi_node`, `repair_branch`, `receive_arg_from_host`, `replace_fun` |
| placement constraints | `src/partition.ml` | the solver's assertions, the placement found so far | `constrain_*`, `solve_dfg`, `solve_partitioning` |
| goal search | `src/partition.ml`, `src/LLVMSupport/SMTConstraintGenerator.cpp` | the bounds and the best model | `incrememntal_solve_loop`, `linearSearch`, `binarySearch` |
| C++ constraint generator | `src/LLVMSupport/SMTConstraintGenerator.cpp`, `CostModel.cpp`, `CodeSelection.cpp` | the solver's assertions, `symbolicPlacements` of this block, `previousPlacements` of all before | `partitionInstructionsInBlock`, the `constrain*` functions, `linearSearch`, `binarySearch`, `addConcretePlacements` |
| C++ argument cloning | `src/LLVMSupport/CloneAndReplaceArguments.cpp` | the host and device modules, `commsIdx` | `replaceArguments`: clones a function per partition |
| C++ driver | `src/LLVMSupport/IRReader.cpp` | the configuration, the module | `main`: command line, partitioning, cloning, writing |
| option parser | `src/LLVMSupport/cxxopts.hpp` | `argv`, what is kept of it, the values of the options | `ParseResult::parse` |
| intermediate annotations | `src/intermediate_llvm.ml`, `src/llvm_in.ml` | metadata on instructions | write and read a placement |
| OCaml driver | `bin/hyac.ml`, `src/llvm_in.ml` | options | calls the passes in turn |
| module printer | `src/consume_module.cpp` | none | prints a module |
| visualisation | `src/visualize.ml` | none | writes a dot file |

### How they interact

1. The driver reads a module and selects the functions to partition.
2. For every basic block, *placement constraints* are handed to the solver and
   *goal search* tightens the time limit until no better placement is found;
   the result is a partition and start and end times for each instruction.
3. The *code generator* visits the blocks in *block order* three times
   (straight-line instructions, phis, branches). It emits the instruction on
   its partition, and for each operand that lives elsewhere a pair of calls on
   a fresh communication address.
4. At run time the host thread runs the `replace_` function: it creates the
   threads, passes the arguments through addresses of their own, waits for the
   result and joins. The threads share nothing but the addresses and, on
   pthreads, the globals that replace the function's allocas. On bsg_manycore the
   host loads the program, writes the arguments into the tiles' memory, starts all
   tiles and reads the result from DRAM when they have passed a barrier.
5. The C++ compiler is a second driver for steps 1 and 2 with constraints of its
   own; its step 3 is unfinished and clones functions without communication.

### What is hard, and what makes each part correct

- **One address.** Two threads race on plain bytes: a spin on the flag, a byte
  copy, a flag store, no lock and no fence. Correct means: values arrive whole,
  once and in order, nothing is overwritten before it is read, no wakeup lost.
- **One address, remote.** On bsg_manycore the same protocol runs over a network:
  the sender decides on a *copy* of the flag that is as old as its way back, and
  padding bytes of the last value still arrive while the flag is cleared.
- **Threads.** The host and the threads block on each other through spawn, join
  and the addresses; an address is used again in each loop iteration, and
  arguments and the return value are never freed. Correct means: each read
  returns the value it was compiled to return, no circle of waiting, nothing
  left running after the join.
- **Block order.** The code generator never looks back: an operand visited
  before its definition silently stays a reference to the old function. Correct
  means: a block comes after the blocks that dominate it and none is dropped.
- **Code generator.** Send and receive of one value are appended to two
  different threads' code, in three separate walks. Correct means: every
  address has its two ends in copies of the same block, in one order on both
  sides, the operands are on the partition that reads them, each partition takes
  the same branch, and the partitions that communicate are started.
- **Goal search.** Mixed inclusive and exclusive bounds, and a solver that may
  time out at any query. Correct means: never worse than one core, the optimum
  when nothing times out, and an end to the search.
- **Placement constraints.** Blocks are solved one after the other against a
  shared table of end times. Correct means: no two instructions overlap on a
  core, an operand is there when it is used, memory stays on one core.

- **Calls on bsg_manycore.** Neither the return value nor a global has a flag, and
  functions are given to tiles by their rank in a list that knows nothing of the
  partitions' numbers. Correct means: what the host reads belongs to this call, and
  a function on the wrong tile cannot return anything.
- **C++ constraint generator.** It looks operands and aliasing memory up in two
  maps of different age, and its fallback enters times no constraint has seen.
  Correct means the same as for the OCaml one, as far as its weaker constraints go.
- **C++ argument cloning.** It inserts into the list it walks. Correct means: each
  function is cloned once per partition, and the walk ends.
- **Option parser.** It overwrites the `argv` it is reading, and its caller opens
  `argv[1]` afterwards. Correct means: what is kept is just what is no option and
  no value, and numbers that fit an int are read as what they say.

`PROJECT.json` lists the hazards at their lines with the properties that would
notice them.

## 2. The modules

| module | models | checked by | proofs |
|---|---|---|---|
| `CommsSlot` | abstract: a place for one message | refined by `PthreadComms` and `ManycoreComms` | |
| `PthreadComms` | one address, byte access by byte access | `PthreadComms.cfg` | `PthreadCommsProofs` |
| `ManycoreComms` | one address between two tiles, remote access by remote access | through `ManycoreRun` | `ManycoreRunProofs` |
| `ManycoreRun` | calls of a function on bsg_manycore: host, tiles and the address between them | `ManycoreRun.cfg`, `ManycoreGlobals.cfg` | `ManycoreRunProofs` |
| `PartitionedRun` | any schedule of communication calls on slots | `PartitionedRun.cfg`, `CalledTwice.cfg` | `PartitionedRunProofs` |
| `SortBlocks`, `SortBlocksSpec` | the block order and what is relied on | `Algorithms.cfg` | `EmitLLVMProofs` |
| `EmitLLVM` | the code generator for one function | `RunEmitted.cfg` | `EmitLLVMProofs` |
| `RunEmitted` | `EmitLLVM` composed with the threads that execute its output | `RunEmitted.cfg`, `RunUnlaunched.cfg` | `RunEmittedProofs` |
| `Programs` | the functions that are compiled | | |
| `Partition` | the constraints of `partition.ml`, block after block | `Partition.cfg`, `PartitionPointers.cfg` | `PartitionProofs` |
| `GoalSearch` | the three search loops | `Algorithms.cfg` | `GoalSearchProofs` |
| `ConstraintGenerator` | the C++ partitioner, block after block | through `Hyacpp` | `HyacppProofs` |
| `CloneArguments` | the C++ cloning of functions per partition | through `Hyacpp` | `HyacppProofs` |
| `Options` | the command line of the C++ compiler | through `Hyacpp` | `HyacppProofs` |
| `Hyacpp` | the C++ compiler: `Options`, `ConstraintGenerator` and `CloneArguments` in turn | `Hyacpp.cfg`, `HyacppOperands.cfg` | `HyacppProofs` |

They form a chain from the bytes to the program. `PthreadComms` and `ManycoreComms` both
refine `CommsSlot`, so `PartitionedRun` and `RunEmitted` may treat a call on an address
as one step. `ManycoreRun` extends `ManycoreComms` with the host and the tiles around
it. `EmitLLVM` extends `SortBlocks`, whose order it walks. `RunEmitted` extends
`EmitLLVM` and executes what it has emitted. `PartitionedRun` states, as `WellFormed`,
what a schedule has to satisfy for the runtime to work, and its theorems hold for every
such schedule; `Partition` and `ConstraintGenerator` instantiate `GoalSearch` and show
that every search in a block is one of its searches. `Hyacpp` extends the three modules
of the C++ compiler and runs them one after the other. `CommonOrder` and `Paired` of
`EmitLLVM` are the compiler's side of that contract, block by block.

Definitions whose comment starts with "Mutant" or "Bug" occur in no `Next`; they
are plausible mistakes. Each property is known to fail when the corresponding
definition is replaced by its mistaken form, which shows that it depends on it.

### PthreadComms: one address

`mem` is the struct (`Size` data bytes, then the ready flag), `buf` the store
buffer of each of the two threads, `spc`/`si` and `rpc`/`ri` where they are.

| action | code |
|---|---|
| `SendCall`, `SendWait` | entry of `send`, its spin loop (lines 69-78) |
| `SendCopy` | one byte of `volatile_copy` (23-30, called at 81) |
| `SendReady` | `*ready = true` (84-85) |
| `RecvWait` | the spin loop of `_receive` (88-102) |
| `RecvLoad` | the load the compiler emits after `receive` (`emit_llvm.ml` 183-203) |
| `FreeComms` | `free_comms` (108-115) |
| `Flush` | the machine writes a thread's oldest buffered store |

The memory model is that of x86-64, which the Makefile builds for: a store waits
in its thread's FIFO buffer, a load sees its own thread's latest buffered store.
What is *assumed* about the C compiler: it emits the stores in program order.
The byte copies are volatile but the flag store at line 85 is not, so the C
standard would let a compiler move it; clang does not move it across the loop of
volatile stores. A weaker machine (ARM) is not covered, and there the same code
would need a fence.

Properties: `Delivered` (whole, once, in order, sender at most two ahead),
`NoOverwrite` (no byte changes while the flag is up), `ImplementsSlot` (a
refinement: the address is the one-place slot, liveness included, so no wakeup is
lost). `IInv` is the inductive invariant that `Delivered` and
`NoOverwrite` follow from (section 4).

Bounds: values of two bytes over `{0, 1}`, three sends. Two bytes are the least
that can be torn. Three sends are the least that has a value being read, one
waiting in the spin loop, and a previous one whose clearing store is in flight.
The theorems cover every `Size`, `Byte` and `NumSends`. Tokens (`send_token`,
`receive_token`) are not modelled: the compiler emits none, and `receive_token` does not
clear the flag (`communication.c` 134-140).

### ManycoreComms: one address between two tiles

Every tile has its own copy of the struct. `remote` is the receiver's, `local`
the sender's, `net` the packets on their way from sender to receiver, `reply` the
word a load returned.

| action | code (`bsg-device-communication.c`) |
|---|---|
| `SendCall`, `Poll`, `PollAgain` | entry of `send`, the load of the word with the flag, its loop (41-63) |
| `TakeReply` | the loaded word is stored over the word in the sender's own copy |
| `Assemble` | value and flag are written to the own copy (65-71) |
| `Copy` | one byte of the copy to the remote pointer (23-30, called at 76) |
| `DeliverStore`, `DeliverLoad` | the network executes the oldest packet at the receiver |
| `RecvWait`, `RecvLoad`, `FreeComms` | `_receive_shared`, the emitted load, `free_comms` |

Assumed of the hardware: the loads and stores of one tile to another arrive in
the order they were issued, and a tile's accesses to its own memory happen in
program order. Assumed of the C compiler: `copy` stores its bytes in order (its
pointers are not volatile here, so this is a fact about the build and not about
the language). The global that `new_addr_with_name` emits ends in an `i32`, so it
is aligned to words and at least as long as the copy.

The properties are those of `PthreadComms`, over a different mechanism; the run
checks them as part of `ManycoreRun` (`ImplementsSlotSafety`, `Completes`), the
theorems for every size, so also for a flag in a word of its own and for values
longer than a word.

### ManycoreRun: calls on bsg_manycore

| action | code (`bsg-host-communication.c`, `bsg-device-communication.c`) |
|---|---|
| `LoadProgram` | `init` (23-49): all memory of the program is loaded anew |
| `SendArgument` | `send_argument` (67-94), value and flag in one write |
| `StartExecution`, `Executed` | `start_device_execution` (148-154), which waits for all tiles |
| `ReceiveReturn`, `RetrieveGlobal`, `EndExecution` | the host's reads of DRAM and `end_device_execution` (96-162) |
| `CallFunction` | `call_partitioned_functions` (113-127): tile `t` runs function number `t` of the list, the others go to the barrier |
| `TileSend`, `TileSending`, `TileReceiving` | the sending partition waits for its argument and sends; the steps of `ManycoreComms` on the two tiles |
| `TileReturn`, `TileSent` | `send_return` (79-81), a global updated, the barrier |

The function is the smallest that uses everything: one partition receives the
argument and sends it and further values to the other, which updates a global and
returns the last. `Layouts` are the tiles of the partitions (their numbers) and the
list of functions. What is sent to a partition goes to the tile with its number.

`Returned` says that the value the host reads is the last one sent in this call, that the
first one was the argument. `GlobalKept` says that the global has the updates of all
calls, as the function on one thread leaves it. It is violated (section 5): `LoadProgram`
loads the global anew, and `RetrieveGlobal` only copies it back. `StuckNotWrong` says that
with a misplaced function the host never gets past `start_device_execution`. The program
of the next call is loaded when the network is idle, and what a tile stored to DRAM is
there when the kernel is seen to be over: both are assumed of the hardware, which the
source leaves to its driver.

Bounds: two bytes of value in a word of four leave the flag in the *same* word as
the value and one byte of padding behind it. Two calls are the least in which
something of an earlier call can be taken for this one's, two messages in each the least
that uses an address again. Three tiles for two partitions leave one number unused.

### PartitionedRun: threads

An execution is described by its schedule `ev`: the communication calls of the
host and of all partitions in the order the compiler placed them along the path
that is taken. The threads execute their own calls in that order and interleave
freely. Positions stand for values, so `got[k]` says *which* send a read got its
value from. `Send`, `Receive` (receive, load, `free_comms`), `Peek` (argument or
return: not freed), `Spawn` and `Join` are the calls.

`WellFormed` is the contract of the schedule: threads are created before they run
and joined before they are created again, an address has one writer and one
reader, a value is received before the next is sent at that address, and a
read has a value to return.

`PartitionedRun.cfg` runs every well-formed schedule that `MCPartitionedRun`
enumerates for two partitions with four communication calls on two addresses,
and a schedule with a loop in a function that is called twice. Four calls are
the least with two values crossing in opposite directions, where an inverted
order deadlocks. `Matched`, `NoStuck` and `JoinComplete` are then proved for
schedules of every length. `CalledTwice.cfg` is a schedule the compiler does
emit that is *not* well-formed (section 5).

### SortBlocks

`Explore` is `explore` of `dfs`: for every set of blocks on the path it gives the function
from the visited list and the block, and `Fold` is the `List.fold_left` over the
successors that threads the visited list. `SortBlocksSpec` (in `MCAlgorithms`, beside
`GoalSearch`) enumerates every graph of up to four blocks with at most two successors each
in which no branch leads back to the entry, as LLVM demands. Four blocks contain a
diamond, nested and crossing loops and irreducible graphs. `DominatorsFirst` is stated
with a definition of dominance that shares nothing with the sort: `ReachedWithout` is the
least set of blocks that holds the entry and is closed under edges which avoid the
dominator. `NothingDropped` also says when the assertion of `sort_blocks` fails: exactly
when a block is unreachable.

### EmitLLVM

A function is a record of parameters, blocks and literals; an instruction has a
name, an operation, operands and blocks. `place` gives each instruction but the
branches a partition, memory operations are on partition 0 (a constraint of
`partition.ml`). One action is the visit of one instruction in one of the walks.

| action or operator | code (`emit_llvm.ml`) |
|---|---|
| `EmitAlloca`, `EmitPhi`, `EmitRet`, `EmitStraightline`, `SkipBranch` | `add_straightline_instructions` and what it calls |
| `RepairPhi` | `repair_phi_node` |
| `RepairJump`, `RepairBranch`, `FailBranch` | `add_branch_instructions`, `repair_branch`; `find_partition` fails on a condition that is an argument or a literal |
| `FailStraightline` | the code fails on a `ret` of a literal or of an `alloca`, which are in no function of `fun_map` (`value_to_value_ptr`, `function_for_value`), and on a call of a function that is not available (`insert_called_function_if_needed`) |
| `ReplaceFun` | `replace_fun` |
| `Operand`, `Available`, `Communicate` | `replace_operand`, `call_send`, `call_receive` |
| `ReceiveArg` | `receive_arg_from_host` |
| `Broadcast` | `broadcast_value` |
| `Walk` | the order of `sort_blocks` |
| `AllPartitions` | `get_nonempty_partitions`, which looks at the whole module: `OtherPartitions` are those only other functions use |

The state follows the code's tables: `mapped` is the domain of `instruction_map`,
`argReg` is `arg_map`, `launched` the set in `fun_map`, `host` the calls of the
`replace_` function, `code` the emitted blocks. A register is the copy of a value
(`Value`), or what a communication at an address returned (`Received`, `Argument`). An item
that refers to an instruction without a copy gets a `Foreign` register, which is what the
code does by leaving the operand alone; `OperandsLocal` says it never happens. The
field `line` of an item is the number of the instruction it was emitted for. No
action reads it: the proofs use it to say which state of the function an item sees.

`RunEmitted.cfg` compiles the functions of `Programs` for **every** placement on
three partitions. Three matter because two partitions cannot wait in a circle
and a broadcast to two receivers is the first with an order. The functions have
the shapes of the repository's tests: an expression, a conditional with a phi, a
loop with two phis that read each other, a loop over memory, two returns, a
branch on an argument, a literal that is returned, a call that is not available.

### RunEmitted

After compilation the host calls the function on some arguments (`Call`), and the
host and the threads interpret the emitted items, an action for each kind of item.
The function itself, on one thread, is given by `Execute` (an
instruction), `Within` (the states within a block), `Leave` (its branch, with the phis of
the next block) and `Visits`: the state in which the k-th block of the
execution is entered, a recursive function of k. A register never written reads as
`Garbage`.

| action | code |
|---|---|
| `HostSpawn`, `HostJoin` | `call_partitioned_functions`, `join_partitioned_functions` (`communication.c`) |
| `HostSendArgument`, `CorePeek` | `send_argument`, `receive_argument` |
| `CoreSendReturn`, `HostReceiveReturn` | `send_return`, `receive_return` |
| `CoreSend`, `CoreReceive` | `send`, `receive` with its `free_comms` |
| `CoreCompute`, `CoreLoad`, `CoreStore`, `CoreCall`, `CoreBranch` | the cloned instructions, as LLVM executes them |
| `CoreReturn` | the end of `_call_function` |

`Equivalent` says that in every interleaving a call that returns does so from the block in
which the function on one thread returns after as many blocks, with its result,
memory and external calls; `SamePath` that no two threads take different paths;
`Drained` that all addresses are free after the call, so that the next call
starts as the first did; `Joins` that the call returns.

`RunEmitted.cfg` compiles all nine functions for all placements on three partitions, and
calls five of them (`Callable` of `MCRunEmitted`): those without a loop wherever they are
placed, those with one where they are placed on the first two partitions. A third
partition multiplies the interleavings of a loop past what TLC explores in
minutes; `CommonOrder` and `Paired` are checked of its code all the same. The values passed
(0 and 2) drive each condition both ways and the loops twice round, the least that
reuses an address. No path of these functions makes two external calls: nothing in the
compiler orders calls on different partitions, so `Equivalent` could not hold of
them (a TODO at `emit_llvm.ml:597` knows of it).

### Partition

`Functions` are what may be compiled: blocks in the order LLVM lays them out,
with the opcode, operands and pointer type of each instruction. `placements` is
the table that is threaded through `solve_dfg`. The constraints are operators
with the names of the code (`constrain_per_operand`, `constrain_per_instruction`,
`constrain_overlapping_times`), `Models(goal)` the placements that satisfy them.

| action | code (`partition.ml`) |
|---|---|
| `Skip`, `Start` | `solve_dfg` (283-321): a block that costs nothing is not searched |
| `Sat` | a model with any `latest_time` the constraints allow, goal one below it (228-250) |
| `Unsat`, `Timeout` | the end of the loop |
| `Commit` | `solve_partitioning` (266-280): the last model, or the fallback `no_partitioning` |

`Respected` is the property that matters: the constraints of a block are built
from the table of that moment, and must hold of the final table. An operand whose
block is laid out *later* is left out of it: the code has a stopgap for it (line
138). `IsGoalSearch` is an action property: each query is a step of
`GoalSearch` for the least time the constraints allow, so its theorems apply to
the search in each block.

Bounds: two partitions and up to three instructions in a block, which is the
least with a chain and an independent instruction that leaves room for the
communication; two and three blocks; both computations of the distance. The
violation uses the default grid of two by two.

### GoalSearch

`strategy` selects the loop, `optimum` is the least time the constraints allow,
`Sat` picks any time the solver may answer, `Unsat` and `Timeout` are the other
results. The mixed bounds of the code are in `Within` (`<=` in OCaml, `<` in
C++), `Tightened` (`- 1` or not) and `Settled`. `MaxTime = 9` gives the binary
search four halvings, enough for every rounding; the theorems need no bound.

### ConstraintGenerator

`Files` are the modules that may be compiled, as the program sees them after LLVM
has read them: functions with their blocks, and of every instruction the opcode,
the operands, whether it is a pointer and what it aliases.

| action or operator | code (`SMTConstraintGenerator.cpp`) |
|---|---|
| `Blocks` | `partitionInstructionsInModule` (`IRReader.cpp` 40-57), `CodeSelection.cpp` |
| `Schedules`, `constrain...` | the functions of these names (142-271); `constrainCurrent` and `constrainPrevious` are the two halves of `constrainInstructionOperand` |
| `Start` | `incrementalPartitioning` (30-48): a block whose bounds meet is not searched |
| `Sat`, `Unsat`, `Timeout` | one round of `linearSearch` or `binarySearch` (50-140) |
| `CommitModel`, `CommitFallback`, `EndFallback` | `addConcretePlacements` (288-322) and `resetSolverState` |

Three things of the code are translated as they are and not as they look.
`costForCommunication` returns a term that is assigned to an `int`: it is 1 as long as the
term exists, so `comms == 1` and the table of costs is never read. What is known of the
operands of earlier blocks is kept in terms that are local to an `else` block (lines 224
and 228) and read after they are destroyed (235, 244), so `recalled` gives every use of
such an operand any partition or none, and any end time: one of `Remains`, whatever the
memory of the terms says. Both reads of `constrainPrevious` use it. And the fallback
iterates over a map keyed by addresses, so `CommitFallback` takes the instructions in any
order.

`Exclusive` must hold with a model and without. `AliasesTogether` is stated of the blocks
a model placed, and relates them to all blocks before. `OperandsInTime` is that an
instruction waits for the operands of its own block; `EarlierOperands`, what the code
means to say of the others, is violated (section 5).
`CriticalBound` compares two independent computations: the longest path and
the least end the constraints allow. `IsGoalSearch` is the refinement of the
search in each block.

### CloneArguments

The device module is the sequence `device`, `cursor` the function of it the loop has
reached; `ClonePartition` inserts the clone for the next partition in front of the
cursor. A clone starts with `_p_` as its original does, so what keeps the
walk from cloning it again is only where it is inserted (`ClonedOnce`, `Finishes`). Uses
of an argument are looked for in the declaration made for the host, which has no
body: `receiving` is empty, and a partitioned function with parameters makes
`CloneFunctionInto` read a null pointer (`CloneFails`). `Rewritten`, with which
`ClonedOnce` compares the list in the end, knows of no cursor: every partitioned
function stands behind its copies, in ascending order of the partitions.

### Options

An argument is a text with what it can be read as: `kind` says which alternative of
the parser's pattern it matches, `names` the options it names, `digits` and
`base` what the integer parser sees. `argv` is overwritten from the front with the
arguments kept. One action is one round of the loop of `ParseResult::parse`.

`ArgumentsKept` compares the `argv` that remains with an independent reading of the
command line from left to right (`Roles`, `Kept`); `NumbersRead` compares the digit
arithmetic modulo `2^Width` with the number the text stands for. `Width = 24` in the
run, as TLC's own integers have 32 bits; 24 are the least in which the default timeout
fits. The texts include the largest and the least number, one past the largest, one that
wraps around visibly and one that does not.

### Hyacpp

`stage` says which part of `main` runs; all its exits are in the model: the usage
message, the uncaught exception of the parser, a file that cannot be read, the
failure of cloning, and success. `Hyacpp.cfg` composes everything: five modules
(an expression between functions that are not partitioned; two blocks with a store to
what was loaded; pointers across blocks; a loop with a phi; aliasing memory with a
parameter), each with both searches, and the command lines at the edges of the parser.
Blocks have up to four instructions on two partitions, which leaves room for
communication beside independent work; `MaxTime = 6` is the longest block on one
partition. `MCRemains` are the values a destroyed term may yield: either partition or
one that is none, with an end time before, at or after all times of a block. Each use
has a value of its own, so every combination of them occurs.

## 3. What the runs show

| run | shows |
|---|---|
| `pthread_comms` | The unsynchronised protocol of one address is correct on x86-64, and is a one-place slot. |
| `manycore_run` | The protocol over remote loads and stores is the same slot through two calls; each call returns its own result, and a misplaced function returns none. |
| `manycore_globals` | *Violation:* what an earlier call stored to a global is lost. |
| `partitioned_run` | Well-formed schedules are executed faithfully and to the end. |
| `called_twice` | *Violation:* the second call of a function returns the first result. |
| `algorithms` | The depth-first order puts dominators first and drops nothing silently; the searches end, with the optimum (binary: within one). |
| `run_emitted` | The emitted code fulfils the compiler's side of the contract on every placement, computes what the function computed, and terminates. |
| `run_unlaunched` | *Violation:* a branch condition is sent to a partition that is never started. |
| `partition` | Placements respect the constraints across blocks and after failures of the solver; each search is a `GoalSearch`. |
| `partition_pointers` | *Violation:* the fallback separates a pointer from its use. |
| `hyacpp` | The C++ compiler ends on every command line and module; its placements respect the constraints of their blocks whatever the destroyed terms hold, its searches are those of `GoalSearch`, and what it clones and writes is complete. |
| `hyacpp_operands` | *Violation:* an instruction is placed before its operand of an earlier block, or a pointer apart from its use. |

### Fairness

- `PthreadComms`: weak fairness of each thread's step and of each store buffer.
  The operating system schedules both threads, and hardware drains store
  buffers. None on `SendCall`: a program need not send.
- `ManycoreRun`: weak fairness of the host, of each tile and of the network: the
  tiles run and packets are delivered.
- `Hyacpp`: weak fairness of the compiler's next step; the queries of the solver
  are among its steps, and each is answered or times out.
- `PartitionedRun`, `RunEmitted`: weak fairness of *some* step of some thread.
  A thread that spins takes no step of the model and is not "enabled"; as every
  thread executes finitely many items here, this is enough for termination. In
  `RunEmitted` it covers the execution only, not the choice to call.
- `GoalSearch`, `Partition`: every query is answered or times out; `set_configuration` and
  the C++ generator both give the solver a timeout.
- `CommsSlot`: a message in the place is taken, which `PthreadComms` implements.

Deadlock checking is off in every run because each system really stops: the
sender sends no more, the program has returned, the search is over. That
nothing stops *early* is stated by `ImplementsSlot`, `NoStuck`, `Joins`,
`Terminates`, `Completes`, `Ends` and `Finishes`.

## 4. What is proved

TLAPS checks all proofs for every value of the constants, under these assumptions and no
others: `Size` and `NumSends` are naturals, `Byte` contains 0 and 1, `Empty` is no
message; `Word` is a positive natural; the host is no partition; the blocks of a function
or module share no instruction, and a block takes at most `MaxTime` on one partition; a
grid has rows and columns; two partitions have different tiles, and the list of functions
has each of them once and is no longer than there are tiles; a command line is finite, an
option names something, and the digits of a text are naturals, in base 10 or 16; the
functions and blocks of a module are finite sequences. Of a function that the code
generator gets, `Verified` says what LLVM's verifier has checked (names are unique,
operands are defined before their use on every path, a phi has an operand for each
incoming block), and all its blocks are reachable, as `sort_blocks` asserts; no phi merges
the addresses of allocas (the code fails on one); there is at least one partition. To be
executed (`RunAssumption`) literals and arguments are integers, `Empty` is not, and a load
or store addresses an alloca.

**`PthreadCommsProofs`.** `Delivered` is not inductive: it says nothing of where
the bytes under way are. `IInv` adds that an address is always in one of three
phases. *FlagDown*: the flag is 0 in memory, and if a value is moving then the
sender's buffer holds exactly the not yet written tail of its stores, flag last,
and memory the head. *FlagUp*: the flag is 1, the sender has nothing buffered,
memory holds value number `Len(rcvd) + 1`. *Freeing*: the clearing store is
buffered. Each action keeps the phase or moves to the next one. From `Invariance`
follow `Typing`, `Delivery`, `Overwriting` (an action property) and `Refinement`:
the initial state maps to that of `CommsSlot`, the flush of a flag maps to
`Put` or `Take`, all else to a stutter.

**`ManycoreRunProofs`, one address.** The invariant counts the bytes of the last value that
have arrived. *FlagDown*: the receiver waits, and its struct holds the bytes
arrived so far. *FlagUp*: the flag byte has arrived, so all value bytes have, since
the flag is behind them and the network keeps the order; only padding is still
under way. A load waits behind all stores, so a reply with a clear flag means
that the last value was received *and* that nothing more of it will arrive;
`SeenOK` keeps that fact through the way back. `Refinement` maps the arrival of the flag byte
to `Put` and `free_comms` to `Take`.

**`ManycoreRunProofs`, calls.** The invariant of the address alone does not survive a call,
which resets the memory under it. `RunInv` adds what lets it: between calls the
address is unused (`QuietOK`), and during one, a tile at the barrier has done its
whole part (`TilesOK`), which only the right tile can, as the value and its flag
go to the tile with the partition's number (`MessagesOK`). So when the host sees all tiles
at the barrier, everything sent was received, the return value is that of this call, and
loading the program again finds the address at rest. From `RunInvariance` follow
`RunReturning`, `Misplaced`, `RunDelivery` and `RunOverwriting` over all calls
together, and `RunRefinement`: loading is a stutter of the slot. They hold for any number
of tiles, calls and messages.

**`HyacppProofs`, placement.** As in `PartitionProofs` the table covers just
the blocks before this one; here the fallback enters one instruction at a time, so
the invariant also says that the part entered lies before `time` on partition 0. That
entries are never replaced (`Adding`) carries the constraints of a block to all later
tables, with the aliases it found in earlier ones. `Waiting` is of the operands of
the block itself, as what is recalled of others is arbitrary. `Exclusion`, `Waiting`,
`Aliasing` and `Placement` hold of the whole compiler, for every command line, module
and behaviour of the solver.

**`HyacppProofs`, search.** `LowerBound` follows the longest path through a model of
any size: along it each instruction starts after the one before has ended, so none
ends before its depth, and the search may start from the length of the path.
`Refinement` says with this, and with `SearchInv`
(the bounds are times of the block; a goal has a model exactly from the optimum on), that each
query is a step of `GoalSearch`. So its theorems hold of the searches in each block.

**`HyacppProofs`, command line.** `Unread` is the invariant of the in-place compaction
of `argv`: nothing is overwritten before it is read. `KeptInv` adds that the front of
`argv` is what a reading of the original line keeps of the arguments read so far;
`Remaining` is the end of it. `Numerals` needs two things: that the last number read for
an option is the one in `results` (`NumbersInv`), and that reading digits modulo
`2^Width` with the check for overflow of the code is exact for what fits in an int. The
second is an induction over the digits: as long as the true value is below `2^Width` no
step wraps, and a value that has been larger once never fits again. It holds for every
width.

**`HyacppProofs`, copies.** `OneCopyEach` follows the walk over the list it extends.
`CloneInv` says that before the cursor stand the functions already rewritten and
the copies of the one visited made so far, behind it the source unchanged, and that the
partitions done precede those left; the function itself is still at the cursor after each
insertion, which is why no copy is visited.

**`EmitLLVMProofs`, block order.** `Explore` is defined by a recursive function over
sets of blocks; that it satisfies its own equation needs an induction, on the number of
blocks that are not on the path yet. Another one shows `Correct`: a call puts new blocks
(`New`) in front of the visited list, the block called for is then visited or on the
path, and of each new block the successors are, too, and every dominator is on the path
or stands before it among the new blocks. `Dominance` and `Completeness` hold for graphs
of any size.

**`EmitLLVMProofs`, code.** `EmitInv` says of the code emitted so far (`Good`): every
address is below the counter and is used by one partition on each side, in one block
(`Owned`), or for one argument (`ArgsOK`); in every block the addresses are used in the
order of their creation (`RowOK`); and every register read is one of its partition
(`ItemsOK`). That alone is not inductive, since an operand may be asked for before its
definition is emitted: `Walked` says what the walks have left behind them, and with
`Dominance` what is behind them includes the definition of every operand. `Timely` is
its converse, that nothing has been emitted before its visit, and `HostShape` says what
`replace_fun` makes of the host. `AddressesOrdered`, `AddressesPaired` and
`RegistersLocal` hold for every function and placement. `PartitionsLaunched` has two
hypotheses (`LaunchAssumption`): no other function of the module uses further
partitions, without which it is false (section 5), and a function with an `alloca` loads
or stores something, since a partition that holds nothing but allocas is not launched by
`replace_fun`.

**`RunEmittedProofs`.** The proof is a simulation of the function on one thread by
threads that are not in step with each other. `RunInv` says that each thread has
followed the path of `Visits` (`Trodden`) and that before an item of line n it holds, of
the values of its partition, what the function holds before instruction n of the block
(`Tracks`), and that what it has received is what was to be sent (`Heard`, `Told`):
threads are compared with the one execution, each at its own place in it, never with
each other. Memory and returned values are those of the one thread that stores or
returns. This is inductive only with what the addresses hold: the two partitions of an
address execute the block it is used in equally often or the sender once more, and then
the address holds the value the function has at the send (`Channels`, `Slots`). A
receive therefore gets the value of its own turn of a loop, not an earlier one, although
the address is used again in each. That no send and receive at one address are reordered
against others comes from `Paired` and `CommonOrder`, in the stronger form of `EmitInv`;
that the phis of a thread agree with those of the function, from the fact that their
operands are communicated at the end of the incoming block, also on a path that leads
elsewhere. From `CallInvariance` follow:

- `PathsAgree` (`SamePath`): all conditions read are that of the function;
- `Draining` (`Drained`), under `LaunchAssumption`: a started thread that has returned has executed
  its blocks as often as its peer;
- `Results`: result, memory and block of return are those of the function, for every
  function;
- `Equivalence`: `Equivalent` for every state in which `CallsTogether`, that is, in which all external calls
  have been placed on one partition. For others it is false: nothing orders calls on
  different partitions (`emit_llvm.ml:597`). Each function of the run makes at most one call on a path,
  so TLC checks `Equivalent` without the hypothesis.

They hold for functions of any size and any number of partitions, and for paths of any length.

**`PartitionProofs`.** The invariant says that the table covers just the blocks
solved, that these share no instruction with the block being searched, and that
the last model satisfies the constraints as built from the table. Entering the
model therefore changes no placement a constraint was built from.
`MemoryPlacement`, `Exclusion` and `Respecting` follow, for every function, grid
and behaviour of the solver. `Refinement` is the action property `IsGoalSearch`: with the solver
as the oracle, each query is a step of `GoalSearch`, because models exist exactly from
`optimum` on (`OptimumKnown`) and the goal never exceeds the time on one partition.

**`PartitionedRunProofs`.** The invariant says of each address that the slot holds
the last executed send that no executed receive follows, and the events done at
an address are a prefix of those in the schedule. `DeadlockFreedom` follows by
taking the least event not done: everything before it is done, its address is in
the state the schedule says, so it can run. `Matching` says that each read returns
the value of the send the compiler paired it with; `Joining` that a joined
partition has nothing left to do. They hold for schedules of any length, with any
number of partitions and addresses.

**`GoalSearchProofs`.** The invariant keeps the optimum between the bounds: no
model lies at or below `lower` (strictly below, for the binary search) unless a
query timed out, and `upper` is the best model or the sequential time.
`Bounding`, `Exactness`, `NearExactness` and `Improvement` follow. `Bounded` counts the
queries against what is left between the bounds, for the binary search as a power of
two that halves with each query.

Type correctness, `NeverWorse` and `Improves` of the searches, and `Delivered` and
`NoOverwrite` of the remote address are proved and need no run any more.

Only model-checked: all liveness (that of the refinement of `PthreadComms`,
`Terminates`, `Joins`, `Completes`, `Ends`, `Finishes`), which is beyond the prover. For
`Joins` this leaves two questions to TLC, whether the threads may all wait for each
other and whether every loop of the function ends; `AddressesOrdered` and
`DeadlockFreedom` of `PartitionedRun` are the safety part of the first. Every invariant
that a run checks is stated by a theorem.

## 5. Where the code and what is said of it differ

1. **A function that returns a value cannot be called twice**
   (`communication.c:131`, run `called_twice`). Nothing frees `return_struct`; the
   host's second `receive_return` passes on the flag of the first call.
2. **A partition that only another function uses is never started**
   (`emit_llvm.ml:522`, run `run_unlaunched`). Conditions are broadcast to the
   partitions of the whole module, but only the function's own are started. The
   second iteration of a loop spins in `send` forever.
3. **A pointer can be separated from its use** (`partition.ml:310`, run
   `partition_pointers`). The block with the use has no model once the pointer is
   on another partition than 0, and the fallback ignores the constraint.
4. **On bsg_manycore updates of globals are lost** (`bsg-host-communication.c:33`, run
   `manycore_globals`). `emit_llvm.ml` 289 and 652 copy globals to the device and
   back, but the global is only given its initial value when it is defined, and every `init`
   loads the program anew: after two calls that add 1, the global is 1.
5. **Operands of earlier blocks are not waited for** (`SMTConstraintGenerator.cpp:235`, run
   `hyacpp_operands`). Their partition and end time are read from destroyed terms, so
   a pointer may be placed apart from its use, and an instruction before its operand.

Observed on the way, not the subject of a run:

- Binary search does not minimise (`SMTConstraintGenerator.cpp:104`): it never asks for
  the time at the lower bound and may end one above the optimum. `NearlyExact`
  says, and its theorem proves, that it is never more than one.
- In the C++ compiler communication costs 1 between any two partitions
  (`SMTConstraintGenerator.cpp:242` stores a term in an `int`), and also within one.
- Aliasing instructions of one block are not constrained (they are not in the table
  yet), although the comment at line 266 speaks of all; a later block that
  aliases two of them on different partitions has no model.
- A loop in a single block never has a model in the C++ compiler: its phi has to
  start after the end of an operand that starts after the phi. It always falls back.
- A call in a partitioned function has no `MemoryLocation`, so
  `constrainMemoryInstruction` dereferences an empty `Optional`.
- A partitioned function with parameters cannot be cloned: `receiving` looks for uses
  in the host's declaration, and the values given to `CloneFunctionInto` are keyed by
  its arguments (`CloneAndReplaceArguments.cpp:127`).
- The check for overflow of `cxxopts.hpp:616` misses numbers that wrap around to a larger
  one: 9999999999 is read as 1410065407. The timeout is multiplied by 1000 modulo `2^32`.
  An unknown strategy is a linear search. Without a file name `argv[1]` still holds the
  first option, and the compiler tries to open a file of that name.
- On bsg_manycore a second partitioned function of a module gets its own
  `device_execute`, which LLVM renames; `init` runs the first one's.
- External calls on different partitions are not ordered (`emit_llvm.ml:597`), so
  what `tests/simple-if.c` prints depends on the interleaving when its calls are
  placed apart.
- Communication costs one cycle between any two partitions less than five apart
  (`partition.ml:96` divides integers), and within a partition too. As the search
  starts from the time without communication, a plain chain of instructions has no
  model and the block falls back to partition 0; so does a block that needs a value
  of an earlier block whose end time is past its own sequential time, since times are
  not reset between blocks. Both are visible in `Partition`.
- The option `-m` of `README.md` has no effect: `partition.ml:264` selects the
  computation of distances by the debug flag.

## 6. Not modelled, and the plan

Not modelled, and why:

- `send_token` and `receive_token`: the compiler does not emit them;
- a crash on reading the destroyed terms of `SMTConstraintGenerator.cpp`: the model has
  the outcomes in which the read yields some partition and some time;
- failure of `malloc`, `pthread_create` and the functions of the bsg_manycore driver:
  the code ignores the results or prints a message and goes on;
- help texts, positional options, containers, optional values and the integer types other than int of
  `cxxopts.hpp`: the compiler uses none of them;
- `buildCommunicationCostTable`: nothing that is asserted depends on the table;
- what an instruction of a clone looks like after `CloneFunctionInto`: LLVM's;
- file input and output, the dot file, `consume_module.cpp`, the mock runtime.

The order of the work, the behaviour that matters most first:

1. *Done:* the runtimes of one address and their proofs; schedules and their
   proof; block order; the code generator; its output executed; the placement
   constraints and their proof; the search loops.
2. *Done:* `ManycoreRun` and its proof; the C++ compiler from the command line to its
   output, and its proof.
3. *Done:* the proofs of the block order, of the code generator, of the command line and
   of the copies; both searches as refinements of `GoalSearch`.
4. *Done:* the proof of `RunEmitted`: the emitted code does what the function does.
5. `RunEmitted` with a second call of the function, and two functions that share
   `return_struct`; that a schedule with a second call is well-formed when the
   function returns nothing.
6. The annotation round trip of `intermediate_llvm.ml` and `llvm_in.ml`.
