------------------------------- MODULE EmitLLVM -------------------------------
(***************************************************************************)
(* The code generator for one function: src/emit_llvm.ml.  Given the       *)
(* function and the partition of each instruction it writes, for every     *)
(* partition, a copy of the control flow graph with that partition's       *)
(* instructions and the communication calls that connect the copies, and a *)
(* replace_ function for the host.                                         *)
(*                                                                         *)
(* The compiler walks the function three times in the order of             *)
(* sort_basic_blocks: straight-line instructions, then phi operands, then  *)
(* branches; an action is the visit of one instruction.  Types, names,     *)
(* debug calls, metadata and the casts around a call are left out.         *)
(*                                                                         *)
(* A function is a record: args (its parameters), body (for each block the *)
(* sequence of its instructions, the terminator last, block 1 the entry)   *)
(* and consts (the values of the literals it mentions).  An instruction is *)
(* [name, op, args, blocks]: blocks holds the incoming blocks of a phi and *)
(* the destinations of a br.                                               *)
(***************************************************************************)
EXTENDS Naturals, Sequences, FiniteSets, TLC, SequencesExt, SortBlocks

CONSTANTS Functions,       \* the functions compiled
          Cores,           \* the number of partitions there may be
          OtherPartitions  \* those that other functions of the module use

VARIABLES fn,        \* the function
          place,     \* the partition of each instruction
          phase,     \* the walk under way, or "failed" or "done"
          next,      \* the next instruction of the walk: its block's place in the
                     \* order and its own place in the block
          code,      \* for each partition and block, the items emitted so far
          mapped,    \* instruction_map: the values that have a copy
          argReg,    \* arg_map: (partition, argument) pairs received from the host
          launched,  \* the set in fun_map: the partitions the host starts
          host,      \* the calls of the replace_ function
          commsId    \* comms_id

emitVars == <<fn, place, phase, next, code, mapped, argReg, launched, host, commsId>>

------------------------------------------------------------------------------
(* The function being compiled. *)

Blocks(f) == DOMAIN f.body
Instrs(f) == UNION {ToSet(f.body[b]) : b \in Blocks(f)}
Placed(f) == {i \in Instrs(f) : i.op # "br"}
Allocas(f) == {i.name : i \in {j \in Instrs(f) : j.op = "alloca"}}
Cfg(f)    == [b \in Blocks(f) |-> LET t == Last(f.body[b])
                                  IN  IF t.op = "br" THEN t.blocks ELSE <<>>]

\* A definition of v reaches instruction n of block b: it stands before it in
\* the block or in a block that dominates it.
Defines(f, v, b, n) ==
  \E c \in Blocks(f) : \E m \in DOMAIN f.body[c] :
    /\ f.body[c][m].name = v
    /\ f.body[c][m].op \notin {"ret", "br"}
    /\ \/ c = b /\ m < n
       \/ c # b /\ Dominates(Cfg(f), c, b)

\* A call is one of an external function; call_unavailable is one of a function that
\* is defined in the module and not partitioned.
Opcodes     == {"alloca", "phi", "ret", "add", "lt", "load", "store", "call", "call_unavailable",
                "br"}
Instruction == [name : STRING, op : Opcodes, args : Seq(STRING), blocks : Seq(Nat)]

\* What LLVM's verifier has accepted: a name is defined once, a block ends with
\* its only terminator, a use is reached by the definition, nothing branches to
\* the entry block; the phis come first, with an operand for each predecessor,
\* which they use at the end of that block.
Verified(f) ==
  /\ DOMAIN f = {"args", "body", "consts"}
  /\ f.args \in Seq(STRING)
  /\ f.body \in Seq(Seq(Instruction)) /\ f.body # <<>>
  /\ \A b \in Blocks(f) : \A n \in DOMAIN f.body[b] :
       LET i == f.body[b][n]
       IN  /\ i.op \in {"ret", "br"} <=> n = Len(f.body[b])
           /\ ToSet(i.blocks) \subseteq Blocks(f)
           /\ i.op = "phi" =>
                /\ i.args # <<>> /\ Len(i.blocks) = Len(i.args)
                /\ ToSet(i.blocks) = {c \in Blocks(f) : b \in ToSet(Cfg(f)[c])}
                /\ \A m \in 1 .. n : f.body[b][m].op = "phi"
           /\ i.op = "br" => <<Len(i.args), Len(i.blocks)>> \in {<<0, 1>>, <<1, 2>>}
           /\ i.op = "ret" => Len(i.args) <= 1
           /\ i.name \notin ToSet(f.args) \cup DOMAIN f.consts
           /\ \A c \in Blocks(f) : \A m \in DOMAIN f.body[c] :
                f.body[c][m].name = i.name => c = b /\ m = n
           /\ \A k \in DOMAIN i.args :
                \/ i.args[k] \in ToSet(f.args) \cup DOMAIN f.consts
                \/ IF i.op = "phi"
                   THEN Defines(f, i.args[k], i.blocks[k], Len(f.body[i.blocks[k]]) + 1)
                   ELSE Defines(f, i.args[k], b, n)
  /\ \A b \in Blocks(f) : f.body[b] # <<>> /\ 1 \notin ToSet(Cfg(f)[b])

\* The blocks pass the assertion of sort_blocks.
ASSUME FunctionsAssumption ==
  \A f \in Functions : Verified(f) /\ AllSorted(Cfg(f))

\* No phi merges the addresses of allocas: sending one fails, as returning it does.
ASSUME AllocasAssumption ==
  \A f \in Functions : \A i \in Instrs(f) : i.op = "phi" => ToSet(i.args) \cap Allocas(f) = {}

ASSUME PartitionsAssumption ==
  Cores \in Nat \ {0} /\ OtherPartitions \subseteq 0 .. Cores - 1

Instr(v)    == CHOOSE i \in Instrs(fn) : i.name = v
IsArg(v)    == v \in ToSet(fn.args)
IsInstr(v)  == \E i \in Instrs(fn) : i.name = v
IsAlloca(v) == IsInstr(v) /\ Instr(v).op = "alloca"

\* The blocks in the order the compiler visits them.
Order == Dfs(Cfg(fn))

Partitions == 0 .. Cores - 1

\* Memory is accessed from partition 0 only (partition.ml).
Placements(f) ==
  {g \in [{i.name : i \in Placed(f)} -> Partitions] :
     \A i \in Placed(f) : i.op \in {"alloca", "load", "store"} => g[i.name] = 0}

\* get_nonempty_partitions: the placement covers the whole module.
AllPartitions == {place[v] : v \in DOMAIN place} \cup OtherPartitions

------------------------------------------------------------------------------
(* Items of the emitted code.  val is the register a send reads or a receive *)
(* defines, at the id of the communication address, peer the other side.     *)
(* line is the instruction of the block it was emitted for: nothing reads    *)
(* it, the proofs use it to say which state of the function an item sees.    *)

Item(do, val, at, peer, line) ==
  [do |-> do, val |-> val, at |-> at, peer |-> peer, line |-> line,
   op |-> "none", args |-> <<>>, blocks |-> <<>>]

\* Registers: the copy of a value, what a communication returned, and a value
\* of the function being compiled.
Value(v)     == <<"value", v>>
Received(id) == <<"comms", id>>
Argument(id) == <<"arg", id>>
Foreign(v)   == <<"original", v>>
NoRegister   == <<>>

Clone(i, regs, line) ==
  [do |-> "exec", val |-> Value(i.name), at |-> 0, peer |-> 0, line |-> line,
   op |-> i.op, args |-> regs, blocks |-> i.blocks]

\* The part of the state the emission of one operand changes.
Emitted == [code |-> code, argReg |-> argReg, launched |-> launched,
            host |-> host, commsId |-> commsId, regs |-> <<>>]

Extended(f, x, y) == [z \in DOMAIN f \cup {x} |-> IF z = x THEN y ELSE f[z]]

At(s, p, b, item) == [s EXCEPT !.code[p][b] = Append(@, item)]

AtEach(s, b, items) ==
  [s EXCEPT !.code = [p \in AllPartitions |-> [s.code[p] EXCEPT ![b] = Append(@, items[p])]]]

\* Mutant: the receive is inserted at the beginning of the block.
CommunicateFront(s, v, from, to, b, n) ==
  LET id == s.commsId
      r  == [s EXCEPT !.code[to][b] = <<Item("receive", Received(id), id, from, n)>> \o @]
      w  == At(r, from, b, Item("send", Value(v), id, to, n))
  IN  [w EXCEPT !.commsId = id + 1, !.regs = Append(@, Received(id))]

\* Mutant: the send is appended to the block that computes the value.
CommunicateEarly(s, v, from, to, b, n) ==
  LET id == s.commsId
      d  == CHOOSE c \in Blocks(fn) : Instr(v) \in ToSet(fn.body[c])
      r  == At(s, to, b, Item("receive", Received(id), id, from, n))
      w  == At(r, from, d, Item("send", Value(v), id, to, n))
  IN  [w EXCEPT !.commsId = id + 1, !.regs = Append(@, Received(id))]

\* The receive in the consumer's block, the send in the producer's copy of it.
Communicate(s, v, from, to, b, n) ==
  LET id == s.commsId
      r  == At(s, to, b, Item("receive", Received(id), id, from, n))
      w  == At(r, from, b, Item("send", Value(v), id, to, n))
  IN  [w EXCEPT !.commsId = id + 1, !.regs = Append(@, Received(id))]

\* receive_arg_from_host: the first use of argument v on partition p receives
\* it at the beginning of the entry block; the host sends it after the others.
ReceiveArg(s, v, p) ==
  IF <<p, v>> \in DOMAIN s.argReg
  THEN [s EXCEPT !.regs = Append(@, s.argReg[<<p, v>>])]
  ELSE LET id == s.commsId
       IN  [s EXCEPT !.code[p][1] = <<Item("peek", Argument(id), id, p, 1)>> \o @,
                     !.host = Append(@, Item("send_argument", Value(v), id, p, 0)),
                     !.argReg = Extended(@, <<p, v>>, Argument(id)),
                     !.launched = @ \cup {p},
                     !.commsId = id + 1,
                     !.regs = Append(@, Argument(id))]

\* map_incoming: the register that holds v on partition p at the end of block
\* b.  A value without a copy is kept: a literal, or one not yet visited.
Available(s, v, p, b, n) ==
  CASE IsArg(v)                        -> ReceiveArg(s, v, p)
    [] v \in mapped /\ place[v] = p    -> [s EXCEPT !.regs = Append(@, Value(v))]
    [] v \in mapped /\ place[v] # p    -> Communicate(s, v, place[v], p, b, n)
    [] OTHER -> [s EXCEPT !.regs = Append(@, IF IsInstr(v) THEN Foreign(v) ELSE Value(v))]

\* Mutant: an operand that has a copy is used wherever it is.
OperandUnsent(s, v, p, b, n) ==
  IF v \in mapped THEN [s EXCEPT !.regs = Append(@, Value(v))] ELSE Available(s, v, p, b, n)

\* replace_operand does the same, but every partition uses the global of an
\* alloca directly.
Operand(s, v, p, b, n) ==
  IF v \in mapped /\ IsAlloca(v)
  THEN [s EXCEPT !.regs = Append(@, Value(v))]
  ELSE Available(s, v, p, b, n)

\* One operand after the other.
ReplaceOperands(s, vs, p, b, n) ==
  LET after[k \in 0 .. Len(vs)] == IF k = 0 THEN s ELSE Operand(after[k - 1], vs[k], p, b, n)
  IN  after[Len(vs)]

\* The incoming values of a phi on partition p, each at the end of its block.
MapIncoming(s, phi, p) ==
  LET after[n \in 0 .. Len(phi.args)] ==
        IF n = 0 THEN s
        ELSE Available(after[n - 1], phi.args[n], p, phi.blocks[n], Len(fn.body[phi.blocks[n]]))
  IN  after[Len(phi.args)]

Commit(s) == /\ code' = s.code
             /\ argReg' = s.argReg
             /\ launched' = s.launched
             /\ host' = s.host
             /\ commsId' = s.commsId

------------------------------------------------------------------------------
(* The walks. *)

EmitInit ==
  /\ fn \in Functions
  /\ place \in Placements(fn)
  /\ phase = "straightline"
  /\ next = <<1, 1>>
  /\ code = [p \in AllPartitions |-> [b \in Blocks(fn) |-> <<>>]]
  /\ mapped = {}
  /\ argReg = <<>>
  /\ launched = {}
  /\ host = <<>>
  /\ commsId = 0

Block   == Order[next[1]]
Current == fn.body[Block][next[2]]
Part    == place[Current.name]

\* Mutant: the partition is not added to the set in fun_map.
LaunchedNot == Emitted

\* builders_from_block adds the partition's function to the set in fun_map.
Launched == [Emitted EXCEPT !.launched = @ \cup {Part}]

\* Go on with the walk, or with the next one.
Advance(following) ==
  /\ UNCHANGED <<fn, place>>
  /\ \/ /\ next[2] < Len(fn.body[Block])
        /\ next' = <<next[1], next[2] + 1>>
        /\ UNCHANGED phase
     \/ /\ next[2] = Len(fn.body[Block])
        /\ next[1] < Len(Order)
        /\ next' = <<next[1] + 1, 1>>
        /\ UNCHANGED phase
     \/ /\ next = <<Len(Order), Len(fn.body[Block])>>
        /\ next' = <<1, 1>>
        /\ phase' = following

Visit(ph, ops, following) ==
  /\ phase = ph
  /\ Current.op \in ops
  /\ Advance(following)

\* An alloca becomes a global of the cores module.
EmitAlloca ==
  /\ Visit("straightline", {"alloca"}, "phi")
  /\ mapped' = mapped \cup {Current.name}
  /\ UNCHANGED <<code, argReg, launched, host, commsId>>

\* Branches are left to the third walk.
SkipBranch ==
  /\ Visit("straightline", {"br"}, "phi")
  /\ UNCHANGED <<code, mapped, argReg, launched, host, commsId>>

\* A phi is cloned without its operands.
EmitPhi ==
  /\ Visit("straightline", {"phi"}, "phi")
  /\ Commit(At(Launched, Part, Block, Clone(Current, <<>>, next[2])))
  /\ mapped' = mapped \cup {Current.name}

\* value_to_value_ptr asks for the function that a value is in: a literal is in none,
\* and neither is the global an alloca has become.
InNoFunction(v) == v \in DOMAIN fn.consts \/ IsAlloca(v)

\* The partition of a ret sends the value to the host; all partitions return.
EmitRet ==
  /\ Visit("straightline", {"ret"}, "phi")
  /\ \A v \in ToSet(Current.args) : ~InNoFunction(v)
  /\ LET s == ReplaceOperands(Launched, Current.args, Part, Block, next[2])
         r == IF Current.args = <<>> THEN s
              ELSE At(s, Part, Block, Item("send_return", Last(s.regs), 0, Part, next[2]))
     IN  Commit(AtEach(r, Block, [p \in AllPartitions |-> Item("ret", NoRegister, 0, p, next[2])]))
  /\ UNCHANGED mapped

\* A ret of any other value fails, and insert_called_function_if_needed does on a
\* call of an unavailable function.
FailStraightline ==
  /\ phase = "straightline"
  /\ \/ Current.op = "ret" /\ \E v \in ToSet(Current.args) : InNoFunction(v)
     \/ Current.op = "call_unavailable"
  /\ phase' = "failed"
  /\ UNCHANGED <<fn, place, next, code, mapped, argReg, launched, host, commsId>>

\* Any other instruction is cloned after its operands have been made available.
EmitStraightline ==
  /\ Visit("straightline", {"add", "lt", "load", "store", "call"}, "phi")
  /\ LET s == ReplaceOperands(Launched, Current.args, Part, Block, next[2])
     IN  Commit(At(s, Part, Block, Clone(Current, s.regs, next[2])))
  /\ mapped' = mapped \cup {Current.name}

\* The copy of phi v gets its operands.
FillPhi(s, p, b, v) ==
  LET row == s.code[p][b]
      fill(item) == IF item.op = "phi" /\ item.val = Value(v)
                    THEN [item EXCEPT !.args = s.regs] ELSE item
  IN  [s EXCEPT !.code[p][b] = [n \in DOMAIN row |-> fill(row[n])]]

\* repair_phi_node: each operand is made available at the end of its incoming
\* block, on the partition of the phi.
RepairPhi ==
  /\ Visit("phi", {"phi"}, "branch")
  /\ Commit(FillPhi(MapIncoming(Emitted, Current, Part), Part, Block, Current.name))
  /\ UNCHANGED mapped

SkipNonPhi ==
  /\ phase = "phi"
  /\ Current.op # "phi"
  /\ Advance("branch")
  /\ UNCHANGED <<code, mapped, argReg, launched, host, commsId>>

\* The copies of an unconditional branch, one per partition.
RepairJump ==
  /\ Visit("branch", {"br"}, "host")
  /\ Current.args = <<>>
  /\ Commit(AtEach(Emitted, Block, [p \in AllPartitions |-> Clone(Current, <<>>, next[2])]))
  /\ UNCHANGED mapped

\* Mutant: every partition branches on the register of the condition.
BroadcastDropped(s, v, p0, b) == [s EXCEPT !.regs = [p \in AllPartitions |-> Value(v)]]

\* Partition p0 sends the condition to partition p at a new address.
SendCondition(s, v, p0, p, b) ==
  LET id == s.commsId
      n  == Len(fn.body[b])
      w  == At(s, p0, b, Item("send", Value(v), id, p, n))
      r  == At(w, p, b, Item("receive", Received(id), id, p0, n))
  IN  [r EXCEPT !.commsId = id + 1, !.regs = Extended(@, p, Received(id))]

\* broadcast_value: it does so for every other partition, in their order.
Broadcast(s, v, p0, b) ==
  LET after[n \in 0 .. Cores] ==
        IF n = 0 THEN [s EXCEPT !.regs = [p \in {p0} |-> Value(v)]]
        ELSE IF n - 1 \in AllPartitions \ {p0} THEN SendCondition(after[n - 1], v, p0, n - 1, b)
        ELSE after[n - 1]
  IN  after[Cores]

\* A conditional branch: the condition is broadcast, then each partition
\* branches on its own copy of it.
RepairBranch ==
  /\ Visit("branch", {"br"}, "host")
  /\ Current.args # <<>>
  /\ Current.args[1] \in DOMAIN place
  /\ LET v == Current.args[1]
         s == Broadcast(Emitted, v, place[v], Block)
     IN  Commit(AtEach(s, Block, [p \in AllPartitions |-> Clone(Current, <<s.regs[p]>>, next[2])]))
  /\ UNCHANGED mapped

\* find_partition fails on a condition that is no instruction.
FailBranch ==
  /\ phase = "branch"
  /\ Current.op = "br"
  /\ Current.args # <<>>
  /\ Current.args[1] \notin DOMAIN place
  /\ phase' = "failed"
  /\ UNCHANGED <<fn, place, next, code, mapped, argReg, launched, host, commsId>>

SkipNonBranch ==
  /\ phase = "branch"
  /\ Current.op # "br"
  /\ Advance("host")
  /\ UNCHANGED <<code, mapped, argReg, launched, host, commsId>>

Returns == \E i \in Instrs(fn) : i.op = "ret" /\ i.args # <<>>

\* replace_fun: the host starts the launched partitions, sends the arguments,
\* waits for the result if there is one, and joins.
ReplaceFun ==
  /\ phase = "host"
  /\ phase' = "done"
  /\ host' = <<Item("spawn", NoRegister, 0, 0, 0)>> \o host
             \o (IF Returns THEN <<Item("receive_return", NoRegister, 0, 0, 0)>> ELSE <<>>)
             \o <<Item("join", NoRegister, 0, 0, 0)>>
  /\ UNCHANGED <<fn, place, next, code, mapped, argReg, launched, commsId>>

EmitNext == \/ EmitAlloca \/ SkipBranch \/ EmitPhi \/ EmitRet \/ EmitStraightline
            \/ FailStraightline
            \/ RepairPhi \/ SkipNonPhi
            \/ RepairJump \/ RepairBranch \/ FailBranch \/ SkipNonBranch
            \/ ReplaceFun

EmitSpec == EmitInit /\ [][EmitNext]_emitVars /\ WF_emitVars(EmitNext)

------------------------------------------------------------------------------
(* Properties of the emitted code. *)

IsComm(item) == item.do \in {"send", "receive"}

\* In every block the calls of a partition use the addresses in the order they
\* were created.  Since this holds on both sides of every address, no two
\* partitions wait for each other within a block.
CommonOrder ==
  \A p \in AllPartitions, b \in Blocks(fn) : \A m, n \in DOMAIN code[p][b] :
    LET c == code[p][b]
    IN  m < n /\ IsComm(c[m]) /\ IsComm(c[n]) => c[m].at < c[n].at

\* Every address has one send and one receive, in the copies of the same block
\* on the two partitions that name each other: a block executed by all
\* partitions leaves the address as it found it, so loops can reuse it.
Paired ==
  \A p \in AllPartitions, b \in Blocks(fn) :
    \A n \in DOMAIN code[p][b] :
      LET i == code[p][b][n]
      IN  IsComm(i) =>
            \E m \in DOMAIN code[i.peer][b] :
              /\ code[i.peer][b][m].at = i.at
              /\ {i.do, code[i.peer][b][m].do} = {"send", "receive"}
              /\ code[i.peer][b][m].peer = p

\* Every register an item reads holds a value on that partition: nothing refers
\* to the function that was compiled, or to another partition's copy.
OperandsLocal ==
  phase = "done" =>
    \A p \in AllPartitions, b \in Blocks(fn) : \A n \in DOMAIN code[p][b] :
      LET i == code[p][b][n]
          uses == ToSet(i.args) \cup (IF i.do \in {"send", "send_return"} THEN {i.val} ELSE {})
      IN  \A r \in uses :
            \/ \E v \in DOMAIN fn.consts : r = Value(v)
            \/ \E v \in DOMAIN place : r = Value(v) /\ (place[v] = p \/ IsAlloca(v))
            \/ \E d \in DOMAIN argReg : d[1] = p /\ argReg[d] = r
            \/ \E c \in Blocks(fn) : \E m \in DOMAIN code[p][c] :
                 code[p][c][m].do = "receive" /\ code[p][c][m].val = r

\* Both ends of every communication are on partitions the host starts.
PeersLaunched ==
  phase = "done" =>
    \A p \in AllPartitions, b \in Blocks(fn) :
      (\E n \in DOMAIN code[p][b] : IsComm(code[p][b][n])) => p \in launched
===============================================================================
