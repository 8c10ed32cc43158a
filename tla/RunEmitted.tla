------------------------------ MODULE RunEmitted ------------------------------
(***************************************************************************)
(* The compiler and the code it emits together: EmitLLVM compiles a        *)
(* function for some placement, then the host calls it on the pthreads     *)
(* runtime.  The threads interpret the emitted items, one address is one   *)
(* slot of CommsSlot (PthreadComms shows it behaves as one), and the       *)
(* result is compared with the function that was compiled.                 *)
(*                                                                         *)
(* The semantics of the instructions is LLVM's; the phis at the head of a  *)
(* block read their operands together when the block is entered.           *)
(***************************************************************************)
EXTENDS EmitLLVM, Integers

CONSTANTS ArgValues,  \* the values the host passes
          Empty       \* what an address holds that nothing was sent to

VARIABLES hostNext,  \* the next call of the replace_ function; 0 before the call
          actual,    \* the registers of the parameters and their values
          thread,    \* the thread of each partition
          slot,      \* what each communication address holds
          ret,       \* what return_struct holds
          result,    \* what receive_return returned
          mem,       \* the globals that replace the allocas
          out        \* the calls of external functions, in order

runVars == <<hostNext, actual, thread, slot, ret, result, mem, out>>
allVars == <<emitVars, runVars>>

\* The instructions that are interpreted: values are integers, memory is
\* addressed by allocas.
Runnable(f) ==
  /\ \A c \in DOMAIN f.consts : f.consts[c] \in Int
  /\ \A i \in Instrs(f) :
       /\ i.op \in {"add", "lt", "store"} => Len(i.args) = 2
       /\ i.op = "load" => Len(i.args) = 1 /\ i.args[1] \in Allocas(f)
       /\ i.op = "store" => i.args[2] \in Allocas(f)

ASSUME RunAssumption ==
  ArgValues \subseteq Int /\ Empty \notin Int /\ \A f \in Functions : Runnable(f)

\* A register that was never written holds anything.
Garbage == 77

Read(f, env, r) == IF r \in DOMAIN env THEN env[r]
                   ELSE IF r \in {Value(c) : c \in DOMAIN f.consts} THEN f.consts[r[2]]
                   ELSE Garbage

ReadAll(f, env, regs) == [n \in DOMAIN regs |-> Read(f, env, regs[n])]

Compute(op, vals) == IF op = "add" THEN vals[1] + vals[2]
                     ELSE IF vals[1] < vals[2] THEN 1 ELSE 0

\* The registers after entering a block from block prev.  phis holds records
\* with the fields reg, args and blocks.
Enter(f, phis, prev, env) ==
  LET phi(r)    == CHOOSE i \in phis : i.reg = r
      source(i) == i.args[CHOOSE n \in DOMAIN i.blocks : i.blocks[n] = prev]
      regs      == {i.reg : i \in phis}
  IN  [r \in DOMAIN env \cup regs |-> IF r \in regs THEN Read(f, env, source(phi(r))) ELSE env[r]]

\* Where a br goes; vals holds the condition, if there is one.
Destination(blocks, vals) == IF Len(blocks) = 1 \/ vals[1] = 1 THEN blocks[1] ELSE blocks[2]

------------------------------------------------------------------------------
(* A function on one thread.  A state is a record: block (the block that is   *)
(* executed), env, mem and out.                                               *)

Names(vs) == [n \in DOMAIN vs |-> Value(vs[n])]

PhisOf(f, b) == {[reg |-> Value(i.name), args |-> Names(i.args), blocks |-> i.blocks] :
                   i \in {j \in ToSet(f.body[b]) : j.op = "phi"}}

\* One instruction; the phis and the terminator are part of Leave.
Execute(f, i, s) ==
  LET vals   == ReadAll(f, s.env, Names(i.args))
      set(v) == [s EXCEPT !.env = Extended(@, Value(i.name), v)]
  IN  CASE i.op \in {"add", "lt"} -> set(Compute(i.op, vals))
        [] i.op = "load"  -> set(s.mem[Value(i.args[1])])
        [] i.op = "store" -> [s EXCEPT !.mem[Value(i.args[2])] = vals[1]]
        [] i.op = "call"  -> [s EXCEPT !.out = Append(@, vals)]
        [] OTHER -> s

\* The states within a block that is entered in state s: after[n] is the state
\* after n instructions.
Within(f, s) ==
  LET body == f.body[s.block]
      after[n \in 0 .. Len(body)] == IF n = 0 THEN s ELSE Execute(f, body[n], after[n - 1])
  IN  after

\* The state at the end of the block.
AtEnd(f, s) == Within(f, s)[Len(f.body[s.block])]

\* A br goes on to its destination; a ret stays.
Leave(f, s) ==
  LET i  == Last(f.body[s.block])
      to == Destination(i.blocks, ReadAll(f, s.env, Names(i.args)))
  IN  IF i.op = "br"
      THEN [block |-> to, env |-> Enter(f, PhisOf(f, to), s.block, s.env),
            mem |-> s.mem, out |-> s.out]
      ELSE s

ZeroMemory(f) == [m \in {Value(v) : v \in Allocas(f)} |-> 0]

\* The states in which one thread enters the blocks it visits, the first for
\* k = 1; vals holds the registers of the arguments.
Visits(f, vals) ==
  LET visit[k \in Nat] ==
        IF k <= 1 THEN [block |-> 1, env |-> vals, mem |-> ZeroMemory(f), out |-> <<>>]
        ELSE Leave(f, AtEnd(f, visit[k - 1]))
  IN  visit

------------------------------------------------------------------------------
RunInit ==
  /\ hostNext = 0
  /\ actual = <<>>
  /\ thread = <<>>
  /\ slot = <<>>
  /\ ret = Empty
  /\ result = Empty
  /\ mem = <<>>
  /\ out = <<>>

\* The host calls the replace_ function: all addresses are still zero.
Call ==
  /\ phase = "done"
  /\ hostNext = 0
  /\ hostNext' = 1
  /\ actual' \in [{Value(v) : v \in ToSet(fn.args)} -> ArgValues]
  /\ thread' = [p \in AllPartitions |->
                  [on |-> FALSE, block |-> 1, next |-> 1, env |-> <<>>, path |-> <<1>>]]
  /\ slot' = [id \in 0 .. commsId - 1 |-> Empty]
  /\ mem' = ZeroMemory(fn)
  /\ UNCHANGED <<ret, result, out>>

HostItem(do) == /\ hostNext \in DOMAIN host
                /\ host[hostNext].do = do
                /\ hostNext' = hostNext + 1
                /\ UNCHANGED <<actual, mem, out>>

\* call_partitioned_functions starts the functions in fun_map, no others.
HostSpawn ==
  /\ HostItem("spawn")
  /\ thread' = [p \in DOMAIN thread |-> [thread[p] EXCEPT !.on = p \in launched]]
  /\ UNCHANGED <<slot, ret, result>>

HostSendArgument ==
  /\ HostItem("send_argument")
  /\ slot[host[hostNext].at] = Empty
  /\ slot' = [slot EXCEPT ![host[hostNext].at] = actual[host[hostNext].val]]
  /\ UNCHANGED <<thread, ret, result>>

\* Mutant: receive_return does not wait for the value.
HostReceiveReturnEarly ==
  /\ HostItem("receive_return")
  /\ result' = ret
  /\ UNCHANGED <<thread, slot, ret>>

HostReceiveReturn ==
  /\ HostItem("receive_return")
  /\ ret # Empty
  /\ result' = ret
  /\ UNCHANGED <<thread, slot, ret>>

\* Mutant: the host does not wait for the threads.
HostJoinDropped ==
  /\ HostItem("join")
  /\ UNCHANGED <<thread, slot, ret, result>>

\* join_partitioned_functions; a thread that has returned is off.
HostJoin ==
  /\ HostItem("join")
  /\ \A p \in launched : ~thread[p].on
  /\ UNCHANGED <<thread, slot, ret, result>>

Item_(p) == code[p][thread[p].block][thread[p].next]

\* Thread p is running and its next item is of this kind.
AtItem(p, do) == thread[p].on /\ Item_(p).do = do
AtInstr(p, ops) == AtItem(p, "exec") /\ Item_(p).op \in ops

\* It executes the item; its registers are then env.
Step(p, env) ==
  /\ thread' = [thread EXCEPT ![p].next = @ + 1, ![p].env = env]
  /\ UNCHANGED <<hostNext, actual, result>>

Keep(p)   == Step(p, thread[p].env)
Set(p, v) == Step(p, Extended(thread[p].env, Item_(p).val, v))

Operands(p) == ReadAll(fn, thread[p].env, Item_(p).args)

CoreSend(p) ==
  /\ AtItem(p, "send")
  /\ slot[Item_(p).at] = Empty
  /\ slot' = [slot EXCEPT ![Item_(p).at] = Read(fn, thread[p].env, Item_(p).val)]
  /\ Keep(p)
  /\ UNCHANGED <<ret, mem, out>>

CoreReceive(p) ==
  /\ AtItem(p, "receive")
  /\ slot[Item_(p).at] # Empty
  /\ slot' = [slot EXCEPT ![Item_(p).at] = Empty]
  /\ Set(p, slot[Item_(p).at])
  /\ UNCHANGED <<ret, mem, out>>

CorePeek(p) ==
  /\ AtItem(p, "peek")
  /\ slot[Item_(p).at] # Empty
  /\ Set(p, slot[Item_(p).at])
  /\ UNCHANGED <<slot, ret, mem, out>>

CoreSendReturn(p) ==
  /\ AtItem(p, "send_return")
  /\ ret = Empty
  /\ ret' = Read(fn, thread[p].env, Item_(p).val)
  /\ Keep(p)
  /\ UNCHANGED <<slot, mem, out>>

CoreCompute(p) ==
  /\ AtInstr(p, {"add", "lt"})
  /\ Set(p, Compute(Item_(p).op, Operands(p)))
  /\ UNCHANGED <<slot, ret, mem, out>>

CoreLoad(p) ==
  /\ AtInstr(p, {"load"})
  /\ Set(p, mem[Item_(p).args[1]])
  /\ UNCHANGED <<slot, ret, mem, out>>

CoreStore(p) ==
  /\ AtInstr(p, {"store"})
  /\ mem' = [mem EXCEPT ![Item_(p).args[2]] = Operands(p)[1]]
  /\ Keep(p)
  /\ UNCHANGED <<slot, ret, out>>

CoreCall(p) ==
  /\ AtInstr(p, {"call"})
  /\ out' = Append(out, Operands(p))
  /\ Keep(p)
  /\ UNCHANGED <<slot, ret, mem>>

\* The phis of a partition are the first items of its copy of a block.
CorePhis(p, b) == {[reg |-> i.val, args |-> i.args, blocks |-> i.blocks] :
                     i \in {j \in ToSet(code[p][b]) : j.op = "phi"}}

PhiItems(p, b) == {n \in DOMAIN code[p][b] : code[p][b][n].op = "phi"}

CoreBranch(p) ==
  /\ AtInstr(p, {"br"})
  /\ LET to == Destination(Item_(p).blocks, Operands(p))
     IN  thread' = [thread EXCEPT
           ![p].block = to,
           ![p].next = Cardinality(PhiItems(p, to)) + 1,
           ![p].env = Enter(fn, CorePhis(p, to), thread[p].block, @),
           ![p].path = Append(@, to)]
  /\ UNCHANGED <<hostNext, actual, slot, ret, result, mem, out>>

CoreReturn(p) ==
  /\ AtItem(p, "ret")
  /\ thread' = [thread EXCEPT ![p].on = FALSE]
  /\ UNCHANGED <<hostNext, actual, slot, ret, result, mem, out>>

Core(p) == \/ CoreSend(p) \/ CoreReceive(p) \/ CorePeek(p) \/ CoreSendReturn(p)
           \/ CoreCompute(p) \/ CoreLoad(p) \/ CoreStore(p) \/ CoreCall(p)
           \/ CoreBranch(p) \/ CoreReturn(p)

Host == HostSpawn \/ HostSendArgument \/ HostReceiveReturn \/ HostJoin

Running == Host \/ \E p \in DOMAIN thread : Core(p)
RunNext == Call \/ Running

Init == EmitInit /\ RunInit

Next == \/ EmitNext /\ UNCHANGED runVars
        \/ RunNext /\ UNCHANGED emitVars

\* The host and every thread that is not blocked keep running.
Spec == Init /\ [][Next]_allVars /\ WF_runVars(Running /\ UNCHANGED emitVars)

------------------------------------------------------------------------------
(* Properties. *)

Called   == hostNext > 0
Finished == Called /\ hostNext = Len(host) + 1

\* Whatever the interleaving, once the call has returned the function, on one
\* thread, returns from the block in which the threads have, with the same result
\* and memory, and has made the same external calls.
Equivalent ==
  Finished => \A p \in launched :
    LET s == AtEnd(fn, Visits(fn, actual)[Len(thread[p].path)])
        i == Last(fn.body[s.block])
    IN  /\ i.op = "ret"
        /\ result = IF i.args = <<>> THEN Empty ELSE Read(fn, s.env, Value(i.args[1]))
        /\ mem = s.mem
        /\ out = s.out

\* The threads of one call never take different paths through the function.
SamePath ==
  Called => \A p, q \in launched :
              Len(thread[p].path) <= Len(thread[q].path) =>
                SubSeq(thread[q].path, 1, Len(thread[p].path)) = thread[p].path

\* After the call every address between partitions is free again.
Drained ==
  Finished => \A p \in launched, b \in Blocks(fn) : \A n \in DOMAIN code[p][b] :
                code[p][b][n].do \in {"send", "receive"} => slot[code[p][b][n].at] = Empty

\* A call that has been made returns to the host.
Joins == Called ~> Finished
===============================================================================
