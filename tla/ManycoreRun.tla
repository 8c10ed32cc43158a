----------------------------- MODULE ManycoreRun -----------------------------
(***************************************************************************)
(* Calls of a partitioned function on bsg_manycore: the replace_ function  *)
(* of the host (emit_llvm.ml, replace_fun; bsg-host-communication.c) and   *)
(* the tiles (bsg-device-communication.c).                                 *)
(*                                                                         *)
(* The function has two partitions.  One receives the argument and sends   *)
(* the other one message after the other, the argument first, as           *)
(* ManycoreComms describes; the other one updates a global variable and    *)
(* returns the last message.  A partition's tile is the one with its       *)
(* number, and what is sent to it goes there; but tile t runs the function *)
(* number t of the list the compiler has written, which is ordered by the  *)
(* addresses of the functions in the compiler's memory.                    *)
(*                                                                         *)
(* Bounds: Calls calls of the function, each of Sends messages.            *)
(***************************************************************************)
EXTENDS ManycoreComms

CONSTANTS Tiles,    \* the number of tiles
          Layouts,  \* the tiles of the partitions, and the list of functions
          Calls,
          Sends

ASSUME CallsAssumption == /\ Calls \in Nat /\ Sends \in Nat \ {0}
                          /\ NumSends = Calls * Sends

ASSUME TilesAssumption == Tiles \in Nat

TileIds == 0 .. Tiles - 1

ASSUME LayoutsAssumption ==
  \A l \in Layouts : /\ l.sender \in TileIds /\ l.receiver \in TileIds
                     /\ l.sender # l.receiver
                     /\ Len(l.list) <= Tiles
                     /\ l.list \in Seq({"sender", "receiver"})
                     /\ {"sender", "receiver"} = {l.list[n] : n \in DOMAIN l.list}
                     /\ \A m, n \in DOMAIN l.list : l.list[m] = l.list[n] => m = n

VARIABLES layout,      \* never changes
          hpc,         \* the next call of the host
          call,        \* the calls that have returned
          actual,      \* the argument of the call
          argument,    \* each tile's copy of the argument's struct, or Empty
          tile,        \* "loaded", "function" or "barrier"
          dramReturn,  \* return_struct, in DRAM
          dramGlobal,  \* the global variable: the updates since it was loaded
          global,      \* the host's, and
          result       \* what receive_return has returned

commsVars == vars
callVars  == <<layout, hpc, call, actual, argument, tile, dramReturn, dramGlobal, global, result>>
runVars   == <<commsVars, callVars>>

Zero == [c \in Data |-> 0]

RunInit == /\ Init
           /\ layout \in Layouts
           /\ hpc = "init"
           /\ call = 0
           /\ actual = Zero
           /\ argument = [t \in TileIds |-> Empty]
           /\ tile = [t \in TileIds |-> "loaded"]
           /\ dramReturn = Zero /\ dramGlobal = 0
           /\ global = 0 /\ result = Zero

------------------------------------------------------------------------------
(* The host. *)

\* init loads the program: all that is in the memory of the tiles and in DRAM
\* has the value it is initialised with, whatever the host's variables hold.
\* The network is idle by then.
LoadProgram ==
  /\ hpc = "init"
  /\ net = <<>>
  /\ remote' = [c \in Cells |-> 0]
  /\ local' = [c \in Cells |-> 0]
  /\ actual' \in Message
  /\ argument' = [t \in TileIds |-> Empty]
  /\ tile' = [t \in TileIds |-> "loaded"]
  /\ dramReturn' = Zero /\ dramGlobal' = 0
  /\ hpc' = "send_argument"
  /\ UNCHANGED <<net, reply, spc, si, sent, receiverVars, layout, call, global, result>>

\* send_argument: value and flag at once, to the tile of the partition.
SendArgument ==
  /\ hpc = "send_argument"
  /\ argument' = [argument EXCEPT ![layout.sender] = actual]
  /\ hpc' = "start"
  /\ UNCHANGED <<commsVars, layout, call, actual, tile, dramReturn, dramGlobal, global, result>>

\* Bug: the host does not wait for all tiles.
ExecutedSome ==
  /\ hpc = "executing"
  /\ \E t \in TileIds : tile[t] = "barrier"
  /\ hpc' = "receive_return"
  /\ UNCHANGED <<commsVars, layout, call, actual, argument, tile, dramReturn, dramGlobal, global,
                 result>>

\* start_device_execution: the tiles call device_execute.
StartExecution ==
  /\ hpc = "start"
  /\ hpc' = "executing"
  /\ UNCHANGED <<commsVars, layout, call, actual, argument, tile, dramReturn, dramGlobal, global,
                 result>>

\* It returns when all tiles have left the barrier.
Executed ==
  /\ hpc = "executing"
  /\ \A t \in TileIds : tile[t] = "barrier"
  /\ hpc' = "receive_return"
  /\ UNCHANGED <<commsVars, layout, call, actual, argument, tile, dramReturn, dramGlobal, global,
                 result>>

\* receive_return: there is no flag.
ReceiveReturn ==
  /\ hpc = "receive_return"
  /\ result' = dramReturn
  /\ hpc' = "retrieve_global"
  /\ UNCHANGED <<commsVars, layout, call, actual, argument, tile, dramReturn, dramGlobal, global>>

RetrieveGlobal ==
  /\ hpc = "retrieve_global"
  /\ global' = dramGlobal
  /\ hpc' = "end"
  /\ UNCHANGED <<commsVars, layout, call, actual, argument, tile, dramReturn, dramGlobal, result>>

\* end_device_execution; the replace_ function returns.
EndExecution ==
  /\ hpc = "end"
  /\ call' = call + 1
  /\ hpc' = IF call + 1 = Calls THEN "finished" ELSE "init"
  /\ UNCHANGED <<commsVars, layout, actual, argument, tile, dramReturn, dramGlobal, global, result>>

HostStep == \/ LoadProgram \/ SendArgument \/ StartExecution \/ Executed
            \/ ReceiveReturn \/ RetrieveGlobal \/ EndExecution

------------------------------------------------------------------------------
(* The tiles. *)

\* call_partitioned_functions: a tile beyond the list goes to the barrier.
CallFunction(t) ==
  /\ hpc = "executing"
  /\ tile[t] = "loaded"
  /\ tile' = [tile EXCEPT ![t] = IF t < Len(layout.list) THEN "function" ELSE "barrier"]
  /\ UNCHANGED <<commsVars, layout, hpc, call, actual, argument, dramReturn, dramGlobal, global,
                 result>>

Runs(t, f) == tile[t] = "function" /\ layout.list[t + 1] = f

\* The messages sent and received in this call.
SentNow     == Len(sent) - call * Sends
ReceivedNow == Len(rcvd) - call * Sends

\* The next message is sent once the argument is there; it is the first.
TileSend(t) ==
  /\ Runs(t, "sender")
  /\ argument[t] # Empty
  /\ SentNow < Sends
  /\ SendCall
  /\ SentNow = 0 => sent'[Len(sent')] = argument[t]
  /\ UNCHANGED callVars

TileSending(t) == Runs(t, "sender") /\ SenderStep /\ UNCHANGED callVars

\* The value and its flag are at the tile of the partition.
TileReceiving(t) ==
  /\ Runs(t, "receiver")
  /\ t = layout.receiver
  /\ ReceivedNow < Sends
  /\ ReceiverStep
  /\ UNCHANGED callVars

\* send_return, and the end of the function.
TileReturn(t) ==
  /\ Runs(t, "receiver")
  /\ ReceivedNow = Sends
  /\ dramReturn' = rcvd[Len(rcvd)]
  /\ dramGlobal' = dramGlobal + 1
  /\ tile' = [tile EXCEPT ![t] = "barrier"]
  /\ UNCHANGED <<commsVars, layout, hpc, call, actual, argument, global, result>>

TileSent(t) ==
  /\ Runs(t, "sender")
  /\ SentNow = Sends /\ spc = "idle"
  /\ tile' = [tile EXCEPT ![t] = "barrier"]
  /\ UNCHANGED <<commsVars, layout, hpc, call, actual, argument, dramReturn, dramGlobal, global,
                 result>>

TileStep(t) == \/ CallFunction(t) \/ TileSend(t) \/ TileSending(t) \/ TileReceiving(t)
               \/ TileReturn(t) \/ TileSent(t)

Network == NetStep /\ UNCHANGED callVars

RunNext == HostStep \/ Network \/ \E t \in TileIds : TileStep(t)

RunSafety == RunInit /\ [][RunNext]_runVars

\* Host and tiles keep running and the network delivers.
RunSpec == /\ RunSafety
           /\ WF_runVars(HostStep)
           /\ WF_runVars(Network)
           /\ \A t \in TileIds : WF_runVars(TileStep(t))

------------------------------------------------------------------------------
(* Properties. *)

\* The rank of every function in the list is the number of its partition: "this
\* will misplace tiles if IDs are skipped".
WellPlaced == \A n \in DOMAIN layout.list :
                n - 1 = IF layout.list[n] = "sender" THEN layout.sender ELSE layout.receiver

\* The host gets the value of this call, of the messages of this call, although the
\* value has no flag and that of the call before is still in DRAM
\* (bsg-host-communication.c:117, bsg-device-communication.c:79).
Returned ==
  hpc \in {"retrieve_global", "end"} =>
    /\ Len(sent) = (call + 1) * Sends
    /\ result = sent[Len(sent)]
    /\ sent[call * Sends + 1] = actual

\* The host's global variable has the updates of this call and of all before
\* (emit_llvm.ml:289, 652).
GlobalKept == hpc = "end" => global = call + 1

\* With a misplaced function no call returns: a tile waits for a value that has
\* gone to another tile, it never takes a wrong one
\* (bsg-device-communication.c:120).
StuckNotWrong == WellPlaced \/ (call = 0 /\ hpc \in {"init", "send_argument", "start", "executing"})

\* Between calls the address is unused; in a call only the function of the right
\* tile gets anywhere, and at the barrier it has done all of its part.
Listed(t, f) == t + 1 \in DOMAIN layout.list /\ layout.list[t + 1] = f

Between == hpc \in {"init", "send_argument", "start", "finished"}

QuietOK == Between => /\ spc = "idle" /\ rpc = "wait"
                      /\ Len(sent) = call * Sends /\ Len(rcvd) = call * Sends

LoadedOK ==
  /\ hpc \in {"send_argument", "start"} => /\ \A t \in TileIds : tile[t] = "loaded"
                                           /\ dramGlobal = 0
  /\ hpc = "send_argument" => \A t \in TileIds : argument[t] = Empty
  /\ hpc # "init" => \A t \in TileIds : argument[t] # Empty => t = layout.sender /\ argument[t] = actual

MessagesOK ==
  /\ call * Sends <= Len(rcvd) /\ Len(rcvd) <= Len(sent) /\ Len(sent) <= call * Sends + Sends
  /\ SentNow > 0 => Listed(layout.sender, "sender") /\ sent[call * Sends + 1] = actual
  /\ ReceivedNow > 0 => Listed(layout.receiver, "receiver")

TilesOK ==
  hpc = "executing" =>
    \A t \in TileIds :
      /\ Listed(t, "sender") /\ tile[t] = "barrier" =>
           t = layout.sender /\ SentNow = Sends /\ spc = "idle"
      /\ Listed(t, "receiver") /\ tile[t] = "barrier" =>
           /\ t = layout.receiver /\ ReceivedNow = Sends
           /\ dramReturn = rcvd[Len(rcvd)] /\ dramGlobal = 1
      /\ Listed(t, "receiver") /\ tile[t] # "barrier" => dramGlobal = 0

ReturnOK ==
  hpc \in {"receive_return", "retrieve_global", "end"} =>
    /\ spc = "idle" /\ SentNow = Sends /\ ReceivedNow = Sends
    /\ dramReturn = rcvd[Len(rcvd)] /\ dramGlobal = 1
    /\ hpc # "receive_return" => result = dramReturn
    /\ hpc = "end" => global = dramGlobal

CallOK ==
  /\ layout \in Layouts
  /\ hpc \in {"init", "send_argument", "start", "executing", "receive_return", "retrieve_global",
              "end", "finished"}
  /\ call \in Nat
  /\ actual \in Message
  /\ argument \in [TileIds -> Message \cup {Empty}]
  /\ tile \in [TileIds -> {"loaded", "function", "barrier"}]
  /\ \A t \in TileIds : tile[t] = "function" => hpc = "executing" /\ t + 1 \in DOMAIN layout.list

\* The inductive invariant.
RunInv == /\ IInv /\ CallOK
          /\ QuietOK /\ LoadedOK /\ MessagesOK /\ TilesOK /\ ReturnOK
          /\ StuckNotWrong

\* With the functions in the order of their partitions all calls return.
Completes == WellPlaced => <>(hpc = "finished")
==============================================================================
