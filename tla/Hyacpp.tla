-------------------------------- MODULE Hyacpp --------------------------------
(***************************************************************************)
(* The C++ compiler (LLVMSupport/IRReader.cpp): its command line, the      *)
(* partitioning of the module and the modules it writes, one stage after   *)
(* the other.  Files that cannot be opened are those not in Files.         *)
(***************************************************************************)
EXTENDS CloneArguments, Options

CONSTANT Skeletons   \* the declarations found for the device: none if the
                     \* compiler is not started in the root of the repository

ASSUME SkeletonsAssumption ==
  \A skeleton \in Skeletons : skeleton \in Seq(ToSet(skeleton))

VARIABLES stage,    \* "usage", "options", "input", "partition", "clone" or "ended"
          exit,     \* the exit status, or Running or Aborted
          written   \* the files written, in order

driverVars == <<stage, exit, written>>
vars == <<genVars, cloneVars, optVars, driverVars>>

NoConfig == [rows |-> 0, columns |-> 0, timeout |-> 0, strategy |-> "linear"]

Running == -1
Aborted == -2

Init == /\ GenInit /\ md = "" /\ config = NoConfig
        /\ CloneInit
        /\ OptInit
        /\ stage = "usage"
        /\ exit = Running
        /\ written = <<>>

------------------------------------------------------------------------------
Output(part) == <<results["out"], part>>

End(status) == stage' = "ended" /\ exit' = status

\* argv holds the name of the program, too.
Usage == /\ stage = "usage"
         /\ IF argc < 2 THEN End(1) ELSE stage' = "options" /\ UNCHANGED exit
         /\ UNCHANGED <<genVars, cloneVars, optVars, written>>

Parse == /\ stage = "options"
         /\ OptNext
         /\ UNCHANGED <<genVars, cloneVars, driverVars>>

\* No handler is there for an exception of the parser.
Uncaught == /\ stage = "options" /\ parse = "exception"
            /\ End(Aborted)
            /\ UNCHANGED <<genVars, cloneVars, optVars, written>>

\* searchStrategies: what is not in the map is the first of the enumeration.
Strategy == IF results["strategy"] = "binary" THEN "binary" ELSE "linear"

Configure == /\ stage = "options" /\ parse = "parsed"
             /\ config' = [rows     |-> results["rows"],
                           columns  |-> results["columns"],
                           timeout  |-> results["timeout"],
                           strategy |-> Strategy]
             /\ stage' = "input"
             /\ UNCHANGED <<md, block, previousPlacements, recalled, search, time, phase, found,
                            optimum, cloneVars, optVars, exit, written>>

\* argv[1] is opened even if no argument was kept: then it is what stood first.
Input == IF argv[1].kind = "word" THEN argv[1].word ELSE ""

NoInput == /\ stage = "input" /\ Input \notin DOMAIN Files
           /\ End(1)
           /\ UNCHANGED <<genVars, cloneVars, optVars, written>>

ReadInput == /\ stage = "input" /\ Input \in DOMAIN Files
             /\ md' = Input
             /\ stage' = "partition"
             /\ UNCHANGED <<config, block, previousPlacements, recalled, search, time, phase,
                            found, optimum, cloneVars, optVars, exit, written>>

PartitionBlocks == /\ stage = "partition"
                   /\ GenNext
                   /\ UNCHANGED <<cloneVars, optVars, driverVars>>

\* Bug: the device is cloned while blocks are left.
CloneModulesEarly ==
  /\ stage = "partition" /\ phase = "start"
  /\ written' = Append(written, Output("_intermediate.ll"))
  /\ \E skeleton \in Skeletons : device' = deviceClone(md, skeleton)
  /\ stage' = "clone"
  /\ UNCHANGED <<genVars, host, cursor, entered, cloning, commsIdx, optVars, exit>>

\* The partitioned module is written and cloned for device and host.
CloneModules ==
  /\ stage = "partition" /\ Done
  /\ written' = Append(written, Output("_intermediate.ll"))
  /\ \E skeleton \in Skeletons : device' = deviceClone(md, skeleton)
  /\ stage' = "clone"
  /\ UNCHANGED <<genVars, host, cursor, entered, cloning, commsIdx, optVars, exit>>

ReplaceArguments == /\ stage = "clone"
                    /\ CloneNext
                    /\ UNCHANGED <<genVars, optVars, driverVars>>

ReplaceFails == /\ stage = "clone" /\ CloneFails
                /\ End(Aborted)
                /\ UNCHANGED <<genVars, cloneVars, optVars, written>>

WriteModules == /\ stage = "clone" /\ Cloned
                /\ written' = written \o <<Output("_device.ll"), Output("_host.ll"),
                                           Output("_comms.ll")>>
                /\ End(0)
                /\ UNCHANGED <<genVars, cloneVars, optVars>>

Next == \/ Usage \/ Parse \/ Uncaught \/ Configure \/ NoInput \/ ReadInput
        \/ PartitionBlocks \/ CloneModules \/ ReplaceArguments \/ ReplaceFails \/ WriteModules

Safety == Init /\ [][Next]_vars

\* The compiler keeps running, and every query is answered or times out.
Spec == Safety /\ WF_vars(Next)

------------------------------------------------------------------------------
(* Properties. *)

\* A compiler that succeeds has placed every instruction of the partitioned
\* functions, on the single partition 0 at least, and has written the four
\* modules for the name given (IRReader.cpp:125, 159).
AllPlaced ==
  exit = 0 =>
    /\ \A b \in DOMAIN Blocks[md] : At(b) \subseteq DOMAIN previousPlacements
    /\ written = <<Output("_intermediate.ll"), Output("_device.ll"), Output("_host.ll"),
                   Output("_comms.ll")>>

\* The nth of the partitions used.
Nth(used, n) == CHOOSE p \in used : Cardinality({q \in used : q < p}) = n - 1

\* The copies of a function, one for each partition in ascending order.
Copies(used, f) == [n \in 1 .. Cardinality(used) |-> clone(f, Nth(used, n))]

\* The functions with the copies of each partitioned one in front of it.
Preceding(used, f) == IF includeFunction(f) THEN Copies(used, f) ELSE <<>>

\* The first n functions so rewritten.
Rewritten(used, functions) ==
  LET after[n \in 0 .. Len(functions)] ==
        IF n = 0 THEN <<>>
        ELSE Append(after[n - 1] \o Preceding(used, functions[n]), functions[n])
  IN  after

\* The device gets the functions of the source and its declarations, each
\* partitioned function once for every partition: no copy is copied again, although
\* the list that is walked grows, and none is left out
\* (CloneAndReplaceArguments.cpp:96, 119).
ClonedOnce ==
  exit = 0 => \E skeleton \in Skeletons :
                LET source == deviceClone(md, skeleton)
                IN  device = Rewritten(partitions, source)[Len(source)]

\* Before the module is read nothing is placed; in between the generator's
\* invariant holds; after the last block everything is placed.
DriverInv ==
  /\ GenInv
  /\ stage \in {"usage", "options", "input"} =>
       block = 1 /\ phase = "start" /\ found = {} /\ Placed = {}
  /\ stage \in {"partition", "clone"} => md \in DOMAIN Files
  /\ stage # "ended" => exit = Running
  /\ stage \in {"usage", "options", "input", "partition"} => written = <<>>
  /\ stage = "clone" => Done /\ written = <<Output("_intermediate.ll")>>
  /\ AllPlaced

\* The compiler ends for every command line and every module, however the solver
\* answers: every search does, and no clone is cloned again.
Finishes == <>(stage = "ended")
==============================================================================
