---------------------------- MODULE CloneArguments ----------------------------
(***************************************************************************)
(* The C++ rewriting of the placed module                                  *)
(* (LLVMSupport/CloneAndReplaceArguments.cpp): on the device a partitioned *)
(* function gets a copy for every partition in use, in front of it, while  *)
(* the list of functions is walked; on the host it gets a declaration.     *)
(* How a function is written down is left out; a copy names the function   *)
(* it was copied from.                                                     *)
(***************************************************************************)
EXTENDS ConstraintGenerator

VARIABLES device,     \* the functions of deviceMd
          host,       \* the functions added to hostMd
          cursor,     \* the function of the device module being visited
          entered,    \* its clones are under way
          cloning,    \* the partitions it has not been cloned for
          commsIdx    \* the ids of communication addresses claimed

cloneVars == <<device, host, cursor, entered, cloning, commsIdx>>

------------------------------------------------------------------------------
\* CloneModule and what declareFunctionsFromModule adds to it.
Function(f) == [name |-> f.name, params |-> f.params, blocks |-> f.blocks, of |-> f.name]

Declaration(name) == [name |-> name, params |-> {}, blocks |-> <<>>, of |-> name]

deviceClone(file, skeleton) ==
  LET functions == Files[file].functions
  IN  [f \in DOMAIN functions |-> Function(functions[f])]
        \o [s \in DOMAIN skeleton |-> Declaration(skeleton[s])]

\* Every partition some instruction is on.
partitions == {previousPlacements[i].partition : i \in DOMAIN previousPlacements}

\* The declaration for the host; it has no body.
hostClone(f) == [name |-> <<"host_">> \o f.name, params |-> f.params, blocks |-> <<>>]

BodyOf(f) == UNION {ToSet(f.blocks[b]) : b \in DOMAIN f.blocks}

\* An instruction of f on the partition has the argument as an operand.
usedInPartition(f, a, partition) ==
  \E i \in BodyOf(f) : a \in operands[i] /\ previousPlacements[i].partition = partition

\* The uses are looked for in the declaration for the host.
receiving(f, partition) ==
  {a \in f.params : usedInPartition(hostClone(f), a, partition)}

\* replaceArgumentOnClone claims the id of a new address for each of them; the
\* clone receives the argument from there.
newCommunicationIDs(f, partition) == Cardinality(receiving(f, partition))

clone(f, partition) ==
  [name |-> f.name \o <<"_", partition>>, params |-> {"context"}, blocks |-> f.blocks,
   of |-> f.name]

------------------------------------------------------------------------------
\* The set-up is that of the driver.
CloneInit == /\ device = <<>>
             /\ host = <<>>
             /\ cursor = 1
             /\ entered = FALSE
             /\ cloning = {}
             /\ commsIdx = 0

Visited == device[cursor]

Cloned == cursor > Len(device)

\* Neither main nor the runtime is cloned.
SkipFunction == /\ ~Cloned /\ ~includeFunction(Visited)
                /\ cursor' = cursor + 1
                /\ UNCHANGED <<device, host, entered, cloning, commsIdx>>

EnterFunction == /\ ~Cloned /\ includeFunction(Visited) /\ ~entered
                 /\ host' = Append(host, hostClone(Visited))
                 /\ entered' = TRUE
                 /\ cloning' = partitions
                 /\ UNCHANGED <<device, cursor, commsIdx>>

\* CloneFunctionInto is given a value for every argument of hostClone and needs
\* one for every argument of the function itself: without parameters there is
\* nothing to be missed.
Mapped(f) == f.params = {}

\* The clone for the next partition is inserted in front of the function.
ClonePartition == /\ ~Cloned /\ entered /\ cloning # {} /\ Mapped(Visited)
                  /\ LET partition == Min(cloning)
                     IN  /\ device' = InsertAt(device, cursor, clone(Visited, partition))
                         /\ commsIdx' = commsIdx + newCommunicationIDs(Visited, partition)
                         /\ cloning' = cloning \ {partition}
                  /\ cursor' = cursor + 1
                  /\ UNCHANGED <<host, entered>>

\* Without them it reads a null pointer: the compiler stops.
CloneFails == ~Cloned /\ entered /\ cloning # {} /\ ~Mapped(Visited)

\* Bug: the next function is taken for one that is being cloned.
LeaveEntered == /\ ~Cloned /\ entered /\ cloning = {}
                /\ cursor' = cursor + 1
                /\ UNCHANGED <<device, host, entered, cloning, commsIdx>>

LeaveFunction == /\ ~Cloned /\ entered /\ cloning = {}
                 /\ cursor' = cursor + 1
                 /\ entered' = FALSE
                 /\ UNCHANGED <<device, host, cloning, commsIdx>>

CloneNext == SkipFunction \/ EnterFunction \/ ClonePartition \/ LeaveFunction

==============================================================================
