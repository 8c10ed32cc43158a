----------------------------- MODULE HyacppProofs -----------------------------
(***************************************************************************)
(* Proofs about the C++ compiler as a whole: what is placed, for every     *)
(* command line, module and behaviour of the solver, and what is left of   *)
(* the command line while it is read.                                      *)
(***************************************************************************)
EXTENDS Hyacpp, SequenceTheorems, FiniteSetTheorems, WellFoundedInduction, TLAPS

------------------------------------------------------------------------------
(* The steps of the constraint generator, GenNext. *)

\* The blocks share no instruction.
LEMMA BlocksApart ==
  ASSUME md \in DOMAIN Files
  PROVE  /\ Len(Blocks[md]) \in Nat
         /\ \A b, c \in 1 .. Len(Blocks[md]) : b # c => At(b) \cap At(c) = {}
<1>1. /\ Blocks[md] \in Seq(Seq(DOMAIN Files[md].opcode))
      /\ \A b, c \in DOMAIN Blocks[md] :
           b # c => ToSet(Blocks[md][b]) \cap ToSet(Blocks[md][c]) = {}
  BY FilesAssumption
<1>2. Len(Blocks[md]) \in Nat /\ DOMAIN Blocks[md] = 1 .. Len(Blocks[md])
  BY <1>1
<1> QED BY <1>1, <1>2 DEF At

LEMMA PlacingIsAt == Placing = At(block)
BY DEF Placing, At, instructions

LEMMA Costs == \A i : costForInstruction(i) \in Nat
BY DEF costForInstruction, costForOpcode

\* What is known while a block is placed.
LEMMA PlacingApart ==
  ASSUME Covers, phase # "start"
  PROVE  /\ block \in Nat \ {0}
         /\ \A b \in Earlier : At(b) \cap Placing = {}
         /\ ~Falling => Placed \cap Placing = {}
<1>1. md \in DOMAIN Files /\ block \in 1 .. Len(Blocks[md]) /\ block \in Nat \ {0}
  BY BlocksApart DEF Covers, Done
<1>2. \A b \in Earlier : b \in 1 .. Len(Blocks[md]) /\ b # block
  BY <1>1, BlocksApart DEF Earlier
<1>3. \A b \in Earlier : At(b) \cap Placing = {}
  BY <1>1, <1>2, BlocksApart, PlacingIsAt
<1>4. ~Falling => Placed \cap Placing = {}
  BY <1>3 DEF Covers
<1> QED BY <1>1, <1>3, <1>4

\* An entry of the table stays as it is.
LEMMA Growing ==
  ASSUME NEW a, previousPlacements' = Adding(a)
  PROVE  /\ Placed' = Placed \cup DOMAIN a
         /\ \A i \in Placed : previousPlacements'[i] = previousPlacements[i]
         /\ \A i \in DOMAIN a : i \notin Placed => previousPlacements'[i] = a[i]
BY DEF Adding, Placed

\* The properties of the blocks placed before survive whatever is added.
LEMMA EarlierKept ==
  ASSUME GenInv, UNCHANGED <<md, config>>,
         \A i \in Placed : previousPlacements'[i] = previousPlacements[i]
  PROVE  /\ \A b \in Earlier : \A i, j \in At(b)' :
              i # j => Apart(previousPlacements'[i], previousPlacements'[j])
         /\ \A b \in found : \A i \in At(b)' : \A o \in operands'[i] \cap At(b)' :
              constrainCurrent(previousPlacements, i, o)'
         /\ \A b \in found, c \in Earlier : \A i \in At(b)', j \in At(c)' :
              /\ c < b
              /\ mayReadOrWriteMemory(i)' /\ mayReadOrWriteMemory(j)' /\ aliases(i, j)'
              => previousPlacements'[i].partition = previousPlacements'[j].partition
<1>1. /\ \A b : At(b)' = At(b)
      /\ operands' = operands /\ pointers' = pointers
      /\ \A i : mayReadOrWriteMemory(i)' = mayReadOrWriteMemory(i)
      /\ \A i, j : aliases(i, j)' = aliases(i, j)
  BY DEF At, operands, pointers, mayReadOrWriteMemory, opcode, aliases
<1>2. \A b \in Earlier : \A i \in At(b) :
        i \in Placed /\ previousPlacements'[i] = previousPlacements[i]
  BY DEF GenInv, Covers
<1>3. found \subseteq Earlier
  BY DEF GenInv, Covers
<1>4. \A b \in Earlier : \A i, j \in At(b) :
        i # j => Apart(previousPlacements'[i], previousPlacements'[j])
  BY <1>2 DEF GenInv, Exclusive
<1>5. ASSUME NEW b \in found, NEW i \in At(b), NEW o \in operands[i] \cap At(b)
      PROVE  constrainCurrent(previousPlacements, i, o)'
  <2>1. previousPlacements'[i] = previousPlacements[i] /\ previousPlacements'[o] = previousPlacements[o]
    BY <1>2, <1>3
  <2>2. constrainCurrent(previousPlacements, i, o)
    BY DEF GenInv, OperandsInTime
  <2> QED BY <1>1, <2>1, <2>2 DEF constrainCurrent
<1>6. ASSUME NEW b \in found, NEW c \in Earlier, NEW i \in At(b), NEW j \in At(c), c < b,
             mayReadOrWriteMemory(i), mayReadOrWriteMemory(j), aliases(i, j)
      PROVE  previousPlacements'[i].partition = previousPlacements'[j].partition
  BY <1>2, <1>3, <1>6 DEF GenInv, AliasesTogether
<1> QED BY <1>1, <1>4, <1>5, <1>6

\* A step within the block that adds at most instructions of the block.
LEMMA WithinBlock ==
  ASSUME GenInv, md \in DOMAIN Files, UNCHANGED <<md, config, block, found>>,
         Placed \subseteq Placed',
         \A i \in Placed : previousPlacements'[i] = previousPlacements[i],
         \A i \in Placed' : i \in Placed \/ (Falling' /\ i \in Placing),
         Falling => Falling',
         phase' \in {"search", "commit"}, phase = "start" => ~Done,
         ModelKept', FallbackKept'
  PROVE  GenInv'
<1>1. /\ Earlier' = Earlier /\ Placing' = Placing /\ Done' = Done
      /\ \A b : At(b)' = At(b)
  BY DEF Earlier, Placing, instructions, Done, At
<1>2. Covers'
  <2>1. md \in DOMAIN Files /\ block <= Len(Blocks[md]) + 1 /\ ~Done
    BY BlocksApart DEF GenInv, Covers, Done
  <2>2. \A b \in Earlier : At(b) \subseteq Placed'
    BY DEF GenInv, Covers
  <2>3. \A i \in Placed' : (\E b \in Earlier : i \in At(b)) \/ (Falling' /\ i \in Placing)
    BY DEF GenInv, Covers
  <2> QED BY <1>1, <2>1, <2>2, <2>3 DEF GenInv, Covers
<1>3. Exclusive'
  BY <1>1, EarlierKept DEF Exclusive, Apart
<1>4. OperandsInTime'
  BY <1>1, EarlierKept DEF OperandsInTime
<1>5. AliasesTogether'
  BY <1>1, EarlierKept DEF AliasesTogether
<1> QED BY <1>2, <1>3, <1>4, <1>5 DEF GenInv

\* The last step of a block: the table covers it.
LEMMA CoversNext ==
  ASSUME Covers, phase # "start", Placed' = Placed \cup Placing,
         block' = block + 1, phase' = "start", md' = md,
         found' = found \/ found' = found \cup {block}
  PROVE  Covers' /\ Earlier' = Earlier \cup {block}
<1>1. /\ block \in Nat \ {0} /\ md \in DOMAIN Files /\ Len(Blocks[md]) \in Nat
      /\ block <= Len(Blocks[md])
  BY BlocksApart DEF Covers, Done
<1>2. Earlier' = Earlier \cup {block}
  BY <1>1 DEF Earlier
<1>3. \A b : At(b)' = At(b)
  BY DEF At
<1>4. \A b \in Earlier' : At(b) \subseteq Placed'
  BY <1>2, PlacingIsAt DEF Covers
<1>5. \A i \in Placed' : \E b \in Earlier' : i \in At(b)
  BY <1>2, PlacingIsAt DEF Covers
<1>6. found' \subseteq Earlier' /\ block' \in Nat \ {0}
  BY <1>1, <1>2 DEF Covers
<1>7. block' <= Len(Blocks[md]) + 1
  BY <1>1
<1> QED BY <1>1, <1>2, <1>3, <1>4, <1>5, <1>6, <1>7 DEF Covers

------------------------------------------------------------------------------
(* The steps. *)

LEMMA InvStart == GenInv /\ md \in DOMAIN Files /\ Start => GenInv'
<1> SUFFICES ASSUME GenInv, md \in DOMAIN Files, Start PROVE GenInv'
  OBVIOUS
<1>1. /\ phase = "start" /\ ~Done /\ time' = 0 /\ bestModel' = None
      /\ phase' \in {"search", "commit"}
      /\ UNCHANGED <<md, config, block, previousPlacements, found>>
  BY DEF Start
<1>2. Placed' = Placed /\ ~Falling
  BY <1>1 DEF Placed, Falling
<1>3. Placing' = Placing
  BY <1>1 DEF Placing, instructions
<1>4. Placing' \cap Placed' = {}
  <2>1. /\ block \in 1 .. Len(Blocks[md])
        /\ \A b \in Earlier : b \in 1 .. Len(Blocks[md]) /\ b # block
    BY <1>1, BlocksApart DEF GenInv, Covers, Done, Earlier
  <2>2. \A i \in Placed : \E b \in Earlier : i \in At(b)
    BY <1>1 DEF GenInv, Covers, Falling
  <2> QED BY <1>2, <1>3, <2>1, <2>2, BlocksApart, PlacingIsAt
<1>5. FallbackKept'
  BY <1>1, <1>4 DEF FallbackKept
<1>6. ModelKept'
  BY <1>1 DEF ModelKept
<1> QED BY <1>1, <1>2, <1>5, <1>6, WithinBlock

\* The constraints depend on the table and the block only.
LEMMA SatisfiesKept ==
  ASSUME NEW a, Satisfies(a), UNCHANGED <<md, config, block, previousPlacements, recalled>>
  PROVE  Satisfies(a)'
BY DEF Satisfies, constrainOverlappingTimes, constrainInstruction, constrainMemoryInstruction,
       constrainOperand, constrainCurrent, constrainPrevious, comms, mayReadOrWriteMemory, aliases,
       opcode, operands, pointers, Placing, instructions, Apart

LEMMA ModelSatisfies ==
  ASSUME NEW latest, NEW a \in Models(latest)
  PROVE  Satisfies(a)
<1>1. a \in Schedules(latest)
  BY DEF Models
<1>2. DOMAIN a = Placing
  BY <1>1 DEF Schedules
<1> QED BY <1>2 DEF Models, Satisfies

LEMMA InvSat == GenInv /\ md \in DOMAIN Files /\ Sat => GenInv'
<1> SUFFICES ASSUME GenInv, md \in DOMAIN Files, Sat PROVE GenInv'
  OBVIOUS
<1>1. /\ phase = "search" /\ phase' \in {"search", "commit"}
      /\ UNCHANGED <<md, config, block, previousPlacements, recalled, time, found>>
  BY DEF Sat
<1>2. PICK latest \in 0 .. Goal - 1 : \E a \in Models(latest) :
        bestModel' = [place |-> a, latest |-> latest]
  BY DEF Sat
<1>3. PICK a \in Models(latest) : bestModel' = [place |-> a, latest |-> latest]
  BY <1>2
<1>4. Satisfies(a)'
  BY <1>1, ModelSatisfies, SatisfiesKept
<1>5. bestModel'.place = a /\ bestModel' # None
  <2>1. latest # -1
    BY <1>2
  <2>2. bestModel'.place = a /\ bestModel'.latest = latest /\ None.latest = -1
    BY <1>3 DEF None
  <2> QED BY <2>1, <2>2
<1>6. ModelKept'
  BY <1>4, <1>5 DEF ModelKept, Satisfies
<1>7. ~Falling /\ ~Falling'
  BY <1>1, <1>5 DEF Falling
<1>8. FallbackKept' /\ Placed' = Placed
  BY <1>1, <1>7 DEF GenInv, FallbackKept, Placed
<1> QED BY <1>1, <1>6, <1>7, <1>8, WithinBlock

LEMMA InvGiveUp == GenInv /\ md \in DOMAIN Files /\ GiveUp => GenInv'
<1> SUFFICES ASSUME GenInv, md \in DOMAIN Files, GiveUp PROVE GenInv'
  OBVIOUS
<1>1. /\ phase = "search" /\ phase' \in {"search", "commit"}
      /\ UNCHANGED <<md, config, block, previousPlacements, recalled, bestModel, time, found>>
  BY DEF GiveUp
<1>2. ~Falling /\ Placed' = Placed
  BY <1>1 DEF Falling, Placed
<1>3. ModelKept'
  <2>1. bestModel # None => Satisfies(bestModel.place)
    BY <1>1 DEF GenInv, ModelKept
  <2>2. bestModel # None => \A a : a = bestModel.place => Satisfies(a)'
    BY <1>1, <2>1, SatisfiesKept
  <2>3. bestModel'.place = bestModel.place
    BY <1>1
  <2> QED BY <1>1, <2>2, <2>3 DEF ModelKept, Satisfies
<1>4. FallbackKept'
  <2>1. time \in Nat /\ Placing' \cap Placed' = {}
    BY <1>1, <1>2, PlacingApart DEF GenInv, Placing, instructions, FallbackKept
  <2> QED BY <1>1, <2>1 DEF FallbackKept
<1> QED BY <1>1, <1>2, <1>3, <1>4, WithinBlock

\* A model entered into the table satisfies, with respect to the new table, the
\* constraints that were built from the old one.
LEMMA InvCommitModel == GenInv /\ md \in DOMAIN Files /\ CommitModel => GenInv'
<1> SUFFICES ASSUME GenInv, md \in DOMAIN Files, CommitModel PROVE GenInv'
  OBVIOUS
<1> DEFINE a == bestModel.place
<1>1. /\ phase = "commit" /\ bestModel # None /\ ~Falling
      /\ previousPlacements' = Adding(a) /\ found' = found \cup {block}
      /\ block' = block + 1 /\ phase' = "start"
      /\ UNCHANGED <<md, config, recalled>>
  BY DEF CommitModel, NextBlock, Falling
<1>2. /\ DOMAIN a = Placing
      /\ \A i, j \in Placing : i # j => Apart(a[i], a[j])
      /\ \A i \in Placing : constrainMemoryInstruction(a, i)
      /\ \A i \in Placing : \A o \in operands[i] : constrainOperand(a, i, o)
  BY <1>1 DEF GenInv, ModelKept, Satisfies, constrainOverlappingTimes, constrainInstruction
<1>3. /\ block \in Nat \ {0} /\ Placed \cap Placing = {}
      /\ \A b \in Earlier : At(b) \cap Placing = {} /\ At(b) \subseteq Placed
  BY <1>1, PlacingApart DEF GenInv, Covers
<1>4. /\ Placed' = Placed \cup Placing
      /\ \A i \in Placed : previousPlacements'[i] = previousPlacements[i]
      /\ \A i \in Placing : previousPlacements'[i] = a[i]
  BY <1>1, <1>2, <1>3, Growing
<1> HIDE DEF a
<1>5. Covers' /\ Earlier' = Earlier \cup {block}
  BY <1>1, <1>4, CoversNext DEF GenInv
<1>6. /\ \A b : At(b)' = At(b)
      /\ operands' = operands /\ pointers' = pointers
      /\ \A i : mayReadOrWriteMemory(i)' = mayReadOrWriteMemory(i)
      /\ \A i, j : aliases(i, j)' = aliases(i, j)
  BY <1>1 DEF At, operands, pointers, mayReadOrWriteMemory, opcode, aliases
<1>7. found \subseteq Earlier
  BY DEF GenInv, Covers
<1>8. Exclusive'
  <2>1. ASSUME NEW b \in Earlier', NEW i \in At(b), NEW j \in At(b), i # j
        PROVE  Apart(previousPlacements'[i], previousPlacements'[j])
    <3>1. CASE b = block
      BY <1>2, <1>4, <2>1, <3>1, PlacingIsAt
    <3>2. CASE b \in Earlier
      BY <1>1, <1>4, <1>6, <2>1, <3>2, EarlierKept
    <3> QED BY <1>5, <3>1, <3>2
  <2> QED BY <1>6, <2>1 DEF Exclusive, Apart
<1>9. OperandsInTime'
  <2>1. ASSUME NEW i \in Placing, NEW o \in operands[i], o \in Placing
        PROVE  constrainCurrent(previousPlacements, i, o)'
    <3>1. constrainCurrent(a, i, o)
      BY <1>2, <2>1 DEF constrainOperand
    <3> QED BY <1>4, <1>6, <2>1, <3>1 DEF constrainCurrent, comms
  <2>2. ASSUME NEW b \in found', NEW i \in At(b), NEW o \in operands[i] \cap At(b)
        PROVE  constrainCurrent(previousPlacements, i, o)'
    <3>1. CASE b = block
      BY <2>1, <2>2, <3>1, PlacingIsAt
    <3>2. CASE b \in found
      BY <1>1, <1>4, <1>6, <2>2, <3>2, EarlierKept
    <3> QED BY <1>1, <3>1, <3>2
  <2> QED BY <1>6, <2>2 DEF OperandsInTime
<1>10. AliasesTogether'
  <2>1. ASSUME NEW b \in found', NEW c \in Earlier', NEW i \in At(b), NEW j \in At(c), c < b,
               mayReadOrWriteMemory(i), mayReadOrWriteMemory(j), aliases(i, j)
        PROVE  previousPlacements'[i].partition = previousPlacements'[j].partition
    <3>1. CASE b = block
      <4>1. c \in Earlier
        BY <1>5, <2>1, <3>1, <1>3
      <4>2. i \in Placing /\ j \in DOMAIN previousPlacements
        BY <1>3, <2>1, <3>1, <4>1, PlacingIsAt DEF Placed
      <4>3. a[i].partition = previousPlacements[j].partition
        BY <1>2, <2>1, <4>2 DEF constrainMemoryInstruction
      <4> QED BY <1>4, <4>2, <4>3 DEF Placed
    <3>2. CASE b \in found
      <4>1. c \in Earlier
        BY <1>3, <1>5, <1>7, <2>1, <3>2 DEF Earlier
      <4> QED BY <1>1, <1>4, <1>6, <2>1, <3>2, <4>1, EarlierKept
    <3> QED BY <1>1, <3>1, <3>2
  <2> QED BY <1>6, <2>1 DEF AliasesTogether
<1>11. ModelKept' /\ FallbackKept'
  BY <1>1 DEF ModelKept, FallbackKept, Falling
<1> QED BY <1>5, <1>8, <1>9, <1>10, <1>11 DEF GenInv

\* The next instruction without a model starts where the ones before have ended.
LEMMA InvCommitFallback == GenInv /\ md \in DOMAIN Files /\ CommitFallback => GenInv'
<1> SUFFICES ASSUME GenInv, md \in DOMAIN Files, CommitFallback PROVE GenInv'
  OBVIOUS
<1>1. /\ phase = "commit" /\ bestModel = None /\ Falling
      /\ UNCHANGED <<md, config, block, recalled, bestModel, phase, found>>
  BY DEF CommitFallback, search, Falling
<1>2. PICK i \in Placing \ Placed :
        /\ previousPlacements' =
             Adding([j \in {i} |-> [partition |-> 0, startTime |-> time,
                                    endTime |-> time + costForInstruction(i)]])
        /\ time' = time + costForInstruction(i)
  BY DEF CommitFallback, Placed
<1> DEFINE new == [partition |-> 0, startTime |-> time, endTime |-> time + costForInstruction(i)]
<1>3. /\ Placed' = Placed \cup {i}
      /\ \A j \in Placed : previousPlacements'[j] = previousPlacements[j]
      /\ previousPlacements'[i] = new
  <2>1. DOMAIN [j \in {i} |-> new] = {i} /\ [j \in {i} |-> new][i] = new
    OBVIOUS
  <2> QED BY <1>2, <2>1, Growing
<1>4. time \in Nat /\ costForInstruction(i) \in Nat /\ time' \in Nat /\ time' >= time
  BY <1>1, <1>2, Costs DEF GenInv, FallbackKept
<1>5. Falling' /\ Placing' = Placing
  BY <1>1 DEF Falling, Placing, instructions
<1>6. \A j \in Placing \cap Placed : /\ previousPlacements[j].startTime \in Nat
                                    /\ previousPlacements[j].endTime \in Nat
                                    /\ previousPlacements[j].endTime <= time
  BY <1>1 DEF GenInv, FallbackKept
<1>7. \A j \in Placing \cap Placed : /\ Apart(previousPlacements[j], new)
                                    /\ Apart(new, previousPlacements[j])
  BY <1>4, <1>6 DEF Apart
<1>8. /\ new.startTime \in Nat /\ new.endTime \in Nat /\ new.endTime = time'
  BY <1>2, <1>4
<1> HIDE DEF new
<1>9. ASSUME NEW j \in Placing \cap Placed'
      PROVE  /\ previousPlacements'[j].startTime \in Nat
             /\ previousPlacements'[j].endTime \in Nat
             /\ previousPlacements'[j].endTime <= time'
  <2>1. CASE j = i
    BY <1>3, <1>4, <1>8, <2>1
  <2>2. CASE j \in Placed
    BY <1>3, <1>4, <1>6, <1>9, <2>2
  <2> QED BY <1>3, <2>1, <2>2
<1>10. ASSUME NEW j \in Placing \cap Placed', NEW k \in Placing \cap Placed', j # k
       PROVE  Apart(previousPlacements'[j], previousPlacements'[k])
  <2>1. CASE j \in Placed /\ k \in Placed
    BY <1>1, <1>3, <1>10, <2>1 DEF GenInv, FallbackKept
  <2>2. CASE j = i \/ k = i
    BY <1>3, <1>7, <1>10, <2>2
  <2> QED BY <1>3, <2>1, <2>2
<1>11. FallbackKept'
  BY <1>4, <1>5, <1>9, <1>10 DEF FallbackKept, Apart
<1>12. ModelKept'
  BY <1>1 DEF ModelKept
<1> QED BY <1>1, <1>3, <1>5, <1>11, <1>12, WithinBlock DEF GenInv, Covers

LEMMA InvEndFallback == GenInv /\ md \in DOMAIN Files /\ EndFallback => GenInv'
<1> SUFFICES ASSUME GenInv, md \in DOMAIN Files, EndFallback PROVE GenInv'
  OBVIOUS
<1>1. /\ phase = "commit" /\ bestModel = None /\ Falling
      /\ Placing \subseteq Placed /\ block' = block + 1 /\ phase' = "start"
      /\ UNCHANGED <<md, config, previousPlacements, recalled, found>>
  BY DEF EndFallback, NextBlock, Falling, Placed
<1>2. Placed' = Placed \cup Placing
  BY <1>1 DEF Placed
<1>3. Covers' /\ Earlier' = Earlier \cup {block} /\ block \in Nat \ {0}
  BY <1>1, <1>2, CoversNext DEF GenInv, Covers
<1>4. /\ \A b : At(b)' = At(b)
      /\ found \subseteq Earlier
  BY <1>1 DEF At, GenInv, Covers
<1>5. Exclusive'
  <2>1. ASSUME NEW b \in Earlier', NEW i \in At(b), NEW j \in At(b), i # j
        PROVE  Apart(previousPlacements'[i], previousPlacements'[j])
    <3>1. CASE b = block
      BY <1>1, <2>1, <3>1, PlacingIsAt DEF GenInv, FallbackKept
    <3>2. CASE b \in Earlier
      BY <1>1, <1>4, <2>1, <3>2, EarlierKept
    <3> QED BY <1>3, <3>1, <3>2
  <2> QED BY <1>4, <2>1 DEF Exclusive, Apart
<1>6. OperandsInTime'
  BY <1>1, EarlierKept DEF OperandsInTime
<1>7. AliasesTogether'
  <2>1. \A b \in found, c \in Earlier' : c < b => c \in Earlier
    BY <1>3, <1>4 DEF Earlier
  <2> QED BY <1>1, <2>1, EarlierKept DEF AliasesTogether
<1>8. ModelKept' /\ FallbackKept'
  BY <1>1 DEF ModelKept, FallbackKept, Falling
<1> QED BY <1>3, <1>5, <1>6, <1>7, <1>8 DEF GenInv

\* Every step of the generator keeps the invariant.
LEMMA InvGenNext == GenInv /\ md \in DOMAIN Files /\ GenNext => GenInv'
BY InvStart, InvSat, InvGiveUp, InvCommitModel, InvCommitFallback, InvEndFallback
   DEF GenNext, Unsat, Timeout

\* Nothing has been placed: the invariant holds for every file and configuration.
LEMMA InvGenInit == GenInit => GenInv
<1> SUFFICES ASSUME GenInit PROVE GenInv
  OBVIOUS
<1>1. block = 1 /\ phase = "start" /\ found = {} /\ Placed = {} /\ Earlier = {} /\ ~Falling
  BY DEF GenInit, NoPlacements, Placed, Earlier, Falling
<1> QED BY <1>1 DEF GenInv, Covers, ModelKept, FallbackKept, Exclusive, OperandsInTime,
                    AliasesTogether

------------------------------------------------------------------------------
(* Least and greatest elements, and definitions by recursion. *)

LEMMA LeastOf ==
  ASSUME NEW S \in SUBSET Nat, S # {}
  PROVE  Min(S) \in S /\ \A x \in S : Min(S) <= x
<1>1. PICK k \in S : \A j \in S : ~(<<j, k>> \in OpToRel(<, Nat))
  BY NatLessThanWellFounded, WFMin
<1>2. \A j \in S : k <= j
  <2> TAKE j \in S
  <2>1. j \in Nat /\ k \in Nat
    OBVIOUS
  <2>2. j < k => <<j, k>> \in OpToRel(<, Nat)
    BY <2>1 DEF OpToRel
  <2>3. ~(j < k)
    BY <1>1, <2>2
  <2> QED BY <2>1, <2>3
<1> QED BY <1>2 DEF Min

LEMMA GreatestOf ==
  ASSUME NEW S \in SUBSET Nat, NEW bound \in Nat, \A x \in S : x <= bound
  PROVE  /\ Max({0} \cup S) \in {0} \cup S
         /\ Max({0} \cup S) \in Nat
         /\ Max({0} \cup S) <= bound
         /\ \A x \in S : x <= Max({0} \cup S)
<1> DEFINE All == {0} \cup S
           Above == {n \in Nat : \A x \in All : x <= n}
<1>1. All \in SUBSET Nat /\ \A x \in All : x <= bound
  OBVIOUS
<1>2. Above \in SUBSET Nat /\ Above # {}
  <2>1. bound \in Above
    BY <1>1
  <2> QED BY <2>1
<1>3. Min(Above) \in Above /\ \A n \in Above : Min(Above) <= n
  <2> HIDE DEF Above
  <2> QED BY <1>2, LeastOf
<1> DEFINE top == Min(Above)
<1>4. top \in Nat /\ \A x \in All : x <= top
  BY <1>3
<1>5. top \in All
  <2> SUFFICES ASSUME top \notin All PROVE FALSE
    OBVIOUS
  <2>1. 0 \in All /\ top # 0 /\ top - 1 \in Nat
    BY <1>4
  <2>2. \A x \in All : x <= top - 1
    <3> TAKE x \in All
    <3>1. x \in Nat /\ x <= top /\ x # top
      BY <1>1, <1>4
    <3>2. top \in Nat
      BY <1>4
    <3> HIDE DEF top, All
    <3> QED BY <3>1, <3>2
  <2>3. top - 1 \in Above
    <3> HIDE DEF top
    <3> QED BY <2>1, <2>2
  <2>4. top <= top - 1
    BY <1>3, <2>3
  <2> HIDE DEF top
  <2> QED BY <1>4, <2>4
<1> HIDE DEF top
<1>6. Max(All) \in All /\ \A x \in All : x <= Max(All)
  <2>1. top \in All /\ \A x \in All : top >= x
    BY <1>1, <1>4, <1>5
  <2> HIDE DEF All
  <2>2. Max(All) \in All /\ \A x \in All : Max(All) >= x
    BY <2>1 DEF Max
  <2> QED BY <1>1, <2>2
<1> QED BY <1>1, <1>6

\* Induction up to a bound, stated of sets.
LEMMA UpTo ==
  ASSUME NEW N \in Nat, NEW S, 0 \in S, \A n \in 0 .. N : n + 1 \in 0 .. N /\ n \in S => n + 1 \in S
  PROVE  \A n \in 0 .. N : n \in S
<1> DEFINE Bad == {n \in 0 .. N : n \notin S}
<1> SUFFICES ASSUME Bad # {} PROVE FALSE
  OBVIOUS
<1>1. Min(Bad) \in Bad /\ \A n \in Bad : Min(Bad) <= n
  <2>1. Bad \in SUBSET Nat
    OBVIOUS
  <2> HIDE DEF Bad
  <2> QED BY <2>1, LeastOf
<1> DEFINE k == Min(Bad)
<1> HIDE DEF k
<1>2. k \in 0 .. N /\ k \notin S /\ \A n \in Bad : k <= n
  BY <1>1 DEF k
<1>3. k # 0 /\ k - 1 \in 0 .. N /\ k = (k - 1) + 1
  BY <1>2
<1>4. k - 1 \notin S
  BY <1>2, <1>3
<1>5. k - 1 \in Bad
  BY <1>3, <1>4
<1> QED BY <1>2, <1>5

\* What the recursive definitions of the model iterate.
Iterated(how, e, n, x) ==
  IF how = "sum" THEN e + costForOpcode(Files[x.file].opcode[x.block[n]])
  ELSE IF how = "roles" THEN RoleAfter(x, n, e)
  ELSE IF how = "kept" THEN
         IF Roles(x)[n] \in {"positional", "rest"} THEN Append(e, x[n]) ELSE e
  ELSE IF how = "rewritten" THEN Append(e \o Preceding(x.used, x.functions[n]), x.functions[n])
  ELSE IF how = "power" THEN 2 * e
  ELSE IF how = "digits" THEN NextDigit(x, e, x.digits[n])
  ELSE IF how = "value" THEN e * x.base + x.digits[n]
  ELSE [e EXCEPT ![x[n]] = startCost(e, x[n]) + costForInstruction(x[n])]

Run(how, start, N, x, after) ==
  after = [n \in 0 .. N |-> IF n = 0 THEN start ELSE Iterated(how, after[n - 1], n, x)]

LEMMA RunExists ==
  ASSUME NEW how, NEW start, NEW N \in Nat, NEW x
  PROVE  \E after : Run(how, start, N, x, after)
<1> DEFINE Runs == {n \in Nat : \E a : Run(how, start, n, x, a)}
<1>1. 0 \in Runs
  <2> DEFINE a == [k \in 0 .. 0 |-> start]
  <2>1. Run(how, start, 0, x, a)
    BY DEF Run
  <2> HIDE DEF a
  <2> QED BY <2>1
<1>2. ASSUME NEW n \in 0 .. N, n + 1 \in 0 .. N, n \in Runs
      PROVE  n + 1 \in Runs
  <2>1. PICK a : Run(how, start, n, x, a)
    BY <1>2
  <2> DEFINE e == Iterated(how, a[n], n + 1, x)
             c == [k \in 0 .. n + 1 |-> IF k = n + 1 THEN e ELSE a[k]]
  <2>2. n \in Nat /\ n + 1 \in Nat /\ n \in 0 .. n /\ n + 1 # 0 /\ n + 1 - 1 = n /\ n # n + 1
    BY <1>2
  <2> HIDE DEF e
  <2>3. \A k \in 0 .. n : a[k] = IF k = 0 THEN start ELSE Iterated(how, a[k - 1], k, x)
    BY <2>1 DEF Run
  <2>4. \A k \in 0 .. n : c[k] = a[k]
    BY <2>2
  <2>5. c[n + 1] = e
    BY <2>2
  <2>6. c = [k \in 0 .. n + 1 |-> c[k]]
    OBVIOUS
  <2> HIDE DEF c
  <2>7. \A k \in 0 .. n + 1 : c[k] = IF k = 0 THEN start ELSE Iterated(how, c[k - 1], k, x)
    <3> TAKE k \in 0 .. n + 1
    <3>1. CASE k = n + 1
      BY <2>2, <2>4, <2>5, <3>1 DEF e
    <3>2. CASE k = 0
      BY <2>2, <2>3, <2>4, <3>2
    <3>3. CASE k \in 1 .. n
      <4>1. k \in 0 .. n /\ k - 1 \in 0 .. n /\ k # 0
        BY <2>2, <3>3
      <4> QED BY <2>3, <2>4, <4>1
    <3> QED BY <2>2, <3>1, <3>2, <3>3
  <2>8. Run(how, start, n + 1, x, c)
    BY <2>6, <2>7 DEF Run
  <2> QED BY <2>2, <2>8
<1>3. \A n \in 0 .. N : n \in Runs
  <2> HIDE DEF Runs
  <2> QED BY <1>1, <1>2, UpTo
<1>4. N \in Runs
  <2> HIDE DEF Runs
  <2> QED BY <1>3
<1> QED BY <1>4

Stages(how, start, N, x, after) ==
  /\ after[0] = start
  /\ \A n \in 1 .. N : after[n] = Iterated(how, after[n - 1], n, x)

LEMMA SumStages ==
  ASSUME NEW file, NEW b, Len(b) \in Nat
  PROVE  \E after : /\ Stages("sum", 0, Len(b), [file |-> file, block |-> b], after)
                    /\ timeOf(file, b) = after[Len(b)]
<1> DEFINE N == Len(b)
           x == [file |-> file, block |-> b]
           run(a) == a = [n \in 0 .. N |-> IF n = 0 THEN 0
                                           ELSE a[n - 1] + costForOpcode(Files[file].opcode[b[n]])]
           after == CHOOSE a : run(a)
<1>1. \A a : Run("sum", 0, N, x, a) => run(a)
  BY DEF Run, Iterated
<1>2. run(after)
  <2>1. PICK a : Run("sum", 0, N, x, a)
    <3> HIDE DEF x
    <3> QED BY RunExists
  <2>2. run(a)
    BY <1>1, <2>1
  <2> QED BY <2>2
<1>3. timeOf(file, b) = after[N]
  BY DEF timeOf
<1> HIDE DEF after
<1>4. Stages("sum", 0, N, x, after)
  BY <1>2 DEF Stages, Iterated
<1> QED BY <1>3, <1>4

\* The time of a block on one partition is a number.
LEMMA TimeNat ==
  ASSUME NEW file, NEW b, Len(b) \in Nat
  PROVE  timeOf(file, b) \in Nat
<1> DEFINE x == [file |-> file, block |-> b]
<1>1. PICK after : Stages("sum", 0, Len(b), x, after) /\ timeOf(file, b) = after[Len(b)]
  BY SumStages
<1> DEFINE Natural == {n \in 0 .. Len(b) : after[n] \in Nat}
<1>2. 0 \in Natural
  BY <1>1 DEF Stages
<1>3. ASSUME NEW n \in 0 .. Len(b), n + 1 \in 0 .. Len(b), n \in Natural
      PROVE  n + 1 \in Natural
  <2>1. n + 1 \in 1 .. Len(b) /\ n + 1 - 1 = n
    BY <1>3
  <2>2. after[n + 1] = after[n] + costForOpcode(Files[file].opcode[b[n + 1]])
    BY <1>1, <2>1 DEF Stages, Iterated
  <2>3. \A op : costForOpcode(op) \in Nat
    BY DEF costForOpcode
  <2> QED BY <1>3, <2>1, <2>2, <2>3
<1>4. \A n \in 0 .. Len(b) : n \in Natural
  <2> HIDE DEF Natural
  <2> QED BY <1>2, <1>3, UpTo
<1> QED BY <1>1, <1>4

LEMMA PathStages ==
  ASSUME Len(instructions) \in Nat
  PROVE  \E after : /\ Stages("path", [i \in Placing |-> 0], Len(instructions), instructions, after)
                    /\ criticalPath
                         = Max({0} \cup {after[Len(instructions)][i] : i \in Placing})
<1> DEFINE N == Len(instructions)
           start == [i \in Placing |-> 0]
           run(a) == a = [n \in 0 .. N |->
                            IF n = 0 THEN start
                            ELSE [a[n - 1] EXCEPT ![instructions[n]] =
                                    startCost(a[n - 1], instructions[n])
                                      + costForInstruction(instructions[n])]]
           after == CHOOSE a : run(a)
<1>1. \A a : Run("path", start, N, instructions, a) => run(a)
  BY DEF Run, Iterated
<1>2. run(after)
  <2>1. PICK a : Run("path", start, N, instructions, a)
    <3> HIDE DEF start
    <3> QED BY RunExists
  <2>2. run(a)
    BY <1>1, <2>1
  <2> QED BY <2>2
<1>3. criticalPath = Max({0} \cup {after[N][i] : i \in Placing})
  BY DEF criticalPath
<1> HIDE DEF after
<1>4. Stages("path", start, N, instructions, after)
  <2>1. \A n \in 0 .. N : after[n] = IF n = 0 THEN start
                                     ELSE Iterated("path", after[n - 1], n, instructions)
    BY <1>2 DEF Iterated
  <2>2. 0 \in 0 .. N /\ \A n \in 1 .. N : n \in 0 .. N /\ n # 0
    OBVIOUS
  <2> HIDE DEF start
  <2> QED BY <2>1, <2>2 DEF Stages
<1> QED BY <1>3, <1>4

------------------------------------------------------------------------------
(* The search is that of GoalSearch. *)

InBlock == md \in DOMAIN Files /\ block \in 1 .. Len(Blocks[md])

LEMMA BlockFacts ==
  ASSUME InBlock
  PROVE  /\ Len(instructions) \in Nat
         /\ Placing = {instructions[n] : n \in 1 .. Len(instructions)}
         /\ sumTotalTime \in Nat
         /\ MaxTime \in Nat /\ sumTotalTime <= MaxTime
<1>1. Blocks[md] \in Seq(Seq(DOMAIN Files[md].opcode)) /\ block \in DOMAIN Blocks[md]
  BY FilesAssumption DEF InBlock
<1>2. instructions \in Seq(DOMAIN Files[md].opcode)
  BY <1>1 DEF instructions
<1>3. Len(instructions) \in Nat /\ DOMAIN instructions = 1 .. Len(instructions)
  BY <1>2
<1>4. Placing = {instructions[n] : n \in 1 .. Len(instructions)}
  BY <1>3 DEF Placing, ToSet
<1>5. sumTotalTime \in Nat
  BY <1>3, TimeNat DEF sumTotalTime
<1>6. MaxTime \in Nat /\ sumTotalTime <= MaxTime
  BY <1>1, MaxTimeAssumption DEF sumTotalTime, instructions, InBlock
<1> QED BY <1>3, <1>4, <1>5, <1>6

\* The costs of paths are numbers with a bound.
LEMMA PathNat ==
  ASSUME InBlock,
         NEW after, Stages("path", [i \in Placing |-> 0], Len(instructions), instructions, after)
  PROVE  \A n \in 0 .. Len(instructions) :
           after[n] \in [Placing -> Nat] /\ \E bound \in Nat : \A i \in Placing : after[n][i] <= bound
<1> DEFINE N == Len(instructions)
           Good == {n \in 0 .. N : /\ after[n] \in [Placing -> Nat]
                                   /\ \E bound \in Nat : \A i \in Placing : after[n][i] <= bound}
<1>1. N \in Nat /\ \A n \in 1 .. N : instructions[n] \in Placing
  BY BlockFacts
<1>2. 0 \in Good
  BY <1>1 DEF Stages
<1>3. ASSUME NEW n \in 0 .. N, n + 1 \in 0 .. N, n \in Good
      PROVE  n + 1 \in Good
  <2> DEFINE f == after[n]
             i == instructions[n + 1]
             S == {f[o] : o \in operands[i] \cap Placing}
  <2>1. n + 1 \in 1 .. N /\ n + 1 - 1 = n /\ i \in Placing
    BY <1>1, <1>3
  <2>2. PICK bound \in Nat : \A j \in Placing : f[j] <= bound
    BY <1>3
  <2>3. f \in [Placing -> Nat]
    BY <1>3
  <2>4. S \in SUBSET Nat /\ \A x \in S : x <= bound
    BY <2>2, <2>3
  <2>5. startCost(f, i) \in Nat /\ startCost(f, i) <= bound
    <3> HIDE DEF S
    <3>1. Max({0} \cup S) \in Nat /\ Max({0} \cup S) <= bound
      BY <2>4, GreatestOf
    <3> QED BY <3>1 DEF startCost, S
  <2> DEFINE e == startCost(f, i) + costForInstruction(i)
             top == bound + costForInstruction(i)
  <2>6. costForInstruction(i) \in Nat
    BY Costs
  <2>7. e \in Nat /\ top \in Nat /\ e <= top /\ bound <= top
    BY <2>5, <2>6
  <2>8. after[n + 1] = [f EXCEPT ![i] = e]
    <3> HIDE DEF S
    <3>1. after[n + 1] = Iterated("path", f, n + 1, instructions)
      BY <2>1 DEF Stages
    <3> QED BY <3>1 DEF Iterated
  <2> HIDE DEF e, top, f, i
  <2>9. after[n + 1] \in [Placing -> Nat]
    BY <2>3, <2>7, <2>8
  <2>10. \A j \in Placing : after[n + 1][j] <= top
    BY <2>2, <2>3, <2>7, <2>8
  <2> QED BY <2>7, <2>9, <2>10, <1>3
<1>4. \A n \in 0 .. N : n \in Good
  <2> HIDE DEF Good
  <2> QED BY <1>1, <1>2, <1>3, UpTo
<1> QED BY <1>4

LEMMA CriticalNat ==
  ASSUME InBlock
  PROVE  criticalPath \in Nat
<1> DEFINE N == Len(instructions)
<1>1. N \in Nat /\ N \in 0 .. N
  BY BlockFacts
<1>2. PICK after : /\ Stages("path", [i \in Placing |-> 0], N, instructions, after)
                   /\ criticalPath = Max({0} \cup {after[N][i] : i \in Placing})
  BY <1>1, PathStages
<1>3. after[N] \in [Placing -> Nat] /\ \E bound \in Nat : \A i \in Placing : after[N][i] <= bound
  BY <1>1, <1>2, PathNat
<1> DEFINE S == {after[N][i] : i \in Placing}
<1>4. PICK bound \in Nat : \A x \in S : x <= bound
  BY <1>3
<1>5. S \in SUBSET Nat
  BY <1>3
<1>6. Max({0} \cup S) \in Nat
  <2> HIDE DEF S
  <2> QED BY <1>4, <1>5, GreatestOf
<1> QED BY <1>2, <1>6

\* The times of a model, and its last end.
LEMMA ModelTimes ==
  ASSUME NEW latest \in Nat, NEW a \in Models(latest)
  PROVE  /\ DOMAIN a = Placing
         /\ \A i \in Placing : /\ a[i].startTime \in Nat
                               /\ a[i].endTime \in Nat
                               /\ a[i].endTime = a[i].startTime + costForInstruction(i)
                               /\ a[i].endTime <= latest
<1>1. PICK s \in [Placing -> Partitions \X (0 .. latest)] :
        a = [i \in Placing |-> [partition |-> s[i][1], startTime |-> s[i][2],
                                endTime |-> s[i][2] + costForInstruction(i)]]
  BY DEF Models, Schedules
<1>2. DOMAIN a = Placing
  BY <1>1
<1>3. ASSUME NEW i \in Placing
      PROVE  /\ a[i].startTime \in Nat
             /\ a[i].endTime = a[i].startTime + costForInstruction(i)
  <2>1. s[i][2] \in 0 .. latest
    OBVIOUS
  <2> QED BY <1>1, <2>1
<1>4. \A i \in Placing : a[i].endTime <= latest
  BY <1>2 DEF Models
<1> QED BY <1>2, <1>3, <1>4, Costs

LEMMA LastEndOf ==
  ASSUME NEW latest \in Nat, NEW a \in Models(latest)
  PROVE  /\ LastEnd(a) \in Nat /\ LastEnd(a) <= latest
         /\ \A i \in Placing : a[i].endTime <= LastEnd(a)
<1> DEFINE S == {a[i].endTime : i \in DOMAIN a}
<1>1. S \in SUBSET Nat /\ \A x \in S : x <= latest
  BY ModelTimes
<1>2. /\ LastEnd(a) \in Nat /\ LastEnd(a) <= latest
      /\ \A x \in S : x <= LastEnd(a)
  <2>1. LastEnd(a) = Max({0} \cup S)
    BY DEF LastEnd
  <2> HIDE DEF S
  <2> QED BY <1>1, <2>1, GreatestOf
<1>3. \A i \in Placing : a[i].endTime \in S
  BY ModelTimes
<1> QED BY <1>2, <1>3

\* A model is one for every later time, and for its last end.
LEMMA ModelFor ==
  ASSUME NEW latest \in Nat, NEW a \in Models(latest), NEW other \in Nat, LastEnd(a) <= other
  PROVE  a \in Models(other)
<1>1. PICK s \in [Placing -> Partitions \X (0 .. latest)] :
        a = [i \in Placing |-> [partition |-> s[i][1], startTime |-> s[i][2],
                                endTime |-> s[i][2] + costForInstruction(i)]]
  BY DEF Models, Schedules
<1>2. \A i \in Placing : a[i].endTime <= other /\ a[i].startTime <= other
  <2> TAKE i \in Placing
  <2>1. /\ a[i].startTime \in Nat /\ a[i].endTime \in Nat /\ costForInstruction(i) \in Nat
        /\ a[i].endTime = a[i].startTime + costForInstruction(i)
        /\ a[i].endTime <= LastEnd(a) /\ LastEnd(a) \in Nat
    BY ModelTimes, LastEndOf, Costs
  <2> QED BY <2>1
<1>3. s \in [Placing -> Partitions \X (0 .. other)]
  <2>1. \A i \in Placing : s[i][1] \in Partitions /\ s[i][2] \in 0 .. latest /\ s[i] = <<s[i][1], s[i][2]>>
    OBVIOUS
  <2>2. \A i \in Placing : s[i][2] = a[i].startTime
    BY <1>1
  <2>3. \A i \in Placing : s[i][2] \in 0 .. other
    BY <1>2, <2>1, <2>2
  <2>4. \A i \in Placing : s[i] \in Partitions \X (0 .. other)
    BY <2>1, <2>3
  <2> QED BY <2>4
<1>4. a \in Schedules(other)
  BY <1>1, <1>3 DEF Schedules
<1>5. DOMAIN a = Placing
  BY <1>1
<1> QED BY <1>2, <1>4, <1>5 DEF Models

\* No path is longer than a model of the block.
LEMMA PathBelow ==
  ASSUME InBlock, NEW latest \in Nat, NEW a \in Models(latest),
         NEW after, Stages("path", [i \in Placing |-> 0], Len(instructions), instructions, after)
  PROVE  \A n \in 0 .. Len(instructions) : \A i \in Placing : after[n][i] <= a[i].endTime
<1> DEFINE N == Len(instructions)
           Good == {n \in 0 .. N : \A i \in Placing : after[n][i] <= a[i].endTime}
<1>1. N \in Nat /\ \A n \in 1 .. N : instructions[n] \in Placing
  BY BlockFacts
<1>2. 0 \in Good
  <2>1. \A i \in Placing : after[0][i] = 0 /\ a[i].endTime \in Nat
    BY ModelTimes DEF Stages
  <2> QED BY <1>1, <2>1
<1>3. ASSUME NEW n \in 0 .. N, n + 1 \in 0 .. N, n \in Good
      PROVE  n + 1 \in Good
  <2> DEFINE f == after[n]
             i == instructions[n + 1]
             S == {f[o] : o \in operands[i] \cap Placing}
  <2>1. n + 1 \in 1 .. N /\ n + 1 - 1 = n /\ i \in Placing
    BY <1>1, <1>3
  <2>2. f \in [Placing -> Nat] /\ \A j \in Placing : f[j] <= a[j].endTime
    BY <1>3, PathNat
  <2>3. /\ a[i].startTime \in Nat
        /\ a[i].endTime = a[i].startTime + costForInstruction(i)
    BY <2>1, ModelTimes
  <2>4. \A o \in operands[i] \cap Placing : a[o].endTime \in Nat /\ a[o].endTime <= a[i].startTime
    <3> TAKE o \in operands[i] \cap Placing
    <3>1. DOMAIN a = Placing /\ a[o].endTime \in Nat
      BY ModelTimes
    <3>2. constrainInstruction(a, i)
      BY <2>1, <3>1 DEF Models
    <3>3. constrainCurrent(a, i, o)
      BY <3>1, <3>2 DEF constrainInstruction, constrainOperand
    <3> HIDE DEF i
    <3> QED BY <2>3, <3>1, <3>3 DEF constrainCurrent, comms
  <2>5. S \in SUBSET Nat /\ \A x \in S : x <= a[i].startTime
    <3>1. \A o \in operands[i] \cap Placing : f[o] \in Nat /\ f[o] <= a[i].startTime
      <4> HIDE DEF f, i
      <4> QED BY <2>2, <2>3, <2>4
    <3> QED BY <3>1
  <2>6. startCost(f, i) \in Nat /\ startCost(f, i) <= a[i].startTime
    <3> HIDE DEF S
    <3>1. Max({0} \cup S) \in Nat /\ Max({0} \cup S) <= a[i].startTime
      BY <2>3, <2>5, GreatestOf
    <3> QED BY <3>1 DEF startCost, S
  <2> DEFINE e == startCost(f, i) + costForInstruction(i)
  <2>7. costForInstruction(i) \in Nat
    BY Costs
  <2>8. e <= a[i].endTime
    <3> HIDE DEF f, i
    <3> QED BY <2>3, <2>6, <2>7
  <2>9. after[n + 1] = [f EXCEPT ![i] = e]
    <3> HIDE DEF S
    <3>1. after[n + 1] = Iterated("path", f, n + 1, instructions)
      BY <2>1 DEF Stages
    <3> QED BY <3>1 DEF Iterated
  <2> HIDE DEF e, f, i
  <2>10. \A j \in Placing : after[n + 1][j] <= a[j].endTime
    BY <2>2, <2>8, <2>9
  <2> QED BY <2>10, <1>3
<1>4. \A n \in 0 .. N : n \in Good
  <2> HIDE DEF Good
  <2> QED BY <1>1, <1>2, <1>3, UpTo
<1> QED BY <1>4

LEMMA CriticalBelow ==
  ASSUME InBlock, NEW latest \in Nat, NEW a \in Models(latest)
  PROVE  criticalPath <= LastEnd(a)
<1> DEFINE N == Len(instructions)
<1>1. N \in Nat /\ N \in 0 .. N
  BY BlockFacts
<1>2. PICK after : /\ Stages("path", [i \in Placing |-> 0], N, instructions, after)
                   /\ criticalPath = Max({0} \cup {after[N][i] : i \in Placing})
  BY <1>1, PathStages
<1> DEFINE S == {after[N][i] : i \in Placing}
<1>3. \A i \in Placing : /\ after[N][i] \in Nat /\ a[i].endTime \in Nat
                          /\ after[N][i] <= a[i].endTime /\ a[i].endTime <= LastEnd(a)
  BY <1>1, <1>2, PathNat, PathBelow, LastEndOf, ModelTimes
<1>4. LastEnd(a) \in Nat
  BY LastEndOf
<1>5. S \in SUBSET Nat /\ \A x \in S : x <= LastEnd(a)
  <2>1. \A i \in Placing : after[N][i] \in Nat /\ after[N][i] <= LastEnd(a)
    <3> TAKE i \in Placing
    <3> HIDE DEF N
    <3> QED BY <1>3, <1>4
  <2> QED BY <2>1
<1>6. Max({0} \cup S) <= LastEnd(a)
  <2> HIDE DEF S
  <2> QED BY <1>4, <1>5, GreatestOf
<1> QED BY <1>2, <1>6

LEMMA CostsNat == InBlock => sumTotalTime \in Nat /\ criticalPath \in Nat
BY BlockFacts, CriticalNat

\* What optimum says of the models of the block.
OptimumKnown ==
  /\ optimum \in Nat
  /\ criticalPath \in Nat
  /\ sumTotalTime > criticalPath => criticalPath <= optimum
  /\ \A latest \in 0 .. sumTotalTime : Models(latest) # {} <=> optimum <= latest

LEMMA OptimumIs ==
  InBlock /\ upperBound = sumTotalTime /\ optimum = Optimum => OptimumKnown
<1> SUFFICES ASSUME InBlock, upperBound = sumTotalTime, optimum = Optimum PROVE OptimumKnown
  OBVIOUS
<1> DEFINE T == sumTotalTime
           fit == Models(T)
           S == {LastEnd(a) : a \in fit}
<1>1. T \in Nat /\ criticalPath \in Nat
  BY BlockFacts, CriticalNat
<1>2. ASSUME NEW latest \in 0 .. T, NEW a \in Models(latest)
      PROVE  a \in fit
  <2>1. latest \in Nat /\ LastEnd(a) \in Nat /\ LastEnd(a) <= latest /\ latest <= T
    <3>1. latest \in Nat /\ latest <= T
      <4> HIDE DEF T
      <4> QED BY <1>1
    <3> HIDE DEF T
    <3> QED BY <3>1, LastEndOf
  <2>2. LastEnd(a) <= T
    <3> HIDE DEF T
    <3> QED BY <1>1, <2>1
  <2> HIDE DEF T
  <2> QED BY <1>1, <2>1, <2>2, ModelFor
<1>3. CASE fit = {}
  <2>1. optimum = T + 1
    BY <1>3 DEF Optimum
  <2>2. \A latest \in 0 .. T : Models(latest) = {}
    <3> HIDE DEF fit
    <3> QED BY <1>2, <1>3
  <2>3. optimum \in Nat /\ (T > criticalPath => criticalPath <= optimum)
    <3> HIDE DEF T
    <3> QED BY <1>1, <2>1
  <2>4. \A latest \in 0 .. T : ~(optimum <= latest)
    <3> HIDE DEF T
    <3> QED BY <1>1, <2>1
  <2> QED BY <1>1, <2>2, <2>3, <2>4 DEF OptimumKnown
<1>4. CASE fit # {}
  <2>1. optimum = Min(S)
    BY <1>4 DEF Optimum
  <2>2. S \in SUBSET Nat /\ S # {}
    <3>1. \A a \in fit : LastEnd(a) \in Nat
      <4> HIDE DEF T
      <4> QED BY <1>1, LastEndOf
    <3> HIDE DEF fit
    <3> QED BY <1>4, <3>1
  <2>3. optimum \in S /\ \A x \in S : optimum <= x
    <3> HIDE DEF S
    <3> QED BY <2>1, <2>2, LeastOf
  <2>4. PICK b \in fit : optimum = LastEnd(b)
    BY <2>3
  <2>5. optimum \in Nat /\ criticalPath <= optimum
    <3> HIDE DEF T
    <3> QED BY <1>1, <2>4, LastEndOf, CriticalBelow
  <2>6. ASSUME NEW latest \in 0 .. T, optimum <= latest PROVE Models(latest) # {}
    <3>1. latest \in Nat
      <4> HIDE DEF T
      <4> QED BY <1>1
    <3>2. b \in Models(latest)
      <4> HIDE DEF T
      <4> QED BY <1>1, <2>4, <2>6, <3>1, ModelFor
    <3> QED BY <3>2
  <2>7. ASSUME NEW latest \in 0 .. T, NEW a \in Models(latest) PROVE optimum <= latest
    <3>1. LastEnd(a) \in S
      <4>1. a \in fit
        BY <1>2, <2>7
      <4> HIDE DEF fit
      <4> QED BY <4>1
    <3>2. latest \in Nat
      <4> HIDE DEF T
      <4> QED BY <1>1
    <3>3. LastEnd(a) \in Nat /\ LastEnd(a) <= latest
      BY <3>2, LastEndOf
    <3>4. optimum <= LastEnd(a)
      <4> HIDE DEF S
      <4> QED BY <2>3, <3>1
    <3> QED BY <2>5, <3>2, <3>3, <3>4
  <2>8. \A latest \in 0 .. T : Models(latest) # {} <=> optimum <= latest
    <3> HIDE DEF T
    <3> QED BY <2>6, <2>7
  <2> QED BY <1>1, <2>5, <2>8 DEF OptimumKnown
<1> QED BY <1>3, <1>4

\* What is recalled does not change the costs.
LEMMA CostsKept ==
  ASSUME UNCHANGED <<md, block>>
  PROVE  sumTotalTime' = sumTotalTime /\ criticalPath' = criticalPath
<1>1. instructions' = instructions /\ Placing' = Placing /\ opcode' = opcode /\ operands' = operands
  BY DEF instructions, Placing, opcode, operands
<1>2. sumTotalTime' = sumTotalTime
  BY DEF sumTotalTime, instructions
<1>3. criticalPath' = criticalPath
  BY <1>1 DEF criticalPath, startCost, costForInstruction
<1> QED BY <1>2, <1>3

\* While the block, the table and what was recalled stay, so does the problem.
LEMMA ProblemKept ==
  ASSUME UNCHANGED <<md, config, block, previousPlacements, recalled>>
  PROVE  /\ sumTotalTime' = sumTotalTime /\ criticalPath' = criticalPath
         /\ \A latest : Models(latest)' = Models(latest)
<1>1. instructions' = instructions /\ Placing' = Placing /\ opcode' = opcode /\ operands' = operands
  BY DEF instructions, Placing, opcode, operands
<1>2. sumTotalTime' = sumTotalTime /\ criticalPath' = criticalPath
  BY CostsKept
<1>3. \A latest : Schedules(latest)' = Schedules(latest)
  BY <1>1 DEF Schedules, Partitions, costForInstruction
<1>4. \A a, i : constrainMemoryInstruction(a, i)' = constrainMemoryInstruction(a, i)
  BY <1>1 DEF constrainMemoryInstruction, mayReadOrWriteMemory, aliases
<1>5. pointers' = pointers
  BY DEF pointers
<1>6. \A a, i, o : constrainOperand(a, i, o)' = constrainOperand(a, i, o)
  BY <1>5 DEF constrainOperand, constrainCurrent, constrainPrevious, comms
<1>7. \A a, i : constrainInstruction(a, i)' = constrainInstruction(a, i)
  BY <1>1, <1>4, <1>6 DEF constrainInstruction
<1>8. \A a : constrainOverlappingTimes(a)' = constrainOverlappingTimes(a)
  BY DEF constrainOverlappingTimes, Apart
<1>9. \A latest : Models(latest)' = Models(latest)
  BY <1>3, <1>7, <1>8 DEF Models
<1> QED BY <1>2, <1>9

------------------------------------------------------------------------------
(* The compiler they are part of, and the command line. *)

\* Before anything is placed the generator's invariant holds of any module.
LEMMA FreshInv ==
  ASSUME block = 1, phase = "start", found = {}, Placed = {}
  PROVE  GenInv
<1>1. Earlier = {} /\ ~Falling
  BY DEF Earlier, Falling
<1> QED BY <1>1 DEF GenInv, Covers, ModelKept, FallbackKept, Exclusive, OperandsInTime,
                    AliasesTogether

LEMMA StutterInv == GenInv /\ UNCHANGED genVars => GenInv'
<1> SUFFICES ASSUME GenInv, UNCHANGED genVars PROVE GenInv'
  OBVIOUS
<1>1. UNCHANGED <<md, config, block, previousPlacements, recalled, bestModel, time, phase, found>>
  BY DEF genVars, search
<1>2. /\ Earlier' = Earlier /\ Placing' = Placing /\ Placed' = Placed
      /\ Falling' = Falling /\ Done' = Done /\ operands' = operands /\ pointers' = pointers
      /\ \A b : At(b)' = At(b)
      /\ \A i : mayReadOrWriteMemory(i)' = mayReadOrWriteMemory(i)
      /\ \A i, j : aliases(i, j)' = aliases(i, j)
  BY <1>1 DEF Earlier, Placing, Placed, Falling, Done, operands, pointers, At, instructions,
              mayReadOrWriteMemory, opcode, aliases
<1>3. Covers'
  BY <1>1, <1>2 DEF GenInv, Covers
<1>4. ModelKept'
  <2>1. phase # "start" /\ bestModel # None => Satisfies(bestModel.place)
    BY DEF GenInv, ModelKept
  <2>2. \A a : Satisfies(a) => Satisfies(a)'
    BY <1>1, SatisfiesKept
  <2> QED BY <1>1, <2>1, <2>2 DEF ModelKept, Satisfies
<1>5. FallbackKept'
  BY <1>1, <1>2 DEF GenInv, FallbackKept, Apart
<1>6. Exclusive'
  BY <1>1, <1>2 DEF GenInv, Exclusive, Apart
<1>7. OperandsInTime'
  BY <1>1, <1>2, EarlierKept DEF OperandsInTime
<1>8. AliasesTogether'
  BY <1>1, <1>2, EarlierKept DEF AliasesTogether
<1> QED BY <1>3, <1>4, <1>5, <1>6, <1>7, <1>8 DEF GenInv

\* After the last block all are behind.
LEMMA AllEarlier ==
  ASSUME GenInv, Done, md \in DOMAIN Files
  PROVE  \A b \in DOMAIN Blocks[md] : At(b) \subseteq DOMAIN previousPlacements
<1>1. /\ block \in Nat \ {0} /\ Len(Blocks[md]) \in Nat
      /\ DOMAIN Blocks[md] = 1 .. Len(Blocks[md]) /\ block > Len(Blocks[md])
  <2>1. Blocks[md] \in Seq(Seq(DOMAIN Files[md].opcode))
    BY FilesAssumption
  <2> QED BY <2>1 DEF GenInv, Covers, Done
<1>2. DOMAIN Blocks[md] \subseteq Earlier
  BY <1>1 DEF Earlier
<1> QED BY <1>2 DEF GenInv, Covers, Placed

\* The file that is written first, and the three that follow.
LEMMA FourFiles ==
  ASSUME NEW a, NEW b, NEW c, NEW d
  PROVE  <<a>> \o <<b, c, d>> = <<a, b, c, d>>
<1> DEFINE all == {a, b, c, d}
<1>1. <<a>> \in Seq(all) /\ <<b, c, d>> \in Seq(all) /\ <<a, b, c, d>> \in Seq(all)
  OBVIOUS
<1>2. Len(<<a>>) = 1 /\ Len(<<b, c, d>>) = 3 /\ Len(<<a, b, c, d>>) = 4
  OBVIOUS
<1>3. <<a>> \o <<b, c, d>> \in Seq(all) /\ Len(<<a>> \o <<b, c, d>>) = 4
  BY <1>1, <1>2, ConcatProperties
<1>4. \A i \in 1 .. 4 : (<<a>> \o <<b, c, d>>)[i] = <<a, b, c, d>>[i]
  BY <1>1, <1>2, ConcatProperties
<1> QED BY <1>1, <1>2, <1>3, <1>4, SeqEqual

LEMMA DriverInit == Init => DriverInv
<1> SUFFICES ASSUME Init PROVE DriverInv
  OBVIOUS
<1>1. block = 1 /\ phase = "start" /\ found = {} /\ Placed = {}
  BY DEF Init, GenInit, NoPlacements, Placed
<1>2. stage = "usage" /\ exit = Running /\ written = <<>>
  BY DEF Init
<1>3. Running # 0
  BY DEF Running
<1> QED BY <1>1, <1>2, <1>3, FreshInv DEF DriverInv, AllPlaced

LEMMA DriverNext == DriverInv /\ [Next]_vars => DriverInv'
<1> SUFFICES ASSUME DriverInv, [Next]_vars PROVE DriverInv'
  OBVIOUS
<1> USE DEF Running, Aborted
<1>1. CASE Usage
  <2>1. UNCHANGED <<genVars, written>> /\ GenInv'
    BY <1>1, StutterInv DEF Usage, DriverInv
  <2>2. block' = block /\ phase' = phase /\ found' = found /\ Placed' = Placed
    BY <2>1 DEF genVars, Placed
  <2> QED BY <1>1, <2>1, <2>2 DEF Usage, End, DriverInv, AllPlaced
<1>2. CASE Parse
  <2>1. UNCHANGED genVars /\ GenInv' /\ UNCHANGED <<stage, exit, written>> /\ stage = "options"
    BY <1>2, StutterInv DEF Parse, DriverInv, driverVars
  <2>2. block' = block /\ phase' = phase /\ found' = found /\ Placed' = Placed
    BY <2>1 DEF genVars, Placed
  <2> QED BY <2>1, <2>2 DEF DriverInv, AllPlaced
<1>3. CASE Uncaught \/ NoInput \/ ReplaceFails
  <2>1. UNCHANGED genVars /\ GenInv' /\ stage' = "ended" /\ exit' # 0
    BY <1>3, StutterInv DEF Uncaught, NoInput, ReplaceFails, End, DriverInv
  <2> QED BY <2>1 DEF DriverInv, AllPlaced
<1>4. CASE Configure \/ ReadInput
  <2>1. /\ block' = 1 /\ phase' = "start" /\ found' = {} /\ Placed' = {}
        /\ UNCHANGED <<exit, written>>
        /\ stage' = "input" \/ (stage' = "partition" /\ md' \in DOMAIN Files)
        /\ exit = -1 /\ written = <<>>
    BY <1>4 DEF Configure, ReadInput, DriverInv, Placed, search
  <2>2. GenInv'
    BY <2>1, FreshInv DEF GenInv, Covers, ModelKept, FallbackKept, Exclusive, OperandsInTime,
       AliasesTogether, Earlier, Falling
  <2> QED BY <2>1, <2>2 DEF DriverInv, AllPlaced
<1>5. CASE PartitionBlocks
  <2>1. stage = "partition" /\ GenNext /\ UNCHANGED driverVars /\ md \in DOMAIN Files
    BY <1>5 DEF PartitionBlocks, DriverInv
  <2>2. GenInv'
    BY <2>1, InvGenNext DEF DriverInv
  <2>3. md' = md
    BY <2>1 DEF GenNext, Start, Sat, Unsat, Timeout, GiveUp, CommitModel, CommitFallback,
                EndFallback
  <2> QED BY <2>1, <2>2, <2>3 DEF DriverInv, driverVars, AllPlaced
<1>6. CASE CloneModules
  <2>1. /\ UNCHANGED genVars /\ GenInv' /\ Done /\ stage' = "clone" /\ exit' = -1
        /\ written' = <<Output("_intermediate.ll")>> /\ md \in DOMAIN Files
        /\ UNCHANGED results
    BY <1>6, StutterInv DEF CloneModules, DriverInv, optVars
  <2>2. Done' = Done /\ md' = md
    BY <2>1 DEF Done, genVars
  <2>3. Output("_intermediate.ll")' = Output("_intermediate.ll")
    BY <2>1 DEF Output
  <2> QED BY <2>1, <2>2, <2>3 DEF DriverInv, AllPlaced
<1>7. CASE ReplaceArguments
  <2>1. UNCHANGED <<genVars, optVars, driverVars>> /\ GenInv' /\ stage = "clone"
    BY <1>7, StutterInv DEF ReplaceArguments, DriverInv
  <2>2. Done' = Done /\ md' = md /\ results' = results
    BY <2>1 DEF Done, genVars, optVars
  <2>3. Output("_intermediate.ll")' = Output("_intermediate.ll")
    BY <2>2 DEF Output
  <2> QED BY <2>1, <2>2, <2>3 DEF DriverInv, driverVars, AllPlaced
<1>8. CASE WriteModules
  <2>1. /\ UNCHANGED <<genVars, optVars>> /\ GenInv' /\ stage = "clone" /\ stage' = "ended"
        /\ Done /\ md \in DOMAIN Files
        /\ written = <<Output("_intermediate.ll")>>
        /\ written' = written \o <<Output("_device.ll"), Output("_host.ll"), Output("_comms.ll")>>
    BY <1>8, StutterInv DEF WriteModules, DriverInv, End
  <2>2. md' = md /\ previousPlacements' = previousPlacements /\ results' = results
    BY <2>1 DEF genVars, optVars
  <2>3. \A b \in DOMAIN Blocks[md] : At(b) \subseteq DOMAIN previousPlacements
    BY <2>1, AllEarlier DEF DriverInv
  <2>4. /\ \A part : Output(part)' = Output(part)
        /\ \A b : At(b)' = At(b)
    BY <2>2 DEF Output, At
  <2>5. written' = <<Output("_intermediate.ll"), Output("_device.ll"), Output("_host.ll"),
                     Output("_comms.ll")>>
    BY <2>1, FourFiles
  <2>6. AllPlaced'
    BY <2>2, <2>3, <2>4, <2>5 DEF AllPlaced
  <2> QED BY <2>1, <2>6 DEF DriverInv
<1>9. CASE UNCHANGED vars
  <2>1. UNCHANGED <<genVars, optVars, driverVars>> /\ GenInv'
    BY <1>9, StutterInv DEF vars, DriverInv
  <2>2. UNCHANGED <<md, block, phase, found, previousPlacements, results, stage, exit, written>>
    BY <2>1 DEF genVars, optVars, driverVars
  <2>3. /\ Placed' = Placed /\ Done' = Done
        /\ \A part : Output(part)' = Output(part)
        /\ \A b : At(b)' = At(b)
    BY <2>2 DEF Placed, Done, Output, At
  <2> QED BY <2>1, <2>2, <2>3 DEF DriverInv, AllPlaced
<1> QED BY <1>1, <1>2, <1>3, <1>4, <1>5, <1>6, <1>7, <1>8, <1>9 DEF Next


\* The search in a block: the bounds are times of the block, binary search keeps
\* them apart, and the models are those that optimum tells.
Searching ==
  /\ InBlock /\ OptimumKnown
  /\ lowerBound \in Nat /\ upperBound \in Nat
  /\ upperBound <= sumTotalTime /\ criticalPath < sumTotalTime
  /\ config.strategy = "binary" => lowerBound < upperBound

SearchInv ==
  /\ config.strategy \in {"linear", "binary"}
  /\ phase = "search" => Searching

LEMMA SearchInit == Init => SearchInv
<1> SUFFICES ASSUME Init PROVE SearchInv
  OBVIOUS
<1>1. config = NoConfig /\ phase = "start"
  BY DEF Init, GenInit
<1>2. config.strategy = "linear"
  BY <1>1 DEF NoConfig
<1> QED BY <1>1, <1>2 DEF SearchInv

\* The goal lies between the bounds.
LEMMA Goals ==
  ASSUME Searching
  PROVE  /\ Goal \in Nat /\ Goal <= upperBound
         /\ config.strategy = "binary" => lowerBound <= Goal
BY DEF Searching, Goal

LEMMA SearchingKept ==
  ASSUME UNCHANGED <<md, config, block, previousPlacements, recalled, optimum>>, Searching,
         lowerBound' \in Nat, upperBound' \in Nat, upperBound' <= upperBound,
         config.strategy = "binary" => lowerBound' < upperBound'
  PROVE  Searching'
<1>1. InBlock' /\ OptimumKnown'
  BY ProblemKept DEF Searching, InBlock, OptimumKnown
<1>2. /\ sumTotalTime' = sumTotalTime /\ criticalPath' = criticalPath /\ sumTotalTime \in Nat
  BY ProblemKept, BlockFacts DEF Searching
<1> HIDE DEF InBlock, OptimumKnown
<1> QED BY <1>1, <1>2 DEF Searching

LEMMA SearchStart ==
  ASSUME DriverInv, SearchInv, md \in DOMAIN Files, Start, phase' = "search"
  PROVE  Searching'
<1>1. InBlock'
  BY DEF Start, Done, InBlock, DriverInv, GenInv, Covers
<1>2. upperBound' = sumTotalTime' /\ optimum' = Optimum'
  BY DEF Start, sumTotalTime, instructions
<1>3. OptimumKnown'
  <2>1. (InBlock /\ upperBound = sumTotalTime /\ optimum = Optimum)' => OptimumKnown'
    BY OptimumIs, PTL
  <2> QED BY <1>1, <1>2, <2>1
<1>4. /\ sumTotalTime' \in Nat /\ criticalPath' \in Nat
      /\ upperBound' = sumTotalTime' /\ lowerBound' = criticalPath' /\ criticalPath' < sumTotalTime'
  <2>1. InBlock' => (sumTotalTime \in Nat /\ criticalPath \in Nat)'
    BY CostsNat, PTL
  <2>2. sumTotalTime' = sumTotalTime /\ criticalPath' = criticalPath
    BY CostsKept DEF Start
  <2>3. ~(sumTotalTime <= criticalPath)
    BY DEF Start
  <2> HIDE DEF InBlock
  <2> QED BY <1>1, <1>2, <2>1, <2>2, <2>3 DEF Start
<1> HIDE DEF InBlock, OptimumKnown
<1> QED BY <1>1, <1>3, <1>4 DEF Searching

LEMMA SearchStep ==
  ASSUME DriverInv, SearchInv, md \in DOMAIN Files, GenNext, UNCHANGED config
  PROVE  SearchInv'
<1> SUFFICES ASSUME phase' = "search" PROVE Searching'
  BY DEF SearchInv
<1>1. CASE Start
  BY <1>1, SearchStart
<1>2. CASE Sat
  <2>1. Searching
    BY <1>2 DEF Sat, SearchInv
  <2>2. PICK latest \in 0 .. Goal - 1 : upperBound' = latest /\ ~Settled(lowerBound, latest)
    BY <1>2 DEF Sat
  <2>3. UNCHANGED <<md, config, block, previousPlacements, recalled, optimum, lowerBound>>
    BY <1>2 DEF Sat
  <2>4. /\ upperBound' \in Nat /\ upperBound' <= upperBound /\ lowerBound' \in Nat
        /\ config.strategy = "binary" => lowerBound' < upperBound'
    <3>1. /\ Goal \in Nat /\ Goal <= upperBound /\ lowerBound \in Nat /\ upperBound \in Nat
      BY <2>1, Goals DEF Searching
    <3> HIDE DEF Goal
    <3> QED BY <2>2, <2>3, <3>1 DEF Settled
  <2> QED BY <2>1, <2>3, <2>4, SearchingKept
<1>3. CASE GiveUp
  <2>1. Searching
    BY <1>3 DEF GiveUp, SearchInv
  <2>2. /\ config.strategy = "binary" /\ ~Settled(Goal, upperBound)
        /\ lowerBound' = Goal
    BY <1>3 DEF GiveUp
  <2>3. UNCHANGED <<md, config, block, previousPlacements, recalled, optimum, upperBound>>
    BY <1>3 DEF GiveUp
  <2>4. upperBound' \in Nat /\ upperBound' <= upperBound /\ lowerBound' \in Nat /\ lowerBound' < upperBound'
    <3>1. /\ Goal \in Nat /\ upperBound \in Nat
      BY <2>1, Goals DEF Searching
    <3> HIDE DEF Goal
    <3> QED BY <2>2, <2>3, <3>1 DEF Settled
  <2> QED BY <2>1, <2>3, <2>4, SearchingKept
<1>4. CASE CommitModel \/ CommitFallback \/ EndFallback
  BY <1>4 DEF CommitModel, CommitFallback, EndFallback, NextBlock
<1> QED BY <1>1, <1>2, <1>3, <1>4 DEF GenNext, Unsat, Timeout

LEMMA SearchNext == DriverInv /\ SearchInv /\ [Next]_vars => SearchInv'
<1> SUFFICES ASSUME DriverInv, SearchInv, [Next]_vars PROVE SearchInv'
  OBVIOUS
<1>1. CASE PartitionBlocks
  <2>1. GenNext /\ md \in DOMAIN Files
    BY <1>1 DEF PartitionBlocks, DriverInv
  <2>2. config' = config
    BY <2>1 DEF GenNext, Start, Sat, Unsat, Timeout, GiveUp, CommitModel, CommitFallback,
                EndFallback
  <2> QED BY <2>1, <2>2, SearchStep
<1>2. CASE Configure
  <2>1. phase' = "start" /\ config'.strategy = Strategy
    BY <1>2 DEF Configure, DriverInv
  <2> QED BY <2>1 DEF SearchInv, Strategy
<1>3. CASE ReadInput
  <2>1. phase' = "start" /\ config' = config
    BY <1>3 DEF ReadInput, DriverInv
  <2> QED BY <2>1 DEF SearchInv
<1>4. CASE UNCHANGED genVars
  <2>1. /\ UNCHANGED <<md, config, block, previousPlacements, recalled, optimum>>
        /\ UNCHANGED <<lowerBound, upperBound, phase>>
    BY <1>4 DEF genVars, search
  <2>2. ASSUME Searching PROVE Searching'
    BY <2>1, <2>2, SearchingKept DEF Searching
  <2> QED BY <2>1, <2>2 DEF SearchInv
<1>5. UNCHANGED vars => UNCHANGED genVars
  BY DEF vars
<1> QED BY <1>1, <1>2, <1>3, <1>4, <1>5
        DEF Next, Usage, Parse, Uncaught, NoInput, CloneModules, ReplaceArguments, ReplaceFails,
            WriteModules

\* A step of the generator in the search is one of GoalSearch.
LEMMA SearchSteps ==
  ASSUME DriverInv, SearchInv, phase = "search", md \in DOMAIN Files, GenNext
  PROVE  Search!Next
<1>1. Searching
  BY DEF SearchInv
<1>2. Search!Goal = Goal /\ (\A lo, up : Search!Settled(lo, up) = Settled(lo, up))
  BY DEF Search!Goal, Goal, Search!Settled, Settled
<1>3. /\ Goal \in Nat /\ Goal <= upperBound /\ upperBound \in Nat /\ upperBound <= sumTotalTime
      /\ sumTotalTime \in Nat /\ sumTotalTime <= MaxTime /\ MaxTime \in Nat
      /\ optimum \in Nat
  BY <1>1, Goals, BlockFacts DEF Searching, OptimumKnown
<1>4. \A latest \in 0 .. sumTotalTime : Models(latest) # {} <=> optimum <= latest
  BY <1>1 DEF Searching, OptimumKnown
<1>5. config.strategy # "incremental"
  BY DEF SearchInv
<1>6. Search!Answers = {latest \in 0 .. Goal - 1 : optimum <= latest}
  <2> HIDE DEF Goal
  <2> QED BY <1>2, <1>3, <1>5 DEF Search!Answers, Search!Within, Search!Times
<1>7. UNCHANGED <<md, config, block, optimum>> => UNCHANGED Search!block
  BY CostsKept DEF Search!block
<1>8. CASE Sat
  <2>1. PICK latest \in 0 .. Goal - 1 : \E a \in Models(latest) :
          /\ bestModel' = [place |-> a, latest |-> latest]
          /\ upperBound' = latest
          /\ phase' = IF Settled(lowerBound, latest) THEN "commit" ELSE "search"
    BY <1>8 DEF Sat
  <2>2. latest \in Search!Answers
    <3>1. latest \in 0 .. sumTotalTime
      <4> HIDE DEF Goal
      <4> QED BY <1>3
    <3> QED BY <1>4, <1>6, <2>1, <3>1
  <2>3. Search!Tightened(latest) = latest
    BY <1>5 DEF Search!Tightened
  <2> QED BY <1>2, <1>7, <1>8, <2>1, <2>2, <2>3 DEF Sat, Search!Next, Search!Sat
<1>9. GiveUp => Search!GiveUp
  BY <1>2, <1>7 DEF GiveUp, Search!GiveUp
<1>10. CASE Unsat
  <2>1. Models(Goal - 1) = {}
    BY <1>10 DEF Unsat
  <2>2. Search!Answers = {}
    <3> SUFFICES ASSUME NEW latest \in 0 .. Goal - 1, optimum <= latest PROVE FALSE
      BY <1>6
    <3>1. Goal - 1 \in 0 .. sumTotalTime /\ optimum <= Goal - 1
      <4> HIDE DEF Goal
      <4> QED BY <1>3
    <3> QED BY <1>4, <2>1, <3>1
  <2> QED BY <1>9, <1>10, <2>2 DEF Unsat, Search!Next, Search!Unsat
<1>11. CASE Timeout
  BY <1>9, <1>11 DEF Timeout, Search!Next, Search!Timeout
<1>12. ~Start /\ ~CommitModel /\ ~CommitFallback /\ ~EndFallback
  BY DEF Start, CommitModel, CommitFallback, EndFallback
<1> QED BY <1>8, <1>10, <1>11, <1>12 DEF GenNext

------------------------------------------------------------------------------
(* Numbers. *)

LEMMA ModSmall ==
  ASSUME NEW x \in Nat, NEW M \in Nat \ {0}
  PROVE  x % M \in 0 .. M - 1 /\ (x < M => x % M = x)
OBVIOUS

LEMMA PowerStages ==
  \E after : Stages("power", 1, Width, 0, after) /\ Half = after[Width - 1]
                                                 /\ TwoTo[Width] = after[Width]
<1> DEFINE run(a) == a = [n \in 0 .. Width |-> IF n = 0 THEN 1 ELSE 2 * a[n - 1]]
           after == CHOOSE a : run(a)
<1>1. \A a : Run("power", 1, Width, 0, a) => run(a)
  BY DEF Run, Iterated
<1>2. run(after)
  <2>1. PICK a : Run("power", 1, Width, 0, a)
    BY RunExists, WidthAssumption
  <2>2. run(a)
    BY <1>1, <2>1
  <2> QED BY <2>2
<1>3. TwoTo = after
  BY DEF TwoTo
<1> HIDE DEF after
<1>4. Stages("power", 1, Width, 0, after)
  BY <1>2, WidthAssumption DEF Stages, Iterated
<1> QED BY <1>3, <1>4 DEF Half

\* Half of the values of an int are negative.
LEMMA Powers == Half \in Nat \ {0} /\ TwoTo[Width] = 2 * Half
<1>1. PICK after : /\ Stages("power", 1, Width, 0, after) /\ Half = after[Width - 1]
                   /\ TwoTo[Width] = after[Width]
  BY PowerStages
<1> DEFINE Good == {n \in 0 .. Width : after[n] \in Nat \ {0}}
<1>2. 0 \in Good
  BY <1>1, WidthAssumption DEF Stages
<1>3. ASSUME NEW n \in 0 .. Width, n + 1 \in 0 .. Width, n \in Good PROVE n + 1 \in Good
  <2>1. n + 1 \in 1 .. Width /\ n + 1 - 1 = n
    BY <1>3, WidthAssumption
  <2>2. after[n + 1] = 2 * after[n]
    BY <1>1, <2>1 DEF Stages, Iterated
  <2> QED BY <1>3, <2>2
<1>4. \A n \in 0 .. Width : n \in Good
  <2> HIDE DEF Good
  <2> QED BY <1>2, <1>3, UpTo, WidthAssumption
<1>5. Width - 1 \in 0 .. Width /\ Width \in 1 .. Width
  BY WidthAssumption
<1>6. after[Width] = 2 * after[Width - 1]
  BY <1>1, <1>5 DEF Stages, Iterated
<1> QED BY <1>1, <1>4, <1>5, <1>6

LEMMA DigitStages ==
  ASSUME NEW text, Len(text.digits) \in Nat, text.digits # <<>>
  PROVE  \E after : /\ Stages("digits", 0, Len(text.digits), text, after)
                    /\ Unsigned(text) = after[Len(text.digits)]
<1> DEFINE N == Len(text.digits)
           run(a) == a = [n \in 0 .. N |->
                            IF n = 0 THEN 0 ELSE NextDigit(text, a[n - 1], text.digits[n])]
           after == CHOOSE a : run(a)
<1>1. \A a : Run("digits", 0, N, text, a) => run(a)
  BY DEF Run, Iterated
<1>2. run(after)
  <2>1. PICK a : Run("digits", 0, N, text, a)
    BY RunExists
  <2>2. run(a)
    BY <1>1, <2>1
  <2> QED BY <2>2
<1>3. Unsigned(text) = after[N]
  BY DEF Unsigned
<1> HIDE DEF after
<1>4. Stages("digits", 0, N, text, after)
  <2>1. N \in Nat
    OBVIOUS
  <2> HIDE DEF N
  <2>2. 0 \in 0 .. N /\ \A n \in 1 .. N : n \in 0 .. N /\ n # 0
    BY <2>1
  <2>3. after[0] = 0 /\ \A n \in 1 .. N : after[n] = NextDigit(text, after[n - 1], text.digits[n])
    BY <1>2, <2>2
  <2>4. \A n, e : Iterated("digits", e, n, text) = NextDigit(text, e, text.digits[n])
    BY DEF Iterated
  <2> QED BY <2>3, <2>4 DEF Stages
<1> QED BY <1>3, <1>4

LEMMA MeaningStages ==
  ASSUME NEW text, Len(text.digits) \in Nat
  PROVE  \E value : /\ Stages("value", 0, Len(text.digits), text, value)
                    /\ Meaning(text) = IF text.negative THEN -value[Len(text.digits)]
                                       ELSE value[Len(text.digits)]
<1> DEFINE N == Len(text.digits)
           run(a) == a = [n \in 0 .. N |->
                            IF n = 0 THEN 0 ELSE a[n - 1] * text.base + text.digits[n]]
           value == CHOOSE a : run(a)
<1>1. \A a : Run("value", 0, N, text, a) => run(a)
  BY DEF Run, Iterated
<1>2. run(value)
  <2>1. PICK a : Run("value", 0, N, text, a)
    BY RunExists
  <2>2. run(a)
    BY <1>1, <2>1
  <2> QED BY <2>2
<1>3. Meaning(text) = IF text.negative THEN -value[N] ELSE value[N]
  BY DEF Meaning
<1> HIDE DEF value
<1>4. Stages("value", 0, N, text, value)
  <2>1. N \in Nat
    OBVIOUS
  <2> HIDE DEF N
  <2>2. 0 \in 0 .. N /\ \A n \in 1 .. N : n \in 0 .. N /\ n # 0
    BY <2>1
  <2>3. value[0] = 0 /\ \A n \in 1 .. N : value[n] = value[n - 1] * text.base + text.digits[n]
    BY <1>2, <2>2
  <2>4. \A n, e : Iterated("value", e, n, text) = e * text.base + text.digits[n]
    BY DEF Iterated
  <2> QED BY <2>3, <2>4 DEF Stages
<1> QED BY <1>3, <1>4

\* All digits are digits to the base.
Legible(text) == /\ text.digits # <<>>
                 /\ \A k \in DOMAIN text.digits : text.digits[k] < text.base

\* A text of which no digit is refused has legible digits only, and the result
\* is a number.
LEMMA ReadLegible ==
  ASSUME NEW text, IsText(text), Unsigned(text) # Refused
  PROVE  Legible(text) /\ Unsigned(text) \in Nat
<1> DEFINE d == text.digits
           N == Len(d)
<1>1. /\ d \in Seq(Nat) /\ N \in Nat /\ DOMAIN d = 1 .. N /\ \A k \in 1 .. N : d[k] \in Nat
      /\ text.base \in {10, 16} /\ d # <<>>
  BY DEF IsText, Unsigned
<1>2. PICK a : Stages("digits", 0, N, text, a) /\ Unsigned(text) = a[N]
  BY <1>1, DigitStages
<1>3. \A k \in 1 .. N : a[k] = NextDigit(text, a[k - 1], d[k])
  BY <1>2 DEF Stages, Iterated
<1> HIDE DEF N, d
<1> DEFINE Good == {n \in 0 .. N : \/ a[n] = Refused
                                   \/ a[n] \in Nat /\ \A k \in 1 .. n : d[k] < text.base}
<1>4. 0 \in Good
  BY <1>1, <1>2 DEF Stages
<1>5. ASSUME NEW n \in 0 .. N, n + 1 \in 0 .. N, n \in Good PROVE n + 1 \in Good
  <2>1. n + 1 \in 1 .. N /\ n + 1 - 1 = n
    BY <1>1, <1>5
  <2> DEFINE next == (a[n] * text.base + d[n + 1]) % TwoTo[Width]
  <2>2. a[n + 1] = IF a[n] = Refused \/ d[n + 1] >= text.base \/ a[n] > next
                   THEN Refused ELSE next
    BY <1>3, <2>1 DEF NextDigit
  <2>3. CASE a[n + 1] = Refused
    BY <1>5, <2>3
  <2>4. CASE a[n + 1] # Refused
    <3>1. /\ a[n] # Refused /\ ~(d[n + 1] >= text.base) /\ a[n + 1] = next
      BY <2>2, <2>4
    <3>2. a[n] \in Nat /\ \A k \in 1 .. n : d[k] < text.base
      BY <1>5, <3>1
    <3>3. a[n] * text.base + d[n + 1] \in Nat
      <4>1. d[n + 1] \in Nat
        BY <1>1, <2>1
      <4>2. a[n] \in Nat
        BY <3>2
      <4> DEFINE x == a[n]
                 y == d[n + 1]
      <4>3. x \in Nat /\ y \in Nat /\ text.base \in {10, 16}
        BY <1>1, <4>1, <4>2
      <4> HIDE DEF x, y
      <4>4. x * text.base + y \in Nat
        BY <4>3
      <4> QED BY <4>4 DEF x, y
    <3>4. next \in Nat
      <4> DEFINE x == a[n] * text.base + d[n + 1]
      <4>1. x \in Nat /\ TwoTo[Width] \in Nat \ {0}
        BY <3>3, Powers
      <4> HIDE DEF x
      <4>2. x % TwoTo[Width] \in 0 .. TwoTo[Width] - 1
        BY <4>1, ModSmall
      <4>3. x % TwoTo[Width] \in Nat
        BY <4>1, <4>2
      <4> QED BY <4>3 DEF x
    <3> HIDE DEF next
    <3>5. \A k \in 1 .. n + 1 : d[k] < text.base
      BY <1>1, <2>1, <3>1, <3>2
    <3> QED BY <1>5, <3>1, <3>4, <3>5
  <2> QED BY <2>3, <2>4
<1>6. \A n \in 0 .. N : n \in Good
  <2> HIDE DEF Good
  <2> QED BY <1>1, <1>4, <1>5, UpTo
<1>7. a[N] \in Nat /\ \A k \in 1 .. N : d[k] < text.base
  BY <1>1, <1>2, <1>6
<1> QED BY <1>1, <1>2, <1>7 DEF Legible, d, N

\* A number of which half the values of an int are no less is read as it is
\* written: nothing wraps around.
LEMMA ReadExactly ==
  ASSUME NEW text, IsText(text), Legible(text),
         NEW value, Stages("value", 0, Len(text.digits), text, value),
         value[Len(text.digits)] <= Half
  PROVE  Unsigned(text) = value[Len(text.digits)] /\ Unsigned(text) \in Nat
<1> DEFINE d == text.digits
           N == Len(d)
<1>1. /\ d \in Seq(Nat) /\ N \in Nat /\ DOMAIN d = 1 .. N /\ text.base \in {10, 16}
      /\ \A k \in 1 .. N : d[k] \in Nat /\ d[k] < text.base
      /\ d # <<>>
  BY DEF IsText, Legible
<1>2. PICK a : Stages("digits", 0, N, text, a) /\ Unsigned(text) = a[N]
  BY <1>1, DigitStages
<1>3. /\ a[0] = 0 /\ value[0] = 0
      /\ \A k \in 1 .. N : /\ a[k] = NextDigit(text, a[k - 1], d[k])
                           /\ value[k] = value[k - 1] * text.base + d[k]
  BY <1>2 DEF Stages, Iterated
<1>4. value[N] <= Half
  OBVIOUS
<1> HIDE DEF N, d
<1> DEFINE Natural == {n \in 0 .. N : value[n] \in Nat}
<1>5. 0 \in Natural
  BY <1>1, <1>3
<1>6. ASSUME NEW n \in 0 .. N, n + 1 \in 0 .. N, n \in Natural PROVE n + 1 \in Natural
  <2>1. n + 1 \in 1 .. N /\ n + 1 - 1 = n
    BY <1>1, <1>6
  <2> DEFINE x == value[n]
             y == d[n + 1]
  <2>2. value[n + 1] = x * text.base + y
    BY <1>3, <2>1
  <2>3. x \in Nat /\ y \in Nat /\ text.base \in {10, 16}
    BY <1>1, <1>6, <2>1
  <2> HIDE DEF x, y
  <2>4. x * text.base + y \in Nat
    BY <2>3
  <2> QED BY <1>6, <2>2, <2>4
<1>7. \A n \in 0 .. N : n \in Natural
  <2> HIDE DEF Natural
  <2> QED BY <1>1, <1>5, <1>6, UpTo
<1>8. \A n \in 0 .. N : value[n] \in Nat
  BY <1>7
<1>9. \A n \in 1 .. N : value[n - 1] <= value[n]
  <2> TAKE n \in 1 .. N
  <2>1. n - 1 \in 0 .. N /\ n \in 0 .. N
    BY <1>1
  <2>2. value[n - 1] \in Nat /\ value[n] = value[n - 1] * text.base + d[n]
    BY <1>3, <1>8, <2>1
  <2> QED BY <1>1, <2>2
<1> DEFINE Small == {n \in 0 .. N : N - n \in 0 .. N => value[N - n] <= Half}
<1>10. 0 \in Small
  BY <1>1, <1>4
<1>11. ASSUME NEW n \in 0 .. N, n + 1 \in 0 .. N, n \in Small PROVE n + 1 \in Small
  <2> DEFINE j == N - n
  <2>1. j \in 1 .. N /\ j - 1 = N - (n + 1) /\ j \in 0 .. N /\ j - 1 \in 0 .. N
    BY <1>1, <1>11
  <2>2. value[j] <= Half
    BY <1>11, <2>1
  <2> HIDE DEF j
  <2>3. value[j - 1] <= Half
    BY <1>8, <1>9, <2>1, <2>2, Powers
  <2> QED BY <1>11, <2>1, <2>3
<1>12. \A n \in 0 .. N : n \in Small
  <2> HIDE DEF Small
  <2> QED BY <1>1, <1>10, <1>11, UpTo
<1>13. \A n \in 0 .. N : value[n] <= Half
  <2> TAKE n \in 0 .. N
  <2>1. N - n \in 0 .. N /\ N - (N - n) = n
    BY <1>1
  <2> QED BY <1>12, <2>1
<1> DEFINE Good == {n \in 0 .. N : a[n] = value[n]}
<1>14. 0 \in Good
  BY <1>1, <1>3
<1>15. ASSUME NEW n \in 0 .. N, n + 1 \in 0 .. N, n \in Good PROVE n + 1 \in Good
  <2>1. n + 1 \in 1 .. N /\ n + 1 - 1 = n
    BY <1>1, <1>15
  <2> DEFINE x == a[n] * text.base + d[n + 1]
             next == x % TwoTo[Width]
  <2>2. a[n + 1] = IF a[n] = Refused \/ d[n + 1] >= text.base \/ a[n] > next
                   THEN Refused ELSE next
    BY <1>3, <2>1 DEF NextDigit
  <2>3. x = value[n + 1] /\ a[n] \in Nat /\ a[n] = value[n]
    BY <1>3, <1>8, <1>15, <2>1
  <2> HIDE DEF x
  <2>4. x \in Nat /\ x < TwoTo[Width] /\ TwoTo[Width] \in Nat \ {0}
    BY <1>8, <1>13, <2>3, <1>15, Powers
  <2>5. next = x
    BY <2>4, ModSmall
  <2> HIDE DEF next
  <2>6. a[n] # Refused
    BY <2>3 DEF Refused
  <2>7. ~(d[n + 1] >= text.base)
    BY <1>1, <2>1
  <2>8. ~(a[n] > next)
    BY <1>8, <1>9, <2>1, <2>3, <2>5
  <2> QED BY <1>15, <2>2, <2>3, <2>5, <2>6, <2>7, <2>8
<1>16. \A n \in 0 .. N : n \in Good
  <2> HIDE DEF Good
  <2> QED BY <1>1, <1>14, <1>15, UpTo
<1>17. N \in 0 .. N
  BY <1>1
<1> QED BY <1>2, <1>8, <1>16, <1>17 DEF d, N

\* What the parser accepts is what the text says, if that is an int; what it
\* refuses is illegible or is no int.
LEMMA ReadNumber ==
  ASSUME NEW text, IsText(text)
  PROVE  /\ InRange(text) => Signed(text) \in Int
         /\ InRange(text) /\ Fits(Meaning(text)) => Signed(text) = Meaning(text)
         /\ ~InRange(text) => ~Legible(text) \/ ~Fits(Meaning(text))
<1> DEFINE N == Len(text.digits)
<1>1. N \in Nat /\ text.negative \in BOOLEAN
  BY DEF IsText
<1>2. PICK value : /\ Stages("value", 0, N, text, value)
                   /\ Meaning(text) = IF text.negative THEN -value[N] ELSE value[N]
  BY <1>1, MeaningStages
<1>3. Half \in Nat \ {0}
  BY Powers
<1> DEFINE m == value[N]
<1>4. m \in Int
  <2> DEFINE Whole == {n \in 0 .. N : value[n] \in Int}
  <2>1. 0 \in Whole
    BY <1>1, <1>2 DEF Stages
  <2>2. ASSUME NEW n \in 0 .. N, n + 1 \in 0 .. N, n \in Whole PROVE n + 1 \in Whole
    <3>1. n + 1 \in 1 .. N /\ n + 1 - 1 = n
      BY <1>1, <2>2
    <3>2. value[n + 1] = value[n] * text.base + text.digits[n + 1]
      BY <1>2, <3>1 DEF Stages, Iterated
    <3>3. text.digits[n + 1] \in Nat /\ text.base \in {10, 16}
      BY <3>1 DEF IsText
    <3> QED BY <2>2, <3>2, <3>3
  <2>3. \A n \in 0 .. N : n \in Whole
    <3> HIDE DEF Whole
    <3> QED BY <1>1, <2>1, <2>2, UpTo
  <2>4. N \in 0 .. N
    BY <1>1
  <2> QED BY <2>3, <2>4
<1>5. Fits(Meaning(text)) => m <= Half /\ (~text.negative => m < Half)
  <2> HIDE DEF m, N
  <2>1. CASE text.negative
    <3>1. Meaning(text) = -m
      BY <1>2, <2>1 DEF m
    <3> QED BY <1>3, <1>4, <2>1, <3>1 DEF Fits
  <2>2. CASE ~text.negative
    <3>1. Meaning(text) = m
      BY <1>2, <2>2 DEF m
    <3> QED BY <1>3, <1>4, <2>2, <3>1 DEF Fits
  <2> QED BY <1>1, <2>1, <2>2
<1>6. Legible(text) /\ Fits(Meaning(text)) => Unsigned(text) = m /\ Unsigned(text) \in Nat
  BY <1>2, <1>5, ReadExactly
<1>7. InRange(text) => Legible(text) /\ Unsigned(text) \in Nat
  BY ReadLegible DEF InRange
<1>8. Legible(text) /\ Fits(Meaning(text)) => InRange(text)
  BY <1>3, <1>4, <1>5, <1>6 DEF InRange, Refused
<1>9. InRange(text) => Signed(text) \in Int
  BY <1>7 DEF Signed
<1>10. InRange(text) /\ Fits(Meaning(text)) => Signed(text) = Meaning(text)
  BY <1>2, <1>6, <1>7 DEF Signed
<1> QED BY <1>8, <1>9, <1>10

------------------------------------------------------------------------------
(* The command line. *)

LEMMA RolesAre ==
  ASSUME NEW line, Len(line) \in Nat
  PROVE  /\ Roles(line)[0] = "positional"
         /\ \A k \in 1 .. Len(line) : Roles(line)[k] = RoleAfter(line, k, Roles(line)[k - 1])
<1> DEFINE N == Len(line)
           run(a) == a = [k \in 0 .. N |-> IF k = 0 THEN "positional"
                                           ELSE RoleAfter(line, k, a[k - 1])]
           role == CHOOSE a : run(a)
<1>1. \A a : Run("roles", "positional", N, line, a) => run(a)
  BY DEF Run, Iterated
<1>2. run(role)
  <2>1. PICK a : Run("roles", "positional", N, line, a)
    BY RunExists
  <2>2. run(a)
    BY <1>1, <2>1
  <2> QED BY <2>2
<1>3. Roles(line) = role
  BY DEF Roles
<1> HIDE DEF role
<1>4. \A k \in 0 .. N : role[k] = IF k = 0 THEN "positional" ELSE RoleAfter(line, k, role[k - 1])
  BY <1>2
<1>5. 0 \in 0 .. N /\ \A k \in 1 .. N : k \in 0 .. N /\ k # 0
  OBVIOUS
<1> QED BY <1>3, <1>4, <1>5

\* One more argument that is kept.
With(s, arg) == Append(s, arg)

LEMMA WithOne ==
  ASSUME NEW V, NEW s \in Seq(V), NEW arg \in V
  PROVE  With(s, arg) \in Seq(V)
BY DEF With

LEMMA KeptIs ==
  ASSUME NEW line, Len(line) \in Nat
  PROVE  /\ Kept(line)[0] = <<>>
         /\ \A k \in 1 .. Len(line) :
              IF Roles(line)[k] \in {"positional", "rest"}
              THEN Kept(line)[k] = With(Kept(line)[k - 1], line[k])
              ELSE Kept(line)[k] = Kept(line)[k - 1]
<1> DEFINE N == Len(line)
           run(a) == a = [k \in 0 .. N |->
                            IF k = 0 THEN <<>>
                            ELSE IF Roles(line)[k] \in {"positional", "rest"}
                                 THEN Append(a[k - 1], line[k]) ELSE a[k - 1]]
           kept == CHOOSE a : run(a)
<1>1. \A a : Run("kept", <<>>, N, line, a) => run(a)
  BY DEF Run, Iterated
<1>2. run(kept)
  <2>1. PICK a : Run("kept", <<>>, N, line, a)
    BY RunExists
  <2>2. run(a)
    BY <1>1, <2>1
  <2> QED BY <2>2
<1>3. Kept(line) = kept
  BY DEF Kept
<1> HIDE DEF kept
<1>4. \A k \in 0 .. N : kept[k] = IF k = 0 THEN <<>>
                                  ELSE IF Roles(line)[k] \in {"positional", "rest"}
                                       THEN With(kept[k - 1], line[k]) ELSE kept[k - 1]
  BY <1>2 DEF With
<1>5. 0 \in 0 .. N /\ \A k \in 1 .. N : k \in 0 .. N /\ k # 0
  OBVIOUS
<1> QED BY <1>3, <1>4, <1>5

\* What is kept are arguments, no more than there are.
LEMMA KeptSeq ==
  ASSUME NEW line \in CommandLines
  PROVE  /\ line \in Seq(ToSet(line)) /\ Len(line) \in Nat /\ DOMAIN line = 1 .. Len(line)
         /\ \A k \in 0 .. Len(line) : Kept(line)[k] \in Seq(ToSet(line))
<1> DEFINE N == Len(line)
           V == ToSet(line)
           Good == {k \in 0 .. N : Kept(line)[k] \in Seq(V)}
<1>1. line \in Seq(V)
  BY CommandLinesAssumption
<1> HIDE DEF V
<1>2. N \in Nat /\ DOMAIN line = 1 .. N /\ \A k \in 1 .. N : line[k] \in V
  BY <1>1
<1> DEFINE K == Kept(line)
<1>6. /\ K[0] = <<>>
      /\ \A k \in 1 .. N : IF Roles(line)[k] \in {"positional", "rest"}
                            THEN K[k] = With(K[k - 1], line[k]) ELSE K[k] = K[k - 1]
  BY <1>2, KeptIs
<1> HIDE DEF K
<1>3. 0 \in Good
  <2>1. <<>> \in Seq(V)
    OBVIOUS
  <2>2. K[0] \in Seq(V)
    BY <1>6, <2>1
  <2>3. 0 \in 0 .. N
    BY <1>2
  <2> QED BY <2>2, <2>3 DEF K
<1>4. ASSUME NEW k \in 0 .. N, k + 1 \in 0 .. N, k \in Good PROVE k + 1 \in Good
  <2>1. k + 1 \in 1 .. N /\ k + 1 - 1 = k
    BY <1>2, <1>4
  <2>2. K[k + 1] = With(K[k], line[k + 1]) \/ K[k + 1] = K[k]
    BY <1>6, <2>1
  <2>3. K[k] \in Seq(V) /\ line[k + 1] \in V
    BY <1>2, <1>4, <2>1 DEF K
  <2>4. K[k + 1] \in Seq(V)
    BY <2>2, <2>3, WithOne
  <2> QED BY <1>4, <2>4 DEF K
<1>5. \A k \in 0 .. N : k \in Good
  <2> HIDE DEF Good
  <2> QED BY <1>2, <1>3, <1>4, UpTo
<1> QED BY <1>1, <1>2, <1>5 DEF V

\* What stands behind "--" is kept as it is.
LEMMA KeptRest ==
  ASSUME NEW line \in CommandLines, NEW c \in 1 .. Len(line), Roles(line)[c] = "end"
  PROVE  \A k \in c .. Len(line) :
           /\ Roles(line)[k] \in {"end", "rest"}
           /\ Len(Kept(line)[k]) = Len(Kept(line)[c - 1]) + (k - c)
           /\ \A j \in 1 .. Len(Kept(line)[c - 1]) : Kept(line)[k][j] = Kept(line)[c - 1][j]
           /\ \A j \in 1 .. k - c : Kept(line)[k][Len(Kept(line)[c - 1]) + j] = line[c + j]
<1> DEFINE N == Len(line)
           V == ToSet(line)
           K == Kept(line)
           p == Len(K[c - 1])
           Right(k) == /\ Roles(line)[k] \in {"end", "rest"}
                       /\ Len(K[k]) = p + (k - c)
                       /\ \A j \in 1 .. p : K[k][j] = K[c - 1][j]
                       /\ \A j \in 1 .. k - c : K[k][p + j] = line[c + j]
           Good == {k \in 0 .. N : k >= c => Right(k)}
<1>1. N \in Nat /\ c \in 1 .. N /\ c - 1 \in 0 .. N
  BY KeptSeq
<1>2. \A k \in 0 .. N : K[k] \in Seq(V)
  BY KeptSeq
<1>3. \A k \in 1 .. N : line[k] \in V
  BY KeptSeq
<1>4. \A k \in 1 .. N : IF Roles(line)[k] \in {"positional", "rest"}
                        THEN K[k] = With(K[k - 1], line[k]) ELSE K[k] = K[k - 1]
  BY <1>1, KeptIs
<1>5. \A k \in 1 .. N : Roles(line)[k] = RoleAfter(line, k, Roles(line)[k - 1])
  BY <1>1, RolesAre
<1> HIDE DEF K, V, N
<1>6. p \in Nat
  BY <1>1, <1>2
<1> HIDE DEF p
<1>7. 0 \in Good
  BY <1>1
<1>8. ASSUME NEW k \in 0 .. N, k + 1 \in 0 .. N, k \in Good PROVE k + 1 \in Good
  <2>1. k + 1 \in 1 .. N /\ k + 1 - 1 = k /\ k \in Nat /\ c \in Nat
    BY <1>1, <1>8
  <2>2. CASE k + 1 < c
    BY <1>1, <1>8, <2>2
  <2>3. CASE k + 1 = c
    <3>1. K[k + 1] = K[c - 1]
      BY <1>4, <2>1, <2>3
    <3>2. Roles(line)[k + 1] \in {"end", "rest"}
      BY <2>3
    <3>3. Len(K[k + 1]) = p
      BY <3>1 DEF p
    <3>4. k + 1 - c = 0 /\ p + 0 = p
      BY <1>6, <2>1, <2>3
    <3>5. Len(K[k + 1]) = p + (k + 1 - c)
      BY <3>3, <3>4
    <3>6. \A j \in 1 .. p : K[k + 1][j] = K[c - 1][j]
      BY <3>1
    <3>7. 1 .. k + 1 - c = {}
      BY <3>4
    <3>8. Right(k + 1)
      BY <3>2, <3>5, <3>6, <3>7
    <3> QED BY <1>8, <3>8
  <2>4. CASE k >= c
    <3>1. Right(k)
      BY <1>8, <2>4
    <3>2. Roles(line)[k + 1] = "rest"
      BY <1>5, <2>1, <3>1 DEF RoleAfter
    <3>3. K[k + 1] = With(K[k], line[k + 1]) /\ K[k] \in Seq(V) /\ line[k + 1] \in V
      <4>1. K[k + 1] = With(K[k], line[k + 1])
        BY <1>4, <2>1, <3>2
      <4>2. K[k] \in Seq(V)
        BY <1>2
      <4>3. line[k + 1] \in V
        BY <1>3, <2>1
      <4> QED BY <4>1, <4>2, <4>3
    <3> DEFINE m == Len(K[k])
    <3>4. /\ Len(K[k + 1]) = m + 1 /\ K[k + 1][m + 1] = line[k + 1]
          /\ \A j \in 1 .. m : K[k + 1][j] = K[k][j]
      <4> DEFINE w == With(K[k], line[k + 1])
      <4>1. /\ Len(w) = m + 1 /\ w[m + 1] = line[k + 1]
            /\ \A j \in 1 .. m : w[j] = K[k][j]
        <5> DEFINE s == K[k]
                   e == line[k + 1]
        <5>1. s \in Seq(V) /\ e \in V
          BY <3>3
        <5> HIDE DEF s, e
        <5>2. /\ Len(With(s, e)) = Len(s) + 1 /\ With(s, e)[Len(s) + 1] = e
              /\ \A j \in 1 .. Len(s) : With(s, e)[j] = s[j]
          BY <5>1 DEF With
        <5> QED BY <5>2 DEF s, e
      <4> HIDE DEF m, w
      <4>2. K[k + 1] = w
        BY <3>3 DEF w
      <4> QED BY <4>1, <4>2
    <3>5. m = p + (k - c)
      BY <3>1
    <3> HIDE DEF m
    <3>6. /\ Len(K[k + 1]) = p + (k + 1 - c)
          /\ \A j \in 1 .. p : K[k + 1][j] = K[c - 1][j]
      <4>1. m + 1 = p + (k + 1 - c) /\ \A j \in 1 .. p : j \in 1 .. m
        BY <1>6, <2>1, <2>4, <3>5
      <4>2. \A j \in 1 .. p : K[k + 1][j] = K[k][j]
        BY <3>4, <4>1
      <4>3. \A j \in 1 .. p : K[k][j] = K[c - 1][j]
        BY <3>1
      <4>4. Len(K[k + 1]) = m + 1
        BY <3>4
      <4> QED BY <4>1, <4>2, <4>3, <4>4
    <3>7. \A j \in 1 .. k + 1 - c : K[k + 1][p + j] = line[c + j]
      <4> TAKE j \in 1 .. k + 1 - c
      <4>1. CASE j = k + 1 - c
        <5>1. p + j = m + 1 /\ c + j = k + 1
          BY <1>6, <2>1, <3>5, <4>1
        <5> QED BY <3>4, <5>1
      <4>2. CASE j \in 1 .. k - c
        <5>1. p + j \in 1 .. m
          BY <1>6, <2>1, <3>5, <4>2
        <5> QED BY <3>1, <3>4, <4>2, <5>1
      <4> QED BY <2>1, <4>1, <4>2
    <3>8. Right(k + 1)
      BY <3>2, <3>6, <3>7
    <3> HIDE DEF Right
    <3> QED BY <1>8, <3>8
  <2> QED BY <2>1, <2>2, <2>3, <2>4
<1>9. \A k \in 0 .. N : k \in Good
  <2>1. N \in Nat
    BY <1>1
  <2> HIDE DEF Good
  <2> QED BY <1>7, <1>8, <2>1, UpTo
<1>10. \A k \in c .. N : Right(k)
  <2> HIDE DEF Right
  <2> QED BY <1>1, <1>9
<1> QED BY <1>10 DEF K, p, N

\* The argument before the one read next is an option that waits for its value.
Awaited == Roles(given)[current - 1] = "option" /\ TakesNext(given[current - 1])

\* What has been kept stands at the front of argv.
KeptFirst == /\ Len(Kept(given)[current - 1]) = nextKeep - 1
             /\ \A j \in 1 .. nextKeep - 1 : argv[j] = Kept(given)[current - 1][j]

\* What is left to read lies behind what has been kept.
ReadInv ==
  /\ argc = Len(given) + 1 /\ current \in 1 .. Len(given) + 1 /\ nextKeep \in Nat \ {0}
  /\ Roles(given)[current - 1] \in {"positional", "value", "option"} /\ ~Awaited
  /\ KeptFirst

KeptInv == /\ given \in CommandLines
           /\ argv \in Seq(ToSet(given)) /\ Len(argv) = Len(given)
           /\ parse = "parsing" => ReadInv
           /\ UnreadKept
           /\ ArgumentsKept

LEMMA KeptInit == Init => KeptInv
<1> SUFFICES ASSUME Init PROVE KeptInv
  OBVIOUS
<1>1. /\ given \in CommandLines /\ argv = given /\ argc = Len(given) + 1
      /\ current = 1 /\ nextKeep = 1 /\ parse = "parsing"
  BY DEF Init, OptInit
<1>2. given \in Seq(ToSet(given)) /\ Len(given) \in Nat
  BY <1>1, KeptSeq
<1>3. Roles(given)[0] = "positional" /\ Kept(given)[0] = <<>>
  BY <1>2, RolesAre, KeptIs
<1>4. current - 1 = 0 /\ nextKeep - 1 = 0
  BY <1>1
<1>5. KeptFirst
  BY <1>3, <1>4 DEF KeptFirst
<1>6. ReadInv
  BY <1>1, <1>2, <1>3, <1>4, <1>5 DEF ReadInv, Awaited
<1>7. UnreadKept /\ ArgumentsKept
  BY <1>1, <1>2 DEF UnreadKept, ArgumentsKept
<1> QED BY <1>1, <1>2, <1>6, <1>7 DEF KeptInv

\* The role of the argument read.
LEMMA RoleRead ==
  ASSUME KeptInv, parse = "parsing", current # argc
  PROVE  /\ current \in 1 .. Len(given) /\ Len(given) \in Nat
         /\ Arg = given[current]
         /\ Roles(given)[current] =
              CASE Arg.kind \in {"short", "long", "assigned"} -> "option"
                [] Arg.kind = "end"                           -> "end"
                [] OTHER                                      -> "positional"
<1>1. /\ Len(given) \in Nat /\ argc = Len(given) + 1 /\ current \in 1 .. Len(given) + 1
      /\ Roles(given)[current - 1] \in {"positional", "value", "option"} /\ ~Awaited
  BY KeptSeq DEF KeptInv, ReadInv
<1>2. current \in 1 .. Len(given)
  BY <1>1
<1>3. Arg = given[current]
  BY <1>1, <1>2 DEF KeptInv, UnreadKept, Arg
<1>4. Roles(given)[current] = RoleAfter(given, current, Roles(given)[current - 1])
  BY <1>1, <1>2, RolesAre
<1> QED BY <1>1, <1>2, <1>3, <1>4 DEF RoleAfter, Awaited

\* An option is not kept, nor is its value.
LEMMA OptionRead ==
  ASSUME KeptInv, parse = "parsing", current # argc, Arg.kind \in {"short", "long", "assigned"}
  PROVE  /\ Roles(given)[current] = "option"
         /\ Kept(given)[current] = Kept(given)[current - 1]
<1>1. current \in 1 .. Len(given) /\ Len(given) \in Nat /\ Roles(given)[current] = "option"
  BY RoleRead
<1> QED BY <1>1, KeptIs

LEMMA KeptPositional == KeptInv /\ Positional => KeptInv'
<1> SUFFICES ASSUME KeptInv, Positional PROVE KeptInv'
  OBVIOUS
<1> DEFINE V == ToSet(given)
           K == Kept(given)
<1>1. /\ parse = "parsing" /\ current # argc /\ Arg.kind = "word" /\ parse' = "parsing"
      /\ argv' = [argv EXCEPT ![nextKeep] = Arg]
      /\ nextKeep' = nextKeep + 1 /\ current' = current + 1
      /\ UNCHANGED <<given, argc>>
  BY DEF Positional, Reading
<1>2. /\ current \in 1 .. Len(given) /\ Len(given) \in Nat /\ Arg = given[current]
      /\ Roles(given)[current] = "positional"
  BY <1>1, RoleRead
<1>3. /\ argc = Len(given) + 1 /\ nextKeep \in Nat \ {0} /\ nextKeep <= current
      /\ given \in CommandLines /\ argv \in Seq(V) /\ Len(argv) = Len(given)
      /\ \A k \in current .. argc - 1 : argv[k] = given[k]
      /\ Len(K[current - 1]) = nextKeep - 1
      /\ \A j \in 1 .. nextKeep - 1 : argv[j] = K[current - 1][j]
  BY <1>1 DEF KeptInv, ReadInv, UnreadKept, KeptFirst
<1>4. K[current - 1] \in Seq(V) /\ given[current] \in V
  <2>1. current - 1 \in 0 .. Len(given)
    BY <1>2
  <2>2. given \in Seq(V)
    BY <1>3, CommandLinesAssumption
  <2>3. K[current - 1] \in Seq(V)
    BY <1>3, <2>1, KeptSeq
  <2> HIDE DEF V, K
  <2> QED BY <1>2, <2>2, <2>3
<1>5. K[current] = With(K[current - 1], given[current])
  BY <1>2, KeptIs
<1>6. /\ Len(K[current]) = nextKeep /\ K[current][nextKeep] = given[current]
      /\ \A j \in 1 .. nextKeep - 1 : K[current][j] = K[current - 1][j]
  <2> DEFINE s == K[current - 1]
             e == given[current]
  <2>1. s \in Seq(V) /\ e \in V /\ Len(s) = nextKeep - 1
    BY <1>3, <1>4
  <2>2. K[current] = With(s, e)
    BY <1>5
  <2> HIDE DEF s, e, V
  <2>3. /\ Len(With(s, e)) = Len(s) + 1 /\ With(s, e)[Len(s) + 1] = e
        /\ \A j \in 1 .. Len(s) : With(s, e)[j] = s[j]
    BY <2>1 DEF With
  <2>4. Len(s) + 1 = nextKeep
    BY <1>3, <2>1
  <2>5. /\ Len(K[current]) = nextKeep /\ K[current][nextKeep] = e
        /\ \A j \in 1 .. nextKeep - 1 : K[current][j] = s[j]
    BY <2>1, <2>2, <2>3, <2>4
  <2> QED BY <2>5 DEF s, e
<1> HIDE DEF K, V
<1>7. /\ argv' \in Seq(V) /\ Len(argv') = Len(given)
      /\ argv'[nextKeep] = given[current]
      /\ \A j \in 1 .. Len(given) : j # nextKeep => argv'[j] = argv[j]
  BY <1>1, <1>2, <1>3, <1>4
<1>8. UnreadKept'
  <2>1. \A k \in current + 1 .. argc - 1 : argv'[k] = given[k]
    BY <1>2, <1>3, <1>7
  <2> QED BY <1>1, <1>2, <1>3, <2>1 DEF UnreadKept
<1>9. current + 1 - 1 = current /\ nextKeep + 1 - 1 = nextKeep
  BY <1>2, <1>3
<1>10. KeptFirst'
  <2>1. \A j \in 1 .. nextKeep : argv'[j] = K[current][j]
    BY <1>2, <1>3, <1>6, <1>7
  <2>2. Kept(given)'[current' - 1] = K[current] /\ nextKeep' - 1 = nextKeep
    <3>1. current' - 1 = current /\ nextKeep' - 1 = nextKeep /\ given' = given
      BY <1>1, <1>2, <1>3
    <3> QED BY <3>1 DEF K
  <2> QED BY <1>6, <2>1, <2>2 DEF KeptFirst
<1>11. ReadInv'
  BY <1>1, <1>2, <1>3, <1>9, <1>10 DEF ReadInv, Awaited
<1> QED BY <1>1, <1>3, <1>7, <1>8, <1>11 DEF KeptInv, ArgumentsKept, V

\* An option is read, alone or with the argument behind it.
LEMMA KeptOption == KeptInv /\ (Flag \/ Valued \/ Assigned) => KeptInv'
<1> SUFFICES ASSUME KeptInv, Flag \/ Valued \/ Assigned PROVE KeptInv'
  OBVIOUS
<1> DEFINE K == Kept(given)
<1>1. /\ parse = "parsing" /\ current # argc /\ Arg.kind \in {"short", "long", "assigned"}
      /\ parse' = "parsing" /\ UNCHANGED <<given, argv, argc, nextKeep>>
  BY DEF Flag, Valued, Assigned, Reading
<1>2. /\ current \in 1 .. Len(given) /\ Len(given) \in Nat /\ Arg = given[current]
      /\ Roles(given)[current] = "option" /\ K[current] = K[current - 1]
  BY <1>1, RoleRead, OptionRead
<1>3. /\ argc = Len(given) + 1 /\ nextKeep \in Nat \ {0} /\ nextKeep <= current
      /\ \A k \in current .. argc - 1 : argv[k] = given[k]
      /\ KeptFirst
  BY <1>1 DEF KeptInv, ReadInv, UnreadKept
<1>4. CASE Flag \/ Assigned
  <2>1. current' = current + 1 /\ ~TakesNext(given[current])
    BY <1>2, <1>4 DEF Flag, Assigned, TakesNext, LastName, Reading
  <2>2. current + 1 - 1 = current
    BY <1>2
  <2>3. KeptFirst'
    <3>1. /\ K' = K /\ nextKeep' = nextKeep /\ argv' = argv /\ current' - 1 = current
          /\ K[current] = K[current - 1]
      BY <1>1, <1>2, <2>1, <2>2
    <3>2. /\ Len(K[current - 1]) = nextKeep - 1
          /\ \A j \in 1 .. nextKeep - 1 : argv[j] = K[current - 1][j]
      BY <1>3 DEF KeptFirst
    <3> QED BY <3>1, <3>2 DEF KeptFirst
  <2>4. ReadInv'
    BY <1>1, <1>2, <1>3, <2>1, <2>2, <2>3 DEF ReadInv, Awaited
  <2>5. UnreadKept'
    BY <1>1, <1>2, <1>3, <2>1 DEF UnreadKept
  <2> QED BY <1>1, <2>4, <2>5 DEF KeptInv, ArgumentsKept
<1>5. CASE Valued
  <2>1. current' = current + 2 /\ TakesNext(given[current]) /\ current + 1 < argc
    BY <1>2, <1>5 DEF Valued, WithValue, TakesNext, LastName, Reading
  <2>2. /\ current + 2 - 1 = current + 1 /\ current + 1 \in 1 .. Len(given)
        /\ current + 1 - 1 = current
    BY <1>2, <1>3, <2>1
  <2>3. Roles(given)[current + 1] = "value"
    <3>1. Roles(given)[current + 1] = RoleAfter(given, current + 1, Roles(given)[current])
      BY <1>2, <2>2, RolesAre
    <3> QED BY <1>2, <2>1, <2>2, <3>1 DEF RoleAfter
  <2>4. K[current + 1] = K[current]
    <3>1. IF Roles(given)[current + 1] \in {"positional", "rest"}
          THEN K[current + 1] = With(K[current], given[current + 1])
          ELSE K[current + 1] = K[current]
      BY <1>2, <2>2, KeptIs
    <3> HIDE DEF K
    <3> QED BY <2>3, <3>1
  <2>5. KeptFirst'
    <3>1. Kept(given)'[current' - 1] = K[current - 1] /\ nextKeep' = nextKeep /\ argv' = argv
      BY <1>1, <1>2, <2>1, <2>2, <2>4
    <3> QED BY <1>3, <3>1 DEF KeptFirst
  <2>6. ReadInv'
    BY <1>1, <1>2, <1>3, <2>1, <2>2, <2>3, <2>5 DEF ReadInv, Awaited
  <2>7. UnreadKept'
    BY <1>1, <1>2, <1>3, <2>1 DEF UnreadKept
  <2> QED BY <1>1, <2>6, <2>7 DEF KeptInv, ArgumentsKept
<1> QED BY <1>4, <1>5

\* At the end, or at "--" and with what is behind it.
LEMMA KeptEnd == KeptInv /\ ParseEnd => KeptInv'
<1> SUFFICES ASSUME KeptInv, ParseEnd PROVE KeptInv'
  OBVIOUS
<1> DEFINE V == ToSet(given)
           K == Kept(given)
           N == Len(given)
           p == nextKeep - 1
           r == Len(Rest)
<1>1. /\ parse = "parsing" /\ parse' = "parsed" /\ UNCHANGED given
      /\ current # argc => Arg.kind = "end"
      /\ argv' = [k \in DOMAIN argv |-> IF k \in nextKeep .. nextKeep + r - 1
                                       THEN Rest[k - nextKeep + 1] ELSE argv[k]]
      /\ argc' = nextKeep + r
  BY DEF ParseEnd
<1>2. /\ argc = N + 1 /\ nextKeep \in Nat \ {0} /\ current \in 1 .. N + 1
      /\ nextKeep <= current /\ N \in Nat
      /\ given \in CommandLines /\ argv \in Seq(V) /\ Len(argv) = N
      /\ \A k \in current .. argc - 1 : argv[k] = given[k]
      /\ Len(K[current - 1]) = p
      /\ \A j \in 1 .. p : argv[j] = K[current - 1][j]
  BY <1>1, KeptSeq DEF KeptInv, ReadInv, UnreadKept, KeptFirst
<1>3. \A k \in 0 .. N : K[k] \in Seq(V)
  BY <1>2, KeptSeq
<1> HIDE DEF V
<1>4. /\ r \in Nat /\ p + r \in 0 .. N
      /\ r > 0 => current \in 1 .. N /\ p + r <= N - 1
      /\ \A j \in 1 .. r : Rest[j] = given[current + j] /\ Rest[j] \in V
      /\ Len(K[N]) = p + r
      /\ \A j \in 1 .. p : K[N][j] = K[current - 1][j]
      /\ \A j \in 1 .. r : K[N][p + j] = given[current + j]
  <2>1. CASE current = argc
    <3>1. r = 0 /\ current - 1 = N
      BY <1>2, <2>1 DEF Rest
    <3>2. p \in 0 .. N
      BY <1>2
    <3> HIDE DEF r, p, K, N
    <3> QED BY <1>2, <3>1, <3>2
  <2>2. CASE current # argc
    <3>1. current \in 1 .. N /\ Roles(given)[current] = "end"
      BY <1>1, <2>2, RoleRead
    <3> DEFINE T == SubSeq(argv, current + 1, argc - 1)
    <3>2. /\ T \in Seq(V) /\ Len(T) = N - current
          /\ \A j \in 1 .. N - current : T[j] = argv[current + j]
      <4>1. /\ current + 1 \in 1 .. Len(argv) + 1 /\ argc - 1 \in current .. Len(argv)
            /\ argc - 1 = N
        BY <1>2, <3>1
      <4> QED BY <1>2, <3>1, <4>1, SubSeqProperties
    <3>3. Rest = T
      BY <2>2 DEF Rest
    <3> HIDE DEF T
    <3>4. r = N - current /\ p \in Nat /\ p <= current - 1 /\ r \in Nat
      BY <1>2, <3>1, <3>2, <3>3
    <3>5. \A j \in 1 .. r : Rest[j] = given[current + j] /\ Rest[j] \in V
      <4> TAKE j \in 1 .. r
      <4>1. j \in 1 .. N - current /\ current + j \in current .. argc - 1
        BY <1>2, <3>1, <3>4
      <4>2. T[j] = given[current + j]
        BY <1>2, <3>2, <4>1
      <4>3. T[j] \in V
        BY <3>2, <4>1
      <4> QED BY <3>3, <4>2, <4>3
    <3>6. /\ Len(K[N]) = Len(K[current - 1]) + (N - current)
          /\ \A j \in 1 .. Len(K[current - 1]) : K[N][j] = K[current - 1][j]
          /\ \A j \in 1 .. N - current : K[N][Len(K[current - 1]) + j] = given[current + j]
      <4>1. N \in current .. N
        BY <1>2, <3>1
      <4>2. given \in CommandLines /\ current \in 1 .. N /\ Roles(given)[current] = "end"
        BY <1>2, <3>1
      <4>3. \A k \in current .. N :
              /\ Len(K[k]) = Len(K[current - 1]) + (k - current)
              /\ \A j \in 1 .. Len(K[current - 1]) : K[k][j] = K[current - 1][j]
              /\ \A j \in 1 .. k - current : K[k][Len(K[current - 1]) + j] = given[current + j]
        BY <4>2, KeptRest
      <4> HIDE DEF K, N
      <4> QED BY <4>1, <4>3
    <3> HIDE DEF r, K
    <3>7. p + r \in 0 .. N /\ p + r <= N - 1
      BY <1>2, <3>1, <3>4
    <3> HIDE DEF p, N
    <3> QED BY <1>2, <3>1, <3>4, <3>5, <3>6, <3>7
  <2> QED BY <2>1, <2>2
<1> HIDE DEF r, K, N
<1>5. /\ argv' \in Seq(V) /\ Len(argv') = N
      /\ \A k \in 1 .. p : argv'[k] = argv[k]
      /\ \A j \in 1 .. r : argv'[p + j] = Rest[j]
  <2>1. DOMAIN argv = 1 .. N /\ \A k \in 1 .. N : argv[k] \in V
    BY <1>2
  <2>2. \A k \in 1 .. N : argv'[k] = IF k \in nextKeep .. nextKeep + r - 1
                                    THEN Rest[k - nextKeep + 1] ELSE argv[k]
    BY <1>1, <2>1
  <2>3. \A k \in 1 .. N : argv'[k] \in V
    <3> TAKE k \in 1 .. N
    <3>1. CASE k \in nextKeep .. nextKeep + r - 1
      <4>1. k - nextKeep + 1 \in 1 .. r
        BY <1>2, <1>4, <3>1
      <4> QED BY <1>4, <2>2, <3>1, <4>1
    <3>2. CASE k \notin nextKeep .. nextKeep + r - 1
      BY <2>1, <2>2, <3>2
    <3> QED BY <3>1, <3>2
  <2>4. argv' \in [1 .. N -> V]
    BY <1>1, <2>1, <2>3
  <2>5. argv' \in Seq(V) /\ Len(argv') = N
    BY <1>2, <2>4
  <2>6. \A k \in 1 .. p : argv'[k] = argv[k]
    <3> TAKE k \in 1 .. p
    <3>1. k \in 1 .. N /\ k \notin nextKeep .. nextKeep + r - 1
      BY <1>2, <1>4
    <3> QED BY <2>2, <3>1
  <2>7. \A j \in 1 .. r : argv'[p + j] = Rest[j]
    <3> TAKE j \in 1 .. r
    <3> DEFINE k == p + j
    <3>1. /\ k \in 1 .. N /\ k \in nextKeep .. nextKeep + r - 1
          /\ k - nextKeep + 1 = j
      BY <1>2, <1>4
    <3> HIDE DEF k
    <3>2. argv'[k] = Rest[k - nextKeep + 1]
      BY <2>2, <3>1
    <3>3. argv'[k] = Rest[j]
      BY <3>1, <3>2
    <3> QED BY <3>3 DEF k
  <2> QED BY <2>5, <2>6, <2>7
<1>6. SubSeq(argv', 1, argc' - 1) = K[N]
  <2>1. argc' - 1 = p + r /\ p \in Nat /\ r \in Nat /\ p + r \in Nat /\ p + r <= N
    BY <1>1, <1>2, <1>4
  <2> DEFINE S == SubSeq(argv', 1, p + r)
  <2>2. S \in Seq(V) /\ Len(S) = p + r /\ \A k \in 1 .. p + r : S[k] = argv'[k]
    <3> HIDE DEF p
    <3>1. p + r \in 0 .. Len(argv') /\ 1 \in 1 .. Len(argv') + 1
      BY <1>2, <1>5, <2>1
    <3> DEFINE q == p + r
    <3>2. q \in 0 .. Len(argv') /\ q \in Nat
      BY <2>1, <3>1
    <3> HIDE DEF q
    <3>3. /\ SubSeq(argv', 1, q) \in Seq(V) /\ Len(SubSeq(argv', 1, q)) = q
          /\ \A k \in 1 .. q : SubSeq(argv', 1, q)[k] = argv'[k]
      BY <1>5, <3>2
    <3> QED BY <3>3 DEF q
  <2> HIDE DEF S
  <2>3. N \in 0 .. N /\ K[N] \in Seq(V) /\ Len(K[N]) = p + r
    BY <1>2, <1>3, <1>4
  <2>4. \A k \in 1 .. p + r : S[k] = K[N][k]
    <3> TAKE k \in 1 .. p + r
    <3>1. CASE k \in 1 .. p
      BY <1>2, <1>4, <1>5, <2>2, <3>1
    <3>2. CASE k \notin 1 .. p
      <4>1. PICK j \in 1 .. r : k = p + j
        <5>1. k - p \in 1 .. r /\ k = p + (k - p)
          BY <2>1, <3>2
        <5> QED BY <5>1
      <4> QED BY <1>4, <1>5, <2>2, <4>1
    <3> QED BY <3>1, <3>2
  <2>5. S = K[N]
    BY <2>2, <2>3, <2>4, SeqEqual
  <2> QED BY <2>1, <2>5 DEF S
<1>7. ArgumentsKept'
  <2>1. given' = given
    BY <1>1
  <2> QED BY <1>6, <2>1 DEF ArgumentsKept, K, N
<1>8. UnreadKept'
  BY <1>1 DEF UnreadKept
<1> QED BY <1>1, <1>2, <1>5, <1>7, <1>8 DEF KeptInv, V

LEMMA KeptNext == KeptInv /\ [Next]_vars => KeptInv'
<1> SUFFICES ASSUME KeptInv, [Next]_vars PROVE KeptInv'
  OBVIOUS
<1>1. OptNext \/ UNCHANGED optVars
  BY DEF Next, Usage, Parse, Uncaught, Configure, NoInput, ReadInput, PartitionBlocks,
         CloneModules, ReplaceArguments, ReplaceFails, WriteModules, vars
<1>2. CASE UNCHANGED optVars
  BY <1>2 DEF optVars, KeptInv, ReadInv, Awaited, KeptFirst, UnreadKept, ArgumentsKept
<1>3. CASE ParseException
  BY <1>3 DEF ParseException, KeptInv, UnreadKept, ArgumentsKept
<1> QED BY <1>1, <1>2, <1>3, KeptPositional, KeptOption, KeptEnd DEF OptNext

------------------------------------------------------------------------------
(* The numbers among the options. *)

\* The arguments read so far that give the option.
GivenFor(option) == {k \in 1 .. current - 1 : Names(k, option)}

\* While the command line is read, the results hold the number of the last of
\* them, and nothing if there is none.
NumberKept(option) ==
  /\ GivenFor(option) = {} => option \notin DOMAIN results
  /\ GivenFor(option) # {} =>
       /\ option \in DOMAIN results
       /\ IsText(Assignment(Max(GivenFor(option))))
       /\ InRange(Assignment(Max(GivenFor(option))))
       /\ results[option] = Signed(Assignment(Max(GivenFor(option))))

NumbersInv == /\ parse = "parsing" => \A option \in Numbers : NumberKept(option)
              /\ parse = "parsed" => \A option \in Numbers : results[option] \in Int
              /\ NumbersRead

LEMMA MaxIs ==
  ASSUME NEW S \in SUBSET Int, NEW m \in S, \A x \in S : x <= m
  PROVE  Max(S) = m
<1>1. m \in S /\ \A y \in S : m >= y
  OBVIOUS
<1>2. \A x \in S : (\A y \in S : x >= y) => x = m
  OBVIOUS
<1> QED BY <1>1, <1>2 DEF Max

LEMMA StoreAs ==
  ASSUME NEW s, NEW t, NEW option, NEW value, t = Store(s, option, value)
  PROVE  option \in DOMAIN t /\ t[option] = value
BY DEF Store

LEMMA Elsewhere ==
  ASSUME NEW s, NEW t, NEW option, NEW value, NEW o, o # option, t = Store(s, option, value)
  PROVE  /\ o \in DOMAIN t <=> o \in DOMAIN s
         /\ o \in DOMAIN s => t[o] = s[o]
BY DEF Store

LEMMA NumberValue ==
  ASSUME NEW option \in Numbers, NEW text, Parses(option, text)
  PROVE  InRange(text) /\ Value(option, text) = Signed(text)
<1>1. InRange(text)
  BY DEF Parses
<1>2. option # "debug"
  BY DEF Numbers
<1>3. Value(option, text) = Signed(text)
  BY <1>2, Zenon DEF Value
<1> QED BY <1>1, <1>3

\* A number is an option of its own, so the flags leave it alone.
LEMMA FlagsApart ==
  ASSUME NEW option \in Numbers
  PROVE  /\ option # "debug"
         /\ option \in DOMAIN FlagsStored <=> option \in DOMAIN results
         /\ option \in DOMAIN results => FlagsStored[option] = results[option]
<1>1. option # "debug"
  BY DEF Numbers
<1>2. CASE FlagNames = {}
  BY <1>1, <1>2 DEF FlagsStored
<1>3. CASE FlagNames # {}
  <2> DEFINE set == TRUE
  <2>1. FlagsStored = Store(results, "debug", set)
    BY <1>3 DEF FlagsStored
  <2> HIDE DEF set
  <2> QED BY <1>1, <2>1, Elsewhere
<1> QED BY <1>1, <1>2, <1>3

\* The text assigned to an option is one.
LEMMA AssignedText ==
  ASSUME given \in CommandLines, NEW k \in 1 .. Len(given), NEW option, Names(k, option),
         given[k].kind = "assigned" \/ k + 1 \in 1 .. Len(given)
  PROVE  IsText(Assignment(k))
<1>1. DOMAIN given = 1 .. Len(given)
  BY KeptSeq
<1> QED BY <1>1, CommandLinesAssumption DEF Assignment

\* An argument that gives no number.
LEMMA NumberSkipped ==
  ASSUME NEW option \in Numbers, NumberKept(option), UNCHANGED given,
         GivenFor(option)' = GivenFor(option),
         option \in DOMAIN results' <=> option \in DOMAIN results,
         option \in DOMAIN results => results'[option] = results[option]
  PROVE  NumberKept(option)'
<1>1. \A k : Assignment(k)' = Assignment(k)
  BY DEF Assignment
<1> QED BY <1>1 DEF NumberKept

\* An argument that gives this number.
LEMMA NumberRead ==
  ASSUME NEW option \in Numbers, UNCHANGED given, current \in Nat \ {0},
         GivenFor(option)' = GivenFor(option) \cup {current},
         option \in DOMAIN results',
         IsText(Assignment(current)), InRange(Assignment(current)),
         results'[option] = Signed(Assignment(current))
  PROVE  NumberKept(option)'
<1>1. \A k : Assignment(k)' = Assignment(k)
  BY DEF Assignment
<1>2. Max(GivenFor(option)') = current
  <2> DEFINE S == GivenFor(option) \cup {current}
  <2>1. S \in SUBSET Int /\ current \in S /\ \A x \in S : x <= current
    BY DEF GivenFor
  <2> HIDE DEF S
  <2>2. Max(S) = current
    BY <2>1, MaxIs
  <2> QED BY <2>2 DEF S
<1> QED BY <1>1, <1>2 DEF NumberKept

\* Which numbers are given by the argument read, and by the next one if that is
\* its value.
LEMMA GivenNext ==
  ASSUME KeptInv, parse = "parsing", current # argc, UNCHANGED given, NEW option \in Numbers,
         \/ current' = current + 1
         \/ current' = current + 2 /\ current + 1 < argc /\ TakesNext(Arg)
  PROVE  GivenFor(option)' =
           GivenFor(option) \cup (IF /\ Arg.kind \in {"short", "long", "assigned"}
                                     /\ Known(LastName) /\ OptionOf[LastName] = option
                                  THEN {current} ELSE {})
<1>1. /\ current \in 1 .. Len(given) /\ Len(given) \in Nat /\ Arg = given[current]
      /\ argc = Len(given) + 1
      /\ Roles(given)[current] =
           CASE Arg.kind \in {"short", "long", "assigned"} -> "option"
             [] Arg.kind = "end"                           -> "end"
             [] OTHER                                      -> "positional"
  BY RoleRead DEF KeptInv, ReadInv
<1>2. Names(current, option) <=> /\ Arg.kind \in {"short", "long", "assigned"}
                                 /\ Known(LastName) /\ OptionOf[LastName] = option
  BY <1>1 DEF Names, LastName
<1>3. \A k : Names(k, option)' <=> Names(k, option)
  BY DEF Names
<1>4. CASE current' = current + 1
  <2>1. 1 .. current' - 1 = (1 .. current - 1) \cup {current}
    BY <1>1, <1>4
  <2> QED BY <1>2, <1>3, <2>1 DEF GivenFor
<1>5. CASE current' = current + 2 /\ current + 1 < argc /\ TakesNext(Arg)
  <2>1. 1 .. current' - 1 = (1 .. current - 1) \cup {current, current + 1}
    BY <1>1, <1>5
  <2>2. Roles(given)[current + 1] = "value"
    <3>1. current + 1 \in 1 .. Len(given) /\ current + 1 - 1 = current
      BY <1>1, <1>5
    <3>2. Roles(given)[current + 1] = RoleAfter(given, current + 1, Roles(given)[current])
      BY <1>1, <3>1, RolesAre
    <3>3. Roles(given)[current] = "option"
      BY <1>1, <1>5 DEF TakesNext
    <3> QED BY <1>1, <1>5, <3>1, <3>2, <3>3 DEF RoleAfter
  <2>3. ~Names(current + 1, option)
    BY <2>2 DEF Names
  <2> QED BY <1>2, <1>3, <2>1, <2>3 DEF GivenFor
<1> QED BY <1>4, <1>5

LEMMA NumbersInit == Init => NumbersInv
<1> SUFFICES ASSUME Init PROVE NumbersInv
  OBVIOUS
<1>1. current = 1 /\ parse = "parsing" /\ results = NoResults
  BY DEF Init, OptInit
<1>2. \A option \in Numbers : NumberKept(option)
  BY <1>1 DEF NumberKept, GivenFor, NoResults
<1> QED BY <1>1, <1>2 DEF NumbersInv, NumbersRead

LEMMA NumbersPositional == KeptInv /\ NumbersInv /\ Positional => NumbersInv'
<1> SUFFICES ASSUME KeptInv, NumbersInv, Positional PROVE NumbersInv'
  OBVIOUS
<1>1. /\ parse = "parsing" /\ parse' = "parsing" /\ current # argc /\ Arg.kind = "word"
      /\ current' = current + 1 /\ UNCHANGED <<given, results>>
  BY DEF Positional, Reading
<1>2. ASSUME NEW option \in Numbers PROVE NumberKept(option)'
  <2>1. GivenFor(option)' = GivenFor(option)
    BY <1>1, GivenNext
  <2> QED BY <1>1, <2>1, NumberSkipped DEF NumbersInv
<1> QED BY <1>1, <1>2 DEF NumbersInv, NumbersRead

LEMMA NumbersOption == KeptInv /\ NumbersInv /\ (Flag \/ Valued \/ Assigned) => NumbersInv'
<1> SUFFICES ASSUME KeptInv, NumbersInv, Flag \/ Valued \/ Assigned PROVE NumbersInv'
  OBVIOUS
<1>1. /\ parse = "parsing" /\ parse' = "parsing" /\ current # argc
      /\ Arg.kind \in {"short", "long", "assigned"} /\ Known(LastName) /\ UNCHANGED given
  BY DEF Flag, Valued, Assigned, Reading, WithValue
<1>2. /\ current \in 1 .. Len(given) /\ Len(given) \in Nat /\ Arg = given[current]
      /\ argc = Len(given) + 1 /\ current \in Nat \ {0}
      /\ \A k \in current .. argc - 1 : argv[k] = given[k]
  BY <1>1, RoleRead DEF KeptInv, ReadInv, UnreadKept
<1> DEFINE last == OptionOf[LastName]
<1>3. ASSUME NEW option \in Numbers PROVE NumberKept(option)'
  <2>1. option # "debug" /\ NumberKept(option)
    BY <1>1, FlagsApart DEF NumbersInv
  <2>2. CASE Flag
    <3>1. last = "debug" /\ current' = current + 1 /\ results' = Store(results, "debug", TRUE)
      BY <2>2 DEF Flag, HasImplicit
    <3>2. GivenFor(option)' = GivenFor(option)
      BY <1>1, <2>1, <3>1, GivenNext
    <3> DEFINE set == TRUE
    <3>3. results' = Store(results, "debug", set)
      BY <3>1
    <3> HIDE DEF set
    <3>4. /\ option \in DOMAIN results' <=> option \in DOMAIN results
          /\ option \in DOMAIN results => results'[option] = results[option]
      BY <2>1, <3>3, Elsewhere
    <3> QED BY <1>1, <2>1, <3>2, <3>4, NumberSkipped
  <2>3. CASE Valued
    <3> DEFINE text == argv[current + 1]
    <3>1. /\ current' = current + 2 /\ current + 1 < argc /\ ~HasImplicit(LastName)
          /\ Arg.kind \in {"short", "long"} /\ Parses(last, text)
          /\ results' = Store(FlagsStored, last, Value(last, text))
      BY <2>3 DEF Valued, WithValue, Reading
    <3>2. TakesNext(Arg)
      BY <1>1, <3>1 DEF TakesNext, LastName
    <3>3. text = Assignment(current)
      <4>1. current + 1 \in current .. argc - 1
        BY <1>2, <3>1
      <4> QED BY <1>2, <3>1, <4>1 DEF Assignment
    <3>4. CASE last = option
      <4>0. IsText(Assignment(current))
        <5>1. current + 1 \in 1 .. Len(given) /\ Names(current, option)
          BY <1>1, <1>2, <3>1, <3>4, RoleRead DEF Names, LastName
        <5> QED BY <1>2, <5>1, AssignedText DEF KeptInv
      <4>1. GivenFor(option)' = GivenFor(option) \cup {current}
        BY <1>1, <3>1, <3>2, <3>4, GivenNext
      <4>2. InRange(text) /\ Value(option, text) = Signed(text)
        BY <3>1, <3>4, NumberValue
      <4>3. option \in DOMAIN results' /\ results'[option] = Signed(text)
        <5> DEFINE v == Value(last, text)
        <5>1. v = Signed(text)
          BY <3>4, <4>2
        <5>0. results' = Store(FlagsStored, last, v)
          BY <3>1
        <5>2. last = option
          BY <3>4
        <5> HIDE DEF v, last
        <5>3. option \in DOMAIN results' /\ results'[option] = v
          BY <5>0, <5>2, StoreAs
        <5> QED BY <5>1, <5>3
      <4> QED BY <1>1, <1>2, <3>3, <4>0, <4>1, <4>2, <4>3, NumberRead
    <3>5. CASE last # option
      <4>1. GivenFor(option)' = GivenFor(option)
        BY <1>1, <3>1, <3>2, <3>5, GivenNext
      <4> DEFINE v == Value(last, text)
      <4>2. results' = Store(FlagsStored, last, v)
        BY <3>1
      <4> HIDE DEF v
      <4>3. /\ option \in DOMAIN results' <=> option \in DOMAIN FlagsStored
            /\ option \in DOMAIN FlagsStored => results'[option] = FlagsStored[option]
        BY <3>5, <4>2, Elsewhere
      <4>4. /\ option \in DOMAIN results' <=> option \in DOMAIN results
            /\ option \in DOMAIN results => results'[option] = results[option]
        BY <4>3, FlagsApart
      <4> QED BY <1>1, <2>1, <4>1, <4>4, NumberSkipped
    <3> QED BY <3>4, <3>5
  <2>4. CASE Assigned
    <3> DEFINE text == Arg.value
    <3>1. /\ current' = current + 1 /\ Arg.kind = "assigned" /\ Parses(last, text)
          /\ results' = Store(results, last, Value(last, text))
      BY <2>4 DEF Assigned, Reading
    <3>2. text = Assignment(current)
      BY <1>2, <3>1 DEF Assignment
    <3>3. CASE last = option
      <4>0. IsText(Assignment(current))
        <5>1. Names(current, option)
          BY <1>1, <1>2, <3>1, <3>3, RoleRead DEF Names, LastName
        <5> QED BY <1>2, <3>1, <5>1, AssignedText DEF KeptInv
      <4>1. GivenFor(option)' = GivenFor(option) \cup {current}
        BY <1>1, <3>1, <3>3, GivenNext
      <4>2. InRange(text) /\ Value(option, text) = Signed(text)
        BY <3>1, <3>3, NumberValue
      <4>3. option \in DOMAIN results' /\ results'[option] = Signed(text)
        <5> DEFINE v == Value(last, text)
        <5>1. v = Signed(text)
          BY <3>3, <4>2
        <5>0. results' = Store(results, last, v)
          BY <3>1
        <5>2. last = option
          BY <3>3
        <5> HIDE DEF v, last
        <5>3. option \in DOMAIN results' /\ results'[option] = v
          BY <5>0, <5>2, StoreAs
        <5> QED BY <5>1, <5>3
      <4> QED BY <1>1, <1>2, <3>2, <4>0, <4>1, <4>2, <4>3, NumberRead
    <3>4. CASE last # option
      <4>1. GivenFor(option)' = GivenFor(option)
        BY <1>1, <3>1, <3>4, GivenNext
      <4> DEFINE v == Value(last, text)
      <4>2. results' = Store(results, last, v)
        BY <3>1
      <4> HIDE DEF v
      <4>3. /\ option \in DOMAIN results' <=> option \in DOMAIN results
            /\ option \in DOMAIN results => results'[option] = results[option]
        BY <3>4, <4>2, Elsewhere
      <4> QED BY <1>1, <2>1, <4>1, <4>3, NumberSkipped
    <3> QED BY <3>3, <3>4
  <2> QED BY <2>2, <2>3, <2>4
<1> QED BY <1>1, <1>3 DEF NumbersInv, NumbersRead

\* A number that is refused is missing, illegible or no int.
LEMMA NumbersException == KeptInv /\ NumbersInv /\ ParseException => NumbersInv'
<1> SUFFICES ASSUME KeptInv, NumbersInv, ParseException PROVE NumbersInv'
  OBVIOUS
<1>1. /\ parse = "parsing" /\ parse' = "exception" /\ current # argc /\ Incorrect
      /\ UNCHANGED <<given, argv, argc, current, nextKeep, results>>
  BY DEF ParseException, Reading
<1>2. /\ current \in 1 .. Len(given) /\ Len(given) \in Nat /\ Arg = given[current]
      /\ argc = Len(given) + 1 /\ given \in CommandLines
      /\ \A k \in current .. argc - 1 : argv[k] = given[k]
  BY <1>1, RoleRead DEF KeptInv, ReadInv, UnreadKept
<1>3. Roles(given)[current] = "option" => Arg.kind \in {"short", "long", "assigned"}
  BY <1>1, RoleRead
<1> DEFINE text == Assignment(current)
<1>4. ASSUME NEW option \in Numbers, Names(current, option), FlagsOK
      PROVE  \/ Arg.kind # "assigned" /\ current = Len(given)
             \/ text.digits = <<>>
             \/ \E k \in DOMAIN text.digits : text.digits[k] >= text.base
             \/ ~Fits(Meaning(text))
  <2>1. /\ Known(LastName) /\ OptionOf[LastName] = option /\ option # "debug"
        /\ Arg.kind \in {"short", "long", "assigned"}
    BY <1>2, <1>3, <1>4, FlagsApart DEF Names, LastName
  <2>2. \A t : ~Parses(option, t) => ~InRange(t)
    BY <2>1 DEF Parses
  <2>3. IsText(text) /\ ~InRange(text) =>
          \/ text.digits = <<>>
          \/ \E k \in DOMAIN text.digits : text.digits[k] >= text.base
          \/ ~Fits(Meaning(text))
    <3> HIDE DEF text
    <3> SUFFICES ASSUME IsText(text), ~InRange(text)
                 PROVE  \/ text.digits = <<>>
                        \/ \E k \in DOMAIN text.digits : text.digits[k] >= text.base
                        \/ ~Fits(Meaning(text))
      OBVIOUS
    <3>1. ~Legible(text) \/ ~Fits(Meaning(text))
      BY ReadNumber
    <3>2. \A k \in DOMAIN text.digits : text.digits[k] \in Int /\ text.base \in Int
      BY DEF IsText
    <3> QED BY <3>1, <3>2 DEF Legible
  <2>4. CASE Arg.kind = "assigned"
    <3>1. ~Parses(option, Arg.value) /\ text = Arg.value
      BY <1>1, <1>2, <2>1, <2>4 DEF Incorrect, Assignment
    <3>2. IsText(text)
      BY <1>2, <1>4, <2>4, AssignedText
    <3> QED BY <2>2, <2>3, <3>1, <3>2
  <2>5. CASE Arg.kind \in {"short", "long"}
    <3>1. ~WithValue /\ ~HasImplicit(LastName)
      BY <1>1, <1>4, <2>1, <2>5 DEF Incorrect, HasImplicit
    <3>2. CASE current + 1 >= argc
      BY <1>2, <2>5, <3>2
    <3>3. CASE current + 1 < argc
      <4>1. ~Parses(option, argv[current + 1])
        BY <2>1, <3>1, <3>3 DEF WithValue
      <4>2. current + 1 \in current .. argc - 1 /\ current + 1 \in 1 .. Len(given)
        BY <1>2, <3>3
      <4>3. text = argv[current + 1]
        BY <1>2, <2>5, <4>2 DEF Assignment
      <4>4. IsText(text)
        BY <1>2, <1>4, <4>2, AssignedText
      <4> QED BY <2>2, <2>3, <4>1, <4>3, <4>4
    <3> QED BY <1>2, <3>2, <3>3
  <2> QED BY <2>1, <2>4, <2>5
<1>5. /\ Arg' = Arg /\ FlagsOK' = FlagsOK /\ \A k : Assignment(k)' = Assignment(k)
      /\ \A k, option : Names(k, option)' <=> Names(k, option)
  BY <1>1 DEF Arg, FlagsOK, FlagNames, Assignment, Names
<1>6. NumbersRead'
  <2> SUFFICES ASSUME NEW option \in Numbers, Names(current, option), FlagsOK
               PROVE  \/ Arg.kind # "assigned" /\ current = Len(given)
                      \/ text.digits = <<>>
                      \/ \E k \in DOMAIN text.digits : text.digits[k] >= text.base
                      \/ ~Fits(Meaning(text))
    BY <1>1, <1>5 DEF NumbersRead
  <2> QED BY <1>4
<1> QED BY <1>1, <1>6 DEF NumbersInv

\* At the end, the last number given for an option is its value.
LEMMA NumbersEnd == KeptInv /\ NumbersInv /\ ParseEnd => NumbersInv'
<1> SUFFICES ASSUME KeptInv, NumbersInv, ParseEnd PROVE NumbersInv'
  OBVIOUS
<1> DEFINE N == Len(given)
<1>1. /\ parse = "parsing" /\ parse' = "parsed" /\ UNCHANGED given
      /\ current # argc => Arg.kind = "end"
      /\ results' = WithDefaults
  BY DEF ParseEnd
<1>2. /\ argc = N + 1 /\ current \in 1 .. N + 1 /\ N \in Nat /\ given \in CommandLines
      /\ DOMAIN given = 1 .. N
  BY <1>1, KeptSeq DEF KeptInv, ReadInv
<1>3. ASSUME NEW k \in current .. N PROVE Roles(given)[k] \in {"end", "rest"}
  <2>1. current \in 1 .. N /\ current # argc
    BY <1>2
  <2>2. Roles(given)[current] = "end"
    BY <1>1, <2>1, RoleRead
  <2> QED BY <1>2, <2>1, <2>2, KeptRest
<1>4. ASSUME NEW option \in Numbers
      PROVE  {k \in DOMAIN given : Names(k, option)} = GivenFor(option)
  <2>1. \A k \in current .. N : ~Names(k, option)
    BY <1>3 DEF Names
  <2>2. \A k : k \in 1 .. N <=> k \in 1 .. current - 1 \/ k \in current .. N
    BY <1>2
  <2> QED BY <1>2, <2>1, <2>2 DEF GivenFor
<1>5. /\ \A k : Assignment(k)' = Assignment(k)
      /\ \A k, option : Names(k, option)' <=> Names(k, option)
  BY <1>1 DEF Assignment, Names
<1>6. ASSUME NEW option \in Numbers
      PROVE  LET at == GivenFor(option)
             IN  /\ results'[option] \in Int
                 /\ at = {} => results'[option] = Default[option]
                 /\ at # {} /\ Fits(Meaning(Assignment(Max(at)))) =>
                      results'[option] = Meaning(Assignment(Max(at)))
  <2> DEFINE at == GivenFor(option)
  <2>1. NumberKept(option)
    BY <1>1 DEF NumbersInv
  <2>2. option \in DOMAIN Default /\ Default[option] \in Int
    BY DEF Default, Numbers
  <2>3. CASE at = {}
    BY <1>1, <2>1, <2>2, <2>3 DEF NumberKept, WithDefaults
  <2>4. CASE at # {}
    <3> DEFINE k == Max(at)
    <3>1. option \in DOMAIN results /\ InRange(Assignment(k)) /\ results[option] = Signed(Assignment(k))
      BY <2>1, <2>4 DEF NumberKept
    <3>2. results'[option] = results[option]
      BY <1>1, <3>1 DEF WithDefaults
    <3>3. IsText(Assignment(k))
      BY <2>1, <2>4 DEF NumberKept
    <3> HIDE DEF k, at
    <3>4. /\ Signed(Assignment(k)) \in Int
          /\ Fits(Meaning(Assignment(k))) => Signed(Assignment(k)) = Meaning(Assignment(k))
      BY <3>1, <3>3, ReadNumber
    <3> QED BY <2>4, <3>1, <3>2, <3>4 DEF at, k
  <2> QED BY <2>3, <2>4
<1>7. NumbersRead'
  <2> SUFFICES ASSUME NEW option \in Numbers
               PROVE  LET at == {k \in DOMAIN given : Names(k, option)}
                      IN  /\ at = {} => results'[option] = Default[option]
                          /\ at # {} /\ Fits(Meaning(Assignment(Max(at)))) =>
                               results'[option] = Meaning(Assignment(Max(at)))
    BY <1>1, <1>5 DEF NumbersRead
  <2> QED BY <1>4, <1>6
<1> QED BY <1>1, <1>6, <1>7 DEF NumbersInv

LEMMA NumbersNext == KeptInv /\ NumbersInv /\ [Next]_vars => NumbersInv'
<1> SUFFICES ASSUME KeptInv, NumbersInv, [Next]_vars PROVE NumbersInv'
  OBVIOUS
<1>1. OptNext \/ UNCHANGED optVars
  BY DEF Next, Usage, Parse, Uncaught, Configure, NoInput, ReadInput, PartitionBlocks,
         CloneModules, ReplaceArguments, ReplaceFails, WriteModules, vars
<1>2. CASE UNCHANGED optVars
  <2>1. UNCHANGED <<given, argv, current, results, parse>>
    BY <1>2 DEF optVars
  <2>2. \A option : NumberKept(option)' <=> NumberKept(option)
    BY <2>1 DEF NumberKept, GivenFor, Names, Assignment
  <2>3. NumbersRead' <=> NumbersRead
    BY <2>1 DEF NumbersRead, Names, Assignment, Arg, FlagsOK, FlagNames
  <2> QED BY <2>1, <2>2, <2>3 DEF NumbersInv
<1> QED BY <1>1, <1>2, NumbersPositional, NumbersOption, NumbersException, NumbersEnd DEF OptNext

------------------------------------------------------------------------------
(* The copies of functions. *)

\* The partitions in use are finitely many.
TableInv ==
  /\ IsFiniteSet(Placed)
  /\ \A i \in Placed : previousPlacements[i].partition \in Nat
  /\ phase \in {"search", "commit"} /\ bestModel # None =>
       /\ DOMAIN bestModel.place = Placing
       /\ \A i \in Placing : bestModel.place[i].partition \in Nat

LEMMA TableInit == Init => TableInv
BY FS_EmptySet DEF Init, GenInit, NoPlacements, TableInv, Placed

LEMMA PlacingFinite ==
  ASSUME md \in DOMAIN Files, block \in 1 .. Len(Blocks[md])
  PROVE  IsFiniteSet(Placing)
<1> DEFINE s == instructions
           f == [n \in 1 .. Len(s) |-> s[n]]
<1>1. Blocks[md] \in Seq(Seq(DOMAIN Files[md].opcode))
  BY FilesAssumption
<1>2. s \in Seq(DOMAIN Files[md].opcode)
  BY <1>1 DEF instructions
<1>3. Len(s) \in Nat /\ DOMAIN s = 1 .. Len(s)
  BY <1>2
<1>4. f \in Surjection(1 .. Len(s), ToSet(s))
  BY <1>3 DEF Surjection, ToSet
<1>5. IsFiniteSet(1 .. Len(s))
  BY <1>3, FS_Interval
<1> QED BY <1>4, <1>5, FS_Surjection DEF Placing

LEMMA ModelTable ==
  ASSUME NEW latest, NEW a \in Models(latest)
  PROVE  DOMAIN a = Placing /\ \A i \in Placing : a[i].partition \in Nat
<1>1. PICK s \in [Placing -> Partitions \X (0 .. latest)] :
        a = [i \in Placing |-> [partition |-> s[i][1], startTime |-> s[i][2],
                                endTime |-> s[i][2] + costForInstruction(i)]]
  BY DEF Models, Schedules
<1>2. \A i \in Placing : s[i][1] \in Partitions
  OBVIOUS
<1>3. Partitions \subseteq Nat
  BY DEF Partitions
<1> QED BY <1>1, <1>2, <1>3

LEMMA TableNext == DriverInv /\ TableInv /\ [Next]_vars => TableInv'
<1> SUFFICES ASSUME DriverInv, TableInv, [Next]_vars PROVE TableInv'
  OBVIOUS
<1>1. CASE PartitionBlocks
  <2>1. GenNext /\ md \in DOMAIN Files
    BY <1>1 DEF PartitionBlocks, DriverInv
  <2>2. md' = md /\ (block' = block => Placing' = Placing)
    BY <2>1 DEF GenNext, Start, Sat, Unsat, Timeout, GiveUp, CommitModel, CommitFallback,
                EndFallback, Placing, instructions
  <2>3. phase # "start" => IsFiniteSet(Placing)
    <3> SUFFICES ASSUME phase # "start" PROVE IsFiniteSet(Placing)
      OBVIOUS
    <3>1. block \in 1 .. Len(Blocks[md])
      BY <2>1, BlocksApart DEF DriverInv, GenInv, Covers, Done
    <3> QED BY <2>1, <3>1, PlacingFinite
  <2>4. CASE Start
    BY <2>4 DEF Start, TableInv, Placed
  <2>5. CASE Sat
    <3>1. PICK latest \in 0 .. Goal - 1 : \E a \in Models(latest) :
            bestModel' = [place |-> a, latest |-> latest]
      BY <2>5 DEF Sat
    <3>2. PICK a \in Models(latest) : bestModel'.place = a
      BY <3>1
    <3>3. UNCHANGED previousPlacements /\ block' = block
      BY <2>5 DEF Sat
    <3> QED BY <2>2, <3>2, <3>3, ModelTable DEF TableInv, Placed
  <2>6. CASE Unsat \/ Timeout
    <3>1. UNCHANGED <<previousPlacements, bestModel, block>> /\ phase = "search"
      BY <2>6 DEF Unsat, Timeout, GiveUp
    <3> QED BY <2>2, <3>1 DEF TableInv, Placed
  <2>7. CASE CommitModel
    <3> DEFINE a == bestModel.place
    <3>1. /\ phase = "commit" /\ bestModel # None /\ phase' = "start"
          /\ previousPlacements' = Adding(a)
      BY <2>7 DEF CommitModel, NextBlock
    <3>2. DOMAIN a = Placing /\ \A i \in Placing : a[i].partition \in Nat
      BY <3>1 DEF TableInv
    <3>3. /\ Placed' = Placed \cup DOMAIN a
          /\ \A i \in Placed : previousPlacements'[i] = previousPlacements[i]
          /\ \A i \in DOMAIN a : i \notin Placed => previousPlacements'[i] = a[i]
      BY <3>1, Growing
    <3>4. IsFiniteSet(Placed \cup Placing)
      BY <2>3, <3>1, FS_Union DEF TableInv
    <3> HIDE DEF a
    <3> QED BY <3>1, <3>2, <3>3, <3>4 DEF TableInv
  <2>8. CASE CommitFallback
    <3>1. PICK i \in Placing \ DOMAIN previousPlacements :
            previousPlacements' =
              Adding([j \in {i} |-> [partition |-> 0, startTime |-> time,
                                     endTime |-> time + costForInstruction(i)]])
      BY <2>8 DEF CommitFallback
    <3> DEFINE a == [j \in {i} |-> [partition |-> 0, startTime |-> time,
                                    endTime |-> time + costForInstruction(i)]]
    <3>2. DOMAIN a = {i} /\ a[i].partition = 0
      OBVIOUS
    <3>3. /\ Placed' = Placed \cup DOMAIN a
          /\ \A k \in Placed : previousPlacements'[k] = previousPlacements[k]
          /\ \A k \in DOMAIN a : k \notin Placed => previousPlacements'[k] = a[k]
      BY <3>1, Growing
    <3>4. IsFiniteSet(Placed \cup {i})
      BY FS_AddElement DEF TableInv
    <3>5. UNCHANGED bestModel /\ bestModel = None
      BY <2>8 DEF CommitFallback, search
    <3> HIDE DEF a
    <3> QED BY <3>2, <3>3, <3>4, <3>5 DEF TableInv
  <2>9. CASE EndFallback
    BY <2>9 DEF EndFallback, NextBlock, TableInv, Placed
  <2> QED BY <2>1, <2>4, <2>5, <2>6, <2>7, <2>8, <2>9 DEF GenNext
<1>2. CASE Configure \/ ReadInput
  <2>1. UNCHANGED previousPlacements /\ phase' = "start"
    BY <1>2 DEF Configure, ReadInput, DriverInv
  <2> QED BY <2>1 DEF TableInv, Placed
<1>3. CASE UNCHANGED genVars
  <2>1. UNCHANGED <<previousPlacements, phase, bestModel, md, block>>
    BY <1>3 DEF genVars, search
  <2> QED BY <2>1 DEF TableInv, Placed, Placing, instructions
<1> QED BY <1>1, <1>2, <1>3 DEF Next, Usage, Parse, Uncaught, NoInput, CloneModules,
                                ReplaceArguments, ReplaceFails, WriteModules, vars

LEMMA PartitionsFinite ==
  ASSUME TableInv
  PROVE  IsFiniteSet(partitions) /\ partitions \subseteq Nat
<1> DEFINE f == [i \in Placed |-> previousPlacements[i].partition]
<1>1. f \in Surjection(Placed, partitions)
  BY DEF Surjection, partitions, Placed
<1> HIDE DEF f
<1> QED BY <1>1, FS_Surjection DEF TableInv, partitions, Placed

------------------------------------------------------------------------------
\* The partition with n - 1 smaller ones is the nth.
LEMMA NthIs ==
  ASSUME NEW used \in SUBSET Nat, IsFiniteSet(used), NEW p \in used
  PROVE  /\ Cardinality({q \in used : q < p}) \in Nat
         /\ Nth(used, Cardinality({q \in used : q < p}) + 1) = p
         /\ Cardinality({q \in used : q < p}) < Cardinality(used)
<1> DEFINE Below(x) == {q \in used : q < x}
<1>1. \A x : /\ IsFiniteSet(Below(x)) /\ Cardinality(Below(x)) \in Nat
  <2> TAKE x
  <2>1. Below(x) \in SUBSET used
    OBVIOUS
  <2> HIDE DEF Below
  <2> QED BY <2>1, FS_Subset, FS_CardinalityType
<1>2. ASSUME NEW x \in used, NEW S \in SUBSET used, Below(x) \cup {x} \subseteq S
      PROVE  Cardinality(Below(x)) < Cardinality(S)
  <2>1. x \notin Below(x)
    OBVIOUS
  <2> HIDE DEF Below
  <2>2. Cardinality(Below(x) \cup {x}) = Cardinality(Below(x)) + 1
    BY <1>1, <2>1, FS_AddElement
  <2>3. IsFiniteSet(S) /\ Cardinality(S) \in Nat
    BY FS_Subset, FS_CardinalityType
  <2>4. Cardinality(Below(x) \cup {x}) <= Cardinality(S)
    BY <1>2, <2>3, FS_Subset
  <2> QED BY <1>1, <2>2, <2>3, <2>4
<1>3. \A x \in used : Cardinality(Below(x)) = Cardinality(Below(p)) => x = p
  <2> SUFFICES ASSUME NEW x \in used, x # p
               PROVE  Cardinality(Below(x)) # Cardinality(Below(p))
    OBVIOUS
  <2>1. \A a, b \in used : a < b => Cardinality(Below(a)) < Cardinality(Below(b))
    <3> TAKE a, b \in used
    <3> SUFFICES ASSUME a < b PROVE Cardinality(Below(a)) < Cardinality(Below(b))
      OBVIOUS
    <3>1. Below(b) \in SUBSET used
      OBVIOUS
    <3>2. \A q \in used : q \in Nat
      OBVIOUS
    <3>3. \A q \in used : q < a => q < b
      BY <3>2
    <3>4. Below(a) \cup {a} \subseteq Below(b)
      BY <3>3
    <3> HIDE DEF Below
    <3> QED BY <1>2, <3>1, <3>4
  <2>2. x < p \/ p < x
    OBVIOUS
  <2> HIDE DEF Below
  <2> QED BY <1>1, <2>1, <2>2
<1>4. Cardinality(Below(p)) < Cardinality(used)
  <2>1. Below(p) \cup {p} \subseteq used
    OBVIOUS
  <2> HIDE DEF Below
  <2> QED BY <1>2, <2>1
<1>5. Cardinality(Below(p)) + 1 - 1 = Cardinality(Below(p))
  <2> HIDE DEF Below
  <2> QED BY <1>1
<1> DEFINE m == Cardinality(Below(p))
           n == m + 1
<1>6. Nth(used, n) = p
  <2>1. \A x \in used : Cardinality(Below(x)) = m <=> x = p
    <3> HIDE DEF Below
    <3> QED BY <1>3
  <2>2. n - 1 = m
    <3>1. m \in Nat
      BY <1>1
    <3> HIDE DEF m
    <3> QED BY <3>1
  <2> HIDE DEF m, n
  <2>3. \A x \in used : Cardinality(Below(x)) = n - 1 <=> x = p
    <3> HIDE DEF Below
    <3> QED BY <2>1, <2>2
  <2> QED BY <2>3 DEF Nth
<1> QED BY <1>1, <1>4, <1>6

LEMMA RewrittenIs ==
  ASSUME NEW used, NEW F, Len(F) \in Nat
  PROVE  /\ Rewritten(used, F)[0] = <<>>
         /\ \A k \in 1 .. Len(F) :
              Rewritten(used, F)[k] =
                With(Rewritten(used, F)[k - 1] \o Preceding(used, F[k]), F[k])
<1> DEFINE N == Len(F)
           x == [used |-> used, functions |-> F]
           run(a) == a = [k \in 0 .. N |->
                            IF k = 0 THEN <<>>
                            ELSE Append(a[k - 1] \o Preceding(used, F[k]), F[k])]
           after == CHOOSE a : run(a)
<1>1. \A a : Run("rewritten", <<>>, N, x, a) => run(a)
  BY DEF Run, Iterated
<1>2. run(after)
  <2>1. PICK a : Run("rewritten", <<>>, N, x, a)
    <3> HIDE DEF x
    <3> QED BY RunExists
  <2>2. run(a)
    BY <1>1, <2>1
  <2> QED BY <2>2
<1>3. Rewritten(used, F) = after
  BY DEF Rewritten
<1> HIDE DEF after
<1>4. \A k \in 0 .. N : after[k] = IF k = 0 THEN <<>>
                                   ELSE With(after[k - 1] \o Preceding(used, F[k]), F[k])
  BY <1>2 DEF With
<1>5. 0 \in 0 .. N /\ \A k \in 1 .. N : k \in 0 .. N /\ k # 0
  OBVIOUS
<1> QED BY <1>3, <1>4, <1>5

\* The sequence u is s followed by t.
IsJoin(V, s, t, u) ==
  /\ u \in Seq(V) /\ Len(u) = Len(s) + Len(t)
  /\ \A k \in 1 .. Len(s) : u[k] = s[k]
  /\ \A k \in 1 .. Len(t) : u[Len(s) + k] = t[k]

LEMMA Joined ==
  ASSUME NEW V, NEW s \in Seq(V), NEW t \in Seq(V)
  PROVE  IsJoin(V, s, t, s \o t)
<1> DEFINE all == s \o t
           n == Len(s)
           m == Len(t)
<1>1. /\ all \in Seq(V) /\ Len(all) = n + m
      /\ \A k \in 1 .. n + m : all[k] = IF k <= n THEN s[k] ELSE t[k - n]
  BY ConcatProperties
<1>2. n \in Nat /\ m \in Nat
  OBVIOUS
<1> HIDE DEF all, n, m
<1>3. \A k \in 1 .. n : all[k] = s[k]
  BY <1>1, <1>2
<1>4. ASSUME NEW k \in 1 .. m PROVE all[n + k] = t[k]
  <2> DEFINE j == n + k
  <2>1. j \in 1 .. n + m /\ ~(j <= n) /\ j - n = k
    BY <1>2
  <2> HIDE DEF j
  <2>2. all[j] = t[k]
    BY <1>1, <2>1
  <2> QED BY <2>2 DEF j
<1>5. IsJoin(V, s, t, all)
  BY <1>1, <1>3, <1>4 DEF IsJoin, n, m
<1> QED BY <1>5 DEF all

\* The sequence t is s with e inserted at place c.
IsInsert(V, s, c, e, t) ==
  /\ t \in Seq(V) /\ Len(t) = Len(s) + 1
  /\ \A k \in 1 .. c - 1 : t[k] = s[k]
  /\ t[c] = e
  /\ \A k \in c + 1 .. Len(s) + 1 : t[k] = s[k - 1]

LEMMA InsertAtIs ==
  ASSUME NEW V, NEW s \in Seq(V), NEW c \in 1 .. Len(s), NEW e \in V
  PROVE  IsInsert(V, s, c, e, InsertAt(s, c, e))
<1> DEFINE N == Len(s)
           head == SubSeq(s, 1, c - 1)
           tail == SubSeq(s, c, N)
           front == head \o <<e>>
<1>1. N \in Nat /\ c \in 1 .. N /\ \A k \in 1 .. N : s[k] \in V
  OBVIOUS
<1>2. head \in Seq(V) /\ Len(head) = c - 1 /\ \A k \in 1 .. c - 1 : head[k] = s[k]
  <2>1. \A k \in 1 .. c - 1 : s[k] \in V /\ 1 + k - 1 = k
    BY <1>1
  <2>2. \A k \in 1 .. c - 1 - 1 + 1 : head[k] = s[1 + k - 1]
    BY <1>1, <2>1, SubSeqProperties
  <2>3. c - 1 - 1 + 1 = c - 1
    BY <1>1
  <2>4. head \in Seq(V) /\ Len(head) = c - 1
    BY <1>1, <2>1, SubSeqProperties
  <2> HIDE DEF head
  <2> QED BY <2>1, <2>2, <2>3, <2>4
<1>3. tail \in Seq(V) /\ Len(tail) = N - c + 1 /\ \A k \in 1 .. N - c + 1 : tail[k] = s[c + k - 1]
  <2>1. \A k \in c .. N : s[k] \in V
    BY <1>1
  <2> QED BY <1>1, <2>1, SubSeqProperties
<1>4. <<e>> \in Seq(V) /\ Len(<<e>>) = 1 /\ <<e>>[1] = e
  OBVIOUS
<1> HIDE DEF head, tail, N
<1>5. /\ front \in Seq(V) /\ Len(front) = c
      /\ \A k \in 1 .. c - 1 : front[k] = head[k]
      /\ front[c] = e
  <2> DEFINE one == <<e>>
  <2>1. one \in Seq(V) /\ Len(one) = 1 /\ one[1] = e
    BY <1>4
  <2> HIDE DEF one
  <2>2. head \in Seq(V) /\ Len(head) = c - 1
    BY <1>2
  <2> DEFINE u == head \o one
  <2>3. IsJoin(V, head, one, u)
    BY <2>1, <2>2, Joined
  <2>4. (c - 1) + 1 = c /\ 1 \in 1 .. 1
    BY <1>1
  <2> HIDE DEF u
  <2>5. u \in Seq(V) /\ Len(u) = c /\ \A k \in 1 .. c - 1 : u[k] = head[k]
    BY <2>1, <2>2, <2>3, <2>4 DEF IsJoin
  <2>6. u[c] = one[1]
    BY <2>1, <2>2, <2>3, <2>4 DEF IsJoin
  <2> QED BY <2>1, <2>5, <2>6 DEF one, u
<1> HIDE DEF front
<1> DEFINE t == front \o tail
<1>6. /\ t \in Seq(V) /\ Len(t) = c + (N - c + 1)
      /\ \A k \in 1 .. c : t[k] = front[k]
      /\ \A k \in 1 .. N - c + 1 : t[c + k] = tail[k]
  <2>1. front \in Seq(V) /\ Len(front) = c /\ tail \in Seq(V) /\ Len(tail) = N - c + 1
    BY <1>3, <1>5
  <2>2. IsJoin(V, front, tail, t)
    BY <2>1, Joined
  <2> HIDE DEF t
  <2> QED BY <2>1, <2>2 DEF IsJoin
<1>7. InsertAt(s, c, e) = t
  BY DEF InsertAt, front, head, tail, N
<1>8. c + (N - c + 1) = N + 1
  BY <1>1
<1> HIDE DEF t
<1>9. \A k \in 1 .. c : t[k] = front[k]
  BY <1>6
<1>10. \A k \in c + 1 .. N + 1 : t[k] = s[k - 1]
  <2> TAKE k \in c + 1 .. N + 1
  <2>1. k - c \in 1 .. N - c + 1 /\ c + (k - c) = k /\ c + (k - c) - 1 = k - 1
    BY <1>1
  <2>2. t[k] = tail[k - c]
    BY <1>6, <2>1
  <2> QED BY <1>3, <2>1, <2>2
<1>11. t \in Seq(V) /\ Len(t) = N + 1
  BY <1>6, <1>8
<1>12. \A k \in 1 .. c - 1 : t[k] = s[k]
  BY <1>1, <1>2, <1>5, <1>9
<1>13. t[c] = e
  BY <1>1, <1>5, <1>9
<1>14. IsInsert(V, s, c, e, t)
  BY <1>10, <1>11, <1>12, <1>13 DEF N, IsInsert
<1> QED BY <1>7, <1>14

\* Everything that can stand in the list: functions and their copies.
Entries(used, F) == ToSet(F) \cup UNION {ToSet(Copies(used, f)) : f \in ToSet(F)}

LEMMA PrecedingSeq ==
  ASSUME NEW used, IsFiniteSet(used), NEW F, NEW f \in ToSet(F)
  PROVE  /\ Preceding(used, f) \in Seq(Entries(used, F))
         /\ Len(Preceding(used, f)) = IF includeFunction(f) THEN Cardinality(used) ELSE 0
         /\ Cardinality(used) \in Nat
<1> DEFINE n == Cardinality(used)
           s == Copies(used, f)
           V == Entries(used, F)
<1>1. n \in Nat
  BY FS_CardinalityType
<1> DEFINE copy(k) == clone(f, Nth(used, k))
<1>2. s = [k \in 1 .. n |-> copy(k)]
  BY DEF Copies
<1> HIDE DEF n, copy
<1>3. DOMAIN s = 1 .. n
  BY <1>2
<1>4. \A k \in 1 .. n : s[k] \in V
  <2> HIDE DEF s
  <2>1. \A k \in 1 .. n : s[k] \in ToSet(s)
    BY <1>3 DEF ToSet
  <2>2. ToSet(s) \subseteq V
    BY DEF Entries, s
  <2> QED BY <2>1, <2>2
<1> HIDE DEF V
<1>5. s \in Seq(V) /\ Len(s) = n
  <2>1. \A k \in 1 .. n : copy(k) \in V
    BY <1>2, <1>4
  <2> HIDE DEF s
  <2> QED BY <1>1, <1>2, <2>1
<1> HIDE DEF s
<1>6. <<>> \in Seq(V) /\ Len(<<>>) = 0
  OBVIOUS
<1>7. Preceding(used, f) = IF includeFunction(f) THEN s ELSE <<>>
  BY DEF Preceding, s
<1> QED BY <1>1, <1>5, <1>6, <1>7 DEF n, V

LEMMA RewrittenSeq ==
  ASSUME NEW used, IsFiniteSet(used), NEW F, F \in Seq(ToSet(F))
  PROVE  \A n \in 0 .. Len(F) : Rewritten(used, F)[n] \in Seq(Entries(used, F))
<1> DEFINE V == Entries(used, F)
           R == Rewritten(used, F)
           Good == {n \in 0 .. Len(F) : R[n] \in Seq(V)}
<1>1. Len(F) \in Nat /\ \A k \in 1 .. Len(F) : F[k] \in ToSet(F) /\ F[k] \in V
  BY DEF Entries
<1>2. R[0] = <<>> /\ \A k \in 1 .. Len(F) : R[k] = With(R[k - 1] \o Preceding(used, F[k]), F[k])
  BY <1>1, RewrittenIs
<1>3. \A k \in 1 .. Len(F) : Preceding(used, F[k]) \in Seq(V)
  BY <1>1, PrecedingSeq
<1> HIDE DEF V, R
<1>4. 0 \in Good
  <2>1. <<>> \in Seq(V) /\ 0 \in 0 .. Len(F)
    BY <1>1
  <2> QED BY <1>2, <2>1
<1>5. ASSUME NEW n \in 0 .. Len(F), n + 1 \in 0 .. Len(F), n \in Good PROVE n + 1 \in Good
  <2>1. n + 1 \in 1 .. Len(F) /\ n + 1 - 1 = n
    BY <1>1, <1>5
  <2> DEFINE a == R[n]
             b == Preceding(used, F[n + 1])
             e == F[n + 1]
  <2>2. a \in Seq(V) /\ b \in Seq(V) /\ e \in V
    BY <1>1, <1>3, <1>5, <2>1
  <2>3. R[n + 1] = With(a \o b, e)
    BY <1>2, <2>1
  <2> HIDE DEF a, b, e
  <2>4. a \o b \in Seq(V)
    BY <2>2
  <2>5. With(a \o b, e) \in Seq(V)
    BY <2>2, <2>4, WithOne
  <2> QED BY <1>5, <2>3, <2>5
<1>6. \A n \in 0 .. Len(F) : n \in Good
  <2> HIDE DEF Good
  <2> QED BY <1>1, <1>4, <1>5, UpTo
<1> QED BY <1>6 DEF V, R

\* The walk over the list F has reached its function i: before it stand the
\* rewritten functions and the m copies of function i made so far.
Walk(used, F, i, dev, cur, m) ==
  LET out == Rewritten(used, F)[i - 1]
  IN  /\ i \in 1 .. Len(F) + 1 /\ m \in Nat
      /\ m > 0 => i \in 1 .. Len(F) /\ m <= Len(Preceding(used, F[i]))
      /\ cur = Len(out) + m + 1
      /\ dev \in Seq(Entries(used, F)) /\ Len(dev) = Len(out) + m + (Len(F) - i + 1)
      /\ \A k \in 1 .. Len(out) : dev[k] = out[k]
      /\ \A k \in 1 .. m : dev[Len(out) + k] = Preceding(used, F[i])[k]
      /\ \A k \in i .. Len(F) : dev[Len(out) + m + 1 + (k - i)] = F[k]

\* The function reached, as long as there is one.
LEMMA Reached ==
  ASSUME NEW used, IsFiniteSet(used), NEW F, F \in Seq(ToSet(F)), NEW i, NEW dev, NEW cur, NEW m,
         Walk(used, F, i, dev, cur, m), cur <= Len(dev)
  PROVE  i \in 1 .. Len(F) /\ dev[cur] = F[i] /\ cur \in 1 .. Len(dev)
<1> DEFINE L == Len(Rewritten(used, F)[i - 1])
<1>1. Len(F) \in Nat /\ i \in 1 .. Len(F) + 1 /\ m \in Nat
  BY DEF Walk
<1>2. L \in Nat
  <2>1. i - 1 \in 0 .. Len(F)
    BY <1>1
  <2>2. Rewritten(used, F)[i - 1] \in Seq(Entries(used, F))
    BY <2>1, RewrittenSeq
  <2> QED BY <2>2
<1>3. /\ cur = L + m + 1 /\ Len(dev) = L + m + (Len(F) - i + 1)
      /\ \A k \in i .. Len(F) : dev[L + m + 1 + (k - i)] = F[k]
  BY DEF Walk
<1> HIDE DEF L
<1>4. i \in 1 .. Len(F) /\ i \in i .. Len(F) /\ i - i = 0 /\ cur \in 1 .. Len(dev)
  BY <1>1, <1>2, <1>3
<1>5. L + m + 1 + (i - i) = cur
  BY <1>1, <1>2, <1>3
<1> QED BY <1>3, <1>4, <1>5

\* A function whose copies are all made is left behind.
LEMMA WalkOn ==
  ASSUME NEW used, IsFiniteSet(used), NEW F, F \in Seq(ToSet(F)), NEW i, NEW dev, NEW cur, NEW m,
         Walk(used, F, i, dev, cur, m), cur <= Len(dev), m = Len(Preceding(used, F[i]))
  PROVE  Walk(used, F, i + 1, dev, cur + 1, 0)
<1> DEFINE N == Len(F)
           V == Entries(used, F)
           R == Rewritten(used, F)
           a == R[i - 1]
           b == Preceding(used, F[i])
           c == R[i]
           L == Len(a)
<1>1. N \in Nat /\ i \in 1 .. N
  BY Reached
<1>2. a \in Seq(V) /\ c \in Seq(V)
  <2>1. i - 1 \in 0 .. N /\ i \in 0 .. N
    BY <1>1
  <2> QED BY <2>1, RewrittenSeq
<1>3. F[i] \in ToSet(F) /\ F[i] \in V
  BY <1>1 DEF Entries
<1>4. b \in Seq(V)
  BY <1>3, PrecedingSeq
<1>5. c = With(a \o b, F[i])
  BY <1>1, RewrittenIs
<1>6. /\ m \in Nat /\ cur = L + m + 1 /\ dev \in Seq(V) /\ Len(dev) = L + m + (N - i + 1)
      /\ \A k \in 1 .. L : dev[k] = a[k]
      /\ \A k \in 1 .. m : dev[L + k] = b[k]
      /\ \A k \in i .. N : dev[L + m + 1 + (k - i)] = F[k]
      /\ m = Len(b)
  BY DEF Walk
<1> DEFINE e == F[i]
<1>7. e \in V /\ c = With(a \o b, e) /\ dev[L + m + 1] = e
  <2>1. i \in i .. N /\ i - i = 0
    BY <1>1
  <2>2. L \in Nat
    BY <1>2
  <2>3. L + m + 1 + (i - i) = L + m + 1
    <3> HIDE DEF L
    <3> QED BY <1>1, <1>6, <2>2
  <2> QED BY <1>3, <1>5, <1>6, <2>1, <2>3
<1> HIDE DEF a, b, c, e, V, R
<1>8. L \in Nat
  BY <1>2
<1> DEFINE ab == a \o b
<1>10. /\ ab \in Seq(V) /\ Len(ab) = L + m
       /\ \A k \in 1 .. L : ab[k] = a[k]
       /\ \A k \in 1 .. m : ab[L + k] = b[k]
  <2>1. Len(b) = m
    BY <1>6
  <2>2. IsJoin(V, a, b, ab)
    BY <1>2, <1>4, Joined
  <2> HIDE DEF ab
  <2> QED BY <2>1, <2>2 DEF IsJoin
<1>11. c = With(ab, e)
  BY <1>7
<1> HIDE DEF ab
<1>12. /\ Len(c) = L + m + 1 /\ c[L + m + 1] = e
       /\ \A k \in 1 .. L + m : c[k] = ab[k]
  <2>1. /\ Len(With(ab, e)) = Len(ab) + 1 /\ With(ab, e)[Len(ab) + 1] = e
        /\ \A k \in 1 .. Len(ab) : With(ab, e)[k] = ab[k]
    BY <1>7, <1>10, AppendProperties DEF With
  <2> QED BY <1>10, <1>11, <2>1
<1> HIDE DEF L
<1>13. \A k \in 1 .. L + m + 1 : dev[k] = c[k]
  <2> TAKE k \in 1 .. L + m + 1
  <2>1. CASE k \in 1 .. L
    <3>1. k \in 1 .. L + m
      BY <1>6, <1>8, <2>1
    <3> QED BY <1>6, <1>10, <1>12, <2>1, <3>1
  <2>2. CASE k \in L + 1 .. L + m
    <3> DEFINE j == k - L
    <3>1. j \in 1 .. m /\ L + j = k /\ k \in 1 .. L + m
      BY <1>6, <1>8, <2>2
    <3> HIDE DEF j
    <3>2. dev[L + j] = b[j] /\ ab[L + j] = b[j] /\ c[k] = ab[k]
      BY <1>6, <1>10, <1>12, <3>1
    <3> QED BY <3>1, <3>2
  <2>3. CASE k = L + m + 1
    BY <1>7, <1>12, <2>3
  <2>4. k \in 1 .. L \/ k \in L + 1 .. L + m \/ k = L + m + 1
    BY <1>6, <1>8
  <2> QED BY <2>1, <2>2, <2>3, <2>4
<1>14. /\ i + 1 \in 1 .. N + 1 /\ i + 1 - 1 = i /\ cur + 1 = (L + m + 1) + 0 + 1
       /\ Len(dev) = (L + m + 1) + 0 + (N - (i + 1) + 1)
  BY <1>1, <1>6, <1>8
<1>15. \A k \in i + 1 .. N : dev[(L + m + 1) + 0 + 1 + (k - (i + 1))] = F[k]
  <2> TAKE k \in i + 1 .. N
  <2>1. k \in i .. N /\ (L + m + 1) + 0 + 1 + (k - (i + 1)) = L + m + 1 + (k - i)
    BY <1>1, <1>6, <1>8
  <2> QED BY <1>6, <2>1
<1>16. Entries(used, F) = V /\ Len(F) = N
  BY <1>14 DEF c, R, V
<1> DEFINE M == L + m + 1
<1>17. Len(c) = M
  BY <1>12
<1>18. /\ cur + 1 = M + 0 + 1 /\ Len(dev) = M + 0 + (N - (i + 1) + 1)
       /\ \A k \in 1 .. M : dev[k] = c[k]
       /\ \A k \in i + 1 .. N : dev[M + 0 + 1 + (k - (i + 1))] = F[k]
  BY <1>13, <1>14, <1>15
<1> HIDE DEF M, N, c
<1>19. 0 \in Nat /\ ~(0 > 0) /\ 1 .. 0 = {}
  OBVIOUS
<1> DEFINE i2 == i + 1
           cur2 == cur + 1
<1>20. /\ i2 \in 1 .. N + 1 /\ Rewritten(used, F)[i2 - 1] = c /\ cur2 = M + 0 + 1
       /\ Len(dev) = M + 0 + (N - i2 + 1)
       /\ \A k \in i2 .. N : dev[M + 0 + 1 + (k - i2)] = F[k]
  <2>1. i2 \in 1 .. N + 1
    BY <1>14
  <2>2. Rewritten(used, F)[i2 - 1] = c
    <3>1. i2 - 1 = i
      BY <1>1
    <3> HIDE DEF i2
    <3> QED BY <3>1 DEF c, R
  <2>3. cur2 = M + 0 + 1 /\ Len(dev) = M + 0 + (N - i2 + 1)
    BY <1>18
  <2>4. \A k \in i2 .. N : dev[M + 0 + 1 + (k - i2)] = F[k]
    BY <1>18
  <2> QED BY <2>1, <2>2, <2>3, <2>4
<1> HIDE DEF i2, cur2
<1>21. dev \in Seq(V)
  BY <1>6
<1>22. Walk(used, F, i2, dev, cur2, 0)
  BY <1>16, <1>17, <1>18, <1>19, <1>20, <1>21 DEF Walk
<1> QED BY <1>22 DEF i2, cur2

\* One more copy.
LEMMA WalkCopy ==
  ASSUME NEW used, IsFiniteSet(used), NEW F, F \in Seq(ToSet(F)), NEW i, NEW dev, NEW cur, NEW m,
         Walk(used, F, i, dev, cur, m), cur <= Len(dev), m < Len(Preceding(used, F[i])),
         NEW e, e = Preceding(used, F[i])[m + 1]
  PROVE  Walk(used, F, i, InsertAt(dev, cur, e), cur + 1, m + 1)
<1> DEFINE N == Len(F)
           V == Entries(used, F)
           a == Rewritten(used, F)[i - 1]
           b == Preceding(used, F[i])
           L == Len(a)
           dev2 == InsertAt(dev, cur, e)
<1>1. N \in Nat /\ i \in 1 .. N /\ cur \in 1 .. Len(dev)
  BY Reached
<1>2. L \in Nat
  <2>1. i - 1 \in 0 .. N
    BY <1>1
  <2>2. a \in Seq(V)
    BY <2>1, RewrittenSeq
  <2> QED BY <2>2
<1>3. b \in Seq(V)
  BY <1>1, PrecedingSeq
<1>4. /\ m \in Nat /\ cur = L + m + 1 /\ dev \in Seq(V) /\ Len(dev) = L + m + (N - i + 1)
      /\ \A k \in 1 .. L : dev[k] = a[k]
      /\ \A k \in 1 .. m : dev[L + k] = b[k]
      /\ \A k \in i .. N : dev[L + m + 1 + (k - i)] = F[k]
      /\ m < Len(b) /\ e = b[m + 1]
  BY DEF Walk
<1>5. e \in V /\ m + 1 <= Len(b)
  <2> HIDE DEF b, V, a
  <2>1. Len(b) \in Nat /\ \A k \in 1 .. Len(b) : b[k] \in V
    BY <1>3
  <2>2. m + 1 \in 1 .. Len(b)
    BY <1>4, <2>1
  <2> QED BY <1>4, <2>1, <2>2
<1> HIDE DEF V
<1>6. /\ dev2 \in Seq(V) /\ Len(dev2) = Len(dev) + 1
      /\ \A k \in 1 .. cur - 1 : dev2[k] = dev[k]
      /\ dev2[cur] = e
      /\ \A k \in cur + 1 .. Len(dev) + 1 : dev2[k] = dev[k - 1]
  <2> HIDE DEF a, b, L
  <2>1. dev \in Seq(V) /\ cur \in 1 .. Len(dev) /\ e \in V
    BY <1>1, <1>4, <1>5
  <2>2. IsInsert(V, dev, cur, e, dev2)
    BY <2>1, InsertAtIs
  <2> HIDE DEF dev2
  <2> QED BY <2>2 DEF IsInsert
<1> HIDE DEF a, b, L, dev2
<1>7. \A k \in 1 .. L : dev2[k] = a[k]
  <2> TAKE k \in 1 .. L
  <2>1. k \in 1 .. cur - 1
    BY <1>2, <1>4
  <2> QED BY <1>4, <1>6, <2>1
<1>8. \A k \in 1 .. m + 1 : dev2[L + k] = b[k]
  <2> TAKE k \in 1 .. m + 1
  <2>1. CASE k = m + 1
    <3>1. L + k = cur
      BY <1>2, <1>4, <2>1
    <3> QED BY <1>4, <1>6, <2>1, <3>1
  <2>2. CASE k \in 1 .. m
    <3>1. L + k \in 1 .. cur - 1
      BY <1>2, <1>4, <2>2
    <3> QED BY <1>4, <1>6, <2>2, <3>1
  <2> QED BY <1>4, <2>1, <2>2
<1>9. \A k \in i .. N : dev2[L + (m + 1) + 1 + (k - i)] = F[k]
  <2> TAKE k \in i .. N
  <2> DEFINE j == L + (m + 1) + 1 + (k - i)
  <2>1. j \in cur + 1 .. Len(dev) + 1 /\ j - 1 = L + m + 1 + (k - i)
    BY <1>1, <1>2, <1>4
  <2> HIDE DEF j
  <2>2. dev2[j] = dev[j - 1]
    BY <1>6, <2>1
  <2>3. dev2[j] = F[k]
    BY <1>4, <2>1, <2>2
  <2> QED BY <2>3 DEF j
<1>10. /\ m + 1 \in Nat /\ cur + 1 = L + (m + 1) + 1
       /\ Len(dev2) = L + (m + 1) + (N - i + 1)
       /\ i \in 1 .. N + 1
  BY <1>1, <1>2, <1>4, <1>6
<1>11. /\ Rewritten(used, F)[i - 1] = a /\ Preceding(used, F[i]) = b /\ Entries(used, F) = V
       /\ Len(a) = L /\ InsertAt(dev, cur, e) = dev2
  BY DEF a, b, V, L, dev2
<1> DEFINE m2 == m + 1
           cur2 == cur + 1
<1>12. /\ i \in 1 .. Len(F) + 1 /\ m2 \in Nat
       /\ m2 > 0 => i \in 1 .. Len(F) /\ m2 <= Len(b)
       /\ cur2 = L + m2 + 1
       /\ dev2 \in Seq(V) /\ Len(dev2) = L + m2 + (Len(F) - i + 1)
       /\ \A k \in 1 .. L : dev2[k] = a[k]
       /\ \A k \in 1 .. m2 : dev2[L + k] = b[k]
       /\ \A k \in i .. Len(F) : dev2[L + m2 + 1 + (k - i)] = F[k]
  BY <1>1, <1>5, <1>6, <1>7, <1>8, <1>9, <1>10
<1> HIDE DEF m2, cur2, N
<1>13. Walk(used, F, i, dev2, cur2, m2)
  BY <1>11, <1>12 DEF Walk
<1> QED BY <1>11, <1>13 DEF m2, cur2

\* At the end of the list all functions are rewritten.
LEMMA WalkEnd ==
  ASSUME NEW used, IsFiniteSet(used), NEW F, F \in Seq(ToSet(F)), NEW i, NEW dev, NEW cur, NEW m,
         Walk(used, F, i, dev, cur, m), cur > Len(dev)
  PROVE  dev = Rewritten(used, F)[Len(F)]
<1> DEFINE N == Len(F)
           V == Entries(used, F)
           a == Rewritten(used, F)[i - 1]
           L == Len(a)
<1>1. N \in Nat /\ i \in 1 .. N + 1 /\ m \in Nat
  BY DEF Walk
<1>2. a \in Seq(V)
  <2>1. i - 1 \in 0 .. N
    BY <1>1
  <2> QED BY <2>1, RewrittenSeq
<1>3. L \in Nat
  BY <1>2
<1>4. /\ cur = L + m + 1 /\ dev \in Seq(V) /\ Len(dev) = L + m + (N - i + 1)
      /\ \A k \in 1 .. L : dev[k] = a[k]
      /\ m > 0 => i \in 1 .. N
  BY DEF Walk
<1> HIDE DEF L, a, V, N
<1>5. i = N + 1 /\ m = 0
  BY <1>1, <1>3, <1>4
<1>6. Len(dev) = L
  BY <1>1, <1>3, <1>4, <1>5
<1>7. dev = a
  BY <1>2, <1>4, <1>6, SeqEqual DEF L
<1>8. i - 1 = N
  BY <1>1, <1>5
<1> QED BY <1>7, <1>8 DEF a, N

------------------------------------------------------------------------------
LEMMA FirstFunctions ==
  ASSUME NEW file \in DOMAIN Files, NEW skeleton \in Skeletons
  PROVE  deviceClone(file, skeleton) \in Seq(ToSet(deviceClone(file, skeleton)))
<1> DEFINE functions == Files[file].functions
           s == [f \in DOMAIN functions |-> Function(functions[f])]
           t == [f \in DOMAIN skeleton |-> Declaration(skeleton[f])]
           V == {s[f] : f \in DOMAIN functions} \cup {t[f] : f \in DOMAIN skeleton}
           all == s \o t
<1>1. functions \in Seq(ToSet(functions)) /\ skeleton \in Seq(ToSet(skeleton))
  BY FilesAssumption, SkeletonsAssumption
<1>2. /\ Len(functions) \in Nat /\ DOMAIN functions = 1 .. Len(functions)
      /\ Len(skeleton) \in Nat /\ DOMAIN skeleton = 1 .. Len(skeleton)
  BY <1>1
<1>3. s \in Seq(V) /\ t \in Seq(V)
  <2> DEFINE v(f) == Function(functions[f])
             w(f) == Declaration(skeleton[f])
  <2>1. \A f \in 1 .. Len(functions) : v(f) \in V
    BY <1>2
  <2>2. \A f \in 1 .. Len(skeleton) : w(f) \in V
    BY <1>2
  <2>3. /\ s = [f \in 1 .. Len(functions) |-> v(f)]
        /\ t = [f \in 1 .. Len(skeleton) |-> w(f)]
    BY <1>2
  <2> HIDE DEF v, w, V, s, t
  <2> QED BY <1>2, <2>1, <2>2, <2>3
<1>4. all \in Seq(V)
  <2> HIDE DEF s, t, V
  <2> QED BY <1>3
<1>5. deviceClone(file, skeleton) = all
  BY DEF deviceClone
<1> HIDE DEF all, V
<1>6. all \in Seq(ToSet(all))
  <2>1. Len(all) \in Nat /\ DOMAIN all = 1 .. Len(all) /\ all = [k \in 1 .. Len(all) |-> all[k]]
    BY <1>4
  <2>2. \A k \in 1 .. Len(all) : all[k] \in ToSet(all)
    BY <2>1 DEF ToSet
  <2> QED BY <1>4, <2>1, <2>2
<1> QED BY <1>5, <1>6

\* The list being rewritten: all copies of the function visited stand for the
\* partitions that are done, and these are the first ones.
Copying(used, F, i, dev, cur, inside, left) ==
  /\ Walk(used, F, i, dev, cur, IF inside THEN Cardinality(used \ left) ELSE 0)
  /\ inside => /\ i \in 1 .. Len(F) /\ includeFunction(F[i])
               /\ left \subseteq used
               /\ \A p \in used \ left, q \in left : p < q

CloneInv ==
  /\ entered \in BOOLEAN
  /\ stage \in {"usage", "options", "input", "partition"} => cursor = 1 /\ entered = FALSE
  /\ stage = "clone" =>
       \E skeleton \in Skeletons : \E i \in Nat :
         Copying(partitions, deviceClone(md, skeleton), i, device, cursor, entered, cloning)
  /\ ClonedOnce

LEMMA WalkStart ==
  ASSUME NEW used, NEW F, F \in Seq(ToSet(F))
  PROVE  Walk(used, F, 1, F, 1, 0)
<1> DEFINE V == Entries(used, F)
           R == Rewritten(used, F)
           N == Len(F)
<1>1. N \in Nat
  OBVIOUS
<1>2. R[0] = <<>>
  BY <1>1, RewrittenIs
<1>3. F \in Seq(V)
  BY DEF Entries
<1> HIDE DEF V, R, N
<1>4. 1 - 1 = 0 /\ Len(<<>>) = 0
  OBVIOUS
<1> DEFINE out == R[1 - 1]
<1>5. Len(out) = 0
  BY <1>2, <1>4
<1>6. /\ 1 \in 1 .. N + 1 /\ 0 \in Nat /\ ~(0 > 0)
      /\ 1 = 0 + 0 + 1 /\ N = 0 + 0 + (N - 1 + 1) /\ 1 .. 0 = {}
      /\ \A k \in 1 .. N : 0 + 0 + 1 + (k - 1) = k
  BY <1>1
<1> HIDE DEF out
<1>7. \A k \in 1 .. N : F[0 + 0 + 1 + (k - 1)] = F[k]
  BY <1>6
<1>8. Rewritten(used, F)[1 - 1] = out /\ Entries(used, F) = V /\ Len(F) = N
  BY DEF out, R, V, N
<1> QED BY <1>3, <1>5, <1>6, <1>7, <1>8 DEF Walk

LEMMA WalkTypes ==
  ASSUME NEW used, IsFiniteSet(used), NEW F, F \in Seq(ToSet(F)), NEW i, NEW dev, NEW cur, NEW m,
         Walk(used, F, i, dev, cur, m)
  PROVE  cur \in Nat /\ Len(dev) \in Nat /\ i \in Nat
<1> DEFINE a == Rewritten(used, F)[i - 1]
           L == Len(a)
<1>1. Len(F) \in Nat /\ i \in 1 .. Len(F) + 1 /\ m \in Nat
  BY DEF Walk
<1>2. L \in Nat
  <2>1. i - 1 \in 0 .. Len(F)
    BY <1>1
  <2>2. a \in Seq(Entries(used, F))
    BY <2>1, RewrittenSeq
  <2> QED BY <2>2
<1>3. cur = L + m + 1 /\ Len(dev) = L + m + (Len(F) - i + 1)
  BY DEF Walk
<1> HIDE DEF L
<1> QED BY <1>1, <1>2, <1>3

\* A function is entered with all its copies to be made.
LEMMA Entering ==
  ASSUME NEW used, IsFiniteSet(used), NEW F, F \in Seq(ToSet(F)), NEW i, NEW dev, NEW cur, NEW left,
         Copying(used, F, i, dev, cur, FALSE, left), cur <= Len(dev), includeFunction(dev[cur])
  PROVE  Copying(used, F, i, dev, cur, TRUE, used)
<1>1. Walk(used, F, i, dev, cur, 0)
  BY DEF Copying
<1>2. i \in 1 .. Len(F) /\ dev[cur] = F[i]
  BY <1>1, Reached
<1>3. used \ used = {} /\ Cardinality({}) = 0
  BY FS_EmptySet
<1> QED BY <1>1, <1>2, <1>3 DEF Copying

\* A function without copies, or with all of them made, is left.
LEMMA Leaving ==
  ASSUME NEW used, IsFiniteSet(used), NEW F, F \in Seq(ToSet(F)), NEW i, NEW dev, NEW cur,
         NEW inside \in BOOLEAN, NEW left,
         Copying(used, F, i, dev, cur, inside, left), cur <= Len(dev),
         IF inside THEN left = {} ELSE ~includeFunction(dev[cur])
  PROVE  Copying(used, F, i + 1, dev, cur + 1, FALSE, left)
<1> DEFINE m == IF inside THEN Cardinality(used \ left) ELSE 0
<1>1. Walk(used, F, i, dev, cur, m)
  BY DEF Copying
<1>2. i \in 1 .. Len(F) /\ dev[cur] = F[i]
  BY <1>1, Reached
<1>3. F[i] \in ToSet(F)
  BY <1>2
<1>4. Len(Preceding(used, F[i])) = IF includeFunction(F[i]) THEN Cardinality(used) ELSE 0
  BY <1>3, PrecedingSeq
<1>5. m = Len(Preceding(used, F[i]))
  <2>1. CASE inside
    <3>1. used \ left = used /\ includeFunction(F[i])
      BY <2>1 DEF Copying
    <3> QED BY <1>4, <2>1, <3>1
  <2>2. CASE ~inside
    BY <1>2, <1>4, <2>2
  <2> QED BY <2>1, <2>2
<1> HIDE DEF m
<1>6. Walk(used, F, i + 1, dev, cur + 1, 0)
  BY <1>1, <1>5, WalkOn
<1> QED BY <1>6 DEF Copying

\* The copy for the least partition left is the next one.
LEMMA NextCopy ==
  ASSUME NEW used \in SUBSET Nat, IsFiniteSet(used), NEW F, F \in Seq(ToSet(F)), NEW i, NEW dev,
         NEW cur, NEW left, Copying(used, F, i, dev, cur, TRUE, left), cur <= Len(dev), left # {}
  PROVE  Copying(used, F, i, InsertAt(dev, cur, clone(dev[cur], Min(left))), cur + 1, TRUE,
                 left \ {Min(left)})
<1> DEFINE p == Min(left)
           done == used \ left
           m == Cardinality(done)
           e == clone(F[i], p)
<1>1. /\ Walk(used, F, i, dev, cur, m) /\ i \in 1 .. Len(F) /\ includeFunction(F[i])
      /\ left \subseteq used /\ \A x \in done, q \in left : x < q
  BY DEF Copying
<1>2. p \in left /\ \A q \in left : p <= q
  <2>1. left \in SUBSET Nat
    BY <1>1
  <2> QED BY <2>1, LeastOf
<1> HIDE DEF p
<1>3. done = {q \in used : q < p}
  <2>1. \A q \in used : q \in Nat
    OBVIOUS
  <2>2. p \in Nat
    BY <1>1, <1>2, <2>1
  <2>3. \A q \in used : q \in done <=> q < p
    BY <1>1, <1>2, <2>1, <2>2
  <2> QED BY <2>3
<1>4. m \in Nat /\ Nth(used, m + 1) = p /\ m < Cardinality(used)
  BY <1>1, <1>2, <1>3, NthIs
<1>5. Len(Preceding(used, F[i])) = Cardinality(used) /\ Cardinality(used) \in Nat
  <2>1. F[i] \in ToSet(F)
    BY <1>1
  <2> QED BY <1>1, <2>1, PrecedingSeq
<1>6. e = Preceding(used, F[i])[m + 1]
  <2> HIDE DEF m
  <2>1. m + 1 \in 1 .. Cardinality(used)
    BY <1>4, <1>5
  <2>2. Preceding(used, F[i]) = Copies(used, F[i])
    BY <1>1 DEF Preceding
  <2>3. Copies(used, F[i])[m + 1] = clone(F[i], Nth(used, m + 1))
    BY <2>1 DEF Copies
  <2> QED BY <1>4, <2>2, <2>3
<1>7. dev[cur] = F[i]
  BY <1>1, Reached
<1>8. Walk(used, F, i, InsertAt(dev, cur, e), cur + 1, m + 1)
  <2> HIDE DEF m, e
  <2> QED BY <1>1, <1>4, <1>5, <1>6, WalkCopy
<1>9. Cardinality(used \ (left \ {p})) = m + 1
  <2>1. used \ (left \ {p}) = done \cup {p} /\ p \notin done
    BY <1>1, <1>2
  <2>2. IsFiniteSet(done)
    BY FS_Subset
  <2> QED BY <2>1, <2>2, FS_AddElement
<1>10. \A x \in used \ (left \ {p}), q \in left \ {p} : x < q
  <2> TAKE x \in used \ (left \ {p}), q \in left \ {p}
  <2>1. CASE x \in done
    BY <1>1, <2>1
  <2>2. CASE x = p
    <3>1. p <= q /\ p # q /\ p \in Nat /\ q \in Nat
      BY <1>1, <1>2
    <3> QED BY <2>2, <3>1
  <2> QED BY <2>1, <2>2
<1> HIDE DEF m, e
<1>11. Copying(used, F, i, InsertAt(dev, cur, e), cur + 1, TRUE, left \ {p})
  BY <1>1, <1>8, <1>9, <1>10 DEF Copying
<1> QED BY <1>7, <1>11 DEF p, e

LEMMA CloneInvInit == Init => CloneInv
<1> SUFFICES ASSUME Init PROVE CloneInv
  OBVIOUS
<1>1. cursor = 1 /\ entered = FALSE
  BY DEF Init, CloneInit
<1>2. stage = "usage" /\ exit = -1
  BY DEF Init, Running
<1>3. stage # "clone" /\ exit # 0
  BY <1>2
<1> QED BY <1>1, <1>3 DEF CloneInv, ClonedOnce

\* A step of the walk.
LEMMA CloneStep ==
  ASSUME TableInv, CloneNext, UNCHANGED genVars, entered \in BOOLEAN,
         NEW F, F \in Seq(ToSet(F)), NEW i,
         Copying(partitions, F, i, device, cursor, entered, cloning)
  PROVE  /\ partitions' = partitions /\ entered' \in BOOLEAN
         /\ \E j \in Nat : Copying(partitions, F, j, device', cursor', entered', cloning')
<1>1. IsFiniteSet(partitions) /\ partitions \subseteq Nat
  BY PartitionsFinite
<1>2. partitions' = partitions
  BY DEF partitions, genVars
<1> DEFINE m == IF entered THEN Cardinality(partitions \ cloning) ELSE 0
<1>3. Walk(partitions, F, i, device, cursor, m)
  BY DEF Copying
<1> HIDE DEF m
<1>4. cursor \in Nat /\ Len(device) \in Nat /\ i \in Nat
  BY <1>1, <1>3, WalkTypes
<1>5. cursor <= Len(device)
  <2>1. ~Cloned
    BY DEF CloneNext, SkipFunction, EnterFunction, ClonePartition, LeaveFunction
  <2> QED BY <1>4, <2>1 DEF Cloned
<1>6. CASE SkipFunction
  <2>1. i \in 1 .. Len(F) /\ device[cursor] = F[i]
    BY <1>1, <1>3, <1>5, Reached
  <2>2. ~includeFunction(device[cursor]) /\ entered = FALSE
    BY <1>6, <2>1 DEF SkipFunction, Visited, Copying
  <2>3. Copying(partitions, F, i + 1, device, cursor + 1, FALSE, cloning)
    BY <1>1, <1>5, <2>2, Leaving
  <2>4. i + 1 \in Nat
    BY <1>4
  <2> QED BY <1>2, <1>6, <2>2, <2>3, <2>4 DEF SkipFunction
<1>7. CASE LeaveFunction
  <2>1. entered = TRUE /\ cloning = {}
    BY <1>7 DEF LeaveFunction
  <2>2. Copying(partitions, F, i + 1, device, cursor + 1, FALSE, cloning)
    BY <1>1, <1>5, <2>1, Leaving
  <2>3. i + 1 \in Nat
    BY <1>4
  <2> QED BY <1>2, <1>7, <2>2, <2>3 DEF LeaveFunction
<1>8. CASE EnterFunction
  <2>1. includeFunction(device[cursor]) /\ entered = FALSE
    BY <1>8 DEF EnterFunction, Visited
  <2>2. Copying(partitions, F, i, device, cursor, TRUE, partitions)
    BY <1>1, <1>5, <2>1, Entering
  <2> QED BY <1>2, <1>4, <1>8, <2>2 DEF EnterFunction
<1>9. CASE ClonePartition
  <2> DEFINE p == Min(cloning)
             next == InsertAt(device, cursor, clone(Visited, p))
  <2>1. /\ entered = TRUE /\ cloning # {} /\ entered' = TRUE /\ cursor' = cursor + 1
        /\ device' = next /\ cloning' = cloning \ {p}
    BY <1>9 DEF ClonePartition
  <2>2. Copying(partitions, F, i, next, cursor + 1, TRUE, cloning \ {p})
    BY <1>1, <1>5, <2>1, NextCopy DEF Visited
  <2> HIDE DEF next, p
  <2> QED BY <1>2, <1>4, <2>1, <2>2
<1> QED BY <1>6, <1>7, <1>8, <1>9 DEF CloneNext

LEMMA CloneInvNext == DriverInv /\ TableInv /\ CloneInv /\ [Next]_vars => CloneInv'
<1> SUFFICES ASSUME DriverInv, TableInv, CloneInv, [Next]_vars PROVE CloneInv'
  OBVIOUS
<1> USE DEF Running, Aborted
<1>1. CASE CloneModules
  <2>1. PICK skeleton \in Skeletons : device' = deviceClone(md, skeleton)
    BY <1>1 DEF CloneModules
  <2> DEFINE F == deviceClone(md, skeleton)
  <2>2. /\ stage = "partition" /\ stage' = "clone" /\ md \in DOMAIN Files /\ md' = md
        /\ exit' = -1 /\ cursor' = 1 /\ entered' = FALSE /\ device' = F
    BY <1>1, <2>1 DEF CloneModules, DriverInv, CloneInv, genVars
  <2>3. F \in Seq(ToSet(F))
    BY <2>2, FirstFunctions
  <2> HIDE DEF F
  <2>4. Copying(partitions', F, 1, F, 1, FALSE, cloning')
    BY <2>3, WalkStart DEF Copying
  <2>5. deviceClone(md', skeleton) = F
    BY <2>2 DEF F
  <2>6. ClonedOnce'
    BY <2>2 DEF ClonedOnce
  <2> QED BY <2>2, <2>4, <2>5, <2>6 DEF CloneInv
<1>2. CASE ReplaceArguments
  <2>1. /\ CloneNext /\ UNCHANGED genVars /\ stage = "clone" /\ stage' = "clone"
        /\ exit' = -1 /\ md' = md /\ md \in DOMAIN Files
    BY <1>2 DEF ReplaceArguments, DriverInv, driverVars, genVars
  <2>2. PICK skeleton \in Skeletons : \E i \in Nat :
          Copying(partitions, deviceClone(md, skeleton), i, device, cursor, entered, cloning)
    BY <2>1 DEF CloneInv
  <2> DEFINE F == deviceClone(md, skeleton)
  <2>3. PICK i \in Nat : Copying(partitions, F, i, device, cursor, entered, cloning)
    BY <2>2
  <2>4. F \in Seq(ToSet(F)) /\ deviceClone(md', skeleton) = F
    BY <2>1, FirstFunctions
  <2> HIDE DEF F
  <2>5. /\ partitions' = partitions /\ entered' \in BOOLEAN
        /\ \E j \in Nat : Copying(partitions, F, j, device', cursor', entered', cloning')
    BY <2>1, <2>3, <2>4, CloneStep DEF CloneInv
  <2>6. ClonedOnce'
    BY <2>1 DEF ClonedOnce
  <2> QED BY <2>1, <2>4, <2>5, <2>6 DEF CloneInv
<1>3. CASE WriteModules
  <2>1. /\ stage = "clone" /\ stage' = "ended" /\ Cloned
        /\ UNCHANGED genVars /\ md' = md /\ device' = device /\ entered' = entered
        /\ md \in DOMAIN Files
    BY <1>3 DEF WriteModules, End, DriverInv, genVars, cloneVars
  <2>2. PICK skeleton \in Skeletons : \E i \in Nat :
          Copying(partitions, deviceClone(md, skeleton), i, device, cursor, entered, cloning)
    BY <2>1 DEF CloneInv
  <2> DEFINE F == deviceClone(md, skeleton)
             m == IF entered THEN Cardinality(partitions \ cloning) ELSE 0
  <2>3. PICK i \in Nat : Walk(partitions, F, i, device, cursor, m)
    BY <2>2 DEF Copying
  <2>4. F \in Seq(ToSet(F)) /\ deviceClone(md', skeleton) = F
    BY <2>1, FirstFunctions
  <2>5. partitions' = partitions
    BY <2>1 DEF partitions, genVars
  <2> HIDE DEF F, m
  <2>6. device = Rewritten(partitions, F)[Len(F)]
    <3>1. IsFiniteSet(partitions)
      BY PartitionsFinite
    <3>2. cursor > Len(device)
      BY <2>1 DEF Cloned
    <3> QED BY <2>3, <2>4, <3>1, <3>2, WalkEnd
  <2>7. ClonedOnce'
    BY <2>1, <2>4, <2>5, <2>6 DEF ClonedOnce
  <2> QED BY <2>1, <2>7 DEF CloneInv
<1>4. CASE UNCHANGED vars
  <2>1. /\ UNCHANGED <<stage, exit, md, previousPlacements, device, cursor, entered, cloning>>
    BY <1>4 DEF vars, genVars, cloneVars, driverVars
  <2>2. partitions' = partitions
    BY <2>1 DEF partitions
  <2> QED BY <2>1, <2>2 DEF CloneInv, ClonedOnce
<1>5. CASE Usage \/ Parse \/ Configure \/ ReadInput \/ PartitionBlocks
  <2>1. /\ stage \in {"usage", "options", "input", "partition"} /\ UNCHANGED <<cursor, entered>>
        /\ stage' # "clone" /\ exit' # 0
    BY <1>5 DEF Usage, Parse, Configure, ReadInput, PartitionBlocks, cloneVars, driverVars,
                DriverInv, End
  <2> QED BY <2>1 DEF CloneInv, ClonedOnce
<1>6. CASE Uncaught \/ NoInput \/ ReplaceFails
  <2>1. stage' = "ended" /\ exit' # 0 /\ entered' = entered
    BY <1>6 DEF Uncaught, NoInput, ReplaceFails, End, cloneVars
  <2> QED BY <2>1 DEF CloneInv, ClonedOnce
<1> QED BY <1>1, <1>2, <1>3, <1>4, <1>5, <1>6 DEF Next

------------------------------------------------------------------------------
\* The invariant of the compiler.
THEOREM Invariance == Safety => []DriverInv
BY DriverInit, DriverNext, PTL DEF Safety

\* Whatever the command line, the module and the answers of the solver, no
\* partition executes two instructions of a block at the same time.
THEOREM Exclusion == Safety => []Exclusive
<1>1. DriverInv => Exclusive
  BY DEF DriverInv, GenInv
<1> QED BY <1>1, Invariance, PTL

\* In a block placed by a model every instruction waits for its operands of the same
\* block, whatever is read of the operands of earlier blocks and whichever blocks
\* are left to the fallback.
THEOREM Waiting == Safety => []OperandsInTime
<1>1. DriverInv => OperandsInTime
  BY DEF DriverInv, GenInv
<1> QED BY <1>1, Invariance, PTL

\* Memory that aliases is touched on one partition by blocks placed by models.
THEOREM Aliasing == Safety => []AliasesTogether
<1>1. DriverInv => AliasesTogether
  BY DEF DriverInv, GenInv
<1> QED BY <1>1, Invariance, PTL

\* A compiler that succeeds has placed everything and written its four modules.
THEOREM Placement == Safety => []AllPlaced
<1>1. DriverInv => AllPlaced
  BY DEF DriverInv
<1> QED BY <1>1, Invariance, PTL

\* The search starts from a bound that no model ends before.
THEOREM LowerBound == Safety => []CriticalBound
<1>1. SearchInv => CriticalBound
  BY DEF SearchInv, Searching, OptimumKnown, CriticalBound
<1> QED BY <1>1, Invariance, SearchInit, SearchNext, PTL DEF Safety

\* Both searches of the C++ compiler are the search GoalSearch specifies: with
\* the solver as the oracle that knows the least time of the block.
THEOREM Refinement == Safety => IsGoalSearch
<1>1. ASSUME DriverInv, SearchInv, [Next]_vars PROVE [phase = "search" => Search!Next]_genVars
  <2> SUFFICES ASSUME phase = "search", ~UNCHANGED genVars PROVE Search!Next
    OBVIOUS
  <2>1. PartitionBlocks
    BY <1>1 DEF Next, Usage, Parse, Uncaught, Configure, NoInput, ReadInput, CloneModules,
                ReplaceArguments, ReplaceFails, WriteModules, vars, DriverInv
  <2>2. GenNext /\ md \in DOMAIN Files
    BY <1>1, <2>1 DEF PartitionBlocks, DriverInv
  <2> QED BY <1>1, <2>2, SearchSteps
<1> QED BY <1>1, Invariance, SearchInit, SearchNext, PTL DEF Safety, IsGoalSearch

\* While the command line is read, no argument is overwritten before its turn,
\* although those that are kept move to the front of the same array.
THEOREM Unread == Safety => []UnreadKept
<1>1. KeptInv => UnreadKept
  BY DEF KeptInv
<1> QED BY <1>1, KeptInit, KeptNext, PTL DEF Safety

\* Once it has been read, argv holds what is no option and no value, in order.
THEOREM Remaining == Safety => []ArgumentsKept
<1>1. KeptInv => ArgumentsKept
  BY DEF KeptInv
<1> QED BY <1>1, KeptInit, KeptNext, PTL DEF Safety

\* The numbers of the command line are read as what they say if they fit an int;
\* none that fits is refused, and without one the option has its default.
THEOREM Numerals == Safety => []NumbersRead
<1>1. NumbersInv => NumbersRead
  BY DEF NumbersInv
<1> QED BY <1>1, KeptInit, KeptNext, NumbersInit, NumbersNext, PTL DEF Safety

\* A compiler that succeeds has copied every partitioned function of the device
\* once for each partition, in front of it, and has lost no function.
THEOREM OneCopyEach == Safety => []ClonedOnce
<1>1. CloneInv => ClonedOnce
  BY DEF CloneInv
<1> QED BY <1>1, Invariance, TableInit, TableNext, CloneInvInit, CloneInvNext, PTL DEF Safety
==============================================================================
