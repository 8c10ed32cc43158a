---------------------------- MODULE PthreadComms -----------------------------
(***************************************************************************)
(* One communication address of the pthreads runtime                       *)
(* (src/pthreads/communication.c) between the two threads the emitted code *)
(* lets use it: a sender that calls send and a receiver that calls         *)
(* receive, loads the value and calls free_comms (the call sequence        *)
(* call_receive_variant of emit_llvm.ml emits).                            *)
(*                                                                         *)
(* Every read and write of a byte of the struct is a step of its own.  The *)
(* accesses of the two threads race; the build is for x86-64 (Makefile),   *)
(* where a store waits in its thread's FIFO store buffer until the machine *)
(* writes it to memory, and a load sees the thread's own latest buffered   *)
(* store.  Flush is that machine step.                                     *)
(*                                                                         *)
(* Bounds: a message has Size bytes, the sender makes at most NumSends     *)
(* calls.  The tokens are left out: receive_token frees nothing, and the   *)
(* compiler emits no call of it.                                           *)
(***************************************************************************)
EXTENDS Integers, Sequences

CONSTANTS Size,      \* bytes of the value, the int size of the calls
          Byte,      \* the values a data byte takes
          NumSends,  \* bound on the calls of send
          Empty      \* not a message

ASSUME SizeAssumption == Size \in Nat
ASSUME ByteAssumption == {0, 1} \subseteq Byte
ASSUME NumSendsAssumption == NumSends \in Nat

Flag    == Size                       \* the ready flag follows the value
Cells   == 0 .. Size
Data    == 0 .. (Size - 1)
Message == [Data -> Byte]

ASSUME EmptyAssumption == Empty \notin Message

Threads == {"sender", "receiver"}
Store   == [cell : Cells, val : Byte]

VARIABLES mem,    \* the struct in memory
          buf,    \* the store buffer of each thread
          spc,    \* sender: "idle", spinning in send ("wait") or in volatile_copy
          si,     \* bytes volatile_copy has written
          rpc,    \* receiver: spinning in _receive ("wait") or loading the value
          ri,     \* bytes of the value loaded
          val,    \* the bytes loaded
          sent,   \* history: the messages send was called with
          rcvd    \* history: the values loaded before free_comms

senderVars   == <<spc, si, sent>>
receiverVars == <<rpc, ri, val, rcvd>>
vars == <<mem, buf, senderVars, receiverVars>>

Init == /\ mem = [c \in Cells |-> 0]
        /\ buf = [t \in Threads |-> <<>>]
        /\ spc = "idle" /\ si = 0
        /\ rpc = "wait" /\ ri = 0 /\ val = [c \in Data |-> 0]
        /\ sent = <<>> /\ rcvd = <<>>

\* The stores of t to c that have not reached memory.
Pending(t, c) == {i \in DOMAIN buf[t] : buf[t][i].cell = c}

\* What a load of cell c by thread t returns.
Read(t, c) ==
  IF Pending(t, c) = {}
  THEN mem[c]
  ELSE buf[t][CHOOSE i \in Pending(t, c) : \A j \in Pending(t, c) : j <= i].val

\* A store of v to cell c by thread t.
Write(t, c, v) ==
  buf' = [buf EXCEPT ![t] = Append(@, [cell |-> c, val |-> v])]

\* The machine writes the oldest store of t to memory.
Flush(t) ==
  /\ buf[t] # <<>>
  /\ mem' = [mem EXCEPT ![Head(buf[t]).cell] = Head(buf[t]).val]
  /\ buf' = [buf EXCEPT ![t] = Tail(@)]
  /\ UNCHANGED <<senderVars, receiverVars>>

------------------------------------------------------------------------------
(* The sender. *)

\* send is called with value m.
SendCall ==
  /\ spc = "idle"
  /\ Len(sent) < NumSends
  /\ \E m \in Message : sent' = Append(sent, m)
  /\ spc' = "wait"
  /\ UNCHANGED <<mem, buf, si, receiverVars>>

\* Bug: send does not wait for the old value to be read.
SendWaitDropped ==
  /\ spc = "wait"
  /\ spc' = "copy"
  /\ si' = 0
  /\ UNCHANGED <<mem, buf, sent, receiverVars>>

\* The spin loop reads the ready flag and leaves once it is clear.
SendWait ==
  /\ spc = "wait"
  /\ Read("sender", Flag) = 0
  /\ spc' = "copy"
  /\ si' = 0
  /\ UNCHANGED <<mem, buf, sent, receiverVars>>

\* volatile_copy writes the next byte of the value.
SendCopy ==
  /\ spc = "copy"
  /\ si < Size
  /\ Write("sender", si, sent[Len(sent)][si])
  /\ si' = si + 1
  /\ UNCHANGED <<mem, spc, sent, receiverVars>>

\* Bug: the flag may be set before the copy is over.
SendReadyEarly ==
  /\ spc = "copy"
  /\ Write("sender", Flag, 1)
  /\ spc' = "idle"
  /\ si' = 0
  /\ UNCHANGED <<mem, sent, receiverVars>>

\* The copy is over: the ready flag is set and send returns.
SendReady ==
  /\ spc = "copy"
  /\ si = Size
  /\ Write("sender", Flag, 1)
  /\ spc' = "idle"
  /\ si' = 0
  /\ UNCHANGED <<mem, sent, receiverVars>>

------------------------------------------------------------------------------
(* The receiver. *)

\* Bug: _receive returns the pointer without waiting.
RecvWaitDropped ==
  /\ rpc = "wait"
  /\ Len(rcvd) < NumSends
  /\ rpc' = "load"
  /\ ri' = 0
  /\ UNCHANGED <<mem, buf, val, rcvd, senderVars>>

\* The spin loop of _receive reads the ready flag and leaves once it is set.
RecvWait ==
  /\ rpc = "wait"
  /\ Read("receiver", Flag) # 0
  /\ rpc' = "load"
  /\ ri' = 0
  /\ UNCHANGED <<mem, buf, val, rcvd, senderVars>>

\* The emitted load reads the next byte through the returned pointer.
RecvLoad ==
  /\ rpc = "load"
  /\ ri < Size
  /\ val' = [val EXCEPT ![ri] = Read("receiver", ri)]
  /\ ri' = ri + 1
  /\ UNCHANGED <<mem, buf, rpc, rcvd, senderVars>>

\* The value is loaded: free_comms clears the ready flag.
FreeComms ==
  /\ rpc = "load"
  /\ ri = Size
  /\ Write("receiver", Flag, 0)
  /\ rcvd' = Append(rcvd, val)
  /\ rpc' = "wait"
  /\ ri' = 0
  /\ UNCHANGED <<mem, val, senderVars>>

------------------------------------------------------------------------------
SenderStep   == SendWait \/ SendCopy \/ SendReady
ReceiverStep == RecvWait \/ RecvLoad \/ FreeComms

Next == SendCall \/ SenderStep \/ ReceiverStep \/ \E t \in Threads : Flush(t)

Safety == Init /\ [][Next]_vars

\* Both threads keep running and the machine drains its store buffers.  No
\* fairness on SendCall: a program need not send.
Spec == /\ Safety
        /\ WF_vars(SenderStep)
        /\ WF_vars(ReceiverStep)
        /\ \A t \in Threads : WF_vars(Flush(t))

------------------------------------------------------------------------------
(* Properties. *)

TypeOK == /\ mem \in [Cells -> Byte]
          /\ buf \in [Threads -> Seq(Store)]
          /\ spc \in {"idle", "wait", "copy"}
          /\ si \in Cells
          /\ rpc \in {"wait", "load"}
          /\ ri \in Cells
          /\ val \in Message
          /\ sent \in Seq(Message)
          /\ rcvd \in Seq(Message)

\* The receiver gets the values the sender sent, whole, once and in order: no
\* byte of a value is torn, stale or overwritten by the next send, whatever
\* the interleaving of the unsynchronised accesses.  The sender is at most two
\* calls ahead: one value in the struct, one call spinning.
Delivered == /\ Len(rcvd) <= Len(sent)
             /\ Len(sent) <= Len(rcvd) + 2
             /\ \A i \in DOMAIN rcvd : rcvd[i] = sent[i]

\* "Make sure we aren't overwriting the old value": from the moment the ready
\* flag is up in memory until free_comms is, no byte of the value changes.
NoOverwrite == [][mem[Flag] = 1 => \A c \in Data : mem'[c] = mem[c]]_vars

------------------------------------------------------------------------------
(* Why Delivered holds.  The value a thread is moving through its store       *)
(* buffer is always number Len(rcvd) + 1, its stores leave the buffer in the  *)
(* order 0 .. Size, so the flag comes last, and while the flag is up in       *)
(* memory the sender has nothing buffered.                                    *)

\* 1 while the newest call of send is still spinning.
Spinning == IF spc = "wait" THEN 1 ELSE 0

\* What the call that sends the k-th value stores into cell c.
Stored(k, c) == [cell |-> c, val |-> IF c = Flag THEN 1 ELSE sent[k][c]]

\* Stores the value under way has issued, and how many have left the buffer.
Issued == IF spc = "copy" THEN si ELSE Size + 1
Drained == Issued - Len(buf["sender"])

\* A value is between the sender and memory.
Moving == spc = "copy" \/ buf["sender"] # <<>>

MovingOK ==
  /\ Len(sent) = Len(rcvd) + 1 + Spinning
  /\ Drained >= 0
  /\ \A i \in DOMAIN buf["sender"] :
       buf["sender"][i] = Stored(Len(rcvd) + 1, Drained + i - 1)
  /\ \A c \in Data : c < Drained => mem[c] = sent[Len(rcvd) + 1][c]

FlagDown ==
  /\ mem[Flag] = 0
  /\ buf["receiver"] = <<>>
  /\ rpc = "wait"
  /\ IF Moving THEN MovingOK ELSE Len(sent) = Len(rcvd) + Spinning

\* The value is in memory and not yet freed.
FlagUp ==
  /\ mem[Flag] = 1
  /\ ~Moving
  /\ buf["receiver"] = <<>>
  /\ Len(sent) = Len(rcvd) + 1 + Spinning
  /\ \A c \in Data : mem[c] = sent[Len(rcvd) + 1][c]
  /\ rpc = "load" => \A c \in Data : c < ri => val[c] = mem[c]

\* free_comms has run, its store has not reached memory.
Freeing ==
  /\ mem[Flag] = 1
  /\ ~Moving
  /\ buf["receiver"] = <<[cell |-> Flag, val |-> 0]>>
  /\ rpc = "wait"
  /\ Len(rcvd) > 0
  /\ Len(sent) = Len(rcvd) + Spinning
  /\ \A c \in Data : mem[c] = sent[Len(rcvd)][c]

\* The inductive invariant: the address is always in one of the three phases,
\* and what was received is what was sent.
IInv == /\ TypeOK
        /\ FlagDown \/ FlagUp \/ Freeing
        /\ \A i \in DOMAIN rcvd : rcvd[i] = sent[i]

------------------------------------------------------------------------------
(* Refinement: seen from memory, the address is a one-place slot.  A        *)
(* message is put when the machine writes the ready flag and taken when it  *)
(* writes the cleared flag.                                                 *)

\* Calls of send whose flag store has been issued.
Completed == IF spc = "idle" THEN Len(sent) ELSE Len(sent) - 1

\* Those whose flag store has reached memory.
Published == IF spc # "copy" /\ buf["sender"] # <<>>
             THEN Completed - 1 ELSE Completed

slotBar  == IF mem[Flag] = 1 THEN [c \in Data |-> mem[c]] ELSE Empty
putBar   == SubSeq(sent, 1, Published)
takenBar == IF buf["receiver"] = <<>> THEN rcvd ELSE SubSeq(rcvd, 1, Len(rcvd) - 1)

Slot == INSTANCE CommsSlot
          WITH slot <- slotBar, put <- putBar, taken <- takenBar

\* send, receive and free_comms implement the one-place slot of CommsSlot, its
\* promise that a message put is eventually taken included.
ImplementsSlot == Slot!Spec

\* The safety part of the same refinement.
ImplementsSlotSafety == Slot!Safety
==============================================================================
