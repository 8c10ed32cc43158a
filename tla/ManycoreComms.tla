---------------------------- MODULE ManycoreComms ----------------------------
(***************************************************************************)
(* One communication address of the bsg_manycore runtime                   *)
(* (src/bsg_manycore/bsg-device-communication.c) between two tiles.        *)
(*                                                                         *)
(* Every tile has its own copy of the struct at the address.  The value    *)
(* and its ready flag live in the receiver's copy; send reads the word     *)
(* with the flag from there by remote loads, assembles the struct in its   *)
(* own copy and writes it to the receiver byte by byte.  Loads and stores  *)
(* of a tile travel through the network in the order they were issued; the *)
(* result of a load travels back.  A tile's accesses to its own memory are *)
(* immediate and in program order.                                         *)
(*                                                                         *)
(* The struct starts at a multiple of Word, its padding makes the size up. *)
(* Bounds: Size bytes of value, at most NumSends calls of send.            *)
(***************************************************************************)
EXTENDS Integers, Sequences

CONSTANTS Size,      \* bytes of the value
          Word,      \* bytes of a word (4)
          Byte,      \* the values a byte takes
          NumSends,  \* bound on the calls of send
          Empty,     \* not a message
          None       \* no reply

ASSUME SizeAssumption == Size \in Nat
ASSUME WordAssumption == Word \in Nat \ {0}
ASSUME ByteAssumption == {0, 1} \subseteq Byte
ASSUME NumSendsAssumption == NumSends \in Nat

Flag    == Size
Data    == 0 .. (Size - 1)
Message == [Data -> Byte]

ASSUME EmptyAssumption == Empty \notin Message

\* aligned_size: the value and the flag, rounded up to words.
Aligned == ((Size + 1 + (Word - 1)) \div Word) * Word

Cells == 0 .. (Aligned - 1)

\* ready_word_addr: the word that holds the flag.
FlagWord == {c \in Cells : c \div Word = Flag \div Word}

ASSUME NoneAssumption == None \notin [FlagWord -> Byte]

Load == [op |-> "load"]
Store(c, v) == [op |-> "store", cell |-> c, val |-> v]

VARIABLES remote,  \* the receiver's copy of the struct
          local,   \* the sender's copy
          net,     \* the sender's packets on their way to the receiver
          reply,   \* the word a load returned, on its way back, or None
          spc,     \* sender: where it is in send
          si,      \* bytes issued by the remote copy
          rpc,     \* receiver: "wait" in _receive_shared or "load"
          ri,      \* bytes of the value loaded
          val,     \* the bytes loaded
          sent,    \* history: the messages send was called with
          rcvd     \* history: the values loaded before free_comms

senderVars   == <<local, spc, si, sent>>
receiverVars == <<rpc, ri, val, rcvd>>
vars == <<remote, net, reply, senderVars, receiverVars>>

\* new_addr_with_name: the struct is zero on every tile.
Init == /\ remote = [c \in Cells |-> 0]
        /\ local = [c \in Cells |-> 0]
        /\ net = <<>> /\ reply = None
        /\ spc = "idle" /\ si = 0
        /\ rpc = "wait" /\ ri = 0 /\ val = [c \in Data |-> 0]
        /\ sent = <<>> /\ rcvd = <<>>

------------------------------------------------------------------------------
(* The sender. *)

\* send is called with value m.
SendCall ==
  /\ spc = "idle"
  /\ Len(sent) < NumSends
  /\ \E m \in Message : sent' = Append(sent, m)
  /\ spc' = "poll"
  /\ UNCHANGED <<remote, local, net, reply, si, receiverVars>>

\* bsg_remote_load of the word with the flag.
Poll ==
  /\ spc = "poll"
  /\ net' = Append(net, Load)
  /\ spc' = "reply"
  /\ UNCHANGED <<remote, local, reply, si, sent, receiverVars>>

\* The word arrives in the sender's copy.
TakeReply ==
  /\ reply # None
  /\ local' = [c \in Cells |-> IF c \in FlagWord THEN reply[c] ELSE local[c]]
  /\ reply' = None
  /\ spc' = "test"
  /\ UNCHANGED <<remote, net, si, sent, receiverVars>>

\* The flag in the sender's copy is still set: load it again.
PollAgain ==
  /\ spc = "test"
  /\ local[Flag] # 0
  /\ spc' = "poll"
  /\ UNCHANGED <<remote, local, net, reply, si, sent, receiverVars>>

\* The flag is clear: the word is reset, value and flag are written to the
\* sender's copy, which no other tile reads.
Assemble ==
  /\ spc = "test"
  /\ local[Flag] = 0
  /\ local' = [c \in Cells |-> CASE c \in Data -> sent[Len(sent)][c]
                                 [] c = Flag   -> 1
                                 [] OTHER      -> 0]
  /\ spc' = "copy"
  /\ si' = 0
  /\ UNCHANGED <<remote, net, reply, sent, receiverVars>>

\* Bug: the bytes are copied from the last to the first.
CopyBackwards ==
  /\ spc = "copy"
  /\ net' = Append(net, Store(Aligned - 1 - si, local[Aligned - 1 - si]))
  /\ si' = si + 1
  /\ spc' = IF si + 1 = Aligned THEN "idle" ELSE "copy"
  /\ UNCHANGED <<remote, local, reply, sent, receiverVars>>

\* Bug: the copy stops before the flag.
CopyShort ==
  /\ spc = "copy"
  /\ net' = Append(net, Store(si, local[si]))
  /\ si' = si + 1
  /\ spc' = IF si + 1 = Size THEN "idle" ELSE "copy"
  /\ UNCHANGED <<remote, local, reply, sent, receiverVars>>

\* copy to the remote pointer: the next byte; send returns after the last.
Copy ==
  /\ spc = "copy"
  /\ net' = Append(net, Store(si, local[si]))
  /\ si' = si + 1
  /\ spc' = IF si + 1 = Aligned THEN "idle" ELSE "copy"
  /\ UNCHANGED <<remote, local, reply, sent, receiverVars>>

------------------------------------------------------------------------------
(* The network. *)

DeliverStore ==
  /\ net # <<>>
  /\ Head(net).op = "store"
  /\ remote' = [remote EXCEPT ![Head(net).cell] = Head(net).val]
  /\ net' = Tail(net)
  /\ UNCHANGED <<reply, senderVars, receiverVars>>

DeliverLoad ==
  /\ net # <<>>
  /\ Head(net).op = "load"
  /\ reply' = [c \in FlagWord |-> remote[c]]
  /\ net' = Tail(net)
  /\ UNCHANGED <<remote, senderVars, receiverVars>>

------------------------------------------------------------------------------
(* The receiver. *)

\* bsg_wait_while leaves its loop.
RecvWait ==
  /\ rpc = "wait"
  /\ remote[Flag] # 0
  /\ rpc' = "load"
  /\ ri' = 0
  /\ UNCHANGED <<remote, net, reply, val, rcvd, senderVars>>

\* The emitted load reads the next byte.
RecvLoad ==
  /\ rpc = "load"
  /\ ri < Size
  /\ val' = [val EXCEPT ![ri] = remote[ri]]
  /\ ri' = ri + 1
  /\ UNCHANGED <<remote, net, reply, rpc, rcvd, senderVars>>

\* free_comms clears the flag in the receiver's copy.
FreeComms ==
  /\ rpc = "load"
  /\ ri = Size
  /\ remote' = [remote EXCEPT ![Flag] = 0]
  /\ rcvd' = Append(rcvd, val)
  /\ rpc' = "wait"
  /\ ri' = 0
  /\ UNCHANGED <<net, reply, val, senderVars>>

------------------------------------------------------------------------------
SenderStep   == Poll \/ TakeReply \/ PollAgain \/ Assemble \/ Copy
ReceiverStep == RecvWait \/ RecvLoad \/ FreeComms
NetStep      == DeliverStore \/ DeliverLoad

Next == SendCall \/ SenderStep \/ ReceiverStep \/ NetStep

Safety == Init /\ [][Next]_vars

\* Both tiles keep running and the network delivers.
Spec == /\ Safety
        /\ WF_vars(SenderStep)
        /\ WF_vars(ReceiverStep)
        /\ WF_vars(NetStep)

------------------------------------------------------------------------------
(* Properties. *)

TypeOK == /\ remote \in [Cells -> Byte]
          /\ local \in [Cells -> Byte]
          /\ net \in Seq({Load} \cup {Store(c, v) : c \in Cells, v \in Byte})
          /\ reply \in {None} \cup [FlagWord -> Byte]
          /\ spc \in {"idle", "poll", "reply", "test", "copy"}
          /\ si \in 0 .. Aligned
          /\ rpc \in {"wait", "load"}
          /\ ri \in 0 .. Size
          /\ val \in Message
          /\ sent \in Seq(Message)
          /\ rcvd \in Seq(Message)

\* The receiver gets the values the sender sent, whole, once and in order,
\* although the sender learns of the freed flag by a copy of it.
Delivered == /\ Len(rcvd) <= Len(sent)
             /\ \A i \in DOMAIN rcvd : rcvd[i] = sent[i]

\* "Make sure we aren't overwriting the old value": while the flag is up at the
\* receiver no byte of the value changes.
NoOverwrite == [][remote[Flag] = 1 => \A c \in Data : remote'[c] = remote[c]]_vars

------------------------------------------------------------------------------
(* Why Delivered holds: the bytes of a value are in the network in order, a   *)
(* load is behind all of them, and from a reply with a clear flag until the   *)
(* flag of the next value arrives nobody sets the flag at the receiver.       *)

\* A load is on its way to the receiver.
Loading == spc = "reply" /\ reply = None

\* The last value assembled, the bytes of it issued, under way and arrived.
Assembled == IF spc \in {"idle", "copy"} THEN Len(sent) ELSE Len(sent) - 1
Issued    == IF spc = "copy" THEN si ELSE Aligned
Pending   == IF Loading THEN Len(net) - 1 ELSE Len(net)
Arrived   == Issued - Pending

\* The values whose flag has arrived.
Published == IF Arrived > Flag THEN Assembled ELSE Assembled - 1

\* What send writes to cell c for value number k.
Assembly(k, c) == CASE c \in Data -> sent[k][c]
                    [] c = Flag   -> 1
                    [] OTHER      -> 0

NetOK ==
  /\ Assembled >= 0 /\ Pending >= 0 /\ Arrived >= 0
  /\ Arrived < Aligned => Assembled >= 1
  /\ \A i \in 1 .. Pending : net[i] = Store(Arrived + i - 1, Assembly(Assembled, Arrived + i - 1))
  /\ Loading => net[Len(net)] = Load
  /\ reply # None => spc = "reply"
  /\ reply # None \/ spc = "test" => net = <<>>

CopyOK == spc = "copy" => /\ si < Aligned
                          /\ \A c \in Cells : local[c] = Assembly(Assembled, c)

\* A clear flag the sender has seen is still clear.
SeenOK == /\ reply # None /\ reply[Flag] = 0 => remote[Flag] = 0
          /\ spc = "test" /\ local[Flag] = 0 => remote[Flag] = 0

FlagDown ==
  /\ remote[Flag] = 0
  /\ rpc = "wait"
  /\ Len(rcvd) = Published
  /\ Arrived <= Flag => \A c \in Data : c < Arrived => remote[c] = sent[Assembled][c]

FlagUp ==
  /\ remote[Flag] = 1
  /\ Arrived > Flag
  /\ Len(rcvd) = Published - 1
  /\ \A c \in Data : remote[c] = sent[Published][c]
  /\ rpc = "load" => \A c \in Data : c < ri => val[c] = remote[c]

\* The inductive invariant.
IInv == /\ TypeOK
        /\ NetOK
        /\ CopyOK
        /\ SeenOK
        /\ FlagDown \/ FlagUp
        /\ \A i \in DOMAIN rcvd : rcvd[i] = sent[i]

------------------------------------------------------------------------------
(* Refinement: a message is in the place while the flag is up at the          *)
(* receiver.                                                                  *)

slotBar == IF remote[Flag] = 1 THEN [c \in Data |-> remote[c]] ELSE Empty
putBar  == SubSeq(sent, 1, Published)

Slot == INSTANCE CommsSlot WITH slot <- slotBar, put <- putBar, taken <- rcvd

\* send, receive and free_comms of this runtime implement the same one-place
\* slot as those of the pthreads runtime.
ImplementsSlotSafety == Slot!Safety
==============================================================================
