-------------------------- MODULE PthreadCommsProofs --------------------------
(***************************************************************************)
(* Proofs about PthreadComms, for every message size, byte range and       *)
(* number of calls: the type invariant, Delivered, NoOverwrite, and that   *)
(* the byte-level protocol implements the one-place slot (safety part).    *)
(***************************************************************************)
EXTENDS PthreadComms, TLAPS

USE SizeAssumption, ByteAssumption, NumSendsAssumption DEF Flag, Cells, Data

LEMMA EmptyBuffer ==
  ASSUME NEW S, NEW s \in Seq(S)
  PROVE  s = <<>> <=> Len(s) = 0
OBVIOUS

(* A spinning sender that still has stores buffered reads its own ready      *)
(* flag and keeps spinning (the store forwarding of the while loop in send). *)
LEMMA SenderSeesOwnFlag ==
  ASSUME TypeOK, MovingOK, spc = "wait", buf["sender"] # <<>>
  PROVE  Read("sender", Flag) = 1
<1> DEFINE sb == buf["sender"]
           n  == Len(sb)
<1>1. sb \in Seq(Store) /\ n \in Nat /\ n > 0
  BY DEF TypeOK, Threads
<1>2. sb[n] = [cell |-> Flag, val |-> 1]
  <2>1. n \in DOMAIN sb
    BY <1>1
  <2>2. sb[n] = Stored(Len(rcvd) + 1, Drained + n - 1)
    BY <2>1 DEF MovingOK
  <2>3. Drained + n - 1 = Flag
    BY <1>1 DEF Drained, Issued
  <2> QED BY <2>2, <2>3 DEF Stored
<1>3. n \in Pending("sender", Flag)
  BY <1>1, <1>2 DEF Pending
<1>4. \A j \in Pending("sender", Flag) : j \in Nat /\ j <= n
  BY <1>1 DEF Pending
<1> DEFINE last == CHOOSE i \in Pending("sender", Flag) :
                     \A j \in Pending("sender", Flag) : j <= i
<1>5. last \in Pending("sender", Flag) /\ \A j \in Pending("sender", Flag) : j <= last
  BY <1>3, <1>4, Zenon
<1>6. Read("sender", Flag) = sb[last].val
  BY <1>3, Zenon DEF Read
<1> HIDE DEF last
<1>7. last = n
  BY <1>1, <1>3, <1>4, <1>5
<1> QED BY <1>2, <1>6, <1>7

\* A load by a thread with an empty store buffer reads memory.
LEMMA ReadMemory ==
  ASSUME NEW t, NEW c, buf[t] = <<>>
  PROVE  Read(t, c) = mem[c]
BY DEF Read, Pending

\* After free_comms the receiver reads the flag it cleared itself.
LEMMA ReceiverSeesOwnFlag ==
  ASSUME Freeing
  PROVE  Read("receiver", Flag) = 0
<1>1. Pending("receiver", Flag) = {1}
  BY DEF Freeing, Pending
<1> DEFINE last == CHOOSE i \in Pending("receiver", Flag) :
                     \A j \in Pending("receiver", Flag) : j <= i
<1>2. 1 \in Pending("receiver", Flag) /\ \A j \in Pending("receiver", Flag) : j <= 1
  BY <1>1
<1>3. last \in Pending("receiver", Flag)
  BY <1>2, Zenon
<1>4. Read("receiver", Flag) = buf["receiver"][last].val
  BY <1>2, Zenon DEF Read
<1> HIDE DEF last
<1>5. last = 1
  BY <1>1, <1>3
<1> QED BY <1>4, <1>5 DEF Freeing

\* The struct starts zeroed, with nothing under way.
LEMMA InvInit == Init => IInv
BY DEF Init, IInv, TypeOK, Message, Threads, Store, FlagDown, Moving, Spinning

\* Calling send only adds a value to send.
LEMMA InvSendCall == IInv /\ SendCall => IInv'
<1> SUFFICES ASSUME IInv, SendCall PROVE IInv'
  OBVIOUS
<1>1. PICK m \in Message : sent' = Append(sent, m)
  BY DEF SendCall
<1>2. TypeOK'
  BY <1>1 DEF IInv, TypeOK, SendCall, receiverVars
<1>3. /\ sent' \in Seq(Message) /\ Len(sent') = Len(sent) + 1
      /\ \A k \in 1 .. Len(sent) : sent'[k] = sent[k]
  BY <1>1 DEF IInv, TypeOK
<1>4. spc = "idle" /\ spc' = "wait" /\ UNCHANGED <<mem, buf, si, rpc, ri, val, rcvd>>
  BY DEF SendCall, receiverVars
<1>5. Moving' = Moving /\ Spinning = 0 /\ Spinning' = 1 /\ Drained' = Drained
  BY <1>4 DEF Moving, Spinning, Drained, Issued
<1>6. ASSUME FlagDown PROVE FlagDown'
  <2>1. CASE Moving
    <3>1. Len(rcvd) + 1 \in 1 .. Len(sent)
      BY <1>5, <1>6, <2>1 DEF IInv, TypeOK, FlagDown, MovingOK
    <3>2. sent'[Len(rcvd) + 1] = sent[Len(rcvd) + 1]
      BY <1>3, <3>1
    <3>3. MovingOK'
      BY <1>3, <1>4, <1>5, <1>6, <2>1, <3>2 DEF IInv, TypeOK, FlagDown, MovingOK, Stored
    <3> QED BY <1>4, <1>5, <1>6, <2>1, <3>3 DEF FlagDown
  <2>2. CASE ~Moving
    BY <1>3, <1>4, <1>5, <1>6, <2>2 DEF FlagDown, IInv, TypeOK
  <2> QED BY <2>1, <2>2
<1>7. ASSUME FlagUp PROVE FlagUp'
  <2>1. Len(rcvd) + 1 \in 1 .. Len(sent)
    BY <1>5, <1>7 DEF IInv, TypeOK, FlagUp
  <2>2. sent'[Len(rcvd) + 1] = sent[Len(rcvd) + 1]
    BY <1>3, <2>1
  <2>3. Len(sent') = Len(rcvd') + 1 + Spinning'
    BY <1>3, <1>4, <1>5, <1>7 DEF FlagUp, IInv, TypeOK
  <2> QED BY <1>4, <1>5, <1>7, <2>2, <2>3 DEF FlagUp
<1>8. ASSUME Freeing PROVE Freeing'
  <2>1. Len(rcvd) \in 1 .. Len(sent)
    BY <1>5, <1>8 DEF IInv, TypeOK, Freeing
  <2>2. sent'[Len(rcvd)] = sent[Len(rcvd)]
    BY <1>3, <2>1
  <2>3. Len(sent') = Len(rcvd') + Spinning'
    BY <1>3, <1>4, <1>5, <1>8 DEF Freeing, IInv, TypeOK
  <2> QED BY <1>4, <1>5, <1>8, <2>2, <2>3 DEF Freeing
<1>9. \A i \in DOMAIN rcvd' : rcvd'[i] = sent'[i]
  <2>1. Len(rcvd) <= Len(sent)
    BY <1>5 DEF IInv, TypeOK, FlagDown, MovingOK, FlagUp, Freeing
  <2>2. Len(rcvd) \in Nat /\ Len(sent) \in Nat /\ DOMAIN rcvd = 1 .. Len(rcvd)
    BY DEF IInv, TypeOK
  <2>3. \A i \in DOMAIN rcvd : i \in 1 .. Len(sent)
    BY <2>1, <2>2
  <2> QED BY <1>3, <1>4, <2>3 DEF IInv
<1> QED BY <1>2, <1>6, <1>7, <1>8, <1>9 DEF IInv

\* send leaves its spin loop only with the flag down and nothing buffered.
LEMMA InvSendWait == IInv /\ SendWait => IInv'
<1> SUFFICES ASSUME IInv, SendWait PROVE IInv'
  OBVIOUS
<1>1. TypeOK'
  BY DEF IInv, TypeOK, SendWait, receiverVars
<1>2. /\ spc = "wait" /\ spc' = "copy" /\ si' = 0
      /\ Read("sender", Flag) = 0
      /\ UNCHANGED <<mem, buf, sent, rpc, ri, val, rcvd>>
  BY DEF SendWait, receiverVars
<1>3. FlagDown /\ ~Moving
  <2>1. ~(FlagDown /\ Moving)
    BY <1>2, SenderSeesOwnFlag DEF FlagDown, Moving, IInv
  <2>2. ASSUME ~Moving PROVE mem[Flag] = 0
    BY <1>2, <2>2, ReadMemory DEF Moving
  <2> QED BY <2>1, <2>2 DEF IInv, FlagUp, Freeing
<1>4. MovingOK' /\ Moving'
  <2>1. buf["sender"] = <<>> /\ buf' = buf /\ Len(buf["sender"]) = 0
    BY <1>2, <1>3 DEF Moving
  <2>2. Drained' = 0 /\ Spinning = 1 /\ Spinning' = 0
    <3>1. Issued' = 0
      BY <1>2 DEF Issued
    <3>2. Drained' = 0 - Len(buf["sender"])
      BY <2>1, <3>1 DEF Drained
    <3> QED BY <1>2, <2>1, <3>2 DEF Spinning
  <2>3. Len(sent') = Len(rcvd') + 1
    BY <1>2, <1>3, <2>2 DEF FlagDown, IInv, TypeOK
  <2>4. Moving'
    BY <1>2 DEF Moving
  <2> QED BY <1>2, <2>1, <2>2, <2>3, <2>4 DEF MovingOK
<1>5. FlagDown'
  BY <1>2, <1>3, <1>4 DEF FlagDown
<1> QED BY <1>1, <1>2, <1>5 DEF IInv

\* Both stores of the sender (a byte of the value, the flag) extend the run of
\* buffered stores by the next cell.
LEMMA SenderStore ==
  ASSUME IInv, spc = "copy", NEW v \in Byte,
         Write("sender", si, v), v = Stored(Len(rcvd) + 1, si).val,
         UNCHANGED <<mem, sent, rcvd>>,
         \/ spc' = "copy" /\ si' = si + 1
         \/ spc' = "idle" /\ si = Flag
  PROVE  MovingOK' /\ Moving' /\ buf'["receiver"] = buf["receiver"]
<1> DEFINE sb == buf["sender"]
           k  == Len(rcvd) + 1
<1>1. FlagDown /\ MovingOK
  BY DEF IInv, FlagDown, FlagUp, Freeing, Moving
<1>2. sb \in Seq(Store) /\ buf'["sender"] = Append(sb, [cell |-> si, val |-> v])
      /\ buf'["receiver"] = buf["receiver"]
  BY DEF IInv, TypeOK, Write, Threads
<1>3. /\ Len(buf'["sender"]) = Len(sb) + 1
      /\ \A i \in 1 .. Len(sb) : buf'["sender"][i] = sb[i]
      /\ buf'["sender"][Len(sb) + 1] = Stored(k, si)
      /\ DOMAIN buf'["sender"] = 1 .. (Len(sb) + 1)
      /\ DOMAIN sb = 1 .. Len(sb)
      /\ Len(sb) \in Nat
  <2>1. [cell |-> si, val |-> v] = Stored(k, si)
    BY DEF Stored
  <2> QED BY <1>2, <2>1
<1>4. Drained = si - Len(sb) /\ Drained' = Drained
  <2>1. si \in Int /\ spc = "copy" /\ Issued = si
    BY DEF IInv, TypeOK, Issued
  <2>2. Drained = si - Len(sb)
    BY <2>1 DEF Drained
  <2>3. Issued' = si + 1
    BY <2>1 DEF Issued
  <2>4. Drained' = (si + 1) - (Len(sb) + 1)
    BY <1>3, <2>3 DEF Drained
  <2> QED BY <1>3, <2>1, <2>2, <2>4
<1>5. Moving' /\ Spinning' = 0 /\ Spinning = 0
  BY <1>3 DEF Moving, Spinning
<1>6. MovingOK'
  <2>1. \A i \in DOMAIN buf'["sender"] :
          buf'["sender"][i] = Stored(k, Drained + i - 1)
    <3>1. \A i \in 1 .. Len(sb) : sb[i] = Stored(k, Drained + i - 1)
      BY <1>1, <1>3 DEF MovingOK
    <3>2. Drained + (Len(sb) + 1) - 1 = si
      BY <1>3, <1>4 DEF IInv, TypeOK
    <3>3. buf'["sender"][Len(sb) + 1] = Stored(k, Drained + (Len(sb) + 1) - 1)
      BY <1>3, <3>2
    <3>4. \A i \in 1 .. Len(sb) : buf'["sender"][i] = Stored(k, Drained + i - 1)
      BY <1>3, <3>1
    <3>5. \A i \in DOMAIN buf'["sender"] : i \in 1 .. Len(sb) \/ i = Len(sb) + 1
      BY <1>3
    <3> HIDE DEF sb, k
    <3> QED BY <3>3, <3>4, <3>5
  <2>2. \A j : Stored(k, j)' = Stored(k, j)
    BY DEF Stored
  <2> QED BY <1>1, <1>4, <1>5, <2>1, <2>2 DEF MovingOK, Stored
<1> QED BY <1>2, <1>5, <1>6

\* The phase while volatile_copy runs.
LEMMA CopyPhase ==
  ASSUME IInv, spc = "copy"
  PROVE  /\ FlagDown /\ MovingOK /\ Moving
         /\ Len(sent) = Len(rcvd) + 1
         /\ Len(sent) \in Nat /\ Len(rcvd) \in Nat
         /\ sent[Len(sent)] \in Message
<1>1. FlagDown /\ MovingOK /\ Moving
  BY DEF IInv, FlagDown, FlagUp, Freeing, Moving
<1>2. Len(sent) = Len(rcvd) + 1
  BY <1>1 DEF MovingOK, Spinning, IInv, TypeOK
<1> QED BY <1>1, <1>2 DEF IInv, TypeOK

\* Each byte of the value is stored in its own cell.
LEMMA InvSendCopy == IInv /\ SendCopy => IInv'
<1> SUFFICES ASSUME IInv, SendCopy PROVE IInv'
  OBVIOUS
<1> DEFINE v == sent[Len(sent)][si]
<1>1. /\ spc = "copy" /\ spc' = spc /\ si < Size /\ si' = si + 1
      /\ Write("sender", si, v)
      /\ UNCHANGED <<mem, sent, rpc, ri, val, rcvd>>
  BY DEF SendCopy, receiverVars
<1>2. /\ FlagDown /\ Len(sent) = Len(rcvd) + 1 /\ si \in Data
      /\ sent[Len(sent)] \in Message
  BY <1>1, CopyPhase DEF IInv, TypeOK
<1>3. v \in Byte /\ v = Stored(Len(rcvd) + 1, si).val
  BY <1>2 DEF Message, Stored
<1>4. MovingOK' /\ Moving' /\ buf'["receiver"] = buf["receiver"]
  BY <1>1, <1>3, SenderStore
<1>5. TypeOK'
  <2>1. [cell |-> si, val |-> v] \in Store
    BY <1>2, <1>3 DEF Store
  <2> QED BY <1>1, <1>2, <2>1 DEF IInv, TypeOK, Write, Threads
<1>6. FlagDown'
  BY <1>1, <1>2, <1>4 DEF FlagDown
<1> QED BY <1>1, <1>5, <1>6 DEF IInv

\* The flag is the last store of the value.
LEMMA InvSendReady == IInv /\ SendReady => IInv'
<1> SUFFICES ASSUME IInv, SendReady PROVE IInv'
  OBVIOUS
<1>1. /\ spc = "copy" /\ spc' = "idle" /\ si = Flag /\ si' = 0
      /\ Write("sender", si, 1)
      /\ UNCHANGED <<mem, sent, rpc, ri, val, rcvd>>
  BY DEF SendReady, receiverVars
<1>2. FlagDown
  BY <1>1, CopyPhase
<1>3. 1 \in Byte /\ 1 = Stored(Len(rcvd) + 1, si).val
  BY <1>1 DEF Stored
<1>4. MovingOK' /\ Moving' /\ buf'["receiver"] = buf["receiver"]
  BY <1>1, <1>3, SenderStore
<1>5. TypeOK'
  <2>1. [cell |-> si, val |-> 1] \in Store
    BY <1>1, <1>3 DEF Store
  <2> QED BY <1>1, <2>1 DEF IInv, TypeOK, Write, Threads
<1>6. FlagDown'
  BY <1>1, <1>2, <1>4 DEF FlagDown
<1> QED BY <1>1, <1>5, <1>6 DEF IInv

\* _receive returns only when the flag is up in memory.
LEMMA InvRecvWait == IInv /\ RecvWait => IInv'
<1> SUFFICES ASSUME IInv, RecvWait PROVE IInv'
  OBVIOUS
<1>1. /\ rpc' = "load" /\ ri' = 0 /\ Read("receiver", Flag) # 0
      /\ UNCHANGED <<mem, buf, val, rcvd, spc, si, sent>>
  BY DEF RecvWait, senderVars
<1>2. FlagUp
  <2>1. ~Freeing
    BY <1>1, ReceiverSeesOwnFlag
  <2>2. ~FlagDown
    BY <1>1, ReadMemory DEF FlagDown
  <2> QED BY <2>1, <2>2 DEF IInv
<1>3. TypeOK'
  BY <1>1 DEF IInv, TypeOK
<1>4. FlagUp'
  BY <1>1, <1>2 DEF FlagUp, Moving, Spinning
<1> QED BY <1>1, <1>3, <1>4 DEF IInv

\* Every byte loaded is the byte of the value in the struct.
LEMMA InvRecvLoad == IInv /\ RecvLoad => IInv'
<1> SUFFICES ASSUME IInv, RecvLoad PROVE IInv'
  OBVIOUS
<1>1. /\ rpc = "load" /\ ri < Size /\ ri' = ri + 1
      /\ val' = [val EXCEPT ![ri] = Read("receiver", ri)]
      /\ UNCHANGED <<mem, buf, rpc, rcvd, spc, si, sent>>
  BY DEF RecvLoad, senderVars
<1>2. FlagUp /\ ri \in Data
  BY <1>1 DEF IInv, TypeOK, FlagDown, Freeing
<1>3. Read("receiver", ri) = mem[ri]
  BY <1>2, ReadMemory DEF FlagUp
<1>4. TypeOK'
  <2>1. mem[ri] \in Byte
    BY <1>2 DEF IInv, TypeOK
  <2>2. val' \in Message
    BY <1>1, <1>2, <1>3, <2>1 DEF IInv, TypeOK, Message
  <2>3. ri' \in Cells
    BY <1>1, <1>2
  <2> QED BY <1>1, <2>2, <2>3 DEF IInv, TypeOK
<1>5. \A c \in Data : c < ri' => val'[c] = mem'[c]
  BY <1>1, <1>2, <1>3 DEF FlagUp, IInv, TypeOK, Message
<1>6. FlagUp'
  BY <1>1, <1>2, <1>5 DEF FlagUp, Moving, Spinning
<1> QED BY <1>1, <1>4, <1>6 DEF IInv

\* What free_comms ends is the receipt of the next value sent.
LEMMA InvFreeComms == IInv /\ FreeComms => IInv'
<1> SUFFICES ASSUME IInv, FreeComms PROVE IInv'
  OBVIOUS
<1>1. /\ rpc = "load" /\ rpc' = "wait" /\ ri = Size /\ ri' = 0
      /\ Write("receiver", Flag, 0)
      /\ rcvd' = Append(rcvd, val)
      /\ UNCHANGED <<mem, val, spc, si, sent>>
  BY DEF FreeComms, senderVars
<1>2. FlagUp
  BY <1>1 DEF IInv, FlagDown, Freeing
<1>3. /\ rcvd' \in Seq(Message) /\ Len(rcvd') = Len(rcvd) + 1
      /\ rcvd'[Len(rcvd) + 1] = val
      /\ \A i \in 1 .. Len(rcvd) : rcvd'[i] = rcvd[i]
      /\ DOMAIN rcvd' = 1 .. (Len(rcvd) + 1)
      /\ Len(rcvd) \in Nat /\ Len(sent) \in Nat
  BY <1>1 DEF IInv, TypeOK
<1>4. Len(rcvd) + 1 \in 1 .. Len(sent) /\ sent[Len(rcvd) + 1] \in Message
  BY <1>2, <1>3 DEF FlagUp, Spinning, IInv, TypeOK
<1>5. val = sent[Len(rcvd) + 1]
  <2>1. \A c \in Data : val[c] = sent[Len(rcvd) + 1][c]
    BY <1>1, <1>2 DEF FlagUp
  <2> QED BY <1>4, <2>1 DEF IInv, TypeOK, Message
<1>6. /\ buf'["receiver"] = <<[cell |-> Flag, val |-> 0]>>
      /\ buf'["sender"] = buf["sender"]
      /\ buf' \in [Threads -> Seq(Store)]
  <2>1. [cell |-> Flag, val |-> 0] \in Store
    BY DEF Store
  <2> QED BY <1>1, <1>2, <2>1 DEF Write, Threads, FlagUp, IInv, TypeOK
<1>7. TypeOK'
  BY <1>1, <1>3, <1>6 DEF IInv, TypeOK
<1>8. Freeing'
  <2>1. ~Moving'
    BY <1>1, <1>2, <1>6 DEF FlagUp, Moving
  <2>2. Len(sent') = Len(rcvd') + Spinning'
    BY <1>1, <1>2, <1>3 DEF FlagUp, Spinning
  <2> QED BY <1>1, <1>2, <1>3, <1>6, <2>1, <2>2 DEF FlagUp, Freeing
<1>9. \A i \in DOMAIN rcvd' : rcvd'[i] = sent'[i]
  BY <1>1, <1>3, <1>5 DEF IInv, TypeOK
<1> QED BY <1>7, <1>8, <1>9 DEF IInv

\* A buffered store of the sender reaches memory: a byte of the value while
\* the flag is still to come, or the flag, which is then the last one.
LEMMA InvFlushSender == IInv /\ Flush("sender") => IInv'
<1> SUFFICES ASSUME IInv, Flush("sender") PROVE IInv'
  OBVIOUS
<1> DEFINE sb == buf["sender"]
           k  == Len(rcvd) + 1
<1>1. /\ sb # <<>> /\ sb \in Seq(Store)
      /\ mem' = [mem EXCEPT ![Head(sb).cell] = Head(sb).val]
      /\ buf' = [buf EXCEPT !["sender"] = Tail(sb)]
      /\ UNCHANGED <<spc, si, sent, rpc, ri, val, rcvd>>
  BY DEF Flush, senderVars, receiverVars, IInv, TypeOK, Threads
<1>2. FlagDown /\ MovingOK /\ Moving
  BY <1>1 DEF IInv, FlagDown, FlagUp, Freeing, Moving
<1>3. /\ buf'["sender"] = Tail(sb) /\ buf'["receiver"] = <<>>
      /\ Tail(sb) \in Seq(Store) /\ Len(sb) \in Nat /\ Len(sb) > 0
      /\ Len(Tail(sb)) = Len(sb) - 1
      /\ \A i \in 1 .. (Len(sb) - 1) : Tail(sb)[i] = sb[i + 1]
      /\ DOMAIN Tail(sb) = 1 .. (Len(sb) - 1)
      /\ DOMAIN sb = 1 .. Len(sb)
      /\ Head(sb) = sb[1] /\ Head(sb) \in Store
  BY <1>1, <1>2 DEF IInv, TypeOK, Threads, FlagDown
<1>4. /\ Issued \in Int /\ Issued <= Size + 1 /\ Issued' = Issued
      /\ Drained = Issued - Len(sb) /\ Drained' = Drained + 1
      /\ Drained \in Cells
  <2>1. Issued \in Int /\ Issued <= Size + 1 /\ Issued' = Issued
    BY <1>1 DEF Issued, IInv, TypeOK
  <2>2. Drained = Issued - Len(sb)
    BY DEF Drained
  <2>3. Drained' = Issued' - Len(Tail(sb))
    BY <1>3 DEF Drained
  <2>4. Drained >= 0
    BY <1>2 DEF MovingOK
  <2> HIDE DEF sb
  <2> QED BY <1>3, <2>1, <2>2, <2>3, <2>4
<1>5. Head(sb) = Stored(k, Drained)
  <2>1. sb[1] = Stored(k, Drained + 1 - 1)
    BY <1>2, <1>3 DEF MovingOK
  <2> QED BY <1>3, <1>4, <2>1
<1>6. mem' = [mem EXCEPT ![Drained] = IF Drained = Flag THEN 1 ELSE sent[k][Drained]]
  <2>1. /\ Head(sb).cell = Drained
        /\ Head(sb).val = IF Drained = Flag THEN 1 ELSE sent[k][Drained]
    BY <1>5 DEF Stored
  <2> HIDE DEF sb, k
  <2> QED BY <1>1, <2>1
<1>7. TypeOK'
  <2>1. mem' \in [Cells -> Byte]
    BY <1>1, <1>3 DEF IInv, TypeOK, Store
  <2>2. buf' \in [Threads -> Seq(Store)]
    BY <1>1, <1>3 DEF IInv, TypeOK
  <2> QED BY <1>1, <2>1, <2>2 DEF IInv, TypeOK
<1>8. Spinning' = Spinning /\ rcvd' = rcvd /\ sent' = sent /\ Len(rcvd) \in Nat
  BY <1>1 DEF Spinning, IInv, TypeOK
<1>9. \A c \in Data : c < Drained => mem[c] = sent[k][c]
  BY <1>2 DEF MovingOK
<1>10. CASE Drained = Flag
  <2>1. Len(sb) = 1 /\ spc # "copy"
    <3>1. spc = "copy" => Issued <= Size
      BY DEF Issued, IInv, TypeOK
    <3> HIDE DEF sb
    <3> QED BY <1>3, <1>4, <1>10, <3>1
  <2>2. ~Moving'
    <3>1. Len(Tail(sb)) = 0
      BY <1>3, <2>1
    <3>2. Tail(sb) = <<>>
      BY <1>3, <3>1, EmptyBuffer
    <3> QED BY <1>1, <1>3, <2>1, <3>2 DEF Moving
  <2>3. mem'[Flag] = 1 /\ \A c \in Data : mem'[c] = sent[k][c]
    BY <1>6, <1>9, <1>10 DEF IInv, TypeOK
  <2>4. Len(sent') = Len(rcvd') + 1 + Spinning'
    BY <1>2, <1>8 DEF MovingOK
  <2>5. rpc' = "wait"
    BY <1>1, <1>2 DEF FlagDown
  <2>6. FlagUp'
    BY <1>3, <1>8, <2>2, <2>3, <2>4, <2>5 DEF FlagUp
  <2> QED BY <1>1, <1>7, <2>6 DEF IInv
<1>11. CASE Drained # Flag
  <2>1. Moving'
    <3>1. CASE spc = "copy"
      BY <1>1, <3>1 DEF Moving
    <3>2. CASE spc # "copy"
      <4>1. Issued = Size + 1
        BY <3>2 DEF Issued
      <4>2. Len(Tail(sb)) # 0
        <5> HIDE DEF sb
        <5> QED BY <1>3, <1>4, <1>11, <4>1
      <4>3. Tail(sb) # <<>>
        BY <1>3, <4>2, EmptyBuffer
      <4> QED BY <1>3, <4>3 DEF Moving
    <3> QED BY <3>1, <3>2
  <2>2. mem'[Flag] = 0 /\ \A c \in Data : c < Drained + 1 => mem'[c] = sent[k][c]
    <3> DEFINE stored == IF Drained = Flag THEN 1 ELSE sent[k][Drained]
    <3>1. mem' = [mem EXCEPT ![Drained] = stored] /\ mem \in [Cells -> Byte]
      BY <1>6 DEF IInv, TypeOK
    <3>2. mem[Flag] = 0
      BY <1>2 DEF FlagDown
    <3>3. stored = sent[k][Drained]
      BY <1>11
    <3> HIDE DEF stored
    <3>4. mem'[Flag] = 0
      BY <1>4, <1>11, <3>1, <3>2
    <3>5. mem'[Drained] = sent[k][Drained]
      BY <1>4, <3>1, <3>3
    <3>6. ASSUME NEW c \in Data, c < Drained PROVE mem'[c] = sent[k][c]
      BY <1>4, <1>9, <3>1, <3>6
    <3>7. \A c \in Data : c < Drained + 1 => c < Drained \/ c = Drained
      <4>1. Drained \in Int
        BY <1>4
      <4> QED BY <4>1
    <3> QED BY <3>4, <3>5, <3>6, <3>7
  <2>3. \A i \in 1 .. (Len(sb) - 1) : Tail(sb)[i] = Stored(k, (Drained + 1) + i - 1)
    <3> SUFFICES ASSUME NEW i \in 1 .. (Len(sb) - 1)
                 PROVE  Tail(sb)[i] = Stored(k, (Drained + 1) + i - 1)
      OBVIOUS
    <3>1. i + 1 \in DOMAIN sb /\ Tail(sb)[i] = sb[i + 1]
      BY <1>3
    <3>2. sb[i + 1] = Stored(k, Drained + (i + 1) - 1)
      BY <1>2, <3>1 DEF MovingOK
    <3>3. Drained + (i + 1) - 1 = (Drained + 1) + i - 1
      BY <1>4
    <3> QED BY <3>1, <3>2, <3>3
  <2>4. MovingOK'
    <3>1. Len(sent') = Len(rcvd') + 1 + Spinning'
      BY <1>2, <1>8 DEF MovingOK
    <3>2. Drained' >= 0
      BY <1>4
    <3>3. \A i \in DOMAIN buf'["sender"] :
            buf'["sender"][i] = Stored(k, Drained' + i - 1)
      BY <1>3, <1>4, <2>3
    <3>4. \A c \in Data : c < Drained' => mem'[c] = sent'[Len(rcvd') + 1][c]
      BY <1>4, <1>8, <2>2
    <3> QED BY <1>8, <3>1, <3>2, <3>3, <3>4 DEF MovingOK, Stored
  <2>5. FlagDown'
    BY <1>1, <1>2, <1>3, <2>1, <2>2, <2>4 DEF FlagDown
  <2> QED BY <1>1, <1>7, <2>5 DEF IInv
<1> QED BY <1>10, <1>11

\* The store of free_comms clears the flag and nothing else.
LEMMA FreeStore ==
  ASSUME Freeing, Flush("receiver")
  PROVE  /\ mem' = [mem EXCEPT ![Flag] = 0]
         /\ buf' = [buf EXCEPT !["receiver"] = <<>>]
<1> DEFINE rb == buf["receiver"]
<1>1. rb = <<[cell |-> Flag, val |-> 0]>>
  BY DEF Freeing
<1>2. Head(rb) = [cell |-> Flag, val |-> 0] /\ Tail(rb) = <<>>
  BY <1>1
<1>3. Head(rb).cell = Flag /\ Head(rb).val = 0
  BY <1>2
<1>4. /\ mem' = [mem EXCEPT ![Head(rb).cell] = Head(rb).val]
      /\ buf' = [buf EXCEPT !["receiver"] = Tail(rb)]
  BY DEF Flush
<1> HIDE DEF rb
<1> QED BY <1>2, <1>3, <1>4

\* The only store of the receiver clears the flag and ends the exchange.
LEMMA InvFlushReceiver == IInv /\ Flush("receiver") => IInv'
<1> SUFFICES ASSUME IInv, Flush("receiver") PROVE IInv'
  OBVIOUS
<1>1. /\ buf["receiver"] # <<>>
      /\ UNCHANGED <<spc, si, sent, rpc, ri, val, rcvd>>
  BY DEF Flush, senderVars, receiverVars
<1>2. Freeing
  BY <1>1 DEF IInv, FlagDown, FlagUp
<1>3. /\ mem' = [mem EXCEPT ![Flag] = 0]
      /\ buf' = [buf EXCEPT !["receiver"] = <<>>]
  BY <1>2, FreeStore
<1>4. TypeOK'
  BY <1>1, <1>3 DEF IInv, TypeOK, Threads
<1>5. buf'["sender"] = <<>> /\ buf'["receiver"] = <<>> /\ mem'[Flag] = 0
  BY <1>2, <1>3 DEF IInv, TypeOK, Threads, Freeing, Moving
<1>6. FlagDown'
  BY <1>1, <1>2, <1>5 DEF FlagDown, Freeing, Moving, Spinning
<1> QED BY <1>1, <1>4, <1>6 DEF IInv

\* The inductive step, one case per action.
LEMMA InvNext == IInv /\ [Next]_vars => IInv'
<1> SUFFICES ASSUME IInv, [Next]_vars PROVE IInv'
  OBVIOUS
<1>1. CASE UNCHANGED vars
  BY <1>1 DEF vars, senderVars, receiverVars, IInv, TypeOK, FlagDown, FlagUp,
              Freeing, Moving, MovingOK, Spinning, Drained, Issued, Stored
<1>2. CASE Next
  BY <1>2, InvSendCall, InvSendWait, InvSendCopy, InvSendReady, InvRecvWait,
     InvRecvLoad, InvFreeComms, InvFlushSender, InvFlushReceiver
     DEF Next, SenderStep, ReceiverStep, Threads
<1> QED BY <1>1, <1>2

\* The three phases of the address, on every execution of send, _receive and
\* free_comms, with any interleaving and any delay of the stores.
THEOREM Invariance == Safety => []IInv
BY InvInit, InvNext, PTL DEF Safety

\* Memory, buffers and counters keep their types: the handlers of
\* communication.c write only inside the struct.
THEOREM Typing == Safety => []TypeOK
<1>1. IInv => TypeOK
  BY DEF IInv
<1> QED BY <1>1, Invariance, PTL

\* What the receiver loads is what the sender sent, whole, once, in order.
THEOREM Delivery == Safety => []Delivered
<1>1. IInv => Delivered
  BY DEF IInv, TypeOK, FlagDown, FlagUp, Freeing, MovingOK, Spinning, Delivered
<1> QED BY <1>1, Invariance, PTL

\* "Make sure we aren't overwriting the old value" (communication.c:74).
THEOREM Overwriting == Safety => NoOverwrite
<1> DEFINE Kept == mem[Flag] = 1 => \A c \in Data : mem'[c] = mem[c]
<1>1. IInv /\ [Next]_vars => [Kept]_vars
  <2> SUFFICES ASSUME IInv, Next, mem[Flag] = 1, NEW c \in Data
               PROVE  mem'[c] = mem[c]
    OBVIOUS
  <2>1. FlagUp \/ Freeing
    BY DEF IInv, FlagDown
  <2>2. CASE Flush("receiver")
    <3>1. Freeing
      BY <2>1, <2>2 DEF FlagUp, Flush
    <3>2. mem' = [mem EXCEPT ![Flag] = 0]
      BY <2>2, <3>1, FreeStore
    <3> QED BY <3>2 DEF IInv, TypeOK
  <2>3. ~Flush("sender")
    BY <2>1 DEF FlagUp, Freeing, Moving, Flush
  <2>4. Flush("receiver") \/ mem' = mem
    BY <2>3 DEF Next, Threads, SendCall, SenderStep, SendWait, SendCopy, SendReady,
                ReceiverStep, RecvWait, RecvLoad, FreeComms
  <2> QED BY <2>2, <2>4
<1> QED BY <1>1, Invariance, PTL DEF Safety, NoOverwrite

------------------------------------------------------------------------------
(* The refinement.  In each phase the abstract slot is a function of the two  *)
(* histories, so a step is judged by the phases before and after it.          *)

\* The flag is down: nothing in the slot, and all that was put was taken.
LEMMA BarDown ==
  IInv /\ FlagDown => /\ slotBar = Empty
                      /\ takenBar = rcvd
                      /\ putBar = SubSeq(sent, 1, Len(rcvd))
<1> SUFFICES ASSUME IInv, FlagDown
             PROVE  slotBar = Empty /\ takenBar = rcvd /\ Published = Len(rcvd)
  BY DEF putBar
<1>1. Len(sent) \in Nat /\ Len(rcvd) \in Nat
  BY DEF IInv, TypeOK
<1>2. Published = Len(rcvd)
  BY <1>1 DEF IInv, TypeOK, FlagDown, Published, Completed, Moving, MovingOK, Spinning
<1> QED BY <1>2 DEF FlagDown, slotBar, takenBar

\* The flag is up: the next value to receive is in the slot.
LEMMA BarUp ==
  IInv /\ FlagUp => /\ slotBar = sent[Len(rcvd) + 1]
                    /\ takenBar = rcvd
                    /\ putBar = SubSeq(sent, 1, Len(rcvd) + 1)
                    /\ Len(rcvd) + 1 \in 1 .. Len(sent)
<1> SUFFICES ASSUME IInv, FlagUp
             PROVE  /\ slotBar = sent[Len(rcvd) + 1] /\ takenBar = rcvd
                    /\ Published = Len(rcvd) + 1 /\ Len(rcvd) + 1 \in 1 .. Len(sent)
  BY DEF putBar
<1>1. Len(sent) \in Nat /\ Len(rcvd) \in Nat
  BY DEF IInv, TypeOK
<1>2. Published = Len(rcvd) + 1 /\ Len(rcvd) + 1 \in 1 .. Len(sent)
  BY <1>1 DEF IInv, TypeOK, FlagUp, Published, Completed, Moving, Spinning
<1>3. sent[Len(rcvd) + 1] \in Message
  BY <1>2 DEF IInv, TypeOK
<1>4. slotBar = sent[Len(rcvd) + 1]
  BY <1>3 DEF FlagUp, slotBar, Message
<1> QED BY <1>2, <1>4 DEF FlagUp, takenBar

\* While the flag is being cleared the slot still holds the last value received.
LEMMA BarFreeing ==
  IInv /\ Freeing => /\ slotBar = sent[Len(rcvd)]
                     /\ takenBar = SubSeq(rcvd, 1, Len(rcvd) - 1)
                     /\ putBar = SubSeq(sent, 1, Len(rcvd))
                     /\ Len(rcvd) \in 1 .. Len(sent)
<1> SUFFICES ASSUME IInv, Freeing
             PROVE  /\ slotBar = sent[Len(rcvd)]
                    /\ takenBar = SubSeq(rcvd, 1, Len(rcvd) - 1)
                    /\ Published = Len(rcvd) /\ Len(rcvd) \in 1 .. Len(sent)
  BY DEF putBar
<1>1. Len(sent) \in Nat /\ Len(rcvd) \in Nat
  BY DEF IInv, TypeOK
<1>2. Published = Len(rcvd) /\ Len(rcvd) \in 1 .. Len(sent)
  BY <1>1 DEF IInv, TypeOK, Freeing, Published, Completed, Moving, Spinning
<1>3. sent[Len(rcvd)] \in Message
  BY <1>2 DEF IInv, TypeOK
<1>4. slotBar = sent[Len(rcvd)]
  BY <1>3 DEF Freeing, slotBar, Message
<1>5. buf["receiver"] # <<>>
  BY DEF Freeing
<1> QED BY <1>2, <1>4, <1>5 DEF takenBar

\* Calling send does not change the values already put.
LEMMA PrefixKept ==
  ASSUME NEW S, NEW s \in Seq(S), NEW r, NEW n \in 0 .. Len(s),
         r = s \/ \E x \in S : r = Append(s, x)
  PROVE  /\ SubSeq(r, 1, n) = SubSeq(s, 1, n)
         /\ n > 0 => r[n] = s[n]
OBVIOUS

\* A longer prefix is the shorter one and the next value.
LEMMA PrefixGrows ==
  ASSUME NEW S, NEW s \in Seq(S), NEW n \in Nat, n + 1 \in 1 .. Len(s)
  PROVE  SubSeq(s, 1, n + 1) = Append(SubSeq(s, 1, n), s[n + 1])
OBVIOUS

\* The abstract state as a function of the phase and the histories.
Bars ==
  /\ FlagDown => /\ slotBar = Empty
                 /\ takenBar = rcvd
                 /\ putBar = SubSeq(sent, 1, Len(rcvd))
  /\ FlagUp => /\ slotBar = sent[Len(rcvd) + 1]
               /\ takenBar = rcvd
               /\ putBar = SubSeq(sent, 1, Len(rcvd) + 1)
               /\ Len(rcvd) + 1 \in 1 .. Len(sent)
  /\ Freeing => /\ slotBar = sent[Len(rcvd)]
                /\ takenBar = SubSeq(rcvd, 1, Len(rcvd) - 1)
                /\ putBar = SubSeq(sent, 1, Len(rcvd))
                /\ Len(rcvd) \in 1 .. Len(sent)

LEMMA BarsHold == IInv => Bars
BY BarDown, BarUp, BarFreeing DEF Bars

\* Each step puts one value, takes one, or leaves the slot alone.
LEMMA StepRefines ==
  ASSUME IInv, IInv', [Next]_vars
  PROVE  [Slot!Next]_(Slot!slotVars)
<1> DEFINE same == UNCHANGED <<slotBar, putBar, takenBar>>
<1>1. (FlagDown \/ FlagUp \/ Freeing) /\ (FlagDown' \/ FlagUp' \/ Freeing')
  BY DEF IInv
<1>2. /\ sent \in Seq(Message) /\ rcvd \in Seq(Message)
      /\ Len(rcvd) \in Nat /\ Len(sent) \in Nat
  BY DEF IInv, TypeOK
<1>3. Len(rcvd) <= Len(sent)
  BY <1>2 DEF IInv, FlagDown, MovingOK, FlagUp, Freeing, Spinning
<1>4. Bars /\ Bars'
  BY BarsHold, PTL
<1> HIDE DEF same
<1>5. ASSUME mem' = mem, buf'["receiver"] = buf["receiver"], rcvd' = rcvd,
             sent' = sent \/ \E m \in Message : sent' = Append(sent, m)
      PROVE  same
  <2>2. CASE FlagDown
    <3>1. FlagDown'
      BY <1>1, <1>5, <2>2 DEF FlagDown, FlagUp, Freeing
    <3>2. SubSeq(sent', 1, Len(rcvd)) = SubSeq(sent, 1, Len(rcvd))
      <4>1. Len(rcvd) \in 0 .. Len(sent)
        BY <1>2, <1>3
      <4> QED BY <1>2, <1>5, <4>1, PrefixKept
    <3> QED BY <1>4, <1>5, <2>2, <3>1, <3>2 DEF Bars, same
  <2>3. CASE FlagUp
    <3>1. FlagUp'
      BY <1>1, <1>5, <2>3 DEF FlagDown, FlagUp, Freeing
    <3>2. Len(rcvd) + 1 \in 1 .. Len(sent)
      BY <1>4, <2>3 DEF Bars
    <3>3. /\ SubSeq(sent', 1, Len(rcvd) + 1) = SubSeq(sent, 1, Len(rcvd) + 1)
          /\ sent'[Len(rcvd) + 1] = sent[Len(rcvd) + 1]
      <4>1. Len(rcvd) + 1 \in 0 .. Len(sent) /\ Len(rcvd) + 1 > 0
        BY <1>2, <3>2
      <4> QED BY <1>2, <1>5, <4>1, PrefixKept
    <3> QED BY <1>4, <1>5, <2>3, <3>1, <3>3 DEF Bars, same
  <2>4. CASE Freeing
    <3>1. Freeing'
      BY <1>1, <1>5, <2>4 DEF FlagDown, FlagUp, Freeing
    <3>2. Len(rcvd) \in 1 .. Len(sent)
      BY <1>4, <2>4 DEF Bars
    <3>3. /\ SubSeq(sent', 1, Len(rcvd)) = SubSeq(sent, 1, Len(rcvd))
          /\ sent'[Len(rcvd)] = sent[Len(rcvd)]
      <4>1. Len(rcvd) \in 0 .. Len(sent) /\ Len(rcvd) > 0
        BY <1>2, <3>2
      <4> QED BY <1>2, <1>5, <4>1, PrefixKept
    <3> QED BY <1>4, <1>5, <2>4, <3>1, <3>3 DEF Bars, same
  <2> QED BY <1>1, <2>2, <2>3, <2>4
<1>6. CASE SendCall \/ SenderStep \/ RecvWait \/ RecvLoad \/ UNCHANGED vars
  <2>1. mem' = mem /\ buf'["receiver"] = buf["receiver"] /\ rcvd' = rcvd
    BY <1>6 DEF SendCall, SenderStep, SendWait, SendCopy, SendReady, RecvWait, RecvLoad,
                Write, IInv, TypeOK, Threads, senderVars, receiverVars, vars
  <2>2. sent' = sent \/ \E m \in Message : sent' = Append(sent, m)
    BY <1>6 DEF SendCall, SenderStep, SendWait, SendCopy, SendReady, RecvWait, RecvLoad,
                senderVars, receiverVars, vars
  <2>3. same
    BY <1>5, <2>1, <2>2
  <2> QED BY <2>3 DEF same, Slot!slotVars
<1>7. CASE FreeComms
  <2>1. /\ FlagUp /\ mem' = mem /\ sent' = sent /\ rcvd' = Append(rcvd, val)
        /\ buf'["receiver"] # <<>> /\ val \in Message
    <3>1. FlagUp /\ rpc = "load"
      BY <1>1, <1>7 DEF FreeComms, FlagDown, Freeing
    <3>2. buf["receiver"] = <<>> /\ buf'["receiver"] = <<[cell |-> Flag, val |-> 0]>>
      BY <1>7, <3>1 DEF FreeComms, FlagUp, Write, IInv, TypeOK, Threads
    <3> QED BY <1>7, <3>1, <3>2 DEF FreeComms, senderVars, IInv, TypeOK
  <2>2. Freeing'
    BY <1>1, <2>1 DEF FlagUp, FlagDown
  <2>3. Len(rcvd') = Len(rcvd) + 1 /\ SubSeq(rcvd', 1, Len(rcvd)) = rcvd
    BY <1>2, <2>1
  <2>4. same
    <3>1. Len(rcvd') - 1 = Len(rcvd)
      BY <1>2, <2>3
    <3>2. takenBar' = rcvd /\ takenBar = rcvd
      BY <1>4, <2>1, <2>2, <2>3, <3>1 DEF Bars
    <3>3. putBar' = putBar /\ slotBar' = slotBar
      BY <1>4, <2>1, <2>2, <2>3 DEF Bars
    <3> QED BY <3>2, <3>3 DEF same
  <2> QED BY <2>4 DEF same, Slot!slotVars
<1>8. CASE Flush("sender")
  <2>1. /\ FlagDown /\ sent' = sent /\ rcvd' = rcvd /\ buf'["receiver"] = <<>>
    <3>1. FlagDown
      BY <1>1, <1>8 DEF Flush, FlagUp, Freeing, Moving
    <3> QED BY <1>8, <3>1 DEF Flush, FlagDown, senderVars, receiverVars, IInv, TypeOK, Threads
  <2>2. CASE FlagDown'
    <3>1. same
      BY <1>4, <2>1, <2>2 DEF Bars, same
    <3> QED BY <3>1 DEF same, Slot!slotVars
  <2>3. CASE FlagUp'
    <3>1. Len(rcvd) + 1 \in 1 .. Len(sent) /\ sent[Len(rcvd) + 1] \in Message
      BY <1>2, <1>4, <2>1, <2>3 DEF Bars
    <3>2. putBar' = Append(putBar, sent[Len(rcvd) + 1])
      BY <1>2, <1>4, <2>1, <2>3, <3>1, PrefixGrows DEF Bars
    <3>3. Slot!Put(sent[Len(rcvd) + 1])
      BY <1>4, <2>1, <2>3, <3>2 DEF Bars, Slot!Put
    <3> QED BY <3>1, <3>3 DEF Slot!Next
  <2> QED BY <1>1, <2>1, <2>2, <2>3 DEF Freeing
<1>9. CASE Flush("receiver")
  <2>1. Freeing /\ sent' = sent /\ rcvd' = rcvd
    BY <1>1, <1>9 DEF Flush, FlagUp, FlagDown, senderVars, receiverVars
  <2>2. FlagDown'
    <3>1. mem'[Flag] = 0
      BY <1>9, <2>1, FreeStore DEF IInv, TypeOK
    <3> QED BY <1>1, <3>1 DEF FlagUp, Freeing
  <2>3. Len(rcvd) \in 1 .. Len(sent) /\ Len(rcvd) > 0
    BY <1>4, <2>1 DEF Bars
  <2>4. /\ slotBar = sent[Len(rcvd)] /\ sent[Len(rcvd)] \in Message
        /\ sent[Len(rcvd)] = rcvd[Len(rcvd)]
    BY <1>2, <1>4, <2>1, <2>3 DEF Bars, IInv
  <2>5. slotBar # Empty
    BY <2>4, EmptyAssumption
  <2>6. takenBar' = Append(takenBar, slotBar)
    <3>1. SubSeq(rcvd, 1, Len(rcvd)) = rcvd
      BY <1>2
    <3>2. SubSeq(rcvd, 1, (Len(rcvd) - 1) + 1)
            = Append(SubSeq(rcvd, 1, Len(rcvd) - 1), rcvd[(Len(rcvd) - 1) + 1])
      <4>1. Len(rcvd) - 1 \in Nat /\ (Len(rcvd) - 1) + 1 \in 1 .. Len(rcvd)
        BY <1>2, <2>3
      <4> HIDE DEF same
      <4> QED BY <1>2, <4>1, PrefixGrows
    <3>3. takenBar' = rcvd /\ takenBar = SubSeq(rcvd, 1, Len(rcvd) - 1)
      BY <1>4, <2>1, <2>2 DEF Bars
    <3> QED BY <1>2, <2>4, <3>1, <3>2, <3>3
  <2>7. slotBar' = Empty /\ putBar' = putBar
    BY <1>4, <2>1, <2>2 DEF Bars
  <2> QED BY <2>5, <2>6, <2>7 DEF Slot!Take, Slot!Next
<1> QED BY <1>6, <1>7, <1>8, <1>9 DEF Next, ReceiverStep, Threads

\* send, _receive and free_comms, byte by byte and with delayed stores,
\* implement a slot that one message at a time goes through.
THEOREM Refinement == Safety => ImplementsSlotSafety
<1>1. Init => Slot!Init
  BY DEF Init, Slot!Init, slotBar, putBar, takenBar, Published, Completed, Threads
<1>2. IInv /\ IInv' /\ [Next]_vars => [Slot!Next]_(Slot!slotVars)
  BY StepRefines
<1> QED BY <1>1, <1>2, Invariance, PTL DEF Safety, ImplementsSlotSafety, Slot!Safety

===============================================================================
