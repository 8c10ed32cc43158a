--------------------------- MODULE ManycoreRunProofs ---------------------------
(***************************************************************************)
(* Proofs about calls on bsg_manycore: an address stays correct although   *)
(* every call loads the program anew, each call returns the value of its   *)
(* own messages, and with a misplaced function none returns.               *)
(***************************************************************************)
EXTENDS ManycoreRun, TLAPS

------------------------------------------------------------------------------
(* One address, for every value size, word size and number of sends. *)

\* Rounding up to words makes room for the flag.
LEMMA Layout == /\ Aligned \in Nat
                /\ Size < Aligned
                /\ Flag \in Cells
                /\ Flag \in FlagWord
<1> DEFINE n == Size + 1 + (Word - 1)
           q == n \div Word
<1>1. n \in Nat /\ n = Size + Word /\ Word \in Nat /\ Word > 0 /\ Size \in Nat
  BY SizeAssumption, WordAssumption
<1>2. q \in Nat /\ q * Word <= n /\ n < (q + 1) * Word
  <2> HIDE DEF n
  <2> QED BY <1>1
<1>3. (q + 1) * Word = q * Word + Word
  <2> HIDE DEF q
  <2> QED BY <1>1, <1>2
<1>4. q * Word \in Nat
  <2> HIDE DEF q
  <2> QED BY <1>1, <1>2
<1>5. Aligned = q * Word
  BY DEF Aligned
<1> HIDE DEF n, q
<1>6. Aligned \in Nat /\ Size < Aligned
  BY <1>1, <1>2, <1>3, <1>4, <1>5
<1> QED BY <1>1, <1>6 DEF Flag, Cells, FlagWord

\* What the counters of the last value assembled can be.
LEMMA Counts ==
  ASSUME IInv
  PROVE  /\ Len(sent) \in Nat /\ Len(rcvd) \in Nat /\ Len(net) \in Nat
         /\ Assembled \in Nat /\ Assembled <= Len(sent)
         /\ Pending \in Nat /\ Issued \in 0 .. Aligned
         /\ Arrived \in 0 .. Aligned /\ Arrived = Issued - Pending
         /\ Aligned \in Nat /\ Size \in Nat /\ Size < Aligned
         /\ Arrived < Aligned => Assembled \in 1 .. Len(sent)
         /\ Pending > 0 => Arrived < Aligned
<1>1. Len(sent) \in Nat /\ Len(rcvd) \in Nat /\ Len(net) \in Nat
  BY DEF IInv, TypeOK
<1>2. Assembled \in Nat /\ Assembled <= Len(sent)
  BY <1>1 DEF IInv, NetOK, Assembled
<1>3. Pending \in Nat
  BY <1>1 DEF IInv, NetOK, Pending
<1>4. Issued \in 0 .. Aligned
  BY Layout DEF IInv, TypeOK, Issued
<1>5. Arrived = Issued - Pending /\ Arrived >= 0
  BY DEF IInv, NetOK, Arrived
<1>6. Arrived < Aligned => Assembled >= 1
  BY DEF IInv, NetOK
<1>7. Aligned \in Nat /\ Size \in Nat /\ Size < Aligned
  BY Layout, SizeAssumption
<1> QED BY <1>1, <1>2, <1>3, <1>4, <1>5, <1>6, <1>7

\* The struct is zero on both tiles and nothing is under way.
LEMMA InvInit == Init => IInv
<1> SUFFICES ASSUME Init PROVE IInv
  OBVIOUS
<1>1. TypeOK
  BY Layout, SizeAssumption, ByteAssumption DEF Init, TypeOK, Message, Data
<1>2. Assembled = 0 /\ Pending = 0 /\ Issued = Aligned /\ ~Loading
  BY DEF Init, Assembled, Pending, Issued, Loading
<1>3. Arrived = Aligned /\ Arrived > Flag /\ Published = 0
  BY <1>2, Layout DEF Arrived, Published, Flag
<1>4. NetOK
  BY <1>2, <1>3, Layout DEF Init, NetOK
<1>5. CopyOK /\ SeenOK
  BY DEF Init, CopyOK, SeenOK
<1>6. FlagDown
  BY <1>3, Layout DEF Init, FlagDown, Flag
<1> QED BY <1>1, <1>4, <1>5, <1>6 DEF IInv, Init

\* Calling send only adds a value to send.
LEMMA InvSendCall == IInv /\ SendCall => IInv'
<1> SUFFICES ASSUME IInv, SendCall PROVE IInv'
  OBVIOUS
<1>1. PICK m \in Message : sent' = Append(sent, m)
  BY DEF SendCall
<1>2. /\ spc = "idle" /\ spc' = "poll"
      /\ UNCHANGED <<remote, local, net, reply, si, rpc, ri, val, rcvd>>
  BY DEF SendCall, receiverVars
<1>3. /\ sent' \in Seq(Message) /\ Len(sent') = Len(sent) + 1
      /\ \A k \in 1 .. Len(sent) : sent'[k] = sent[k]
  BY <1>1 DEF IInv, TypeOK
<1>4. TypeOK'
  BY <1>2, <1>3 DEF IInv, TypeOK
<1>5. /\ ~Loading /\ ~Loading' /\ Issued' = Issued /\ Pending' = Pending
      /\ Assembled = Len(sent)
  BY <1>2 DEF Loading, Issued, Pending, Assembled
<1>6. Assembled' = Assembled
  BY <1>2, <1>3, <1>5, Counts DEF Assembled
<1>7. Arrived' = Arrived /\ Published' = Published
  BY <1>5, <1>6 DEF Arrived, Published
<1>8. Arrived < Aligned => sent'[Assembled] = sent[Assembled]
  BY <1>3, Counts
<1>9. NetOK'
  <2>1. ASSUME NEW i \in 1 .. Pending
        PROVE  net[i] = Store(Arrived + i - 1, Assembly(Assembled, Arrived + i - 1)')
    <3>1. Arrived < Aligned
      BY Counts
    <3>2. net[i] = Store(Arrived + i - 1, Assembly(Assembled, Arrived + i - 1))
      BY DEF IInv, NetOK
    <3>3. Assembly(Assembled, Arrived + i - 1)' = Assembly(Assembled, Arrived + i - 1)
      BY <1>6, <1>7, <1>8, <3>1 DEF Assembly
    <3> QED BY <3>2, <3>3
  <2> QED BY <1>2, <1>5, <1>6, <1>7, <2>1 DEF IInv, NetOK
<1>10. CopyOK' /\ SeenOK'
  BY <1>2 DEF IInv, CopyOK, SeenOK
<1>11. ASSUME FlagDown PROVE FlagDown'
  <2>1. Arrived <= Flag => Arrived < Aligned
    BY Counts DEF Flag
  <2> QED BY <1>2, <1>6, <1>7, <1>8, <1>11, <2>1 DEF FlagDown
<1>12. ASSUME FlagUp PROVE FlagUp'
  <2>1. Published = Assembled /\ Published \in 1 .. Len(sent)
    BY <1>12, Counts DEF FlagUp, Published
  <2> QED BY <1>2, <1>3, <1>7, <1>12, <2>1 DEF FlagUp
<1>13. \A i \in DOMAIN rcvd' : rcvd'[i] = sent'[i]
  <2>1. Len(rcvd) <= Len(sent)
    BY Counts DEF IInv, FlagDown, FlagUp, Published
  <2>2. Len(rcvd) \in Nat /\ Len(sent) \in Nat /\ DOMAIN rcvd = 1 .. Len(rcvd)
    BY DEF IInv, TypeOK
  <2>3. \A i \in DOMAIN rcvd : i \in 1 .. Len(sent)
    BY <2>1, <2>2
  <2> QED BY <1>2, <1>3, <2>3 DEF IInv
<1> QED BY <1>4, <1>9, <1>10, <1>11, <1>12, <1>13 DEF IInv

\* A step that moves no store, no value and no byte at the receiver.
LEMMA Unmoved ==
  ASSUME IInv, UNCHANGED <<remote, rpc, ri, val, sent, rcvd>>,
         Assembled' = Assembled, Arrived' = Arrived
  PROVE  (FlagDown \/ FlagUp)' /\ \A i \in DOMAIN rcvd' : rcvd'[i] = sent'[i]
<1>1. Published' = Published
  BY DEF Published
<1> QED BY <1>1 DEF IInv, FlagDown, FlagUp

\* A load is queued behind the stores.
LEMMA InvPoll == IInv /\ Poll => IInv'
<1> SUFFICES ASSUME IInv, Poll PROVE IInv'
  OBVIOUS
<1>1. /\ spc = "poll" /\ spc' = "reply" /\ net' = Append(net, Load)
      /\ UNCHANGED <<remote, local, reply, si, sent, rpc, ri, val, rcvd>>
  BY DEF Poll, receiverVars
<1>2. reply = None
  BY <1>1 DEF IInv, NetOK
<1>3. /\ Len(net') = Len(net) + 1 /\ net'[Len(net')] = Load
      /\ \A i \in 1 .. Len(net) : net'[i] = net[i]
  BY <1>1 DEF IInv, TypeOK
<1>4. TypeOK'
  BY <1>1 DEF IInv, TypeOK
<1>5. ~Loading /\ Loading' /\ Issued' = Issued /\ Assembled' = Assembled /\ Pending = Len(net)
  BY <1>1, <1>2 DEF Loading, Issued, Assembled, Pending
<1>6. Pending' = Pending /\ Arrived' = Arrived
  <2>1. Pending' = Pending
    BY <1>3, <1>5, Counts DEF Pending
  <2> QED BY <1>5, <2>1 DEF Arrived
<1>7. NetOK'
  BY <1>1, <1>2, <1>3, <1>5, <1>6 DEF IInv, NetOK, Assembly
<1>8. CopyOK' /\ SeenOK'
  BY <1>1, <1>2 DEF IInv, CopyOK, SeenOK
<1>9. (FlagDown \/ FlagUp)' /\ \A i \in DOMAIN rcvd' : rcvd'[i] = sent'[i]
  BY <1>1, <1>5, <1>6, Unmoved
<1> QED BY <1>4, <1>7, <1>8, <1>9 DEF IInv

\* The reply becomes the sender's copy of the word.
LEMMA InvTakeReply == IInv /\ TakeReply => IInv'
<1> SUFFICES ASSUME IInv, TakeReply PROVE IInv'
  OBVIOUS
<1>1. /\ reply # None /\ reply' = None /\ spc' = "test"
      /\ local' = [c \in Cells |-> IF c \in FlagWord THEN reply[c] ELSE local[c]]
      /\ UNCHANGED <<remote, net, si, sent, rpc, ri, val, rcvd>>
  BY DEF TakeReply, receiverVars
<1>2. spc = "reply" /\ net = <<>> /\ reply \in [FlagWord -> Byte]
  BY <1>1 DEF IInv, TypeOK, NetOK
<1>3. TypeOK'
  BY <1>1, <1>2 DEF IInv, TypeOK
<1>4. /\ ~Loading /\ ~Loading' /\ Issued' = Issued /\ Assembled' = Assembled
      /\ Pending = 0 /\ Pending' = 0
  BY <1>1, <1>2 DEF Loading, Issued, Assembled, Pending
<1>5. Arrived' = Arrived
  BY <1>4 DEF Arrived
<1>6. NetOK'
  BY <1>1, <1>2, <1>4, <1>5 DEF IInv, NetOK
<1>7. local'[Flag] = reply[Flag]
  BY <1>1, Layout
<1>8. CopyOK' /\ SeenOK'
  BY <1>1, <1>7 DEF IInv, CopyOK, SeenOK
<1>9. (FlagDown \/ FlagUp)' /\ \A i \in DOMAIN rcvd' : rcvd'[i] = sent'[i]
  BY <1>1, <1>4, <1>5, Unmoved
<1> QED BY <1>3, <1>6, <1>8, <1>9 DEF IInv

\* The sender loads the word again.
LEMMA InvPollAgain == IInv /\ PollAgain => IInv'
<1> SUFFICES ASSUME IInv, PollAgain PROVE IInv'
  OBVIOUS
<1>1. /\ spc = "test" /\ spc' = "poll"
      /\ UNCHANGED <<remote, local, net, reply, si, sent, rpc, ri, val, rcvd>>
  BY DEF PollAgain, receiverVars
<1>2. TypeOK'
  BY <1>1 DEF IInv, TypeOK
<1>3. ~Loading /\ ~Loading' /\ Issued' = Issued /\ Assembled' = Assembled /\ Pending' = Pending
  BY <1>1 DEF Loading, Issued, Assembled, Pending
<1>4. Arrived' = Arrived
  BY <1>3 DEF Arrived
<1>5. NetOK'
  BY <1>1, <1>3, <1>4 DEF IInv, NetOK, Assembly
<1>6. CopyOK' /\ SeenOK'
  BY <1>1 DEF IInv, CopyOK, SeenOK
<1>7. (FlagDown \/ FlagUp)' /\ \A i \in DOMAIN rcvd' : rcvd'[i] = sent'[i]
  BY <1>1, <1>3, <1>4, Unmoved
<1> QED BY <1>2, <1>5, <1>6, <1>7 DEF IInv

\* The next value is assembled: the flag the sender saw clear still is.
LEMMA InvAssemble == IInv /\ Assemble => IInv'
<1> SUFFICES ASSUME IInv, Assemble PROVE IInv'
  OBVIOUS
<1>1. /\ spc = "test" /\ spc' = "copy" /\ si' = 0 /\ local[Flag] = 0
      /\ local' = [c \in Cells |-> CASE c \in Data -> sent[Len(sent)][c]
                                     [] c = Flag   -> 1
                                     [] OTHER      -> 0]
      /\ UNCHANGED <<remote, net, reply, sent, rpc, ri, val, rcvd>>
  BY DEF Assemble, receiverVars
<1>2. net = <<>> /\ remote[Flag] = 0 /\ reply = None
  BY <1>1 DEF IInv, NetOK, SeenOK
<1>3. /\ ~Loading /\ ~Loading' /\ Issued = Aligned /\ Pending = 0
      /\ Issued' = 0 /\ Pending' = 0
      /\ Assembled = Len(sent) - 1 /\ Assembled' = Len(sent)
  BY <1>1, <1>2 DEF Loading, Issued, Pending, Assembled
<1>4. Arrived = Aligned /\ Arrived' = 0
  BY <1>3, Layout DEF Arrived
<1>5. Published = Assembled /\ Published' = Len(sent) - 1
  BY <1>3, <1>4, Layout, SizeAssumption DEF Published, Flag
<1>6. Len(sent) \in Nat /\ Len(sent) >= 1
  BY <1>3, Counts
<1>7. TypeOK'
  <2>1. sent[Len(sent)] \in Message
    BY <1>6 DEF IInv, TypeOK
  <2>2. \A c \in Cells : local'[c] \in Byte
    BY <1>1, <2>1, ByteAssumption DEF Message
  <2>3. local' \in [Cells -> Byte]
    BY <1>1, <2>2
  <2>4. si' \in 0 .. Aligned
    BY <1>1, Layout
  <2> QED BY <1>1, <2>3, <2>4 DEF IInv, TypeOK
<1>8. NetOK'
  BY <1>1, <1>2, <1>3, <1>4, <1>6 DEF NetOK
<1>9. CopyOK' /\ SeenOK'
  <2>1. ASSUME NEW c \in Cells PROVE local'[c] = Assembly(Len(sent), c)
    BY <1>1 DEF Assembly
  <2>2. CopyOK'
    <3>1. \A c : Assembly(Assembled, c)' = Assembly(Len(sent), c)
      BY <1>1, <1>3 DEF Assembly
    <3>2. 0 < Aligned
      BY Layout, SizeAssumption
    <3> QED BY <1>1, <2>1, <3>1, <3>2 DEF CopyOK
  <2>3. SeenOK'
    BY <1>1, <1>2 DEF SeenOK
  <2> QED BY <2>2, <2>3
<1>10. FlagDown'
  <2>1. FlagDown
    BY <1>2 DEF IInv, FlagUp
  <2>2. Len(rcvd') = Published'
    BY <1>1, <1>3, <1>5, <2>1 DEF FlagDown
  <2>3. \A c \in Data : ~(c < Arrived')
    BY <1>4 DEF Data
  <2> QED BY <1>1, <1>2, <2>1, <2>2, <2>3 DEF FlagDown
<1> QED BY <1>1, <1>7, <1>8, <1>9, <1>10 DEF IInv

\* A byte is queued behind the others.
LEMMA InvCopy == IInv /\ Copy => IInv'
<1> SUFFICES ASSUME IInv, Copy PROVE IInv'
  OBVIOUS
<1>1. /\ spc = "copy" /\ si' = si + 1
      /\ net' = Append(net, Store(si, local[si]))
      /\ spc' = IF si + 1 = Aligned THEN "idle" ELSE "copy"
      /\ UNCHANGED <<remote, local, reply, sent, rpc, ri, val, rcvd>>
  BY DEF Copy, receiverVars
<1>2. si \in 0 .. (Aligned - 1) /\ si \in Cells /\ reply = None
  BY <1>1, Layout DEF IInv, TypeOK, CopyOK, NetOK, Cells
<1>3. /\ Len(net') = Len(net) + 1 /\ net'[Len(net) + 1] = Store(si, local[si])
      /\ \A i \in 1 .. Len(net) : net'[i] = net[i]
  BY <1>1 DEF IInv, TypeOK
<1>4. TypeOK'
  <2>1. Store(si, local[si]) \in {Store(c, v) : c \in Cells, v \in Byte}
    BY <1>2 DEF IInv, TypeOK
  <2>2. net' \in Seq({Load} \cup {Store(c, v) : c \in Cells, v \in Byte})
    BY <1>1, <2>1 DEF IInv, TypeOK
  <2>3. si' \in 0 .. Aligned
    BY <1>1, <1>2, Layout
  <2> QED BY <1>1, <2>2, <2>3 DEF IInv, TypeOK
<1>5. /\ ~Loading /\ ~Loading' /\ Issued = si /\ Issued' = si + 1
      /\ Assembled = Len(sent) /\ Assembled' = Assembled
      /\ Pending = Len(net) /\ Pending' = Pending + 1
  BY <1>1, <1>2, <1>3 DEF Loading, Issued, Assembled, Pending
<1>6. Arrived' = Arrived /\ Arrived + Pending = si
  BY <1>2, <1>5, Counts DEF Arrived
<1>7. NetOK'
  <2>1. net'[Pending + 1] = Store(Arrived + (Pending + 1) - 1,
                                  Assembly(Assembled, Arrived + (Pending + 1) - 1))
    <3>1. local[si] = Assembly(Assembled, si)
      BY <1>1, <1>2 DEF IInv, CopyOK
    <3>2. Arrived + (Pending + 1) - 1 = si
      BY <1>6, Counts
    <3> QED BY <1>3, <1>5, <3>1, <3>2
  <2>2. \A i \in 1 .. (Pending + 1) : i \in 1 .. Pending \/ i = Pending + 1
    BY Counts
  <2>3. \A i \in 1 .. (Pending + 1) :
          net'[i] = Store(Arrived + i - 1, Assembly(Assembled, Arrived + i - 1))
    BY <1>3, <1>5, <2>1, <2>2 DEF IInv, NetOK
  <2>4. Assembled' >= 0 /\ Pending' >= 0 /\ Arrived' >= 0 /\ Assembled' >= 1
    BY <1>2, <1>5, <1>6, Counts
  <2>5. \A c : Assembly(Assembled, c)' = Assembly(Assembled, c)
    BY <1>1, <1>5 DEF Assembly
  <2> QED BY <1>1, <1>2, <1>5, <1>6, <2>3, <2>4, <2>5 DEF NetOK
<1>8. CopyOK'
  <2>1. spc' = "copy" => si' < Aligned
    BY <1>1, <1>2, Layout
  <2> QED BY <1>1, <1>5, <2>1 DEF IInv, CopyOK, Assembly
<1>9. SeenOK'
  BY <1>1, <1>2 DEF SeenOK
<1>10. (FlagDown \/ FlagUp)' /\ \A i \in DOMAIN rcvd' : rcvd'[i] = sent'[i]
  BY <1>1, <1>5, <1>6, Unmoved
<1> QED BY <1>4, <1>7, <1>8, <1>9, <1>10 DEF IInv

\* A load is answered only when no store is ahead of it.
LEMMA InvDeliverLoad == IInv /\ DeliverLoad => IInv'
<1> SUFFICES ASSUME IInv, DeliverLoad PROVE IInv'
  OBVIOUS
<1>1. /\ net # <<>> /\ Head(net).op = "load" /\ net' = Tail(net)
      /\ reply' = [c \in FlagWord |-> remote[c]]
      /\ UNCHANGED <<remote, local, spc, si, sent, rpc, ri, val, rcvd>>
  BY DEF DeliverLoad, senderVars, receiverVars
<1>2. Len(net) \in Nat /\ Len(net) > 0 /\ Head(net) = net[1]
  BY <1>1 DEF IInv, TypeOK
<1>3. Pending = 0
  <2>1. SUFFICES ASSUME Pending > 0 PROVE FALSE
    BY Counts
  <2>2. PICK a, v : net[1] = Store(a, v)
    BY <2>1, Counts DEF IInv, NetOK
  <2>3. net[1].op = "store"
    BY <2>2 DEF Store
  <2> QED BY <1>1, <1>2, <2>3
<1>4. Loading /\ Len(net) = 1
  BY <1>2, <1>3 DEF Pending
<1>5. net' = <<>>
  BY <1>1, <1>4 DEF IInv, TypeOK
<1>6. reply' \in [FlagWord -> Byte] /\ reply' # None /\ reply'[Flag] = remote[Flag]
  BY <1>1, NoneAssumption, Layout DEF IInv, TypeOK, FlagWord
<1>7. TypeOK'
  BY <1>1, <1>5, <1>6 DEF IInv, TypeOK
<1>8. ~Loading' /\ Pending' = 0 /\ Issued' = Issued /\ Assembled' = Assembled
  BY <1>1, <1>5, <1>6 DEF Loading, Pending, Issued, Assembled
<1>9. Arrived' = Arrived
  BY <1>3, <1>8 DEF Arrived
<1>10. NetOK'
  BY <1>1, <1>3, <1>4, <1>5, <1>8, <1>9 DEF IInv, NetOK, Loading
<1>11. CopyOK' /\ SeenOK'
  BY <1>1, <1>4, <1>6 DEF CopyOK, SeenOK, Loading
<1>12. (FlagDown \/ FlagUp)' /\ \A i \in DOMAIN rcvd' : rcvd'[i] = sent'[i]
  BY <1>1, <1>8, <1>9, Unmoved
<1> QED BY <1>7, <1>10, <1>11, <1>12 DEF IInv

\* The store at the head of the network is for the first byte not yet arrived.
LEMMA HeadStore ==
  ASSUME IInv, DeliverStore
  PROVE  /\ Pending > 0
         /\ \E v : remote' = [remote EXCEPT ![Arrived] = v]
         /\ UNCHANGED <<local, reply, spc, si, sent, rpc, ri, val, rcvd>>
         /\ Arrived \in Cells
<1>1. /\ net # <<>> /\ Head(net).op = "store"
      /\ remote' = [remote EXCEPT ![Head(net).cell] = Head(net).val]
      /\ UNCHANGED <<local, reply, spc, si, sent, rpc, ri, val, rcvd>>
  BY DEF DeliverStore, senderVars, receiverVars
<1>2. Len(net) \in Nat /\ Len(net) > 0 /\ Head(net) = net[1]
  BY <1>1 DEF IInv, TypeOK
<1>3. Pending > 0
  <2>1. CASE Loading
    <3>1. Len(net) # 1
      BY <1>1, <1>2, <2>1 DEF IInv, NetOK, Load
    <3>2. Len(net) - 1 > 0
      BY <1>2, <3>1
    <3>3. Pending = Len(net) - 1
      BY <2>1 DEF Pending
    <3> QED BY <3>2, <3>3
  <2>2. CASE ~Loading
    <3>1. Pending = Len(net)
      BY <2>2 DEF Pending
    <3> QED BY <1>2, <3>1
  <2> QED BY <2>1, <2>2
<1>4. net[1] = Store(Arrived + 1 - 1, Assembly(Assembled, Arrived + 1 - 1))
  BY <1>3, Counts DEF IInv, NetOK
<1>5. Arrived + 1 - 1 = Arrived /\ Arrived \in Cells
  BY <1>3, Counts DEF Cells
<1>6. Head(net).cell = Arrived
  BY <1>2, <1>4, <1>5 DEF Store
<1> QED BY <1>1, <1>3, <1>5, <1>6

\* A byte arrives: of the value while the flag is still to come, the flag, or
\* padding after it.
LEMMA InvDeliverStore == IInv /\ DeliverStore => IInv'
<1> SUFFICES ASSUME IInv, DeliverStore PROVE IInv'
  OBVIOUS
<1>1. /\ net # <<>> /\ Head(net).op = "store" /\ net' = Tail(net)
      /\ remote' = [remote EXCEPT ![Head(net).cell] = Head(net).val]
      /\ UNCHANGED <<reply, local, spc, si, sent, rpc, ri, val, rcvd>>
  BY DEF DeliverStore, senderVars, receiverVars
<1>2. /\ Len(net) \in Nat /\ Len(net) > 0 /\ Head(net) = net[1]
      /\ Len(net') = Len(net) - 1
      /\ \A i \in 1 .. (Len(net) - 1) : net'[i] = net[i + 1]
      /\ net' \in Seq({Load} \cup {Store(c, v) : c \in Cells, v \in Byte})
  BY <1>1 DEF IInv, TypeOK
<1>3. Pending > 0
  BY HeadStore
<1>4. /\ Arrived \in 0 .. (Aligned - 1) /\ Arrived \in Cells
      /\ Assembled \in 1 .. Len(sent) /\ Pending \in 1 .. Len(net)
  <2>1. Pending <= Len(net)
    BY Counts DEF Pending
  <2> QED BY <1>3, <2>1, Counts DEF Cells
<1>5. Head(net) = Store(Arrived, Assembly(Assembled, Arrived))
  <2>1. net[1] = Store(Arrived + 1 - 1, Assembly(Assembled, Arrived + 1 - 1))
    BY <1>4 DEF IInv, NetOK
  <2> QED BY <1>2, <1>4, <2>1
<1>6. remote' = [remote EXCEPT ![Arrived] = Assembly(Assembled, Arrived)]
  <2> DEFINE v == Assembly(Assembled, Arrived)
  <2>1. Head(net) = Store(Arrived, v)
    BY <1>5
  <2> HIDE DEF v
  <2>2. Head(net).cell = Arrived /\ Head(net).val = v
    BY <2>1 DEF Store
  <2>3. remote' = [remote EXCEPT ![Arrived] = v]
    BY <1>1, <2>2
  <2> QED BY <2>3 DEF v
<1>7. /\ Loading' = Loading /\ Issued' = Issued /\ Assembled' = Assembled
      /\ Pending' = Pending - 1
  BY <1>1, <1>2 DEF Loading, Issued, Assembled, Pending
<1>8. Arrived' = Arrived + 1
  BY <1>4, <1>7, Counts DEF Arrived
<1>9. reply = None /\ spc # "test"
  BY <1>1 DEF IInv, NetOK
<1>10. TypeOK'
  <2>1. Assembly(Assembled, Arrived) \in Byte
    BY <1>4, ByteAssumption DEF Assembly, IInv, TypeOK, Message
  <2>2. remote' \in [Cells -> Byte]
    <3> DEFINE v == Assembly(Assembled, Arrived)
    <3>1. v \in Byte /\ remote' = [remote EXCEPT ![Arrived] = v]
      BY <1>6, <2>1
    <3>2. remote \in [Cells -> Byte]
      BY DEF IInv, TypeOK
    <3> HIDE DEF v
    <3> QED BY <3>1, <3>2
  <2> QED BY <1>1, <1>2, <2>2 DEF IInv, TypeOK
<1>11. NetOK'
  <2>1. \A i \in 1 .. (Pending - 1) :
          net'[i] = Store((Arrived + 1) + i - 1, Assembly(Assembled, (Arrived + 1) + i - 1))
    <3> SUFFICES ASSUME NEW i \in 1 .. (Pending - 1)
                 PROVE  net'[i] = Store((Arrived + 1) + i - 1,
                                        Assembly(Assembled, (Arrived + 1) + i - 1))
      OBVIOUS
    <3>1. i + 1 \in 1 .. Pending /\ net'[i] = net[i + 1]
      BY <1>2, <1>4
    <3>2. net[i + 1] = Store(Arrived + (i + 1) - 1, Assembly(Assembled, Arrived + (i + 1) - 1))
      BY <3>1 DEF IInv, NetOK
    <3>3. Arrived + (i + 1) - 1 = (Arrived + 1) + i - 1
      BY <1>4
    <3> QED BY <3>1, <3>2, <3>3
  <2>2. Loading => net'[Len(net')] = Load
    <3>1. Loading => Len(net) - 1 \in 1 .. (Len(net) - 1)
      BY <1>2, <1>4 DEF Pending
    <3>2. Loading => net'[Len(net) - 1] = net[Len(net)]
      BY <1>2, <3>1
    <3> QED BY <1>2, <3>2 DEF IInv, NetOK
  <2>3. \A c : Assembly(Assembled, c)' = Assembly(Assembled, c)
    BY <1>1, <1>7 DEF Assembly
  <2>4. Assembled' >= 0 /\ Assembled' >= 1 /\ Pending' >= 0 /\ Arrived' >= 0
    BY <1>4, <1>7, <1>8, Counts
  <2>5. \A i \in 1 .. Pending' :
          net'[i] = Store(Arrived' + i - 1, Assembly(Assembled, Arrived + i - 1)')
    BY <1>7, <1>8, <2>1, <2>3
  <2>6. /\ Loading' => net'[Len(net')] = Load
        /\ reply' # None => spc' = "reply"
        /\ reply' # None \/ spc' = "test" => net' = <<>>
    BY <1>1, <1>7, <1>9, <2>2
  <2> QED BY <2>4, <2>5, <2>6 DEF NetOK
<1>12. CopyOK' /\ SeenOK'
  BY <1>1, <1>7, <1>9 DEF IInv, CopyOK, SeenOK, Assembly
<1>13. (FlagDown \/ FlagUp)'
  <2>1. CASE Arrived < Flag
    <3>1. FlagDown
      BY <1>4, <2>1, SizeAssumption DEF IInv, FlagUp, Flag
    <3>2. Published = Assembled - 1 /\ Published' = Published
      BY <1>4, <1>7, <1>8, <2>1, SizeAssumption DEF Published, Flag
    <3>3. Arrived \in Data /\ Assembly(Assembled, Arrived) = sent[Assembled][Arrived]
      BY <1>4, <2>1, SizeAssumption DEF Assembly, Data, Flag
    <3>4. remote'[Flag] = 0
      BY <1>4, <1>6, <2>1, <3>1, SizeAssumption DEF FlagDown, Flag, IInv, TypeOK
    <3>5. \A c \in Data : c < Arrived' => remote'[c] = sent'[Assembled'][c]
      <4> SUFFICES ASSUME NEW c \in Data, c < Arrived + 1
                   PROVE  remote'[c] = sent[Assembled][c]
        BY <1>1, <1>7, <1>8
      <4>1. c \in Cells
        BY Layout, SizeAssumption DEF Data, Cells
      <4>2. CASE c = Arrived
        BY <1>4, <1>6, <3>3, <4>2 DEF IInv, TypeOK
      <4>3. CASE c < Arrived
        BY <1>4, <1>6, <2>1, <3>1, <4>1, <4>3, SizeAssumption DEF FlagDown, Flag, IInv, TypeOK
      <4> QED BY <1>4, <4>2, <4>3, SizeAssumption DEF Data
    <3> QED BY <1>1, <3>1, <3>2, <3>4, <3>5 DEF FlagDown
  <2>2. CASE Arrived = Flag
    <3>1. FlagDown
      BY <1>4, <2>2, SizeAssumption DEF IInv, FlagUp, Flag
    <3>2. Published = Assembled - 1 /\ Published' = Assembled /\ Arrived' > Flag
      BY <1>4, <1>7, <1>8, <2>2, SizeAssumption DEF Published, Flag
    <3>3. Assembly(Assembled, Arrived) = 1
      BY <2>2, SizeAssumption DEF Assembly, Data, Flag
    <3>4. remote'[Flag] = 1
      BY <1>4, <1>6, <2>2, <3>3 DEF IInv, TypeOK
    <3>5. \A c \in Data : remote'[c] = sent[Assembled][c]
      BY <1>4, <1>6, <2>2, <3>1, Layout, SizeAssumption
         DEF FlagDown, Data, Cells, Flag, IInv, TypeOK
    <3>6. FlagUp'
      BY <1>1, <1>4, <3>1, <3>2, <3>4, <3>5 DEF FlagUp, FlagDown
    <3> QED BY <3>6
  <2>3. CASE Arrived > Flag
    <3>1. Published' = Published /\ Arrived' > Flag /\ Published = Assembled
      BY <1>4, <1>7, <1>8, <2>3, SizeAssumption DEF Published, Flag
    <3>2. remote'[Flag] = remote[Flag] /\ \A c \in Data : remote'[c] = remote[c]
      BY <1>4, <1>6, <2>3, Layout, SizeAssumption DEF Data, Cells, Flag, IInv, TypeOK
    <3>3. CASE FlagDown
      <4>1. FlagDown'
        BY <1>1, <1>4, <1>8, <2>3, <3>1, <3>2, <3>3, SizeAssumption DEF FlagDown, Flag
      <4> QED BY <4>1
    <3>4. CASE FlagUp
      <4>1. FlagUp'
        BY <1>1, <3>1, <3>2, <3>4 DEF FlagUp, Data
      <4> QED BY <4>1
    <3> QED BY <3>3, <3>4 DEF IInv
  <2> QED BY <1>4, <2>1, <2>2, <2>3, SizeAssumption DEF Flag
<1>14. \A i \in DOMAIN rcvd' : rcvd'[i] = sent'[i]
  BY <1>1 DEF IInv
<1> QED BY <1>10, <1>11, <1>12, <1>13, <1>14 DEF IInv

\* What the sender and the network do not touch.
LEMMA Untouched ==
  ASSUME IInv, UNCHANGED <<local, net, reply, spc, si, sent>>
  PROVE  /\ NetOK' /\ CopyOK'
         /\ Assembled' = Assembled /\ Arrived' = Arrived /\ Published' = Published
<1>1. /\ Loading' = Loading /\ Issued' = Issued /\ Assembled' = Assembled
      /\ Pending' = Pending
  BY DEF Loading, Issued, Assembled, Pending
<1>2. Arrived' = Arrived /\ Published' = Published
  BY <1>1 DEF Arrived, Published
<1>3. \A c : Assembly(Assembled, c)' = Assembly(Assembled, c)
  BY <1>1 DEF Assembly
<1>4. NetOK'
  BY <1>1, <1>2, <1>3 DEF IInv, NetOK
<1>5. CopyOK'
  BY <1>1, <1>3 DEF IInv, CopyOK
<1> QED BY <1>1, <1>2, <1>4, <1>5

\* The receiver leaves its loop with the flag up.
LEMMA InvRecvWait == IInv /\ RecvWait => IInv'
<1> SUFFICES ASSUME IInv, RecvWait PROVE IInv'
  OBVIOUS
<1>1. /\ remote[Flag] # 0 /\ rpc' = "load" /\ ri' = 0
      /\ UNCHANGED <<remote, local, net, reply, spc, si, sent, val, rcvd>>
  BY DEF RecvWait, senderVars
<1>2. TypeOK'
  BY <1>1, SizeAssumption DEF IInv, TypeOK
<1>3. NetOK' /\ CopyOK' /\ Published' = Published /\ Arrived' = Arrived
  BY <1>1, Untouched
<1>4. SeenOK'
  BY <1>1 DEF IInv, SeenOK
<1>5. FlagUp'
  BY <1>1, <1>3 DEF IInv, FlagDown, FlagUp, Data
<1> QED BY <1>1, <1>2, <1>3, <1>4, <1>5 DEF IInv

\* The bytes loaded are those of the value, which does not change.
LEMMA InvRecvLoad == IInv /\ RecvLoad => IInv'
<1> SUFFICES ASSUME IInv, RecvLoad PROVE IInv'
  OBVIOUS
<1>1. /\ rpc = "load" /\ ri < Size /\ ri' = ri + 1
      /\ val' = [val EXCEPT ![ri] = remote[ri]]
      /\ UNCHANGED <<remote, local, net, reply, spc, si, sent, rpc, rcvd>>
  BY DEF RecvLoad, senderVars
<1>2. FlagUp /\ ri \in Data /\ ri \in Cells
  BY <1>1, Layout, SizeAssumption DEF IInv, TypeOK, FlagDown, Data, Cells
<1>3. TypeOK'
  <2>1. remote[ri] \in Byte
    BY <1>2 DEF IInv, TypeOK
  <2>2. val' \in Message
    <3>1. val \in [Data -> Byte]
      BY DEF IInv, TypeOK, Message
    <3> QED BY <1>1, <2>1, <3>1 DEF Message
  <2>3. ri' \in 0 .. Size
    BY <1>1, <1>2, SizeAssumption DEF Data
  <2> QED BY <1>1, <2>2, <2>3 DEF IInv, TypeOK
<1>4. NetOK' /\ CopyOK' /\ Published' = Published /\ Arrived' = Arrived
  BY <1>1, Untouched
<1>5. SeenOK'
  BY <1>1 DEF IInv, SeenOK
<1>6. \A c \in Data : c < ri' => val'[c] = remote'[c]
  <2> SUFFICES ASSUME NEW c \in Data, c < ri + 1 PROVE val'[c] = remote[c]
    BY <1>1
  <2>1. val \in [Data -> Byte]
    BY DEF IInv, TypeOK, Message
  <2>2. c < ri \/ c = ri
    BY <1>2 DEF Data
  <2> QED BY <1>1, <1>2, <2>1, <2>2 DEF FlagUp
<1>7. FlagUp'
  BY <1>1, <1>2, <1>4, <1>6 DEF FlagUp
<1> QED BY <1>1, <1>3, <1>4, <1>5, <1>7 DEF IInv

\* What free_comms ends is the receipt of the last value published.
LEMMA InvFreeComms == IInv /\ FreeComms => IInv'
<1> SUFFICES ASSUME IInv, FreeComms PROVE IInv'
  OBVIOUS
<1>1. /\ rpc = "load" /\ rpc' = "wait" /\ ri = Size /\ ri' = 0
      /\ remote' = [remote EXCEPT ![Flag] = 0]
      /\ rcvd' = Append(rcvd, val)
      /\ UNCHANGED <<local, net, reply, spc, si, sent, val>>
  BY DEF FreeComms, senderVars
<1>2. FlagUp
  BY <1>1 DEF IInv, FlagDown
<1>3. NetOK' /\ CopyOK' /\ Published' = Published /\ Arrived' = Arrived
  BY <1>1, Untouched
<1>4. /\ rcvd' \in Seq(Message) /\ Len(rcvd') = Len(rcvd) + 1
      /\ rcvd'[Len(rcvd) + 1] = val
      /\ \A i \in 1 .. Len(rcvd) : rcvd'[i] = rcvd[i]
      /\ DOMAIN rcvd' = 1 .. (Len(rcvd) + 1)
      /\ DOMAIN rcvd = 1 .. Len(rcvd)
  BY <1>1 DEF IInv, TypeOK
<1>5. Len(rcvd) + 1 = Published /\ Published \in 1 .. Len(sent) /\ sent[Published] \in Message
  <2>1. Len(rcvd) + 1 = Published /\ Published = Assembled
    BY <1>2, Counts DEF FlagUp, Published
  <2>2. Published \in 1 .. Len(sent)
    BY <2>1, Counts
  <2> QED BY <2>1, <2>2 DEF IInv, TypeOK
<1>6. val = sent[Published]
  <2>1. \A c \in Data : val[c] = sent[Published][c]
    BY <1>1, <1>2, SizeAssumption DEF FlagUp, Data
  <2> QED BY <1>5, <2>1 DEF IInv, TypeOK, Message
<1>7. TypeOK'
  <2>1. remote' \in [Cells -> Byte]
    <3>1. remote \in [Cells -> Byte]
      BY DEF IInv, TypeOK
    <3> QED BY <1>1, <3>1, ByteAssumption
  <2> QED BY <1>1, <1>4, <2>1, SizeAssumption DEF IInv, TypeOK
<1>8. remote'[Flag] = 0
  BY <1>1, Layout DEF IInv, TypeOK
<1>9. SeenOK'
  BY <1>8 DEF SeenOK
<1>10. FlagDown'
  BY <1>1, <1>2, <1>3, <1>4, <1>5, <1>8, SizeAssumption, Counts DEF FlagDown, FlagUp, Flag
<1>11. \A i \in DOMAIN rcvd' : rcvd'[i] = sent'[i]
  <2> SUFFICES ASSUME NEW i \in 1 .. (Len(rcvd) + 1) PROVE rcvd'[i] = sent[i]
    BY <1>1, <1>4
  <2>1. i \in 1 .. Len(rcvd) \/ i = Len(rcvd) + 1
    BY Counts
  <2> QED BY <1>4, <1>5, <1>6, <2>1 DEF IInv
<1> QED BY <1>3, <1>7, <1>9, <1>10, <1>11 DEF IInv

LEMMA InvNext == IInv /\ [Next]_vars => IInv'
<1> SUFFICES ASSUME IInv, [Next]_vars PROVE IInv'
  OBVIOUS
<1>1. CASE Next
  BY <1>1, InvSendCall, InvPoll, InvTakeReply, InvPollAgain, InvAssemble, InvCopy,
     InvRecvWait, InvRecvLoad, InvFreeComms, InvDeliverStore, InvDeliverLoad
     DEF Next, SenderStep, ReceiverStep, NetStep
<1>2. CASE UNCHANGED vars
  <2>1. UNCHANGED <<remote, local, net, reply, spc, si, sent, rpc, ri, val, rcvd>>
    BY <1>2 DEF vars, senderVars, receiverVars
  <2>2. TypeOK' /\ SeenOK'
    BY <2>1 DEF IInv, TypeOK, SeenOK
  <2> QED BY <2>1, <2>2, Untouched, Unmoved DEF IInv
<1> QED BY <1>1, <1>2

------------------------------------------------------------------------------
\* The counters of the bytes under way and the two phases of the flag hold in
\* every state, for every value and word size.
THEOREM Invariance == Safety => []IInv
BY InvInit, InvNext, PTL DEF Safety

\* Type correctness of the two copies of the struct and of the network.
THEOREM Typing == Safety => []TypeOK
<1>1. IInv => TypeOK
  BY DEF IInv
<1> QED BY <1>1, Invariance, PTL

\* Values are received whole, once and in order.
THEOREM Delivery == Safety => []Delivered
<1>1. IInv => Delivered
  <2> SUFFICES ASSUME IInv PROVE Len(rcvd) <= Len(sent)
    BY DEF IInv, Delivered
  <2> QED BY Counts DEF IInv, FlagDown, FlagUp, Published
<1> QED BY <1>1, Invariance, PTL

\* What a step can change of the receiver's copy.
LEMMA RemoteStep ==
  ASSUME IInv, Next, ~DeliverStore, ~FreeComms
  PROVE  UNCHANGED <<remote, rcvd>>
BY DEF Next, SendCall, SenderStep, Poll, TakeReply, PollAgain, Assemble, Copy, ReceiverStep,
       RecvWait, RecvLoad, NetStep, DeliverLoad, senderVars, receiverVars

\* No byte of a value changes while its flag is up.
LEMMA KeptWhileUp ==
  ASSUME IInv, [Next]_vars, remote[Flag] = 1
  PROVE  \A c \in Data : remote'[c] = remote[c]
<1>1. remote \in [Cells -> Byte] /\ \A c \in Data : c \in Cells /\ c < Flag
  BY Layout, SizeAssumption DEF IInv, TypeOK, Data, Cells, Flag
<1>2. CASE DeliverStore
  <2>1. \E v : remote' = [remote EXCEPT ![Arrived] = v]
    BY <1>2, HeadStore
  <2>2. Arrived > Flag
    BY DEF IInv, FlagDown, FlagUp
  <2>3. Arrived \in Int /\ Flag \in Int /\ \A c \in Data : c \in Int
    BY Counts, SizeAssumption DEF Flag, Data
  <2>4. \A c \in Data : c # Arrived
    BY <1>1, <2>2, <2>3
  <2> QED BY <1>1, <2>1, <2>4
<1>3. CASE FreeComms
  <2>1. remote' = [remote EXCEPT ![Flag] = 0]
    BY <1>3 DEF FreeComms
  <2>2. \A c \in Data : c # Flag
    BY SizeAssumption DEF Data, Flag
  <2> QED BY <1>1, <2>1, <2>2
<1>4. CASE ~DeliverStore /\ ~FreeComms
  <2>1. remote' = remote
    BY <1>4, RemoteStep DEF vars
  <2> QED BY <2>1
<1> QED BY <1>2, <1>3, <1>4

\* No step changes a byte of a value while its flag is up at the receiver.
THEOREM Overwriting == Safety => NoOverwrite
<1>1. IInv /\ [Next]_vars => [remote[Flag] = 1 => \A c \in Data : remote'[c] = remote[c]]_vars
  BY KeptWhileUp
<1> QED BY <1>1, Invariance, PTL DEF Safety, NoOverwrite

------------------------------------------------------------------------------
(* The refinement. *)

\* The abstract state as a function of the phase and the histories.
Bars ==
  /\ FlagDown => /\ slotBar = Empty
                 /\ putBar = SubSeq(sent, 1, Len(rcvd))
                 /\ Len(rcvd) <= Len(sent)
  /\ FlagUp => /\ slotBar = sent[Len(rcvd) + 1]
               /\ putBar = SubSeq(sent, 1, Len(rcvd) + 1)
               /\ Len(rcvd) + 1 \in 1 .. Len(sent)

LEMMA BarsHold == IInv => Bars
<1> SUFFICES ASSUME IInv PROVE Bars
  OBVIOUS
<1>1. ASSUME FlagDown
      PROVE  slotBar = Empty /\ Published = Len(rcvd) /\ Len(rcvd) <= Len(sent)
  BY <1>1, Counts DEF FlagDown, slotBar, Published
<1>2. ASSUME FlagUp
      PROVE  /\ slotBar = sent[Len(rcvd) + 1] /\ Published = Len(rcvd) + 1
             /\ Len(rcvd) + 1 \in 1 .. Len(sent)
  <2>1. Len(rcvd) + 1 = Published /\ Published = Assembled
    BY <1>2, Counts DEF FlagUp, Published
  <2>2. Published \in 1 .. Len(sent)
    BY <2>1, Counts
  <2>3. sent[Published] \in [Data -> Byte]
    BY <2>2 DEF IInv, TypeOK, Message
  <2>4. slotBar = sent[Published]
    BY <1>2, <2>3 DEF FlagUp, slotBar
  <2> QED BY <2>1, <2>2, <2>4
<1> QED BY <1>1, <1>2 DEF Bars, putBar

\* Calling send does not change the values already put.
LEMMA PrefixKept ==
  ASSUME NEW S, NEW s \in Seq(S), NEW r, NEW n \in 0 .. Len(s),
         r = s \/ \E x \in S : r = Append(s, x)
  PROVE  /\ SubSeq(r, 1, n) = SubSeq(s, 1, n)
         /\ n > 0 => r[n] = s[n]
OBVIOUS

\* A longer prefix is the shorter one and the next value.
LEMMA PrefixGrows ==
  ASSUME NEW S, NEW s \in Seq(S), NEW n \in Nat, n + 1 \in 1 .. Len(s)
  PROVE  SubSeq(s, 1, n + 1) = Append(SubSeq(s, 1, n), s[n + 1])
OBVIOUS

\* Each step puts one value, takes one, or leaves the slot alone.
LEMMA StepRefines ==
  ASSUME IInv, IInv', [Next]_vars
  PROVE  [Slot!Next]_(Slot!slotVars)
<1> DEFINE same == UNCHANGED <<slotBar, putBar, rcvd>>
<1>1. (FlagDown \/ FlagUp) /\ (FlagDown' \/ FlagUp')
  BY DEF IInv
<1>2. /\ sent \in Seq(Message) /\ rcvd \in Seq(Message)
      /\ Len(rcvd) \in Nat /\ Len(sent) \in Nat
  BY DEF IInv, TypeOK
<1>3. Bars /\ Bars'
  BY BarsHold, PTL
<1> HIDE DEF same
<1>4. CASE ~DeliverStore /\ ~FreeComms
  <2>1. remote' = remote /\ rcvd' = rcvd
    BY <1>4, RemoteStep DEF vars, receiverVars
  <2>2. sent' = sent \/ \E m \in Message : sent' = Append(sent, m)
    BY <1>4 DEF Next, SendCall, SenderStep, Poll, TakeReply, PollAgain, Assemble, Copy,
                ReceiverStep, RecvWait, RecvLoad, NetStep, DeliverLoad,
                senderVars, receiverVars, vars
  <2>3. CASE FlagDown
    <3>1. FlagDown'
      BY <1>1, <2>1, <2>3 DEF FlagDown, FlagUp
    <3>2. SubSeq(sent', 1, Len(rcvd)) = SubSeq(sent, 1, Len(rcvd))
      <4>1. Len(rcvd) \in 0 .. Len(sent)
        BY <1>2, <1>3, <2>3 DEF Bars
      <4> QED BY <1>2, <2>2, <4>1, PrefixKept
    <3>3. same
      BY <1>3, <2>1, <2>3, <3>1, <3>2 DEF Bars, same
    <3> QED BY <3>3 DEF same, Slot!slotVars
  <2>4. CASE FlagUp
    <3>1. FlagUp'
      BY <1>1, <2>1, <2>4 DEF FlagDown, FlagUp
    <3>2. Len(rcvd) + 1 \in 1 .. Len(sent)
      BY <1>3, <2>4 DEF Bars
    <3>3. /\ SubSeq(sent', 1, Len(rcvd) + 1) = SubSeq(sent, 1, Len(rcvd) + 1)
          /\ sent'[Len(rcvd) + 1] = sent[Len(rcvd) + 1]
      <4>1. Len(rcvd) + 1 \in 0 .. Len(sent) /\ Len(rcvd) + 1 > 0
        BY <1>2, <3>2
      <4> QED BY <1>2, <2>2, <4>1, PrefixKept
    <3>4. same
      BY <1>3, <2>1, <2>4, <3>1, <3>3 DEF Bars, same
    <3> QED BY <3>4 DEF same, Slot!slotVars
  <2> QED BY <1>1, <2>3, <2>4
<1>5. CASE DeliverStore
  <2>1. sent' = sent /\ rcvd' = rcvd
    BY <1>5, HeadStore
  <2>2. CASE FlagDown /\ FlagUp'
    <3>1. Len(rcvd) + 1 \in 1 .. Len(sent) /\ sent[Len(rcvd) + 1] \in Message
      BY <1>2, <1>3, <2>1, <2>2 DEF Bars
    <3>2. putBar' = Append(putBar, sent[Len(rcvd) + 1])
      BY <1>2, <1>3, <2>1, <2>2, <3>1, PrefixGrows DEF Bars
    <3>3. Slot!Put(sent[Len(rcvd) + 1])
      BY <1>3, <2>1, <2>2, <3>2 DEF Bars, Slot!Put
    <3> QED BY <3>1, <3>3 DEF Slot!Next
  <2>3. CASE FlagDown /\ FlagDown'
    <3>1. same
      BY <1>3, <2>1, <2>3 DEF Bars, same
    <3> QED BY <3>1 DEF same, Slot!slotVars
  <2>4. CASE FlagUp
    <3>1. FlagUp'
      <4>1. \E v : remote' = [remote EXCEPT ![Arrived] = v]
        BY <1>5, HeadStore
      <4>2. Arrived # Flag /\ remote \in [Cells -> Byte] /\ Flag \in Cells
        BY <2>4, Counts, Layout DEF FlagUp, Flag, IInv, TypeOK
      <4>3. remote[Flag] = 1
        BY <2>4 DEF FlagUp
      <4>4. remote'[Flag] = 1
        <5> HIDE DEF FlagUp
        <5> QED BY <4>1, <4>2, <4>3
      <4> QED BY <1>1, <4>4 DEF FlagDown
    <3>2. same
      BY <1>3, <2>1, <2>4, <3>1 DEF Bars, same
    <3> QED BY <3>2 DEF same, Slot!slotVars
  <2> QED BY <1>1, <2>2, <2>3, <2>4
<1>6. CASE FreeComms
  <2>1. /\ rpc = "load" /\ ri = Size /\ sent' = sent /\ rcvd' = Append(rcvd, val)
        /\ remote' = [remote EXCEPT ![Flag] = 0]
    BY <1>6 DEF FreeComms, senderVars
  <2>2. FlagUp
    BY <1>1, <2>1 DEF FlagDown
  <2>3. FlagDown'
    <3>1. remote \in [Cells -> Byte] /\ Flag \in Cells
      BY Layout DEF IInv, TypeOK
    <3>2. remote'[Flag] = 0
      BY <2>1, <3>1
    <3> QED BY <1>1, <3>2 DEF FlagUp
  <2>4. val \in Message
    BY DEF IInv, TypeOK
  <2>5. Len(rcvd') = Len(rcvd) + 1 /\ rcvd'[Len(rcvd) + 1] = val
    BY <1>2, <2>1, <2>4
  <2>6. Len(rcvd) + 1 \in DOMAIN rcvd'
    BY <1>2, <2>1, <2>4
  <2>7. val = sent[Len(rcvd) + 1]
    BY <2>1, <2>5, <2>6 DEF IInv
  <2>8. slotBar = val /\ slotBar' = Empty /\ putBar' = putBar
    BY <1>3, <2>1, <2>2, <2>3, <2>5, <2>7 DEF Bars
  <2>9. Slot!Take
    BY <2>1, <2>4, <2>8, EmptyAssumption DEF Slot!Take
  <2> QED BY <2>9 DEF Slot!Next
<1> QED BY <1>4, <1>5, <1>6

\* Nothing is in the slot at the start.
LEMMA SlotInit == Init => Slot!Init
<1> SUFFICES ASSUME Init PROVE slotBar = Empty /\ putBar = <<>> /\ rcvd = <<>>
  BY DEF Slot!Init
<1>1. IInv /\ FlagDown
  <2>1. IInv
    BY InvInit
  <2>2. remote[Flag] = 0
    BY Layout DEF Init
  <2> QED BY <2>1, <2>2 DEF IInv, FlagUp
<1>2. Bars
  BY <1>1, BarsHold
<1>3. sent = <<>> /\ rcvd = <<>> /\ Len(rcvd) = 0
  BY DEF Init
<1> QED BY <1>1, <1>2, <1>3 DEF Bars

\* At the level of the slot each value is put whole into an empty place and
\* taken once: the safety part of the promise the pthreads runtime also keeps.
THEOREM Refinement == Safety => ImplementsSlotSafety
<1>1. IInv /\ IInv' /\ [Next]_vars => [Slot!Next]_(Slot!slotVars)
  BY StepRefines
<1> QED BY SlotInit, <1>1, Invariance, PTL DEF Safety, ImplementsSlotSafety, Slot!Safety

------------------------------------------------------------------------------
(* The calls that use it. *)

\* How many messages were sent before this call.
LEMMA Base ==
  ASSUME CallOK
  PROVE  /\ call * Sends \in Nat /\ Sends \in Nat /\ Sends > 0
         /\ (call + 1) * Sends = call * Sends + Sends
BY CallsAssumption DEF CallOK

\* A function stands once in the list.
LEMMA ListedOnce ==
  ASSUME CallOK, NEW f, NEW s \in TileIds, NEW t \in TileIds, Listed(s, f), Listed(t, f)
  PROVE  s = t
<1>1. layout \in Layouts
  BY DEF CallOK
<1>2. \A m, n \in DOMAIN layout.list : layout.list[m] = layout.list[n] => m = n
  BY <1>1, LayoutsAssumption
<1>3. s + 1 = t + 1
  BY <1>2 DEF Listed
<1> QED BY <1>3 DEF TileIds

\* A tile that runs a function runs the one with its rank.
LEMMA RunsListed ==
  ASSUME CallOK, NEW t \in TileIds
  PROVE  /\ t < Len(layout.list) <=> t + 1 \in DOMAIN layout.list
         /\ \A f : Listed(t, f) => f \in {"sender", "receiver"}
         /\ \E f : t < Len(layout.list) => Listed(t, f)
<1>1. layout \in Layouts
  BY DEF CallOK
<1>2. layout.list \in Seq({"sender", "receiver"})
  BY <1>1, LayoutsAssumption
<1> QED BY <1>2 DEF Listed, TileIds

\* The tiles of all functions are there.
LEMMA ListedSomewhere ==
  ASSUME CallOK, NEW f \in {"sender", "receiver"}
  PROVE  \E t \in TileIds : Listed(t, f)
<1>1. layout \in Layouts
  BY DEF CallOK
<1>2. /\ layout.list \in Seq({"sender", "receiver"}) /\ Len(layout.list) <= Tiles
      /\ {"sender", "receiver"} = {layout.list[n] : n \in DOMAIN layout.list}
  BY <1>1, LayoutsAssumption
<1>3. PICK n \in DOMAIN layout.list : layout.list[n] = f
  BY <1>2
<1>4. n \in 1 .. Len(layout.list)
  BY <1>2, <1>3
<1>5. n - 1 \in TileIds /\ Listed(n - 1, f)
  BY <1>2, <1>3, <1>4, TilesAssumption DEF TileIds, Listed
<1> QED BY <1>5

------------------------------------------------------------------------------
\* With nothing under way the address can be loaded anew.
LEMMA Idle ==
  ASSUME IInv, spc = "idle", rpc = "wait", Len(sent) = Len(rcvd)
  PROVE  /\ remote[Flag] = 0
         /\ net = <<>> => Published = Len(sent) /\ Assembled = Len(sent) /\ Arrived = Aligned
<1>1. Assembled = Len(sent) /\ Issued = Aligned /\ ~Loading /\ Pending = Len(net)
  BY DEF Assembled, Issued, Loading, Pending
<1>2. Len(sent) \in Nat /\ Published <= Len(sent) /\ Aligned \in Nat /\ Flag \in Cells
  BY <1>1, Counts, Layout DEF Published
<1>3. ~FlagUp
  BY <1>2, Counts DEF FlagUp, Published
<1>4. remote[Flag] = 0
  BY <1>3 DEF IInv, FlagDown
<1>5. ASSUME net = <<>>
      PROVE  Published = Len(sent) /\ Arrived = Aligned
  <2>1. Pending = 0
    BY <1>1, <1>5
  <2>2. Arrived = Aligned
    BY <1>1, <1>2, <2>1 DEF Arrived
  <2>3. Aligned > Flag
    BY Layout DEF Flag
  <2> QED BY <1>1, <2>2, <2>3 DEF Published
<1> QED BY <1>1, <1>4, <1>5

LEMMA InvLoadProgram == IInv /\ QuietOK /\ LoadProgram => IInv'
<1> SUFFICES ASSUME IInv, QuietOK, LoadProgram PROVE IInv'
  OBVIOUS
<1>1. /\ net = <<>> /\ UNCHANGED <<net, reply, spc, si, sent, rpc, ri, val, rcvd>>
      /\ remote' = [c \in Cells |-> 0] /\ local' = [c \in Cells |-> 0]
      /\ spc = "idle" /\ rpc = "wait" /\ Len(sent) = Len(rcvd)
  BY DEF LoadProgram, QuietOK, Between, receiverVars
<1>2. /\ Assembled' = Assembled /\ Pending' = Pending /\ Issued' = Issued /\ Loading' = Loading
      /\ Arrived' = Arrived /\ Published' = Published
  BY <1>1 DEF Assembled, Pending, Issued, Loading, Arrived, Published
<1>3. /\ Published = Len(sent) /\ Arrived = Aligned /\ Flag \in Cells /\ Flag < Aligned
      /\ Aligned \in Nat /\ Flag \in Nat
  BY <1>1, Idle, Layout, SizeAssumption DEF Flag
<1>4. TypeOK'
  BY <1>1, ByteAssumption DEF IInv, TypeOK
<1>5. NetOK'
  <2>1. \A k, c : Assembly(k, c)' = Assembly(k, c)
    BY <1>1 DEF Assembly
  <2> QED BY <1>1, <1>2, <2>1 DEF IInv, NetOK
<1>6. CopyOK' /\ SeenOK'
  BY <1>1, <1>3 DEF CopyOK, SeenOK, IInv, NetOK
<1>7. FlagDown'
  BY <1>1, <1>2, <1>3 DEF FlagDown
<1> QED BY <1>1, <1>4, <1>5, <1>6, <1>7 DEF IInv

------------------------------------------------------------------------------
\* Zero is a message.
LEMMA ZeroMessage == Zero \in Message
BY ByteAssumption DEF Zero, Message

LEMMA RunInvInit == RunInit => RunInv
<1> SUFFICES ASSUME RunInit PROVE RunInv
  OBVIOUS
<1>1. IInv
  BY InvInit DEF RunInit
<1>2. CallOK
  BY ZeroMessage DEF RunInit, CallOK
<1>3. Len(sent) = 0 /\ Len(rcvd) = 0 /\ call * Sends = 0 /\ spc = "idle" /\ rpc = "wait"
      /\ hpc = "init" /\ call = 0
  BY CallsAssumption DEF RunInit, Init
<1>4. QuietOK /\ LoadedOK /\ TilesOK /\ ReturnOK /\ StuckNotWrong
  BY <1>3 DEF QuietOK, LoadedOK, TilesOK, ReturnOK, StuckNotWrong
<1>5. MessagesOK
  BY <1>3, CallsAssumption DEF MessagesOK, SentNow, ReceivedNow
<1> QED BY <1>1, <1>2, <1>4, <1>5 DEF RunInv

\* Every step but the loading of the program is one of the address or none.
LEMMA CommsStep == RunInv /\ [RunNext]_runVars => IInv' /\ ([Next]_commsVars \/ LoadProgram)
<1> SUFFICES ASSUME RunInv, [RunNext]_runVars PROVE IInv' /\ ([Next]_commsVars \/ LoadProgram)
  OBVIOUS
<1>1. LoadProgram \/ [Next]_commsVars
  <2>1. CASE HostStep
    BY <2>1 DEF HostStep, SendArgument, StartExecution, Executed, ReceiveReturn, RetrieveGlobal,
                EndExecution
  <2>2. CASE Network
    BY <2>2 DEF Network, Next
  <2>3. ASSUME NEW t \in TileIds, TileStep(t) PROVE [Next]_commsVars
    BY <2>3 DEF TileStep, CallFunction, TileSend, TileSending, TileReceiving, TileReturn,
                TileSent, Next
  <2>4. CASE UNCHANGED runVars
    BY <2>4 DEF runVars
  <2> QED BY <2>1, <2>2, <2>3, <2>4 DEF RunNext
<1>2. IInv /\ QuietOK
  BY DEF RunInv
<1> QED BY <1>1, <1>2, InvLoadProgram, InvNext DEF commsVars

LEMMA RunInvLoadProgram == RunInv /\ LoadProgram => RunInv'
<1> SUFFICES ASSUME RunInv, LoadProgram PROVE RunInv'
  OBVIOUS
<1>1. /\ hpc = "init" /\ hpc' = "send_argument" /\ actual' \in Message
      /\ argument' = [t \in TileIds |-> Empty] /\ tile' = [t \in TileIds |-> "loaded"]
      /\ dramGlobal' = 0 /\ UNCHANGED <<spc, rpc, sent, rcvd, layout, call>>
  BY DEF LoadProgram, receiverVars
<1>2. IInv' /\ CallOK /\ QuietOK /\ StuckNotWrong
  BY InvLoadProgram DEF RunInv
<1>3. CallOK'
  BY <1>1, <1>2 DEF CallOK
<1>4. QuietOK' /\ LoadedOK'
  BY <1>1, <1>2 DEF QuietOK, Between, LoadedOK
<1>5. MessagesOK'
  BY <1>1, <1>2, Base DEF QuietOK, Between, MessagesOK, SentNow, ReceivedNow
<1>6. TilesOK' /\ ReturnOK'
  BY <1>1 DEF TilesOK, ReturnOK
<1>7. StuckNotWrong'
  BY <1>1, <1>2 DEF StuckNotWrong, WellPlaced
<1> QED BY <1>2, <1>3, <1>4, <1>5, <1>6, <1>7 DEF RunInv

\* What a step of the host leaves alone.
LEMMA HostKeeps ==
  ASSUME RunInv, UNCHANGED <<commsVars, layout, call, actual>>
  PROVE  /\ MessagesOK' /\ SentNow' = SentNow /\ ReceivedNow' = ReceivedNow
         /\ UNCHANGED <<spc, rpc, sent, rcvd>> /\ WellPlaced' = WellPlaced
         /\ \A t, f : Listed(t, f)' = Listed(t, f)
<1>1. UNCHANGED <<spc, rpc, sent, rcvd>>
  BY DEF commsVars, vars, senderVars, receiverVars
<1>2. SentNow' = SentNow /\ ReceivedNow' = ReceivedNow /\ WellPlaced' = WellPlaced
      /\ \A t, f : Listed(t, f)' = Listed(t, f)
  BY <1>1 DEF SentNow, ReceivedNow, WellPlaced, Listed
<1>3. MessagesOK'
  BY <1>1, <1>2 DEF RunInv, MessagesOK
<1> QED BY <1>1, <1>2, <1>3

LEMMA RunInvSendArgument == RunInv /\ SendArgument => RunInv'
<1> SUFFICES ASSUME RunInv, SendArgument PROVE RunInv'
  OBVIOUS
<1>1. /\ hpc = "send_argument" /\ hpc' = "start"
      /\ argument' = [argument EXCEPT ![layout.sender] = actual]
      /\ UNCHANGED <<commsVars, layout, call, actual, tile, dramGlobal>>
  BY DEF SendArgument
<1>2. IInv' /\ CallOK /\ QuietOK /\ LoadedOK /\ StuckNotWrong
  BY CommsStep DEF RunInv, RunNext, HostStep
<1>3. CallOK'
  BY <1>1, <1>2 DEF CallOK
<1>4. QuietOK'
  BY <1>1, <1>2, HostKeeps DEF QuietOK, Between
<1>5. LoadedOK'
  BY <1>1, <1>2 DEF LoadedOK, CallOK
<1>6. TilesOK' /\ ReturnOK'
  BY <1>1 DEF TilesOK, ReturnOK
<1>7. StuckNotWrong'
  BY <1>1, <1>2, HostKeeps DEF StuckNotWrong
<1> QED BY <1>1, <1>2, <1>3, <1>4, <1>5, <1>6, <1>7, HostKeeps DEF RunInv

LEMMA RunInvStartExecution == RunInv /\ StartExecution => RunInv'
<1> SUFFICES ASSUME RunInv, StartExecution PROVE RunInv'
  OBVIOUS
<1>1. /\ hpc = "start" /\ hpc' = "executing"
      /\ UNCHANGED <<commsVars, layout, call, actual, argument, tile, dramGlobal>>
  BY DEF StartExecution
<1>2. IInv' /\ CallOK /\ LoadedOK /\ StuckNotWrong
  BY CommsStep DEF RunInv, RunNext, HostStep
<1>3. CallOK'
  BY <1>1, <1>2 DEF CallOK
<1>4. QuietOK' /\ LoadedOK' /\ ReturnOK'
  BY <1>1, <1>2 DEF QuietOK, Between, LoadedOK, ReturnOK
<1>5. TilesOK'
  BY <1>1, <1>2 DEF LoadedOK, TilesOK
<1>6. StuckNotWrong'
  BY <1>1, <1>2, HostKeeps DEF StuckNotWrong
<1> QED BY <1>1, <1>2, <1>3, <1>4, <1>5, <1>6, HostKeeps DEF RunInv

\* When all tiles are at the barrier, both functions have run to their end and
\* on the right tiles.
LEMMA RunInvExecuted == RunInv /\ Executed => RunInv'
<1> SUFFICES ASSUME RunInv, Executed PROVE RunInv'
  OBVIOUS
<1>1. /\ hpc = "executing" /\ hpc' = "receive_return" /\ \A t \in TileIds : tile[t] = "barrier"
      /\ UNCHANGED <<commsVars, layout, call, actual, argument, tile, dramReturn, dramGlobal>>
  BY DEF Executed
<1>2. IInv' /\ CallOK /\ LoadedOK /\ TilesOK
  BY CommsStep DEF RunInv, RunNext, HostStep
<1>3. CallOK'
  BY <1>1, <1>2 DEF CallOK
<1>4. QuietOK' /\ LoadedOK' /\ TilesOK'
  BY <1>1, <1>2 DEF QuietOK, Between, LoadedOK, TilesOK
<1>5. PICK s \in TileIds : Listed(s, "sender")
  BY <1>2, ListedSomewhere
<1>6. PICK r \in TileIds : Listed(r, "receiver")
  BY <1>2, ListedSomewhere
<1>7. /\ s = layout.sender /\ SentNow = Sends /\ spc = "idle"
      /\ r = layout.receiver /\ ReceivedNow = Sends
      /\ dramReturn = rcvd[Len(rcvd)] /\ dramGlobal = 1
  BY <1>1, <1>2, <1>5, <1>6 DEF TilesOK
<1>8. ReturnOK'
  BY <1>1, <1>7, HostKeeps DEF ReturnOK
<1>9. WellPlaced
  <2> SUFFICES ASSUME NEW n \in DOMAIN layout.list
               PROVE  n - 1 = IF layout.list[n] = "sender" THEN layout.sender ELSE layout.receiver
    BY DEF WellPlaced
  <2>1. /\ layout.list \in Seq({"sender", "receiver"}) /\ Len(layout.list) <= Tiles
    BY <1>2, LayoutsAssumption DEF CallOK
  <2>2. n - 1 \in TileIds /\ Listed(n - 1, layout.list[n]) /\ layout.list[n] \in {"sender", "receiver"}
    BY <2>1, TilesAssumption DEF TileIds, Listed
  <2> QED BY <1>2, <1>5, <1>6, <1>7, <2>2, ListedOnce
<1>10. StuckNotWrong'
  BY <1>1, <1>9, HostKeeps DEF StuckNotWrong
<1> QED BY <1>1, <1>2, <1>3, <1>4, <1>8, <1>10, HostKeeps DEF RunInv

LEMMA RunInvReceiveReturn == RunInv /\ (ReceiveReturn \/ RetrieveGlobal) => RunInv'
<1> SUFFICES ASSUME RunInv, ReceiveReturn \/ RetrieveGlobal PROVE RunInv'
  OBVIOUS
<1>1. /\ \/ hpc = "receive_return" /\ hpc' = "retrieve_global" /\ result' = dramReturn
         \/ hpc = "retrieve_global" /\ hpc' = "end" /\ global' = dramGlobal /\ result' = result
      /\ UNCHANGED <<commsVars, layout, call, actual, argument, tile, dramReturn, dramGlobal>>
  BY DEF ReceiveReturn, RetrieveGlobal
<1>2. IInv' /\ CallOK /\ LoadedOK /\ ReturnOK /\ StuckNotWrong
  BY CommsStep DEF RunInv, RunNext, HostStep
<1>3. CallOK'
  BY <1>1, <1>2 DEF CallOK
<1>4. QuietOK' /\ LoadedOK' /\ TilesOK'
  BY <1>1, <1>2 DEF QuietOK, Between, LoadedOK, TilesOK
<1>5. ReturnOK'
  BY <1>1, <1>2, HostKeeps DEF ReturnOK
<1>6. StuckNotWrong'
  BY <1>1, <1>2, HostKeeps DEF StuckNotWrong
<1> QED BY <1>1, <1>2, <1>3, <1>4, <1>5, <1>6, HostKeeps DEF RunInv

LEMMA RunInvEndExecution == RunInv /\ EndExecution => RunInv'
<1> SUFFICES ASSUME RunInv, EndExecution PROVE RunInv'
  OBVIOUS
<1>1. /\ hpc = "end" /\ hpc' \in {"init", "finished"} /\ call' = call + 1
      /\ UNCHANGED <<spc, rpc, sent, rcvd, layout, actual, argument, tile, dramGlobal>>
  BY DEF EndExecution, commsVars, vars, senderVars, receiverVars
<1>2. IInv' /\ IInv /\ CallOK /\ LoadedOK /\ ReturnOK /\ StuckNotWrong
  BY CommsStep DEF RunInv, RunNext, HostStep
<1>3. /\ Len(sent) = (call + 1) * Sends /\ Len(rcvd) = (call + 1) * Sends /\ spc = "idle"
      /\ (call + 1) * Sends \in Nat
  <2> DEFINE before == call * Sends
             after  == (call + 1) * Sends
  <2>1. before \in Nat /\ Sends \in Nat /\ after = before + Sends
    BY <1>2, Base
  <2>2. /\ Len(sent) - before = Sends /\ Len(rcvd) - before = Sends /\ spc = "idle"
        /\ Len(sent) \in Nat /\ Len(rcvd) \in Nat
    BY <1>1, <1>2, Counts DEF ReturnOK, SentNow, ReceivedNow
  <2> HIDE DEF before, after
  <2>3. Len(sent) = after /\ Len(rcvd) = after /\ after \in Nat
    BY <2>1, <2>2
  <2> QED BY <2>2, <2>3 DEF after
<1>4. rpc = "wait"
  <2>1. Assembled = Len(sent)
    BY <1>3 DEF Assembled
  <2>2. Published <= Len(rcvd)
    BY <1>3, <2>1 DEF Published
  <2>3. ~FlagUp
    BY <1>3, <2>1, <2>2 DEF FlagUp, Published
  <2> QED BY <1>2, <2>3 DEF IInv, FlagDown
<1>5. CallOK' /\ QuietOK'
  BY <1>1, <1>2, <1>3, <1>4 DEF CallOK, QuietOK
<1>6. LoadedOK' /\ TilesOK' /\ ReturnOK'
  BY <1>1, <1>2 DEF LoadedOK, TilesOK, ReturnOK
<1>7. MessagesOK'
  BY <1>1, <1>3, CallsAssumption DEF MessagesOK, SentNow, ReceivedNow
<1>8. StuckNotWrong'
  BY <1>1, <1>2 DEF StuckNotWrong, WellPlaced
<1> QED BY <1>2, <1>5, <1>6, <1>7, <1>8 DEF RunInv

------------------------------------------------------------------------------
\* A step of the tiles or of the network, in which the host stays where it is.
LEMMA HostStays ==
  ASSUME RunInv, UNCHANGED <<layout, hpc, call, actual, argument, result, global>>
  PROVE  /\ StuckNotWrong' /\ \A t, f : Listed(t, f)' = Listed(t, f)
         /\ hpc = "executing" => QuietOK' /\ ReturnOK'
         /\ tile' = tile => CallOK'
         /\ tile' = tile /\ dramGlobal' = dramGlobal => LoadedOK'
<1>1. StuckNotWrong' /\ \A t, f : Listed(t, f)' = Listed(t, f)
  BY DEF RunInv, StuckNotWrong, WellPlaced, Listed
<1>2. hpc = "executing" => QuietOK' /\ ReturnOK'
  BY DEF QuietOK, Between, ReturnOK
<1>3. tile' = tile => CallOK'
  BY DEF RunInv, CallOK
<1>4. tile' = tile /\ dramGlobal' = dramGlobal => LoadedOK'
  BY DEF RunInv, LoadedOK
<1> QED BY <1>1, <1>2, <1>3, <1>4

\* A tile that runs a function does so while the host waits, and the function is
\* the one with its rank.
LEMMA Running ==
  ASSUME RunInv, NEW t \in TileIds, NEW f, Runs(t, f)
  PROVE  tile[t] = "function" /\ hpc = "executing" /\ Listed(t, f)
BY DEF Runs, Listed, RunInv, CallOK

\* A tile goes on to its function or to the barrier while the host waits.
LEMMA TileMoves ==
  ASSUME RunInv, NEW t \in TileIds, NEW place \in {"function", "barrier"}, hpc = "executing",
         UNCHANGED <<layout, hpc, call, actual, argument, result, global>>,
         tile' = [tile EXCEPT ![t] = place],
         place = "function" => t + 1 \in DOMAIN layout.list
  PROVE  CallOK' /\ LoadedOK'
<1>1. CallOK /\ LoadedOK
  BY DEF RunInv
<1> QED BY <1>1 DEF CallOK, LoadedOK

LEMMA RunInvNetwork == RunInv /\ Network => RunInv'
<1> SUFFICES ASSUME RunInv, Network PROVE RunInv'
  OBVIOUS
<1>1. UNCHANGED <<spc, rpc, sent, rcvd, layout, hpc, call, actual, argument, tile, dramReturn,
                  dramGlobal, global, result>>
  BY DEF Network, NetStep, DeliverStore, DeliverLoad, senderVars, receiverVars, callVars
<1>2. IInv'
  BY CommsStep DEF RunNext
<1>3. SentNow' = SentNow /\ ReceivedNow' = ReceivedNow
  BY <1>1 DEF SentNow, ReceivedNow
<1>4. CallOK' /\ LoadedOK' /\ StuckNotWrong' /\ \A t, f : Listed(t, f)' = Listed(t, f)
  BY <1>1, HostStays
<1>5. QuietOK'
  BY <1>1 DEF RunInv, QuietOK, Between
<1>6. MessagesOK'
  BY <1>1, <1>3, <1>4 DEF RunInv, MessagesOK
<1>7. TilesOK'
  BY <1>1, <1>3, <1>4 DEF RunInv, TilesOK
<1>8. ReturnOK'
  BY <1>1, <1>3 DEF RunInv, ReturnOK
<1> QED BY <1>2, <1>4, <1>5, <1>6, <1>7, <1>8 DEF RunInv

LEMMA RunInvCallFunction ==
  ASSUME RunInv, NEW t \in TileIds, CallFunction(t)
  PROVE  RunInv'
<1>1. /\ hpc = "executing" /\ tile[t] = "loaded"
      /\ tile' = [tile EXCEPT ![t] = IF t < Len(layout.list) THEN "function" ELSE "barrier"]
      /\ UNCHANGED <<commsVars, layout, hpc, call, actual, argument, dramReturn, dramGlobal, global,
                     result>>
  BY DEF CallFunction
<1>2. IInv' /\ CallOK /\ TilesOK
  BY CommsStep DEF RunInv, RunNext, TileStep
<1>3. t < Len(layout.list) <=> t + 1 \in DOMAIN layout.list
  BY <1>2, RunsListed
<1>4. CallOK' /\ LoadedOK'
  BY <1>1, <1>3, TileMoves
<1>5. MessagesOK' /\ SentNow' = SentNow /\ ReceivedNow' = ReceivedNow
      /\ UNCHANGED <<spc, rpc, sent, rcvd>>
  BY <1>1, HostKeeps
<1>6. StuckNotWrong' /\ QuietOK' /\ ReturnOK' /\ \A s, f : Listed(s, f)' = Listed(s, f)
  BY <1>1, HostStays
<1>7. TilesOK'
  <2> SUFFICES ASSUME NEW s \in TileIds,
                          s = t => \/ ~Listed(s, "sender") /\ ~Listed(s, "receiver")
                                   \/ tile'[s] = "function"
               PROVE  /\ Listed(s, "sender") /\ tile'[s] = "barrier" =>
                           s = layout.sender /\ SentNow = Sends /\ spc = "idle"
                      /\ Listed(s, "receiver") /\ tile'[s] = "barrier" =>
                           /\ s = layout.receiver /\ ReceivedNow = Sends
                           /\ dramReturn = rcvd[Len(rcvd)] /\ dramGlobal = 1
                      /\ Listed(s, "receiver") /\ tile'[s] # "barrier" => dramGlobal = 0
    BY <1>1, <1>2, <1>3, <1>5, <1>6 DEF TilesOK, Listed, CallOK
  <2>1. tile[s] # "barrier" <=> tile'[s] # "barrier" \/ s = t
    BY <1>1, <1>2 DEF CallOK
  <2> QED BY <1>1, <1>2, <2>1 DEF TilesOK
<1> QED BY <1>2, <1>4, <1>5, <1>6, <1>7 DEF RunInv

\* The sender: its tile has the argument only if it is the one of the partition.
LEMMA RunInvTileSend ==
  ASSUME RunInv, NEW t \in TileIds, TileSend(t)
  PROVE  RunInv'
<1>1. /\ hpc = "executing" /\ Listed(t, "sender") /\ tile[t] = "function"
  BY Running DEF TileSend
<1>2. /\ argument[t] # Empty /\ SentNow < Sends
      /\ SentNow = 0 => sent'[Len(sent')] = argument[t]
      /\ UNCHANGED <<rpc, rcvd>>
      /\ UNCHANGED <<layout, hpc, call, actual, argument, tile, dramReturn, dramGlobal, global, result>>
  BY DEF TileSend, SendCall, receiverVars, callVars
<1>3. PICK m \in Message : sent' = Append(sent, m)
  BY DEF TileSend, SendCall
<1>4. IInv' /\ IInv /\ CallOK /\ TilesOK /\ MessagesOK /\ LoadedOK
  BY CommsStep DEF RunInv, RunNext, TileStep
<1>5. CallOK' /\ LoadedOK' /\ StuckNotWrong' /\ QuietOK' /\ ReturnOK'
      /\ \A s, f : Listed(s, f)' = Listed(s, f)
  BY <1>1, <1>2, HostStays
<1>6. t = layout.sender /\ argument[t] = actual
  BY <1>1, <1>2, <1>4 DEF LoadedOK
<1>7. /\ sent \in Seq(Message) /\ Len(sent') = Len(sent) + 1
      /\ \A i \in 1 .. Len(sent) : sent'[i] = sent[i]
      /\ Len(sent) \in Nat /\ Len(rcvd) \in Nat
  BY <1>3, <1>4, Counts DEF IInv, TypeOK
<1>8. SentNow' = SentNow + 1 /\ ReceivedNow' = ReceivedNow /\ SentNow \in Nat
  BY <1>2, <1>4, <1>7, Base DEF SentNow, ReceivedNow, MessagesOK
<1>9. MessagesOK'
  <2>1. sent'[call * Sends + 1] = actual
    <3>1. CASE SentNow = 0
      BY <1>2, <1>4, <1>6, <1>7, <3>1, Base DEF SentNow
    <3>2. CASE SentNow > 0
      BY <1>4, <1>7, <3>2, Base DEF SentNow, MessagesOK
    <3> QED BY <1>8, <3>1, <3>2
  <2>2. /\ call * Sends <= Len(rcvd) /\ Len(rcvd) <= Len(sent')
        /\ Len(sent') <= call * Sends + Sends
    BY <1>2, <1>4, <1>7, Base DEF SentNow, MessagesOK
  <2> QED BY <1>1, <1>2, <1>4, <1>5, <1>6, <1>8, <2>1, <2>2 DEF MessagesOK
<1>10. TilesOK'
  <2>1. \A s \in TileIds : Listed(s, "sender") => s = t
    BY <1>1, <1>4, ListedOnce
  <2> QED BY <1>1, <1>2, <1>4, <1>5, <1>8, <2>1 DEF TilesOK
<1> QED BY <1>4, <1>5, <1>9, <1>10 DEF RunInv

LEMMA RunInvTileSending ==
  ASSUME RunInv, NEW t \in TileIds, TileSending(t)
  PROVE  RunInv'
<1>1. /\ hpc = "executing" /\ Listed(t, "sender") /\ tile[t] = "function"
  BY Running DEF TileSending
<1>2. /\ UNCHANGED <<rpc, sent, rcvd>>
      /\ UNCHANGED <<layout, hpc, call, actual, argument, tile, dramReturn, dramGlobal, global, result>>
  BY DEF TileSending, SenderStep, Poll, TakeReply, PollAgain, Assemble, Copy, receiverVars, callVars
<1>3. IInv' /\ CallOK /\ TilesOK /\ MessagesOK
  BY CommsStep DEF RunInv, RunNext, TileStep
<1>4. CallOK' /\ LoadedOK' /\ StuckNotWrong' /\ QuietOK' /\ ReturnOK'
      /\ \A s, f : Listed(s, f)' = Listed(s, f)
  BY <1>1, <1>2, HostStays
<1>5. SentNow' = SentNow /\ ReceivedNow' = ReceivedNow
  BY <1>2 DEF SentNow, ReceivedNow
<1>6. MessagesOK'
  BY <1>2, <1>3, <1>4, <1>5 DEF MessagesOK
<1>7. TilesOK'
  <2>1. \A s \in TileIds : Listed(s, "sender") => s = t
    BY <1>1, <1>3, ListedOnce
  <2> QED BY <1>1, <1>2, <1>3, <1>4, <1>5, <2>1 DEF TilesOK
<1> QED BY <1>3, <1>4, <1>6, <1>7 DEF RunInv

\* The receiver waits at the copy of its own tile.
LEMMA RunInvTileReceiving ==
  ASSUME RunInv, NEW t \in TileIds, TileReceiving(t)
  PROVE  RunInv'
<1>1. /\ hpc = "executing" /\ Listed(t, "receiver") /\ tile[t] = "function" /\ t = layout.receiver
  BY Running DEF TileReceiving
<1>2. /\ ReceivedNow < Sends /\ UNCHANGED <<spc, sent>>
      /\ UNCHANGED <<layout, hpc, call, actual, argument, tile, dramReturn, dramGlobal, global, result>>
      /\ rcvd' = rcvd \/ (rcvd' = Append(rcvd, val) /\ rpc = "load")
  <2>1. ReceivedNow < Sends /\ ReceiverStep /\ UNCHANGED callVars
    BY DEF TileReceiving
  <2>2. UNCHANGED <<spc, sent>> /\ (rcvd' = rcvd \/ (rcvd' = Append(rcvd, val) /\ rpc = "load"))
    BY <2>1 DEF ReceiverStep, RecvWait, RecvLoad, FreeComms, senderVars
  <2> QED BY <2>1, <2>2 DEF callVars
<1>3. IInv' /\ IInv /\ CallOK /\ TilesOK /\ MessagesOK
  BY CommsStep DEF RunInv, RunNext, TileStep
<1>4. CallOK' /\ LoadedOK' /\ StuckNotWrong' /\ QuietOK' /\ ReturnOK'
      /\ \A s, f : Listed(s, f)' = Listed(s, f)
  BY <1>1, <1>2, HostStays
<1>5. /\ Len(rcvd') \in {Len(rcvd), Len(rcvd) + 1} /\ Len(rcvd) \in Nat
      /\ Len(rcvd') <= Len(sent') /\ Len(sent') = Len(sent)
  <2>1. rcvd \in Seq(Message) /\ val \in Message
    BY <1>3 DEF IInv, TypeOK
  <2>2. Len(rcvd) <= Len(sent) /\ (rpc = "load" => Len(rcvd) + 1 <= Len(sent))
    BY <1>3, Counts DEF IInv, FlagDown, FlagUp, Published
  <2>3. Len(rcvd) \in Nat /\ Len(Append(rcvd, val)) = Len(rcvd) + 1
    BY <2>1
  <2>4. rcvd' = rcvd \/ (Len(rcvd') = Len(rcvd) + 1 /\ rpc = "load")
    BY <1>2, <2>3
  <2>5. Len(sent') = Len(sent)
    BY <1>2
  <2> QED BY <2>2, <2>3, <2>4, <2>5
<1>6. SentNow' = SentNow
  BY <1>2 DEF SentNow
<1>7. MessagesOK'
  <2>1. call * Sends <= Len(rcvd')
    BY <1>3, <1>5, Base DEF MessagesOK
  <2> QED BY <1>1, <1>2, <1>3, <1>4, <1>5, <1>6, <2>1 DEF MessagesOK
<1>8. TilesOK'
  <2>1. \A s \in TileIds : Listed(s, "receiver") => s = t
    BY <1>1, <1>3, ListedOnce
  <2> QED BY <1>1, <1>2, <1>3, <1>4, <1>6, <2>1 DEF TilesOK
<1> QED BY <1>3, <1>4, <1>7, <1>8 DEF RunInv

\* A function ends on the right tile only: elsewhere it has sent or received
\* nothing, and there is at least one message.
LEMMA RunInvTileEnds ==
  ASSUME RunInv, NEW t \in TileIds, TileReturn(t) \/ TileSent(t)
  PROVE  RunInv'
<1>1. /\ hpc = "executing" /\ tile[t] = "function" /\ tile' = [tile EXCEPT ![t] = "barrier"]
      /\ UNCHANGED <<commsVars, layout, hpc, call, actual, argument, global, result>>
  BY Running DEF TileReturn, TileSent
<1>2. IInv' /\ CallOK /\ TilesOK /\ MessagesOK
  BY CommsStep DEF RunInv, RunNext, TileStep
<1>3. CallOK' /\ LoadedOK'
  BY <1>1, TileMoves
<1>4. MessagesOK' /\ SentNow' = SentNow /\ ReceivedNow' = ReceivedNow
      /\ UNCHANGED <<spc, rpc, sent, rcvd>>
  BY <1>1, HostKeeps
<1>5. StuckNotWrong' /\ QuietOK' /\ ReturnOK' /\ \A s, f : Listed(s, f)' = Listed(s, f)
  BY <1>1, HostStays
<1>6. \A s \in TileIds : tile'[s] = IF s = t THEN "barrier" ELSE tile[s]
  BY <1>1, <1>2 DEF CallOK
<1>7. Sends > 0
  BY CallsAssumption
<1>8. CASE TileReturn(t)
  <2>1. /\ Listed(t, "receiver") /\ ReceivedNow = Sends
        /\ dramReturn' = rcvd[Len(rcvd)] /\ dramGlobal' = dramGlobal + 1
    BY <1>8, Running DEF TileReturn
  <2>2. t = layout.receiver /\ dramGlobal = 0
    <3>1. Listed(layout.receiver, "receiver") /\ layout.receiver \in TileIds
      BY <1>2, <1>7, <2>1, LayoutsAssumption DEF MessagesOK, CallOK
    <3>2. t = layout.receiver
      BY <1>2, <2>1, <3>1, ListedOnce
    <3> QED BY <1>1, <1>2, <2>1, <3>2 DEF TilesOK
  <2>3. \A s \in TileIds : Listed(s, "receiver") => s = t
    BY <1>2, <2>1, ListedOnce
  <2>4. ~Listed(t, "sender")
    BY <2>1 DEF Listed
  <2> QED BY <1>1, <1>2, <1>3, <1>4, <1>5, <1>6, <2>1, <2>2, <2>3, <2>4 DEF TilesOK, RunInv
<1>9. CASE TileSent(t)
  <2>1. /\ Listed(t, "sender") /\ SentNow = Sends /\ spc = "idle"
        /\ UNCHANGED <<dramReturn, dramGlobal>>
    BY <1>9, Running DEF TileSent
  <2>2. Listed(layout.sender, "sender") /\ layout.sender \in TileIds
    BY <1>2, <1>7, <2>1, LayoutsAssumption DEF MessagesOK, CallOK
  <2>3. t = layout.sender /\ ~Listed(t, "receiver")
    BY <1>2, <2>1, <2>2, ListedOnce DEF Listed
  <2>4. \A s \in TileIds : Listed(s, "sender") => s = t
    BY <1>2, <2>1, ListedOnce
  <2> QED BY <1>1, <1>2, <1>3, <1>4, <1>5, <1>6, <2>1, <2>3, <2>4 DEF TilesOK, RunInv
<1> QED BY <1>8, <1>9

LEMMA RunInvNext == RunInv /\ [RunNext]_runVars => RunInv'
<1> SUFFICES ASSUME RunInv, [RunNext]_runVars PROVE RunInv'
  OBVIOUS
<1>1. CASE HostStep
  BY <1>1, RunInvLoadProgram, RunInvSendArgument, RunInvStartExecution, RunInvExecuted,
     RunInvReceiveReturn, RunInvEndExecution DEF HostStep
<1>2. CASE Network
  BY <1>2, RunInvNetwork
<1>3. ASSUME NEW t \in TileIds, TileStep(t) PROVE RunInv'
  BY <1>3, RunInvCallFunction, RunInvTileSend, RunInvTileSending, RunInvTileReceiving,
     RunInvTileEnds DEF TileStep
<1>4. CASE UNCHANGED runVars
  <2>1. UNCHANGED <<spc, rpc, sent, rcvd, layout, hpc, call, actual, argument, tile, dramReturn,
                    dramGlobal, global, result>>
    BY <1>4 DEF runVars, commsVars, vars, senderVars, receiverVars, callVars
  <2>2. IInv'
    BY CommsStep
  <2>3. SentNow' = SentNow /\ ReceivedNow' = ReceivedNow
    BY <2>1 DEF SentNow, ReceivedNow
  <2>4. CallOK' /\ LoadedOK' /\ StuckNotWrong' /\ \A t, f : Listed(t, f)' = Listed(t, f)
    BY <2>1, HostStays
  <2>5. QuietOK' /\ ReturnOK'
    BY <2>1, <2>3 DEF RunInv, QuietOK, Between, ReturnOK
  <2>6. MessagesOK' /\ TilesOK'
    BY <2>1, <2>3, <2>4 DEF RunInv, MessagesOK, TilesOK
  <2> QED BY <2>2, <2>4, <2>5, <2>6 DEF RunInv
<1> QED BY <1>1, <1>2, <1>3, <1>4 DEF RunNext

------------------------------------------------------------------------------
\* The invariant of the calls.
THEOREM RunInvariance == RunSafety => []RunInv
BY RunInvInit, RunInvNext, PTL DEF RunSafety

\* In all calls together, each with its program loaded anew, the receiver gets
\* what was sent, in order.
THEOREM RunDelivery == RunSafety => []Delivered
<1>1. RunInv => Delivered
  BY Counts DEF RunInv, IInv, Delivered, MessagesOK
<1> QED BY <1>1, RunInvariance, PTL

\* A call returns the value of its own messages, although no flag guards it.
THEOREM RunReturning == RunSafety => []Returned
<1>1. ASSUME RunInv PROVE Returned
  <2>1. CASE hpc \in {"retrieve_global", "end"}
    <3>1. /\ SentNow = Sends /\ ReceivedNow = Sends
          /\ dramReturn = rcvd[Len(rcvd)] /\ result = dramReturn
      BY <1>1, <2>1 DEF RunInv, ReturnOK
    <3> DEFINE before == call * Sends
    <3>2. before \in Nat /\ Sends > 0 /\ Sends \in Nat /\ (call + 1) * Sends = before + Sends
      BY <1>1, Base DEF RunInv
    <3>3. Len(sent) \in Nat /\ Len(rcvd) \in Nat
      BY <1>1, Counts DEF RunInv
    <3>4. Len(sent) - before = Sends /\ Len(rcvd) - before = Sends
      BY <3>1 DEF SentNow, ReceivedNow
    <3>5. sent[before + 1] = actual
      BY <1>1, <3>1, <3>2 DEF RunInv, MessagesOK
    <3> HIDE DEF before
    <3>6. Len(sent) = (call + 1) * Sends /\ Len(rcvd) = Len(sent) /\ Len(sent) > 0
      BY <3>2, <3>3, <3>4
    <3>7. rcvd[Len(rcvd)] = sent[Len(sent)]
      BY <1>1, <3>3, <3>6 DEF RunInv, IInv, TypeOK
    <3> QED BY <3>1, <3>5, <3>6, <3>7 DEF Returned, before
  <2> QED BY <2>1 DEF Returned
<1> QED BY <1>1, RunInvariance, PTL

\* With a misplaced function, on any number of tiles, no call returns.
THEOREM Misplaced == RunSafety => []StuckNotWrong
<1>1. RunInv => StuckNotWrong
  BY DEF RunInv
<1> QED BY <1>1, RunInvariance, PTL

\* Neither the next message nor the loading of the program changes a value whose
\* flag is up.
THEOREM RunOverwriting == RunSafety => NoOverwrite
<1>1. ASSUME RunInv, [RunNext]_runVars, remote[Flag] = 1
      PROVE  \A c \in Data : remote'[c] = remote[c]
  <2>1. CASE LoadProgram
    <3>1. spc = "idle" /\ rpc = "wait" /\ Len(sent) = Len(rcvd) /\ IInv
      BY <1>1, <2>1 DEF LoadProgram, RunInv, QuietOK, Between
    <3> QED BY <1>1, <3>1, Idle
  <2>2. CASE [Next]_commsVars
    BY <1>1, <2>2, KeptWhileUp DEF commsVars, RunInv
  <2> QED BY <1>1, <2>1, <2>2, CommsStep
<1>2. RunInv /\ [RunNext]_runVars =>
        [remote[Flag] = 1 => \A c \in Data : remote'[c] = remote[c]]_vars
  BY <1>1
<1> QED BY <1>2, RunInvariance, PTL DEF RunSafety, NoOverwrite

\* All calls together implement one slot: loading the program anew is no step of
\* it.
THEOREM RunRefinement == RunSafety => ImplementsSlotSafety
<1>1. RunInit => Slot!Init
  BY SlotInit DEF RunInit
<1>2. ASSUME RunInv, RunInv', [RunNext]_runVars
      PROVE  [Slot!Next]_(Slot!slotVars)
  <2>1. CASE LoadProgram
    <3>1. /\ spc = "idle" /\ rpc = "wait" /\ Len(sent) = Len(rcvd) /\ IInv
          /\ remote'[Flag] = 0 /\ UNCHANGED <<net, reply, spc, si, sent, rcvd>>
      BY <1>2, <2>1, Layout DEF LoadProgram, RunInv, QuietOK, Between, receiverVars
    <3>2. Published' = Published
      BY <3>1 DEF Published, Arrived, Issued, Pending, Loading, Assembled
    <3>3. slotBar' = slotBar /\ putBar' = putBar /\ rcvd' = rcvd
      BY <3>1, <3>2, Idle DEF slotBar, putBar
    <3> QED BY <3>3 DEF Slot!slotVars
  <2>2. CASE [Next]_commsVars
    BY <1>2, <2>2, StepRefines DEF commsVars, RunInv
  <2> QED BY <1>2, <2>1, <2>2, CommsStep
<1> QED BY <1>1, <1>2, RunInvariance, PTL DEF RunSafety, ImplementsSlotSafety, Slot!Safety
==============================================================================
