------------------------- MODULE PartitionedRunProofs -------------------------
(***************************************************************************)
(* Proofs about PartitionedRun, for every number of partitions, addresses  *)
(* and calls: on a well-formed schedule every read returns the value it    *)
(* was paired with and the threads never all wait for each other.          *)
(***************************************************************************)
EXTENDS PartitionedRun, WellFoundedInduction, TLAPS

\* A thread runs only after its creation.
Started == \A k \in done : ev[k].thread # Host =>
             \E s \in done : SpawnOf(s, ev[k].thread, k)

\* A value read has been sent.
GotDone == \A k \in done : ev[k].op \in {"receive", "peek"} => got[k] \in done

\* An address holds exactly the value sent to it and not yet received.
SlotOK ==
  \A a \in Addr :
    /\ \A s \in Sends(a) \cap done :
         (\A r \in Receives(a) \cap done : ~(s < r)) => slot[a] = s
    /\ slot[a] # 0 => /\ slot[a] \in Sends(a) \cap done
                      /\ \A r \in Receives(a) \cap done : ~(slot[a] < r)

\* An address was received from before it was filled again.
Alternates ==
  \A a \in Addr : \A j \in Sends(a), k \in Sends(a) \cap done :
    j < k => \E r \in Receives(a) \cap done : j < r /\ r < k

\* The inductive invariant.
IInv == /\ WellFormed
        /\ TypeOK
        /\ ThreadOrder
        /\ Started
        /\ JoinComplete
        /\ GotDone
        /\ Matched
        /\ SlotOK
        /\ Alternates

------------------------------------------------------------------------------
LEMMA Positions ==
  ASSUME WellFormed
  PROVE  /\ Events \subseteq Nat
         /\ \A k \in Events : k > 0
         /\ \A k \in Events : ev[k].op \in {"send", "receive", "peek", "spawn", "join"}
         /\ \A k \in Events : ev[k].op \in {"send", "receive", "peek"} => ev[k].at \in Addr
         /\ \A k \in Events : ev[k].op \in {"spawn", "join"} => /\ ev[k].thread = Host
                                                               /\ ev[k].at \in Cores
         /\ Spawns(Host) = {}
         /\ \A k \in Events : ev[k] \in Event
<1>1. ev \in Seq(Event)
  BY DEF WellFormed
<1>2. Events \subseteq Nat /\ \A k \in Events : k > 0
  BY <1>1 DEF Events
<1>3. \A k \in Events : ev[k] \in Event
  BY <1>1 DEF Events
<1>4. \A k \in Events : ev[k].op \in {"send", "receive", "peek", "spawn", "join"}
  BY <1>3 DEF Event
<1>5. \A k \in Events : ev[k].op \in {"spawn", "join"} => /\ ev[k].thread = Host
                                                         /\ ev[k].at \in Cores
  BY DEF WellFormed, ThreadsNested
<1>6. Spawns(Host) = {}
  BY <1>5, HostAssumption DEF Spawns
<1> QED BY <1>2, <1>3, <1>4, <1>5, <1>6 DEF WellFormed

\* The thread about to execute k has executed all its calls before k, those of
\* earlier calls of the partitioned function too: the join came in between.
LEMMA AllBefore ==
  ASSUME IInv, NEW k \in Events, Reached(k),
         NEW j \in Events, j < k, ev[j].thread = ev[k].thread
  PROVE  j \in done
<1> DEFINE t == ev[k].thread
<1>1. WellFormed /\ ThreadOrder /\ JoinComplete
  BY DEF IInv
<1>2. \A i \in Events : i \in Nat
  BY <1>1, Positions
<1>3. CASE \A s \in Spawns(t) : ~(j < s /\ s < k)
  BY <1>3 DEF Reached
<1>4. CASE \E s \in Spawns(t) : j < s /\ s < k
  <2>1. PICK r \in Spawns(t) : j < r /\ r < k
    BY <1>4
  <2>2. t # Host
    BY <1>1, <2>1, Positions
  <2>3. PICK s \in done : SpawnOf(s, t, k)
    BY <2>2 DEF Reached
  <2>4. s \in Spawns(t) /\ s \in Events /\ r \in Events /\ j < s
    BY <1>2, <2>1, <2>3 DEF SpawnOf, Spawns
  <2>5. PICK i \in Events : j < i /\ i < s /\ ev[i].op = "join" /\ ev[i].at = t
    BY <1>1, <2>4 DEF WellFormed, ThreadsNested
  <2>6. ev[i].thread = Host /\ ev[s].thread = Host
    BY <1>1, <2>4, <2>5, Positions DEF Spawns
  <2>7. i \in done
    BY <1>1, <2>3, <2>5, <2>6 DEF ThreadOrder
  <2> QED BY <1>1, <2>5, <2>7 DEF JoinComplete
<1> QED BY <1>3, <1>4

\* No value sent later than k at k's address, by the thread of k, is read yet
\* when k is about to be sent.
LEMMA NothingReadAhead ==
  ASSUME IInv, NEW k \in Events, k \notin done, ev[k].op = "send",
         NEW r \in done, r \in Reads(ev[k].at)
  PROVE  r < k
<1> DEFINE a == ev[k].at
<1>1. WellFormed /\ ThreadOrder /\ GotDone /\ Matched /\ done \subseteq Events
  BY DEF IInv, TypeOK
<1>2. \A i \in Events : i \in Nat
  BY <1>1, Positions
<1>3. r \in Events /\ ev[r].at = a /\ ev[r].op \in {"receive", "peek"}
  BY DEF Reads
<1>4. Source(got[r], r) /\ got[r] \in done
  BY <1>1, <1>3 DEF Matched, GotDone
<1>5. k \in Sends(a) /\ got[r] \in Sends(a) /\ got[r] \in Events /\ a \in Addr
  BY <1>1, <1>3, <1>4, Positions DEF Source, Sends
<1>6. SUFFICES ASSUME ~(r < k) PROVE FALSE
  OBVIOUS
<1>7. k < r
  BY <1>2, <1>3, <1>6
<1>8. k <= got[r]
  BY <1>2, <1>3, <1>4, <1>5, <1>7 DEF Source
<1>9. k < got[r]
  BY <1>2, <1>4, <1>5, <1>8
<1>10. ev[k].thread = ev[got[r]].thread
  BY <1>1, <1>5 DEF WellFormed, OneToOne
<1> QED BY <1>1, <1>4, <1>9, <1>10 DEF ThreadOrder

\* The value an address holds when k reads it is the one k was paired with.
LEMMA ReadsSource ==
  ASSUME IInv, NEW k \in Events, k \notin done, Reached(k),
         ev[k].op \in {"receive", "peek"}, slot[ev[k].at] # 0
  PROVE  Source(slot[ev[k].at], k) /\ slot[ev[k].at] \in done
<1> DEFINE a == ev[k].at
           v == slot[a]
<1>1. /\ WellFormed /\ ThreadOrder /\ SlotOK /\ Alternates /\ done \subseteq Events
  BY DEF IInv, TypeOK
<1>2. \A i \in Events : i \in Nat
  BY <1>1, Positions
<1>3. a \in Addr /\ k \in Reads(a)
  BY <1>1, Positions DEF Reads
<1>4. v \in Sends(a) /\ v \in done /\ v \in Events
      /\ \A r \in Receives(a) \cap done : ~(v < r)
  BY <1>1, <1>3 DEF SlotOK
<1>5. PICK s \in Events : Source(s, k) /\ \A r \in Receives(a) : ~(s < r /\ r < k)
  BY <1>1, <1>3 DEF WellFormed, Fed
<1>6. s \in Sends(a) /\ s < k
  BY <1>5 DEF Source
<1>7. \A r \in Receives(a) : r \in Events /\ r \in Reads(a)
  BY DEF Receives, Reads
<1>8. \A r \in Receives(a) : ev[r].thread = ev[k].thread
  BY <1>1, <1>3, <1>7 DEF WellFormed, OneToOne
<1>9. ~(v < s)
  <2> SUFFICES ASSUME v < s PROVE FALSE
    OBVIOUS
  <2>1. PICK r \in Receives(a) : v < r /\ r < s
    BY <1>1, <1>3, <1>4, <1>6 DEF WellFormed, Freed
  <2>2. r < k
    BY <1>2, <1>5, <1>6, <1>7, <2>1
  <2>3. r \in done
    BY <1>7, <1>8, <2>2, AllBefore
  <2> QED BY <1>4, <2>1, <2>3
<1>10. ~(s < v)
  <2> SUFFICES ASSUME s < v PROVE FALSE
    OBVIOUS
  <2>1. PICK r \in Receives(a) \cap done : s < r /\ r < v
    BY <1>1, <1>3, <1>4, <1>6 DEF Alternates
  <2>2. k < r
    <3>1. ~(r < k)
      BY <1>5, <2>1
    <3> QED BY <1>2, <1>7, <2>1, <3>1
  <2>3. k \in done
    BY <1>1, <1>8, <2>1, <2>2 DEF ThreadOrder
  <2> QED BY <2>3
<1>11. v = s
  BY <1>2, <1>4, <1>5, <1>9, <1>10
<1> QED BY <1>4, <1>5, <1>11
------------------------------------------------------------------------------
\* The schedule does not change, so nothing that only depends on it does.
LEMMA ScheduleKept ==
  ASSUME ev' = ev
  PROVE  /\ Events' = Events
         /\ WellFormed' = WellFormed
         /\ \A a : (Sends(a))' = Sends(a)
         /\ \A a : (Receives(a))' = Receives(a)
         /\ \A a : (Reads(a))' = Reads(a)
         /\ \A t : (Spawns(t))' = Spawns(t)
         /\ \A s, k : (Source(s, k))' = Source(s, k)
         /\ \A s, t, k : (SpawnOf(s, t, k))' = SpawnOf(s, t, k)
<1> USE DEF Events, Sends, Receives, Reads, Spawns, Source, SpawnOf
<1>1. WellFormed' = WellFormed
  BY DEF WellFormed, ThreadsNested, OneToOne, Freed, Fed
<1> QED BY <1>1

\* What executing k changes whatever k does.
LEMMA ThreadsStep ==
  ASSUME IInv, NEW k \in Events, Exec(k)
  PROVE  /\ k \notin done /\ Reached(k) /\ done' = done \cup {k} /\ ev' = ev
         /\ WellFormed' /\ ThreadOrder' /\ Started' /\ JoinComplete'
<1>1. k \notin done /\ Reached(k) /\ done' = done \cup {k} /\ ev' = ev
  BY DEF Exec
<1>2. WellFormed /\ WellFormed' /\ done \subseteq Events
  BY <1>1, ScheduleKept DEF IInv, TypeOK
<1>3. Events' = Events /\ \A s, t, e : (SpawnOf(s, t, e))' = SpawnOf(s, t, e)
  BY <1>1, ScheduleKept
<1>4. \A i \in Events : i \in Nat
  BY <1>2, Positions
<1>5. ThreadOrder'
  <2>1. \A j \in Events : j < k /\ ev[j].thread = ev[k].thread => j \in done
    BY <1>1, AllBefore
  <2> QED BY <1>1, <1>3, <2>1 DEF IInv, ThreadOrder
<1>6. Started'
  <2>1. ev[k].thread # Host => \E s \in done : SpawnOf(s, ev[k].thread, k)
    BY <1>1 DEF Reached
  <2>2. \A i \in done : ev[i].thread # Host => \E s \in done : SpawnOf(s, ev[i].thread, i)
    BY DEF IInv, Started
  <2> QED BY <1>1, <1>3, <2>1, <2>2 DEF Started
<1>7. JoinComplete'
  <2> SUFFICES ASSUME NEW j \in done', NEW e \in Events,
                      ev[j].op = "join", ev[e].thread = ev[j].at, e < j
               PROVE  e \in done'
    BY <1>1, <1>3 DEF JoinComplete
  <2>1. CASE j \in done
    BY <1>1, <2>1 DEF IInv, JoinComplete
  <2>2. CASE j = k
    <3> DEFINE t == ev[k].at
    <3>1. CanJoin(k)
      BY <2>2 DEF Exec, Join, Send, Receive, Peek, Spawn, CanSend, CanReceive, CanPeek, CanSpawn
    <3>2. t \in Cores /\ ev[k].thread = Host /\ t # Host
      BY <1>2, <2>2, Positions, HostAssumption
    <3>3. PICK s \in Events : SpawnOf(s, t, e)
      BY <1>2, <2>2, <3>2 DEF WellFormed, ThreadsNested
    <3>4. CASE \E r \in Spawns(t) : e < r /\ r < k
      <4>1. PICK r \in Spawns(t) : e < r /\ r < k
        BY <3>4
      <4>2. PICK i \in Events : e < i /\ i < r /\ ev[i].op = "join" /\ ev[i].at = t
        BY <1>2, <2>2, <4>1 DEF WellFormed, ThreadsNested, Spawns
      <4>3. ev[i].thread = Host /\ i < k
        BY <1>2, <1>4, <4>1, <4>2, Positions DEF Spawns
      <4>4. i \in done
        BY <1>1, <3>2, <4>3, AllBefore
      <4> QED BY <1>1, <2>2, <4>2, <4>4 DEF IInv, JoinComplete
    <3>5. CASE ~ \E r \in Spawns(t) : e < r /\ r < k
      <4>1. s \in Spawns(t) /\ s < e /\ s < k
        BY <1>4, <2>2, <3>3 DEF SpawnOf
      <4>2. \A r \in Spawns(t) : r <= s \/ k < r
        <5> SUFFICES ASSUME NEW r \in Spawns(t), ~(r <= s) PROVE k < r
          OBVIOUS
        <5>1. e < r
          BY <3>3 DEF SpawnOf
        <5>2. r \in Events /\ r # k
          BY <2>2 DEF Spawns
        <5> QED BY <1>4, <3>5, <5>1, <5>2
      <4>3. SpawnOf(s, t, k)
        BY <4>1, <4>2 DEF SpawnOf
      <4> QED BY <1>1, <2>2, <3>1, <3>3, <4>1, <4>3 DEF CanJoin
    <3> QED BY <3>4, <3>5
  <2> QED BY <1>1, <2>1, <2>2
<1> QED BY <1>1, <1>2, <1>5, <1>6, <1>7

\* The state of the addresses when k is not a call that changes them.
LEMMA InvControl ==
  ASSUME IInv, NEW k \in Events, Exec(k), ev[k].op \in {"spawn", "join"}
  PROVE  IInv'
<1>1. /\ k \notin done /\ done' = done \cup {k} /\ ev' = ev
      /\ WellFormed' /\ ThreadOrder' /\ Started' /\ JoinComplete'
  BY ThreadsStep
<1>2. UNCHANGED <<slot, got>>
  BY DEF Exec, Join, Send, Receive, Peek, Spawn, CanSend, CanReceive, CanPeek
<1>3. /\ Events' = Events /\ \A a : (Sends(a))' = Sends(a)
      /\ \A a : (Receives(a))' = Receives(a)
      /\ \A s, e : (Source(s, e))' = Source(s, e)
  BY <1>1, ScheduleKept
<1>4. \A a : k \notin Sends(a) /\ k \notin Receives(a)
  BY DEF Sends, Receives
<1>5. TypeOK'
  BY <1>1, <1>2, <1>3 DEF IInv, TypeOK
<1>6. GotDone' /\ Matched'
  BY <1>1, <1>2, <1>3 DEF IInv, GotDone, Matched
<1>7. SlotOK'
  BY <1>1, <1>2, <1>3, <1>4 DEF IInv, SlotOK
<1>8. Alternates'
  BY <1>1, <1>2, <1>3, <1>4 DEF IInv, Alternates
<1> QED BY <1>1, <1>5, <1>6, <1>7, <1>8 DEF IInv

\* A peek reads the paired value and changes no address.
LEMMA InvPeek ==
  ASSUME IInv, NEW k \in Events, Exec(k), ev[k].op = "peek"
  PROVE  IInv'
<1> DEFINE a == ev[k].at
<1>1. /\ k \notin done /\ Reached(k) /\ done' = done \cup {k} /\ ev' = ev
      /\ WellFormed' /\ ThreadOrder' /\ Started' /\ JoinComplete'
  BY ThreadsStep
<1>2. slot' = slot /\ got' = [got EXCEPT ![k] = slot[a]] /\ slot[a] # 0
  BY DEF Exec, Join, Send, Receive, Peek, Spawn, CanSend, CanReceive, CanPeek, CanSpawn, CanJoin
<1>3. /\ Events' = Events /\ \A x : (Sends(x))' = Sends(x)
      /\ \A x : (Receives(x))' = Receives(x)
      /\ \A s, e : (Source(s, e))' = Source(s, e)
  BY <1>1, ScheduleKept
<1>4. \A x : k \notin Sends(x) /\ k \notin Receives(x)
  BY DEF Sends, Receives
<1>5. Source(slot[a], k) /\ slot[a] \in done
  BY <1>1, <1>2, ReadsSource
<1>6. TypeOK'
  BY <1>1, <1>2, <1>3, <1>5 DEF IInv, TypeOK
<1>7. GotDone' /\ Matched'
  BY <1>1, <1>2, <1>3, <1>5 DEF IInv, GotDone, Matched, TypeOK
<1>8. SlotOK'
  BY <1>1, <1>2, <1>3, <1>4 DEF IInv, SlotOK
<1>9. Alternates'
  BY <1>1, <1>2, <1>3, <1>4 DEF IInv, Alternates
<1> QED BY <1>1, <1>6, <1>7, <1>8, <1>9 DEF IInv

\* A receive reads the paired value and empties its address.
LEMMA InvReceive ==
  ASSUME IInv, NEW k \in Events, Exec(k), ev[k].op = "receive"
  PROVE  IInv'
<1> DEFINE a == ev[k].at
<1>1. /\ k \notin done /\ Reached(k) /\ done' = done \cup {k} /\ ev' = ev
      /\ WellFormed' /\ ThreadOrder' /\ Started' /\ JoinComplete'
  BY ThreadsStep
<1>2. /\ slot' = [slot EXCEPT ![a] = 0] /\ got' = [got EXCEPT ![k] = slot[a]]
      /\ slot[a] # 0
  BY DEF Exec, Join, Send, Receive, Peek, Spawn, CanSend, CanReceive, CanPeek, CanSpawn, CanJoin
<1>3. /\ Events' = Events /\ \A x : (Sends(x))' = Sends(x)
      /\ \A x : (Receives(x))' = Receives(x)
      /\ \A s, e : (Source(s, e))' = Source(s, e)
  BY <1>1, ScheduleKept
<1>4. k \in Receives(a) /\ (\A x : k \notin Sends(x)) /\ (\A x : x # a => k \notin Receives(x))
  BY DEF Sends, Receives
<1>5. Source(slot[a], k) /\ slot[a] \in done /\ slot[a] < k
  <2>1. Source(slot[a], k) /\ slot[a] \in done
    BY <1>1, <1>2, ReadsSource
  <2> QED BY <2>1 DEF Source
<1>6. TypeOK /\ a \in Addr
  BY Positions DEF IInv
<1>7. TypeOK'
  BY <1>1, <1>2, <1>3, <1>5, <1>6 DEF TypeOK
<1>8. GotDone' /\ Matched'
  BY <1>1, <1>2, <1>3, <1>5 DEF IInv, GotDone, Matched, TypeOK
<1>9. SlotOK'
  <2> SUFFICES ASSUME NEW x \in Addr
               PROVE  /\ \A s \in Sends(x) \cap done' :
                           (\A r \in Receives(x) \cap done' : ~(s < r)) => slot'[x] = s
                      /\ slot'[x] # 0 =>
                           /\ slot'[x] \in Sends(x) \cap done'
                           /\ \A r \in Receives(x) \cap done' : ~(slot'[x] < r)
    BY <1>3 DEF SlotOK
  <2>1. CASE x # a
    BY <1>1, <1>2, <1>4, <1>6, <2>1 DEF IInv, SlotOK, TypeOK
  <2>2. CASE x = a
    <3>1. slot'[x] = 0
      BY <1>2, <1>6, <2>2 DEF TypeOK
    <3>2. ASSUME NEW s \in Sends(x) \cap done', \A r \in Receives(x) \cap done' : ~(s < r)
          PROVE  FALSE
      <4>1. s \in done
        BY <1>1, <1>4, <3>2
      <4>2. \A r \in Receives(x) \cap done : ~(s < r)
        BY <1>1, <3>2
      <4>3. slot[a] = s
        BY <1>6, <2>2, <3>2, <4>1, <4>2 DEF IInv, SlotOK
      <4>4. k \in Receives(x) \cap done'
        BY <1>1, <1>4, <2>2
      <4> QED BY <1>5, <3>2, <4>3, <4>4
    <3> QED BY <3>1, <3>2
  <2> QED BY <2>1, <2>2
<1>10. Alternates'
  BY <1>1, <1>3, <1>4 DEF IInv, Alternates
<1> QED BY <1>1, <1>7, <1>8, <1>9, <1>10 DEF IInv

\* A send fills an empty address, whose earlier values have all been received.
LEMMA InvSend ==
  ASSUME IInv, NEW k \in Events, Exec(k), ev[k].op = "send"
  PROVE  IInv'
<1> DEFINE a == ev[k].at
<1>1. /\ k \notin done /\ Reached(k) /\ done' = done \cup {k} /\ ev' = ev
      /\ WellFormed' /\ ThreadOrder' /\ Started' /\ JoinComplete'
  BY ThreadsStep
<1>2. slot' = [slot EXCEPT ![a] = k] /\ got' = got /\ slot[a] = 0
  BY DEF Exec, Join, Send, Receive, Peek, Spawn, CanSend, CanReceive, CanPeek, CanSpawn, CanJoin
<1>3. /\ Events' = Events /\ \A x : (Sends(x))' = Sends(x)
      /\ \A x : (Receives(x))' = Receives(x)
      /\ \A s, e : (Source(s, e))' = Source(s, e)
  BY <1>1, ScheduleKept
<1>4. k \in Sends(a) /\ (\A x : k \notin Receives(x)) /\ (\A x : x # a => k \notin Sends(x))
  BY DEF Sends, Receives
<1>5. TypeOK /\ a \in Addr /\ WellFormed /\ ThreadOrder /\ SlotOK /\ Alternates
  BY Positions DEF IInv
<1>6. \A i \in Events : i \in Nat /\ i > 0
  BY <1>5, Positions
<1>7. \A r \in Receives(a) \cap done : r < k
  <2>1. \A r \in Receives(a) : r \in Reads(a)
    BY DEF Receives, Reads
  <2> QED BY <1>1, <2>1, NothingReadAhead
<1>8. \A j \in Sends(a) : j < k => j \in done
  <2>1. \A j \in Sends(a) : j \in Events /\ ev[j].thread = ev[k].thread
    BY <1>4, <1>5 DEF WellFormed, OneToOne, Sends
  <2> QED BY <1>1, <2>1, AllBefore
<1>9. \A j \in Sends(a) \cap done : \E r \in Receives(a) \cap done : j < r
  <2> SUFFICES ASSUME NEW j \in Sends(a) \cap done,
                      \A r \in Receives(a) \cap done : ~(j < r)
               PROVE  FALSE
    OBVIOUS
  <2>1. slot[a] = j
    BY <1>5 DEF SlotOK
  <2>2. j \in Events
    BY DEF Sends
  <2> QED BY <1>2, <1>6, <2>1, <2>2
<1>10. \A j \in Sends(a) \cap done : ~(k < j)
  <2>1. \A j \in Sends(a) : j \in Events /\ ev[j].thread = ev[k].thread
    BY <1>4, <1>5 DEF WellFormed, OneToOne, Sends
  <2> QED BY <1>1, <1>5, <2>1 DEF ThreadOrder
<1>11. TypeOK'
  BY <1>1, <1>2, <1>3, <1>5 DEF TypeOK
<1>12. GotDone' /\ Matched'
  BY <1>1, <1>2, <1>3 DEF IInv, GotDone, Matched
<1>13. SlotOK'
  <2> SUFFICES ASSUME NEW x \in Addr
               PROVE  /\ \A s \in Sends(x) \cap done' :
                           (\A r \in Receives(x) \cap done' : ~(s < r)) => slot'[x] = s
                      /\ slot'[x] # 0 =>
                           /\ slot'[x] \in Sends(x) \cap done'
                           /\ \A r \in Receives(x) \cap done' : ~(slot'[x] < r)
    BY <1>3 DEF SlotOK
  <2>1. Receives(x) \cap done' = Receives(x) \cap done
    BY <1>1, <1>4
  <2>2. CASE x # a
    BY <1>1, <1>2, <1>4, <1>5, <2>1, <2>2 DEF SlotOK, TypeOK
  <2>3. CASE x = a
    <3>1. slot'[x] = k
      BY <1>2, <1>5, <2>3 DEF TypeOK
    <3>2. \A r \in Receives(x) \cap done : ~(k < r)
      <4>1. \A r \in Receives(x) : r \in Events
        BY DEF Receives
      <4> QED BY <1>6, <1>7, <2>3, <4>1
    <3>3. \A s \in Sends(x) \cap done' :
            (\A r \in Receives(x) \cap done : ~(s < r)) => s = k
      BY <1>1, <1>9, <2>3
    <3> QED BY <1>1, <1>4, <2>1, <2>3, <3>1, <3>2, <3>3
  <2> QED BY <2>2, <2>3
<1>14. Alternates'
  <2> SUFFICES ASSUME NEW x \in Addr, NEW j \in Sends(x), NEW i \in Sends(x) \cap done',
                      j < i
               PROVE  \E r \in Receives(x) \cap done' : j < r /\ r < i
    BY <1>3 DEF Alternates
  <2>1. CASE i \in done
    BY <1>1, <1>5, <2>1 DEF Alternates
  <2>2. CASE i = k
    <3>1. x = a /\ j \in Sends(a) \cap done
      BY <1>4, <1>8, <2>2
    <3>2. PICK r \in Receives(a) \cap done : j < r
      BY <1>9, <3>1
    <3> QED BY <1>1, <1>7, <2>2, <3>1, <3>2
  <2> QED BY <1>1, <2>1, <2>2
<1> QED BY <1>1, <1>11, <1>12, <1>13, <1>14 DEF IInv
------------------------------------------------------------------------------
\* Nothing has run: every part of the invariant speaks about done events.
LEMMA InvInit == Init /\ WellFormed => IInv
<1> SUFFICES ASSUME Init, WellFormed PROVE IInv
  OBVIOUS
<1>1. done = {} /\ slot = [a \in Addr |-> 0] /\ got = [k \in Events |-> 0]
  BY DEF Init
<1>2. TypeOK
  BY <1>1 DEF TypeOK
<1> QED BY <1>1, <1>2 DEF IInv, ThreadOrder, Started, JoinComplete, GotDone,
                          Matched, SlotOK, Alternates

LEMMA InvNext == IInv /\ [Next]_vars => IInv'
<1> SUFFICES ASSUME IInv, [Next]_vars PROVE IInv'
  OBVIOUS
<1>1. CASE UNCHANGED vars
  <2>1. ev' = ev /\ done' = done /\ slot' = slot /\ got' = got
    BY <1>1 DEF vars
  <2>2. /\ Events' = Events /\ WellFormed'
        /\ \A x : (Sends(x))' = Sends(x)
        /\ \A x : (Receives(x))' = Receives(x)
        /\ \A s, e : (Source(s, e))' = Source(s, e)
        /\ \A s, t, e : (SpawnOf(s, t, e))' = SpawnOf(s, t, e)
    BY <2>1, ScheduleKept DEF IInv
  <2> QED BY <2>1, <2>2 DEF IInv, TypeOK, ThreadOrder, Started, JoinComplete, GotDone,
                            Matched, SlotOK, Alternates
<1>2. CASE Next
  <2>1. PICK k \in Events : Exec(k)
    BY <1>2 DEF Next
  <2>2. ev[k].op \in {"send", "receive", "peek", "spawn", "join"}
    BY Positions DEF IInv
  <2> QED BY <2>1, <2>2, InvControl, InvPeek, InvReceive, InvSend
<1> QED BY <1>1, <1>2

\* The invariant of every execution of a well-formed schedule.
THEOREM Invariance == Safety /\ WellFormed => []IInv
BY InvInit, InvNext, PTL DEF Safety

\* Slots and results refer to calls of the schedule.
THEOREM Typing == Safety /\ WellFormed => []TypeOK
<1>1. IInv => TypeOK
  BY DEF IInv
<1> QED BY <1>1, Invariance, PTL

\* Every receive, receive_argument and receive_return gets the value it was
\* paired with, in every interleaving of the threads.
THEOREM Matching == Safety /\ WellFormed => []Matched
<1>1. IInv => Matched
  BY DEF IInv
<1> QED BY <1>1, Invariance, PTL

\* After the join the partition has finished, and its threads never overlap.
THEOREM Joining == Safety /\ WellFormed => [](JoinComplete /\ ThreadOrder)
<1>1. IInv => JoinComplete /\ ThreadOrder
  BY DEF IInv
<1> QED BY <1>1, Invariance, PTL

\* The first call not yet executed can execute: its thread has been created
\* and has reached it, and its address is in the state it waits for.
LEMMA FirstRuns ==
  ASSUME IInv, NEW k \in Events, k \notin done, \A j \in Events : j < k => j \in done
  PROVE  CanRun(k)
<1> DEFINE a == ev[k].at
           t == ev[k].thread
<1>1. /\ WellFormed /\ TypeOK /\ ThreadOrder /\ SlotOK /\ done \subseteq Events
  BY DEF IInv, TypeOK
<1>2. \A i \in Events : i \in Nat /\ i > 0
  BY <1>1, Positions
<1>3. Reached(k)
  <2>1. ASSUME t # Host PROVE \E s \in done : SpawnOf(s, t, k)
    <3>1. PICK s \in Events : SpawnOf(s, t, k)
      BY <1>1, <2>1 DEF WellFormed, ThreadsNested
    <3> QED BY <3>1 DEF SpawnOf
  <2> QED BY <2>1 DEF Reached
<1>4. CASE ev[k].op = "send"
  <2>1. a \in Addr /\ k \in Sends(a)
    BY <1>1, <1>4, Positions DEF Sends
  <2> SUFFICES ASSUME slot[a] # 0 PROVE FALSE
    BY <1>3, <1>4 DEF CanRun, CanSend
  <2> DEFINE v == slot[a]
  <2>2. v \in Sends(a) /\ v \in done /\ v \in Events /\ \A r \in Receives(a) \cap done : ~(v < r)
    BY <1>1, <2>1 DEF SlotOK
  <2>3. ev[v].thread = t
    BY <1>1, <2>1, <2>2 DEF WellFormed, OneToOne
  <2>4. v < k
    <3>1. ~(k < v)
      BY <1>1, <2>2, <2>3 DEF ThreadOrder
    <3>2. v # k
      BY <2>2
    <3> QED BY <1>2, <2>2, <3>1, <3>2
  <2>5. PICK r \in Receives(a) : v < r /\ r < k
    BY <1>1, <2>1, <2>2, <2>4 DEF WellFormed, Freed
  <2>6. r \in done
    BY <2>5 DEF Receives
  <2> QED BY <2>2, <2>5, <2>6
<1>5. CASE ev[k].op \in {"receive", "peek"}
  <2>1. a \in Addr /\ k \in Reads(a)
    BY <1>1, <1>5, Positions DEF Reads
  <2>2. PICK s \in Events : Source(s, k) /\ \A r \in Receives(a) : ~(s < r /\ r < k)
    BY <1>1, <2>1 DEF WellFormed, Fed
  <2>3. s \in Sends(a) \cap done
    BY <2>2 DEF Source
  <2>4. \A r \in Receives(a) \cap done : ~(s < r)
    <3> SUFFICES ASSUME NEW r \in Receives(a) \cap done, s < r PROVE FALSE
      OBVIOUS
    <3>1. r \in Events /\ r \in Reads(a) /\ r # k
      BY DEF Receives, Reads
    <3>2. k < r
      BY <1>2, <2>2, <3>1
    <3>3. ev[r].thread = t
      BY <1>1, <2>1, <3>1 DEF WellFormed, OneToOne
    <3> QED BY <1>1, <3>2, <3>3 DEF ThreadOrder
  <2>5. slot[a] = s
    BY <1>1, <2>1, <2>3, <2>4 DEF SlotOK
  <2>6. slot[a] # 0
    BY <1>2, <2>2, <2>5
  <2> QED BY <1>3, <1>5, <2>6 DEF CanRun, CanReceive, CanPeek
<1>6. CASE ev[k].op = "spawn"
  BY <1>3, <1>6 DEF CanRun, CanSpawn
<1>7. CASE ev[k].op = "join"
  <2> SUFFICES ASSUME NEW e \in Events, NEW s \in Spawns(a),
                      ev[e].thread = a, SpawnOf(s, a, k), SpawnOf(s, a, e)
               PROVE  e \in done
    BY <1>3, <1>7 DEF CanRun, CanJoin
  <2>1. e # k
    BY <1>1, <1>7, Positions, HostAssumption
  <2>2. ~(k < e)
    <3> SUFFICES ASSUME k < e PROVE FALSE
      OBVIOUS
    <3>1. PICK r \in Spawns(a) : k < r /\ r < e
      BY <1>1, <1>7 DEF WellFormed, ThreadsNested
    <3>2. r \in Nat /\ s \in Nat
      BY <1>2 DEF Spawns
    <3>3. s < k /\ (r <= s \/ e < r)
      BY DEF SpawnOf
    <3> QED BY <1>2, <3>1, <3>2, <3>3
  <2> QED BY <1>2, <2>1, <2>2
<1>8. ev[k].op \in {"send", "receive", "peek", "spawn", "join"}
  BY <1>1, Positions
<1> QED BY <1>4, <1>5, <1>6, <1>7, <1>8

\* A nonempty set of positions has a first one.
LEMMA FirstExists ==
  ASSUME NEW S \in SUBSET Nat, S # {}
  PROVE  \E k \in S : \A j \in S : ~(j < k)
<1>1. IsWellFoundedOn(OpToRel(<, Nat), Nat)
  BY NatLessThanWellFounded
<1>2. PICK k \in S : \A j \in S : ~(<<j, k>> \in OpToRel(<, Nat))
  BY <1>1, WFMin
<1>3. \A j \in S : j < k => <<j, k>> \in OpToRel(<, Nat)
  BY DEF OpToRel
<1> QED BY <1>2, <1>3

\* On a well-formed schedule the threads never all wait for each other: while
\* a call is left, some thread can execute its next one.
THEOREM DeadlockFreedom == Safety /\ WellFormed => []NoStuck
<1>1. IInv => NoStuck
  <2> SUFFICES ASSUME IInv, done # Events PROVE \E k \in Events : CanRun(k)
    BY DEF NoStuck
  <2>1. done \subseteq Events /\ Events \subseteq Nat
    BY Positions DEF IInv, TypeOK
  <2>2. PICK k \in Events \ done : \A j \in Events \ done : ~(j < k)
    BY <2>1, FirstExists
  <2>3. CanRun(k)
    BY <2>2, FirstRuns
  <2> QED BY <2>3
<1> QED BY <1>1, Invariance, PTL

===============================================================================
