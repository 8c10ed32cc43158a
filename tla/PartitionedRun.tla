---------------------------- MODULE PartitionedRun ----------------------------
(***************************************************************************)
(* One execution of partitioned code on the pthreads runtime: the host     *)
(* thread (the replace_ functions emit_llvm.ml writes) and the threads it  *)
(* creates for the partitions, synchronised only by the one-place slots of *)
(* CommsSlot, by thread creation and by join.                              *)
(*                                                                         *)
(* Every partition takes the same path through the control flow graph (the *)
(* branch conditions are broadcast), so an execution is described by its   *)
(* schedule: the communication calls of all threads in the order the       *)
(* compiler places them along that path.  The threads run their own calls  *)
(* in that order and interleave freely otherwise.  A send is identified by *)
(* its position in the schedule, which stands for the value it carries.    *)
(*                                                                         *)
(* The step of a call is atomic here; PthreadComms shows that the byte     *)
(* accesses of one address behave that way.                                *)
(***************************************************************************)
EXTENDS Integers, Sequences

CONSTANTS Host,       \* the host thread
          Cores,      \* the partitions that have a thread
          Addr,       \* communication addresses
          Schedules   \* the schedules considered

ASSUME HostAssumption == Host \notin Cores

\* at is an address for send, receive and peek, a core for spawn and join.
Event == [thread : {Host} \cup Cores,
          op : {"send", "receive", "peek", "spawn", "join"},
          at : Addr \cup Cores]

VARIABLES ev,     \* the schedule being executed; never changes
          done,   \* positions executed
          slot,   \* position of the send whose value an address holds, 0 if none
          got     \* the send whose value a receive or peek returned, 0 before

vars == <<ev, done, slot, got>>

Events == DOMAIN ev

Init == /\ ev \in Schedules
        /\ done = {}
        /\ slot = [a \in Addr |-> 0]
        /\ got = [k \in Events |-> 0]

Spawns(t) == {k \in Events : ev[k].op = "spawn" /\ ev[k].at = t}

\* s creates the thread of t that the event at k belongs to or joins.
SpawnOf(s, t, k) == /\ s \in Spawns(t)
                    /\ s < k
                    /\ \A r \in Spawns(t) : r <= s \/ k < r

\* The thread of event k exists and has executed all its calls before k.
Reached(k) ==
  LET t == ev[k].thread
  IN  /\ t # Host => \E s \in done : SpawnOf(s, t, k)
      /\ \A j \in Events :
           /\ j < k
           /\ ev[j].thread = t
           /\ \A s \in Spawns(t) : ~(j < s /\ s < k)
           => j \in done

------------------------------------------------------------------------------
\* Mutant: send does not wait for the last value to be received.
CanSendDropped(k) == ev[k].op = "send"

\* send, send_argument, send_return: wait until the address is free, fill it.
CanSend(k) == ev[k].op = "send" /\ slot[ev[k].at] = 0

Send(k) == /\ CanSend(k)
           /\ slot' = [slot EXCEPT ![ev[k].at] = k]
           /\ UNCHANGED got

\* receive, the load and free_comms: wait for a value, take it.
CanReceive(k) == ev[k].op = "receive" /\ slot[ev[k].at] # 0

\* Mutant: the receive does not free the address.
ReceiveKept(k) == /\ CanReceive(k)
                  /\ got' = [got EXCEPT ![k] = slot[ev[k].at]]
                  /\ UNCHANGED slot

Receive(k) == /\ CanReceive(k)
              /\ got' = [got EXCEPT ![k] = slot[ev[k].at]]
              /\ slot' = [slot EXCEPT ![ev[k].at] = 0]

\* receive_argument, receive_return: wait for a value, leave it in place.
CanPeek(k) == ev[k].op = "peek" /\ slot[ev[k].at] # 0

\* Mutant: reading an argument or a return value frees the address.
PeekFreed(k) == /\ CanPeek(k)
                /\ got' = [got EXCEPT ![k] = slot[ev[k].at]]
                /\ slot' = [slot EXCEPT ![ev[k].at] = 0]

Peek(k) == /\ CanPeek(k)
           /\ got' = [got EXCEPT ![k] = slot[ev[k].at]]
           /\ UNCHANGED slot

\* call_partitioned_functions creates the thread of a partition.
CanSpawn(k) == ev[k].op = "spawn"

Spawn(k) == CanSpawn(k) /\ UNCHANGED <<slot, got>>

\* Mutant: the join waits for the thread of the first call, not of the last.
CanJoinFirst(k) ==
  /\ ev[k].op = "join"
  /\ \A e \in Events : \A s \in Spawns(ev[k].at) :
       /\ ev[e].thread = ev[k].at
       /\ SpawnOf(s, ev[k].at, e)
       /\ \A r \in Spawns(ev[k].at) : s <= r
       => e \in done

\* join_partitioned_functions waits until the thread created last has returned.
CanJoin(k) ==
  /\ ev[k].op = "join"
  /\ \A e \in Events : \A s \in Spawns(ev[k].at) :
       /\ ev[e].thread = ev[k].at
       /\ SpawnOf(s, ev[k].at, k)
       /\ SpawnOf(s, ev[k].at, e)
       => e \in done

Join(k) == CanJoin(k) /\ UNCHANGED <<slot, got>>

Exec(k) == /\ k \notin done
           /\ Reached(k)
           /\ Send(k) \/ Receive(k) \/ Peek(k) \/ Spawn(k) \/ Join(k)
           /\ done' = done \cup {k}
           /\ UNCHANGED ev

Next == \E k \in Events : Exec(k)

Safety == Init /\ [][Next]_vars

\* Every thread that is not blocked keeps running.
Spec == Safety /\ WF_vars(Next)

------------------------------------------------------------------------------
(* What the compiler has to guarantee about the schedule. *)

Sends(a)    == {k \in Events : ev[k].op = "send" /\ ev[k].at = a}
Receives(a) == {k \in Events : ev[k].op = "receive" /\ ev[k].at = a}
Reads(a)    == {k \in Events : ev[k].op \in {"receive", "peek"} /\ ev[k].at = a}

\* s is the send whose value the read k is meant to return.
Source(s, k) == /\ s \in Sends(ev[k].at)
                /\ s < k
                /\ \A r \in Sends(ev[k].at) : r <= s \/ k < r

\* Only the host creates and joins threads; a thread runs after its creation,
\* is joined once it has nothing left to do and before it is created again.
ThreadsNested ==
  /\ \A k \in Events : ev[k].op \in {"spawn", "join"} => /\ ev[k].thread = Host
                                                        /\ ev[k].at \in Cores
  /\ \A k \in Events : ev[k].thread # Host =>
       \E s \in Events : SpawnOf(s, ev[k].thread, k)
  /\ \A k \in Events, s \in Events :
       /\ s \in Spawns(ev[k].thread)
       /\ k < s
       => \E j \in Events : /\ k < j /\ j < s
                            /\ ev[j].op = "join" /\ ev[j].at = ev[k].thread
  /\ \A j \in Events, e \in Events :
       /\ ev[j].op = "join"
       /\ ev[e].thread = ev[j].at
       /\ j < e
       => \E s \in Spawns(ev[j].at) : j < s /\ s < e

\* Every address is written by one thread and read by one thread.
OneToOne ==
  \A a \in Addr : /\ \A j, k \in Sends(a) : ev[j].thread = ev[k].thread
                  /\ \A j, k \in Reads(a) : ev[j].thread = ev[k].thread

\* Between two sends at an address the first value is received.
Freed == \A a \in Addr : \A j, k \in Sends(a) :
           j < k => \E r \in Receives(a) : j < r /\ r < k

\* Every read has a value to return that no earlier receive has taken.
Fed == \A a \in Addr : \A k \in Reads(a) :
         \E s \in Events : /\ Source(s, k)
                           /\ \A r \in Receives(a) : ~(s < r /\ r < k)

WellFormed == /\ ev \in Seq(Event)
              /\ \A k \in Events : ev[k].op \in {"send", "receive", "peek"} => ev[k].at \in Addr
              /\ ThreadsNested
              /\ OneToOne
              /\ Freed
              /\ Fed

------------------------------------------------------------------------------
(* Properties. *)

TypeOK == /\ done \subseteq Events
          /\ slot \in [Addr -> {0} \cup Events]
          /\ got \in [Events -> {0} \cup Events]

\* Every receive and peek returns the value of the send the compiler paired it
\* with: never an older value left in the struct, never one for a later read.
Matched == \A k \in done : ev[k].op \in {"receive", "peek"} => Source(got[k], k)

CanRun(k) == /\ k \notin done
             /\ Reached(k)
             /\ CanSend(k) \/ CanReceive(k) \/ CanPeek(k) \/ CanSpawn(k) \/ CanJoin(k)

\* The threads never all wait for each other.
NoStuck == done # Events => \E k \in Events : CanRun(k)

\* When the host has joined a partition nothing of it is left running, in
\* particular before the partition is started again.
JoinComplete == \A j \in done, e \in Events :
                  ev[j].op = "join" /\ ev[e].thread = ev[j].at /\ e < j => e \in done

\* Each thread executes its calls in the order of the schedule, across calls of
\* the partitioned function too.
ThreadOrder == \A k \in done, j \in Events :
                 j < k /\ ev[j].thread = ev[k].thread => j \in done

\* Every execution finishes: the host returns and no thread spins forever.
Terminates == <>(done = Events)
===============================================================================
