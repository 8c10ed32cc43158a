------------------------------ MODULE CommsSlot ------------------------------
(***************************************************************************)
(* What the communication runtime promises for one address: a place that   *)
(* holds at most one message.  The sending thread puts a message only into *)
(* an empty place, the receiving thread takes what was put, whole and in   *)
(* the order it was put.  pthreads/communication.c describes the place as  *)
(* "a struct of { value, ready_flag }" (line 68); PthreadComms refines     *)
(* this module down to the single byte stores.                             *)
(***************************************************************************)
EXTENDS Naturals, Sequences

CONSTANTS Message,   \* the values a send can carry
          Empty      \* the content of a place without a message; not a Message

VARIABLES slot,      \* Empty or the message in the place
          put,       \* the messages put so far
          taken      \* the messages taken so far

slotVars == <<slot, put, taken>>

Init == /\ slot = Empty
        /\ put = <<>>
        /\ taken = <<>>

Put(m) == /\ slot = Empty
          /\ slot' = m
          /\ put' = Append(put, m)
          /\ UNCHANGED taken

Take == /\ slot # Empty
        /\ taken' = Append(taken, slot)
        /\ slot' = Empty
        /\ UNCHANGED put

Next == Take \/ \E m \in Message : Put(m)

\* Safety part of the promise.
Safety == Init /\ [][Next]_slotVars

\* The promise: a message in the place is eventually taken.
Spec == Safety /\ WF_slotVars(Take)
==============================================================================
