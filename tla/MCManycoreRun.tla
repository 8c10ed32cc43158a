---------------------------- MODULE MCManycoreRun ----------------------------
(***************************************************************************)
(* ManycoreRun for TLC: two partitions on three tiles, numbered and listed *)
(* in every way.                                                           *)
(***************************************************************************)
EXTENDS ManycoreRun

MCLayouts == [sender : 0 .. 2, receiver : 0 .. 2,
              list : {<<"sender", "receiver">>, <<"receiver", "sender">>}]

DistinctLayouts == {l \in MCLayouts : l.sender # l.receiver}
==============================================================================
