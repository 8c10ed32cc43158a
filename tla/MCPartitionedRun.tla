--------------------------- MODULE MCPartitionedRun ---------------------------
(***************************************************************************)
(* PartitionedRun for TLC.  Small: every well-formed schedule that starts  *)
(* two partitions, makes four communication calls over two addresses and   *)
(* joins the partitions.  Repeated: a partitioned function without         *)
(* arguments called twice, its loop of two iterations sending a value      *)
(* forth and back through the same two addresses.                          *)
(***************************************************************************)
EXTENDS PartitionedRun

E(t, o, x) == [thread |-> t, op |-> o, at |-> x]

Begin == <<E("host", "spawn", "A"), E("host", "spawn", "B")>>
End   == <<E("host", "join", "A"), E("host", "join", "B")>>

Calls == {E(t, o, x) : t \in {"A", "B"}, o \in {"send", "receive"}, x \in {"x", "y"}}
           \cup {E("host", "send", "x"), E("host", "peek", "y"), E("A", "peek", "x")}

Small == {Begin \o m \o End : m \in [1 .. 4 -> Calls]}

Iteration == <<E("A", "send", "x"), E("B", "receive", "x"),
               E("B", "send", "y"), E("A", "receive", "y")>>
Once      == Begin \o Iteration \o Iteration \o End
Repeated  == {Once \o Once}

MCSchedules == Small \cup Repeated

\* A function that returns a value, called twice.
Returning   == Begin \o <<E("A", "send", "y"), E("host", "peek", "y")>> \o End
CalledTwice == {Returning \o Returning}

\* The schedules the compiler may emit.
WellFormedInit == Init /\ WellFormed
WellFormedSpec == WellFormedInit /\ [][Next]_vars /\ WF_vars(Next)
===============================================================================
