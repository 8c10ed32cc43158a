--------------------------- MODULE RunEmittedProofs ---------------------------
(***************************************************************************)
(* Proofs about the emitted code at run time, for every function the       *)
(* verifier accepts, every placement and every interleaving of the host    *)
(* and the threads.  The threads are compared with Visits, the function on *)
(* one thread: a thread that stands before an item of instruction n of its *)
(* block holds, of the values of its partition, what the function holds    *)
(* before instruction n of the block it has come to along the same path.   *)
(*                                                                         *)
(* The lemmas are about a call g, a record of what stays the same during   *)
(* it (Session), and about threads th, addresses sl, memory me and calls   *)
(* ou as values, so that one lemma can speak of two states.                *)
(***************************************************************************)
EXTENDS RunEmitted, EmitLLVMProofs

------------------------------------------------------------------------------
(* Registers and what they hold. *)

LEMMA RegistersApart ==
  /\ \A v, w : Value(v) = Value(w) => v = w
  /\ \A x, y : Received(x) = Received(y) => x = y
  /\ \A x, y : Argument(x) = Argument(y) => x = y
  /\ \A v, x : Value(v) # Received(x) /\ Value(v) # Argument(x)
  /\ \A x, y : Received(x) # Argument(y)
  /\ \A v : Value(v)[2] = v
BY DEF Value, Received, Argument

LEMMA ReadExtended ==
  ASSUME NEW f, NEW e, NEW x, NEW y, NEW r
  PROVE  Read(f, Extended(e, x, y), r) = IF r = x THEN y ELSE Read(f, e, r)
<1>1. /\ DOMAIN Extended(e, x, y) = DOMAIN e \cup {x}
      /\ \A z \in DOMAIN e \cup {x} : Extended(e, x, y)[z] = IF z = x THEN y ELSE e[z]
  BY DEF Extended
<1> HIDE DEF Extended
<1> QED BY <1>1 DEF Read

LEMMA ExtendedFacts ==
  ASSUME NEW e, NEW x, NEW y
  PROVE  /\ DOMAIN Extended(e, x, y) = DOMAIN e \cup {x}
         /\ Extended(e, x, y)[x] = y
         /\ \A z \in DOMAIN e : z # x => Extended(e, x, y)[z] = e[z]
BY DEF Extended

LEMMA ReadInt ==
  ASSUME NEW f, Runnable(f), NEW e, \A r \in DOMAIN e : e[r] \in Int, NEW r
  PROVE  Read(f, e, r) \in Int
<1>1. CASE r \in DOMAIN e
  BY <1>1 DEF Read
<1>2. CASE r \notin DOMAIN e /\ r \in {Value(c) : c \in DOMAIN f.consts}
  <2>1. PICK c \in DOMAIN f.consts : r = Value(c)
    BY <1>2
  <2>2. r[2] = c /\ f.consts[c] \in Int
    BY <2>1, RegistersApart DEF Runnable
  <2> QED BY <1>2, <2>2 DEF Read
<1>3. CASE r \notin DOMAIN e /\ r \notin {Value(c) : c \in DOMAIN f.consts}
  BY <1>3 DEF Read, Garbage
<1> QED BY <1>1, <1>2, <1>3

LEMMA ReadAllFacts ==
  ASSUME NEW f, NEW e, NEW regs
  PROVE  /\ DOMAIN ReadAll(f, e, regs) = DOMAIN regs
         /\ \A n \in DOMAIN regs : ReadAll(f, e, regs)[n] = Read(f, e, regs[n])
BY DEF ReadAll

LEMMA ReadAllEqual ==
  ASSUME NEW f, NEW d, NEW e, NEW regs, NEW others, DOMAIN regs = DOMAIN others,
         \A n \in DOMAIN regs : Read(f, d, regs[n]) = Read(f, e, others[n])
  PROVE  ReadAll(f, d, regs) = ReadAll(f, e, others)
<1>1. ReadAll(f, d, regs) = [n \in DOMAIN regs |-> Read(f, d, regs[n])]
  BY DEF ReadAll
<1>2. ReadAll(f, e, others) = [n \in DOMAIN regs |-> Read(f, e, others[n])]
  BY DEF ReadAll
<1> QED BY <1>1, <1>2

LEMMA NamesFacts ==
  ASSUME NEW vs
  PROVE  DOMAIN Names(vs) = DOMAIN vs /\ \A n \in DOMAIN vs : Names(vs)[n] = Value(vs[n])
BY DEF Names

------------------------------------------------------------------------------
(* One instruction of the function on one thread. *)

State(b, e, m, o) == [block |-> b, env |-> e, mem |-> m, out |-> o]
Shaped(s) == s = State(s.block, s.env, s.mem, s.out)

LEMMA StateFields ==
  ASSUME NEW b, NEW e, NEW m, NEW o
  PROVE  /\ State(b, e, m, o).block = b /\ State(b, e, m, o).env = e
         /\ State(b, e, m, o).mem = m /\ State(b, e, m, o).out = o
         /\ Shaped(State(b, e, m, o))
BY DEF State, Shaped

Operated(f, i, s) == ReadAll(f, s.env, Names(i.args))

\* What the instruction does to each part of the state.
LEMMA ExecuteFields ==
  ASSUME NEW f, NEW i, NEW s, Shaped(s)
  PROVE  LET t == Execute(f, i, s)
             vals == Operated(f, i, s)
         IN  /\ Shaped(t) /\ t.block = s.block
             /\ t.env = IF i.op \in {"add", "lt"}
                        THEN Extended(s.env, Value(i.name), Compute(i.op, vals))
                        ELSE IF i.op = "load"
                        THEN Extended(s.env, Value(i.name), s.mem[Value(i.args[1])])
                        ELSE s.env
             /\ t.mem = IF i.op = "store" THEN [s.mem EXCEPT ![Value(i.args[2])] = vals[1]]
                        ELSE s.mem
             /\ t.out = IF i.op = "call" THEN Append(s.out, vals) ELSE s.out
<1> DEFINE vals == Operated(f, i, s)
           t == Execute(f, i, s)
<1>1. \A e : [s EXCEPT !.env = e] = State(s.block, e, s.mem, s.out)
  BY DEF Shaped, State
<1>2. \A e : [s EXCEPT !.mem = e] = State(s.block, s.env, e, s.out)
  BY DEF Shaped, State
<1>3. \A e : [s EXCEPT !.out = e] = State(s.block, s.env, s.mem, e)
  BY DEF Shaped, State
<1>4. CASE i.op \in {"add", "lt"}
  <2>1. t = [s EXCEPT !.env = Extended(s.env, Value(i.name), Compute(i.op, vals))]
    BY <1>4 DEF Execute, Operated
  <2>2. t = State(s.block, Extended(s.env, Value(i.name), Compute(i.op, vals)), s.mem, s.out)
    BY <1>1, <2>1
  <2> HIDE DEF t, vals
  <2>3. /\ Shaped(t) /\ t.block = s.block /\ t.mem = s.mem /\ t.out = s.out
        /\ t.env = Extended(s.env, Value(i.name), Compute(i.op, vals))
    BY <2>2, StateFields
  <2> QED BY <1>4, <2>3 DEF t, vals
<1>5. CASE i.op = "load"
  <2>1. t = [s EXCEPT !.env = Extended(s.env, Value(i.name), s.mem[Value(i.args[1])])]
    BY <1>5 DEF Execute
  <2>2. t = State(s.block, Extended(s.env, Value(i.name), s.mem[Value(i.args[1])]), s.mem, s.out)
    BY <1>1, <2>1
  <2> HIDE DEF t, vals
  <2>3. /\ Shaped(t) /\ t.block = s.block /\ t.mem = s.mem /\ t.out = s.out
        /\ t.env = Extended(s.env, Value(i.name), s.mem[Value(i.args[1])])
    BY <2>2, StateFields
  <2> QED BY <1>5, <2>3 DEF t, vals
<1>6. CASE i.op = "store"
  <2>1. t = [s EXCEPT !.mem = [s.mem EXCEPT ![Value(i.args[2])] = vals[1]]]
    BY <1>6 DEF Execute, Operated
  <2>2. t = State(s.block, s.env, [s.mem EXCEPT ![Value(i.args[2])] = vals[1]], s.out)
    BY <1>2, <2>1
  <2> HIDE DEF t, vals
  <2>3. /\ Shaped(t) /\ t.block = s.block /\ t.mem = [s.mem EXCEPT ![Value(i.args[2])] = vals[1]] /\ t.out = s.out
        /\ t.env = s.env
    BY <2>2, StateFields
  <2> QED BY <1>6, <2>3 DEF t, vals
<1>7. CASE i.op = "call"
  <2>1. t = [s EXCEPT !.out = Append(s.out, vals)]
    BY <1>7 DEF Execute, Operated
  <2>2. PICK o : o = Append(s.out, vals)
    OBVIOUS
  <2>3. t = State(s.block, s.env, s.mem, o)
    BY <1>3, <2>1, <2>2
  <2> HIDE DEF t, vals
  <2>4. Shaped(t) /\ t.block = s.block /\ t.mem = s.mem /\ t.out = o /\ t.env = s.env
    BY <2>3, StateFields
  <2> QED BY <1>7, <2>2, <2>4 DEF t, vals
<1>8. CASE i.op \notin {"add", "lt", "load", "store", "call"}
  <2>1. t = s
    BY <1>8 DEF Execute
  <2> HIDE DEF t
  <2> QED BY <1>8, <2>1 DEF t
<1> QED BY <1>4, <1>5, <1>6, <1>7, <1>8


\* The states within a block, up to instruction N.
BlockRun(f, s, N, a) ==
  a = [n \in 0 .. N |-> IF n = 0 THEN s ELSE Execute(f, f.body[s.block][n], a[n - 1])]

LEMMA BlockRunExists ==
  ASSUME NEW f, NEW s, NEW N \in Nat
  PROVE  \E a : BlockRun(f, s, N, a)
<1> DEFINE Runs == {n \in Nat : \E a : BlockRun(f, s, n, a)}
<1>1. 0 \in Runs
  <2> DEFINE a == [k \in 0 .. 0 |-> s]
  <2>1. BlockRun(f, s, 0, a)
    BY DEF BlockRun
  <2> HIDE DEF a
  <2> QED BY <2>1
<1>2. ASSUME NEW n \in 0 .. N, n + 1 \in 0 .. N, n \in Runs
      PROVE  n + 1 \in Runs
  <2>1. PICK a : BlockRun(f, s, n, a)
    BY <1>2
  <2> DEFINE e == Execute(f, f.body[s.block][n + 1], a[n])
             c == [k \in 0 .. n + 1 |-> IF k = n + 1 THEN e ELSE a[k]]
  <2>2. n \in Nat /\ n + 1 \in Nat /\ n \in 0 .. n /\ n + 1 # 0 /\ n + 1 - 1 = n /\ n # n + 1
    BY <1>2
  <2> HIDE DEF e
  <2>3. \A k \in 0 .. n : a[k] = IF k = 0 THEN s ELSE Execute(f, f.body[s.block][k], a[k - 1])
    BY <2>1 DEF BlockRun
  <2>4. \A k \in 0 .. n : c[k] = a[k]
    BY <2>2
  <2>5. c[n + 1] = e
    BY <2>2
  <2>6. c = [k \in 0 .. n + 1 |-> c[k]]
    OBVIOUS
  <2> HIDE DEF c
  <2>7. \A k \in 0 .. n + 1 : c[k] = IF k = 0 THEN s ELSE Execute(f, f.body[s.block][k], c[k - 1])
    <3> TAKE k \in 0 .. n + 1
    <3>1. CASE k = n + 1
      BY <2>2, <2>4, <2>5, <3>1 DEF e
    <3>2. CASE k = 0
      BY <2>2, <2>3, <2>4, <3>2
    <3>3. CASE k \in 1 .. n
      <4>1. k \in 0 .. n /\ k - 1 \in 0 .. n /\ k # 0
        BY <2>2, <3>3
      <4> QED BY <2>3, <2>4, <4>1
    <3> QED BY <2>2, <3>1, <3>2, <3>3
  <2>8. BlockRun(f, s, n + 1, c)
    BY <2>6, <2>7 DEF BlockRun
  <2> QED BY <2>2, <2>8
<1>3. \A n \in 0 .. N : n \in Runs
  <2> HIDE DEF Runs
  <2> QED BY <1>1, <1>2, UpTo
<1>4. N \in Runs
  <2> HIDE DEF Runs
  <2> QED BY <1>3
<1> QED BY <1>4

LEMMA WithinSteps ==
  ASSUME NEW f, NEW s, Len(f.body[s.block]) \in Nat
  PROVE  /\ Within(f, s)[0] = s
         /\ \A n \in 1 .. Len(f.body[s.block]) :
              Within(f, s)[n] = Execute(f, f.body[s.block][n], Within(f, s)[n - 1])
<1> DEFINE N == Len(f.body[s.block])
           w == Within(f, s)
<1>1. \E a : BlockRun(f, s, N, a)
  BY BlockRunExists
<1>2. w = CHOOSE a : BlockRun(f, s, N, a)
  BY DEF Within, BlockRun
<1> HIDE DEF w
<1>3. BlockRun(f, s, N, w)
  BY <1>1, <1>2
<1>4. \A n \in 0 .. N : w[n] = IF n = 0 THEN s ELSE Execute(f, f.body[s.block][n], w[n - 1])
  BY <1>3 DEF BlockRun
<1>5. 0 \in 0 .. N
  OBVIOUS
<1>6. \A n \in 1 .. N : n \in 0 .. N /\ n # 0
  OBVIOUS
<1> HIDE DEF N
<1>7. w[0] = s /\ \A n \in 1 .. N : w[n] = Execute(f, f.body[s.block][n], w[n - 1])
  BY <1>4, <1>5, <1>6
<1> QED BY <1>7 DEF w, N

Begin(f, vals) == State(1, vals, ZeroMemory(f), <<>>)

\* The first N blocks that are visited.
VisitRun(f, vals, N, a) ==
  a = [k \in 0 .. N |-> IF k <= 1 THEN Begin(f, vals) ELSE Leave(f, AtEnd(f, a[k - 1]))]

LEMMA VisitRunExists ==
  ASSUME NEW f, NEW vals, NEW N \in Nat
  PROVE  \E a : VisitRun(f, vals, N, a)
<1> DEFINE Runs == {n \in Nat : \E a : VisitRun(f, vals, n, a)}
<1>1. 0 \in Runs
  <2> DEFINE a == [k \in 0 .. 0 |-> Begin(f, vals)]
  <2>1. VisitRun(f, vals, 0, a)
    BY DEF VisitRun
  <2> HIDE DEF a
  <2> QED BY <2>1
<1>2. ASSUME NEW n \in 0 .. N, n + 1 \in 0 .. N, n \in Runs
      PROVE  n + 1 \in Runs
  <2>1. PICK a : VisitRun(f, vals, n, a)
    BY <1>2
  <2> DEFINE e == IF n + 1 <= 1 THEN Begin(f, vals) ELSE Leave(f, AtEnd(f, a[n]))
             c == [k \in 0 .. n + 1 |-> IF k = n + 1 THEN e ELSE a[k]]
  <2>2. n \in Nat /\ n + 1 \in Nat /\ n \in 0 .. n /\ n + 1 - 1 = n /\ n # n + 1
    BY <1>2
  <2>3. \A k \in 0 .. n : a[k] = IF k <= 1 THEN Begin(f, vals) ELSE Leave(f, AtEnd(f, a[k - 1]))
    BY <2>1 DEF VisitRun
  <2>4. \A k \in 0 .. n : c[k] = a[k]
    <3> HIDE DEF e
    <3> QED BY <2>2
  <2>5. c[n + 1] = e
    <3> HIDE DEF e
    <3> QED BY <2>2
  <2>6. c = [k \in 0 .. n + 1 |-> c[k]]
    <3> HIDE DEF e
    <3> QED OBVIOUS
  <2> HIDE DEF c
  <2>7. \A k \in 0 .. n + 1 : c[k] = IF k <= 1 THEN Begin(f, vals) ELSE Leave(f, AtEnd(f, c[k - 1]))
    <3> TAKE k \in 0 .. n + 1
    <3>1. CASE k = n + 1
      BY <2>2, <2>4, <2>5, <3>1
    <3>2. CASE k \in 0 .. n /\ k <= 1
      BY <2>2, <2>3, <2>4, <3>2
    <3>3. CASE k \in 0 .. n /\ ~(k <= 1)
      <4>1. k \in 0 .. n /\ k - 1 \in 0 .. n
        BY <2>2, <3>3
      <4> QED BY <2>3, <2>4, <4>1, <3>3
    <3> QED BY <2>2, <3>1, <3>2, <3>3
  <2>8. VisitRun(f, vals, n + 1, c)
    BY <2>6, <2>7 DEF VisitRun
  <2> QED BY <2>2, <2>8
<1>3. \A n \in 0 .. N : n \in Runs
  <2> HIDE DEF Runs
  <2> QED BY <1>1, <1>2, UpTo
<1>4. N \in Runs
  <2> HIDE DEF Runs
  <2> QED BY <1>3
<1> QED BY <1>4

LEMMA VisitRunUnique ==
  ASSUME NEW f, NEW vals, NEW M \in Nat, NEW N \in Nat, M <= N, NEW a, NEW b,
         VisitRun(f, vals, M, a), VisitRun(f, vals, N, b)
  PROVE  \A k \in 0 .. M : a[k] = b[k]
<1> DEFINE S == {k \in 0 .. M : a[k] = b[k]}
<1>1. \A k \in 0 .. M : a[k] = IF k <= 1 THEN Begin(f, vals) ELSE Leave(f, AtEnd(f, a[k - 1]))
  BY DEF VisitRun
<1>2. \A k \in 0 .. N : b[k] = IF k <= 1 THEN Begin(f, vals) ELSE Leave(f, AtEnd(f, b[k - 1]))
  BY DEF VisitRun
<1>3. \A k \in 0 .. M : k \in 0 .. N
  OBVIOUS
<1>4. 0 \in S
  <2>1. 0 \in 0 .. M /\ 0 <= 1
    OBVIOUS
  <2> QED BY <1>1, <1>2, <1>3, <2>1
<1>5. ASSUME NEW n \in 0 .. M, n + 1 \in 0 .. M, n \in S
      PROVE  n + 1 \in S
  <2>1. (n + 1) - 1 = n
    BY <1>5
  <2>2. a[n + 1] = IF n + 1 <= 1 THEN Begin(f, vals) ELSE Leave(f, AtEnd(f, a[n]))
    BY <1>1, <1>5, <2>1
  <2>3. b[n + 1] = IF n + 1 <= 1 THEN Begin(f, vals) ELSE Leave(f, AtEnd(f, b[n]))
    BY <1>2, <1>3, <1>5, <2>1
  <2> QED BY <1>5, <2>2, <2>3
<1>6. \A k \in 0 .. M : k \in S
  <2> HIDE DEF S
  <2> QED BY <1>4, <1>5, UpTo
<1> QED BY <1>6

\* The whole function exists.
LEMMA VisitsSteps ==
  ASSUME NEW f, NEW vals
  PROVE  /\ Visits(f, vals)[1] = Begin(f, vals)
         /\ \A k \in Nat : k >= 1 => Visits(f, vals)[k + 1] = Leave(f, AtEnd(f, Visits(f, vals)[k]))
<1> DEFINE R(a) == a = [k \in Nat |-> IF k <= 1 THEN Begin(f, vals) ELSE Leave(f, AtEnd(f, a[k - 1]))]
           run(n) == CHOOSE a : VisitRun(f, vals, n, a)
           c == [k \in Nat |-> run(k)[k]]
           v == Visits(f, vals)
<1>1. \A n \in Nat : VisitRun(f, vals, n, run(n))
  BY VisitRunExists
<1> HIDE DEF run
<1>2. \A k \in Nat : c[k] = run(k)[k]
  OBVIOUS
<1>3. c = [k \in Nat |-> c[k]]
  OBVIOUS
<1> HIDE DEF c
<1>4. ASSUME NEW k \in Nat
      PROVE  c[k] = IF k <= 1 THEN Begin(f, vals) ELSE Leave(f, AtEnd(f, c[k - 1]))
  <2>1. k \in 0 .. k
    OBVIOUS
  <2>2. run(k)[k] = IF k <= 1 THEN Begin(f, vals) ELSE Leave(f, AtEnd(f, run(k)[k - 1]))
    BY <1>1, <2>1 DEF VisitRun
  <2>3. CASE k <= 1
    BY <1>2, <2>2, <2>3
  <2>4. CASE ~(k <= 1)
    <3>1. k - 1 \in Nat /\ k - 1 <= k /\ k - 1 \in 0 .. k - 1
      BY <2>4
    <3>2. run(k - 1)[k - 1] = run(k)[k - 1]
      BY <1>1, <3>1, VisitRunUnique
    <3>3. c[k - 1] = run(k)[k - 1]
      BY <1>2, <3>1, <3>2
    <3> QED BY <1>2, <2>2, <2>4, <3>3
  <2> QED BY <2>3, <2>4
<1>5. R(c)
  BY <1>3, <1>4
<1>6. v = CHOOSE a : R(a)
  BY DEF Visits, Begin, State
<1> HIDE DEF v
<1>7. R(v)
  <2> HIDE DEF R
  <2> QED BY <1>5, <1>6
<1>8. v[1] = Begin(f, vals)
  BY <1>7
<1>9. ASSUME NEW k \in Nat, k >= 1
      PROVE  v[k + 1] = Leave(f, AtEnd(f, v[k]))
  <2>1. k + 1 \in Nat /\ ~(k + 1 <= 1) /\ (k + 1) - 1 = k
    BY <1>9
  <2>2. v[k + 1] = IF k + 1 <= 1 THEN Begin(f, vals) ELSE Leave(f, AtEnd(f, v[(k + 1) - 1]))
    BY <1>7, <2>1
  <2> QED BY <2>1, <2>2
<1> QED BY <1>8, <1>9 DEF v


------------------------------------------------------------------------------
(* What holds of every state of the function on one thread. *)

LEMMA BodyFacts ==
  ASSUME NEW f, Verified(f), NEW b \in Blocks(f)
  PROVE  /\ Len(f.body[b]) \in Nat /\ Len(f.body[b]) > 0
         /\ DOMAIN f.body[b] = 1 .. Len(f.body[b])
         /\ f.body[b] \in Seq(Instruction)
         /\ \A n \in DOMAIN f.body[b] : f.body[b][n] \in Instrs(f) /\ f.body[b][n] \in Instruction
         /\ Last(f.body[b]) = f.body[b][Len(f.body[b])]
         /\ Len(f.body[b]) \in DOMAIN f.body[b]
         /\ \A n \in DOMAIN f.body[b] : f.body[b][n].op \in {"ret", "br"} <=> n = Len(f.body[b])
<1>1. f.body \in Seq(Seq(Instruction)) /\ f.body[b] # <<>>
  BY DEF Verified
<1>2. f.body[b] \in Seq(Instruction)
  BY <1>1 DEF Blocks
<1> DEFINE r == f.body[b]
<1>3. /\ Len(r) \in Nat /\ Len(r) > 0 /\ DOMAIN r = 1 .. Len(r) /\ Len(r) \in DOMAIN r
      /\ \A n \in DOMAIN r : r[n] \in Instruction
  BY <1>1, <1>2
<1>4. \A n \in DOMAIN r : r[n] \in Instrs(f)
  BY DEF Instrs, ToSet
<1>5. Last(r) = r[Len(r)]
  BY DEF Last
<1>6. \A n \in DOMAIN r : r[n].op \in {"ret", "br"} <=> n = Len(r)
  BY DEF Verified
<1> QED BY <1>2, <1>3, <1>4, <1>5, <1>6

\* A phi has an operand for each predecessor of its block, and only phis before it.
LEMMA PhiRows ==
  ASSUME NEW f, Verified(f), NEW b \in Blocks(f), NEW n \in DOMAIN f.body[b], f.body[b][n].op = "phi"
  PROVE  LET i == f.body[b][n]
         IN  /\ DOMAIN i.args = DOMAIN i.blocks
             /\ 1 \in DOMAIN i.blocks
             /\ \A k \in DOMAIN i.blocks : i.blocks[k] \in Blocks(f) /\ b \in ToSet(Cfg(f)[i.blocks[k]])
             /\ \A c \in Blocks(f) : b \in ToSet(Cfg(f)[c]) => \E k \in DOMAIN i.blocks : i.blocks[k] = c
             /\ \A m \in 1 .. n : f.body[b][m].op = "phi"
             /\ b # 1
<1> DEFINE i == f.body[b][n]
<1>1. i \in Instruction
  BY BodyFacts
<1>2. i.args \in Seq(STRING) /\ i.blocks \in Seq(Nat)
  BY <1>1 DEF Instruction
<1>3. /\ i.args # <<>> /\ Len(i.blocks) = Len(i.args)
      /\ ToSet(i.blocks) = {c \in Blocks(f) : b \in ToSet(Cfg(f)[c])}
      /\ \A m \in 1 .. n : f.body[b][m].op = "phi"
  BY DEF Verified
<1>4. DOMAIN i.args = DOMAIN i.blocks /\ 1 \in DOMAIN i.blocks
  BY <1>2, <1>3
<1> HIDE DEF i
<1>5. \A c : c \in ToSet(i.blocks) <=> \E k \in DOMAIN i.blocks : i.blocks[k] = c
  BY DEF ToSet
<1>6. b # 1
  <2>1. \A c \in Blocks(f) : 1 \notin ToSet(Cfg(f)[c])
    BY DEF Verified
  <2>2. i.blocks[1] \in ToSet(i.blocks)
    BY <1>4, <1>5
  <2>3. i.blocks[1] \in Blocks(f) /\ b \in ToSet(Cfg(f)[i.blocks[1]])
    BY <1>3, <2>2
  <2> QED BY <2>1, <2>3
<1> QED BY <1>3, <1>4, <1>5, <1>6 DEF i

Addresses(f) == {Value(v) : v \in Allocas(f)}
Defined(f)   == {i.name : i \in {j \in Instrs(f) : j.op # "alloca"}}

Passes(f, vals) == /\ DOMAIN vals = {Value(v) : v \in ToSet(f.args)}
                   /\ \A r \in DOMAIN vals : vals[r] \in Int

OneThread(f, vals, s) ==
  /\ Shaped(s)
  /\ s.block \in Blocks(f)
  /\ \A r \in DOMAIN s.env : s.env[r] \in Int /\ (r \in DOMAIN vals \/ \E v \in Defined(f) : r = Value(v))
  /\ \A r \in DOMAIN vals : r \in DOMAIN s.env /\ s.env[r] = vals[r]
  /\ s.mem \in [Addresses(f) -> Int]

LEMMA OperatedInt ==
  ASSUME NEW f, Verified(f), Runnable(f), NEW i \in Instrs(f), NEW s, \A r \in DOMAIN s.env : s.env[r] \in Int
  PROVE  /\ DOMAIN Operated(f, i, s) = DOMAIN i.args
         /\ \A k \in DOMAIN i.args : /\ Operated(f, i, s)[k] = Read(f, s.env, Value(i.args[k]))
                                     /\ Operated(f, i, s)[k] \in Int
<1>1. /\ DOMAIN Operated(f, i, s) = DOMAIN i.args
      /\ \A k \in DOMAIN i.args : Operated(f, i, s)[k] = Read(f, s.env, Value(i.args[k]))
  BY ReadAllFacts, NamesFacts DEF Operated
<1> QED BY <1>1, ReadInt

LEMMA ComputeInt ==
  ASSUME NEW op, NEW vals, vals[1] \in Int, vals[2] \in Int
  PROVE  Compute(op, vals) \in Int
BY DEF Compute

LEMMA InstrOf ==
  ASSUME NEW f, Verified(f), NEW i \in Instrs(f)
  PROVE  \E b \in Blocks(f) : \E n \in DOMAIN f.body[b] : i = f.body[b][n]
<1>1. PICK b \in Blocks(f) : i \in ToSet(f.body[b])
  BY DEF Instrs
<1> QED BY <1>1 DEF ToSet

LEMMA TwoOperands ==
  ASSUME NEW f, Verified(f), Runnable(f), NEW i \in Instrs(f)
  PROVE  /\ i \in Instruction
         /\ i.op \in {"add", "lt", "store"} => DOMAIN i.args = 1 .. 2
         /\ i.op = "load" => DOMAIN i.args = 1 .. 1 /\ Value(i.args[1]) \in Addresses(f)
         /\ i.op = "store" => Value(i.args[2]) \in Addresses(f)
         /\ i.name \notin ToSet(f.args) \cup DOMAIN f.consts
<1>1. PICK b \in Blocks(f) : \E n \in DOMAIN f.body[b] : i = f.body[b][n]
  BY InstrOf
<1>2. PICK n \in DOMAIN f.body[b] : i = f.body[b][n]
  BY <1>1
<1>3. i \in Instruction
  BY <1>2, BodyFacts
<1>4. i.args \in Seq(STRING)
  BY <1>3 DEF Instruction
<1>5. DOMAIN i.args = 1 .. Len(i.args)
  BY <1>4
<1>6. i.name \notin ToSet(f.args) \cup DOMAIN f.consts
  BY <1>2 DEF Verified
<1> QED BY <1>3, <1>5, <1>6 DEF Runnable, Addresses

LEMMA ExecuteKeeps ==
  ASSUME NEW f, Verified(f), Runnable(f), NEW vals, Passes(f, vals),
         NEW i \in Instrs(f), NEW s, OneThread(f, vals, s)
  PROVE  OneThread(f, vals, Execute(f, i, s)) /\ Execute(f, i, s).block = s.block
<1> DEFINE t == Execute(f, i, s)
           xs == Operated(f, i, s)
<1>1. Shaped(s) /\ \A r \in DOMAIN s.env : s.env[r] \in Int
  BY DEF OneThread
<1>2. /\ Shaped(t) /\ t.block = s.block
      /\ t.env = IF i.op \in {"add", "lt"}
                 THEN Extended(s.env, Value(i.name), Compute(i.op, xs))
                 ELSE IF i.op = "load"
                 THEN Extended(s.env, Value(i.name), s.mem[Value(i.args[1])])
                 ELSE s.env
      /\ t.mem = IF i.op = "store" THEN [s.mem EXCEPT ![Value(i.args[2])] = xs[1]]
                 ELSE s.mem
  BY <1>1, ExecuteFields
<1>3. /\ i.op \in {"add", "lt", "store"} => DOMAIN i.args = 1 .. 2
      /\ i.op = "load" => DOMAIN i.args = 1 .. 1 /\ Value(i.args[1]) \in Addresses(f)
      /\ i.op = "store" => Value(i.args[2]) \in Addresses(f)
      /\ i.name \notin ToSet(f.args) \cup DOMAIN f.consts
  BY TwoOperands
<1>4. \A k \in DOMAIN i.args : xs[k] \in Int
  BY <1>1, OperatedInt
<1> HIDE DEF t, xs
<1>5. i.op \in {"add", "lt"} => Compute(i.op, xs) \in Int
  BY <1>3, <1>4, ComputeInt
<1>6. s.mem \in [Addresses(f) -> Int]
  BY DEF OneThread
<1>7. t.mem \in [Addresses(f) -> Int]
  <2>1. CASE i.op = "store"
    <3>1. xs[1] \in Int
      BY <1>3, <1>4, <2>1
    <3> QED BY <1>2, <1>6, <2>1, <3>1
  <2> QED BY <1>2, <1>6, <2>1
<1>8. Value(i.name) \notin DOMAIN vals
  BY <1>3, RegistersApart DEF Passes
<1>9. i.op # "alloca" => i.name \in Defined(f)
  BY DEF Defined
<1>10. ASSUME NEW y \in Int, i.op # "alloca", t.env = Extended(s.env, Value(i.name), y)
       PROVE  OneThread(f, vals, t)
  <2>1. /\ DOMAIN t.env = DOMAIN s.env \cup {Value(i.name)}
        /\ t.env[Value(i.name)] = y
        /\ \A z \in DOMAIN s.env : z # Value(i.name) => t.env[z] = s.env[z]
    <3> DEFINE e == s.env
               x == Value(i.name)
               u == Extended(e, x, y)
    <3>1. DOMAIN u = DOMAIN e \cup {x} /\ u[x] = y /\ \A z \in DOMAIN e : z # x => u[z] = e[z]
      <4> HIDE DEF e, x
      <4> QED BY DEF Extended
    <3>2. t.env = u
      BY <1>10
    <3> HIDE DEF u
    <3> QED BY <3>1, <3>2
  <2>2. \A r \in DOMAIN t.env : t.env[r] \in Int /\ (r \in DOMAIN vals \/ \E v \in Defined(f) : r = Value(v))
    BY <1>9, <1>10, <2>1 DEF OneThread
  <2>3. \A r \in DOMAIN vals : r \in DOMAIN t.env /\ t.env[r] = vals[r]
    BY <1>8, <2>1 DEF OneThread
  <2> QED BY <1>2, <1>7, <2>2, <2>3 DEF OneThread
<1>11. CASE i.op \in {"add", "lt"}
  BY <1>2, <1>5, <1>10, <1>11 DEF t
<1>12. CASE i.op = "load"
  <2>1. s.mem[Value(i.args[1])] \in Int
    BY <1>3, <1>6, <1>12
  <2> QED BY <1>2, <1>10, <1>12, <2>1 DEF t
<1>13. CASE i.op \notin {"add", "lt", "load"}
  <2>1. t.env = s.env
    BY <1>2, <1>13
  <2>2. OneThread(f, vals, t)
    BY <1>2, <1>7, <2>1 DEF OneThread
  <2> QED BY <1>2, <2>2 DEF t
<1> QED BY <1>11, <1>12, <1>13

LEMMA WithinKeeps ==
  ASSUME NEW f, Verified(f), Runnable(f), NEW vals, Passes(f, vals), NEW s, OneThread(f, vals, s)
  PROVE  \A n \in 0 .. Len(f.body[s.block]) :
           OneThread(f, vals, Within(f, s)[n]) /\ Within(f, s)[n].block = s.block
<1> DEFINE N == Len(f.body[s.block])
           w == Within(f, s)
           S == {n \in 0 .. N : OneThread(f, vals, w[n]) /\ w[n].block = s.block}
<1>0. s.block \in Blocks(f)
  BY DEF OneThread
<1>1. N \in Nat /\ DOMAIN f.body[s.block] = 1 .. N
  BY <1>0, BodyFacts
<1>2. w[0] = s /\ \A n \in 1 .. N : w[n] = Execute(f, f.body[s.block][n], w[n - 1])
  BY <1>1, WithinSteps
<1>3. \A n \in 1 .. N : f.body[s.block][n] \in Instrs(f)
  BY <1>0, <1>1, BodyFacts
<1> HIDE DEF w, N
<1>4. 0 \in S
  BY <1>1, <1>2
<1>5. ASSUME NEW n \in 0 .. N, n + 1 \in 0 .. N, n \in S PROVE n + 1 \in S
  <2>1. n + 1 \in 1 .. N /\ (n + 1) - 1 = n
    BY <1>1, <1>5
  <2>2. w[n + 1] = Execute(f, f.body[s.block][n + 1], w[n])
    BY <1>2, <2>1
  <2>3. OneThread(f, vals, w[n + 1]) /\ w[n + 1].block = s.block
    BY <1>3, <1>5, <2>1, <2>2, ExecuteKeeps
  <2> QED BY <1>5, <2>3
<1>6. \A n \in 0 .. N : n \in S
  <2> HIDE DEF S
  <2> QED BY <1>1, <1>4, <1>5, UpTo
<1> QED BY <1>6 DEF w, N

\* What a phi reads when its block is entered from block prev.
Source(i, prev) == i.args[CHOOSE n \in DOMAIN i.blocks : i.blocks[n] = prev]
Regs(phis)      == {i.reg : i \in phis}

EnteredWith(f, phis, prev, env, e) ==
  /\ DOMAIN e = DOMAIN env \cup Regs(phis)
  /\ \A r \in DOMAIN env \ Regs(phis) : e[r] = env[r]
  /\ \A i \in phis : (\A j \in phis : j.reg = i.reg => j = i) =>
       e[i.reg] = Read(f, env, Source(i, prev))

LEMMA EnterFields ==
  ASSUME NEW f, NEW phis, NEW prev, NEW env
  PROVE  EnteredWith(f, phis, prev, env, Enter(f, phis, prev, env))
<1> DEFINE phi(r) == CHOOSE i \in phis : i.reg = r
           e == Enter(f, phis, prev, env)
<1>1. e = [r \in DOMAIN env \cup Regs(phis) |->
             IF r \in Regs(phis) THEN Read(f, env, Source(phi(r), prev)) ELSE env[r]]
  BY DEF Enter, Source, Regs
<1> HIDE DEF e, phi
<1>2. /\ DOMAIN e = DOMAIN env \cup Regs(phis)
      /\ \A r \in DOMAIN env \ Regs(phis) : e[r] = env[r]
      /\ \A r \in Regs(phis) : e[r] = Read(f, env, Source(phi(r), prev))
  BY <1>1
<1>3. ASSUME NEW i \in phis, \A j \in phis : j.reg = i.reg => j = i
      PROVE  e[i.reg] = Read(f, env, Source(i, prev))
  <2>1. phi(i.reg) = i
    BY <1>3 DEF phi
  <2>2. i.reg \in Regs(phis)
    BY DEF Regs
  <2> QED BY <1>2, <2>1, <2>2
<1> QED BY <1>2, <1>3 DEF e, EnteredWith

LEMMA EnterInt ==
  ASSUME NEW f, Runnable(f), NEW phis, NEW prev, NEW env, \A r \in DOMAIN env : env[r] \in Int
  PROVE  \A r \in DOMAIN Enter(f, phis, prev, env) : Enter(f, phis, prev, env)[r] \in Int
<1> DEFINE phi(r) == CHOOSE i \in phis : i.reg = r
           e == Enter(f, phis, prev, env)
<1>1. e = [r \in DOMAIN env \cup Regs(phis) |->
             IF r \in Regs(phis) THEN Read(f, env, Source(phi(r), prev)) ELSE env[r]]
  BY DEF Enter, Source, Regs
<1> HIDE DEF phi
<1>2. \A r : Read(f, env, Source(phi(r), prev)) \in Int
  BY ReadInt
<1> HIDE DEF e
<1>3. \A r \in DOMAIN e : e[r] \in Int
  BY <1>1, <1>2
<1> QED BY <1>3 DEF e

\* The destinations of a branch are blocks that it names.
LEMMA DestinationFacts ==
  ASSUME NEW f, Verified(f), NEW b \in Blocks(f), NEW vals, Last(f.body[b]).op = "br"
  PROVE  /\ Destination(Last(f.body[b]).blocks, vals) \in Blocks(f)
         /\ Destination(Last(f.body[b]).blocks, vals) \in ToSet(Cfg(f)[b])
<1> DEFINE i == Last(f.body[b])
           bs == i.blocks
<1>1. PICK n \in DOMAIN f.body[b] : i = f.body[b][n]
  BY BodyFacts
<1>2. i \in Instruction
  BY <1>1, BodyFacts
<1>3. bs \in Seq(Nat) /\ i.args \in Seq(STRING)
  BY <1>2 DEF Instruction
<1>4. ToSet(bs) \subseteq Blocks(f) /\ <<Len(i.args), Len(bs)>> \in {<<0, 1>>, <<1, 2>>}
  BY <1>1 DEF Verified
<1>5. Len(bs) = 1 \/ Len(bs) = 2
  BY <1>4
<1> HIDE DEF bs
<1>6. Destination(bs, vals) \in ToSet(bs)
  <2>1. 1 \in DOMAIN bs /\ (Len(bs) # 1 => 2 \in DOMAIN bs)
    BY <1>3, <1>5
  <2> QED BY <2>1 DEF Destination, ToSet
<1>7. Cfg(f)[b] = bs
  BY DEF Cfg, bs
<1> QED BY <1>4, <1>6, <1>7 DEF bs

\* A block of the function: where it goes, and with which registers.
To(f, s) == Destination(Last(f.body[s.block]).blocks, Operated(f, Last(f.body[s.block]), s))

LEMMA LeaveFields ==
  ASSUME NEW f, NEW s, Shaped(s), Last(f.body[s.block]).op = "br"
  PROVE  Leave(f, s) = State(To(f, s), Enter(f, PhisOf(f, To(f, s)), s.block, s.env), s.mem, s.out)
BY DEF Leave, To, Operated, State

LEMMA PhisFacts ==
  ASSUME NEW f, Verified(f), NEW b \in Blocks(f)
  PROVE  /\ \A i \in PhisOf(f, b) : \E v \in Defined(f) : i.reg = Value(v)
         /\ \A i, j \in PhisOf(f, b) : i.reg = j.reg => i = j
<1>1. ASSUME NEW i \in PhisOf(f, b)
      PROVE  \E j \in Instrs(f) : /\ j.op = "phi" /\ i.reg = Value(j.name)
                                  /\ i = [reg |-> Value(j.name), args |-> Names(j.args), blocks |-> j.blocks]
  BY DEF PhisOf, Instrs
<1>2. \A i \in PhisOf(f, b) : \E v \in Defined(f) : i.reg = Value(v)
  BY <1>1 DEF Defined
<1>3. ASSUME NEW i \in PhisOf(f, b), NEW j \in PhisOf(f, b), i.reg = j.reg
      PROVE  i = j
  <2>1. PICK x \in Instrs(f) : /\ i.reg = Value(x.name)
                               /\ i = [reg |-> Value(x.name), args |-> Names(x.args), blocks |-> x.blocks]
    BY <1>1
  <2>2. PICK y \in Instrs(f) : /\ j.reg = Value(y.name)
                               /\ j = [reg |-> Value(y.name), args |-> Names(y.args), blocks |-> y.blocks]
    BY <1>1
  <2>3. x.name = y.name
    BY <1>3, <2>1, <2>2, RegistersApart
  <2>4. x = y
    <3>1. PICK b1 \in Blocks(f) : \E n \in DOMAIN f.body[b1] : x = f.body[b1][n]
      BY InstrOf
    <3>2. PICK b2 \in Blocks(f) : \E n \in DOMAIN f.body[b2] : y = f.body[b2][n]
      BY InstrOf
    <3>3. PICK n1 \in DOMAIN f.body[b1] : x = f.body[b1][n1]
      BY <3>1
    <3>4. PICK n2 \in DOMAIN f.body[b2] : y = f.body[b2][n2]
      BY <3>2
    <3> QED BY <2>3, <3>3, <3>4 DEF Verified
  <2> QED BY <2>1, <2>2, <2>4
<1> QED BY <1>2, <1>3

LEMMA LeaveKeeps ==
  ASSUME NEW f, Verified(f), Runnable(f), NEW vals, Passes(f, vals), NEW s, OneThread(f, vals, s)
  PROVE  OneThread(f, vals, Leave(f, s))
<1>0. Shaped(s) /\ s.block \in Blocks(f) /\ \A r \in DOMAIN s.env : s.env[r] \in Int
  BY DEF OneThread
<1>1. CASE Last(f.body[s.block]).op # "br"
  BY <1>1 DEF Leave
<1>2. CASE Last(f.body[s.block]).op = "br"
  <2> DEFINE to == To(f, s)
             e  == Enter(f, PhisOf(f, to), s.block, s.env)
  <2>1. Leave(f, s) = State(to, e, s.mem, s.out)
    BY <1>0, <1>2, LeaveFields
  <2>2. to \in Blocks(f)
    BY <1>0, <1>2, DestinationFacts DEF To
  <2>3. \A r \in DOMAIN e : e[r] \in Int
    BY <1>0, EnterInt
  <2>4. /\ DOMAIN e = DOMAIN s.env \cup Regs(PhisOf(f, to))
        /\ \A r \in DOMAIN s.env \ Regs(PhisOf(f, to)) : e[r] = s.env[r]
    <3>1. EnteredWith(f, PhisOf(f, to), s.block, s.env, e)
      BY EnterFields
    <3> QED BY <3>1 DEF EnteredWith
  <2>5. \A r \in Regs(PhisOf(f, to)) : \E v \in Defined(f) : r = Value(v)
    BY <2>2, PhisFacts DEF Regs
  <2>6. \A r \in DOMAIN vals : r \notin Regs(PhisOf(f, to))
    <3>1. \A v \in Defined(f) : v \notin ToSet(f.args)
      BY TwoOperands DEF Defined
    <3> QED BY <2>5, <3>1, RegistersApart DEF Passes
  <2> HIDE DEF e, to
  <2>7. \A r \in DOMAIN vals : r \in DOMAIN e /\ e[r] = vals[r]
    BY <2>4, <2>6 DEF OneThread
  <2>8. \A r \in DOMAIN e : e[r] \in Int /\ (r \in DOMAIN vals \/ \E v \in Defined(f) : r = Value(v))
    BY <2>3, <2>4, <2>5 DEF OneThread
  <2>9. s.mem \in [Addresses(f) -> Int]
    BY DEF OneThread
  <2> DEFINE u == State(to, e, s.mem, s.out)
  <2>10. u.block = to /\ u.env = e /\ u.mem = s.mem /\ Shaped(u)
    BY StateFields
  <2> HIDE DEF u
  <2>11. OneThread(f, vals, u)
    BY <2>2, <2>7, <2>8, <2>9, <2>10 DEF OneThread
  <2> QED BY <2>1, <2>11 DEF u
<1> QED BY <1>1, <1>2

LEMMA VisitsOneThread ==
  ASSUME NEW f, Verified(f), Runnable(f), NEW vals, Passes(f, vals), NEW k \in Nat, k >= 1
  PROVE  /\ OneThread(f, vals, Visits(f, vals)[k])
         /\ \A n \in 0 .. Len(f.body[Visits(f, vals)[k].block]) :
              /\ OneThread(f, vals, Within(f, Visits(f, vals)[k])[n])
              /\ Within(f, Visits(f, vals)[k])[n].block = Visits(f, vals)[k].block
<1> DEFINE v == Visits(f, vals)
           S == {n \in 0 .. k : n = 0 \/ OneThread(f, vals, v[n])}
<1>1. /\ v[1] = Begin(f, vals)
      /\ \A n \in Nat : n >= 1 => v[n + 1] = Leave(f, AtEnd(f, v[n]))
  BY VisitsSteps
<1> HIDE DEF v
<1>2. OneThread(f, vals, Begin(f, vals))
  <2> DEFINE b == Begin(f, vals)
  <2>1. /\ b.block = 1 /\ b.env = vals /\ b.mem = ZeroMemory(f) /\ Shaped(b)
    BY StateFields DEF Begin
  <2> HIDE DEF b
  <2>2. 1 \in Blocks(f)
    BY DEF Verified, Blocks
  <2>3. ZeroMemory(f) \in [Addresses(f) -> Int]
    BY DEF ZeroMemory, Addresses
  <2> QED BY <2>1, <2>2, <2>3 DEF OneThread, Passes, b
<1>3. ASSUME NEW n \in 0 .. k, n + 1 \in 0 .. k, n \in S PROVE n + 1 \in S
  <2>1. CASE n = 0
    BY <1>1, <1>2, <1>3, <2>1
  <2>2. CASE n # 0
    <3>1. n \in Nat /\ n >= 1 /\ OneThread(f, vals, v[n])
      BY <1>3, <2>2
    <3>2. v[n].block \in Blocks(f)
      BY <3>1 DEF OneThread
    <3>3. Len(f.body[v[n].block]) \in 0 .. Len(f.body[v[n].block])
      BY <3>2, BodyFacts
    <3>4. OneThread(f, vals, AtEnd(f, v[n]))
      BY <3>1, <3>3, WithinKeeps DEF AtEnd
    <3>5. OneThread(f, vals, v[n + 1])
      BY <1>1, <3>1, <3>4, LeaveKeeps
    <3> QED BY <1>3, <3>5
  <2> QED BY <2>1, <2>2
<1>4. \A n \in 0 .. k : n \in S
  <2>1. 0 \in S
    OBVIOUS
  <2> HIDE DEF S
  <2> QED BY <1>3, <2>1, UpTo
<1>5. OneThread(f, vals, v[k])
  BY <1>4
<1>6. \A n \in 0 .. Len(f.body[v[k].block]) :
        OneThread(f, vals, Within(f, v[k])[n]) /\ Within(f, v[k])[n].block = v[k].block
  BY <1>5, WithinKeeps
<1> QED BY <1>5, <1>6 DEF v

------------------------------------------------------------------------------
(* What partition p can see of a state does not change while the function   *)
(* executes instructions of other partitions.                                *)

Before(f, vals, k, m) == Within(f, Visits(f, vals)[k])[m - 1]

Holding(f, pl, p, ops) == \A i \in Instrs(f) : i.op \in ops => pl[i.name] = p

Agree(f, pl, p, s, t) ==
  /\ \A v \in DOMAIN pl : pl[v] = p => Read(f, s.env, Value(v)) = Read(f, t.env, Value(v))
  /\ Holding(f, pl, p, {"load", "store"}) => s.mem = t.mem
  /\ Holding(f, pl, p, {"call"}) => s.out = t.out

Inert == {"alloca", "phi", "ret", "br"}
Quiet(f, pl, p, i) == i.op \in Inert \/ pl[i.name] # p

LEMMA QuietAgrees ==
  ASSUME NEW f, Verified(f), NEW pl, NEW p, NEW i \in Instrs(f), NEW s, Shaped(s),
         Quiet(f, pl, p, i)
  PROVE  Agree(f, pl, p, s, Execute(f, i, s))
<1> DEFINE t == Execute(f, i, s)
           xs == Operated(f, i, s)
<1>1. /\ t.env = IF i.op \in {"add", "lt"}
                 THEN Extended(s.env, Value(i.name), Compute(i.op, xs))
                 ELSE IF i.op = "load"
                 THEN Extended(s.env, Value(i.name), s.mem[Value(i.args[1])])
                 ELSE s.env
      /\ t.mem = IF i.op = "store" THEN [s.mem EXCEPT ![Value(i.args[2])] = xs[1]]
                 ELSE s.mem
      /\ t.out = IF i.op = "call" THEN Append(s.out, xs) ELSE s.out
  BY ExecuteFields
<1> HIDE DEF t, xs
<1>2. ASSUME NEW v \in DOMAIN pl, pl[v] = p
      PROVE  Read(f, s.env, Value(v)) = Read(f, t.env, Value(v))
  <2>1. CASE i.op \in Inert
    BY <1>1, <2>1 DEF Inert
  <2>2. CASE pl[i.name] # p
    <3>1. Value(v) # Value(i.name)
      BY <1>2, <2>2, RegistersApart
    <3>2. \A y : Read(f, Extended(s.env, Value(i.name), y), Value(v)) = Read(f, s.env, Value(v))
      BY <3>1, ReadExtended
    <3> QED BY <1>1, <3>2
  <2> QED BY <2>1, <2>2 DEF Quiet
<1>3. Holding(f, pl, p, {"load", "store"}) => s.mem = t.mem
  BY <1>1 DEF Holding, Quiet, Inert
<1>4. Holding(f, pl, p, {"call"}) => s.out = t.out
  BY <1>1 DEF Holding, Quiet, Inert
<1> QED BY <1>2, <1>3, <1>4 DEF Agree, t

LEMMA AgreeTransitive ==
  ASSUME NEW f, NEW pl, NEW p, NEW s, NEW t, NEW u, Agree(f, pl, p, s, t), Agree(f, pl, p, t, u)
  PROVE  Agree(f, pl, p, s, u)
BY DEF Agree

LEMMA QuietLines ==
  ASSUME NEW f, Verified(f), Runnable(f), NEW vals, Passes(f, vals), NEW pl, NEW p,
         NEW k \in Nat, k >= 1, NEW b, b = Visits(f, vals)[k].block,
         NEW l \in Nat, NEW m \in Nat, 1 <= l, l <= m, m <= Len(f.body[b]) + 1,
         \A n \in Nat : l <= n /\ n < m => Quiet(f, pl, p, f.body[b][n])
  PROVE  Agree(f, pl, p, Before(f, vals, k, l), Before(f, vals, k, m))
<1> DEFINE w == Within(f, Visits(f, vals)[k])
           N == Len(f.body[b])
           S == {n \in 0 .. m - l : Agree(f, pl, p, w[l - 1], w[l - 1 + n])}
<1>1. b \in Blocks(f)
  BY VisitsOneThread DEF OneThread
<1>2. N \in Nat /\ DOMAIN f.body[b] = 1 .. N
  BY <1>1, BodyFacts
<1>3. \A n \in 1 .. N : w[n] = Execute(f, f.body[b][n], w[n - 1])
  BY <1>2, WithinSteps
<1>4. \A n \in 0 .. N : Shaped(w[n])
  BY VisitsOneThread DEF OneThread
<1>5. \A n \in 1 .. N : f.body[b][n] \in Instrs(f)
  BY <1>1, <1>2, BodyFacts
<1> HIDE DEF w, N
<1>6. m <= N + 1
  BY DEF N
<1>7. 0 \in S
  <2>1. l - 1 + 0 = l - 1 /\ 0 \in 0 .. m - l
    OBVIOUS
  <2> QED BY <2>1 DEF Agree
<1>8. ASSUME NEW n \in 0 .. m - l, n + 1 \in 0 .. m - l, n \in S
      PROVE  n + 1 \in S
  <2> DEFINE x == l + n
  <2>1. x \in 1 .. N /\ l <= x /\ x < m /\ x \in Nat
    BY <1>2, <1>6, <1>8
  <2>2. l - 1 + n = x - 1 /\ l - 1 + (n + 1) = x
    OBVIOUS
  <2> HIDE DEF x
  <2>3. x - 1 \in 0 .. N
    BY <1>2, <2>1
  <2>4. Quiet(f, pl, p, f.body[b][x])
    BY <2>1
  <2>5. Agree(f, pl, p, w[x - 1], Execute(f, f.body[b][x], w[x - 1]))
    BY <1>4, <1>5, <2>1, <2>3, <2>4, QuietAgrees
  <2>6. Agree(f, pl, p, w[x - 1], w[x])
    BY <1>3, <2>1, <2>5
  <2>7. Agree(f, pl, p, w[l - 1], w[x - 1])
    BY <1>8, <2>2
  <2>8. Agree(f, pl, p, w[l - 1], w[x])
    BY <2>6, <2>7, AgreeTransitive
  <2> QED BY <1>8, <2>2, <2>8
<1>9. m - l \in Nat /\ l - 1 + (m - l) = m - 1 /\ m - l \in 0 .. m - l
  OBVIOUS
<1>10. \A n \in 0 .. m - l : n \in S
  <2> HIDE DEF S
  <2> QED BY <1>7, <1>8, <1>9, UpTo
<1>11. Agree(f, pl, p, w[l - 1], w[m - 1])
  BY <1>9, <1>10
<1> QED BY <1>11 DEF w, Before

------------------------------------------------------------------------------
(* The finished code. *)

\* What stays the same during a call: the function, the placement, the code, the
\* addresses and the values of the arguments.
Settled(g) ==
  /\ Verified(g.f) /\ Runnable(g.f) /\ Passes(g.f, g.vals)
  /\ g.place \in Placements(g.f)
  /\ CodeOK(g.f, g.place, g.args, g.code)
  /\ InRange(g.f, g.args, g.code, g.ids)

LEMMA RowFacts ==
  ASSUME NEW g, Settled(g), NEW p \in DOMAIN g.code, NEW b \in Blocks(g.f)
  PROVE  LET r == g.code[p][b]
         IN  /\ Len(r) \in Nat /\ Len(r) > 0 /\ DOMAIN r = 1 .. Len(r) /\ Len(r) \in DOMAIN r
             /\ Terminal(r[Len(r)])
             /\ \A n \in DOMAIN r : /\ ItemOK(g.f, g.place, g.args, g.code, p, b, r[n])
                                    /\ r[n].line \in Nat /\ r[n].line >= 1
                                    /\ r[n].line <= Len(g.f.body[b])
                                    /\ r[n].line \in DOMAIN g.f.body[b]
                                    /\ r[n] \in ToSet(r)
             /\ RowOK(r)
<1> DEFINE r == g.code[p][b]
<1>1. Len(r) \in Nat /\ DOMAIN r = 1 .. Len(r)
  BY DEF Settled, CodeOK, RowsTyped
<1>2. Len(r) > 0 /\ Terminal(r[Len(r)]) /\ RowOK(r)
  BY DEF Settled, CodeOK, Complete, Last
<1>3. \A n \in DOMAIN r : r[n] \in ToSet(r)
  BY DEF ToSet
<1>4. \A n \in DOMAIN r : ItemOK(g.f, g.place, g.args, g.code, p, b, r[n])
  BY <1>3 DEF Settled, CodeOK, ItemsOK
<1>5. DOMAIN g.f.body[b] = 1 .. Len(g.f.body[b]) /\ Len(g.f.body[b]) \in Nat
  BY BodyFacts DEF Settled
<1>6. \A n \in DOMAIN r : r[n].line \in DOMAIN g.f.body[b]
  BY <1>4 DEF ItemOK
<1>7. \A n \in DOMAIN r : /\ r[n].line \in Nat /\ r[n].line >= 1
                            /\ r[n].line <= Len(g.f.body[b])
  BY <1>5, <1>6
<1>8. Len(r) \in DOMAIN r
  BY <1>1, <1>2
<1> HIDE DEF r
<1> QED BY <1>1, <1>2, <1>3, <1>4, <1>6, <1>7, <1>8 DEF r

LEMMA RowSorted ==
  ASSUME NEW g, Settled(g), NEW p \in DOMAIN g.code, NEW b \in Blocks(g.f)
  PROVE  /\ Len(g.code[p][b]) \in Nat /\ DOMAIN g.code[p][b] = 1 .. Len(g.code[p][b])
         /\ RowOK(g.code[p][b])
<1>1. PICK r : r = g.code[p][b]
  OBVIOUS
<1>2. Len(r) \in Nat /\ DOMAIN r = 1 .. Len(r) /\ RowOK(r)
  BY <1>1, RowFacts
<1> QED BY <1>1, <1>2

LEMMA RowLine ==
  ASSUME NEW g, Settled(g), NEW p \in DOMAIN g.code, NEW b \in Blocks(g.f), NEW n \in DOMAIN g.code[p][b]
  PROVE  /\ g.code[p][b][n].line \in Nat /\ g.code[p][b][n].line >= 1
         /\ g.code[p][b][n].line <= Len(g.f.body[b]) /\ g.code[p][b][n].line \in DOMAIN g.f.body[b]
<1>1. PICK r : r = g.code[p][b]
  OBVIOUS
<1>2. /\ r[n].line \in Nat /\ r[n].line >= 1
      /\ r[n].line <= Len(g.f.body[b]) /\ r[n].line \in DOMAIN g.f.body[b]
  BY <1>1, RowFacts
<1> QED BY <1>1, <1>2

\* The items of an instruction that is a phi are its copies.
PhiMatched(f, b, i) == /\ i.op = "phi" <=> f.body[b][i.line].op = "phi"
                       /\ i.op = "phi" => i.do = "exec"

LEMMA PhiItem ==
  ASSUME NEW g, Settled(g), NEW p \in DOMAIN g.code, NEW b \in Blocks(g.f),
         NEW n \in DOMAIN g.code[p][b]
  PROVE  PhiMatched(g.f, b, g.code[p][b][n])
<1> DEFINE i == g.code[p][b][n]
           j == g.f.body[b][i.line]
<1>1. ItemOK(g.f, g.place, g.args, g.code, p, b, i) /\ i.line \in DOMAIN g.f.body[b]
  BY RowFacts
<1>2. Verified(g.f)
  BY DEF Settled
<1> SUFFICES i.op = "phi" <=> j.op = "phi"
  BY <1>1 DEF PhiMatched, ItemOK
<1>3. CASE i.do = "exec"
  BY <1>1, <1>3 DEF ItemOK, ExecOK
<1>4. CASE IsComm(i)
  <2>1. i.op = "none" /\ j.op # "phi"
    BY <1>1, <1>4 DEF ItemOK, CommOK, IsComm
  <2> QED BY <2>1
<1>5. CASE i.do = "peek"
  <2>1. i.op = "none" /\ b = 1 /\ i.line = 1
    BY <1>1, <1>5 DEF ItemOK, PeekOK
  <2>2. j.op # "phi"
    BY <1>1, <1>2, <2>1, PhiRows
  <2> QED BY <2>1, <2>2
<1>6. CASE i.do \in {"send_return", "ret"}
  <2>1. i.op = "none" /\ i.line = Len(g.f.body[b]) /\ Last(g.f.body[b]).op = "ret"
    BY <1>1, <1>6 DEF ItemOK, ReturnOK
  <2>2. j.op = "ret"
    BY <2>1 DEF Last
  <2> QED BY <2>1, <2>2
<1> QED BY <1>1, <1>3, <1>4, <1>5, <1>6 DEF ItemOK, Calls, IsComm

\* The phis come first in a row.
LEMMA PhisFirst ==
  ASSUME NEW g, Settled(g), NEW p \in DOMAIN g.code, NEW b \in Blocks(g.f)
  PROVE  \E K \in Nat : /\ {n \in DOMAIN g.code[p][b] : g.code[p][b][n].op = "phi"} = 1 .. K
                        /\ Cardinality({n \in DOMAIN g.code[p][b] : g.code[p][b][n].op = "phi"}) = K
                        /\ K + 1 \in DOMAIN g.code[p][b]
<1> DEFINE r == g.code[p][b]
           phi(n) == r[n].op = "phi"
           P == {n \in DOMAIN r : phi(n)}
           L == Len(r)
           S == {n \in 0 .. L : \A m \in 1 .. n : phi(m)}
<1>1. /\ L \in Nat /\ L > 0 /\ DOMAIN r = 1 .. L /\ Terminal(r[L]) /\ RowOK(r)
      /\ \A n \in DOMAIN r : r[n].line \in Nat /\ r[n].line >= 1 /\ r[n].line \in DOMAIN g.f.body[b]
  BY RowFacts
<1>2. /\ Verified(g.f)
      /\ \A n \in DOMAIN r : /\ phi(n) <=> g.f.body[b][r[n].line].op = "phi"
                             /\ phi(n) => r[n].do = "exec"
  <2>1. ASSUME NEW n \in DOMAIN r
        PROVE  /\ phi(n) <=> g.f.body[b][r[n].line].op = "phi"
               /\ phi(n) => r[n].do = "exec"
    <3>1. PhiMatched(g.f, b, r[n])
      BY PhiItem
    <3> QED BY <3>1 DEF PhiMatched
  <2> QED BY <2>1 DEF Settled
<1>3. \A n \in DOMAIN r : phi(n) => r[n].do = "exec"
  BY <1>2
<1> HIDE DEF r
<1>4. ASSUME NEW n \in DOMAIN r, NEW m \in DOMAIN r, m < n, phi(n)
      PROVE  phi(m)
  <2>1. r[m].line <= r[n].line
    BY <1>1, <1>4 DEF RowOK
  <2>2. \A x \in 1 .. r[n].line : g.f.body[b][x].op = "phi"
    BY <1>1, <1>2, <1>4, PhiRows
  <2>3. r[m].line \in 1 .. r[n].line
    BY <1>1, <2>1
  <2> QED BY <1>2, <2>2, <2>3
<1>5. ~phi(L)
  BY <1>1, <1>3 DEF Terminal
<1>6. \E n \in 0 .. L : n + 1 \in 0 .. L /\ n \in S /\ n + 1 \notin S
  <2> SUFFICES ASSUME \A n \in 0 .. L : n + 1 \in 0 .. L /\ n \in S => n + 1 \in S
               PROVE  FALSE
    OBVIOUS
  <2>1. 0 \in S
    BY <1>1
  <2>2. L \in 0 .. L /\ L \in 1 .. L
    BY <1>1
  <2>3. \A n \in 0 .. L : n \in S
    <3> HIDE DEF S
    <3> QED BY <1>1, <2>1, UpTo
  <2> QED BY <1>5, <2>2, <2>3
<1>7. PICK K \in 0 .. L : K + 1 \in 0 .. L /\ K \in S /\ K + 1 \notin S
  BY <1>6
<1>8. K \in Nat /\ K + 1 \in DOMAIN r
  BY <1>1, <1>7
<1>9. ~phi(K + 1)
  <2>1. ASSUME phi(K + 1) PROVE \A m \in 1 .. K + 1 : phi(m)
    <3> TAKE m \in 1 .. K + 1
    <3>1. m \in 1 .. K \/ m = K + 1
      BY <1>8
    <3> QED BY <1>7, <2>1, <3>1
  <2> QED BY <1>7, <2>1
<1>10. P = 1 .. K
  <2>1. ASSUME NEW n \in P PROVE n \in 1 .. K
    <3>1. n \in Nat /\ n >= 1
      BY <1>1
    <3>2. ~(K + 1 < n)
      BY <1>4, <1>8, <1>9
    <3>3. n # K + 1
      BY <1>9
    <3> QED BY <1>8, <3>1, <3>2, <3>3
  <2>2. ASSUME NEW n \in 1 .. K PROVE n \in P
    <3>1. n \in DOMAIN r
      BY <1>1, <1>7
    <3> QED BY <1>7, <3>1
  <2> QED BY <2>1, <2>2
<1>11. Cardinality(1 .. K) = K
  <2>1. 1 \in Int /\ K \in Int /\ Cardinality(1 .. K) = IF 1 > K THEN 0 ELSE K - 1 + 1
    BY <1>8, FS_Interval
  <2> QED BY <1>8, <2>1
<1> QED BY <1>8, <1>10, <1>11 DEF r

\* An instruction of the partition that does anything has its copy in the row.
LEMMA CopyExists ==
  ASSUME NEW g, Settled(g), NEW p \in DOMAIN g.code, NEW b \in Blocks(g.f),
         NEW l \in DOMAIN g.f.body[b], ~Quiet(g.f, g.place, p, g.f.body[b][l])
  PROVE  \E n \in DOMAIN g.code[p][b] : g.code[p][b][n].do = "exec" /\ g.code[p][b][n].line = l
<1> DEFINE j == g.f.body[b][l]
<1>1. j.op \notin Inert /\ g.place[j.name] = p
  BY DEF Quiet
<1>2. j.op \notin {"alloca", "ret", "br"}
  BY <1>1 DEF Inert
<1>3. \E i \in ToSet(g.code[g.place[j.name]][b]) : i.do = "exec" /\ i.line = l
  BY <1>2 DEF Settled, CodeOK, Complete
<1>4. PICK i \in ToSet(g.code[p][b]) : i.do = "exec" /\ i.line = l
  BY <1>1, <1>3
<1> QED BY <1>4 DEF ToSet

\* Between two items of a row nothing happens on the partition.
LEMMA Gap ==
  ASSUME NEW g, Settled(g), NEW p \in DOMAIN g.code, NEW b \in Blocks(g.f),
         NEW n \in DOMAIN g.code[p][b], n + 1 \in DOMAIN g.code[p][b], NEW l \in Nat,
         g.code[p][b][n].line <= l, l < g.code[p][b][n + 1].line,
         g.code[p][b][n].do = "exec" => g.code[p][b][n].line < l
  PROVE  Quiet(g.f, g.place, p, g.f.body[b][l])
<1> DEFINE r == g.code[p][b]
<1>1. /\ DOMAIN r = 1 .. Len(r) /\ Len(r) \in Nat /\ RowOK(r)
      /\ \A m \in DOMAIN r : r[m].line \in Nat /\ r[m].line >= 1 /\ r[m].line <= Len(g.f.body[b])
  BY RowFacts
<1>2. DOMAIN g.f.body[b] = 1 .. Len(g.f.body[b]) /\ Len(g.f.body[b]) \in Nat
  BY BodyFacts DEF Settled
<1>3. /\ l \in DOMAIN g.f.body[b] /\ n \in Nat /\ n \in DOMAIN r /\ n + 1 \in DOMAIN r
      /\ r[n].line <= l /\ l < r[n + 1].line /\ (r[n].do = "exec" => r[n].line < l)
  <2>1. r[n].line >= 1 /\ r[n + 1].line <= Len(g.f.body[b]) /\ r[n + 1].line \in Nat /\ r[n].line \in Nat
    BY <1>1
  <2>2. /\ n \in DOMAIN r /\ n + 1 \in DOMAIN r
        /\ r[n].line <= l /\ l < r[n + 1].line /\ (r[n].do = "exec" => r[n].line < l)
    OBVIOUS
  <2> HIDE DEF r
  <2>3. n \in Nat
    BY <1>1, <2>2
  <2>4. l \in 1 .. Len(g.f.body[b])
    BY <1>2, <2>1, <2>2
  <2> QED BY <1>2, <2>2, <2>3, <2>4
<1> SUFFICES ASSUME ~Quiet(g.f, g.place, p, g.f.body[b][l]) PROVE FALSE
  OBVIOUS
<1>4. PICK m \in DOMAIN r : r[m].do = "exec" /\ r[m].line = l
  BY <1>3, CopyExists
<1> HIDE DEF r
<1>5. m \in Nat
  BY <1>1
<1>6. CASE m < n
  <2>1. r[m].line < r[n].line
    BY <1>1, <1>3, <1>4, <1>6 DEF RowOK
  <2> QED BY <1>1, <1>3, <1>4, <2>1
<1>7. CASE m = n
  BY <1>1, <1>3, <1>4, <1>7
<1>8. CASE m = n + 1
  BY <1>1, <1>3, <1>4, <1>8
<1>9. CASE n + 1 < m
  <2>1. r[n + 1].line <= r[m].line
    BY <1>1, <1>3, <1>4, <1>9 DEF RowOK
  <2> QED BY <1>1, <1>3, <1>4, <2>1
<1> QED BY <1>3, <1>5, <1>6, <1>7, <1>8, <1>9

\* Before the first item after the phis nothing happens on the partition.
LEMMA EntryGap ==
  ASSUME NEW g, Settled(g), NEW p \in DOMAIN g.code, NEW b \in Blocks(g.f), NEW K \in Nat,
         \A n \in 1 .. K : g.code[p][b][n].op = "phi",
         K + 1 \in DOMAIN g.code[p][b], NEW l \in Nat, 1 <= l, l < g.code[p][b][K + 1].line
  PROVE  Quiet(g.f, g.place, p, g.f.body[b][l])
<1> DEFINE r == g.code[p][b]
<1>1. /\ DOMAIN r = 1 .. Len(r) /\ Len(r) \in Nat /\ RowOK(r)
      /\ \A m \in DOMAIN r : r[m].line \in Nat /\ r[m].line >= 1 /\ r[m].line <= Len(g.f.body[b])
  BY RowFacts
<1>2. DOMAIN g.f.body[b] = 1 .. Len(g.f.body[b]) /\ Len(g.f.body[b]) \in Nat
  BY BodyFacts DEF Settled
<1>3. /\ l \in DOMAIN g.f.body[b] /\ K + 1 \in DOMAIN r /\ l < r[K + 1].line
      /\ \A n \in 1 .. K : r[n].op = "phi"
  <2>1. r[K + 1].line <= Len(g.f.body[b]) /\ r[K + 1].line \in Nat
    BY <1>1
  <2>2. K + 1 \in DOMAIN r /\ l < r[K + 1].line /\ \A n \in 1 .. K : r[n].op = "phi"
    OBVIOUS
  <2> HIDE DEF r
  <2>3. l \in 1 .. Len(g.f.body[b])
    BY <1>2, <2>1, <2>2
  <2> QED BY <1>2, <2>2, <2>3
<1> SUFFICES ASSUME ~Quiet(g.f, g.place, p, g.f.body[b][l]) PROVE FALSE
  OBVIOUS
<1>4. PICK m \in DOMAIN r : r[m].do = "exec" /\ r[m].line = l
  BY <1>3, CopyExists
<1>5. r[m].op # "phi"
  <2>1. PhiMatched(g.f, b, r[m])
    BY PhiItem
  <2>2. g.f.body[b][l].op # "phi"
    BY DEF Quiet, Inert
  <2> QED BY <1>4, <2>1, <2>2 DEF PhiMatched
<1> HIDE DEF r
<1>6. m \in Nat /\ m >= 1
  BY <1>1
<1>7. CASE m <= K
  BY <1>3, <1>5, <1>6, <1>7
<1>8. CASE m = K + 1
  BY <1>1, <1>3, <1>4, <1>8
<1>9. CASE K + 1 < m
  <2>1. r[K + 1].line <= r[m].line
    BY <1>1, <1>3, <1>4, <1>9 DEF RowOK
  <2> QED BY <1>1, <1>3, <1>4, <2>1
<1> QED BY <1>6, <1>7, <1>8, <1>9

------------------------------------------------------------------------------
(* A thread and the state of the function that it has reached. *)

Spot(g, p, t) == g.code[p][t.block][t.next]

\* The state of the function before the instruction of the thread's next item.
Now(g, p, t) == Before(g.f, g.vals, Len(t.path), Spot(g, p, t).line)

Own(g, p, r) == \E v \in DOMAIN g.place : g.place[v] = p /\ v \notin Allocas(g.f) /\ r = Value(v)

Standing(g, p, t) ==
  /\ t.block \in Blocks(g.f)
  /\ t.next \in DOMAIN g.code[p][t.block]
  /\ Spot(g, p, t).op # "phi"
  /\ \A r \in DOMAIN t.env : /\ t.env[r] \in Int
                             /\ Own(g, p, r) \/ \E x : r = Received(x) \/ r = Argument(x)

\* The path is the function's own.
Trodden(g, t) ==
  /\ t.path \in Seq(Blocks(g.f)) /\ Len(t.path) >= 1 /\ t.path[Len(t.path)] = t.block
  /\ \A k \in 1 .. Len(t.path) :
       /\ t.path[k] = Visits(g.f, g.vals)[k].block
       /\ k < Len(t.path) => Last(g.f.body[t.path[k]]).op = "br"

\* What the thread has received in this block is what was to be sent.
Heard(g, p, t) ==
  \A n \in 1 .. t.next - 1 :
    LET i == g.code[p][t.block][n]
    IN  i.do = "receive" =>
          \A j \in ToSet(g.code[i.peer][t.block]) : Partner(i, j, p) =>
            i.val \in DOMAIN t.env
              /\ t.env[i.val] = Read(g.f, Before(g.f, g.vals, Len(t.path), i.line).env, j.val)

\* What it has received from the host are the arguments.
Told(g, p, t) ==
  \A n \in DOMAIN g.code[p][1] :
    LET i == g.code[p][1][n]
    IN  i.do = "peek" /\ (Len(t.path) > 1 \/ n < t.next) =>
          \A v \in ToSet(g.f.args) : <<p, v>> \in DOMAIN g.args /\ g.args[<<p, v>>] = i.val =>
            i.val \in DOMAIN t.env /\ t.env[i.val] = g.vals[Value(v)]

ThreadOK(g, p, t) == Standing(g, p, t) /\ Trodden(g, t) /\ Heard(g, p, t) /\ Told(g, p, t)

\* The partition's part of the state agrees with the function's.
Tracks(g, p, t, me, ou) == Agree(g.f, g.place, p, State(t.block, t.env, me, ou), Now(g, p, t))

LEMMA NowOneThread ==
  ASSUME NEW g, Settled(g), NEW p \in DOMAIN g.code, NEW t, ThreadOK(g, p, t)
  PROVE  OneThread(g.f, g.vals, Now(g, p, t)) /\ Now(g, p, t).block = t.block
<1> DEFINE k == Len(t.path)
           l == Spot(g, p, t).line
<1>1. k \in Nat /\ k >= 1 /\ t.path[k] = t.block /\ Visits(g.f, g.vals)[k].block = t.path[k]
  <2>1. t.path \in Seq(Blocks(g.f)) /\ k >= 1
    BY DEF ThreadOK, Trodden
  <2>2. k \in Nat /\ k \in 1 .. k
    BY <2>1
  <2> QED BY <2>1, <2>2 DEF ThreadOK, Trodden
<1>2. t.block \in Blocks(g.f) /\ t.next \in DOMAIN g.code[p][t.block]
  BY DEF ThreadOK, Standing
<1>3. l \in Nat /\ l >= 1 /\ l <= Len(g.f.body[t.block])
  BY <1>2, RowFacts DEF Spot
<1>4. Len(g.f.body[t.block]) \in Nat
  BY <1>2, BodyFacts DEF Settled
<1> HIDE DEF k, l
<1>5. l - 1 \in 0 .. Len(g.f.body[t.block])
  BY <1>3, <1>4
<1>6. Verified(g.f) /\ Runnable(g.f) /\ Passes(g.f, g.vals)
  BY DEF Settled
<1>7. /\ OneThread(g.f, g.vals, Within(g.f, Visits(g.f, g.vals)[k])[l - 1])
      /\ Within(g.f, Visits(g.f, g.vals)[k])[l - 1].block = Visits(g.f, g.vals)[k].block
  <2>1. \A n \in 0 .. Len(g.f.body[Visits(g.f, g.vals)[k].block]) :
          /\ OneThread(g.f, g.vals, Within(g.f, Visits(g.f, g.vals)[k])[n])
          /\ Within(g.f, Visits(g.f, g.vals)[k])[n].block = Visits(g.f, g.vals)[k].block
    <3>1. ASSUME NEW f, Verified(f), Runnable(f), NEW vals, Passes(f, vals)
          PROVE  \A n \in 0 .. Len(f.body[Visits(f, vals)[k].block]) :
                   /\ OneThread(f, vals, Within(f, Visits(f, vals)[k])[n])
                   /\ Within(f, Visits(f, vals)[k])[n].block = Visits(f, vals)[k].block
      BY <1>1, <3>1, VisitsOneThread
    <3> QED BY <1>6, <3>1
  <2>2. l - 1 \in 0 .. Len(g.f.body[Visits(g.f, g.vals)[k].block])
    BY <1>1, <1>5
  <2> QED BY <2>1, <2>2
<1> QED BY <1>1, <1>7 DEF Now, Before, k, l

LEMMA PlaceFacts ==
  ASSUME NEW g, Settled(g)
  PROVE  /\ \A i \in Instrs(g.f) : i.op # "br" => i.name \in DOMAIN g.place
         /\ \A v \in DOMAIN g.place : \E i \in Instrs(g.f) : i.name = v
         /\ \A i \in Instrs(g.f) : i.op \in {"alloca", "load", "store"} => g.place[i.name] = 0
         /\ \A i, j \in Instrs(g.f) : i.name = j.name => i = j
         /\ \A i \in Instrs(g.f) : i.name \notin ToSet(g.f.args) \cup DOMAIN g.f.consts
<1>1. Verified(g.f) /\ Runnable(g.f)
  BY DEF Settled
<1>2. DOMAIN g.place = {i.name : i \in Placed(g.f)}
  BY DEF Settled, Placements
<1>3. \A i \in Placed(g.f) : i.op \in {"alloca", "load", "store"} => g.place[i.name] = 0
  BY DEF Settled, Placements
<1>4. \A i \in Instrs(g.f) : i.name \notin ToSet(g.f.args) \cup DOMAIN g.f.consts
  BY <1>1, TwoOperands
<1>5. ASSUME NEW f, Verified(f), NEW i \in Instrs(f), NEW j \in Instrs(f), i.name = j.name
      PROVE  i = j
  <2>1. PICK b1 \in Blocks(f) : \E n \in DOMAIN f.body[b1] : i = f.body[b1][n]
    BY <1>5, InstrOf
  <2>2. PICK b2 \in Blocks(f) : \E n \in DOMAIN f.body[b2] : j = f.body[b2][n]
    BY <1>5, InstrOf
  <2>3. PICK n1 \in DOMAIN f.body[b1] : i = f.body[b1][n1]
    BY <2>1
  <2>4. PICK n2 \in DOMAIN f.body[b2] : j = f.body[b2][n2]
    BY <2>2
  <2> QED BY <1>5, <2>3, <2>4, NameUnique
<1> QED BY <1>1, <1>2, <1>3, <1>4, <1>5 DEF Placed

\* The arguments a thread needs have been received before anything else.
LEMMA ToldArgument ==
  ASSUME NEW g, Settled(g), NEW p \in DOMAIN g.code, NEW t, ThreadOK(g, p, t),
         Spot(g, p, t).do # "peek", NEW v \in ToSet(g.f.args), <<p, v>> \in DOMAIN g.args
  PROVE  /\ g.args[<<p, v>>] \in DOMAIN t.env
         /\ t.env[g.args[<<p, v>>]] = g.vals[Value(v)]
<1> DEFINE r == g.code[p][1]
           reg == g.args[<<p, v>>]
<1>1. \E i \in ToSet(r) : i.do = "peek" /\ i.val = reg
  <2>1. \A d \in DOMAIN g.args : \E i \in ToSet(g.code[d[1]][1]) : i.do = "peek" /\ i.val = g.args[d]
    BY DEF Settled, CodeOK, ArgsOK
  <2>2. \E i \in ToSet(g.code[<<p, v>>[1]][1]) : i.do = "peek" /\ i.val = g.args[<<p, v>>]
    BY <2>1
  <2> QED BY <2>2
<1>2. PICK n \in DOMAIN r : r[n].do = "peek" /\ r[n].val = reg
  BY <1>1 DEF ToSet
<1>3. t.path \in Seq(Blocks(g.f)) /\ Len(t.path) >= 1 /\ Len(t.path) \in Nat
  BY DEF ThreadOK, Trodden
<1>4. CASE Len(t.path) = 1
  <2>1. t.block = 1
    <3>1. t.block = Visits(g.f, g.vals)[1].block
      <4>1. 1 \in 1 .. Len(t.path)
        BY <1>4
      <4> QED BY <1>4, <4>1 DEF ThreadOK, Trodden
    <3>2. Visits(g.f, g.vals)[1].block = 1
      BY VisitsSteps, StateFields DEF Begin
    <3> QED BY <3>1, <3>2
  <2>2. 1 \in Blocks(g.f) /\ t.next \in DOMAIN r /\ r[t.next].do # "peek"
    BY <2>1 DEF ThreadOK, Standing, Spot
  <2>3. DOMAIN r = 1 .. Len(r) /\ Len(r) \in Nat /\ RowOK(r)
    BY <2>2, RowFacts
  <2> HIDE DEF r
  <2>4. ~(t.next < n)
    BY <1>2, <2>2, <2>3 DEF RowOK
  <2>5. n < t.next
    BY <1>2, <2>2, <2>3, <2>4
  <2> QED BY <1>2, <2>5 DEF ThreadOK, Told, r
<1>5. CASE Len(t.path) > 1
  BY <1>2, <1>5 DEF ThreadOK, Told
<1>6. Len(t.path) = 1 \/ Len(t.path) > 1
  <2> DEFINE k == Len(t.path)
  <2>1. k >= 1 /\ k \in Nat
    BY <1>3
  <2> HIDE DEF k
  <2>2. k = 1 \/ k > 1
    BY <2>1
  <2> QED BY <2>2 DEF k
<1> QED BY <1>4, <1>5, <1>6

LEMMA ReadSame ==
  ASSUME NEW f, NEW d, NEW e, NEW r, r \notin DOMAIN d, r \notin DOMAIN e
  PROVE  Read(f, d, r) = Read(f, e, r)
BY DEF Read

\* The register that gives a value to the thread's next item holds the value.
LEMMA GivesReads ==
  ASSUME NEW g, Settled(g), NEW p \in DOMAIN g.code, NEW t, ThreadOK(g, p, t),
         NEW me, NEW ou, Tracks(g, p, t, me, ou),
         Spot(g, p, t).do \in {"exec", "send_return"}, NEW r, NEW v,
         Gives(g.f, g.place, g.args, g.code, p, t.block, Spot(g, p, t).line, r, v)
  PROVE  Read(g.f, t.env, r) = Read(g.f, Now(g, p, t).env, Value(v))
<1> DEFINE s == Now(g, p, t)
           row == g.code[p][t.block]
<1>1. OneThread(g.f, g.vals, s)
  BY NowOneThread
<1>2. /\ \A i \in Instrs(g.f) : i.name \notin ToSet(g.f.args) \cup DOMAIN g.f.consts
      /\ \A i, j \in Instrs(g.f) : i.name = j.name => i = j
      /\ \A w \in DOMAIN g.place : \E i \in Instrs(g.f) : i.name = w
  BY PlaceFacts
<1>3. Passes(g.f, g.vals)
  BY DEF Settled
<1> HIDE DEF s
<1>4. CASE v \in ToSet(g.f.args) /\ <<p, v>> \in DOMAIN g.args /\ r = g.args[<<p, v>>]
  <2>1. r \in DOMAIN t.env /\ t.env[r] = g.vals[Value(v)]
    BY <1>4, ToldArgument
  <2>2. Value(v) \in DOMAIN g.vals
    BY <1>3, <1>4 DEF Passes
  <2>3. Value(v) \in DOMAIN s.env /\ s.env[Value(v)] = g.vals[Value(v)]
    BY <1>1, <2>2 DEF OneThread
  <2> QED BY <2>1, <2>3 DEF Read, s
<1>5. CASE v \notin ToSet(g.f.args) /\ r = Value(v) /\ (v \in DOMAIN g.f.consts \/ v \in Allocas(g.f))
  <2>1. v \notin Defined(g.f)
    BY <1>2, <1>5 DEF Defined, Allocas
  <2>2. r \notin DOMAIN s.env
    <3>1. r \notin DOMAIN g.vals
      BY <1>3, <1>5, RegistersApart DEF Passes
    <3>2. ~ \E w \in Defined(g.f) : r = Value(w)
      BY <1>5, <2>1, RegistersApart
    <3> QED BY <1>1, <3>1, <3>2 DEF OneThread
  <2>3. r \notin DOMAIN t.env
    <3>1. ~ \E x : r = Received(x) \/ r = Argument(x)
      BY <1>5, RegistersApart
    <3>2. ~Own(g, p, r)
      <4>1. ASSUME NEW w \in DOMAIN g.place, w \notin Allocas(g.f), r = Value(w)
            PROVE  FALSE
        <5>1. w = v
          BY <1>5, <4>1, RegistersApart
        <5> QED BY <1>2, <1>5, <4>1, <5>1
      <4> QED BY <4>1 DEF Own
    <3> QED BY <3>1, <3>2 DEF ThreadOK, Standing
  <2> QED BY <1>5, <2>2, <2>3, ReadSame DEF s
<1>6. CASE v \in DOMAIN g.place /\ g.place[v] = p /\ r = Value(v)
  <2>1. State(t.block, t.env, me, ou).env = t.env
    BY StateFields
  <2> QED BY <1>6, <2>1 DEF Tracks, Agree, s
<1>7. CASE \E i \in ToSet(row) :
             /\ i.do = "receive" /\ i.val = r /\ i.line = Spot(g, p, t).line
             /\ \E j \in ToSet(g.code[i.peer][t.block]) : Partner(i, j, p) /\ j.val = Value(v)
  <2>1. PICK n \in DOMAIN row :
             /\ row[n].do = "receive" /\ row[n].val = r /\ row[n].line = Spot(g, p, t).line
             /\ \E j \in ToSet(g.code[row[n].peer][t.block]) : Partner(row[n], j, p) /\ j.val = Value(v)
    BY <1>7 DEF ToSet
  <2>2. t.block \in Blocks(g.f) /\ t.next \in DOMAIN row /\ Spot(g, p, t) = row[t.next]
    BY DEF ThreadOK, Standing, Spot
  <2>3. DOMAIN row = 1 .. Len(row) /\ Len(row) \in Nat /\ RowOK(row)
    BY <2>2, RowSorted
  <2>4. row[n].line \in Nat
    BY <2>2, RowLine
  <2>5. n < t.next
    <3> DEFINE R == row
    <3>1. row[t.next].do \in {"exec", "send_return"} /\ row[n].do = "receive" /\ row[n].line = row[t.next].line
      BY <2>1, <2>2
    <3> HIDE DEF row
    <3>2. CASE t.next < n
      <4>1. row[t.next].line < row[n].line
        BY <2>1, <2>2, <2>3, <3>1, <3>2 DEF RowOK, IsComm
      <4> QED BY <2>4, <3>1, <4>1
    <3>3. CASE t.next = n
      BY <3>1, <3>3
    <3> QED BY <2>1, <2>2, <2>3, <3>2, <3>3
  <2>6. n \in 1 .. t.next - 1
    <3> HIDE DEF row
    <3> QED BY <2>1, <2>2, <2>3, <2>5
  <2>7. PICK j \in ToSet(g.code[row[n].peer][t.block]) : Partner(row[n], j, p) /\ j.val = Value(v)
    BY <2>1
  <2>8. r \in DOMAIN t.env /\ t.env[r] = Read(g.f, Before(g.f, g.vals, Len(t.path), row[n].line).env, j.val)
    BY <2>1, <2>6, <2>7 DEF ThreadOK, Heard
  <2> QED BY <2>1, <2>7, <2>8 DEF Read, Now, s
<1> QED BY <1>4, <1>5, <1>6, <1>7 DEF Gives

------------------------------------------------------------------------------
(* A thread executes an item and goes on to the next one of the row. *)

GoesOn(t, u) == u.block = t.block /\ u.next = t.next + 1 /\ u.path = t.path

\* No register but x is written.
Grown(d, e, x) == /\ DOMAIN e \subseteq DOMAIN d \cup {x} /\ DOMAIN d \subseteq DOMAIN e
                  /\ \A z \in DOMAIN d : z # x => e[z] = d[z]

\* The state of the function after the item's instruction, if it is a copy of it.
After(g, p, t) ==
  Before(g.f, g.vals, Len(t.path), IF Spot(g, p, t).do = "exec" THEN Spot(g, p, t).line + 1
                                   ELSE Spot(g, p, t).line)

LEMMA NextSpot ==
  ASSUME NEW g, Settled(g), NEW p \in DOMAIN g.code, NEW t, ThreadOK(g, p, t),
         ~Terminal(Spot(g, p, t)), NEW u, GoesOn(t, u)
  PROVE  /\ u.next \in DOMAIN g.code[p][u.block] /\ u.block \in Blocks(g.f)
         /\ Spot(g, p, u) = g.code[p][t.block][t.next + 1]
         /\ Spot(g, p, u).op # "phi"
         /\ Spot(g, p, t).line <= Spot(g, p, u).line
         /\ Spot(g, p, t).do = "exec" => Spot(g, p, t).line < Spot(g, p, u).line
<1> DEFINE row == g.code[p][t.block]
<1>1. t.block \in Blocks(g.f) /\ t.next \in DOMAIN row /\ row[t.next].op # "phi" /\ ~Terminal(row[t.next])
  BY DEF ThreadOK, Standing, Spot
<1>2. DOMAIN row = 1 .. Len(row) /\ Len(row) \in Nat /\ RowOK(row) /\ Terminal(row[Len(row)])
  BY <1>1, RowFacts
<1>3. PICK K \in Nat : /\ {n \in DOMAIN row : row[n].op = "phi"} = 1 .. K
                       /\ Cardinality({n \in DOMAIN row : row[n].op = "phi"}) = K
                       /\ K + 1 \in DOMAIN row
  BY <1>1, PhisFirst
<1>4. t.next \in Nat /\ t.next + 1 \in DOMAIN row /\ t.next < t.next + 1
  <2> HIDE DEF row
  <2>1. t.next # Len(row)
    BY <1>1, <1>2
  <2> QED BY <1>1, <1>2, <2>1
<1>5. row[t.next + 1].op # "phi"
  <2> HIDE DEF row
  <2>1. t.next \notin 1 .. K
    BY <1>1, <1>3
  <2>2. t.next + 1 \notin 1 .. K
    BY <1>1, <1>2, <1>4, <2>1
  <2> QED BY <1>3, <1>4, <2>2
<1>6. Spot(g, p, u) = row[t.next + 1]
  BY DEF Spot, GoesOn
<1>7. /\ row[t.next].line <= row[t.next + 1].line
      /\ row[t.next].do = "exec" => row[t.next].line < row[t.next + 1].line
  BY <1>1, <1>2, <1>4 DEF RowOK
<1> QED BY <1>1, <1>4, <1>5, <1>6, <1>7 DEF Spot, GoesOn

LEMMA AdvanceTracks ==
  ASSUME NEW g, Settled(g), NEW p \in DOMAIN g.code, NEW t, ThreadOK(g, p, t),
         ~Terminal(Spot(g, p, t)), NEW u, GoesOn(t, u), NEW me, NEW ou,
         Agree(g.f, g.place, p, State(u.block, u.env, me, ou), After(g, p, t))
  PROVE  Tracks(g, p, u, me, ou)
<1> DEFINE k == Len(t.path)
           i == Spot(g, p, t)
           l == IF i.do = "exec" THEN i.line + 1 ELSE i.line
           m == Spot(g, p, u).line
           row == g.code[p][t.block]
           b == t.block
<1>1. /\ t.next + 1 \in DOMAIN row /\ b \in Blocks(g.f)
      /\ Spot(g, p, u) = row[t.next + 1]
      /\ i.line <= m /\ (i.do = "exec" => i.line < m)
  BY NextSpot DEF GoesOn
<1>2. t.next \in DOMAIN row /\ i = row[t.next]
  BY DEF ThreadOK, Standing, Spot
<1>3. /\ i.line \in Nat /\ i.line >= 1 /\ m \in Nat /\ m <= Len(g.f.body[b])
  BY <1>1, <1>2, RowLine
<1>4. k \in Nat /\ k >= 1 /\ b = Visits(g.f, g.vals)[k].block
  <2>1. t.path \in Seq(Blocks(g.f)) /\ k >= 1
    BY DEF ThreadOK, Trodden
  <2>2. k \in Nat /\ k \in 1 .. k
    BY <2>1
  <2> QED BY <2>1, <2>2 DEF ThreadOK, Trodden
<1>5. Len(g.f.body[b]) \in Nat
  BY <1>1, BodyFacts DEF Settled
<1>6. Verified(g.f) /\ Runnable(g.f) /\ Passes(g.f, g.vals)
  BY DEF Settled
<1>7. ASSUME NEW n \in Nat, l <= n, n < m
      PROVE  Quiet(g.f, g.place, p, g.f.body[b][n])
  <2>1. i.line <= n /\ (i.do = "exec" => i.line < n)
    BY <1>3, <1>7
  <2>2. row[t.next].line <= n /\ n < row[t.next + 1].line /\ (row[t.next].do = "exec" => row[t.next].line < n)
    BY <1>1, <1>2, <1>7, <2>1
  <2> QED BY <1>1, <1>2, <2>2, Gap
<1>8. l \in Nat /\ 1 <= l /\ l <= m /\ m <= Len(g.f.body[b]) + 1
  <2> HIDE DEF i, m, b
  <2>1. CASE i.do = "exec"
    <3>1. l = i.line + 1 /\ i.line < m
      BY <1>1, <2>1
    <3> HIDE DEF l
    <3> QED BY <1>3, <1>5, <3>1
  <2>2. CASE i.do # "exec"
    <3>1. l = i.line /\ i.line <= m
      BY <1>1, <2>2
    <3> HIDE DEF l
    <3> QED BY <1>3, <1>5, <3>1
  <2> QED BY <2>1, <2>2
<1> HIDE DEF k, b, l, m, i
<1>9. Agree(g.f, g.place, p, Before(g.f, g.vals, k, l), Before(g.f, g.vals, k, m))
  BY <1>3, <1>4, <1>6, <1>7, <1>8, QuietLines
<1>10. Now(g, p, u) = Before(g.f, g.vals, k, m)
  BY DEF Now, GoesOn, k, m
<1>11. After(g, p, t) = Before(g.f, g.vals, k, l)
  BY DEF After, k, l, i
<1> QED BY <1>9, <1>10, <1>11, AgreeTransitive DEF Tracks

\* Register x is the one the item defines, if any.
Writes(g, p, t, u, x) ==
  /\ Grown(t.env, u.env, x)
  /\ x \in DOMAIN u.env => /\ u.env[x] \in Int
                           /\ Own(g, p, x) \/ \E z : x = Received(z) \/ x = Argument(z)
  /\ \A n \in 1 .. t.next - 1 : g.code[p][t.block][n].do = "receive" => g.code[p][t.block][n].val # x
  /\ Spot(g, p, t).do = "receive" =>
       \A j \in ToSet(g.code[Spot(g, p, t).peer][t.block]) : Partner(Spot(g, p, t), j, p) =>
         /\ Spot(g, p, t).val \in DOMAIN u.env
         /\ u.env[Spot(g, p, t).val] = Read(g.f, Now(g, p, t).env, j.val)
  /\ \A v \in ToSet(g.f.args) : <<p, v>> \in DOMAIN g.args /\ g.args[<<p, v>>] = x =>
       x \in DOMAIN u.env /\ u.env[x] = g.vals[Value(v)]
  /\ Spot(g, p, t).do = "peek" => Spot(g, p, t).val = x

LEMMA AdvanceOK ==
  ASSUME NEW g, Settled(g), NEW p \in DOMAIN g.code, NEW t, ThreadOK(g, p, t),
         ~Terminal(Spot(g, p, t)), NEW u, GoesOn(t, u), NEW x, Writes(g, p, t, u, x)
  PROVE  ThreadOK(g, p, u)
<1> DEFINE i == Spot(g, p, t)
           row == g.code[p][t.block]
<1>1. u.next \in DOMAIN row /\ u.block \in Blocks(g.f) /\ Spot(g, p, u).op # "phi"
  BY NextSpot DEF GoesOn
<1>2. Standing(g, p, u)
  <2>1. \A r \in DOMAIN u.env : r # x => r \in DOMAIN t.env /\ u.env[r] = t.env[r]
    BY DEF Writes, Grown
  <2>2. \A r \in DOMAIN u.env : /\ u.env[r] \in Int
                                /\ Own(g, p, r) \/ \E z : r = Received(z) \/ r = Argument(z)
    BY <2>1 DEF ThreadOK, Standing, Writes
  <2> QED BY <1>1, <2>2 DEF Standing, GoesOn
<1>3. Trodden(g, u)
  BY DEF ThreadOK, Trodden, GoesOn
<1>4. t.next \in DOMAIN row /\ i = row[t.next] /\ t.block \in Blocks(g.f)
  BY DEF ThreadOK, Standing, Spot
<1>5. DOMAIN row = 1 .. Len(row) /\ Len(row) \in Nat
  BY <1>4, RowSorted
<1>6. t.next \in Nat /\ t.next >= 1 /\ u.next = t.next + 1 /\ u.block = t.block /\ u.path = t.path
  <2> HIDE DEF row
  <2> QED BY <1>4, <1>5 DEF GoesOn
<1>7. \A r \in DOMAIN t.env : r # x => r \in DOMAIN u.env /\ u.env[r] = t.env[r]
  BY DEF Writes, Grown
<1>8. Heard(g, p, u)
  <2>1. ASSUME NEW n \in 1 .. u.next - 1, row[n].do = "receive",
               NEW j \in ToSet(g.code[row[n].peer][t.block]), Partner(row[n], j, p)
        PROVE  /\ row[n].val \in DOMAIN u.env
               /\ u.env[row[n].val] = Read(g.f, Before(g.f, g.vals, Len(t.path), row[n].line).env, j.val)
    <3>1. n \in 1 .. t.next - 1 \/ n = t.next
      BY <1>6
    <3>2. CASE n = t.next
      BY <1>4, <2>1, <3>2 DEF Now, Writes
    <3>3. CASE n \in 1 .. t.next - 1
      <4>1. /\ row[n].val \in DOMAIN t.env
            /\ t.env[row[n].val] = Read(g.f, Before(g.f, g.vals, Len(t.path), row[n].line).env, j.val)
        BY <2>1, <3>3 DEF ThreadOK, Heard
      <4>2. row[n].val # x
        BY <2>1, <3>3 DEF Writes
      <4> QED BY <1>7, <4>1, <4>2
    <3> QED BY <3>1, <3>2, <3>3
  <2> QED BY <1>6, <2>1 DEF Heard
<1>9. Told(g, p, u)
  <2>1. ASSUME NEW n \in DOMAIN g.code[p][1], g.code[p][1][n].do = "peek", Len(t.path) > 1 \/ n < t.next + 1,
               NEW v \in ToSet(g.f.args), <<p, v>> \in DOMAIN g.args, g.args[<<p, v>>] = g.code[p][1][n].val
        PROVE  g.code[p][1][n].val \in DOMAIN u.env /\ u.env[g.code[p][1][n].val] = g.vals[Value(v)]
    <3> DEFINE y == g.code[p][1][n]
    <3>1. CASE y.val = x
      BY <2>1, <3>1 DEF Writes
    <3>2. CASE y.val # x
      <4>1. Len(t.path) > 1 \/ n < t.next
        <5>1. CASE Len(t.path) > 1
          BY <5>1
        <5>2. CASE ~(Len(t.path) > 1)
          <6>1. t.block = 1
            <7>1. t.path \in Seq(Blocks(g.f)) /\ Len(t.path) >= 1
              BY DEF ThreadOK, Trodden
            <7>2. Len(t.path) = 1
              <8> DEFINE k == Len(t.path)
              <8>1. k \in Nat /\ k >= 1 /\ ~(k > 1)
                BY <5>2, <7>1
              <8> HIDE DEF k
              <8>2. k = 1
                BY <8>1
              <8> QED BY <8>2 DEF k
            <7>3. t.block = Visits(g.f, g.vals)[1].block
              <8>1. 1 \in 1 .. Len(t.path)
                BY <7>2
              <8> QED BY <7>2, <8>1 DEF ThreadOK, Trodden
            <7>4. Visits(g.f, g.vals)[1].block = 1
              BY VisitsSteps, StateFields DEF Begin
            <7> QED BY <7>3, <7>4
          <6>2. n # t.next
            BY <1>4, <2>1, <3>2, <6>1 DEF Writes
          <6>3. n \in Nat
            <7>1. n \in DOMAIN row
              BY <2>1, <6>1
            <7> HIDE DEF row
            <7> QED BY <1>5, <7>1
          <6> QED BY <1>6, <2>1, <5>2, <6>2, <6>3
        <5> QED BY <5>1, <5>2
      <4>2. y.val \in DOMAIN t.env /\ t.env[y.val] = g.vals[Value(v)]
        BY <2>1, <4>1 DEF ThreadOK, Told
      <4> QED BY <1>7, <3>2, <4>2
    <3> QED BY <3>1, <3>2
  <2> QED BY <1>6, <2>1 DEF Told
<1> QED BY <1>2, <1>3, <1>8, <1>9 DEF ThreadOK

LEMMA ReceivedNames ==
  ASSUME NEW g, Settled(g), NEW p \in DOMAIN g.code, NEW b \in Blocks(g.f), NEW n \in DOMAIN g.code[p][b],
         g.code[p][b][n].do = "receive"
  PROVE  g.code[p][b][n].val = Received(g.code[p][b][n].at)
<1>1. ItemOK(g.f, g.place, g.args, g.code, p, b, g.code[p][b][n])
  BY RowFacts
<1> QED BY <1>1 DEF ItemOK, CommOK, IsComm

LEMMA ArgumentNames ==
  ASSUME NEW g, Settled(g), NEW d \in DOMAIN g.args
  PROVE  \E x : g.args[d] = Argument(x)
BY DEF Settled, CodeOK, ArgsOK

LEMMA RowRange ==
  ASSUME NEW g, Settled(g), NEW p \in DOMAIN g.code, NEW t, ThreadOK(g, p, t)
  PROVE  /\ t.block \in Blocks(g.f) /\ t.next \in Nat /\ t.next >= 1
         /\ t.next \in DOMAIN g.code[p][t.block] /\ Spot(g, p, t) = g.code[p][t.block][t.next]
         /\ \A n \in 1 .. t.next - 1 : n \in DOMAIN g.code[p][t.block] /\ n < t.next
<1> DEFINE row == g.code[p][t.block]
<1>1. t.block \in Blocks(g.f) /\ t.next \in DOMAIN row /\ Spot(g, p, t) = row[t.next]
  BY DEF ThreadOK, Standing, Spot
<1>2. DOMAIN row = 1 .. Len(row) /\ Len(row) \in Nat
  BY <1>1, RowFacts
<1> HIDE DEF row
<1>3. t.next \in Nat /\ t.next >= 1 /\ \A n \in 1 .. t.next - 1 : n \in DOMAIN row /\ n < t.next
  BY <1>1, <1>2
<1> QED BY <1>1, <1>3 DEF row

LEMMA SpotReceived ==
  ASSUME NEW g, Settled(g), NEW p \in DOMAIN g.code, NEW t, ThreadOK(g, p, t), Spot(g, p, t).do = "receive"
  PROVE  Spot(g, p, t).val = Received(Spot(g, p, t).at)
BY RowRange, ReceivedNames

LEMMA EarlierReceived ==
  ASSUME NEW g, Settled(g), NEW p \in DOMAIN g.code, NEW t, ThreadOK(g, p, t),
         NEW n \in 1 .. t.next - 1, NEW i, i = g.code[p][t.block][n], i.do = "receive"
  PROVE  i.val = Received(i.at)
<1>1. t.block \in Blocks(g.f) /\ n \in DOMAIN g.code[p][t.block]
  BY RowRange
<1>2. g.code[p][t.block][n].val = Received(g.code[p][t.block][n].at)
  BY <1>1, ReceivedNames
<1> QED BY <1>2

\* A send or send_return changes no register.
LEMMA KeepWrites ==
  ASSUME NEW g, Settled(g), NEW p \in DOMAIN g.code, NEW t, ThreadOK(g, p, t),
         Spot(g, p, t).do \notin {"receive", "peek"}, NEW u, u.env = t.env
  PROVE  Writes(g, p, t, u, NoRegister)
<1>0. \A z : NoRegister # Received(z) /\ NoRegister # Argument(z) /\ NoRegister # Value(z)
  BY DEF NoRegister, Received, Argument, Value
<1>1. NoRegister \notin DOMAIN t.env
  BY <1>0 DEF ThreadOK, Standing, Own
<1>2. \A n \in 1 .. t.next - 1 : g.code[p][t.block][n].do = "receive" => g.code[p][t.block][n].val # NoRegister
  BY <1>0, RowRange, ReceivedNames
<1>3. \A d \in DOMAIN g.args : g.args[d] # NoRegister
  BY <1>0, ArgumentNames
<1>4. Grown(t.env, u.env, NoRegister)
  BY DEF Grown
<1> QED BY <1>1, <1>2, <1>3, <1>4 DEF Writes

LEMMA KeepStep ==
  ASSUME NEW g, Settled(g), NEW p \in DOMAIN g.code, NEW t, ThreadOK(g, p, t), NEW me, NEW ou,
         Tracks(g, p, t, me, ou), Spot(g, p, t).do \in {"send", "send_return"},
         NEW u, GoesOn(t, u), u.env = t.env
  PROVE  ThreadOK(g, p, u) /\ Tracks(g, p, u, me, ou)
<1>1. ~Terminal(Spot(g, p, t))
  BY DEF Terminal
<1>2. Writes(g, p, t, u, NoRegister)
  BY KeepWrites
<1>3. Agree(g.f, g.place, p, State(u.block, u.env, me, ou), After(g, p, t))
  BY DEF Tracks, Now, After, GoesOn
<1> QED BY <1>1, <1>2, <1>3, AdvanceOK, AdvanceTracks

LEMMA GrownExtended ==
  ASSUME NEW e, NEW x, NEW y
  PROVE  /\ Grown(e, Extended(e, x, y), x)
         /\ x \in DOMAIN Extended(e, x, y) /\ Extended(e, x, y)[x] = y
<1>1. /\ DOMAIN Extended(e, x, y) = DOMAIN e \cup {x}
      /\ Extended(e, x, y)[x] = y
      /\ \A z \in DOMAIN e : z # x => Extended(e, x, y)[z] = e[z]
  BY DEF Extended
<1> QED BY <1>1 DEF Grown

\* A register that is no value of the partition does not matter to it.
LEMMA AgreeExtended ==
  ASSUME NEW f, NEW pl, NEW p, NEW b, NEW e, NEW me, NEW ou, NEW s, NEW x, NEW y, \A v : x # Value(v),
         Agree(f, pl, p, State(b, e, me, ou), s)
  PROVE  Agree(f, pl, p, State(b, Extended(e, x, y), me, ou), s)
<1>1. \A v \in DOMAIN pl : Read(f, Extended(e, x, y), Value(v)) = Read(f, e, Value(v))
  BY ReadExtended
<1>2. /\ State(b, e, me, ou).env = e /\ State(b, e, me, ou).mem = me /\ State(b, e, me, ou).out = ou
      /\ State(b, Extended(e, x, y), me, ou).env = Extended(e, x, y)
      /\ State(b, Extended(e, x, y), me, ou).mem = me /\ State(b, Extended(e, x, y), me, ou).out = ou
  BY StateFields
<1> QED BY <1>1, <1>2 DEF Agree

LEMMA ReceiveStep ==
  ASSUME NEW g, Settled(g), NEW p \in DOMAIN g.code, NEW t, ThreadOK(g, p, t), NEW me, NEW ou,
         Tracks(g, p, t, me, ou), Spot(g, p, t).do = "receive", NEW y \in Int,
         \A j \in ToSet(g.code[Spot(g, p, t).peer][t.block]) : Partner(Spot(g, p, t), j, p) =>
           y = Read(g.f, Now(g, p, t).env, j.val),
         NEW u, GoesOn(t, u), u.env = Extended(t.env, Spot(g, p, t).val, y)
  PROVE  ThreadOK(g, p, u) /\ Tracks(g, p, u, me, ou)
<1> DEFINE i == Spot(g, p, t)
           x == i.val
           row == g.code[p][t.block]
<1>1. ~Terminal(i)
  BY DEF Terminal
<1>2. /\ t.block \in Blocks(g.f) /\ t.next \in Nat /\ t.next \in DOMAIN row /\ i = row[t.next]
      /\ \A n \in 1 .. t.next - 1 : n \in DOMAIN row /\ n < t.next
  BY RowRange
<1>3. x = Received(i.at)
  BY SpotReceived
<1>4. RowOK(row)
  BY <1>2, RowSorted
<1>5. ASSUME NEW n \in 1 .. t.next - 1, row[n].do = "receive"
      PROVE  row[n].val # x
  <2>1. row[n].val = Received(row[n].at)
    <3>1. PICK r : r = row[n]
      OBVIOUS
    <3>2. r.val = Received(r.at)
      BY <1>5, <3>1, EarlierReceived
    <3> QED BY <3>1, <3>2
  <2>2. row[n].at < i.at
    <3> HIDE DEF row, i
    <3> QED BY <1>2, <1>4, <1>5 DEF RowOK, IsComm, i
  <2>3. row[n].at \in Nat /\ i.at \in Nat
    <3>1. \A m \in DOMAIN row : row[m].do = "receive" => row[m].at \in Nat
      <4>1. \A m \in DOMAIN row : ItemOK(g.f, g.place, g.args, g.code, p, t.block, row[m])
        BY <1>2, RowFacts
      <4> HIDE DEF row
      <4> QED BY <4>1 DEF ItemOK, CommOK, IsComm
    <3> QED BY <1>2, <1>5, <3>1
  <2>4. row[n].at # i.at
    <3> HIDE DEF row, i
    <3> QED BY <2>2, <2>3
  <2> QED BY <1>3, <2>1, <2>4, RegistersApart
<1>6. \A d \in DOMAIN g.args : g.args[d] # x
  BY <1>3, ArgumentNames, RegistersApart
<1>7. Grown(t.env, u.env, x) /\ x \in DOMAIN u.env /\ u.env[x] = y
  <2>1. /\ Grown(t.env, Extended(t.env, x, y), x)
        /\ x \in DOMAIN Extended(t.env, x, y) /\ Extended(t.env, x, y)[x] = y
    BY GrownExtended
  <2> QED BY <2>1
<1>8. Writes(g, p, t, u, x)
  BY <1>3, <1>5, <1>6, <1>7 DEF Writes
<1>9. Agree(g.f, g.place, p, State(u.block, u.env, me, ou), After(g, p, t))
  <2>1. \A v : x # Value(v)
    BY <1>3, RegistersApart
  <2>2. Agree(g.f, g.place, p, State(t.block, t.env, me, ou), After(g, p, t))
    BY DEF Tracks, Now, After
  <2> QED BY <2>1, <2>2, AgreeExtended DEF GoesOn
<1> QED BY <1>1, <1>8, <1>9, AdvanceOK, AdvanceTracks

LEMMA PeekStep ==
  ASSUME NEW g, Settled(g), NEW p \in DOMAIN g.code, NEW t, ThreadOK(g, p, t), NEW me, NEW ou,
         Tracks(g, p, t, me, ou), Spot(g, p, t).do = "peek", NEW y \in Int,
         \A v \in ToSet(g.f.args) : <<p, v>> \in DOMAIN g.args /\ g.args[<<p, v>>] = Spot(g, p, t).val =>
           y = g.vals[Value(v)],
         NEW u, GoesOn(t, u), u.env = Extended(t.env, Spot(g, p, t).val, y)
  PROVE  ThreadOK(g, p, u) /\ Tracks(g, p, u, me, ou)
<1> DEFINE i == Spot(g, p, t)
           x == i.val
           row == g.code[p][t.block]
<1>1. ~Terminal(i)
  BY DEF Terminal
<1>2. /\ t.block \in Blocks(g.f) /\ t.next \in DOMAIN row /\ i = row[t.next]
      /\ \A n \in 1 .. t.next - 1 : n \in DOMAIN row /\ n < t.next
  BY RowRange
<1>3. x = Argument(i.at)
  <2>1. ItemOK(g.f, g.place, g.args, g.code, p, t.block, i)
    BY <1>2, RowFacts
  <2> QED BY <2>1 DEF ItemOK, PeekOK
<1>4. ASSUME NEW n \in 1 .. t.next - 1, row[n].do = "receive"
      PROVE  row[n].val # x
  <2>1. row[n].val = Received(row[n].at)
    <3>1. PICK r : r = row[n]
      OBVIOUS
    <3>2. r.val = Received(r.at)
      BY <1>4, <3>1, EarlierReceived
    <3> QED BY <3>1, <3>2
  <2> QED BY <1>3, <2>1, RegistersApart
<1>5. Grown(t.env, u.env, x) /\ x \in DOMAIN u.env /\ u.env[x] = y
  <2>1. /\ Grown(t.env, Extended(t.env, x, y), x)
        /\ x \in DOMAIN Extended(t.env, x, y) /\ Extended(t.env, x, y)[x] = y
    BY GrownExtended
  <2> QED BY <2>1
<1>6. Writes(g, p, t, u, x)
  BY <1>3, <1>4, <1>5 DEF Writes
<1>7. Agree(g.f, g.place, p, State(u.block, u.env, me, ou), After(g, p, t))
  <2>1. \A v : x # Value(v)
    BY <1>3, RegistersApart
  <2>2. Agree(g.f, g.place, p, State(t.block, t.env, me, ou), After(g, p, t))
    BY DEF Tracks, Now, After
  <2> QED BY <2>1, <2>2, AgreeExtended DEF GoesOn
<1> QED BY <1>1, <1>6, <1>7, AdvanceOK, AdvanceTracks

\* The instruction that the thread's next item is a copy of.
Original(g, p, t) == g.f.body[t.block][Spot(g, p, t).line]

Copies(g, p, t) ==
  LET i == Spot(g, p, t)
      j == Original(g, p, t)
  IN  /\ j \in Instrs(g.f) /\ i.op = j.op /\ i.val = Value(j.name) /\ i.blocks = j.blocks
      /\ i.op \notin {"alloca", "ret", "phi"}
      /\ i.op # "br" => j.name \in DOMAIN g.place /\ g.place[j.name] = p
      /\ ReadAll(g.f, t.env, i.args) = Operated(g.f, j, Now(g, p, t))
      /\ DOMAIN i.args = DOMAIN j.args
      /\ \A k \in DOMAIN i.args : Gives(g.f, g.place, g.args, g.code, p, t.block, i.line, i.args[k], j.args[k])

LEMMA SpotCopies ==
  ASSUME NEW g, Settled(g), NEW p \in DOMAIN g.code, NEW t, ThreadOK(g, p, t), NEW me, NEW ou,
         Tracks(g, p, t, me, ou), Spot(g, p, t).do = "exec"
  PROVE  Copies(g, p, t)
<1> DEFINE i == Spot(g, p, t)
           j == Original(g, p, t)
           s == Now(g, p, t)
<1>1. /\ t.block \in Blocks(g.f) /\ t.next \in DOMAIN g.code[p][t.block] /\ i = g.code[p][t.block][t.next]
  BY RowRange
<1>2. ItemOK(g.f, g.place, g.args, g.code, p, t.block, i) /\ i.line \in DOMAIN g.f.body[t.block]
  BY <1>1, RowFacts
<1>3. i.op # "phi"
  BY DEF ThreadOK, Standing
<1>4. ExecOK(g.f, g.place, g.args, g.code, p, t.block, i)
  BY <1>2 DEF ItemOK
<1>5. j \in Instrs(g.f)
  <2>1. \A n \in DOMAIN g.f.body[t.block] : g.f.body[t.block][n] \in Instrs(g.f)
    BY <1>1, BodyFacts DEF Settled
  <2> QED BY <1>2, <2>1 DEF Original
<1>6. /\ i.op = j.op /\ i.val = Value(j.name) /\ i.blocks = j.blocks
      /\ i.op \notin {"alloca", "ret"}
      /\ i.op # "br" => g.place[j.name] = p
      /\ DOMAIN i.args = DOMAIN j.args
      /\ \A k \in DOMAIN i.args : Gives(g.f, g.place, g.args, g.code, p, t.block, i.line, i.args[k], j.args[k])
  BY <1>3, <1>4 DEF ExecOK, Original
<1>7. i.op # "br" => j.name \in DOMAIN g.place
  BY <1>5, <1>6, PlaceFacts
<1>8. \A k \in DOMAIN i.args : Read(g.f, t.env, i.args[k]) = Read(g.f, s.env, Value(j.args[k]))
  BY <1>6, GivesReads
<1>9. DOMAIN Names(j.args) = DOMAIN j.args /\ \A n \in DOMAIN j.args : Names(j.args)[n] = Value(j.args[n])
  BY NamesFacts
<1>10. ReadAll(g.f, t.env, i.args) = Operated(g.f, j, s)
  <2> HIDE DEF i, j, s
  <2>1. ReadAll(g.f, t.env, i.args) = ReadAll(g.f, s.env, Names(j.args))
    BY <1>6, <1>8, <1>9, ReadAllEqual
  <2> QED BY <2>1 DEF Operated
<1> QED BY <1>3, <1>5, <1>6, <1>7, <1>10 DEF Copies


LEMMA AfterExec ==
  ASSUME NEW g, Settled(g), NEW p \in DOMAIN g.code, NEW t, ThreadOK(g, p, t), Spot(g, p, t).do = "exec"
  PROVE  After(g, p, t) = Execute(g.f, Original(g, p, t), Now(g, p, t))
<1> DEFINE s == Visits(g.f, g.vals)[Len(t.path)]
           l == Spot(g, p, t).line
           N == Len(g.f.body[t.block])
<1>1. /\ t.block \in Blocks(g.f) /\ t.next \in DOMAIN g.code[p][t.block]
      /\ Spot(g, p, t) = g.code[p][t.block][t.next]
  BY RowRange
<1>2. l \in Nat /\ l >= 1 /\ l <= N
  BY <1>1, RowFacts
<1>3. N \in Nat
  BY <1>1, BodyFacts DEF Settled
<1>4. s.block = t.block
  <2>1. t.path \in Seq(Blocks(g.f)) /\ Len(t.path) >= 1
    BY DEF ThreadOK, Trodden
  <2>2. Len(t.path) \in 1 .. Len(t.path)
    BY <2>1
  <2> QED BY <2>1, <2>2 DEF ThreadOK, Trodden
<1> HIDE DEF s, l, N
<1>5. l \in 1 .. N /\ l + 1 - 1 = l
  BY <1>2, <1>3
<1>6. Within(g.f, s)[l] = Execute(g.f, g.f.body[t.block][l], Within(g.f, s)[l - 1])
  <2>1. Len(g.f.body[s.block]) \in Nat
    BY <1>3, <1>4 DEF N
  <2>2. \A n \in 1 .. Len(g.f.body[s.block]) :
              Within(g.f, s)[n] = Execute(g.f, g.f.body[s.block][n], Within(g.f, s)[n - 1])
    BY <2>1, WithinSteps
  <2> QED BY <1>4, <1>5, <2>2 DEF N
<1>7. After(g, p, t) = Within(g.f, s)[l + 1 - 1]
  <2>1. After(g, p, t) = Before(g.f, g.vals, Len(t.path), l + 1)
    BY DEF After, l
  <2>2. Before(g.f, g.vals, Len(t.path), l + 1) = Within(g.f, s)[l]
    <3> DEFINE m == l + 1
    <3>1. m - 1 = l
      BY <1>2
    <3> HIDE DEF m
    <3>2. Before(g.f, g.vals, Len(t.path), m) = Within(g.f, s)[l]
      BY <3>1 DEF s, Before
    <3> QED BY <3>2 DEF m
  <2> QED BY <1>5, <2>1, <2>2
<1>8. Now(g, p, t) = Within(g.f, s)[l - 1]
  BY DEF Now, Before, s, l
<1> QED BY <1>5, <1>6, <1>7, <1>8 DEF Original, l

\* Loads and stores name the global of an alloca.
LEMMA MemoryOperand ==
  ASSUME NEW g, Settled(g), NEW p \in DOMAIN g.code, NEW b \in Blocks(g.f), NEW n, NEW r, NEW v,
         Gives(g.f, g.place, g.args, g.code, p, b, n, r, v), v \in Allocas(g.f), p = 0
  PROVE  r = Value(v)
<1>1. PICK i \in Instrs(g.f) : i.op = "alloca" /\ i.name = v
  BY DEF Allocas
<1>2. v \notin ToSet(g.f.args) /\ g.place[v] = 0
  BY <1>1, PlaceFacts
<1>3. CASE \E x \in ToSet(g.code[p][b]) :
             /\ x.do = "receive" /\ x.val = r /\ x.line = n
             /\ \E j \in ToSet(g.code[x.peer][b]) : Partner(x, j, p) /\ j.val = Value(v)
  <2>1. PICK x \in ToSet(g.code[p][b]) :
             /\ x.do = "receive"
             /\ \E j \in ToSet(g.code[x.peer][b]) : Partner(x, j, p) /\ j.val = Value(v)
    BY <1>3
  <2>2. PICK j \in ToSet(g.code[x.peer][b]) : Partner(x, j, p) /\ j.val = Value(v)
    BY <2>1
  <2>3. CommOK(g.f, g.place, g.code, p, b, x)
    BY <2>1 DEF Settled, CodeOK, ItemsOK, ItemOK, IsComm
  <2>4. x.peer \in DOMAIN g.code /\ x.peer # p
    BY <2>3 DEF CommOK
  <2>5. j.do = "send"
    BY <2>1, <2>2 DEF Partner
  <2>6. CommOK(g.f, g.place, g.code, x.peer, b, j)
    BY <2>2, <2>4, <2>5 DEF Settled, CodeOK, ItemsOK, ItemOK, IsComm
  <2>7. PICK w \in DOMAIN g.place : j.val = Value(w) /\ g.place[w] = x.peer
    BY <2>5, <2>6 DEF CommOK
  <2>8. w = v
    BY <2>2, <2>7, RegistersApart
  <2> QED BY <1>2, <2>4, <2>7, <2>8
<1> QED BY <1>2, <1>3 DEF Gives

\* Memory is accessed from one partition.
LEMMA MemoryHeld ==
  ASSUME NEW g, Settled(g), NEW j \in Instrs(g.f), j.op \in {"load", "store"}, NEW p, g.place[j.name] = p
  PROVE  p = 0 /\ Holding(g.f, g.place, p, {"load", "store"})
<1>1. \A i \in Instrs(g.f) : i.op \in {"load", "store"} => g.place[i.name] = 0
  BY PlaceFacts
<1> QED BY <1>1 DEF Holding

LEMMA OwnCopy ==
  ASSUME NEW g, Settled(g), NEW j \in Instrs(g.f), j.op \notin {"alloca", "br"}, NEW p, g.place[j.name] = p
  PROVE  Own(g, p, Value(j.name))
<1>1. j.name \in DOMAIN g.place
  BY PlaceFacts
<1>2. j.name \notin Allocas(g.f)
  BY PlaceFacts DEF Allocas
<1> QED BY <1>1, <1>2 DEF Own

\* An instruction that defines a value.
LEMMA ExecWrites ==
  ASSUME NEW g, Settled(g), NEW p \in DOMAIN g.code, NEW t, ThreadOK(g, p, t), Copies(g, p, t),
         Spot(g, p, t).do = "exec", Spot(g, p, t).op # "br", NEW y \in Int,
         NEW u, u.env = Extended(t.env, Spot(g, p, t).val, y)
  PROVE  Writes(g, p, t, u, Spot(g, p, t).val)
<1> DEFINE i == Spot(g, p, t)
           x == i.val
           j == Original(g, p, t)
           row == g.code[p][t.block]
<1>1. /\ j \in Instrs(g.f) /\ i.op = j.op /\ x = Value(j.name) /\ g.place[j.name] = p
      /\ j.op \notin {"alloca", "br"}
  BY DEF Copies
<1>2. Own(g, p, x)
  BY <1>1, OwnCopy
<1>3. /\ Grown(t.env, Extended(t.env, x, y), x)
      /\ x \in DOMAIN Extended(t.env, x, y) /\ Extended(t.env, x, y)[x] = y
  BY GrownExtended
<1>4. Grown(t.env, u.env, x) /\ x \in DOMAIN u.env /\ u.env[x] = y
  BY <1>3
<1>5. ASSUME NEW n \in 1 .. t.next - 1, row[n].do = "receive"
      PROVE  row[n].val # x
  <2>1. row[n].val = Received(row[n].at)
    BY <1>5, RowRange, ReceivedNames
  <2> QED BY <1>1, <2>1, RegistersApart
<1>6. \A d \in DOMAIN g.args : g.args[d] # x
  BY <1>1, ArgumentNames, RegistersApart
<1> HIDE DEF x
<1>7. i.do # "receive" /\ i.do # "peek"
  OBVIOUS
<1> QED BY <1>2, <1>4, <1>5, <1>6, <1>7 DEF Writes, x

\* The state in which the copy leaves the partition's part is the one in which
\* the instruction leaves the function.
LEMMA ExecTracks ==
  ASSUME NEW g, Settled(g), NEW p \in DOMAIN g.code, NEW t, ThreadOK(g, p, t), NEW me, NEW ou,
         Tracks(g, p, t, me, ou), Spot(g, p, t).do = "exec", Copies(g, p, t),
         NEW e, NEW me2, NEW ou2,
         LET i == Spot(g, p, t)
             vals == ReadAll(g.f, t.env, i.args)
         IN  \/ /\ i.op \in {"add", "lt"} /\ me2 = me /\ ou2 = ou
                /\ e = Extended(t.env, i.val, Compute(i.op, vals))
             \/ /\ i.op = "load" /\ me2 = me /\ ou2 = ou /\ e = Extended(t.env, i.val, me[i.args[1]])
             \/ /\ i.op = "store" /\ me2 = [me EXCEPT ![i.args[2]] = vals[1]] /\ ou2 = ou /\ e = t.env
             \/ /\ i.op = "call" /\ me2 = me /\ ou2 = Append(ou, vals) /\ e = t.env
  PROVE  Agree(g.f, g.place, p, State(t.block, e, me2, ou2), After(g, p, t))
<1> DEFINE i == Spot(g, p, t)
           j == Original(g, p, t)
           s == Now(g, p, t)
           a == After(g, p, t)
           vals == ReadAll(g.f, t.env, i.args)
<1>1. /\ j \in Instrs(g.f) /\ i.op = j.op /\ i.val = Value(j.name)
      /\ vals = Operated(g.f, j, s) /\ DOMAIN i.args = DOMAIN j.args
      /\ \A k \in DOMAIN i.args : Gives(g.f, g.place, g.args, g.code, p, t.block, i.line, i.args[k], j.args[k])
      /\ i.op # "br" => g.place[j.name] = p
  BY DEF Copies
<1>2. a = Execute(g.f, j, s)
  BY AfterExec
<1>3. Shaped(s)
  BY NowOneThread DEF OneThread
<1>4. /\ j.op \in {"load", "store"} => i.args[IF j.op = "load" THEN 1 ELSE 2] = Value(j.args[IF j.op = "load" THEN 1 ELSE 2])
  <2>1. CASE j.op = "load"
    <3>1. 1 \in DOMAIN j.args /\ j.args[1] \in Allocas(g.f)
      <4>1. Verified(g.f) /\ Runnable(g.f)
        BY DEF Settled
      <4>2. DOMAIN j.args = 1 .. 1
        BY <1>1, <2>1, <4>1, TwoOperands
      <4> QED BY <1>1, <2>1, <4>1, <4>2 DEF Runnable
    <3>2. p = 0
      BY <1>1, <2>1, MemoryHeld
    <3>3. t.block \in Blocks(g.f)
      BY RowRange
    <3>4. i.args[1] = Value(j.args[1])
      <4>1. Gives(g.f, g.place, g.args, g.code, p, t.block, i.line, i.args[1], j.args[1])
        BY <1>1, <3>1
      <4> QED BY <3>1, <3>2, <3>3, <4>1, MemoryOperand
    <3> QED BY <2>1, <3>4
  <2>2. CASE j.op = "store"
    <3>1. 2 \in DOMAIN j.args /\ j.args[2] \in Allocas(g.f)
      <4>1. Verified(g.f) /\ Runnable(g.f)
        BY DEF Settled
      <4>2. DOMAIN j.args = 1 .. 2
        BY <1>1, <2>2, <4>1, TwoOperands
      <4> QED BY <1>1, <2>2, <4>1, <4>2 DEF Runnable
    <3>2. p = 0
      BY <1>1, <2>2, MemoryHeld
    <3>3. t.block \in Blocks(g.f)
      BY RowRange
    <3>4. i.args[2] = Value(j.args[2])
      <4>1. Gives(g.f, g.place, g.args, g.code, p, t.block, i.line, i.args[2], j.args[2])
        BY <1>1, <3>1
      <4> QED BY <3>1, <3>2, <3>3, <4>1, MemoryOperand
    <3> QED BY <2>2, <3>4
  <2> QED BY <2>1, <2>2
<1>5. /\ \A v \in DOMAIN g.place : g.place[v] = p => Read(g.f, t.env, Value(v)) = Read(g.f, s.env, Value(v))
      /\ Holding(g.f, g.place, p, {"load", "store"}) => me = s.mem
      /\ Holding(g.f, g.place, p, {"call"}) => ou = s.out
  BY StateFields DEF Tracks, Agree
<1>6. i.op \in {"load", "store"} => me = s.mem
  BY <1>1, <1>5, MemoryHeld
<1>7. /\ a.env = IF j.op \in {"add", "lt"}
                 THEN Extended(s.env, Value(j.name), Compute(j.op, vals))
                 ELSE IF j.op = "load"
                 THEN Extended(s.env, Value(j.name), s.mem[Value(j.args[1])])
                 ELSE s.env
      /\ a.mem = IF j.op = "store" THEN [s.mem EXCEPT ![Value(j.args[2])] = vals[1]]
                 ELSE s.mem
      /\ a.out = IF j.op = "call" THEN Append(s.out, vals) ELSE s.out
  <2> HIDE DEF s, j
  <2> QED BY <1>1, <1>2, <1>3, ExecuteFields
<1> HIDE DEF i, j, s, a, vals
<1>8. ASSUME NEW v \in DOMAIN g.place, g.place[v] = p
      PROVE  Read(g.f, e, Value(v)) = Read(g.f, a.env, Value(v))
  <2>1. \A y : Read(g.f, Extended(t.env, Value(j.name), y), Value(v))
               = Read(g.f, Extended(s.env, Value(j.name), y), Value(v))
    BY <1>5, <1>8, ReadExtended
  <2>2. CASE i.op \in {"add", "lt"}
    <3>1. e = Extended(t.env, Value(j.name), Compute(j.op, vals))
      BY <1>1, <2>2 DEF i, vals
    <3>2. a.env = Extended(s.env, Value(j.name), Compute(j.op, vals))
      BY <1>1, <1>7, <2>2
    <3> QED BY <2>1, <3>1, <3>2
  <2>3. CASE i.op = "load"
    <3>1. e = Extended(t.env, Value(j.name), s.mem[Value(j.args[1])])
      BY <1>1, <1>4, <1>6, <2>3 DEF i, vals
    <3>2. a.env = Extended(s.env, Value(j.name), s.mem[Value(j.args[1])])
      BY <1>1, <1>7, <2>3
    <3> QED BY <2>1, <3>1, <3>2
  <2>4. CASE i.op \in {"store", "call"}
    <3>1. e = t.env
      BY <2>4 DEF i
    <3>2. a.env = s.env
      BY <1>1, <1>7, <2>4
    <3> QED BY <1>5, <1>8, <3>1, <3>2
  <2> QED BY <2>2, <2>3, <2>4 DEF i
<1>9. Holding(g.f, g.place, p, {"load", "store"}) => me2 = a.mem
  <2>1. CASE i.op = "store"
    <3>1. me2 = [s.mem EXCEPT ![Value(j.args[2])] = vals[1]]
      BY <1>1, <1>4, <1>6, <2>1 DEF i, vals
    <3> QED BY <1>1, <1>7, <2>1, <3>1
  <2>2. CASE i.op # "store"
    <3>1. me2 = me
      BY <2>2 DEF i
    <3> QED BY <1>1, <1>5, <1>7, <2>2, <3>1
  <2> QED BY <2>1, <2>2
<1>10. Holding(g.f, g.place, p, {"call"}) => ou2 = a.out
  <2>1. CASE i.op = "call"
    <3>1. ou2 = Append(ou, vals)
      BY <2>1 DEF i, vals
    <3> QED BY <1>1, <1>5, <1>7, <2>1, <3>1
  <2>2. CASE i.op # "call"
    <3>1. ou2 = ou
      BY <2>2 DEF i
    <3> QED BY <1>1, <1>5, <1>7, <2>2, <3>1
  <2> QED BY <2>1, <2>2
<1>11. /\ State(t.block, e, me2, ou2).env = e /\ State(t.block, e, me2, ou2).mem = me2
       /\ State(t.block, e, me2, ou2).out = ou2
  BY StateFields
<1> QED BY <1>8, <1>9, <1>10, <1>11 DEF Agree, a

------------------------------------------------------------------------------
(* A thread goes on to the next block. *)

PhiRecords(g, p, b) == {[reg |-> i.val, args |-> i.args, blocks |-> i.blocks] :
                          i \in {j \in ToSet(g.code[p][b]) : j.op = "phi"}}

PhiPlaces(g, p, b) == {n \in DOMAIN g.code[p][b] : g.code[p][b][n].op = "phi"}

\* It describes the phi that item i copies.
RecordOf(g, p, b, x, i, j) ==
  /\ i.do = "exec" /\ i.op = "phi" /\ j.op = "phi" /\ j \in ToSet(g.f.body[b]) /\ j \in Instrs(g.f)
  /\ x = [reg |-> i.val, args |-> i.args, blocks |-> i.blocks]
  /\ i.val = Value(j.name) /\ i.blocks = j.blocks /\ g.place[j.name] = p

LEMMA PhiRecordOf ==
  ASSUME NEW g, Settled(g), NEW p \in DOMAIN g.code, NEW b \in Blocks(g.f), NEW x \in PhiRecords(g, p, b)
  PROVE  \E n \in DOMAIN g.code[p][b] :
           RecordOf(g, p, b, x, g.code[p][b][n], g.f.body[b][g.code[p][b][n].line])
<1>1. PICK i \in ToSet(g.code[p][b]) : i.op = "phi" /\ x = [reg |-> i.val, args |-> i.args, blocks |-> i.blocks]
  BY DEF PhiRecords
<1>2. PICK n \in DOMAIN g.code[p][b] : g.code[p][b][n] = i
  BY DEF ToSet
<1> DEFINE j == g.f.body[b][i.line]
<1>3. ItemOK(g.f, g.place, g.args, g.code, p, b, i) /\ i.line \in DOMAIN g.f.body[b]
  BY <1>2, RowFacts
<1>4. PhiMatched(g.f, b, i)
  BY <1>2, PhiItem
<1>5. j \in ToSet(g.f.body[b]) /\ j \in Instrs(g.f)
  <2>1. j \in ToSet(g.f.body[b])
    BY <1>3 DEF ToSet
  <2> QED BY <2>1 DEF Instrs
<1>6. i.do = "exec" /\ j.op = "phi"
  BY <1>1, <1>4 DEF PhiMatched
<1>7. ExecOK(g.f, g.place, g.args, g.code, p, b, i)
  BY <1>3, <1>6 DEF ItemOK
<1>8. i.val = Value(j.name) /\ i.blocks = j.blocks /\ g.place[j.name] = p
  BY <1>1, <1>7 DEF ExecOK
<1> QED BY <1>1, <1>2, <1>5, <1>6, <1>8 DEF RecordOf

\* The copies of the phis are told apart by their registers.
LEMMA PhiRecordsDiffer ==
  ASSUME NEW g, Settled(g), NEW p \in DOMAIN g.code, NEW b \in Blocks(g.f),
         NEW x \in PhiRecords(g, p, b), NEW y \in PhiRecords(g, p, b), x.reg = y.reg
  PROVE  x = y
<1> DEFINE row == g.code[p][b]
           of(i) == g.f.body[b][i.line]
<1>1. PICK m \in DOMAIN row : RecordOf(g, p, b, x, row[m], of(row[m]))
  BY PhiRecordOf
<1>2. PICK n \in DOMAIN row : RecordOf(g, p, b, y, row[n], of(row[n]))
  BY PhiRecordOf
<1>3. of(row[m]).name = of(row[n]).name
  <2>1. x.reg = Value(of(row[m]).name)
    BY <1>1 DEF RecordOf
  <2>2. y.reg = Value(of(row[n]).name)
    BY <1>2 DEF RecordOf
  <2> QED BY <2>1, <2>2, RegistersApart
<1>4. row[m].line \in DOMAIN g.f.body[b] /\ row[n].line \in DOMAIN g.f.body[b]
  BY RowFacts
<1>5. row[m].line = row[n].line
  <2>1. ASSUME NEW f, Verified(f), b \in Blocks(f), NEW k \in DOMAIN f.body[b], NEW l \in DOMAIN f.body[b],
               f.body[b][k].name = f.body[b][l].name
        PROVE  k = l
    BY <2>1, NameUnique
  <2> QED BY <1>3, <1>4, <2>1 DEF Settled
<1>6. RowOK(row) /\ DOMAIN row = 1 .. Len(row) /\ Len(row) \in Nat /\ row[m].line \in Nat
  BY RowFacts
<1> HIDE DEF row
<1>7. m = n
  <2>1. ~(m < n)
    <3> SUFFICES ASSUME m < n PROVE FALSE
      OBVIOUS
    <3>1. row[m].do = "exec"
      BY <1>1 DEF RecordOf
    <3>2. row[m].line < row[n].line
      BY <3>1, <1>6 DEF RowOK
    <3> QED BY <1>5, <1>6, <3>2
  <2>2. ~(n < m)
    <3> SUFFICES ASSUME n < m PROVE FALSE
      OBVIOUS
    <3>1. row[n].do = "exec"
      BY <1>2 DEF RecordOf
    <3>2. row[n].line < row[m].line
      BY <3>1, <1>6 DEF RowOK
    <3> QED BY <1>5, <1>6, <3>2
  <2> QED BY <1>6, <2>1, <2>2
<1> QED BY <1>1, <1>2, <1>7 DEF RecordOf

\* A phi of the partition, and its copy.
LEMMA PhiRecordExists ==
  ASSUME NEW g, Settled(g), NEW p \in DOMAIN g.code, NEW b \in Blocks(g.f), NEW j \in ToSet(g.f.body[b]),
         j.op = "phi", g.place[j.name] = p
  PROVE  \E x \in PhiRecords(g, p, b) :
           /\ x.reg = Value(j.name) /\ x.blocks = j.blocks /\ DOMAIN x.args = DOMAIN j.args
           /\ \A k \in DOMAIN x.args :
                Gives(g.f, g.place, g.args, g.code, p, j.blocks[k], Len(g.f.body[j.blocks[k]]), x.args[k], j.args[k])
<1>1. PICK l \in DOMAIN g.f.body[b] : g.f.body[b][l] = j
  BY DEF ToSet
<1>2. \E i \in ToSet(g.code[g.place[j.name]][b]) : i.do = "exec" /\ i.line = l /\ DOMAIN i.args = DOMAIN j.args
  <2>1. Complete(g.f, g.place, g.code)
    BY DEF Settled, CodeOK
  <2>2. g.f.body[b][l].op \notin {"alloca", "ret", "br"}
    BY <1>1
  <2>3. \E i \in ToSet(g.code[g.place[g.f.body[b][l].name]][b]) :
          i.do = "exec" /\ i.line = l /\ DOMAIN i.args = DOMAIN g.f.body[b][l].args
    BY <2>1, <2>2 DEF Complete
  <2> QED BY <1>1, <2>3
<1>3. PICK i \in ToSet(g.code[p][b]) : i.do = "exec" /\ i.line = l /\ DOMAIN i.args = DOMAIN j.args
  BY <1>2
<1>4. ItemOK(g.f, g.place, g.args, g.code, p, b, i)
  BY DEF Settled, CodeOK, ItemsOK
<1>5. ExecOK(g.f, g.place, g.args, g.code, p, b, i)
  BY <1>3, <1>4 DEF ItemOK
<1>6. /\ i.op = "phi" /\ i.val = Value(j.name) /\ i.blocks = j.blocks
      /\ \A k \in DOMAIN i.args :
           Gives(g.f, g.place, g.args, g.code, p, j.blocks[k], Len(g.f.body[j.blocks[k]]), i.args[k], j.args[k])
  BY <1>1, <1>3, <1>5 DEF ExecOK
<1> DEFINE x == [reg |-> i.val, args |-> i.args, blocks |-> i.blocks]
<1>7. x \in PhiRecords(g, p, b)
  BY <1>6 DEF PhiRecords
<1>8. x.reg = i.val /\ x.args = i.args /\ x.blocks = i.blocks
  OBVIOUS
<1> HIDE DEF x
<1> QED BY <1>3, <1>6, <1>7, <1>8

LEMMA ReadEntered ==
  ASSUME NEW f, NEW phis, NEW prev, NEW env, NEW e, EnteredWith(f, phis, prev, env, e), NEW r
  PROVE  /\ r \notin Regs(phis) => Read(f, e, r) = Read(f, env, r)
         /\ \A i \in phis : i.reg = r /\ (\A j \in phis : j.reg = i.reg => j = i) =>
              Read(f, e, r) = Read(f, env, Source(i, prev))
<1>1. r \notin Regs(phis) => Read(f, e, r) = Read(f, env, r)
  <2> SUFFICES ASSUME r \notin Regs(phis) PROVE Read(f, e, r) = Read(f, env, r)
    OBVIOUS
  <2>1. r \in DOMAIN e <=> r \in DOMAIN env
    BY DEF EnteredWith
  <2>2. r \in DOMAIN env => e[r] = env[r]
    BY DEF EnteredWith
  <2> QED BY <2>1, <2>2 DEF Read
<1>2. ASSUME NEW i \in phis, i.reg = r, \A j \in phis : j.reg = i.reg => j = i
      PROVE  Read(f, e, r) = Read(f, env, Source(i, prev))
  <2>1. r \in DOMAIN e
    BY <1>2 DEF EnteredWith, Regs
  <2>2. e[r] = Read(f, env, Source(i, prev))
    BY <1>2 DEF EnteredWith
  <2> QED BY <2>1, <2>2 DEF Read
<1> QED BY <1>1, <1>2

\* Registers e hold what the operands at the end of block b are in state d.
Holds(g, p, b, e, d) ==
  \A r, w : Gives(g.f, g.place, g.args, g.code, p, b, Len(g.f.body[b]), r, w) =>
              Read(g.f, e, r) = Read(g.f, d, Value(w))

\* The partition's phis take over the values that the function's do.
LEMMA PhiEntry ==
  ASSUME NEW g, Settled(g), NEW p \in DOMAIN g.code, NEW b \in Blocks(g.f), NEW prev \in Blocks(g.f),
         b \in ToSet(Cfg(g.f)[prev]), NEW e, NEW d,
         Holds(g, p, prev, e, d),
         NEW v \in DOMAIN g.place, g.place[v] = p, Read(g.f, e, Value(v)) = Read(g.f, d, Value(v))
  PROVE  Read(g.f, Enter(g.f, PhiRecords(g, p, b), prev, e), Value(v))
           = Read(g.f, Enter(g.f, PhisOf(g.f, b), prev, d), Value(v))
<1> DEFINE E == Enter(g.f, PhiRecords(g, p, b), prev, e)
           D == Enter(g.f, PhisOf(g.f, b), prev, d)
<1>1. EnteredWith(g.f, PhiRecords(g, p, b), prev, e, E) /\ EnteredWith(g.f, PhisOf(g.f, b), prev, d, D)
  BY EnterFields
<1>2. Verified(g.f)
  BY DEF Settled
<1> HIDE DEF E, D
<1>3. CASE \E j \in ToSet(g.f.body[b]) : j.op = "phi" /\ j.name = v
  <2>1. PICK j \in ToSet(g.f.body[b]) : j.op = "phi" /\ j.name = v
    BY <1>3
  <2>2. PICK x \in PhiRecords(g, p, b) :
           /\ x.reg = Value(v) /\ x.blocks = j.blocks /\ DOMAIN x.args = DOMAIN j.args
           /\ \A k \in DOMAIN x.args :
                Gives(g.f, g.place, g.args, g.code, p, j.blocks[k], Len(g.f.body[j.blocks[k]]), x.args[k], j.args[k])
    BY <2>1, PhiRecordExists
  <2> DEFINE y == [reg |-> Value(j.name), args |-> Names(j.args), blocks |-> j.blocks]
             c == CHOOSE n \in DOMAIN j.blocks : j.blocks[n] = prev
  <2>3. y \in PhisOf(g.f, b) /\ y.reg = Value(v) /\ y.args = Names(j.args) /\ y.blocks = j.blocks
    BY <2>1 DEF PhisOf
  <2>4. PICK l \in DOMAIN g.f.body[b] : g.f.body[b][l] = j
    BY DEF ToSet
  <2>5. /\ DOMAIN j.args = DOMAIN j.blocks
        /\ \E k \in DOMAIN j.blocks : j.blocks[k] = prev
    BY <1>2, <2>1, <2>4, PhiRows
  <2>6. c \in DOMAIN j.blocks /\ j.blocks[c] = prev
    BY <2>5
  <2>7. Source(x, prev) = x.args[c]
    BY <2>2 DEF Source
  <2>8. Source(y, prev) = Value(j.args[c])
    <3>1. Source(y, prev) = Names(j.args)[c]
      BY <2>3 DEF Source
    <3> HIDE DEF c
    <3>2. Names(j.args)[c] = Value(j.args[c])
      BY <2>5, <2>6, NamesFacts
    <3> QED BY <3>1, <3>2
  <2> HIDE DEF c, y
  <2>9. Gives(g.f, g.place, g.args, g.code, p, prev, Len(g.f.body[prev]), x.args[c], j.args[c])
    BY <2>2, <2>5, <2>6
  <2>12. Read(g.f, e, x.args[c]) = Read(g.f, d, Value(j.args[c]))
    BY <2>9 DEF Holds
  <2>10. Read(g.f, E, Value(v)) = Read(g.f, e, x.args[c])
    <3>1. \A z \in PhiRecords(g, p, b) : z.reg = x.reg => z = x
      BY PhiRecordsDiffer
    <3> QED BY <1>1, <2>2, <2>7, <3>1, ReadEntered
  <2>11. Read(g.f, D, Value(v)) = Read(g.f, d, Value(j.args[c]))
    <3>1. \A z \in PhisOf(g.f, b) : z.reg = y.reg => z = y
      BY <1>2, <2>3, PhisFacts
    <3> QED BY <1>1, <2>3, <2>8, <3>1, ReadEntered
  <2> QED BY <2>10, <2>11, <2>12 DEF E, D
<1>4. CASE ~ \E j \in ToSet(g.f.body[b]) : j.op = "phi" /\ j.name = v
  <2>1. Value(v) \notin Regs(PhisOf(g.f, b))
    <3>1. ASSUME NEW x \in PhisOf(g.f, b) PROVE x.reg # Value(v)
      <4>1. PICK j \in ToSet(g.f.body[b]) : j.op = "phi" /\ x = [reg |-> Value(j.name), args |-> Names(j.args), blocks |-> j.blocks]
        BY DEF PhisOf
      <4> QED BY <1>4, <4>1, RegistersApart
    <3> QED BY <3>1 DEF Regs
  <2>2. Value(v) \notin Regs(PhiRecords(g, p, b))
    <3>1. ASSUME NEW x \in PhiRecords(g, p, b) PROVE x.reg # Value(v)
      <4>1. PICK n \in DOMAIN g.code[p][b] :
              RecordOf(g, p, b, x, g.code[p][b][n], g.f.body[b][g.code[p][b][n].line])
        BY PhiRecordOf
      <4>2. PICK j : j = g.f.body[b][g.code[p][b][n].line]
        OBVIOUS
      <4>3. j \in ToSet(g.f.body[b]) /\ j.op = "phi" /\ x.reg = Value(j.name)
        BY <4>1, <4>2 DEF RecordOf
      <4> QED BY <1>4, <4>3, RegistersApart
    <3> QED BY <3>1 DEF Regs
  <2>3. Read(g.f, E, Value(v)) = Read(g.f, e, Value(v))
    BY <1>1, <2>2, ReadEntered
  <2>4. Read(g.f, D, Value(v)) = Read(g.f, d, Value(v))
    BY <1>1, <2>1, ReadEntered
  <2> QED BY <2>3, <2>4 DEF E, D
<1> QED BY <1>3, <1>4

\* At the first item after the phis.
LEMMA EntryTracks ==
  ASSUME NEW g, Settled(g), NEW p \in DOMAIN g.code, NEW u, NEW me, NEW ou,
         Len(u.path) \in Nat, Len(u.path) >= 1, u.block \in Blocks(g.f),
         u.block = Visits(g.f, g.vals)[Len(u.path)].block,
         u.next = Cardinality(PhiPlaces(g, p, u.block)) + 1,
         Agree(g.f, g.place, p, State(u.block, u.env, me, ou), Visits(g.f, g.vals)[Len(u.path)])
  PROVE  /\ Tracks(g, p, u, me, ou)
         /\ u.next \in DOMAIN g.code[p][u.block]
         /\ \A n \in 1 .. u.next - 1 : g.code[p][u.block][n].do = "exec"
         /\ Spot(g, p, u).op # "phi"
<1> DEFINE b == u.block
           row == g.code[p][b]
           k == Len(u.path)
           V == Visits(g.f, g.vals)[k]
           m == Spot(g, p, u).line
<1>1. PICK K \in Nat : /\ PhiPlaces(g, p, b) = 1 .. K
                       /\ Cardinality(PhiPlaces(g, p, b)) = K
                       /\ K + 1 \in DOMAIN row
  BY PhisFirst DEF PhiPlaces
<1>2. u.next = K + 1 /\ u.next \in DOMAIN row /\ Spot(g, p, u) = row[K + 1]
  <2> HIDE DEF row, b
  <2>1. u.next = K + 1
    BY <1>1 DEF b
  <2> QED BY <1>1, <2>1 DEF Spot, row, b
<1>3. \A n \in 1 .. K : n \in DOMAIN row /\ row[n].op = "phi"
  BY <1>1 DEF PhiPlaces
<1>4. \A n \in 1 .. K : row[n].do = "exec"
  <2> TAKE n \in 1 .. K
  <2>1. PhiMatched(g.f, b, row[n])
    BY <1>3, PhiItem
  <2> QED BY <1>3, <2>1 DEF PhiMatched
<1>5. row[K + 1].op # "phi"
  <2>1. K + 1 \notin 1 .. K
    BY <1>1
  <2> QED BY <1>1, <2>1 DEF PhiPlaces
<1>6. m \in Nat /\ m >= 1 /\ m <= Len(g.f.body[b])
  <2>1. \A n \in DOMAIN row : row[n].line \in Nat /\ row[n].line >= 1 /\ row[n].line <= Len(g.f.body[b])
    BY RowFacts
  <2> HIDE DEF row, b
  <2> QED BY <1>1, <1>2, <2>1
<1>7. ASSUME NEW l \in Nat, 1 <= l, l < m
      PROVE  Quiet(g.f, g.place, p, g.f.body[b][l])
  <2>1. l < row[K + 1].line
    BY <1>2, <1>7
  <2> QED BY <1>1, <1>3, <1>7, <2>1, EntryGap
<1>8. Verified(g.f) /\ Runnable(g.f) /\ Passes(g.f, g.vals) /\ Len(g.f.body[b]) \in Nat
  BY BodyFacts DEF Settled
<1>9. k \in Nat /\ k >= 1 /\ b = V.block
  OBVIOUS
<1>10. V = Before(g.f, g.vals, k, 1)
  <2>1. Within(g.f, V)[0] = V
    BY <1>8, <1>9, WithinSteps
  <2>2. 1 - 1 = 0
    OBVIOUS
  <2> QED BY <2>1, <2>2 DEF Before
<1> HIDE DEF m, k, b, V
<1>11. 1 \in Nat /\ 1 <= m /\ m <= Len(g.f.body[b]) + 1
  BY <1>6, <1>8
<1>12. Agree(g.f, g.place, p, Before(g.f, g.vals, k, 1), Before(g.f, g.vals, k, m))
  <2>1. b = Visits(g.f, g.vals)[k].block
    BY <1>9 DEF V
  <2>2. ASSUME NEW f, Verified(f), Runnable(f), NEW vals, Passes(f, vals), b = Visits(f, vals)[k].block,
               m <= Len(f.body[b]) + 1,
               \A n \in Nat : 1 <= n /\ n < m => Quiet(f, g.place, p, f.body[b][n])
        PROVE  Agree(f, g.place, p, Before(f, vals, k, 1), Before(f, vals, k, m))
    BY <1>6, <1>9, <1>11, <2>2, QuietLines
  <2>3. \A n \in Nat : 1 <= n /\ n < m => Quiet(g.f, g.place, p, g.f.body[b][n])
    BY <1>7
  <2> QED BY <1>8, <1>11, <2>1, <2>2, <2>3
<1>13. Now(g, p, u) = Before(g.f, g.vals, k, m)
  BY DEF Now, k, m
<1>14. Agree(g.f, g.place, p, State(b, u.env, me, ou), V)
  BY DEF b, V, k
<1>15. Tracks(g, p, u, me, ou)
  BY <1>10, <1>12, <1>13, <1>14, AgreeTransitive DEF Tracks, b
<1>16. u.next - 1 = K
  BY <1>1, <1>2
<1> QED BY <1>2, <1>4, <1>5, <1>15, <1>16 DEF row, b

\* A br is the end of the block, on the thread and in the function.
LEMMA BranchSpot ==
  ASSUME NEW g, Settled(g), NEW p \in DOMAIN g.code, NEW t, ThreadOK(g, p, t), Copies(g, p, t),
         Spot(g, p, t).do = "exec", Spot(g, p, t).op = "br"
  PROVE  /\ Spot(g, p, t).line = Len(g.f.body[t.block])
         /\ Original(g, p, t) = Last(g.f.body[t.block])
         /\ Last(g.f.body[t.block]).op = "br"
         /\ t.next = Len(g.code[p][t.block])
<1> DEFINE i == Spot(g, p, t)
           row == g.code[p][t.block]
<1>1. /\ t.block \in Blocks(g.f) /\ t.next \in DOMAIN row /\ i = row[t.next]
  BY RowRange
<1>2. i.line \in DOMAIN g.f.body[t.block] /\ DOMAIN row = 1 .. Len(row) /\ Len(row) \in Nat /\ RowOK(row)
  BY <1>1, RowFacts
<1>3. Original(g, p, t).op = "br"
  BY DEF Copies
<1>4. /\ \A n \in DOMAIN g.f.body[t.block] : g.f.body[t.block][n].op \in {"ret", "br"} <=> n = Len(g.f.body[t.block])
      /\ Last(g.f.body[t.block]) = g.f.body[t.block][Len(g.f.body[t.block])]
  BY <1>1, BodyFacts DEF Settled
<1>5. i.line = Len(g.f.body[t.block])
  BY <1>2, <1>3, <1>4 DEF Original
<1>6. t.next = Len(row)
  <2>1. Terminal(i)
    BY DEF Terminal
  <2> HIDE DEF row, i
  <2>2. Len(row) \in DOMAIN row
    BY <1>1, <1>2
  <2>3. ~(t.next < Len(row))
    BY <1>1, <1>2, <2>1, <2>2 DEF RowOK
  <2> QED BY <1>1, <1>2, <2>3
<1> QED BY <1>3, <1>4, <1>5, <1>6 DEF Original

\* The state of the function at the end of a block.
LEMMA BranchEnd ==
  ASSUME NEW g, Settled(g), NEW p \in DOMAIN g.code, NEW t, ThreadOK(g, p, t), Copies(g, p, t),
         Spot(g, p, t).do = "exec", Spot(g, p, t).op = "br"
  PROVE  LET a == AtEnd(g.f, Visits(g.f, g.vals)[Len(t.path)])
         IN  /\ a.block = t.block /\ a.env = Now(g, p, t).env /\ a.mem = Now(g, p, t).mem
             /\ a.out = Now(g, p, t).out /\ Shaped(a)
<1> DEFINE k == Len(t.path)
           s == Visits(g.f, g.vals)[k]
           a == AtEnd(g.f, s)
           N == Len(g.f.body[t.block])
           j == Original(g, p, t)
<1>1. k \in Nat /\ s.block = t.block
  <2>1. t.path \in Seq(Blocks(g.f)) /\ Len(t.path) >= 1
    BY DEF ThreadOK, Trodden
  <2>2. Len(t.path) \in 1 .. Len(t.path)
    BY <2>1
  <2> QED BY <2>1, <2>2 DEF ThreadOK, Trodden
<1>2. Spot(g, p, t).line = N /\ j.op = "br"
  BY BranchSpot DEF Copies
<1>3. N \in Nat
  BY RowRange, BodyFacts DEF Settled
<1>4. a = After(g, p, t)
  <2>1. a = Within(g.f, s)[N]
    BY <1>1 DEF AtEnd
  <2>2. After(g, p, t) = Before(g.f, g.vals, k, N + 1)
    BY <1>2 DEF After
  <2> DEFINE m == N + 1
  <2>3. m - 1 = N
    BY <1>3
  <2> HIDE DEF m, N
  <2>4. Before(g.f, g.vals, k, m) = Within(g.f, s)[N]
    BY <2>3 DEF Before
  <2> QED BY <2>1, <2>2, <2>4 DEF m
<1>5. a = Execute(g.f, j, Now(g, p, t))
  BY <1>4, AfterExec
<1>6. Shaped(Now(g, p, t)) /\ Now(g, p, t).block = t.block
  BY NowOneThread DEF OneThread
<1>7. a = Now(g, p, t)
  <2> HIDE DEF a, j
  <2> QED BY <1>2, <1>5 DEF Execute
<1> HIDE DEF a
<1> QED BY <1>6, <1>7 DEF a

Enters(g, p, t, u, to) ==
  /\ u.block = to
  /\ u.next = Cardinality(PhiPlaces(g, p, to)) + 1
  /\ u.env = Enter(g.f, PhiRecords(g, p, to), t.block, t.env)
  /\ u.path = Append(t.path, to)

LEMMA AppendFacts ==
  ASSUME NEW S, NEW q \in Seq(S), NEW x \in S, NEW r, r = Append(q, x)
  PROVE  /\ r \in Seq(S) /\ Len(r) = Len(q) + 1 /\ r[Len(q) + 1] = x /\ Len(q) \in Nat
         /\ \A n \in 1 .. Len(q) : r[n] = q[n]
OBVIOUS

LEMMA BranchTracks ==
  ASSUME NEW g, Settled(g), NEW p \in DOMAIN g.code, NEW t, ThreadOK(g, p, t), NEW me, NEW ou,
         Tracks(g, p, t, me, ou), Spot(g, p, t).do = "exec", Spot(g, p, t).op = "br",
         NEW u, NEW to, to = Destination(Spot(g, p, t).blocks, ReadAll(g.f, t.env, Spot(g, p, t).args)),
         Enters(g, p, t, u, to)
  PROVE  /\ ThreadOK(g, p, u) /\ Tracks(g, p, u, me, ou) /\ to \in Blocks(g.f)
         /\ \A n \in 1 .. u.next - 1 : g.code[p][u.block][n].do = "exec"
<1> DEFINE k == Len(t.path)
           V == Visits(g.f, g.vals)[k]
           W == Visits(g.f, g.vals)[k + 1]
           a == AtEnd(g.f, V)
           j == Original(g, p, t)
           prev == t.block
           E == Enter(g.f, PhiRecords(g, p, to), prev, t.env)
           D == Enter(g.f, PhisOf(g.f, to), prev, a.env)
<1>0. Copies(g, p, t)
  BY SpotCopies
<1>1. /\ a.block = prev /\ a.env = Now(g, p, t).env /\ a.mem = Now(g, p, t).mem
      /\ a.out = Now(g, p, t).out /\ Shaped(a)
  BY <1>0, BranchEnd
<1>2. /\ Spot(g, p, t).line = Len(g.f.body[prev])
      /\ j = Last(g.f.body[prev]) /\ Last(g.f.body[prev]).op = "br"
  BY <1>0, BranchSpot
<1>3. /\ Verified(g.f) /\ Runnable(g.f) /\ prev \in Blocks(g.f)
      /\ t.path \in Seq(Blocks(g.f)) /\ k \in Nat /\ k >= 1
  BY DEF Settled, ThreadOK, Standing, Trodden
<1>4. to = To(g.f, a)
  <2>1. Operated(g.f, j, a) = Operated(g.f, j, Now(g, p, t))
    BY <1>1 DEF Operated
  <2>2. ReadAll(g.f, t.env, Spot(g, p, t).args) = Operated(g.f, j, a) /\ Spot(g, p, t).blocks = j.blocks
    BY <1>0, <2>1 DEF Copies
  <2> HIDE DEF a, j
  <2> QED BY <1>1, <1>2, <2>2 DEF To
<1>5. to \in Blocks(g.f) /\ to \in ToSet(Cfg(g.f)[prev])
  <2> HIDE DEF j
  <2> QED BY <1>0, <1>2, <1>3, DestinationFacts DEF Copies, j
<1>6. W = State(to, D, a.mem, a.out)
  <2>1. W = Leave(g.f, a)
    BY <1>3, VisitsSteps
  <2> HIDE DEF a, W
  <2> QED BY <1>1, <1>2, <1>4, <2>1, LeaveFields
<1>7. /\ W.block = to /\ W.env = D /\ W.mem = Now(g, p, t).mem /\ W.out = Now(g, p, t).out
  <2> HIDE DEF a, W, D
  <2> QED BY <1>1, <1>6, StateFields
<1>8. Holds(g, p, prev, t.env, a.env)
  <2>1. ASSUME NEW r, NEW w, Gives(g.f, g.place, g.args, g.code, p, prev, Len(g.f.body[prev]), r, w)
        PROVE  Read(g.f, t.env, r) = Read(g.f, a.env, Value(w))
    <3>1. Gives(g.f, g.place, g.args, g.code, p, prev, Spot(g, p, t).line, r, w)
      BY <1>2, <2>1
    <3>2. Read(g.f, t.env, r) = Read(g.f, Now(g, p, t).env, Value(w))
      BY <3>1, GivesReads
    <3> QED BY <1>1, <3>2
  <2> QED BY <2>1 DEF Holds
<1>9. /\ \A v \in DOMAIN g.place : g.place[v] = p => Read(g.f, t.env, Value(v)) = Read(g.f, a.env, Value(v))
      /\ Holding(g.f, g.place, p, {"load", "store"}) => me = W.mem
      /\ Holding(g.f, g.place, p, {"call"}) => ou = W.out
  BY <1>1, <1>7, StateFields DEF Tracks, Agree
<1>10. \A v \in DOMAIN g.place : g.place[v] = p => Read(g.f, E, Value(v)) = Read(g.f, D, Value(v))
  <2>1. ASSUME NEW v \in DOMAIN g.place, g.place[v] = p
        PROVE  Read(g.f, E, Value(v)) = Read(g.f, D, Value(v))
    <3>1. Read(g.f, t.env, Value(v)) = Read(g.f, a.env, Value(v))
      BY <1>9, <2>1
    <3> HIDE DEF a
    <3> QED BY <1>3, <1>5, <1>8, <2>1, <3>1, PhiEntry
  <2> QED BY <2>1
<1>11. /\ u.path \in Seq(Blocks(g.f)) /\ Len(u.path) = k + 1 /\ u.path[k + 1] = to
       /\ \A n \in 1 .. k : u.path[n] = t.path[n]
  BY <1>3, <1>5, AppendFacts DEF Enters
<1>12. /\ u.block = to /\ u.env = E
  BY DEF Enters
<1> HIDE DEF k, V, W, a, j, E, D
<1>13. Agree(g.f, g.place, p, State(u.block, u.env, me, ou), W)
  <2>1. /\ State(u.block, u.env, me, ou).env = E /\ State(u.block, u.env, me, ou).mem = me
        /\ State(u.block, u.env, me, ou).out = ou
    BY <1>12, StateFields
  <2> QED BY <1>7, <1>9, <1>10, <2>1 DEF Agree
<1>14. Len(u.path) \in Nat /\ Len(u.path) >= 1 /\ u.next = Cardinality(PhiPlaces(g, p, u.block)) + 1
       /\ W = Visits(g.f, g.vals)[Len(u.path)]
  BY <1>3, <1>11, <1>12 DEF Enters, W
<1>15. /\ Tracks(g, p, u, me, ou)
       /\ u.next \in DOMAIN g.code[p][u.block]
       /\ \A n \in 1 .. u.next - 1 : g.code[p][u.block][n].do = "exec"
       /\ Spot(g, p, u).op # "phi"
  BY <1>5, <1>7, <1>12, <1>13, <1>14, EntryTracks
<1>16. \A r \in Regs(PhiRecords(g, p, to)) : Own(g, p, r)
  <2>1. ASSUME NEW x \in PhiRecords(g, p, to) PROVE Own(g, p, x.reg)
    <3>1. PICK n \in DOMAIN g.code[p][to] :
            RecordOf(g, p, to, x, g.code[p][to][n], g.f.body[to][g.code[p][to][n].line])
      BY <1>5, PhiRecordOf
    <3> DEFINE y == g.f.body[to][g.code[p][to][n].line]
    <3>2. y \in Instrs(g.f) /\ y.op = "phi" /\ g.place[y.name] = p /\ x.reg = Value(y.name)
      BY <3>1 DEF RecordOf
    <3> HIDE DEF y
    <3> QED BY <3>2, OwnCopy
  <2> QED BY <2>1 DEF Regs
<1>17. /\ DOMAIN E = DOMAIN t.env \cup Regs(PhiRecords(g, p, to))
       /\ \A r \in DOMAIN t.env \ Regs(PhiRecords(g, p, to)) : E[r] = t.env[r]
  <2>1. EnteredWith(g.f, PhiRecords(g, p, to), prev, t.env, E)
    BY EnterFields DEF E
  <2> QED BY <2>1 DEF EnteredWith
<1>18. \A r \in DOMAIN E : E[r] \in Int
  <2>1. \A r \in DOMAIN t.env : t.env[r] \in Int
    BY DEF ThreadOK, Standing
  <2> QED BY <1>3, <2>1, EnterInt DEF E
<1>19. Standing(g, p, u)
  <2>1. \A r \in DOMAIN t.env : Own(g, p, r) \/ \E x : r = Received(x) \/ r = Argument(x)
    BY DEF ThreadOK, Standing
  <2> QED BY <1>5, <1>12, <1>15, <1>16, <1>17, <1>18, <2>1 DEF Standing
<1>20. Trodden(g, u)
  <2>1. ASSUME NEW n \in 1 .. k + 1
        PROVE  /\ u.path[n] = Visits(g.f, g.vals)[n].block
               /\ n < k + 1 => Last(g.f.body[u.path[n]]).op = "br"
    <3>1. n = k + 1 \/ n \in 1 .. k
      BY <1>3
    <3>2. CASE n = k + 1
      BY <1>3, <1>7, <1>11, <3>2 DEF W
    <3>3. CASE n \in 1 .. k
      <4>1. u.path[n] = t.path[n]
        BY <1>11, <3>3
      <4>2. t.path[n] = Visits(g.f, g.vals)[n].block /\ (n < k => Last(g.f.body[t.path[n]]).op = "br")
        BY <3>3 DEF ThreadOK, Trodden, k
      <4>3. n = k => t.path[n] = prev
        BY DEF ThreadOK, Trodden, k
      <4>4. n = k \/ n < k
        BY <1>3, <3>3
      <4> QED BY <1>2, <4>1, <4>2, <4>3, <4>4
    <3> QED BY <3>1, <3>2, <3>3
  <2> QED BY <1>3, <1>11, <1>12, <2>1 DEF Trodden
<1>21. Heard(g, p, u)
  BY <1>15 DEF Heard
<1>22. Told(g, p, u)
  <2>1. ASSUME NEW v \in ToSet(g.f.args), <<p, v>> \in DOMAIN g.args
        PROVE  g.args[<<p, v>>] \in DOMAIN u.env /\ u.env[g.args[<<p, v>>]] = g.vals[Value(v)]
    <3> DEFINE r == g.args[<<p, v>>]
    <3>1. r \in DOMAIN t.env /\ t.env[r] = g.vals[Value(v)]
      BY <2>1, ToldArgument
    <3>2. \E x : r = Argument(x)
      BY <2>1, ArgumentNames
    <3>3. r \notin Regs(PhiRecords(g, p, to))
      BY <1>16, <3>2, RegistersApart DEF Own
    <3> HIDE DEF r
    <3>4. r \in DOMAIN u.env /\ u.env[r] = g.vals[Value(v)]
      BY <1>12, <1>17, <3>1, <3>3
    <3> QED BY <3>4 DEF r
  <2> QED BY <2>1 DEF Told
<1> QED BY <1>5, <1>15, <1>19, <1>20, <1>21, <1>22 DEF ThreadOK

\* An instruction of the partition is executed.
Executes(g, p, t, u, me, ou, me2, ou2) ==
  LET i    == Spot(g, p, t)
      vals == ReadAll(g.f, t.env, i.args)
  IN  \/ /\ i.op \in {"add", "lt"} /\ me2 = me /\ ou2 = ou
         /\ u.env = Extended(t.env, i.val, Compute(i.op, vals))
      \/ /\ i.op = "load" /\ me2 = me /\ ou2 = ou /\ u.env = Extended(t.env, i.val, me[i.args[1]])
      \/ /\ i.op = "store" /\ me2 = [me EXCEPT ![i.args[2]] = vals[1]] /\ ou2 = ou /\ u.env = t.env
      \/ /\ i.op = "call" /\ me2 = me /\ ou2 = Append(ou, vals) /\ u.env = t.env

LEMMA ExecStep ==
  ASSUME NEW g, Settled(g), NEW p \in DOMAIN g.code, NEW t, ThreadOK(g, p, t), NEW me, NEW ou,
         Tracks(g, p, t, me, ou), Spot(g, p, t).do = "exec", NEW u, GoesOn(t, u),
         NEW me2, NEW ou2, Executes(g, p, t, u, me, ou, me2, ou2)
  PROVE  /\ ThreadOK(g, p, u) /\ Tracks(g, p, u, me2, ou2)
         /\ me2 = me \/ \E i \in Instrs(g.f) : i.op = "store" /\ g.place[i.name] = p
         /\ ou2 = ou \/ \E i \in Instrs(g.f) : i.op = "call" /\ g.place[i.name] = p
<1> DEFINE i == Spot(g, p, t)
           j == Original(g, p, t)
           s == Now(g, p, t)
           vals == ReadAll(g.f, t.env, i.args)
<1>1. Copies(g, p, t)
  BY SpotCopies
<1>2. /\ j \in Instrs(g.f) /\ i.op = j.op /\ i.val = Value(j.name) /\ vals = Operated(g.f, j, s)
      /\ DOMAIN i.args = DOMAIN j.args
      /\ i.op # "br" => g.place[j.name] = p
      /\ \A k \in DOMAIN i.args : Gives(g.f, g.place, g.args, g.code, p, t.block, i.line, i.args[k], j.args[k])
  BY <1>1 DEF Copies
<1>3. i.op \in {"add", "lt", "load", "store", "call"}
  BY DEF Executes
<1>4. ~Terminal(i)
  BY <1>3 DEF Terminal
<1>5. Agree(g.f, g.place, p, State(t.block, u.env, me2, ou2), After(g, p, t))
  <2> HIDE DEF i, vals
  <2> QED BY <1>1, ExecTracks DEF Executes
<1>6. Tracks(g, p, u, me2, ou2)
  BY <1>4, <1>5, AdvanceTracks DEF GoesOn
<1>7. OneThread(g.f, g.vals, s) /\ Verified(g.f) /\ Runnable(g.f)
  BY NowOneThread DEF Settled
<1>8. CASE i.op \in {"add", "lt"}
  <2>1. Compute(i.op, vals) \in Int
    <3>1. DOMAIN j.args = 1 .. 2
      BY <1>2, <1>7, <1>8, TwoOperands
    <3>2. vals[1] \in Int /\ vals[2] \in Int
      <4>1. \A r \in DOMAIN s.env : s.env[r] \in Int
        BY <1>7 DEF OneThread
      <4>2. \A k \in DOMAIN j.args : Operated(g.f, j, s)[k] \in Int
        BY <1>2, <1>7, <4>1, OperatedInt
      <4> QED BY <1>2, <3>1, <4>2
    <3> QED BY <3>2, ComputeInt
  <2>2. u.env = Extended(t.env, i.val, Compute(i.op, vals)) /\ me2 = me /\ ou2 = ou
    BY <1>8 DEF Executes
  <2>3. Writes(g, p, t, u, i.val)
    BY <1>1, <1>8, <2>1, <2>2, ExecWrites
  <2> QED BY <1>4, <1>6, <2>2, <2>3, AdvanceOK
<1>9. CASE i.op = "load"
  <2>1. me[i.args[1]] \in Int
    <3>1. me = s.mem
      <4>1. Holding(g.f, g.place, p, {"load", "store"})
        BY <1>2, <1>9, MemoryHeld
      <4> QED BY <4>1, StateFields DEF Tracks, Agree
    <3>2. DOMAIN j.args = 1 .. 1 /\ Value(j.args[1]) \in Addresses(g.f)
      BY <1>2, <1>7, <1>9, TwoOperands
    <3>3. i.args[1] = Value(j.args[1])
      <4>1. Gives(g.f, g.place, g.args, g.code, p, t.block, i.line, i.args[1], j.args[1])
        BY <1>2, <3>2
      <4>2. j.args[1] \in Allocas(g.f)
        BY <3>2, RegistersApart DEF Addresses
      <4>3. t.block \in Blocks(g.f)
        BY RowRange
      <4>4. p = 0 /\ Holding(g.f, g.place, p, {"load", "store"})
        BY <1>2, <1>9, MemoryHeld
      <4> QED BY <4>1, <4>2, <4>3, <4>4, MemoryOperand
    <3>4. s.mem \in [Addresses(g.f) -> Int]
      BY <1>7 DEF OneThread
    <3> QED BY <3>1, <3>2, <3>3, <3>4
  <2>2. u.env = Extended(t.env, i.val, me[i.args[1]]) /\ me2 = me /\ ou2 = ou
    BY <1>9 DEF Executes
  <2>3. Writes(g, p, t, u, i.val)
    BY <1>1, <1>9, <2>1, <2>2, ExecWrites
  <2> QED BY <1>4, <1>6, <2>2, <2>3, AdvanceOK
<1>10. CASE i.op \in {"store", "call"}
  <2>1. /\ u.env = t.env
        /\ i.op = "store" => ou2 = ou
        /\ i.op = "call" => me2 = me
    BY <1>10 DEF Executes
  <2>2. Writes(g, p, t, u, NoRegister)
    BY <2>1, KeepWrites
  <2>3. ThreadOK(g, p, u)
    BY <1>4, <2>2, AdvanceOK
  <2> QED BY <1>2, <1>6, <1>10, <2>1, <2>3
<1> QED BY <1>3, <1>8, <1>9, <1>10

------------------------------------------------------------------------------
(* All threads. *)

Threads(g, th, me, ou) ==
  /\ DOMAIN th = DOMAIN g.code
  /\ \A p \in DOMAIN g.code : ThreadOK(g, p, th[p]) /\ Tracks(g, p, th[p], me, ou)

Others(g, th, th2, p) == DOMAIN th2 = DOMAIN th /\ \A q \in DOMAIN g.code : q # p => th2[q] = th[q]

LEMMA ThreadsMove ==
  ASSUME NEW g, NEW p \in DOMAIN g.code, NEW th, NEW th2, NEW me, NEW ou, NEW me2, NEW ou2,
         Threads(g, th, me, ou), Others(g, th, th2, p), ThreadOK(g, p, th2[p]), Tracks(g, p, th2[p], me2, ou2),
         me2 = me \/ \E i \in Instrs(g.f) : i.op = "store" /\ g.place[i.name] = p,
         ou2 = ou \/ \E i \in Instrs(g.f) : i.op = "call" /\ g.place[i.name] = p
  PROVE  Threads(g, th2, me2, ou2)
<1>1. ASSUME NEW q \in DOMAIN g.code, q # p
      PROVE  ThreadOK(g, q, th2[q]) /\ Tracks(g, q, th2[q], me2, ou2)
  <2>1. th2[q] = th[q]
    BY <1>1 DEF Others
  <2>2. ThreadOK(g, q, th[q]) /\ Tracks(g, q, th[q], me, ou)
    BY DEF Threads
  <2>3. Holding(g.f, g.place, q, {"load", "store"}) => me2 = me
    BY <1>1 DEF Holding
  <2>4. Holding(g.f, g.place, q, {"call"}) => ou2 = ou
    BY <1>1 DEF Holding
  <2>5. Tracks(g, q, th[q], me2, ou2)
    <3> DEFINE b == th[q].block
               e == th[q].env
    <3>1. /\ State(b, e, me, ou).env = e /\ State(b, e, me, ou).mem = me /\ State(b, e, me, ou).out = ou
          /\ State(b, e, me2, ou2).env = e /\ State(b, e, me2, ou2).mem = me2 /\ State(b, e, me2, ou2).out = ou2
      BY StateFields
    <3> QED BY <2>2, <2>3, <2>4, <3>1 DEF Tracks, Agree
  <2> QED BY <2>1, <2>2, <2>5
<1> QED BY <1>1 DEF Threads, Others

------------------------------------------------------------------------------
(* The addresses. *)

\* The visits in which a thread has executed item n of its copy of block b.
Passed(t, b, n) == {k \in 1 .. Len(t.path) : t.path[k] = b /\ (k = Len(t.path) => n < t.next)}

\* Thread t sends by item n of block b what thread u receives by item m: the
\* address is free when both have done so equally often, and otherwise holds
\* what t has sent in the one visit in which u has not received it.
Channel(g, t, u, y, b, n, m, i) ==
  /\ y = Empty => Passed(t, b, n) = Passed(u, b, m)
  /\ y # Empty => \E k \in Passed(t, b, n) : /\ k \notin Passed(u, b, m)
                                             /\ Passed(t, b, n) = Passed(u, b, m) \cup {k}
                                             /\ y = Read(g.f, Before(g.f, g.vals, k, i.line).env, i.val)

Channels(g, th, sl) ==
  \A p \in DOMAIN g.code : \A b \in Blocks(g.f) : \A n \in DOMAIN g.code[p][b] :
    LET i == g.code[p][b][n]
    IN  i.do = "send" => \A m \in DOMAIN g.code[i.peer][b] :
          Partner(i, g.code[i.peer][b][m], p) => Channel(g, th[p], th[i.peer], sl[i.at], b, n, m, i)

\* The host has sent the arguments or nothing.
ArgSlots(g, sl) ==
  \A d \in DOMAIN g.args : \A x : g.args[d] = Argument(x) => sl[x] = Empty \/ sl[x] = g.vals[Value(d[2])]

Slots(g, sl) == DOMAIN sl = g.ids /\ \A x \in g.ids : sl[x] \in Int \/ sl[x] = Empty

\* No communication is executed between t and u.
Silent(g, p, t, u) ==
  \A b \in Blocks(g.f) : \A n \in DOMAIN g.code[p][b] :
    IsComm(g.code[p][b][n]) => Passed(u, b, n) = Passed(t, b, n)

LEMMA SilentRefl ==
  ASSUME NEW g, NEW p, NEW t, NEW u, u.path = t.path, u.next = t.next
  PROVE  Silent(g, p, t, u)
BY DEF Silent, Passed

\* From t to u item n of block b is executed or nothing changes for it.
Counts(t, u, b, n) ==
  /\ b # t.block \/ n # t.next => Passed(u, b, n) = Passed(t, b, n)
  /\ b = t.block /\ n = t.next => /\ Passed(u, b, n) = Passed(t, b, n) \cup {Len(t.path)}
                                  /\ Len(t.path) \notin Passed(t, b, n)

LEMMA FollowsPassed ==
  ASSUME NEW g, Settled(g), NEW p \in DOMAIN g.code, NEW t, ThreadOK(g, p, t), NEW u, GoesOn(t, u),
         NEW b \in Blocks(g.f), NEW n \in DOMAIN g.code[p][b]
  PROVE  Counts(t, u, b, n)
<1> DEFINE k == Len(t.path)
<1>1. k \in Nat /\ k >= 1 /\ t.path[k] = t.block
  <2>1. t.path \in Seq(Blocks(g.f)) /\ Len(t.path) >= 1 /\ t.path[Len(t.path)] = t.block
    BY DEF ThreadOK, Trodden
  <2> QED BY <2>1
<1>2. t.next \in Nat
  BY RowRange
<1>3. n \in Nat
  <2>1. DOMAIN g.code[p][b] = 1 .. Len(g.code[p][b])
    BY RowFacts
  <2> DEFINE N == Len(g.code[p][b])
  <2> HIDE DEF N
  <2>2. n \in 1 .. N
    BY <2>1 DEF N
  <2>3. N \in Nat
    BY RowFacts DEF N
  <2> QED BY <2>2, <2>3
<1>4. u.path = t.path /\ u.next = t.next + 1
  BY DEF GoesOn
<1>5. /\ Passed(t, b, n) = {j \in 1 .. k : t.path[j] = b /\ (j = k => n < t.next)}
      /\ Passed(u, b, n) = {j \in 1 .. k : t.path[j] = b /\ (j = k => n < t.next + 1)}
  BY <1>4 DEF Passed
<1> HIDE DEF k
<1>6. n # t.next => (n < t.next + 1 <=> n < t.next)
  BY <1>2, <1>3
<1>7. b # t.block => Passed(u, b, n) = Passed(t, b, n)
  BY <1>1, <1>5
<1>8. n # t.next => Passed(u, b, n) = Passed(t, b, n)
  BY <1>1, <1>5, <1>6
<1>9. ASSUME b = t.block, n = t.next
      PROVE  Passed(u, b, n) = Passed(t, b, n) \cup {Len(t.path)} /\ Len(t.path) \notin Passed(t, b, n)
  <2>1. n < t.next + 1 /\ ~(n < t.next)
    BY <1>2, <1>3, <1>9
  <2>2. k \in 1 .. k
    BY <1>1
  <2>3. Passed(u, b, n) = {j \in 1 .. k : t.path[j] = b}
    BY <1>5, <2>1
  <2>4. Passed(t, b, n) = {j \in 1 .. k : t.path[j] = b /\ j # k}
    BY <1>5, <2>1
  <2> QED BY <1>1, <1>9, <2>2, <2>3, <2>4 DEF k
<1> QED BY <1>7, <1>8, <1>9 DEF Counts

LEMMA FollowsSilent ==
  ASSUME NEW g, Settled(g), NEW p \in DOMAIN g.code, NEW t, ThreadOK(g, p, t), NEW u, GoesOn(t, u),
         ~IsComm(Spot(g, p, t))
  PROVE  Silent(g, p, t, u)
<1>1. ASSUME NEW b \in Blocks(g.f), NEW n \in DOMAIN g.code[p][b], IsComm(g.code[p][b][n])
      PROVE  Passed(u, b, n) = Passed(t, b, n)
  <2>1. b # t.block \/ n # t.next
    BY <1>1 DEF Spot
  <2>2. Counts(t, u, b, n)
    BY FollowsPassed
  <2> QED BY <2>1, <2>2 DEF Counts
<1> QED BY <1>1 DEF Silent

LEMMA EntersSilent ==
  ASSUME NEW g, Settled(g), NEW p \in DOMAIN g.code, NEW t, ThreadOK(g, p, t), NEW u, NEW to \in Blocks(g.f),
         t.next = Len(g.code[p][t.block]), ~IsComm(Spot(g, p, t)), Enters(g, p, t, u, to),
         \A n \in 1 .. u.next - 1 : g.code[p][to][n].do = "exec", u.next \in Nat
  PROVE  Silent(g, p, t, u)
<1> DEFINE k == Len(t.path)
<1>1. t.path \in Seq(Blocks(g.f)) /\ k \in Nat /\ k >= 1 /\ t.path[k] = t.block
  BY DEF ThreadOK, Trodden
<1>2. /\ Len(u.path) = k + 1 /\ u.path[k + 1] = to
      /\ \A n \in 1 .. k : u.path[n] = t.path[n]
  BY <1>1, AppendFacts DEF Enters
<1> HIDE DEF k
<1>3. ASSUME NEW b \in Blocks(g.f), NEW n \in DOMAIN g.code[p][b], IsComm(g.code[p][b][n])
      PROVE  Passed(u, b, n) = Passed(t, b, n)
  <2>1. n \in Nat /\ n >= 1 /\ n <= Len(g.code[p][b]) /\ Len(g.code[p][b]) \in Nat
    <3>1. DOMAIN g.code[p][b] = 1 .. Len(g.code[p][b]) /\ Len(g.code[p][b]) \in Nat
      BY RowFacts
    <3> DEFINE row == g.code[p][b]
    <3>2. n \in DOMAIN row /\ DOMAIN row = 1 .. Len(row) /\ Len(row) \in Nat
      BY <3>1
    <3> HIDE DEF row
    <3>3. n \in Nat /\ n >= 1 /\ n <= Len(row)
      BY <3>2
    <3> QED BY <3>1, <3>3 DEF row
  <2>2. b = t.block => n < t.next
    <3>1. b = t.block => n # t.next
      BY <1>3 DEF Spot
    <3>2. b = t.block => t.next = Len(g.code[p][b])
      OBVIOUS
    <3> QED BY <2>1, <3>1, <3>2
  <2>3. b = to => ~(n < u.next)
    <3> SUFFICES ASSUME b = to, n < u.next PROVE FALSE
      OBVIOUS
    <3>1. n \in 1 .. u.next - 1
      BY <2>1
    <3> QED BY <1>3, <3>1 DEF IsComm
  <2>4. Passed(t, b, n) = {j \in 1 .. k : t.path[j] = b}
    BY <1>1, <2>2 DEF Passed, k
  <2>5. Passed(u, b, n) = {j \in 1 .. k + 1 : u.path[j] = b /\ (j = k + 1 => n < u.next)}
    BY <1>2 DEF Passed
  <2>6. \A j \in 1 .. k + 1 : j = k + 1 \/ (j \in 1 .. k /\ j # k + 1)
    BY <1>1
  <2>7. \A j \in 1 .. k : j \in 1 .. k + 1 /\ j # k + 1
    BY <1>1
  <2> QED BY <1>2, <2>3, <2>4, <2>5, <2>6, <2>7
<1> QED BY <1>3 DEF Silent

LEMMA CommItem ==
  ASSUME NEW g, Settled(g), NEW p \in DOMAIN g.code, NEW b \in Blocks(g.f), NEW n \in DOMAIN g.code[p][b],
         IsComm(g.code[p][b][n])
  PROVE  LET i == g.code[p][b][n]
         IN  /\ i.at \in g.ids /\ i.peer \in DOMAIN g.code /\ i.peer # p
             /\ \E m \in DOMAIN g.code[i.peer][b] : Partner(i, g.code[i.peer][b][m], p)
<1> DEFINE i == g.code[p][b][n]
<1>1. i \in ToSet(g.code[p][b])
  BY RowFacts
<1>2. ItemOK(g.f, g.place, g.args, g.code, p, b, i)
  BY RowFacts
<1>3. CommOK(g.f, g.place, g.code, p, b, i)
  BY <1>2 DEF ItemOK
<1>4. i.at \in g.ids
  BY <1>1 DEF Settled, InRange
<1> HIDE DEF i
<1>5. \E m \in DOMAIN g.code[i.peer][b] : Partner(i, g.code[i.peer][b][m], p)
  <2>1. PICK j \in ToSet(g.code[i.peer][b]) : Partner(i, j, p)
    BY <1>3 DEF CommOK
  <2> QED BY <2>1 DEF ToSet
<1> QED BY <1>3, <1>4, <1>5 DEF CommOK, i

LEMMA SpotComm ==
  ASSUME NEW g, Settled(g), NEW p \in DOMAIN g.code, NEW t, ThreadOK(g, p, t), IsComm(Spot(g, p, t))
  PROVE  /\ Spot(g, p, t).at \in g.ids
         /\ Spot(g, p, t).peer \in DOMAIN g.code /\ Spot(g, p, t).peer # p
<1>1. PICK c : c = Spot(g, p, t)
  OBVIOUS
<1>2. PICK b, n : b \in Blocks(g.f) /\ n \in DOMAIN g.code[p][b] /\ c = g.code[p][b][n]
  BY <1>1, RowRange
<1>3. c.at \in g.ids /\ c.peer \in DOMAIN g.code /\ c.peer # p
  BY <1>1, <1>2, CommItem
<1> QED BY <1>1, <1>3

LEMMA SpotItem ==
  ASSUME NEW g, Settled(g), NEW p \in DOMAIN g.code, NEW t, ThreadOK(g, p, t)
  PROVE  ItemOK(g.f, g.place, g.args, g.code, p, t.block, Spot(g, p, t))
<1>1. PICK c : c = Spot(g, p, t)
  OBVIOUS
<1>2. t.block \in Blocks(g.f) /\ t.next \in DOMAIN g.code[p][t.block] /\ c = g.code[p][t.block][t.next]
  BY <1>1, RowRange
<1>3. ItemOK(g.f, g.place, g.args, g.code, p, t.block, c)
  BY <1>2, RowFacts
<1> QED BY <1>1, <1>3

\* Two items do the same with the same address.
Twins(g, p, a, m, q, b, n) ==
  /\ p \in DOMAIN g.code /\ a \in Blocks(g.f) /\ m \in DOMAIN g.code[p][a]
  /\ q \in DOMAIN g.code /\ b \in Blocks(g.f) /\ n \in DOMAIN g.code[q][b]
  /\ IsComm(g.code[p][a][m])
  /\ g.code[p][a][m].do = g.code[q][b][n].do
  /\ g.code[p][a][m].at = g.code[q][b][n].at

LEMMA SameComm ==
  ASSUME NEW g, Settled(g), NEW p, NEW a, NEW m, NEW q, NEW b, NEW n, Twins(g, p, a, m, q, b, n)
  PROVE  p = q /\ a = b /\ m = n
<1> DEFINE i == g.code[p][a][m]
           j == g.code[q][b][n]
<1>0. /\ p \in DOMAIN g.code /\ a \in Blocks(g.f) /\ m \in DOMAIN g.code[p][a]
      /\ q \in DOMAIN g.code /\ b \in Blocks(g.f) /\ n \in DOMAIN g.code[q][b]
      /\ IsComm(i) /\ i.do = j.do /\ i.at = j.at
  BY DEF Twins
<1>1. i \in ToSet(g.code[p][a]) /\ j \in ToSet(g.code[q][b]) /\ IsComm(j)
  BY <1>0, RowFacts DEF IsComm
<1>2. p = q /\ a = b
  BY <1>0, <1>1 DEF Settled, CodeOK, Owned
<1>3. i.at \in Nat
  <2>1. ItemOK(g.f, g.place, g.args, g.code, p, a, i)
    BY <1>0, RowFacts
  <2> QED BY <1>0, <2>1 DEF ItemOK, CommOK
<1> DEFINE row == g.code[p][a]
<1>4. RowOK(row) /\ DOMAIN row = 1 .. Len(row) /\ Len(row) \in Nat
  BY <1>0, RowSorted
<1>5. /\ m \in DOMAIN row /\ n \in DOMAIN row /\ row[m] = i /\ row[n] = j /\ IsComm(i) /\ IsComm(j) /\ i.at = j.at
  BY <1>0, <1>1, <1>2
<1> HIDE DEF i, j, row
<1>6. ~(m < n)
  BY <1>3, <1>4, <1>5 DEF RowOK
<1>7. ~(n < m)
  BY <1>3, <1>4, <1>5 DEF RowOK
<1>8. m = n
  BY <1>4, <1>5, <1>6, <1>7
<1> QED BY <1>2, <1>8

LEMMA PartnerFacts ==
  ASSUME NEW i, NEW j, NEW p, Partner(i, j, p)
  PROVE  /\ j.at = i.at /\ j.line = i.line /\ j.peer = p
         /\ i.do = "send" => j.do = "receive"
         /\ i.do = "receive" => j.do = "send"
         /\ IsComm(i) /\ IsComm(j)
<1>1. {i.do, j.do} = {"send", "receive"} /\ "send" # "receive"
  BY DEF Partner
<1>2. i.do = "send" \/ i.do = "receive"
  BY <1>1
<1>3. j.do = "send" \/ j.do = "receive"
  BY <1>1
<1>4. i.do = "send" => j.do = "receive"
  BY <1>1, <1>3
<1>5. i.do = "receive" => j.do = "send"
  BY <1>1, <1>3
<1> QED BY <1>2, <1>3, <1>4, <1>5 DEF Partner, IsComm

LEMMA ChannelsQuiet ==
  ASSUME NEW g, Settled(g), NEW p \in DOMAIN g.code, NEW th, NEW th2, NEW sl, NEW sl2, Channels(g, th, sl),
         Others(g, th, th2, p), Silent(g, p, th[p], th2[p]),
         \A q \in DOMAIN g.code : \A b \in Blocks(g.f) : \A n \in DOMAIN g.code[q][b] :
           IsComm(g.code[q][b][n]) => sl2[g.code[q][b][n].at] = sl[g.code[q][b][n].at]
  PROVE  Channels(g, th2, sl2)
<1>1. ASSUME NEW q \in DOMAIN g.code, NEW b \in Blocks(g.f), NEW n \in DOMAIN g.code[q][b],
             IsComm(g.code[q][b][n])
      PROVE  Passed(th2[q], b, n) = Passed(th[q], b, n)
  <2>1. CASE q = p
    BY <1>1, <2>1 DEF Silent
  <2>2. CASE q # p
    BY <2>2 DEF Others
  <2> QED BY <2>1, <2>2
<1>2. ASSUME NEW q \in DOMAIN g.code, NEW b \in Blocks(g.f), NEW n \in DOMAIN g.code[q][b],
             g.code[q][b][n].do = "send", NEW m \in DOMAIN g.code[g.code[q][b][n].peer][b],
             Partner(g.code[q][b][n], g.code[g.code[q][b][n].peer][b][m], q)
      PROVE  Channel(g, th2[q], th2[g.code[q][b][n].peer], sl2[g.code[q][b][n].at], b, n, m, g.code[q][b][n])
  <2> DEFINE i == g.code[q][b][n]
             r == i.peer
             j == g.code[r][b][m]
  <2>1. IsComm(i) /\ IsComm(j)
    <3>1. Partner(i, j, q)
      BY <1>2
    <3> HIDE DEF i, j
    <3> QED BY <3>1, PartnerFacts
  <2>2. r \in DOMAIN g.code
    BY <2>1, CommItem
  <2>3. Channel(g, th[q], th[r], sl[i.at], b, n, m, i)
    BY <1>2 DEF Channels
  <2>4. sl2[i.at] = sl[i.at]
    BY <2>1
  <2>5. Passed(th2[q], b, n) = Passed(th[q], b, n)
    BY <1>1, <2>1
  <2>6. Passed(th2[r], b, m) = Passed(th[r], b, m)
    BY <1>1, <2>1, <2>2
  <2> HIDE DEF i, r, j
  <2>7. Channel(g, th2[q], th2[r], sl2[i.at], b, n, m, i)
    BY <2>3, <2>4, <2>5, <2>6 DEF Channel
  <2> QED BY <2>7 DEF i, r
<1> QED BY <1>2 DEF Channels

\* The other addresses when one is sent to or received from.
Communicates(g, p, th, th2, sl, sl2) ==
  /\ Channels(g, th, sl) /\ Others(g, th, th2, p) /\ ThreadOK(g, p, th[p])
  /\ IsComm(Spot(g, p, th[p])) /\ GoesOn(th[p], th2[p])
  /\ \A x : x # Spot(g, p, th[p]).at => sl2[x] = sl[x]

Link(g, q, b, n, m) ==
  /\ q \in DOMAIN g.code /\ b \in Blocks(g.f) /\ n \in DOMAIN g.code[q][b]
  /\ g.code[q][b][n].do = "send" /\ m \in DOMAIN g.code[g.code[q][b][n].peer][b]
  /\ Partner(g.code[q][b][n], g.code[g.code[q][b][n].peer][b][m], q)

Linked(g, th, sl, q, b, n, m) ==
  Channel(g, th[q], th[g.code[q][b][n].peer], sl[g.code[q][b][n].at], b, n, m, g.code[q][b][n])

LEMMA ChannelsElsewhere ==
  ASSUME NEW g, Settled(g), NEW p \in DOMAIN g.code, NEW th, NEW th2, NEW sl, NEW sl2,
         Communicates(g, p, th, th2, sl, sl2), NEW q, NEW b, NEW n, NEW m, Link(g, q, b, n, m),
         g.code[q][b][n].at # Spot(g, p, th[p]).at
  PROVE  Linked(g, th2, sl2, q, b, n, m)
<1> DEFINE i == g.code[q][b][n]
           r == i.peer
           j == g.code[r][b][m]
<1>0. /\ q \in DOMAIN g.code /\ b \in Blocks(g.f) /\ n \in DOMAIN g.code[q][b] /\ i.do = "send"
      /\ m \in DOMAIN g.code[r][b] /\ Partner(i, j, q)
  BY DEF Link
<1>9. /\ Channels(g, th, sl) /\ Others(g, th, th2, p) /\ ThreadOK(g, p, th[p]) /\ GoesOn(th[p], th2[p])
      /\ \A x : x # Spot(g, p, th[p]).at => sl2[x] = sl[x]
  BY DEF Communicates
<1>1. IsComm(i) /\ IsComm(j) /\ j.at = i.at
  <2>1. Partner(i, j, q)
    BY <1>0
  <2> HIDE DEF i, j
  <2> QED BY <2>1, PartnerFacts
<1>2. r \in DOMAIN g.code
  BY <1>0, <1>1, CommItem
<1>3. Channel(g, th[q], th[r], sl[i.at], b, n, m, i)
  BY <1>0, <1>9 DEF Channels
<1>4. sl2[i.at] = sl[i.at]
  BY <1>9
<1>5. ASSUME NEW x \in DOMAIN g.code, NEW y \in DOMAIN g.code[x][b], g.code[x][b][y].at # Spot(g, p, th[p]).at
      PROVE  Passed(th2[x], b, y) = Passed(th[x], b, y)
  <2>1. CASE x # p
    BY <1>9, <2>1 DEF Others
  <2>2. CASE x = p
    <3>1. b # th[p].block \/ y # th[p].next
      BY <1>5, <2>2 DEF Spot
    <3>2. y \in DOMAIN g.code[p][b]
      BY <2>2
    <3>3. Passed(th2[p], b, y) = Passed(th[p], b, y)
      <4> DEFINE t == th[p]
                 u == th2[p]
      <4>1. ThreadOK(g, p, t) /\ GoesOn(t, u) /\ (b # t.block \/ y # t.next)
        BY <1>9, <3>1
      <4> HIDE DEF t, u
      <4>2. Counts(t, u, b, y)
        BY <1>0, <3>2, <4>1, FollowsPassed
      <4> QED BY <4>1, <4>2 DEF Counts, t, u
    <3> QED BY <2>2, <3>3
  <2> QED BY <2>1, <2>2
<1>6. Passed(th2[q], b, n) = Passed(th[q], b, n)
  BY <1>0, <1>5
<1>7. Passed(th2[r], b, m) = Passed(th[r], b, m)
  BY <1>0, <1>1, <1>2, <1>5
<1> HIDE DEF i, r, j
<1>8. Channel(g, th2[q], th2[r], sl2[i.at], b, n, m, i)
  BY <1>3, <1>4, <1>6, <1>7 DEF Channel
<1> QED BY <1>8 DEF Linked, i, r

\* What a thread sends is the value in the function's state.
LEMMA SentValue ==
  ASSUME NEW g, Settled(g), NEW p \in DOMAIN g.code, NEW t, ThreadOK(g, p, t), NEW me, NEW ou,
         Tracks(g, p, t, me, ou), Spot(g, p, t).do = "send"
  PROVE  /\ Read(g.f, t.env, Spot(g, p, t).val) = Read(g.f, Now(g, p, t).env, Spot(g, p, t).val)
         /\ Read(g.f, t.env, Spot(g, p, t).val) \in Int
<1> DEFINE i == Spot(g, p, t)
<1>1. /\ t.block \in Blocks(g.f) /\ t.next \in DOMAIN g.code[p][t.block] /\ i = g.code[p][t.block][t.next]
  BY RowRange
<1>2. ItemOK(g.f, g.place, g.args, g.code, p, t.block, i)
  BY <1>1, RowFacts
<1>3. PICK v \in DOMAIN g.place : i.val = Value(v) /\ g.place[v] = p
  <2> HIDE DEF i
  <2>1. i.do = "send"
    BY DEF i
  <2> QED BY <1>2, <2>1 DEF ItemOK, CommOK, IsComm
<1>4. Read(g.f, State(t.block, t.env, me, ou).env, Value(v)) = Read(g.f, Now(g, p, t).env, Value(v))
  BY <1>3 DEF Tracks, Agree
<1>5. Read(g.f, t.env, i.val) = Read(g.f, Now(g, p, t).env, i.val)
  BY <1>3, <1>4, StateFields
<1>6. Read(g.f, t.env, i.val) \in Int
  BY ReadInt DEF Settled, ThreadOK, Standing
<1> QED BY <1>5, <1>6

LEMMA ChannelsSend ==
  ASSUME NEW g, Settled(g), NEW p \in DOMAIN g.code, NEW th, NEW th2, NEW sl, NEW sl2, Channels(g, th, sl),
         Others(g, th, th2, p), ThreadOK(g, p, th[p]), NEW me, NEW ou, Tracks(g, p, th[p], me, ou),
         Spot(g, p, th[p]).do = "send", GoesOn(th[p], th2[p]), Slots(g, sl),
         sl[Spot(g, p, th[p]).at] = Empty,
         sl2 = [sl EXCEPT ![Spot(g, p, th[p]).at] = Read(g.f, th[p].env, Spot(g, p, th[p]).val)]
  PROVE  Channels(g, th2, sl2)
<1> DEFINE t == th[p]
           c == Spot(g, p, t)
           k == Len(t.path)
<1>1. /\ t.block \in Blocks(g.f) /\ t.next \in DOMAIN g.code[p][t.block] /\ c = g.code[p][t.block][t.next]
  BY RowRange
<1>2. IsComm(c)
  BY DEF IsComm
<1>3. c.at \in g.ids
  BY <1>2, SpotComm
<1>4. /\ sl2[c.at] = Read(g.f, t.env, c.val)
      /\ \A x : x # c.at => sl2[x] = sl[x]
  BY <1>3 DEF Slots
<1>5. Read(g.f, t.env, c.val) = Read(g.f, Now(g, p, t).env, c.val) /\ Read(g.f, t.env, c.val) # Empty
  BY SentValue, RunAssumption
<1>6. ASSUME NEW q \in DOMAIN g.code, NEW b \in Blocks(g.f), NEW n \in DOMAIN g.code[q][b],
             g.code[q][b][n].do = "send", NEW m \in DOMAIN g.code[g.code[q][b][n].peer][b],
             Partner(g.code[q][b][n], g.code[g.code[q][b][n].peer][b][m], q)
      PROVE  Channel(g, th2[q], th2[g.code[q][b][n].peer], sl2[g.code[q][b][n].at], b, n, m, g.code[q][b][n])
  <2> DEFINE i == g.code[q][b][n]
             r == i.peer
  <2>1. CASE i.at # c.at
    <3>1. \A x : x # c.at => sl2[x] = sl[x]
      BY <1>4
    <3>2. Communicates(g, p, th, th2, sl, sl2)
      BY <1>2, <3>1 DEF Communicates
    <3>3. Link(g, q, b, n, m)
      BY <1>6 DEF Link
    <3>4. Linked(g, th2, sl2, q, b, n, m)
      BY <2>1, <3>2, <3>3, ChannelsElsewhere
    <3> QED BY <3>4 DEF Linked
  <2>2. CASE i.at = c.at
    <3>1. IsComm(i)
      BY <1>6 DEF IsComm
    <3>2. q = p /\ b = t.block /\ n = t.next
      <4>1. Twins(g, q, b, n, p, t.block, t.next)
        BY <1>1, <1>6, <2>2, <3>1 DEF Twins
      <4> HIDE DEF t
      <4> QED BY <4>1, SameComm
    <3>3. r \in DOMAIN g.code /\ r # p
      BY <3>1, <3>2, CommItem
    <3>4. Channel(g, t, th[r], sl[c.at], b, n, m, i)
      BY <1>6, <2>2, <3>2 DEF Channels
    <3>5. Passed(t, b, n) = Passed(th[r], b, m)
      BY <3>4 DEF Channel
    <3>6. Passed(th2[p], b, n) = Passed(t, b, n) \cup {k} /\ k \notin Passed(t, b, n)
      <4> DEFINE u == th2[p]
      <4>1. ThreadOK(g, p, t) /\ GoesOn(t, u)
        OBVIOUS
      <4> HIDE DEF t, u
      <4>2. n \in DOMAIN g.code[p][b]
        BY <3>2
      <4>3. Counts(t, u, b, n)
        BY <4>1, <4>2, FollowsPassed
      <4> QED BY <3>2, <4>3 DEF Counts, u
    <3>7. th2[r] = th[r]
      BY <3>3 DEF Others
    <3>8. sl2[i.at] = Read(g.f, Before(g.f, g.vals, k, i.line).env, i.val) /\ sl2[i.at] # Empty
      <4>1. i = c
        BY <1>1, <3>2
      <4> QED BY <1>4, <1>5, <4>1 DEF Now
    <3> HIDE DEF k, i, r
    <3>9. k \in Passed(th2[p], b, n) /\ k \notin Passed(th[r], b, m)
      BY <3>5, <3>6
    <3>10. Passed(th2[p], b, n) = Passed(th[r], b, m) \cup {k}
      BY <3>5, <3>6
    <3>11. Channel(g, th2[p], th2[r], sl2[i.at], b, n, m, i)
      BY <3>7, <3>8, <3>9, <3>10 DEF Channel
    <3> QED BY <3>2, <3>11 DEF i, r
  <2> QED BY <2>1, <2>2
<1> QED BY <1>6 DEF Channels

\* Both threads are on the function's path, so the value in the address was sent
\* in the visit in which it is received.
Met(g, t, s, y, n, i) ==
  /\ Passed(s, t.block, n) = Passed(t, t.block, t.next) \cup {Len(t.path)}
  /\ y = Read(g.f, Before(g.f, g.vals, Len(t.path), i.line).env, i.val)

LEMMA SameVisit ==
  ASSUME NEW g, Settled(g), NEW p \in DOMAIN g.code, NEW q \in DOMAIN g.code, NEW t, NEW s,
         ThreadOK(g, p, t), ThreadOK(g, q, s), NEW y, y # Empty, NEW n, NEW i,
         Channel(g, s, t, y, t.block, n, t.next, i)
  PROVE  Met(g, t, s, y, n, i)
<1> DEFINE b == t.block
           K == Len(t.path)
           L == Len(s.path)
           R == Passed(t, b, t.next)
           S == Passed(s, b, n)
<1>1. PICK k \in S : /\ k \notin R /\ S = R \cup {k}
                     /\ y = Read(g.f, Before(g.f, g.vals, k, i.line).env, i.val)
  BY DEF Channel
<1>2. t.next \in Nat
  BY RowRange
<1>3. K \in Nat /\ K >= 1 /\ t.path[K] = b /\ L \in Nat /\ L >= 1
  BY DEF ThreadOK, Trodden
<1>4. R = {j \in 1 .. K : t.path[j] = b /\ (j = K => t.next < t.next)}
  BY DEF Passed
<1>5. S = {j \in 1 .. L : s.path[j] = b /\ (j = L => n < s.next)}
  BY DEF Passed
<1>6. /\ \A j \in 1 .. K : t.path[j] = Visits(g.f, g.vals)[j].block
      /\ \A j \in 1 .. L : s.path[j] = Visits(g.f, g.vals)[j].block
  BY DEF ThreadOK, Trodden
<1> HIDE DEF K, L, R, S, b
<1>7. ~(t.next < t.next)
  BY <1>2
<1>8. k \in 1 .. L /\ s.path[k] = b
  BY <1>5
<1>9. ~(k < K)
  <2> SUFFICES ASSUME k < K PROVE FALSE
    OBVIOUS
  <2>1. k \in 1 .. K /\ k # K
    BY <1>3, <1>8
  <2>2. t.path[k] = b
    BY <1>6, <1>8, <2>1
  <2> QED BY <1>1, <1>4, <2>1, <2>2
<1>10. ~(K < k)
  <2> SUFFICES ASSUME K < k PROVE FALSE
    OBVIOUS
  <2>1. K \in 1 .. L /\ K # L /\ K \in 1 .. K /\ K # k
    BY <1>3, <1>8
  <2>2. s.path[K] = b
    BY <1>3, <1>6, <2>1
  <2>3. K \in S
    BY <1>5, <2>1, <2>2
  <2>4. K \notin R
    BY <1>4, <1>7
  <2> QED BY <1>1, <2>1, <2>3, <2>4
<1>11. k = K
  BY <1>3, <1>8, <1>9, <1>10
<1> QED BY <1>1, <1>11 DEF Met, K, R, S, b

LEMMA ReceivedValue ==
  ASSUME NEW g, Settled(g), NEW p \in DOMAIN g.code, NEW th, NEW sl, NEW me, NEW ou, Threads(g, th, me, ou),
         Channels(g, th, sl), Spot(g, p, th[p]).do = "receive", sl[Spot(g, p, th[p]).at] # Empty,
         NEW j \in ToSet(g.code[Spot(g, p, th[p]).peer][th[p].block]), Partner(Spot(g, p, th[p]), j, p)
  PROVE  sl[Spot(g, p, th[p]).at] = Read(g.f, Now(g, p, th[p]).env, j.val)
<1> DEFINE t == th[p]
           c == Spot(g, p, t)
           q == c.peer
           b == t.block
<1>0. ThreadOK(g, p, t)
  BY DEF Threads
<1>1. /\ b \in Blocks(g.f) /\ t.next \in DOMAIN g.code[p][b] /\ c = g.code[p][b][t.next]
  BY <1>0, RowRange
<1>2. IsComm(c)
  BY DEF IsComm
<1>3. q \in DOMAIN g.code /\ q # p
  BY <1>0, <1>2, SpotComm
<1>4. PICK n \in DOMAIN g.code[q][b] : j = g.code[q][b][n]
  BY DEF ToSet
<1>5. j.at = c.at /\ j.line = c.line /\ j.peer = p /\ j.do = "send"
  <2> HIDE DEF c
  <2>1. Partner(c, j, p) /\ c.do = "receive"
    BY DEF c
  <2> QED BY <2>1, PartnerFacts
<1>6. Partner(j, c, q)
  <2>1. Partner(c, j, p) /\ c.do = "receive" /\ j.do = "send"
    BY <1>5
  <2> HIDE DEF c
  <2> QED BY <1>5, <2>1 DEF Partner, q
<1>7. Channel(g, th[q], t, sl[c.at], b, n, t.next, j)
  <2> HIDE DEF c, q, b
  <2>1. /\ g.code[q][b][n].do = "send" /\ t.next \in DOMAIN g.code[g.code[q][b][n].peer][b]
        /\ Partner(g.code[q][b][n], g.code[g.code[q][b][n].peer][b][t.next], q)
    BY <1>1, <1>4, <1>5, <1>6
  <2>2. Channel(g, th[q], th[g.code[q][b][n].peer], sl[g.code[q][b][n].at], b, n, t.next, g.code[q][b][n])
    BY <1>1, <1>3, <2>1 DEF Channels
  <2> QED BY <1>4, <1>5, <2>2
<1>8. ThreadOK(g, q, th[q])
  BY <1>3 DEF Threads
<1>9. sl[c.at] = Read(g.f, Before(g.f, g.vals, Len(t.path), j.line).env, j.val)
  <2>1. sl[c.at] # Empty
    OBVIOUS
  <2> HIDE DEF t, c, q
  <2>2. Met(g, t, th[q], sl[c.at], n, j)
    BY <1>0, <1>3, <1>7, <1>8, <2>1, SameVisit DEF b
  <2> QED BY <2>2 DEF Met
<1> QED BY <1>5, <1>9 DEF Now

LEMMA ChannelsReceive ==
  ASSUME NEW g, Settled(g), NEW p \in DOMAIN g.code, NEW th, NEW th2, NEW sl, NEW sl2, Channels(g, th, sl),
         Others(g, th, th2, p), NEW me, NEW ou, Threads(g, th, me, ou),
         Spot(g, p, th[p]).do = "receive", GoesOn(th[p], th2[p]), Slots(g, sl),
         sl[Spot(g, p, th[p]).at] # Empty,
         sl2 = [sl EXCEPT ![Spot(g, p, th[p]).at] = Empty]
  PROVE  Channels(g, th2, sl2)
<1> DEFINE t == th[p]
           c == Spot(g, p, t)
           k == Len(t.path)
<1>0. ThreadOK(g, p, t)
  BY DEF Threads
<1>1. /\ t.block \in Blocks(g.f) /\ t.next \in DOMAIN g.code[p][t.block] /\ c = g.code[p][t.block][t.next]
  BY <1>0, RowRange
<1>2. IsComm(c)
  BY DEF IsComm
<1>3. c.at \in g.ids
  BY <1>0, <1>2, SpotComm
<1>4. /\ sl2[c.at] = Empty
      /\ \A x : x # c.at => sl2[x] = sl[x]
  BY <1>3 DEF Slots
<1>6. ASSUME NEW q \in DOMAIN g.code, NEW b \in Blocks(g.f), NEW n \in DOMAIN g.code[q][b],
             g.code[q][b][n].do = "send", NEW m \in DOMAIN g.code[g.code[q][b][n].peer][b],
             Partner(g.code[q][b][n], g.code[g.code[q][b][n].peer][b][m], q)
      PROVE  Channel(g, th2[q], th2[g.code[q][b][n].peer], sl2[g.code[q][b][n].at], b, n, m, g.code[q][b][n])
  <2> DEFINE i == g.code[q][b][n]
             r == i.peer
             j == g.code[r][b][m]
  <2>1. CASE i.at # c.at
    <3>1. \A x : x # c.at => sl2[x] = sl[x]
      BY <1>4
    <3>2. Communicates(g, p, th, th2, sl, sl2)
      BY <1>0, <1>2, <3>1 DEF Communicates
    <3>3. Link(g, q, b, n, m)
      BY <1>6 DEF Link
    <3>4. Linked(g, th2, sl2, q, b, n, m)
      BY <2>1, <3>2, <3>3, ChannelsElsewhere
    <3> QED BY <3>4 DEF Linked
  <2>2. CASE i.at = c.at
    <3>1. IsComm(i) /\ i.do = "send"
      BY <1>6 DEF IsComm
    <3>2. IsComm(j) /\ j.at = c.at /\ j.do = "receive"
      <4>1. Partner(i, j, q) /\ i.do = "send"
        BY <1>6
      <4> HIDE DEF i, j
      <4> QED BY <2>2, <4>1, PartnerFacts
    <3>3. r \in DOMAIN g.code /\ r # q
      BY <3>1, CommItem
    <3>4. r = p /\ b = t.block /\ m = t.next
      <4>1. Twins(g, r, b, m, p, t.block, t.next)
        <5>1. g.code[r][b][m] = j /\ j.do = c.do /\ m \in DOMAIN g.code[r][b]
          BY <1>6, <3>2
        <5> HIDE DEF t, c, i, r, j
        <5> QED BY <1>1, <3>2, <3>3, <5>1 DEF Twins
      <4> HIDE DEF t, r
      <4> QED BY <4>1, SameComm
    <3>5. Channel(g, th[q], t, sl[c.at], b, n, m, i)
      BY <1>6, <2>2, <3>4 DEF Channels
    <3>6. Passed(th[q], b, n) = Passed(t, b, m) \cup {k}
      <4>1. ThreadOK(g, q, th[q]) /\ sl[c.at] # Empty
        BY DEF Threads
      <4>2. Channel(g, th[q], t, sl[c.at], t.block, n, t.next, i)
        BY <3>4, <3>5
      <4> HIDE DEF t, c, i, r, j
      <4>3. Met(g, t, th[q], sl[c.at], n, i)
        BY <1>0, <4>1, <4>2, SameVisit
      <4> QED BY <3>4, <4>3 DEF Met, k
    <3>7. Passed(th2[p], b, m) = Passed(t, b, m) \cup {k}
      <4> DEFINE u == th2[p]
      <4>1. ThreadOK(g, p, t) /\ GoesOn(t, u)
        BY <1>0
      <4> HIDE DEF t, u
      <4>2. m \in DOMAIN g.code[p][b]
        BY <1>1, <3>4
      <4>3. Counts(t, u, b, m)
        BY <4>1, <4>2, FollowsPassed
      <4> QED BY <3>4, <4>3 DEF Counts, u
    <3>8. th2[q] = th[q]
      BY <3>3, <3>4 DEF Others
    <3>9. sl2[i.at] = Empty
      BY <1>4, <2>2
    <3> HIDE DEF k, i, r
    <3>10. Passed(th2[q], b, n) = Passed(th2[r], b, m)
      BY <3>4, <3>6, <3>7, <3>8
    <3>11. Channel(g, th2[q], th2[r], sl2[i.at], b, n, m, i)
      BY <3>9, <3>10 DEF Channel
    <3> QED BY <3>11 DEF i, r
  <2> QED BY <2>1, <2>2
<1> QED BY <1>6 DEF Channels

\* The addresses of the arguments are not those of the communications.
LEMMA ArgumentAddress ==
  ASSUME NEW g, Settled(g), NEW d \in DOMAIN g.args, NEW x, g.args[d] = Argument(x),
         NEW p \in DOMAIN g.code, NEW b \in Blocks(g.f), NEW n \in DOMAIN g.code[p][b], IsComm(g.code[p][b][n])
  PROVE  g.code[p][b][n].at # x
<1>1. g.code[p][b][n] \in ToSet(g.code[p][b])
  BY RowFacts
<1>2. \A i \in ToSet(g.code[p][b]) : IsComm(i) => g.args[d] # Argument(i.at)
  BY DEF Settled, CodeOK, ArgsOK
<1> QED BY <1>1, <1>2

\* A thread sends to or receives from an address.
LEMMA SlotsComm ==
  ASSUME NEW g, Settled(g), NEW p \in DOMAIN g.code, NEW t, ThreadOK(g, p, t), IsComm(Spot(g, p, t)),
         NEW sl, ArgSlots(g, sl), Slots(g, sl), NEW y, y \in Int \/ y = Empty,
         NEW sl2, sl2 = [sl EXCEPT ![Spot(g, p, t).at] = y]
  PROVE  ArgSlots(g, sl2) /\ Slots(g, sl2)
<1> DEFINE a == Spot(g, p, t).at
<1>1. /\ t.block \in Blocks(g.f) /\ t.next \in DOMAIN g.code[p][t.block]
      /\ Spot(g, p, t) = g.code[p][t.block][t.next]
  BY RowRange
<1>2. \A d \in DOMAIN g.args : \A x : g.args[d] = Argument(x) => a # x
  <2>1. PICK b, n : /\ b \in Blocks(g.f) /\ n \in DOMAIN g.code[p][b]
                  /\ Spot(g, p, t) = g.code[p][b][n]
    BY <1>1
  <2> QED BY <2>1, ArgumentAddress
<1> HIDE DEF a
<1>3. sl2 = [sl EXCEPT ![a] = y]
  BY DEF a
<1>4. DOMAIN sl2 = DOMAIN sl /\ \A x \in DOMAIN sl : sl2[x] = IF x = a THEN y ELSE sl[x]
  BY <1>3
<1>5. \A x : x # a => sl2[x] = sl[x]
  BY <1>3
<1>6. Slots(g, sl2)
  BY <1>4 DEF Slots
<1>7. ArgSlots(g, sl2)
  BY <1>2, <1>5 DEF ArgSlots
<1> QED BY <1>6, <1>7

\* The host sends an argument: an address that no communication uses.
LEMMA HostSends ==
  ASSUME NEW g, Settled(g), NEW th, NEW sl, Channels(g, th, sl), ArgSlots(g, sl), Slots(g, sl),
         NEW d \in DOMAIN g.args, NEW a, g.args[d] = Argument(a),
         NEW sl2, sl2 = [sl EXCEPT ![a] = g.vals[Value(d[2])]]
  PROVE  Channels(g, th, sl2) /\ ArgSlots(g, sl2) /\ Slots(g, sl2)
<1> DEFINE y == g.vals[Value(d[2])]
<1>1. a \in g.ids
  BY DEF Settled, InRange
<1>2. y \in Int
  <2>1. d[2] \in ToSet(g.f.args)
    BY DEF Settled, CodeOK, ArgsOK
  <2> QED BY <2>1 DEF Settled, Passes
<1>3. \A e \in DOMAIN g.args : g.args[e] = Argument(a) => e = d
  BY DEF Settled, CodeOK, ArgsOK
<1> HIDE DEF y
<1>4. sl2 = [sl EXCEPT ![a] = y]
  BY DEF y
<1>5. DOMAIN sl2 = DOMAIN sl /\ \A x \in DOMAIN sl : sl2[x] = IF x = a THEN y ELSE sl[x]
  BY <1>4
<1>6. (\A x : x # a => sl2[x] = sl[x]) /\ sl2[a] = y
  BY <1>1, <1>4 DEF Slots
<1>7. Slots(g, sl2)
  BY <1>2, <1>5 DEF Slots
<1>8. ASSUME NEW e \in DOMAIN g.args, NEW x, g.args[e] = Argument(x)
      PROVE  sl2[x] = Empty \/ sl2[x] = g.vals[Value(e[2])]
  <2>1. CASE x = a
    <3>1. e = d
      BY <1>3, <1>8, <2>1
    <3> QED BY <1>6, <2>1, <3>1 DEF y
  <2>2. CASE x # a
    BY <1>6, <1>8, <2>2 DEF ArgSlots
  <2> QED BY <2>1, <2>2
<1>9. ASSUME NEW q \in DOMAIN g.code, NEW b \in Blocks(g.f), NEW n \in DOMAIN g.code[q][b],
             IsComm(g.code[q][b][n])
      PROVE  sl2[g.code[q][b][n].at] = sl[g.code[q][b][n].at]
  <2>1. g.code[q][b][n].at # a
    BY <1>9, ArgumentAddress
  <2> QED BY <1>6, <2>1
<1>10. Channels(g, th, sl2)
  <2>1. ASSUME NEW q \in DOMAIN g.code, NEW b \in Blocks(g.f), NEW n \in DOMAIN g.code[q][b],
               g.code[q][b][n].do = "send", NEW m \in DOMAIN g.code[g.code[q][b][n].peer][b],
               Partner(g.code[q][b][n], g.code[g.code[q][b][n].peer][b][m], q)
        PROVE  Channel(g, th[q], th[g.code[q][b][n].peer], sl2[g.code[q][b][n].at], b, n, m, g.code[q][b][n])
    <3>1. IsComm(g.code[q][b][n])
      BY <2>1 DEF IsComm
    <3>2. sl2[g.code[q][b][n].at] = sl[g.code[q][b][n].at]
      BY <1>9, <3>1
    <3> QED BY <2>1, <3>2 DEF Channels
  <2> QED BY <2>1 DEF Channels
<1> QED BY <1>7, <1>8, <1>10 DEF ArgSlots

------------------------------------------------------------------------------
(* The call. *)

Fresh(t) == t.block = 1 /\ t.next = 1 /\ t.env = <<>> /\ t.path = <<1>>

LEMMA StartThread ==
  ASSUME NEW g, Settled(g), NEW p \in DOMAIN g.code, NEW t, Fresh(t)
  PROVE  ThreadOK(g, p, t) /\ Tracks(g, p, t, ZeroMemory(g.f), <<>>)
<1> DEFINE V == Visits(g.f, g.vals)[1]
           ze == ZeroMemory(g.f)
<1>1. t.block = 1 /\ t.next = 1 /\ t.env = <<>> /\ t.path = <<1>> /\ Len(t.path) = 1 /\ t.path[1] = 1
  BY DEF Fresh
<1>2. V = State(1, g.vals, ze, <<>>)
  BY VisitsSteps DEF Begin
<1>3. V.block = 1 /\ V.env = g.vals /\ V.mem = ze /\ V.out = <<>>
  <2> HIDE DEF V, ze
  <2> QED BY <1>2, StateFields
<1>4. 1 \in Blocks(g.f)
  <2>1. g.f.body \in Seq(Seq(Instruction)) /\ g.f.body # <<>>
    BY DEF Settled, Verified
  <2> QED BY <2>1 DEF Blocks
<1>5. PhiPlaces(g, p, 1) = {} /\ Cardinality(PhiPlaces(g, p, 1)) = 0
  <2>1. ASSUME NEW n \in DOMAIN g.code[p][1], g.code[p][1][n].op = "phi"
        PROVE  FALSE
    <3>1. PhiMatched(g.f, 1, g.code[p][1][n])
      BY <1>4, PhiItem
    <3>2. g.code[p][1][n].line \in DOMAIN g.f.body[1]
      BY <1>4, RowFacts
    <3>3. g.f.body[1][g.code[p][1][n].line].op = "phi"
      BY <2>1, <3>1 DEF PhiMatched
    <3> QED BY <1>4, <3>2, <3>3, PhiRows DEF Settled
  <2>2. PhiPlaces(g, p, 1) = {}
    BY <2>1 DEF PhiPlaces
  <2> QED BY <2>2, FS_EmptySet
<1>6. Agree(g.f, g.place, p, State(t.block, t.env, ze, <<>>), V)
  <2>1. ASSUME NEW v \in DOMAIN g.place
        PROVE  Read(g.f, t.env, Value(v)) = Read(g.f, g.vals, Value(v))
    <3>1. v \notin ToSet(g.f.args)
      BY PlaceFacts
    <3>2. Value(v) \notin DOMAIN g.vals
      BY <3>1, RegistersApart DEF Settled, Passes
    <3>3. Value(v) \notin DOMAIN t.env
      BY <1>1
    <3> QED BY <3>2, <3>3, ReadSame
  <2> HIDE DEF V, ze
  <2> QED BY <1>3, <2>1, StateFields DEF Agree
<1>8. /\ t.block \in Blocks(g.f) /\ t.block = Visits(g.f, g.vals)[Len(t.path)].block
      /\ t.next = Cardinality(PhiPlaces(g, p, t.block)) + 1
      /\ Len(t.path) \in Nat /\ Len(t.path) >= 1
  BY <1>1, <1>3, <1>4, <1>5
<1>9. Agree(g.f, g.place, p, State(t.block, t.env, ze, <<>>), Visits(g.f, g.vals)[Len(t.path)])
  BY <1>1, <1>6
<1>10. /\ Tracks(g, p, t, ze, <<>>)
       /\ t.next \in DOMAIN g.code[p][t.block]
       /\ Spot(g, p, t).op # "phi"
  <2> HIDE DEF ze, V
  <2> QED BY <1>8, <1>9, EntryTracks
<1>11. Standing(g, p, t)
  BY <1>1, <1>4, <1>10 DEF Standing
<1>12. Trodden(g, t)
  <2>1. t.path \in Seq(Blocks(g.f))
    BY <1>1, <1>4
  <2>2. \A k \in 1 .. Len(t.path) : k = 1
    BY <1>1
  <2> QED BY <1>1, <1>3, <2>1, <2>2 DEF Trodden
<1>13. Heard(g, p, t)
  BY <1>1 DEF Heard
<1>14. Told(g, p, t)
  <2>1. DOMAIN g.code[p][1] = 1 .. Len(g.code[p][1]) /\ Len(g.code[p][1]) \in Nat
    BY <1>4, RowFacts
  <2> DEFINE row == g.code[p][1]
  <2>2. \A n \in DOMAIN row : ~(n < 1)
    <3>1. DOMAIN row = 1 .. Len(row) /\ Len(row) \in Nat
      BY <2>1
    <3> HIDE DEF row
    <3> QED BY <3>1
  <2> QED BY <1>1, <2>2 DEF Told
<1> QED BY <1>10, <1>11, <1>12, <1>13, <1>14 DEF ThreadOK

LEMMA StartChannels ==
  ASSUME NEW g, Settled(g), NEW th, \A p \in DOMAIN g.code : Fresh(th[p]),
         NEW sl, \A x \in g.ids : sl[x] = Empty
  PROVE  Channels(g, th, sl)
<1>1. ASSUME NEW p \in DOMAIN g.code, NEW b \in Blocks(g.f), NEW n \in DOMAIN g.code[p][b]
      PROVE  Passed(th[p], b, n) = {}
  <2>1. th[p].next = 1 /\ th[p].path = <<1>> /\ Len(th[p].path) = 1
    <3>1. th[p].next = 1 /\ th[p].path = <<1>>
      BY DEF Fresh
    <3>2. Len(<<1>>) = 1
      OBVIOUS
    <3> QED BY <3>1, <3>2
  <2>2. n \in Nat /\ n >= 1
    <3>1. DOMAIN g.code[p][b] = 1 .. Len(g.code[p][b]) /\ Len(g.code[p][b]) \in Nat
      BY RowFacts
    <3> DEFINE row == g.code[p][b]
    <3>2. n \in DOMAIN row /\ DOMAIN row = 1 .. Len(row) /\ Len(row) \in Nat
      BY <3>1
    <3> HIDE DEF row
    <3> QED BY <3>2
  <2>3. \A k \in 1 .. 1 : k = 1
    OBVIOUS
  <2> QED BY <2>1, <2>2, <2>3 DEF Passed
<1>2. ASSUME NEW q \in DOMAIN g.code, NEW b \in Blocks(g.f), NEW n \in DOMAIN g.code[q][b],
             g.code[q][b][n].do = "send", NEW m \in DOMAIN g.code[g.code[q][b][n].peer][b],
             Partner(g.code[q][b][n], g.code[g.code[q][b][n].peer][b][m], q)
      PROVE  Channel(g, th[q], th[g.code[q][b][n].peer], sl[g.code[q][b][n].at], b, n, m, g.code[q][b][n])
  <2> DEFINE i == g.code[q][b][n]
             r == i.peer
  <2>1. IsComm(i)
    BY <1>2 DEF IsComm
  <2>2. r \in DOMAIN g.code /\ i.at \in g.ids
    BY <2>1, CommItem
  <2>3. Passed(th[q], b, n) = {} /\ Passed(th[r], b, m) = {} /\ sl[i.at] = Empty
    BY <1>1, <2>2
  <2> HIDE DEF i, r
  <2>4. Channel(g, th[q], th[r], sl[i.at], b, n, m, i)
    BY <2>3 DEF Channel
  <2> QED BY <2>4 DEF i, r
<1> QED BY <1>2 DEF Channels

------------------------------------------------------------------------------
(* The end of the threads. *)

\* A terminal is the last item of its row.
LEMMA TerminalSpot ==
  ASSUME NEW g, Settled(g), NEW p \in DOMAIN g.code, NEW t, ThreadOK(g, p, t), Terminal(Spot(g, p, t))
  PROVE  t.next = Len(g.code[p][t.block])
<1> DEFINE row == g.code[p][t.block]
<1>1. t.next \in DOMAIN row /\ t.block \in Blocks(g.f) /\ Terminal(row[t.next])
  BY RowRange
<1>2. DOMAIN row = 1 .. Len(row) /\ Len(row) \in Nat /\ RowOK(row) /\ Len(row) \in DOMAIN row
  BY <1>1, RowFacts
<1> HIDE DEF row
<1>3. ~(t.next < Len(row))
  BY <1>1, <1>2 DEF RowOK
<1>4. t.next = Len(row)
  BY <1>1, <1>2, <1>3
<1> QED BY <1>4 DEF row

\* The function's state at the end of the block the thread is in.
End(g, t) == AtEnd(g.f, Visits(g.f, g.vals)[Len(t.path)])
Final(g, t) == Last(g.f.body[t.block])

LEMMA ReturnSpot ==
  ASSUME NEW g, Settled(g), NEW p \in DOMAIN g.code, NEW t, ThreadOK(g, p, t),
         Spot(g, p, t).do \in {"ret", "send_return"}
  PROVE  /\ Final(g, t).op = "ret" /\ Now(g, p, t) = End(g, t) /\ End(g, t).block = t.block
         /\ Spot(g, p, t).line = Len(g.f.body[t.block])
<1> DEFINE k == Len(t.path)
           s == Visits(g.f, g.vals)[k]
           N == Len(g.f.body[t.block])
           i == Spot(g, p, t)
<1>1. /\ t.block \in Blocks(g.f) /\ t.next \in DOMAIN g.code[p][t.block] /\ i = g.code[p][t.block][t.next]
  BY RowRange
<1>2. ItemOK(g.f, g.place, g.args, g.code, p, t.block, i)
  BY <1>1, RowFacts
<1>3. i.line = N /\ Final(g, t).op = "ret"
  <2> HIDE DEF i
  <2>1. i.do \in {"ret", "send_return"}
    BY DEF i
  <2> QED BY <1>2, <2>1 DEF ItemOK, ReturnOK, Final
<1>4. k \in Nat /\ k >= 1 /\ s.block = t.block
  <2>1. t.path \in Seq(Blocks(g.f)) /\ Len(t.path) >= 1
    BY DEF ThreadOK, Trodden
  <2>2. Len(t.path) \in 1 .. Len(t.path)
    BY <2>1
  <2> QED BY <2>1, <2>2 DEF ThreadOK, Trodden
<1>5. N \in Nat /\ N > 0 /\ Final(g, t) = g.f.body[t.block][N]
  BY <1>1, BodyFacts DEF Settled, Final
<1>6. N \in 1 .. N
  <2> HIDE DEF N
  <2> QED BY <1>5
<1>7. Within(g.f, s)[N] = Execute(g.f, g.f.body[t.block][N], Within(g.f, s)[N - 1])
  <2>1. \A n \in 1 .. Len(g.f.body[s.block]) :
          Within(g.f, s)[n] = Execute(g.f, g.f.body[s.block][n], Within(g.f, s)[n - 1])
    <3>1. Len(g.f.body[s.block]) \in Nat
      BY <1>4, <1>5
    <3> HIDE DEF s
    <3> QED BY <3>1, WithinSteps
  <2> QED BY <1>4, <1>6, <2>1
<1>8. Execute(g.f, Final(g, t), Within(g.f, s)[N - 1]) = Within(g.f, s)[N - 1]
  <2> DEFINE w == Within(g.f, s)[N - 1]
             j == Final(g, t)
  <2>1. j.op = "ret"
    BY <1>3
  <2> HIDE DEF w, j
  <2>2. Execute(g.f, j, w) = w
    BY <2>1 DEF Execute
  <2> QED BY <2>2 DEF w, j
<1>9. Now(g, p, t) = Within(g.f, s)[N - 1]
  BY <1>3 DEF Now, Before
<1>10. End(g, t) = Within(g.f, s)[N]
  BY <1>4 DEF End, AtEnd
<1>11. Now(g, p, t) = End(g, t)
  BY <1>5, <1>7, <1>8, <1>9, <1>10
<1>12. Now(g, p, t).block = t.block
  BY NowOneThread
<1> QED BY <1>3, <1>11, <1>12

\* Threads that stand in a block that returns have taken equally many blocks.
LEMMA SameEnd ==
  ASSUME NEW g, Settled(g), NEW p \in DOMAIN g.code, NEW q \in DOMAIN g.code, NEW t, NEW s,
         ThreadOK(g, p, t), ThreadOK(g, q, s), Final(g, t).op = "ret", Final(g, s).op = "ret"
  PROVE  Len(t.path) = Len(s.path) /\ t.block = s.block
<1> DEFINE K == Len(t.path)
           L == Len(s.path)
<1>1. /\ K \in Nat /\ K >= 1 /\ t.path[K] = t.block /\ L \in Nat /\ L >= 1 /\ s.path[L] = s.block
  BY DEF ThreadOK, Trodden
<1>2. /\ \A j \in 1 .. K : /\ t.path[j] = Visits(g.f, g.vals)[j].block
                           /\ j < K => Last(g.f.body[t.path[j]]).op = "br"
      /\ \A j \in 1 .. L : /\ s.path[j] = Visits(g.f, g.vals)[j].block
                           /\ j < L => Last(g.f.body[s.path[j]]).op = "br"
  BY DEF ThreadOK, Trodden
<1> HIDE DEF K, L
<1>3. ~(K < L)
  <2> SUFFICES ASSUME K < L PROVE FALSE
    OBVIOUS
  <2>1. K \in 1 .. K /\ K \in 1 .. L
    BY <1>1
  <2> QED BY <1>1, <1>2, <2>1 DEF Final
<1>4. ~(L < K)
  <2> SUFFICES ASSUME L < K PROVE FALSE
    OBVIOUS
  <2>1. L \in 1 .. K /\ L \in 1 .. L
    BY <1>1
  <2> QED BY <1>1, <1>2, <2>1 DEF Final
<1>5. K = L /\ K \in 1 .. K /\ L \in 1 .. L
  BY <1>1, <1>3, <1>4
<1> QED BY <1>1, <1>2, <1>5 DEF K, L

\* A thread has reached the block that returns y.
Returned(g, th, y) ==
  \E p \in DOMAIN g.code :
    /\ Final(g, th[p]).op = "ret" /\ Final(g, th[p]).args # <<>>
    /\ y = Read(g.f, End(g, th[p]).env, Value(Final(g, th[p]).args[1]))

LEMMA ReturnedStays ==
  ASSUME NEW g, NEW p, NEW th, NEW th2, NEW y, Returned(g, th, y), Others(g, th, th2, p),
         \/ th2[p].block = th[p].block /\ th2[p].path = th[p].path
         \/ Final(g, th[p]).op # "ret"
  PROVE  Returned(g, th2, y)
<1>1. PICK q \in DOMAIN g.code :
        /\ Final(g, th[q]).op = "ret" /\ Final(g, th[q]).args # <<>>
        /\ y = Read(g.f, End(g, th[q]).env, Value(Final(g, th[q]).args[1]))
  BY DEF Returned
<1>2. th2[q].block = th[q].block /\ th2[q].path = th[q].path
  <2>1. CASE q = p
    BY <1>1, <2>1
  <2>2. CASE q # p
    BY <2>2 DEF Others
  <2> QED BY <2>1, <2>2
<1>3. Final(g, th2[q]) = Final(g, th[q]) /\ End(g, th2[q]) = End(g, th[q])
  BY <1>2 DEF Final, End
<1> QED BY <1>1, <1>3 DEF Returned

\* What send_return sends is what the function returns.
LEMMA ReturnReads ==
  ASSUME NEW g, Settled(g), NEW p \in DOMAIN g.code, NEW t, NEW me, NEW ou,
         ThreadOK(g, p, t), Tracks(g, p, t, me, ou), Spot(g, p, t).do = "send_return"
  PROVE  /\ Final(g, t).op = "ret" /\ Final(g, t).args # <<>>
         /\ Read(g.f, t.env, Spot(g, p, t).val) = Read(g.f, End(g, t).env, Value(Final(g, t).args[1]))
<1> DEFINE i == Spot(g, p, t)
<1>1. /\ t.block \in Blocks(g.f) /\ t.next \in DOMAIN g.code[p][t.block] /\ i = g.code[p][t.block][t.next]
  BY RowRange
<1>2. ItemOK(g.f, g.place, g.args, g.code, p, t.block, i)
  BY <1>1, RowFacts
<1>3. /\ Final(g, t).args # <<>>
      /\ Gives(g.f, g.place, g.args, g.code, p, t.block, i.line, i.val, Final(g, t).args[1])
  <2> HIDE DEF i
  <2>1. i.do = "send_return"
    BY DEF i
  <2> QED BY <1>2, <2>1 DEF ItemOK, ReturnOK, Final
<1>4. Final(g, t).op = "ret" /\ Now(g, p, t) = End(g, t)
  BY ReturnSpot
<1>5. Read(g.f, t.env, i.val) = Read(g.f, Now(g, p, t).env, Value(Final(g, t).args[1]))
  <2> DEFINE v == Final(g, t).args[1]
             r == i.val
  <2>1. Gives(g.f, g.place, g.args, g.code, p, t.block, Spot(g, p, t).line, r, v)
    BY <1>3
  <2> HIDE DEF v, r, i
  <2>2. Read(g.f, t.env, r) = Read(g.f, Now(g, p, t).env, Value(v))
    BY <2>1, GivesReads
  <2> QED BY <2>2 DEF v, r
<1> QED BY <1>3, <1>4, <1>5

LEMMA ReturnValue ==
  ASSUME NEW g, Settled(g), NEW p \in DOMAIN g.code, NEW th, NEW me, NEW ou, Threads(g, th, me, ou),
         Spot(g, p, th[p]).do = "send_return"
  PROVE  Returned(g, th, Read(g.f, th[p].env, Spot(g, p, th[p]).val))
<1>1. ThreadOK(g, p, th[p]) /\ Tracks(g, p, th[p], me, ou)
  BY DEF Threads
<1> QED BY <1>1, ReturnReads DEF Returned

------------------------------------------------------------------------------
(* The host and the threads. *)

\* The calls of the replace_ function, and the partitions it starts.
HostOK(g) ==
  /\ Len(g.host) \in Nat /\ Len(g.host) >= 2 /\ DOMAIN g.host = 1 .. Len(g.host)
  /\ \A n \in DOMAIN g.host :
       /\ g.host[n].do = "spawn" <=> n = 1
       /\ g.host[n].do = "join" <=> n = Len(g.host)
       /\ g.host[n].do = "send_argument" =>
            \E d \in DOMAIN g.args : g.args[d] = Argument(g.host[n].at) /\ g.host[n].val = Value(d[2])
  /\ (\E i \in Instrs(g.f) : i.op = "ret" /\ i.args # <<>>) =>
       \E n \in DOMAIN g.host : g.host[n].do = "receive_return"
  /\ g.launched \subseteq DOMAIN g.code
  /\ \A i \in Instrs(g.f) : i.op \notin {"alloca", "br"} => g.place[i.name] \in g.launched

Framed(t) == t = [on |-> t.on, block |-> t.block, next |-> t.next, env |-> t.env, path |-> t.path]

Progress(g, hn, th, sl, re, rs, me, ou) ==
  /\ hn \in 1 .. Len(g.host) + 1
  /\ Threads(g, th, me, ou)
  /\ Channels(g, th, sl)
  /\ ArgSlots(g, sl)
  /\ Slots(g, sl)
  /\ \A p \in DOMAIN g.code : Framed(th[p])
  /\ hn > 1 => \A p \in g.launched : ~th[p].on => Spot(g, p, th[p]).do = "ret"
  /\ hn = Len(g.host) + 1 => \A p \in g.launched : ~th[p].on
  /\ re # Empty => Returned(g, th, re)
  /\ rs # Empty => rs = re
  /\ \A n \in DOMAIN g.host : n < hn /\ g.host[n].do = "receive_return" => rs # Empty

\* Starting and stopping a thread changes nothing else.
Unmoved(t, u) == u.block = t.block /\ u.next = t.next /\ u.env = t.env /\ u.path = t.path

LEMMA UnmovedThread ==
  ASSUME NEW g, NEW p, NEW t, NEW u, Unmoved(t, u)
  PROVE  /\ ThreadOK(g, p, t) => ThreadOK(g, p, u)
         /\ \A me, ou : Tracks(g, p, t, me, ou) => Tracks(g, p, u, me, ou)
         /\ Spot(g, p, u) = Spot(g, p, t)
         /\ \A b, n : Passed(u, b, n) = Passed(t, b, n)
<1>1. Spot(g, p, u) = Spot(g, p, t)
  BY DEF Spot, Unmoved
<1>2. Standing(g, p, t) => Standing(g, p, u)
  BY <1>1 DEF Standing, Unmoved
<1>3. Trodden(g, t) => Trodden(g, u)
  BY DEF Trodden, Unmoved
<1>4. Heard(g, p, t) => Heard(g, p, u)
  BY DEF Heard, Unmoved
<1>5. Told(g, p, t) => Told(g, p, u)
  BY DEF Told, Unmoved
<1>6. \A b, n : Passed(u, b, n) = Passed(t, b, n)
  BY DEF Passed, Unmoved
<1>7. \A me, ou : Tracks(g, p, t, me, ou) => Tracks(g, p, u, me, ou)
  BY <1>1 DEF Tracks, Now, Unmoved
<1> QED BY <1>1, <1>2, <1>3, <1>4, <1>5, <1>6, <1>7 DEF ThreadOK

LEMMA UnmovedThreads ==
  ASSUME NEW g, Settled(g), NEW th, NEW th2, NEW me, NEW ou, Threads(g, th, me, ou), DOMAIN th2 = DOMAIN th,
         \A p \in DOMAIN g.code : Unmoved(th[p], th2[p]), NEW sl, Channels(g, th, sl)
  PROVE  Threads(g, th2, me, ou) /\ Channels(g, th2, sl)
<1>1. Threads(g, th2, me, ou)
  BY UnmovedThread DEF Threads
<1>2. ASSUME NEW q \in DOMAIN g.code, NEW b \in Blocks(g.f), NEW n \in DOMAIN g.code[q][b],
             g.code[q][b][n].do = "send", NEW m \in DOMAIN g.code[g.code[q][b][n].peer][b],
             Partner(g.code[q][b][n], g.code[g.code[q][b][n].peer][b][m], q)
      PROVE  Channel(g, th2[q], th2[g.code[q][b][n].peer], sl[g.code[q][b][n].at], b, n, m, g.code[q][b][n])
  <2> DEFINE i == g.code[q][b][n]
             r == i.peer
  <2>1. r \in DOMAIN g.code
    BY <1>2, CommItem DEF IsComm
  <2>2. Channel(g, th[q], th[r], sl[i.at], b, n, m, i)
    BY <1>2 DEF Channels
  <2>3. Unmoved(th[q], th2[q]) /\ Unmoved(th[r], th2[r])
    BY <2>1
  <2>4. Passed(th2[q], b, n) = Passed(th[q], b, n) /\ Passed(th2[r], b, m) = Passed(th[r], b, m)
    BY <2>3 DEF Passed, Unmoved
  <2> HIDE DEF i, r
  <2>5. Channel(g, th2[q], th2[r], sl[i.at], b, n, m, i)
    BY <2>2, <2>4 DEF Channel
  <2> QED BY <2>5 DEF i, r
<1> QED BY <1>1, <1>2 DEF Channels

LEMMA UnmovedReturned ==
  ASSUME NEW g, NEW th, NEW th2, \A p \in DOMAIN g.code : Unmoved(th[p], th2[p]), NEW y, Returned(g, th, y)
  PROVE  Returned(g, th2, y)
<1>1. \A p \in DOMAIN g.code : Final(g, th2[p]) = Final(g, th[p]) /\ End(g, th2[p]) = End(g, th[p])
  BY DEF Final, End, Unmoved
<1> QED BY <1>1 DEF Returned

LEMMA Switched ==
  ASSUME NEW t, Framed(t), NEW x, NEW u, u = [t EXCEPT !.on = x]
  PROVE  Framed(u) /\ Unmoved(t, u) /\ u.on = x
<1>1. u = [on |-> x, block |-> t.block, next |-> t.next, env |-> t.env, path |-> t.path]
  BY DEF Framed
<1> QED BY <1>1 DEF Framed, Unmoved

\* The host calls a function of the runtime.
LEMMA SpawnStep ==
  ASSUME NEW g, Settled(g), HostOK(g), NEW hn, NEW th, NEW sl, NEW re, NEW rs, NEW me, NEW ou,
         Progress(g, hn, th, sl, re, rs, me, ou), hn \in DOMAIN g.host, g.host[hn].do = "spawn",
         NEW th2, th2 = [p \in DOMAIN th |-> [th[p] EXCEPT !.on = p \in g.launched]]
  PROVE  Progress(g, hn + 1, th2, sl, re, rs, me, ou)
<1>1. DOMAIN th = DOMAIN g.code
  BY DEF Progress, Threads
<1>2. ASSUME NEW p \in DOMAIN g.code
      PROVE  Framed(th2[p]) /\ Unmoved(th[p], th2[p]) /\ (p \in g.launched => th2[p].on)
  <2> DEFINE t == th[p]
             u == th2[p]
  <2>1. Framed(t)
    BY DEF Progress
  <2>2. u = [t EXCEPT !.on = p \in g.launched]
    BY <1>1
  <2> HIDE DEF t, u
  <2>3. u = [on |-> p \in g.launched, block |-> t.block, next |-> t.next, env |-> t.env, path |-> t.path]
    BY <2>1, <2>2 DEF Framed
  <2>4. Framed(u) /\ Unmoved(t, u)
    BY <2>3 DEF Framed, Unmoved
  <2>5. u.on = (p \in g.launched)
    BY <2>3
  <2>6. p \in g.launched => u.on
    BY <2>5
  <2> QED BY <2>4, <2>6 DEF t, u
<1>3. DOMAIN th2 = DOMAIN th
  OBVIOUS
<1>4. Threads(g, th2, me, ou) /\ Channels(g, th2, sl)
  BY <1>2, <1>3, UnmovedThreads DEF Progress
<1>5. re # Empty => Returned(g, th2, re)
  BY <1>2, UnmovedReturned DEF Progress
<1>6. /\ hn = 1 /\ Len(g.host) \in Nat /\ Len(g.host) >= 2 /\ g.launched \subseteq DOMAIN g.code
      /\ DOMAIN g.host = 1 .. Len(g.host) /\ g.host[1].do # "receive_return"
  BY DEF HostOK
<1>7. hn + 1 \in 1 .. Len(g.host) + 1 /\ hn + 1 # Len(g.host) + 1
  BY <1>6
<1>8. \A n \in DOMAIN g.host : n < hn + 1 => n = 1
  BY <1>6
<1>9. \A p \in g.launched : th2[p].on
  BY <1>2, <1>6
<1> QED BY <1>2, <1>4, <1>5, <1>6, <1>7, <1>8, <1>9 DEF Progress

LEMMA HostStep ==
  ASSUME NEW g, Settled(g), HostOK(g), NEW hn, NEW th, NEW sl, NEW re, NEW rs, NEW me, NEW ou,
         Progress(g, hn, th, sl, re, rs, me, ou), hn \in DOMAIN g.host,
         g.host[hn].do \in {"send_argument", "receive_return", "join"},
         g.host[hn].do = "join" => \A p \in g.launched : ~th[p].on,
         NEW sl2, NEW rs2,
         g.host[hn].do = "send_argument" =>
           sl2 = [sl EXCEPT ![g.host[hn].at] = g.vals[g.host[hn].val]] /\ rs2 = rs,
         g.host[hn].do = "receive_return" => sl2 = sl /\ re # Empty /\ rs2 = re,
         g.host[hn].do = "join" => sl2 = sl /\ rs2 = rs
  PROVE  Progress(g, hn + 1, th, sl2, re, rs2, me, ou)
<1>1. /\ Channels(g, th, sl) /\ ArgSlots(g, sl) /\ Slots(g, sl)
      /\ hn > 1 => \A p \in g.launched : ~th[p].on => Spot(g, p, th[p]).do = "ret"
      /\ rs # Empty => rs = re
      /\ \A n \in DOMAIN g.host : n < hn /\ g.host[n].do = "receive_return" => rs # Empty
  BY DEF Progress
<1>2. /\ DOMAIN g.host = 1 .. Len(g.host) /\ Len(g.host) \in Nat /\ hn # 1
      /\ g.host[hn].do = "join" <=> hn = Len(g.host)
  BY DEF HostOK
<1>3. Channels(g, th, sl2) /\ ArgSlots(g, sl2) /\ Slots(g, sl2)
  <2>1. CASE g.host[hn].do = "send_argument"
    <3>1. PICK d \in DOMAIN g.args : g.args[d] = Argument(g.host[hn].at) /\ g.host[hn].val = Value(d[2])
      BY <2>1 DEF HostOK
    <3>2. sl2 = [sl EXCEPT ![g.host[hn].at] = g.vals[Value(d[2])]]
      BY <2>1, <3>1
    <3> QED BY <1>1, <3>1, <3>2, HostSends
  <2>2. CASE g.host[hn].do \in {"receive_return", "join"}
    <3>1. sl2 = sl
      BY <2>2
    <3> QED BY <1>1, <3>1
  <2> QED BY <2>1, <2>2
<1>4. hn \in Nat /\ hn > 1 /\ hn + 1 \in 1 .. Len(g.host) + 1 /\ hn + 1 > 1
  BY <1>2
<1>5. hn + 1 = Len(g.host) + 1 => \A p \in g.launched : ~th[p].on
  BY <1>2, <1>4
<1>6. rs2 # Empty => rs2 = re
  BY <1>1
<1>7. ASSUME NEW n \in DOMAIN g.host, n < hn + 1, g.host[n].do = "receive_return"
      PROVE  rs2 # Empty
  <2>1. CASE n = hn
    BY <1>7, <2>1
  <2>2. CASE n < hn
    <3>1. rs # Empty
      BY <1>1, <1>7, <2>2
    <3>2. rs2 = rs \/ rs2 = re
      OBVIOUS
    <3> QED BY <1>1, <3>1, <3>2
  <2>3. n = hn \/ n < hn
    BY <1>2, <1>4, <1>7
  <2> QED BY <2>1, <2>2, <2>3
<1> QED BY <1>1, <1>3, <1>4, <1>5, <1>6, <1>7 DEF Progress

\* A thread that is off stands at its ret.
Stands(g, p, u) == u.on \/ Spot(g, p, u).do = "ret"

\* A thread executes an item.
LEMMA ThreadStep ==
  ASSUME NEW g, Settled(g), HostOK(g), NEW hn, NEW th, NEW sl, NEW re, NEW rs, NEW me, NEW ou,
         Progress(g, hn, th, sl, re, rs, me, ou), NEW p \in DOMAIN g.code, NEW th2, NEW sl2, NEW re2,
         NEW me2, NEW ou2, Others(g, th, th2, p), Framed(th2[p]), th[p].on,
         Stands(g, p, th2[p]),
         Threads(g, th2, me2, ou2), Channels(g, th2, sl2), ArgSlots(g, sl2), Slots(g, sl2),
         re2 = re \/ re = Empty, re2 # Empty => Returned(g, th2, re2)
  PROVE  Progress(g, hn, th2, sl2, re2, rs, me2, ou2)
<1>1. \A q \in DOMAIN g.code : Framed(th2[q])
  <2> QED BY DEF Others, Progress
<1>2. g.launched \subseteq DOMAIN g.code
  BY DEF HostOK
<1>3. ASSUME hn > 1, NEW q \in g.launched, ~th2[q].on
      PROVE  Spot(g, q, th2[q]).do = "ret"
  <2>1. CASE q = p
    BY <1>3, <2>1 DEF Stands
  <2>2. CASE q # p
    BY <1>2, <1>3, <2>2 DEF Others, Progress
  <2> QED BY <2>1, <2>2
<1>4. ASSUME hn = Len(g.host) + 1, NEW q \in g.launched
      PROVE  ~th2[q].on
  <2>1. q # p
    BY <1>4 DEF Progress
  <2> QED BY <1>2, <1>4, <2>1 DEF Others, Progress
<1>5. rs # Empty => rs = re2
  BY DEF Progress
<1>6. hn \in 1 .. Len(g.host) + 1 /\ \A n \in DOMAIN g.host : n < hn /\ g.host[n].do = "receive_return" => rs # Empty
  BY DEF Progress
<1> QED BY <1>1, <1>3, <1>4, <1>5, <1>6 DEF Progress

\* What an item that is no terminal does to the record of the thread.
Stepped(th, th2, p, e) == th2 = [th EXCEPT ![p].next = @ + 1, ![p].env = e]

StepsTo(g, th, th2, p, e) ==
  /\ GoesOn(th[p], th2[p]) /\ th2[p].env = e /\ th2[p].on = th[p].on /\ Framed(th2[p])
  /\ Others(g, th, th2, p)

LEMMA StepFields ==
  ASSUME NEW g, NEW th, NEW p \in DOMAIN g.code, DOMAIN th = DOMAIN g.code, Framed(th[p]), NEW e,
         NEW th2, Stepped(th, th2, p, e)
  PROVE  StepsTo(g, th, th2, p, e)
<1> DEFINE t == th[p]
           c == t.next + 1
           u1 == [t EXCEPT !.next = c]
           u == [u1 EXCEPT !.env = e]
<1>1. Framed(t)
  OBVIOUS
<1>2. th2[p] = u /\ DOMAIN th2 = DOMAIN th /\ \A q \in DOMAIN g.code : q # p => th2[q] = th[q]
  BY DEF Stepped
<1>3. c = t.next + 1
  OBVIOUS
<1> HIDE DEF t, c
<1>4. u1 = [on |-> t.on, block |-> t.block, next |-> c, env |-> t.env, path |-> t.path]
  BY <1>1 DEF Framed
<1> HIDE DEF u1
<1>5. u = [on |-> t.on, block |-> t.block, next |-> c, env |-> e, path |-> t.path]
  BY <1>4
<1> HIDE DEF u
<1>6. Framed(u) /\ u.on = t.on /\ u.block = t.block /\ u.next = c /\ u.env = e /\ u.path = t.path
  BY <1>5 DEF Framed
<1>7. GoesOn(t, u)
  BY <1>3, <1>6 DEF GoesOn
<1>8. Others(g, th, th2, p)
  BY <1>2 DEF Others
<1>9. th2[p] = u /\ th[p] = t
  BY <1>2 DEF t
<1> QED BY <1>6, <1>7, <1>8, <1>9 DEF StepsTo

LEMMA SendCase ==
  ASSUME NEW g, Settled(g), HostOK(g), NEW hn, NEW th, NEW sl, NEW re, NEW rs, NEW me, NEW ou,
         Progress(g, hn, th, sl, re, rs, me, ou), NEW p \in DOMAIN g.code, th[p].on,
         Spot(g, p, th[p]).do = "send", sl[Spot(g, p, th[p]).at] = Empty,
         NEW sl2, sl2 = [sl EXCEPT ![Spot(g, p, th[p]).at] = Read(g.f, th[p].env, Spot(g, p, th[p]).val)],
         NEW th2, Stepped(th, th2, p, th[p].env)
  PROVE  Progress(g, hn, th2, sl2, re, rs, me, ou)
<1>1. /\ Threads(g, th, me, ou) /\ Channels(g, th, sl) /\ ArgSlots(g, sl) /\ Slots(g, sl)
      /\ DOMAIN th = DOMAIN g.code /\ Framed(th[p]) /\ (re # Empty => Returned(g, th, re))
      /\ ThreadOK(g, p, th[p]) /\ Tracks(g, p, th[p], me, ou)
  BY DEF Progress, Threads
<1>2. /\ GoesOn(th[p], th2[p]) /\ th2[p].env = th[p].env /\ th2[p].on /\ Framed(th2[p])
      /\ Others(g, th, th2, p)
  <2>1. StepsTo(g, th, th2, p, th[p].env)
    BY <1>1, StepFields
  <2> QED BY <1>1, <2>1 DEF StepsTo
<1>3. ThreadOK(g, p, th2[p]) /\ Tracks(g, p, th2[p], me, ou)
  BY <1>1, <1>2, KeepStep
<1>4. Threads(g, th2, me, ou)
  BY <1>1, <1>2, <1>3, ThreadsMove
<1>5. Channels(g, th2, sl2)
  BY <1>1, <1>2, ChannelsSend
<1>6. ArgSlots(g, sl2) /\ Slots(g, sl2)
  <2>1. Read(g.f, th[p].env, Spot(g, p, th[p]).val) \in Int
    BY <1>1, SentValue
  <2>2. IsComm(Spot(g, p, th[p]))
    BY DEF IsComm
  <2> QED BY <1>1, <2>1, <2>2, SlotsComm
<1>7. re # Empty => Returned(g, th2, re)
  <2>1. th2[p].block = th[p].block /\ th2[p].path = th[p].path
    BY <1>2 DEF GoesOn
  <2> QED BY <1>1, <1>2, <2>1, ReturnedStays
<1>8. Stands(g, p, th2[p])
  BY <1>2 DEF Stands
<1> QED BY <1>2, <1>4, <1>5, <1>6, <1>7, <1>8, ThreadStep

LEMMA CommSpot ==
  ASSUME NEW g, Settled(g), NEW p \in DOMAIN g.code, NEW t, ThreadOK(g, p, t), IsComm(Spot(g, p, t))
  PROVE  Spot(g, p, t).at \in g.ids
<1>1. /\ t.block \in Blocks(g.f) /\ t.next \in DOMAIN g.code[p][t.block]
      /\ Spot(g, p, t) = g.code[p][t.block][t.next]
  BY RowRange
<1> QED BY <1>1, CommItem

LEMMA ReceiveCase ==
  ASSUME NEW g, Settled(g), HostOK(g), NEW hn, NEW th, NEW sl, NEW re, NEW rs, NEW me, NEW ou,
         Progress(g, hn, th, sl, re, rs, me, ou), NEW p \in DOMAIN g.code, th[p].on,
         Spot(g, p, th[p]).do = "receive", sl[Spot(g, p, th[p]).at] # Empty,
         NEW sl2, sl2 = [sl EXCEPT ![Spot(g, p, th[p]).at] = Empty],
         NEW th2, Stepped(th, th2, p, Extended(th[p].env, Spot(g, p, th[p]).val, sl[Spot(g, p, th[p]).at]))
  PROVE  Progress(g, hn, th2, sl2, re, rs, me, ou)
<1> DEFINE y == sl[Spot(g, p, th[p]).at]
<1>1. /\ Threads(g, th, me, ou) /\ Channels(g, th, sl) /\ ArgSlots(g, sl) /\ Slots(g, sl)
      /\ DOMAIN th = DOMAIN g.code /\ Framed(th[p]) /\ (re # Empty => Returned(g, th, re))
      /\ ThreadOK(g, p, th[p]) /\ Tracks(g, p, th[p], me, ou)
  BY DEF Progress, Threads
<1>2. /\ GoesOn(th[p], th2[p]) /\ th2[p].env = Extended(th[p].env, Spot(g, p, th[p]).val, y)
      /\ th2[p].on /\ Framed(th2[p]) /\ Others(g, th, th2, p)
  <2>1. StepsTo(g, th, th2, p, Extended(th[p].env, Spot(g, p, th[p]).val, y))
    BY <1>1, StepFields
  <2> QED BY <1>1, <2>1 DEF StepsTo
<1>3. IsComm(Spot(g, p, th[p]))
  BY DEF IsComm
<1>4. y \in Int
  <2>1. Spot(g, p, th[p]).at \in g.ids
    BY <1>1, <1>3, CommSpot
  <2> QED BY <1>1, <2>1 DEF Slots
<1>5. \A j \in ToSet(g.code[Spot(g, p, th[p]).peer][th[p].block]) : Partner(Spot(g, p, th[p]), j, p) =>
        y = Read(g.f, Now(g, p, th[p]).env, j.val)
  BY <1>1, ReceivedValue
<1>6. ThreadOK(g, p, th2[p]) /\ Tracks(g, p, th2[p], me, ou)
  BY <1>1, <1>2, <1>4, <1>5, ReceiveStep
<1>7. Threads(g, th2, me, ou)
  BY <1>1, <1>2, <1>6, ThreadsMove
<1>8. Channels(g, th2, sl2)
  BY <1>1, <1>2, ChannelsReceive
<1>9. ArgSlots(g, sl2) /\ Slots(g, sl2)
  BY <1>1, <1>3, SlotsComm
<1>10. re # Empty => Returned(g, th2, re)
  <2>1. th2[p].block = th[p].block /\ th2[p].path = th[p].path
    BY <1>2 DEF GoesOn
  <2> QED BY <1>1, <1>2, <2>1, ReturnedStays
<1>11. Stands(g, p, th2[p])
  BY <1>2 DEF Stands
<1> QED BY <1>2, <1>7, <1>8, <1>9, <1>10, <1>11, ThreadStep

LEMMA QuietStepChannels ==
  ASSUME NEW g, Settled(g), NEW p \in DOMAIN g.code, NEW th, NEW th2, NEW sl, Channels(g, th, sl),
         Others(g, th, th2, p), ThreadOK(g, p, th[p]), GoesOn(th[p], th2[p]), ~IsComm(Spot(g, p, th[p]))
  PROVE  Channels(g, th2, sl)
<1>1. Silent(g, p, th[p], th2[p])
  BY FollowsSilent
<1> QED BY <1>1, ChannelsQuiet

LEMMA PeekCase ==
  ASSUME NEW g, Settled(g), HostOK(g), NEW hn, NEW th, NEW sl, NEW re, NEW rs, NEW me, NEW ou,
         Progress(g, hn, th, sl, re, rs, me, ou), NEW p \in DOMAIN g.code, th[p].on,
         Spot(g, p, th[p]).do = "peek", sl[Spot(g, p, th[p]).at] # Empty,
         NEW th2, Stepped(th, th2, p, Extended(th[p].env, Spot(g, p, th[p]).val, sl[Spot(g, p, th[p]).at]))
  PROVE  Progress(g, hn, th2, sl, re, rs, me, ou)
<1> DEFINE i == Spot(g, p, th[p])
           y == sl[i.at]
<1>1. /\ Threads(g, th, me, ou) /\ Channels(g, th, sl) /\ ArgSlots(g, sl) /\ Slots(g, sl)
      /\ DOMAIN th = DOMAIN g.code /\ Framed(th[p]) /\ (re # Empty => Returned(g, th, re))
      /\ ThreadOK(g, p, th[p]) /\ Tracks(g, p, th[p], me, ou)
  BY DEF Progress, Threads
<1>2. /\ GoesOn(th[p], th2[p]) /\ th2[p].env = Extended(th[p].env, i.val, y)
      /\ th2[p].on /\ Framed(th2[p]) /\ Others(g, th, th2, p)
  <2>1. StepsTo(g, th, th2, p, Extended(th[p].env, i.val, y))
    BY <1>1, StepFields
  <2> QED BY <1>1, <2>1 DEF StepsTo
<1>3. ~IsComm(i)
  BY DEF IsComm
<1>4. PICK v \in ToSet(g.f.args) : <<p, v>> \in DOMAIN g.args /\ g.args[<<p, v>>] = i.val /\ i.val = Argument(i.at)
  <2>1. ItemOK(g.f, g.place, g.args, g.code, p, th[p].block, i)
    BY <1>1, SpotItem
  <2>2. i.do = "peek"
    OBVIOUS
  <2> HIDE DEF i
  <2> QED BY <2>1, <2>2 DEF ItemOK, PeekOK
<1>5. i.at \in g.ids
  BY <1>4 DEF Settled, InRange
<1>6. y \in Int
  BY <1>1, <1>5 DEF Slots
<1>7. ASSUME NEW w \in ToSet(g.f.args), <<p, w>> \in DOMAIN g.args, g.args[<<p, w>>] = i.val
      PROVE  y = g.vals[Value(w)]
  <2>1. g.args[<<p, w>>] = Argument(i.at)
    BY <1>4, <1>7
  <2>2. y = Empty \/ y = g.vals[Value(<<p, w>>[2])]
    BY <1>1, <1>7, <2>1 DEF ArgSlots
  <2> QED BY <2>2
<1>8. ThreadOK(g, p, th2[p]) /\ Tracks(g, p, th2[p], me, ou)
  BY <1>1, <1>2, <1>6, <1>7, PeekStep
<1>9. Threads(g, th2, me, ou)
  BY <1>1, <1>2, <1>8, ThreadsMove
<1>10. Channels(g, th2, sl)
  BY <1>1, <1>2, <1>3, QuietStepChannels
<1>11. re # Empty => Returned(g, th2, re)
  <2>1. th2[p].block = th[p].block /\ th2[p].path = th[p].path
    BY <1>2 DEF GoesOn
  <2> QED BY <1>1, <1>2, <2>1, ReturnedStays
<1>12. Stands(g, p, th2[p])
  BY <1>2 DEF Stands
<1> QED BY <1>1, <1>2, <1>9, <1>10, <1>11, <1>12, ThreadStep

LEMMA SendReturnCase ==
  ASSUME NEW g, Settled(g), HostOK(g), NEW hn, NEW th, NEW sl, NEW re, NEW rs, NEW me, NEW ou,
         Progress(g, hn, th, sl, re, rs, me, ou), NEW p \in DOMAIN g.code, th[p].on,
         Spot(g, p, th[p]).do = "send_return", re = Empty,
         NEW re2, re2 = Read(g.f, th[p].env, Spot(g, p, th[p]).val),
         NEW th2, Stepped(th, th2, p, th[p].env)
  PROVE  Progress(g, hn, th2, sl, re2, rs, me, ou)
<1>1. /\ Threads(g, th, me, ou) /\ Channels(g, th, sl) /\ ArgSlots(g, sl) /\ Slots(g, sl)
      /\ DOMAIN th = DOMAIN g.code /\ Framed(th[p])
      /\ ThreadOK(g, p, th[p]) /\ Tracks(g, p, th[p], me, ou)
  BY DEF Progress, Threads
<1>2. /\ GoesOn(th[p], th2[p]) /\ th2[p].env = th[p].env /\ th2[p].on /\ Framed(th2[p])
      /\ Others(g, th, th2, p)
  <2>1. StepsTo(g, th, th2, p, th[p].env)
    BY <1>1, StepFields
  <2> QED BY <1>1, <2>1 DEF StepsTo
<1>3. ThreadOK(g, p, th2[p]) /\ Tracks(g, p, th2[p], me, ou)
  BY <1>1, <1>2, KeepStep
<1>4. Threads(g, th2, me, ou)
  BY <1>1, <1>2, <1>3, ThreadsMove
<1>5. ~IsComm(Spot(g, p, th[p]))
  BY DEF IsComm
<1>6. Channels(g, th2, sl)
  BY <1>1, <1>2, <1>5, QuietStepChannels
<1>7. Returned(g, th, re2)
  BY <1>1, ReturnValue
<1>8. Returned(g, th2, re2)
  BY <1>2, <1>7, ReturnedStays DEF GoesOn
<1>9. Stands(g, p, th2[p])
  BY <1>2 DEF Stands
<1> QED BY <1>1, <1>2, <1>4, <1>6, <1>8, <1>9, ThreadStep

LEMMA ExecCase ==
  ASSUME NEW g, Settled(g), HostOK(g), NEW hn, NEW th, NEW sl, NEW re, NEW rs, NEW me, NEW ou,
         Progress(g, hn, th, sl, re, rs, me, ou), NEW p \in DOMAIN g.code, th[p].on,
         Spot(g, p, th[p]).do = "exec", NEW e, NEW th2, Stepped(th, th2, p, e),
         NEW me2, NEW ou2, Executes(g, p, th[p], th2[p], me, ou, me2, ou2)
  PROVE  Progress(g, hn, th2, sl, re, rs, me2, ou2)
<1>1. /\ Threads(g, th, me, ou) /\ Channels(g, th, sl) /\ ArgSlots(g, sl) /\ Slots(g, sl)
      /\ DOMAIN th = DOMAIN g.code /\ Framed(th[p]) /\ (re # Empty => Returned(g, th, re))
      /\ ThreadOK(g, p, th[p]) /\ Tracks(g, p, th[p], me, ou)
  BY DEF Progress, Threads
<1>2. /\ GoesOn(th[p], th2[p]) /\ th2[p].on /\ Framed(th2[p]) /\ Others(g, th, th2, p)
  <2>1. StepsTo(g, th, th2, p, e)
    BY <1>1, StepFields
  <2> QED BY <1>1, <2>1 DEF StepsTo
<1>3. /\ ThreadOK(g, p, th2[p]) /\ Tracks(g, p, th2[p], me2, ou2)
      /\ me2 = me \/ \E i \in Instrs(g.f) : i.op = "store" /\ g.place[i.name] = p
      /\ ou2 = ou \/ \E i \in Instrs(g.f) : i.op = "call" /\ g.place[i.name] = p
  BY <1>1, <1>2, ExecStep
<1>4. Threads(g, th2, me2, ou2)
  BY <1>1, <1>2, <1>3, ThreadsMove
<1>5. ~IsComm(Spot(g, p, th[p]))
  BY DEF IsComm
<1>6. Channels(g, th2, sl)
  BY <1>1, <1>2, <1>5, QuietStepChannels
<1>7. re # Empty => Returned(g, th2, re)
  <2>1. th2[p].block = th[p].block /\ th2[p].path = th[p].path
    BY <1>2 DEF GoesOn
  <2> QED BY <1>1, <1>2, <2>1, ReturnedStays
<1>8. Stands(g, p, th2[p])
  BY <1>2 DEF Stands
<1> QED BY <1>1, <1>2, <1>4, <1>6, <1>7, <1>8, ThreadStep

LEMMA BranchCase ==
  ASSUME NEW g, Settled(g), HostOK(g), NEW hn, NEW th, NEW sl, NEW re, NEW rs, NEW me, NEW ou,
         Progress(g, hn, th, sl, re, rs, me, ou), NEW p \in DOMAIN g.code, th[p].on,
         Spot(g, p, th[p]).do = "exec", Spot(g, p, th[p]).op = "br",
         NEW to, to = Destination(Spot(g, p, th[p]).blocks, ReadAll(g.f, th[p].env, Spot(g, p, th[p]).args)),
         NEW th2, Others(g, th, th2, p), Framed(th2[p]), th2[p].on, Enters(g, p, th[p], th2[p], to)
  PROVE  Progress(g, hn, th2, sl, re, rs, me, ou)
<1>1. /\ Threads(g, th, me, ou) /\ Channels(g, th, sl) /\ ArgSlots(g, sl) /\ Slots(g, sl)
      /\ DOMAIN th = DOMAIN g.code /\ (re # Empty => Returned(g, th, re))
      /\ ThreadOK(g, p, th[p]) /\ Tracks(g, p, th[p], me, ou)
  BY DEF Progress, Threads
<1>2. /\ ThreadOK(g, p, th2[p]) /\ Tracks(g, p, th2[p], me, ou) /\ to \in Blocks(g.f)
      /\ \A n \in 1 .. th2[p].next - 1 : g.code[p][th2[p].block][n].do = "exec"
  BY <1>1, BranchTracks
<1>3. Threads(g, th2, me, ou)
  BY <1>1, <1>2, ThreadsMove
<1>4. ~IsComm(Spot(g, p, th[p])) /\ Terminal(Spot(g, p, th[p]))
  BY DEF IsComm, Terminal
<1>5. th[p].next = Len(g.code[p][th[p].block])
  BY <1>1, <1>4, TerminalSpot
<1>6. th2[p].next \in Nat /\ th2[p].block = to
  BY <1>2, RowRange DEF Enters
<1>7. Silent(g, p, th[p], th2[p])
  BY <1>1, <1>2, <1>4, <1>5, <1>6, EntersSilent
<1>8. Channels(g, th2, sl)
  BY <1>1, <1>7, ChannelsQuiet
<1>9. Final(g, th[p]).op # "ret"
  <2>1. Copies(g, p, th[p])
    BY <1>1, SpotCopies
  <2>2. Spot(g, p, th[p]).line = Len(g.f.body[th[p].block]) /\ Original(g, p, th[p]).op = "br"
    BY <1>1, <2>1, BranchSpot DEF Copies
  <2>3. Final(g, th[p]) = g.f.body[th[p].block][Len(g.f.body[th[p].block])]
    <3>1. Verified(g.f) /\ th[p].block \in Blocks(g.f)
      BY <1>1, RowRange DEF Settled
    <3> QED BY <3>1, BodyFacts DEF Final
  <2> QED BY <2>2, <2>3 DEF Original
<1>10. re # Empty => Returned(g, th2, re)
  BY <1>1, <1>9, ReturnedStays
<1>11. Stands(g, p, th2[p])
  BY DEF Stands
<1> QED BY <1>1, <1>3, <1>8, <1>10, <1>11, ThreadStep

Halted(th, th2, p) == th2 = [th EXCEPT ![p].on = FALSE]

LEMMA ReturnCase ==
  ASSUME NEW g, Settled(g), HostOK(g), NEW hn, NEW th, NEW sl, NEW re, NEW rs, NEW me, NEW ou,
         Progress(g, hn, th, sl, re, rs, me, ou), NEW p \in DOMAIN g.code, th[p].on,
         Spot(g, p, th[p]).do = "ret", NEW th2, Halted(th, th2, p)
  PROVE  Progress(g, hn, th2, sl, re, rs, me, ou)
<1>1. /\ Threads(g, th, me, ou) /\ Channels(g, th, sl) /\ ArgSlots(g, sl) /\ Slots(g, sl)
      /\ DOMAIN th = DOMAIN g.code /\ Framed(th[p]) /\ (re # Empty => Returned(g, th, re))
  BY DEF Progress, Threads
<1>2. Framed(th2[p]) /\ Unmoved(th[p], th2[p]) /\ Others(g, th, th2, p)
  <2> DEFINE t == th[p]
             u == [t EXCEPT !.on = FALSE]
  <2>1. th2[p] = u /\ DOMAIN th2 = DOMAIN th /\ \A q \in DOMAIN g.code : q # p => th2[q] = th[q]
    BY <1>1 DEF Halted
  <2>2. Framed(t)
    BY <1>1
  <2> HIDE DEF t
  <2>3. u = [t EXCEPT !.on = FALSE]
    OBVIOUS
  <2> HIDE DEF u
  <2>4. Framed(u) /\ Unmoved(t, u)
    BY <2>2, <2>3, Switched
  <2>5. Others(g, th, th2, p)
    BY <2>1 DEF Others
  <2> QED BY <2>1, <2>4, <2>5 DEF t
<1>3. \A q \in DOMAIN g.code : Unmoved(th[q], th2[q])
  BY <1>2 DEF Others, Unmoved
<1>4. Threads(g, th2, me, ou) /\ Channels(g, th2, sl)
  BY <1>1, <1>2, <1>3, UnmovedThreads DEF Others
<1>5. re # Empty => Returned(g, th2, re)
  BY <1>1, <1>3, UnmovedReturned
<1>6. Spot(g, p, th2[p]).do = "ret"
  BY <1>2, UnmovedThread
<1>7. Stands(g, p, th2[p])
  BY <1>6 DEF Stands
<1>8. re = re \/ re = Empty
  OBVIOUS
<1> QED BY <1>1, <1>2, <1>4, <1>5, <1>7, <1>8, ThreadStep

------------------------------------------------------------------------------
(* The states of the specification. *)

Session == [f |-> fn, place |-> place, code |-> code, args |-> argReg, vals |-> actual,
            ids |-> 0 .. commsId - 1, host |-> host, launched |-> launched]

\* What the compiler has emitted when it is done.
Output == /\ CodeOK(fn, place, argReg, code)
          /\ InRange(fn, argReg, code, 0 .. commsId - 1)
          /\ HostOK(Session)

Compiled == fn \in Functions /\ place \in Placements(fn)

Ongoing == /\ phase = "done" /\ Settled(Session) /\ HostOK(Session)
           /\ Progress(Session, hostNext, thread, slot, ret, result, mem, out)

RunInv == /\ Compiled
          /\ hostNext = 0 => ret = Empty /\ result = Empty /\ out = <<>> /\ thread = <<>>
          /\ hostNext # 0 => Ongoing

LEMMA SessionFields ==
  /\ Session.f = fn /\ Session.place = place /\ Session.code = code /\ Session.args = argReg
  /\ Session.vals = actual /\ Session.ids = 0 .. commsId - 1 /\ Session.host = host
  /\ Session.launched = launched
BY DEF Session

LEMMA CallStep ==
  ASSUME RunInv, phase = "done" => Output, Call, UNCHANGED emitVars
  PROVE  RunInv'
<1>1. /\ phase = "done" /\ hostNext = 0 /\ hostNext' = 1
      /\ actual' \in [{Value(v) : v \in ToSet(fn.args)} -> ArgValues]
      /\ thread' = [p \in AllPartitions |->
                  [on |-> FALSE, block |-> 1, next |-> 1, env |-> <<>>, path |-> <<1>>]]
      /\ slot' = [id \in 0 .. commsId - 1 |-> Empty]
      /\ mem' = ZeroMemory(fn) /\ ret' = ret /\ result' = result /\ out' = out
  <2>1. ret' = ret /\ result' = result /\ out' = out
    BY DEF Call
  <2> QED BY <2>1, Zenon DEF Call
<1>2. /\ fn' = fn /\ place' = place /\ phase' = phase /\ code' = code /\ argReg' = argReg
      /\ launched' = launched /\ host' = host /\ commsId' = commsId
  BY DEF emitVars
<1>3. ret = Empty /\ result = Empty /\ out = <<>> /\ Compiled
  BY <1>1 DEF RunInv
<1>4. Output
  BY <1>1
<1> DEFINE g == Session'
<1>5. /\ g.f = fn /\ g.place = place /\ g.code = code /\ g.args = argReg
      /\ g.vals = actual' /\ g.ids = 0 .. commsId - 1 /\ g.host = host /\ g.launched = launched
  BY <1>2 DEF Session
<1> HIDE DEF g
<1>6. Verified(fn) /\ Runnable(fn)
  BY <1>3, FunctionsAssumption, RunAssumption DEF Compiled
<1>7. Passes(fn, actual')
  BY <1>1, RunAssumption DEF Passes
<1>8. Settled(g) /\ HostOK(g)
  <2>1. Settled(g)
    BY <1>3, <1>4, <1>5, <1>6, <1>7 DEF Settled, Compiled, Output
  <2>2. HostOK(Session)
    BY <1>4 DEF Output
  <2>3. HostOK(g)
    BY <1>5, <2>2, SessionFields DEF HostOK
  <2> QED BY <2>1, <2>3
<1>9. DOMAIN g.code = AllPartitions
  BY <1>5, <1>8 DEF Settled, CodeOK, RowsTyped, Parts, AllPartitions
<1>10. DOMAIN thread' = DOMAIN g.code /\ \A p \in DOMAIN g.code : Fresh(thread'[p]) /\ Framed(thread'[p])
  BY <1>1, <1>9 DEF Fresh, Framed
<1>11. Threads(g, thread', mem', out')
  BY <1>1, <1>3, <1>5, <1>8, <1>10, StartThread DEF Threads
<1>12. \A x \in g.ids : slot'[x] = Empty
  BY <1>1, <1>5
<1>13. Channels(g, thread', slot')
  BY <1>8, <1>10, <1>12, StartChannels
<1>14. Slots(g, slot')
  BY <1>1, <1>5 DEF Slots
<1>15. ArgSlots(g, slot')
  <2>1. \A d \in DOMAIN g.args : \A x : g.args[d] = Argument(x) => x \in g.ids
    BY <1>8 DEF Settled, InRange
  <2> QED BY <1>12, <2>1 DEF ArgSlots
<1>16. /\ DOMAIN g.host = 1 .. Len(g.host) /\ Len(g.host) \in Nat /\ Len(g.host) >= 2
       /\ hostNext' \in 1 .. Len(g.host) + 1 /\ ~(hostNext' > 1) /\ hostNext' # Len(g.host) + 1
       /\ \A n \in DOMAIN g.host : ~(n < hostNext')
  <2>1. DOMAIN g.host = 1 .. Len(g.host) /\ Len(g.host) \in Nat /\ Len(g.host) >= 2
    BY <1>8 DEF HostOK
  <2> QED BY <1>1, <2>1
<1>17. ret' = Empty /\ result' = Empty
  BY <1>1, <1>3
<1>18. Progress(g, hostNext', thread', slot', ret', result', mem', out')
  BY <1>10, <1>11, <1>13, <1>14, <1>15, <1>16, <1>17 DEF Progress
<1>19. Ongoing'
  <2>1. phase' = "done"
    BY <1>1, <1>2
  <2> QED BY <2>1, <1>8, <1>18 DEF Ongoing, g
<1>20. Compiled'
  BY <1>2, <1>3 DEF Compiled
<1> QED BY <1>1, <1>19, <1>20 DEF RunInv

\* A step of the host or of a thread.
LEMMA HostRuns ==
  ASSUME Ongoing, UNCHANGED emitVars, Host
  PROVE  Ongoing'
<1> DEFINE g == Session
<1>1. /\ g.f = fn /\ g.code = code /\ g.vals = actual /\ g.host = host /\ g.launched = launched
  BY SessionFields
<1>2. Settled(g) /\ HostOK(g) /\ phase = "done" /\ Progress(g, hostNext, thread, slot, ret, result, mem, out)
  BY DEF Ongoing
<1>3. actual' = actual
  BY DEF Host, HostSpawn, HostSendArgument, HostReceiveReturn, HostJoin, HostItem
<1>4. g' = g /\ phase' = phase
  BY <1>3 DEF Session, emitVars
<1> HIDE DEF g
<1>5. Progress(g, hostNext', thread', slot', ret', result', mem', out')
  <2>1. CASE HostSpawn
    <3>1. /\ hostNext \in DOMAIN g.host /\ g.host[hostNext].do = "spawn" /\ hostNext' = hostNext + 1
          /\ thread' = [p \in DOMAIN thread |-> [thread[p] EXCEPT !.on = p \in g.launched]]
          /\ slot' = slot /\ ret' = ret /\ result' = result /\ mem' = mem /\ out' = out
      BY <1>1, <2>1 DEF HostSpawn, HostItem
    <3> QED BY <1>2, <3>1, SpawnStep
  <2>2. CASE HostSendArgument \/ HostReceiveReturn \/ HostJoin
    <3>1. /\ hostNext \in DOMAIN g.host /\ hostNext' = hostNext + 1
          /\ g.host[hostNext].do \in {"send_argument", "receive_return", "join"}
          /\ thread' = thread /\ ret' = ret /\ mem' = mem /\ out' = out
      BY <1>1, <2>2 DEF HostSendArgument, HostReceiveReturn, HostJoin, HostItem
    <3>2. g.host[hostNext].do = "join" => /\ \A p \in g.launched : ~thread[p].on
                                          /\ slot' = slot /\ result' = result
      BY <1>1, <2>2 DEF HostSendArgument, HostReceiveReturn, HostJoin, HostItem
    <3>3. g.host[hostNext].do = "send_argument" =>
            slot' = [slot EXCEPT ![g.host[hostNext].at] = g.vals[g.host[hostNext].val]] /\ result' = result
      BY <1>1, <2>2 DEF HostSendArgument, HostReceiveReturn, HostJoin, HostItem
    <3>4. g.host[hostNext].do = "receive_return" => slot' = slot /\ ret # Empty /\ result' = ret
      BY <1>1, <2>2 DEF HostSendArgument, HostReceiveReturn, HostJoin, HostItem
    <3>5. Progress(g, hostNext + 1, thread, slot', ret, result', mem, out)
      BY <1>2, <3>1, <3>2, <3>3, <3>4, HostStep
    <3> QED BY <3>1, <3>5
  <2> QED BY <2>1, <2>2 DEF Host
<1> QED BY <1>2, <1>4, <1>5 DEF Ongoing, g

\* What a branch does to the record of the thread.
Redirected(th, th2, p, b, c, e, x) ==
  th2 = [th EXCEPT ![p].block = b, ![p].next = c, ![p].env = e, ![p].path = x]

LEMMA RedirectedFields ==
  ASSUME NEW g, NEW th, NEW p \in DOMAIN g.code, DOMAIN th = DOMAIN g.code, Framed(th[p]),
         NEW b, NEW c, NEW e, NEW x, NEW th2, Redirected(th, th2, p, b, c, e, x)
  PROVE  /\ th2[p] = [on |-> th[p].on, block |-> b, next |-> c, env |-> e, path |-> x]
         /\ Others(g, th, th2, p)
<1> DEFINE t == th[p]
           u1 == [t EXCEPT !.block = b]
           u2 == [u1 EXCEPT !.next = c]
           u3 == [u2 EXCEPT !.env = e]
<1>1. th2[p] = [u3 EXCEPT !.path = x]
  BY DEF Redirected
<1>2. Framed(t)
  OBVIOUS
<1>3. Others(g, th, th2, p)
  BY DEF Others, Redirected
<1> HIDE DEF t
<1>4. u1 = [on |-> t.on, block |-> b, next |-> t.next, env |-> t.env, path |-> t.path]
  BY <1>2 DEF Framed
<1> HIDE DEF u1
<1>5. u2 = [on |-> t.on, block |-> b, next |-> c, env |-> t.env, path |-> t.path]
  BY <1>4
<1> HIDE DEF u2
<1>6. u3 = [on |-> t.on, block |-> b, next |-> c, env |-> e, path |-> t.path]
  BY <1>5
<1> HIDE DEF u3
<1>7. th2[p] = [on |-> t.on, block |-> b, next |-> c, env |-> e, path |-> x]
  BY <1>1, <1>6
<1> QED BY <1>3, <1>7 DEF t

LEMMA CoreRuns ==
  ASSUME Ongoing, UNCHANGED emitVars, NEW p \in DOMAIN thread, Core(p)
  PROVE  Ongoing'
<1> DEFINE g == Session
           t == thread[p]
           i == Spot(g, p, t)
           pr(th, sl, re, me, ou) == Progress(g, hostNext, th, sl, re, result, me, ou)
<1>1. /\ g.f = fn /\ g.code = code /\ g.vals = actual /\ g.host = host /\ g.launched = launched
  BY SessionFields
<1>2. Settled(g) /\ HostOK(g) /\ phase = "done" /\ pr(thread, slot, ret, mem, out)
  BY DEF Ongoing
<1>3. p \in DOMAIN g.code /\ DOMAIN thread = DOMAIN g.code /\ Framed(t)
  BY <1>2 DEF Progress, Threads
<1>4. Item_(p) = i
  BY <1>1 DEF Item_, Spot
<1>5. hostNext' = hostNext /\ actual' = actual /\ result' = result
  BY DEF Core, CoreSend, CoreReceive, CorePeek, CoreSendReturn, CoreCompute, CoreLoad, CoreStore, CoreCall,
         CoreBranch, CoreReturn, Keep, Set, Step
<1>6. g' = g /\ phase' = phase
  BY <1>5 DEF Session, emitVars
<1> HIDE DEF g, i
<1>7. Operands(p) = ReadAll(g.f, t.env, i.args)
  BY <1>1, <1>4 DEF Operands
<1>8. pr(thread', slot', ret', mem', out')
  <2>1. CASE CoreSend(p)
    <3>1. /\ t.on /\ i.do = "send" /\ slot[i.at] = Empty
          /\ slot' = [slot EXCEPT ![i.at] = Read(g.f, t.env, i.val)]
          /\ Stepped(thread, thread', p, t.env) /\ ret' = ret /\ mem' = mem /\ out' = out
      BY <1>1, <1>4, <2>1 DEF CoreSend, AtItem, Keep, Step, Stepped
    <3> QED BY <1>2, <1>3, <3>1, SendCase DEF i
  <2>2. CASE CoreReceive(p)
    <3>1. /\ t.on /\ i.do = "receive" /\ slot[i.at] # Empty
          /\ slot' = [slot EXCEPT ![i.at] = Empty]
          /\ Stepped(thread, thread', p, Extended(t.env, i.val, slot[i.at]))
          /\ ret' = ret /\ mem' = mem /\ out' = out
      BY <1>1, <1>4, <2>2 DEF CoreReceive, AtItem, Set, Step, Stepped
    <3> QED BY <1>2, <1>3, <3>1, ReceiveCase DEF i
  <2>3. CASE CorePeek(p)
    <3>1. /\ t.on /\ i.do = "peek" /\ slot[i.at] # Empty /\ slot' = slot
          /\ Stepped(thread, thread', p, Extended(t.env, i.val, slot[i.at]))
          /\ ret' = ret /\ mem' = mem /\ out' = out
      BY <1>1, <1>4, <2>3 DEF CorePeek, AtItem, Set, Step, Stepped
    <3> QED BY <1>2, <1>3, <3>1, PeekCase DEF i
  <2>4. CASE CoreSendReturn(p)
    <3>1. /\ t.on /\ i.do = "send_return" /\ slot' = slot /\ ret = Empty
          /\ ret' = Read(g.f, t.env, i.val)
          /\ Stepped(thread, thread', p, t.env) /\ mem' = mem /\ out' = out
      BY <1>1, <1>4, <2>4 DEF CoreSendReturn, AtItem, Keep, Step, Stepped
    <3> QED BY <1>2, <1>3, <3>1, SendReturnCase DEF i
  <2>5. CASE CoreCompute(p) \/ CoreLoad(p) \/ CoreStore(p) \/ CoreCall(p)
    <3> DEFINE vals == ReadAll(g.f, t.env, i.args)
               e == IF i.op \in {"add", "lt"} THEN Extended(t.env, i.val, Compute(i.op, vals))
                    ELSE IF i.op = "load" THEN Extended(t.env, i.val, mem[i.args[1]]) ELSE t.env
    <3>1. /\ t.on /\ i.do = "exec" /\ slot' = slot /\ ret' = ret
          /\ Stepped(thread, thread', p, e)
      BY <1>4, <1>7, <2>5 DEF CoreCompute, CoreLoad, CoreStore, CoreCall, AtInstr, AtItem, Set, Keep, Step, Stepped
    <3>2. \/ i.op \in {"add", "lt"} /\ mem' = mem /\ out' = out
          \/ i.op = "load" /\ mem' = mem /\ out' = out
          \/ i.op = "store" /\ mem' = [mem EXCEPT ![i.args[2]] = vals[1]] /\ out' = out
          \/ i.op = "call" /\ mem' = mem /\ out' = Append(out, vals)
      BY <1>4, <1>7, <2>5 DEF CoreCompute, CoreLoad, CoreStore, CoreCall, AtInstr, AtItem
    <3>3. thread'[p].env = e
      <4> HIDE DEF e
      <4>1. StepsTo(g, thread, thread', p, e)
        BY <1>3, <3>1, StepFields
      <4> QED BY <4>1 DEF StepsTo
    <3> HIDE DEF vals
    <3>4. Executes(g, p, t, thread'[p], mem, out, mem', out')
      BY <3>2, <3>3 DEF Executes, i, vals
    <3> HIDE DEF e
    <3> QED BY <1>2, <1>3, <3>1, <3>4, ExecCase DEF i
  <2>6. CASE CoreBranch(p)
    <3> DEFINE to == Destination(i.blocks, ReadAll(g.f, t.env, i.args))
               e == Enter(g.f, PhiRecords(g, p, to), t.block, t.env)
               c == Cardinality(PhiPlaces(g, p, to)) + 1
               x == Append(t.path, to)
               u == [on |-> t.on, block |-> to, next |-> c, env |-> e, path |-> x]
    <3>1. t.on /\ i.do = "exec" /\ i.op = "br" /\ slot' = slot /\ ret' = ret /\ mem' = mem /\ out' = out
      BY <1>4, <2>6 DEF CoreBranch, AtInstr, AtItem
    <3>2. CorePhis(p, to) = PhiRecords(g, p, to) /\ PhiItems(p, to) = PhiPlaces(g, p, to)
      BY <1>1 DEF CorePhis, PhiRecords, PhiItems, PhiPlaces
    <3>3. thread' = [thread EXCEPT ![p].block = to,
                                   ![p].next = Cardinality(PhiPlaces(g, p, to)) + 1,
                                   ![p].env = Enter(g.f, PhiRecords(g, p, to), t.block, @),
                                   ![p].path = Append(@, to)]
      BY <1>1, <1>4, <1>7, <2>6, <3>2 DEF CoreBranch
    <3> HIDE DEF to
    <3>4. Redirected(thread, thread', p, to, c, e, x)
      BY <3>3 DEF Redirected
    <3>5. thread'[p] = u /\ Others(g, thread, thread', p)
      <4> HIDE DEF c, e, x
      <4> QED BY <1>3, <3>4, RedirectedFields
    <3>6. Framed(thread'[p]) /\ thread'[p].on
      <4> HIDE DEF t, c, e, x
      <4> QED BY <3>1, <3>5 DEF Framed
    <3>8. Enters(g, p, t, thread'[p], to)
      <4>1. /\ thread'[p].block = to /\ thread'[p].next = c /\ thread'[p].env = e /\ thread'[p].path = x
        <5> HIDE DEF t, c, e, x
        <5> QED BY <3>5
      <4> QED BY <4>1 DEF Enters
    <3> QED BY <1>2, <1>3, <3>1, <3>5, <3>6, <3>8, BranchCase DEF i, to
  <2>7. CASE CoreReturn(p)
    <3>1. /\ t.on /\ i.do = "ret" /\ Halted(thread, thread', p)
          /\ slot' = slot /\ ret' = ret /\ mem' = mem /\ out' = out
      BY <1>4, <2>7 DEF CoreReturn, AtItem, Halted
    <3> QED BY <1>2, <1>3, <3>1, ReturnCase DEF i
  <2> QED BY <2>1, <2>2, <2>3, <2>4, <2>5, <2>6, <2>7 DEF Core
<1> QED BY <1>2, <1>5, <1>6, <1>8 DEF Ongoing, g

EmittedOK == (phase = "done" => Output) /\ 0 \notin DOMAIN host

LEMMA RunStep ==
  ASSUME RunInv, EmittedOK, [Next]_allVars
  PROVE  RunInv'
<1>1. CASE UNCHANGED allVars
  <2>1. /\ fn' = fn /\ place' = place /\ phase' = phase /\ code' = code /\ argReg' = argReg
        /\ launched' = launched /\ host' = host /\ commsId' = commsId
        /\ hostNext' = hostNext /\ actual' = actual /\ thread' = thread /\ slot' = slot
        /\ ret' = ret /\ result' = result /\ mem' = mem /\ out' = out
    BY <1>1 DEF allVars, emitVars, runVars
  <2>2. Session' = Session
    BY <2>1 DEF Session
  <2>3. Ongoing => Ongoing'
    BY <2>1, <2>2 DEF Ongoing
  <2> QED BY <2>1, <2>3 DEF RunInv, Compiled
<1>2. CASE EmitNext /\ UNCHANGED runVars
  <2>1. phase # "done"
    BY <1>2 DEF EmitNext, EmitAlloca, SkipBranch, EmitPhi, EmitRet, EmitStraightline, RepairPhi, SkipNonPhi,
                RepairJump, RepairBranch, FailStraightline, FailBranch, SkipNonBranch, ReplaceFun, Visit
  <2>2. hostNext = 0
    BY <2>1 DEF RunInv, Ongoing
  <2>3. fn' = fn /\ place' = place
    BY <1>2 DEF EmitNext, EmitAlloca, SkipBranch, EmitPhi, EmitRet, EmitStraightline, RepairPhi, SkipNonPhi,
                RepairJump, RepairBranch, FailStraightline, FailBranch, SkipNonBranch, ReplaceFun, Visit, Advance
  <2>4. hostNext' = hostNext /\ ret' = ret /\ result' = result /\ out' = out /\ thread' = thread
    BY <1>2 DEF runVars
  <2> QED BY <2>2, <2>3, <2>4 DEF RunInv, Compiled
<1>3. CASE RunNext /\ UNCHANGED emitVars
  <2>1. CASE Call
    BY <1>3, <2>1, CallStep DEF EmittedOK
  <2>2. CASE Running
    <3>1. hostNext # 0
      <4>1. CASE Host
        BY <4>1 DEF Host, HostSpawn, HostSendArgument, HostReceiveReturn, HostJoin, HostItem, EmittedOK
      <4>2. CASE \E p \in DOMAIN thread : Core(p)
        <5>1. thread # <<>>
          BY <4>2
        <5> QED BY <5>1 DEF RunInv
      <4> QED BY <2>2, <4>1, <4>2 DEF Running
    <3>2. Ongoing
      BY <3>1 DEF RunInv
    <3>3. Ongoing'
      BY <1>3, <2>2, <3>2, HostRuns, CoreRuns DEF Running
    <3>4. Compiled'
      BY <1>3 DEF RunInv, Compiled, emitVars
    <3>5. hostNext' # 0
      <4>1. Len(Session'.host) \in Nat /\ hostNext' \in 1 .. Len(Session'.host) + 1
        BY <3>3 DEF Ongoing, HostOK, Progress
      <4> DEFINE N == Len(Session'.host)
      <4>2. N \in Nat /\ hostNext' \in 1 .. N + 1
        BY <4>1
      <4> HIDE DEF N
      <4> QED BY <4>2
    <3> QED BY <3>3, <3>4, <3>5 DEF RunInv
  <2>3. Call \/ Running
    BY <1>3 DEF RunNext
  <2> QED BY <2>1, <2>2, <2>3
<1> QED BY <1>1, <1>2, <1>3 DEF Next

LEMMA RunStart ==
  ASSUME Init
  PROVE  RunInv
BY DEF Init, EmitInit, RunInit, RunInv, Compiled

------------------------------------------------------------------------------
(* What follows. *)

\* All calls of external functions are on one partition.
CallsTogether == \E p \in Partitions : Holding(fn, place, p, {"call"})

LEMMA CallNumber ==
  ASSUME RunInv, hostNext > 0
  PROVE  Ongoing
<1>1. hostNext # 0
  OBVIOUS
<1> QED BY <1>1 DEF RunInv

LEMMA OngoingSamePath ==
  ASSUME Ongoing
  PROVE  SamePath
<1> DEFINE g == Session
<1>1. Settled(g) /\ HostOK(g) /\ Progress(g, hostNext, thread, slot, ret, result, mem, out) /\ g.launched = launched
  BY SessionFields DEF Ongoing
<1> HIDE DEF g
<1>2. SUFFICES ASSUME NEW p \in launched, NEW q \in launched, Len(thread[p].path) <= Len(thread[q].path)
               PROVE  SubSeq(thread[q].path, 1, Len(thread[p].path)) = thread[p].path
  BY DEF SamePath
<1>3. p \in DOMAIN g.code /\ q \in DOMAIN g.code
  BY <1>1 DEF HostOK
<1> DEFINE a == thread[p].path
           b == thread[q].path
           N == Len(a)
<1>4. Trodden(g, thread[p]) /\ Trodden(g, thread[q])
  BY <1>1, <1>3 DEF Progress, Threads, ThreadOK
<1>5. /\ a \in Seq(Blocks(g.f)) /\ b \in Seq(Blocks(g.f)) /\ N \in Nat /\ Len(b) \in Nat
      /\ \A k \in 1 .. N : a[k] = Visits(g.f, g.vals)[k].block
      /\ \A k \in 1 .. Len(b) : b[k] = Visits(g.f, g.vals)[k].block
  BY <1>4 DEF Trodden
<1>6. N <= Len(b)
  BY <1>2
<1> HIDE DEF a, b
<1>7. \A k \in 1 .. N : k \in 1 .. Len(b) /\ b[k] = a[k]
  <2>1. Len(a) \in Nat /\ Len(a) <= Len(b) /\ Len(b) \in Nat
    BY <1>5, <1>6
  <2>2. \A k \in 1 .. Len(a) : k \in 1 .. Len(b)
    BY <2>1
  <2> QED BY <1>5, <2>2
<1>8. SubSeq(b, 1, N) = [k \in 1 .. N |-> b[k]]
  BY <1>5, <1>6
<1>9. a = [k \in 1 .. N |-> a[k]]
  BY <1>5
<1>10. [k \in 1 .. N |-> b[k]] = [k \in 1 .. N |-> a[k]]
  BY <1>7
<1>11. SubSeq(b, 1, N) = a
  BY <1>8, <1>9, <1>10
<1> QED BY <1>11 DEF a, b

\* The call has returned to the host.
CallEnded(g, th, sl, re, rs, me, ou) == Progress(g, Len(g.host) + 1, th, sl, re, rs, me, ou)

\* Two launched threads that are off are both at their ret.
LEMMA BothDone ==
  ASSUME NEW g, Settled(g), HostOK(g), NEW th, NEW sl, NEW re, NEW rs, NEW me, NEW ou,
         CallEnded(g, th, sl, re, rs, me, ou), NEW p \in g.launched
  PROVE  /\ p \in DOMAIN g.code /\ ThreadOK(g, p, th[p]) /\ Tracks(g, p, th[p], me, ou)
         /\ Spot(g, p, th[p]).do = "ret" /\ Final(g, th[p]).op = "ret" /\ Now(g, p, th[p]) = End(g, th[p])
         /\ End(g, th[p]).block = th[p].block
<1>1. p \in DOMAIN g.code /\ Len(g.host) + 1 > 1
  BY DEF HostOK
<1>2. ThreadOK(g, p, th[p]) /\ Tracks(g, p, th[p], me, ou)
  BY <1>1 DEF CallEnded, Progress, Threads
<1>3. Spot(g, p, th[p]).do = "ret"
  BY <1>1 DEF CallEnded, Progress
<1> QED BY <1>1, <1>2, <1>3, ReturnSpot

\* The visits of block b on a thread's path.
Went(t, b) == {k \in 1 .. Len(t.path) : t.path[k] = b}

\* A thread at its ret has executed every other item of the blocks it has visited.
LEMMA AllPassed ==
  ASSUME NEW g, Settled(g), NEW p \in DOMAIN g.code, NEW t, ThreadOK(g, p, t), Spot(g, p, t).do = "ret",
         NEW b \in Blocks(g.f), NEW n \in DOMAIN g.code[p][b], IsComm(g.code[p][b][n])
  PROVE  Passed(t, b, n) = Went(t, b)
<1> DEFINE row == g.code[p][t.block]
<1>1. t.next = Len(row) /\ t.block \in Blocks(g.f) /\ Spot(g, p, t) = row[t.next]
  BY TerminalSpot, RowRange DEF Terminal
<1>2. b = t.block => n < t.next
  <2> SUFFICES ASSUME b = t.block PROVE n < t.next
    OBVIOUS
  <2>1. n \in DOMAIN row /\ DOMAIN row = 1 .. Len(row) /\ Len(row) \in Nat
    BY <1>1, RowSorted
  <2>2. n # t.next
    BY <1>1 DEF IsComm
  <2> HIDE DEF row
  <2> QED BY <1>1, <2>1, <2>2
<1>3. t.path[Len(t.path)] = t.block
  BY DEF ThreadOK, Trodden
<1> DEFINE K == Len(t.path)
<1>4. Passed(t, b, n) = {k \in 1 .. K : t.path[k] = b /\ (k = K => n < t.next)}
  BY DEF Passed
<1> QED BY <1>2, <1>3, <1>4 DEF Went

LEMMA SamePassed ==
  ASSUME NEW g, Settled(g), NEW p \in DOMAIN g.code, NEW q \in DOMAIN g.code, NEW t, NEW s,
         ThreadOK(g, p, t), ThreadOK(g, q, s), Len(t.path) = Len(s.path), NEW b
  PROVE  Went(t, b) = Went(s, b)
<1>1. /\ \A k \in 1 .. Len(t.path) : t.path[k] = Visits(g.f, g.vals)[k].block
      /\ \A k \in 1 .. Len(s.path) : s.path[k] = Visits(g.f, g.vals)[k].block
  BY DEF ThreadOK, Trodden
<1> QED BY <1>1 DEF Went

LEMMA BothPassed ==
  ASSUME NEW g, Settled(g), HostOK(g), NEW th, NEW sl, NEW re, NEW rs, NEW me, NEW ou,
         CallEnded(g, th, sl, re, rs, me, ou), NEW p \in g.launched, NEW q \in g.launched,
         NEW b \in Blocks(g.f), NEW n \in DOMAIN g.code[p][b], NEW m \in DOMAIN g.code[q][b],
         IsComm(g.code[p][b][n]), IsComm(g.code[q][b][m])
  PROVE  Passed(th[p], b, n) = Passed(th[q], b, m)
<1>1. /\ p \in DOMAIN g.code /\ ThreadOK(g, p, th[p]) /\ Spot(g, p, th[p]).do = "ret" /\ Final(g, th[p]).op = "ret"
  BY BothDone
<1>2. /\ q \in DOMAIN g.code /\ ThreadOK(g, q, th[q]) /\ Spot(g, q, th[q]).do = "ret" /\ Final(g, th[q]).op = "ret"
  BY BothDone
<1>3. Len(th[p].path) = Len(th[q].path)
  BY <1>1, <1>2, SameEnd
<1>4. Passed(th[p], b, n) = Went(th[p], b)
  BY <1>1, AllPassed
<1>5. Passed(th[q], b, m) = Went(th[q], b)
  BY <1>2, AllPassed
<1>6. Went(th[p], b) = Went(th[q], b)
  BY <1>1, <1>2, <1>3, SamePassed
<1> QED BY <1>4, <1>5, <1>6

\* Item n of partition p's copy of block b is a send, item m of q's its receive.
Joined(g, p, q, b, n, m) ==
  /\ b \in Blocks(g.f) /\ n \in DOMAIN g.code[p][b] /\ m \in DOMAIN g.code[q][b]
  /\ g.code[p][b][n].do = "send" /\ g.code[p][b][n].peer = q
  /\ Partner(g.code[p][b][n], g.code[q][b][m], p) /\ IsComm(g.code[q][b][m])

\* After the call, the address of a message between launched partitions is free.
LEMMA DrainedAt ==
  ASSUME NEW g, Settled(g), HostOK(g), NEW th, NEW sl, NEW re, NEW rs, NEW me, NEW ou,
         CallEnded(g, th, sl, re, rs, me, ou), NEW p \in g.launched, NEW q \in g.launched,
         NEW b, NEW n, NEW m, Joined(g, p, q, b, n, m)
  PROVE  sl[g.code[p][b][n].at] = Empty
<1>1. Passed(th[p], b, n) = Passed(th[q], b, m)
  BY BothPassed DEF IsComm, Joined
<1>2. p \in DOMAIN g.code /\ Channels(g, th, sl)
  BY DEF HostOK, CallEnded, Progress
<1>3. Channel(g, th[p], th[q], sl[g.code[p][b][n].at], b, n, m, g.code[p][b][n])
  BY <1>2 DEF Channels, Joined
<1> QED BY <1>1, <1>3 DEF Channel

LEMMA CommPartner ==
  ASSUME NEW g, Settled(g), NEW p \in DOMAIN g.code, NEW b \in Blocks(g.f), NEW n \in DOMAIN g.code[p][b],
         NEW i, i = g.code[p][b][n], IsComm(i)
  PROVE  /\ i.peer \in DOMAIN g.code /\ i.peer # p
         /\ \E m \in DOMAIN g.code[i.peer][b] : Partner(i, g.code[i.peer][b][m], p)
BY CommItem

LEMMA OngoingDrained ==
  ASSUME Ongoing, PeersLaunched
  PROVE  Drained
<1> DEFINE g == Session
<1>1. /\ Settled(g) /\ HostOK(g) /\ Progress(g, hostNext, thread, slot, ret, result, mem, out)
      /\ g.launched = launched /\ g.f = fn /\ g.code = code /\ g.host = host
  BY SessionFields DEF Ongoing
<1> HIDE DEF g
<1>2. DOMAIN g.code = AllPartitions
  <2>1. g.place = place
    BY SessionFields DEF g
  <2> QED BY <1>1, <2>1 DEF Settled, CodeOK, RowsTyped, Parts, AllPartitions
<1>3. SUFFICES ASSUME hostNext = Len(g.host) + 1, NEW p \in launched, NEW b \in Blocks(fn), NEW n \in DOMAIN g.code[p][b],
                      g.code[p][b][n].do \in {"send", "receive"}
               PROVE  slot[g.code[p][b][n].at] = Empty
  BY <1>1 DEF Drained, Finished
<1>4. CallEnded(g, thread, slot, ret, result, mem, out)
  BY <1>1, <1>3 DEF CallEnded
<1>a. PICK i : i = g.code[p][b][n]
  OBVIOUS
<1>5. p \in DOMAIN g.code /\ b \in Blocks(g.f) /\ IsComm(i)
  BY <1>1, <1>3, <1>a DEF HostOK, IsComm
<1>b. PICK q : q = i.peer
  OBVIOUS
<1>7. q \in DOMAIN g.code /\ q # p
  BY <1>1, <1>a, <1>b, <1>5, CommPartner
<1>6. PICK m \in DOMAIN g.code[q][b] : Partner(i, g.code[q][b][m], p)
  BY <1>1, <1>a, <1>b, <1>5, CommPartner
<1>c. PICK j : j = g.code[q][b][m]
  OBVIOUS
<1>8. /\ IsComm(j) /\ j.at = i.at /\ j.peer = p /\ (i.do = "send" => j.do = "receive")
      /\ (i.do = "receive" => j.do = "send") /\ Partner(j, i, q)
  <2>1. Partner(i, j, p)
    BY <1>6, <1>c
  <2>2. Partner(j, i, q)
    BY <1>b, <2>1 DEF Partner
  <2> QED BY <2>1, <2>2, PartnerFacts
<1>9. q \in launched /\ p \in g.launched /\ q \in g.launched
  <2>1. phase = "done" /\ launched \subseteq AllPartitions
    BY <1>1, <1>2 DEF Ongoing, HostOK
  <2>2. q \in launched
    BY <1>1, <1>2, <1>3, <1>5, <1>6, <1>7, <1>8, <1>a, <1>b, <1>c, <2>1 DEF PeersLaunched
  <2> QED BY <1>1, <1>3, <2>2
<1>14. CASE i.do = "send"
  <2>1. Joined(g, p, q, b, n, m)
    BY <1>3, <1>5, <1>6, <1>8, <1>14, <1>a, <1>b, <1>c DEF Joined
  <2> QED BY <1>1, <1>4, <1>9, <2>1, DrainedAt
<1>15. CASE i.do = "receive"
  <2>1. j.do = "send"
    BY <1>8, <1>15
  <2>2. Joined(g, q, p, b, m, n)
    BY <1>3, <1>5, <1>6, <1>8, <2>1, <1>a, <1>b, <1>c DEF Joined
  <2>3. slot[g.code[q][b][m].at] = Empty
    BY <1>1, <1>4, <1>9, <2>2, DrainedAt
  <2> QED BY <1>8, <2>3, <1>a, <1>c
<1> QED BY <1>3, <1>14, <1>15, <1>a

\* After the call all threads have taken the path of the function to its return.
LEMMA EndsMeet ==
  ASSUME NEW g, Settled(g), NEW p \in DOMAIN g.code, NEW q \in DOMAIN g.code, NEW t, NEW s,
         ThreadOK(g, p, t), ThreadOK(g, q, s), Final(g, t).op = "ret", Final(g, s).op = "ret"
  PROVE  End(g, t) = End(g, s) /\ Final(g, t) = Final(g, s)
<1>1. Len(t.path) = Len(s.path) /\ t.block = s.block
  BY SameEnd
<1> QED BY <1>1 DEF End, Final

LEMMA EndMemory ==
  ASSUME NEW g, Settled(g), HostOK(g), NEW th, NEW sl, NEW re, NEW rs, NEW me, NEW ou,
         CallEnded(g, th, sl, re, rs, me, ou), NEW p \in g.launched
  PROVE  me = End(g, th[p]).mem
<1>1. \A q \in g.launched : Holding(g.f, g.place, q, {"load", "store"}) => me = End(g, th[q]).mem
  <2> SUFFICES ASSUME NEW q \in g.launched, Holding(g.f, g.place, q, {"load", "store"})
               PROVE  me = End(g, th[q]).mem
    OBVIOUS
  <2>1. Tracks(g, q, th[q], me, ou) /\ Now(g, q, th[q]) = End(g, th[q])
    BY BothDone
  <2>2. State(th[q].block, th[q].env, me, ou).mem = Now(g, q, th[q]).mem
    BY <2>1 DEF Tracks, Agree
  <2> QED BY <2>1, <2>2 DEF State
<1>2. CASE \E i \in Instrs(g.f) : i.op \in {"load", "store"}
  <2>1. PICK i \in Instrs(g.f) : i.op \in {"load", "store"}
    BY <1>2
  <2>2. g.place[i.name] = 0
    BY <2>1, PlaceFacts
  <2>3. 0 \in g.launched
    BY <2>1, <2>2 DEF HostOK
  <2>4. Holding(g.f, g.place, 0, {"load", "store"})
    BY PlaceFacts DEF Holding
  <2>5. me = End(g, th[0]).mem
    BY <1>1, <2>3, <2>4
  <2>6. p \in DOMAIN g.code /\ ThreadOK(g, p, th[p]) /\ Final(g, th[p]).op = "ret"
    BY BothDone
  <2>7. 0 \in DOMAIN g.code /\ ThreadOK(g, 0, th[0]) /\ Final(g, th[0]).op = "ret"
    BY <2>3, BothDone
  <2>8. End(g, th[p]) = End(g, th[0])
    BY <2>6, <2>7, EndsMeet
  <2> QED BY <2>5, <2>8
<1>3. CASE ~\E i \in Instrs(g.f) : i.op \in {"load", "store"}
  <2>1. Holding(g.f, g.place, p, {"load", "store"})
    BY <1>3 DEF Holding
  <2> QED BY <1>1, <2>1
<1> QED BY <1>2, <1>3

LEMMA EndCalls ==
  ASSUME NEW g, Settled(g), HostOK(g), NEW th, NEW sl, NEW re, NEW rs, NEW me, NEW ou,
         CallEnded(g, th, sl, re, rs, me, ou), NEW p \in g.launched,
         NEW x, Holding(g.f, g.place, x, {"call"})
  PROVE  ou = End(g, th[p]).out
<1>1. \A q \in g.launched : Holding(g.f, g.place, q, {"call"}) => ou = End(g, th[q]).out
  <2> SUFFICES ASSUME NEW q \in g.launched, Holding(g.f, g.place, q, {"call"})
               PROVE  ou = End(g, th[q]).out
    OBVIOUS
  <2>1. Tracks(g, q, th[q], me, ou) /\ Now(g, q, th[q]) = End(g, th[q])
    BY BothDone
  <2>2. State(th[q].block, th[q].env, me, ou).out = Now(g, q, th[q]).out
    BY <2>1 DEF Tracks, Agree
  <2> QED BY <2>1, <2>2 DEF State
<1>2. CASE \E i \in Instrs(g.f) : i.op = "call"
  <2>1. PICK i \in Instrs(g.f) : i.op = "call"
    BY <1>2
  <2>2. g.place[i.name] = x
    BY <2>1 DEF Holding
  <2>3. x \in g.launched
    BY <2>1, <2>2 DEF HostOK
  <2>5. ou = End(g, th[x]).out
    BY <1>1, <2>3
  <2>6. p \in DOMAIN g.code /\ ThreadOK(g, p, th[p]) /\ Final(g, th[p]).op = "ret"
    BY BothDone
  <2>7. x \in DOMAIN g.code /\ ThreadOK(g, x, th[x]) /\ Final(g, th[x]).op = "ret"
    BY <2>3, BothDone
  <2>8. End(g, th[p]) = End(g, th[x])
    BY <2>6, <2>7, EndsMeet
  <2> QED BY <2>5, <2>8
<1>3. CASE ~\E i \in Instrs(g.f) : i.op = "call"
  <2>1. Holding(g.f, g.place, p, {"call"})
    BY <1>3 DEF Holding
  <2> QED BY <1>1, <2>1
<1> QED BY <1>2, <1>3

LEMMA EndResult ==
  ASSUME NEW g, Settled(g), HostOK(g), NEW th, NEW sl, NEW re, NEW rs, NEW me, NEW ou,
         CallEnded(g, th, sl, re, rs, me, ou), NEW p \in g.launched
  PROVE  rs = IF Final(g, th[p]).args = <<>> THEN Empty
              ELSE Read(g.f, End(g, th[p]).env, Value(Final(g, th[p]).args[1]))
<1>1. p \in DOMAIN g.code /\ ThreadOK(g, p, th[p]) /\ Final(g, th[p]).op = "ret"
  BY BothDone
<1>2. /\ re # Empty => Returned(g, th, re)
      /\ rs # Empty => rs = re
      /\ \A n \in DOMAIN g.host : n < Len(g.host) + 1 /\ g.host[n].do = "receive_return" => rs # Empty
  BY DEF CallEnded, Progress
<1>3. ASSUME rs # Empty
      PROVE  /\ Final(g, th[p]).args # <<>>
             /\ rs = Read(g.f, End(g, th[p]).env, Value(Final(g, th[p]).args[1]))
  <2>1. Returned(g, th, rs)
    BY <1>2, <1>3
  <2>2. PICK q \in DOMAIN g.code :
          /\ Final(g, th[q]).op = "ret" /\ Final(g, th[q]).args # <<>>
          /\ rs = Read(g.f, End(g, th[q]).env, Value(Final(g, th[q]).args[1]))
    BY <2>1 DEF Returned
  <2>3. ThreadOK(g, q, th[q])
    BY DEF CallEnded, Progress, Threads
  <2>4. End(g, th[p]) = End(g, th[q]) /\ Final(g, th[p]) = Final(g, th[q])
    BY <1>1, <2>2, <2>3, EndsMeet
  <2> QED BY <2>2, <2>4
<1>4. ASSUME Final(g, th[p]).args # <<>>
      PROVE  rs # Empty
  <2>1. Final(g, th[p]) \in Instrs(g.f)
    <3>1. th[p].block \in Blocks(g.f)
      BY <1>1, RowRange
    <3> QED BY <3>1, BodyFacts DEF Settled, Final
  <2>2. PICK n \in DOMAIN g.host : g.host[n].do = "receive_return"
    BY <1>1, <1>4, <2>1 DEF HostOK
  <2>3. n < Len(g.host) + 1
    BY DEF HostOK
  <2> QED BY <1>2, <2>2, <2>3
<1> QED BY <1>3, <1>4

\* Equivalent without the external calls.
SameResult ==
  Finished => \A p \in launched :
    LET s == AtEnd(fn, Visits(fn, actual)[Len(thread[p].path)])
        i == Last(fn.body[s.block])
    IN  /\ i.op = "ret"
        /\ result = IF i.args = <<>> THEN Empty ELSE Read(fn, s.env, Value(i.args[1]))
        /\ mem = s.mem

LEMMA OngoingResult ==
  ASSUME Ongoing
  PROVE  SameResult
<1> DEFINE g == Session
<1>1. /\ Settled(g) /\ HostOK(g) /\ Progress(g, hostNext, thread, slot, ret, result, mem, out)
      /\ g.launched = launched /\ g.f = fn /\ g.host = host /\ g.vals = actual /\ g.place = place
  BY SessionFields DEF Ongoing
<1> HIDE DEF g
<1>2. SUFFICES ASSUME hostNext = Len(g.host) + 1, NEW p \in launched
               PROVE  LET s == AtEnd(fn, Visits(fn, actual)[Len(thread[p].path)])
                          i == Last(fn.body[s.block])
                      IN  /\ i.op = "ret"
                          /\ result = IF i.args = <<>> THEN Empty ELSE Read(fn, s.env, Value(i.args[1]))
                          /\ mem = s.mem
  BY <1>1 DEF SameResult, Finished
<1>3. CallEnded(g, thread, slot, ret, result, mem, out) /\ p \in g.launched
  BY <1>1, <1>2 DEF CallEnded
<1> DEFINE s == End(g, thread[p])
           i == Final(g, thread[p])
<1>4. i.op = "ret" /\ s.block = thread[p].block
  BY <1>1, <1>3, BothDone
<1>5. result = IF i.args = <<>> THEN Empty ELSE Read(g.f, s.env, Value(i.args[1]))
  BY <1>1, <1>3, EndResult
<1>6. mem = s.mem
  BY <1>1, <1>3, EndMemory
<1>7. s = AtEnd(fn, Visits(fn, actual)[Len(thread[p].path)])
  BY <1>1 DEF End
<1>8. i = Last(fn.body[s.block])
  BY <1>1, <1>4 DEF Final
<1> HIDE DEF s, i
<1> QED BY <1>1, <1>4, <1>5, <1>6, <1>7, <1>8

LEMMA OngoingEquivalent ==
  ASSUME Ongoing, CallsTogether
  PROVE  Equivalent
<1> DEFINE g == Session
<1>1. /\ Settled(g) /\ HostOK(g) /\ Progress(g, hostNext, thread, slot, ret, result, mem, out)
      /\ g.launched = launched /\ g.f = fn /\ g.host = host /\ g.vals = actual /\ g.place = place
  BY SessionFields DEF Ongoing
<1> HIDE DEF g
<1>2. PICK x : Holding(g.f, g.place, x, {"call"})
  BY <1>1 DEF CallsTogether
<1>3. ASSUME Finished, NEW p \in launched
      PROVE  out = AtEnd(fn, Visits(fn, actual)[Len(thread[p].path)]).out
  <2>1. CallEnded(g, thread, slot, ret, result, mem, out) /\ p \in g.launched
    BY <1>1, <1>3 DEF CallEnded, Finished
  <2>2. out = End(g, thread[p]).out
    BY <1>1, <1>2, <2>1, EndCalls
  <2> QED BY <1>1, <2>2 DEF End
<1>4. SameResult
  BY OngoingResult
<1> QED BY <1>3, <1>4 DEF Equivalent, SameResult

------------------------------------------------------------------------------
(* The theorems. *)

\* The compiler leaves the code that the lemmas about a call rely on.
LEMMA EmitInvOutput == EmitInv => EmittedOK
<1> SUFFICES ASSUME EmitInv PROVE EmittedOK
  OBVIOUS
<1>1. ASSUME phase = "done" PROVE Output
  <2>1. /\ Compiling /\ CodeOK(fn, place, argReg, code)
        /\ InRange(fn, argReg, code, 0 .. commsId - 1)
        /\ launched \subseteq Parts(place) /\ HostShape(fn, argReg, host)
        /\ \A i \in Instrs(fn) : i.op \notin {"alloca", "br"} => place[i.name] \in launched
    BY <1>1, EmittedCode
  <2>2. DOMAIN code = Parts(place)
    BY <2>1 DEF CodeOK, RowsTyped
  <2>3. PICK g : g = Session
    OBVIOUS
  <2>4. g.f = fn /\ g.place = place /\ g.code = code /\ g.args = argReg /\ g.host = host /\ g.launched = launched
    BY <2>3, SessionFields
  <2>5. HostOK(g)
    BY <2>1, <2>2, <2>4 DEF HostOK, HostShape
  <2> QED BY <2>1, <2>3, <2>5 DEF Output
<1>2. 0 \notin DOMAIN host
  <2>1. CASE phase = "done"
    <3>1. Len(host) \in Nat /\ DOMAIN host = 1 .. Len(host)
      BY <2>1 DEF EmitInv, HostShape
    <3> QED BY <3>1
  <2>2. CASE phase # "done"
    <3>1. Hosted(Emitted) /\ Emitted.host = host
      BY <2>2 DEF EmitInv, Emitted
    <3>2. PICK S : host \in Seq(S)
      BY <3>1 DEF Hosted
    <3> QED BY <3>2
  <2> QED BY <2>1, <2>2
<1> QED BY <1>1, <1>2 DEF EmittedOK

LEMMA CompilerInvariance == Spec => []EmitInv
<1>1. Init => EmitInv
  BY InitHolds DEF Init
<1>2. [Next]_allVars => [EmitNext]_emitVars
  BY DEF Next, allVars
<1> QED BY <1>1, <1>2, EmitStepKeeps, PTL DEF Spec

\* While the emitted code runs, every thread that follows the path of the
\* function has computed its values, and every address holds the value of the
\* send its receive has not yet taken.
THEOREM CallInvariance == Spec => []RunInv
<1>1. Init => RunInv
  BY RunStart
<1>2. RunInv /\ EmittedOK /\ [Next]_allVars => RunInv'
  BY RunStep
<1> QED BY <1>1, <1>2, EmitInvOutput, CompilerInvariance, PTL DEF Spec

\* The threads of a call never take different paths through the function
\* (SamePath): every partition branches on the condition that was broadcast.
THEOREM PathsAgree == Spec => []SamePath
<1>1. RunInv => SamePath
  <2>1. hostNext > 0 /\ RunInv => SamePath
    BY CallNumber, OngoingSamePath
  <2> QED BY <2>1 DEF SamePath, Called
<1> QED BY <1>1, CallInvariance, PTL

\* When all partitions are started, every address between partitions is free
\* again when the call returns (Drained), so the next call finds them as this
\* one did.
THEOREM Draining ==
  ASSUME LaunchAssumption
  PROVE  Spec => []Drained
<1>1. RunInv /\ PeersLaunched => Drained
  <2>1. hostNext > 0 /\ RunInv /\ PeersLaunched => Drained
    BY CallNumber, OngoingDrained
  <2> QED BY <2>1 DEF Drained, Finished, Called
<1>2. EmitInv => PeersLaunched
  BY AllLaunched DEF PeersLaunched
<1> QED BY <1>1, <1>2, CallInvariance, CompilerInvariance, PTL

\* Whatever the interleaving, a call returns from the block, with the result and
\* with the memory of the function on one thread (SameResult).
THEOREM Results == Spec => []SameResult
<1>1. RunInv => SameResult
  <2>1. hostNext > 0 /\ RunInv => SameResult
    BY CallNumber, OngoingResult
  <2> QED BY <2>1 DEF SameResult, Finished, Called
<1> QED BY <1>1, CallInvariance, PTL

\* Whatever the interleaving, a call that returns has the result, the memory and
\* the external calls of the function on one thread (Equivalent), when the
\* external calls are all on one partition.  Calls on different partitions are not
\* ordered with each other (the TODO of insert_called_function_if_needed).
THEOREM Equivalence == Spec => [](CallsTogether => Equivalent)
<1>1. RunInv /\ CallsTogether => Equivalent
  <2>1. hostNext > 0 /\ RunInv /\ CallsTogether => Equivalent
    BY CallNumber, OngoingEquivalent
  <2> QED BY <2>1 DEF Equivalent, Finished, Called
<1> QED BY <1>1, CallInvariance, PTL
===============================================================================
