------------------------------- MODULE MCHyacpp -------------------------------
(***************************************************************************)
(* Modules and command lines for Hyacpp.  Numbers have 24 bits: as many as *)
(* the default timeout needs.                                              *)
(***************************************************************************)
EXTENDS Hyacpp

Fn(name, params, blocks) == [name |-> name, params |-> params, blocks |-> blocks]

P(name, blocks) == Fn(<<"_p_", name>>, {}, blocks)

\* A load, an operation on it and an independent one, in the second of two
\* partitioned functions, between functions that are not partitioned.
Expression ==
  [functions |-> <<Fn(<<"main">>, {}, <<<<"k">>>>), P("e", <<<<"q">>>>), Fn(<<"f">>, {}, <<<<"l">>>>),
                   P("f", <<<<"a", "b", "c", "r">>>>)>>,
   opcode |-> [k |-> "add", q |-> "ret", l |-> "add",
               a |-> "load", b |-> "add", c |-> "fmul", r |-> "ret"],
   operands |-> [k |-> {}, q |-> {}, l |-> {}, a |-> {"@g"}, b |-> {"a", "1"}, c |-> {"2"}, r |-> {}],
   pointers |-> {}, aliases |-> {}]

\* The second block uses values of the first and stores to what it loads.
TwoBlocks ==
  [functions |-> <<P("f", <<<<"a", "b", "j">>, <<"d", "s", "e">>>>)>>,
   opcode |-> [a |-> "load", b |-> "fmul", j |-> "br", d |-> "add", s |-> "store", e |-> "fmul"],
   operands |-> [a |-> {"@g"}, b |-> {"2"}, j |-> {}, d |-> {"a"}, s |-> {"d", "@g"}, e |-> {"b"}],
   pointers |-> {}, aliases |-> {{"a", "s"}}]

\* A pointer used in its block and in the next, by loads and for another pointer,
\* and values beside it.
Pointers ==
  [functions |-> <<P("f", <<<<"g", "h", "x">>, <<"l", "n">>>>)>>,
   opcode |-> [g |-> "getelementptr", h |-> "load", x |-> "fmul",
               l |-> "load", n |-> "getelementptr"],
   operands |-> [g |-> {"@g"}, h |-> {"g"}, x |-> {"2"}, l |-> {"g"}, n |-> {"g", "1"}],
   pointers |-> {"g", "n"}, aliases |-> {{"h", "l"}}]

\* The phi of a loop of two blocks and a value the second block computes for it.
Loop ==
  [functions |-> <<P("f", <<<<"p", "z">>, <<"u", "v">>>>)>>,
   opcode |-> [p |-> "phi", z |-> "zext", u |-> "add", v |-> "fmul"],
   operands |-> [p |-> {"u", "1"}, z |-> {"p"}, u |-> {"p"}, v |-> {"z"}],
   pointers |-> {}, aliases |-> {}]

\* Two loads that alias the same store, and a function with a parameter.
Aliases ==
  [functions |-> <<Fn(<<"_p_", "f">>, {"x"}, <<<<"a", "b">>, <<"s", "t">>>>)>>,
   opcode |-> [a |-> "load", b |-> "load", s |-> "store", t |-> "add"],
   operands |-> [a |-> {"x"}, b |-> {"x"}, s |-> {"x"}, t |-> {"x"}],
   pointers |-> {}, aliases |-> {{"a", "s"}, {"b", "s"}}]

MCFiles == [expression |-> Expression, two_blocks |-> TwoBlocks, pointers |-> Pointers,
            loop |-> Loop, aliases |-> Aliases]

\* An operand may be told on a partition, the other or none, ready at the time 0
\* that is meant, before it or after the end of every block.
MCRemains == {[partition |-> p, endTime |-> e] : <<p, e>> \in
                {<<0, 0>>, <<1, 0>>, <<2, 0>>, <<0, -1>>, <<1, 7>>}}

MCSkeletons == {<<>>, <<<<"send">>, <<"receive">>>>}

------------------------------------------------------------------------------
Numeral(word, digits, base, negative) ==
  [kind |-> "word", names |-> <<>>, word |-> word, digits |-> digits, base |-> base,
   negative |-> negative]

Word(word)     == Numeral(word, <<>>, 10, FALSE)
Decimal(n, digits) == Numeral(n, digits, 10, FALSE)
One            == Decimal("1", <<1>>)
Two            == Decimal("2", <<2>>)

\* An argument that begins with a dash is text for the option before it.
Option(kind, names) == [Word("-") EXCEPT !.kind = kind, !.names = names]
Short(names)        == Option("short", names)
Long(name)          == Option("long", <<name>>)
Assign(name, text)  == Option("assigned", <<name>>) @@ [value |-> text]
MinusOne            == [Numeral("-1", <<1>>, 10, TRUE) EXCEPT !.kind = "short", !.names = <<"1">>]
End1                == Option("end", <<>>)

Tiles   == <<Short(<<"r">>), One, Assign("columns", Two)>>
Single  == <<Short(<<"d", "r">>), One, Long("columns"), One>>

\* The numbers at the limits: 2^23 - 1 and 2^23 in hexadecimal, one that gets
\* smaller when it wraps around and one that does not.
Largest  == Numeral("0x7fffff", <<7, 15, 15, 15, 15, 15>>, 16, FALSE)
Least    == [Numeral("-0x800000", <<8, 0, 0, 0, 0, 0>>, 16, TRUE) EXCEPT !.kind = "malformed"]
TooLarge == Numeral("0x800000", <<8, 0, 0, 0, 0, 0>>, 16, FALSE)
Carried  == Numeral("0xf00000f", <<15, 0, 0, 0, 0, 0, 15>>, 16, FALSE)
Wrapped   == Numeral("20000000", <<2, 0, 0, 0, 0, 0, 0, 0>>, 10, FALSE)

Searches == {Tiles \o <<Word(file), Long("strategy"), Word(strategy)>> :
               file \in DOMAIN MCFiles, strategy \in {"binary", "linear"}}

\* The timeout has no other effect than that queries time out.
Timeouts == {Single \o <<Assign("timeout", text), Word("loop")>> :
               text \in {Largest, Least, TooLarge, Carried, Wrapped, Word("soon")}}

Others ==
  { <<>>,
    <<Word("absent")>>,
    <<Word("loop"), Short(<<"r">>)>>,
    <<Long("tiles"), Two, Word("loop")>>,
    <<Short(<<"r", "d">>), Two>>,
    <<Assign("rows", One), Word("loop"), Assign("rows", MinusOne)>>,
    <<Short(<<"r">>), MinusOne, Word("loop"), Short(<<"c">>), One, Short(<<"c">>), Two>>,
    <<Long("out"), Word("loop"), Long("debug")>>,
    <<Short(<<"o">>), Short(<<"d">>), Word("absent"), Word("loop")>>,
    Single \o <<Word("loop"), End1, Short(<<"d">>), Word("absent")>>,
    Single \o <<Assign("debug", Word("maybe")), Word("loop")>>,
    Single \o <<Long("timeout"), Least, Assign("strategy", Word("fastest")), Word("loop")>> }

MCCommandLines == Searches \cup Timeouts \cup Others
==============================================================================
