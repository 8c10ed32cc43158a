------------------------------- MODULE Options -------------------------------
(***************************************************************************)
(* The command line of the C++ compiler as cxxopts::Options::parse reads   *)
(* it: options are taken out of argv, what is left moves to its front, and *)
(* numbers are read digit by digit in unsigned arithmetic.                 *)
(***************************************************************************)
EXTENDS Integers, SequencesExt

CONSTANTS CommandLines,  \* the command lines, without the name of the program
          Width          \* the bits of an int

ASSUME WidthAssumption == Width \in Nat \ {0}

\* A text is a word; digits, base and sign are those of a text that looks like a
\* number.
IsText(text) == /\ text.digits \in Seq(Nat)
                /\ text.base \in {10, 16}
                /\ text.negative \in BOOLEAN

\* An argument is a text that may be read as options: the names of a
\* group of short options or of a long one, and what is assigned after "=".
\* "word" is none, "malformed" begins with a dash but is none either.
Kinds == {"word", "malformed", "end", "short", "long", "assigned"}

ASSUME CommandLinesAssumption ==
  \A line \in CommandLines :
    /\ line \in Seq(ToSet(line))
    /\ \A k \in DOMAIN line :
         /\ line[k].kind \in Kinds
         /\ IsText(line[k])
         /\ line[k].kind = "assigned" => IsText(line[k].value)
         /\ line[k].kind \in {"short", "long", "assigned"} => Len(line[k].names) > 0

VARIABLES given,     \* the command line; never changes
          argv,      \* the arguments; cells are overwritten with those kept
          argc,
          current,   \* the argument read next
          nextKeep,  \* the cell for the next argument kept
          results,   \* option -> value, for the options given so far
          parse      \* "parsing", "parsed" or "exception"

optVars == <<given, argv, argc, current, nextKeep, results, parse>>

------------------------------------------------------------------------------
(* The options of main, each with a short and a long name. *)

OptionOf == [d |-> "debug", debug |-> "debug", o |-> "out", out |-> "out",
             r |-> "rows", rows |-> "rows", c |-> "columns", columns |-> "columns",
             t |-> "timeout", timeout |-> "timeout", s |-> "strategy", strategy |-> "strategy"]

Numbers == {"rows", "columns", "timeout"}

Default == [debug |-> FALSE, out |-> "hyacpp_output", rows |-> 2, columns |-> 2,
            timeout |-> 1000000, strategy |-> "binary"]

Known(name) == name \in DOMAIN OptionOf

\* Only a flag has a value without an argument.
HasImplicit(name) == OptionOf[name] = "debug"

------------------------------------------------------------------------------
(* integer_parser: the digits, the range, the sign. *)

\* 2^n, up to the number of values of an int; the half of them are negative.
TwoTo == LET power[n \in 0 .. Width] == IF n = 0 THEN 1 ELSE 2 * power[n - 1] IN power
Half  == TwoTo[Width - 1]

\* The digits so far are negative once they cannot be read.
Refused == -1

\* A number that wraps around is refused only if it gets smaller by that.
NextDigit(text, result, digit) ==
  LET next == (result * text.base + digit) % TwoTo[Width]
  IN  IF result = Refused \/ digit >= text.base \/ result > next THEN Refused ELSE next

Unsigned(text) ==
  LET result[n \in 0 .. Len(text.digits)] ==
        IF n = 0 THEN 0 ELSE NextDigit(text, result[n - 1], text.digits[n])
  IN  IF text.digits = <<>> THEN Refused ELSE result[Len(text.digits)]

\* Bug: the least number is out of range.
InRangeSymmetric(text) ==
  Unsigned(text) # Refused /\ Unsigned(text) < Half

\* check_signed_range.
InRange(text) ==
  /\ Unsigned(text) # Refused
  /\ IF text.negative THEN Unsigned(text) <= Half ELSE Unsigned(text) < Half

\* checked_negate.
Signed(text) == IF text.negative THEN -Unsigned(text) ELSE Unsigned(text)

Truthy == {"t", "T", "true", "True", "1"}
Falsy  == {"f", "F", "false", "False", "0"}

\* parse_value for the type of the option.
Parses(option, text) == /\ option \in Numbers => InRange(text)
                        /\ option = "debug" => text.word \in Truthy \cup Falsy

Value(option, text) == CASE option \in Numbers -> Signed(text)
                         [] option = "debug"   -> text.word \in Truthy
                         [] OTHER              -> text.word

------------------------------------------------------------------------------
(* ParseResult::parse. *)

NoResults == [option \in {} |-> 0]

OptInit == /\ given \in CommandLines
           /\ argv = given
           /\ argc = Len(given) + 1
           /\ current = 1
           /\ nextKeep = 1
           /\ results = NoResults
           /\ parse = "parsing"

Arg == argv[current]

\* The last name of a group is the one that may take an argument.
LastName  == Arg.names[Len(Arg.names)]
FlagNames == {Arg.names[k] : k \in 1 .. Len(Arg.names) - 1}

Reading(kinds) == parse = "parsing" /\ current # argc /\ Arg.kind \in kinds

\* parse_option: a later value replaces an earlier one.
Store(stored, option, value) == [o \in DOMAIN stored \cup {option} |->
                                   IF o = option THEN value ELSE stored[o]]

\* The options of a group before the last one are flags.
FlagsStored == IF FlagNames = {} THEN results ELSE Store(results, "debug", TRUE)

FlagsOK == \A name \in FlagNames : Known(name) /\ HasImplicit(name)

\* Not an option: it is kept.
Positional == /\ Reading({"word"})
              /\ argv' = [argv EXCEPT ![nextKeep] = Arg]
              /\ nextKeep' = nextKeep + 1
              /\ current' = current + 1
              /\ UNCHANGED <<given, argc, results, parse>>

\* A flag, or a group of them.
Flag == /\ Reading({"short", "long"})
        /\ FlagsOK /\ Known(LastName) /\ HasImplicit(LastName)
        /\ results' = Store(results, "debug", TRUE)
        /\ current' = current + 1
        /\ UNCHANGED <<given, argv, argc, nextKeep, parse>>

WithValue == /\ Known(LastName) /\ ~HasImplicit(LastName)
             /\ current + 1 < argc
             /\ Parses(OptionOf[LastName], argv[current + 1])

\* Bug: the value is looked at again.
ValuedOnce == /\ Reading({"short", "long"})
              /\ FlagsOK /\ WithValue
              /\ results' = Store(FlagsStored, OptionOf[LastName],
                                  Value(OptionOf[LastName], argv[current + 1]))
              /\ current' = current + 1
              /\ UNCHANGED <<given, argv, argc, nextKeep, parse>>

\* checked_parse_arg: the next argument is the value, whatever it looks like.
Valued == /\ Reading({"short", "long"})
          /\ FlagsOK /\ WithValue
          /\ results' = Store(FlagsStored, OptionOf[LastName],
                              Value(OptionOf[LastName], argv[current + 1]))
          /\ current' = current + 2
          /\ UNCHANGED <<given, argv, argc, nextKeep, parse>>

\* --name=value.
Assigned == /\ Reading({"assigned"})
            /\ Known(LastName) /\ Parses(OptionOf[LastName], Arg.value)
            /\ results' = Store(results, OptionOf[LastName],
                                Value(OptionOf[LastName], Arg.value))
            /\ current' = current + 1
            /\ UNCHANGED <<given, argv, argc, nextKeep, parse>>

\* An unknown option, a missing or an unreadable value: an exception, which main
\* does not catch.
Incorrect ==
  \/ Arg.kind = "malformed"
  \/ /\ Arg.kind = "assigned"
     /\ Known(LastName) => ~Parses(OptionOf[LastName], Arg.value)
  \/ /\ Arg.kind \in {"short", "long"}
     /\ FlagsOK /\ Known(LastName) => ~HasImplicit(LastName) /\ ~WithValue

ParseException == /\ Reading(Kinds)
                  /\ Incorrect
                  /\ parse' = "exception"
                  /\ UNCHANGED <<given, argv, argc, current, nextKeep, results>>

\* What follows "--" is kept as it is.
Rest == IF current = argc THEN <<>> ELSE SubSeq(argv, current + 1, argc - 1)

\* The options that are not given have their default values.
WithDefaults == [o \in DOMAIN results \cup DOMAIN Default |->
                   IF o \in DOMAIN results THEN results[o] ELSE Default[o]]

\* All arguments are read, or all before "--".
ParseEnd == /\ parse = "parsing"
            /\ current # argc => Arg.kind = "end"
            /\ argv' = [k \in DOMAIN argv |->
                          IF k \in nextKeep .. nextKeep + Len(Rest) - 1
                          THEN Rest[k - nextKeep + 1] ELSE argv[k]]
            /\ argc' = nextKeep + Len(Rest)
            /\ current' = argc
            /\ nextKeep' = nextKeep + Len(Rest)
            /\ results' = WithDefaults
            /\ parse' = "parsed"
            /\ UNCHANGED given

OptNext == \/ Positional \/ Flag \/ Valued \/ Assigned \/ ParseException \/ ParseEnd

OptSafety == OptInit /\ [][OptNext]_optVars

------------------------------------------------------------------------------
(* Properties. *)

\* The meaning of a command line, read from left to right: whether an argument is
\* the value of the option before it, and whether an option stands there.
TakesNext(arg) == /\ arg.kind \in {"short", "long"}
                  /\ Known(arg.names[Len(arg.names)])
                  /\ ~HasImplicit(arg.names[Len(arg.names)])

\* The role of argument k, from that of the one before.
RoleAfter(line, k, before) ==
  IF before \in {"end", "rest"} THEN "rest"
  ELSE IF before = "option" /\ TakesNext(line[k - 1]) THEN "value"
  ELSE CASE line[k].kind \in {"short", "long", "assigned"} -> "option"
         [] line[k].kind = "end"                           -> "end"
         [] OTHER                                          -> "positional"

Roles(line) == LET role[k \in 0 .. Len(line)] ==
                     IF k = 0 THEN "positional" ELSE RoleAfter(line, k, role[k - 1])
               IN  role

\* Of the first k arguments those that are no options and no values.
Kept(line) == LET kept[k \in 0 .. Len(line)] ==
                    IF k = 0 THEN <<>>
                    ELSE IF Roles(line)[k] \in {"positional", "rest"}
                         THEN Append(kept[k - 1], line[k])
                         ELSE kept[k - 1]
              IN  kept

\* After parsing, argv holds the arguments that are no options and no values, in
\* their order: the file the compiler opens is the first of them, wherever it
\* stood (IRReader.cpp:95, 116).
ArgumentsKept == parse = "parsed" => SubSeq(argv, 1, argc - 1) = Kept(given)[Len(given)]

\* The number a text stands for.
Meaning(text) ==
  LET value[n \in 0 .. Len(text.digits)] ==
        IF n = 0 THEN 0 ELSE value[n - 1] * text.base + text.digits[n]
      magnitude == value[Len(text.digits)]
  IN  IF text.negative THEN -magnitude ELSE magnitude

Names(k, option) == /\ Roles(given)[k] = "option"
                    /\ Known(given[k].names[Len(given[k].names)])
                    /\ OptionOf[given[k].names[Len(given[k].names)]] = option

\* The text assigned to the option at k.
Assignment(k) == IF given[k].kind = "assigned" THEN given[k].value ELSE given[k + 1]

Fits(n) == n \in -Half .. Half - 1

\* The last number given for an option is read if it fits an int, however it is
\* written; without one the option has its default.  A number that fits is never
\* refused (cxxopts.hpp:562, 1700).
NumbersRead ==
  \A option \in Numbers :
    LET at == {k \in DOMAIN given : Names(k, option)}
    IN  /\ parse = "parsed" /\ at = {} => results[option] = Default[option]
        /\ parse = "parsed" /\ at # {} /\ Fits(Meaning(Assignment(Max(at)))) =>
             results[option] = Meaning(Assignment(Max(at)))
        /\ parse = "exception" /\ current \in at /\ FlagsOK =>
             \/ Arg.kind # "assigned" /\ current = Len(given)
             \/ Assignment(current).digits = <<>>
             \/ \E k \in DOMAIN Assignment(current).digits :
                  Assignment(current).digits[k] >= Assignment(current).base
             \/ ~Fits(Meaning(Assignment(current)))

\* What has not been read has not been overwritten.
UnreadKept == parse = "parsing" =>
                /\ nextKeep <= current
                /\ \A k \in current .. argc - 1 : argv[k] = given[k]
==============================================================================
