------------------------------ MODULE ParseOptions ------------------------------
(***************************************************************************)
(* The command lines of bench_psi and psi_demo and the loop that reads     *)
(* them (src/util/parse_options.cpp).                                      *)
(*                                                                         *)
(* An argument is a pair of its kind and its text: <<"opt", c>> is "-c"    *)
(* for a letter c, <<"num", n>> starts with a digit, <<"word", w>> is any  *)
(* other.  The state of the loop is a record: args, what is left of argv;  *)
(* result, the options counted; set, the options seen; val, the variables  *)
(* that the table of options points to.                                    *)
(***************************************************************************)
EXTENDS Integers, Sequences, FiniteSets

Argument == ({"opt", "word"} \X STRING) \cup ({"num"} \X Nat)

Option(name, type, required) == [name |-> name, type |-> type, required |-> required]

(* The tables of read_bench_options and read_psi_demo_options. *)
BenchOptions ==
  {Option("r", "num", TRUE), Option("p", "num", TRUE), Option("n", "num", TRUE),
   Option("b", "num", TRUE), Option("s", "num", FALSE), Option("a", "str", FALSE),
   Option("o", "num", FALSE), Option("t", "num", FALSE), Option("c", "num", FALSE),
   Option("e", "double", FALSE), Option("y", "flag", FALSE), Option("f", "flag", FALSE),
   Option("d", "flag", FALSE)}

DemoOptions ==
  {Option("r", "num", TRUE), Option("p", "num", TRUE), Option("f", "str", TRUE),
   Option("a", "str", FALSE), Option("n", "num", FALSE), Option("t", "flag", FALSE)}

(* A variable without an initial value. *)
Unset == -1

(* What the variables hold before the arguments are read. *)
BenchDefaults == [r |-> 0, p |-> 0, n |-> 0, b |-> 4, s |-> 128, a |-> "127.0.0.1", o |-> 0,
                  t |-> 1, c |-> 2, e |-> 12, y |-> FALSE, f |-> FALSE, d |-> FALSE]

DemoDefaults == [r |-> Unset, p |-> 0, f |-> "", a |-> "127.0.0.1", n |-> 0, t |-> FALSE]

ParseInit(argv, defaults) ==
  [args |-> argv, result |-> 0, set |-> {}, val |-> defaults]

(* The loop ends: no argument is left, or the next one is no option. *)
Stopped(s) == s.args # <<>> => s.args[1][1] # "opt"

AsksHelp(s) == s.args[1][2] = "h"

(* The entries of the table for the next argument: one, or none when it is unknown. *)
Matching(options, s) == {o \in options : o.name = s.args[1][2]}

(* The argument behind the option is read without a look at argc: behind the last one it
   is a null pointer. *)
ReadsBeyond(o, s) == o.type # "flag" /\ Len(s.args) = 1

(* The argument behind the option is its value; a number has to look like one. *)
TakesValue(o, s) == o.type \in {"str", "double"} \/ (o.type = "num" /\ s.args[2][1] = "num")

(* The option o is read. *)
Parsed(o, s) ==
  LET takes == TakesValue(o, s) IN
  [args   |-> SubSeq(s.args, IF takes THEN 3 ELSE 2, Len(s.args)),
   result |-> s.result + 1,
   set    |-> s.set \cup {o.name},
   val    |-> [s.val EXCEPT ![o.name] =
                 IF takes THEN s.args[2][2] ELSE IF o.type = "flag" THEN TRUE ELSE @]]

(* The number of options in any case. *)
AnswerUnchecked(options, argv, s) == s.result

(* What parse_options returns for argv when the loop has ended in s: for an argument that
   is no option the number of options before it, else whether all required ones are set. *)
Answer(options, argv, s) ==
  IF argv = <<>> THEN 0
  ELSE IF s.args # <<>> THEN s.result
  ELSE IF \E o \in options : o.required /\ o.name \notin s.set THEN 0 ELSE 1

================================================================================
